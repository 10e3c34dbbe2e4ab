------------------------- MODULE MCDriverRegistration -------------------------
(* Bounded instances of DriverRegistration for TLC.                            *)
EXTENDS DriverRegistration

===============================================================================
