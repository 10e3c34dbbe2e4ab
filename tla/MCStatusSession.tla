--------------------------- MODULE MCStatusSession ---------------------------
(* Bounded instance of StatusSession for TLC.                              *)
EXTENDS StatusSession

\* Host implementations are interchangeable.
TargetSymmetry == Permutations(Targets)
=============================================================================
