----------------------------- MODULE MCPoseFilter -----------------------------
(* Bounded instances of PoseFilter for TLC.                                *)
EXTENDS PoseFilter

\* Kinematic stamps equal to the arrival stamps.
NoOffset == {0}
\* Stamps that lag by one unit, or lead by one (within the silence floor).
JitterOffsets == {-1, 1}
\* A constant lead beyond the silence floor: +30..50 ms against 25 ms.
LeadOffset == {2}
\* Positions that fall on both sides of every gate: 0-2 inside the candidate gate
\* only, 2-7 inside the envelope, 0-7 beyond it.
Places == {0, 2, 7}
NearPlaces == {0, 2}
AtRest == {0}
\* A tracker that moves, faster than the hard limit of that run.
Moving == {0, 2}
===============================================================================
