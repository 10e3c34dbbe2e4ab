--------------------------- MODULE MCPoseForwarding ---------------------------
(* Bounded instances of PoseForwarding for TLC.                            *)
EXTENDS PoseForwarding, TLC

\* Callers are interchangeable.
CallerSymmetry == Permutations(Callers)

NoFaults == {}
FilterFault == {"filter"}
LockAndHostFaults == {"lock", "host"}
===============================================================================
