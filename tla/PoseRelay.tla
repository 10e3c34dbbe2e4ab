------------------------------ MODULE PoseRelay ------------------------------
(* What the driver promises the host about the poses it sends, whatever       *)
(* threads, locks and hooks are behind them: poses of callbacks go through     *)
(* at any time; a prediction continues the newest pose or another prediction  *)
(* of it; and once the host was told that the tracker is lost, the next thing *)
(* it sees is a callback again.                                               *)
CONSTANT Devices

VARIABLES
  shown, \* per device: the last pose the host was given
  basis  \* per device: a prediction from the newest pose is available

relayVars == <<shown, basis>>

Init == /\ shown = [d \in Devices |-> "none"]
        /\ basis = [d \in Devices |-> FALSE]

\* A callback's pose.  If it is newer than the prediction at hand, that one is void.
Forward(d) ==
  /\ shown' = [shown EXCEPT ![d] = "raw"]
  /\ \E b \in BOOLEAN : basis' = [basis EXCEPT ![d] = @ /\ b]

\* The watchdog predicts from the newest pose there is.
Predict(d) ==
  /\ basis' = [basis EXCEPT ![d] = TRUE]
  /\ UNCHANGED shown

\* A prediction that is not void is shown: held, or lost for the last time.
Show(d) ==
  /\ basis[d] /\ shown[d] \in {"raw", "held"}
  /\ \E p \in {"held", "lost"} : shown' = [shown EXCEPT ![d] = p]
  /\ UNCHANGED basis

Next == \E d \in Devices : Forward(d) \/ Predict(d) \/ Show(d)

Spec == Init /\ [][Next]_relayVars
===============================================================================
