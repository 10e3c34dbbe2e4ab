--------------------------- MODULE MCDeviceRegistry ---------------------------
(* Bounded instances of DeviceRegistry for TLC.                            *)
EXTENDS DeviceRegistry, TLC

\* A generic tracker; what is not said is empty.
Generic(says) == [p \in Props |-> IF p \in DOMAIN says THEN says[p]
                                  ELSE IF p = "class" THEN "match" ELSE "empty"]

Tracker == Generic([system |-> "match", registered |-> "match"])
TrackerByModel == Generic([actual |-> "match", system |-> "other", model |-> "match",
                           maker |-> "match"])
Shim == Generic([actual |-> "other", system |-> "match", controller |-> "match"])
Incomplete == Generic([system |-> "other", maker |-> "pending"])
Headset == [p \in Props |-> "other"]
NoClass == [p \in Props |-> "empty"]

AllIdentities == {Tracker, TrackerByModel, Shim, Incomplete, Headset, NoClass}
JustTracker == {Tracker}

LateIdentity == {"class", "registered", "model"}
LateType == {"registered"}

\* Devices that may turn out to be the same are interchangeable.
DeviceSymmetry == Permutations(Devices)
===============================================================================
