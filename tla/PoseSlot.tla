------------------------------ MODULE PoseSlot ------------------------------
(***************************************************************************)
(* What one tracker's slot does with the coordinates of a pose: filterPose() *)
(* and RunFrame() of src/driver/server_provider.cpp around PoseAdapter       *)
(* (src/driver/pose_adapter.cpp, include/pose_anchor/math.hpp).  The filter  *)
(* works in world coordinates; the host gets driver coordinates and composes *)
(*     world from driver  *  pose  *  driver from head.                      *)
(*                                                                         *)
(* Numbers are integers.  A quaternion stands for the unit quaternion in its *)
(* direction; those used turn a cube onto itself, so rotated vectors are     *)
(* integral, and they do not commute.  A vector is <<x, y, z>>, a quaternion *)
(* <<w, x, y, z>>.  The four rates turn alike and are one vector here.       *)
(* The filter is any filter that passes a sample through or answers with a   *)
(* pose it has kept and, while it has none, calls every sample invalid: a    *)
(* bad one without a change to the pose.  Locks and generations are          *)
(* PoseForwarding's, malformed numbers of the pose itself PoseFilter's.      *)
(***************************************************************************)
EXTENDS Integers, Sequences

CONSTANTS Bodies,    \* position, orientation and rates that drivers report
          Spaces,    \* world-from-driver transforms
          Heads,     \* driver-from-head transforms
          Tolerance, \* a shift of a transform that is not a change
          Unusable,  \* a transform whose numbers cannot be used
          Nothing    \* no pose

ASSUME SlotAssumption == Unusable \notin Spaces \cup Heads /\ Tolerance \in Nat

(***************************************************************************)
(* math.hpp.                                                               *)
(***************************************************************************)
Plus(a, b) == [i \in 1 .. 3 |-> a[i] + b[i]]
Minus(a, b) == [i \in 1 .. 3 |-> a[i] - b[i]]
Cross(a, b) == <<a[2] * b[3] - a[3] * b[2], a[3] * b[1] - a[1] * b[3], a[1] * b[2] - a[2] * b[1]>>
Dot(a, b) == a[1] * b[1] + a[2] * b[2] + a[3] * b[3]

Turn(q) == <<q[2], q[3], q[4]>>
Times(p, q) ==
  LET v == Plus(Plus([i \in 1 .. 3 |-> p[1] * q[i + 1]], [i \in 1 .. 3 |-> q[1] * p[i + 1]]),
                Cross(Turn(p), Turn(q)))
  IN <<p[1] * q[1] - Dot(Turn(p), Turn(q))>> \o v
QuatDot(p, q) == p[1] * q[1] + Dot(Turn(p), Turn(q))
Conjugate(q) == <<q[1], -q[2], -q[3], -q[4]>>

\* t = 2 u x v;  v + w t + u x t, for the normalised quaternion.
Rotate(q, v) ==
  LET c == Cross(Turn(q), v)
      d == Cross(Turn(q), c)
  IN [i \in 1 .. 3 |-> v[i] + (2 * (q[1] * c[i] + d[i])) \div QuatDot(q, q)]

\* angularDistance() is 0: q and -q are one rotation.
SameRotation(p, q) == QuatDot(p, q) * QuatDot(p, q) = QuatDot(p, p) * QuatDot(q, q)

\* The numbers this module computes with.
Vectors == [1 .. 3 -> Int]
Quaternions == [1 .. 4 -> Int]
CubeTurns == {q \in [1 .. 4 -> {-1, 0, 1}] : QuatDot(q, q) \in {1, 2, 4}}

ASSUME ShapeAssumption ==
  /\ Bodies \subseteq [position : Vectors, orientation : Quaternions, rate : Vectors]
  /\ Spaces \cup Heads \subseteq [rotation : CubeTurns, translation : Vectors]

(***************************************************************************)
(* PoseAdapter.                                                            *)
(***************************************************************************)
Read(transform) == transform # Unusable

\* Further than the tolerance, or turned (any turn used here exceeds 0.1 degrees).
TransformChanged(a, b) ==
  LET shift == Minus(a.translation, b.translation)
  IN Dot(shift, shift) > Tolerance * Tolerance \/ ~SameRotation(a.rotation, b.rotation)

Body(position, orientation, rate) ==
  [position |-> position, orientation |-> orientation, rate |-> rate]
SameBody(a, b) ==
  a.position = b.position /\ a.rate = b.rate /\ SameRotation(a.orientation, b.orientation)

\* toSample(): driver coordinates to world coordinates.
ToSample(body, transform) ==
  Body(Plus(Rotate(transform.rotation, body.position), transform.translation),
       Times(transform.rotation, body.orientation),
       Rotate(transform.rotation, body.rate))

\* applyOutput(): and back, with the transform the host is to use.
ApplyOutput(pose, output, transform) ==
  LET driverFromWorld == Conjugate(transform.rotation) IN
  [pose EXCEPT
     !.body = Body(Rotate(driverFromWorld, Minus(output.world.position, transform.translation)),
                   Times(driverFromWorld, output.world.orientation),
                   Rotate(driverFromWorld, output.world.rate)),
     !.space = transform, !.valid = output.valid, !.connected = TRUE]

(***************************************************************************)
(* The slot.                                                               *)
(***************************************************************************)
VARIABLES
  slot,   \* lastDriverPose, transform, driverFromHead, and whether it has them
  kept,   \* the pose the filter may return, with the head it was taken with
  sent,   \* the last pose given to the host
  meant   \* history: what the filter answered for it

poseVars == <<slot, kept, sent, meant>>

\* A pose without a device says nothing else.
Poses ==
  [connected : {TRUE}, valid : BOOLEAN, body : Bodies,
   space : Spaces \cup {Unusable}, head : Heads \cup {Unusable}]
Disconnected == [connected |-> FALSE, valid |-> FALSE,
                 body |-> Body(<<0, 0, 0>>, <<1, 0, 0, 0>>, <<0, 0, 0>>),
                 space |-> Unusable, head |-> Unusable]

Kept(world, head) == [world |-> world, head |-> head]

\* Unusable: hasTransform, hasDriverFromHead, hasDriverPose are false.
Fresh == [lastDriverPose |-> Nothing, transform |-> Unusable, driverFromHead |-> Unusable]

SlotTypeOK ==
  /\ slot.transform \in Spaces \cup {Unusable}
  /\ slot.driverFromHead \in Heads \cup {Unusable}
  /\ slot.lastDriverPose # Nothing =>
       slot.lastDriverPose \in Poses /\ Read(slot.transform) /\ Read(slot.driverFromHead)
  /\ kept # Nothing => Read(slot.transform) /\ Read(slot.driverFromHead)

\* The pose went out without the filter being asked.
Unfiltered == [modified |-> FALSE]

PoseInit == slot = Fresh /\ kept = Nothing /\ sent = Disconnected /\ meant = Unfiltered

\* Init() of a provider that had been cleaned up.
InitSlot == slot' = Fresh /\ kept' = Nothing /\ UNCHANGED <<sent, meant>>

\* The filter starts anew and the pose goes out unfiltered; no prediction follows.
Bypass(pose, transform, head) ==
  /\ slot' = [lastDriverPose |-> Nothing, transform |-> transform, driverFromHead |-> head]
  /\ kept' = Nothing /\ sent' = pose /\ meant' = Unfiltered

BypassNoHead(pose) ==
  /\ ~pose.connected \/ ~Read(pose.head)
  /\ Bypass(pose, Unusable, Unusable)

NeverMoved(old, new) == FALSE
HasMoved(old, new) == Read(old) /\ Read(new) /\ TransformChanged(old, new)

BypassNewHead(pose) ==
  /\ Read(pose.head) /\ HasMoved(slot.driverFromHead, pose.head)
  /\ Bypass(pose, slot.transform, pose.head)

Steady(pose) == Read(pose.head) /\ ~HasMoved(slot.driverFromHead, pose.head)

BypassNewSpace(pose) ==
  /\ Steady(pose) /\ HasMoved(slot.transform, pose.space)
  /\ Bypass(pose, pose.space, pose.head)

BypassNoSpace(pose) ==
  /\ Steady(pose) /\ ~Read(pose.space) /\ ~Read(slot.transform)
  /\ Bypass(pose, slot.transform, pose.head)

Answer(modified, valid, world, head) ==
  [modified |-> modified, valid |-> valid, world |-> world, head |-> head]

\* Warming up: a good sample has to wait, a bad one is called invalid but left alone.
StayCold(sample, good) ==
  kept' = Nothing /\ meant' = Answer(good, FALSE, sample.world, sample.head)

\* Tracking, with or without a repair of the sample.
Accept(sample) ==
  /\ kept' = sample
  /\ \E modified \in BOOLEAN : meant' = Answer(modified, TRUE, sample.world, sample.head)

\* Hold, Recovering, Lost: always an answer of the filter's own.
AnswerFrom(known) ==
  /\ kept' \in known
  /\ \E k \in known, valid \in BOOLEAN : meant' = Answer(TRUE, valid, k.world, k.head)

\* push(): the filter is cold exactly while it has kept nothing; a gap makes it so.
Push(sample, good) ==
  \E memory \in {kept, Nothing} :
    \/ memory = Nothing /\ StayCold(sample, good)
    \/ good /\ Accept(sample)
    \/ memory # Nothing /\ AnswerFrom({memory} \cup (IF good THEN {sample} ELSE {}))

\* A pose in an unusable space is seen in the last good one, but never believed.
Filter(pose) ==
  LET transform == IF Read(pose.space) THEN pose.space ELSE slot.transform IN
  /\ Steady(pose) /\ ~HasMoved(slot.transform, pose.space) /\ Read(transform)
  /\ slot' = [lastDriverPose |-> pose, transform |-> transform, driverFromHead |-> pose.head]
  /\ Push(Kept(ToSample(pose.body, transform), pose.head), pose.valid /\ Read(pose.space))
  /\ sent' = IF meant'.modified THEN ApplyOutput(pose, meant', transform) ELSE pose

FilterPose ==
  \E pose \in Poses \cup {Disconnected} :
    \/ BypassNoHead(pose) \/ BypassNewHead(pose) \/ BypassNewSpace(pose)
    \/ BypassNoSpace(pose) \/ Filter(pose)

\* The watchdog publishes what the filter has kept; an invalid pose is its last.
RunFrame ==
  /\ slot.lastDriverPose # Nothing /\ kept # Nothing
  /\ \E valid \in BOOLEAN :
       /\ meant' = Answer(TRUE, valid, kept.world, kept.head)
       /\ slot' = IF valid THEN slot ELSE [slot EXCEPT !.lastDriverPose = Nothing]
  /\ sent' = ApplyOutput(slot.lastDriverPose, meant', slot.transform)
  /\ UNCHANGED kept

PoseNext == InitSlot \/ FilterPose \/ RunFrame

PoseSpec == PoseInit /\ [][PoseNext]_poseVars

(***************************************************************************)
(* Properties.                                                             *)
(***************************************************************************)

\* Of every pose the filter was asked about, changed or not: in a usable space
\* the host puts the tracker exactly where the filter says, turned and moving as
\* it says, and believes it exactly if the filter does, whatever calibrations,
\* malformed transforms and silences came before.  In an unusable one it sees
\* only what a cold filter called invalid and left as it came, which may be a
\* pose the driver calls valid.  The host appends the head transform that a
\* valid pose was taken with, as long as heads do not creep by less than the
\* tolerance at a time (PoseAdapter, filterPose(), RunFrame(), handleCold()).
HostSeesFilterOutput ==
  meant # Unfiltered =>
    /\ Read(sent.space) =>
         SameBody(ToSample(sent.body, sent.space), meant.world) /\ sent.valid = meant.valid
    /\ ~Read(sent.space) => ~meant.modified /\ ~meant.valid /\ kept = Nothing
    /\ meant.valid => ~TransformChanged(meant.head, sent.head)

=============================================================================
