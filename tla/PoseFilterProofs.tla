--------------------------- MODULE PoseFilterProofs ---------------------------
(* Properties of PoseFilter for every configuration that satisfies its        *)
(* assumptions, checked by TLAPS: first the type invariant, then from it that   *)
(* the filter's outputs are safe.                                             *)
EXTENDS PoseFilter, WellFoundedInduction, TLAPS

USE DEF Least, Largest, Clamp, Magnitude, Between, Elapsed, Limited

CallbackType == [kind : {"ok", "malformed", "unavailable"}, pos : Int,
                 vel : -TopSpeed .. TopSpeed, age : Ages]
CandidateType == [count : 0 .. ConfirmSamples, first : 0 .. AgeCap,
                  lastArrival : 0 .. AgeCap, last : SampleType]
RecoveryType == [start : Ages, duration : RecMin .. RecMax, posFix : Int, velFix : Int,
                 last : SampleType]

-------------------------------------------------------------------------------
(* What the arithmetic returns.                                            *)

\* Every callback the environment may deliver has the type the filter expects.
LEMMA SamplesTyped == ASSUME NEW s \in Samples PROVE s \in CallbackType
<1>1. 0 \in -TopSpeed .. TopSpeed
  BY GateAssumption
<1>2. s.age \in Ages
  <2>1. PICK o \in Offsets : s.age = -o
    BY DEF Samples
  <2> QED BY <2>1, AgeCapAssumption DEF Ages
<1>3. CASE s.kind = "ok"
  <2>1. s \in [kind : {"ok"}, pos : Positions, vel : Velocities, age : {-o : o \in Offsets}]
    BY <1>3 DEF Samples
  <2> QED BY <2>1, <1>2, InputAssumption DEF CallbackType
<1>4. CASE s.kind # "ok"
  <2>1. s \in [kind : {"malformed", "unavailable"}, pos : {0}, vel : {0},
               age : {-o : o \in Offsets}]
    BY <1>4 DEF Samples
  <2> QED BY <2>1, <1>1, <1>2 DEF CallbackType
<1> QED BY <1>3, <1>4

\* The dt of every gate is positive.
LEMMA KinDtPositive ==
  ASSUME NEW p \in SampleType, NEW s \in CallbackType
  PROVE  KinDt(p, s) \in Int /\ KinDt(p, s) >= 1
  BY DurationAssumption DEF KinDt, SampleType, CallbackType, Ages

LEMMA StampedTyped ==
  ASSUME NEW s \in CallbackType
  PROVE  Stamped(s) \in SampleType /\ Pose(s) \in PoseType
  BY DEF Stamped, Pose, SampleType, PoseType, CallbackType

\* Repairing a velocity never takes it beyond the reported speed.
LEMMA RepairedTyped ==
  ASSUME NEW p \in SampleType, NEW s \in CallbackType, NEW scale \in Int
  PROVE  /\ Repaired(p, s, scale) \in CallbackType
         /\ Repaired(p, s, scale).kind = s.kind
         /\ Repaired(p, s, scale).pos = s.pos
         /\ Repaired(p, s, scale).age = s.age
<1> DEFINE q == (s.pos - p.pos) \div KinDt(p, s)
           most == Least(Magnitude(s.vel), HardSpeed)
<1>1. q \in Int
  BY KinDtPositive DEF SampleType, CallbackType
<1>2. s.vel \in -TopSpeed .. TopSpeed /\ TopSpeed \in Nat /\ HardSpeed \in Nat
  BY GateAssumption DEF CallbackType
<1>3. most \in 0 .. TopSpeed
  BY <1>2
<1>4. Limited(q, most) \in -TopSpeed .. TopSpeed
  <2> HIDE DEF q, most
  <2> QED BY <1>1, <1>2, <1>3
<1>5. CASE VelocityAnomaly(p, s, scale)
  <2>1. Repaired(p, s, scale) = [s EXCEPT !.vel = Limited(q, most)]
    BY <1>5 DEF Repaired
  <2> HIDE DEF q, most
  <2> QED BY <2>1, <1>4 DEF CallbackType
<1>6. CASE ~VelocityAnomaly(p, s, scale)
  BY <1>6 DEF Repaired
<1> QED BY <1>5, <1>6

LEMMA PredictDampedTyped ==
  ASSUME NEW a \in AnchorType, NEW t \in Int
  PROVE  PredictDamped(a, t) \in PoseType
<1> DEFINE x == a.vel * Least(t, DampTime)
<1>1. x \in Int /\ a.vel \in Int /\ a.pos \in Int /\ MaxHoldShift \in Nat
  BY DurationAssumption, GateAssumption DEF AnchorType
<1>2. Limited(x, MaxHoldShift) \in Int
  <2> HIDE DEF x
  <2> QED BY <1>1
<1> QED BY <1>1, <1>2 DEF PredictDamped, PoseType

LEMMA ElapsedTyped ==
  ASSUME NEW x \in Ages, NEW y \in Ages PROVE Elapsed(x, y) \in Nat
  BY DurationAssumption DEF Ages

LEMMA BlendTyped ==
  ASSUME NEW r \in RecoveryType, NEW s \in CallbackType
  PROVE  Blend(r, s) \in PoseType
<1> DEFINE e == Elapsed(s.age, r.start)
           d == r.duration
           p == r.posFix * (2*e*e*e - 3*e*e*d + d*d*d) + r.velFix * d * (e*e*e - 2*e*e*d + e*d*d)
           v == r.posFix * (6*e*e - 6*e*d) + r.velFix * d * (3*e*e - 4*e*d + d*d)
<1>1. e \in Int
  BY ElapsedTyped DEF RecoveryType, CallbackType
<1>2. d \in Nat \ {0}
  BY DurationAssumption DEF RecoveryType
<1>3. r.posFix \in Int /\ r.velFix \in Int /\ s.pos \in Int /\ s.vel \in Int
  BY GateAssumption DEF RecoveryType, CallbackType
<1>4. p \in Int /\ v \in Int
  <2> HIDE DEF e, d
  <2> QED BY <1>1, <1>2, <1>3
<1>5. d * d * d \in Nat \ {0}
  <2> HIDE DEF d
  <2>1. d * d \in Nat \ {0} BY <1>2
  <2> QED BY <1>2, <2>1
<1>6. p \div (d*d*d) \in Int /\ v \div (d*d*d) \in Int
  <2> HIDE DEF e, d, p, v
  <2> QED BY <1>4, <1>5
<1>7. Blend(r, s) = [pos |-> s.pos + p \div (d*d*d), vel |-> s.vel + v \div (d*d*d)]
  BY DEF Blend
<1> HIDE DEF e, d, p, v
<1> QED BY <1>3, <1>6, <1>7 DEF PoseType

LEMMA RecoveryTyped ==
  ASSUME NEW h \in PoseType, NEW s \in CallbackType
  PROVE  Recovery(h, s) \in RecoveryType
<1> DEFINE p == h.pos - s.pos
           v == h.vel - s.vel
           a == (3 * Magnitude(p)) \div (2 * RecSpeed)
           b == Magnitude(v) \div AccelGate
<1>1. p \in Int /\ v \in Int
  BY GateAssumption DEF PoseType, CallbackType
<1>2. a \in Int /\ b \in Int
  <2> HIDE DEF p, v
  <2> QED BY <1>1, DurationAssumption
<1>3. Clamp(Largest(a, b), RecMin, RecMax) \in RecMin .. RecMax
  <2> HIDE DEF a, b
  <2> QED BY <1>2, DurationAssumption
<1>4. Recovery(h, s) = [start |-> s.age, duration |-> Clamp(Largest(a, b), RecMin, RecMax),
                        posFix |-> p, velFix |-> v, last |-> Stamped(s)]
  BY DEF Recovery
<1> HIDE DEF p, v, a, b
<1> QED BY <1>1, <1>3, <1>4, StampedTyped DEF RecoveryType, CallbackType

LEMMA ParkedTyped ==
  /\ Parked \in SampleType /\ Parked \in AnchorType /\ Pose(Parked) \in PoseType
  /\ NoCandidate \in CandidateType /\ NoRecovery \in RecoveryType
  /\ RunCap \in Nat \ {0} /\ RunSpan \in Nat
<1>1. Parked \in SampleType /\ Parked \in AnchorType
  BY DurationAssumption, GateAssumption DEF Parked, SampleType, AnchorType, Ages
<1>2. Pose(Parked) \in PoseType
  BY DEF Parked, Pose, PoseType
<1>3. NoCandidate \in CandidateType
  BY <1>1, DurationAssumption, CountAssumption DEF NoCandidate, CandidateType
<1>4. NoRecovery \in RecoveryType
  BY <1>1, DurationAssumption DEF NoRecovery, RecoveryType, Ages
<1>5. RunCap \in Nat \ {0} /\ RunSpan \in Nat
  BY DurationAssumption, CountAssumption DEF RunCap, RunSpan
<1> QED BY <1>1, <1>2, <1>3, <1>4, <1>5

LEMMA OutputTyped ==
  ASSUME NEW w \in PoseType, NEW st \in States, NEW v \in BOOLEAN, NEW y \in BOOLEAN,
         NEW m \in BOOLEAN
  PROVE  /\ Output(w, v, y, m, st) \in OutputType
         /\ InvalidOutput(st, w) \in OutputType
         /\ [InvalidOutput(st, w) EXCEPT !.modified = TRUE] \in OutputType
         /\ [Output(w, v, y, m, st) EXCEPT !.connected = FALSE] \in OutputType
<1>1. \A b, c, d \in BOOLEAN : Output(w, b, c, d, st) \in OutputType
  BY DEF Output, OutputType
<1>2. InvalidOutput(st, w) \in OutputType
  <2> DEFINE held == st = "Hold"
             dropped == st \in {"Hold", "Lost"}
  <2>1. InvalidOutput(st, w) = Output(w, FALSE, held, dropped, st)
    BY DEF InvalidOutput
  <2>2. held \in BOOLEAN /\ dropped \in BOOLEAN
    OBVIOUS
  <2> HIDE DEF held, dropped
  <2> QED BY <1>1, <2>1, <2>2
<1>3. \A o \in OutputType : /\ [o EXCEPT !.modified = TRUE] \in OutputType
                            /\ [o EXCEPT !.connected = FALSE] \in OutputType
  BY DEF OutputType
<1> QED BY <1>1, <1>2, <1>3
-------------------------------------------------------------------------------
(* Type correctness.                                                       *)

\* TypeOK alone is not inductive: a Cold filter with a complete warm-up would count
\* beyond warmupGoodSamples.
TypeInv == TypeOK /\ (state = "Cold" => warmup < WarmupGood)

\* What the handlers of push() and tick() may touch, typed.
HandledOK ==
  /\ state' \in States /\ warmup' \in 0 .. WarmupGood
  /\ trusted' \in SampleType /\ anchor' \in AnchorType /\ lostPose' \in PoseType
  /\ cand' \in CandidateType /\ rec' \in RecoveryType /\ out' \in OutputType
  /\ state' = "Cold" => warmup' < WarmupGood

LEMMA HoldOutputTyped ==
  ASSUME TypeInv, NEW a \in AnchorType, NEW t \in Ages, NEW c \in CandidateType,
         HoldOutput(a, t, c)
  PROVE  /\ state' \in {"Hold", "Lost"} /\ anchor' \in AnchorType /\ lostPose' \in PoseType
         /\ cand' \in CandidateType /\ out' \in OutputType
<1>1. /\ PredictDamped(a, HoldTime) \in PoseType
      /\ PredictDamped(a, Elapsed(t, a.age)) \in PoseType
  <2>1. HoldTime \in Int BY DurationAssumption
  <2>2. Elapsed(t, a.age) \in Int BY ElapsedTyped DEF AnchorType
  <2> QED BY <2>1, <2>2, PredictDampedTyped
<1>2. CASE HoldExpired(a, t)
  <2>1. lostPose' \in PoseType
    BY <1>1, <1>2 DEF HoldOutput, TypeInv, TypeOK
  <2> QED BY <1>2, <2>1, OutputTyped, ParkedTyped DEF HoldOutput, States
<1>3. CASE ~HoldExpired(a, t)
  BY <1>1, <1>3, OutputTyped DEF HoldOutput, TypeInv, TypeOK, States
<1> QED BY <1>2, <1>3

LEMMA HandleColdTyped ==
  ASSUME TypeInv, NEW s \in CallbackType, NEW n \in 0 .. WarmupGood, n < WarmupGood,
         NEW p \in SampleType, HandleCold(s, n, p)
  PROVE  HandledOK
<1> DEFINE again == n > 0 /\ Outlier(p, s, 3)
           good == IF n > 0 THEN Repaired(p, s, 3) ELSE s
<1>1. /\ anchor' \in AnchorType /\ rec' \in RecoveryType /\ lostPose' \in PoseType
      /\ cand' \in CandidateType
  BY ParkedTyped DEF HandleCold
<1>2. good \in CallbackType
  BY RepairedTyped
<1>3. Pose(s) \in PoseType /\ Pose(good) \in PoseType /\ Pose(p) \in PoseType
  BY <1>2, StampedTyped, GateAssumption DEF Pose, PoseType, SampleType
<1>4. CASE s.kind # "ok"
  <2>1. ColdInvalid(s, p) \in OutputType
    BY <1>3, OutputTyped DEF ColdInvalid, States
  <2> QED BY <1>1, <1>4, <2>1, CountAssumption DEF HandleCold, HandledOK, WarmupAfterBad, States
<1>5. CASE s.kind = "ok" /\ again
  <2>1. state' = "Cold" /\ warmup' = 1 /\ out' = WaitingOutput(s) /\ trusted' = Stamped(s)
    BY <1>5 DEF HandleCold
  <2>2. WaitingOutput(s) \in OutputType
    BY <1>3, OutputTyped DEF WaitingOutput, States
  <2> QED BY <1>1, <1>5, <2>1, <2>2, StampedTyped, CountAssumption DEF HandledOK, States
<1>6. CASE s.kind = "ok" /\ ~again /\ ~WarmedUp(n + 1)
  <2>1. /\ state' = "Cold" /\ warmup' = n + 1 /\ out' = WaitingOutput(good)
        /\ trusted' = Stamped(good)
    BY <1>6 DEF HandleCold
  <2>2. WaitingOutput(good) \in OutputType
    BY <1>3, OutputTyped DEF WaitingOutput, States
  <2> HIDE DEF good
  <2> QED BY <1>1, <1>2, <1>6, <2>1, <2>2, StampedTyped, CountAssumption
          DEF HandledOK, States, WarmedUp
<1>7. CASE s.kind = "ok" /\ ~again /\ WarmedUp(n + 1)
  <2>1. /\ state' = "Tracking" /\ warmup' = n + 1 /\ out' = RawOutput(good, good # s)
        /\ trusted' = Stamped(good)
    BY <1>7 DEF HandleCold
  <2>2. RawOutput(good, good # s) \in OutputType
    <3> HIDE DEF good
    <3> QED BY <1>3, OutputTyped DEF RawOutput, States
  <2> HIDE DEF good
  <2> QED BY <1>1, <1>2, <2>1, <2>2, StampedTyped, CountAssumption DEF HandledOK, States
<1> QED BY <1>4, <1>5, <1>6, <1>7 DEF HandleCold

LEMMA AcceptTyped ==
  ASSUME TypeInv, NEW s \in CallbackType, NEW m \in BOOLEAN, Accept(s, m), UNCHANGED warmup
  PROVE  HandledOK
<1>1. RawOutput(s, m) \in OutputType /\ Stamped(s) \in SampleType
  BY StampedTyped, OutputTyped DEF RawOutput, States
<1> QED BY <1>1, ParkedTyped DEF Accept, HandledOK, TypeInv, TypeOK, States

\* The samples a hold may be anchored at.
LEMMA AnchorsTyped ==
  ASSUME NEW p \in SampleType PROVE p \in AnchorType
  BY GateAssumption DEF SampleType, AnchorType

LEMMA HoldFromTyped ==
  ASSUME TypeInv, NEW a \in AnchorType, NEW t \in Ages, HoldFrom(a, t), UNCHANGED warmup
  PROVE  HandledOK
<1>1. NoCandidate \in CandidateType /\ Parked \in SampleType /\ NoRecovery \in RecoveryType
  BY ParkedTyped
<1>2. HoldOutput(a, t, NoCandidate) /\ trusted' = Parked /\ rec' = NoRecovery
  BY DEF HoldFrom
<1>3. /\ state' \in {"Hold", "Lost"} /\ anchor' \in AnchorType /\ lostPose' \in PoseType
      /\ cand' \in CandidateType /\ out' \in OutputType
  BY <1>1, <1>2, HoldOutputTyped
<1> QED BY <1>1, <1>2, <1>3 DEF HandledOK, TypeInv, TypeOK, States

LEMMA HandleTrackingTyped ==
  ASSUME TypeInv, NEW s \in CallbackType, HandleTracking(s)
  PROVE  HandledOK
<1> DEFINE good == Repaired(trusted, s, 2)
<1>1. trusted \in SampleType /\ trusted \in AnchorType /\ s.age \in Ages
  BY AnchorsTyped DEF TypeInv, TypeOK, CallbackType
<1>2. good \in CallbackType
  BY <1>1, RepairedTyped
<1>3. CASE HoldFrom(trusted, s.age)
  BY <1>1, <1>3, HoldFromTyped DEF HandleTracking
<1>4. CASE Accept(good, good # s)
  <2> HIDE DEF good
  <2> QED BY <1>2, <1>4, AcceptTyped DEF HandleTracking
<1> QED BY <1>3, <1>4 DEF HandleTracking

LEMMA CandidateTyped ==
  ASSUME TypeInv, NEW s \in CallbackType
  PROVE  /\ UpdatedCandidate(s) \in CandidateType
         /\ [s EXCEPT !.vel = UpdatedCandidate(s).last.vel] \in CallbackType
<1>1. cand \in CandidateType /\ cand.last \in SampleType
  BY DEF TypeInv, TypeOK, CandidateType
<1>2. FreshCandidate(s) \in CandidateType
  BY StampedTyped, DurationAssumption, CountAssumption DEF FreshCandidate, CandidateType
<1>3. ExtendedCandidate(s) \in CandidateType
  <2>1. Stamped(Repaired(cand.last, s, 3)) \in SampleType
    BY <1>1, RepairedTyped, StampedTyped
  <2>2. Least(cand.count + 1, ConfirmSamples) \in 0 .. ConfirmSamples
    BY <1>1, CountAssumption DEF CandidateType
  <2>3. cand.first \in 0 .. AgeCap /\ 0 \in 0 .. AgeCap
    BY <1>1, DurationAssumption DEF CandidateType
  <2> QED BY <2>1, <2>2, <2>3 DEF ExtendedCandidate, CandidateType
<1>4. UpdatedCandidate(s) \in CandidateType
  BY <1>2, <1>3 DEF UpdatedCandidate
<1> QED BY <1>4 DEF CandidateType, SampleType, CallbackType

LEMMA HeldTyped ==
  ASSUME TypeInv, NEW s \in CallbackType
  PROVE  HeldFor(s) \in PoseType
<1>1. anchor \in AnchorType /\ Elapsed(s.age, anchor.age) \in Nat
  BY ElapsedTyped DEF TypeInv, TypeOK, AnchorType, CallbackType
<1>2. Least(Elapsed(s.age, anchor.age), HoldTime) \in Int
  BY <1>1, DurationAssumption
<1> QED BY <1>1, <1>2, PredictDampedTyped DEF HeldFor

LEMMA HandleHoldTyped ==
  ASSUME TypeInv, NEW s \in CallbackType, HandleHold(s)
  PROVE  HandledOK
<1> DEFINE held == HeldFor(s)
           c == UpdatedCandidate(s)
           back == [s EXCEPT !.vel = c.last.vel]
<1>1. held \in PoseType /\ c \in CandidateType /\ back \in CallbackType
  BY HeldTyped, CandidateTyped
<1>2. s.age \in Ages /\ anchor \in AnchorType /\ UNCHANGED warmup
  BY DEF CallbackType, TypeInv, TypeOK, HandleHold
<1>3. CASE \E d \in {c, NoCandidate} : HoldOutput(anchor, s.age, d) /\ UNCHANGED <<trusted, rec>>
  <2>1. PICK d \in CandidateType : HoldOutput(anchor, s.age, d)
    BY <1>1, <1>3, ParkedTyped
  <2>2. /\ state' \in {"Hold", "Lost"} /\ anchor' \in AnchorType /\ lostPose' \in PoseType
        /\ cand' \in CandidateType /\ out' \in OutputType
    BY <1>2, <2>1, HoldOutputTyped
  <2>3. trusted' \in SampleType /\ rec' \in RecoveryType
    BY <1>3 DEF TypeInv, TypeOK, RecoveryType
  <2> QED BY <1>2, <2>2, <2>3 DEF HandledOK, TypeInv, TypeOK, States
<1>4. CASE Accept(s, FALSE)
  BY <1>2, <1>4, AcceptTyped
<1>5. CASE BeginRecovery(held, back)
  <2> HIDE DEF held, c, back
  <2>1. Recovery(held, back) \in RecoveryType
    BY <1>1, RecoveryTyped
  <2>2. Blend(Recovery(held, back), back) \in PoseType
    BY <1>1, <2>1, BlendTyped
  <2>3. Output(Blend(Recovery(held, back), back), TRUE, TRUE, TRUE, "Recovering") \in OutputType
    BY <2>2, OutputTyped DEF States
  <2> QED BY <1>2, <1>5, <2>1, <2>3, ParkedTyped
          DEF BeginRecovery, HandledOK, TypeInv, TypeOK, States
<1> QED BY <1>3, <1>4, <1>5 DEF HandleHold

LEMMA HandleRecoveringTyped ==
  ASSUME TypeInv, NEW s \in CallbackType, state = "Recovering", HandleRecovering(s)
  PROVE  HandledOK
<1> DEFINE good == Repaired(rec.last, s, 3)
           a == [pos |-> out.world.pos, vel |-> out.world.vel, age |-> s.age]
<1>1. rec \in RecoveryType /\ rec.last \in SampleType /\ UNCHANGED warmup
  BY DEF TypeInv, TypeOK, RecoveryType, HandleRecovering
<1>2. good \in CallbackType /\ s.age \in Ages
  <2>1. good \in CallbackType
    BY <1>1, RepairedTyped
  <2> QED BY <2>1 DEF CallbackType
<1>3. a \in AnchorType
  BY DEF TypeInv, TypeOK, OutputType, PoseType, AnchorType, CallbackType
<1>4. CASE HoldFrom(a, s.age)
  BY <1>1, <1>2, <1>3, <1>4, HoldFromTyped
<1>5. CASE Accept(good, good # s)
  <2> HIDE DEF good
  <2> QED BY <1>1, <1>2, <1>5, AcceptTyped
<1>6. CASE /\ rec' = [rec EXCEPT !.last = Stamped(good)]
           /\ out' = Output(Blend(rec, good), TRUE, TRUE, TRUE, "Recovering")
           /\ UNCHANGED <<state, trusted, cand, anchor, lostPose>>
  <2> HIDE DEF good
  <2>1. rec' \in RecoveryType
    BY <1>1, <1>2, <1>6, StampedTyped DEF RecoveryType
  <2>2. out' \in OutputType
    BY <1>1, <1>2, <1>6, BlendTyped, OutputTyped DEF States
  <2>3. cand' \in CandidateType
    BY <1>6 DEF TypeInv, TypeOK, CandidateType
  <2> QED BY <1>1, <1>6, <2>1, <2>2, <2>3 DEF HandledOK, TypeInv, TypeOK
<1> QED BY <1>4, <1>5, <1>6 DEF HandleRecovering

LEMMA HandleLostTyped ==
  ASSUME TypeInv, NEW s \in CallbackType, state = "Lost", HandleLost(s)
  PROVE  HandledOK
<1> DEFINE c == UpdatedCandidate(s)
           back == [s EXCEPT !.vel = c.last.vel]
<1>1. c \in CandidateType /\ back \in CallbackType
  BY CandidateTyped
<1>2. CASE Accept(back, c.last.vel # s.vel)
  <2> HIDE DEF back, c
  <2> QED BY <1>1, <1>2, AcceptTyped DEF HandleLost
<1>3. CASE /\ cand' = IF s.kind = "ok" THEN c ELSE NoCandidate
           /\ out' = InvalidOutput("Lost", lostPose)
           /\ UNCHANGED <<state, trusted, anchor, lostPose, rec>>
  <2>1. cand' \in CandidateType
    BY <1>1, <1>3, ParkedTyped
  <2>2. out' \in OutputType
    BY <1>3, OutputTyped DEF TypeInv, TypeOK, States
  <2>3. UNCHANGED warmup
    BY DEF HandleLost
  <2> HIDE DEF back, c
  <2> QED BY <1>3, <2>1, <2>2, <2>3 DEF HandledOK, TypeInv, TypeOK, RecoveryType
<1> QED BY <1>2, <1>3 DEF HandleLost

\* The history and the clocks a callback leaves behind.
LEMMA RecordTyped ==
  ASSUME TypeInv, NEW s \in CallbackType, Record(s)
  PROVE  /\ arrivalAge' \in 0 .. AgeCap /\ tickAge' \in 0 .. TickGap
         /\ input' \in [kind : {"none", "ok", "malformed", "unavailable"}, pos : Int,
                        vel : -TopSpeed .. TopSpeed, age : Ages]
         /\ run' \in [n : 0 .. RunCap, first : 0 .. RunSpan]
         /\ goods' \in 0 .. WarmupGood /\ holdAge' \in 0 .. AgeCap
<1>1. /\ arrivalAge' \in 0 .. AgeCap /\ tickAge' \in 0 .. TickGap
      /\ input' = s /\ holdAge' \in 0 .. AgeCap
  BY DurationAssumption DEF Record, TypeInv, TypeOK
<1>2. run' \in [n : 0 .. RunCap, first : 0 .. RunSpan]
  <2>1. /\ run.n \in 0 .. RunCap /\ run.first \in 0 .. RunSpan
        /\ run \in [n : 0 .. RunCap, first : 0 .. RunSpan]
    BY DEF TypeInv, TypeOK
  <2>2. CASE run' = NoRun
    BY <2>2, ParkedTyped DEF NoRun
  <2>3. CASE run' = [run EXCEPT !.n = Least(run.n + 1, RunCap)]
    BY <2>1, <2>3, ParkedTyped
  <2>4. CASE run' = [n |-> 1, first |-> 0]
    BY <2>4, ParkedTyped
  <2> QED BY <2>2, <2>3, <2>4 DEF Record
<1>3. goods' \in 0 .. WarmupGood
  BY CountAssumption DEF Record, TypeInv, TypeOK
<1> QED BY <1>1, <1>2, <1>3 DEF CallbackType

LEMMA PushTyped ==
  ASSUME TypeInv, NEW s \in CallbackType, Push(s)
  PROVE  TypeInv'
<1>1. HandledOK
  <2>1. CASE HandleCold(s, 0, Parked)
    BY <2>1, HandleColdTyped, ParkedTyped, CountAssumption
  <2>2. CASE state = "Cold" /\ HandleCold(s, warmup, trusted)
    BY <2>2, HandleColdTyped DEF TypeInv, TypeOK
  <2>3. CASE HandleTracking(s)
    BY <2>3, HandleTrackingTyped
  <2>4. CASE HandleHold(s)
    BY <2>4, HandleHoldTyped
  <2>5. CASE state = "Recovering" /\ HandleRecovering(s)
    BY <2>5, HandleRecoveringTyped
  <2>6. CASE state = "Lost" /\ HandleLost(s)
    BY <2>6, HandleLostTyped
  <2> QED BY <2>1, <2>2, <2>3, <2>4, <2>5, <2>6 DEF Push
<1>2. Record(s)
  BY DEF Push
<1> QED BY <1>1, <1>2, RecordTyped DEF HandledOK, TypeInv, TypeOK, CandidateType, RecoveryType

LEMMA TickTyped ==
  ASSUME TypeInv, Tick
  PROVE  TypeInv'
<1> DEFINE a == [pos |-> out.world.pos, vel |-> out.world.vel, age |-> input.age]
<1>1. a \in AnchorType /\ anchor \in AnchorType /\ 0 \in Ages /\ UNCHANGED warmup
  BY DurationAssumption DEF TypeInv, TypeOK, OutputType, PoseType, AnchorType, Ages, Tick
<1>2. HandledOK
  <2>1. CASE HoldFrom(a, 0)
    BY <1>1, <2>1, HoldFromTyped
  <2>2. CASE HoldOutput(anchor, 0, CandidateAfterTick) /\ UNCHANGED <<trusted, rec>>
    <3>1. CandidateAfterTick \in CandidateType
      BY ParkedTyped DEF CandidateAfterTick
    <3>2. /\ state' \in {"Hold", "Lost"} /\ anchor' \in AnchorType /\ lostPose' \in PoseType
          /\ cand' \in CandidateType /\ out' \in OutputType
      BY <1>1, <2>2, <3>1, HoldOutputTyped
    <3>3. trusted' \in SampleType /\ rec' \in RecoveryType
      BY <2>2 DEF TypeInv, TypeOK, RecoveryType
    <3> QED BY <1>1, <3>2, <3>3 DEF HandledOK, TypeInv, TypeOK, States
  <2> QED BY <2>1, <2>2 DEF Tick
<1>3. /\ tickAge' \in 0 .. TickGap /\ holdAge' \in 0 .. AgeCap
      /\ run' \in [n : 0 .. RunCap, first : 0 .. RunSpan]
      /\ UNCHANGED <<arrivalAge, input, goods>>
  BY ParkedTyped, DurationAssumption DEF Tick, TypeInv, TypeOK, NoRun
<1> QED BY <1>2, <1>3 DEF HandledOK, TypeInv, TypeOK, CandidateType, RecoveryType

\* Ageing keeps every age within the saturation bound.
LEMMA OlderTyped ==
  /\ \A x \in Ages : Older(x) \in Ages /\ Older(x) >= x
  /\ \A x \in 0 .. AgeCap : Older(x) \in 0 .. AgeCap
  /\ \A p \in SampleType : OlderSample(p) \in SampleType
  /\ \A p \in AnchorType : OlderSample(p) \in AnchorType
<1>1. AgeCap \in Nat
  BY DurationAssumption
<1>2. \A x \in Ages : Older(x) \in Ages /\ Older(x) >= x
  BY <1>1 DEF Older, Ages
<1>3. \A x \in 0 .. AgeCap : Older(x) \in 0 .. AgeCap
  BY <1>1 DEF Older
<1>4. \A p \in SampleType : OlderSample(p) \in SampleType
  BY <1>2 DEF OlderSample, SampleType
<1>5. \A p \in AnchorType : OlderSample(p) \in AnchorType
  BY <1>2 DEF OlderSample, AnchorType
<1> QED BY <1>2, <1>3, <1>4, <1>5

LEMMA ElapseTyped ==
  ASSUME TypeInv, Elapse
  PROVE  TypeInv'
<1>1. trusted' \in SampleType /\ anchor' \in AnchorType
  BY OlderTyped DEF Elapse, TypeInv, TypeOK
<1>2. cand' \in CandidateType
  BY OlderTyped DEF Elapse, TypeInv, TypeOK, CandidateType
<1>3. rec' \in RecoveryType
  BY OlderTyped DEF Elapse, TypeInv, TypeOK, RecoveryType
<1>4. arrivalAge' \in 0 .. AgeCap /\ tickAge' \in 0 .. TickGap /\ holdAge' \in 0 .. AgeCap
  BY OlderTyped, DurationAssumption DEF Elapse, TypeInv, TypeOK
<1>5. input' \in [kind : {"none", "ok", "malformed", "unavailable"}, pos : Int,
                  vel : -TopSpeed .. TopSpeed, age : Ages]
  BY OlderTyped DEF Elapse, TypeInv, TypeOK, OlderSample
<1>6. run' \in [n : 0 .. RunCap, first : 0 .. RunSpan]
  BY ParkedTyped DEF Elapse, TypeInv, TypeOK, NoRun
<1>7. UNCHANGED <<state, warmup, lostPose, out, goods>>
  BY DEF Elapse
<1> QED BY <1>1, <1>2, <1>3, <1>4, <1>5, <1>6, <1>7
        DEF TypeInv, TypeOK, CandidateType, RecoveryType

LEMMA RestTyped ==
  /\ DisconnectedOutput \in OutputType
  /\ NoInput \in [kind : {"none", "ok", "malformed", "unavailable"}, pos : Int,
                  vel : -TopSpeed .. TopSpeed, age : Ages]
  /\ NoRun \in [n : 0 .. RunCap, first : 0 .. RunSpan]
<1>1. DisconnectedOutput \in OutputType
  <2>1. [pos |-> 0, vel |-> 0] \in PoseType /\ "Cold" \in States
    BY DEF PoseType, States
  <2> QED BY <2>1, OutputTyped DEF DisconnectedOutput
<1>2. NoInput \in [kind : {"none", "ok", "malformed", "unavailable"}, pos : Int,
                   vel : -TopSpeed .. TopSpeed, age : Ages]
  BY DurationAssumption, GateAssumption DEF NoInput, Ages
<1>3. NoRun \in [n : 0 .. RunCap, first : 0 .. RunSpan]
  BY ParkedTyped DEF NoRun
<1> QED BY <1>1, <1>2, <1>3

LEMMA InitTyped == ASSUME Init PROVE TypeInv
  BY ParkedTyped, RestTyped, DurationAssumption, CountAssumption
     DEF Init, TypeInv, TypeOK, States, NoOutput, CandidateType, RecoveryType

LEMMA DisconnectTyped == ASSUME TypeInv, Disconnect PROVE TypeInv'
  BY ParkedTyped, RestTyped, DurationAssumption, CountAssumption
     DEF Disconnect, TypeInv, TypeOK, States, CandidateType, RecoveryType

LEMMA NextTyped == ASSUME TypeInv, [Next]_vars PROVE TypeInv'
<1>1. CASE \E s \in Samples : Push(s)
  BY <1>1, SamplesTyped, PushTyped
<1>2. CASE UNCHANGED vars
  BY <1>2 DEF vars, TypeInv, TypeOK
<1> QED BY <1>1, <1>2, DisconnectTyped, TickTyped, ElapseTyped DEF Next

\* The strengthened type invariant holds in every reachable state.
THEOREM TypeInvariant == Spec => []TypeInv
  BY InitTyped, NextTyped, PTL DEF Spec

\* Every variable of the filter keeps its type, for every configuration: in
\* particular no stored sample ever carries a velocity beyond the reported ones.
THEOREM TypeCorrectness == Spec => []TypeOK
  BY TypeInvariant, PTL DEF TypeInv

HIDE DEF Clamp, Limited

-------------------------------------------------------------------------------
(* Lost never shows a valid pose, as long as no kinematic stamp leads the      *)
(* arrival clock by more than the silence a tick waits for.                   *)

LeadBounded == \A o \in Offsets : o <= SilenceFloor

\* LostOutputsInvalid is not inductive: a tick in Lost asks the hold anchor again.
\* What keeps its answer invalid is that by the time a tick sees silence the anchor
\* is older than holdSeconds.
LostInv ==
  state = "Lost" =>
    /\ ~out.poseValid
    /\ \/ anchor.age > HoldTime
       \/ anchor.age + SilenceFloor - arrivalAge > HoldTime

\* A callback that drives the filter into Lost leaves an anchor that old.
LEMMA LostByCallback ==
  ASSUME TypeInv, NEW s \in CallbackType, s.age >= -SilenceFloor, NEW a \in AnchorType,
         NEW c, HoldOutput(a, s.age, c), state # "Lost", arrivalAge' = 0
  PROVE  LostInv'
<1>1. CASE HoldExpired(a, s.age)
  <2>1. anchor' = a /\ out'.poseValid = FALSE
    BY <1>1 DEF HoldOutput, InvalidOutput, Output
  <2>2. a.age - s.age > HoldTime
    BY <1>1, DurationAssumption DEF HoldExpired, AnchorType, CallbackType, Ages
  <2> QED BY <2>1, <2>2, DurationAssumption DEF LostInv, AnchorType, CallbackType, Ages
<1>2. CASE ~HoldExpired(a, s.age)
  BY <1>2 DEF HoldOutput, LostInv
<1> QED BY <1>1, <1>2

LEMMA LostInvPush ==
  ASSUME TypeInv, LostInv, NEW s \in CallbackType, s.age >= -SilenceFloor, Push(s)
  PROVE  LostInv'
<1>1. arrivalAge' = 0
  BY DEF Push, Record
<1>2. trusted \in AnchorType /\ anchor \in AnchorType
  BY AnchorsTyped DEF TypeInv, TypeOK
<1>3. CASE \E n, p : HandleCold(s, n, p)
  <2>1. state' \in {"Cold", "Tracking"}
    BY <1>3 DEF HandleCold
  <2> QED BY <2>1 DEF LostInv
<1>4. CASE state = "Tracking" /\ HandleTracking(s)
  <2>1. CASE HoldFrom(trusted, s.age)
    BY <1>1, <1>2, <1>4, <2>1, LostByCallback DEF HoldFrom
  <2>2. CASE state' = "Tracking"
    BY <2>2 DEF LostInv
  <2> QED BY <1>4, <2>1, <2>2 DEF HandleTracking, Accept
<1>5. CASE state = "Hold" /\ HandleHold(s)
  <2>1. CASE \E c : HoldOutput(anchor, s.age, c)
    BY <1>1, <1>2, <1>5, <2>1, LostByCallback
  <2>2. CASE state' \in {"Tracking", "Recovering"}
    BY <2>2 DEF LostInv
  <2> QED BY <1>5, <2>1, <2>2 DEF HandleHold, Accept, BeginRecovery
<1>6. CASE state = "Recovering" /\ HandleRecovering(s)
  <2> DEFINE a == [pos |-> out.world.pos, vel |-> out.world.vel, age |-> s.age]
  <2>1. a \in AnchorType
    BY DEF TypeInv, TypeOK, OutputType, PoseType, AnchorType, CallbackType
  <2>2. CASE HoldFrom(a, s.age)
    BY <1>1, <1>6, <2>1, <2>2, LostByCallback DEF HoldFrom
  <2>3. CASE state' \in {"Tracking", "Recovering"}
    BY <2>3 DEF LostInv
  <2> QED BY <1>6, <2>2, <2>3 DEF HandleRecovering, Accept
<1>7. CASE state = "Lost" /\ HandleLost(s)
  <2>1. CASE state' = "Tracking"
    BY <2>1 DEF LostInv
  <2>2. CASE out' = InvalidOutput("Lost", lostPose) /\ UNCHANGED anchor
    <3>1. anchor.age \in Int /\ arrivalAge \in Nat
      BY DEF TypeInv, TypeOK, AnchorType, Ages
    <3>2. out'.poseValid = FALSE
      BY <2>2 DEF InvalidOutput, Output
    <3> QED BY <1>1, <1>7, <2>2, <3>1, <3>2, DurationAssumption DEF LostInv
  <2> QED BY <1>7, <2>1, <2>2 DEF HandleLost, Accept
<1> QED BY <1>3, <1>4, <1>5, <1>6, <1>7 DEF Push

LEMMA LostInvTick == ASSUME TypeInv, LostInv, Tick PROVE LostInv'
<1>1. UNCHANGED arrivalAge /\ arrivalAge >= SilenceFloor
  BY DEF Tick
<1>2. SUFFICES ASSUME state' = "Lost"
               PROVE  ~out'.poseValid /\ anchor'.age > HoldTime
  BY DEF LostInv
<1>3. PICK a, c : a \in AnchorType /\ HoldOutput(a, 0, c) /\ (state = "Lost" => a = anchor)
  <2>1. [pos |-> out.world.pos, vel |-> out.world.vel, age |-> input.age] \in AnchorType
    BY DEF TypeInv, TypeOK, OutputType, PoseType, AnchorType
  <2>2. anchor \in AnchorType
    BY DEF TypeInv, TypeOK
  <2> QED BY <2>1, <2>2 DEF Tick, HoldFrom, AnchoredByTick
<1>4. HoldExpired(a, 0)
  <2>1. CASE state = "Lost"
    <3>1. anchor.age \in Int /\ arrivalAge \in Nat
      BY DEF TypeInv, TypeOK, AnchorType, Ages
    <3>2. anchor.age > HoldTime
      BY <1>1, <2>1, <3>1, DurationAssumption DEF LostInv
    <3> QED BY <1>3, <2>1, <3>1, <3>2, DurationAssumption DEF HoldExpired
  <2>2. CASE state # "Lost"
    BY <1>2, <1>3, <2>2 DEF HoldOutput
  <2> QED BY <2>1, <2>2
<1>5. anchor' = a /\ a \in AnchorType /\ out'.poseValid = FALSE
  BY <1>3, <1>4 DEF HoldOutput, InvalidOutput, Output
<1> QED BY <1>4, <1>5, DurationAssumption, AgeCapAssumption
     DEF LostInv, HoldExpired, AnchorType, Ages

LEMMA LostInvElapse == ASSUME TypeInv, LostInv, Elapse PROVE LostInv'
<1>1. SUFFICES ASSUME state = "Lost" PROVE LostInv'
  BY DEF LostInv, Elapse
<1>2. UNCHANGED <<state, out>> /\ arrivalAge' = Older(arrivalAge)
  BY DEF Elapse
<1>3. anchor'.age = Older(anchor.age)
  BY DEF Elapse, OlderSample, TypeInv, TypeOK, AnchorType
<1>4. anchor.age \in Int /\ arrivalAge \in 0 .. AgeCap /\ AgeCap \in Nat /\ HoldTime < AgeCap
  BY DurationAssumption, AgeCapAssumption DEF TypeInv, TypeOK, AnchorType, Ages
<1> QED BY <1>1, <1>2, <1>3, <1>4, DurationAssumption DEF LostInv, Older

LEMMA LostInvNext ==
  ASSUME LeadBounded, TypeInv, LostInv, [Next]_vars PROVE LostInv'
<1>1. CASE \E s \in Samples : Push(s)
  <2>1. PICK s \in Samples : Push(s)
    BY <1>1
  <2>2. PICK o \in Offsets : s.age = -o
    BY DEF Samples
  <2>3. o \in Int /\ s.age >= -SilenceFloor
    BY <2>2, InputAssumption, DurationAssumption DEF LeadBounded
  <2> QED BY <2>1, <2>3, SamplesTyped, LostInvPush
<1>2. CASE Disconnect
  BY <1>2 DEF Disconnect, LostInv
<1>3. CASE UNCHANGED vars
  BY <1>3 DEF vars, LostInv
<1> QED BY <1>1, <1>2, <1>3, LostInvTick, LostInvElapse DEF Next

\* In Lost no output is ever valid, whoever asked for it, provided that no callback
\* is stamped further ahead than the silence floor.  The run PoseFilterLead shows
\* that the provision is needed.
THEOREM LostStaysInvalid == ASSUME LeadBounded PROVE Spec => []LostOutputsInvalid
<1>1. Init => LostInv
  BY DEF Init, LostInv
<1>2. LostInv => LostOutputsInvalid
  BY DEF LostInv, LostOutputsInvalid
<1>3. TypeInv /\ TypeInv' /\ LostInv /\ [Next]_vars => LostInv'
  BY LostInvNext
<1> QED BY <1>1, <1>2, <1>3, TypeInvariant, PTL DEF Spec

-------------------------------------------------------------------------------
(* The candidate is supported by the stream, and what rests on it.             *)

\* Strengthening of CandidateSupported: a live candidate ends with the last callback,
\* and only Hold and Lost keep one.
CandInv ==
  cand.count > 0 =>
    /\ state \in {"Hold", "Lost"}
    /\ cand.lastArrival = arrivalAge
    /\ cand.last.age = input.age /\ cand.last.pos = input.pos
    /\ cand.count <= run.n /\ Least(cand.first, RunSpan) <= run.first

\* What a good callback makes of the candidate is supported by the run it prolongs.
SupportedBy(c, s) ==
  /\ c.lastArrival = 0 /\ c.last.age = s.age /\ c.last.pos = s.pos
  /\ c.count <= run'.n /\ Least(c.first, RunSpan) <= run'.first

LEMMA ProductBounded ==
  ASSUME NEW v \in Int, NEW t \in Nat, v <= t, -t <= v, NEW d \in Nat
  PROVE  v * d <= t * d /\ -(t * d) <= v * d
<1>1. (t - v) * d >= 0 /\ (t + v) * d >= 0
  <2> DEFINE x == t - v
             y == t + v
  <2>1. x \in Nat /\ y \in Nat
    OBVIOUS
  <2> HIDE DEF x, y
  <2> QED BY <2>1
<1>2. (t - v) * d = t * d - v * d /\ (t + v) * d = t * d + v * d
  OBVIOUS
<1>3. v * d \in Int /\ t * d \in Int
  OBVIOUS
<1> DEFINE x == v * d
           y == t * d
<1> HIDE DEF x, y
<1>4. y - x >= 0 /\ y + x >= 0 /\ x \in Int /\ y \in Int
  BY <1>1, <1>2, <1>3 DEF x, y
<1>5. x <= y /\ -y <= x
  BY <1>4
<1> QED BY <1>5 DEF x, y

\* A pose inside the gate of a sample that stands for the last callback is one a real
\* motion explains.
LEMMA InGatePlausible ==
  ASSUME TypeInv, NEW s \in CallbackType, NEW p \in SampleType,
         p.age = input.age, p.pos = input.pos, ~Outlier(p, s, 3)
  PROVE  Plausible(s)
<1> DEFINE dt == KinDt(p, s)
           g == 3 * (2 * BaseGate + GateGrowth(dt))
           step == s.pos - input.pos
           x == p.vel * dt
           y == TopSpeed * dt
<1>1. p \in SampleType /\ input.pos \in Int /\ s.pos \in Int
  BY DEF TypeInv, TypeOK, CallbackType
<1>2. dt \in Nat
  BY <1>1, KinDtPositive
<1>3. dt = KinDt(input, s)
  BY DEF KinDt
<1>4. BaseGate \in Nat /\ GateGrowth(dt) \in Int /\ g \in Int
  <2> HIDE DEF dt
  <2>1. GateGrowth(dt) \in Int
    BY <1>2, GateAssumption, DurationAssumption DEF GateGrowth
  <2> QED BY <2>1, GateAssumption
<1>5. p.vel \in Int /\ TopSpeed \in Nat /\ p.vel <= TopSpeed
      /\ -TopSpeed <= p.vel
  BY <1>1, GateAssumption DEF SampleType
<1>6. x \in Int /\ y \in Int /\ x <= y /\ -y <= x
  <2> HIDE DEF dt
  <2> QED BY <1>2, <1>5, ProductBounded
<1>7. ~(4 * Magnitude(s.pos - p.pos - x) > g)
  BY DEF Outlier
<1>8. step \in Int /\ ~(4 * Magnitude(step - x) > g)
  <2>1. s.pos - p.pos = step
    OBVIOUS
  <2> QED BY <1>1, <1>7, <2>1
<1>9. 4 * Magnitude(step) <= g + 4 * y
  <2> HIDE DEF step, x, y, g
  <2> QED BY <1>4, <1>6, <1>8
<1>10. 4 * y = 4 * TopSpeed * dt
  <2> HIDE DEF dt
  <2> QED BY <1>2, <1>5
<1> QED BY <1>3, <1>9, <1>10 DEF Plausible

LEMMA CandidateStep ==
  ASSUME TypeInv, CandInv, NEW s \in CallbackType, s.kind = "ok", Record(s)
  PROVE  SupportedBy(UpdatedCandidate(s), s)
<1>1. /\ run.n \in 0 .. RunCap /\ run.first \in 0 .. RunSpan /\ DOMAIN run = {"n", "first"}
      /\ run = [n |-> run.n, first |-> run.first]
      /\ cand.count \in 0 .. ConfirmSamples /\ cand.first \in Nat
      /\ RunCap \in Nat /\ ConfirmSamples <= RunCap /\ ConfirmSamples \in Nat
      /\ RunCap >= 1 /\ RunSpan \in Nat
  BY CountAssumption, ParkedTyped DEF TypeInv, TypeOK, RunCap
<1>2. CASE UpdatedCandidate(s) = FreshCandidate(s)
  <2>1. run'.n >= 1 /\ run'.first >= 0
    BY <1>1 DEF Record
  <2> QED BY <1>1, <1>2, <2>1 DEF SupportedBy, FreshCandidate, Stamped
<1>3. CASE ~Restarts /\ ~Outlier(cand.last, s, 3)
  <2>1. cand.count > 0 /\ cand.lastArrival <= MaxKin
    BY <1>1, <1>3, DurationAssumption DEF Restarts, CandidateGap, TypeInv, TypeOK
  <2>2. Plausible(s)
    BY <1>3, <2>1, InGatePlausible DEF CandInv, TypeInv, TypeOK
  <2>3. run' = [run EXCEPT !.n = Least(run.n + 1, RunCap)]
    BY <1>1, <2>1, <2>2 DEF Record, CandInv
  <2>4. run'.n = Least(run.n + 1, RunCap) /\ run'.first = run.first
    BY <1>1, <2>3
  <2>5. UpdatedCandidate(s) = ExtendedCandidate(s)
    BY <1>3 DEF UpdatedCandidate
  <2>6. /\ Repaired(cand.last, s, 3).pos = s.pos
        /\ Repaired(cand.last, s, 3).age = s.age
    <3>1. cand.last \in SampleType
      BY DEF TypeInv, TypeOK
    <3> QED BY <3>1, RepairedTyped
  <2>7. /\ ExtendedCandidate(s).count = Least(cand.count + 1, ConfirmSamples)
        /\ ExtendedCandidate(s).first = cand.first
        /\ ExtendedCandidate(s).lastArrival = 0
        /\ ExtendedCandidate(s).last.pos = s.pos
        /\ ExtendedCandidate(s).last.age = s.age
    BY <2>6 DEF ExtendedCandidate, Stamped
  <2> QED BY <1>1, <2>1, <2>4, <2>5, <2>7 DEF SupportedBy, CandInv
<1> QED BY <1>2, <1>3 DEF UpdatedCandidate

\* A hold keeps the candidate it is given or drops it.
LEMMA HoldKeepsOrDrops ==
  /\ \A a, t, c : HoldOutput(a, t, c) => state' \in {"Hold", "Lost"} /\ cand' \in {c, NoCandidate}
  /\ \A a, t : HoldFrom(a, t) => state' \in {"Hold", "Lost"} /\ cand' = NoCandidate
  /\ NoCandidate.count = 0
<1>1. \A a, t, c : HoldOutput(a, t, c) => state' \in {"Hold", "Lost"} /\ cand' \in {c, NoCandidate}
  BY DEF HoldOutput
<1> QED BY <1>1 DEF HoldFrom, NoCandidate

LEMMA CandInvPush ==
  ASSUME TypeInv, CandInv, NEW s \in CallbackType, Push(s)
  PROVE  CandInv'
<1>1. Record(s) /\ arrivalAge' = 0 /\ input' = s
  BY DEF Push, Record
<1>2. CASE cand'.count = 0
  BY <1>2 DEF CandInv
<1>3. CASE /\ s.kind = "ok" /\ cand' = UpdatedCandidate(s) /\ state' \in {"Hold", "Lost"}
  BY <1>1, <1>3, CandidateStep DEF SupportedBy, CandInv
<1>4. CASE \E n, p : HandleCold(s, n, p)
  BY <1>2, <1>4 DEF HandleCold, NoCandidate
<1>5. CASE state = "Tracking" /\ HandleTracking(s)
  BY <1>2, <1>5, HoldKeepsOrDrops DEF HandleTracking, Accept
<1>6. CASE state = "Hold" /\ HandleHold(s)
  <2>1. CASE HoldOutput(anchor, s.age, NoCandidate)
    BY <1>2, <2>1, HoldKeepsOrDrops
  <2>2. CASE s.kind = "ok" /\ HoldOutput(anchor, s.age, UpdatedCandidate(s))
    BY <1>2, <1>3, <2>2, HoldKeepsOrDrops
  <2>3. CASE cand' = NoCandidate
    BY <1>2, <2>3, HoldKeepsOrDrops
  <2> QED BY <1>6, <2>1, <2>2, <2>3 DEF HandleHold, Accept, BeginRecovery
<1>7. CASE state = "Recovering" /\ HandleRecovering(s)
  <2>1. cand.count = 0
    BY <1>7 DEF CandInv, TypeInv, TypeOK
  <2> QED BY <1>2, <1>7, <2>1, HoldKeepsOrDrops DEF HandleRecovering, Accept
<1>8. CASE state = "Lost" /\ HandleLost(s)
  BY <1>2, <1>3, <1>8 DEF HandleLost, Accept, NoCandidate
<1> QED BY <1>4, <1>5, <1>6, <1>7, <1>8 DEF Push

LEMMA CandInvTick == ASSUME TypeInv, Tick PROVE CandInv'
  BY HoldKeepsOrDrops DEF Tick, CandidateAfterTick, CandInv

LEMMA CandInvElapse == ASSUME TypeInv, CandInv, Elapse PROVE CandInv'
<1>1. /\ cand.count \in Nat /\ cand.first \in Nat /\ run.n \in Nat /\ run.first \in Nat
      /\ RunSpan \in Nat /\ AgeCap \in Nat
  BY ParkedTyped, DurationAssumption, CountAssumption DEF TypeInv, TypeOK
<1>2. /\ cand'.count = cand.count /\ cand'.first = Older(cand.first)
      /\ cand'.lastArrival = Older(cand.lastArrival)
      /\ cand'.last.age = Older(cand.last.age) /\ cand'.last.pos = cand.last.pos
      /\ input'.age = Older(input.age) /\ input'.pos = input.pos
      /\ arrivalAge' = Older(arrivalAge) /\ state' = state
  BY DEF Elapse, OlderSample, TypeInv, TypeOK, SampleType
<1>3. CASE run.n = 0
  BY <1>1, <1>2, <1>3 DEF CandInv
<1>4. CASE run.n # 0
  <2>1. run'.n = run.n /\ run'.first = Least(run.first + 1, RunSpan)
    BY <1>4 DEF Elapse, TypeInv, TypeOK
  <2>2. Least(cand.first, RunSpan) <= run.first
        => Least(Older(cand.first), RunSpan) <= Least(run.first + 1, RunSpan)
    BY <1>1 DEF Older
  <2> QED BY <1>2, <2>1, <2>2 DEF CandInv
<1> QED BY <1>3, <1>4

LEMMA CandInvNext == ASSUME TypeInv, CandInv, [Next]_vars PROVE CandInv'
<1>1. CASE \E s \in Samples : Push(s)
  BY <1>1, SamplesTyped, CandInvPush
<1>2. CASE Disconnect
  BY <1>2 DEF Disconnect, NoCandidate, CandInv
<1>3. CASE UNCHANGED vars
  BY <1>3 DEF vars, CandInv
<1> QED BY <1>1, <1>2, <1>3, CandInvTick, CandInvElapse DEF Next

LEMMA CandInvariant == Spec => []CandInv
<1>1. Init => CandInv
  BY DEF Init, NoCandidate, CandInv
<1>2. TypeInv /\ TypeInv' /\ CandInv /\ [Next]_vars => CandInv'
  BY CandInvNext
<1> QED BY <1>1, <1>2, TypeInvariant, PTL DEF Spec

\* The candidate never claims more samples or a longer span than the uninterrupted run
\* of good callbacks holds.
THEOREM CandidateIsSupported == Spec => []CandidateSupported
<1>1. CandInv => CandidateSupported
  BY DEF CandInv, CandidateSupported
<1> QED BY <1>1, CandInvariant, PTL

\* Tracking is resumed from Lost only on a run of at least candidateConfirmSamples
\* good callbacks that spans at least lostReacquireSeconds.
THEOREM ReacquisitionNeedsStream == Spec => ReacquireNeedsStream
<1> DEFINE A == state = "Lost" /\ state' = "Tracking" /\ arrivalAge <= ResetGap
                => run'.n >= ConfirmSamples /\ run'.first >= LostReacquire
<1>1. ASSUME TypeInv, CandInv, [Next]_vars PROVE [A]_vars
  <2> SUFFICES ASSUME state = "Lost", state' = "Tracking", arrivalAge <= ResetGap
               PROVE  run'.n >= ConfirmSamples /\ run'.first >= LostReacquire
    OBVIOUS
  <2>1. CASE \E s \in Samples : Push(s)
    <3>1. PICK s \in Samples : Push(s)
      BY <2>1
    <3>2. s \in CallbackType /\ Record(s)
      BY <3>1, SamplesTyped DEF Push
    <3> DEFINE c == UpdatedCandidate(s)
    <3>3. ~StartsOver(s)
      BY <1>1, DurationAssumption DEF StartsOver, TimeReset, GapReacquire, TypeInv, TypeOK
    <3>4. HandleLost(s)
      BY <3>1, <3>3 DEF Push
    <3>5. s.kind = "ok" /\ c.count >= ConfirmSamples /\ Span(c) >= LostReacquire
      BY <3>4 DEF HandleLost
    <3>6. SupportedBy(c, s) /\ c \in CandidateType
      BY <1>1, <3>2, <3>5, CandidateStep, CandidateTyped
    <3>7. run'.n \in Int /\ run'.first \in Int
      BY <1>1, <3>2, RecordTyped, ParkedTyped
    <3>8. /\ LostReacquire \in Nat /\ CandSpan \in Nat /\ ConfirmSamples \in Nat
          /\ RunSpan >= LostReacquire /\ RunSpan \in Nat
      BY DurationAssumption, CountAssumption DEF RunSpan
    <3> HIDE DEF c
    <3> QED BY <3>5, <3>6, <3>7, <3>8 DEF SupportedBy, Span, CandidateType
  <2>2. CASE Tick \/ Disconnect \/ Elapse \/ UNCHANGED vars
    BY <2>2, HoldKeepsOrDrops DEF Tick, Disconnect, Elapse, vars
  <2> QED BY <1>1, <2>1, <2>2 DEF Next
<1>2. TypeInv /\ CandInv /\ [Next]_vars => [A]_vars
  BY <1>1
<1> QED BY <1>2, TypeInvariant, CandInvariant, PTL DEF Spec, ReacquireNeedsStream

-------------------------------------------------------------------------------
(* What a malformed callback may cause.                                        *)

\* Only a callback sets the arrival clock to zero.
LEMMA OnlyPushArrives ==
  ASSUME TypeInv, Tick \/ Disconnect \/ Elapse PROVE arrivalAge' # 0
<1>1. arrivalAge \in Nat /\ AgeCap \in Nat \ {0}
  BY AgeCapAssumption, DurationAssumption DEF TypeInv, TypeOK
<1>2. CASE Tick
  BY <1>1, <1>2, DurationAssumption DEF Tick
<1>3. CASE Disconnect
  BY <1>1, <1>3 DEF Disconnect
<1>4. CASE Elapse
  BY <1>1, <1>4 DEF Elapse, Older
<1> QED BY <1>2, <1>3, <1>4

\* Modified, and synthetic if it is valid.
FailsClosed(o) == o.modified = TRUE /\ (o.poseValid = FALSE \/ o.synthetic = TRUE)

LEMMA OutputsFailClosed ==
  ASSUME NEW w
  PROVE  /\ FailsClosed(InvalidOutput("Lost", w))
         /\ FailsClosed(Output(w, TRUE, TRUE, TRUE, "Hold"))
<1>1. ("Lost" \in {"Hold", "Lost"}) = TRUE
  OBVIOUS
<1>2. InvalidOutput("Lost", w).modified = ("Lost" \in {"Hold", "Lost"})
  BY Zenon DEF InvalidOutput, Output
<1>3. InvalidOutput("Lost", w).poseValid = FALSE
  BY DEF InvalidOutput, Output
<1>4. FailsClosed(Output(w, TRUE, TRUE, TRUE, "Hold"))
  BY Zenon DEF Output, FailsClosed
<1> QED BY <1>1, <1>2, <1>3, <1>4, Zenon DEF FailsClosed

LEMMA HoldFailsClosed ==
  \A a, t, c : HoldOutput(a, t, c) => FailsClosed(out')
  BY OutputsFailClosed DEF HoldOutput

\* A callback that claims a running device but carries no usable pose is never handed
\* on as it came, in whatever state it finds the filter.
THEOREM MalformedNeverRaw == Spec => MalformedFailsClosed
<1> DEFINE A == arrivalAge' = 0 /\ input'.kind = "malformed"
                => out'.modified /\ (out'.poseValid => out'.synthetic)
<1>1. ASSUME TypeInv, [Next]_vars PROVE [A]_vars
  <2>1. CASE \E s \in Samples : Push(s)
    <3>1. PICK s \in Samples : Push(s)
      BY <2>1
    <3>2. SUFFICES ASSUME s.kind = "malformed" PROVE FailsClosed(out')
      <4>1. input' = s
        BY <3>1 DEF Push, Record
      <4>2. FailsClosed(out') => out'.modified /\ (out'.poseValid => out'.synthetic)
        BY Zenon DEF FailsClosed
      <4> QED BY <4>1, <4>2
    <3>3. CASE \E n, p : HandleCold(s, n, p)
      <4>1. PICK n, p : HandleCold(s, n, p)
        BY <3>3
      <4>2. out' = ColdInvalid(s, p)
        BY <3>2, <4>1 DEF HandleCold
      <4> QED BY <3>2, <4>2 DEF ColdInvalid, InvalidOutput, Output, FailsClosed
    <3>4. CASE HandleTracking(s) \/ HandleHold(s) \/ HandleRecovering(s)
      BY <3>2, <3>4, HoldFailsClosed
         DEF HandleTracking, HandleHold, HandleRecovering, HoldFrom
    <3>5. CASE HandleLost(s)
      BY <3>2, <3>5, OutputsFailClosed DEF HandleLost
    <3> QED BY <3>1, <3>3, <3>4, <3>5 DEF Push
  <2>2. CASE Tick \/ Disconnect \/ Elapse
    BY <1>1, <2>2, OnlyPushArrives
  <2> QED BY <1>1, <2>1, <2>2 DEF Next
<1>2. TypeInv /\ [Next]_vars => [A]_vars
  BY <1>1
<1> QED BY <1>2, TypeInvariant, PTL DEF Spec, MalformedFailsClosed

-------------------------------------------------------------------------------
(* No raw pose is faster than its callback said.                               *)

LEMMA RepairedSpeed ==
  ASSUME NEW p \in SampleType, NEW s \in CallbackType, NEW scale \in Int
  PROVE  Magnitude(Repaired(p, s, scale).vel) <= Least(Magnitude(s.vel), HardSpeed)
<1> DEFINE q == (s.pos - p.pos) \div KinDt(p, s)
           most == Least(Magnitude(s.vel), HardSpeed)
<1>1. q \in Int
  BY KinDtPositive DEF SampleType, CallbackType
<1>2. most \in Nat /\ s.vel \in Int
  BY GateAssumption DEF CallbackType
<1>3. CASE VelocityAnomaly(p, s, scale)
  <2>1. Repaired(p, s, scale).vel = Limited(q, most)
    BY <1>3 DEF Repaired, CallbackType
  <2>2. Magnitude(Limited(q, most)) <= most
    <3> HIDE DEF q, most
    <3> QED BY <1>1, <1>2 DEF Limited, Clamp
  <2> HIDE DEF q
  <2> QED BY <2>1, <2>2
<1>4. CASE ~VelocityAnomaly(p, s, scale)
  <2>1. Repaired(p, s, scale) = s
    BY <1>4 DEF Repaired
  <2>2. ~(Magnitude(s.vel) > HardSpeed)
    BY <1>4 DEF VelocityAnomaly
  <2> QED BY <1>2, <2>1, <2>2, GateAssumption
<1> QED BY <1>3, <1>4

\* The sample a move to Tracking accepts is slow enough.
Slow(o, s) == Magnitude(o.vel) <= Least(Magnitude(s.vel), HardSpeed)

\* Every pose handed on as raw is as slow as its callback and as the hard limit.  The
\* first callback after a reset has no neighbour to be compared with, so a warm-up of
\* one sample lets it through unchecked: the theorem needs a second one.
THEOREM RawNeverFaster == ASSUME WarmupGood > 1 PROVE Spec => RawSpeedBounded
<1> DEFINE A == arrivalAge' = 0 /\ state' = "Tracking"
                => Magnitude(out'.world.vel) <= Least(Magnitude(input'.vel), HardSpeed)
<1>1. ASSUME TypeInv, [Next]_vars PROVE [A]_vars
  <2>1. CASE \E s \in Samples : Push(s)
    <3>1. PICK s \in Samples : Push(s)
      BY <2>1
    <3>2. s \in CallbackType /\ input' = s
      BY <3>1, SamplesTyped DEF Push, Record
    <3>3. SUFFICES ASSUME state' = "Tracking" PROVE Slow(out'.world, s)
      BY <3>2 DEF Slow
    <3>4. \A g, m : out' = RawOutput(g, m) => out'.world.vel = g.vel
      BY DEF RawOutput, Output, Pose
    <3>5. trusted \in SampleType /\ cand.last \in SampleType /\ rec.last \in SampleType
          /\ Parked \in SampleType
      BY <1>1, ParkedTyped DEF TypeInv, TypeOK
    <3>6. \A p \in SampleType, k \in {2, 3} : Slow(Repaired(p, s, k), s)
      BY <3>2, RepairedSpeed DEF Slow
    <3>7. ASSUME NEW n, NEW p \in SampleType, n \in Nat, HandleCold(s, n, p)
          PROVE  Slow(out'.world, s)
      <4>1. WarmedUp(n + 1)
        BY <3>3, <3>7 DEF HandleCold
      <4>2. n > 0
        BY <3>7, <4>1, CountAssumption DEF WarmedUp
      <4>3. \E m : out' = RawOutput(Repaired(p, s, 3), m)
        BY <3>3, <3>7, <4>2 DEF HandleCold
      <4> QED BY <3>4, <3>6, <4>3 DEF Slow
    <3>8. CASE HandleTracking(s)
      <4>1. \E m : out' = RawOutput(Repaired(trusted, s, 2), m)
        BY <3>3, <3>8, HoldKeepsOrDrops DEF HandleTracking, Accept
      <4> QED BY <3>4, <3>5, <3>6, <4>1 DEF Slow
    <3>9. CASE state = "Hold" /\ HandleHold(s)
      <4>1. /\ SafeReturnKinematics(anchor, HeldFor(s), s)
            /\ \E m : out' = RawOutput(s, m)
        BY <3>3, <3>9, HoldKeepsOrDrops DEF HandleHold, Accept, BeginRecovery
      <4> QED BY <3>2, <3>4, <4>1, GateAssumption
           DEF Slow, SafeReturnKinematics, CallbackType
    <3>10. CASE state = "Recovering" /\ HandleRecovering(s)
      <4>1. \E m : out' = RawOutput(Repaired(rec.last, s, 3), m)
        BY <3>3, <3>10, HoldKeepsOrDrops DEF HandleRecovering, Accept
      <4> QED BY <3>4, <3>5, <3>6, <4>1 DEF Slow
    <3>11. CASE state = "Lost" /\ HandleLost(s)
      <4> DEFINE c == UpdatedCandidate(s)
      <4>1. /\ c.count >= ConfirmSamples
            /\ \E m : out' = RawOutput([s EXCEPT !.vel = c.last.vel], m)
        BY <3>3, <3>11 DEF HandleLost, Accept
      <4>2. c = ExtendedCandidate(s)
        BY <4>1, CountAssumption DEF UpdatedCandidate, FreshCandidate
      <4>3. c.last.vel = Repaired(cand.last, s, 3).vel
        BY <4>2 DEF ExtendedCandidate, Stamped
      <4> HIDE DEF c
      <4>4. [s EXCEPT !.vel = c.last.vel].vel = c.last.vel
        BY <3>2 DEF CallbackType
      <4> QED BY <3>4, <3>5, <3>6, <4>1, <4>3, <4>4 DEF Slow
    <3>12. 0 \in Nat /\ warmup \in Nat
      BY <1>1 DEF TypeInv, TypeOK
    <3> QED BY <3>1, <3>5, <3>7, <3>8, <3>9, <3>10, <3>11, <3>12 DEF Push
  <2>2. CASE Tick \/ Disconnect \/ Elapse
    BY <1>1, <2>2, OnlyPushArrives
  <2> QED BY <1>1, <2>1, <2>2 DEF Next
<1>2. TypeInv /\ [Next]_vars => [A]_vars
  BY <1>1
<1> QED BY <1>2, TypeInvariant, PTL DEF Spec, RawSpeedBounded

-------------------------------------------------------------------------------
(* The way back from Hold.                                                     *)

LEMMA DivideExactly ==
  ASSUME NEW x \in Int, NEW k \in Nat \ {0} PROVE (x * k) \div k = x
<1> DEFINE q == (x * k) \div k
           m == x - q
<1>1. q \in Int /\ x * k \in Int /\ m \in Int
  OBVIOUS
<1>2. k * q <= x * k /\ x * k < k * q + k
  OBVIOUS
<1>3. m * k = x * k - k * q
  OBVIOUS
<1> HIDE DEF q, m
<1>4. m * k >= 0 /\ m * k < k
  BY <1>1, <1>2, <1>3
<1>5. m = 0
  <2>1. CASE m >= 1
    <3>1. (m - 1) * k >= 0
      BY <1>1, <2>1
    <3> QED BY <1>1, <1>4, <3>1
  <2>2. CASE m <= -1
    <3>1. (-m) * k >= k
      BY <1>1, <2>2
    <3> QED BY <1>1, <1>4, <3>1
  <2> QED BY <1>1, <2>1, <2>2
<1> QED BY <1>1, <1>5 DEF m, q

\* A recovery starts exactly at the held pose, moving as the held pose moves.
LEMMA BlendAtStart ==
  ASSUME NEW h \in PoseType, NEW s \in CallbackType
  PROVE  Blend(Recovery(h, s), s) = h
<1> DEFINE r == Recovery(h, s)
           d == r.duration
           k == d * d * d
<1>1. r \in RecoveryType /\ r.start = s.age /\ r.posFix = h.pos - s.pos /\ r.velFix = h.vel - s.vel
  BY RecoveryTyped DEF Recovery
<1>2. Elapsed(s.age, r.start) = 0
  BY <1>1 DEF CallbackType, Ages
<1>3. d \in Nat \ {0}
  BY <1>1, DurationAssumption DEF RecoveryType
<1>4. r.posFix \in Int /\ r.velFix \in Int /\ h.pos \in Int /\ h.vel \in Int
      /\ s.pos \in Int /\ s.vel \in Int
  BY <1>1, GateAssumption DEF RecoveryType, PoseType, CallbackType
<1>5. k \in Nat \ {0}
  <2> HIDE DEF d
  <2>1. d * d \in Nat \ {0}
    BY <1>3
  <2> QED BY <1>3, <2>1
<1>6. Blend(r, s) = [pos |-> s.pos + (r.posFix * k) \div k, vel |-> s.vel + (r.velFix * k) \div k]
  <2> HIDE DEF r
  <2>1. \A e, f, g \in Int :
          e = 0 => /\ f * (2*e*e*e - 3*e*e*d + d*d*d) + g * d * (e*e*e - 2*e*e*d + e*d*d)
                        = f * (d*d*d)
                   /\ f * (6*e*e - 6*e*d) + g * d * (3*e*e - 4*e*d + d*d) = g * (d*d*d)
    <3> HIDE DEF d
    <3> QED BY <1>3
  <2> QED BY <1>2, <1>4, <2>1 DEF Blend
<1>7. (r.posFix * k) \div k = r.posFix /\ (r.velFix * k) \div k = r.velFix
  <2> HIDE DEF r, k
  <2> QED BY <1>4, <1>5, DivideExactly
<1>8. s.pos + r.posFix = h.pos /\ s.vel + r.velFix = h.vel
  <2> HIDE DEF r
  <2> QED BY <1>1, <1>4
<1>9. h = [pos |-> h.pos, vel |-> h.vel]
  BY DEF PoseType
<1> HIDE DEF r, k, d
<1> QED BY <1>6, <1>7, <1>8, <1>9 DEF r

\* What a move from Hold to Recovering needs and returns.
LEMMA RecoveryBegins ==
  ASSUME TypeInv, NEW s \in CallbackType, Push(s), state = "Hold", state' = "Recovering"
  PROVE  /\ s.kind = "ok"
         /\ Quick(HeldFor(s), s, UpdatedCandidate(s)) \/ Confirmed(s, UpdatedCandidate(s))
         /\ out'.world = HeldFor(s)
<1> DEFINE c == UpdatedCandidate(s)
           back == [s EXCEPT !.vel = c.last.vel]
           h == HeldFor(s)
<1>1. HandleHold(s)
  <2>1. ~(\E n, p : HandleCold(s, n, p))
    BY DEF HandleCold
  <2> QED BY <2>1 DEF Push
<1>2. s.kind = "ok" /\ (Quick(h, s, c) \/ Confirmed(s, c)) /\ BeginRecovery(h, back)
  BY <1>1, HoldKeepsOrDrops DEF HandleHold, Accept
<1>3. h \in PoseType /\ back \in CallbackType
  BY HeldTyped, CandidateTyped
<1>4. out'.world = Blend(Recovery(h, back), back)
  BY <1>2 DEF BeginRecovery, Output
<1> HIDE DEF c, back, h
<1>5. out'.world = h
  BY <1>3, <1>4, BlendAtStart
<1> QED BY <1>2, <1>5 DEF c, h

\* The output leads toward a new place only after two good callbacks close to the held
\* pose or a confirmed run of them.
THEOREM RecoveryIsEarned == Spec => RecoveryNeedsRun
<1> DEFINE A == state = "Hold" /\ state' = "Recovering"
                => /\ run'.n >= 2
                   /\ \/ Magnitude(out'.world.pos - input'.pos) <= QuickReturn
                      \/ run'.n >= ConfirmSamples /\ run'.first >= CandSpan
<1>1. ASSUME TypeInv, CandInv, [Next]_vars PROVE [A]_vars
  <2> SUFFICES ASSUME state = "Hold", state' = "Recovering"
               PROVE  /\ run'.n >= 2
                      /\ \/ Magnitude(out'.world.pos - input'.pos) <= QuickReturn
                         \/ run'.n >= ConfirmSamples /\ run'.first >= CandSpan
    OBVIOUS
  <2>1. CASE \E s \in Samples : Push(s)
    <3>1. PICK s \in Samples : Push(s)
      BY <2>1
    <3>2. s \in CallbackType /\ Record(s) /\ input' = s
      BY <3>1, SamplesTyped DEF Push, Record
    <3> DEFINE c == UpdatedCandidate(s)
    <3>3. s.kind = "ok" /\ (Quick(HeldFor(s), s, c) \/ Confirmed(s, c)) /\ out'.world = HeldFor(s)
      BY <1>1, <3>1, <3>2, RecoveryBegins
    <3>4. SupportedBy(c, s) /\ c \in CandidateType
      BY <1>1, <3>2, <3>3, CandidateStep, CandidateTyped
    <3>5. run'.n \in Int /\ run'.first \in Int
      BY <1>1, <3>2, RecordTyped, ParkedTyped
    <3>6. CandSpan \in Nat /\ ConfirmSamples \in Nat /\ ConfirmSamples >= 2 /\ RunSpan >= CandSpan
          /\ RunSpan \in Nat
      BY DurationAssumption, CountAssumption DEF RunSpan
    <3> HIDE DEF c
    <3>7. CASE Quick(HeldFor(s), s, c)
      BY <3>2, <3>3, <3>4, <3>5, <3>7 DEF Quick, CloseTo, SupportedBy, CandidateType
    <3>8. CASE Confirmed(s, c)
      BY <3>4, <3>5, <3>6, <3>8 DEF Confirmed, SupportedBy, Span, CandidateType
    <3> QED BY <3>3, <3>7, <3>8
  <2>2. CASE Tick \/ Disconnect \/ Elapse \/ UNCHANGED vars
    BY <2>2, HoldKeepsOrDrops DEF Tick, Disconnect, Elapse, vars
  <2> QED BY <1>1, <2>1, <2>2 DEF Next
<1>2. TypeInv /\ CandInv /\ [Next]_vars => [A]_vars
  BY <1>1
<1> QED BY <1>2, TypeInvariant, CandInvariant, PTL DEF Spec, RecoveryNeedsRun

\* A hold anchored at the stamp it is asked for shows the anchor itself.
LEMMA HoldStartsAtAnchor ==
  ASSUME NEW a \in AnchorType, HoldFrom(a, a.age), state # "Lost"
  PROVE  state' = "Hold" /\ out'.world = Pose(a)
<1>1. a.pos \in Int /\ a.vel \in Int /\ a.age \in Int
  BY DEF AnchorType, Ages
<1>2. Elapsed(a.age, a.age) = 0
  BY <1>1
<1>3. ~HoldExpired(a, a.age)
  BY <1>2, DurationAssumption DEF HoldExpired
<1>4. state' = "Hold" /\ out'.world = PredictDamped(a, Elapsed(a.age, a.age))
  BY <1>3 DEF HoldFrom, HoldOutput, Output
<1>5. PredictDamped(a, 0) = Pose(a)
  <2>1. Least(0, DampTime) = 0 /\ ~(0 >= DampTime) /\ a.vel * 0 = 0
    BY <1>1, DurationAssumption
  <2>2. Limited(0, MaxHoldShift) = 0 /\ ~(Magnitude(0) > MaxHoldShift)
    BY GateAssumption DEF Limited, Clamp
  <2> QED BY <1>1, <2>1, <2>2 DEF PredictDamped, Pose
<1> QED BY <1>2, <1>4, <1>5

\* The output never jumps where the filter changes over between the held pose and the
\* blended one, in either direction.
THEOREM HandOverContinuous == Spec => ContinuousHandOver
<1> DEFINE A == arrivalAge' = 0 =>
                  /\ state = "Hold" /\ state' = "Recovering" => out'.world = HeldFor(input')
                  /\ state = "Recovering" /\ state' = "Hold" => out'.world = out.world
<1>1. ASSUME TypeInv, [Next]_vars PROVE [A]_vars
  <2>1. CASE \E s \in Samples : Push(s)
    <3>1. PICK s \in Samples : Push(s)
      BY <2>1
    <3>2. s \in CallbackType /\ input' = s
      BY <3>1, SamplesTyped DEF Push, Record
    <3>3. ASSUME state = "Hold", state' = "Recovering" PROVE out'.world = HeldFor(input')
      <4>1. out'.world = HeldFor(s)
        BY <1>1, <3>1, <3>2, <3>3, RecoveryBegins
      <4> QED BY <3>2, <4>1
    <3>4. ASSUME state = "Recovering", state' = "Hold" PROVE out'.world = out.world
      <4> DEFINE a == [pos |-> out.world.pos, vel |-> out.world.vel, age |-> s.age]
      <4>1. ~(\E n, p : HandleCold(s, n, p))
        BY <3>4 DEF HandleCold
      <4>2. HandleRecovering(s)
        BY <3>1, <3>4, <4>1 DEF Push
      <4>3. HoldFrom(a, a.age)
        BY <3>4, <4>2 DEF HandleRecovering, Accept
      <4>4. a \in AnchorType /\ Pose(a) = out.world
        BY <1>1, <3>2 DEF TypeInv, TypeOK, OutputType, PoseType, AnchorType, CallbackType, Pose
      <4> HIDE DEF a
      <4> QED BY <3>4, <4>3, <4>4, HoldStartsAtAnchor
    <3> QED BY <3>3, <3>4
  <2>2. CASE Tick \/ Disconnect \/ Elapse
    BY <1>1, <2>2, OnlyPushArrives
  <2> QED BY <1>1, <2>1, <2>2 DEF Next
<1>2. TypeInv /\ [Next]_vars => [A]_vars
  BY <1>1
<1> QED BY <1>2, TypeInvariant, PTL DEF Spec, ContinuousHandOver

-------------------------------------------------------------------------------
(* The warm-up.                                                                *)

\* While Cold nothing valid was returned, and the samples counted so far are the end of
\* the coherent run of good callbacks, the trusted sample its last.
ColdInv ==
  /\ state = "Cold" => out.poseValid = FALSE
  /\ state = "Cold" /\ warmup > 0 =>
       /\ warmup <= goods /\ input.kind # "none"
       /\ trusted.pos = input.pos /\ trusted.age = input.age

\* What HandleCold makes of n samples already counted, the last of them prev.
LEMMA ColdStep ==
  ASSUME NEW s \in CallbackType, NEW n \in Nat, NEW prev \in SampleType,
         HandleCold(s, n, prev), Record(s)
  PROVE  /\ state' = "Cold" => out'.poseValid = FALSE
         /\ state' = "Cold" /\ warmup' > 0
              => s.kind = "ok" /\ trusted'.pos = s.pos /\ trusted'.age = s.age
<1> DEFINE again == n > 0 /\ Outlier(prev, s, 3)
           good == IF n > 0 THEN Repaired(prev, s, 3) ELSE s
<1>1. good.pos = s.pos /\ good.age = s.age
  BY RepairedTyped
<1>2. ColdInvalid(s, prev).poseValid = FALSE
  BY DEF ColdInvalid, InvalidOutput, Output
<1>3. \A g : /\ WaitingOutput(g).poseValid = FALSE
             /\ Stamped(g).pos = g.pos /\ Stamped(g).age = g.age
  BY DEF WaitingOutput, Output, Stamped
<1>4. CASE s.kind # "ok"
  BY <1>2, <1>4 DEF HandleCold, WarmupAfterBad
<1>5. CASE s.kind = "ok" /\ again
  <2>1. warmup' = 1 /\ out' = WaitingOutput(s) /\ trusted' = Stamped(s)
    BY <1>5 DEF HandleCold
  <2> QED BY <1>3, <1>5, <2>1
<1>6. CASE s.kind = "ok" /\ ~again
  <2>1. /\ warmup' = n + 1 /\ trusted' = Stamped(good)
        /\ state' = "Cold" => out' = WaitingOutput(good)
    BY <1>6 DEF HandleCold
  <2> HIDE DEF good
  <2> QED BY <1>1, <1>3, <1>6, <2>1
<1> QED BY <1>4, <1>5, <1>6

\* A sample that continues the trusted one continues the run of good callbacks.
LEMMA WarmupContinues ==
  ASSUME TypeInv, ColdInv, state = "Cold", warmup > 0, NEW s \in CallbackType, s.kind = "ok",
         ~Outlier(trusted, s, 3), arrivalAge <= ResetGap, Record(s)
  PROVE  goods' = Least(goods + 1, WarmupGood)
<1>1. trusted \in SampleType /\ trusted.age = input.age /\ trusted.pos = input.pos
  BY DEF TypeInv, TypeOK, ColdInv
<1>2. Plausible(s)
  BY <1>1, InGatePlausible
<1>3. goods > 0
  BY DEF TypeInv, TypeOK, ColdInv
<1> QED BY <1>2, <1>3 DEF Record

\* However the callbacks of a cold filter look, the count never runs ahead of the run.
LEMMA WarmupCounted ==
  ASSUME TypeInv, ColdInv, NEW s \in CallbackType, Push(s), s.kind = "ok",
         NEW n, NEW prev \in SampleType, HandleCold(s, n, prev),
         \/ n = 0
         \/ n = warmup /\ prev = trusted /\ state = "Cold" /\ arrivalAge <= ResetGap
  PROVE  warmup' <= goods'
<1>1. Record(s) /\ n \in 0 .. WarmupGood /\ goods \in 0 .. WarmupGood
      /\ WarmupGood \in Nat \ {0}
  BY CountAssumption DEF Push, TypeInv, TypeOK
<1>2. goods' >= 1
  BY <1>1 DEF Record
<1>3. CASE warmup' = 1
  BY <1>1, <1>2, <1>3 DEF Record
<1>4. CASE warmup' # 1
  <2>1. n > 0 /\ ~Outlier(prev, s, 3) /\ warmup' = n + 1
    BY <1>1, <1>4 DEF HandleCold
  <2>2. n = warmup /\ prev = trusted /\ state = "Cold" /\ arrivalAge <= ResetGap
    BY <2>1
  <2>3. goods' = Least(goods + 1, WarmupGood)
    BY <1>1, <2>1, <2>2, WarmupContinues
  <2>4. warmup <= goods /\ warmup < WarmupGood
    BY <2>1, <2>2 DEF ColdInv, TypeInv
  <2> QED BY <1>1, <2>1, <2>2, <2>3, <2>4
<1> QED BY <1>3, <1>4

\* The callback that finds or leaves the filter cold is handled by HandleCold, from what
\* was counted before or from nothing.
LEMMA ColdHandled ==
  ASSUME TypeInv, ColdInv, NEW s \in CallbackType, Push(s), state = "Cold" \/ state' = "Cold"
  PROVE  \E n \in Nat, prev \in SampleType :
           /\ HandleCold(s, n, prev)
           /\ \/ n = 0
              \/ n = warmup /\ prev = trusted /\ state = "Cold" /\ arrivalAge <= ResetGap
<1>1. Parked \in SampleType /\ trusted \in SampleType /\ warmup \in Nat
  BY ParkedTyped DEF TypeInv, TypeOK
<1>2. CASE StartsOver(s)
  <2>1. HandleCold(s, 0, Parked)
    BY <1>2 DEF Push
  <2> QED BY <1>1, <2>1
<1>3. CASE ~StartsOver(s) /\ state = "Cold"
  <2>1. HandleCold(s, warmup, trusted)
    BY <1>3 DEF Push
  <2>2. warmup = 0 \/ arrivalAge <= ResetGap
    <3>1. arrivalAge \in Nat /\ ResetGap \in Nat
      BY DurationAssumption DEF TypeInv, TypeOK
    <3>2. ~(arrivalAge <= ResetGap) => ~HasLastInput
      BY <1>3, <3>1 DEF StartsOver, TimeReset
    <3> QED BY <1>1, <1>3, <3>2 DEF HasLastInput, ColdInv
  <2> QED BY <1>1, <1>3, <2>1, <2>2
<1>4. CASE ~StartsOver(s) /\ state # "Cold"
  BY <1>4, HoldKeepsOrDrops
     DEF Push, HandleTracking, HandleHold, HandleRecovering, HandleLost, Accept, BeginRecovery
<1> QED BY <1>2, <1>3, <1>4

LEMMA ColdInvPush ==
  ASSUME TypeInv, ColdInv, NEW s \in CallbackType, Push(s) PROVE ColdInv'
<1>1. SUFFICES ASSUME state' = "Cold" PROVE ColdInv'
  BY DEF ColdInv
<1>2. Record(s) /\ input' = s /\ s.kind # "none"
  BY DEF Push, Record, CallbackType
<1>3. PICK n \in Nat, prev \in SampleType :
        /\ HandleCold(s, n, prev)
        /\ \/ n = 0
           \/ n = warmup /\ prev = trusted /\ state = "Cold" /\ arrivalAge <= ResetGap
  BY <1>1, ColdHandled
<1>4. /\ out'.poseValid = FALSE
      /\ warmup' > 0 => s.kind = "ok" /\ trusted'.pos = s.pos /\ trusted'.age = s.age
  BY <1>1, <1>2, <1>3, ColdStep
<1>5. warmup' > 0 => warmup' <= goods'
  BY <1>3, <1>4, WarmupCounted
<1> QED BY <1>2, <1>4, <1>5 DEF ColdInv

LEMMA ColdInvNext == ASSUME TypeInv, ColdInv, [Next]_vars PROVE ColdInv'
<1>1. CASE \E s \in Samples : Push(s)
  BY <1>1, SamplesTyped, ColdInvPush
<1>2. CASE Disconnect
  BY <1>2 DEF Disconnect, DisconnectedOutput, Output, ColdInv
<1>3. CASE Tick
  BY <1>3, HoldKeepsOrDrops DEF Tick, ColdInv
<1>4. CASE Elapse
  <2>1. /\ UNCHANGED <<state, warmup, out, goods>>
        /\ trusted' = OlderSample(trusted) /\ input' = OlderSample(input)
    BY <1>4 DEF Elapse
  <2>2. /\ trusted'.pos = trusted.pos /\ trusted'.age = Older(trusted.age)
        /\ input'.pos = input.pos /\ input'.age = Older(input.age) /\ input'.kind = input.kind
    BY <2>1 DEF OlderSample, TypeInv, TypeOK, SampleType
  <2> QED BY <2>1, <2>2 DEF ColdInv
<1>5. CASE UNCHANGED vars
  BY <1>5 DEF vars, ColdInv
<1> QED BY <1>1, <1>2, <1>3, <1>4, <1>5 DEF Next

LEMMA ColdInvariant == Spec => []ColdInv
<1>1. Init => ColdInv
  BY DEF Init, NoOutput, DisconnectedOutput, Output, ColdInv
<1>2. TypeInv /\ TypeInv' /\ ColdInv /\ [Next]_vars => ColdInv'
  BY ColdInvNext
<1> QED BY <1>1, <1>2, TypeInvariant, PTL DEF Spec

\* After a start or a reset nothing valid is handed on before warmupGoodSamples coherent
\* good callbacks in a row.
THEOREM WarmupIsComplete == Spec => WarmupBeforeValid
<1> DEFINE A == state = "Cold" /\ out'.poseValid => goods' >= WarmupGood
<1>1. ASSUME TypeInv, ColdInv, [Next]_vars PROVE [A]_vars
  <2> SUFFICES ASSUME state = "Cold", out'.poseValid PROVE goods' >= WarmupGood
    OBVIOUS
  <2>1. CASE \E s \in Samples : Push(s)
    <3>1. PICK s \in Samples : Push(s)
      BY <2>1
    <3>2. s \in CallbackType
      BY SamplesTyped
    <3>3. PICK n \in Nat, prev \in SampleType :
            /\ HandleCold(s, n, prev)
            /\ \/ n = 0
               \/ n = warmup /\ prev = trusted /\ state = "Cold" /\ arrivalAge <= ResetGap
      BY <1>1, <3>1, <3>2, ColdHandled
    <3>4. /\ ColdInvalid(s, prev).poseValid = FALSE
          /\ \A g : WaitingOutput(g).poseValid = FALSE
      BY DEF ColdInvalid, InvalidOutput, WaitingOutput, Output
    <3>5. s.kind = "ok" /\ warmup' = n + 1 /\ WarmedUp(n + 1)
      BY <3>3, <3>4 DEF HandleCold
    <3>6. warmup' <= goods'
      BY <1>1, <3>1, <3>2, <3>3, <3>5, WarmupCounted
    <3>7. goods' \in Int
      BY <1>1, <3>1, <3>2, CountAssumption DEF Push, Record, TypeInv, TypeOK
    <3> QED BY <3>5, <3>6, <3>7, CountAssumption DEF WarmedUp
  <2>2. CASE Disconnect
    BY <2>2 DEF Disconnect, DisconnectedOutput, Output
  <2>3. CASE Tick \/ Elapse \/ UNCHANGED vars
    BY <1>1, <2>3 DEF Tick, Elapse, vars, ColdInv
  <2> QED BY <1>1, <2>1, <2>2, <2>3 DEF Next
<1>2. TypeInv /\ ColdInv /\ [Next]_vars => [A]_vars
  BY <1>1
<1> QED BY <1>2, TypeInvariant, ColdInvariant, PTL DEF Spec, WarmupBeforeValid

-------------------------------------------------------------------------------
(* How long a predicted pose is shown.                                         *)

LEMMA LeastOfNaturals ==
  ASSUME NEW T \in SUBSET Nat, T # {} PROVE \E x \in T : \A y \in T : x <= y
<1>1. PICK x \in T : \A y \in T : <<y, x>> \notin OpToRel(<, Nat)
  BY WFMin, NatLessThanWellFounded, Zenon
<1>2. \A y \in T : ~(y < x)
  BY <1>1 DEF OpToRel
<1> QED BY <1>2

\* The offsets of the kinematic stamps are bounded, so the extreme ones exist.
LEMMA ExtremeOffsets ==
  /\ LatestOffset \in Nat /\ -EarliestOffset \in Nat /\ EarliestOffset \in Int
  /\ \A o \in Offsets : EarliestOffset <= o /\ o <= LatestOffset
<1> DEFINE S == Offsets \cup {0}
           Up == {o + AgeCap : o \in S}
           Down == {AgeCap - o : o \in S}
<1>1. AgeCap \in Nat /\ \A o \in S : o \in Int /\ -AgeCap <= o /\ o <= AgeCap
  BY DurationAssumption, InputAssumption, AgeCapAssumption
<1>2. Up \in SUBSET Nat /\ Up # {} /\ Down \in SUBSET Nat /\ Down # {}
  BY <1>1
<1>3. \E m \in S : \A o \in S : m <= o
  <2>1. PICK x \in Up : \A y \in Up : x <= y
    BY <1>2, LeastOfNaturals
  <2>2. PICK m \in S : x = m + AgeCap
    BY <2>1
  <2>3. \A o \in S : m + AgeCap <= o + AgeCap
    BY <2>1, <2>2
  <2> QED BY <1>1, <2>2, <2>3
<1>4. \E m \in S : \A o \in S : o <= m
  <2>1. PICK x \in Down : \A y \in Down : x <= y
    BY <1>2, LeastOfNaturals
  <2>2. PICK m \in S : x = AgeCap - m
    BY <2>1
  <2>3. \A o \in S : AgeCap - m <= AgeCap - o
    BY <2>1, <2>2
  <2> QED BY <1>1, <2>2, <2>3
<1>5. EarliestOffset \in S /\ \A o \in S : EarliestOffset <= o
  BY <1>3, Zenon DEF EarliestOffset
<1>6. LatestOffset \in S /\ \A o \in S : o <= LatestOffset
  BY <1>4, Zenon DEF LatestOffset
<1>7. LatestOffset \in Int /\ EarliestOffset \in Int /\ 0 <= LatestOffset /\ EarliestOffset <= 0
  BY <1>1, <1>5, <1>6
<1> QED BY <1>5, <1>6, <1>7

\* A hold is never older than the pose it is anchored at, but for the lead of that
\* pose's stamp over the clock.
HoldAgeInv ==
  /\ state = "Tracking" => trusted.age >= -LatestOffset
  /\ input.kind # "none" => input.age >= -LatestOffset
  /\ state \in {"Hold", "Lost"} => holdAge <= anchor.age + LatestOffset

\* The age of a hold restarts with every hold, and nothing else moves its anchor.
LEMMA HoldAgeInvPush ==
  ASSUME TypeInv, HoldAgeInv, NEW s \in CallbackType, s.age >= -LatestOffset, Push(s)
  PROVE  HoldAgeInv'
<1>1. input' = s /\ holdAge' = IF {state, state'} \subseteq {"Hold", "Lost"} THEN holdAge ELSE 0
  BY DEF Push, Record
<1>2. /\ trusted \in SampleType /\ anchor \in AnchorType /\ cand.last \in SampleType
      /\ rec.last \in SampleType /\ LatestOffset \in Nat /\ s.age \in Int
      /\ trusted.age \in Int /\ anchor.age \in Int /\ holdAge \in Nat
  BY ExtremeOffsets DEF TypeInv, TypeOK, SampleType, AnchorType, CallbackType, Ages
<1>3. SUFFICES /\ state' = "Tracking" => trusted'.age >= -LatestOffset
               /\ state' \in {"Hold", "Lost"} => holdAge' <= anchor'.age + LatestOffset
  BY <1>1 DEF HoldAgeInv
<1>4. \A g : Stamped(g).age = g.age
  BY DEF Stamped
<1>5. \A g, m : Accept(g, m) => state' = "Tracking" /\ trusted'.age = g.age
  BY <1>4 DEF Accept
<1>6. \A a, t : HoldFrom(a, t) => state' \in {"Hold", "Lost"} /\ anchor' = a
  BY HoldKeepsOrDrops DEF HoldFrom, HoldOutput
<1>7. \A p \in SampleType, k \in {2, 3} : Repaired(p, s, k).age = s.age
  BY RepairedTyped
<1>8. CASE \E n, p : HandleCold(s, n, p) /\ p \in SampleType
  <2>1. PICK n, p : HandleCold(s, n, p) /\ p \in SampleType
    BY <1>8
  <2>2. state' \in {"Cold", "Tracking"}
    BY <2>1 DEF HandleCold
  <2>3. state' = "Tracking" => trusted'.age = s.age
    BY <1>4, <1>7, <2>1 DEF HandleCold
  <2> QED BY <2>2, <2>3
<1>9. CASE state = "Tracking" /\ HandleTracking(s)
  <2>1. CASE HoldFrom(trusted, s.age)
    BY <1>1, <1>2, <1>6, <1>9, <2>1 DEF HoldAgeInv
  <2>2. CASE \E m : Accept(Repaired(trusted, s, 2), m)
    BY <1>2, <1>5, <1>7, <2>2
  <2> QED BY <1>9, <2>1, <2>2 DEF HandleTracking
<1>10. CASE state = "Hold" /\ HandleHold(s)
  <2>1. CASE \E c : HoldOutput(anchor, s.age, c)
    <3>1. state' \in {"Hold", "Lost"} /\ anchor' = anchor
      BY <2>1, HoldKeepsOrDrops DEF HoldOutput
    <3> QED BY <1>1, <1>10, <3>1 DEF HoldAgeInv
  <2>2. CASE Accept(s, FALSE)
    BY <1>5, <2>2
  <2>3. CASE state' = "Recovering"
    BY <2>3
  <2> QED BY <1>10, <2>1, <2>2, <2>3 DEF HandleHold, BeginRecovery
<1>11. CASE state = "Recovering" /\ HandleRecovering(s)
  <2> DEFINE a == [pos |-> out.world.pos, vel |-> out.world.vel, age |-> s.age]
  <2>1. CASE HoldFrom(a, s.age)
    BY <1>1, <1>2, <1>6, <1>11, <2>1
  <2>2. CASE \E m : Accept(Repaired(rec.last, s, 3), m)
    BY <1>2, <1>5, <1>7, <2>2
  <2>3. CASE state' = "Recovering"
    BY <2>3
  <2> QED BY <1>11, <2>1, <2>2, <2>3 DEF HandleRecovering
<1>12. CASE state = "Lost" /\ HandleLost(s)
  <2>1. CASE UNCHANGED <<state, anchor>>
    BY <1>1, <1>12, <2>1 DEF HoldAgeInv
  <2>2. CASE \E v, m : Accept([s EXCEPT !.vel = v], m)
    <3>1. \A v : [s EXCEPT !.vel = v].age = s.age
      BY DEF CallbackType
    <3> QED BY <1>5, <2>2, <3>1
  <2> QED BY <1>12, <2>1, <2>2 DEF HandleLost
<1> QED BY <1>2, <1>8, <1>9, <1>10, <1>11, <1>12, ParkedTyped DEF Push

LEMMA HoldAgeInvTick == ASSUME TypeInv, HoldAgeInv, Tick PROVE HoldAgeInv'
<1>1. UNCHANGED input /\ input.age >= -LatestOffset /\ input.age \in Int /\ LatestOffset \in Nat
  BY ExtremeOffsets DEF Tick, HasLastInput, HoldAgeInv, TypeInv, TypeOK, Ages
<1>2. state' \in {"Hold", "Lost"}
  BY HoldKeepsOrDrops DEF Tick
<1>3. CASE state \in {"Tracking", "Recovering"}
  <2>1. anchor' = [pos |-> out.world.pos, vel |-> out.world.vel, age |-> input.age]
    BY <1>3 DEF Tick, AnchoredByTick, HoldFrom, HoldOutput
  <2>2. holdAge' = 0
    BY <1>3 DEF Tick
  <2> QED BY <1>1, <1>2, <2>1, <2>2 DEF HoldAgeInv
<1>4. CASE state \in {"Hold", "Lost"}
  <2>1. anchor' = anchor /\ holdAge' = holdAge
    BY <1>4 DEF Tick, AnchoredByTick, HoldOutput
  <2> QED BY <1>1, <1>2, <1>4, <2>1 DEF HoldAgeInv
<1> QED BY <1>3, <1>4 DEF Tick, TypeInv, TypeOK, States

LEMMA HoldAgeInvElapse == ASSUME TypeInv, HoldAgeInv, Elapse PROVE HoldAgeInv'
<1>1. /\ trusted.age \in Int /\ anchor.age \in Int /\ input.age \in Int /\ holdAge \in 0 .. AgeCap
      /\ trusted.age <= AgeCap /\ anchor.age <= AgeCap /\ input.age <= AgeCap
      /\ AgeCap \in Nat /\ LatestOffset \in Nat
  BY DurationAssumption, ExtremeOffsets DEF TypeInv, TypeOK, SampleType, AnchorType, Ages
<1>2. /\ trusted'.age = Older(trusted.age) /\ anchor'.age = Older(anchor.age)
      /\ input'.age = Older(input.age) /\ input'.kind = input.kind
      /\ holdAge' = Older(holdAge) /\ UNCHANGED state
  BY DEF Elapse, OlderSample, TypeInv, TypeOK, SampleType, AnchorType
<1> QED BY <1>1, <1>2 DEF HoldAgeInv, Older

LEMMA HoldAgeInvNext == ASSUME TypeInv, HoldAgeInv, [Next]_vars PROVE HoldAgeInv'
<1>1. CASE \E s \in Samples : Push(s)
  <2>1. PICK s \in Samples : Push(s)
    BY <1>1
  <2>2. PICK o \in Offsets : s.age = -o
    BY DEF Samples
  <2>3. s.age >= -LatestOffset
    BY <2>2, ExtremeOffsets, InputAssumption
  <2> QED BY <2>1, <2>3, SamplesTyped, HoldAgeInvPush
<1>2. CASE Disconnect
  BY <1>2 DEF Disconnect, NoInput, HoldAgeInv
<1>3. CASE UNCHANGED vars
  BY <1>3 DEF vars, HoldAgeInv
<1> QED BY <1>1, <1>2, <1>3, HoldAgeInvTick, HoldAgeInvElapse DEF Next

LEMMA HoldAgeInvariant == Spec => []HoldAgeInv
<1>1. Init => HoldAgeInv
  BY DEF Init, NoInput, HoldAgeInv
<1>2. TypeInv /\ TypeInv' /\ HoldAgeInv /\ [Next]_vars => HoldAgeInv'
  BY HoldAgeInvNext
<1> QED BY <1>1, <1>2, TypeInvariant, PTL DEF Spec

\* A valid pose in Hold is shown no longer than holdSeconds after tracking was lost, up
\* to the spread of the kinematic stamps around the clock.
THEOREM HoldIsShort == Spec => HoldWindow
<1> DEFINE A == Returned /\ out'.poseValid /\ out'.state = "Hold"
                => holdAge' <= HoldTime + LatestOffset - EarliestOffset
<1>1. ASSUME TypeInv, TypeInv', HoldAgeInv, HoldAgeInv', [Next]_vars PROVE [A]_vars
  <2> SUFFICES ASSUME Returned, out'.poseValid, out'.state = "Hold", ~UNCHANGED vars
               PROVE  holdAge' <= HoldTime + LatestOffset - EarliestOffset
    OBVIOUS
  <2>1. LatestOffset \in Nat /\ EarliestOffset \in Int /\ EarliestOffset <= 0 /\ HoldTime \in Nat
        /\ holdAge' \in Nat
    BY <1>1, ExtremeOffsets, DurationAssumption DEF TypeInv, TypeOK
  \* Whoever asks for the held pose gets a valid one only of a recent anchor.
  <2>2. ASSUME NEW a \in AnchorType, NEW t \in Int, t <= -EarliestOffset, NEW c,
               HoldOutput(a, t, c)
        PROVE  holdAge' <= HoldTime + LatestOffset - EarliestOffset
    <3>1. state' \in {"Hold", "Lost"} /\ anchor' = a
      BY <2>2, HoldKeepsOrDrops DEF HoldOutput
    <3>2. ~HoldExpired(a, t)
      <4>1. \A w : InvalidOutput("Lost", w).state = "Lost"
        BY DEF InvalidOutput, Output
      <4> QED BY <2>2, <4>1 DEF HoldOutput
    <3>3. a.age \in Int /\ a.age <= HoldTime + t
      BY <2>1, <2>2, <3>2 DEF HoldExpired, AnchorType, Ages
    <3>4. holdAge' <= a.age + LatestOffset
      BY <1>1, <3>1 DEF HoldAgeInv
    <3> QED BY <2>1, <2>2, <3>3, <3>4
  <2>3. CASE \E s \in Samples : Push(s)
    <3>1. PICK s \in Samples : Push(s)
      BY <2>3
    <3>2. s \in CallbackType
      BY SamplesTyped
    <3>3. s.age \in Int /\ s.age <= -EarliestOffset
      <4>1. PICK o \in Offsets : s.age = -o
        BY DEF Samples
      <4> QED BY <4>1, ExtremeOffsets, InputAssumption
    <3>4. trusted \in AnchorType /\ anchor \in AnchorType
      BY <1>1, AnchorsTyped DEF TypeInv, TypeOK
    <3>5. \A w : InvalidOutput("Lost", w).state = "Lost"
      BY DEF InvalidOutput, Output
    <3>6. \A g, m : RawOutput(g, m).state = "Tracking" /\ WaitingOutput(g).state = "Cold"
      BY DEF RawOutput, WaitingOutput, Output
    <3>7. \A g, p : ColdInvalid(g, p).state = "Cold"
      BY DEF ColdInvalid, InvalidOutput, Output
    <3>8. ~(\E n, p : HandleCold(s, n, p))
      BY <3>6, <3>7 DEF HandleCold
    <3>9. CASE HandleTracking(s)
      BY <2>2, <3>3, <3>4, <3>6, <3>9 DEF HandleTracking, HoldFrom, Accept
    <3>10. CASE HandleHold(s)
      <4>1. \A h, g : ~BeginRecovery(h, g)
        BY DEF BeginRecovery, Output
      <4> QED BY <2>2, <3>3, <3>4, <3>6, <3>10, <4>1 DEF HandleHold, Accept
    <3>11. CASE HandleRecovering(s)
      <4> DEFINE a == [pos |-> out.world.pos, vel |-> out.world.vel, age |-> s.age]
      <4>1. a \in AnchorType
        BY <1>1, <3>2 DEF TypeInv, TypeOK, OutputType, PoseType, AnchorType, CallbackType
      <4>2. HoldOutput(a, s.age, NoCandidate)
        <5>1. \A w : Output(w, TRUE, TRUE, TRUE, "Recovering").state = "Recovering"
          BY DEF Output
        <5> QED BY <3>6, <3>11, <5>1 DEF HandleRecovering, HoldFrom, Accept
      <4> HIDE DEF a
      <4> QED BY <2>2, <3>3, <4>1, <4>2
    <3>12. CASE HandleLost(s)
      BY <3>5, <3>6, <3>12 DEF HandleLost, Accept
    <3> QED BY <3>1, <3>8, <3>9, <3>10, <3>11, <3>12 DEF Push
  <2>4. CASE Tick
    <3> DEFINE a == [pos |-> out.world.pos, vel |-> out.world.vel, age |-> input.age]
    <3>1. a \in AnchorType /\ anchor \in AnchorType
      BY <1>1 DEF TypeInv, TypeOK, OutputType, PoseType, AnchorType
    <3>2. \E c : HoldOutput(a, 0, c) \/ HoldOutput(anchor, 0, c)
      BY <2>4 DEF Tick, HoldFrom
    <3> HIDE DEF a
    <3> QED BY <2>1, <2>2, <3>1, <3>2
  <2>5. CASE Disconnect
    BY <2>5 DEF Disconnect, DisconnectedOutput, Output
  <2>6. CASE Elapse
    <3>1. tickAge' # 0
      BY <1>1, <2>6, DurationAssumption DEF Elapse, TypeInv, TypeOK
    <3>2. arrivalAge' # 0
      BY <1>1, <2>6, OnlyPushArrives
    <3> QED BY <3>1, <3>2 DEF Returned
  <2> QED BY <1>1, <2>3, <2>4, <2>5, <2>6 DEF Next
<1>2. TypeInv /\ TypeInv' /\ HoldAgeInv /\ HoldAgeInv' /\ [Next]_vars => [A]_vars
  BY <1>1
<1> QED BY <1>2, TypeInvariant, HoldAgeInvariant, PTL DEF Spec, HoldWindow
===============================================================================
