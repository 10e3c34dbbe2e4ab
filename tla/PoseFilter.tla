------------------------------ MODULE PoseFilter ------------------------------
(***************************************************************************)
(* The per-tracker pose filter of src/core/tracker_filter.cpp: what push() *)
(* does with one callback and what tick() does when callbacks go silent.   *)
(*                                                                         *)
(* Time.  The code keeps absolute nanosecond stamps and only ever          *)
(* subtracts them.  This module keeps the age of every stamp instead, so   *)
(* that secondsBetween(newer, older) is the difference of two ages and the *)
(* behaviours need no time bound.  Ages saturate at AgeCap, which lies     *)
(* beyond every threshold an age is compared with.  A callback's kinematic *)
(* stamp may lead the arrival clock (negative age) or lag it (positive).   *)
(*                                                                         *)
(* Data.  One integer coordinate stands for the pose and one for its       *)
(* velocity; the code applies the same gates to translation and rotation.  *)
(* Gates, damping and blending keep their formulas in integer arithmetic,  *)
(* except the exponential damping, which is replaced by its limits.        *)
(***************************************************************************)
EXTENDS Integers

CONSTANTS
  WarmupGood,      \* warmupGoodSamples
  ConfirmSamples,  \* candidateConfirmSamples
  MinDt, MaxKin,   \* minDtSeconds, maxKinematicDtSeconds
  ResetGap,        \* resetGapSeconds
  SilenceFloor,    \* the 25 ms below which tick() never sees silence
  TickGap,         \* the 2 ms between two ticks of one silence
  HoldTime,        \* holdSeconds
  DampTime,        \* holdDampingSeconds
  CandSpan,        \* candidateMinSpanSeconds
  LostReacquire,   \* lostReacquireSeconds
  RecMin, RecMax, RecSpeed,            \* recoveryMin/MaxSeconds, ...CorrectionSpeed
  BaseGate, AccelGate, VelSlack,       \* the terms of the innovation gate
  VelBase, HardSpeed,                  \* velocity consistency base, hard maximum
  MaxHoldShift,                        \* maxHoldTranslationMeters
  DirectReturn, QuickReturn, Envelope, \* the three distances around the held pose
  Positions, Velocities, Offsets,      \* what callbacks may carry
  TopSpeed,                            \* bound on the reported |velocity|
  MinPeriod,                           \* callbacks of one device are this far apart
  AgeCap                               \* where ages saturate

ASSUME CountAssumption ==
  /\ WarmupGood \in Nat \ {0}
  /\ ConfirmSamples \in Nat /\ ConfirmSamples >= 2

ASSUME DurationAssumption ==
  /\ {MinDt, MaxKin, ResetGap, SilenceFloor, TickGap, HoldTime, DampTime} \subseteq Nat \ {0}
  /\ {CandSpan, LostReacquire, AgeCap} \subseteq Nat
  /\ {RecMin, RecMax, RecSpeed, AccelGate} \subseteq Nat \ {0}
  /\ MinDt <= MaxKin /\ MaxKin <= ResetGap /\ RecMin <= RecMax

ASSUME GateAssumption ==
  /\ {BaseGate, VelSlack, VelBase, HardSpeed, MaxHoldShift, TopSpeed, MinPeriod} \subseteq Nat
  /\ {DirectReturn, QuickReturn, Envelope} \subseteq Nat
  /\ DirectReturn <= QuickReturn

ASSUME InputAssumption ==
  /\ Positions \subseteq Int
  /\ Velocities \subseteq -TopSpeed .. TopSpeed
  /\ Offsets \subseteq Int

\* Saturation loses nothing: a saturated age is beyond every threshold.
ASSUME AgeCapAssumption ==
  /\ ResetGap < AgeCap /\ HoldTime < AgeCap /\ MinPeriod <= AgeCap /\ LostReacquire <= AgeCap /\ CandSpan <= AgeCap
  /\ \A o \in Offsets : /\ -o \in -AgeCap .. AgeCap
                        /\ HoldTime - o < AgeCap
                        /\ RecMax - o <= AgeCap
                        /\ MaxKin - o <= AgeCap
-------------------------------------------------------------------------------
VARIABLES
  state,      \* state_
  warmup,     \* warmupCount_
  trusted,    \* trusted_
  anchor,     \* holdAnchor_ with holdAnchorTimeNs_
  lostPose,   \* lostPose_
  cand,       \* candidate_; count = 0 is the inactive candidate
  rec,        \* recovery_ with recoveryLastRaw_
  arrivalAge, \* age of lastArrivalTimeNs_
  tickAge,    \* age of lastTickTimeNs_, saturated at TickGap; 0 ("never") is TickGap
  input,      \* the last sample; its age is that of lastInputTimeNs_
  out,        \* the last FilterOutput returned; its world is lastOutput_.world
  run,        \* history: the dense run of good callbacks that ends with input
  goods,      \* history: length of the coherent run of good callbacks, gaps allowed
  holdAge     \* history: time since Tracking or Recovering was left for Hold or Lost

impl == <<state, warmup, trusted, anchor, lostPose, cand, rec, tickAge, out>>
vars == <<state, warmup, trusted, anchor, lostPose, cand, rec, tickAge, out,
          arrivalAge, input, run, goods, holdAge>>

States == {"Cold", "Tracking", "Hold", "Recovering", "Lost"}

\* Samples a callback may deliver.  "ok" is RunningOk with finite numbers and a
\* usable quaternion, "malformed" RunningOk without, "unavailable" any other
\* status of a connected device.
Samples ==
  [kind : {"ok"}, pos : Positions, vel : Velocities, age : {-o : o \in Offsets}] \cup
  [kind : {"malformed", "unavailable"}, pos : {0}, vel : {0}, age : {-o : o \in Offsets}]

NoInput == [kind |-> "none", pos |-> 0, vel |-> 0, age |-> AgeCap]

\* A stored sample or anchor that nothing reads before it is written again.
\* The code leaves the old contents in place; parking them saves states.
Parked == [pos |-> 0, vel |-> 0, age |-> AgeCap]
NoCandidate == [count |-> 0, first |-> AgeCap, lastArrival |-> AgeCap, last |-> Parked]
NoRecovery == [start |-> AgeCap, duration |-> RecMin, posFix |-> 0, velFix |-> 0, last |-> Parked]
NoRun == [n |-> 0, first |-> 0]
\* Where the history of a run saturates: at the largest count and span asked of it.
RunSpan == IF LostReacquire > CandSpan THEN LostReacquire ELSE CandSpan
RunCap == IF ConfirmSamples > WarmupGood THEN ConfirmSamples ELSE WarmupGood
-------------------------------------------------------------------------------
(* Arithmetic of the filter.                                               *)

Least(a, b) == IF a <= b THEN a ELSE b
Largest(a, b) == IF a >= b THEN a ELSE b
Clamp(x, lo, hi) == Least(Largest(x, lo), hi)
Magnitude(x) == IF x >= 0 THEN x ELSE -x

\* secondsBetween of two stamps given by their ages, and the usual max(0, .) of it.
Between(newerAge, olderAge) == olderAge - newerAge
Elapsed(newerAge, olderAge) == Largest(0, Between(newerAge, olderAge))

Stamped(s) == [pos |-> s.pos, vel |-> s.vel, age |-> s.age]
Pose(s) == [pos |-> s.pos, vel |-> s.vel]

\* limitMagnitude: shorten x to at most most, keep its direction.
Limited(x, most) == Clamp(x, -most, most)

\* The dt every gate uses, and the gate without its base term (times 2).
KinDt(prev, s) == Clamp(Between(s.age, prev.age), MinDt, MaxKin)
GateGrowth(dt) == 2 * VelSlack * dt + AccelGate * dt * dt

\* isOutlier: the position innovation exceeds the gate.  scale is twice
\* gateScale: 2 while Tracking, 3 everywhere else.
Outlier(prev, s, scale) ==
  LET dt == KinDt(prev, s) IN
  4 * Magnitude(s.pos - prev.pos - prev.vel * dt) > scale * (2 * BaseGate + GateGrowth(dt))

\* isOutlier: a coherent pose whose reported velocity alone is implausible.
VelocityAnomaly(prev, s, scale) ==
  LET dt == KinDt(prev, s) IN
  \/ Magnitude(s.vel) > HardSpeed
  \/ Magnitude(s.vel - prev.vel) > AccelGate * dt + VelSlack
  \/ 2 * Magnitude(2 * (s.pos - prev.pos) - (prev.vel + s.vel) * dt) >
       scale * (2 * VelBase + GateGrowth(dt))

\* isOutlier: the anomalous velocity is replaced by the interval velocity, never
\* faster than the reported speed nor than the hard maximum.
RepairedFaster(prev, s, scale) ==
  IF VelocityAnomaly(prev, s, scale)
  THEN [s EXCEPT !.vel = (s.pos - prev.pos) \div KinDt(prev, s)]
  ELSE s
Repaired(prev, s, scale) ==
  IF VelocityAnomaly(prev, s, scale)
  THEN [s EXCEPT !.vel = Limited((s.pos - prev.pos) \div KinDt(prev, s),
                                 Least(Magnitude(s.vel), HardSpeed))]
  ELSE s

\* predictDamped with tau * (1 - exp(-t / tau)) replaced by min(t, tau).
PredictDamped(a, t) ==
  LET shift == Limited(a.vel * Least(t, DampTime), MaxHoldShift) IN
  [pos |-> a.pos + shift,
   vel |-> IF t >= DampTime \/ Magnitude(a.vel * Least(t, DampTime)) > MaxHoldShift
           THEN 0 ELSE a.vel]

CloseTo(a, b, distance) == Magnitude(a.pos - b.pos) <= distance

SafeReturnKinematics(a, held, s) ==
  /\ Magnitude(s.vel) <= HardSpeed
  /\ Magnitude(s.vel - held.vel) <= AccelGate * KinDt(a, s) + VelSlack
-------------------------------------------------------------------------------
(* Outputs.                                                                *)

Output(world, valid, synthetic, modified, st) ==
  [world |-> world, poseValid |-> valid, connected |-> TRUE,
   synthetic |-> synthetic, modified |-> modified, state |-> st]

RawOutput(s, modified) == Output(Pose(s), TRUE, FALSE, modified, "Tracking")

InvalidOutput(st, world) ==
  Output(world, FALSE, st = "Hold", st \in {"Hold", "Lost"}, st)

\* What handleCold returns while a good stream is still being counted.
WaitingOutput(s) == Output(Pose(s), FALSE, FALSE, TRUE, "Cold")

DisconnectedOutput ==
  [Output([pos |-> 0, vel |-> 0], FALSE, FALSE, FALSE, "Cold") EXCEPT !.connected = FALSE]

NoOutput == DisconnectedOutput
-------------------------------------------------------------------------------
(* Moves shared by the handlers.                                           *)

\* Tracking is entered or continued with the good sample s.
Accept(s, modified) ==
  /\ state' = "Tracking"
  /\ trusted' = Stamped(s)
  /\ cand' = NoCandidate
  /\ out' = RawOutput(s, modified)
  /\ anchor' = Parked
  /\ rec' = NoRecovery
  /\ lostPose' = Pose(Parked)

\* holdOutput at a stamp of age t, with anchor a and candidate c in force.  The
\* elapsed time alone decides between the two outputs; state_ is consulted only
\* to enter Lost once.
ExpiredSinceLastTick(a, t) == Elapsed(t, tickAge) > HoldTime
HoldExpired(a, t) == Elapsed(t, a.age) > HoldTime

HoldOutput(a, t, c) ==
  /\ anchor' = a
  /\ \/ /\ HoldExpired(a, t)
        /\ state' = "Lost"
        /\ cand' = IF state = "Lost" THEN c ELSE NoCandidate
        /\ lostPose' = IF state = "Lost" THEN lostPose ELSE PredictDamped(a, HoldTime)
        /\ out' = InvalidOutput("Lost", lostPose')
     \/ /\ ~HoldExpired(a, t)
        /\ state' = IF state = "Lost" THEN "Lost" ELSE "Hold"
        /\ cand' = c
        /\ out' = Output(PredictDamped(a, Elapsed(t, a.age)), TRUE, TRUE, TRUE, "Hold")
        /\ UNCHANGED lostPose

\* enterHold followed by holdOutput.
HoldFrom(a, t) ==
  /\ HoldOutput(a, t, NoCandidate)
  /\ trusted' = Parked
  /\ rec' = NoRecovery

\* recoveryOutput: the cubic Hermite blend from the held pose to the raw one.
Blend(r, s) ==
  LET e == Elapsed(s.age, r.start)
      d == r.duration
      p == r.posFix * (2*e*e*e - 3*e*e*d + d*d*d) + r.velFix * d * (e*e*e - 2*e*e*d + e*d*d)
      v == r.posFix * (6*e*e - 6*e*d) + r.velFix * d * (3*e*e - 4*e*d + d*d)
  IN [pos |-> s.pos + p \div (d*d*d), vel |-> s.vel + v \div (d*d*d)]

BlendDone(r, s) == Elapsed(s.age, r.start) >= r.duration

\* beginRecovery: how the way back from held to s is laid out.
RecoveryAtRest(held, s) ==
  [start |-> s.age, duration |-> RecMin, posFix |-> held.pos - s.pos, velFix |-> 0,
   last |-> Stamped(s)]
Recovery(held, s) ==
  LET p == held.pos - s.pos
      v == held.vel - s.vel
      needed == Largest((3 * Magnitude(p)) \div (2 * RecSpeed), Magnitude(v) \div AccelGate)
  IN [start |-> s.age, duration |-> Clamp(needed, RecMin, RecMax),
      posFix |-> p, velFix |-> v, last |-> Stamped(s)]

BeginRecovery(held, s) ==
  /\ state' = "Recovering"
  /\ cand' = NoCandidate
  /\ rec' = Recovery(held, s)
  /\ out' = Output(Blend(Recovery(held, s), s), TRUE, TRUE, TRUE, "Recovering")
  /\ anchor' = Parked
  /\ UNCHANGED <<trusted, lostPose>>

\* updateCandidate, called while the arrival of s is now.
GapNeverSeen == FALSE
CandidateGap == Between(0, cand.lastArrival) > MaxKin
FreshCandidate(s) == [count |-> 1, first |-> 0, lastArrival |-> 0, last |-> Stamped(s)]
ExtendedCandidate(s) ==
  [count |-> Least(cand.count + 1, ConfirmSamples), first |-> cand.first,
   lastArrival |-> 0, last |-> Stamped(Repaired(cand.last, s, 3))]

Restarts == cand.count = 0 \/ CandidateGap
Coherent(s) == Restarts \/ ~Outlier(cand.last, s, 3)
UpdatedCandidate(s) ==
  IF Restarts \/ Outlier(cand.last, s, 3) THEN FreshCandidate(s) ELSE ExtendedCandidate(s)

NoSpan(c) == 0
Span(c) == Between(c.lastArrival, c.first)
-------------------------------------------------------------------------------
(* push(): one handler per state.                                          *)

\* A bad sample starts the warm-up over; it is complete at warmupGoodSamples.
WarmupAfterBad(n) == 0
WarmedUpLate(n) == n > WarmupGood
WarmedUpEarly(n) == n + 1 >= WarmupGood
WarmedUp(n) == n >= WarmupGood

\* An unavailable pose goes through as it came; a malformed one must not.
ColdInvalidAsItCame(s, prev) == InvalidOutput("Cold", Pose(s))
ColdInvalid(s, prev) ==
  IF s.kind = "malformed"
  THEN [InvalidOutput("Cold", Pose(prev)) EXCEPT !.modified = TRUE]
  ELSE InvalidOutput("Cold", Pose(s))

\* handleCold with n good samples counted so far, prev the last of them.
HandleCold(s, n, prev) ==
  LET again == n > 0 /\ Outlier(prev, s, 3)
      good == IF n > 0 THEN Repaired(prev, s, 3) ELSE s
  IN
  /\ anchor' = Parked /\ rec' = NoRecovery /\ lostPose' = Pose(Parked)
  /\ cand' = NoCandidate
  /\ \/ /\ s.kind # "ok"
        /\ state' = "Cold" /\ warmup' = WarmupAfterBad(n)
        /\ out' = ColdInvalid(s, prev)
        /\ trusted' = prev
     \/ /\ s.kind = "ok" /\ again
        /\ state' = "Cold" /\ warmup' = 1
        /\ out' = WaitingOutput(s)
        /\ trusted' = Stamped(s)
     \/ /\ s.kind = "ok" /\ ~again /\ ~WarmedUp(n + 1)
        /\ state' = "Cold" /\ warmup' = n + 1
        /\ out' = WaitingOutput(good)
        /\ trusted' = Stamped(good)
     \/ /\ s.kind = "ok" /\ ~again /\ WarmedUp(n + 1)
        /\ state' = "Tracking" /\ warmup' = n + 1
        /\ out' = RawOutput(good, good # s)
        /\ trusted' = Stamped(good)

HandleTracking(s) ==
  /\ UNCHANGED warmup
  /\ \/ /\ s.kind # "ok" \/ Outlier(trusted, s, 2)
        /\ HoldFrom(trusted, s.age)
     \/ /\ s.kind = "ok" /\ ~Outlier(trusted, s, 2)
        /\ LET good == Repaired(trusted, s, 2) IN Accept(good, good # s)

\* The two ways a candidate earns a recovery: two samples near the held pose, or a
\* coherent run of enough samples over a long enough span.
QuickAtOnce(held, s, c) == CloseTo(held, s, QuickReturn)
Quick(held, s, c) == CloseTo(held, s, QuickReturn) /\ c.count >= 2
Confirmed(s, c) == Coherent(s) /\ c.count >= ConfirmSamples /\ Span(c) >= CandSpan

\* The held pose at the stamp of s.
HeldFor(s) == PredictDamped(anchor, Least(Elapsed(s.age, anchor.age), HoldTime))

HandleHold(s) ==
  LET held == HeldFor(s)
      direct == CloseTo(held, s, DirectReturn) /\ SafeReturnKinematics(anchor, held, s)
      c == UpdatedCandidate(s)
      returns == (Quick(held, s, c) \/ Confirmed(s, c)) /\ CloseTo(held, s, Envelope)
  IN
  /\ UNCHANGED warmup
  /\ \/ /\ s.kind # "ok"
        /\ HoldOutput(anchor, s.age, NoCandidate)
        /\ UNCHANGED <<trusted, rec>>
     \/ /\ s.kind = "ok" /\ direct
        /\ Accept(s, FALSE)
     \/ /\ s.kind = "ok" /\ ~direct /\ returns
        /\ BeginRecovery(held, [s EXCEPT !.vel = c.last.vel])
     \/ /\ s.kind = "ok" /\ ~direct /\ ~returns
        /\ HoldOutput(anchor, s.age, c)
        /\ UNCHANGED <<trusted, rec>>

HandleRecovering(s) ==
  LET good == Repaired(rec.last, s, 3) IN
  /\ UNCHANGED warmup
  /\ \/ /\ s.kind # "ok" \/ Outlier(rec.last, s, 3)
        /\ HoldFrom([pos |-> out.world.pos, vel |-> out.world.vel, age |-> s.age], s.age)
     \/ /\ s.kind = "ok" /\ ~Outlier(rec.last, s, 3) /\ BlendDone(rec, s)
        /\ Accept(good, good # s)
     \/ /\ s.kind = "ok" /\ ~Outlier(rec.last, s, 3) /\ ~BlendDone(rec, s)
        /\ rec' = [rec EXCEPT !.last = Stamped(good)]
        /\ out' = Output(Blend(rec, good), TRUE, TRUE, TRUE, "Recovering")
        /\ UNCHANGED <<state, trusted, cand, anchor, lostPose>>

HandleLost(s) ==
  LET c == UpdatedCandidate(s)
      sustained == c.count >= ConfirmSamples /\ Span(c) >= LostReacquire
  IN
  /\ UNCHANGED warmup
  /\ \/ /\ s.kind = "ok" /\ sustained
        /\ Accept([s EXCEPT !.vel = c.last.vel], c.last.vel # s.vel)
     \/ /\ s.kind # "ok" \/ ~sustained
        /\ cand' = IF s.kind = "ok" THEN c ELSE NoCandidate
        /\ out' = InvalidOutput("Lost", lostPose)
        /\ UNCHANGED <<state, trusted, anchor, lostPose, rec>>
-------------------------------------------------------------------------------
(* The history variables.  They follow the callbacks alone, never the      *)
(* decisions of the filter.                                                *)

\* Two successive good samples a real motion could produce: no single gate and no
\* reported speed explains a larger step.
Plausible(s) ==
  LET dt == KinDt(input, s) IN
  4 * Magnitude(s.pos - input.pos) <= 3 * (2 * BaseGate + GateGrowth(dt)) + 4 * TopSpeed * dt

Record(s) ==
  /\ arrivalAge' = 0 /\ tickAge' = TickGap
  /\ input' = s
  /\ run' = IF s.kind # "ok" THEN NoRun
            ELSE IF run.n > 0 /\ arrivalAge <= MaxKin /\ Plausible(s)
            THEN [run EXCEPT !.n = Least(run.n + 1, RunCap)]
            ELSE [n |-> 1, first |-> 0]
  /\ goods' = IF s.kind # "ok" THEN 0
              ELSE IF goods > 0 /\ arrivalAge <= ResetGap /\ Plausible(s)
              THEN Least(goods + 1, WarmupGood)
              ELSE 1
  /\ holdAge' = IF {state, state'} \subseteq {"Hold", "Lost"} THEN holdAge ELSE 0
-------------------------------------------------------------------------------
(* The steps.                                                              *)

\* push(): after a gap the filter starts over with the sample in hand.
HasLastInput == input.kind # "none"
TimeReset == HasLastInput /\ arrivalAge > ResetGap
GapReacquire(s) ==
  /\ HasLastInput /\ s.kind \in {"ok", "malformed"}
  /\ arrivalAge > MaxKin /\ state \in {"Tracking", "Recovering"}
StartsOver(s) == TimeReset \/ GapReacquire(s)

Push(s) ==
  /\ arrivalAge >= MinPeriod
  /\ \/ StartsOver(s) /\ HandleCold(s, 0, Parked)
     \/ ~StartsOver(s) /\ state = "Cold" /\ HandleCold(s, warmup, trusted)
     \/ ~StartsOver(s) /\ state = "Tracking" /\ HandleTracking(s)
     \/ ~StartsOver(s) /\ state = "Hold" /\ HandleHold(s)
     \/ ~StartsOver(s) /\ state = "Recovering" /\ HandleRecovering(s)
     \/ ~StartsOver(s) /\ state = "Lost" /\ HandleLost(s)
  /\ Record(s)

\* reset(), the whole of what push() does with a disconnected device.
Disconnect ==
  /\ state' = "Cold" /\ warmup' = 0
  /\ trusted' = Parked /\ anchor' = Parked /\ lostPose' = Pose(Parked)
  /\ cand' = NoCandidate /\ rec' = NoRecovery
  /\ arrivalAge' = AgeCap /\ tickAge' = TickGap
  /\ input' = NoInput
  /\ out' = DisconnectedOutput
  /\ run' = NoRun /\ goods' = 0 /\ holdAge' = 0

\* A tick anchors a new hold unless one is already running, and drops the candidate:
\* a silence is no evidence that it stayed valid.
AnchoredAnew == {"Tracking", "Recovering", "Hold"}
AnchoredWhenLost == {"Tracking", "Recovering", "Lost"}
AnchoredByTick == {"Tracking", "Recovering"}
CandidateKept == cand
CandidateAfterTick == NoCandidate

\* tick() once it sees silence.  A tick that sees none changes nothing.  The
\* threshold max(25 ms, 2.5 * EWMA) may be any value from SilenceFloor up: a longer
\* one shows as Tick not being taken yet.
Tick ==
  /\ HasLastInput /\ state # "Cold"
  /\ arrivalAge >= SilenceFloor /\ tickAge >= TickGap
  /\ tickAge' = 0
  /\ \/ /\ state \in AnchoredByTick
        /\ HoldFrom([pos |-> out.world.pos, vel |-> out.world.vel, age |-> input.age], 0)
     \/ /\ state \notin AnchoredByTick
        /\ HoldOutput(anchor, 0, CandidateAfterTick)
        /\ UNCHANGED <<trusted, rec>>
  /\ run' = NoRun
  /\ holdAge' = IF state \in {"Hold", "Lost"} THEN holdAge ELSE 0
  /\ UNCHANGED <<warmup, arrivalAge, input, goods>>

\* Time passes: every age grows by one unit.
Older(age) == Least(age + 1, AgeCap)
OlderSample(a) == [a EXCEPT !.age = Older(@)]

Elapse ==
  /\ trusted' = OlderSample(trusted) /\ anchor' = OlderSample(anchor)
  /\ cand' = [cand EXCEPT !.first = Older(@), !.lastArrival = Older(@), !.last = OlderSample(@)]
  /\ rec' = [rec EXCEPT !.start = Older(@), !.last = OlderSample(@)]
  /\ arrivalAge' = Older(arrivalAge)
  /\ tickAge' = Least(tickAge + 1, TickGap)
  /\ input' = OlderSample(input)
  /\ run' = IF run.n = 0 THEN NoRun ELSE [run EXCEPT !.first = Least(@ + 1, RunSpan)]
  /\ holdAge' = Older(holdAge)
  /\ UNCHANGED <<state, warmup, lostPose, out, goods>>

Init ==
  /\ state = "Cold" /\ warmup = 0
  /\ trusted = Parked /\ anchor = Parked /\ lostPose = Pose(Parked)
  /\ cand = NoCandidate /\ rec = NoRecovery
  /\ arrivalAge = AgeCap /\ tickAge = TickGap
  /\ input = NoInput /\ out = NoOutput
  /\ run = NoRun /\ goods = 0 /\ holdAge = 0

Next ==
  \/ \E s \in Samples : Push(s)
  \/ Disconnect
  \/ Tick
  \/ Elapse

Spec == Init /\ [][Next]_vars

\* Time passes, and RunFrame keeps calling tick() while the watchdog is enabled.
FairSpec == Spec /\ WF_vars(Elapse) /\ WF_vars(Tick)
-------------------------------------------------------------------------------
(* What the filter promises.                                               *)

Ages == -AgeCap .. AgeCap
PoseType == [pos : Int, vel : Int]
AnchorType == [pos : Int, vel : Int, age : Ages]
\* Samples that later ones are compared with never carry a velocity beyond the
\* reported ones: repair does not increase a speed.
SampleType == [pos : Int, vel : -TopSpeed .. TopSpeed, age : Ages]
OutputType == [world : PoseType, poseValid : BOOLEAN, connected : BOOLEAN,
               synthetic : BOOLEAN, modified : BOOLEAN, state : States]

\* Every variable has its type; ages stay within the saturation bound.
TypeOK ==
  /\ state \in States
  /\ warmup \in 0 .. WarmupGood
  /\ trusted \in SampleType /\ anchor \in AnchorType /\ lostPose \in PoseType
  /\ cand \in [count : 0 .. ConfirmSamples, first : 0 .. AgeCap,
               lastArrival : 0 .. AgeCap, last : SampleType]
  /\ rec \in [start : Ages, duration : RecMin .. RecMax, posFix : Int, velFix : Int,
              last : SampleType]
  /\ arrivalAge \in 0 .. AgeCap /\ tickAge \in 0 .. TickGap
  /\ input \in [kind : {"none", "ok", "malformed", "unavailable"}, pos : Int,
                vel : -TopSpeed .. TopSpeed, age : Ages]
  /\ out \in OutputType
  /\ run \in [n : 0 .. RunCap, first : 0 .. RunSpan]
  /\ goods \in 0 .. WarmupGood /\ holdAge \in 0 .. AgeCap

\* In Lost no output is ever valid, whether a callback or the watchdog asked for it
\* (holdOutput decides by elapsed time alone, without looking at state_).
LostOutputsInvalid == state = "Lost" => ~out.poseValid

\* The candidate never claims more evidence than the stream of callbacks holds: at
\* most as many samples, spanning at most as long, as the uninterrupted run of
\* good callbacks up to now, whatever gaps, ticks and bad samples came between.
CandidateSupported ==
  cand.count > 0 => cand.count <= run.n /\ Least(cand.first, RunSpan) <= run.first

\* Lost is left for Tracking only on a sustained stream: enough good callbacks in a
\* row, none missing, over at least lostReacquireSeconds; else only after a gap
\* that restarted the filter.
ReacquireNeedsStream ==
  [][state = "Lost" /\ state' = "Tracking" /\ arrivalAge <= ResetGap
       => run'.n >= ConfirmSamples /\ run'.first >= LostReacquire]_vars

\* Recovery toward a new place starts only from two good callbacks close to the held
\* pose, or from a confirmed run of them; one outlier never drags the output along.
RecoveryNeedsRun ==
  [][state = "Hold" /\ state' = "Recovering"
       => /\ run'.n >= 2
          /\ \/ Magnitude(out'.world.pos - input'.pos) <= QuickReturn
             \/ run'.n >= ConfirmSamples /\ run'.first >= CandSpan]_vars

\* Nothing valid comes out after a start or a reset before a full coherent warm-up.
WarmupBeforeValid ==
  [][state = "Cold" /\ out'.poseValid => goods' >= WarmupGood]_vars

\* Hold shows a predicted pose for holdSeconds at most, counted on the arrival clock
\* from the moment tracking was lost, plus what the kinematic stamps may differ.
LatestOffset == CHOOSE o \in Offsets \cup {0} : \A p \in Offsets \cup {0} : p <= o
EarliestOffset == CHOOSE o \in Offsets \cup {0} : \A p \in Offsets \cup {0} : o <= p
Returned == arrivalAge' = 0 \/ tickAge' = 0
HoldWindow ==
  [][Returned /\ out'.poseValid /\ out'.state = "Hold"
       => holdAge' <= HoldTime + LatestOffset - EarliestOffset]_vars

\* The output is continuous where Hold hands over to Recovering (it starts exactly at
\* the held pose, moving as the held pose moved) and where an interrupted recovery
\* falls back to Hold (which starts exactly at the last output).
ContinuousHandOver ==
  [][arrivalAge' = 0 =>
       /\ state = "Hold" /\ state' = "Recovering" => out'.world = HeldFor(input')
       /\ state = "Recovering" /\ state' = "Hold" => out'.world = out.world]_vars

\* A RunningOk callback with a malformed pose never reaches the runtime as it came.
MalformedFailsClosed ==
  [][arrivalAge' = 0 /\ input'.kind = "malformed"
       => out'.modified /\ (out'.poseValid => out'.synthetic)]_vars

\* A pose handed on as raw never moves faster than the callback reported nor than the
\* hard limit, whichever of the five ways into Tracking produced it: the velocity is
\* repaired against a different neighbour on each of them.
RawSpeedBounded ==
  [][arrivalAge' = 0 /\ state' = "Tracking"
       => Magnitude(out'.world.vel) <= Least(Magnitude(input'.vel), HardSpeed)]_vars

\* When callbacks stop for good, the runtime is eventually told that the pose is
\* no longer valid, however the silence finds the filter.
SilenceDropsPose == <>[](arrivalAge > 0) => <>[](~out.poseValid)

\* A stream of good callbacks that is not interrupted any more is eventually
\* tracked again, from whatever state it finds the filter in.
Streaming == <>[](run.n >= 2) /\ []<>(arrivalAge = 0)
StreamIsTracked == Streaming => []<>(state = "Tracking")
===============================================================================
