------------------------- MODULE PoseForwardingProofs -------------------------
(* Proofs about PoseForwarding: how the shutdown of the hooks and of the      *)
(* provider keeps away from the calls in progress, for any number of threads  *)
(* and devices, any nesting of the host's calls and any faults, also when     *)
(* Init and Cleanup overlap a RunFrame.                                       *)
EXTENDS PoseForwarding, FiniteSetTheorems, SequenceTheorems, TLAPS

-------------------------------------------------------------------------------
(* The calls on a stack.                                                       *)

PoseLabels == {"pose.count", "pose.check", "pose.load", "pose.target", "pose.lock",
               "pose.filter", "pose.call", "pose.bypass", "host.pose", "host.bypass"}
GetLabels == {"get.count", "get.check", "get.load", "get.observe"}
CallbackLabels == PoseLabels \cup GetLabels \cup {"leave"}
SubmitLabels == {"submit.count", "submit.check", "submit.lock", "submit.test",
                 "submit.call", "host.synthetic", "submit.leave"}
RunLabels == {"run.count", "run.check", "run.next", "run.commit", "run.end"}
FrameLabels == RunLabels \cup SubmitLabels
InitLabels == {"init.install", "init.poseHook", "init.contextHook", "init.activate"}
CleanLabels == {"clean.drainFrames", "clean.close", "clean.shutDetours", "clean.disable",
                "clean.drainCalls", "clean.free", "clean.filters"}
LifeLabels == InitLabels \cup CleanLabels

\* What a call has done at each of its labels: a pose was sent once when the host has it,
\* and not before; what carries a device is a pose.
BeforeHost == {"pose.count", "pose.check", "pose.load", "pose.target", "pose.lock",
               "pose.filter", "pose.call", "pose.bypass",
               "run.count", "run.check", "run.next", "run.commit", "run.end",
               "submit.count", "submit.check", "submit.lock", "submit.test", "submit.call"}
CallOK(c) ==
  /\ c \in CallType
  /\ c.at \in BeforeHost => c.sent = 0
  /\ c.at \in PoseLabels \cup SubmitLabels \cup {"run.commit"} => c.dev \in Devices
  /\ c.at \in {"host.pose", "host.bypass"} => c.sent = 1
  /\ c.at \in GetLabels => c.dev = NoDevice /\ c.sent = 0
  /\ c.at \in FrameLabels \cup LifeLabels => c.sent <= 1
  /\ c.at = "leave" => c.sent <= 1 /\ (c.dev = NoDevice \/ c.sent = 1 \/ c.late)

\* Only the host calls back: what lies under the top of a stack is in the host.
StackInv ==
  /\ stack \in [Threads -> Seq(CallType)]
  /\ \A t \in Threads : \A i \in 1 .. Len(stack[t]) : CallOK(stack[t][i])
  /\ \A t \in Threads : \A i \in 2 .. Len(stack[t]) : stack[t][i].at \in InHost
  /\ \A t \in Callers : \A i \in 1 .. Len(stack[t]) : stack[t][i].at \in CallbackLabels
  /\ \A i \in 1 .. Len(stack[Frame]) :
        stack[Frame][i].at \in IF i = Len(stack[Frame]) THEN FrameLabels ELSE CallbackLabels
  /\ Len(stack[Life]) <= 1 /\ \A i \in 1 .. Len(stack[Life]) : stack[Life][i].at \in LifeLabels

\* inFlight_ counts the calls between their CallbackRundown and its end: every call of a
\* stack but the top one where it is not yet or no longer counted.
Uncounted == {"pose.count", "get.count", "submit.count"} \cup RunLabels \cup LifeLabels
Counted(t) ==
  IF stack[t] = <<>> THEN 0
  ELSE IF stack[t][1].at \in Uncounted THEN Len(stack[t]) - 1 ELSE Len(stack[t])
InFlight == {p \in Threads \X Nat : 1 <= p[2] /\ p[2] <= Counted(p[1])}
CountInv == IsFiniteSet(InFlight) /\ inFlight = Cardinality(InFlight)

RunCounted ==
  IF stack[Frame] = <<>> \/ stack[Frame][Len(stack[Frame])].at = "run.count" THEN 0 ELSE 1
-------------------------------------------------------------------------------
(* The shutdown.                                                               *)

LifeAt == IF stack[Life] = <<>> THEN "none" ELSE stack[Life][1].at

\* No RunFrame is past its second look at active_.
FramesGone == ~active /\ LifeAt # "clean.drainFrames"

\* What the hooks allow a call to be at.  After the drain no call is past the flag.
Harmless == {"pose.count", "pose.check", "get.count", "get.check", "leave",
             "run.count", "run.check", "run.end"} \cup LifeLabels
SafeCalls == {c \in CallType :
  /\ hooks.pose = "none" => c.at \notin Using \cup SubmitLabels
  /\ ~hooks.installed => c.at # "get.observe"
  /\ c.at \in {"pose.count", "pose.check", "pose.load"} =>
       (hooks.pose # "on" \/ hooks.detourShutdown => c.late)
  /\ LifeAt = "clean.free" => c.at \in Harmless
  /\ FramesGone => c.at \notin SubmitLabels \cup {"run.next", "run.commit"}}
CallsInv == \A t \in Threads : \A i \in 1 .. Len(stack[t]) : stack[t][i] \in SafeCalls

\* What Init and Cleanup know at their program counters.
LifeInv ==
  /\ mutex = IF LifeAt \in {"init.poseHook", "init.contextHook",
                            "clean.shutDetours", "clean.disable"} THEN Life ELSE NoThread
  /\ LifeAt \in InitLabels => ready /\ ~active
  /\ LifeAt \in CleanLabels => ~ready /\ ~active
  /\ LifeAt = "none" => (active <=> ready)
  /\ LifeAt \in {"init.install", "clean.filters"} \/ (LifeAt = "none" /\ ~ready)
       => ~hooks.installed
  /\ LifeAt = "init.poseHook" => hooks.pose = "none"
  /\ LifeAt \in {"init.poseHook", "init.contextHook"} =>
       hooks.installed /\ ~hooks.detourShutdown /\ ~hooks.shuttingDown
  /\ LifeAt \in {"clean.shutDetours", "clean.disable", "clean.drainCalls", "clean.free"} =>
       ~hooks.instance
  /\ LifeAt \in {"clean.disable", "clean.drainCalls", "clean.free"} => hooks.detourShutdown
  /\ runFrames = RunCounted

HooksInv ==
  /\ hooks \in HooksType
  /\ ~hooks.installed => ~hooks.instance /\ hooks.pose = "none" /\ hooks.context = "none"
  /\ NoHookLeftBehind

\* A slot is armed by a callback only: a watchdog that finds one has a hook to send to.
ArmedInv ==
  /\ slot \in [Devices -> [armed : BOOLEAN, filter : Filters, captured : BOOLEAN]]
  /\ hooks.pose = "none" /\ LifeAt # "clean.filters" /\ ~(LifeAt = "none" /\ ~ready)
       => \A d \in Devices : ~slot[d].armed

ShutdownInv == StackInv /\ CountInv /\ CallsInv /\ LifeInv /\ HooksInv /\ ArmedInv
-------------------------------------------------------------------------------
(* What a step does to the stacks.                                             *)

\* The same call, possibly met by a shutdown or by a prediction in between.
Like(c, e) ==
  /\ c \in CallType
  /\ c.at = e.at /\ c.dev = e.dev /\ c.todo = e.todo /\ c.sent = e.sent /\ c.lost = e.lost
  /\ e.late => c.late
  /\ c.newer => e.newer

\* The top call of t goes on as c.
TopBecomes(t, c) ==
  /\ stack' \in [Threads -> Seq(CallType)]
  /\ \A u \in Threads : Len(stack'[u]) = Len(stack[u])
  /\ stack'[t][1] = c
  /\ \A u \in Threads : \A i \in 1 .. Len(stack[u]) :
        u # t \/ i # 1 => Like(stack'[u][i], stack[u][i])

\* A call c begins on t.
Pushed(t, c) ==
  /\ stack' \in [Threads -> Seq(CallType)]
  /\ Len(stack'[t]) = Len(stack[t]) + 1
  /\ stack'[t][1] = c
  /\ \A i \in 1 .. Len(stack[t]) : stack'[t][i + 1] = stack[t][i]
  /\ \A u \in Threads : u # t => stack'[u] = stack[u]

\* The top call of t ends.
Popped(t) ==
  /\ stack' \in [Threads -> Seq(CallType)]
  /\ Len(stack'[t]) = Len(stack[t]) - 1
  /\ \A i \in 1 .. Len(stack[t]) - 1 : stack'[t][i] = stack[t][i + 1]
  /\ \A u \in Threads : u # t => stack'[u] = stack[u]

StackType == stack \in [Threads -> Seq(CallType)]

LEMMA StackFacts ==
  ASSUME StackType, NEW t \in Threads
  PROVE  /\ stack[t] \in Seq(CallType)
         /\ Len(stack[t]) \in Nat
         /\ DOMAIN stack[t] = 1 .. Len(stack[t])
         /\ stack[t] = <<>> <=> Len(stack[t]) = 0
         /\ stack[t] # <<>> => 1 \in 1 .. Len(stack[t]) /\ stack[t][1] \in CallType
                               /\ Top(t) = stack[t][1]
         /\ \A i \in 1 .. Len(stack[t]) : stack[t][i] \in CallType
<1>1. stack[t] \in Seq(CallType)
  BY DEF StackType
<1>2. Len(stack[t]) \in Nat /\ DOMAIN stack[t] = 1 .. Len(stack[t])
  BY <1>1, LenProperties
<1>3. \A i \in 1 .. Len(stack[t]) : stack[t][i] \in CallType
  BY <1>1, ElementOfSeq
<1>4. stack[t] = <<>> <=> Len(stack[t]) = 0
  BY <1>1, EmptySeq
<1>5. stack[t] # <<>> => 1 \in 1 .. Len(stack[t])
  BY <1>2, <1>4
<1>6. stack[t] # <<>> => Top(t) = stack[t][1]
  BY <1>1, HeadTailProperties DEF Top
<1> QED
  BY <1>1, <1>2, <1>3, <1>4, <1>5, <1>6

\* A call that is the same is like itself.
LEMMA LikeItself ==
  ASSUME NEW c \in CallType PROVE Like(c, c)
BY DEF Like

LEMMA ReplaceEffect ==
  ASSUME StackType, NEW t \in Threads, stack[t] # <<>>, NEW c \in CallType,
         stack' = [stack EXCEPT ![t] = [stack[t] EXCEPT ![1] = c]]
  PROVE  TopBecomes(t, c)
<1> DEFINE new == [stack[t] EXCEPT ![1] = c]
<1>1. stack[t] \in Seq(CallType) /\ 1 \in 1 .. Len(stack[t])
  BY StackFacts
<1>2. /\ new \in Seq(CallType)
      /\ Len(new) = Len(stack[t])
      /\ \A j \in 1 .. Len(stack[t]) : new[j] = IF j = 1 THEN c ELSE stack[t][j]
  BY <1>1, ExceptSeq
<1> HIDE DEF new
<1>3. stack' = [stack EXCEPT ![t] = new]
  BY DEF new
<1>4. stack' \in [Threads -> Seq(CallType)] /\ stack'[t] = new
      /\ \A u \in Threads : u # t => stack'[u] = stack[u]
  BY <1>2, <1>3 DEF StackType
<1>5. stack'[t][1] = c
  BY <1>1, <1>2, <1>4
<1>6. \A u \in Threads : Len(stack'[u]) = Len(stack[u])
  BY <1>2, <1>4
<1>7. ASSUME NEW u \in Threads, NEW i \in 1 .. Len(stack[u]), u # t \/ i # 1
      PROVE  Like(stack'[u][i], stack[u][i])
  <2>1. stack[u][i] \in CallType
    BY StackFacts
  <2>2. stack'[u][i] = stack[u][i]
    BY <1>2, <1>4, <1>7
  <2> QED
    BY <2>1, <2>2, LikeItself
<1> QED
  BY <1>4, <1>5, <1>6, <1>7 DEF TopBecomes

\* Moving on to a label.
LEMMA GotoEffect ==
  ASSUME StackType, NEW t \in Threads, stack[t] # <<>>, NEW label \in Labels, Goto(t, label)
  PROVE  TopBecomes(t, [stack[t][1] EXCEPT !.at = label])
<1>1. stack[t][1] \in CallType
  BY StackFacts
<1>2. [stack[t][1] EXCEPT !.at = label] \in CallType
  BY <1>1 DEF CallType
<1>3. stack' = [stack EXCEPT ![t] = [stack[t] EXCEPT ![1] = [stack[t][1] EXCEPT !.at = label]]]
  BY DEF Goto
<1> QED
  BY <1>2, <1>3, ReplaceEffect

LEMMA BeginEffect ==
  ASSUME StackType, NEW t \in Threads, NEW c \in CallType, Begin(t, c)
  PROVE  Pushed(t, c)
<1> DEFINE new == <<c>> \o stack[t]
<1>1. stack[t] \in Seq(CallType) /\ Len(stack[t]) \in Nat
  BY StackFacts
<1>2. <<c>> \in Seq(CallType) /\ Len(<<c>>) = 1 /\ <<c>>[1] = c
  OBVIOUS
<1>3. /\ new \in Seq(CallType)
      /\ Len(new) = Len(<<c>>) + Len(stack[t])
      /\ \A i \in 1 .. Len(<<c>>) + Len(stack[t]) :
           new[i] = IF i <= Len(<<c>>) THEN <<c>>[i] ELSE stack[t][i - Len(<<c>>)]
  BY <1>1, <1>2, ConcatProperties
<1> HIDE DEF new
<1>4. /\ Len(new) = Len(stack[t]) + 1
      /\ new[1] = c
      /\ \A i \in 1 .. Len(stack[t]) : new[i + 1] = stack[t][i]
  <2>1. \A i \in 1 .. Len(stack[t]) : i + 1 \in 1 .. 1 + Len(stack[t]) /\ ~(i + 1 <= 1)
                                      /\ i + 1 - 1 = i
    BY <1>1
  <2>2. 1 \in 1 .. 1 + Len(stack[t])
    BY <1>1
  <2> QED
    BY <1>1, <1>2, <1>3, <2>1, <2>2
<1>5. stack' = [stack EXCEPT ![t] = new]
  BY DEF Begin, new
<1>6. stack' \in [Threads -> Seq(CallType)] /\ stack'[t] = new
      /\ \A u \in Threads : u # t => stack'[u] = stack[u]
  BY <1>3, <1>5 DEF StackType
<1> QED
  BY <1>4, <1>6 DEF Pushed

LEMMA EndEffect ==
  ASSUME StackType, NEW t \in Threads, stack[t] # <<>>, End(t)
  PROVE  Popped(t)
<1> DEFINE new == Tail(stack[t])
<1>1. stack[t] \in Seq(CallType) /\ Len(stack[t]) \in Nat
  BY StackFacts
<1>2. /\ new \in Seq(CallType)
      /\ Len(new) = Len(stack[t]) - 1
      /\ \A i \in 1 .. Len(stack[t]) - 1 : new[i] = stack[t][i + 1]
  BY <1>1, HeadTailProperties
<1> HIDE DEF new
<1>3. stack' = [stack EXCEPT ![t] = new]
  BY DEF End, new
<1>4. stack' \in [Threads -> Seq(CallType)] /\ stack'[t] = new
      /\ \A u \in Threads : u # t => stack'[u] = stack[u]
  BY <1>2, <1>3 DEF StackType
<1> QED
  BY <1>2, <1>4 DEF Popped

-------------------------------------------------------------------------------
(* The shape of the stacks.                                                    *)

SameKind(a, b) ==
  /\ a \in CallbackLabels <=> b \in CallbackLabels
  /\ a \in FrameLabels <=> b \in FrameLabels
  /\ a \in LifeLabels <=> b \in LifeLabels

LEMMA ThreadFacts ==
  /\ Frame \in Threads /\ Life \in Threads /\ Frame # Life
  /\ \A t \in Callers : t \in Threads /\ t # Frame /\ t # Life
  /\ \A t \in Threads : t \in Callers \/ t = Frame \/ t = Life
  /\ NoThread \notin Threads
BY ThreadAssumption DEF Threads

LEMMA StackInvType ==
  StackInv => StackType
BY DEF StackInv, StackType

LEMMA CallFields ==
  ASSUME NEW c \in CallType
  PROVE  /\ c.at \in Labels /\ c.dev \in Devices \cup {NoDevice} /\ c.todo \in SUBSET Devices
         /\ c.newer \in BOOLEAN /\ c.late \in BOOLEAN /\ c.lost \in BOOLEAN /\ c.sent \in 0 .. 2
BY DEF CallType

LEMMA LikeOK ==
  ASSUME NEW c, NEW e, Like(c, e), CallOK(e) PROVE CallOK(c)
<1>1. c \in CallType
  BY DEF Like
<1>2. c.at = e.at /\ c.dev = e.dev /\ c.sent = e.sent /\ (e.late => c.late)
  BY DEF Like
<1>3. /\ c.at \in BeforeHost => c.sent = 0
      /\ c.at \in PoseLabels \cup SubmitLabels \cup {"run.commit"} => c.dev \in Devices
      /\ c.at \in {"host.pose", "host.bypass"} => c.sent = 1
      /\ c.at \in GetLabels => c.dev = NoDevice /\ c.sent = 0
  BY <1>2, Zenon DEF CallOK
<1>4. /\ c.at \in FrameLabels \cup LifeLabels => c.sent <= 1
      /\ c.at = "leave" => c.sent <= 1 /\ (c.dev = NoDevice \/ c.sent = 1 \/ c.late)
  BY <1>2, Zenon DEF CallOK
<1> QED
  BY <1>1, <1>3, <1>4, Zenon DEF CallOK

LEMMA StackReplaced ==
  ASSUME StackInv, NEW t \in Threads, stack[t] # <<>>, NEW c, CallOK(c), TopBecomes(t, c),
         SameKind(c.at, stack[t][1].at)
  PROVE  StackInv'
<1>1. stack' \in [Threads -> Seq(CallType)] /\ \A u \in Threads : Len(stack'[u]) = Len(stack[u])
  BY DEF TopBecomes
<1>2. \A u \in Threads : Len(stack[u]) \in Nat
  BY StackInvType, StackFacts
<1>3. ASSUME NEW u \in Threads, NEW i \in 1 .. Len(stack[u])
      PROVE  /\ CallOK(stack'[u][i])
             /\ SameKind(stack'[u][i].at, stack[u][i].at)
             /\ i # 1 => stack'[u][i].at = stack[u][i].at
  <2>1. CASE u = t /\ i = 1
    BY <2>1 DEF TopBecomes
  <2>2. CASE ~(u = t /\ i = 1)
    <3>1. Like(stack'[u][i], stack[u][i])
      BY <2>2 DEF TopBecomes
    <3>2. CallOK(stack[u][i])
      BY DEF StackInv
    <3>3. CallOK(stack'[u][i])
      BY <3>1, <3>2, LikeOK
    <3> QED
      BY <3>1, <3>3 DEF Like, SameKind
  <2> QED
    BY <2>1, <2>2
<1>4. \A u \in Threads : \A i \in 1 .. Len(stack'[u]) : CallOK(stack'[u][i])
  BY <1>1, <1>3
<1>5. \A u \in Threads : \A i \in 2 .. Len(stack'[u]) : stack'[u][i].at \in InHost
  <2>1. ASSUME NEW u \in Threads, NEW i \in 2 .. Len(stack[u]) PROVE stack'[u][i].at \in InHost
    <3>1. i \in 1 .. Len(stack[u]) /\ i # 1
      BY <1>2
    <3>2. stack[u][i].at \in InHost
      BY DEF StackInv
    <3> QED
      BY <1>3, <3>1, <3>2
  <2> QED
    BY <1>1, <2>1
<1>6. \A u \in Callers : \A i \in 1 .. Len(stack'[u]) : stack'[u][i].at \in CallbackLabels
  BY <1>1, <1>3, ThreadFacts DEF StackInv, SameKind
<1>7. \A i \in 1 .. Len(stack'[Frame]) :
        stack'[Frame][i].at \in IF i = Len(stack'[Frame]) THEN FrameLabels ELSE CallbackLabels
  BY <1>1, <1>3, ThreadFacts DEF StackInv, SameKind
<1>8. Len(stack'[Life]) <= 1 /\ \A i \in 1 .. Len(stack'[Life]) : stack'[Life][i].at \in LifeLabels
  BY <1>1, <1>3, ThreadFacts DEF StackInv, SameKind
<1> QED
  BY <1>1, <1>4, <1>5, <1>6, <1>7, <1>8 DEF StackInv

\* Where a call may begin: Init and Cleanup on their thread, RunFrame at the bottom of its
\* own, and everything else under a call that is in the host, or alone on a caller.
MayStart(t, label) ==
  /\ t = Life => stack[Life] = <<>>
  /\ stack[t] # <<>> => stack[t][1].at \in InHost
  /\ label \in IF t = Life THEN LifeLabels
               ELSE IF t = Frame /\ stack[t] = <<>> THEN FrameLabels ELSE CallbackLabels

LEMMA StackPushed ==
  ASSUME StackInv, NEW t \in Threads, NEW c, CallOK(c), Pushed(t, c), MayStart(t, c.at)
  PROVE  StackInv'
<1>1. stack' \in [Threads -> Seq(CallType)] /\ Len(stack'[t]) = Len(stack[t]) + 1
  BY DEF Pushed
<1>2. \A u \in Threads : Len(stack[u]) \in Nat /\ (stack[u] = <<>> <=> Len(stack[u]) = 0)
  BY StackInvType, StackFacts
<1>3. \A u \in Threads : u # t => stack'[u] = stack[u]
  BY DEF Pushed
<1>4. ASSUME NEW i \in 1 .. Len(stack'[t])
      PROVE  /\ i = 1 => stack'[t][i] = c
             /\ i # 1 => i - 1 \in 1 .. Len(stack[t]) /\ stack'[t][i] = stack[t][i - 1]
  <2>1. i = 1 => stack'[t][i] = c
    BY DEF Pushed
  <2>2. ASSUME i # 1 PROVE i - 1 \in 1 .. Len(stack[t]) /\ stack'[t][i] = stack[t][i - 1]
    <3>1. i - 1 \in 1 .. Len(stack[t]) /\ (i - 1) + 1 = i
      BY <1>1, <1>2, <2>2
    <3>2. stack'[t][(i - 1) + 1] = stack[t][i - 1]
      BY <3>1 DEF Pushed
    <3> QED
      BY <3>1, <3>2
  <2> QED
    BY <2>1, <2>2
<1>5. \A u \in Threads : \A i \in 1 .. Len(stack'[u]) : CallOK(stack'[u][i])
  BY <1>3, <1>4 DEF StackInv
<1>6. ASSUME NEW u \in Threads, NEW i \in 2 .. Len(stack'[u]) PROVE stack'[u][i].at \in InHost
  <2>1. CASE u # t
    BY <1>3, <2>1 DEF StackInv
  <2>2. CASE u = t
    <3>1. i \in 1 .. Len(stack'[t]) /\ i # 1
      BY <1>1, <1>2, <2>2
    <3>2. i - 1 \in 1 .. Len(stack[t]) /\ stack'[t][i] = stack[t][i - 1]
      BY <1>4, <3>1
    <3>3. CASE i - 1 = 1
      BY <1>2, <2>2, <3>2, <3>3 DEF MayStart
    <3>4. CASE i - 1 # 1
      <4>1. i - 1 \in 2 .. Len(stack[t])
        BY <1>2, <3>2, <3>4
      <4> QED
        BY <2>2, <3>2, <4>1 DEF StackInv
    <3> QED
      BY <3>3, <3>4
  <2> QED
    BY <2>1, <2>2
<1>7. \A u \in Callers : \A i \in 1 .. Len(stack'[u]) : stack'[u][i].at \in CallbackLabels
  BY <1>3, <1>4, ThreadFacts DEF StackInv, MayStart
<1>8. ASSUME NEW i \in 1 .. Len(stack'[Frame])
      PROVE  stack'[Frame][i].at
               \in IF i = Len(stack'[Frame]) THEN FrameLabels ELSE CallbackLabels
  <2>1. CASE t # Frame
    BY <1>3, <2>1, ThreadFacts DEF StackInv
  <2>2. CASE t = Frame /\ i = 1
    <3>a. Len(stack[t]) \in Nat /\ (stack[t] = <<>> <=> Len(stack[t]) = 0)
      BY <1>2
    <3>1. i = Len(stack'[t]) <=> stack[t] = <<>>
      BY <1>1, <2>2, <3>a
    <3> QED
      BY <1>4, <2>2, <3>1, ThreadFacts DEF MayStart
  <2>3. CASE t = Frame /\ i # 1
    <3>1. i - 1 \in 1 .. Len(stack[t]) /\ stack'[t][i] = stack[t][i - 1]
      BY <1>4, <2>3
    <3>2. i = Len(stack'[Frame]) <=> i - 1 = Len(stack[Frame])
      BY <1>1, <1>2, <2>3
    <3> QED
      BY <2>3, <3>1, <3>2 DEF StackInv
  <2> QED
    BY <2>1, <2>2, <2>3
<1>9. Len(stack'[Life]) <= 1 /\ \A i \in 1 .. Len(stack'[Life]) : stack'[Life][i].at \in LifeLabels
  <2>1. CASE t # Life
    BY <1>3, <2>1, ThreadFacts DEF StackInv
  <2>2. CASE t = Life
    <3>a. stack[t] = <<>> /\ Len(stack[t]) = 0
      BY <1>2, <2>2 DEF MayStart
    <3>1. Len(stack'[t]) = 1
      BY <1>1, <3>a
    <3> QED
      BY <1>4, <2>2, <3>1 DEF MayStart
  <2> QED
    BY <2>1, <2>2
<1> QED
  BY <1>1, <1>5, <1>6, <1>7, <1>8, <1>9 DEF StackInv

LEMMA StackPopped ==
  ASSUME StackInv, NEW t \in Threads, stack[t] # <<>>, Popped(t)
  PROVE  StackInv'
<1>1. /\ stack' \in [Threads -> Seq(CallType)] /\ Len(stack'[t]) = Len(stack[t]) - 1
      /\ \A i \in 1 .. Len(stack[t]) - 1 : stack'[t][i] = stack[t][i + 1]
      /\ \A u \in Threads : u # t => stack'[u] = stack[u]
  BY DEF Popped
<1>2. \A u \in Threads : Len(stack[u]) \in Nat
  BY StackInvType, StackFacts
<1>3. ASSUME NEW i \in 1 .. Len(stack'[t])
      PROVE  i + 1 \in 2 .. Len(stack[t]) /\ i + 1 \in 1 .. Len(stack[t])
             /\ stack'[t][i] = stack[t][i + 1]
             /\ (i = Len(stack'[t]) <=> i + 1 = Len(stack[t]))
  BY <1>1, <1>2
<1>4. \A u \in Threads : \A i \in 1 .. Len(stack'[u]) : CallOK(stack'[u][i])
  BY <1>1, <1>3 DEF StackInv
<1>5. ASSUME NEW u \in Threads, NEW i \in 2 .. Len(stack'[u]) PROVE stack'[u][i].at \in InHost
  <2>1. CASE u # t
    BY <1>1, <2>1 DEF StackInv
  <2>2. CASE u = t
    <3>1. i \in 1 .. Len(stack'[t])
      BY <1>1, <1>2, <2>2
    <3> QED
      BY <1>3, <2>2, <3>1 DEF StackInv
  <2> QED
    BY <2>1, <2>2
<1>6. ASSUME NEW u \in Callers, NEW i \in 1 .. Len(stack'[u])
      PROVE  stack'[u][i].at \in CallbackLabels
  <2>1. CASE u # t
    BY <1>1, <2>1, ThreadFacts DEF StackInv
  <2>2. CASE u = t
    BY <1>3, <2>2 DEF StackInv
  <2> QED
    BY <2>1, <2>2
<1>7. ASSUME NEW i \in 1 .. Len(stack'[Frame])
      PROVE  stack'[Frame][i].at
               \in IF i = Len(stack'[Frame]) THEN FrameLabels ELSE CallbackLabels
  <2>1. CASE t # Frame
    BY <1>1, <2>1, ThreadFacts DEF StackInv
  <2>2. CASE t = Frame
    <3>1. i + 1 \in 1 .. Len(stack[Frame]) /\ stack'[Frame][i] = stack[Frame][i + 1]
          /\ (i = Len(stack'[Frame]) <=> i + 1 = Len(stack[Frame]))
      BY <1>3, <2>2
    <3> QED
      BY <3>1 DEF StackInv
  <2> QED
    BY <2>1, <2>2
<1>8. Len(stack'[Life]) <= 1 /\ \A i \in 1 .. Len(stack'[Life]) : stack'[Life][i].at \in LifeLabels
  <2>1. Len(stack'[Life]) <= Len(stack[Life]) /\ Len(stack'[Life]) \in Int
    BY <1>1, <1>2, ThreadFacts
  <2>2. Len(stack'[Life]) <= 1
    BY <1>2, <2>1, ThreadFacts DEF StackInv
  <2>3. ASSUME NEW i \in 1 .. Len(stack'[Life]) PROVE stack'[Life][i].at \in LifeLabels
    <3>1. CASE t # Life
      BY <1>1, <3>1, ThreadFacts DEF StackInv
    <3>2. CASE t = Life
      BY <1>3, <3>2 DEF StackInv
    <3> QED
      BY <3>1, <3>2
  <2> QED
    BY <2>2, <2>3
<1> QED
  BY <1>1, <1>4, <1>5, <1>6, <1>7, <1>8 DEF StackInv

-------------------------------------------------------------------------------
(* The calls in flight.                                                        *)

LEMMA SeqFacts ==
  ASSUME NEW s \in Seq(CallType)
  PROVE  /\ Len(s) \in Nat
         /\ s = <<>> <=> Len(s) = 0
         /\ s # <<>> => 1 \in 1 .. Len(s)
BY EmptySeq, LenProperties

LEMMA CountedType ==
  ASSUME StackType, NEW t \in Threads
  PROVE  Counted(t) \in Nat
<1>1. Len(stack[t]) \in Nat /\ (stack[t] = <<>> <=> Len(stack[t]) = 0)
  BY StackFacts
<1> QED
  BY <1>1 DEF Counted

\* What a step does to the count of each thread.
LEMMA TopCounted ==
  ASSUME StackType, NEW t \in Threads, stack[t] # <<>>, NEW c, TopBecomes(t, c)
  PROVE  /\ \A u \in Threads : u # t => Counted(u)' = Counted(u)
         /\ Counted(t)' = IF c.at \in Uncounted THEN Len(stack[t]) - 1 ELSE Len(stack[t])
         /\ \A u \in Threads : stack'[u] = <<>> <=> stack[u] = <<>>
<1>1. \A u \in Threads : /\ stack'[u] \in Seq(CallType) /\ stack[u] \in Seq(CallType)
                         /\ Len(stack'[u]) = Len(stack[u])
  BY DEF TopBecomes, StackType
<1>2. \A u \in Threads : stack'[u] = <<>> <=> stack[u] = <<>>
  BY <1>1, SeqFacts
<1>3. ASSUME NEW u \in Threads, u # t PROVE Counted(u)' = Counted(u)
  <2>1. stack[u] # <<>> => stack'[u][1].at = stack[u][1].at
    BY <1>1, <1>3, SeqFacts DEF TopBecomes, Like
  <2> QED
    BY <1>1, <1>2, <2>1 DEF Counted
<1>4. Counted(t)' = IF c.at \in Uncounted THEN Len(stack[t]) - 1 ELSE Len(stack[t])
  BY <1>1, <1>2 DEF Counted, TopBecomes
<1> QED
  BY <1>2, <1>3, <1>4

LEMMA PushCounted ==
  ASSUME StackType, NEW t \in Threads, NEW c, Pushed(t, c)
  PROVE  /\ \A u \in Threads : u # t => Counted(u)' = Counted(u)
         /\ Counted(t)' = IF c.at \in Uncounted THEN Len(stack[t]) ELSE Len(stack[t]) + 1
         /\ stack'[t] # <<>>
<1>1. /\ stack'[t] \in Seq(CallType) /\ stack[t] \in Seq(CallType)
      /\ Len(stack'[t]) = Len(stack[t]) + 1 /\ stack'[t][1] = c
      /\ \A u \in Threads : u # t => stack'[u] = stack[u]
  BY DEF Pushed, StackType
<1>2. \A u \in Threads : u # t => Counted(u)' = Counted(u)
  BY <1>1 DEF Counted
<1>3. stack'[t] # <<>> /\ Len(stack[t]) \in Nat
  BY <1>1, SeqFacts
<1>4. Counted(t)' = IF c.at \in Uncounted THEN Len(stack[t]) ELSE Len(stack[t]) + 1
  BY <1>1, <1>3 DEF Counted
<1> QED
  BY <1>2, <1>3, <1>4

\* Below the top everything is counted.
LEMMA PopCounted ==
  ASSUME StackInv, NEW t \in Threads, stack[t] # <<>>, Popped(t)
  PROVE  /\ \A u \in Threads : u # t => Counted(u)' = Counted(u)
         /\ Counted(t)' = Len(stack[t]) - 1
<1>0. StackType
  BY StackInvType
<1>1. /\ stack'[t] \in Seq(CallType) /\ stack[t] \in Seq(CallType)
      /\ Len(stack'[t]) = Len(stack[t]) - 1
      /\ \A u \in Threads : u # t => stack'[u] = stack[u]
  BY <1>0 DEF Popped, StackType
<1>2. \A u \in Threads : u # t => Counted(u)' = Counted(u)
  BY <1>1 DEF Counted
<1>3. Len(stack[t]) \in Nat /\ (stack'[t] = <<>> <=> Len(stack'[t]) = 0)
  BY <1>1, SeqFacts
<1>4. CASE Len(stack[t]) = 1
  BY <1>1, <1>3, <1>4 DEF Counted
<1>5. CASE Len(stack[t]) # 1
  <2>1. 1 \in 1 .. Len(stack[t]) - 1 /\ 1 + 1 \in 2 .. Len(stack[t]) /\ stack'[t] # <<>>
    BY <1>0, <1>1, <1>3, <1>5, SeqFacts
  <2>2. stack'[t][1] = stack[t][1 + 1]
    BY <2>1 DEF Popped
  <2>3. stack[t][1 + 1].at \in InHost
    BY <2>1 DEF StackInv
  <2>4. \A label \in InHost : label \notin Uncounted
    BY DEF InHost, Uncounted, RunLabels, LifeLabels, InitLabels, CleanLabels
  <2> QED
    BY <1>1, <2>1, <2>2, <2>3, <2>4 DEF Counted
<1> QED
  BY <1>2, <1>4, <1>5

LEMMA CountSame ==
  ASSUME CountInv, \A u \in Threads : Counted(u)' = Counted(u), inFlight' = inFlight
  PROVE  CountInv'
<1>1. InFlight' = InFlight
  BY DEF InFlight
<1> QED
  BY <1>1 DEF CountInv

LEMMA CountUp ==
  ASSUME StackType, CountInv, NEW t \in Threads,
         \A u \in Threads : u # t => Counted(u)' = Counted(u),
         Counted(t)' = Counted(t) + 1, inFlight' = inFlight + 1
  PROVE  CountInv'
<1> DEFINE p == <<t, Counted(t) + 1>>
<1>1. \A u \in Threads : Counted(u) \in Nat
  BY CountedType
<1>2. p \notin InFlight
  BY <1>1 DEF InFlight
<1>3. InFlight' = InFlight \cup {p}
  <2>1. ASSUME NEW u \in Threads, NEW n \in Nat
        PROVE  <<u, n>> \in InFlight' <=> <<u, n>> \in InFlight \cup {p}
    <3>1. CASE u # t
      BY <3>1 DEF InFlight
    <3>2. CASE u = t
      <4>1. <<u, n>> \in InFlight' <=> 1 <= n /\ n <= Counted(t) + 1
        BY <3>2 DEF InFlight
      <4>2. <<u, n>> \in InFlight <=> 1 <= n /\ n <= Counted(t)
        BY <3>2 DEF InFlight
      <4>3. <<u, n>> = p <=> n = Counted(t) + 1
        BY <3>2
      <4>4. Counted(t) \in Nat
        BY <1>1
      <4> HIDE DEF p
      <4> QED
        BY <4>1, <4>2, <4>3, <4>4
    <3> QED
      BY <3>1, <3>2
  <2>2. /\ InFlight' \subseteq Threads \X Nat /\ InFlight \subseteq Threads \X Nat
        /\ p \in Threads \X Nat
    BY <1>1 DEF InFlight
  <2> HIDE DEF p
  <2> QED
    BY <2>1, <2>2
<1> HIDE DEF p
<1> QED
  BY <1>2, <1>3, FS_AddElement DEF CountInv

LEMMA CountDown ==
  ASSUME StackType, CountInv, NEW t \in Threads,
         \A u \in Threads : u # t => Counted(u)' = Counted(u),
         Counted(t) # 0, Counted(t)' = Counted(t) - 1, inFlight' = inFlight - 1
  PROVE  CountInv'
<1> DEFINE p == <<t, Counted(t)>>
<1>1. \A u \in Threads : Counted(u) \in Nat
  BY CountedType
<1>2. p \in InFlight
  BY <1>1 DEF InFlight
<1>3. InFlight' = InFlight \ {p}
  <2>1. ASSUME NEW u \in Threads, NEW n \in Nat
        PROVE  <<u, n>> \in InFlight' <=> <<u, n>> \in InFlight \ {p}
    <3>1. CASE u # t
      BY <3>1 DEF InFlight
    <3>2. CASE u = t
      <4>1. <<u, n>> \in InFlight' <=> 1 <= n /\ n <= Counted(t) - 1
        BY <3>2 DEF InFlight
      <4>2. <<u, n>> \in InFlight <=> 1 <= n /\ n <= Counted(t)
        BY <3>2 DEF InFlight
      <4>3. <<u, n>> = p <=> n = Counted(t)
        BY <3>2
      <4>4. Counted(t) \in Nat
        BY <1>1
      <4> HIDE DEF p
      <4> QED
        BY <4>1, <4>2, <4>3, <4>4
    <3> QED
      BY <3>1, <3>2
  <2>2. InFlight' \subseteq Threads \X Nat /\ InFlight \subseteq Threads \X Nat
    BY DEF InFlight
  <2> HIDE DEF p
  <2> QED
    BY <2>1, <2>2
<1> HIDE DEF p
<1> QED
  BY <1>2, <1>3, FS_RemoveElement DEF CountInv

\* remove() sees a count of zero only when no call is counted.
LEMMA NoneInFlight ==
  ASSUME StackType, CountInv, inFlight = 0, NEW t \in Threads
  PROVE  Counted(t) = 0
<1>1. InFlight = {}
  BY FS_EmptySet DEF CountInv
<1>2. Counted(t) \in Nat
  BY CountedType
<1>3. Counted(t) # 0 => <<t, 1>> \in InFlight
  BY <1>2 DEF InFlight
<1> QED
  BY <1>1, <1>3

-------------------------------------------------------------------------------
(* The frame in progress, and where Init and Cleanup are.                      *)

LEMMA LifeAtKept ==
  ASSUME StackType, NEW t \in Threads, t # Life, stack[t] # <<>>, NEW c, TopBecomes(t, c)
  PROVE  LifeAt' = LifeAt
<1>1. /\ stack'[Life] \in Seq(CallType) /\ stack[Life] \in Seq(CallType)
      /\ Len(stack'[Life]) = Len(stack[Life])
  BY ThreadFacts DEF TopBecomes, StackType
<1>2. stack'[Life] = <<>> <=> stack[Life] = <<>>
  BY <1>1, SeqFacts
<1>3. stack[Life] # <<>> => stack'[Life][1].at = stack[Life][1].at
  BY <1>1, SeqFacts, ThreadFacts DEF TopBecomes, Like
<1> QED
  BY <1>2, <1>3 DEF LifeAt

LEMMA LifeAtMoves ==
  ASSUME StackType, stack[Life] # <<>>, NEW c, TopBecomes(Life, c)
  PROVE  LifeAt' = c.at
<1>1. stack'[Life] # <<>>
  BY TopCounted, ThreadFacts
<1> QED
  BY <1>1 DEF LifeAt, TopBecomes

LEMMA LifeAtElsewhere ==
  ASSUME NEW t \in Threads, t # Life, NEW c, Pushed(t, c) \/ Popped(t)
  PROVE  LifeAt' = LifeAt
BY ThreadFacts DEF Pushed, Popped, LifeAt

LEMMA LifeAtBegins ==
  ASSUME StackType, NEW c, Pushed(Life, c)
  PROVE  LifeAt' = c.at
BY PushCounted, ThreadFacts DEF LifeAt, Pushed

LEMMA LifeAtEnds ==
  ASSUME StackInv, stack[Life] # <<>>, Popped(Life)
  PROVE  LifeAt' = "none"
<1>1. /\ stack'[Life] \in Seq(CallType) /\ stack[Life] \in Seq(CallType)
      /\ Len(stack'[Life]) = Len(stack[Life]) - 1 /\ Len(stack[Life]) <= 1
  BY ThreadFacts DEF Popped, StackInv
<1>2. stack'[Life] = <<>>
  <2>1. Len(stack[Life]) \in Nat /\ Len(stack'[Life]) \in Nat
    BY <1>1, SeqFacts
  <2> DEFINE n == Len(stack[Life])
             m == Len(stack'[Life])
  <2>a. n \in Nat /\ m \in Nat /\ m = n - 1 /\ n <= 1
    BY <1>1, <2>1
  <2> HIDE DEF n, m
  <2>b. m = 0
    BY <2>a
  <2>2. Len(stack'[Life]) = 0
    BY <2>b DEF m
  <2> QED
    BY <1>1, <2>2, SeqFacts
<1> QED
  BY <1>2 DEF LifeAt

\* A step counts or discounts the frame in progress only when it is its bottom call that
\* enters or leaves "run.count", or ends.
LEMMA RunKept ==
  ASSUME StackType, NEW t \in Threads, stack[t] # <<>>, NEW c, TopBecomes(t, c),
         t = Frame => (c.at = "run.count" <=> stack[t][1].at = "run.count")
  PROVE  RunCounted' = RunCounted
<1>1. /\ stack'[Frame] \in Seq(CallType) /\ stack[Frame] \in Seq(CallType)
      /\ Len(stack'[Frame]) = Len(stack[Frame])
  BY ThreadFacts DEF TopBecomes, StackType
<1>2. stack'[Frame] = <<>> <=> stack[Frame] = <<>>
  BY <1>1, SeqFacts
<1>3. ASSUME stack[Frame] # <<>>
      PROVE  stack'[Frame][Len(stack[Frame])].at = "run.count"
               <=> stack[Frame][Len(stack[Frame])].at = "run.count"
  <2>1. Len(stack[Frame]) \in 1 .. Len(stack[Frame])
    BY <1>1, <1>3, SeqFacts
  <2>2. CASE Frame = t /\ Len(stack[Frame]) = 1
    BY <2>2 DEF TopBecomes
  <2>3. CASE ~(Frame = t /\ Len(stack[Frame]) = 1)
    BY <2>1, <2>3, ThreadFacts DEF TopBecomes, Like
  <2> QED
    BY <2>2, <2>3
<1> QED
  BY <1>1, <1>2, <1>3 DEF RunCounted

LEMMA RunBegins ==
  ASSUME StackType, NEW t \in Threads, NEW c, Pushed(t, c),
         t = Frame => stack[t] # <<>> \/ c.at = "run.count"
  PROVE  RunCounted' = RunCounted
<1>1. /\ stack'[t] \in Seq(CallType) /\ stack[t] \in Seq(CallType)
      /\ Len(stack'[t]) = Len(stack[t]) + 1 /\ stack'[t][1] = c
      /\ \A i \in 1 .. Len(stack[t]) : stack'[t][i + 1] = stack[t][i]
  BY DEF Pushed, StackType
<1>2. CASE t # Frame
  BY <1>2, ThreadFacts DEF Pushed, RunCounted
<1>3. CASE t = Frame /\ stack[Frame] # <<>>
  <2>1. Len(stack[Frame]) \in 1 .. Len(stack[Frame]) /\ stack'[Frame] # <<>>
    BY <1>1, <1>3, SeqFacts
  <2>2. stack'[Frame][Len(stack'[Frame])] = stack[Frame][Len(stack[Frame])]
    BY <1>1, <1>3, <2>1
  <2> QED
    BY <1>3, <2>1, <2>2 DEF RunCounted
<1>4. CASE t = Frame /\ stack[Frame] = <<>>
  <2>1. Len(stack[Frame]) = 0 /\ Len(stack'[Frame]) = 1
    BY <1>1, <1>4, SeqFacts
  <2> QED
    BY <1>1, <1>4, <2>1 DEF RunCounted
<1> QED
  BY <1>2, <1>3, <1>4

LEMMA RunReturns ==
  ASSUME StackInv, NEW t \in Threads, stack[t] # <<>>, Popped(t),
         t = Frame => stack[t][1].at \in CallbackLabels
  PROVE  RunCounted' = RunCounted
<1>1. /\ stack'[t] \in Seq(CallType) /\ stack[t] \in Seq(CallType)
      /\ Len(stack'[t]) = Len(stack[t]) - 1
      /\ \A i \in 1 .. Len(stack[t]) - 1 : stack'[t][i] = stack[t][i + 1]
  BY StackInvType DEF Popped, StackType
<1>2. CASE t # Frame
  BY <1>2, ThreadFacts DEF Popped, RunCounted
<1>3. CASE t = Frame
  <2>1. Len(stack[Frame]) # 1
    <3>1. \A label \in CallbackLabels : label \notin FrameLabels
      BY DEF CallbackLabels, FrameLabels, PoseLabels, GetLabels, RunLabels, SubmitLabels
    <3> QED
      BY <1>3, <3>1, StackInvType, StackFacts DEF StackInv
  <2>a. Len(stack[t]) \in Nat /\ Len(stack[t]) # 0 /\ (stack'[t] = <<>> <=> Len(stack'[t]) = 0)
    BY <1>1, SeqFacts
  <2>2. Len(stack[Frame]) - 1 \in 1 .. Len(stack[Frame]) - 1 /\ stack'[Frame] # <<>>
    BY <1>1, <1>3, <2>1, <2>a
  <2>3. stack'[Frame][Len(stack'[Frame])] = stack[Frame][Len(stack[Frame])]
    <3>1. Len(stack[Frame]) \in Nat /\ (Len(stack[Frame]) - 1) + 1 = Len(stack[Frame])
      BY <1>1, <1>3, SeqFacts
    <3> QED
      BY <1>1, <1>3, <2>2, <3>1
  <2> QED
    BY <1>3, <2>2, <2>3 DEF RunCounted
<1> QED
  BY <1>2, <1>3

\* What RunFrame does of its own it does with nothing above it on the stack.
LEMMA FrameAlone ==
  ASSUME StackInv, stack[Frame] # <<>>, stack[Frame][1].at \in FrameLabels
  PROVE  Len(stack[Frame]) = 1
<1>1. \A label \in CallbackLabels : label \notin FrameLabels
  BY DEF CallbackLabels, FrameLabels, PoseLabels, GetLabels, RunLabels, SubmitLabels
<1>2. 1 \in 1 .. Len(stack[Frame])
  BY StackInvType, StackFacts, ThreadFacts
<1> QED
  BY <1>1, <1>2 DEF StackInv

\* Labels tell the threads apart.
LEMMA WhoseLabel ==
  ASSUME StackInv, NEW t \in Threads, stack[t] # <<>>
  PROVE  /\ stack[t][1].at \in CallbackLabels => t # Life
         /\ stack[t][1].at \in FrameLabels => t = Frame
         /\ stack[t][1].at \in LifeLabels => t = Life
         /\ 1 \in 1 .. Len(stack[t]) /\ CallOK(stack[t][1])
<1>1. \A label \in CallbackLabels : label \notin FrameLabels /\ label \notin LifeLabels
  BY DEF CallbackLabels, FrameLabels, PoseLabels, GetLabels, RunLabels, SubmitLabels, LifeLabels,
         InitLabels, CleanLabels
<1>2. \A label \in FrameLabels : label \notin LifeLabels
  BY DEF FrameLabels, RunLabels, SubmitLabels, LifeLabels, InitLabels, CleanLabels
<1>3. 1 \in 1 .. Len(stack[t])
  BY StackInvType, StackFacts
<1>4. stack[Life] # <<>> /\ t = Life => stack[t][1].at \in LifeLabels
  BY <1>3 DEF StackInv
<1>5. t = Frame => stack[t][1].at \in CallbackLabels \/ stack[t][1].at \in FrameLabels
  BY <1>3 DEF StackInv
<1>6. t \in Callers => stack[t][1].at \in CallbackLabels
  BY <1>3 DEF StackInv
<1> QED
  BY <1>1, <1>2, <1>3, <1>4, <1>5, <1>6, ThreadFacts DEF StackInv

-------------------------------------------------------------------------------
(* Steps of callbacks and of RunFrame.                                         *)

LEMMA LikeSafe ==
  ASSUME NEW c, NEW e, Like(c, e), e \in SafeCalls,
         hooks' = hooks, active' = active, LifeAt' = LifeAt
  PROVE  c \in SafeCalls'
<1>1. c.at = e.at /\ (e.late => c.late) /\ c \in CallType
  BY DEF Like
<1> QED
  BY <1>1 DEF SafeCalls, FramesGone

LEMMA SafeKept ==
  ASSUME hooks' = hooks, active' = active, LifeAt' = LifeAt
  PROVE  SafeCalls' = SafeCalls
BY DEF SafeCalls, FramesGone

LEMMA CallsReplaced ==
  ASSUME CallsInv, NEW t \in Threads, stack[t] # <<>>, NEW c, TopBecomes(t, c), c \in SafeCalls',
         hooks' = hooks, active' = active, LifeAt' = LifeAt
  PROVE  CallsInv'
<1>1. ASSUME NEW u \in Threads, NEW i \in 1 .. Len(stack'[u]) PROVE stack'[u][i] \in SafeCalls'
  <2>1. i \in 1 .. Len(stack[u])
    BY DEF TopBecomes
  <2>2. CASE u = t /\ i = 1
    BY <2>2 DEF TopBecomes
  <2>3. CASE ~(u = t /\ i = 1)
    <3>1. Like(stack'[u][i], stack[u][i])
      BY <2>1, <2>3 DEF TopBecomes
    <3>2. stack[u][i] \in SafeCalls
      BY <2>1 DEF CallsInv
    <3> QED
      BY <3>1, <3>2, LikeSafe
  <2> QED
    BY <2>2, <2>3
<1> QED
  BY <1>1 DEF CallsInv

LEMMA CallsPushed ==
  ASSUME StackType, CallsInv, NEW t \in Threads, NEW c, Pushed(t, c), c \in SafeCalls',
         hooks' = hooks, active' = active, LifeAt' = LifeAt
  PROVE  CallsInv'
<1>a. SafeCalls' = SafeCalls
  BY SafeKept
<1>0. stack'[t] \in Seq(CallType) /\ Len(stack[t]) \in Nat
  BY StackFacts DEF Pushed
<1>1. ASSUME NEW u \in Threads, NEW i \in 1 .. Len(stack'[u]) PROVE stack'[u][i] \in SafeCalls'
  <2>1. CASE u # t
    <3>1. stack'[u] = stack[u]
      BY <2>1 DEF Pushed
    <3> QED
      BY <1>a, <3>1 DEF CallsInv
  <2>2. CASE u = t /\ i = 1
    BY <2>2 DEF Pushed
  <2>3. CASE u = t /\ i # 1
    <3>1. i - 1 \in 1 .. Len(stack[t]) /\ (i - 1) + 1 = i
      BY <1>0, <2>3 DEF Pushed
    <3>2. stack'[t][(i - 1) + 1] = stack[t][i - 1]
      BY <3>1 DEF Pushed
    <3>3. stack[t][i - 1] \in SafeCalls
      BY <3>1 DEF CallsInv
    <3> QED
      BY <2>3, <3>1, <3>2, <3>3, <1>a
  <2> QED
    BY <2>1, <2>2, <2>3
<1> QED
  BY <1>1 DEF CallsInv

LEMMA CallsPopped ==
  ASSUME StackType, CallsInv, NEW t \in Threads, Popped(t),
         hooks' = hooks, active' = active, LifeAt' = LifeAt
  PROVE  CallsInv'
<1>a. SafeCalls' = SafeCalls
  BY SafeKept
<1>0. Len(stack[t]) \in Nat
  BY StackFacts
<1>1. ASSUME NEW u \in Threads, NEW i \in 1 .. Len(stack'[u]) PROVE stack'[u][i] \in SafeCalls'
  <2>1. CASE u # t
    <3>1. stack'[u] = stack[u]
      BY <2>1 DEF Popped
    <3> QED
      BY <1>a, <3>1 DEF CallsInv
  <2>2. CASE u = t
    <3>1. i \in 1 .. Len(stack[t]) - 1 /\ i + 1 \in 1 .. Len(stack[t])
      BY <1>0, <2>2 DEF Popped
    <3>2. stack'[t][i] = stack[t][i + 1]
      BY <3>1 DEF Popped
    <3>3. stack[t][i + 1] \in SafeCalls
      BY <3>1 DEF CallsInv
    <3> QED
      BY <2>2, <3>2, <3>3, <1>a
  <2> QED
    BY <2>1, <2>2
<1> QED
  BY <1>1 DEF CallsInv

\* The life cycle of the provider and of the hooks is untouched.
LifeKept == UNCHANGED <<active, ready, hooks, mutex>>

LEMMA LifeInvKept ==
  ASSUME LifeInv, HooksInv, LifeKept, LifeAt' = LifeAt, runFrames' = RunCounted'
  PROVE  LifeInv' /\ HooksInv'
<1>1. active' = active /\ ready' = ready /\ hooks' = hooks /\ mutex' = mutex
  BY DEF LifeKept
<1>2. LifeInv'
  BY <1>1 DEF LifeInv
<1>3. HooksInv'
  BY <1>1 DEF HooksInv, NoHookLeftBehind
<1> QED
  BY <1>2, <1>3

\* A call that is no step of Init or Cleanup moves on.
LEMMA Moves ==
  ASSUME ShutdownInv, NEW t \in Threads, t # Life, stack[t] # <<>>, NEW c, TopBecomes(t, c),
         CallOK(c), c \in SafeCalls, SameKind(c.at, stack[t][1].at), LifeKept,
         runFrames' = RunCounted'
  PROVE  StackInv' /\ CallsInv' /\ LifeInv' /\ HooksInv' /\ LifeAt' = LifeAt
<1>1. StackInv /\ CallsInv /\ LifeInv /\ HooksInv /\ StackType
  BY StackInvType DEF ShutdownInv
<1>2. LifeAt' = LifeAt
  BY <1>1, LifeAtKept
<1>3. StackInv'
  BY <1>1, StackReplaced
<1>4. c \in SafeCalls'
  BY <1>2, SafeKept DEF LifeKept
<1>5. CallsInv'
  BY <1>1, <1>2, <1>4, CallsReplaced DEF LifeKept
<1> QED
  BY <1>1, <1>2, <1>3, <1>5, LifeInvKept

LEMMA CountMoves ==
  ASSUME ShutdownInv, NEW t \in Threads, stack[t] # <<>>, NEW c, TopBecomes(t, c)
  PROVE  /\ (c.at \in Uncounted <=> stack[t][1].at \in Uncounted) /\ inFlight' = inFlight
              => CountInv'
         /\ c.at \notin Uncounted /\ stack[t][1].at \in Uncounted /\ inFlight' = inFlight + 1
              => CountInv'
         /\ c.at \in Uncounted /\ stack[t][1].at \notin Uncounted /\ inFlight' = inFlight - 1
              => CountInv'
<1>1. CountInv /\ StackType
  BY StackInvType DEF ShutdownInv
<1>2. /\ \A u \in Threads : u # t => Counted(u)' = Counted(u)
      /\ Counted(t)' = IF c.at \in Uncounted THEN Len(stack[t]) - 1 ELSE Len(stack[t])
  BY <1>1, TopCounted
<1>3. Counted(t) = IF stack[t][1].at \in Uncounted THEN Len(stack[t]) - 1 ELSE Len(stack[t])
  BY DEF Counted
<1>4. Len(stack[t]) \in Nat \ {0}
  BY <1>1, StackFacts
<1>5. ASSUME c.at \in Uncounted <=> stack[t][1].at \in Uncounted, inFlight' = inFlight
      PROVE  CountInv'
  <2>1. \A u \in Threads : Counted(u)' = Counted(u)
    BY <1>2, <1>3, <1>5
  <2> QED
    BY <1>1, <1>5, <2>1, CountSame
<1>6. ASSUME c.at \notin Uncounted, stack[t][1].at \in Uncounted, inFlight' = inFlight + 1
      PROVE  CountInv'
  <2>1. Counted(t)' = Counted(t) + 1
    BY <1>2, <1>3, <1>4, <1>6
  <2> QED
    BY <1>1, <1>2, <1>6, <2>1, CountUp
<1>7. ASSUME c.at \in Uncounted, stack[t][1].at \notin Uncounted, inFlight' = inFlight - 1
      PROVE  CountInv'
  <2>1. Counted(t)' = Counted(t) - 1 /\ Counted(t) # 0
    BY <1>2, <1>3, <1>4, <1>7
  <2> QED
    BY <1>1, <1>2, <1>7, <2>1, CountDown
<1> QED
  BY <1>5, <1>6, <1>7

LEMMA ArmedKept ==
  ASSUME ArmedInv, slot' = slot, LifeKept, LifeAt' = LifeAt
  PROVE  ArmedInv'
BY DEF ArmedInv, LifeKept

\* A step that only moves a call on, not counting it or a frame.
LEMMA SilentMove ==
  ASSUME ShutdownInv, NEW t \in Threads, t # Life, stack[t] # <<>>, NEW c, TopBecomes(t, c),
         CallOK(c), c \in SafeCalls, SameKind(c.at, stack[t][1].at), LifeKept,
         c.at \in Uncounted <=> stack[t][1].at \in Uncounted,
         t = Frame => (c.at = "run.count" <=> stack[t][1].at = "run.count"),
         UNCHANGED <<runFrames, inFlight, slot>>
  PROVE  ShutdownInv'
<1>1. RunCounted' = RunCounted
  BY StackInvType, RunKept DEF ShutdownInv
<1>2. runFrames' = RunCounted'
  BY <1>1 DEF ShutdownInv, LifeInv
<1>3. StackInv' /\ CallsInv' /\ LifeInv' /\ HooksInv' /\ LifeAt' = LifeAt
  BY <1>2, Moves
<1>4. CountInv'
  BY CountMoves
<1>5. ArmedInv'
  BY <1>3, ArmedKept DEF ShutdownInv
<1> QED
  BY <1>3, <1>4, <1>5 DEF ShutdownInv

\* The top call of a thread, which is at a label.
LEMMA AtFacts ==
  ASSUME ShutdownInv, NEW t \in Threads, NEW label, At(t, label)
  PROVE  /\ stack[t] # <<>> /\ Top(t) = stack[t][1] /\ stack[t][1].at = label
         /\ CallOK(stack[t][1]) /\ stack[t][1] \in SafeCalls /\ stack[t][1] \in CallType
<1>1. stack[t] # <<>> /\ Top(t).at = label
  BY DEF At
<1>2. Top(t) = stack[t][1] /\ 1 \in 1 .. Len(stack[t]) /\ stack[t][1] \in CallType
  BY <1>1, StackInvType, StackFacts DEF ShutdownInv
<1>3. CallOK(stack[t][1]) /\ stack[t][1] \in SafeCalls
  BY <1>2 DEF ShutdownInv, StackInv, CallsInv
<1> QED
  BY <1>1, <1>2, <1>3

LEMMA RelabelFields ==
  ASSUME NEW e \in CallType, NEW label \in Labels, NEW c, c = [e EXCEPT !.at = label]
  PROVE  /\ c \in CallType
         /\ c.at = label /\ c.dev = e.dev /\ c.sent = e.sent /\ c.late = e.late
         /\ c.todo = e.todo /\ c.lost = e.lost /\ c.newer = e.newer
BY DEF CallType

\* The top call of t before and after it moves on to a label.
LEMMA Relabelled ==
  ASSUME ShutdownInv, NEW t \in Threads, NEW from, NEW to \in Labels, At(t, from), Goto(t, to)
  PROVE  \E e \in CallType, c \in CallType :
           /\ e.at = from /\ CallOK(e) /\ e \in SafeCalls /\ TopBecomes(t, c)
           /\ c.at = to /\ c.dev = e.dev /\ c.sent = e.sent /\ c.late = e.late
<1>1. PICK e : e = stack[t][1]
  OBVIOUS
<1>2. stack[t] # <<>> /\ e.at = from /\ e \in CallType /\ CallOK(e) /\ e \in SafeCalls
  BY <1>1, AtFacts
<1>3. PICK c : c = [e EXCEPT !.at = to]
  OBVIOUS
<1>4. c \in CallType /\ c.at = to /\ c.dev = e.dev /\ c.sent = e.sent /\ c.late = e.late
  BY <1>2, <1>3, RelabelFields
<1>5. TopBecomes(t, c)
  BY <1>1, <1>2, <1>3, GotoEffect, StackInvType DEF ShutdownInv
<1> QED
  BY <1>2, <1>4, <1>5, Zenon

LEMMA GotoMove ==
  ASSUME ShutdownInv, NEW t \in Threads, NEW from, NEW to,
         At(t, from), NEW c, TopBecomes(t, c), c.at = to,
         CallOK(c), c \in SafeCalls, SameKind(to, from), to \in Uncounted <=> from \in Uncounted,
         from # "run.count", to # "run.count", from \notin LifeLabels,
         LifeKept, UNCHANGED <<runFrames, inFlight, slot>>
  PROVE  ShutdownInv'
<1>1. stack[t] # <<>> /\ stack[t][1].at = from
  BY AtFacts
<1>2. t # Life
  BY <1>1, StackInvType, StackFacts DEF ShutdownInv, StackInv
<1> QED
  BY <1>1, <1>2, SilentMove

\* The labels are plain sets: the steps below compare them one by one.
USE DEF PoseLabels, GetLabels, CallbackLabels, SubmitLabels, RunLabels, FrameLabels,
        InitLabels, CleanLabels, LifeLabels

\* Callbacks.
LEMMA StepCheckShutdown ==
  ASSUME ShutdownInv, NEW t \in Threads, CheckShutdown(t)
  PROVE  ShutdownInv'
<1>0. PICK to : to = IF hooks.detourShutdown THEN "leave" ELSE "pose.load"
  OBVIOUS
<1>1. /\ At(t, "pose.check") /\ Goto(t, to)
      /\ LifeKept /\ UNCHANGED <<runFrames, inFlight, slot>>
  BY <1>0 DEF CheckShutdown, LifeKept, providerVars, hookVars
<1>2. /\ to \in Labels /\ SameKind(to, "pose.check") /\ "pose.check" \notin LifeLabels
      /\ (to \in Uncounted <=> "pose.check" \in Uncounted)
      /\ "pose.check" # "run.count" /\ to # "run.count"
  BY <1>0 DEF Labels, SameKind, Uncounted
<1>3. PICK e \in CallType, c \in CallType :
           /\ e.at = "pose.check" /\ CallOK(e) /\ e \in SafeCalls /\ TopBecomes(t, c)
           /\ c.at = to /\ c.dev = e.dev /\ c.sent = e.sent /\ c.late = e.late
  BY <1>1, <1>2, Relabelled
<1>4. e.late \/ ~hooks.detourShutdown
  BY <1>3 DEF SafeCalls
<1>5. LifeAt = "clean.free" => hooks.detourShutdown
  BY DEF ShutdownInv, LifeInv
<1>6. CallOK(c)
  BY <1>3, <1>0, <1>4, <1>5 DEF CallOK, BeforeHost
<1>7. c \in SafeCalls
  BY <1>3, <1>0, <1>4, <1>5 DEF SafeCalls, Using, Harmless
<1> QED
  BY <1>1, <1>2, <1>3, <1>6, <1>7, GotoMove

LEMMA StepLoadOriginal ==
  ASSUME ShutdownInv, NEW t \in Threads, LoadOriginal(t)
  PROVE  ShutdownInv'
<1>0. PICK to : to = IF hooks.pose = "none" THEN "leave"
               ELSE IF hooks.instance THEN "pose.target" ELSE "pose.bypass"
  OBVIOUS
<1>1. /\ At(t, "pose.load") /\ Goto(t, to)
      /\ LifeKept /\ UNCHANGED <<runFrames, inFlight, slot>>
  BY <1>0 DEF LoadOriginal, LifeKept, providerVars, hookVars
<1>2. /\ to \in Labels /\ SameKind(to, "pose.load") /\ "pose.load" \notin LifeLabels
      /\ (to \in Uncounted <=> "pose.load" \in Uncounted)
      /\ "pose.load" # "run.count" /\ to # "run.count"
  BY <1>0 DEF Labels, SameKind, Uncounted
<1>3. PICK e \in CallType, c \in CallType :
           /\ e.at = "pose.load" /\ CallOK(e) /\ e \in SafeCalls /\ TopBecomes(t, c)
           /\ c.at = to /\ c.dev = e.dev /\ c.sent = e.sent /\ c.late = e.late
  BY <1>1, <1>2, Relabelled
<1>4. hooks.pose = "none" => e.late
  BY <1>3 DEF SafeCalls
<1>5. CallOK(c)
  BY <1>3, <1>0, <1>4 DEF CallOK, BeforeHost
<1>6. c \in SafeCalls
  BY <1>3, <1>0, <1>4 DEF SafeCalls, Using, Harmless
<1> QED
  BY <1>1, <1>2, <1>3, <1>5, <1>6, GotoMove

LEMMA StepTestTarget ==
  ASSUME ShutdownInv, NEW t \in Threads, TestTarget(t)
  PROVE  ShutdownInv'
<1>0. PICK to : to = IF active /\ kind[Top(t).dev] = "ViveTracker" THEN "pose.lock"
               ELSE "pose.bypass"
  OBVIOUS
<1>a. to \in {"pose.lock", "pose.bypass"}
  BY <1>0
<1>1. /\ At(t, "pose.target") /\ Goto(t, to)
      /\ LifeKept /\ UNCHANGED <<runFrames, inFlight, slot>>
  BY <1>0 DEF TestTarget, LifeKept, providerVars, hookVars
<1>2. /\ to \in Labels /\ SameKind(to, "pose.target") /\ "pose.target" \notin LifeLabels
      /\ (to \in Uncounted <=> "pose.target" \in Uncounted)
      /\ "pose.target" # "run.count" /\ to # "run.count"
  BY <1>a DEF Labels, SameKind, Uncounted
<1>3. PICK e \in CallType, c \in CallType :
           /\ e.at = "pose.target" /\ CallOK(e) /\ e \in SafeCalls /\ TopBecomes(t, c)
           /\ c.at = to /\ c.dev = e.dev /\ c.sent = e.sent /\ c.late = e.late
  BY <1>1, <1>2, Relabelled
<1>4. CallOK(c)
  BY <1>3, <1>0 DEF CallOK, BeforeHost
<1>5. c \in SafeCalls
  BY <1>3, <1>0 DEF SafeCalls, Using, Harmless
<1> QED
  BY <1>1, <1>2, <1>3, <1>4, <1>5, GotoMove

LEMMA StepCheckInterface ==
  ASSUME ShutdownInv, NEW t \in Threads, CheckInterface(t)
  PROVE  ShutdownInv'
<1>0. PICK to : to = IF hooks.detourShutdown THEN "leave" ELSE "get.load"
  OBVIOUS
<1>1. /\ At(t, "get.check") /\ Goto(t, to)
      /\ LifeKept /\ UNCHANGED <<runFrames, inFlight, slot>>
  BY <1>0 DEF CheckInterface, LifeKept, providerVars, hookVars
<1>2. /\ to \in Labels /\ SameKind(to, "get.check") /\ "get.check" \notin LifeLabels
      /\ (to \in Uncounted <=> "get.check" \in Uncounted)
      /\ "get.check" # "run.count" /\ to # "run.count"
  BY <1>0 DEF Labels, SameKind, Uncounted
<1>3. PICK e \in CallType, c \in CallType :
           /\ e.at = "get.check" /\ CallOK(e) /\ e \in SafeCalls /\ TopBecomes(t, c)
           /\ c.at = to /\ c.dev = e.dev /\ c.sent = e.sent /\ c.late = e.late
  BY <1>1, <1>2, Relabelled
<1>4. LifeAt = "clean.free" => hooks.detourShutdown
  BY DEF ShutdownInv, LifeInv
<1>5. CallOK(c)
  BY <1>3, <1>0, <1>4 DEF CallOK, BeforeHost
<1>6. c \in SafeCalls
  BY <1>3, <1>0, <1>4 DEF SafeCalls, Using, Harmless
<1> QED
  BY <1>1, <1>2, <1>3, <1>5, <1>6, GotoMove

LEMMA StepLoadInterface ==
  ASSUME ShutdownInv, NEW t \in Threads, LoadInterface(t)
  PROVE  ShutdownInv'
<1>0. PICK to : to = IF hooks.instance THEN "get.observe" ELSE "leave"
  OBVIOUS
<1>1. /\ At(t, "get.load") /\ Goto(t, to)
      /\ LifeKept /\ UNCHANGED <<runFrames, inFlight, slot>>
  BY <1>0 DEF LoadInterface, LifeKept, providerVars, hookVars
<1>2. /\ to \in Labels /\ SameKind(to, "get.load") /\ "get.load" \notin LifeLabels
      /\ (to \in Uncounted <=> "get.load" \in Uncounted)
      /\ "get.load" # "run.count" /\ to # "run.count"
  BY <1>0 DEF Labels, SameKind, Uncounted
<1>3. PICK e \in CallType, c \in CallType :
           /\ e.at = "get.load" /\ CallOK(e) /\ e \in SafeCalls /\ TopBecomes(t, c)
           /\ c.at = to /\ c.dev = e.dev /\ c.sent = e.sent /\ c.late = e.late
  BY <1>1, <1>2, Relabelled
<1>4. hooks.instance => hooks.installed
  BY DEF ShutdownInv, HooksInv, HooksType
<1>5. CallOK(c)
  BY <1>3, <1>0, <1>4 DEF CallOK, BeforeHost
<1>6. c \in SafeCalls
  BY <1>3, <1>0, <1>4 DEF SafeCalls, Using, Harmless
<1> QED
  BY <1>1, <1>2, <1>3, <1>5, <1>6, GotoMove

LEMMA StepBypassReturns ==
  ASSUME ShutdownInv, NEW t \in Threads, BypassReturns(t)
  PROVE  ShutdownInv'
<1>1. /\ At(t, "host.bypass") /\ Goto(t, "leave")
      /\ LifeKept /\ UNCHANGED <<runFrames, inFlight, slot>>
  BY DEF BypassReturns, LifeKept, providerVars, hookVars
<1>2. /\ "leave" \in Labels /\ SameKind("leave", "host.bypass") /\ "host.bypass" \notin LifeLabels
      /\ ("leave" \in Uncounted <=> "host.bypass" \in Uncounted)
      /\ "host.bypass" # "run.count" /\ "leave" # "run.count"
  BY DEF Labels, SameKind, Uncounted
<1>3. PICK e \in CallType, c \in CallType :
           /\ e.at = "host.bypass" /\ CallOK(e) /\ e \in SafeCalls /\ TopBecomes(t, c)
           /\ c.at = "leave" /\ c.dev = e.dev /\ c.sent = e.sent /\ c.late = e.late
  BY <1>1, <1>2, Relabelled
<1>4. CallOK(c)
  BY <1>3 DEF CallOK, BeforeHost
<1>5. c \in SafeCalls
  BY <1>3 DEF SafeCalls, Using, Harmless
<1> QED
  BY <1>1, <1>2, <1>3, <1>4, <1>5, GotoMove

LEMMA StepLockLane ==
  ASSUME ShutdownInv, NEW t \in Threads, LockLane(t)
  PROVE  ShutdownInv'
<1>1. PICK to \in {"pose.filter", "pose.bypass"} :
        /\ At(t, "pose.lock") /\ Goto(t, to)
        /\ LifeKept /\ UNCHANGED <<runFrames, inFlight, slot>>
  BY DEF LockLane, LifeKept, providerVars, hookVars
<1>2. /\ to \in Labels /\ SameKind(to, "pose.lock") /\ "pose.lock" \notin LifeLabels
      /\ (to \in Uncounted <=> "pose.lock" \in Uncounted) /\ to # "run.count"
  BY DEF Labels, SameKind, Uncounted
<1>3. PICK e \in CallType, c \in CallType :
           /\ e.at = "pose.lock" /\ CallOK(e) /\ e \in SafeCalls /\ TopBecomes(t, c)
           /\ c.at = to /\ c.dev = e.dev /\ c.sent = e.sent /\ c.late = e.late
  BY <1>1, <1>2, Relabelled
<1>4. CallOK(c)
  BY <1>3 DEF CallOK, BeforeHost
<1>5. c \in SafeCalls
  BY <1>3 DEF SafeCalls, Using, Harmless
<1> QED
  BY <1>1, <1>2, <1>3, <1>4, <1>5, GotoMove

LEMMA StepHostReturns ==
  ASSUME ShutdownInv, NEW t \in Threads, HostReturns(t)
  PROVE  ShutdownInv'
<1>1. /\ At(t, "host.pose") /\ Goto(t, "leave")
      /\ LifeKept /\ UNCHANGED <<runFrames, inFlight, slot>>
  BY DEF HostReturns, AfterThrow, LifeKept, providerVars, hookVars
<1>2. /\ "leave" \in Labels /\ SameKind("leave", "host.pose") /\ "host.pose" \notin LifeLabels
      /\ ("leave" \in Uncounted <=> "host.pose" \in Uncounted)
  BY DEF Labels, SameKind, Uncounted
<1>3. PICK e \in CallType, c \in CallType :
           /\ e.at = "host.pose" /\ CallOK(e) /\ e \in SafeCalls /\ TopBecomes(t, c)
           /\ c.at = "leave" /\ c.dev = e.dev /\ c.sent = e.sent /\ c.late = e.late
  BY <1>1, <1>2, Relabelled
<1>4. CallOK(c)
  BY <1>3 DEF CallOK, BeforeHost
<1>5. c \in SafeCalls
  BY <1>3 DEF SafeCalls, Using, Harmless
<1> QED
  BY <1>1, <1>2, <1>3, <1>4, <1>5, GotoMove

\* A call whose record changes in more than its label.
LEMMA Edited ==
  ASSUME ShutdownInv, NEW t \in Threads, stack[t] # <<>>, NEW c \in CallType,
         stack' = [stack EXCEPT ![t][1] = c]
  PROVE  TopBecomes(t, c)
BY ReplaceEffect, StackInvType DEF ShutdownInv

Sent(e, label, n) == [e EXCEPT !.at = label, !.sent = n]

LEMMA SentFields ==
  ASSUME NEW e \in CallType, NEW label \in Labels, NEW n \in 0 .. 1
  PROVE  /\ Sent(e, label, n) \in CallType
         /\ Sent(e, label, n).at = label /\ Sent(e, label, n).sent = n
         /\ Sent(e, label, n).dev = e.dev /\ Sent(e, label, n).late = e.late
         /\ Sent(e, label, n).todo = e.todo /\ Sent(e, label, n).lost = e.lost
<1>1. Sent(e, label, n).at = label /\ Sent(e, label, n).sent = n
  BY DEF CallType, Sent
<1>2. /\ Sent(e, label, n).dev = e.dev /\ Sent(e, label, n).late = e.late
      /\ Sent(e, label, n).todo = e.todo /\ Sent(e, label, n).lost = e.lost
  BY DEF CallType, Sent
<1>3. n \in 0 .. 2
  OBVIOUS
<1>4. Sent(e, label, n) \in CallType
  BY <1>3 DEF CallType, Sent
<1> QED
  BY <1>1, <1>2, <1>4

LEMMA StepCallHost ==
  ASSUME ShutdownInv, NEW t \in Threads, NEW from \in {"pose.call", "pose.bypass"},
         NEW to \in {"host.pose", "host.bypass"}, CallHost(t, from, to)
  PROVE  ShutdownInv'
<1>1. PICK e : e = stack[t][1]
  OBVIOUS
<1>2. PICK c : c = [e EXCEPT !.at = to, !.sent = e.sent + 1]
  OBVIOUS
<1>a. At(t, from) /\ Top(t) = e
  BY <1>1, AtFacts DEF CallHost
<1>3. /\ At(t, from) /\ stack' = [stack EXCEPT ![t][1] = c]
      /\ LifeKept /\ UNCHANGED <<runFrames, inFlight, slot>>
  BY <1>1, <1>2, <1>a DEF CallHost, LifeKept, providerVars, hookVars
<1>4. stack[t] # <<>> /\ e.at = from /\ CallOK(e) /\ e \in SafeCalls /\ e \in CallType
  BY <1>1, <1>3, AtFacts
<1>5. e.sent = 0
  BY <1>4 DEF CallOK, BeforeHost
<1>6. to \in Labels /\ c = Sent(e, to, 1)
  BY <1>2, <1>5 DEF Labels, Sent
<1>b. 1 \in 0 .. 1
  OBVIOUS
<1>7. c \in CallType /\ c.at = to /\ c.dev = e.dev /\ c.sent = 1 /\ c.late = e.late
  BY <1>4, <1>6, <1>b, SentFields
<1>8. TopBecomes(t, c)
  BY <1>3, <1>4, <1>7, Edited
<1>9. CallOK(c)
  BY <1>4, <1>7 DEF CallOK, BeforeHost
<1>10. c \in SafeCalls
  BY <1>4, <1>7 DEF SafeCalls, Using, Harmless
<1>11. /\ SameKind(to, from) /\ (to \in Uncounted <=> from \in Uncounted)
       /\ from # "run.count" /\ to # "run.count" /\ from \notin LifeLabels
  BY DEF SameKind, Uncounted
<1> QED
  BY <1>3, <1>7, <1>8, <1>9, <1>10, <1>11, GotoMove

\* From here on inFlight_ counts the call.
LEMMA StepCount ==
  ASSUME ShutdownInv, NEW t \in Threads, NEW from, NEW to, Count(t, from, to),
         <<from, to>> \in {<<"pose.count", "pose.check">>, <<"get.count", "get.check">>,
                           <<"submit.count", "submit.check">>}
  PROVE  ShutdownInv'
<1>1. /\ At(t, from) /\ Goto(t, to) /\ inFlight' = inFlight + 1
      /\ LifeKept /\ UNCHANGED <<runFrames, slot>>
  BY DEF Count, Entered, LifeKept, providerVars, hookVars
<1>2. /\ to \in Labels /\ SameKind(to, from) /\ from \notin LifeLabels
      /\ from \in Uncounted /\ to \notin Uncounted /\ from # "run.count" /\ to # "run.count"
  BY DEF Labels, SameKind, Uncounted
<1>3. PICK e \in CallType, c \in CallType :
           /\ e.at = from /\ CallOK(e) /\ e \in SafeCalls /\ TopBecomes(t, c)
           /\ c.at = to /\ c.dev = e.dev /\ c.sent = e.sent /\ c.late = e.late
  BY <1>1, <1>2, Relabelled
<1>4. CallOK(c)
  BY <1>3 DEF CallOK, BeforeHost
<1>5. c \in SafeCalls
  BY <1>3 DEF SafeCalls, Using, Harmless
<1>6. stack[t] # <<>> /\ stack[t][1].at = from
  BY <1>1, AtFacts
<1>7. t # Life
  BY <1>2, <1>6, StackInvType, StackFacts DEF ShutdownInv, StackInv
<1>8. runFrames' = RunCounted'
  BY <1>1, <1>2, <1>3, <1>6, RunKept, StackInvType DEF ShutdownInv, LifeInv
<1>9. StackInv' /\ CallsInv' /\ LifeInv' /\ HooksInv' /\ LifeAt' = LifeAt
  BY <1>1, <1>2, <1>3, <1>4, <1>5, <1>6, <1>7, <1>8, Moves
<1>10. CountInv'
  BY <1>1, <1>2, <1>3, <1>6, CountMoves
<1>11. ArmedInv'
  BY <1>1, <1>9, ArmedKept DEF ShutdownInv
<1> QED
  BY <1>9, <1>10, <1>11 DEF ShutdownInv

\* The last step of a callback or of a request: nothing that it used is used any more.
LEMMA StepLeave ==
  ASSUME ShutdownInv, NEW t \in Threads, Leave(t)
  PROVE  ShutdownInv'
<1>1. /\ At(t, "leave") /\ End(t) /\ inFlight' = inFlight - 1
      /\ LifeKept /\ UNCHANGED <<runFrames, slot>>
  BY DEF Leave, LifeKept, providerVars, hookVars
<1>2. stack[t] # <<>> /\ stack[t][1].at = "leave" /\ StackType /\ StackInv
  BY <1>1, AtFacts, StackInvType DEF ShutdownInv
<1>3. t # Life
  BY <1>2, StackFacts DEF StackInv
<1>4. Popped(t)
  BY <1>1, <1>2, EndEffect
<1>5. StackInv'
  BY <1>2, <1>4, StackPopped
<1>6. LifeAt' = LifeAt
  BY <1>3, <1>4, LifeAtElsewhere
<1>7. CallsInv'
  BY <1>1, <1>2, <1>4, <1>6, CallsPopped DEF ShutdownInv, LifeKept
<1>8. RunCounted' = RunCounted
  BY <1>2, <1>4, RunReturns
<1>9. LifeInv' /\ HooksInv'
  <2>1. LifeInv /\ HooksInv /\ runFrames' = RunCounted'
    BY <1>1, <1>8 DEF ShutdownInv, LifeInv
  <2> QED
    BY <1>1, <1>6, <2>1, LifeInvKept
<1>10. CountInv'
  <2>1. Counted(t) = Len(stack[t])
    BY <1>2 DEF Counted, Uncounted
  <2>2. Counted(t)' = Counted(t) - 1 /\ Counted(t) # 0
    BY <1>2, <1>4, <2>1, PopCounted, StackFacts
  <2> QED
    BY <1>1, <1>2, <1>4, <2>2, PopCounted, CountDown DEF ShutdownInv
<1>11. ArmedInv'
  BY <1>1, <1>6, ArmedKept DEF ShutdownInv
<1> QED
  BY <1>5, <1>7, <1>9, <1>10, <1>11 DEF ShutdownInv

\* A callback or a request begins: a hook is on, and the call knows whether it met a shutdown.
LEMMA CallbackBegins ==
  ASSUME ShutdownInv, NEW t \in Threads, MayCall(t), NEW c, Begin(t, c),
         c.at \in {"pose.count", "get.count"}, CallOK(c), c \in SafeCalls,
         LifeKept, UNCHANGED <<runFrames, inFlight, slot>>
  PROVE  ShutdownInv'
<1>1. StackInv /\ StackType /\ c \in CallType
  BY StackInvType DEF ShutdownInv, CallOK
<1>2. Pushed(t, c)
  BY <1>1, BeginEffect
<1>3. stack[t] # <<>> => stack[t][1].at \in InHost /\ 1 \in 1 .. Len(stack[t])
  BY <1>1, StackFacts, ThreadFacts DEF MayCall
<1>4. t # Life
  <2>1. \A label \in InHost : label \notin LifeLabels
    BY DEF InHost
  <2> QED
    BY <1>1, <1>3, <2>1, ThreadFacts DEF MayCall, StackInv
<1>5. MayStart(t, c.at)
  BY <1>3, <1>4, ThreadFacts DEF MayStart, MayCall
<1>6. StackInv'
  BY <1>1, <1>2, <1>5, StackPushed
<1>7. LifeAt' = LifeAt
  BY <1>2, <1>4, LifeAtElsewhere
<1>8. CallsInv'
  <2>1. SafeCalls' = SafeCalls
    BY <1>7, SafeKept DEF LifeKept
  <2> QED
    BY <1>1, <1>2, <1>7, <2>1, CallsPushed DEF ShutdownInv, LifeKept
<1>9. RunCounted' = RunCounted
  BY <1>1, <1>2, ThreadFacts, RunBegins DEF MayCall
<1>10. LifeInv' /\ HooksInv'
  <2>1. LifeInv /\ HooksInv /\ runFrames' = RunCounted'
    BY <1>9 DEF ShutdownInv, LifeInv
  <2> QED
    BY <1>7, <2>1, LifeInvKept
<1>11. CountInv'
  <2>1. \A label \in InHost : label \notin Uncounted
    BY DEF InHost, Uncounted
  <2>2. Counted(t) = Len(stack[t])
    BY <1>1, <1>3, <2>1, StackFacts DEF Counted
  <2>3. Counted(t)' = Len(stack[t]) /\ \A u \in Threads : u # t => Counted(u)' = Counted(u)
    <3>1. c.at \in Uncounted
      BY DEF Uncounted
    <3> QED
      BY <1>1, <1>2, <3>1, PushCounted
  <2> QED
    BY <2>2, <2>3, CountSame DEF ShutdownInv
<1>12. ArmedInv'
  BY <1>7, ArmedKept DEF ShutdownInv
<1> QED
  BY <1>6, <1>8, <1>10, <1>11, <1>12 DEF ShutdownInv

\* Steps that touch nothing the invariant speaks of.
ShutdownVars == <<active, ready, runFrames, slot, hooks, inFlight, mutex, stack>>

LEMMA NothingMoves ==
  ASSUME ShutdownInv, UNCHANGED ShutdownVars PROVE ShutdownInv'
<1>1. UNCHANGED <<active, ready, runFrames, slot, hooks, inFlight, mutex, stack>>
  BY DEF ShutdownVars
<1>2. StackInv'
  BY <1>1 DEF ShutdownInv, StackInv
<1>3. CountInv'
  BY <1>1 DEF ShutdownInv, CountInv, InFlight, Counted
<1>4. LifeAt' = LifeAt /\ RunCounted' = RunCounted
  BY <1>1 DEF LifeAt, RunCounted
<1>5. CallsInv'
  BY <1>1, <1>4, SafeKept DEF ShutdownInv, CallsInv
<1>6. LifeInv' /\ HooksInv'
  <2>1. LifeInv /\ HooksInv /\ runFrames' = RunCounted' /\ LifeKept
    BY <1>1, <1>4 DEF ShutdownInv, LifeInv, LifeKept
  <2> QED
    BY <1>4, <2>1, LifeInvKept
<1>7. ArmedInv'
  BY <1>1, <1>4, ArmedKept DEF ShutdownInv, LifeKept
<1> QED
  BY <1>2, <1>3, <1>5, <1>6, <1>7 DEF ShutdownInv

LEMMA StepReportPose ==
  ASSUME ShutdownInv, NEW t \in Threads, NEW d \in Devices, ReportPose(t, d)
  PROVE  ShutdownInv'
<1>1. CASE stack' = stack
  BY <1>1, NothingMoves
     DEF ReportPose, ShutdownVars, providerVars, hookVars
<1>2. CASE /\ hooks.pose = "on" /\ MayCall(t)
           /\ Begin(t, Call("pose.count", d, TRUE, hooks.detourShutdown))
  <2>1. PICK c : c = Call("pose.count", d, TRUE, hooks.detourShutdown)
    OBVIOUS
  <2>2. hooks.detourShutdown \in BOOLEAN
    BY DEF ShutdownInv, HooksInv, HooksType
  <2>3. "pose.count" \in Labels /\ d \in Devices \cup {NoDevice} /\ TRUE \in BOOLEAN
    BY DEF Labels
  <2>4. c \in CallType /\ c.at = "pose.count" /\ c.dev = d
        /\ c.late = hooks.detourShutdown /\ c.sent = 0
    BY <2>1, <2>2, <2>3 DEF Call, CallType
  <2>5. CallOK(c)
    BY <2>4 DEF CallOK, BeforeHost
  <2>6. c \in SafeCalls
    BY <1>2, <2>4 DEF SafeCalls, Using, Harmless
  <2>7. LifeKept /\ UNCHANGED <<runFrames, inFlight, slot>>
    BY DEF ReportPose, LifeKept, providerVars, hookVars
  <2> QED
    BY <1>2, <2>1, <2>4, <2>5, <2>6, <2>7, CallbackBegins
<1> QED
  BY <1>1, <1>2 DEF ReportPose

LEMMA StepRequestInterface ==
  ASSUME ShutdownInv, NEW t \in Threads, RequestInterface(t)
  PROVE  ShutdownInv'
<1>1. PICK c : c = Call("get.count", NoDevice, FALSE, hooks.detourShutdown)
  OBVIOUS
<1>2. hooks.detourShutdown \in BOOLEAN
  BY DEF ShutdownInv, HooksInv, HooksType
<1>3. "get.count" \in Labels /\ NoDevice \in Devices \cup {NoDevice} /\ FALSE \in BOOLEAN
  BY DEF Labels
<1>4. c \in CallType /\ c.at = "get.count" /\ c.dev = NoDevice
      /\ c.late = hooks.detourShutdown /\ c.sent = 0
  BY <1>1, <1>2, <1>3 DEF Call, CallType
<1>5. CallOK(c)
  BY <1>4 DEF CallOK, BeforeHost
<1>6. c \in SafeCalls
  BY <1>4 DEF SafeCalls, Using, Harmless
<1>7. /\ MayCall(t) /\ Begin(t, c) /\ LifeKept /\ UNCHANGED <<runFrames, inFlight, slot>>
  BY <1>1 DEF RequestInterface, LifeKept, providerVars, hookVars
<1> QED
  BY <1>4, <1>5, <1>6, <1>7, CallbackBegins

\* The same for a step that also changes what the other calls have to respect.
LEMMA CallsChanged ==
  ASSUME NEW t \in Threads, NEW c, TopBecomes(t, c), c \in SafeCalls',
         \A u \in Threads : \A i \in 1 .. Len(stack[u]) : u # t \/ i # 1 =>
           \A d : Like(d, stack[u][i]) => d \in SafeCalls'
  PROVE  CallsInv'
<1>1. ASSUME NEW u \in Threads, NEW i \in 1 .. Len(stack'[u]) PROVE stack'[u][i] \in SafeCalls'
  <2>1. i \in 1 .. Len(stack[u])
    BY DEF TopBecomes
  <2>2. CASE u = t /\ i = 1
    BY <2>2 DEF TopBecomes
  <2>3. CASE ~(u = t /\ i = 1)
    <3>1. Like(stack'[u][i], stack[u][i])
      BY <2>1, <2>3 DEF TopBecomes
    <3> QED
      BY <2>1, <2>3, <3>1
  <2> QED
    BY <2>2, <2>3
<1> QED
  BY <1>1 DEF CallsInv

\* An interface that is observed late finds the hooks still there, and hooks them again only
\* when no removal is under way.
LEMMA StepObserve ==
  ASSUME ShutdownInv, NEW t \in Threads, Observe(t)
  PROVE  ShutdownInv'
<1>1. /\ At(t, "get.observe") /\ mutex = NoThread /\ Goto(t, "leave")
      /\ UNCHANGED <<active, ready, runFrames, slot, mutex, inFlight>>
      /\ hooks' = hooks \/ (~hooks.shuttingDown /\ hooks' = [hooks EXCEPT !.pose = "on"])
  BY DEF Observe, MayObserve, providerVars
<1>2. /\ "leave" \in Labels /\ SameKind("leave", "get.observe") /\ "get.observe" \notin LifeLabels
      /\ "leave" \notin Uncounted /\ "get.observe" \notin Uncounted
  BY DEF Labels, SameKind, Uncounted
<1>3. PICK e \in CallType, c \in CallType :
           /\ e.at = "get.observe" /\ CallOK(e) /\ e \in SafeCalls /\ TopBecomes(t, c)
           /\ c.at = "leave" /\ c.dev = e.dev /\ c.sent = e.sent /\ c.late = e.late
  BY <1>1, <1>2, Relabelled
<1>4. CallOK(c)
  BY <1>3 DEF CallOK, BeforeHost
<1>5. c \in SafeCalls
  BY <1>3 DEF SafeCalls, Using, Harmless
<1>6. CASE hooks' = hooks
  <2>1. LifeKept
    BY <1>1, <1>6 DEF LifeKept
  <2> QED
    BY <1>1, <1>2, <1>3, <1>4, <1>5, <2>1, GotoMove
<1>7. CASE ~hooks.shuttingDown /\ hooks' = [hooks EXCEPT !.pose = "on"]
  <2>1. /\ stack[t] # <<>> /\ stack[t][1].at = "get.observe" /\ StackType /\ hooks \in HooksType
        /\ StackInv /\ CallsInv /\ CountInv
    BY <1>1, AtFacts, StackInvType DEF ShutdownInv, HooksInv
  <2>2. t # Life
    BY <1>2, <2>1, StackFacts DEF StackInv
  <2>3. /\ hooks' \in HooksType /\ hooks'.pose = "on" /\ hooks'.installed = hooks.installed
        /\ hooks'.instance = hooks.instance /\ hooks'.shuttingDown = hooks.shuttingDown
        /\ hooks'.detourShutdown = hooks.detourShutdown /\ hooks'.context = hooks.context
    BY <1>7, <2>1 DEF HooksType, HookStates
  <2>4. hooks.installed
    BY <1>3 DEF SafeCalls
  <2>5. LifeAt' = LifeAt
    BY <1>3, <2>1, <2>2, LifeAtKept
  <2>6. StackInv'
    BY <1>2, <1>3, <1>4, <2>1, StackReplaced
  <2>7. CountInv'
    BY <1>1, <1>2, <1>3, <2>1, CountMoves
  <2>8. CallsInv'
    <3>1. c \in SafeCalls'
      BY <1>1, <1>3, <1>5, <2>3, <2>4, <2>5 DEF SafeCalls, FramesGone, Harmless
    <3>2. ASSUME NEW u \in Threads, NEW i \in 1 .. Len(stack[u]), NEW d, Like(d, stack[u][i])
          PROVE  d \in SafeCalls'
      <4>1. PICK o : o = stack[u][i]
        OBVIOUS
      <4>2. o \in SafeCalls
        BY <2>1, <4>1 DEF CallsInv
      <4>3. d \in CallType /\ d.at = o.at /\ (o.late => d.late)
        BY <3>2, <4>1 DEF Like
      <4>4. o.at \in {"pose.count", "pose.check", "pose.load"} =>
              (hooks'.pose # "on" \/ hooks'.detourShutdown => d.late)
        BY <2>3, <4>2, <4>3 DEF SafeCalls
      <4>5. /\ LifeAt' = "clean.free" => d.at \in Harmless
            /\ FramesGone' => d.at \notin SubmitLabels \cup {"run.next", "run.commit"}
        BY <1>1, <2>5, <4>2, <4>3 DEF SafeCalls, FramesGone
      <4> QED
        BY <2>3, <2>4, <4>3, <4>4, <4>5 DEF SafeCalls
    <3> QED
      BY <1>3, <3>1, <3>2, CallsChanged
  <2>9. LifeInv'
    <3>1. runFrames' = RunCounted'
      BY <1>1, <1>3, <2>1, RunKept DEF ShutdownInv, LifeInv
    <3>2. LifeAt # "init.poseHook"
      BY <1>1, ThreadFacts DEF ShutdownInv, LifeInv
    <3> QED
      BY <1>1, <2>3, <2>5, <3>1, <3>2 DEF ShutdownInv, LifeInv
  <2>10. HooksInv'
    BY <1>1, <1>7, <2>3, <2>4 DEF ShutdownInv, HooksInv, NoHookLeftBehind
  <2>11. ArmedInv'
    BY <1>1, <2>3, <2>5 DEF ShutdownInv, ArmedInv
  <2> QED
    BY <2>6, <2>7, <2>8, <2>9, <2>10, <2>11 DEF ShutdownInv
<1> QED
  BY <1>1, <1>6, <1>7

SlotType == [armed : BOOLEAN, filter : Filters, captured : BOOLEAN]

\* A callback that gets as far as the filter has a trampoline under it: it may arm the slot.
LEMMA StepFilterPose ==
  ASSUME ShutdownInv, NEW t \in Threads, FilterPose(t)
  PROVE  ShutdownInv'
<1>1. /\ At(t, "pose.filter") /\ Goto(t, "pose.call")
      /\ LifeKept /\ UNCHANGED <<runFrames, inFlight>>
  BY DEF FilterPose, LifeKept, providerVars, hookVars
<1>2. /\ "pose.call" \in Labels /\ SameKind("pose.call", "pose.filter")
      /\ "pose.filter" \notin LifeLabels
      /\ "pose.call" \notin Uncounted /\ "pose.filter" \notin Uncounted
  BY DEF Labels, SameKind, Uncounted
<1>3. PICK e \in CallType, c \in CallType :
           /\ e.at = "pose.filter" /\ CallOK(e) /\ e \in SafeCalls /\ TopBecomes(t, c)
           /\ c.at = "pose.call" /\ c.dev = e.dev /\ c.sent = e.sent /\ c.late = e.late
  BY <1>1, <1>2, Relabelled
<1>4. CallOK(c)
  BY <1>3 DEF CallOK, BeforeHost
<1>5. c \in SafeCalls
  BY <1>3 DEF SafeCalls, Using, Harmless
<1>6. stack[t] # <<>> /\ stack[t][1].at = "pose.filter" /\ StackType /\ StackInv
      /\ Top(t) = stack[t][1] /\ CallOK(Top(t))
  BY <1>1, AtFacts, StackInvType DEF ShutdownInv
<1>7. t # Life
  BY <1>2, <1>6, StackFacts DEF StackInv
<1>8. runFrames' = RunCounted'
  BY <1>1, <1>2, <1>3, <1>6, RunKept, StackInvType DEF ShutdownInv, LifeInv
<1>9. StackInv' /\ CallsInv' /\ LifeInv' /\ HooksInv' /\ LifeAt' = LifeAt
  BY <1>1, <1>2, <1>3, <1>4, <1>5, <1>6, <1>7, <1>8, Moves
<1>10. CountInv'
  BY <1>1, <1>2, <1>3, <1>6, CountMoves
<1>11. ArmedInv'
  <2>1. slot \in [Devices -> SlotType]
    BY DEF ShutdownInv, ArmedInv, SlotType
  <2>2. Top(t).dev \in Devices
    BY <1>6 DEF CallOK
  <2>3. slot' \in [Devices -> SlotType]
    <3>1. CASE slot' = slot
      BY <2>1, <3>1
    <3>2. ASSUME NEW s \in AfterPush(Superseded(slot[Top(t).dev]))
                           \cup {AfterReset(Superseded(slot[Top(t).dev]))}
                           \cup (IF "filter" \in Faults
                                 THEN {Superseded(slot[Top(t).dev])} ELSE {}),
                 slot' = [slot EXCEPT ![Top(t).dev] = s]
          PROVE  slot' \in [Devices -> SlotType]
      <4>1. Superseded(slot[Top(t).dev]) \in SlotType
        BY <2>1, <2>2 DEF SlotType, Superseded
      <4>2. s \in SlotType
        BY <4>1 DEF SlotType, AfterPush, AfterReset, Filters
      <4> QED
        BY <2>1, <2>2, <3>2, <4>2
    <3> QED
      BY <3>1, <3>2 DEF FilterPose
  <2>4. hooks.pose # "none"
    BY <1>3 DEF SafeCalls, Using
  <2> QED
    BY <1>1, <2>3, <2>4 DEF ArmedInv, SlotType, LifeKept
<1> QED
  BY <1>9, <1>10, <1>11 DEF ShutdownInv

-------------------------------------------------------------------------------
(* RunFrame.                                                                   *)

\* c is e with another label, device, rest to do, count of what was sent and terminal pose.
Becomes(c, e, at, d, todo, sent, lost) ==
  /\ c \in CallType
  /\ c.at = at /\ c.dev = d /\ c.todo = todo /\ c.sent = sent /\ c.lost = lost
  /\ c.late = e.late

\* One field at a time.
LEMMA SetDev ==
  ASSUME NEW e \in CallType, NEW d \in Devices \cup {NoDevice}, NEW c, c = [e EXCEPT !.dev = d]
  PROVE  Becomes(c, e, e.at, d, e.todo, e.sent, e.lost)
BY DEF CallType, Becomes
LEMMA SetTodo ==
  ASSUME NEW e \in CallType, NEW s \in SUBSET Devices, NEW c, c = [e EXCEPT !.todo = s]
  PROVE  Becomes(c, e, e.at, e.dev, s, e.sent, e.lost)
BY DEF CallType, Becomes
LEMMA SetLost ==
  ASSUME NEW e \in CallType, NEW l \in BOOLEAN, NEW c, c = [e EXCEPT !.lost = l]
  PROVE  Becomes(c, e, e.at, e.dev, e.todo, e.sent, l)
BY DEF CallType, Becomes
LEMMA SetSent ==
  ASSUME NEW e \in CallType, NEW n \in 0 .. 2, NEW c, c = [e EXCEPT !.sent = n]
  PROVE  Becomes(c, e, e.at, e.dev, e.todo, n, e.lost)
BY DEF CallType, Becomes
LEMMA SetAt ==
  ASSUME NEW e \in CallType, NEW at \in Labels, NEW c, c = [e EXCEPT !.at = at]
  PROVE  Becomes(c, e, at, e.dev, e.todo, e.sent, e.lost)
BY DEF CallType, Becomes
\* What RunFrame and submitPose change in the record of their call.
WithTodo(e, at, s) == [e EXCEPT !.at = at, !.todo = s]
WithSent(e, at, n) == [e EXCEPT !.at = at, !.sent = n]
WithDev(e, at, d) == [e EXCEPT !.at = at, !.dev = d]
Chosen(e, at, d, s, l) == [e EXCEPT !.at = at, !.dev = d, !.todo = s, !.lost = l]
Left(e, at, d, n, l) == [e EXCEPT !.at = at, !.dev = d, !.sent = n, !.lost = l]

LEMMA EditTodo ==
  ASSUME NEW e \in CallType, NEW at \in Labels, NEW s \in SUBSET Devices,
         NEW c, c = WithTodo(e, at, s)
  PROVE  Becomes(c, e, at, e.dev, s, e.sent, e.lost)
<1>1. PICK a : a = [e EXCEPT !.at = at]
  OBVIOUS
<1>2. Becomes(a, e, at, e.dev, e.todo, e.sent, e.lost)
  BY <1>1, SetAt
<1>3. a \in CallType
  BY <1>2 DEF Becomes
<1>4. c = [a EXCEPT !.todo = s]
  BY <1>1, Zenon DEF WithTodo
<1>5. Becomes(c, a, a.at, a.dev, s, a.sent, a.lost)
  BY <1>3, <1>4, SetTodo
<1> QED
  BY <1>2, <1>5 DEF Becomes

LEMMA EditSent ==
  ASSUME NEW e \in CallType, NEW at \in Labels, NEW n \in 0 .. 2,
         NEW c, c = WithSent(e, at, n)
  PROVE  Becomes(c, e, at, e.dev, e.todo, n, e.lost)
<1>1. PICK a : a = [e EXCEPT !.at = at]
  OBVIOUS
<1>2. Becomes(a, e, at, e.dev, e.todo, e.sent, e.lost)
  BY <1>1, SetAt
<1>3. a \in CallType
  BY <1>2 DEF Becomes
<1>4. c = [a EXCEPT !.sent = n]
  BY <1>1, Zenon DEF WithSent
<1>5. Becomes(c, a, a.at, a.dev, a.todo, n, a.lost)
  BY <1>3, <1>4, SetSent
<1> QED
  BY <1>2, <1>5 DEF Becomes

LEMMA EditDev ==
  ASSUME NEW e \in CallType, NEW at \in Labels, NEW d \in Devices \cup {NoDevice},
         NEW c, c = WithDev(e, at, d)
  PROVE  Becomes(c, e, at, d, e.todo, e.sent, e.lost)
<1>1. PICK a : a = [e EXCEPT !.at = at]
  OBVIOUS
<1>2. Becomes(a, e, at, e.dev, e.todo, e.sent, e.lost)
  BY <1>1, SetAt
<1>3. a \in CallType
  BY <1>2 DEF Becomes
<1>4. c = [a EXCEPT !.dev = d]
  BY <1>1, Zenon DEF WithDev
<1>5. Becomes(c, a, a.at, d, a.todo, a.sent, a.lost)
  BY <1>3, <1>4, SetDev
<1> QED
  BY <1>2, <1>5 DEF Becomes

LEMMA EditChosen ==
  ASSUME NEW e \in CallType, NEW at \in Labels, NEW d \in Devices \cup {NoDevice},
         NEW s \in SUBSET Devices, NEW l \in BOOLEAN,
         NEW c, c = Chosen(e, at, d, s, l)
  PROVE  Becomes(c, e, at, d, s, e.sent, l)
<1>1. PICK a : a = WithDev(e, at, d)
  OBVIOUS
<1>2. PICK b : b = [a EXCEPT !.todo = s]
  OBVIOUS
<1>3. Becomes(a, e, at, d, e.todo, e.sent, e.lost)
  BY <1>1, EditDev
<1>4. a \in CallType
  BY <1>3 DEF Becomes
<1>5. Becomes(b, a, a.at, a.dev, s, a.sent, a.lost)
  BY <1>2, <1>4, SetTodo
<1>6. b \in CallType
  BY <1>5 DEF Becomes
<1>7. c = [b EXCEPT !.lost = l]
  BY <1>1, <1>2, Zenon DEF WithDev, Chosen
<1>8. Becomes(c, b, b.at, b.dev, b.todo, b.sent, l)
  BY <1>6, <1>7, SetLost
<1> QED
  BY <1>3, <1>5, <1>8 DEF Becomes

LEMMA EditLeft ==
  ASSUME NEW e \in CallType, NEW at \in Labels, NEW d \in Devices \cup {NoDevice},
         NEW n \in 0 .. 2, NEW l \in BOOLEAN,
         NEW c, c = Left(e, at, d, n, l)
  PROVE  Becomes(c, e, at, d, e.todo, n, l)
<1>1. PICK a : a = WithDev(e, at, d)
  OBVIOUS
<1>2. PICK b : b = [a EXCEPT !.sent = n]
  OBVIOUS
<1>3. Becomes(a, e, at, d, e.todo, e.sent, e.lost)
  BY <1>1, EditDev
<1>4. a \in CallType
  BY <1>3 DEF Becomes
<1>5. Becomes(b, a, a.at, a.dev, a.todo, n, a.lost)
  BY <1>2, <1>4, SetSent
<1>6. b \in CallType
  BY <1>5 DEF Becomes
<1>7. c = [b EXCEPT !.lost = l]
  BY <1>1, <1>2, Zenon DEF WithDev, Left
<1>8. Becomes(c, b, b.at, b.dev, b.todo, b.sent, l)
  BY <1>6, <1>7, SetLost
<1> QED
  BY <1>3, <1>5, <1>8 DEF Becomes

\* Replacing the top call of stacks whose calls may have aged.
LEMMA AgedEffect ==
  ASSUME StackType, NEW s \in [Threads -> Seq(CallType)],
         \A u \in Threads : Len(s[u]) = Len(stack[u]),
         \A u \in Threads : \A i \in 1 .. Len(stack[u]) : Like(s[u][i], stack[u][i]),
         NEW t \in Threads, stack[t] # <<>>, NEW c \in CallType,
         stack' = [s EXCEPT ![t] = [s[t] EXCEPT ![1] = c]]
  PROVE  TopBecomes(t, c)
<1> DEFINE new == [s[t] EXCEPT ![1] = c]
<1>1. s[t] \in Seq(CallType) /\ 1 \in 1 .. Len(s[t]) /\ Len(s[t]) = Len(stack[t])
  BY StackFacts
<1>2. /\ new \in Seq(CallType)
      /\ Len(new) = Len(s[t])
      /\ \A j \in 1 .. Len(s[t]) : new[j] = IF j = 1 THEN c ELSE s[t][j]
  BY <1>1, ExceptSeq
<1> HIDE DEF new
<1>3. stack' = [s EXCEPT ![t] = new]
  BY DEF new
<1>4. stack' \in [Threads -> Seq(CallType)] /\ stack'[t] = new
      /\ \A u \in Threads : u # t => stack'[u] = s[u]
  BY <1>2, <1>3
<1>5. stack'[t][1] = c
  BY <1>1, <1>2, <1>4
<1>6. \A u \in Threads : Len(stack'[u]) = Len(stack[u])
  BY <1>1, <1>2, <1>4
<1>7. ASSUME NEW u \in Threads, NEW i \in 1 .. Len(stack[u]), u # t \/ i # 1
      PROVE  Like(stack'[u][i], stack[u][i])
  <2>1. stack'[u][i] = s[u][i]
    BY <1>1, <1>2, <1>4, <1>7
  <2> QED
    BY <2>1
<1> QED
  BY <1>4, <1>5, <1>6, <1>7 DEF TopBecomes

\* A sequence that is built position by position.
LEMMA BuiltSeq ==
  ASSUME NEW n \in Nat, NEW f \in [1 .. n -> CallType]
  PROVE  f \in Seq(CallType) /\ Len(f) = n
<1>1. f \in Seq(CallType)
  BY SeqDef
<1>2. Len(f) \in Nat /\ DOMAIN f = 1 .. Len(f)
  BY <1>1, LenProperties
<1>3. 1 .. Len(f) = 1 .. n
  BY <1>2
<1>4. Len(f) = n
  <2>1. \A m \in Nat, k \in Nat : 1 .. m = 1 .. k => m = k
    <3>1. ASSUME NEW m \in Nat, NEW k \in Nat, 1 .. m = 1 .. k, m # k PROVE FALSE
      <4>1. (IF m > k THEN m ELSE k) \in 1 .. m <=> (IF m > k THEN m ELSE k) \in 1 .. k
        BY <3>1
      <4> QED
        BY <3>1, <4>1
    <3> QED
      BY <3>1
  <2> QED
    BY <1>2, <1>3, <2>1
<1> QED
  BY <1>1, <1>4

LEMMA MarkOlderLike ==
  ASSUME StackType, NEW d, NEW s, s = MarkOlder(stack, d)
  PROVE  /\ s \in [Threads -> Seq(CallType)]
         /\ \A u \in Threads : Len(s[u]) = Len(stack[u])
         /\ \A u \in Threads : \A i \in 1 .. Len(stack[u]) :
              Like(s[u][i], stack[u][i]) /\ (s[u][i].dev = d => ~s[u][i].newer)
<1>1. ASSUME NEW u \in Threads
      PROVE  /\ s[u] \in Seq(CallType) /\ Len(s[u]) = Len(stack[u])
             /\ \A i \in 1 .. Len(stack[u]) :
                  Like(s[u][i], stack[u][i]) /\ (s[u][i].dev = d => ~s[u][i].newer)
  <2>1. Len(stack[u]) \in Nat /\ DOMAIN stack[u] = 1 .. Len(stack[u])
        /\ \A i \in 1 .. Len(stack[u]) : stack[u][i] \in CallType
    BY StackFacts
  <2>2. s[u] = [i \in 1 .. Len(stack[u]) |->
                  IF stack[u][i].dev = d THEN [stack[u][i] EXCEPT !.newer = FALSE] ELSE stack[u][i]]
    BY <2>1 DEF MarkOlder
  <2>3. ASSUME NEW i \in 1 .. Len(stack[u])
        PROVE  /\ s[u][i] \in CallType /\ Like(s[u][i], stack[u][i])
               /\ s[u][i].dev = d => ~s[u][i].newer
    <3>1. stack[u][i] \in CallType
      BY <2>1
    <3>2. [stack[u][i] EXCEPT !.newer = FALSE] \in CallType
          /\ Like([stack[u][i] EXCEPT !.newer = FALSE], stack[u][i])
          /\ ~[stack[u][i] EXCEPT !.newer = FALSE].newer
      BY <3>1 DEF CallType, Like
    <3>3. IF stack[u][i].dev = d THEN s[u][i] = [stack[u][i] EXCEPT !.newer = FALSE]
          ELSE s[u][i] = stack[u][i]
      BY <2>2
    <3> QED
      BY <3>1, <3>2, <3>3, LikeItself
  <2>4. s[u] \in [1 .. Len(stack[u]) -> CallType]
    BY <2>2, <2>3
  <2> QED
    BY <2>1, <2>3, <2>4, BuiltSeq
<1>2. s = [u \in Threads |-> s[u]]
  BY DEF MarkOlder
<1>3. s \in [Threads -> Seq(CallType)]
  BY <1>1, <1>2
<1> QED
  BY <1>1, <1>3

-------------------------------------------------------------------------------
(* The steps of RunFrame.                                                      *)

\* A slot that is not armed stays so.
SlotsDisarm ==
  /\ slot' \in [Devices -> SlotType]
  /\ \A d \in Devices : slot'[d].armed => slot[d].armed

LEMMA SlotsKept ==
  ASSUME ShutdownInv, slot' = slot PROVE SlotsDisarm
BY DEF ShutdownInv, ArmedInv, SlotsDisarm, SlotType

LEMMA ArmedShrinks ==
  ASSUME ArmedInv, SlotsDisarm, LifeKept, LifeAt' = LifeAt
  PROVE  ArmedInv'
BY DEF ArmedInv, SlotsDisarm, SlotType, LifeKept

\* RunFrame moves its call on.
LEMMA FrameMove ==
  ASSUME ShutdownInv, NEW from \in FrameLabels, At(Frame, from), NEW c, TopBecomes(Frame, c),
         c.at \in FrameLabels, CallOK(c), c \in SafeCalls, LifeKept, SlotsDisarm,
         CountInv', runFrames' = RunCounted'
  PROVE  ShutdownInv'
<1>1. stack[Frame] # <<>> /\ stack[Frame][1].at = from
  BY AtFacts, ThreadFacts
<1>2. SameKind(c.at, from)
  <2>1. \A label \in FrameLabels : label \notin CallbackLabels /\ label \notin LifeLabels
    OBVIOUS
  <2> QED
    BY <2>1 DEF SameKind
<1>3. StackInv' /\ CallsInv' /\ LifeInv' /\ HooksInv' /\ LifeAt' = LifeAt
  BY <1>1, <1>2, Moves, ThreadFacts
<1>4. ArmedInv'
  BY <1>3, ArmedShrinks DEF ShutdownInv
<1> QED
  BY <1>3, <1>4 DEF ShutdownInv

\* Where the call of a frame is alone on its stack it is counted but at its first label.
LEMMA FrameCounted ==
  ASSUME ShutdownInv, NEW from \in FrameLabels, At(Frame, from)
  PROVE  /\ Len(stack[Frame]) = 1 /\ StackType /\ stack[Frame] # <<>>
         /\ stack[Frame][1].at = from
         /\ RunCounted = IF from = "run.count" THEN 0 ELSE 1
         /\ runFrames = RunCounted
         /\ \A c : TopBecomes(Frame, c) => RunCounted' = IF c.at = "run.count" THEN 0 ELSE 1
<1>1. stack[Frame] # <<>> /\ stack[Frame][1].at = from /\ StackInv /\ StackType
  BY AtFacts, ThreadFacts, StackInvType DEF ShutdownInv
<1>2. Len(stack[Frame]) = 1
  BY <1>1, FrameAlone
<1>3. RunCounted = IF from = "run.count" THEN 0 ELSE 1
  BY <1>1, <1>2 DEF RunCounted
<1>4. ASSUME NEW c, TopBecomes(Frame, c)
      PROVE  RunCounted' = IF c.at = "run.count" THEN 0 ELSE 1
  <2>1. stack'[Frame] # <<>>
    BY <1>1, <1>4, TopCounted, ThreadFacts
  <2>2. Len(stack'[Frame]) = 1 /\ stack'[Frame][1] = c
    BY <1>2, <1>4, ThreadFacts DEF TopBecomes
  <2> QED
    BY <2>1, <2>2 DEF RunCounted
<1> QED
  BY <1>1, <1>2, <1>3, <1>4 DEF ShutdownInv, LifeInv

LEMMA StepStartFrame ==
  ASSUME ShutdownInv, StartFrame PROVE ShutdownInv'
<1>1. CASE stack' = stack
  BY <1>1, NothingMoves DEF StartFrame, ShutdownVars, providerVars, hookVars
<1>2. CASE Begin(Frame, Call("run.count", NoDevice, FALSE, FALSE))
  <2>1. PICK c : c = Call("run.count", NoDevice, FALSE, FALSE)
    BY DEF Call
  <2>2. "run.count" \in Labels /\ NoDevice \in Devices \cup {NoDevice} /\ FALSE \in BOOLEAN
    BY DEF Labels
  <2>3. c \in CallType /\ c.at = "run.count" /\ c.sent = 0
    BY <2>1, <2>2 DEF Call, CallType
  <2>4. CallOK(c)
    BY <2>3 DEF CallOK, BeforeHost
  <2>5. c \in SafeCalls
    BY <2>3 DEF SafeCalls, Using, Harmless
  <2>6. stack[Frame] = <<>> /\ LifeKept /\ UNCHANGED <<runFrames, inFlight, slot>>
    BY DEF StartFrame, LifeKept, providerVars, hookVars
  <2>7. StackInv /\ StackType /\ Frame \in Threads /\ Frame # Life
    BY StackInvType, ThreadFacts DEF ShutdownInv
  <2>8. Pushed(Frame, c)
    BY <1>2, <2>1, <2>3, <2>7, BeginEffect
  <2>9. MayStart(Frame, c.at)
    BY <2>3, <2>6, <2>7 DEF MayStart
  <2>10. StackInv'
    BY <2>4, <2>7, <2>8, <2>9, StackPushed
  <2>11. LifeAt' = LifeAt
    BY <2>7, <2>8, LifeAtElsewhere
  <2>12. CallsInv'
    <3>1. SafeCalls' = SafeCalls
      BY <2>6, <2>11, SafeKept DEF LifeKept
    <3> QED
      BY <2>5, <2>6, <2>7, <2>8, <2>11, <3>1, CallsPushed DEF ShutdownInv, LifeKept
  <2>13. RunCounted' = RunCounted
    BY <2>3, <2>7, <2>8, RunBegins
  <2>14. LifeInv' /\ HooksInv'
    <3>1. LifeInv /\ HooksInv /\ runFrames' = RunCounted'
      BY <2>6, <2>13 DEF ShutdownInv, LifeInv
    <3> QED
      BY <2>6, <2>11, <3>1, LifeInvKept
  <2>15. CountInv'
    <3>1. Counted(Frame) = 0 /\ Len(stack[Frame]) = 0
      BY <2>6, <2>7, StackFacts DEF Counted
    <3>2. c.at \in Uncounted
      BY <2>3 DEF Uncounted
    <3>3. \A u \in Threads : Counted(u)' = Counted(u)
      BY <2>7, <2>8, <3>1, <3>2, PushCounted
    <3> QED
      BY <2>6, <3>3, CountSame DEF ShutdownInv
  <2>16. ArmedInv'
    BY <2>6, <2>11, ArmedKept DEF ShutdownInv
  <2> QED
    BY <2>10, <2>12, <2>14, <2>15, <2>16 DEF ShutdownInv
<1> QED
  BY <1>1, <1>2 DEF StartFrame

LEMMA StepCountFrame ==
  ASSUME ShutdownInv, CountFrame PROVE ShutdownInv'
<1>1. /\ At(Frame, "run.count") /\ Goto(Frame, "run.check") /\ runFrames' = runFrames + 1
      /\ LifeKept /\ UNCHANGED <<inFlight, slot>>
  BY DEF CountFrame, LifeKept, providerVars, hookVars
<1>2. /\ "run.count" \in FrameLabels /\ "run.check" \in FrameLabels /\ "run.check" \in Labels
      /\ "run.count" \in Uncounted /\ "run.check" \in Uncounted
  BY DEF Labels, Uncounted
<1>3. PICK e \in CallType, c \in CallType :
           /\ e.at = "run.count" /\ CallOK(e) /\ e \in SafeCalls /\ TopBecomes(Frame, c)
           /\ c.at = "run.check" /\ c.dev = e.dev /\ c.sent = e.sent /\ c.late = e.late
  BY <1>1, <1>2, Relabelled, ThreadFacts
<1>4. CallOK(c)
  BY <1>3 DEF CallOK, BeforeHost
<1>5. c \in SafeCalls
  BY <1>3 DEF SafeCalls, Using, Harmless
<1>6. stack[Frame] # <<>> /\ stack[Frame][1].at = "run.count"
      /\ runFrames = 0 /\ RunCounted' = 1
  BY <1>1, <1>2, <1>3, FrameCounted
<1>7. CountInv'
  BY <1>1, <1>2, <1>3, <1>6, CountMoves, ThreadFacts
<1>8. runFrames' = RunCounted'
  BY <1>1, <1>6
<1> QED
  BY <1>1, <1>2, <1>3, <1>4, <1>5, <1>7, <1>8, SlotsKept, FrameMove

\* The second look at active_: a frame that goes on is one that Cleanup waits for.
LEMMA StepClassify ==
  ASSUME ShutdownInv, Classify PROVE ShutdownInv'
<1>1. At(Frame, "run.check") /\ LifeKept /\ UNCHANGED <<runFrames, inFlight, slot>>
  BY DEF Classify, LifeKept, providerVars, hookVars
<1>2. /\ "run.check" \in FrameLabels /\ "run.end" \in FrameLabels /\ "run.next" \in FrameLabels
      /\ "run.end" \in Labels /\ "run.next" \in Labels
      /\ \A label \in RunLabels : label \in Uncounted
  BY DEF Labels, Uncounted
<1>3. PICK e : e = stack[Frame][1]
  OBVIOUS
<1>4. /\ stack[Frame] # <<>> /\ e.at = "run.check" /\ CallOK(e) /\ e \in SafeCalls
      /\ e \in CallType /\ e.sent <= 1
  BY <1>1, <1>3, AtFacts, ThreadFacts DEF CallOK
<1>5. PICK c : /\ TopBecomes(Frame, c) /\ c \in CallType /\ c.dev = e.dev /\ c.sent = e.sent
               /\ c.at = "run.end" \/ (c.at = "run.next" /\ active)
  <2>1. CASE Goto(Frame, "run.end")
    <3>1. PICK c : c = [e EXCEPT !.at = "run.end"]
      OBVIOUS
    <3>2. c \in CallType /\ c.at = "run.end" /\ c.dev = e.dev /\ c.sent = e.sent
      BY <1>2, <1>4, <3>1, RelabelFields
    <3>3. TopBecomes(Frame, c)
      BY <1>2, <1>3, <1>4, <2>1, <3>1, GotoEffect, StackInvType, ThreadFacts DEF ShutdownInv
    <3> QED
      BY <3>2, <3>3
  <2>2. CASE /\ active
             /\ stack' = [stack EXCEPT ![Frame][1] =
                            [stack[Frame][1] EXCEPT !.at = "run.next", !.todo = Devices]]
    <3>1. PICK c : c = WithTodo(e, "run.next", Devices)
      OBVIOUS
    <3>2. Becomes(c, e, "run.next", e.dev, Devices, e.sent, e.lost)
      <4>1. Devices \in SUBSET Devices
        OBVIOUS
      <4> QED
        BY <1>2, <1>4, <3>1, <4>1, EditTodo
    <3>3. c \in CallType /\ c.at = "run.next" /\ c.dev = e.dev /\ c.sent = e.sent
      BY <3>2 DEF Becomes
    <3>4. TopBecomes(Frame, c)
      <4>1. stack' = [stack EXCEPT ![Frame][1] = c]
        BY <1>3, <2>2, <3>1 DEF WithTodo
      <4> QED
        BY <1>4, <3>3, <4>1, Edited, ThreadFacts
    <3> QED
      BY <2>2, <3>3, <3>4
  <2> QED
    BY <2>1, <2>2 DEF Classify, StillActive
<1>6. c.at \in RunLabels /\ c.at # "run.count"
  BY <1>5
<1>7. CallOK(c)
  BY <1>4, <1>5 DEF CallOK, BeforeHost
<1>8. c \in SafeCalls
  <2>1. LifeAt = "clean.free" => ~active
    BY DEF ShutdownInv, LifeInv
  <2> QED
    BY <1>4, <1>5, <2>1 DEF SafeCalls, FramesGone, Using, Harmless
<1>9. CountInv'
  <2>1. c.at \in Uncounted /\ stack[Frame][1].at \in Uncounted
    BY <1>2, <1>3, <1>4, <1>6
  <2> QED
    BY <1>1, <1>4, <1>5, <2>1, CountMoves, ThreadFacts
<1>10. runFrames' = RunCounted'
  BY <1>1, <1>2, <1>5, <1>6, FrameCounted
<1> QED
  BY <1>1, <1>2, <1>5, <1>6, <1>7, <1>8, <1>9, <1>10, SlotsKept, FrameMove

\* A slot that RunFrame finds armed, a callback has armed: there is a hook to send through.
LEMMA ArmedHasHook ==
  ASSUME ShutdownInv, ~FramesGone, NEW d \in Devices, slot[d].armed
  PROVE  hooks.pose # "none"
<1>1. active \/ LifeAt = "clean.drainFrames"
  BY DEF FramesGone
<1>2. active => LifeAt # "clean.filters" /\ ~(LifeAt = "none" /\ ~ready)
  BY DEF ShutdownInv, LifeInv
<1> QED
  BY <1>1, <1>2 DEF ShutdownInv, ArmedInv

\* How the call goes on from there, slots and all.
NextBecomes(c, e) ==
  /\ TopBecomes(Frame, c) /\ c \in CallType /\ c.sent = e.sent
  /\ \/ c.at \in {"run.end", "run.next"} /\ c.dev = e.dev
     \/ c.at = "submit.count" /\ c.dev \in Devices /\ hooks.pose # "none"
  /\ SlotsDisarm

LEMMA StepNextDevice ==
  ASSUME ShutdownInv, NextDevice PROVE ShutdownInv'
<1>1. At(Frame, "run.next") /\ LifeKept /\ UNCHANGED <<runFrames, inFlight>>
  BY Zenon DEF NextDevice, LifeKept, hookVars
<1>2. /\ "run.next" \in FrameLabels /\ "run.end" \in FrameLabels /\ "submit.count" \in FrameLabels
      /\ "run.end" \in Labels /\ "submit.count" \in Labels
      /\ {"run.next", "run.end", "submit.count"} \subseteq Uncounted
  BY DEF Labels, Uncounted
<1>3. PICK e : e = stack[Frame][1]
  OBVIOUS
<1>4. /\ stack[Frame] # <<>> /\ e.at = "run.next" /\ CallOK(e) /\ e \in SafeCalls
      /\ e \in CallType /\ e.sent <= 1 /\ Top(Frame) = e
  BY <1>1, <1>3, AtFacts, ThreadFacts DEF CallOK
<1>a. e.todo \in SUBSET Devices /\ ~FramesGone /\ LifeAt # "clean.free"
  BY <1>4, CallFields DEF SafeCalls, Harmless
<1>5. PICK c : NextBecomes(c, e)
  <2>1. CASE Goto(Frame, "run.end") /\ slot' = slot
    <3>1. PICK c : c = [e EXCEPT !.at = "run.end"]
      OBVIOUS
    <3>2. c \in CallType /\ c.at = "run.end" /\ c.dev = e.dev /\ c.sent = e.sent
      BY <1>2, <1>4, <3>1, RelabelFields
    <3>3. TopBecomes(Frame, c)
      BY <1>2, <1>3, <1>4, <2>1, <3>1, GotoEffect, StackInvType, ThreadFacts DEF ShutdownInv
    <3> QED
      BY <2>1, <3>2, <3>3, SlotsKept DEF NextBecomes
  <2>2. ASSUME NEW d \in Top(Frame).todo, slot' = slot,
               stack' = [stack EXCEPT ![Frame][1].todo = @ \ {d}]
        PROVE  \E c : NextBecomes(c, e)
    <3>1. PICK c : c = [e EXCEPT !.todo = e.todo \ {d}]
      OBVIOUS
    <3>2. Becomes(c, e, e.at, e.dev, e.todo \ {d}, e.sent, e.lost)
      <4>1. e.todo \ {d} \in SUBSET Devices
        BY <1>a
      <4> QED
        BY <1>4, <3>1, <4>1, SetTodo
    <3>3. c \in CallType /\ c.at = "run.next" /\ c.dev = e.dev /\ c.sent = e.sent
      BY <1>4, <3>2 DEF Becomes
    <3>4. TopBecomes(Frame, c)
      <4>1. stack' = [stack EXCEPT ![Frame][1] = c]
        BY <1>3, <2>2, <3>1
      <4> QED
        BY <1>4, <3>3, <4>1, Edited, ThreadFacts
    <3> QED
      BY <2>2, <3>3, <3>4, SlotsKept DEF NextBecomes
  <2>3. ASSUME NEW d \in Top(Frame).todo, slot[d].armed, NEW f \in Predicted(slot[d].filter),
               slot' = [slot EXCEPT ![d].filter = f, ![d].captured = TRUE],
               stack' = [MarkOlder(stack, d) EXCEPT
                           ![Frame][1] = [@ EXCEPT !.at = "submit.count", !.dev = d,
                                                   !.todo = Top(Frame).todo \ {d},
                                                   !.lost = (f = "Lost")]]
        PROVE  \E c : NextBecomes(c, e)
    <3>d. d \in Devices
      BY <1>4, <1>a
    <3>1. PICK s : s = MarkOlder(stack, d)
      OBVIOUS
    <3>2. /\ s \in [Threads -> Seq(CallType)]
          /\ \A u \in Threads : Len(s[u]) = Len(stack[u])
          /\ \A u \in Threads : \A i \in 1 .. Len(stack[u]) : Like(s[u][i], stack[u][i])
      BY <3>1, MarkOlderLike, StackInvType DEF ShutdownInv
    <3>3. PICK o : o = s[Frame][1]
      OBVIOUS
    <3>4. o \in CallType /\ o.sent = e.sent
      <4>1. 1 \in 1 .. Len(stack[Frame])
        BY <1>4, StackFacts, StackInvType, ThreadFacts DEF ShutdownInv
      <4> QED
        BY <1>3, <3>2, <3>3, <4>1, ThreadFacts DEF Like
    <3>5. PICK l \in BOOLEAN : l = (f = "Lost")
      OBVIOUS
    <3>6. PICK c : c = Chosen(o, "submit.count", d, e.todo \ {d}, l)
      OBVIOUS
    <3>7. Becomes(c, o, "submit.count", d, e.todo \ {d}, o.sent, l)
      <4>1. e.todo \ {d} \in SUBSET Devices /\ d \in Devices \cup {NoDevice}
        BY <1>a, <3>d
      <4> QED
        BY <1>2, <3>4, <3>5, <3>6, <4>1, EditChosen
    <3>8. c \in CallType /\ c.at = "submit.count" /\ c.dev = d /\ c.sent = e.sent
      BY <3>4, <3>7, <3>d DEF Becomes
    <3>9. stack' = [s EXCEPT ![Frame] = [s[Frame] EXCEPT ![1] = c]]
      BY <1>4, <2>3, <3>1, <3>3, <3>5, <3>6, Zenon DEF Chosen
    <3>10. TopBecomes(Frame, c)
      BY <1>4, <3>2, <3>8, <3>9, AgedEffect, StackInvType, ThreadFacts DEF ShutdownInv
    <3>11. SlotsDisarm
      <4>1. slot \in [Devices -> SlotType]
        BY DEF ShutdownInv, ArmedInv, SlotType
      <4>2. f \in Filters
        BY DEF Predicted, Filters
      <4> QED
        BY <2>3, <3>d, <4>1, <4>2 DEF SlotsDisarm, SlotType
    <3>12. hooks.pose # "none"
      BY <1>a, <2>3, <3>d, ArmedHasHook
    <3> QED
      BY <3>d, <3>8, <3>10, <3>11, <3>12 DEF NextBecomes
  <2> QED
    BY <2>1, <2>2, <2>3, Zenon DEF NextDevice
<1>b. /\ TopBecomes(Frame, c) /\ c \in CallType /\ c.sent = e.sent /\ SlotsDisarm
      /\ \/ c.at \in {"run.end", "run.next"} /\ c.dev = e.dev
         \/ c.at = "submit.count" /\ c.dev \in Devices /\ hooks.pose # "none"
  BY <1>5 DEF NextBecomes
<1>6. c.at \in FrameLabels /\ c.at # "run.count" /\ c.at \in Uncounted
  BY <1>2, <1>b
<1>7. CallOK(c)
  BY <1>4, <1>b DEF CallOK, BeforeHost
<1>8. c \in SafeCalls
  BY <1>a, <1>b DEF SafeCalls, FramesGone, Using, Harmless
<1>9. CountInv'
  BY <1>1, <1>2, <1>3, <1>4, <1>b, <1>6, CountMoves, ThreadFacts
<1>10. runFrames' = RunCounted'
  BY <1>1, <1>2, <1>b, <1>6, FrameCounted
<1> QED
  BY <1>1, <1>2, <1>b, <1>6, <1>7, <1>8, <1>9, <1>10, FrameMove

\* submitPose: the device of the prediction, and a hook that is still there.
LEMMA StepCheckSubmit ==
  ASSUME ShutdownInv, CheckSubmit PROVE ShutdownInv'
<1>1. PICK to \in {"submit.leave", "submit.lock"} :
        /\ At(Frame, "submit.check") /\ Goto(Frame, to)
        /\ LifeKept /\ UNCHANGED <<runFrames, inFlight, slot>>
  BY DEF CheckSubmit, LifeKept, providerVars, hookVars
<1>2. /\ to \in Labels /\ SameKind(to, "submit.check") /\ "submit.check" \notin LifeLabels
      /\ (to \in Uncounted <=> "submit.check" \in Uncounted) /\ to # "run.count"
  BY DEF Labels, SameKind, Uncounted
<1>3. PICK e \in CallType, c \in CallType :
           /\ e.at = "submit.check" /\ CallOK(e) /\ e \in SafeCalls /\ TopBecomes(Frame, c)
           /\ c.at = to /\ c.dev = e.dev /\ c.sent = e.sent /\ c.late = e.late
  BY <1>1, <1>2, Relabelled, ThreadFacts
<1>4. CallOK(c)
  BY <1>3 DEF CallOK, BeforeHost
<1>5. c \in SafeCalls
  BY <1>3 DEF SafeCalls, Using, Harmless
<1> QED
  BY <1>1, <1>2, <1>3, <1>4, <1>5, GotoMove, ThreadFacts

LEMMA StepLockSubmit ==
  ASSUME ShutdownInv, LockSubmit PROVE ShutdownInv'
<1>1. PICK to \in {"submit.test"} :
        /\ At(Frame, "submit.lock") /\ Goto(Frame, to)
        /\ LifeKept /\ UNCHANGED <<runFrames, inFlight, slot>>
  BY DEF LockSubmit, LifeKept, providerVars, hookVars
<1>2. /\ to \in Labels /\ SameKind(to, "submit.lock") /\ "submit.lock" \notin LifeLabels
      /\ (to \in Uncounted <=> "submit.lock" \in Uncounted) /\ to # "run.count"
  BY DEF Labels, SameKind, Uncounted
<1>3. PICK e \in CallType, c \in CallType :
           /\ e.at = "submit.lock" /\ CallOK(e) /\ e \in SafeCalls /\ TopBecomes(Frame, c)
           /\ c.at = to /\ c.dev = e.dev /\ c.sent = e.sent /\ c.late = e.late
  BY <1>1, <1>2, Relabelled, ThreadFacts
<1>4. CallOK(c)
  BY <1>3 DEF CallOK, BeforeHost
<1>5. c \in SafeCalls
  BY <1>3 DEF SafeCalls, Using, Harmless
<1> QED
  BY <1>1, <1>2, <1>3, <1>4, <1>5, GotoMove, ThreadFacts

LEMMA StepTestGeneration ==
  ASSUME ShutdownInv, TestGeneration PROVE ShutdownInv'
<1>1. PICK to \in {"submit.call", "submit.leave"} :
        /\ At(Frame, "submit.test") /\ Goto(Frame, to)
        /\ LifeKept /\ UNCHANGED <<runFrames, inFlight, slot>>
  BY DEF TestGeneration, LifeKept, providerVars, hookVars
<1>2. /\ to \in Labels /\ SameKind(to, "submit.test") /\ "submit.test" \notin LifeLabels
      /\ (to \in Uncounted <=> "submit.test" \in Uncounted) /\ to # "run.count"
  BY DEF Labels, SameKind, Uncounted
<1>3. PICK e \in CallType, c \in CallType :
           /\ e.at = "submit.test" /\ CallOK(e) /\ e \in SafeCalls /\ TopBecomes(Frame, c)
           /\ c.at = to /\ c.dev = e.dev /\ c.sent = e.sent /\ c.late = e.late
  BY <1>1, <1>2, Relabelled, ThreadFacts
<1>4. CallOK(c)
  BY <1>3 DEF CallOK, BeforeHost
<1>5. c \in SafeCalls
  BY <1>3 DEF SafeCalls, Using, Harmless
<1> QED
  BY <1>1, <1>2, <1>3, <1>4, <1>5, GotoMove, ThreadFacts

LEMMA StepSubmitToHost ==
  ASSUME ShutdownInv, SubmitToHost PROVE ShutdownInv'
<1>1. PICK e : e = stack[Frame][1]
  OBVIOUS
<1>2. PICK c : c = WithSent(e, "host.synthetic", 1)
  OBVIOUS
<1>3. /\ At(Frame, "submit.call") /\ stack' = [stack EXCEPT ![Frame][1] = c]
      /\ LifeKept /\ UNCHANGED <<runFrames, inFlight, slot>>
  BY <1>1, <1>2 DEF SubmitToHost, WithSent, LifeKept, providerVars, hookVars
<1>4. stack[Frame] # <<>> /\ e.at = "submit.call" /\ CallOK(e) /\ e \in SafeCalls /\ e \in CallType
  BY <1>1, <1>3, AtFacts, ThreadFacts
<1>5. c \in CallType /\ c.at = "host.synthetic" /\ c.dev = e.dev /\ c.sent = 1 /\ c.late = e.late
  <2>1. "host.synthetic" \in Labels /\ 1 \in 0 .. 2
    BY DEF Labels
  <2>2. Becomes(c, e, "host.synthetic", e.dev, e.todo, 1, e.lost)
    BY <1>2, <1>4, <2>1, EditSent
  <2> QED
    BY <2>2 DEF Becomes
<1>6. TopBecomes(Frame, c)
  BY <1>3, <1>4, <1>5, Edited, ThreadFacts
<1>7. CallOK(c)
  BY <1>4, <1>5 DEF CallOK, BeforeHost
<1>8. c \in SafeCalls
  BY <1>4, <1>5 DEF SafeCalls, Using, Harmless
<1>9. /\ SameKind("host.synthetic", "submit.call") /\ "submit.call" \notin LifeLabels
      /\ ("host.synthetic" \in Uncounted <=> "submit.call" \in Uncounted)
  BY DEF SameKind, Uncounted
<1> QED
  BY <1>3, <1>5, <1>6, <1>7, <1>8, <1>9, GotoMove, ThreadFacts

LEMMA StepSubmitReturns ==
  ASSUME ShutdownInv, SubmitReturns PROVE ShutdownInv'
<1>1. /\ At(Frame, "host.synthetic")
      /\ LifeKept /\ UNCHANGED <<runFrames, inFlight, slot>>
  BY DEF SubmitReturns, LifeKept, providerVars, hookVars
<1>2. PICK e : e = stack[Frame][1]
  OBVIOUS
<1>3. /\ stack[Frame] # <<>> /\ e.at = "host.synthetic" /\ CallOK(e) /\ e \in SafeCalls
      /\ e \in CallType /\ e.sent <= 1
  BY <1>1, <1>2, AtFacts, ThreadFacts DEF CallOK
<1>4. "submit.leave" \in Labels /\ 0 \in 0 .. 2
  BY DEF Labels
<1>5. PICK c : /\ TopBecomes(Frame, c) /\ c \in CallType /\ c.at = "submit.leave"
               /\ c.dev = e.dev /\ c.sent <= 1
  <2>1. CASE Goto(Frame, "submit.leave")
    <3>1. PICK c : c = [e EXCEPT !.at = "submit.leave"]
      OBVIOUS
    <3>2. c \in CallType /\ c.at = "submit.leave" /\ c.dev = e.dev /\ c.sent <= 1
      BY <1>3, <1>4, <3>1, RelabelFields
    <3>3. TopBecomes(Frame, c)
      BY <1>2, <1>3, <1>4, <2>1, <3>1, GotoEffect, StackInvType, ThreadFacts DEF ShutdownInv
    <3> QED
      BY <3>2, <3>3
  <2>2. CASE stack' = [stack EXCEPT ![Frame][1] = [@ EXCEPT !.at = "submit.leave", !.sent = 0]]
    <3>1. PICK c : c = WithSent(e, "submit.leave", 0)
      OBVIOUS
    <3>2. Becomes(c, e, "submit.leave", e.dev, e.todo, 0, e.lost)
      BY <1>3, <1>4, <3>1, EditSent
    <3>3. c \in CallType /\ c.at = "submit.leave" /\ c.dev = e.dev /\ c.sent <= 1
      BY <3>2 DEF Becomes
    <3>4. TopBecomes(Frame, c)
      <4>1. stack' = [stack EXCEPT ![Frame][1] = c]
        BY <1>2, <2>2, <3>1 DEF WithSent
      <4> QED
        BY <1>3, <3>3, <4>1, Edited, ThreadFacts
    <3> QED
      BY <3>3, <3>4
  <2> QED
    BY <2>1, <2>2 DEF SubmitReturns
<1>6. CallOK(c)
  BY <1>3, <1>5 DEF CallOK, BeforeHost
<1>7. c \in SafeCalls
  BY <1>3, <1>5 DEF SafeCalls, Using, Harmless
<1>8. /\ SameKind("submit.leave", "host.synthetic") /\ "host.synthetic" \notin LifeLabels
      /\ ("submit.leave" \in Uncounted <=> "host.synthetic" \in Uncounted)
  BY DEF SameKind, Uncounted
<1> QED
  BY <1>1, <1>5, <1>6, <1>7, <1>8, GotoMove, ThreadFacts

LEMMA StepLeaveSubmit ==
  ASSUME ShutdownInv, LeaveSubmit PROVE ShutdownInv'
<1>1. /\ At(Frame, "submit.leave") /\ inFlight' = inFlight - 1
      /\ LifeKept /\ UNCHANGED <<runFrames, slot>>
  BY DEF LeaveSubmit, LifeKept, providerVars, hookVars
<1>2. PICK e : e = stack[Frame][1]
  OBVIOUS
<1>3. /\ stack[Frame] # <<>> /\ e.at = "submit.leave" /\ CallOK(e) /\ e \in SafeCalls
      /\ e \in CallType /\ e.dev \in Devices /\ Top(Frame) = e
  BY <1>1, <1>2, AtFacts, ThreadFacts DEF CallOK
<1>4. PICK to, d : /\ (to = "run.commit" /\ d \in Devices) \/ (to = "run.next" /\ d = NoDevice)
                   /\ stack' = [stack EXCEPT ![Frame][1] = Left(e, to, d, 0, FALSE)]
  <2>1. PICK to : to = IF e.sent = 1 /\ e.lost THEN "run.commit" ELSE "run.next"
    OBVIOUS
  <2>2. PICK d : d = IF e.sent = 1 /\ e.lost THEN e.dev ELSE NoDevice
    OBVIOUS
  <2>3. (to = "run.commit" /\ d \in Devices) \/ (to = "run.next" /\ d = NoDevice)
    BY <1>3, <2>1, <2>2
  <2>4. stack' = [stack EXCEPT ![Frame][1] = Left(e, to, d, 0, FALSE)]
    BY <1>2, <1>3, <2>1, <2>2 DEF LeaveSubmit, Left
  <2> QED
    BY <2>3, <2>4
<1>5. PICK f \in BOOLEAN : f = FALSE
  OBVIOUS
<1>6. PICK c : c = Left(e, to, d, 0, f)
  OBVIOUS
<1>7. c \in CallType /\ c.at = to /\ c.dev = d /\ c.sent = 0
  <2>1. to \in Labels /\ d \in Devices \cup {NoDevice} /\ 0 \in 0 .. 2 /\ f \in BOOLEAN
    BY <1>4, <1>5 DEF Labels
  <2>2. Becomes(c, e, to, d, e.todo, 0, f)
    BY <1>3, <1>6, <2>1, EditLeft
  <2> QED
    BY <2>2 DEF Becomes
<1>8. TopBecomes(Frame, c)
  <2>1. stack' = [stack EXCEPT ![Frame][1] = c]
    BY <1>4, <1>5, <1>6
  <2> QED
    BY <1>3, <1>7, <2>1, Edited, ThreadFacts
<1>9. to \in FrameLabels /\ to # "run.count" /\ to \in Uncounted /\ "submit.leave" \notin Uncounted
      /\ "submit.leave" \in FrameLabels
  BY <1>4 DEF Uncounted
<1>10. CallOK(c)
  BY <1>4, <1>7 DEF CallOK, BeforeHost
<1>11. c \in SafeCalls
  <2>1. ~FramesGone /\ LifeAt # "clean.free"
    BY <1>3 DEF SafeCalls, Harmless
  <2> QED
    BY <1>4, <1>7, <2>1 DEF SafeCalls, Using
<1>12. CountInv'
  BY <1>1, <1>2, <1>3, <1>7, <1>8, <1>9, CountMoves, ThreadFacts
<1>13. runFrames' = RunCounted'
  BY <1>1, <1>7, <1>8, <1>9, FrameCounted
<1> QED
  BY <1>1, <1>7, <1>8, <1>9, <1>10, <1>11, <1>12, <1>13, SlotsKept, FrameMove

LEMMA StepCommit ==
  ASSUME ShutdownInv, Commit PROVE ShutdownInv'
<1>1. PICK e : e = stack[Frame][1]
  OBVIOUS
<1>2. PICK c : c = WithDev(e, "run.next", NoDevice)
  OBVIOUS
<1>3. /\ At(Frame, "run.commit") /\ stack' = [stack EXCEPT ![Frame][1] = c]
      /\ LifeKept /\ UNCHANGED <<runFrames, inFlight>>
      /\ slot' = [slot EXCEPT ![Top(Frame).dev].armed = @ /\ ~CommitLost(Top(Frame).dev)]
  BY <1>1, <1>2 DEF Commit, WithDev, LifeKept, providerVars, hookVars
<1>4. /\ stack[Frame] # <<>> /\ e.at = "run.commit" /\ CallOK(e) /\ e \in SafeCalls
      /\ e \in CallType /\ e.dev \in Devices /\ Top(Frame) = e /\ e.sent <= 1
  BY <1>1, <1>3, AtFacts, ThreadFacts DEF CallOK
<1>5. c \in CallType /\ c.at = "run.next" /\ c.dev = NoDevice /\ c.sent = e.sent
  <2>1. "run.next" \in Labels /\ NoDevice \in Devices \cup {NoDevice}
    BY DEF Labels
  <2>2. Becomes(c, e, "run.next", NoDevice, e.todo, e.sent, e.lost)
    BY <1>2, <1>4, <2>1, EditDev
  <2> QED
    BY <2>2 DEF Becomes
<1>6. TopBecomes(Frame, c)
  BY <1>3, <1>4, <1>5, Edited, ThreadFacts
<1>7. CallOK(c)
  BY <1>4, <1>5 DEF CallOK, BeforeHost
<1>8. c \in SafeCalls
  <2>1. ~FramesGone /\ LifeAt # "clean.free"
    BY <1>4 DEF SafeCalls, Harmless
  <2> QED
    BY <1>5, <2>1 DEF SafeCalls, Using
<1>9. /\ "run.commit" \in FrameLabels /\ "run.next" \in FrameLabels
      /\ "run.commit" \in Uncounted /\ "run.next" \in Uncounted
  BY DEF Uncounted
<1>10. CountInv'
  BY <1>1, <1>3, <1>4, <1>5, <1>6, <1>9, CountMoves, ThreadFacts
<1>11. runFrames' = RunCounted'
  BY <1>3, <1>5, <1>6, <1>9, FrameCounted
<1>12. SlotsDisarm
  <2>1. slot \in [Devices -> SlotType]
    BY DEF ShutdownInv, ArmedInv, SlotType
  <2> QED
    BY <1>3, <1>4, <2>1 DEF SlotsDisarm, SlotType, CommitLost
<1> QED
  BY <1>3, <1>5, <1>6, <1>7, <1>8, <1>9, <1>10, <1>11, <1>12, FrameMove

LEMMA StepEndFrame ==
  ASSUME ShutdownInv, EndFrame PROVE ShutdownInv'
<1>1. /\ At(Frame, "run.end") /\ runFrames' = runFrames - 1 /\ End(Frame)
      /\ slot' = [d \in Devices |-> [slot[d] EXCEPT !.captured = FALSE]]
      /\ LifeKept /\ inFlight' = inFlight
  BY DEF EndFrame, LifeKept, providerVars, hookVars
<1>2. /\ stack[Frame] # <<>> /\ stack[Frame][1].at = "run.end" /\ Len(stack[Frame]) = 1
      /\ runFrames = 1 /\ StackType /\ StackInv /\ Frame \in Threads /\ Frame # Life
  <2>1. "run.end" \in FrameLabels
    OBVIOUS
  <2> QED
    BY <1>1, <2>1, FrameCounted, ThreadFacts DEF ShutdownInv
<1>3. Popped(Frame)
  BY <1>1, <1>2, EndEffect
<1>4. StackInv'
  BY <1>2, <1>3, StackPopped
<1>5. LifeAt' = LifeAt
  BY <1>2, <1>3, LifeAtElsewhere
<1>6. CallsInv'
  BY <1>1, <1>2, <1>3, <1>5, CallsPopped DEF ShutdownInv, LifeKept
<1>7. stack'[Frame] = <<>>
  <2>1. stack'[Frame] \in Seq(CallType) /\ Len(stack'[Frame]) = 0
    BY <1>2, <1>3 DEF Popped
  <2> QED
    BY <2>1, SeqFacts
<1>8. LifeInv' /\ HooksInv'
  <2>1. LifeInv /\ HooksInv /\ runFrames' = RunCounted'
    BY <1>1, <1>2, <1>7 DEF ShutdownInv, RunCounted
  <2> QED
    BY <1>1, <1>5, <2>1, LifeInvKept
<1>9. CountInv'
  <2>1. Counted(Frame) = 0
    BY <1>2 DEF Counted, Uncounted
  <2>2. Counted(Frame)' = Len(stack[Frame]) - 1
        /\ \A u \in Threads : u # Frame => Counted(u)' = Counted(u)
    BY <1>2, <1>3, PopCounted
  <2>3. \A u \in Threads : Counted(u)' = Counted(u)
    BY <1>2, <2>1, <2>2
  <2> QED
    BY <1>1, <2>3, CountSame DEF ShutdownInv
<1>10. ArmedInv'
  <2>1. slot \in [Devices -> SlotType]
    BY DEF ShutdownInv, ArmedInv, SlotType
  <2>2. SlotsDisarm
    BY <1>1, <2>1 DEF SlotsDisarm, SlotType
  <2> QED
    BY <1>1, <1>5, <2>2, ArmedShrinks DEF ShutdownInv
<1> QED
  BY <1>4, <1>6, <1>8, <1>9, <1>10 DEF ShutdownInv

-------------------------------------------------------------------------------
(* The steps of Init and Cleanup.                                              *)

\* A call of Init or Cleanup uses nothing that a removal takes away.
LEMMA LifeCallsSafe ==
  ASSUME NEW c \in CallType, c.at \in LifeLabels
  PROVE  c \in SafeCalls'
<1>1. c.at \in Harmless /\ c.at \notin Using \cup SubmitLabels \cup {"run.next", "run.commit"}
      /\ c.at \notin {"get.observe", "pose.count", "pose.check", "pose.load"}
  BY DEF Harmless, Using
<1> QED
  BY <1>1 DEF SafeCalls

LEMMA LikeSafeNext ==
  ASSUME NEW c, NEW e, Like(c, e), e \in SafeCalls'
  PROVE  c \in SafeCalls'
<1>1. c.at = e.at /\ (e.late => c.late) /\ c \in CallType
  BY DEF Like
<1> QED
  BY <1>1 DEF SafeCalls

\* What a step of Init or Cleanup that goes on does to the stacks and the counts.
LEMMA LifeMoves ==
  ASSUME ShutdownInv, NEW from \in LifeLabels, At(Life, from), NEW c, TopBecomes(Life, c),
         c.at \in LifeLabels, CallOK(c), UNCHANGED <<runFrames, inFlight>>
  PROVE  /\ StackInv' /\ CountInv' /\ runFrames' = RunCounted'
         /\ LifeAt = from /\ LifeAt' = c.at
<1>1. stack[Life] # <<>> /\ stack[Life][1].at = from /\ StackType /\ StackInv
  BY AtFacts, ThreadFacts, StackInvType DEF ShutdownInv
<1>2. SameKind(c.at, from)
  <2>1. \A label \in LifeLabels : label \notin CallbackLabels /\ label \notin FrameLabels
    OBVIOUS
  <2> QED
    BY <2>1 DEF SameKind
<1>3. StackInv'
  BY <1>1, <1>2, StackReplaced, ThreadFacts
<1>4. CountInv'
  <2>1. c.at \in Uncounted /\ from \in Uncounted
    BY DEF Uncounted
  <2> QED
    BY <1>1, <2>1, CountMoves, ThreadFacts
<1>5. RunCounted' = RunCounted
  BY <1>1, RunKept, ThreadFacts
<1>6. runFrames' = RunCounted'
  BY <1>5 DEF ShutdownInv, LifeInv
<1> QED
  BY <1>1, <1>3, <1>4, <1>6, LifeAtMoves DEF LifeAt

\* The same for its first step and for its last.
LEMMA LifeBegins ==
  ASSUME ShutdownInv, stack[Life] = <<>>, NEW c, Pushed(Life, c), c.at \in LifeLabels,
         CallOK(c), UNCHANGED <<runFrames, inFlight>>
  PROVE  /\ StackInv' /\ CountInv' /\ runFrames' = RunCounted'
         /\ LifeAt = "none" /\ LifeAt' = c.at
<1>1. StackType /\ StackInv /\ Life \in Threads /\ Life # Frame
  BY ThreadFacts, StackInvType DEF ShutdownInv
<1>2. StackInv'
  BY <1>1, StackPushed DEF MayStart
<1>3. CountInv'
  <2>1. c.at \in Uncounted
    BY DEF Uncounted
  <2>2. Counted(Life) = 0 /\ Len(stack[Life]) = 0
    BY <1>1, StackFacts DEF Counted
  <2>3. Counted(Life)' = 0 /\ \A u \in Threads : u # Life => Counted(u)' = Counted(u)
    BY <1>1, <2>1, <2>2, PushCounted
  <2>4. \A u \in Threads : Counted(u)' = Counted(u)
    BY <2>2, <2>3
  <2> QED
    BY <2>4, CountSame DEF ShutdownInv
<1>4. RunCounted' = RunCounted
  BY <1>1, RunBegins
<1>5. runFrames' = RunCounted'
  BY <1>4 DEF ShutdownInv, LifeInv
<1> QED
  BY <1>1, <1>2, <1>3, <1>5, LifeAtBegins DEF LifeAt

LEMMA LifeEnds ==
  ASSUME ShutdownInv, NEW from \in LifeLabels, At(Life, from), End(Life),
         UNCHANGED <<runFrames, inFlight>>
  PROVE  /\ StackInv' /\ CountInv' /\ runFrames' = RunCounted' /\ Popped(Life)
         /\ LifeAt = from /\ LifeAt' = "none"
<1>1. stack[Life] # <<>> /\ stack[Life][1].at = from /\ StackType /\ StackInv
      /\ Life \in Threads /\ Life # Frame
  BY AtFacts, ThreadFacts, StackInvType DEF ShutdownInv
<1>2. Popped(Life)
  BY <1>1, EndEffect
<1>3. StackInv'
  BY <1>1, <1>2, StackPopped
<1>4. CountInv'
  <2>1. Counted(Life) = Len(stack[Life]) - 1
    BY <1>1 DEF Counted, Uncounted
  <2>2. Counted(Life)' = Len(stack[Life]) - 1
        /\ \A u \in Threads : u # Life => Counted(u)' = Counted(u)
    BY <1>1, <1>2, PopCounted
  <2>3. \A u \in Threads : Counted(u)' = Counted(u)
    BY <2>1, <2>2
  <2> QED
    BY <2>3, CountSame DEF ShutdownInv
<1>5. RunCounted' = RunCounted
  BY <1>1, <1>2, RunReturns
<1>6. runFrames' = RunCounted'
  BY <1>5 DEF ShutdownInv, LifeInv
<1> QED
  BY <1>1, <1>2, <1>3, <1>4, <1>6, LifeAtEnds DEF LifeAt

\* No call loses what it relies on.
LEMMA CallsFollow ==
  ASSUME ShutdownInv, NEW c, TopBecomes(Life, c), c \in SafeCalls',
         \A u \in Threads : \A i \in 1 .. Len(stack[u]) :
           u # Life => stack[u][i] \in SafeCalls'
  PROVE  CallsInv'
<1>1. ASSUME NEW u \in Threads, NEW i \in 1 .. Len(stack'[u]) PROVE stack'[u][i] \in SafeCalls'
  <2>1. i \in 1 .. Len(stack[u])
    BY DEF TopBecomes
  <2>2. CASE u = Life
    <3>1. Len(stack[Life]) \in Nat /\ Len(stack[Life]) <= 1
      BY StackInvType, StackFacts, ThreadFacts DEF ShutdownInv, StackInv
    <3>2. i = 1
      BY <2>1, <2>2, <3>1
    <3> QED
      BY <2>2, <3>2 DEF TopBecomes
  <2>3. CASE u # Life
    <3>1. Like(stack'[u][i], stack[u][i])
      BY <2>1, <2>3 DEF TopBecomes
    <3>2. stack[u][i] \in SafeCalls'
      BY <2>1, <2>3
    <3> QED
      BY <3>1, <3>2, LikeSafeNext
  <2> QED
    BY <2>2, <2>3
<1> QED
  BY <1>1 DEF CallsInv

LEMMA CallsAllFollow ==
  ASSUME ShutdownInv, SafeCalls \subseteq SafeCalls',
         \/ \E c : TopBecomes(Life, c) /\ c \in SafeCalls'
         \/ stack[Life] = <<>> /\ \E c : Pushed(Life, c) /\ c \in SafeCalls'
         \/ Popped(Life)
  PROVE  CallsInv'
<1>0. \A u \in Threads : \A i \in 1 .. Len(stack[u]) : stack[u][i] \in SafeCalls'
  BY DEF ShutdownInv, CallsInv
<1>1. CASE \E c : TopBecomes(Life, c) /\ c \in SafeCalls'
  BY <1>0, <1>1, CallsFollow
<1>2. Life \in Threads /\ Len(stack[Life]) \in Nat /\ Len(stack[Life]) <= 1
      /\ (stack[Life] = <<>> => Len(stack[Life]) = 0)
  BY StackInvType, StackFacts, ThreadFacts DEF ShutdownInv, StackInv
<1>3. ASSUME stack[Life] = <<>>, NEW c, Pushed(Life, c), c \in SafeCalls' PROVE CallsInv'
  <2>1. Len(stack'[Life]) = 1 /\ stack'[Life][1] = c
        /\ \A u \in Threads : u # Life => stack'[u] = stack[u]
    BY <1>2, <1>3 DEF Pushed
  <2> QED
    BY <1>0, <1>3, <2>1 DEF CallsInv
<1>4. CASE Popped(Life)
  <2>1. \A i \in 1 .. Len(stack'[Life]) : FALSE
    BY <1>2, <1>4 DEF Popped
  <2>2. \A u \in Threads : u # Life => stack'[u] = stack[u]
    BY <1>4 DEF Popped
  <2> QED
    BY <1>0, <2>1, <2>2 DEF CallsInv
<1> QED
  BY <1>1, <1>3, <1>4

\* A call of Init or Cleanup moves on to a label.
LEMMA LifeGoto ==
  ASSUME ShutdownInv, NEW from \in LifeLabels, NEW to \in LifeLabels, At(Life, from),
         Goto(Life, to), UNCHANGED <<runFrames, inFlight>>
  PROVE  /\ StackInv' /\ CountInv' /\ runFrames' = RunCounted' /\ LifeAt = from /\ LifeAt' = to
         /\ \E c : TopBecomes(Life, c) /\ c \in SafeCalls'
<1>1. to \in Labels
  BY DEF Labels
<1>2. PICK e \in CallType, c \in CallType :
           /\ e.at = from /\ CallOK(e) /\ e \in SafeCalls /\ TopBecomes(Life, c)
           /\ c.at = to /\ c.dev = e.dev /\ c.sent = e.sent /\ c.late = e.late
  BY <1>1, Relabelled, ThreadFacts
<1>3. CallOK(c)
  <2>1. \A label \in LifeLabels :
          /\ label \notin PoseLabels \cup SubmitLabels \cup {"run.commit"} \cup GetLabels
          /\ label \notin BeforeHost \cup {"host.pose", "host.bypass", "leave"}
    BY DEF BeforeHost
  <2>2. c.sent <= 1
    BY <1>2 DEF CallOK
  <2> QED
    BY <1>2, <2>1, <2>2, Zenon DEF CallOK
<1> QED
  BY <1>2, <1>3, LifeMoves, LifeCallsSafe

LEMMA StepInstall ==
  ASSUME ShutdownInv, Install PROVE ShutdownInv'
<1>1. /\ At(Life, "init.install") /\ mutex = NoThread
      /\ UNCHANGED <<active, ready, runFrames, slot, inFlight>>
  BY DEF Install, providerVars
<1>2. hooks \in HooksType /\ "init.install" \in LifeLabels
  BY DEF ShutdownInv, HooksInv
<1>3. PICK to \in {"init.poseHook", "init.activate"} :
        /\ Goto(Life, to) /\ hooks' \in HooksType
        /\ hooks'.pose = hooks.pose /\ hooks'.context = hooks.context
        /\ ~hooks'.shuttingDown /\ ~hooks'.detourShutdown
        /\ \/ to = "init.poseHook" /\ hooks'.installed /\ mutex' = Life
           \/ /\ to = "init.activate" /\ mutex' = mutex
              /\ hooks'.installed = hooks.installed /\ hooks'.instance = hooks.instance
  BY <1>2 DEF Install, HooksType
<1>4. to \in LifeLabels
  OBVIOUS
<1>5. /\ StackInv' /\ CountInv' /\ runFrames' = RunCounted'
      /\ LifeAt = "init.install" /\ LifeAt' = to
      /\ \E c : TopBecomes(Life, c) /\ c \in SafeCalls'
  BY <1>1, <1>2, <1>3, <1>4, LifeGoto
<1>6. ~hooks.installed /\ hooks.pose = "none" /\ hooks.context = "none" /\ ~hooks.instance
  BY <1>5 DEF ShutdownInv, LifeInv, HooksInv
<1>7. ready /\ ~active
  BY <1>5 DEF ShutdownInv, LifeInv
<1>8. CallsInv'
  <2>1. SafeCalls \subseteq SafeCalls'
    BY <1>1, <1>3, <1>5, <1>6, <1>7 DEF SafeCalls, FramesGone
  <2> QED
    BY <1>5, <2>1, CallsAllFollow
<1>9. LifeInv'
  BY <1>1, <1>3, <1>5, <1>6, <1>7 DEF LifeInv
<1>10. HooksInv'
  BY <1>3, <1>6 DEF HooksInv, NoHookLeftBehind
<1>11. ArmedInv'
  BY <1>1, <1>3, <1>5, <1>6 DEF ShutdownInv, ArmedInv
<1> QED
  BY <1>5, <1>8, <1>9, <1>10, <1>11 DEF ShutdownInv

LEMMA StepInstallPoseHook ==
  ASSUME ShutdownInv, InstallPoseHook PROVE ShutdownInv'
<1>1. /\ At(Life, "init.poseHook") /\ Goto(Life, "init.contextHook")
      /\ UNCHANGED <<active, ready, runFrames, slot, inFlight, mutex>>
  BY DEF InstallPoseHook, providerVars
<1>2. hooks \in HooksType /\ "init.poseHook" \in LifeLabels /\ "init.contextHook" \in LifeLabels
  BY DEF ShutdownInv, HooksInv
<1>3. /\ hooks' \in HooksType /\ hooks'.pose \in {"none", "on"}
      /\ hooks'.context = hooks.context /\ hooks'.installed = hooks.installed
      /\ hooks'.instance = hooks.instance /\ hooks'.shuttingDown = hooks.shuttingDown
      /\ hooks'.detourShutdown = hooks.detourShutdown
  BY <1>2 DEF InstallPoseHook, HooksType, HookStates
<1>5. /\ StackInv' /\ CountInv' /\ runFrames' = RunCounted'
      /\ LifeAt = "init.poseHook" /\ LifeAt' = "init.contextHook"
      /\ \E c : TopBecomes(Life, c) /\ c \in SafeCalls'
  BY <1>1, <1>2, LifeGoto
<1>6. /\ ready /\ ~active /\ hooks.pose = "none" /\ mutex = Life
      /\ hooks.installed /\ ~hooks.detourShutdown /\ ~hooks.shuttingDown
  BY <1>5 DEF ShutdownInv, LifeInv
<1>8. CallsInv'
  <2>1. SafeCalls \subseteq SafeCalls'
    BY <1>1, <1>3, <1>5, <1>6 DEF SafeCalls, FramesGone
  <2> QED
    BY <1>5, <2>1, CallsAllFollow
<1>9. LifeInv'
  BY <1>1, <1>3, <1>5, <1>6 DEF LifeInv
<1>10. HooksInv'
  BY <1>3, <1>6 DEF HooksInv, NoHookLeftBehind
<1>11. ArmedInv'
  BY <1>1, <1>3, <1>5, <1>6 DEF ShutdownInv, ArmedInv
<1> QED
  BY <1>5, <1>8, <1>9, <1>10, <1>11 DEF ShutdownInv

LEMMA StepInstallContextHook ==
  ASSUME ShutdownInv, InstallContextHook PROVE ShutdownInv'
<1>1. /\ At(Life, "init.contextHook") /\ Goto(Life, "init.activate") /\ mutex' = NoThread
      /\ UNCHANGED <<active, ready, runFrames, slot, inFlight>>
  BY DEF InstallContextHook, providerVars
<1>2. hooks \in HooksType /\ "init.contextHook" \in LifeLabels /\ "init.activate" \in LifeLabels
  BY DEF ShutdownInv, HooksInv
<1>3. /\ hooks' \in HooksType /\ hooks'.pose = hooks.pose
      /\ hooks'.installed = hooks.installed
      /\ hooks'.instance = hooks.instance /\ hooks'.shuttingDown = hooks.shuttingDown
      /\ hooks'.detourShutdown = hooks.detourShutdown
  BY <1>2 DEF InstallContextHook, HooksType, HookStates
<1>5. /\ StackInv' /\ CountInv' /\ runFrames' = RunCounted'
      /\ LifeAt = "init.contextHook" /\ LifeAt' = "init.activate"
      /\ \E c : TopBecomes(Life, c) /\ c \in SafeCalls'
  BY <1>1, <1>2, LifeGoto
<1>6. /\ ready /\ ~active
      /\ hooks.installed /\ ~hooks.detourShutdown /\ ~hooks.shuttingDown
  BY <1>5 DEF ShutdownInv, LifeInv
<1>8. CallsInv'
  <2>1. SafeCalls \subseteq SafeCalls'
    BY <1>1, <1>3, <1>5, <1>6 DEF SafeCalls, FramesGone
  <2> QED
    BY <1>5, <2>1, CallsAllFollow
<1>9. LifeInv'
  BY <1>1, <1>3, <1>5, <1>6 DEF LifeInv
<1>10. HooksInv'
  BY <1>3, <1>6 DEF HooksInv, NoHookLeftBehind
<1>11. ArmedInv'
  BY <1>1, <1>3, <1>5, <1>6 DEF ShutdownInv, ArmedInv
<1> QED
  BY <1>5, <1>8, <1>9, <1>10, <1>11 DEF ShutdownInv

LEMMA StepActivate ==
  ASSUME ShutdownInv, Activate PROVE ShutdownInv'
<1>1. /\ At(Life, "init.activate") /\ End(Life) /\ active' = TRUE
      /\ UNCHANGED <<ready, runFrames, slot, hooks, mutex, inFlight>>
  BY DEF Activate, hookVars
<1>2. "init.activate" \in LifeLabels
  OBVIOUS
<1>3. /\ StackInv' /\ CountInv' /\ runFrames' = RunCounted' /\ Popped(Life)
      /\ LifeAt = "init.activate" /\ LifeAt' = "none"
  BY <1>1, <1>2, LifeEnds
<1>4. ready /\ ~active /\ mutex = NoThread
  BY <1>3 DEF ShutdownInv, LifeInv
<1>5. CallsInv'
  <2>1. SafeCalls \subseteq SafeCalls'
    BY <1>1, <1>3 DEF SafeCalls, FramesGone
  <2> QED
    BY <1>3, <2>1, CallsAllFollow
<1>6. LifeInv'
  BY <1>1, <1>3, <1>4 DEF LifeInv
<1>7. HooksInv'
  BY <1>1 DEF ShutdownInv, HooksInv, NoHookLeftBehind
<1>8. ArmedInv'
  BY <1>1, <1>3, <1>4 DEF ShutdownInv, ArmedInv
<1> QED
  BY <1>3, <1>5, <1>6, <1>7, <1>8 DEF ShutdownInv

LEMMA StepStartInit ==
  ASSUME ShutdownInv, StartInit PROVE ShutdownInv'
<1>1. PICK c : c = Call("init.install", NoDevice, FALSE, FALSE)
  BY DEF Call
<1>2. /\ stack[Life] = <<>> /\ ~ready /\ ready' = TRUE /\ Begin(Life, c)
      /\ slot' = [d \in Devices |-> EmptySlot]
      /\ UNCHANGED <<active, runFrames, hooks, mutex, inFlight>>
  BY <1>1 DEF StartInit, MayBegin, hookVars
<1>3. c \in CallType /\ c.at = "init.install" /\ c.sent = 0
  <2>1. "init.install" \in Labels /\ NoDevice \in Devices \cup {NoDevice} /\ FALSE \in BOOLEAN
    BY DEF Labels
  <2> QED
    BY <1>1, <2>1 DEF Call, CallType
<1>4. CallOK(c)
  BY <1>3 DEF CallOK, BeforeHost
<1>5. Pushed(Life, c)
  BY <1>2, <1>3, BeginEffect, StackInvType, ThreadFacts DEF ShutdownInv
<1>6. c.at \in LifeLabels
  BY <1>3
<1>7. /\ StackInv' /\ CountInv' /\ runFrames' = RunCounted'
      /\ LifeAt = "none" /\ LifeAt' = "init.install"
  BY <1>2, <1>3, <1>4, <1>5, <1>6, LifeBegins
<1>8. ~active /\ ~hooks.installed /\ mutex = NoThread
  BY <1>2, <1>7 DEF ShutdownInv, LifeInv
<1>9. CallsInv'
  <2>1. SafeCalls \subseteq SafeCalls'
    BY <1>2, <1>7, <1>8 DEF SafeCalls, FramesGone
  <2>2. c \in SafeCalls'
    BY <1>3, <1>6, LifeCallsSafe
  <2> QED
    BY <1>2, <1>5, <2>1, <2>2, CallsAllFollow
<1>10. LifeInv'
  BY <1>2, <1>7, <1>8 DEF LifeInv
<1>11. HooksInv'
  BY <1>2 DEF ShutdownInv, HooksInv, NoHookLeftBehind
<1>12. ArmedInv'
  BY <1>2 DEF ArmedInv, EmptySlot, Filters
<1> QED
  BY <1>7, <1>9, <1>10, <1>11, <1>12 DEF ShutdownInv

LEMMA StepStartCleanup ==
  ASSUME ShutdownInv, StartCleanup PROVE ShutdownInv'
<1>1. PICK c : c = Call("clean.drainFrames", NoDevice, FALSE, FALSE)
  BY DEF Call
<1>2. /\ stack[Life] = <<>> /\ ready /\ ready' = FALSE /\ active' = FALSE /\ Begin(Life, c)
      /\ UNCHANGED <<runFrames, slot, hooks, mutex, inFlight>>
  BY <1>1 DEF StartCleanup, MayBegin, hookVars
<1>3. c \in CallType /\ c.at = "clean.drainFrames" /\ c.sent = 0
  <2>1. "clean.drainFrames" \in Labels /\ NoDevice \in Devices \cup {NoDevice}
        /\ FALSE \in BOOLEAN
    BY DEF Labels
  <2> QED
    BY <1>1, <2>1 DEF Call, CallType
<1>4. CallOK(c)
  BY <1>3 DEF CallOK, BeforeHost
<1>5. Pushed(Life, c)
  BY <1>2, <1>3, BeginEffect, StackInvType, ThreadFacts DEF ShutdownInv
<1>6. c.at \in LifeLabels
  BY <1>3
<1>7. /\ StackInv' /\ CountInv' /\ runFrames' = RunCounted'
      /\ LifeAt = "none" /\ LifeAt' = "clean.drainFrames"
  BY <1>2, <1>3, <1>4, <1>5, <1>6, LifeBegins
<1>8. mutex = NoThread
  BY <1>7 DEF ShutdownInv, LifeInv
<1>9. CallsInv'
  <2>1. SafeCalls \subseteq SafeCalls'
    BY <1>2, <1>7 DEF SafeCalls, FramesGone
  <2>2. c \in SafeCalls'
    BY <1>3, <1>6, LifeCallsSafe
  <2> QED
    BY <1>2, <1>5, <2>1, <2>2, CallsAllFollow
<1>10. LifeInv'
  BY <1>2, <1>7, <1>8 DEF LifeInv
<1>11. HooksInv'
  BY <1>2 DEF ShutdownInv, HooksInv, NoHookLeftBehind
<1>12. ArmedInv'
  BY <1>2, <1>7 DEF ShutdownInv, ArmedInv
<1> QED
  BY <1>7, <1>9, <1>10, <1>11, <1>12 DEF ShutdownInv

\* The rundown count is zero: no RunFrame is past its second look at active_, so that none is
\* ticking filters or submitting a prediction.
LEMMA StepFramesDrained ==
  ASSUME ShutdownInv, FramesDrained PROVE ShutdownInv'
<1>1. PICK to : to = IF hooks.installed THEN "clean.close" ELSE "clean.filters"
  OBVIOUS
<1>2. /\ At(Life, "clean.drainFrames") /\ Goto(Life, to) /\ runFrames = 0
      /\ UNCHANGED <<active, ready, runFrames, slot, hooks, mutex, inFlight>>
  BY <1>1 DEF FramesDrained, providerVars, hookVars
<1>3. "clean.drainFrames" \in LifeLabels /\ to \in LifeLabels
  BY <1>1
<1>4. /\ StackInv' /\ CountInv' /\ runFrames' = RunCounted'
      /\ LifeAt = "clean.drainFrames" /\ LifeAt' = to
  BY <1>2, <1>3, LifeGoto
<1>5. PICK c : TopBecomes(Life, c) /\ c \in SafeCalls'
  BY <1>2, <1>3, LifeGoto
<1>6. ~active /\ ~ready /\ mutex = NoThread
  BY <1>4 DEF ShutdownInv, LifeInv
<1>7. ASSUME NEW u \in Threads, NEW i \in 1 .. Len(stack[u]), u # Life
      PROVE  stack[u][i].at \notin SubmitLabels \cup {"run.next", "run.commit"}
  <2>1. stack[Frame] = <<>> \/ stack[Frame][Len(stack[Frame])].at = "run.count"
    BY <1>2 DEF ShutdownInv, LifeInv, RunCounted
  <2>2. \A label \in CallbackLabels : label \notin SubmitLabels \cup {"run.next", "run.commit"}
    OBVIOUS
  <2>3. CASE u \in Callers
    BY <2>2, <2>3 DEF ShutdownInv, StackInv
  <2>4. CASE u = Frame /\ i = Len(stack[Frame])
    <3>1. stack[Frame] # <<>>
      BY <2>4, StackInvType, StackFacts, ThreadFacts DEF ShutdownInv
    <3> QED
      BY <2>1, <2>4, <3>1
  <2>5. CASE u = Frame /\ i # Len(stack[Frame])
    BY <2>2, <2>5 DEF ShutdownInv, StackInv
  <2> QED
    BY <1>7, <2>3, <2>4, <2>5, ThreadFacts
<1>8. CallsInv'
  <2>1. ASSUME NEW u \in Threads, NEW i \in 1 .. Len(stack[u]), u # Life
        PROVE  stack[u][i] \in SafeCalls'
    <3>1. PICK e : e = stack[u][i]
      OBVIOUS
    <3>2. e \in SafeCalls
      BY <3>1 DEF ShutdownInv, CallsInv
    <3>3. e.at \notin SubmitLabels \cup {"run.next", "run.commit"}
      BY <1>7, <2>1, <3>1
    <3>4. e \in SafeCalls'
      BY <1>1, <1>2, <1>4, <3>2, <3>3 DEF SafeCalls
    <3> QED
      BY <3>1, <3>4
  <2> QED
    BY <1>5, <2>1, CallsFollow
<1>9. LifeInv'
  BY <1>1, <1>2, <1>4, <1>6 DEF LifeInv
<1>10. HooksInv'
  BY <1>2 DEF ShutdownInv, HooksInv, NoHookLeftBehind
<1>11. ArmedInv'
  BY <1>2, <1>4 DEF ShutdownInv, ArmedInv
<1> QED
  BY <1>4, <1>8, <1>9, <1>10, <1>11 DEF ShutdownInv

LEMMA StepClose ==
  ASSUME ShutdownInv, Close PROVE ShutdownInv'
<1>1. /\ At(Life, "clean.close") /\ Goto(Life, "clean.shutDetours") /\ mutex' = Life
      /\ UNCHANGED <<active, ready, runFrames, slot, inFlight>>
  BY DEF Close, providerVars
<1>2. hooks \in HooksType /\ "clean.close" \in LifeLabels /\ "clean.shutDetours" \in LifeLabels
  BY DEF ShutdownInv, HooksInv
<1>3. /\ hooks' \in HooksType /\ hooks'.pose = hooks.pose /\ hooks'.context = hooks.context
      /\ hooks'.installed = hooks.installed /\ ~hooks'.instance
      /\ hooks'.detourShutdown = hooks.detourShutdown
  BY <1>2 DEF Close, HooksType
<1>5. /\ StackInv' /\ CountInv' /\ runFrames' = RunCounted'
      /\ LifeAt = "clean.close" /\ LifeAt' = "clean.shutDetours"
      /\ \E c : TopBecomes(Life, c) /\ c \in SafeCalls'
  BY <1>1, <1>2, LifeGoto
<1>6. ~ready /\ ~active
  BY <1>5 DEF ShutdownInv, LifeInv
<1>8. CallsInv'
  <2>1. SafeCalls \subseteq SafeCalls'
    BY <1>1, <1>3, <1>5 DEF SafeCalls, FramesGone
  <2> QED
    BY <1>5, <2>1, CallsAllFollow
<1>9. LifeInv'
  BY <1>1, <1>3, <1>5, <1>6 DEF LifeInv
<1>10. HooksInv'
  BY <1>1, <1>3 DEF ShutdownInv, HooksInv, NoHookLeftBehind
<1>11. ArmedInv'
  BY <1>1, <1>3, <1>5 DEF ShutdownInv, ArmedInv
<1> QED
  BY <1>5, <1>8, <1>9, <1>10, <1>11 DEF ShutdownInv

LEMMA MarkLateLike ==
  ASSUME StackType, NEW s, s = MarkLate(stack)
  PROVE  /\ s \in [Threads -> Seq(CallType)]
         /\ \A u \in Threads : Len(s[u]) = Len(stack[u])
         /\ \A u \in Threads : \A i \in 1 .. Len(stack[u]) :
              Like(s[u][i], stack[u][i]) /\ s[u][i].late
<1>1. ASSUME NEW u \in Threads
      PROVE  /\ s[u] \in Seq(CallType) /\ Len(s[u]) = Len(stack[u])
             /\ \A i \in 1 .. Len(stack[u]) : Like(s[u][i], stack[u][i]) /\ s[u][i].late
  <2>1. Len(stack[u]) \in Nat /\ DOMAIN stack[u] = 1 .. Len(stack[u])
        /\ \A i \in 1 .. Len(stack[u]) : stack[u][i] \in CallType
    BY StackFacts
  <2>2. s[u] = [i \in 1 .. Len(stack[u]) |-> [stack[u][i] EXCEPT !.late = TRUE]]
    BY <2>1 DEF MarkLate
  <2>3. ASSUME NEW i \in 1 .. Len(stack[u])
        PROVE  s[u][i] \in CallType /\ Like(s[u][i], stack[u][i]) /\ s[u][i].late
    <3>1. stack[u][i] \in CallType
      BY <2>1
    <3>2. /\ [stack[u][i] EXCEPT !.late = TRUE] \in CallType
          /\ Like([stack[u][i] EXCEPT !.late = TRUE], stack[u][i])
          /\ [stack[u][i] EXCEPT !.late = TRUE].late
      BY <3>1 DEF CallType, Like
    <3>3. s[u][i] = [stack[u][i] EXCEPT !.late = TRUE]
      BY <2>2
    <3> QED
      BY <3>2, <3>3
  <2>4. s[u] \in [1 .. Len(stack[u]) -> CallType]
    BY <2>2, <2>3
  <2> QED
    BY <2>1, <2>3, <2>4, BuiltSeq
<1>2. s = [u \in Threads |-> s[u]]
  BY DEF MarkLate
<1>3. s \in [Threads -> Seq(CallType)]
  BY <1>1, <1>2
<1> QED
  BY <1>1, <1>3

\* Every call in progress has now met the shutdown.
LEMMA StepShutDetours ==
  ASSUME ShutdownInv, ShutDetours PROVE ShutdownInv'
<1>1. PICK s : s = MarkLate(stack)
  OBVIOUS
<1>2. /\ At(Life, "clean.shutDetours")
      /\ stack' = [s EXCEPT ![Life][1].at = "clean.disable"]
      /\ hooks' = [hooks EXCEPT !.detourShutdown = TRUE]
      /\ UNCHANGED <<active, ready, runFrames, slot, inFlight, mutex>>
  BY <1>1 DEF ShutDetours, providerVars
<1>3. hooks \in HooksType /\ "clean.shutDetours" \in LifeLabels /\ "clean.disable" \in LifeLabels
      /\ "clean.disable" \in Labels
  BY DEF ShutdownInv, HooksInv, Labels
<1>4. /\ hooks' \in HooksType /\ hooks'.pose = hooks.pose /\ hooks'.context = hooks.context
      /\ hooks'.installed = hooks.installed /\ hooks'.instance = hooks.instance
      /\ hooks'.shuttingDown = hooks.shuttingDown /\ hooks'.detourShutdown
  BY <1>2, <1>3 DEF HooksType
<1>5. /\ s \in [Threads -> Seq(CallType)]
      /\ \A u \in Threads : Len(s[u]) = Len(stack[u])
      /\ \A u \in Threads : \A i \in 1 .. Len(stack[u]) :
           Like(s[u][i], stack[u][i]) /\ s[u][i].late
  BY <1>1, MarkLateLike, StackInvType DEF ShutdownInv
<1>6. PICK o : o = s[Life][1]
  OBVIOUS
<1>7. /\ o \in CallType /\ o.sent <= 1 /\ stack[Life] # <<>>
  <2>1. stack[Life] # <<>> /\ CallOK(stack[Life][1]) /\ stack[Life][1].at = "clean.shutDetours"
        /\ 1 \in 1 .. Len(stack[Life])
    BY <1>2, AtFacts, StackInvType, StackFacts, ThreadFacts DEF ShutdownInv
  <2>2. Like(o, stack[Life][1])
    BY <1>5, <1>6, <2>1, ThreadFacts
  <2> QED
    BY <2>1, <2>2 DEF Like, CallOK
<1>8. PICK c : c = [o EXCEPT !.at = "clean.disable"]
  OBVIOUS
<1>9. c \in CallType /\ c.at = "clean.disable" /\ c.sent <= 1
  BY <1>3, <1>7, <1>8, RelabelFields
<1>10. stack' = [s EXCEPT ![Life] = [s[Life] EXCEPT ![1] = c]]
  BY <1>2, <1>6, <1>8
<1>11. TopBecomes(Life, c)
  BY <1>5, <1>7, <1>9, <1>10, AgedEffect, StackInvType, ThreadFacts DEF ShutdownInv
<1>12. CallOK(c)
  BY <1>9 DEF CallOK, BeforeHost
<1>13. /\ StackInv' /\ CountInv' /\ runFrames' = RunCounted'
       /\ LifeAt = "clean.shutDetours" /\ LifeAt' = "clean.disable"
  BY <1>2, <1>3, <1>9, <1>11, <1>12, LifeMoves
<1>14. ~ready /\ ~active /\ mutex = Life /\ ~hooks.instance
  BY <1>13 DEF ShutdownInv, LifeInv
<1>15. CallsInv'
  <2>1. ASSUME NEW u \in Threads, NEW i \in 1 .. Len(stack'[u]) PROVE stack'[u][i] \in SafeCalls'
    <3>1. i \in 1 .. Len(stack[u])
      BY <1>11 DEF TopBecomes
    <3>2. CASE u = Life
      <4>1. i = 1
        <5>1. Len(stack[Life]) \in Nat /\ Len(stack[Life]) <= 1
          BY StackInvType, StackFacts, ThreadFacts DEF ShutdownInv, StackInv
        <5> QED
          BY <3>1, <3>2, <5>1
      <4>2. c \in SafeCalls'
        BY <1>3, <1>9, LifeCallsSafe
      <4> QED
        BY <1>11, <3>2, <4>1, <4>2 DEF TopBecomes
    <3>3. CASE u # Life
      <4>1. PICK e : e = stack[u][i]
        OBVIOUS
      <4>2. PICK d : d = stack'[u][i]
        OBVIOUS
      <4>3. d = s[u][i]
        BY <1>5, <1>10, <3>3, <4>2
      <4>4. d \in CallType /\ d.at = e.at /\ d.late
        BY <1>5, <3>1, <4>1, <4>3 DEF Like
      <4>5. e \in SafeCalls
        BY <3>1, <4>1 DEF ShutdownInv, CallsInv
      <4>6. d \in SafeCalls'
        BY <1>2, <1>4, <1>13, <4>4, <4>5 DEF SafeCalls, FramesGone
      <4> QED
        BY <4>2, <4>6
    <3> QED
      BY <3>2, <3>3
  <2> QED
    BY <2>1 DEF CallsInv
<1>16. LifeInv'
  BY <1>2, <1>4, <1>13, <1>14 DEF LifeInv
<1>17. HooksInv'
  BY <1>2, <1>4, <1>14 DEF ShutdownInv, HooksInv, NoHookLeftBehind
<1>18. ArmedInv'
  BY <1>2, <1>4, <1>13 DEF ShutdownInv, ArmedInv
<1> QED
  BY <1>13, <1>15, <1>16, <1>17, <1>18 DEF ShutdownInv

LEMMA StepDisableHooks ==
  ASSUME ShutdownInv, DisableHooks PROVE ShutdownInv'
<1>1. /\ At(Life, "clean.disable") /\ Goto(Life, "clean.drainCalls") /\ mutex' = NoThread
      /\ UNCHANGED <<active, ready, runFrames, slot, inFlight>>
  BY DEF DisableHooks, MutexForDrain, providerVars
<1>2. hooks \in HooksType /\ "clean.disable" \in LifeLabels /\ "clean.drainCalls" \in LifeLabels
  BY DEF ShutdownInv, HooksInv
<1>3. /\ hooks' \in HooksType /\ hooks'.pose # "on" /\ hooks'.context # "on"
      /\ (hooks'.pose = "none" <=> hooks.pose = "none")
      /\ (hooks'.context = "none" <=> hooks.context = "none")
      /\ hooks'.installed = hooks.installed /\ hooks'.instance = hooks.instance
      /\ hooks'.detourShutdown = hooks.detourShutdown
  <2>1. hooks' = [hooks EXCEPT !.pose = Disabled(hooks.pose), !.context = Disabled(hooks.context)]
    BY <1>2, Zenon DEF DisableHooks, HooksType
  <2>2. /\ Disabled(hooks.pose) \in HookStates /\ Disabled(hooks.context) \in HookStates
        /\ Disabled(hooks.pose) # "on" /\ Disabled(hooks.context) # "on"
        /\ (Disabled(hooks.pose) = "none" <=> hooks.pose = "none")
        /\ (Disabled(hooks.context) = "none" <=> hooks.context = "none")
    BY <1>2 DEF Disabled, HookStates, HooksType
  <2> QED
    BY <1>2, <2>1, <2>2 DEF HooksType
<1>5. /\ StackInv' /\ CountInv' /\ runFrames' = RunCounted'
      /\ LifeAt = "clean.disable" /\ LifeAt' = "clean.drainCalls"
      /\ \E c : TopBecomes(Life, c) /\ c \in SafeCalls'
  BY <1>1, <1>2, LifeGoto
<1>6. ~ready /\ ~active /\ hooks.detourShutdown /\ ~hooks.instance
  BY <1>5 DEF ShutdownInv, LifeInv
<1>8. CallsInv'
  <2>1. SafeCalls \subseteq SafeCalls'
    BY <1>1, <1>3, <1>5, <1>6 DEF SafeCalls, FramesGone
  <2> QED
    BY <1>5, <2>1, CallsAllFollow
<1>9. LifeInv'
  BY <1>1, <1>3, <1>5, <1>6 DEF LifeInv
<1>10. HooksInv'
  BY <1>1, <1>3 DEF ShutdownInv, HooksInv, NoHookLeftBehind
<1>11. ArmedInv'
  BY <1>1, <1>3, <1>5 DEF ShutdownInv, ArmedInv
<1> QED
  BY <1>5, <1>8, <1>9, <1>10, <1>11 DEF ShutdownInv

\* The count of the calls is zero: what is left has not been counted yet, and finds the
\* detours closed when it is.
LEMMA StepCallsDrained ==
  ASSUME ShutdownInv, CallsDrained PROVE ShutdownInv'
<1>2. /\ At(Life, "clean.drainCalls") /\ Goto(Life, "clean.free") /\ inFlight = 0
      /\ UNCHANGED <<active, ready, runFrames, slot, hooks, mutex, inFlight>>
  BY DEF CallsDrained, NoCallInFlight, providerVars, hookVars
<1>3. "clean.drainCalls" \in LifeLabels /\ "clean.free" \in LifeLabels
  OBVIOUS
<1>4. /\ StackInv' /\ CountInv' /\ runFrames' = RunCounted'
      /\ LifeAt = "clean.drainCalls" /\ LifeAt' = "clean.free"
  BY <1>2, <1>3, LifeGoto
<1>5. PICK c : TopBecomes(Life, c) /\ c \in SafeCalls'
  BY <1>2, <1>3, LifeGoto
<1>6. ~active /\ ~ready /\ mutex = NoThread /\ hooks.detourShutdown
      /\ ~hooks.instance
  BY <1>4 DEF ShutdownInv, LifeInv
<1>7. ASSUME NEW u \in Threads, NEW i \in 1 .. Len(stack[u])
      PROVE  stack[u][i].at \in Uncounted
  <2>1. Counted(u) = 0 /\ Len(stack[u]) \in Nat /\ Len(stack[u]) # 0 /\ stack[u] # <<>>
    <3>1. Counted(u) = 0
      BY <1>2, NoneInFlight, StackInvType DEF ShutdownInv
    <3>2. Len(stack[u]) \in Nat /\ (stack[u] = <<>> <=> Len(stack[u]) = 0)
      BY StackInvType, StackFacts DEF ShutdownInv
    <3>3. Len(stack[u]) # 0
      BY <3>2
    <3> QED
      BY <3>1, <3>2, <3>3
  <2>2. stack[u][1].at \in Uncounted /\ Len(stack[u]) = 1
    BY <2>1 DEF Counted
  <2>3. i = 1
    BY <2>1, <2>2
  <2> QED
    BY <2>2, <2>3
<1>8. CallsInv'
  <2>1. ASSUME NEW u \in Threads, NEW i \in 1 .. Len(stack[u]), u # Life
        PROVE  stack[u][i] \in SafeCalls'
    <3>1. PICK e : e = stack[u][i]
      OBVIOUS
    <3>2. e \in SafeCalls /\ e.at \in Uncounted
      BY <1>7, <3>1 DEF ShutdownInv, CallsInv
    <3>3. FramesGone
      BY <1>4, <1>6 DEF FramesGone
    <3>4. e.at \in Harmless
      BY <3>2, <3>3 DEF SafeCalls, Uncounted, Harmless
    <3>5. e \in SafeCalls'
      BY <1>2, <1>4, <3>2, <3>3, <3>4 DEF SafeCalls
    <3> QED
      BY <3>1, <3>5
  <2> QED
    BY <1>5, <2>1, CallsFollow
<1>9. LifeInv'
  BY <1>2, <1>4, <1>6 DEF LifeInv
<1>10. HooksInv'
  BY <1>2 DEF ShutdownInv, HooksInv, NoHookLeftBehind
<1>11. ArmedInv'
  BY <1>2, <1>4 DEF ShutdownInv, ArmedInv
<1> QED
  BY <1>4, <1>8, <1>9, <1>10, <1>11 DEF ShutdownInv

LEMMA StepFree ==
  ASSUME ShutdownInv, Free PROVE ShutdownInv'
<1>1. /\ At(Life, "clean.free") /\ Goto(Life, "clean.filters") /\ mutex = NoThread
      /\ hooks' = [hooks EXCEPT !.installed = FALSE, !.pose = "none", !.context = "none"]
      /\ UNCHANGED <<active, ready, runFrames, slot, inFlight, mutex>>
  BY DEF Free, providerVars
<1>2. hooks \in HooksType /\ "clean.free" \in LifeLabels /\ "clean.filters" \in LifeLabels
  BY DEF ShutdownInv, HooksInv
<1>3. /\ hooks' \in HooksType /\ hooks'.pose = "none" /\ hooks'.context = "none"
      /\ ~hooks'.installed /\ hooks'.instance = hooks.instance
      /\ hooks'.detourShutdown = hooks.detourShutdown
  BY <1>1, <1>2 DEF HooksType, HookStates
<1>5. /\ StackInv' /\ CountInv' /\ runFrames' = RunCounted'
      /\ LifeAt = "clean.free" /\ LifeAt' = "clean.filters"
      /\ \E c : TopBecomes(Life, c) /\ c \in SafeCalls'
  BY <1>1, <1>2, LifeGoto
<1>6. ~ready /\ ~active /\ hooks.detourShutdown /\ ~hooks.instance
  BY <1>5 DEF ShutdownInv, LifeInv
<1>8. CallsInv'
  <2>1. \A label \in Harmless : label \notin Using \cup SubmitLabels \cup {"get.observe"}
    BY DEF Harmless, Using
  <2>2. SafeCalls \subseteq SafeCalls'
    BY <1>1, <1>3, <1>5, <1>6, <2>1 DEF SafeCalls, FramesGone
  <2> QED
    BY <1>5, <2>2, CallsAllFollow
<1>9. LifeInv'
  BY <1>1, <1>3, <1>5, <1>6 DEF LifeInv
<1>10. HooksInv'
  BY <1>1, <1>3, <1>6 DEF ShutdownInv, HooksInv, NoHookLeftBehind
<1>11. ArmedInv'
  BY <1>1, <1>3, <1>5 DEF ShutdownInv, ArmedInv
<1> QED
  BY <1>5, <1>8, <1>9, <1>10, <1>11 DEF ShutdownInv

LEMMA StepResetFilters ==
  ASSUME ShutdownInv, ResetFilters PROVE ShutdownInv'
<1>1. /\ At(Life, "clean.filters") /\ End(Life)
      /\ slot' = [d \in Devices |-> [slot[d] EXCEPT !.filter = "Cold"]]
      /\ UNCHANGED <<active, ready, runFrames, hooks, mutex, inFlight>>
  BY DEF ResetFilters, hookVars
<1>2. "clean.filters" \in LifeLabels
  OBVIOUS
<1>3. /\ StackInv' /\ CountInv' /\ runFrames' = RunCounted' /\ Popped(Life)
      /\ LifeAt = "clean.filters" /\ LifeAt' = "none"
  BY <1>1, <1>2, LifeEnds
<1>4. ~ready /\ ~active /\ mutex = NoThread /\ ~hooks.installed
  BY <1>3 DEF ShutdownInv, LifeInv
<1>5. CallsInv'
  <2>1. SafeCalls \subseteq SafeCalls'
    BY <1>1, <1>3 DEF SafeCalls, FramesGone
  <2> QED
    BY <1>3, <2>1, CallsAllFollow
<1>6. LifeInv'
  BY <1>1, <1>3, <1>4 DEF LifeInv
<1>7. HooksInv'
  BY <1>1 DEF ShutdownInv, HooksInv, NoHookLeftBehind
<1>8. ArmedInv'
  <2>1. slot' \in [Devices -> [armed : BOOLEAN, filter : Filters, captured : BOOLEAN]]
    BY <1>1 DEF ShutdownInv, ArmedInv, Filters
  <2> QED
    BY <1>1, <1>3, <1>4, <2>1 DEF ArmedInv
<1> QED
  BY <1>3, <1>5, <1>6, <1>7, <1>8 DEF ShutdownInv

-------------------------------------------------------------------------------
(* The specification.                                                          *)

LEMMA ShutdownInit ==
  Init => ShutdownInv
<1> SUFFICES ASSUME Init PROVE ShutdownInv
  OBVIOUS
<1>1. \A t \in Threads : stack[t] = <<>> /\ Len(stack[t]) = 0
  BY DEF Init
<1>2. stack \in [Threads -> Seq(CallType)]
  BY DEF Init
<1>3. LifeAt = "none" /\ RunCounted = 0
  BY <1>1, ThreadFacts DEF LifeAt, RunCounted
<1>4. StackInv
  BY <1>1, <1>2, ThreadFacts DEF StackInv
<1>5. CountInv
  <2>1. \A t \in Threads : Counted(t) = 0
    BY <1>1 DEF Counted
  <2>2. InFlight = {}
    BY <2>1 DEF InFlight
  <2> QED
    BY <2>2, FS_EmptySet DEF CountInv, Init
<1>6. CallsInv
  BY <1>1 DEF CallsInv
<1>7. LifeInv
  BY <1>3, ThreadFacts DEF LifeInv, Init
<1>8. HooksInv
  BY DEF HooksInv, HooksType, HookStates, NoHookLeftBehind, Init
<1>9. ArmedInv
  BY DEF ArmedInv, EmptySlot, Filters, Init
<1> QED
  BY <1>4, <1>5, <1>6, <1>7, <1>8, <1>9 DEF ShutdownInv

LEMMA ShutdownNext ==
  ShutdownInv /\ [Next]_vars => ShutdownInv'
<1> SUFFICES ASSUME ShutdownInv, [Next]_vars PROVE ShutdownInv'
  OBVIOUS
<1>1. CASE UNCHANGED vars
  BY <1>1, NothingMoves DEF vars, ShutdownVars
<1>2. CASE HostStep
  BY <1>2, StepReportPose, StepRequestInterface, StepStartFrame, StepStartInit, StepStartCleanup
     DEF HostStep
<1>3. ASSUME NEW t \in Threads, PoseStep(t) PROVE ShutdownInv'
  <2>1. CASE Count(t, "pose.count", "pose.check")
    BY <2>1, StepCount
  <2>2. CASE CallHost(t, "pose.call", "host.pose") \/ CallHost(t, "pose.bypass", "host.bypass")
    BY <2>2, StepCallHost
  <2> QED
    BY <1>3, <2>1, <2>2, StepCheckShutdown, StepLoadOriginal, StepTestTarget, StepLockLane,
       StepFilterPose, StepLeave DEF PoseStep
<1>4. ASSUME NEW t \in Threads, GetStep(t) PROVE ShutdownInv'
  <2>1. CASE Count(t, "get.count", "get.check")
    BY <2>1, StepCount
  <2> QED
    BY <1>4, <2>1, StepCheckInterface, StepLoadInterface, StepObserve DEF GetStep
<1>5. ASSUME NEW t \in Threads, Returns(t) PROVE ShutdownInv'
  BY <1>5, StepHostReturns, StepBypassReturns DEF Returns
<1>6. CASE FrameStep
  <2>1. CASE Count(Frame, "submit.count", "submit.check")
    BY <2>1, StepCount, ThreadFacts
  <2> QED
    BY <1>6, <2>1, StepCountFrame, StepClassify, StepNextDevice, StepCheckSubmit, StepLockSubmit,
       StepTestGeneration, StepSubmitToHost, StepLeaveSubmit, StepCommit, StepEndFrame
       DEF FrameStep
<1>7. CASE SubmitReturns
  BY <1>7, StepSubmitReturns
<1>8. CASE LifeStep
  BY <1>8, StepInstall, StepInstallPoseHook, StepInstallContextHook, StepActivate,
     StepFramesDrained, StepClose, StepShutDetours, StepDisableHooks, StepCallsDrained, StepFree,
     StepResetFilters DEF LifeStep
<1> QED
  BY <1>1, <1>2, <1>3, <1>4, <1>5, <1>6, <1>7, <1>8 DEF Next, ThreadStep

\* The invariant of the shutdown holds in every state.
THEOREM ShutdownHolds == Spec => []ShutdownInv
<1>1. Init => ShutdownInv
  BY ShutdownInit
<1>2. ShutdownInv /\ [Next]_vars => ShutdownInv'
  BY ShutdownNext
<1> QED
  BY <1>1, <1>2, PTL DEF Spec

\* The calls in progress, one by one.
LEMMA CallsOnStacks ==
  ASSUME ShutdownInv, NEW c \in Calls
  PROVE  CallOK(c) /\ c \in SafeCalls
<1>1. PICK t \in Threads : c \in {stack[t][i] : i \in DOMAIN stack[t]}
  BY DEF Calls
<1>a. PICK i \in DOMAIN stack[t] : c = stack[t][i]
  BY <1>1
<1>2. i \in 1 .. Len(stack[t])
  BY StackFacts, StackInvType DEF ShutdownInv
<1> QED
  BY <1>a, <1>2 DEF ShutdownInv, StackInv, CallsInv

\* No call uses a trampoline, a route or the provider after remove() of hooks.cpp has freed
\* them, whatever the host nests and whenever Cleanup comes.
THEOREM RemovalIsSafe == Spec => []NothingUsedAfterRemoval
<1>1. ShutdownInv => NothingUsedAfterRemoval
  <2> SUFFICES ASSUME ShutdownInv PROVE NothingUsedAfterRemoval
    OBVIOUS
  <2>1. ASSUME NEW c \in Calls
        PROVE  /\ hooks.pose = "none" => c.at \notin Using
               /\ ~hooks.installed => c.at # "get.observe"
    BY <2>1, CallsOnStacks DEF SafeCalls
  <2> QED
    BY <2>1 DEF NothingUsedAfterRemoval
<1> QED
  BY <1>1, ShutdownHolds, PTL

\* Init resets the registry and the slots without their locks, and nobody else is at them: no
\* callback and no RunFrame that was let in before Cleanup is still on its way.
THEOREM InitIsAlone == Spec => []InitAlone
<1>1. ShutdownInv => InitAlone
  <2> SUFFICES ASSUME ShutdownInv, stack[Life] = <<>>, ~ready, NEW c \in Calls
               PROVE  c.at \notin Quiet
    BY DEF InitAlone
  <2>1. LifeAt = "none"
    BY DEF LifeAt
  <2>2. ~active /\ ~hooks.installed
    BY <2>1 DEF ShutdownInv, LifeInv
  <2>3. FramesGone /\ hooks.pose = "none"
    BY <2>1, <2>2 DEF FramesGone, ShutdownInv, HooksInv
  <2>4. c \in SafeCalls
    BY CallsOnStacks
  <2> QED
    BY <2>3, <2>4 DEF SafeCalls, Quiet
<1> QED
  BY <1>1, ShutdownHolds, PTL

\* Once remove() has given its mutex back to drain the calls no hook is on, even when an
\* interface that was asked for before is observed late.
THEOREM HooksStayOff == Spec => []NoHookLeftBehind
<1>1. ShutdownInv => NoHookLeftBehind
  BY DEF ShutdownInv, HooksInv
<1> QED
  BY <1>1, ShutdownHolds, PTL

\* A callback hands its pose to the host exactly once, whatever throws on the way: only one
\* that met a shutdown may be dropped.
THEOREM PosesForwardedOnce == Spec => []ForwardedOnce
<1>1. ShutdownInv => ForwardedOnce
  <2> SUFFICES ASSUME ShutdownInv, NEW c \in Calls
               PROVE  /\ c.sent <= 1
                      /\ c.at = "leave" /\ c.dev # NoDevice => c.sent = 1 \/ c.late
    BY DEF ForwardedOnce
  <2>1. CallOK(c) /\ c.at \in Labels
    BY CallsOnStacks DEF CallOK, CallType
  <2>2. \A label \in Labels :
          label \in BeforeHost \cup {"host.pose", "host.bypass", "leave"} \cup GetLabels
                    \cup FrameLabels \cup LifeLabels
    BY DEF Labels, BeforeHost
  <2>3. c.sent <= 1
    <3>1. CASE c.at \in BeforeHost \cup {"host.pose", "host.bypass"} \cup GetLabels
      <4>1. c.sent = 0 \/ c.sent = 1
        BY <2>1, <3>1 DEF CallOK
      <4> QED
        BY <4>1
    <3>2. CASE c.at \in FrameLabels \cup LifeLabels \cup {"leave"}
      BY <2>1, <3>2 DEF CallOK
    <3> QED
      BY <2>1, <2>2, <3>1, <3>2
  <2>4. c.at = "leave" /\ c.dev # NoDevice => c.sent = 1 \/ c.late
    BY <2>1 DEF CallOK
  <2> QED
    BY <2>3, <2>4
<1> QED
  BY <1>1, ShutdownHolds, PTL

-------------------------------------------------------------------------------
(* What the host is shown: which thread owns a forwarding lane, what a slot    *)
(* says about the poses that went out, and why a prediction never follows a    *)
(* newer pose of the same device.                                              *)

HIDE DEF PoseLabels, GetLabels, CallbackLabels, SubmitLabels, RunLabels, FrameLabels,
         InitLabels, CleanLabels, LifeLabels

-------------------------------------------------------------------------------
(* The invariant.                                                              *)

\* The variables whose type the shutdown does not need.
TypesInv ==
  /\ active \in BOOLEAN /\ ready \in BOOLEAN
  /\ kind \in [Devices -> Kinds] /\ route \in [Devices -> BOOLEAN]
  /\ shown \in [Devices -> {"none", "raw", "held", "lost"}]
  /\ basis \in [Devices -> BOOLEAN] /\ armedBy \in [Devices -> BOOLEAN]

\* A lane counts the calls that hold it, all of them on the stack of its owner.  A call is
\* named by its place from the bottom of its stack, which stays while it lasts.
Holding == {"pose.filter", "pose.call", "host.pose",
            "submit.test", "submit.call", "host.synthetic"}
Place(t, k) == stack[t][Len(stack[t]) + 1 - k]
Holders(d) ==
  {p \in Threads \X Nat :
     /\ 1 <= p[2] /\ p[2] <= Len(stack[p[1]])
     /\ Place(p[1], p[2]).at \in Holding /\ Place(p[1], p[2]).dev = d}
LaneInv ==
  /\ lane \in [Devices -> [owner : Threads \cup {NoThread}, depth : Nat]]
  /\ \A d \in Devices :
       /\ IsFiniteSet(Holders(d)) /\ lane[d].depth = Cardinality(Holders(d))
       /\ \A p \in Holders(d) : p[1] = lane[d].owner

\* The host was told that the tracker is lost, and the slot is about to be disarmed for it:
\* if no callback came since the prediction, none of them armed the slot either.
LostShown(c) ==
  \/ c.at = "run.commit"
  \/ c.at \in {"host.synthetic", "submit.leave"} /\ c.sent = 1 /\ c.lost
CommitInv ==
  /\ \A d \in Devices : armedBy[d] => slot[d].armed
  /\ \A t \in Threads : \A i \in 1 .. Len(stack[t]) :
       LostShown(stack[t][i]) /\ slot[stack[t][i].dev].captured => ~armedBy[stack[t][i].dev]

\* Between Install and Cleanup the detours are open wherever there are hooks.
Opened == \/ LifeAt \in {"init.poseHook", "init.contextHook", "init.activate"}
          \/ LifeAt = "none" /\ ready
OpenInv ==
  Opened => /\ ~hooks.detourShutdown /\ hooks.pose # "off"
            /\ hooks.installed => hooks.instance

\* The host calls Init, Cleanup and RunFrame one after the other, and locks do not fail.
Orderly == ~Overlap /\ "lock" \notin Faults

FrameInv == stack[Frame] # <<>> => stack[Life] = <<>> /\ ready

\* A prediction that no callback superseded continues the newest pose: every newer one is
\* still on its way to the filter, where it will supersede the prediction.
NoneNewer(d) ==
  \A t \in Threads : \A i \in 1 .. Len(stack[t]) :
    stack[t][i].dev = d /\ stack[t][i].newer => stack[t][i].at \notin {"pose.bypass", "pose.call"}
Current(c) ==
  /\ kind[c.dev] = "ViveTracker" /\ hooks.pose = "on"
  /\ slot[c.dev].captured =>
       /\ basis[c.dev] /\ NoneNewer(c.dev)
       /\ c.lost <=> slot[c.dev].filter = "Lost"
  /\ c.at = "submit.call" => slot[c.dev].armed /\ slot[c.dev].captured
Predicting == {"submit.count", "submit.check", "submit.lock", "submit.test", "submit.call"}
PredictInv ==
  stack[Frame] # <<>> /\ stack[Frame][1].at \in Predicting => Current(stack[Frame][1])

\* What the host was shown last, as far as an armed slot tells: a pose of the device, or for
\* the second time that it is lost.  The pose that armed it may still be on its way.
Coming(d) ==
  \E t \in Threads : \E i \in 1 .. Len(stack[t]) :
    stack[t][i].at = "pose.call" /\ stack[t][i].dev = d
Followed(d) ==
  \/ ~slot[d].armed \/ Coming(d)
  \/ shown[d] \in {"raw", "held"}
  \/ shown[d] = "lost" /\ slot[d].filter = "Lost"
ShownInv == ready => \A d \in Devices : Followed(d)

RelayInv ==
  /\ TypesInv /\ LaneInv /\ CommitInv /\ OpenInv
  /\ Orderly => FrameInv /\ PredictInv /\ ShownInv

-------------------------------------------------------------------------------
(* Where the calls of the next state come from.                                *)

\* Every call but a new or changed top call c of t was there before.
Arrives(t, c) ==
  \A u \in Threads : \A i \in 1 .. Len(stack'[u]) :
    \/ u = t /\ i = 1 /\ stack'[u][i] = c
    \/ \E j \in 1 .. Len(stack[u]) : Like(stack'[u][i], stack[u][j])

\* Every call but the top call of t goes on.
Remains(t) ==
  \A u \in Threads : \A i \in 1 .. Len(stack[u]) :
    (u = t /\ i = 1) \/ \E j \in 1 .. Len(stack'[u]) : Like(stack'[u][j], stack[u][i])

LEMMA TopArrives ==
  ASSUME StackType, NEW t \in Threads, NEW c, TopBecomes(t, c)
  PROVE  Arrives(t, c) /\ Remains(t)
<1>1. ASSUME NEW u \in Threads, NEW i \in 1 .. Len(stack'[u])
      PROVE  \/ u = t /\ i = 1 /\ stack'[u][i] = c
             \/ \E j \in 1 .. Len(stack[u]) : Like(stack'[u][i], stack[u][j])
  BY DEF TopBecomes
<1>2. ASSUME NEW u \in Threads, NEW i \in 1 .. Len(stack[u])
      PROVE  (u = t /\ i = 1) \/ \E j \in 1 .. Len(stack'[u]) : Like(stack'[u][j], stack[u][i])
  BY DEF TopBecomes
<1> QED
  BY <1>1, <1>2 DEF Arrives, Remains

LEMMA PushArrives ==
  ASSUME StackType, NEW t \in Threads, NEW c, Pushed(t, c)
  PROVE  /\ Arrives(t, c)
         /\ \A u \in Threads : \A i \in 1 .. Len(stack[u]) :
              \E j \in 1 .. Len(stack'[u]) : Like(stack'[u][j], stack[u][i])
<1>0. \A u \in Threads : /\ Len(stack[u]) \in Nat
                           /\ \A i \in 1 .. Len(stack[u]) : stack[u][i] \in CallType
  BY StackFacts
<1>1. ASSUME NEW u \in Threads, NEW i \in 1 .. Len(stack'[u])
      PROVE  \/ u = t /\ i = 1 /\ stack'[u][i] = c
             \/ \E j \in 1 .. Len(stack[u]) : Like(stack'[u][i], stack[u][j])
  <2>1. CASE u # t
    BY <1>0, <2>1, LikeItself DEF Pushed
  <2>2. CASE u = t /\ i = 1
    BY <2>2 DEF Pushed
  <2>3. CASE u = t /\ i # 1
    <3>1. i - 1 \in 1 .. Len(stack[t]) /\ (i - 1) + 1 = i
      BY <1>0, <2>3 DEF Pushed
    <3>2. stack'[t][(i - 1) + 1] = stack[t][i - 1]
      BY <3>1 DEF Pushed
    <3>3. Like(stack'[u][i], stack[u][i - 1])
      BY <1>0, <2>3, <3>1, <3>2, LikeItself
    <3> QED
      BY <2>3, <3>1, <3>3
  <2> QED
    BY <2>1, <2>2, <2>3
<1>2. ASSUME NEW u \in Threads, NEW i \in 1 .. Len(stack[u])
      PROVE  \E j \in 1 .. Len(stack'[u]) : Like(stack'[u][j], stack[u][i])
  <2>1. CASE u # t
    BY <1>0, <2>1, LikeItself DEF Pushed
  <2>2. CASE u = t
    <3>1. i + 1 \in 1 .. Len(stack'[t]) /\ stack'[t][i + 1] = stack[t][i]
      BY <1>0, <2>2 DEF Pushed
    <3> QED
      BY <1>0, <2>2, <3>1, LikeItself
  <2> QED
    BY <2>1, <2>2
<1> QED
  BY <1>1, <1>2 DEF Arrives

LEMMA PopArrives ==
  ASSUME StackType, NEW t \in Threads, Popped(t)
  PROVE  /\ \A u \in Threads : \A i \in 1 .. Len(stack'[u]) :
              \E j \in 1 .. Len(stack[u]) : Like(stack'[u][i], stack[u][j])
         /\ Remains(t)
<1>0. \A u \in Threads : /\ Len(stack[u]) \in Nat
                           /\ \A i \in 1 .. Len(stack[u]) : stack[u][i] \in CallType
  BY StackFacts
<1>1. ASSUME NEW u \in Threads, NEW i \in 1 .. Len(stack'[u])
      PROVE  \E j \in 1 .. Len(stack[u]) : Like(stack'[u][i], stack[u][j])
  <2>1. CASE u # t
    BY <1>0, <2>1, LikeItself DEF Popped
  <2>2. CASE u = t
    <3>1. i + 1 \in 1 .. Len(stack[t]) /\ stack'[t][i] = stack[t][i + 1]
      BY <1>0, <2>2 DEF Popped
    <3> QED
      BY <1>0, <2>2, <3>1, LikeItself
  <2> QED
    BY <2>1, <2>2
<1>2. ASSUME NEW u \in Threads, NEW i \in 1 .. Len(stack[u])
      PROVE  (u = t /\ i = 1) \/ \E j \in 1 .. Len(stack'[u]) : Like(stack'[u][j], stack[u][i])
  <2>1. CASE u # t
    BY <1>0, <2>1, LikeItself DEF Popped
  <2>2. CASE u = t /\ i # 1
    <3>1. i - 1 \in 1 .. Len(stack[t]) - 1 /\ (i - 1) + 1 = i
      BY <1>0, <2>2
    <3>2. stack'[t][i - 1] = stack[t][i] /\ i - 1 \in 1 .. Len(stack'[t])
      BY <3>1 DEF Popped
    <3> QED
      BY <1>0, <2>2, <3>2, LikeItself
  <2> QED
    BY <2>1, <2>2
<1> QED
  BY <1>1, <1>2 DEF Remains

-------------------------------------------------------------------------------
(* The lanes.                                                                  *)

\* Places do not move.
LEMMA PlacesReplaced ==
  ASSUME StackType, NEW t \in Threads, stack[t] # <<>>, NEW c, TopBecomes(t, c)
  PROVE  /\ \A u \in Threads : Len(stack'[u]) = Len(stack[u]) /\ Len(stack[u]) \in Nat
         /\ Len(stack[t]) \in 1 .. Len(stack[t])
         /\ Place(t, Len(stack[t])) = stack[t][1] /\ Place(t, Len(stack[t]))' = c
         /\ \A u \in Threads : \A k \in 1 .. Len(stack[u]) :
              u # t \/ k # Len(stack[t]) =>
                Place(u, k)'.at = Place(u, k).at /\ Place(u, k)'.dev = Place(u, k).dev
<1>1. \A u \in Threads : Len(stack'[u]) = Len(stack[u]) /\ Len(stack[u]) \in Nat
  BY StackFacts DEF TopBecomes
<1>2. Len(stack[t]) \in 1 .. Len(stack[t]) /\ Len(stack[t]) + 1 - Len(stack[t]) = 1
  BY <1>1, StackFacts
<1>3. Place(t, Len(stack[t])) = stack[t][1] /\ Place(t, Len(stack[t]))' = c
  BY <1>1, <1>2 DEF Place, TopBecomes
<1>4. ASSUME NEW u \in Threads, NEW k \in 1 .. Len(stack[u]), u # t \/ k # Len(stack[t])
      PROVE  Place(u, k)'.at = Place(u, k).at /\ Place(u, k)'.dev = Place(u, k).dev
  <2>1. Len(stack[u]) + 1 - k \in 1 .. Len(stack[u]) /\ (u # t \/ Len(stack[u]) + 1 - k # 1)
    BY <1>1, <1>4
  <2>2. Like(stack'[u][Len(stack[u]) + 1 - k], stack[u][Len(stack[u]) + 1 - k])
    BY <2>1 DEF TopBecomes
  <2> QED
    BY <1>1, <2>2 DEF Place, Like
<1> QED
  BY <1>1, <1>2, <1>3, <1>4

\* A call that neither takes nor gives back its lane.
LEMMA HoldersKept ==
  ASSUME StackType, NEW t \in Threads, stack[t] # <<>>, NEW c, TopBecomes(t, c),
         c.at \in Holding <=> stack[t][1].at \in Holding,
         c.at \in Holding => c.dev = stack[t][1].dev
  PROVE  \A d \in Devices : Holders(d)' = Holders(d)
<1> TAKE d \in Devices
<1>1. ASSUME NEW p \in Threads \X Nat
      PROVE  p \in Holders(d)' <=> p \in Holders(d)
  <2>1. p[1] \in Threads /\ p[2] \in Nat
    OBVIOUS
  <2>2. Len(stack'[p[1]]) = Len(stack[p[1]]) /\ Len(stack[p[1]]) \in Nat
    BY <2>1, PlacesReplaced
  <2>3. CASE p[1] = t /\ p[2] = Len(stack[t])
    BY <2>1, <2>2, <2>3, PlacesReplaced DEF Holders
  <2>4. CASE ~(p[1] = t /\ p[2] = Len(stack[t])) /\ p[2] \in 1 .. Len(stack[p[1]])
    <3>1. /\ Place(p[1], p[2])'.at = Place(p[1], p[2]).at
          /\ Place(p[1], p[2])'.dev = Place(p[1], p[2]).dev
      BY <2>1, <2>4, PlacesReplaced
    <3> QED
      BY <2>1, <2>2, <3>1 DEF Holders
  <2>5. CASE p[2] \notin 1 .. Len(stack[p[1]])
    BY <2>1, <2>2, <2>5 DEF Holders
  <2> QED
    BY <2>3, <2>4, <2>5
<1> QED
  BY <1>1 DEF Holders

LEMMA HoldersPushed ==
  ASSUME StackType, NEW t \in Threads, NEW c, Pushed(t, c), c.at \notin Holding
  PROVE  \A d \in Devices : Holders(d)' = Holders(d)
<1> TAKE d \in Devices
<1>1. ASSUME NEW p \in Threads \X Nat
      PROVE  p \in Holders(d)' <=> p \in Holders(d)
  <2>1. p[1] \in Threads /\ p[2] \in Nat /\ Len(stack[p[1]]) \in Nat
    BY StackFacts
  <2>2. CASE p[1] # t
    <3>1. stack'[p[1]] = stack[p[1]]
      BY <2>1, <2>2 DEF Pushed
    <3> QED
      BY <3>1 DEF Holders, Place
  <2>3. CASE p[1] = t
    <3>0. Len(stack'[t]) = Len(stack[t]) + 1
      BY DEF Pushed
    <3>1. CASE p[2] = Len(stack[t]) + 1
      <4>1. Len(stack'[t]) + 1 - p[2] = 1 /\ ~(p[2] <= Len(stack[t]))
        BY <2>1, <2>3, <3>0, <3>1
      <4>2. Place(p[1], p[2])' = c
        BY <2>3, <4>1 DEF Place, Pushed
      <4> QED
        BY <2>3, <4>1, <4>2 DEF Holders
    <3>2. CASE p[2] \in 1 .. Len(stack[t])
      <4>a. \A n \in Nat : \A k \in 1 .. n :
              n + 1 - k \in 1 .. n /\ (n + 1) + 1 - k = (n + 1 - k) + 1
        OBVIOUS
      <4>1. Len(stack[t]) + 1 - p[2] \in 1 .. Len(stack[t])
            /\ Len(stack'[t]) + 1 - p[2] = (Len(stack[t]) + 1 - p[2]) + 1
        BY <2>1, <2>3, <3>0, <3>2, <4>a
      <4>2. Place(p[1], p[2])' = Place(p[1], p[2])
        BY <2>3, <4>1 DEF Place, Pushed
      <4>3. 1 <= p[2] /\ p[2] <= Len(stack[t]) /\ p[2] <= Len(stack'[t])
        BY <2>1, <2>3, <3>0, <3>2
      <4> QED
        BY <2>3, <4>2, <4>3 DEF Holders
    <3>3. CASE p[2] \notin 1 .. Len(stack[t]) + 1
      BY <2>1, <2>3, <3>0, <3>3 DEF Holders
    <3> QED
      BY <2>1, <2>3, <3>1, <3>2, <3>3
  <2> QED
    BY <2>2, <2>3
<1> QED
  BY <1>1 DEF Holders

LEMMA HoldersPopped ==
  ASSUME StackType, NEW t \in Threads, stack[t] # <<>>, Popped(t), stack[t][1].at \notin Holding
  PROVE  \A d \in Devices : Holders(d)' = Holders(d)
<1> TAKE d \in Devices
<1>1. ASSUME NEW p \in Threads \X Nat
      PROVE  p \in Holders(d)' <=> p \in Holders(d)
  <2>1. p[1] \in Threads /\ p[2] \in Nat /\ Len(stack[p[1]]) \in Nat
    BY StackFacts
  <2>2. CASE p[1] # t
    <3>1. stack'[p[1]] = stack[p[1]]
      BY <2>1, <2>2 DEF Popped
    <3> QED
      BY <3>1 DEF Holders, Place
  <2>3. CASE p[1] = t
    <3>0. Len(stack'[t]) = Len(stack[t]) - 1
      BY DEF Popped
    <3>1. CASE p[2] = Len(stack[t])
      <4>1. Len(stack[t]) + 1 - p[2] = 1 /\ ~(p[2] <= Len(stack'[t]))
        BY <2>1, <2>3, <3>0, <3>1
      <4>2. Place(p[1], p[2]) = stack[t][1]
        BY <2>3, <4>1 DEF Place
      <4> QED
        BY <2>3, <4>1, <4>2 DEF Holders
    <3>2. CASE p[2] \in 1 .. Len(stack[t]) - 1
      <4>a. \A n \in Nat : \A k \in 1 .. n - 1 :
              (n - 1) + 1 - k \in 1 .. n - 1 /\ n + 1 - k = ((n - 1) + 1 - k) + 1
        OBVIOUS
      <4>1. Len(stack'[t]) + 1 - p[2] \in 1 .. Len(stack[t]) - 1
            /\ Len(stack[t]) + 1 - p[2] = (Len(stack'[t]) + 1 - p[2]) + 1
        BY <2>1, <2>3, <3>0, <3>2, <4>a
      <4>2. Place(p[1], p[2])' = Place(p[1], p[2])
        BY <2>3, <4>1 DEF Place, Popped
      <4>3. 1 <= p[2] /\ p[2] <= Len(stack[t]) /\ p[2] <= Len(stack'[t])
        BY <2>1, <2>3, <3>0, <3>2
      <4> QED
        BY <2>3, <4>2, <4>3 DEF Holders
    <3>3. CASE p[2] \notin 1 .. Len(stack[t])
      BY <2>1, <2>3, <3>0, <3>3 DEF Holders
    <3> QED
      BY <2>1, <2>3, <3>1, <3>2, <3>3
  <2> QED
    BY <2>2, <2>3
<1> QED
  BY <1>1 DEF Holders

LEMMA LaneKept ==
  ASSUME LaneInv, lane' = lane, \A d \in Devices : Holders(d)' = Holders(d)
  PROVE  LaneInv'
BY DEF LaneInv

\* A call takes its lane.
LEMMA HoldersUp ==
  ASSUME StackType, NEW t \in Threads, stack[t] # <<>>, NEW c, TopBecomes(t, c),
         stack[t][1].at \notin Holding, c.at \in Holding
  PROVE  /\ <<t, Len(stack[t])>> \notin Holders(c.dev)
         /\ \A d \in Devices :
              Holders(d)' = IF d = c.dev THEN Holders(d) \cup {<<t, Len(stack[t])>>} ELSE Holders(d)
<1> DEFINE top == <<t, Len(stack[t])>>
<1>0. Len(stack[t]) \in Nat /\ top \in Threads \X Nat
  BY StackFacts
<1>1. top \notin Holders(c.dev)
  BY PlacesReplaced DEF Holders
<1>2. ASSUME NEW d \in Devices, NEW p \in Threads \X Nat
      PROVE  p \in Holders(d)' <=> p \in Holders(d) \/ (p = top /\ d = c.dev)
  <2>1. p[1] \in Threads /\ p[2] \in Nat
    OBVIOUS
  <2>2. Len(stack'[p[1]]) = Len(stack[p[1]]) /\ Len(stack[p[1]]) \in Nat
    BY <2>1, PlacesReplaced
  <2>3. CASE p = top
    <3>1. p[1] = t /\ p[2] = Len(stack[t])
      BY <2>3
    <3>2. /\ Place(t, Len(stack[t])) = stack[t][1] /\ Place(t, Len(stack[t]))' = c
          /\ Len(stack[t]) \in 1 .. Len(stack[t])
      BY PlacesReplaced
    <3>3. p \notin Holders(d)
      BY <3>1, <3>2 DEF Holders
    <3>4. Place(p[1], p[2])' = c
      BY <2>2, <3>1, <3>2 DEF Place
    <3>5. 1 <= p[2] /\ p[2] <= Len(stack'[p[1]])
      BY <2>2, <3>1, <3>2
    <3>6. p \in Holders(d)' <=> d = c.dev
      BY <3>4, <3>5 DEF Holders
    <3> QED
      BY <2>3, <3>3, <3>6
  <2>4. CASE p # top /\ p[2] \in 1 .. Len(stack[p[1]])
    <3>0. ~(p[1] = t /\ p[2] = Len(stack[t]))
      BY <2>4
    <3>1. /\ Place(p[1], p[2])'.at = Place(p[1], p[2]).at
          /\ Place(p[1], p[2])'.dev = Place(p[1], p[2]).dev
      BY <2>1, <2>4, <3>0, PlacesReplaced
    <3> QED
      BY <2>1, <2>2, <2>4, <3>1 DEF Holders
  <2>5. CASE p[2] \notin 1 .. Len(stack[p[1]]) /\ p # top
    BY <2>1, <2>2, <2>5 DEF Holders
  <2> QED
    BY <2>3, <2>4, <2>5
<1>3. \A d \in Devices : Holders(d) \subseteq Threads \X Nat /\ Holders(d)' \subseteq Threads \X Nat
  BY DEF Holders
<1> HIDE DEF top
<1>4. ASSUME NEW d \in Devices
      PROVE  Holders(d)' = IF d = c.dev THEN Holders(d) \cup {top} ELSE Holders(d)
  BY <1>0, <1>2, <1>3
<1> QED
  BY <1>1, <1>4 DEF top

\* A call gives its lane back.
LEMMA HoldersDown ==
  ASSUME StackType, NEW t \in Threads, stack[t] # <<>>, NEW c, TopBecomes(t, c),
         stack[t][1].at \in Holding, c.at \notin Holding
  PROVE  /\ <<t, Len(stack[t])>> \in Holders(stack[t][1].dev)
         /\ \A d \in Devices :
              Holders(d)' = IF d = stack[t][1].dev THEN Holders(d) \ {<<t, Len(stack[t])>>}
                            ELSE Holders(d)
<1> DEFINE top == <<t, Len(stack[t])>>
<1>0. Len(stack[t]) \in Nat /\ top \in Threads \X Nat
  BY StackFacts
<1>a. /\ Place(t, Len(stack[t])) = stack[t][1] /\ Place(t, Len(stack[t]))' = c
      /\ Len(stack[t]) \in 1 .. Len(stack[t])
  BY PlacesReplaced
<1>1. top \in Holders(stack[t][1].dev)
  BY <1>0, <1>a DEF Holders
<1>2. ASSUME NEW d \in Devices, NEW p \in Threads \X Nat
      PROVE  p \in Holders(d)' <=> p \in Holders(d) /\ p # top
  <2>1. p[1] \in Threads /\ p[2] \in Nat
    OBVIOUS
  <2>2. Len(stack'[p[1]]) = Len(stack[p[1]]) /\ Len(stack[p[1]]) \in Nat
    BY <2>1, PlacesReplaced
  <2>3. CASE p = top
    <3>1. p[1] = t /\ p[2] = Len(stack[t])
      BY <2>3
    <3>2. Place(p[1], p[2])' = c
      BY <1>a, <2>2, <3>1 DEF Place
    <3>3. p \notin Holders(d)'
      BY <3>2 DEF Holders
    <3> QED
      BY <2>3, <3>3
  <2>4. CASE p # top /\ p[2] \in 1 .. Len(stack[p[1]])
    <3>0. ~(p[1] = t /\ p[2] = Len(stack[t]))
      BY <2>4
    <3>1. /\ Place(p[1], p[2])'.at = Place(p[1], p[2]).at
          /\ Place(p[1], p[2])'.dev = Place(p[1], p[2]).dev
      BY <2>1, <2>4, <3>0, PlacesReplaced
    <3> QED
      BY <2>1, <2>2, <2>4, <3>1 DEF Holders
  <2>5. CASE p[2] \notin 1 .. Len(stack[p[1]]) /\ p # top
    BY <2>1, <2>2, <2>5 DEF Holders
  <2> QED
    BY <2>3, <2>4, <2>5
<1>3. \A d \in Devices : Holders(d) \subseteq Threads \X Nat /\ Holders(d)' \subseteq Threads \X Nat
  BY DEF Holders
<1>4. \A d \in Devices : d # stack[t][1].dev => top \notin Holders(d)
  BY <1>a DEF Holders
<1> HIDE DEF top
<1>5. ASSUME NEW d \in Devices
      PROVE  Holders(d)' = IF d = stack[t][1].dev THEN Holders(d) \ {top} ELSE Holders(d)
  BY <1>2, <1>3, <1>4
<1> QED
  BY <1>1, <1>5 DEF top

LEMMA LaneAcquired ==
  ASSUME StackType, LaneInv, NEW t \in Threads, stack[t] # <<>>, NEW c, TopBecomes(t, c),
         stack[t][1].at \notin Holding, c.at \in Holding, c.dev \in Devices,
         LaneFree(t, c.dev), Acquire(t, c.dev)
  PROVE  LaneInv'
<1>1. lane \in [Devices -> [owner : Threads \cup {NoThread}, depth : Nat]]
  BY DEF LaneInv
<1>2. PICK o \in Threads \cup {NoThread}, n \in Nat : o = lane[c.dev].owner /\ n = lane[c.dev].depth
  BY <1>1
<1>3. lane' = [lane EXCEPT ![c.dev] = [owner |-> t, depth |-> n + 1]]
  BY <1>2 DEF Acquire
<1>4. lane' \in [Devices -> [owner : Threads \cup {NoThread}, depth : Nat]]
  BY <1>1, <1>2, <1>3
<1>5. ASSUME NEW d \in Devices
      PROVE  /\ IsFiniteSet(Holders(d)') /\ lane'[d].depth = Cardinality(Holders(d)')
             /\ \A p \in Holders(d)' : p[1] = lane'[d].owner
  <2>1. /\ IsFiniteSet(Holders(d)) /\ lane[d].depth = Cardinality(Holders(d))
        /\ \A p \in Holders(d) : p[1] = lane[d].owner
    BY DEF LaneInv
  <2>2. CASE d # c.dev
    <3>1. Holders(d)' = Holders(d) /\ lane'[d] = lane[d]
      BY <1>1, <1>3, <2>2, HoldersUp
    <3> QED
      BY <2>1, <3>1
  <2>3. CASE d = c.dev
    <3>1. /\ <<t, Len(stack[t])>> \notin Holders(d)
          /\ Holders(d)' = Holders(d) \cup {<<t, Len(stack[t])>>}
      BY <2>3, HoldersUp
    <3>2. lane'[d].owner = t /\ lane'[d].depth = n + 1
      BY <1>1, <1>3, <2>3
    <3>a. IsFiniteSet(Holders(d) \cup {<<t, Len(stack[t])>>})
          /\ Cardinality(Holders(d) \cup {<<t, Len(stack[t])>>}) = Cardinality(Holders(d)) + 1
      BY <2>1, <3>1, FS_AddElement, Zenon
    <3>3. IsFiniteSet(Holders(d)') /\ Cardinality(Holders(d)') = Cardinality(Holders(d)) + 1
      BY <3>1, <3>a
    <3>4. ASSUME NEW p \in Holders(d) PROVE p[1] = t
      <4>1. p[1] \in Threads /\ p[1] = o
        BY <1>2, <2>1, <2>3 DEF Holders
      <4> QED
        BY <1>2, <4>1, ThreadFacts DEF LaneFree
    <3> QED
      BY <1>2, <2>1, <2>3, <3>1, <3>2, <3>3, <3>4
  <2> QED
    BY <2>2, <2>3
<1> QED
  BY <1>4, <1>5 DEF LaneInv

LEMMA LaneReleased ==
  ASSUME StackType, LaneInv, NEW t \in Threads, stack[t] # <<>>, NEW c, TopBecomes(t, c),
         stack[t][1].at \in Holding, c.at \notin Holding, NEW e \in Devices, e = stack[t][1].dev,
         Release(t, e)
  PROVE  LaneInv'
<1>1. lane \in [Devices -> [owner : Threads \cup {NoThread}, depth : Nat]]
  BY DEF LaneInv
<1>2. PICK o \in Threads \cup {NoThread}, n \in Nat : o = lane[e].owner /\ n = lane[e].depth
  BY <1>1
<1>3. /\ IsFiniteSet(Holders(e)) /\ n = Cardinality(Holders(e))
      /\ \A p \in Holders(e) : p[1] = o
  BY <1>2 DEF LaneInv
<1>4. /\ <<t, Len(stack[t])>> \in Holders(e)
      /\ Holders(e)' = Holders(e) \ {<<t, Len(stack[t])>>}
  BY HoldersDown
<1>5. /\ IsFiniteSet(Holders(e)') /\ Cardinality(Holders(e)') = n - 1
      /\ n # 0
  <2>1. IsFiniteSet(Holders(e)') /\ Cardinality(Holders(e)') = Cardinality(Holders(e)) - 1
    BY <1>3, <1>4, FS_RemoveElement
  <2>2. Cardinality(Holders(e)) # 0
    BY <1>3, <1>4, FS_EmptySet
  <2> QED
    BY <1>3, <2>1, <2>2
<1>6. lane' = [lane EXCEPT ![e] = [owner |-> IF n = 1 THEN NoThread ELSE o, depth |-> n - 1]]
  <2>1. CASE n = 1
    <3>1. lane' = [lane EXCEPT ![e] = FreeLane]
      BY <1>1, <1>2, <2>1 DEF Release
    <3> QED
      BY <2>1, <3>1 DEF FreeLane
  <2>2. CASE n # 1
    <3>1. lane' = [lane EXCEPT ![e] = [owner |-> o, depth |-> n - 1]]
      BY <1>1, <1>2, <2>2 DEF Release
    <3> QED
      BY <2>2, <3>1
  <2> QED
    BY <2>1, <2>2
<1>7. n - 1 \in Nat /\ (IF n = 1 THEN NoThread ELSE o) \in Threads \cup {NoThread}
  BY <1>2, <1>5
<1>8. lane' \in [Devices -> [owner : Threads \cup {NoThread}, depth : Nat]]
  BY <1>1, <1>6, <1>7
<1>9. ASSUME NEW d \in Devices
      PROVE  /\ IsFiniteSet(Holders(d)') /\ lane'[d].depth = Cardinality(Holders(d)')
             /\ \A p \in Holders(d)' : p[1] = lane'[d].owner
  <2>1. CASE d # e
    <3>1. Holders(d)' = Holders(d) /\ lane'[d] = lane[d]
      BY <1>1, <1>6, <2>1, HoldersDown
    <3> QED
      BY <3>1 DEF LaneInv
  <2>2. CASE d = e
    <3>1. lane'[d].owner = (IF n = 1 THEN NoThread ELSE o) /\ lane'[d].depth = n - 1
      BY <1>1, <1>6, <2>2
    <3>2. n = 1 => Holders(e)' = {}
      BY <1>5, FS_EmptySet
    <3> QED
      BY <1>3, <1>4, <1>5, <2>2, <3>1, <3>2
  <2> QED
    BY <2>1, <2>2
<1> QED
  BY <1>8, <1>9 DEF LaneInv

\* While a call holds a lane, calls of other threads do not.
LEMMA LaneHeld ==
  ASSUME StackType, LaneInv, NEW t \in Threads, NEW u \in Threads,
         NEW i \in 1 .. Len(stack[t]), NEW j \in 1 .. Len(stack[u]),
         stack[t][i].at \in Holding, stack[u][j].at \in Holding,
         stack[t][i].dev \in Devices, stack[t][i].dev = stack[u][j].dev
  PROVE  t = u
<1>1. ASSUME NEW v \in Threads, NEW k \in 1 .. Len(stack[v]), stack[v][k].at \in Holding
      PROVE  <<v, Len(stack[v]) + 1 - k>> \in Holders(stack[v][k].dev)
  <2>1. Len(stack[v]) \in Nat
    BY StackFacts
  <2>2. Len(stack[v]) + 1 - k \in 1 .. Len(stack[v])
        /\ Len(stack[v]) + 1 - (Len(stack[v]) + 1 - k) = k
    BY <2>1
  <2>3. Place(v, Len(stack[v]) + 1 - k) = stack[v][k]
    BY <2>2 DEF Place
  <2>4. PICK place : place = Len(stack[v]) + 1 - k
    OBVIOUS
  <2>5. place \in Nat /\ 1 <= place /\ place <= Len(stack[v])
    BY <2>1, <2>2, <2>4
  <2>6. <<v, place>> \in Holders(stack[v][k].dev)
    BY <1>1, <2>3, <2>4, <2>5 DEF Holders
  <2> QED
    BY <2>4, <2>6
<1>2. <<t, Len(stack[t]) + 1 - i>> \in Holders(stack[t][i].dev)
      /\ <<u, Len(stack[u]) + 1 - j>> \in Holders(stack[t][i].dev)
  BY <1>1
<1> QED
  BY <1>2 DEF LaneInv

-------------------------------------------------------------------------------
(* What each part of the invariant asks of a step.                             *)

LEMMA RelayFacts ==
  ASSUME RelayInv
  PROVE  /\ TypesInv /\ LaneInv /\ CommitInv /\ OpenInv
         /\ Orderly => FrameInv /\ PredictInv /\ ShownInv
BY DEF RelayInv

LEMMA LikeLost ==
  ASSUME NEW c, NEW e, Like(c, e), LostShown(c)
  PROVE  LostShown(e) /\ c.dev = e.dev
BY DEF Like, LostShown

\* No call is about to disarm a slot but those that were.
LEMMA CommitFollows ==
  ASSUME CommitInv, slot' = slot, armedBy' = armedBy,
         \A u \in Threads : \A i \in 1 .. Len(stack'[u]) :
           LostShown(stack'[u][i]) =>
             \E j \in 1 .. Len(stack[u]) :
               LostShown(stack[u][j]) /\ stack'[u][i].dev = stack[u][j].dev
  PROVE  CommitInv'
<1>1. ASSUME NEW u \in Threads, NEW i \in 1 .. Len(stack'[u]), LostShown(stack'[u][i]),
             slot'[stack'[u][i].dev].captured
      PROVE  ~armedBy'[stack'[u][i].dev]
  <2>1. PICK j \in 1 .. Len(stack[u]) :
          LostShown(stack[u][j]) /\ stack'[u][i].dev = stack[u][j].dev
    BY <1>1
  <2> QED
    BY <1>1, <2>1 DEF CommitInv
<1>2. \A d \in Devices : armedBy'[d] => slot'[d].armed
  BY DEF CommitInv
<1> QED
  BY <1>1, <1>2 DEF CommitInv, LostShown

LEMMA CommitArrives ==
  ASSUME CommitInv, slot' = slot, armedBy' = armedBy, NEW t \in Threads, NEW c, Arrives(t, c),
         LostShown(c) => /\ 1 \in 1 .. Len(stack[t])
                         /\ LostShown(stack[t][1]) /\ c.dev = stack[t][1].dev
  PROVE  CommitInv'
<1>1. ASSUME NEW u \in Threads, NEW i \in 1 .. Len(stack'[u]), LostShown(stack'[u][i])
      PROVE  \E j \in 1 .. Len(stack[u]) :
               LostShown(stack[u][j]) /\ stack'[u][i].dev = stack[u][j].dev
  <2>1. CASE u = t /\ i = 1 /\ stack'[u][i] = c
    BY <1>1, <2>1
  <2>2. CASE \E j \in 1 .. Len(stack[u]) : Like(stack'[u][i], stack[u][j])
    BY <1>1, <2>2, LikeLost
  <2> QED
    BY <2>1, <2>2 DEF Arrives
<1> QED
  BY <1>1, CommitFollows

\* A call that is about to disarm a slot is the only one of RunFrame.
LEMMA LostIsFrame ==
  ASSUME StackInv, NEW t \in Threads, NEW i \in 1 .. Len(stack[t]), LostShown(stack[t][i])
  PROVE  t = Frame /\ i = Len(stack[Frame])
<1>1. stack[t][i].at \in {"run.commit", "host.synthetic", "submit.leave"}
  BY DEF LostShown
<1>2. stack[t][i].at \notin CallbackLabels /\ stack[t][i].at \notin LifeLabels
  BY <1>1 DEF CallbackLabels, PoseLabels, GetLabels, LifeLabels, InitLabels, CleanLabels
<1> QED
  BY <1>2, ThreadFacts DEF StackInv

LEMMA NoneNewerFollows ==
  ASSUME NEW d, NoneNewer(d), NEW t \in Threads, NEW c, Arrives(t, c),
         c.dev = d /\ c.newer => c.at \notin {"pose.bypass", "pose.call"}
  PROVE  NoneNewer(d)'
<1>1. ASSUME NEW u \in Threads, NEW i \in 1 .. Len(stack'[u]),
             stack'[u][i].dev = d, stack'[u][i].newer
      PROVE  stack'[u][i].at \notin {"pose.bypass", "pose.call"}
  <2>1. CASE u = t /\ i = 1 /\ stack'[u][i] = c
    BY <1>1, <2>1
  <2>2. ASSUME NEW j \in 1 .. Len(stack[u]), Like(stack'[u][i], stack[u][j])
        PROVE  stack'[u][i].at \notin {"pose.bypass", "pose.call"}
    <3>1. /\ stack[u][j].dev = d /\ stack[u][j].newer /\ stack'[u][i].at = stack[u][j].at
      BY <1>1, <2>2 DEF Like
    <3> QED
      BY <3>1 DEF NoneNewer
  <2> QED
    BY <2>1, <2>2 DEF Arrives
<1> QED
  BY <1>1 DEF NoneNewer

LEMMA ComingRemains ==
  ASSUME NEW t \in Threads, Remains(t), StackType
  PROVE  \A d \in Devices :
           /\ Coming(d)
           /\ stack[t] # <<>> => ~(stack[t][1].at = "pose.call" /\ stack[t][1].dev = d)
           => Coming(d)'
<1> SUFFICES ASSUME NEW d \in Devices, Coming(d),
                    stack[t] # <<>> => ~(stack[t][1].at = "pose.call" /\ stack[t][1].dev = d)
             PROVE  Coming(d)'
  OBVIOUS
<1>1. PICK u \in Threads : \E i \in 1 .. Len(stack[u]) :
        stack[u][i].at = "pose.call" /\ stack[u][i].dev = d
  BY DEF Coming
<1>2. PICK i \in 1 .. Len(stack[u]) : stack[u][i].at = "pose.call" /\ stack[u][i].dev = d
  BY <1>1
<1>3. ~(u = t /\ i = 1)
  BY <1>2, StackFacts
<1>4. PICK j \in 1 .. Len(stack'[u]) : Like(stack'[u][j], stack[u][i])
  BY <1>3 DEF Remains
<1>5. stack'[u][j].at = "pose.call" /\ stack'[u][j].dev = d
  BY <1>2, <1>4 DEF Like
<1> QED
  BY <1>5 DEF Coming

LEMMA FollowedKept ==
  ASSUME NEW d, Followed(d), slot'[d] = slot[d], shown'[d] = shown[d], Coming(d) => Coming(d)'
  PROVE  Followed(d)'
BY DEF Followed

LEMMA ShownFollows ==
  ASSUME ShownInv, slot' = slot, shown' = shown, ready' = ready,
         \A d \in Devices : Coming(d) => Coming(d)'
  PROVE  ShownInv'
<1>1. ASSUME NEW d \in Devices, ready' PROVE Followed(d)'
  <2>1. Followed(d)
    BY <1>1 DEF ShownInv
  <2> QED
    BY <2>1, FollowedKept
<1> QED
  BY <1>1 DEF ShownInv

\* A prediction in progress, of a device no callback has come for since.
Foretold(d) ==
  /\ stack[Frame] # <<>> /\ stack[Frame][1].at \in Predicting
  /\ stack[Frame][1].dev = d /\ slot[d].captured

\* A prediction that goes on is still current.
LEMMA CurrentFollows ==
  ASSUME NEW p, NEW q, Current(p), q.dev = p.dev, q.lost = p.lost,
         q.at = "submit.call" =>
           p.at = "submit.call" \/ (slot[p.dev].armed /\ slot[p.dev].captured),
         slot'[p.dev] = slot[p.dev], slot[p.dev].captured /\ basis[p.dev] => basis'[p.dev],
         kind[p.dev] = "ViveTracker" => kind'[p.dev] = "ViveTracker",
         hooks.pose = "on" => hooks'.pose = "on",
         slot[p.dev].captured /\ NoneNewer(p.dev) => NoneNewer(p.dev)'
  PROVE  Current(q)'
<1>1. /\ kind'[q.dev] = "ViveTracker" /\ hooks'.pose = "on"
  BY DEF Current
<1>2. slot'[q.dev].captured => basis'[q.dev] /\ (q.lost <=> slot'[q.dev].filter = "Lost")
  BY DEF Current
<1>3. slot'[q.dev].captured => NoneNewer(p.dev)'
  BY DEF Current
<1>4. NoneNewer(p.dev)' <=> NoneNewer(q.dev)'
  BY DEF NoneNewer
<1>5. q.at = "submit.call" => slot'[q.dev].armed /\ slot'[q.dev].captured
  BY DEF Current
<1> QED
  BY <1>1, <1>2, <1>3, <1>4, <1>5 DEF Current, NoneNewer

\* In terms of the call that RunFrame is at next.
LEMMA PredictNext ==
  ASSUME \A q : /\ stack'[Frame] # <<>> /\ q = stack'[Frame][1] /\ q.at \in Predicting
               => Current(q)'
  PROVE  PredictInv'
<1>1. SUFFICES ASSUME stack'[Frame] # <<>>, stack'[Frame][1].at \in Predicting
               PROVE  Current(stack[Frame][1])'
  BY DEF PredictInv
<1>2. PICK q : q = stack'[Frame][1]
  OBVIOUS
<1>3. Current(q)'
  BY <1>1, <1>2
<1> QED
  BY <1>2, <1>3 DEF Current, NoneNewer

-------------------------------------------------------------------------------
(* Steps that only move calls.                                                 *)

Calm == UNCHANGED <<active, ready, kind, slot, hooks, lane, route, shown, basis, armedBy>>

LEMMA CalmTypes ==
  ASSUME TypesInv, Calm PROVE TypesInv'
BY DEF TypesInv, Calm

LEMMA OpenKept ==
  ASSUME OpenInv, hooks' = hooks, ready' = ready, LifeAt' = LifeAt PROVE OpenInv'
BY DEF OpenInv, Opened

\* Nobody but Frame begins or ends a RunFrame, and nobody but Life an Init or a Cleanup.
LEMMA FrameKept ==
  ASSUME FrameInv, ready' = ready, stack'[Frame] # <<>> => stack[Frame] # <<>>,
         stack[Life] = <<>> => stack'[Life] = <<>>
  PROVE  FrameInv'
BY DEF FrameInv

LEMMA FrameMoves ==
  ASSUME StackType, FrameInv, NEW t \in Threads, stack[t] # <<>>, NEW c, TopBecomes(t, c),
         ready' = ready
  PROVE  FrameInv'
<1>1. \A u \in Threads : stack'[u] = <<>> <=> stack[u] = <<>>
  BY TopCounted
<1> QED
  BY <1>1, FrameKept, ThreadFacts

\* A callback goes on while RunFrame may be predicting.
LEMMA OthersPredict ==
  ASSUME ShutdownInv, PredictInv, NEW t \in Threads, stack[t] # <<>>, NEW c, TopBecomes(t, c),
         c.at \notin Predicting,
         \A p, q : /\ t # Frame /\ stack[Frame] # <<>> /\ 1 \in 1 .. Len(stack[Frame])
                  /\ p = stack[Frame][1] /\ p.at \in Predicting /\ p.dev \in Devices /\ Current(p)
                  /\ q.at = p.at /\ q.dev = p.dev /\ q.lost = p.lost
                  => Current(q)'
  PROVE  PredictInv'
<1>1. StackType /\ StackInv
  BY StackInvType DEF ShutdownInv
<1>2. ASSUME NEW q, stack'[Frame] # <<>>, q = stack'[Frame][1], q.at \in Predicting
      PROVE  Current(q)'
  <2>1. t # Frame
    BY <1>2 DEF TopBecomes
  <2>2. PICK p : p = stack[Frame][1]
    OBVIOUS
  <2>3. stack[Frame] # <<>> /\ 1 \in 1 .. Len(stack[Frame])
    BY <1>1, <1>2, TopCounted, StackFacts, ThreadFacts
  <2>4. Like(q, p)
    BY <1>2, <2>1, <2>2, <2>3, ThreadFacts DEF TopBecomes
  <2>5. p.at \in Predicting /\ q.at = p.at /\ q.dev = p.dev /\ q.lost = p.lost
    BY <1>2, <2>4 DEF Like
  <2>6. Current(p)
    BY <2>2, <2>3, <2>5 DEF PredictInv
  <2>7. p.dev \in Devices
    <3>1. CallOK(p) /\ Predicting \subseteq SubmitLabels
      BY <1>1, <2>2, <2>3, ThreadFacts DEF StackInv, Predicting, SubmitLabels
    <3> QED
      BY <2>5, <3>1 DEF CallOK
  <2> QED
    BY <2>1, <2>2, <2>3, <2>5, <2>6, <2>7
<1> QED
  BY <1>2, PredictNext

LEMMA RelayMove ==
  ASSUME ShutdownInv, RelayInv, NEW t \in Threads, t # Life, stack[t] # <<>>,
         NEW e, e = stack[t][1], NEW c, TopBecomes(t, c), TypesInv', LaneInv', OpenInv',
         UNCHANGED <<ready, slot, shown, basis, armedBy>>,
         \A d \in Devices : kind[d] = "ViveTracker" => kind'[d] = "ViveTracker",
         hooks.pose = "on" => hooks'.pose = "on",
         LostShown(c) => LostShown(e) /\ c.dev = e.dev,
         c.at \in Predicting => e.at \in Predicting /\ c.dev = e.dev /\ c.lost = e.lost,
         c.at = "submit.call" => slot[e.dev].armed /\ slot[e.dev].captured,
         e.at # "pose.call",
         Orderly /\ c.newer /\ c.at \in {"pose.bypass", "pose.call"} => ~Foretold(c.dev)
  PROVE  RelayInv'
<1>1. /\ StackType /\ StackInv /\ CommitInv
      /\ Orderly => FrameInv /\ PredictInv /\ ShownInv
  BY RelayFacts, StackInvType DEF ShutdownInv
<1>2. Arrives(t, c) /\ Remains(t) /\ 1 \in 1 .. Len(stack[t])
  BY <1>1, TopArrives, StackFacts
<1>3. UNCHANGED <<ready, slot, shown, basis, armedBy>>
  OBVIOUS
<1>4. CommitInv'
  BY <1>1, <1>2, <1>3, CommitArrives
<1>5. ASSUME Orderly PROVE FrameInv' /\ PredictInv' /\ ShownInv'
  <2>1. FrameInv'
    <3>1. \A u \in Threads : stack'[u] = <<>> <=> stack[u] = <<>>
      BY <1>1, TopCounted
    <3> QED
      BY <1>1, <1>3, <1>5, <3>1, FrameKept, ThreadFacts
  <2>2. ShownInv'
    <3>1. \A d \in Devices : Coming(d) => Coming(d)'
      BY <1>1, <1>2, ComingRemains
    <3> QED
      BY <1>1, <1>3, <1>5, <3>1, ShownFollows
  <2>3. ASSUME NEW q, stack'[Frame] # <<>>, q = stack'[Frame][1], q.at \in Predicting
        PROVE  Current(q)'
    <3>2. PICK p : p = stack[Frame][1]
      OBVIOUS
    <3>3. stack[Frame] # <<>> /\ 1 \in 1 .. Len(stack[Frame])
      BY <1>1, <2>3, TopCounted, StackFacts, ThreadFacts
    <3>4. /\ p.at \in Predicting /\ q.dev = p.dev /\ q.lost = p.lost
          /\ q.at = "submit.call" =>
               p.at = "submit.call" \/ (slot[p.dev].armed /\ slot[p.dev].captured)
      <4>1. CASE t = Frame
        BY <2>3, <3>2, <4>1 DEF TopBecomes
      <4>2. CASE t # Frame
        <5>1. Like(q, p)
          BY <2>3, <3>2, <3>3, <4>2, ThreadFacts DEF TopBecomes
        <5> QED
          BY <2>3, <5>1 DEF Like
      <4> QED
        BY <4>1, <4>2
    <3>5. Current(p)
      BY <1>1, <1>5, <3>2, <3>3, <3>4 DEF PredictInv
    <3>6. slot[p.dev].captured /\ NoneNewer(p.dev) => NoneNewer(p.dev)'
      <4>1. slot[p.dev].captured => Foretold(p.dev)
        BY <3>2, <3>3, <3>4 DEF Foretold
      <4> QED
        BY <1>2, <1>5, <4>1, NoneNewerFollows
    <3>7. p.dev \in Devices
      <4>1. CallOK(p) /\ Predicting \subseteq SubmitLabels
        BY <1>1, <3>2, <3>3, ThreadFacts DEF StackInv, Predicting, SubmitLabels
      <4> QED
        BY <3>4, <4>1 DEF CallOK
    <3> QED
      BY <1>3, <3>4, <3>5, <3>6, <3>7, CurrentFollows
  <2> QED
    BY <2>1, <2>2, <2>3, PredictNext
<1> QED
  BY <1>4, <1>5 DEF RelayInv

LEMMA CalmMove ==
  ASSUME ShutdownInv, RelayInv, NEW t \in Threads, t # Life, stack[t] # <<>>,
         NEW e, e = stack[t][1], NEW c, TopBecomes(t, c), Calm,
         c.at \in Holding <=> e.at \in Holding, c.at \in Holding => c.dev = e.dev,
         LostShown(c) => LostShown(e) /\ c.dev = e.dev,
         c.at \in Predicting => /\ e.at \in Predicting /\ c.at # "submit.call"
                                /\ c.dev = e.dev /\ c.lost = e.lost,
         e.at # "pose.call",
         Orderly /\ c.newer /\ c.at \in {"pose.bypass", "pose.call"} => ~Foretold(c.dev)
  PROVE  RelayInv'
<1>1. StackType /\ TypesInv /\ LaneInv /\ OpenInv
  BY RelayFacts, StackInvType DEF ShutdownInv
<1>2. UNCHANGED <<active, ready, kind, slot, hooks, lane, route, shown, basis, armedBy>>
  BY DEF Calm
<1>3. LaneInv'
  BY <1>1, <1>2, HoldersKept, LaneKept
<1>4. TypesInv' /\ OpenInv'
  BY <1>1, <1>2, LifeAtKept, CalmTypes, OpenKept
<1>5. c.at # "submit.call"
  BY DEF Predicting
<1> QED
  BY <1>2, <1>3, <1>4, <1>5, RelayMove

LEMMA CalmPush ==
  ASSUME ShutdownInv, RelayInv, NEW t \in Threads, t # Life, NEW c, Pushed(t, c), Calm,
         Orderly => FrameInv', c.at \notin Holding, ~LostShown(c), c.at \notin Predicting,
         c.at \notin {"pose.bypass", "pose.call"}
  PROVE  RelayInv'
<1>1. /\ StackType /\ TypesInv /\ LaneInv /\ CommitInv /\ OpenInv
      /\ Orderly => FrameInv /\ PredictInv /\ ShownInv
  BY RelayFacts, StackInvType DEF ShutdownInv
<1>2. /\ Arrives(t, c)
      /\ \A u \in Threads : \A i \in 1 .. Len(stack[u]) :
           \E j \in 1 .. Len(stack'[u]) : Like(stack'[u][j], stack[u][i])
  BY <1>1, PushArrives
<1>3. UNCHANGED <<active, ready, kind, slot, hooks, lane, route, shown, basis, armedBy>>
  BY DEF Calm
<1>4. LifeAt' = LifeAt
  BY <1>1, LifeAtElsewhere
<1>5. LaneInv'
  BY <1>1, <1>3, HoldersPushed, LaneKept
<1>6. CommitInv'
  BY <1>1, <1>2, <1>3, CommitArrives
<1>7. TypesInv' /\ OpenInv'
  BY <1>1, <1>3, <1>4, CalmTypes, OpenKept
<1>8. ASSUME Orderly PROVE PredictInv' /\ ShownInv'
  <2>1. ShownInv'
    <3>1. ASSUME NEW d \in Devices, Coming(d) PROVE Coming(d)'
      <4>1. PICK u \in Threads : \E i \in 1 .. Len(stack[u]) :
              stack[u][i].at = "pose.call" /\ stack[u][i].dev = d
        BY <3>1 DEF Coming
      <4>2. PICK i \in 1 .. Len(stack[u]) : stack[u][i].at = "pose.call" /\ stack[u][i].dev = d
        BY <4>1
      <4>3. PICK j \in 1 .. Len(stack'[u]) : Like(stack'[u][j], stack[u][i])
        BY <1>2
      <4>4. stack'[u][j].at = "pose.call" /\ stack'[u][j].dev = d
        BY <4>2, <4>3 DEF Like
      <4> QED
        BY <4>4 DEF Coming
    <3> QED
      BY <1>1, <1>3, <1>8, <3>1, ShownFollows
  <2>2. ASSUME NEW q, stack'[Frame] # <<>>, q = stack'[Frame][1], q.at \in Predicting
        PROVE  Current(q)'
    <3>1. t # Frame /\ stack'[Frame] = stack[Frame]
      BY <2>2, ThreadFacts DEF Pushed
    <3>2. Current(q)
      BY <1>1, <1>8, <2>2, <3>1 DEF PredictInv
    <3>3. slot[q.dev].captured /\ NoneNewer(q.dev) => NoneNewer(q.dev)'
      BY <1>2, NoneNewerFollows
    <3> QED
      BY <1>3, <3>2, <3>3, CurrentFollows
  <2> QED
    BY <2>1, <2>2, PredictNext
<1> QED
  BY <1>5, <1>6, <1>7, <1>8 DEF RelayInv

\* What a call that ends leaves behind is in the host.
LEMMA NextInHost ==
  ASSUME StackInv, NEW t \in Threads, stack[t] # <<>>, Popped(t), stack'[t] # <<>>
  PROVE  stack'[t][1].at \in InHost
<1>1. Len(stack[t]) \in Nat /\ stack'[t] \in Seq(CallType) /\ Len(stack'[t]) = Len(stack[t]) - 1
  BY StackInvType, StackFacts DEF Popped
<1>2. 1 \in 1 .. Len(stack[t]) - 1
  BY <1>1, SeqFacts
<1>3. stack'[t][1] = stack[t][1 + 1] /\ 1 + 1 \in 2 .. Len(stack[t])
  BY <1>1, <1>2 DEF Popped
<1> QED
  BY <1>3 DEF StackInv

LEMMA StillPredicting ==
  ASSUME StackInv, NEW t \in Threads, stack[t] # <<>>, Popped(t),
         NEW q, stack'[Frame] # <<>>, q = stack'[Frame][1], q.at \in Predicting
  PROVE  t # Frame /\ stack'[Frame] = stack[Frame]
<1>1. t = Frame => q.at \in InHost
  BY NextInHost
<1>2. q.at \notin InHost
  BY DEF Predicting, InHost
<1> QED
  BY <1>1, <1>2, ThreadFacts DEF Popped

LEMMA CalmPop ==
  ASSUME ShutdownInv, RelayInv, NEW t \in Threads, t # Life, stack[t] # <<>>, Popped(t), Calm,
         stack[t][1].at \notin Holding, stack[t][1].at # "pose.call"
  PROVE  RelayInv'
<1>1. /\ StackType /\ StackInv /\ TypesInv /\ LaneInv /\ CommitInv /\ OpenInv
      /\ Orderly => FrameInv /\ PredictInv /\ ShownInv
  BY RelayFacts, StackInvType DEF ShutdownInv
<1>2. /\ \A u \in Threads : \A i \in 1 .. Len(stack'[u]) :
           \E j \in 1 .. Len(stack[u]) : Like(stack'[u][i], stack[u][j])
      /\ Remains(t)
  BY <1>1, PopArrives
<1>3. UNCHANGED <<active, ready, kind, slot, hooks, lane, route, shown, basis, armedBy>>
  BY DEF Calm
<1>4. LifeAt' = LifeAt
  BY <1>1, LifeAtElsewhere
<1>5. LaneInv'
  BY <1>1, <1>3, HoldersPopped, LaneKept
<1>6. CommitInv'
  <2>1. ASSUME NEW u \in Threads, NEW i \in 1 .. Len(stack'[u]), LostShown(stack'[u][i])
        PROVE  \E j \in 1 .. Len(stack[u]) :
                 LostShown(stack[u][j]) /\ stack'[u][i].dev = stack[u][j].dev
    BY <1>2, <2>1, LikeLost
  <2> QED
    BY <1>1, <1>3, <2>1, CommitFollows
<1>7. TypesInv' /\ OpenInv'
  BY <1>1, <1>3, <1>4, CalmTypes, OpenKept
<1>8. ASSUME Orderly PROVE FrameInv' /\ PredictInv' /\ ShownInv'
  <2>1. FrameInv'
    <3>1. stack'[Frame] # <<>> => stack[Frame] # <<>>
      BY <1>1, ThreadFacts DEF Popped
    <3>2. stack'[Life] = stack[Life]
      BY ThreadFacts DEF Popped
    <3> QED
      BY <1>1, <1>3, <1>8, <3>1, <3>2, FrameKept
  <2>2. ShownInv'
    <3>1. \A d \in Devices : Coming(d) => Coming(d)'
      BY <1>1, <1>2, ComingRemains
    <3> QED
      BY <1>1, <1>3, <1>8, <3>1, ShownFollows
  <2>3. ASSUME NEW q, stack'[Frame] # <<>>, q = stack'[Frame][1], q.at \in Predicting
        PROVE  Current(q)'
    <3>1. t # Frame /\ stack'[Frame] = stack[Frame]
      BY <1>1, <2>3, StillPredicting
    <3>2. Current(q)
      BY <1>1, <1>8, <2>3, <3>1 DEF PredictInv
    <3>3. slot[q.dev].captured /\ NoneNewer(q.dev) => NoneNewer(q.dev)'
      <4>1. \A d : NoneNewer(d) => NoneNewer(d)'
        <5>1. ASSUME NEW d, NoneNewer(d), NEW u \in Threads, NEW i \in 1 .. Len(stack'[u]),
                     stack'[u][i].dev = d, stack'[u][i].newer
              PROVE  stack'[u][i].at \notin {"pose.bypass", "pose.call"}
          <6>1. PICK j \in 1 .. Len(stack[u]) : Like(stack'[u][i], stack[u][j])
            BY <1>2
          <6> QED
            BY <5>1, <6>1 DEF Like, NoneNewer
        <5> QED
          BY <5>1 DEF NoneNewer
      <4> QED
        BY <4>1
    <3> QED
      BY <1>3, <3>2, <3>3, CurrentFollows
  <2> QED
    BY <2>1, <2>2, <2>3, PredictNext
<1> QED
  BY <1>5, <1>6, <1>7, <1>8 DEF RelayInv

-------------------------------------------------------------------------------
(* Callbacks and requests.                                                     *)

\* The top call of t before and after it moves on to a label.
LEMMA Moved ==
  ASSUME ShutdownInv, NEW t \in Threads, NEW from, NEW to \in Labels, At(t, from), Goto(t, to)
  PROVE  \E e \in CallType, c \in CallType :
           /\ stack[t] # <<>> /\ e = stack[t][1] /\ e = Top(t) /\ e.at = from
           /\ CallOK(e) /\ e \in SafeCalls
           /\ TopBecomes(t, c) /\ c.at = to /\ c.dev = e.dev /\ c.sent = e.sent
           /\ c.lost = e.lost /\ c.newer = e.newer
<1>1. PICK e : e = stack[t][1]
  OBVIOUS
<1>2. stack[t] # <<>> /\ e = Top(t) /\ e.at = from /\ e \in CallType /\ CallOK(e) /\ e \in SafeCalls
  BY <1>1, AtFacts
<1>3. PICK c : c = [e EXCEPT !.at = to]
  OBVIOUS
<1>4. /\ c \in CallType /\ c.at = to /\ c.dev = e.dev /\ c.sent = e.sent
      /\ c.lost = e.lost /\ c.newer = e.newer
  BY <1>2, <1>3, RelabelFields
<1>5. TopBecomes(t, c)
  BY <1>1, <1>2, <1>3, GotoEffect, StackInvType DEF ShutdownInv
<1> QED
  BY <1>1, <1>2, <1>4, <1>5, Zenon

\* Labels of a step that matters to no lane, no prediction and no slot.
Indifferent(from, to) ==
  /\ from \notin LifeLabels /\ to \in Labels
  /\ to \in Holding <=> from \in Holding
  /\ to \in Predicting => from \in Predicting /\ to # "submit.call"
  /\ to \in {"run.commit", "host.synthetic"} => to = from
  /\ to = "submit.leave" => from \in BeforeHost \cup {to}
  /\ from # "pose.call" /\ to # "pose.call"

LEMMA CalmGoto ==
  ASSUME ShutdownInv, RelayInv, NEW t \in Threads, NEW from, NEW to, At(t, from), Goto(t, to),
         Calm, Indifferent(from, to),
         Orderly /\ to = "pose.bypass" => ~Foretold(Top(t).dev)
  PROVE  RelayInv'
<1>1. PICK e \in CallType, c \in CallType :
        /\ stack[t] # <<>> /\ e = stack[t][1] /\ e = Top(t) /\ e.at = from
        /\ CallOK(e) /\ e \in SafeCalls
        /\ TopBecomes(t, c) /\ c.at = to /\ c.dev = e.dev /\ c.sent = e.sent
        /\ c.lost = e.lost /\ c.newer = e.newer
  BY Moved DEF Indifferent
<1>2. t # Life
  <2>1. from \notin LifeLabels /\ Len(stack[Life]) \in Nat
    BY StackInvType, StackFacts, ThreadFacts DEF ShutdownInv, Indifferent
  <2>2. t = Life => 1 \in 1 .. Len(stack[Life])
    BY <1>1, StackInvType, StackFacts DEF ShutdownInv
  <2> QED
    BY <1>1, <2>1, <2>2 DEF ShutdownInv, StackInv
<1>3. LostShown(c) => LostShown(e)
  BY <1>1 DEF LostShown, Indifferent, CallOK
<1>4. Orderly /\ c.newer /\ c.at \in {"pose.bypass", "pose.call"} => ~Foretold(c.dev)
  BY <1>1 DEF Indifferent
<1> QED
  BY <1>1, <1>2, <1>3, <1>4, CalmMove DEF Indifferent

\* While a frame predicts for a tracker its callbacks find the hook on and the provider active.
LEMMA WhileForetold ==
  ASSUME ShutdownInv, RelayInv, Orderly, NEW d \in Devices, Foretold(d)
  PROVE  /\ kind[d] = "ViveTracker" /\ hooks.pose = "on" /\ hooks.instance
         /\ active /\ ready /\ ~hooks.detourShutdown /\ LifeAt = "none"
<1>1. FrameInv /\ PredictInv /\ OpenInv
  BY RelayFacts
<1>2. kind[d] = "ViveTracker" /\ hooks.pose = "on"
  BY <1>1 DEF PredictInv, Foretold, Current
<1>3. stack[Life] = <<>> /\ ready /\ LifeAt = "none"
  BY <1>1 DEF FrameInv, Foretold, LifeAt
<1>4. active
  BY <1>3 DEF ShutdownInv, LifeInv
<1>5. ~hooks.detourShutdown /\ hooks.instance
  BY <1>1, <1>2, <1>3 DEF OpenInv, Opened, ShutdownInv, HooksInv
<1> QED
  BY <1>2, <1>3, <1>4, <1>5

USE DEF PoseLabels, GetLabels, CallbackLabels, SubmitLabels, RunLabels, FrameLabels,
        InitLabels, CleanLabels, LifeLabels

LEMMA RelayCheckShutdown ==
  ASSUME ShutdownInv, RelayInv, NEW t \in Threads, CheckShutdown(t) PROVE RelayInv'
<1>1. PICK to \in {"leave", "pose.load"} :
        At(t, "pose.check") /\ Goto(t, to) /\ Calm
  BY DEF CheckShutdown, Calm, providerVars, hookVars, laneVars, history
<1>2. Indifferent("pose.check", to)
  BY DEF Indifferent, Labels, Holding, Predicting
<1> QED
  BY <1>1, <1>2, CalmGoto

LEMMA RelayLoadOriginal ==
  ASSUME ShutdownInv, RelayInv, NEW t \in Threads, LoadOriginal(t) PROVE RelayInv'
<1>1. PICK to \in {"leave", "pose.target", "pose.bypass"} :
        /\ At(t, "pose.load") /\ Goto(t, to) /\ Calm
        /\ to = "pose.bypass" => ~hooks.instance
  BY DEF LoadOriginal, Calm, providerVars, hookVars, laneVars, history
<1>2. Indifferent("pose.load", to)
  BY DEF Indifferent, Labels, Holding, Predicting
<1>3. Top(t).dev \in Devices
  BY <1>1, AtFacts DEF CallOK
<1> QED
  BY <1>1, <1>2, <1>3, CalmGoto, WhileForetold

LEMMA RelayTestTarget ==
  ASSUME ShutdownInv, RelayInv, NEW t \in Threads, TestTarget(t) PROVE RelayInv'
<1>1. PICK to \in {"pose.lock", "pose.bypass"} :
        /\ At(t, "pose.target") /\ Goto(t, to) /\ Calm
        /\ to = "pose.bypass" => ~(active /\ kind[Top(t).dev] = "ViveTracker")
  BY DEF TestTarget, Calm, providerVars, hookVars, laneVars, history
<1>2. Indifferent("pose.target", to)
  BY DEF Indifferent, Labels, Holding, Predicting
<1>3. Top(t).dev \in Devices
  BY <1>1, AtFacts DEF CallOK
<1> QED
  BY <1>1, <1>2, <1>3, CalmGoto, WhileForetold

LEMMA RelayBypassReturns ==
  ASSUME ShutdownInv, RelayInv, NEW t \in Threads, BypassReturns(t) PROVE RelayInv'
<1>1. At(t, "host.bypass") /\ Goto(t, "leave") /\ Calm
  BY DEF BypassReturns, Calm, providerVars, hookVars, laneVars, history
<1>2. Indifferent("host.bypass", "leave")
  BY DEF Indifferent, Labels, Holding, Predicting
<1> QED
  BY <1>1, <1>2, CalmGoto

LEMMA RelayCount ==
  ASSUME ShutdownInv, RelayInv, NEW t \in Threads, NEW from, NEW to, Count(t, from, to),
         <<from, to>> \in {<<"pose.count", "pose.check">>, <<"get.count", "get.check">>,
                           <<"submit.count", "submit.check">>}
  PROVE  RelayInv'
<1>1. At(t, from) /\ Goto(t, to) /\ Calm
  BY DEF Count, Calm, providerVars, hookVars, laneVars, history
<1>2. Indifferent(from, to) /\ to # "pose.bypass"
  BY DEF Indifferent, Labels, Holding, Predicting
<1> QED
  BY <1>1, <1>2, CalmGoto

LEMMA RelayCheckInterface ==
  ASSUME ShutdownInv, RelayInv, NEW t \in Threads, CheckInterface(t) PROVE RelayInv'
<1>1. PICK to \in {"leave", "get.load"} : At(t, "get.check") /\ Goto(t, to) /\ Calm
  BY DEF CheckInterface, Calm, providerVars, hookVars, laneVars, history
<1>2. Indifferent("get.check", to)
  BY DEF Indifferent, Labels, Holding, Predicting
<1> QED
  BY <1>1, <1>2, CalmGoto

LEMMA RelayLoadInterface ==
  ASSUME ShutdownInv, RelayInv, NEW t \in Threads, LoadInterface(t) PROVE RelayInv'
<1>1. PICK to \in {"leave", "get.observe"} : At(t, "get.load") /\ Goto(t, to) /\ Calm
  BY DEF LoadInterface, Calm, providerVars, hookVars, laneVars, history
<1>2. Indifferent("get.load", to)
  BY DEF Indifferent, Labels, Holding, Predicting
<1> QED
  BY <1>1, <1>2, CalmGoto

LEMMA RelayLeave ==
  ASSUME ShutdownInv, RelayInv, NEW t \in Threads, Leave(t) PROVE RelayInv'
<1>1. At(t, "leave") /\ End(t) /\ Calm
  BY DEF Leave, Calm, providerVars, hookVars, laneVars, history
<1>2. stack[t] # <<>> /\ stack[t][1].at = "leave" /\ StackType /\ StackInv
  BY <1>1, AtFacts, StackInvType DEF ShutdownInv
<1>3. t # Life
  BY <1>2, StackFacts DEF StackInv
<1>4. Popped(t)
  BY <1>1, <1>2, EndEffect
<1> QED
  BY <1>1, <1>2, <1>3, <1>4, CalmPop DEF Holding

\* A callback or a request begins.
LEMMA RelayBegins ==
  ASSUME ShutdownInv, RelayInv, NEW t \in Threads, MayCall(t), NEW c \in CallType, Begin(t, c),
         c.at \in {"pose.count", "get.count"}, Calm
  PROVE  RelayInv'
<1>1. StackInv /\ StackType
  BY StackInvType DEF ShutdownInv
<1>2. Pushed(t, c)
  BY <1>1, BeginEffect
<1>3. stack[t] # <<>> => stack[t][1].at \in InHost /\ 1 \in 1 .. Len(stack[t])
  BY <1>1, StackFacts, ThreadFacts DEF MayCall
<1>4. t # Life
  <2>1. \A label \in InHost : label \notin LifeLabels
    BY DEF InHost
  <2> QED
    BY <1>1, <1>3, <2>1, ThreadFacts DEF MayCall, StackInv
<1>5. ASSUME Orderly PROVE FrameInv'
  <2>1. FrameInv /\ ready' = ready
    BY <1>5, RelayFacts DEF Calm
  <2>2. stack'[Frame] # <<>> => stack[Frame] # <<>>
    BY <1>2, ThreadFacts DEF MayCall, Pushed
  <2>3. stack'[Life] = stack[Life]
    BY <1>2, <1>4, ThreadFacts DEF Pushed
  <2> QED
    BY <2>1, <2>2, <2>3, FrameKept
<1>6. c.at \notin Holding /\ ~LostShown(c) /\ c.at \notin Predicting
      /\ c.at \notin {"pose.bypass", "pose.call"}
  BY DEF Holding, LostShown, Predicting
<1> QED
  BY <1>2, <1>4, <1>5, <1>6, CalmPush

LEMMA RelayRequestInterface ==
  ASSUME ShutdownInv, RelayInv, NEW t \in Threads, RequestInterface(t) PROVE RelayInv'
<1>1. PICK l \in BOOLEAN : l = hooks.detourShutdown
  BY DEF ShutdownInv, HooksInv, HooksType
<1>2. PICK c : c = Call("get.count", NoDevice, FALSE, l)
  BY DEF Call
<1>3. "get.count" \in Labels /\ NoDevice \in Devices \cup {NoDevice} /\ FALSE \in BOOLEAN
  BY DEF Labels
<1>4. c \in CallType /\ c.at = "get.count"
  BY <1>2, <1>3 DEF Call, CallType
<1>5. MayCall(t) /\ Begin(t, c) /\ Calm
  BY <1>1, <1>2 DEF RequestInterface, Calm, providerVars, hookVars, laneVars, history
<1> QED
  BY <1>4, <1>5, RelayBegins

\* The lane of the device, from here until the host has the pose.
LEMMA RelayLockLane ==
  ASSUME ShutdownInv, RelayInv, NEW t \in Threads, LockLane(t) PROVE RelayInv'
<1>1. PICK to \in {"pose.filter", "pose.bypass"} :
        /\ At(t, "pose.lock") /\ Goto(t, to)
        /\ UNCHANGED <<active, ready, kind, slot, hooks, shown, basis, armedBy>>
        /\ \/ /\ to = "pose.filter" /\ LaneFree(t, Top(t).dev) /\ Acquire(t, Top(t).dev)
              /\ route' = [route EXCEPT ![Top(t).dev] = TRUE]
           \/ to = "pose.bypass" /\ UNCHANGED <<lane, route>> /\ ~Orderly
  BY DEF LockLane, providerVars, hookVars, laneVars, history, Orderly
<1>2. to \in Labels
  BY DEF Labels
<1>3. PICK e \in CallType, c \in CallType :
        /\ stack[t] # <<>> /\ e = stack[t][1] /\ e = Top(t) /\ e.at = "pose.lock"
        /\ CallOK(e) /\ e \in SafeCalls
        /\ TopBecomes(t, c) /\ c.at = to /\ c.dev = e.dev /\ c.sent = e.sent
        /\ c.lost = e.lost /\ c.newer = e.newer
  BY <1>1, <1>2, Moved
<1>4. t # Life /\ e.dev \in Devices
  BY <1>3, WhoseLabel DEF ShutdownInv, CallOK
<1>5. StackType /\ TypesInv /\ LaneInv /\ OpenInv
  BY RelayFacts, StackInvType DEF ShutdownInv
<1>6. LaneInv'
  <2>1. CASE to = "pose.filter"
    <3>1. e.at \notin Holding /\ c.at \in Holding
      BY <1>3, <2>1 DEF Holding
    <3> QED
      BY <1>1, <1>3, <1>4, <1>5, <2>1, <3>1, LaneAcquired
  <2>2. CASE to = "pose.bypass"
    <3>1. e.at \notin Holding /\ c.at \notin Holding
      BY <1>3, <2>2 DEF Holding
    <3> QED
      BY <1>1, <1>3, <1>5, <2>2, <3>1, HoldersKept, LaneKept
  <2> QED
    BY <2>1, <2>2
<1>7. TypesInv' /\ OpenInv'
  <2>1. LifeAt' = LifeAt
    BY <1>3, <1>4, <1>5, LifeAtKept
  <2>2. TypesInv'
    BY <1>1, <1>5 DEF TypesInv
  <2> QED
    BY <1>1, <1>5, <2>1, <2>2, OpenKept
<1>8. ~LostShown(c) /\ c.at \notin Predicting /\ c.at # "submit.call" /\ e.at # "pose.call"
      /\ (Orderly => c.at \notin {"pose.bypass", "pose.call"})
  BY <1>1, <1>3 DEF LostShown, Predicting
<1> QED
  BY <1>1, <1>3, <1>4, <1>6, <1>7, <1>8, RelayMove

\* The host has returned: the lane is free for the next pose of the device.
LEMMA RelayHostReturns ==
  ASSUME ShutdownInv, RelayInv, NEW t \in Threads, HostReturns(t) PROVE RelayInv'
<1>1. /\ At(t, "host.pose") /\ Goto(t, "leave") /\ Release(t, Top(t).dev)
      /\ UNCHANGED <<active, ready, kind, slot, hooks, route, shown, basis, armedBy>>
  BY DEF HostReturns, AfterThrow, providerVars, hookVars, history
<1>2. "leave" \in Labels
  BY DEF Labels
<1>3. PICK e \in CallType, c \in CallType :
        /\ stack[t] # <<>> /\ e = stack[t][1] /\ e = Top(t) /\ e.at = "host.pose"
        /\ CallOK(e) /\ e \in SafeCalls
        /\ TopBecomes(t, c) /\ c.at = "leave" /\ c.dev = e.dev /\ c.sent = e.sent
        /\ c.lost = e.lost /\ c.newer = e.newer
  BY <1>1, <1>2, Moved
<1>4. t # Life /\ e.dev \in Devices
  BY <1>3, WhoseLabel DEF ShutdownInv, CallOK
<1>5. StackType /\ TypesInv /\ LaneInv /\ OpenInv
  BY RelayFacts, StackInvType DEF ShutdownInv
<1>6. LaneInv'
  <2>1. e.at \in Holding /\ c.at \notin Holding
    BY <1>3 DEF Holding
  <2> QED
    BY <1>1, <1>3, <1>4, <1>5, <2>1, LaneReleased
<1>7. TypesInv' /\ OpenInv'
  <2>1. LifeAt' = LifeAt
    BY <1>3, <1>4, <1>5, LifeAtKept
  <2>2. TypesInv'
    BY <1>1, <1>5 DEF TypesInv
  <2> QED
    BY <1>1, <1>5, <2>1, <2>2, OpenKept
<1>8. ~LostShown(c) /\ c.at \notin Predicting /\ c.at # "submit.call" /\ e.at # "pose.call"
      /\ c.at \notin {"pose.bypass", "pose.call"}
  BY <1>3 DEF LostShown, Predicting
<1> QED
  BY <1>1, <1>3, <1>4, <1>6, <1>7, <1>8, RelayMove

\* A request that is observed may put the hook on, of a host whose detours are open.
LEMMA RelayObserve ==
  ASSUME ShutdownInv, RelayInv, NEW t \in Threads, Observe(t) PROVE RelayInv'
<1>1. /\ At(t, "get.observe") /\ Goto(t, "leave")
      /\ UNCHANGED <<active, ready, kind, slot, lane, route, shown, basis, armedBy>>
      /\ hooks' = hooks \/ hooks' = [hooks EXCEPT !.pose = "on"]
  BY DEF Observe, providerVars, laneVars, history
<1>2. "leave" \in Labels
  BY DEF Labels
<1>3. PICK e \in CallType, c \in CallType :
        /\ stack[t] # <<>> /\ e = stack[t][1] /\ e = Top(t) /\ e.at = "get.observe"
        /\ CallOK(e) /\ e \in SafeCalls
        /\ TopBecomes(t, c) /\ c.at = "leave" /\ c.dev = e.dev /\ c.sent = e.sent
        /\ c.lost = e.lost /\ c.newer = e.newer
  BY <1>1, <1>2, Moved
<1>4. t # Life
  BY <1>3, WhoseLabel DEF ShutdownInv
<1>5. StackType /\ TypesInv /\ LaneInv /\ OpenInv /\ hooks \in HooksType
  BY RelayFacts, StackInvType DEF ShutdownInv, HooksInv
<1>6. LaneInv'
  <2>1. e.at \notin Holding /\ c.at \notin Holding
    BY <1>3 DEF Holding
  <2> QED
    BY <1>1, <1>3, <1>5, <2>1, HoldersKept, LaneKept
<1>7. TypesInv'
  BY <1>1, <1>5 DEF TypesInv
<1>8. /\ hooks'.detourShutdown = hooks.detourShutdown /\ hooks'.installed = hooks.installed
      /\ hooks'.instance = hooks.instance /\ (hooks'.pose = hooks.pose \/ hooks'.pose = "on")
  BY <1>1, <1>5 DEF HooksType
<1>9. OpenInv'
  <2>1. LifeAt' = LifeAt
    BY <1>3, <1>4, <1>5, LifeAtKept
  <2> QED
    BY <1>1, <1>5, <1>8, <2>1 DEF OpenInv, Opened
<1>10. ~LostShown(c) /\ c.at \notin Predicting /\ c.at # "submit.call" /\ e.at # "pose.call"
       /\ c.at \notin {"pose.bypass", "pose.call"}
  BY <1>3 DEF LostShown, Predicting
<1> QED
  BY <1>1, <1>3, <1>4, <1>6, <1>7, <1>8, <1>9, <1>10, RelayMove

\* Who is told that a tracker is lost while slots and callbacks change.
LEMMA CommitMoves ==
  ASSUME StackInv, CommitInv, NEW t \in Threads, NEW c, Arrives(t, c),
         LostShown(c) => ~(slot'[c.dev].captured /\ armedBy'[c.dev]),
         \A d \in Devices : armedBy'[d] => slot'[d].armed,
         \A d \in Devices : slot'[d].captured /\ armedBy'[d] => slot[d].captured /\ armedBy[d]
  PROVE  CommitInv'
<1>1. ASSUME NEW u \in Threads, NEW i \in 1 .. Len(stack'[u]), LostShown(stack'[u][i])
      PROVE  ~(slot'[stack'[u][i].dev].captured /\ armedBy'[stack'[u][i].dev])
  <2>1. CASE u = t /\ i = 1 /\ stack'[u][i] = c
    BY <1>1, <2>1
  <2>2. ASSUME NEW j \in 1 .. Len(stack[u]), Like(stack'[u][i], stack[u][j])
        PROVE  ~(slot'[stack'[u][i].dev].captured /\ armedBy'[stack'[u][i].dev])
    <3>1. LostShown(stack[u][j]) /\ stack'[u][i].dev = stack[u][j].dev
      BY <1>1, <2>2, LikeLost
    <3>2. stack[u][j].dev \in Devices
      <4>1. stack[u][j].at \in {"run.commit", "host.synthetic", "submit.leave"}
        BY <3>1 DEF LostShown
      <4>2. CallOK(stack[u][j])
        BY DEF StackInv
      <4> QED
        BY <4>1, <4>2 DEF CallOK
    <3> QED
      BY <3>1, <3>2 DEF CommitInv
  <2> QED
    BY <2>1, <2>2 DEF Arrives
<1> QED
  BY <1>1 DEF CommitInv, LostShown

\* The host reports a pose.
LEMMA RelayReportPose ==
  ASSUME ShutdownInv, RelayInv, NEW t \in Threads, NEW d \in Devices, ReportPose(t, d)
  PROVE  RelayInv'
<1>0. MayCall(t) /\ UNCHANGED <<active, ready, kind, slot, hooks, lane, route, armedBy>>
  BY DEF ReportPose, providerVars, hookVars, laneVars
<1>1. CASE /\ Begin(t, Call("pose.count", d, TRUE, hooks.detourShutdown))
           /\ UNCHANGED <<shown, basis>>
  <2>1. PICK l \in BOOLEAN : l = hooks.detourShutdown
    BY DEF ShutdownInv, HooksInv, HooksType
  <2>2. PICK c : c = Call("pose.count", d, TRUE, l)
    BY DEF Call
  <2>3. "pose.count" \in Labels /\ d \in Devices \cup {NoDevice} /\ TRUE \in BOOLEAN
    BY DEF Labels
  <2>4. c \in CallType /\ c.at = "pose.count"
    BY <2>2, <2>3 DEF Call, CallType
  <2>5. Begin(t, c) /\ Calm
    BY <1>0, <1>1, <2>1, <2>2 DEF Calm
  <2> QED
    BY <1>0, <2>4, <2>5, RelayBegins
<1>2. CASE hooks.pose # "on" /\ DeliverRaw(d, TRUE) /\ UNCHANGED stack
  <2>1. /\ TypesInv /\ LaneInv /\ CommitInv /\ OpenInv
        /\ Orderly => FrameInv /\ PredictInv /\ ShownInv
    BY RelayFacts
  <2>2. /\ shown' = [shown EXCEPT ![d] = "raw"]
        /\ basis' = [basis EXCEPT ![d] = FALSE]
    BY <1>2 DEF DeliverRaw
  <2>3. TypesInv'
    BY <1>0, <2>1, <2>2 DEF TypesInv
  <2>4. LaneInv'
    <3>1. \A q \in Devices : Holders(q)' = Holders(q)
      BY <1>2 DEF Holders, Place
    <3> QED
      BY <1>0, <2>1, <3>1, LaneKept
  <2>5. CommitInv'
    BY <1>0, <1>2, <2>1 DEF CommitInv, LostShown
  <2>6. OpenInv'
    <3>1. LifeAt' = LifeAt
      BY <1>2 DEF LifeAt
    <3> QED
      BY <1>0, <2>1, <3>1, OpenKept
  <2>7. ASSUME Orderly PROVE FrameInv' /\ PredictInv' /\ ShownInv'
    <3>1. FrameInv'
      BY <1>0, <1>2, <2>1, <2>7 DEF FrameInv
    <3>2. PredictInv'
      <4>1. ~(stack[Frame] # <<>> /\ stack[Frame][1].at \in Predicting)
        BY <1>2, <2>1, <2>7 DEF PredictInv, Current
      <4> QED
        BY <1>2, <4>1 DEF PredictInv
    <3>3. ShownInv'
      <4>1. ASSUME NEW q \in Devices, Followed(q) PROVE Followed(q)'
        <5>1. shown'[q] = shown[q] \/ shown'[q] = "raw"
          BY <2>1, <2>2 DEF TypesInv
        <5>2. Coming(q)' <=> Coming(q)
          BY <1>2 DEF Coming
        <5> QED
          BY <1>0, <4>1, <5>1, <5>2 DEF Followed
      <4> QED
        BY <1>0, <2>1, <2>7, <4>1 DEF ShownInv
    <3> QED
      BY <3>1, <3>2, <3>3
  <2> QED
    BY <2>3, <2>4, <2>5, <2>6, <2>7 DEF RelayInv
<1> QED
  BY <1>1, <1>2 DEF ReportPose

\* The pose supersedes the prediction of its device, and no prediction of that device is
\* about to be sent: its lane is held.
LEMMA RelayFilterPose ==
  ASSUME ShutdownInv, RelayInv, NEW t \in Threads, FilterPose(t) PROVE RelayInv'
<1>1. /\ At(t, "pose.filter") /\ Goto(t, "pose.call")
      /\ UNCHANGED <<active, ready, kind, hooks, lane, route, shown, basis>>
  BY DEF FilterPose, hookVars, laneVars
<1>2. "pose.call" \in Labels
  BY DEF Labels
<1>3. PICK e \in CallType, c \in CallType :
        /\ stack[t] # <<>> /\ e = stack[t][1] /\ e = Top(t) /\ e.at = "pose.filter"
        /\ CallOK(e) /\ e \in SafeCalls
        /\ TopBecomes(t, c) /\ c.at = "pose.call" /\ c.dev = e.dev /\ c.sent = e.sent
        /\ c.lost = e.lost /\ c.newer = e.newer
  BY <1>1, <1>2, Moved
<1>4. t # Life /\ e.dev \in Devices
  BY <1>3, WhoseLabel DEF ShutdownInv, CallOK
<1>5. /\ StackInv /\ StackType /\ TypesInv /\ LaneInv /\ CommitInv /\ OpenInv
      /\ Orderly => FrameInv /\ PredictInv /\ ShownInv
  BY RelayFacts, StackInvType DEF ShutdownInv
<1>6. LaneInv'
  <2>1. e.at \in Holding /\ c.at \in Holding
    BY <1>3 DEF Holding
  <2> QED
    BY <1>1, <1>3, <1>5, <2>1, HoldersKept, LaneKept
<1>7. OpenInv'
  BY <1>1, <1>3, <1>4, <1>5, LifeAtKept, OpenKept
<1>8. ~LostShown(c) /\ c.at \notin Predicting /\ c.at # "submit.call" /\ e.at # "pose.call"
  BY <1>3 DEF LostShown, Predicting
<1>9. CASE ~active /\ UNCHANGED <<slot, armedBy>>
  <2>1. TypesInv'
    BY <1>1, <1>5, <1>9 DEF TypesInv
  <2>2. Orderly => ~Foretold(c.dev)
    BY <1>3, <1>4, <1>9, WhileForetold
  <2> QED
    BY <1>1, <1>3, <1>4, <1>6, <1>7, <1>8, <1>9, <2>1, <2>2, RelayMove
<1>10. ASSUME NEW s \in SlotType, s.captured = FALSE,
              slot' = [slot EXCEPT ![e.dev] = s],
              armedBy' = [armedBy EXCEPT ![e.dev] = s.armed]
       PROVE  RelayInv'
  <2>1. TypesInv'
    <3>1. s.armed \in BOOLEAN
      BY DEF SlotType
    <3> QED
      BY <1>1, <1>4, <1>5, <1>10, <3>1 DEF TypesInv
  <2>2. /\ slot \in [Devices -> SlotType] /\ slot'[e.dev] = s
        /\ armedBy'[e.dev] = s.armed
        /\ \A d \in Devices : d # e.dev => slot'[d] = slot[d] /\ armedBy'[d] = armedBy[d]
    <3>1. slot \in [Devices -> SlotType]
      BY DEF ShutdownInv, ArmedInv, SlotType
    <3> QED
      BY <1>4, <1>5, <1>10, <3>1 DEF TypesInv
  <2>3. Arrives(t, c) /\ Remains(t) /\ 1 \in 1 .. Len(stack[t]) /\ 1 \in 1 .. Len(stack'[t])
        /\ stack'[t][1] = c
    BY <1>3, <1>5, TopArrives, StackFacts DEF TopBecomes
  <2>4. CommitInv'
    <3>1. \A d \in Devices : armedBy'[d] => slot'[d].armed
      BY <1>5, <2>2 DEF CommitInv
    <3>2. \A d \in Devices : slot'[d].captured /\ armedBy'[d] => slot[d].captured /\ armedBy[d]
      BY <1>10, <2>2
    <3> QED
      BY <1>5, <1>8, <2>3, <3>1, <3>2, CommitMoves
  <2>5. ASSUME Orderly PROVE FrameInv' /\ PredictInv' /\ ShownInv'
    <3>1. FrameInv'
      BY <1>1, <1>3, <1>5, <2>5, FrameMoves
    <3>2. ASSUME NEW p, NEW q, t # Frame, stack[Frame] # <<>>, 1 \in 1 .. Len(stack[Frame]),
                 p = stack[Frame][1], p.at \in Predicting, p.dev \in Devices, Current(p),
                 q.at = p.at, q.dev = p.dev, q.lost = p.lost
          PROVE  Current(q)'
      <4>1. CASE p.dev = e.dev
        <5>1. q.at # "submit.call"
          <6>1. ASSUME p.at = "submit.call" PROVE FALSE
            <7>1. p.at \in Holding /\ e.at \in Holding
              BY <1>3, <6>1 DEF Holding
            <7>2. stack[t][1].at \in Holding /\ stack[Frame][1].at \in Holding
                  /\ stack[t][1].dev \in Devices /\ stack[t][1].dev = stack[Frame][1].dev
              BY <1>3, <1>4, <3>2, <4>1, <7>1
            <7>3. t = Frame
              BY <1>5, <2>3, <3>2, <7>2, LaneHeld, ThreadFacts
            <7> QED
              BY <3>2, <7>3
          <6> QED
            BY <3>2, <6>1
        <5>2. ~slot'[q.dev].captured
          BY <1>10, <2>2, <3>2, <4>1
        <5>3. kind'[q.dev] = "ViveTracker" /\ hooks'.pose = "on"
          BY <1>1, <3>2 DEF Current
        <5> QED
          BY <5>1, <5>2, <5>3 DEF Current
      <4>2. CASE p.dev # e.dev
        <5>1. slot'[p.dev] = slot[p.dev]
          BY <2>2, <3>2, <4>2
        <5>2. NoneNewer(p.dev) => NoneNewer(p.dev)'
          BY <1>3, <2>3, <4>2, NoneNewerFollows
        <5> QED
          BY <1>1, <3>2, <5>1, <5>2, CurrentFollows
      <4> QED
        BY <4>1, <4>2
    <3>3. PredictInv'
      BY <1>3, <1>5, <1>8, <2>5, <3>2, OthersPredict
    <3>4. ASSUME NEW d \in Devices, ready' PROVE Followed(d)'
      <4>1. CASE d = e.dev
        <5>1. Coming(d)'
          BY <1>3, <2>3, <4>1 DEF Coming
        <5> QED
          BY <5>1 DEF Followed
      <4>2. CASE d # e.dev
        <5>1. Followed(d)
          BY <1>1, <1>5, <2>5, <3>4 DEF ShownInv
        <5>2. Coming(d) => Coming(d)'
          BY <1>3, <1>5, <2>3, <4>2, ComingRemains
        <5> QED
          BY <1>1, <2>2, <4>2, <5>1, <5>2, FollowedKept
      <4> QED
        BY <4>1, <4>2
    <3> QED
      BY <3>1, <3>3, <3>4 DEF ShownInv
  <2> QED
    BY <1>6, <1>7, <2>1, <2>4, <2>5 DEF RelayInv
<1>11. CASE active
  <2>1. PICK o : o = Superseded(slot[e.dev])
    OBVIOUS
  <2>2. o \in SlotType /\ o.captured = FALSE
    BY <1>4, <2>1 DEF ShutdownInv, ArmedInv, SlotType, Superseded
  <2>3. PICK s \in AfterPush(o) \cup {AfterReset(o)}
                   \cup (IF "filter" \in Faults THEN {o} ELSE {}) :
          /\ slot' = [slot EXCEPT ![e.dev] = s]
          /\ armedBy' = [armedBy EXCEPT ![e.dev] = s.armed]
    BY <1>3, <1>11, <2>1 DEF FilterPose
  <2>4. s \in SlotType /\ s.captured = FALSE
    BY <2>2 DEF AfterPush, AfterReset, SlotType, Filters
  <2> QED
    BY <1>10, <2>3, <2>4
<1> QED
  BY <1>9, <1>11 DEF FilterPose

\* The host has the pose.  Had it been newer than a prediction in progress, the prediction
\* would not be current any more.
LEMMA RelayCallHost ==
  ASSUME ShutdownInv, RelayInv, NEW t \in Threads, NEW from, NEW to, CallHost(t, from, to),
         <<from, to>> \in {<<"pose.call", "host.pose">>, <<"pose.bypass", "host.bypass">>}
  PROVE  RelayInv'
<1>1. PICK e : e = stack[t][1]
  OBVIOUS
<1>2. At(t, from) /\ Top(t) = e
  BY <1>1, AtFacts DEF CallHost
<1>3. stack[t] # <<>> /\ e.at = from /\ CallOK(e) /\ e \in CallType /\ e.dev \in Devices /\ t # Life
      /\ 1 \in 1 .. Len(stack[t])
  <2>1. stack[t] # <<>> /\ e.at = from /\ CallOK(e) /\ e \in CallType
    BY <1>1, <1>2, AtFacts
  <2> QED
    BY <1>1, <2>1, WhoseLabel DEF ShutdownInv, CallOK
<1>4. PICK c : c = [e EXCEPT !.at = to, !.sent = e.sent + 1]
  OBVIOUS
<1>5. /\ stack' = [stack EXCEPT ![t][1] = c]
      /\ UNCHANGED <<active, ready, kind, slot, hooks, lane, route, armedBy>>
      /\ shown' = [shown EXCEPT ![e.dev] = "raw"]
      /\ basis' = [basis EXCEPT ![e.dev] = @ /\ ~e.newer]
  BY <1>1, <1>2, <1>4 DEF CallHost, DeliverRaw, providerVars, hookVars, laneVars
<1>6. c \in CallType /\ c.at = to /\ c.dev = e.dev
  <2>1. e.sent = 0
    BY <1>3 DEF CallOK, BeforeHost
  <2>2. to \in Labels /\ c = Sent(e, to, 1) /\ 1 \in 0 .. 1
    BY <1>4, <2>1 DEF Labels, Sent
  <2> QED
    BY <1>3, <2>2, SentFields
<1>7. TopBecomes(t, c)
  BY <1>3, <1>5, <1>6, Edited
<1>8. /\ StackInv /\ StackType /\ TypesInv /\ LaneInv /\ CommitInv /\ OpenInv
      /\ Orderly => FrameInv /\ PredictInv /\ ShownInv
  BY RelayFacts, StackInvType DEF ShutdownInv
<1>9. Arrives(t, c) /\ Remains(t)
  BY <1>7, <1>8, TopArrives
<1>10. LaneInv'
  <2>1. c.at \in Holding <=> e.at \in Holding
    BY <1>3, <1>6 DEF Holding
  <2> QED
    BY <1>1, <1>3, <1>5, <1>6, <1>7, <1>8, <2>1, HoldersKept, LaneKept
<1>11. OpenInv'
  BY <1>3, <1>5, <1>7, <1>8, LifeAtKept, OpenKept
<1>12. TypesInv'
  <2>1. basis[e.dev] \in BOOLEAN /\ e.newer \in BOOLEAN
    BY <1>3, <1>8, CallFields DEF TypesInv
  <2> QED
    BY <1>3, <1>5, <1>8, <2>1 DEF TypesInv
<1>13. ~LostShown(c) /\ c.at \notin Predicting /\ c.at \notin {"pose.bypass", "pose.call"}
  BY <1>6 DEF LostShown, Predicting
<1>14. CommitInv'
  BY <1>5, <1>8, <1>9, <1>13, CommitArrives
<1>15. ASSUME Orderly PROVE FrameInv' /\ PredictInv' /\ ShownInv'
  <2>1. FrameInv'
    BY <1>3, <1>5, <1>7, <1>8, <1>15, FrameMoves
  <2>2. ASSUME NEW p, NEW q, p.at \in Predicting, p.dev \in Devices, Current(p),
               q.at = p.at, q.dev = p.dev, q.lost = p.lost
        PROVE  Current(q)'
    <3>1. slot[p.dev].captured => basis[p.dev] /\ NoneNewer(p.dev)
      BY <2>2 DEF Current
    <3>2. slot[p.dev].captured /\ basis[p.dev] => basis'[p.dev]
      <4>1. CASE p.dev = e.dev
        <5>1. slot[p.dev].captured => ~e.newer
          BY <1>1, <1>3, <3>1, <4>1 DEF NoneNewer
        <5> QED
          BY <1>3, <1>5, <1>8, <4>1, <5>1 DEF TypesInv
      <4>2. CASE p.dev # e.dev
        BY <1>5, <1>8, <2>2, <4>2 DEF TypesInv
      <4> QED
        BY <4>1, <4>2
    <3>3. NoneNewer(p.dev) => NoneNewer(p.dev)'
      BY <1>9, <1>13, NoneNewerFollows
    <3> QED
      BY <1>5, <2>2, <3>2, <3>3, CurrentFollows
  <2>3. PredictInv'
    BY <1>3, <1>7, <1>8, <1>13, <1>15, <2>2, OthersPredict
  <2>4. ASSUME NEW d \in Devices, ready' PROVE Followed(d)'
    <3>1. CASE d = e.dev
      <4>1. shown'[d] = "raw"
        BY <1>5, <1>8, <3>1 DEF TypesInv
      <4> QED
        BY <4>1 DEF Followed
    <3>2. CASE d # e.dev
      <4>1. Followed(d) /\ shown'[d] = shown[d] /\ slot'[d] = slot[d]
        BY <1>5, <1>8, <1>15, <2>4, <3>2 DEF ShownInv, TypesInv
      <4>2. Coming(d) => Coming(d)'
        BY <1>1, <1>8, <1>9, <3>2, ComingRemains
      <4> QED
        BY <4>1, <4>2, FollowedKept
    <3> QED
      BY <3>1, <3>2
  <2> QED
    BY <2>1, <2>3, <2>4 DEF ShownInv
<1> QED
  BY <1>10, <1>11, <1>12, <1>14, <1>15 DEF RelayInv

-------------------------------------------------------------------------------
(* RunFrame.                                                                   *)

LEMMA RelayStutter ==
  ASSUME RelayInv, Calm, stack' = stack PROVE RelayInv'
<1>1. UNCHANGED <<active, ready, kind, slot, hooks, lane, route, shown, basis, armedBy, stack>>
  BY DEF Calm
<1>2. TypesInv'
  BY RelayFacts, CalmTypes
<1>3. LaneInv'
  <2>1. \A d \in Devices : Holders(d)' = Holders(d)
    BY <1>1 DEF Holders, Place
  <2> QED
    BY <1>1, <2>1, RelayFacts, LaneKept
<1>4. CommitInv'
  BY <1>1, RelayFacts DEF CommitInv, LostShown
<1>5. OpenInv'
  BY <1>1, RelayFacts, OpenKept DEF LifeAt
<1>6. Orderly => FrameInv' /\ PredictInv' /\ ShownInv'
  <2>1. FrameInv => FrameInv'
    BY <1>1 DEF FrameInv
  <2>2. PredictInv => PredictInv'
    BY <1>1 DEF PredictInv, Current, NoneNewer
  <2>3. ShownInv => ShownInv'
    BY <1>1 DEF ShownInv, Followed, Coming
  <2> QED
    BY <2>1, <2>2, <2>3, RelayFacts
<1> QED
  BY <1>2, <1>3, <1>4, <1>5, <1>6 DEF RelayInv

LEMMA RelayStartFrame ==
  ASSUME ShutdownInv, RelayInv, StartFrame PROVE RelayInv'
<1>1. Calm /\ stack[Frame] = <<>>
  BY DEF StartFrame, Calm, providerVars, hookVars, laneVars, history
<1>2. CASE stack' = stack
  BY <1>1, <1>2, RelayStutter
<1>3. CASE /\ Overlap \/ (stack[Life] = <<>> /\ ready)
           /\ Begin(Frame, Call("run.count", NoDevice, FALSE, FALSE))
  <2>1. PICK c : c = Call("run.count", NoDevice, FALSE, FALSE)
    BY DEF Call
  <2>2. "run.count" \in Labels /\ NoDevice \in Devices \cup {NoDevice} /\ FALSE \in BOOLEAN
    BY DEF Labels
  <2>3. c \in CallType /\ c.at = "run.count"
    BY <2>1, <2>2 DEF Call, CallType
  <2>4. StackType /\ Frame \in Threads /\ Life \in Threads /\ Frame # Life
    BY StackInvType, ThreadFacts DEF ShutdownInv
  <2>5. Pushed(Frame, c)
    BY <1>3, <2>1, <2>3, <2>4, BeginEffect
  <2>6. Orderly => FrameInv'
    <3>1. stack'[Life] = stack[Life] /\ ready' = ready
      BY <1>1, <2>4, <2>5 DEF Pushed, Calm
    <3> QED
      BY <1>3, <3>1 DEF Orderly, FrameInv
  <2>7. c.at \notin Holding /\ ~LostShown(c) /\ c.at \notin Predicting
        /\ c.at \notin {"pose.bypass", "pose.call"}
    BY <2>3 DEF Holding, LostShown, Predicting
  <2> QED
    BY <1>1, <2>4, <2>5, <2>6, <2>7, CalmPush
<1> QED
  BY <1>2, <1>3 DEF StartFrame

LEMMA RelayCountFrame ==
  ASSUME ShutdownInv, RelayInv, CountFrame PROVE RelayInv'
<1>1. At(Frame, "run.count") /\ Goto(Frame, "run.check") /\ Calm
  BY DEF CountFrame, Calm, hookVars, laneVars, history
<1>2. Indifferent("run.count", "run.check")
  BY DEF Indifferent, Labels, Holding, Predicting
<1> QED
  BY <1>1, <1>2, CalmGoto, ThreadFacts

\* A device that is known for a tracker stays one.
LEMMA RelayClassify ==
  ASSUME ShutdownInv, RelayInv, Classify PROVE RelayInv'
<1>1. At(Frame, "run.check")
      /\ UNCHANGED <<active, ready, slot, hooks, lane, route, shown, basis, armedBy>>
  BY DEF Classify, hookVars, laneVars, history
<1>2. "run.end" \in Labels /\ "run.next" \in Labels /\ Frame \in Threads /\ Frame # Life
  BY ThreadFacts DEF Labels
<1>3. PICK e : e = stack[Frame][1]
  OBVIOUS
<1>4. stack[Frame] # <<>> /\ e.at = "run.check" /\ e \in CallType
  BY <1>1, <1>2, <1>3, AtFacts
<1>5. PICK c : TopBecomes(Frame, c) /\ c.at \in {"run.end", "run.next"}
  <2>1. CASE Goto(Frame, "run.end")
    <3>1. TopBecomes(Frame, [stack[Frame][1] EXCEPT !.at = "run.end"])
      BY <1>2, <1>4, <2>1, GotoEffect, StackInvType DEF ShutdownInv
    <3>2. [stack[Frame][1] EXCEPT !.at = "run.end"].at = "run.end"
      BY <1>3, <1>4 DEF CallType
    <3> QED
      BY <3>1, <3>2
  <2>2. CASE stack' = [stack EXCEPT ![Frame][1] =
                         [stack[Frame][1] EXCEPT !.at = "run.next", !.todo = Devices]]
    <3>1. PICK c : c = WithTodo(e, "run.next", Devices)
      OBVIOUS
    <3>2. Becomes(c, e, "run.next", e.dev, Devices, e.sent, e.lost)
      <4>1. Devices \in SUBSET Devices
        OBVIOUS
      <4> QED
        BY <1>2, <1>4, <3>1, <4>1, EditTodo
    <3>3. c \in CallType /\ c.at = "run.next"
      BY <3>2 DEF Becomes
    <3>4. TopBecomes(Frame, c)
      <4>1. stack' = [stack EXCEPT ![Frame][1] = c]
        BY <1>3, <2>2, <3>1 DEF WithTodo
      <4> QED
        BY <1>2, <1>4, <3>3, <4>1, Edited
    <3> QED
      BY <3>3, <3>4
  <2> QED
    BY <2>1, <2>2 DEF Classify
<1>6. StackType /\ TypesInv /\ LaneInv /\ OpenInv
  BY RelayFacts, StackInvType DEF ShutdownInv
<1>7. kind' \in [Devices -> Kinds] /\ \A d \in Devices : kind[d] # "Unknown" => kind'[d] = kind[d]
  BY <1>6 DEF Classify, TypesInv
<1>8. TypesInv'
  BY <1>1, <1>6, <1>7 DEF TypesInv
<1>9. LaneInv'
  <2>1. c.at \notin Holding /\ e.at \notin Holding
    BY <1>4, <1>5 DEF Holding
  <2> QED
    BY <1>1, <1>2, <1>3, <1>4, <1>5, <1>6, <2>1, HoldersKept, LaneKept
<1>10. OpenInv'
  BY <1>1, <1>2, <1>4, <1>5, <1>6, LifeAtKept, OpenKept
<1>11. ~LostShown(c) /\ c.at \notin Predicting /\ c.at # "submit.call" /\ e.at # "pose.call"
       /\ c.at \notin {"pose.bypass", "pose.call"}
  BY <1>4, <1>5 DEF LostShown, Predicting
<1> QED
  BY <1>1, <1>2, <1>3, <1>4, <1>5, <1>7, <1>8, <1>9, <1>10, <1>11, RelayMove

LEMMA RelayCheckSubmit ==
  ASSUME ShutdownInv, RelayInv, CheckSubmit PROVE RelayInv'
<1>1. PICK to \in {"submit.leave", "submit.lock"} :
        At(Frame, "submit.check") /\ Goto(Frame, to) /\ Calm
  BY DEF CheckSubmit, Calm, providerVars, hookVars, laneVars, history
<1>2. Indifferent("submit.check", to)
  BY DEF Indifferent, Labels, Holding, Predicting, BeforeHost
<1> QED
  BY <1>1, <1>2, CalmGoto, ThreadFacts

\* submitPose takes the lane.
LEMMA RelayLockSubmit ==
  ASSUME ShutdownInv, RelayInv, LockSubmit PROVE RelayInv'
<1>1. /\ At(Frame, "submit.lock") /\ Goto(Frame, "submit.test")
      /\ LaneFree(Frame, Top(Frame).dev) /\ Acquire(Frame, Top(Frame).dev)
      /\ UNCHANGED <<active, ready, kind, slot, hooks, route, shown, basis, armedBy>>
  BY DEF LockSubmit, providerVars, hookVars, history
<1>2. "submit.test" \in Labels /\ Frame \in Threads /\ Frame # Life
  BY ThreadFacts DEF Labels
<1>3. PICK e \in CallType, c \in CallType :
        /\ stack[Frame] # <<>> /\ e = stack[Frame][1] /\ e = Top(Frame) /\ e.at = "submit.lock"
        /\ CallOK(e) /\ e \in SafeCalls
        /\ TopBecomes(Frame, c) /\ c.at = "submit.test" /\ c.dev = e.dev /\ c.sent = e.sent
        /\ c.lost = e.lost /\ c.newer = e.newer
  BY <1>1, <1>2, Moved
<1>4. e.dev \in Devices
  BY <1>3 DEF CallOK
<1>5. StackType /\ TypesInv /\ LaneInv /\ OpenInv
  BY RelayFacts, StackInvType DEF ShutdownInv
<1>6. LaneInv'
  <2>1. e.at \notin Holding /\ c.at \in Holding
    BY <1>3 DEF Holding
  <2> QED
    BY <1>1, <1>2, <1>3, <1>4, <1>5, <2>1, LaneAcquired
<1>7. TypesInv' /\ OpenInv'
  <2>1. LifeAt' = LifeAt
    BY <1>2, <1>3, <1>5, LifeAtKept
  <2>2. TypesInv'
    BY <1>1, <1>5 DEF TypesInv
  <2> QED
    BY <1>1, <1>5, <2>1, <2>2, OpenKept
<1>8. ~LostShown(c) /\ e.at \in Predicting /\ c.at # "submit.call" /\ e.at # "pose.call"
      /\ c.at \notin {"pose.bypass", "pose.call"}
  BY <1>3 DEF LostShown, Predicting
<1> QED
  BY <1>1, <1>2, <1>3, <1>6, <1>7, <1>8, RelayMove

\* With the lane held the prediction is looked at once more.
LEMMA RelayTestGeneration ==
  ASSUME ShutdownInv, RelayInv, TestGeneration PROVE RelayInv'
<1>1. PICK to \in {"submit.call", "submit.leave"} :
        /\ At(Frame, "submit.test") /\ Goto(Frame, to)
        /\ UNCHANGED <<active, ready, kind, slot, hooks, route, shown, basis, armedBy>>
        /\ \/ /\ to = "submit.call" /\ CurrentGeneration(Top(Frame).dev) /\ lane' = lane
           \/ to = "submit.leave" /\ Release(Frame, Top(Frame).dev)
  BY DEF TestGeneration, providerVars, hookVars, laneVars, history
<1>2. to \in Labels /\ Frame \in Threads /\ Frame # Life
  BY ThreadFacts DEF Labels
<1>3. PICK e \in CallType, c \in CallType :
        /\ stack[Frame] # <<>> /\ e = stack[Frame][1] /\ e = Top(Frame) /\ e.at = "submit.test"
        /\ CallOK(e) /\ e \in SafeCalls
        /\ TopBecomes(Frame, c) /\ c.at = to /\ c.dev = e.dev /\ c.sent = e.sent
        /\ c.lost = e.lost /\ c.newer = e.newer
  BY <1>1, <1>2, Moved
<1>4. e.dev \in Devices /\ e.sent = 0
  BY <1>3 DEF CallOK, BeforeHost
<1>5. StackType /\ TypesInv /\ LaneInv /\ OpenInv
  BY RelayFacts, StackInvType DEF ShutdownInv
<1>6. LaneInv'
  <2>1. CASE to = "submit.call"
    <3>1. e.at \in Holding /\ c.at \in Holding /\ lane' = lane
      BY <1>1, <1>3, <2>1 DEF Holding
    <3> QED
      BY <1>2, <1>3, <1>5, <3>1, HoldersKept, LaneKept
  <2>2. CASE to = "submit.leave"
    <3>1. e.at \in Holding /\ c.at \notin Holding
      BY <1>3, <2>2 DEF Holding
    <3> QED
      BY <1>1, <1>2, <1>3, <1>4, <1>5, <2>2, <3>1, LaneReleased
  <2> QED
    BY <2>1, <2>2
<1>7. TypesInv' /\ OpenInv'
  <2>1. LifeAt' = LifeAt
    BY <1>2, <1>3, <1>5, LifeAtKept
  <2>2. TypesInv'
    BY <1>1, <1>5 DEF TypesInv
  <2> QED
    BY <1>1, <1>5, <2>1, <2>2, OpenKept
<1>8. ~LostShown(c) /\ e.at \in Predicting /\ e.at # "pose.call"
      /\ c.at \notin {"pose.bypass", "pose.call"}
  BY <1>1, <1>3, <1>4 DEF LostShown, Predicting
<1>9. c.at = "submit.call" => slot[e.dev].armed /\ slot[e.dev].captured
  BY <1>1, <1>3 DEF CurrentGeneration
<1> QED
  BY <1>1, <1>2, <1>3, <1>6, <1>7, <1>8, <1>9, RelayMove

\* Where the call goes on once a pose is predicted: what was on its way is older from now on.
LEMMA PredictedEffect ==
  ASSUME ShutdownInv, At(Frame, "run.next"), NEW d \in Devices, NEW f,
         stack' = [MarkOlder(stack, d) EXCEPT
                     ![Frame][1] = [@ EXCEPT !.at = "submit.count", !.dev = d,
                                             !.todo = Top(Frame).todo \ {d},
                                             !.lost = (f = "Lost")]]
  PROVE  \E c : /\ TopBecomes(Frame, c) /\ c.at = "submit.count" /\ c.dev = d
                /\ c.lost <=> f = "Lost"
                /\ \A u \in Threads : \A i \in 1 .. Len(stack[u]) :
                     (u # Frame \/ i # 1) /\ stack'[u][i].dev = d => ~stack'[u][i].newer
<1>1. PICK e : e = stack[Frame][1]
  OBVIOUS
<1>2. stack[Frame] # <<>> /\ e \in CallType /\ Top(Frame) = e /\ StackType /\ Frame \in Threads
      /\ 1 \in 1 .. Len(stack[Frame])
  BY <1>1, AtFacts, StackInvType, StackFacts, ThreadFacts DEF ShutdownInv
<1>3. PICK s : s = MarkOlder(stack, d)
  OBVIOUS
<1>4. /\ s \in [Threads -> Seq(CallType)]
      /\ \A u \in Threads : Len(s[u]) = Len(stack[u])
      /\ \A u \in Threads : \A i \in 1 .. Len(stack[u]) :
           Like(s[u][i], stack[u][i]) /\ (s[u][i].dev = d => ~s[u][i].newer)
  BY <1>2, <1>3, MarkOlderLike
<1>5. PICK o : o = s[Frame][1]
  OBVIOUS
<1>6. o \in CallType
  BY <1>2, <1>4, <1>5 DEF Like
<1>7. PICK l \in BOOLEAN : l = (f = "Lost")
  OBVIOUS
<1>8. PICK c : c = Chosen(o, "submit.count", d, e.todo \ {d}, l)
  OBVIOUS
<1>9. Becomes(c, o, "submit.count", d, e.todo \ {d}, o.sent, l)
  <2>1. e.todo \ {d} \in SUBSET Devices /\ d \in Devices \cup {NoDevice}
        /\ "submit.count" \in Labels
    BY <1>2, CallFields DEF Labels
  <2> QED
    BY <1>6, <1>7, <1>8, <2>1, EditChosen
<1>10. c \in CallType /\ c.at = "submit.count" /\ c.dev = d /\ c.lost = l
  BY <1>9 DEF Becomes
<1>11. stack' = [s EXCEPT ![Frame] = [s[Frame] EXCEPT ![1] = c]]
  BY <1>2, <1>3, <1>5, <1>7, <1>8, Zenon DEF Chosen
<1>12. \A u \in Threads : \A i \in 1 .. Len(stack[u]) : Like(s[u][i], stack[u][i])
  BY <1>4
<1>a. s \in [Threads -> Seq(CallType)] /\ \A u \in Threads : Len(s[u]) = Len(stack[u])
  BY <1>4
<1>b. StackType /\ stack[Frame] # <<>> /\ Frame \in Threads /\ c \in CallType
  BY <1>2, <1>10
<1>13. TopBecomes(Frame, c)
  BY <1>11, <1>12, <1>a, <1>b, AgedEffect, Zenon
<1>14. ASSUME NEW u \in Threads, NEW i \in 1 .. Len(stack[u]), u # Frame \/ i # 1,
              stack'[u][i].dev = d
       PROVE  ~stack'[u][i].newer
  <2>1. stack'[u][i] = s[u][i]
    <3>1. CASE u # Frame
      BY <1>4, <1>11, <3>1
    <3>2. CASE u = Frame
      <4>1. s[Frame] \in Seq(CallType) /\ 1 \in 1 .. Len(s[Frame]) /\ i \in 1 .. Len(s[Frame])
        BY <1>2, <1>4, <3>2
      <4>2. [s[Frame] EXCEPT ![1] = c][i] = s[Frame][i]
        BY <1>10, <1>14, <3>2, <4>1, ExceptSeq
      <4> QED
        BY <1>2, <1>4, <1>11, <3>2, <4>2
    <3> QED
      BY <3>1, <3>2
  <2> QED
    BY <1>4, <1>14, <2>1
<1>15. c.lost <=> f = "Lost"
  BY <1>7, <1>10
<1> QED
  BY <1>10, <1>13, <1>14, <1>15

\* A tick predicts for a device whose newest pose the host has.
LEMMA RelayNextDevice ==
  ASSUME ShutdownInv, RelayInv, NextDevice PROVE RelayInv'
<1>1. At(Frame, "run.next")
      /\ UNCHANGED <<active, ready, kind, hooks, lane, route, shown, armedBy>>
  BY Zenon DEF NextDevice, hookVars, laneVars
<1>2. Frame \in Threads /\ Frame # Life /\ Life \in Threads
  BY ThreadFacts
<1>3. PICK e : e = stack[Frame][1]
  OBVIOUS
<1>4. /\ stack[Frame] # <<>> /\ e.at = "run.next" /\ CallOK(e) /\ e \in SafeCalls
      /\ e \in CallType /\ Top(Frame) = e /\ e.todo \in SUBSET Devices
  BY <1>1, <1>2, <1>3, AtFacts, CallFields
<1>5. /\ StackInv /\ StackType /\ TypesInv /\ LaneInv /\ CommitInv /\ OpenInv
      /\ Orderly => FrameInv /\ PredictInv /\ ShownInv
  BY RelayFacts, StackInvType DEF ShutdownInv
<1>6. CASE Goto(Frame, "run.end") /\ UNCHANGED <<slot, basis>>
  <2>1. Calm
    BY <1>1, <1>6 DEF Calm
  <2>2. Indifferent("run.next", "run.end")
    BY DEF Indifferent, Labels, Holding, Predicting
  <2> QED
    BY <1>1, <1>2, <1>6, <2>1, <2>2, CalmGoto
<1>7. ASSUME NEW d \in Top(Frame).todo, stack' = [stack EXCEPT ![Frame][1].todo = @ \ {d}],
             UNCHANGED <<slot, basis>>
      PROVE  RelayInv'
  <2>1. Calm
    BY <1>1, <1>7 DEF Calm
  <2>2. PICK c : c = [e EXCEPT !.todo = e.todo \ {d}]
    OBVIOUS
  <2>3. c \in CallType /\ c.at = "run.next"
    <3>1. e.todo \ {d} \in SUBSET Devices
      BY <1>4
    <3>2. Becomes(c, e, e.at, e.dev, e.todo \ {d}, e.sent, e.lost)
      BY <1>4, <2>2, <3>1, SetTodo
    <3> QED
      BY <1>4, <3>2 DEF Becomes
  <2>4. TopBecomes(Frame, c)
    <3>1. stack' = [stack EXCEPT ![Frame][1] = c]
      BY <1>3, <1>7, <2>2
    <3> QED
      BY <1>2, <1>4, <2>3, <3>1, Edited
  <2>5. /\ c.at \notin Holding /\ e.at \notin Holding /\ ~LostShown(c) /\ c.at \notin Predicting
        /\ e.at # "pose.call" /\ c.at \notin {"pose.bypass", "pose.call"}
    BY <1>4, <2>3 DEF Holding, LostShown, Predicting
  <2> QED
    BY <1>2, <1>3, <1>4, <2>1, <2>4, <2>5, CalmMove
<1>8. ASSUME NEW d \in Top(Frame).todo, kind[d] = "ViveTracker", slot[d].armed,
             NEW f \in Predicted(slot[d].filter),
             slot' = [slot EXCEPT ![d].filter = f, ![d].captured = TRUE],
             stack' = [MarkOlder(stack, d) EXCEPT
                         ![Frame][1] = [@ EXCEPT !.at = "submit.count", !.dev = d,
                                                 !.todo = Top(Frame).todo \ {d},
                                                 !.lost = (f = "Lost")]],
             basis' = [basis EXCEPT ![d] = TRUE]
      PROVE  RelayInv'
  <2>1. d \in Devices
    BY <1>4, <1>8
  <2>2. PICK c : /\ TopBecomes(Frame, c) /\ c.at = "submit.count" /\ c.dev = d
                 /\ c.lost <=> f = "Lost"
                 /\ \A u \in Threads : \A i \in 1 .. Len(stack[u]) :
                      (u # Frame \/ i # 1) /\ stack'[u][i].dev = d => ~stack'[u][i].newer
    BY <1>1, <1>8, <2>1, PredictedEffect, Zenon
  <2>3. Arrives(Frame, c) /\ Remains(Frame) /\ stack'[Frame][1] = c
    BY <1>2, <1>5, <2>2, TopArrives DEF TopBecomes
  <2>4. /\ slot'[d].armed = slot[d].armed /\ slot'[d].filter = f /\ slot'[d].captured = TRUE
        /\ \A q \in Devices : q # d => slot'[q] = slot[q]
        /\ \A q \in Devices : slot'[q].armed = slot[q].armed
    <3>1. slot \in [Devices -> SlotType]
      BY DEF ShutdownInv, ArmedInv, SlotType
    <3> QED
      BY <1>8, <2>1, <3>1 DEF SlotType
  <2>5. TypesInv'
    BY <1>1, <1>5, <1>8 DEF TypesInv
  <2>6. LaneInv'
    <3>1. c.at \notin Holding /\ e.at \notin Holding
      BY <1>4, <2>2 DEF Holding
    <3> QED
      BY <1>1, <1>2, <1>3, <1>4, <1>5, <2>2, <3>1, HoldersKept, LaneKept
  <2>7. OpenInv'
    BY <1>1, <1>2, <1>4, <1>5, <2>2, LifeAtKept, OpenKept
  <2>8. CommitInv'
    <3>1. ASSUME NEW u \in Threads, NEW i \in 1 .. Len(stack'[u]), LostShown(stack'[u][i])
          PROVE  FALSE
      <4>1. ~LostShown(c)
        BY <2>2 DEF LostShown
      <4>2. PICK j \in 1 .. Len(stack[u]) : Like(stack'[u][i], stack[u][j])
        BY <2>3, <3>1, <4>1 DEF Arrives
      <4>3. LostShown(stack[u][j])
        BY <3>1, <4>2, LikeLost
      <4>4. u = Frame /\ j = Len(stack[Frame])
        BY <1>5, <4>3, LostIsFrame
      <4>5. Len(stack[Frame]) = 1
        BY <1>3, <1>4, <1>5, FrameAlone
      <4> QED
        BY <1>3, <1>4, <4>3, <4>4, <4>5 DEF LostShown
    <3>2. \A q \in Devices : armedBy'[q] => slot'[q].armed
      BY <1>1, <1>5, <2>4 DEF CommitInv
    <3> QED
      BY <3>1, <3>2 DEF CommitInv, LostShown
  <2>9. ASSUME Orderly PROVE FrameInv' /\ PredictInv' /\ ShownInv'
    <3>1. FrameInv'
      BY <1>1, <1>2, <1>4, <1>5, <2>2, <2>9, FrameMoves
    <3>2. hooks.pose = "on"
      <4>1. hooks.pose # "none"
        BY <1>4, <1>8, <2>1, ArmedHasHook DEF SafeCalls
      <4>2. stack[Life] = <<>> /\ ready
        BY <1>4, <1>5, <2>9 DEF FrameInv
      <4>3. hooks.pose # "off"
        BY <1>5, <4>2 DEF OpenInv, Opened, LifeAt
      <4> QED
        BY <4>1, <4>3 DEF ShutdownInv, HooksInv, HooksType, HookStates
    <3>3. NoneNewer(d)'
      <4>1. ASSUME NEW u \in Threads, NEW i \in 1 .. Len(stack'[u]),
                   stack'[u][i].dev = d, stack'[u][i].newer
            PROVE  stack'[u][i].at \notin {"pose.bypass", "pose.call"}
        <5>1. i \in 1 .. Len(stack[u])
          BY <2>2 DEF TopBecomes
        <5>2. u = Frame /\ i = 1
          BY <2>2, <4>1, <5>1
        <5> QED
          BY <2>2, <2>3, <5>2
      <4> QED
        BY <4>1 DEF NoneNewer
    <3>4. ASSUME NEW q, q = c PROVE Current(q)'
      <4>1. q.dev = d /\ q.at # "submit.call" /\ (q.lost <=> f = "Lost")
        BY <2>2, <3>4
      <4>2. basis'[d] = TRUE /\ kind'[d] = "ViveTracker" /\ hooks'.pose = "on"
        BY <1>1, <1>5, <1>8, <2>1, <3>2 DEF TypesInv
      <4>3. NoneNewer(q.dev)'
        BY <3>3, <4>1 DEF NoneNewer
      <4> QED
        BY <2>4, <4>1, <4>2, <4>3 DEF Current
    <3>5. PredictInv'
      BY <2>3, <3>4, PredictNext
    <3>6. ASSUME NEW q \in Devices, ready' PROVE Followed(q)'
      <4>1. Followed(q)
        BY <1>1, <1>5, <2>9, <3>6 DEF ShownInv
      <4>2. Coming(q) => Coming(q)'
        <5>1. stack[Frame][1].at # "pose.call"
          BY <1>3, <1>4
        <5> QED
          BY <1>2, <1>5, <2>3, <5>1, ComingRemains
      <4>3. slot[q].filter = "Lost" => slot'[q].filter = "Lost"
        BY <1>8, <2>4 DEF Predicted
      <4> QED
        BY <1>1, <2>4, <4>1, <4>2, <4>3 DEF Followed
    <3> QED
      BY <3>1, <3>5, <3>6 DEF ShownInv
  <2> QED
    BY <2>5, <2>6, <2>7, <2>8, <2>9 DEF RelayInv
<1> QED
  BY <1>6, <1>7, <1>8, Zenon DEF NextDevice

\* The host is shown the prediction, the first and only time for a tracker that is lost.
LEMMA RelaySubmitToHost ==
  ASSUME ShutdownInv, RelayInv, SubmitToHost PROVE RelayInv'
<1>1. PICK e : e = stack[Frame][1]
  OBVIOUS
<1>2. PICK c : c = WithSent(e, "host.synthetic", 1)
  OBVIOUS
<1>3. At(Frame, "submit.call") /\ Frame \in Threads /\ Frame # Life
  BY ThreadFacts DEF SubmitToHost
<1>4. /\ stack[Frame] # <<>> /\ e.at = "submit.call" /\ CallOK(e) /\ e \in CallType
      /\ e.dev \in Devices /\ Top(Frame) = e /\ e.lost \in BOOLEAN
  <2>1. /\ stack[Frame] # <<>> /\ e.at = "submit.call" /\ CallOK(e) /\ e \in CallType
        /\ Top(Frame) = e
    BY <1>1, <1>3, AtFacts
  <2> QED
    BY <2>1, CallFields DEF CallOK
<1>5. /\ stack' = [stack EXCEPT ![Frame][1] = c]
      /\ UNCHANGED <<active, ready, kind, slot, hooks, lane, route, basis>>
      /\ shown' = [shown EXCEPT ![e.dev] = IF e.lost THEN "lost" ELSE "held"]
      /\ armedBy' = [armedBy EXCEPT ![e.dev] = @ /\ ~e.lost]
  BY <1>1, <1>2, <1>4
     DEF SubmitToHost, DeliverSynthetic, WithSent, providerVars, hookVars, laneVars
<1>6. c \in CallType /\ c.at = "host.synthetic" /\ c.dev = e.dev /\ c.lost = e.lost
  <2>1. "host.synthetic" \in Labels /\ 1 \in 0 .. 2
    BY DEF Labels
  <2>2. Becomes(c, e, "host.synthetic", e.dev, e.todo, 1, e.lost)
    BY <1>2, <1>4, <2>1, EditSent
  <2> QED
    BY <2>2 DEF Becomes
<1>7. TopBecomes(Frame, c)
  BY <1>3, <1>4, <1>5, <1>6, Edited
<1>8. /\ StackInv /\ StackType /\ TypesInv /\ LaneInv /\ CommitInv /\ OpenInv
      /\ Orderly => FrameInv /\ PredictInv /\ ShownInv
  BY RelayFacts, StackInvType DEF ShutdownInv
<1>9. Arrives(Frame, c) /\ Remains(Frame) /\ stack'[Frame][1] = c
  BY <1>3, <1>7, <1>8, TopArrives DEF TopBecomes
<1>10. LaneInv'
  <2>1. c.at \in Holding /\ e.at \in Holding
    BY <1>4, <1>6 DEF Holding
  <2> QED
    BY <1>1, <1>3, <1>4, <1>5, <1>6, <1>7, <1>8, <2>1, HoldersKept, LaneKept
<1>11. OpenInv'
  BY <1>3, <1>4, <1>5, <1>7, <1>8, LifeAtKept, OpenKept
<1>12. TypesInv'
  <2>1. armedBy[e.dev] \in BOOLEAN
    BY <1>4, <1>8 DEF TypesInv
  <2> QED
    BY <1>4, <1>5, <1>8, <2>1 DEF TypesInv
<1>13. \A d \in Devices : armedBy'[d] => armedBy[d]
  BY <1>4, <1>5, <1>8 DEF TypesInv
<1>14. CommitInv'
  <2>1. LostShown(c) => ~armedBy'[c.dev]
    BY <1>4, <1>5, <1>6, <1>8 DEF LostShown, TypesInv
  <2>2. \A d \in Devices : armedBy'[d] => slot'[d].armed
    BY <1>5, <1>8, <1>13 DEF CommitInv
  <2>3. \A d \in Devices : slot'[d].captured /\ armedBy'[d] => slot[d].captured /\ armedBy[d]
    BY <1>5, <1>13
  <2> QED
    BY <1>3, <1>8, <1>9, <2>1, <2>2, <2>3, CommitMoves
<1>15. ASSUME Orderly PROVE FrameInv' /\ PredictInv' /\ ShownInv'
  <2>1. FrameInv'
    BY <1>3, <1>4, <1>5, <1>7, <1>8, <1>15, FrameMoves
  <2>2. PredictInv'
    BY <1>6, <1>9 DEF PredictInv, Predicting
  <2>3. Current(e)
    BY <1>1, <1>4, <1>8, <1>15 DEF PredictInv, Predicting
  <2>4. ASSUME NEW d \in Devices, ready' PROVE Followed(d)'
    <3>1. CASE d = e.dev
      <4>1. shown'[d] = IF e.lost THEN "lost" ELSE "held"
        BY <1>5, <1>8, <3>1 DEF TypesInv
      <4>2. e.lost => slot'[d].filter = "Lost"
        BY <1>4, <1>5, <2>3, <3>1 DEF Current
      <4> QED
        BY <4>1, <4>2 DEF Followed
    <3>2. CASE d # e.dev
      <4>1. Followed(d) /\ shown'[d] = shown[d] /\ slot'[d] = slot[d]
        BY <1>5, <1>8, <1>15, <2>4, <3>2 DEF ShownInv, TypesInv
      <4>2. Coming(d) => Coming(d)'
        BY <1>1, <1>3, <1>8, <1>9, <3>2, ComingRemains
      <4> QED
        BY <4>1, <4>2, FollowedKept
    <3> QED
      BY <3>1, <3>2
  <2> QED
    BY <2>1, <2>2, <2>4 DEF ShownInv
<1> QED
  BY <1>10, <1>11, <1>12, <1>14, <1>15 DEF RelayInv

LEMMA RelaySubmitReturns ==
  ASSUME ShutdownInv, RelayInv, SubmitReturns PROVE RelayInv'
<1>1. /\ At(Frame, "host.synthetic") /\ Release(Frame, Top(Frame).dev)
      /\ UNCHANGED <<active, ready, kind, slot, hooks, route, shown, basis, armedBy>>
  BY DEF SubmitReturns, providerVars, hookVars, history
<1>2. PICK e : e = stack[Frame][1]
  OBVIOUS
<1>3. /\ stack[Frame] # <<>> /\ e.at = "host.synthetic" /\ CallOK(e)
      /\ e \in CallType /\ e.dev \in Devices /\ Top(Frame) = e /\ Frame \in Threads /\ Frame # Life
  BY <1>1, <1>2, AtFacts, ThreadFacts DEF CallOK
<1>4. "submit.leave" \in Labels /\ 0 \in 0 .. 2
  BY DEF Labels
<1>5. PICK c : /\ TopBecomes(Frame, c) /\ c.at = "submit.leave" /\ c.dev = e.dev
               /\ c.lost = e.lost /\ (c.sent = e.sent \/ c.sent = 0)
  <2>1. CASE Goto(Frame, "submit.leave")
    <3>1. PICK c : c = [e EXCEPT !.at = "submit.leave"]
      OBVIOUS
    <3>2. c.at = "submit.leave" /\ c.dev = e.dev /\ c.sent = e.sent /\ c.lost = e.lost
      BY <1>3, <1>4, <3>1, RelabelFields
    <3>3. TopBecomes(Frame, c)
      BY <1>2, <1>3, <1>4, <2>1, <3>1, GotoEffect, StackInvType DEF ShutdownInv
    <3> QED
      BY <3>2, <3>3
  <2>2. CASE stack' = [stack EXCEPT ![Frame][1] = [@ EXCEPT !.at = "submit.leave", !.sent = 0]]
    <3>1. PICK c : c = WithSent(e, "submit.leave", 0)
      OBVIOUS
    <3>2. Becomes(c, e, "submit.leave", e.dev, e.todo, 0, e.lost)
      BY <1>3, <1>4, <3>1, EditSent
    <3>3. c \in CallType /\ c.at = "submit.leave" /\ c.dev = e.dev /\ c.sent = 0 /\ c.lost = e.lost
      BY <3>2 DEF Becomes
    <3>4. TopBecomes(Frame, c)
      <4>1. stack' = [stack EXCEPT ![Frame][1] = c]
        BY <1>2, <2>2, <3>1 DEF WithSent
      <4> QED
        BY <1>3, <3>3, <4>1, Edited
    <3> QED
      BY <3>3, <3>4
  <2> QED
    BY <2>1, <2>2 DEF SubmitReturns
<1>6. StackType /\ TypesInv /\ LaneInv /\ OpenInv
  BY RelayFacts, StackInvType DEF ShutdownInv
<1>7. LaneInv'
  <2>1. e.at \in Holding /\ c.at \notin Holding
    BY <1>3, <1>5 DEF Holding
  <2> QED
    BY <1>1, <1>2, <1>3, <1>5, <1>6, <2>1, LaneReleased
<1>8. TypesInv' /\ OpenInv'
  <2>1. LifeAt' = LifeAt
    BY <1>3, <1>5, <1>6, LifeAtKept
  <2>2. TypesInv'
    BY <1>1, <1>6 DEF TypesInv
  <2> QED
    BY <1>1, <1>6, <2>1, <2>2, OpenKept
<1>9. /\ LostShown(c) => LostShown(e)
      /\ c.at \notin Predicting /\ c.at # "submit.call" /\ e.at # "pose.call"
      /\ c.at \notin {"pose.bypass", "pose.call"}
  BY <1>3, <1>5 DEF LostShown, Predicting
<1> QED
  BY <1>1, <1>2, <1>3, <1>5, <1>7, <1>8, <1>9, RelayMove

\* What is committed was shown: the call remembers its device until then.
LEMMA RelayLeaveSubmit ==
  ASSUME ShutdownInv, RelayInv, LeaveSubmit PROVE RelayInv'
<1>1. At(Frame, "submit.leave") /\ Calm
  BY DEF LeaveSubmit, Calm, providerVars, hookVars, laneVars, history
<1>2. PICK e : e = stack[Frame][1]
  OBVIOUS
<1>3. /\ stack[Frame] # <<>> /\ e.at = "submit.leave" /\ CallOK(e) /\ e \in CallType
      /\ e.dev \in Devices /\ Top(Frame) = e /\ Frame \in Threads /\ Frame # Life
  BY <1>1, <1>2, AtFacts, ThreadFacts DEF CallOK
<1>4. PICK to, d : /\ \/ to = "run.commit" /\ d = e.dev /\ e.sent = 1 /\ e.lost
                      \/ to = "run.next" /\ d = NoDevice
                   /\ stack' = [stack EXCEPT ![Frame][1] = Left(e, to, d, 0, FALSE)]
  <2>1. PICK to : to = IF e.sent = 1 /\ e.lost THEN "run.commit" ELSE "run.next"
    OBVIOUS
  <2>2. PICK d : d = IF e.sent = 1 /\ e.lost THEN e.dev ELSE NoDevice
    OBVIOUS
  <2>3. \/ to = "run.commit" /\ d = e.dev /\ e.sent = 1 /\ e.lost
        \/ to = "run.next" /\ d = NoDevice
    BY <1>3, <2>1, <2>2
  <2>4. stack' = [stack EXCEPT ![Frame][1] = Left(e, to, d, 0, FALSE)]
    BY <1>2, <1>3, <2>1, <2>2 DEF LeaveSubmit, Left
  <2> QED
    BY <2>3, <2>4
<1>5. PICK f \in BOOLEAN : f = FALSE
  OBVIOUS
<1>6. PICK c : c = Left(e, to, d, 0, f)
  OBVIOUS
<1>7. c \in CallType /\ c.at = to /\ c.dev = d
  <2>1. to \in Labels /\ d \in Devices \cup {NoDevice} /\ 0 \in 0 .. 2 /\ f \in BOOLEAN
    BY <1>3, <1>4, <1>5 DEF Labels
  <2>2. Becomes(c, e, to, d, e.todo, 0, f)
    BY <1>3, <1>6, <2>1, EditLeft
  <2> QED
    BY <2>2 DEF Becomes
<1>8. TopBecomes(Frame, c)
  <2>1. stack' = [stack EXCEPT ![Frame][1] = c]
    BY <1>4, <1>5, <1>6
  <2> QED
    BY <1>3, <1>7, <2>1, Edited
<1>9. /\ c.at \notin Holding /\ e.at \notin Holding /\ c.at \notin Predicting
      /\ e.at # "pose.call" /\ c.at \notin {"pose.bypass", "pose.call"}
  BY <1>3, <1>4, <1>7 DEF Holding, Predicting
<1>10. LostShown(c) => LostShown(e) /\ c.dev = e.dev
  BY <1>3, <1>4, <1>7 DEF LostShown
<1> QED
  BY <1>1, <1>2, <1>3, <1>8, <1>9, <1>10, CalmMove

\* The commit disarms a slot that no callback has armed since.
LEMMA RelayCommit ==
  ASSUME ShutdownInv, RelayInv, Commit PROVE RelayInv'
<1>1. PICK e : e = stack[Frame][1]
  OBVIOUS
<1>2. PICK c : c = WithDev(e, "run.next", NoDevice)
  OBVIOUS
<1>3. At(Frame, "run.commit") /\ Frame \in Threads /\ Frame # Life
  BY ThreadFacts DEF Commit
<1>4. /\ stack[Frame] # <<>> /\ e.at = "run.commit" /\ CallOK(e) /\ e \in CallType
      /\ e.dev \in Devices /\ Top(Frame) = e /\ 1 \in 1 .. Len(stack[Frame])
  BY <1>1, <1>3, AtFacts, StackInvType, StackFacts DEF CallOK, ShutdownInv
<1>5. /\ stack' = [stack EXCEPT ![Frame][1] = c]
      /\ UNCHANGED <<active, ready, kind, hooks, lane, route, shown, basis, armedBy>>
      /\ slot' = [slot EXCEPT ![e.dev].armed = @ /\ ~slot[e.dev].captured]
  BY <1>1, <1>2, <1>4 DEF Commit, CommitLost, WithDev, hookVars, laneVars, history
<1>6. c \in CallType /\ c.at = "run.next"
  <2>1. "run.next" \in Labels /\ NoDevice \in Devices \cup {NoDevice}
    BY DEF Labels
  <2>2. Becomes(c, e, "run.next", NoDevice, e.todo, e.sent, e.lost)
    BY <1>2, <1>4, <2>1, EditDev
  <2> QED
    BY <2>2 DEF Becomes
<1>7. TopBecomes(Frame, c)
  BY <1>3, <1>4, <1>5, <1>6, Edited
<1>8. /\ StackInv /\ StackType /\ TypesInv /\ LaneInv /\ CommitInv /\ OpenInv
      /\ Orderly => FrameInv /\ PredictInv /\ ShownInv
  BY RelayFacts, StackInvType DEF ShutdownInv
<1>9. Arrives(Frame, c) /\ Remains(Frame) /\ stack'[Frame][1] = c
  BY <1>3, <1>7, <1>8, TopArrives DEF TopBecomes
<1>10. /\ \A d \in Devices : /\ slot'[d].filter = slot[d].filter
                             /\ slot'[d].captured = slot[d].captured
                             /\ slot'[d].armed => slot[d].armed
       /\ slot'[e.dev].armed <=> slot[e.dev].armed /\ ~slot[e.dev].captured
       /\ \A d \in Devices : d # e.dev => slot'[d] = slot[d]
  <2>1. slot \in [Devices -> SlotType]
    BY DEF ShutdownInv, ArmedInv, SlotType
  <2> QED
    BY <1>4, <1>5, <2>1 DEF SlotType
<1>11. LaneInv'
  <2>1. c.at \notin Holding /\ e.at \notin Holding
    BY <1>4, <1>6 DEF Holding
  <2> QED
    BY <1>1, <1>3, <1>4, <1>5, <1>7, <1>8, <2>1, HoldersKept, LaneKept
<1>12. TypesInv' /\ OpenInv'
  <2>1. LifeAt' = LifeAt
    BY <1>3, <1>4, <1>7, <1>8, LifeAtKept
  <2>2. TypesInv'
    BY <1>5, <1>8 DEF TypesInv
  <2> QED
    BY <1>5, <1>8, <2>1, <2>2, OpenKept
<1>13. CommitInv'
  <2>1. ~LostShown(c)
    BY <1>6 DEF LostShown
  <2>2. ASSUME NEW d \in Devices, armedBy'[d] PROVE slot'[d].armed
    <3>1. armedBy[d] /\ slot[d].armed
      BY <1>5, <1>8, <2>2 DEF CommitInv
    <3>2. d = e.dev => ~slot[d].captured
      <4>1. LostShown(e)
        BY <1>4 DEF LostShown
      <4> QED
        BY <1>1, <1>3, <1>4, <1>8, <3>1, <4>1 DEF CommitInv
    <3> QED
      BY <1>10, <3>1, <3>2
  <2>3. \A d \in Devices : slot'[d].captured /\ armedBy'[d] => slot[d].captured /\ armedBy[d]
    BY <1>5, <1>10
  <2> QED
    BY <1>3, <1>8, <1>9, <2>1, <2>2, <2>3, CommitMoves
<1>14. ASSUME Orderly PROVE FrameInv' /\ PredictInv' /\ ShownInv'
  <2>1. FrameInv'
    BY <1>3, <1>4, <1>5, <1>7, <1>8, <1>14, FrameMoves
  <2>2. PredictInv'
    BY <1>6, <1>9 DEF PredictInv, Predicting
  <2>3. ASSUME NEW d \in Devices, ready' PROVE Followed(d)'
    <3>1. Followed(d)
      BY <1>5, <1>8, <1>14, <2>3 DEF ShownInv
    <3>2. Coming(d) => Coming(d)'
      <4>1. stack[Frame][1].at # "pose.call"
        BY <1>1, <1>4
      <4> QED
        BY <1>3, <1>8, <1>9, <4>1, ComingRemains
    <3> QED
      BY <1>5, <1>10, <3>1, <3>2 DEF Followed
  <2> QED
    BY <2>1, <2>2, <2>3 DEF ShownInv
<1> QED
  BY <1>11, <1>12, <1>13, <1>14 DEF RelayInv

LEMMA RelayEndFrame ==
  ASSUME ShutdownInv, RelayInv, EndFrame PROVE RelayInv'
<1>1. /\ At(Frame, "run.end") /\ End(Frame)
      /\ slot' = [d \in Devices |-> [slot[d] EXCEPT !.captured = FALSE]]
      /\ UNCHANGED <<active, ready, kind, hooks, lane, route, shown, basis, armedBy>>
  BY DEF EndFrame, hookVars, laneVars, history
<1>2. /\ stack[Frame] # <<>> /\ stack[Frame][1].at = "run.end" /\ Len(stack[Frame]) = 1
      /\ StackType /\ StackInv /\ Frame \in Threads /\ Frame # Life /\ Life \in Threads
  <2>1. "run.end" \in FrameLabels
    OBVIOUS
  <2> QED
    BY <1>1, <2>1, FrameCounted, ThreadFacts DEF ShutdownInv
<1>3. /\ TypesInv /\ LaneInv /\ CommitInv /\ OpenInv
      /\ Orderly => FrameInv /\ PredictInv /\ ShownInv
  BY RelayFacts
<1>4. Popped(Frame)
  BY <1>1, <1>2, EndEffect
<1>5. Remains(Frame)
  BY <1>2, <1>4, PopArrives
<1>6. stack'[Frame] = <<>>
  <2>1. stack'[Frame] \in Seq(CallType) /\ Len(stack'[Frame]) = 0
    BY <1>2, <1>4 DEF Popped
  <2> QED
    BY <2>1, SeqFacts
<1>7. \A d \in Devices : /\ slot'[d].armed = slot[d].armed /\ slot'[d].filter = slot[d].filter
                         /\ slot'[d].captured = FALSE
  <2>1. slot \in [Devices -> SlotType]
    BY DEF ShutdownInv, ArmedInv, SlotType
  <2> QED
    BY <1>1, <2>1 DEF SlotType
<1>8. LaneInv'
  <2>1. stack[Frame][1].at \notin Holding
    BY <1>2 DEF Holding
  <2> QED
    BY <1>1, <1>2, <1>3, <1>4, <2>1, HoldersPopped, LaneKept
<1>9. TypesInv' /\ OpenInv'
  <2>1. LifeAt' = LifeAt
    BY <1>2, <1>4, LifeAtElsewhere
  <2>2. TypesInv'
    BY <1>1, <1>3 DEF TypesInv
  <2> QED
    BY <1>1, <1>3, <2>1, <2>2, OpenKept
<1>10. CommitInv'
  <2>1. \A d \in Devices : armedBy'[d] => slot'[d].armed
    BY <1>1, <1>3, <1>7 DEF CommitInv
  <2>2. ASSUME NEW u \in Threads, NEW i \in 1 .. Len(stack'[u]), LostShown(stack'[u][i])
        PROVE  FALSE
    <3>1. u # Frame /\ stack'[u] = stack[u]
      BY <1>2, <1>4, <1>6, <2>2, EmptySeq DEF Popped
    <3>2. LostShown(stack[u][i]) /\ i \in 1 .. Len(stack[u])
      BY <2>2, <3>1
    <3> QED
      BY <1>2, <3>1, <3>2, LostIsFrame
  <2> QED
    BY <2>1, <2>2 DEF CommitInv, LostShown
<1>11. ASSUME Orderly PROVE FrameInv' /\ PredictInv' /\ ShownInv'
  <2>1. FrameInv' /\ PredictInv'
    BY <1>6 DEF FrameInv, PredictInv
  <2>2. ASSUME NEW d \in Devices, ready' PROVE Followed(d)'
    <3>1. Followed(d)
      BY <1>1, <1>3, <1>11, <2>2 DEF ShownInv
    <3>2. Coming(d) => Coming(d)'
      BY <1>2, <1>5, ComingRemains
    <3> QED
      BY <1>1, <1>7, <3>1, <3>2 DEF Followed
  <2> QED
    BY <2>1, <2>2 DEF ShownInv
<1> QED
  BY <1>8, <1>9, <1>10, <1>11 DEF RelayInv

-------------------------------------------------------------------------------
(* Init and Cleanup.                                                           *)

\* What the hooks are between Install and Cleanup.
OpenHooks(h) == ~h.detourShutdown /\ h.pose # "off" /\ (h.installed => h.instance)

\* A call of Init or Cleanup that goes on touches no lane, no slot and no pose.
LEMMA LifeStays ==
  ASSUME ShutdownInv, RelayInv, stack[Life] # <<>>, stack[Life][1].at \in LifeLabels,
         NEW c, TopBecomes(Life, c), c.at \in LifeLabels,
         UNCHANGED <<active, ready, kind, slot, lane, shown, basis, armedBy>>,
         route' \in [Devices -> BOOLEAN], c.at \in InitLabels => OpenHooks(hooks')
  PROVE  RelayInv'
<1>1. /\ StackInv /\ StackType /\ TypesInv /\ LaneInv /\ CommitInv /\ OpenInv
      /\ Orderly => FrameInv /\ PredictInv /\ ShownInv
      /\ Life \in Threads /\ Frame \in Threads /\ 1 \in 1 .. Len(stack[Life])
  BY RelayFacts, StackInvType, StackFacts, ThreadFacts DEF ShutdownInv
<1>2. Arrives(Life, c) /\ Remains(Life)
  BY <1>1, TopArrives
<1>3. TypesInv'
  BY <1>1 DEF TypesInv
<1>4. LaneInv'
  <2>1. c.at \notin Holding /\ stack[Life][1].at \notin Holding
    BY DEF Holding
  <2> QED
    BY <1>1, <2>1, HoldersKept, LaneKept
<1>5. CommitInv'
  <2>1. ~LostShown(c)
    BY DEF LostShown
  <2> QED
    BY <1>1, <1>2, <2>1, CommitArrives
<1>6. OpenInv'
  <2>1. LifeAt' = c.at
    BY <1>1, LifeAtMoves
  <2> QED
    BY <2>1 DEF OpenInv, Opened, OpenHooks
<1>7. ASSUME Orderly PROVE FrameInv' /\ PredictInv' /\ ShownInv'
  <2>1. stack'[Frame] = <<>>
    <3>1. stack[Frame] = <<>>
      BY <1>1, <1>7 DEF FrameInv
    <3> QED
      BY <1>1, <3>1, TopCounted
  <2>2. ShownInv'
    <3>1. stack[Life][1].at # "pose.call"
      OBVIOUS
    <3>2. \A d \in Devices : Coming(d) => Coming(d)'
      BY <1>1, <1>2, <3>1, ComingRemains
    <3> QED
      BY <1>1, <1>7, <3>2, ShownFollows
  <2> QED
    BY <2>1, <2>2 DEF FrameInv, PredictInv
<1> QED
  BY <1>3, <1>4, <1>5, <1>6, <1>7 DEF RelayInv

LEMMA LifeGoes ==
  ASSUME ShutdownInv, RelayInv, NEW from \in LifeLabels, NEW to \in LifeLabels,
         At(Life, from), Goto(Life, to),
         UNCHANGED <<active, ready, kind, slot, lane, shown, basis, armedBy>>,
         route' \in [Devices -> BOOLEAN], to \in InitLabels => OpenHooks(hooks')
  PROVE  RelayInv'
<1>1. to \in Labels /\ Life \in Threads
  BY ThreadFacts DEF Labels
<1>2. PICK e \in CallType, c \in CallType :
        /\ stack[Life] # <<>> /\ e = stack[Life][1] /\ e = Top(Life) /\ e.at = from
        /\ CallOK(e) /\ e \in SafeCalls
        /\ TopBecomes(Life, c) /\ c.at = to /\ c.dev = e.dev /\ c.sent = e.sent
        /\ c.lost = e.lost /\ c.newer = e.newer
  BY <1>1, Moved
<1> QED
  BY <1>2, LifeStays

\* Where Init and Cleanup are, and what the hooks are there.
LEMMA LifeFacts ==
  ASSUME ShutdownInv, RelayInv, NEW from \in LifeLabels, At(Life, from)
  PROVE  /\ LifeAt = from /\ hooks \in HooksType /\ route \in [Devices -> BOOLEAN]
         /\ from \in InitLabels \ {"init.install"} => OpenHooks(hooks)
<1>1. LifeAt = from
  BY AtFacts, ThreadFacts DEF LifeAt
<1>2. hooks \in HooksType /\ route \in [Devices -> BOOLEAN] /\ OpenInv
  BY RelayFacts DEF ShutdownInv, HooksInv, TypesInv
<1> QED
  BY <1>1, <1>2 DEF OpenInv, Opened, OpenHooks

LEMMA RelayInstall ==
  ASSUME ShutdownInv, RelayInv, Install PROVE RelayInv'
<1>1. /\ At(Life, "init.install")
      /\ UNCHANGED <<active, ready, kind, slot, lane, route, shown, basis, armedBy>>
  BY DEF Install, providerVars, laneVars, history
<1>2. "init.install" \in LifeLabels
  OBVIOUS
<1>3. LifeAt = "init.install" /\ hooks \in HooksType /\ route \in [Devices -> BOOLEAN]
  BY <1>1, <1>2, LifeFacts
<1>4. ~hooks.installed /\ hooks.pose = "none"
  BY <1>3 DEF ShutdownInv, LifeInv, HooksInv
<1>5. PICK to \in {"init.poseHook", "init.activate"} : Goto(Life, to) /\ OpenHooks(hooks')
  BY <1>3, <1>4 DEF Install, HooksType, OpenHooks
<1>6. to \in LifeLabels
  OBVIOUS
<1> QED
  BY <1>1, <1>2, <1>3, <1>5, <1>6, LifeGoes

LEMMA RelayInstallPoseHook ==
  ASSUME ShutdownInv, RelayInv, InstallPoseHook PROVE RelayInv'
<1>1. /\ At(Life, "init.poseHook") /\ Goto(Life, "init.contextHook")
      /\ UNCHANGED <<active, ready, kind, slot, lane, route, shown, basis, armedBy>>
  BY DEF InstallPoseHook, providerVars, laneVars, history
<1>2. "init.poseHook" \in LifeLabels /\ "init.contextHook" \in LifeLabels
      /\ "init.poseHook" \in InitLabels \ {"init.install"}
  OBVIOUS
<1>3. hooks \in HooksType /\ route \in [Devices -> BOOLEAN] /\ OpenHooks(hooks)
  BY <1>1, <1>2, LifeFacts
<1>4. OpenHooks(hooks')
  BY <1>3 DEF InstallPoseHook, HooksType, OpenHooks
<1> QED
  BY <1>1, <1>2, <1>3, <1>4, LifeGoes

LEMMA RelayInstallContextHook ==
  ASSUME ShutdownInv, RelayInv, InstallContextHook PROVE RelayInv'
<1>1. /\ At(Life, "init.contextHook") /\ Goto(Life, "init.activate")
      /\ UNCHANGED <<active, ready, kind, slot, lane, route, shown, basis, armedBy>>
  BY DEF InstallContextHook, providerVars, laneVars, history
<1>2. "init.contextHook" \in LifeLabels /\ "init.activate" \in LifeLabels
      /\ "init.contextHook" \in InitLabels \ {"init.install"}
  OBVIOUS
<1>3. hooks \in HooksType /\ route \in [Devices -> BOOLEAN] /\ OpenHooks(hooks)
  BY <1>1, <1>2, LifeFacts
<1>4. OpenHooks(hooks')
  BY <1>3 DEF InstallContextHook, HooksType, OpenHooks
<1> QED
  BY <1>1, <1>2, <1>3, <1>4, LifeGoes

\* The steps of Cleanup: where it goes, the hooks are none of the relay's business.
LEMMA RelayCleans ==
  ASSUME ShutdownInv, RelayInv,
         FramesDrained \/ Close \/ DisableHooks \/ CallsDrained \/ Free
  PROVE  RelayInv'
<1>1. PICK from \in CleanLabels : \E to \in CleanLabels :
        /\ At(Life, from) /\ Goto(Life, to)
        /\ UNCHANGED <<active, ready, kind, slot, lane, shown, basis, armedBy>>
        /\ route' = route \/ route' = [d \in Devices |-> FALSE]
  <2>1. CASE FramesDrained
    BY <2>1 DEF FramesDrained, providerVars, hookVars, laneVars, history
  <2>2. CASE Close
    BY <2>2 DEF Close, providerVars, laneVars, history
  <2>3. CASE DisableHooks
    BY <2>3 DEF DisableHooks, providerVars, laneVars, history
  <2>4. CASE CallsDrained
    BY <2>4 DEF CallsDrained, providerVars, hookVars, laneVars, history
  <2>5. CASE Free
    BY <2>5 DEF Free, providerVars, history
  <2> QED
    BY <2>1, <2>2, <2>3, <2>4, <2>5
<1>2. PICK to \in CleanLabels :
        /\ At(Life, from) /\ Goto(Life, to)
        /\ UNCHANGED <<active, ready, kind, slot, lane, shown, basis, armedBy>>
        /\ route' = route \/ route' = [d \in Devices |-> FALSE]
  BY <1>1
<1>3. from \in LifeLabels /\ to \in LifeLabels /\ to \notin InitLabels
  OBVIOUS
<1>4. route' \in [Devices -> BOOLEAN]
  BY <1>2, RelayFacts DEF TypesInv
<1> QED
  BY <1>2, <1>3, <1>4, LifeGoes

LEMMA RelayShutDetours ==
  ASSUME ShutdownInv, RelayInv, ShutDetours PROVE RelayInv'
<1>1. PICK s : s = MarkLate(stack)
  OBVIOUS
<1>2. /\ At(Life, "clean.shutDetours")
      /\ stack' = [s EXCEPT ![Life][1].at = "clean.disable"]
      /\ UNCHANGED <<active, ready, kind, slot, lane, route, shown, basis, armedBy>>
  BY <1>1 DEF ShutDetours, providerVars, laneVars, history
<1>3. /\ s \in [Threads -> Seq(CallType)]
      /\ \A u \in Threads : Len(s[u]) = Len(stack[u])
      /\ \A u \in Threads : \A i \in 1 .. Len(stack[u]) :
           Like(s[u][i], stack[u][i]) /\ s[u][i].late
  BY <1>1, MarkLateLike, StackInvType DEF ShutdownInv
<1>4. /\ stack[Life] # <<>> /\ stack[Life][1].at = "clean.shutDetours"
      /\ 1 \in 1 .. Len(stack[Life]) /\ StackType /\ Life \in Threads
  BY <1>2, AtFacts, StackInvType, StackFacts, ThreadFacts DEF ShutdownInv
<1>5. PICK o : o = s[Life][1]
  OBVIOUS
<1>6. o \in CallType
  BY <1>3, <1>4, <1>5 DEF Like
<1>7. PICK c : c = [o EXCEPT !.at = "clean.disable"]
  OBVIOUS
<1>8. c \in CallType /\ c.at = "clean.disable"
  <2>1. "clean.disable" \in Labels
    BY DEF Labels
  <2> QED
    BY <1>6, <1>7, <2>1, RelabelFields
<1>9. stack' = [s EXCEPT ![Life] = [s[Life] EXCEPT ![1] = c]]
  BY <1>2, <1>5, <1>7
<1>10. TopBecomes(Life, c)
  BY <1>3, <1>4, <1>8, <1>9, AgedEffect
<1>11. route' \in [Devices -> BOOLEAN] /\ c.at \in LifeLabels /\ c.at \notin InitLabels
       /\ stack[Life][1].at \in LifeLabels
  BY <1>2, <1>4, <1>8, RelayFacts DEF TypesInv
<1> QED
  BY <1>2, <1>4, <1>10, <1>11, LifeStays

\* What the first step of Init or Cleanup asks of the slots: none of them is armed by what
\* the host was shown before.
LEMMA LifeStarts ==
  ASSUME ShutdownInv, RelayInv, MayBegin, NEW c \in CallType, Begin(Life, c),
         c.at \in {"init.install", "clean.drainFrames"}, TypesInv',
         UNCHANGED <<hooks, lane, shown>>,
         \A d \in Devices : armedBy'[d] => slot'[d].armed,
         \A d \in Devices : armedBy'[d] => armedBy[d] /\ slot'[d] = slot[d],
         ready' => \A d \in Devices : ~slot'[d].armed
  PROVE  RelayInv'
<1>1. /\ StackInv /\ StackType /\ LaneInv /\ CommitInv /\ Life \in Threads /\ Frame \in Threads
      /\ Frame # Life
  BY RelayFacts, StackInvType, ThreadFacts DEF ShutdownInv
<1>2. Pushed(Life, c)
  BY <1>1, BeginEffect
<1>3. Arrives(Life, c)
  BY <1>1, <1>2, PushArrives
<1>4. LaneInv'
  <2>1. c.at \notin Holding
    BY DEF Holding
  <2> QED
    BY <1>1, <1>2, <2>1, HoldersPushed, LaneKept
<1>5. CommitInv'
  <2>1. ~LostShown(c)
    BY DEF LostShown
  <2> QED
    BY <1>1, <1>3, <2>1, CommitMoves
<1>6. OpenInv'
  <2>1. LifeAt' = c.at
    BY <1>1, <1>2, LifeAtBegins
  <2> QED
    BY <2>1 DEF OpenInv, Opened
<1>7. ASSUME Orderly PROVE FrameInv' /\ PredictInv' /\ ShownInv'
  <2>1. stack'[Frame] = <<>>
    BY <1>1, <1>2, <1>7 DEF MayBegin, Orderly, Pushed
  <2>2. ShownInv'
    BY DEF ShownInv, Followed
  <2> QED
    BY <2>1, <2>2 DEF FrameInv, PredictInv
<1> QED
  BY <1>4, <1>5, <1>6, <1>7 DEF RelayInv

LEMMA RelayStartInit ==
  ASSUME ShutdownInv, RelayInv, StartInit PROVE RelayInv'
<1>1. PICK c : c = Call("init.install", NoDevice, FALSE, FALSE)
  BY DEF Call
<1>2. /\ MayBegin /\ ready' = TRUE /\ Begin(Life, c)
      /\ kind' = [d \in Devices |-> "Unknown"] /\ slot' = [d \in Devices |-> EmptySlot]
      /\ armedBy' = [d \in Devices |-> FALSE]
      /\ UNCHANGED <<active, hooks, lane, route, shown, basis>>
  BY <1>1 DEF StartInit, hookVars, laneVars
<1>3. c \in CallType /\ c.at = "init.install"
  <2>1. "init.install" \in Labels /\ NoDevice \in Devices \cup {NoDevice} /\ FALSE \in BOOLEAN
    BY DEF Labels
  <2> QED
    BY <1>1, <2>1 DEF Call, CallType
<1>4. TypesInv'
  BY <1>2, RelayFacts DEF TypesInv, Kinds
<1>5. \A d \in Devices : ~armedBy'[d] /\ ~slot'[d].armed
  BY <1>2 DEF EmptySlot
<1> QED
  BY <1>2, <1>3, <1>4, <1>5, LifeStarts

LEMMA RelayStartCleanup ==
  ASSUME ShutdownInv, RelayInv, StartCleanup PROVE RelayInv'
<1>1. PICK c : c = Call("clean.drainFrames", NoDevice, FALSE, FALSE)
  BY DEF Call
<1>2. /\ MayBegin /\ ready' = FALSE /\ active' = FALSE /\ Begin(Life, c)
      /\ UNCHANGED <<kind, slot, hooks, lane, route, shown, basis, armedBy>>
  <2>1. MayBegin /\ ready' = FALSE /\ active' = FALSE /\ Begin(Life, c)
    BY <1>1, Zenon DEF StartCleanup
  <2>2. UNCHANGED <<kind, slot, hooks, lane, route, shown, basis, armedBy>>
    BY DEF StartCleanup, hookVars, laneVars, history
  <2> QED
    BY <2>1, <2>2
<1>3. c \in CallType /\ c.at = "clean.drainFrames"
  <2>1. "clean.drainFrames" \in Labels /\ NoDevice \in Devices \cup {NoDevice}
        /\ FALSE \in BOOLEAN
    BY DEF Labels
  <2> QED
    BY <1>1, <2>1 DEF Call, CallType
<1>4. TypesInv'
  BY <1>2, RelayFacts DEF TypesInv
<1>5. \A d \in Devices : armedBy'[d] => slot'[d].armed /\ armedBy[d] /\ slot'[d] = slot[d]
  BY <1>2, RelayFacts DEF CommitInv
<1> QED
  BY <1>2, <1>3, <1>4, <1>5, LifeStarts

\* The last step of Init or Cleanup.
LEMMA LifeFinishes ==
  ASSUME ShutdownInv, RelayInv, NEW from \in {"init.activate", "clean.filters"},
         At(Life, from), End(Life), UNCHANGED <<runFrames, inFlight>>, TypesInv',
         UNCHANGED <<ready, hooks, lane, shown, armedBy>>,
         \A d \in Devices : slot'[d].armed = slot[d].armed /\ slot'[d].captured = slot[d].captured,
         slot' = slot \/ ~ready
  PROVE  RelayInv'
<1>0. from \in LifeLabels
  OBVIOUS
<1>1. /\ StackInv /\ StackType /\ LaneInv /\ CommitInv /\ OpenInv
      /\ Orderly => FrameInv /\ PredictInv /\ ShownInv
      /\ Life \in Threads /\ Frame \in Threads /\ Frame # Life
      /\ stack[Life] # <<>> /\ stack[Life][1].at = from
  BY <1>0, RelayFacts, StackInvType, ThreadFacts, AtFacts DEF ShutdownInv
<1>2. Popped(Life) /\ LifeAt = from /\ LifeAt' = "none"
  BY <1>0, LifeEnds
<1>3. /\ \A u \in Threads : \A i \in 1 .. Len(stack'[u]) :
           \E j \in 1 .. Len(stack[u]) : Like(stack'[u][i], stack[u][j])
      /\ Remains(Life)
  BY <1>1, <1>2, PopArrives
<1>4. LaneInv'
  <2>1. stack[Life][1].at \notin Holding
    BY <1>1 DEF Holding
  <2> QED
    BY <1>1, <1>2, <2>1, HoldersPopped, LaneKept
<1>5. CommitInv'
  <2>1. \A d \in Devices : armedBy'[d] => slot'[d].armed
    BY <1>1 DEF CommitInv
  <2>2. ASSUME NEW u \in Threads, NEW i \in 1 .. Len(stack'[u]), LostShown(stack'[u][i]),
               slot'[stack'[u][i].dev].captured
        PROVE  ~armedBy'[stack'[u][i].dev]
    <3>1. PICK j \in 1 .. Len(stack[u]) : Like(stack'[u][i], stack[u][j])
      BY <1>3
    <3>2. LostShown(stack[u][j]) /\ stack'[u][i].dev = stack[u][j].dev
      BY <2>2, <3>1, LikeLost
    <3>3. stack[u][j].dev \in Devices
      <4>1. stack[u][j].at \in {"run.commit", "host.synthetic", "submit.leave"}
        BY <3>2 DEF LostShown
      <4>2. CallOK(stack[u][j])
        BY <1>1 DEF StackInv
      <4> QED
        BY <4>1, <4>2 DEF CallOK
    <3> QED
      BY <1>1, <2>2, <3>2, <3>3 DEF CommitInv
  <2> QED
    BY <2>1, <2>2 DEF CommitInv, LostShown
<1>6. OpenInv'
  <2>1. ready => from = "init.activate"
    BY <1>2 DEF ShutdownInv, LifeInv
  <2> QED
    BY <1>1, <1>2, <2>1 DEF OpenInv, Opened
<1>7. ASSUME Orderly PROVE FrameInv' /\ PredictInv' /\ ShownInv'
  <2>1. stack'[Frame] = <<>>
    BY <1>1, <1>2, <1>7 DEF FrameInv, Popped
  <2>2. ASSUME ready' PROVE ShownInv'
    <3>1. stack[Life][1].at # "pose.call"
      BY <1>1
    <3>2. \A d \in Devices : Coming(d) => Coming(d)'
      BY <1>1, <1>3, <3>1, ComingRemains
    <3> QED
      BY <1>1, <1>7, <2>2, <3>2, ShownFollows
  <2>3. ShownInv'
    BY <2>2 DEF ShownInv
  <2> QED
    BY <2>1, <2>3 DEF FrameInv, PredictInv
<1> QED
  BY <1>4, <1>5, <1>6, <1>7 DEF RelayInv

LEMMA RelayActivate ==
  ASSUME ShutdownInv, RelayInv, Activate PROVE RelayInv'
<1>1. /\ At(Life, "init.activate") /\ End(Life) /\ active' = TRUE
      /\ UNCHANGED <<ready, runFrames, kind, slot, hooks, lane, route, inFlight>>
      /\ UNCHANGED <<shown, basis, armedBy>>
  BY DEF Activate, hookVars, laneVars, history
<1>2. TypesInv'
  BY <1>1, RelayFacts DEF TypesInv
<1>3. \A d \in Devices : slot'[d].armed = slot[d].armed /\ slot'[d].captured = slot[d].captured
  BY <1>1
<1> QED
  BY <1>1, <1>2, <1>3, LifeFinishes

LEMMA RelayResetFilters ==
  ASSUME ShutdownInv, RelayInv, ResetFilters PROVE RelayInv'
<1>1. /\ At(Life, "clean.filters") /\ End(Life)
      /\ slot' = [d \in Devices |-> [slot[d] EXCEPT !.filter = "Cold"]]
      /\ UNCHANGED <<active, ready, runFrames, kind, hooks, lane, route, inFlight>>
      /\ UNCHANGED <<shown, basis, armedBy>>
  BY DEF ResetFilters, hookVars, laneVars, history
<1>2. TypesInv'
  BY <1>1, RelayFacts DEF TypesInv
<1>3. \A d \in Devices : slot'[d].armed = slot[d].armed /\ slot'[d].captured = slot[d].captured
  <2>1. slot \in [Devices -> SlotType]
    BY DEF ShutdownInv, ArmedInv, SlotType
  <2> QED
    BY <1>1, <2>1 DEF SlotType
<1>4. ~ready
  <2>1. LifeAt = "clean.filters"
    BY <1>1, AtFacts, ThreadFacts DEF LifeAt
  <2> QED
    BY <2>1 DEF ShutdownInv, LifeInv
<1> QED
  BY <1>1, <1>2, <1>3, <1>4, LifeFinishes

-------------------------------------------------------------------------------
(* The specification.                                                          *)

LEMMA RelayInit ==
  Init => RelayInv
<1> SUFFICES ASSUME Init PROVE RelayInv
  OBVIOUS
<1>1. /\ \A t \in Threads : stack[t] = <<>> /\ Len(stack[t]) = 0
      /\ Life \in Threads /\ Frame \in Threads
  BY ThreadFacts DEF Init
<1>2. TypesInv
  BY DEF Init, TypesInv, Kinds
<1>3. LaneInv
  <2>1. \A d \in Devices : Holders(d) = {}
    BY <1>1 DEF Holders
  <2>2. lane \in [Devices -> [owner : Threads \cup {NoThread}, depth : Nat]]
        /\ \A d \in Devices : lane[d].depth = 0
    BY DEF Init, FreeLane
  <2> QED
    BY <2>1, <2>2, FS_EmptySet DEF LaneInv
<1>4. CommitInv
  BY <1>1 DEF CommitInv, Init
<1>5. OpenInv
  BY <1>1 DEF OpenInv, Opened, LifeAt, Init
<1>6. FrameInv /\ PredictInv /\ ShownInv
  BY <1>1 DEF FrameInv, PredictInv, ShownInv, Init
<1> QED
  BY <1>2, <1>3, <1>4, <1>5, <1>6 DEF RelayInv

LEMMA RelayNext ==
  ShutdownInv /\ RelayInv /\ [Next]_vars => RelayInv'
<1> SUFFICES ASSUME ShutdownInv, RelayInv, [Next]_vars PROVE RelayInv'
  OBVIOUS
<1>1. CASE UNCHANGED vars
  BY <1>1, RelayStutter DEF vars, Calm
<1>2. CASE HostStep
  BY <1>2, RelayReportPose, RelayRequestInterface, RelayStartFrame, RelayStartInit,
     RelayStartCleanup DEF HostStep
<1>3. ASSUME NEW t \in Threads, PoseStep(t) PROVE RelayInv'
  <2>1. CASE Count(t, "pose.count", "pose.check")
    BY <2>1, RelayCount
  <2>2. CASE CallHost(t, "pose.call", "host.pose") \/ CallHost(t, "pose.bypass", "host.bypass")
    BY <2>2, RelayCallHost
  <2> QED
    BY <1>3, <2>1, <2>2, RelayCheckShutdown, RelayLoadOriginal, RelayTestTarget, RelayLockLane,
       RelayFilterPose, RelayLeave DEF PoseStep
<1>4. ASSUME NEW t \in Threads, GetStep(t) PROVE RelayInv'
  <2>1. CASE Count(t, "get.count", "get.check")
    BY <2>1, RelayCount
  <2> QED
    BY <1>4, <2>1, RelayCheckInterface, RelayLoadInterface, RelayObserve DEF GetStep
<1>5. ASSUME NEW t \in Threads, Returns(t) PROVE RelayInv'
  BY <1>5, RelayHostReturns, RelayBypassReturns DEF Returns
<1>6. CASE FrameStep
  <2>1. CASE Count(Frame, "submit.count", "submit.check")
    BY <2>1, RelayCount, ThreadFacts
  <2> QED
    BY <1>6, <2>1, RelayCountFrame, RelayClassify, RelayNextDevice, RelayCheckSubmit,
       RelayLockSubmit, RelayTestGeneration, RelaySubmitToHost, RelayLeaveSubmit, RelayCommit,
       RelayEndFrame DEF FrameStep
<1>7. CASE SubmitReturns
  BY <1>7, RelaySubmitReturns
<1>8. CASE LifeStep
  BY <1>8, RelayInstall, RelayInstallPoseHook, RelayInstallContextHook, RelayActivate,
     RelayCleans, RelayShutDetours, RelayResetFilters DEF LifeStep
<1> QED
  BY <1>1, <1>2, <1>3, <1>4, <1>5, <1>6, <1>7, <1>8 DEF Next, ThreadStep

\* The invariant of the relay holds in every state.
THEOREM RelayHolds == Spec => [](ShutdownInv /\ RelayInv)
<1>1. Init => RelayInv
  BY RelayInit
<1>2. ShutdownInv /\ RelayInv /\ [Next]_vars => RelayInv'
  BY RelayNext
<1> QED
  BY <1>1, <1>2, ShutdownHolds, PTL DEF Spec

\* Every variable has its type, however the host nests its calls and whatever throws.
THEOREM VariablesTyped == Spec => []TypeOK
<1>1. ShutdownInv /\ RelayInv => TypeOK
  <2> SUFFICES ASSUME ShutdownInv, RelayInv PROVE TypeOK
    OBVIOUS
  <2>1. runFrames \in Nat
    BY DEF ShutdownInv, LifeInv, RunCounted
  <2>2. inFlight \in Nat
    BY FS_CardinalityType DEF ShutdownInv, CountInv
  <2>3. mutex \in Threads \cup {NoThread}
    BY ThreadFacts DEF ShutdownInv, LifeInv
  <2>4. slot \in [Devices -> [armed : BOOLEAN, filter : Filters, captured : BOOLEAN]]
        /\ hooks \in HooksType
    BY DEF ShutdownInv, ArmedInv, HooksInv
  <2>5. ASSUME NEW t \in Threads, NEW i \in DOMAIN stack[t] PROVE stack[t][i] \in CallType
    BY StackFacts, StackInvType DEF ShutdownInv
  <2>6. TypesInv /\ lane \in [Devices -> [owner : Threads \cup {NoThread}, depth : Nat]]
    BY RelayFacts DEF LaneInv
  <2> QED
    BY <2>1, <2>2, <2>3, <2>4, <2>5, <2>6 DEF TypeOK, TypesInv
<1> QED
  BY <1>1, RelayHolds, PTL

\* The commit of a Lost pose disarms no slot that a callback has armed since: a tracker that
\* comes back is watched again.
THEOREM SlotsStayArmed == Spec => []ArmedStaysArmed
<1>1. RelayInv => ArmedStaysArmed
  BY DEF RelayInv, CommitInv, ArmedStaysArmed
<1> QED
  BY <1>1, RelayHolds, PTL

-------------------------------------------------------------------------------
(* What the host is shown.                                                     *)

\* A pose on its way to the host holds the lane of its device: no prediction does.
LEMMA NotComing ==
  ASSUME StackInv, LaneInv, stack[Frame] # <<>>, NEW e, e = stack[Frame][1],
         e.at = "submit.call", e.dev \in Devices
  PROVE  ~Coming(e.dev)
<1>1. StackType /\ Frame \in Threads /\ 1 \in 1 .. Len(stack[Frame]) /\ Len(stack[Frame]) \in Nat
  BY StackInvType, StackFacts, ThreadFacts
<1>2. ASSUME NEW u \in Threads, NEW i \in 1 .. Len(stack[u]),
             stack[u][i].at = "pose.call", stack[u][i].dev = e.dev
      PROVE  FALSE
  <2>1. stack[u][i].at \in Holding /\ e.at \in Holding
    BY <1>2 DEF Holding
  <2>2. u = Frame
    BY <1>1, <1>2, <2>1, LaneHeld
  <2>3. i # 1
    BY <1>2, <2>2
  <2>4. i \in 2 .. Len(stack[Frame])
    BY <1>1, <2>2, <2>3
  <2>5. stack[Frame][i].at \in InHost
    BY <1>1, <2>4 DEF StackInv
  <2> QED
    BY <1>2, <2>2, <2>5 DEF InHost
<1> QED
  BY <1>2 DEF Coming

\* A prediction that is about to be shown is the newest there is, and not the second to tell
\* of a loss with something else in between.
LEMMA AboutToShow ==
  ASSUME ShutdownInv, RelayInv, Orderly, At(Frame, "submit.call"),
         NEW e, e = stack[Frame][1]
  PROVE  /\ e = Top(Frame) /\ e.dev \in Devices /\ e.lost \in BOOLEAN /\ basis[e.dev]
         /\ shown[e.dev] \in {"raw", "held"} \/ (shown[e.dev] = "lost" /\ e.lost)
<1>1. /\ stack[Frame] # <<>> /\ e.at = "submit.call" /\ CallOK(e) /\ e \in CallType
      /\ Top(Frame) = e /\ e.dev \in Devices /\ e.lost \in BOOLEAN
  <2>1. /\ stack[Frame] # <<>> /\ e.at = "submit.call" /\ CallOK(e) /\ e \in CallType
        /\ Top(Frame) = e
    BY AtFacts, ThreadFacts
  <2> QED
    BY <2>1, CallFields DEF CallOK
<1>2. StackInv /\ LaneInv /\ FrameInv /\ PredictInv /\ ShownInv
  BY RelayFacts DEF ShutdownInv
<1>3. Current(e)
  BY <1>1, <1>2 DEF PredictInv, Predicting
<1>4. /\ slot[e.dev].armed /\ slot[e.dev].captured /\ basis[e.dev]
      /\ e.lost <=> slot[e.dev].filter = "Lost"
  BY <1>1, <1>3 DEF Current
<1>5. Followed(e.dev)
  BY <1>1, <1>2 DEF FrameInv, ShownInv
<1>6. ~Coming(e.dev)
  BY <1>1, <1>2, NotComing
<1> QED
  BY <1>1, <1>4, <1>5, <1>6 DEF Followed

\* A predicted pose never reaches the host after a newer pose of the same device, as long as
\* RunFrame does not overlap Init or Cleanup and the lane can be taken.
THEOREM NoneIsStale == ASSUME Orderly PROVE Spec => NoStalePrediction
<1>1. ShutdownInv /\ RelayInv =>
        (At(Frame, "submit.call") /\ stack'[Frame][1].sent = 1 => basis[Top(Frame).dev])
  BY AboutToShow
<1> QED
  BY <1>1, RelayHolds, PTL DEF NoStalePrediction

\* The steps of the relay.
LEMMA RelayForward ==
  ASSUME NEW d \in Devices, NEW newer \in BOOLEAN, DeliverRaw(d, newer)
  PROVE  Relay!Next
<1>1. Relay!Forward(d)
  BY DEF Relay!Forward, DeliverRaw
<1> QED
  BY <1>1 DEF Relay!Next

LEMMA RelayShow ==
  ASSUME ShutdownInv, RelayInv, Orderly, SubmitToHost
  PROVE  Relay!Next \/ UNCHANGED <<shown, basis>>
<1>1. PICK e : e = stack[Frame][1]
  OBVIOUS
<1>2. /\ e = Top(Frame) /\ e.dev \in Devices /\ e.lost \in BOOLEAN /\ basis[e.dev]
      /\ shown[e.dev] \in {"raw", "held"} \/ (shown[e.dev] = "lost" /\ e.lost)
  BY <1>1, AboutToShow DEF SubmitToHost
<1>3. shown' = [shown EXCEPT ![e.dev] = IF e.lost THEN "lost" ELSE "held"] /\ basis' = basis
  BY <1>2 DEF SubmitToHost, DeliverSynthetic
<1>4. CASE shown[e.dev] \in {"raw", "held"}
  <2>1. Relay!Show(e.dev)
    BY <1>2, <1>3, <1>4 DEF Relay!Show
  <2> QED
    BY <1>2, <2>1 DEF Relay!Next
<1>5. CASE shown[e.dev] = "lost" /\ e.lost
  <2>1. shown' = shown
    BY <1>2, <1>3, <1>5, RelayFacts DEF TypesInv
  <2> QED
    BY <1>3, <2>1
<1> QED
  BY <1>2, <1>4, <1>5

LEMMA RelayPredict ==
  ASSUME ShutdownInv, NextDevice
  PROVE  Relay!Next \/ UNCHANGED <<shown, basis>>
<1>1. shown' = shown
  BY Zenon DEF NextDevice
<1>2. Top(Frame).todo \in SUBSET Devices
  BY AtFacts, CallFields, ThreadFacts, Zenon DEF NextDevice
<1>3. basis' = basis \/ \E d \in Top(Frame).todo : basis' = [basis EXCEPT ![d] = TRUE]
  BY Zenon DEF NextDevice
<1>4. ASSUME NEW d \in Devices, basis' = [basis EXCEPT ![d] = TRUE] PROVE Relay!Next
  <2>1. Relay!Predict(d)
    BY <1>1, <1>4 DEF Relay!Predict
  <2> QED
    BY <2>1 DEF Relay!Next
<1> QED
  BY <1>1, <1>2, <1>3, <1>4

LEMMA RelayStep ==
  ASSUME ShutdownInv, RelayInv, Orderly, [Next]_vars
  PROVE  Relay!Next \/ UNCHANGED <<shown, basis>>
<1>1. CASE UNCHANGED vars
  BY <1>1 DEF vars
<1>2. CASE HostStep
  <2>1. ASSUME NEW t \in Threads, NEW d \in Devices, ReportPose(t, d)
        PROVE  Relay!Next \/ UNCHANGED <<shown, basis>>
    <3>1. DeliverRaw(d, TRUE) \/ UNCHANGED <<shown, basis>>
      BY <2>1 DEF ReportPose
    <3> QED
      BY <3>1, RelayForward
  <2>2. CASE \E t \in Threads : RequestInterface(t)
    BY <2>2 DEF RequestInterface, history
  <2>3. CASE StartFrame \/ StartInit \/ StartCleanup
    BY <2>3 DEF StartFrame, StartInit, StartCleanup, history
  <2> QED
    BY <1>2, <2>1, <2>2, <2>3 DEF HostStep
<1>3. ASSUME NEW t \in Threads, PoseStep(t) PROVE Relay!Next \/ UNCHANGED <<shown, basis>>
  <2>1. ASSUME CallHost(t, "pose.call", "host.pose") \/ CallHost(t, "pose.bypass", "host.bypass")
        PROVE  Relay!Next
    <3>1. PICK from \in {"pose.call", "pose.bypass"} : At(t, from)
                                                   /\ DeliverRaw(Top(t).dev, Top(t).newer)
      BY <2>1 DEF CallHost
    <3>2. PICK e : e = stack[t][1]
      OBVIOUS
    <3>3. e = Top(t) /\ e.at = from /\ CallOK(e) /\ e \in CallType
      BY <3>1, <3>2, AtFacts
    <3>4. e.dev \in Devices /\ e.newer \in BOOLEAN
      BY <3>3, CallFields DEF CallOK
    <3> QED
      BY <3>1, <3>3, <3>4, RelayForward
  <2>2. CASE Count(t, "pose.count", "pose.check") \/ CheckShutdown(t) \/ LoadOriginal(t)
             \/ TestTarget(t) \/ LockLane(t) \/ Leave(t)
    BY <2>2 DEF Count, CheckShutdown, LoadOriginal, TestTarget, LockLane, Leave, history
  <2>3. CASE FilterPose(t)
    BY <2>3 DEF FilterPose
  <2> QED
    BY <1>3, <2>1, <2>2, <2>3 DEF PoseStep
<1>4. ASSUME NEW t \in Threads, GetStep(t) \/ Returns(t) PROVE UNCHANGED <<shown, basis>>
  BY <1>4 DEF GetStep, Returns, Count, CheckInterface, LoadInterface, Observe, HostReturns,
              BypassReturns, history
<1>5. CASE FrameStep \/ SubmitReturns
  <2>1. CASE CountFrame \/ Classify \/ Count(Frame, "submit.count", "submit.check")
             \/ CheckSubmit \/ LockSubmit \/ TestGeneration \/ LeaveSubmit \/ Commit \/ EndFrame
             \/ SubmitReturns
    BY <2>1, Zenon
       DEF CountFrame, Classify, Count, CheckSubmit, LockSubmit, TestGeneration, LeaveSubmit,
           Commit, EndFrame, SubmitReturns, history
  <2> QED
    BY <1>5, <2>1, RelayShow, RelayPredict DEF FrameStep
<1>6. CASE LifeStep
  BY <1>6, Zenon
     DEF LifeStep, Install, InstallPoseHook, InstallContextHook, Activate, FramesDrained, Close,
         ShutDetours, DisableHooks, CallsDrained, Free, ResetFilters, history
<1> QED
  BY <1>1, <1>2, <1>3, <1>4, <1>5, <1>6 DEF Next, ThreadStep

\* What the host is shown follows PoseRelay, whatever threads, locks and hooks are behind it:
\* a prediction continues the newest pose, and the loss of a tracker is told once.
THEOREM ForwardingFollowsRelay == ASSUME Orderly PROVE Spec => FollowsRelay
<1>1. Init => Relay!Init
  BY DEF Init, Relay!Init
<1>2. ShutdownInv /\ RelayInv /\ [Next]_vars => [Relay!Next]_(Relay!relayVars)
  BY RelayStep DEF Relay!relayVars
<1> QED
  BY <1>1, <1>2, RelayHolds, PTL DEF Spec, FollowsRelay, Relay!Spec
===============================================================================
