---------------------------- MODULE PoseForwarding ----------------------------
(***************************************************************************)
(* How poses travel through src/driver/hooks.cpp and server_provider.cpp:  *)
(* callbacks of the host enter the detours on any thread, RunFrame sends   *)
(* predicted poses when callbacks go silent, and Init and Cleanup install  *)
(* and remove the hooks under both.                                        *)
(*                                                                         *)
(* Every thread has a stack of calls, its top first; a call is a record    *)
(* whose field at is its program counter.  The host may call back into the *)
(* detour on the thread of a call it is serving, which pushes another call *)
(* on that stack.  A critical section of slot.mutex never blocks and never *)
(* calls the host, so it is one step; the forwarding lane of a device and  *)
(* the mutex of the hooks are held across steps.                           *)
(*                                                                         *)
(* What the pose filter computes is left to PoseFilter: here a filter is   *)
(* Cold, Live (some pose is shown) or Lost, and a push or a tick picks any *)
(* outcome that module allows.                                             *)
(***************************************************************************)
EXTENDS Sequences, Integers, FiniteSets

CONSTANTS
  Callers,   \* threads of other drivers that report poses and ask for interfaces
  Frame,     \* the thread that calls RunFrame
  Life,      \* the thread that calls Init and Cleanup
  Devices,   \* the devices that exist, at most k_unMaxTrackedDeviceCount
  NoDevice, NoThread,
  MaxDepth,  \* how deep the host may nest its calls on one thread
  Overlap,   \* may Init or Cleanup overlap a RunFrame of the other thread?
  Faults     \* what may throw: "lock", "filter", "host"

Threads == Callers \cup {Frame, Life}

ASSUME ThreadAssumption ==
  /\ Frame # Life /\ {Frame, Life} \cap Callers = {} /\ NoThread \notin Threads
  /\ NoDevice \notin Devices
ASSUME BoundAssumption ==
  MaxDepth \in Nat \ {0} /\ Overlap \in BOOLEAN /\ Faults \subseteq {"lock", "filter", "host"}

VARIABLES
  active,     \* active_
  ready,      \* Init was called and Cleanup was not called since
  runFrames,  \* runFramesInFlight_
  kind,       \* kinds_ of the registry
  slot,       \* per device: armed (hasDriverPose), filter, and whether generation
              \* still equals the one the running RunFrame captured
  hooks,      \* the hook object and its static flags
  inFlight,   \* inFlight_
  mutex,      \* owner of mutex_
  lane,       \* per device: owner and depth of the recursive route mutex
  route,      \* per device: route.host and route.original are set
  stack,      \* the calls in progress on each thread
  shown,      \* history: the last pose the host was given for a device
  basis,      \* history: no newer pose went out since the watchdog last predicted
  armedBy     \* history: the last callback armed the slot and no Lost pose went out since

providerVars == <<active, ready, runFrames, kind, slot>>
hookVars == <<hooks, mutex>>
laneVars == <<lane, route>>
history == <<shown, basis, armedBy>>
vars == <<active, ready, runFrames, kind, slot, hooks, inFlight, mutex, lane, route,
          stack, shown, basis, armedBy>>

Kinds == {"Unknown", "ViveTracker", "Other"}
Filters == {"Cold", "Live", "Lost"}
HookStates == {"none", "on", "off"}
FreeLane == [owner |-> NoThread, depth |-> 0]
EmptySlot == [armed |-> FALSE, filter |-> "Cold", captured |-> FALSE]
-------------------------------------------------------------------------------
(* Calls.                                                                  *)

Call(at, d, newer, late) ==
  [at |-> at, dev |-> d, todo |-> {}, newer |-> newer, late |-> late, sent |-> 0, lost |-> FALSE]

Top(t) == Head(stack[t])
At(t, label) == stack[t] # <<>> /\ Top(t).at = label
Goto(t, label) == stack' = [stack EXCEPT ![t][1].at = label]
Begin(t, call) == stack' = [stack EXCEPT ![t] = <<call>> \o @]
End(t) == stack' = [stack EXCEPT ![t] = Tail(@)]
Calls == UNION {{stack[t][i] : i \in DOMAIN stack[t]} : t \in Threads}

\* The host is running on behalf of these calls and may call back.
InHost == {"host.pose", "host.bypass", "host.synthetic"}
MayCall(t) ==
  \/ t \in Callers /\ stack[t] = <<>>
  \/ stack[t] # <<>> /\ Top(t).at \in InHost /\ Len(stack[t]) < MaxDepth

\* The calls a shutdown has met: they may find the detours closed or re-opening.
MarkLate(s) == [t \in Threads |-> [i \in DOMAIN s[t] |-> [s[t][i] EXCEPT !.late = TRUE]]]
\* The calls that began before the watchdog predicted a pose for d.
MarkOlder(s, d) ==
  [t \in Threads |-> [i \in DOMAIN s[t] |->
     IF s[t][i].dev = d THEN [s[t][i] EXCEPT !.newer = FALSE] ELSE s[t][i]]]
-------------------------------------------------------------------------------
(* Lanes.                                                                  *)

LaneFree(t, d) == lane[d].owner \in {NoThread, t}
Acquire(t, d) == lane' = [lane EXCEPT ![d] = [owner |-> t, depth |-> @.depth + 1]]
Release(t, d) ==
  lane' = [lane EXCEPT ![d] = IF @.depth = 1 THEN FreeLane
                              ELSE [owner |-> @.owner, depth |-> @.depth - 1]]

\* original(host, ...): the host takes the pose of a callback, or a synthetic one.
DeliverRaw(d, newer) ==
  /\ shown' = [shown EXCEPT ![d] = "raw"]
  /\ basis' = [basis EXCEPT ![d] = @ /\ ~newer]
DeliverSynthetic(d, lost) ==
  /\ shown' = [shown EXCEPT ![d] = IF lost THEN "lost" ELSE "held"]
  /\ UNCHANGED basis
-------------------------------------------------------------------------------
(* A pose callback: detourPose005, detourPose006 and filterAndForward.     *)

\* The host reports a pose of d.  With the hook off it goes straight to the host.
ReportPose(t, d) ==
  /\ MayCall(t)
  /\ stack[t] # <<>> => Top(t).dev = d
  /\ \/ /\ hooks.pose = "on"
        /\ Begin(t, Call("pose.count", d, TRUE, hooks.detourShutdown))
        /\ UNCHANGED <<shown, basis>>
     \/ /\ hooks.pose # "on"
        /\ DeliverRaw(d, TRUE)
        /\ UNCHANGED stack
  /\ UNCHANGED <<providerVars, hookVars, laneVars, inFlight, armedBy>>

\* CallbackRundown, then the flag: the order lets remove() see every call that goes on.
NotEntered == inFlight
Entered == inFlight + 1

Count(t, from, to) ==
  /\ At(t, from)
  /\ inFlight' = Entered
  /\ Goto(t, to)
  /\ UNCHANGED <<providerVars, hookVars, laneVars, history>>

CheckShutdown(t) ==
  /\ At(t, "pose.check")
  /\ Goto(t, IF hooks.detourShutdown THEN "leave" ELSE "pose.load")
  /\ UNCHANGED <<providerVars, hookVars, laneVars, inFlight, history>>

\* Load instance_ and the trampoline.
LoadOriginal(t) ==
  /\ At(t, "pose.load")
  /\ Goto(t, IF hooks.pose = "none" THEN "leave"
             ELSE IF hooks.instance THEN "pose.target" ELSE "pose.bypass")
  /\ UNCHANGED <<providerVars, hookVars, laneVars, inFlight, history>>

\* isFilterTarget(): an unknown device asks for classification and is bypassed.
TestTarget(t) ==
  /\ At(t, "pose.target")
  /\ Goto(t, IF active /\ kind[Top(t).dev] = "ViveTracker" THEN "pose.lock" ELSE "pose.bypass")
  /\ UNCHANGED <<providerVars, hookVars, laneVars, inFlight, history>>

\* Taking the lane, and what makes up for a lane that cannot be taken.
LockLane(t) ==
  LET d == Top(t).dev IN
  /\ At(t, "pose.lock")
  /\ \/ /\ LaneFree(t, d)
        /\ Acquire(t, d)
        /\ route' = [route EXCEPT ![d] = TRUE]
        /\ Goto(t, "pose.filter")
     \/ /\ "lock" \in Faults
        /\ Goto(t, "pose.bypass")
        /\ UNCHANGED laneVars
  /\ UNCHANGED <<providerVars, hookVars, inFlight, history>>

\* filterPose(), one critical section of slot.mutex.  Whatever becomes of the pose,
\* it first supersedes a prediction that is under way and disarms the slot.  The
\* slot is armed again only by a push of a connected device with usable transforms.
SupersedesNothing(s) == [s EXCEPT !.armed = FALSE]
Superseded(s) == [s EXCEPT !.captured = FALSE, !.armed = FALSE]

AfterPush(s) ==
  {[s EXCEPT !.armed = TRUE, !.filter = f] : f \in Filters}
AfterReset(s) == [s EXCEPT !.filter = "Cold"]

FilterPose(t) ==
  LET d == Top(t).dev IN
  /\ At(t, "pose.filter")
  /\ Goto(t, "pose.call")
  /\ \/ /\ active
        /\ \E s \in AfterPush(Superseded(slot[d])) \cup {AfterReset(Superseded(slot[d]))}
                    \cup (IF "filter" \in Faults THEN {Superseded(slot[d])} ELSE {}) :
             /\ slot' = [slot EXCEPT ![d] = s]
             /\ armedBy' = [armedBy EXCEPT ![d] = s.armed]
     \/ ~active /\ UNCHANGED <<slot, armedBy>>
  /\ UNCHANGED <<active, ready, runFrames, kind, hookVars, laneVars, inFlight, shown, basis>>

\* Into the host with the pose, holding the lane or not.
CallHost(t, from, to) ==
  /\ At(t, from)
  /\ DeliverRaw(Top(t).dev, Top(t).newer)
  /\ stack' = [stack EXCEPT ![t][1] = [@ EXCEPT !.at = to, !.sent = Top(t).sent + 1]]
  /\ UNCHANGED <<providerVars, hookVars, laneVars, inFlight, armedBy>>

\* A host that throws may have consumed the pose: it is never sent again.
Resend == "pose.bypass"
AfterThrow == "leave"

HostReturns(t) ==
  /\ At(t, "host.pose")
  /\ Release(t, Top(t).dev)
  /\ \/ Goto(t, "leave")
     \/ "host" \in Faults /\ Goto(t, AfterThrow)
  /\ UNCHANGED <<providerVars, hookVars, route, inFlight, history>>

BypassReturns(t) ==
  /\ At(t, "host.bypass")
  /\ Goto(t, "leave")
  /\ UNCHANGED <<providerVars, hookVars, laneVars, inFlight, history>>

Leave(t) ==
  /\ At(t, "leave")
  /\ inFlight' = inFlight - 1
  /\ End(t)
  /\ UNCHANGED <<providerVars, hookVars, laneVars, history>>

PoseStep(t) ==
  \/ Count(t, "pose.count", "pose.check")
  \/ CheckShutdown(t) \/ LoadOriginal(t) \/ TestTarget(t) \/ LockLane(t) \/ FilterPose(t)
  \/ CallHost(t, "pose.call", "host.pose")
  \/ CallHost(t, "pose.bypass", "host.bypass")
  \/ Leave(t)
-------------------------------------------------------------------------------
(* detourGetInterface and observeInterface.                                *)

RequestInterface(t) ==
  /\ MayCall(t) /\ hooks.context = "on"
  /\ Begin(t, Call("get.count", NoDevice, FALSE, hooks.detourShutdown))
  /\ UNCHANGED <<providerVars, hookVars, laneVars, inFlight, history>>

CheckInterface(t) ==
  /\ At(t, "get.check")
  /\ Goto(t, IF hooks.detourShutdown THEN "leave" ELSE "get.load")
  /\ UNCHANGED <<providerVars, hookVars, laneVars, inFlight, history>>

LoadInterface(t) ==
  /\ At(t, "get.load")
  /\ Goto(t, IF hooks.instance THEN "get.observe" ELSE "leave")
  /\ UNCHANGED <<providerVars, hookVars, laneVars, inFlight, history>>

\* Under mutex_: hook the host that was asked for, unless a removal is under way.
EvenWhileRemoving == TRUE
MayObserve == ~hooks.shuttingDown

Observe(t) ==
  /\ At(t, "get.observe") /\ mutex = NoThread
  /\ \/ MayObserve /\ hooks.pose # "on" /\ hooks' = [hooks EXCEPT !.pose = "on"]
     \/ UNCHANGED hooks
  /\ Goto(t, "leave")
  /\ UNCHANGED <<providerVars, mutex, laneVars, inFlight, history>>

GetStep(t) ==
  \/ Count(t, "get.count", "get.check")
  \/ CheckInterface(t) \/ LoadInterface(t) \/ Observe(t)

-------------------------------------------------------------------------------
(* RunFrame and submitPose.                                                *)

\* An inactive provider returns at once.  Without Overlap the host calls an active one
\* between Init and Cleanup only.
StartFrame ==
  /\ stack[Frame] = <<>>
  /\ \/ ~active /\ UNCHANGED stack
     \/ /\ active
        /\ Overlap \/ (stack[Life] = <<>> /\ ready)
        /\ Begin(Frame, Call("run.count", NoDevice, FALSE, FALSE))
  /\ UNCHANGED <<providerVars, hookVars, laneVars, inFlight, history>>

CountFrame ==
  /\ At(Frame, "run.count")
  /\ runFrames' = runFrames + 1
  /\ Goto(Frame, "run.check")
  /\ UNCHANGED <<active, ready, kind, slot, hookVars, laneVars, inFlight, history>>

\* The second look at active_, after the rundown count went up; then classifyPending().
\* When an unknown device gets its kind is the business of DeviceRegistry.
NeverStopped == TRUE
StillActive == active

Classify ==
  /\ At(Frame, "run.check")
  /\ \/ /\ ~StillActive
        /\ Goto(Frame, "run.end")
        /\ UNCHANGED kind
     \/ /\ StillActive
        /\ kind' \in {k \in [Devices -> Kinds] :
                        \A d \in Devices : kind[d] # "Unknown" => k[d] = kind[d]}
        /\ stack' = [stack EXCEPT ![Frame][1] = [@ EXCEPT !.at = "run.next", !.todo = Devices]]
  /\ UNCHANGED <<active, ready, runFrames, slot, hookVars, laneVars, inFlight, history>>

\* tick() of the next device under slot.mutex.  A pose is predicted for an armed
\* slot only; a filter that is Lost stays Lost until a callback.
Predicted(f) == IF f = "Cold" THEN {} ELSE IF f = "Lost" THEN {"Lost"} ELSE {"Live", "Lost"}

\* A device may be passed over: it is no tracker, not armed, or not silent.
NextDevice ==
  /\ At(Frame, "run.next")
  /\ \/ /\ Top(Frame).todo = {}
        /\ Goto(Frame, "run.end")
        /\ UNCHANGED <<slot, basis>>
     \/ \E d \in Top(Frame).todo :
          /\ stack' = [stack EXCEPT ![Frame][1].todo = @ \ {d}]
          /\ UNCHANGED <<slot, basis>>
     \/ \E d \in Top(Frame).todo :
          /\ kind[d] = "ViveTracker" /\ slot[d].armed
          /\ \E f \in Predicted(slot[d].filter) :
               /\ slot' = [slot EXCEPT ![d].filter = f, ![d].captured = TRUE]
               /\ stack' = [MarkOlder(stack, d) EXCEPT
                              ![Frame][1] = [@ EXCEPT !.at = "submit.count", !.dev = d,
                                                      !.todo = Top(Frame).todo \ {d},
                                                      !.lost = (f = "Lost")]]
          /\ basis' = [basis EXCEPT ![d] = TRUE]
  /\ UNCHANGED <<active, ready, runFrames, kind, hookVars, laneVars, inFlight, shown, armedBy>>

CheckSubmit ==
  /\ At(Frame, "submit.check")
  /\ Goto(Frame, IF hooks.detourShutdown \/ ~hooks.instance THEN "submit.leave" ELSE "submit.lock")
  /\ UNCHANGED <<providerVars, hookVars, laneVars, inFlight, history>>

LockSubmit ==
  /\ At(Frame, "submit.lock") /\ LaneFree(Frame, Top(Frame).dev)
  /\ Acquire(Frame, Top(Frame).dev)
  /\ Goto(Frame, "submit.test")
  /\ UNCHANGED <<providerVars, hookVars, route, inFlight, history>>

\* isCurrentPoseGeneration(), with the lane held: no callback came since the tick.
WheneverArmed(d) == active /\ slot[d].armed
CurrentGeneration(d) == active /\ slot[d].armed /\ slot[d].captured

TestGeneration ==
  LET d == Top(Frame).dev IN
  /\ At(Frame, "submit.test")
  /\ \/ /\ route[d] /\ CurrentGeneration(d)
        /\ Goto(Frame, "submit.call")
        /\ UNCHANGED laneVars
     \/ /\ ~(route[d] /\ CurrentGeneration(d))
        /\ Release(Frame, d) /\ UNCHANGED route
        /\ Goto(Frame, "submit.leave")
  /\ UNCHANGED <<providerVars, hookVars, inFlight, history>>

SubmitToHost ==
  /\ At(Frame, "submit.call")
  /\ DeliverSynthetic(Top(Frame).dev, Top(Frame).lost)
  /\ armedBy' = [armedBy EXCEPT ![Top(Frame).dev] = @ /\ ~Top(Frame).lost]
  /\ stack' = [stack EXCEPT ![Frame][1] = [@ EXCEPT !.at = "host.synthetic", !.sent = 1]]
  /\ UNCHANGED <<providerVars, hookVars, laneVars, inFlight>>

\* A throwing host makes submitPose return false: the terminal pose is offered again.
SubmitReturns ==
  /\ At(Frame, "host.synthetic")
  /\ Release(Frame, Top(Frame).dev)
  /\ \/ Goto(Frame, "submit.leave")
     \/ /\ "host" \in Faults
        /\ stack' = [stack EXCEPT ![Frame][1] = [@ EXCEPT !.at = "submit.leave", !.sent = 0]]
  /\ UNCHANGED <<providerVars, hookVars, route, inFlight, history>>

LeaveSubmit ==
  /\ At(Frame, "submit.leave")
  /\ inFlight' = inFlight - 1
  /\ LET terminal == Top(Frame).sent = 1 /\ Top(Frame).lost IN
       stack' = [stack EXCEPT ![Frame][1] =
                   [@ EXCEPT !.at = IF terminal THEN "run.commit" ELSE "run.next",
                             !.dev = IF terminal THEN Top(Frame).dev ELSE NoDevice,
                             !.sent = 0, !.lost = FALSE]]
  /\ UNCHANGED <<providerVars, hookVars, laneVars, history>>

\* The out-of-range pose is published once: the slot is disarmed, unless a callback
\* armed it anew in the meantime.
CommitAnyway(d) == TRUE
CommitLost(d) == slot[d].captured

Commit ==
  LET d == Top(Frame).dev IN
  /\ At(Frame, "run.commit")
  /\ slot' = [slot EXCEPT ![d].armed = @ /\ ~CommitLost(d)]
  /\ stack' = [stack EXCEPT ![Frame][1] = [@ EXCEPT !.at = "run.next", !.dev = NoDevice]]
  /\ UNCHANGED <<active, ready, runFrames, kind, hookVars, laneVars, inFlight, history>>

EndFrame ==
  /\ At(Frame, "run.end")
  /\ runFrames' = runFrames - 1
  /\ End(Frame)
  /\ slot' = [d \in Devices |-> [slot[d] EXCEPT !.captured = FALSE]]
  /\ UNCHANGED <<active, ready, kind, hookVars, laneVars, inFlight, history>>

FrameStep ==
  \/ CountFrame \/ Classify \/ NextDevice
  \/ Count(Frame, "submit.count", "submit.check")
  \/ CheckSubmit \/ LockSubmit \/ TestGeneration \/ SubmitToHost \/ LeaveSubmit \/ Commit
  \/ EndFrame

-------------------------------------------------------------------------------
(* Init and install.                                                       *)

MayBegin == stack[Life] = <<>> /\ (Overlap \/ stack[Frame] = <<>>)

\* Init resets the registry and every slot, without their locks.
StartInit ==
  /\ MayBegin /\ ~ready
  /\ ready' = TRUE
  /\ kind' = [d \in Devices |-> "Unknown"]
  /\ slot' = [d \in Devices |-> EmptySlot]
  /\ armedBy' = [d \in Devices |-> FALSE]
  /\ Begin(Life, Call("init.install", NoDevice, FALSE, FALSE))
  /\ UNCHANGED <<active, runFrames, hookVars, laneVars, inFlight, shown, basis>>

\* The detours open before the hooks exist.  MinHook may fail to start.
Install ==
  /\ At(Life, "init.install") /\ mutex = NoThread
  /\ \/ /\ hooks' = [hooks EXCEPT !.instance = TRUE, !.installed = TRUE,
                                  !.shuttingDown = FALSE, !.detourShutdown = FALSE]
        /\ mutex' = Life
        /\ Goto(Life, "init.poseHook")
     \/ /\ hooks' = [hooks EXCEPT !.shuttingDown = FALSE, !.detourShutdown = FALSE]
        /\ Goto(Life, "init.activate")
        /\ UNCHANGED mutex
  /\ UNCHANGED <<providerVars, laneVars, inFlight, history>>

\* installPoseHook of the current host, then installContextHook; either may fail.
InstallPoseHook ==
  /\ At(Life, "init.poseHook")
  /\ \E h \in {"none", "on"} : hooks' = [hooks EXCEPT !.pose = h]
  /\ Goto(Life, "init.contextHook")
  /\ UNCHANGED <<providerVars, mutex, laneVars, inFlight, history>>

InstallContextHook ==
  /\ At(Life, "init.contextHook")
  /\ \E h \in {"none", "on"} : hooks' = [hooks EXCEPT !.context = h]
  /\ mutex' = NoThread
  /\ Goto(Life, "init.activate")
  /\ UNCHANGED <<providerVars, laneVars, inFlight, history>>

Activate ==
  /\ At(Life, "init.activate")
  /\ active' = TRUE
  /\ End(Life)
  /\ UNCHANGED <<ready, runFrames, kind, slot, hookVars, laneVars, inFlight, history>>
-------------------------------------------------------------------------------
(* Cleanup and remove.                                                     *)

StartCleanup ==
  /\ MayBegin /\ ready
  /\ ready' = FALSE /\ active' = FALSE
  /\ Begin(Life, Call("clean.drainFrames", NoDevice, FALSE, FALSE))
  /\ UNCHANGED <<runFrames, kind, slot, hookVars, laneVars, inFlight, history>>

FramesDrained ==
  /\ At(Life, "clean.drainFrames") /\ runFrames = 0
  /\ Goto(Life, IF hooks.installed THEN "clean.close" ELSE "clean.filters")
  /\ UNCHANGED <<providerVars, hookVars, laneVars, inFlight, history>>

Close ==
  /\ At(Life, "clean.close") /\ mutex = NoThread
  /\ mutex' = Life
  /\ hooks' = [hooks EXCEPT !.shuttingDown = TRUE, !.instance = FALSE]
  /\ Goto(Life, "clean.shutDetours")
  /\ UNCHANGED <<providerVars, laneVars, inFlight, history>>

ShutDetours ==
  /\ At(Life, "clean.shutDetours")
  /\ hooks' = [hooks EXCEPT !.detourShutdown = TRUE]
  /\ stack' = [MarkLate(stack) EXCEPT ![Life][1].at = "clean.disable"]
  /\ UNCHANGED <<providerVars, mutex, laneVars, inFlight, history>>

\* MH_DisableHook: no call enters a detour any more.  mutex_ is given back before the
\* drain, because a call that is drained may be waiting for it.
Disabled(h) == IF h = "on" THEN "off" ELSE h
StillEnabled(h) == h
KeptForDrain == Life
MutexForDrain == NoThread

DisableHooks ==
  /\ At(Life, "clean.disable")
  /\ hooks' = [hooks EXCEPT !.pose = Disabled(@), !.context = Disabled(@)]
  /\ mutex' = MutexForDrain
  /\ Goto(Life, "clean.drainCalls")
  /\ UNCHANGED <<providerVars, laneVars, inFlight, history>>

AtOnce == TRUE
NoCallInFlight == inFlight = 0

CallsDrained ==
  /\ At(Life, "clean.drainCalls") /\ NoCallInFlight
  /\ Goto(Life, "clean.free")
  /\ UNCHANGED <<providerVars, hookVars, laneVars, inFlight, history>>

\* Routes are cleared under their lanes, the trampolines are freed and forgotten.
Free ==
  /\ At(Life, "clean.free") /\ mutex = NoThread
  /\ \A d \in Devices : LaneFree(Life, d)
  /\ route' = [d \in Devices |-> FALSE]
  /\ hooks' = [hooks EXCEPT !.installed = FALSE, !.pose = "none", !.context = "none"]
  /\ Goto(Life, "clean.filters")
  /\ UNCHANGED <<providerVars, mutex, lane, inFlight, history>>

ResetFilters ==
  /\ At(Life, "clean.filters")
  /\ slot' = [d \in Devices |-> [slot[d] EXCEPT !.filter = "Cold"]]
  /\ End(Life)
  /\ UNCHANGED <<active, ready, runFrames, kind, hookVars, laneVars, inFlight, history>>

LifeStep ==
  \/ Install \/ InstallPoseHook \/ InstallContextHook \/ Activate
  \/ FramesDrained \/ Close \/ ShutDetours \/ DisableHooks \/ CallsDrained \/ Free \/ ResetFilters
-------------------------------------------------------------------------------
Init ==
  /\ active = FALSE /\ ready = FALSE /\ runFrames = 0
  /\ kind = [d \in Devices |-> "Unknown"]
  /\ slot = [d \in Devices |-> EmptySlot]
  /\ hooks = [installed |-> FALSE, instance |-> FALSE, shuttingDown |-> FALSE,
              detourShutdown |-> FALSE, pose |-> "none", context |-> "none"]
  /\ inFlight = 0 /\ mutex = NoThread
  /\ lane = [d \in Devices |-> FreeLane] /\ route = [d \in Devices |-> FALSE]
  /\ stack = [t \in Threads |-> <<>>]
  /\ shown = [d \in Devices |-> "none"] /\ basis = [d \in Devices |-> FALSE]
  /\ armedBy = [d \in Devices |-> FALSE]

\* What the host does of its own accord.
HostStep ==
  \/ \E t \in Threads, d \in Devices : ReportPose(t, d)
  \/ \E t \in Threads : RequestInterface(t)
  \/ StartFrame \/ StartInit \/ StartCleanup

Returns(t) == HostReturns(t) \/ BypassReturns(t)
ThreadStep(t) == PoseStep(t) \/ GetStep(t)

Next ==
  \/ HostStep
  \/ \E t \in Threads : ThreadStep(t) \/ Returns(t)
  \/ FrameStep \/ SubmitReturns
  \/ LifeStep

Spec == Init /\ [][Next]_vars

\* Every thread is scheduled, and a call into the host returns: it calls back finitely
\* often, so the call at each depth of a stack ends.  Nothing is assumed of what the
\* host starts.
FairSpec ==
  /\ Spec
  /\ \A t \in Threads : WF_vars(ThreadStep(t))
  /\ \A t \in Threads \ {Life}, n \in 1 .. MaxDepth : SF_vars(Len(stack[t]) = n /\ Returns(t))
  /\ WF_vars(FrameStep) /\ SF_vars(SubmitReturns)
  /\ WF_vars(LifeStep)
-------------------------------------------------------------------------------
(* Properties.                                                             *)

Labels == {"pose.count", "pose.check", "pose.load", "pose.target", "pose.lock",
           "pose.filter", "pose.call", "pose.bypass", "host.pose", "host.bypass", "leave",
           "get.count", "get.check", "get.load", "get.observe",
           "run.count", "run.check", "run.next", "run.commit", "run.end",
           "submit.count", "submit.check", "submit.lock", "submit.test", "submit.call",
           "host.synthetic", "submit.leave",
           "init.install", "init.poseHook", "init.contextHook", "init.activate",
           "clean.drainFrames", "clean.close", "clean.shutDetours", "clean.disable",
           "clean.drainCalls", "clean.free", "clean.filters"}
CallType == [at : Labels, dev : Devices \cup {NoDevice}, todo : SUBSET Devices,
             newer : BOOLEAN, late : BOOLEAN, sent : 0 .. 2, lost : BOOLEAN]
HooksType == [installed : BOOLEAN, instance : BOOLEAN, shuttingDown : BOOLEAN,
              detourShutdown : BOOLEAN, pose : HookStates, context : HookStates]

\* Every variable has its type.
TypeOK ==
  /\ active \in BOOLEAN /\ ready \in BOOLEAN /\ runFrames \in Nat /\ inFlight \in Nat
  /\ kind \in [Devices -> Kinds] /\ mutex \in Threads \cup {NoThread}
  /\ slot \in [Devices -> [armed : BOOLEAN, filter : Filters, captured : BOOLEAN]]
  /\ hooks \in HooksType
  /\ lane \in [Devices -> [owner : Threads \cup {NoThread}, depth : Nat]]
  /\ route \in [Devices -> BOOLEAN]
  /\ \A t \in Threads : \A i \in DOMAIN stack[t] : stack[t][i] \in CallType
  /\ shown \in [Devices -> {"none", "raw", "held", "lost"}]
  /\ basis \in [Devices -> BOOLEAN] /\ armedBy \in [Devices -> BOOLEAN]

\* No call uses a trampoline, a route or the provider after remove() has freed them:
\* what uses them is counted before it looks at the flag, and remove() waits.
Using == {"pose.target", "pose.lock", "pose.filter", "pose.call", "pose.bypass",
          "host.pose", "host.bypass", "submit.lock", "submit.test", "submit.call",
          "host.synthetic"}
NothingUsedAfterRemoval ==
  /\ hooks.pose = "none" => \A c \in Calls : c.at \notin Using
  /\ ~hooks.installed => \A c \in Calls : c.at # "get.observe"

\* Init resets the slots without their locks: when Cleanup is over, no callback and no
\* RunFrame that was let in may still be about to use them.
Quiet == Using \cup {"run.next", "run.commit"}
InitAlone == stack[Life] = <<>> /\ ~ready => \A c \in Calls : c.at \notin Quiet

\* Once remove() has given its mutex back no hook is on, also when an interface that was
\* asked for meanwhile is observed late: no call enters a detour while the trampolines
\* are freed.
NoHookLeftBehind ==
  hooks.shuttingDown /\ mutex # Life => hooks.pose # "on" /\ hooks.context # "on"

\* A callback reaches the host exactly once, whatever throws on the way, unless it
\* met a shutdown: then it may be dropped, but is never sent twice.
ForwardedOnce ==
  \A c \in Calls : /\ c.sent <= 1
                   /\ c.at = "leave" /\ c.dev # NoDevice => c.sent = 1 \/ c.late

\* The slot that the last callback armed stays armed until a Lost pose told the host:
\* the commit of an older Lost pose never disarms a device that came back.
ArmedStaysArmed == \A d \in Devices : armedBy[d] => slot[d].armed

\* A predicted pose never reaches the host after a newer pose of the same device.
NoStalePrediction ==
  [][At(Frame, "submit.call") /\ stack'[Frame][1].sent = 1 => basis[Top(Frame).dev]]_vars

\* What the host is shown follows PoseRelay: predictions continue the newest pose, and
\* the out-of-range pose that ends a silence comes once.
Relay == INSTANCE PoseRelay WITH shown <- shown, basis <- basis, Devices <- Devices
FollowsRelay == Relay!Spec

\* Cleanup ends, whatever the callbacks and the requests in flight wait for.
CleanupEnds == ~ready ~> (stack[Life] = <<>>)
===============================================================================
