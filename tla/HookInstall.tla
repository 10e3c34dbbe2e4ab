----------------------------- MODULE HookInstall -----------------------------
(***************************************************************************)
(* How InterfaceHooks patches the pose functions of SteamVR's host          *)
(* (src/driver/hooks.cpp).  The host exists in two versions; the function   *)
(* to patch is looked up in the vtable of each interface, so two versions   *)
(* may lead to one function, and two objects of one version to two.  Each   *)
(* version has one detour and one slot for the trampoline the detour calls. *)
(*                                                                         *)
(* mutex_ serialises install(), observeInterface() and remove(), so one     *)
(* call of installPoseHook() is under way at a time (job).  The detours run *)
(* on other threads and take no mutex: every step that they can tell apart  *)
(* is a step here.  Calls into MinHook may fail, except MH_DisableHook and   *)
(* MH_RemoveHook of a hook that exists.                                     *)
(***************************************************************************)
EXTENDS Naturals

CONSTANTS Targets,      \* the functions that vtable slots can lead to
          None          \* no function

ASSUME NoneAssumption == None \notin Targets

Versions == {"005", "006"}
Other(v) == IF v = "006" THEN "005" ELSE "006"

VARIABLES
  holder,        \* who holds mutex_, or is draining without it
  initialized,   \* minHookInitialized_
  shuttingDown,  \* shuttingDown_
  context,       \* contextTarget_ is set and its hook enabled
  target,        \* poseTarget005_, poseTarget006_
  original,      \* originalPose005_, originalPose006_: whose trampoline it is
  patched,       \* MinHook: the version whose detour a created hook leads to
  enabled,       \* MinHook: the functions whose hook is enabled
  job            \* the installPoseHook() under way: its arguments, how far it is

hookVars == <<holder, initialized, shuttingDown, context, target, original,
              patched, enabled, job>>

NoJob == [at |-> "none", version |-> "006", target |-> None, fresh |-> FALSE]
Jobs == [at : {"none", "choose", "enable", "record", "installed", "failed"},
         version : Versions, target : Targets \cup {None}, fresh : BOOLEAN]

HookTypeOK ==
  /\ holder \in {"nobody", "install", "observe", "drain"}
  /\ initialized \in BOOLEAN /\ shuttingDown \in BOOLEAN /\ context \in BOOLEAN
  /\ target \in [Versions -> Targets \cup {None}]
  /\ original \in [Versions -> Targets \cup {None}]
  /\ patched \in [Targets -> Versions \cup {"nothing"}]
  /\ enabled \in SUBSET Targets
  /\ job \in Jobs

NoPointers == [v \in Versions |-> None]

\* The static members and fields of a process that has just loaded the driver.
Unhooked ==
  /\ holder = "nobody" /\ job = NoJob
  /\ initialized = FALSE /\ shuttingDown = FALSE /\ context = FALSE
  /\ target = NoPointers /\ original = NoPointers
  /\ patched = [t \in Targets |-> "nothing"] /\ enabled = {}

(***************************************************************************)
(* installPoseHook(): the choice, MH_CreateHook and the store of the        *)
(* trampoline before the hook is enabled; the target is recorded last.      *)
(***************************************************************************)
Call(v, t) == [at |-> "choose", version |-> v, target |-> t, fresh |-> target[v] = None]
Ended(at) == job' = [job EXCEPT !.at = at]

NeverTaken(v, t) == FALSE

\* A version keeps the implementation it was first hooked on.
Taken(v, t) == target[v] \notin {None, t}

\* One of the versions has already hooked this function: share its trampoline.
Shared(t) == t \in {target[v] : v \in Versions}

Refuse ==
  /\ job.at = "choose" /\ Taken(job.version, job.target)
  /\ Ended("failed")
  /\ UNCHANGED <<holder, initialized, shuttingDown, context, target, original, patched, enabled>>

Share ==
  LET v == job.version IN
  /\ job.at = "choose" /\ ~Taken(v, job.target) /\ Shared(job.target)
  /\ target' = [target EXCEPT ![v] = job.target]
  /\ original' = [original EXCEPT ![v] = IF @ = None THEN original[Other(v)] ELSE @]
  /\ Ended("installed")
  /\ UNCHANGED <<holder, initialized, shuttingDown, context, patched, enabled>>

CreateHook ==
  /\ job.at = "choose" /\ ~Taken(job.version, job.target) /\ ~Shared(job.target)
  /\ \/ /\ patched' = [patched EXCEPT ![job.target] = job.version]
        /\ original' = [original EXCEPT ![job.version] = job.target]
        /\ Ended("enable")
     \/ Ended("failed") /\ UNCHANGED <<original, patched>>
  /\ UNCHANGED <<holder, initialized, shuttingDown, context, target, enabled>>

EnableHook ==
  /\ job.at = "enable"
  /\ \/ /\ enabled' = enabled \cup {job.target}
        /\ Ended("record")
        /\ UNCHANGED <<original, patched>>
     \/ /\ patched' = [patched EXCEPT ![job.target] = "nothing"]
        /\ original' = [original EXCEPT ![job.version] = None]
        /\ Ended("failed")
        /\ UNCHANGED enabled
  /\ UNCHANGED <<holder, initialized, shuttingDown, context, target>>

RecordTarget ==
  /\ job.at = "record"
  /\ target' = [target EXCEPT ![job.version] = job.target]
  /\ Ended("installed")
  /\ UNCHANGED <<holder, initialized, shuttingDown, context, original, patched, enabled>>

InstallPoseHook == Refuse \/ Share \/ CreateHook \/ EnableHook \/ RecordTarget

(***************************************************************************)
(* install(), with MH_Initialize() succeeding or not, for a host that is    *)
(* missing or leads to t; then the context hook and the return.             *)
(***************************************************************************)
StartInstall ==
  /\ holder = "nobody" /\ ~initialized
  /\ holder' = "install" /\ shuttingDown' = FALSE
  /\ \/ /\ initialized' = TRUE
        /\ \E t \in Targets : job' = Call("006", t)
     \/ /\ initialized' = TRUE
        /\ job' = [NoJob EXCEPT !.at = "failed"]
     \/ UNCHANGED <<initialized, job>>
  /\ UNCHANGED <<context, target, original, patched, enabled>>

JobDone == job.at \in {"installed", "failed"}

InstallContextHook ==
  /\ holder = "install" /\ JobDone /\ ~context
  /\ context' \in BOOLEAN
  /\ UNCHANGED <<holder, initialized, shuttingDown, target, original, patched, enabled, job>>

\* The mutex is released once the result has been logged.
Return ==
  /\ holder \in {"install", "observe"}
  /\ JobDone \/ ~initialized
  /\ holder' = "nobody" /\ job' = NoJob
  /\ UNCHANGED <<initialized, shuttingDown, context, target, original, patched, enabled>>

\* observeInterface(), reached through the detour of the context hook.
Observe(v, t) ==
  /\ holder = "nobody" /\ context /\ ~shuttingDown
  /\ holder' = "observe" /\ job' = Call(v, t)
  /\ UNCHANGED <<initialized, shuttingDown, context, target, original, patched, enabled>>

(***************************************************************************)
(* remove(): disable the recorded hooks, wait for the callbacks without the *)
(* mutex, then free every trampoline.                                       *)
(***************************************************************************)
Recorded == {target[v] : v \in Versions} \ {None}

Disable ==
  /\ holder = "nobody" /\ initialized
  /\ holder' = "drain" /\ shuttingDown' = TRUE
  /\ enabled' = enabled \ Recorded
  /\ context' = FALSE
  /\ UNCHANGED <<initialized, target, original, patched, job>>

Free ==
  /\ holder = "drain"
  /\ holder' = "nobody" /\ initialized' = FALSE
  /\ target' = NoPointers /\ original' = NoPointers
  /\ patched' = [t \in Targets |-> "nothing"] /\ enabled' = {}
  /\ UNCHANGED <<shuttingDown, context, job>>

\* The process ends, and its memory with it.
EndProcess ==
  /\ holder' = "nobody" /\ job' = NoJob
  /\ initialized' = FALSE /\ shuttingDown' = FALSE /\ context' = FALSE
  /\ target' = NoPointers /\ original' = NoPointers
  /\ patched' = [t \in Targets |-> "nothing"] /\ enabled' = {}

HookNext ==
  \/ InstallPoseHook \/ StartInstall \/ InstallContextHook \/ Return
  \/ \E v \in Versions, t \in Targets : Observe(v, t)
  \/ Disable \/ Free \/ EndProcess

HookSpec == Unhooked /\ [][HookNext]_hookVars

(***************************************************************************)
(* Properties.                                                             *)
(***************************************************************************)

\* A host call that enters a detour finds the trampoline of the very function
\* it was made on: never null, never that of another implementation, in either
\* version, while hooks are added, shared and fail; and once remove() waits for
\* the callbacks, no function leads into a detour any more (hooks.cpp:71-105,
\* 200-241).
DetoursHaveTrampolines ==
  /\ \A t \in enabled : patched[t] \in Versions /\ original[patched[t]] = t
  /\ holder = "drain" => enabled = {}

=============================================================================
