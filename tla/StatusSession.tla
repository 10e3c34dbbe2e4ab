---------------------------- MODULE StatusSession ----------------------------
(***************************************************************************)
(* The driver inside vrserver writes its life into vrserver.txt; the status *)
(* window, a process of its own, looks for vrserver, reads the log and says *)
(* what is the case (server_provider.cpp, hooks.cpp, status_main.cpp).      *)
(*                                                                         *)
(* vrserver starts, loads and unloads the driver, and may die at any step;  *)
(* a later vrserver may go on with the old log.  Process p starts at time    *)
(* 2p and stamps its lines 2p+1: the local clock does not go back.  A line   *)
(* is written in two steps, and what dies in between leaves it torn.        *)
(***************************************************************************)
EXTENDS HookInstall, VrServerLog

CONSTANTS MaxProcesses,  \* bounds: vrserver processes,
          MaxLines,      \* lines of the log,
          MaxRefreshes   \* and refreshes

ASSUME SessionBounds == {MaxProcesses, MaxLines, MaxRefreshes} \subseteq Nat

VARIABLES
  process,    \* how many vrserver processes there were
  phase,      \* the main thread of vrserver; "none": no process
  filtering,  \* filterEnabled_
  known,      \* a tracker was identified since Init
  log,        \* vrserver.txt
  writing,    \* its last line is not complete yet
  window,     \* the status window: the step of its refresh, what it found
  shown,      \* the page on the screen
  refreshes,  \* refreshes so far
  seen        \* history: what was the case since the refresh began

serverVars == <<process, phase, filtering, known, log, writing>>
windowVars == <<window, shown, refreshes>>
vars == <<hookVars, serverVars, windowVars, seen>>

Stamp == 2 * process + 1
Began == 2 * process

Page(loaded, hook, overview, partial) ==
  [loaded |-> loaded, hook |-> hook, overview |-> overview, partial |-> partial]
NoPage == Page("Unknown", "Unknown", "nothing", FALSE)
Closed == [at |-> "idle", start |-> 0]

TypeOK ==
  /\ HookTypeOK
  /\ process \in 0 .. MaxProcesses /\ refreshes \in 0 .. MaxRefreshes
  /\ phase \in {"none", "idle", "install", "load", "explain", "active", "cleanup", "drained", "unload"}
  /\ filtering \in BOOLEAN /\ known \in BOOLEAN /\ writing \in BOOLEAN
  /\ Len(log) <= MaxLines
  /\ \A i \in DOMAIN log : log[i].stamp \in 1 .. Stamp
  /\ window \in [at : {"idle", "scan", "read"}, start : 0 .. Began]
  /\ phase = "none" => holder = "nobody" /\ ~writing
  /\ phase \in {"none", "idle", "load", "explain", "active"} => holder \in {"nobody", "observe"}

Init ==
  /\ Unhooked
  /\ process = 0 /\ phase = "none" /\ filtering = TRUE /\ known = FALSE
  /\ log = <<>> /\ writing = FALSE
  /\ window = Closed /\ shown = NoPage /\ refreshes = 0
  /\ seen = [running |-> {FALSE}, loaded |-> {FALSE}, hook |-> {FALSE},
             disabled |-> {FALSE}, recognised |-> {FALSE}]

(***************************************************************************)
(* vrserver.                                                               *)
(***************************************************************************)
Write(kind) ==
  /\ ~writing /\ Len(log) < MaxLines
  /\ log' = Append(log, Line(Stamp, kind)) /\ writing' = TRUE

Goto(from, to) == phase = from /\ ~writing /\ phase' = to

FinishLine == /\ writing /\ writing' = FALSE
              /\ UNCHANGED <<hookVars, process, phase, filtering, known, log>>

\* A new process keeps the log of the last one or starts an empty one, and
\* writes its first line before it loads a driver.
StartVrServer ==
  /\ phase = "none" /\ process < MaxProcesses
  /\ process' = process + 1 /\ phase' = "idle" /\ log' \in {log, <<>>}
  /\ UNCHANGED <<hookVars, filtering, known, writing>>

FirstLine ==
  /\ phase = "idle" /\ \A i \in DOMAIN log : log[i].stamp < Stamp
  /\ Write("other")
  /\ UNCHANGED <<hookVars, process, phase, filtering, known>>

\* vrserver ends or is killed: a line under way stays as it is.
Die ==
  /\ phase # "none" /\ phase' = "none" /\ writing' = FALSE
  /\ log' \in IF writing THEN {Front(log), Front(log) \o <<Line(Stamp, "other")>>} ELSE {log}
  /\ EndProcess /\ known' = FALSE /\ filtering' = TRUE
  /\ UNCHANGED process

\* Init(): settings and slots, hooks, active_, and the lines that tell of it.
LoadDriver ==
  /\ \E i \in DOMAIN log : log[i].stamp = Stamp
  /\ filtering' \in BOOLEAN
  /\ Goto("idle", IF filtering' THEN "install" ELSE "load")
  /\ known' = FALSE
  /\ UNCHANGED <<hookVars, process, log, writing>>

BeginInstall ==
  /\ phase = "install" /\ StartInstall
  /\ UNCHANGED serverVars

GoOnInstalling ==
  /\ ~writing /\ (InstallPoseHook \/ (phase = "install" /\ InstallContextHook))
  /\ UNCHANGED serverVars

\* Only an installed hook is announced; the other lines of install() prove nothing.
InstallLine ==
  /\ Goto("install", "load") /\ holder = "install"
  /\ Return
  /\ Write(IF job.at = "installed" THEN "hook" ELSE "other")
  /\ UNCHANGED <<process, filtering, known>>

LoadedLine ==
  /\ Goto("load", "explain") /\ Write("load")
  /\ UNCHANGED <<hookVars, process, filtering, known>>

NoHookAtAll == filtering /\ ~context /\ Recorded = {}

ExplainLine ==
  /\ Goto("explain", "active")
  /\ IF filtering /\ ~NoHookAtAll THEN UNCHANGED <<log, writing>>
     ELSE Write(IF filtering THEN "failure" ELSE "disabled")
  /\ UNCHANGED <<hookVars, process, filtering, known>>

\* Another driver asks for a host interface.
RequestInterface ==
  /\ phase \in {"load", "explain", "active", "cleanup"}
  /\ \E v \in Versions, t \in Targets : Observe(v, t)
  /\ UNCHANGED serverVars

ObserveLine ==
  /\ holder = "observe" /\ Return
  /\ IF job.at = "installed" /\ job.fresh THEN Write("hook") ELSE ~writing /\ UNCHANGED <<log, writing>>
  /\ UNCHANGED <<process, phase, filtering, known>>

\* The first pose of a tracker that RunFrame has classified.
IdentifyTracker ==
  /\ phase = "active" /\ ~known /\ enabled # {}
  /\ Write("tracker") /\ known' = TRUE
  /\ UNCHANGED <<hookVars, process, phase, filtering>>

Cleanup ==
  /\ Goto("active", "cleanup")
  /\ UNCHANGED <<hookVars, process, filtering, known, log, writing>>

RemoveHooksUndrained ==
  /\ IF initialized THEN Disable ELSE holder = "nobody" /\ UNCHANGED hookVars
  /\ Goto("cleanup", "unload")
  /\ UNCHANGED <<process, filtering, known, log, writing>>

RemoveHooks ==
  /\ IF initialized THEN Disable ELSE holder = "nobody" /\ UNCHANGED hookVars
  /\ Goto("cleanup", IF initialized THEN "drained" ELSE "unload")
  /\ UNCHANGED <<process, filtering, known, log, writing>>

FreeHooks ==
  /\ Free /\ Goto("drained", "unload")
  /\ UNCHANGED <<process, filtering, known, log, writing>>

UnloadedLine ==
  /\ Goto("unload", "idle") /\ Write("unload")
  /\ UNCHANGED <<hookVars, process, filtering, known>>

(***************************************************************************)
(* What is the case.  Between a change and the end of its line, both.       *)
(***************************************************************************)
Telling(kind) == writing /\ Last(log).kind = kind
Unloading == phase \in {"cleanup", "drained", "unload"} \/ Telling("unload")
InForce == phase \in {"explain", "active"} /\ ~Telling("load")

\* A hook that was announced, in this load, when it was recorded.
Announced ==
  \E v \in Versions : target[v] # None /\ ~(holder = "observe" /\ job.version = v /\ job.fresh)

Fact(settled, possible) ==
  IF settled /\ ~Unloading THEN {TRUE} ELSE IF possible \/ Unloading THEN BOOLEAN ELSE {FALSE}

Truth ==
  [running    |-> {phase # "none"},
   loaded     |-> Fact(InForce, phase = "load" \/ Telling("load")),
   hook       |-> Fact(InForce /\ Announced /\ ~Telling("hook"), enabled # {}),
   disabled   |-> Fact(phase = "active" /\ ~filtering /\ ~writing, ~filtering /\ phase # "idle"),
   recognised |-> Fact(known /\ ~writing, known)]

(***************************************************************************)
(* The status window: refreshStatus().  Building the page takes no further  *)
(* input, so the page is shown with the step that decides it.               *)
(***************************************************************************)
Refresh ==
  /\ window.at = "idle" /\ refreshes < MaxRefreshes
  /\ window' = [window EXCEPT !.at = "scan"] /\ refreshes' = refreshes + 1
  /\ UNCHANGED <<hookVars, serverVars, shown>>

ShowPage(page) ==
  /\ shown' = page /\ window' = Closed
  /\ UNCHANGED <<hookVars, serverVars, refreshes>>

\* findVrServer(): the scan is incomplete, finds nothing, or finds the process.
ScanFails ==
  window.at = "scan" /\ ShowPage(Page("Unknown", "Unknown", "SteamVrUnknown", TRUE))

FindNoProcess ==
  /\ window.at = "scan" /\ phase = "none"
  /\ ShowPage(Page("NotApplicable", "NotApplicable", "SteamVrStopped", FALSE))

FindProcess ==
  /\ window.at = "scan" /\ phase # "none"
  /\ window' = [at |-> "read", start |-> Began]
  /\ UNCHANGED <<hookVars, serverVars, shown, refreshes>>

\* No log, an unreadable one, or no time the process started.
ReadNothing ==
  window.at = "read" /\ ShowPage(Page("Unknown", "Unknown", "DriverUnavailable", TRUE))

\* readFile(): the log or a tail of it, the last line torn while it is written.
Snapshots == IF writing THEN {Front(log), Front(log) \o <<Line(Stamp, "other")>>} ELSE {log}

ReadLog ==
  /\ window.at = "read"
  /\ \E whole \in Snapshots : \E first \in 1 .. Len(whole) + 1 :
       LET lines   == SubSeq(whole, first, Len(whole))
           s       == Parsed(lines, window.start)
           covered == Covered(lines, first > 1, window.start)
           loaded  == LoadEvidence(s, covered)
           hook    == HookEvidence(s, covered)
       IN ShowPage(Page(loaded, hook,
                        Overview("Registered", TRUE, TRUE, loaded, hook, s.disabled, s.trackers # {}),
                        first > 1))

\* Anything may throw; the page on the screen stays.
RefreshFails == window.at # "idle" /\ ShowPage(shown)

\* The history: while the window looks, it remembers; otherwise it follows.
Remember ==
  seen' = IF window.at # "idle" /\ window'.at # "idle"
          THEN [f \in DOMAIN seen |-> seen[f] \cup Truth'[f]] ELSE Truth'

\* Nothing is left to be shown after the last refresh.
Watched == refreshes < MaxRefreshes \/ window.at # "idle"

Server(A) == Watched /\ A /\ UNCHANGED windowVars /\ Remember
Window(A) == A /\ Remember

Next ==
  \/ Server(FinishLine)     \/ Server(StartVrServer)    \/ Server(FirstLine)
  \/ Server(Die)            \/ Server(LoadDriver)       \/ Server(BeginInstall)
  \/ Server(GoOnInstalling) \/ Server(InstallLine)      \/ Server(LoadedLine)
  \/ Server(ExplainLine)    \/ Server(RequestInterface) \/ Server(ObserveLine)
  \/ Server(IdentifyTracker) \/ Server(Cleanup)         \/ Server(RemoveHooks)
  \/ Server(FreeHooks)      \/ Server(UnloadedLine)
  \/ Window(Refresh)        \/ Window(ScanFails)        \/ Window(FindNoProcess)
  \/ Window(FindProcess)    \/ Window(ReadNothing)      \/ Window(ReadLog)
  \/ Window(RefreshFails)

Spec == Init /\ [][Next]_vars

(***************************************************************************)
(* Properties.                                                             *)
(***************************************************************************)

\* Whatever vrserver does while the window looks, and however much of the log
\* it gets to see, the page claims nothing that was not the case meanwhile, and
\* it is unsure only for a reason (inspectRuntime(), selectOverview()).
Report == INSTANCE StatusReport WITH
            truth <- Truth, refreshing <- window.at # "idle"
FollowsReport == Report!Spec

=============================================================================
