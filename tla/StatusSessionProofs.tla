------------------------- MODULE StatusSessionProofs -------------------------
(* Proofs about StatusSession and the HookInstall inside it.  Whatever       *)
(* functions the host's vtables lead to, in whatever order interfaces are    *)
(* asked for and whichever calls fail, a detour never lacks its trampoline,  *)
(* also while vrserver loads, unloads and dies.                              *)
EXTENDS StatusSession, TransitionLogProofs

(***************************************************************************)
(* The hooks.                                                              *)
(***************************************************************************)

\* An enabled hook is recorded, except by the job that is about to record it.
OnTheWay(t) == job.at = "record" /\ job.target = t /\ job.version = patched[t]
EnabledAreRecorded ==
  \A t \in enabled : patched[t] \in Versions /\ (target[patched[t]] = t \/ OnTheWay(t))

\* A recorded target has its own trampoline, and there are no others, except the
\* one that a job has just created.
RecordedHaveOriginal == \A v \in Versions : target[v] # None => original[v] = target[v]
NoOtherOriginal ==
  \A v \in Versions :
    original[v] # None /\ target[v] = None => job.at \in {"enable", "record"} /\ job.version = v

\* What a job has done so far.
JobUnderWay ==
  /\ job.at # "none" => holder \in {"install", "observe"} /\ initialized
  /\ job.at \in {"choose", "enable", "record"} => job.target \in Targets
  /\ job.at \in {"enable", "record"} =>
       /\ target[job.version] = None /\ original[job.version] = job.target
       /\ patched[job.target] = job.version
  /\ job.at = "enable" => job.target \notin enabled

HookInv ==
  /\ HookTypeOK
  /\ EnabledAreRecorded
  /\ RecordedHaveOriginal
  /\ NoOtherOriginal
  /\ JobUnderWay
  /\ holder = "drain" => enabled = {}
  /\ context => initialized /\ holder # "drain"

\* The inductive invariant gives the property.
LEMMA InvImplies == HookInv => DetoursHaveTrampolines
<1> SUFFICES ASSUME HookInv PROVE DetoursHaveTrampolines
  OBVIOUS
<1>1. \A t \in enabled : patched[t] \in Versions /\ original[patched[t]] = t
  <2> SUFFICES ASSUME NEW t \in enabled PROVE patched[t] \in Versions /\ original[patched[t]] = t
    OBVIOUS
  <2>0. t \in Targets /\ t # None
    BY NoneAssumption DEF HookInv, HookTypeOK
  <2>1. patched[t] \in Versions /\ (target[patched[t]] = t \/ OnTheWay(t))
    BY DEF HookInv, EnabledAreRecorded
  <2>2. CASE target[patched[t]] = t
    BY <2>0, <2>1, <2>2 DEF HookInv, RecordedHaveOriginal
  <2>3. CASE OnTheWay(t)
    BY <2>1, <2>3 DEF HookInv, JobUnderWay, OnTheWay
  <2> QED
    BY <2>1, <2>2, <2>3
<1> QED
  BY <1>1 DEF HookInv, DetoursHaveTrampolines

\* A process starts unhooked.
LEMMA InvInit == Unhooked => HookInv
<1> SUFFICES ASSUME Unhooked PROVE HookInv
  OBVIOUS
<1>1. HookTypeOK
  BY DEF Unhooked, HookTypeOK, Versions, NoPointers, NoJob, Jobs
<1> QED
  BY <1>1 DEF Unhooked, HookInv, EnabledAreRecorded, RecordedHaveOriginal, NoOtherOriginal,
              JobUnderWay, NoPointers, NoJob, Versions

\* Each step keeps it.
LEMMA InvNext == HookInv /\ [HookNext]_hookVars => HookInv'
<1> SUFFICES ASSUME HookInv, [HookNext]_hookVars PROVE HookInv'
  OBVIOUS
<1> USE NoneAssumption DEF HookInv
<1>1. CASE Refuse
  BY <1>1 DEF Refuse, Ended, HookTypeOK, Jobs, EnabledAreRecorded, OnTheWay,
              RecordedHaveOriginal, NoOtherOriginal, JobUnderWay
<1>2. CASE Share
  BY <1>2 DEF Share, Ended, Taken, Shared, Other, Versions, HookTypeOK, Jobs, EnabledAreRecorded,
              OnTheWay, RecordedHaveOriginal, NoOtherOriginal, JobUnderWay
<1>3. CASE CreateHook
  BY <1>3 DEF CreateHook, Ended, Taken, Shared, Versions, HookTypeOK, Jobs, EnabledAreRecorded,
              OnTheWay, RecordedHaveOriginal, NoOtherOriginal, JobUnderWay
<1>4. CASE EnableHook
  BY <1>4 DEF EnableHook, Ended, Versions, HookTypeOK, Jobs, EnabledAreRecorded,
              OnTheWay, RecordedHaveOriginal, NoOtherOriginal, JobUnderWay
<1>5. CASE RecordTarget
  BY <1>5 DEF RecordTarget, Ended, Versions, HookTypeOK, Jobs, EnabledAreRecorded,
              OnTheWay, RecordedHaveOriginal, NoOtherOriginal, JobUnderWay
<1>6. CASE StartInstall
  <2>1. job.at = "none"
    BY <1>6 DEF StartInstall, JobUnderWay, HookTypeOK, Jobs
  <2>2. CASE UNCHANGED <<initialized, job>>
    BY <1>6, <2>1, <2>2 DEF StartInstall, HookTypeOK, EnabledAreRecorded,
              OnTheWay, RecordedHaveOriginal, NoOtherOriginal, JobUnderWay
  <2>3. CASE initialized' /\ job' \in Jobs /\ job'.at \in {"choose", "failed"}
                          /\ (job'.at = "choose" => job'.target \in Targets)
    BY <1>6, <2>1, <2>3 DEF StartInstall, HookTypeOK, EnabledAreRecorded,
              OnTheWay, RecordedHaveOriginal, NoOtherOriginal, JobUnderWay
  <2>4. ASSUME initialized' = TRUE, job' = [NoJob EXCEPT !.at = "failed"]
        PROVE  job' \in Jobs /\ job'.at = "failed"
    BY <2>4 DEF NoJob, Jobs, Versions
  <2>5. ASSUME NEW t \in Targets, job' = Call("006", t)
        PROVE  job' \in Jobs /\ job'.at = "choose" /\ job'.target \in Targets
    BY <2>5 DEF Call, Jobs, Versions
  <2> QED
    BY <1>6, <2>2, <2>3, <2>4, <2>5 DEF StartInstall
<1>7. CASE InstallContextHook
  BY <1>7 DEF InstallContextHook, JobDone, HookTypeOK, EnabledAreRecorded,
              OnTheWay, RecordedHaveOriginal, NoOtherOriginal, JobUnderWay
<1>8. CASE Return
  BY <1>8 DEF Return, JobDone, NoJob, Versions, HookTypeOK, Jobs, EnabledAreRecorded,
              OnTheWay, RecordedHaveOriginal, NoOtherOriginal, JobUnderWay
<1>9. CASE \E v \in Versions, t \in Targets : Observe(v, t)
  <2>1. job.at = "none" /\ initialized
    BY <1>9 DEF Observe, JobUnderWay, HookTypeOK, Jobs
  <2>2. PICK v \in Versions, t \in Targets : Observe(v, t)
    BY <1>9
  <2>3. job' \in Jobs /\ job'.at = "choose" /\ job'.target \in Targets
    BY <2>2 DEF Observe, Call, Jobs
  <2> QED
    BY <2>1, <2>2, <2>3 DEF Observe, HookTypeOK, EnabledAreRecorded,
              OnTheWay, RecordedHaveOriginal, NoOtherOriginal, JobUnderWay
<1>10. CASE Disable
  <2>1. job.at = "none"
    BY <1>10 DEF Disable, JobUnderWay, HookTypeOK, Jobs
  <2>2. ASSUME NEW t \in enabled PROVE t \in Recorded
    <3>1. patched[t] \in Versions /\ target[patched[t]] = t
      BY <2>1 DEF EnabledAreRecorded, OnTheWay
    <3> QED
      BY <3>1 DEF Recorded, HookTypeOK
  <2>3. enabled' = {}
    BY <1>10, <2>2 DEF Disable
  <2> QED
    BY <1>10, <2>1, <2>3 DEF Disable, HookTypeOK, Jobs, EnabledAreRecorded,
               RecordedHaveOriginal, NoOtherOriginal, JobUnderWay
<1>11. CASE Free
  BY <1>11 DEF Free, NoPointers, Versions, HookTypeOK, Jobs, EnabledAreRecorded,
               OnTheWay, RecordedHaveOriginal, NoOtherOriginal, JobUnderWay
<1>12. CASE EndProcess
  BY <1>12 DEF EndProcess, NoPointers, NoJob, Versions, HookTypeOK, Jobs, EnabledAreRecorded,
               OnTheWay, RecordedHaveOriginal, NoOtherOriginal, JobUnderWay
<1>13. CASE UNCHANGED hookVars
  BY <1>13 DEF hookVars, HookTypeOK, Jobs, EnabledAreRecorded,
               OnTheWay, RecordedHaveOriginal, NoOtherOriginal, JobUnderWay
<1> QED
  BY <1>1, <1>2, <1>3, <1>4, <1>5, <1>6, <1>7, <1>8, <1>9, <1>10, <1>11, <1>12, <1>13
     DEF HookNext, InstallPoseHook

\* For every host and every order of interface requests, failures, unloads and
\* ends of the process: whoever enters a detour finds the trampoline of the
\* function it was called on, and remove() leaves no detour reachable (hooks.cpp).
THEOREM HookSafety == HookSpec => []DetoursHaveTrampolines
<1>1. HookSpec => []HookInv
  BY InvInit, InvNext, PTL DEF HookSpec
<1> QED
  BY <1>1, InvImplies, PTL


(***************************************************************************)
(* The session around them.                                                *)
(***************************************************************************)
\* Who may hold mutex_ while the main thread is where it is.
HolderInv ==
  /\ phase \in {"none", "idle", "unload"} => holder = "nobody"
  /\ phase = "install" => holder \in {"nobody", "install"}
  /\ phase \in {"load", "explain", "active", "cleanup"} => holder \in {"nobody", "observe"}
  /\ phase = "drained" => holder = "drain"

\* The log: no line is from the future, and one that is being written is there.
LineKinds == {"other", "hook", "load", "failure", "disabled", "tracker", "unload"}
LogLines(latest) == {Line(stamp, kind) : stamp \in 1 .. latest, kind \in LineKinds}
LogInv ==
  /\ process \in 0 .. MaxProcesses /\ writing \in BOOLEAN
  /\ log \in Seq(LogLines(Stamp)) /\ Len(log) <= MaxLines
  /\ writing => log # <<>>

Phases == {"none", "idle", "install", "load", "explain", "active", "cleanup", "drained", "unload"}
PhaseInv ==
  /\ phase \in Phases /\ filtering \in BOOLEAN /\ known \in BOOLEAN
  /\ phase = "none" => ~writing

WindowInv ==
  /\ refreshes \in 0 .. MaxRefreshes
  /\ window \in [at : {"idle", "scan", "read"}, start : 0 .. Began]

SessionInv == HookInv /\ HolderInv /\ LogInv /\ PhaseInv /\ WindowInv

\* Everything the driver and the window do is a step of HookInstall or none.
LEMMA SessionHooks == Next => [HookNext]_hookVars
<1> SUFFICES ASSUME Next PROVE [HookNext]_hookVars
  OBVIOUS
<1> USE DEF Server, Window
<1>1. CASE Server(Die) \/ Server(BeginInstall) \/ Server(GoOnInstalling)
           \/ Server(InstallLine) \/ Server(RequestInterface) \/ Server(ObserveLine)
  BY <1>1, Zenon DEF Die, BeginInstall, GoOnInstalling, InstallLine, RequestInterface,
                     ObserveLine, HookNext
<1>2. CASE Server(RemoveHooks) \/ Server(FreeHooks)
  BY <1>2, Zenon DEF RemoveHooks, FreeHooks, HookNext
<1>3. CASE Server(FinishLine) \/ Server(StartVrServer) \/ Server(FirstLine) \/ Server(LoadDriver)
           \/ Server(LoadedLine) \/ Server(ExplainLine) \/ Server(IdentifyTracker)
           \/ Server(Cleanup) \/ Server(UnloadedLine)
  BY <1>3, Zenon DEF FinishLine, StartVrServer, FirstLine, LoadDriver, LoadedLine, ExplainLine,
                     IdentifyTracker, Cleanup, UnloadedLine
<1>4. CASE Window(Refresh) \/ Window(ScanFails) \/ Window(FindNoProcess) \/ Window(FindProcess)
           \/ Window(ReadNothing) \/ Window(ReadLog) \/ Window(RefreshFails)
  BY <1>4, Zenon DEF Refresh, ScanFails, FindNoProcess, FindProcess, ReadNothing, ReadLog,
                     RefreshFails, ShowPage
<1> QED
  BY <1>1, <1>2, <1>3, <1>4, Zenon DEF Next

\* A line fits the log of its process, and that of every later one.
LEMMA LaterLines ==
  ASSUME NEW m \in Nat, NEW n \in Nat, m <= n, NEW s \in Seq(LogLines(m))
  PROVE  s \in Seq(LogLines(n))
<1>1. 1 .. m \subseteq 1 .. n
  OBVIOUS
<1>2. LogLines(m) \subseteq LogLines(n)
  BY <1>1 DEF LogLines
<1> QED
  BY <1>2, SeqMonotonic, Zenon

LEMMA LineFits ==
  ASSUME NEW n \in Nat, n > 0, NEW kind \in LineKinds
  PROVE  Line(n, kind) \in LogLines(n)
<1>1. n \in 1 .. n
  OBVIOUS
<1> QED
  BY <1>1 DEF LogLines

\* A line that was being written is cut off, or left torn.
LEMMA FrontFits ==
  ASSUME NEW S, NEW s \in Seq(S), s # <<>>, NEW e \in S
  PROVE  /\ Front(s) \in Seq(S) /\ Len(Front(s)) = Len(s) - 1
         /\ Front(s) \o <<e>> \in Seq(S) /\ Len(Front(s) \o <<e>>) = Len(s)
<1>1. Len(s) \in Nat /\ Len(s) > 0 /\ \A i \in 1 .. Len(s) - 1 : s[i] \in S
  BY EmptySeq, ElementOfSeq, LenProperties
<1>2. Front(s) \in Seq(S) /\ Len(Front(s)) = Len(s) - 1
  <2> DEFINE n == Len(s) - 1
  <2>1. n \in Int /\ n >= 0 /\ 1 \in Int /\ \A i \in 1 .. n : s[i] \in S
    BY <1>1
  <2> HIDE DEF n
  <2>2. SubSeq(s, 1, n) \in Seq(S) /\ Len(SubSeq(s, 1, n)) = IF 1 <= n THEN n - 1 + 1 ELSE 0
    BY <2>1, SubSeqProperties
  <2>3. Len(SubSeq(s, 1, n)) = n
    BY <2>1, <2>2
  <2> QED
    BY <2>2, <2>3 DEF Front, n
<1>3. <<e>> \in Seq(S) /\ Len(<<e>>) = 1
  OBVIOUS
<1> QED
  BY <1>1, <1>2, <1>3, ConcatProperties

LEMMA WriteKeeps ==
  ASSUME LogInv, NEW kind \in LineKinds, Write(kind), process' = process
  PROVE  LogInv'
<1>1. Stamp \in Nat /\ Stamp > 0 /\ Stamp' = Stamp
  BY SessionBounds DEF LogInv, Stamp
<1>2. log' = Append(log, Line(Stamp, kind)) /\ Len(log) < MaxLines /\ writing' = TRUE
  BY DEF Write
<1>3. log' \in Seq(LogLines(Stamp)) /\ Len(log') = Len(log) + 1 /\ log' # <<>>
  BY <1>1, <1>2, LineFits DEF LogInv
<1> QED
  BY <1>1, <1>2, <1>3, SessionBounds, LenProperties DEF LogInv

LEMMA StartKeeps == ASSUME LogInv, StartVrServer, ~writing PROVE LogInv'
<1>1. process \in Nat /\ process' = process + 1 /\ process' \in 0 .. MaxProcesses
  BY SessionBounds DEF LogInv, StartVrServer
<1>2. Stamp \in Nat /\ Stamp' \in Nat /\ Stamp <= Stamp'
  BY <1>1 DEF Stamp
<1>3. log' = log \/ log' = <<>>
  BY DEF StartVrServer
<1>4. log' \in Seq(LogLines(Stamp')) /\ Len(log') <= MaxLines
  <2>1. 0 <= MaxLines
    BY SessionBounds
  <2>2. log \in Seq(LogLines(Stamp')) /\ Len(log) <= MaxLines
    BY <1>2, LaterLines DEF LogInv
  <2>3. <<>> \in Seq(LogLines(Stamp')) /\ Len(<<>>) = 0
    BY EmptySeq, Zenon
  <2>4. Len(<<>>) <= MaxLines
    BY <2>1, <2>3
  <2> QED
    BY <1>3, <2>2, <2>3, <2>4, Zenon
<1> QED
  BY <1>1, <1>4 DEF LogInv, StartVrServer

LEMMA DieKeeps == ASSUME LogInv, Die PROVE LogInv'
<1>1. Stamp \in Nat /\ Stamp > 0 /\ Stamp' = Stamp /\ process' = process
  BY SessionBounds DEF LogInv, Stamp, Die
<1>2. writing' = FALSE
  BY DEF Die
<1>3. CASE ~writing
  BY <1>1, <1>2, <1>3 DEF LogInv, Die
<1>4. CASE writing
  <2> DEFINE torn == Line(Stamp, "other")
  <2>1. log' \in {Front(log), Front(log) \o <<torn>>}
    BY <1>4 DEF Die
  <2>2. torn \in LogLines(Stamp) /\ log # <<>> /\ log \in Seq(LogLines(Stamp))
    <3>1. "other" \in LineKinds
      BY DEF LineKinds
    <3> QED
      BY <1>1, <1>4, <3>1, LineFits DEF LogInv
  <2> HIDE DEF torn
  <2>3. /\ Front(log) \in Seq(LogLines(Stamp)) /\ Len(Front(log)) = Len(log) - 1
        /\ Front(log) \o <<torn>> \in Seq(LogLines(Stamp))
        /\ Len(Front(log) \o <<torn>>) = Len(log)
    BY <2>2, FrontFits, Zenon
  <2>4. Len(log) \in Nat /\ Len(log) <= MaxLines /\ MaxLines \in Nat
    BY <2>2, LenProperties, SessionBounds DEF LogInv
  <2>5. log' \in Seq(LogLines(Stamp)) /\ Len(log') <= MaxLines
    <3>1. CASE log' = Front(log)
      <4>1. Len(log') <= MaxLines
        BY <2>3, <2>4, <3>1
      <4> QED
        BY <2>3, <3>1, <4>1, Zenon
    <3>2. CASE log' = Front(log) \o <<torn>>
      <4>1. Len(log') <= MaxLines
        BY <2>3, <2>4, <3>2
      <4> QED
        BY <2>3, <3>2, <4>1, Zenon
    <3> QED
      BY <2>1, <3>1, <3>2
  <2> QED
    BY <1>1, <1>2, <2>5, Zenon DEF LogInv
<1> QED
  BY <1>3, <1>4 DEF LogInv

\* A step that is not one of these leaves the log alone or writes a line.
LEMMA LogSteps ==
  ASSUME Next
  PROVE  \/ UNCHANGED <<process, log, writing>>
         \/ Die \/ StartVrServer
         \/ FinishLine
         \/ process' = process /\ \E kind \in LineKinds : Write(kind)
<1> USE DEF Server, Window
<1>1. CASE Server(FinishLine) \/ Server(Die) \/ Server(StartVrServer)
  BY <1>1, Zenon
<1>2. CASE Server(FirstLine) \/ Server(LoadedLine) \/ Server(IdentifyTracker)
           \/ Server(UnloadedLine)
  <2>1. /\ "other" \in LineKinds /\ "load" \in LineKinds
        /\ "tracker" \in LineKinds /\ "unload" \in LineKinds
    BY DEF LineKinds
  <2> QED
    BY <1>2, <2>1, Zenon DEF FirstLine, LoadedLine, IdentifyTracker, UnloadedLine
<1>3. CASE Server(InstallLine) \/ Server(ObserveLine) \/ Server(ExplainLine)
  <2>1. (IF job.at = "installed" THEN "hook" ELSE "other") \in LineKinds
    BY DEF LineKinds
  <2>2. (IF filtering THEN "failure" ELSE "disabled") \in LineKinds /\ "hook" \in LineKinds
    BY DEF LineKinds
  <2>3. CASE Server(InstallLine)
    BY <2>1, <2>3, Zenon DEF InstallLine
  <2>4. CASE Server(ObserveLine)
    BY <2>2, <2>4, Zenon DEF ObserveLine
  <2>5. CASE Server(ExplainLine)
    BY <2>2, <2>5, Zenon DEF ExplainLine
  <2> QED
    BY <1>3, <2>3, <2>4, <2>5
<1>4. CASE Server(LoadDriver) \/ Server(BeginInstall) \/ Server(GoOnInstalling)
           \/ Server(RequestInterface) \/ Server(Cleanup) \/ Server(RemoveHooks)
           \/ Server(FreeHooks)
  BY <1>4, Zenon DEF LoadDriver, BeginInstall, GoOnInstalling, RequestInterface, Cleanup,
                     RemoveHooks, FreeHooks, serverVars
<1>5. CASE Window(Refresh) \/ Window(ScanFails) \/ Window(FindNoProcess) \/ Window(FindProcess)
           \/ Window(ReadNothing) \/ Window(ReadLog) \/ Window(RefreshFails)
  BY <1>5, Zenon DEF Refresh, ScanFails, FindNoProcess, FindProcess, ReadNothing, ReadLog,
                     RefreshFails, ShowPage, serverVars
<1> QED
  BY <1>1, <1>2, <1>3, <1>4, <1>5, Zenon DEF Next

LEMMA LogKept == ASSUME LogInv, PhaseInv, Next PROVE LogInv'
<1>1. CASE UNCHANGED <<process, log, writing>>
  BY <1>1 DEF LogInv, Stamp
<1>2. CASE StartVrServer
  BY <1>2, StartKeeps DEF StartVrServer, PhaseInv
<1>3. CASE FinishLine
  BY <1>3 DEF FinishLine, LogInv, Stamp
<1>4. CASE process' = process /\ \E kind \in LineKinds : Write(kind)
  BY <1>4, WriteKeeps
<1> QED
  BY <1>1, <1>2, <1>3, <1>4, DieKeeps, LogSteps

\* The window keeps to its own variables, and forgets nothing it counts.
LEMMA WindowSteps ==
  ASSUME Next
  PROVE  \/ UNCHANGED windowVars
         \/ UNCHANGED process /\ (Refresh \/ FindProcess)
         \/ UNCHANGED process /\ refreshes' = refreshes /\ window' = Closed
<1> USE DEF Server, Window
<1>1. CASE Server(FinishLine) \/ Server(StartVrServer) \/ Server(FirstLine) \/ Server(Die)
           \/ Server(LoadDriver) \/ Server(BeginInstall) \/ Server(GoOnInstalling)
           \/ Server(InstallLine) \/ Server(LoadedLine) \/ Server(ExplainLine)
           \/ Server(RequestInterface) \/ Server(ObserveLine) \/ Server(IdentifyTracker)
           \/ Server(Cleanup) \/ Server(RemoveHooks) \/ Server(FreeHooks)
           \/ Server(UnloadedLine)
  BY <1>1, Zenon
<1>2. CASE Window(Refresh) \/ Window(FindProcess)
  BY <1>2, Zenon DEF Refresh, FindProcess, serverVars
<1>3. CASE Window(ScanFails) \/ Window(FindNoProcess) \/ Window(ReadNothing) \/ Window(ReadLog)
           \/ Window(RefreshFails)
  BY <1>3, Zenon DEF ScanFails, FindNoProcess, ReadNothing, ReadLog, RefreshFails, ShowPage,
                     serverVars
<1> QED
  BY <1>1, <1>2, <1>3, Zenon DEF Next

LEMMA WindowKept == ASSUME LogInv, LogInv', WindowInv, Next PROVE WindowInv'
<1>1. Began \in Nat /\ 0 \in 0 .. Began
  BY SessionBounds DEF LogInv, Began
<1>2. MaxRefreshes \in Nat
  BY SessionBounds
<1>3. CASE UNCHANGED windowVars
  <2>1. process' = process \/ process' = process + 1
    BY LogSteps, Zenon DEF FinishLine, Die, StartVrServer
  <2>2. process \in Nat
    BY SessionBounds DEF LogInv
  <2>3. Began' \in Nat /\ Began <= Began'
    BY <2>1, <2>2 DEF Began
  <2> QED
    BY <1>1, <1>3, <2>3 DEF WindowInv, windowVars
<1>4. CASE UNCHANGED process /\ Refresh
  BY <1>1, <1>2, <1>4 DEF WindowInv, Refresh, Began
<1>5. CASE UNCHANGED process /\ FindProcess
  BY <1>1, <1>5 DEF WindowInv, FindProcess, Began
<1>6. CASE UNCHANGED process /\ refreshes' = refreshes /\ window' = Closed
  BY <1>1, <1>6 DEF WindowInv, Closed, Began
<1> QED
  BY <1>3, <1>4, <1>5, <1>6, WindowSteps

\* Only the thread that is there may take or give back the mutex.
LEMMA SessionStep ==
  ASSUME SessionInv, Next
  PROVE  HolderInv' /\ PhaseInv'
<1> USE DEF Server, Window, SessionInv, HolderInv, PhaseInv, Phases
<1>1. CASE Server(FinishLine)
  BY <1>1 DEF FinishLine, hookVars
<1>2. CASE Server(StartVrServer)
  BY <1>2 DEF StartVrServer, hookVars
<1>3. CASE Server(FirstLine)
  BY <1>3 DEF FirstLine, hookVars
<1>4. CASE Server(Die)
  BY <1>4 DEF Die, EndProcess
<1>5. CASE Server(LoadDriver)
  BY <1>5 DEF LoadDriver, Goto, hookVars
<1>6. CASE Server(BeginInstall)
  BY <1>6 DEF BeginInstall, StartInstall, serverVars
<1>7. CASE Server(GoOnInstalling)
  BY <1>7 DEF GoOnInstalling, InstallPoseHook, Refuse, Share, CreateHook, EnableHook,
              RecordTarget, InstallContextHook, serverVars
<1>8. CASE Server(InstallLine)
  BY <1>8 DEF InstallLine, Goto, Return
<1>9. CASE Server(LoadedLine)
  BY <1>9 DEF LoadedLine, Goto, hookVars
<1>10. CASE Server(ExplainLine)
  BY <1>10 DEF ExplainLine, Goto, hookVars
<1>11. CASE Server(RequestInterface)
  BY <1>11 DEF RequestInterface, Observe, serverVars
<1>12. CASE Server(ObserveLine)
  BY <1>12 DEF ObserveLine, Return
<1>13. CASE Server(IdentifyTracker)
  BY <1>13 DEF IdentifyTracker, hookVars
<1>14. CASE Server(Cleanup)
  BY <1>14 DEF Cleanup, Goto, hookVars
<1>15. CASE Server(RemoveHooks)
  BY <1>15 DEF RemoveHooks, Disable, Goto, hookVars
<1>16. CASE Server(FreeHooks)
  BY <1>16 DEF FreeHooks, Free, Goto
<1>17. CASE Server(UnloadedLine)
  BY <1>17 DEF UnloadedLine, Goto, hookVars
<1>18. CASE UNCHANGED <<hookVars, serverVars>>
  BY <1>18 DEF hookVars, serverVars
<1>19. CASE Window(Refresh) \/ Window(ScanFails) \/ Window(FindNoProcess) \/ Window(FindProcess)
            \/ Window(ReadNothing) \/ Window(ReadLog) \/ Window(RefreshFails)
  <2>1. UNCHANGED <<hookVars, serverVars>>
    BY <1>19, Zenon DEF Refresh, ScanFails, FindNoProcess, FindProcess, ReadNothing, ReadLog,
                        RefreshFails, ShowPage
  <2> QED
    BY <1>18, <2>1
<1> QED
  BY <1>1, <1>2, <1>3, <1>4, <1>5, <1>6, <1>7, <1>8, <1>9, <1>10, <1>11, <1>12, <1>13,
     <1>14, <1>15, <1>16, <1>17, <1>19, Zenon DEF Next

LEMMA SessionInit == Init => SessionInv
<1> SUFFICES ASSUME Init PROVE SessionInv
  OBVIOUS
<1>1. HookInv
  BY InvInit DEF Init
<1>2. HolderInv /\ PhaseInv
  BY DEF Init, Unhooked, HolderInv, PhaseInv, Phases
<1>3. Stamp = 1 /\ Began = 0
  BY DEF Init, Stamp, Began
<1>4. LogInv
  <2>1. <<>> \in Seq(LogLines(Stamp)) /\ Len(<<>>) = 0
    BY EmptySeq, Zenon
  <2>2. 0 <= MaxLines /\ 0 \in 0 .. MaxProcesses
    BY SessionBounds
  <2>3. log = <<>> /\ writing = FALSE /\ process = 0
    BY DEF Init
  <2>4. Len(<<>>) <= MaxLines
    BY <2>1, <2>2
  <2> QED
    BY <2>1, <2>2, <2>3, <2>4, Zenon DEF LogInv
<1>5. WindowInv
  BY <1>3, SessionBounds DEF Init, WindowInv, Closed
<1> QED
  BY <1>1, <1>2, <1>4, <1>5 DEF SessionInv

LEMMA SessionNext == SessionInv /\ [Next]_vars => SessionInv'
<1> SUFFICES ASSUME SessionInv, [Next]_vars PROVE SessionInv'
  OBVIOUS
<1>1. CASE Next
  <2>1. HookInv'
    BY <1>1, SessionHooks, InvNext, Zenon DEF SessionInv
  <2>2. LogInv'
    BY <1>1, LogKept, Zenon DEF SessionInv
  <2> QED
    BY <1>1, <2>1, <2>2, SessionStep, WindowKept, Zenon DEF SessionInv
<1>2. CASE UNCHANGED vars
  <2>1. UNCHANGED hookVars /\ UNCHANGED serverVars /\ UNCHANGED windowVars
    BY <1>2, Zenon DEF vars
  <2>2. HookInv'
    BY <2>1, InvNext, Zenon DEF SessionInv
  <2>3. HolderInv' /\ PhaseInv'
    BY <2>1 DEF SessionInv, hookVars, serverVars, HolderInv, PhaseInv
  <2>4. LogInv' /\ WindowInv'
    BY <2>1 DEF SessionInv, serverVars, windowVars, LogInv, WindowInv, Stamp, Began
  <2> QED
    BY <2>2, <2>3, <2>4 DEF SessionInv
<1> QED
  BY <1>1, <1>2

LEMMA SessionTyped == SessionInv => TypeOK
<1> SUFFICES ASSUME SessionInv PROVE TypeOK
  OBVIOUS
<1>1. \A i \in DOMAIN log : log[i].stamp \in 1 .. Stamp
  <2> SUFFICES ASSUME NEW i \in DOMAIN log PROVE log[i].stamp \in 1 .. Stamp
    OBVIOUS
  <2>1. log[i] \in LogLines(Stamp)
    BY LenProperties, ElementOfSeq DEF SessionInv, LogInv
  <2>2. PICK stamp \in 1 .. Stamp, kind \in LineKinds : log[i] = Line(stamp, kind)
    BY <2>1 DEF LogLines
  <2>3. Line(stamp, kind).stamp = stamp
    BY Zenon DEF Line
  <2> QED
    BY <2>2, <2>3
<1> QED
  BY <1>1 DEF SessionInv, HookInv, HolderInv, LogInv, PhaseInv, Phases, WindowInv, TypeOK

\* The mutex is held only by the thread that is in install() or in a request for
\* an interface, a vrserver that ends in the middle of either leaves nobody holding it,
\* and no line is stamped later than the process that wrote it (server_provider.cpp,
\* hooks.cpp).
THEOREM SessionIsTyped == Spec => []TypeOK
<1>1. Spec => []SessionInv
  BY SessionInit, SessionNext, PTL DEF Spec
<1> QED
  BY <1>1, SessionTyped, PTL

\* And the same driver that logs, unloads and dies never leaves a detour without
\* its trampoline (hooks.cpp).
THEOREM SessionHookSafety == Spec => []DetoursHaveTrampolines
<1>1. SessionInv => DetoursHaveTrampolines
  BY InvImplies DEF SessionInv
<1>2. Spec => []SessionInv
  BY SessionInit, SessionNext, PTL DEF Spec
<1> QED
  BY <1>1, <1>2, PTL

(***************************************************************************)
(* What the page says.  A hook that was announced is recorded and enabled   *)
(* until the driver is unloaded.                                            *)
(***************************************************************************)
NoTarget == \A v \in Versions : target[v] = None

HooksHeld ==
  /\ ~initialized => NoTarget
  /\ \A v \in Versions : target[v] # None /\ holder # "drain" => target[v] \in enabled
  /\ job.at = "record" => job.target \in enabled
  /\ job.at = "installed" => target[job.version] # None
  /\ holder = "install" => job.at = "installed" \/ NoTarget
  /\ holder = "observe" => context /\ job.at # "none"
  /\ job.at \in {"choose", "enable", "record", "failed"} /\ job.fresh =>
       target[job.version] = None
  /\ holder = "observe" /\ ~job.fresh => target[job.version] # None

LEMMA HooksHeldInit == Unhooked => HooksHeld
  BY DEF Unhooked, HooksHeld, NoTarget, NoPointers, NoJob, Versions

LEMMA HooksHeldNext == HookInv /\ HooksHeld /\ [HookNext]_hookVars => HooksHeld'
<1> SUFFICES ASSUME HookInv, HooksHeld, [HookNext]_hookVars PROVE HooksHeld'
  OBVIOUS
<1> USE NoneAssumption DEF HookInv, HookTypeOK, NoTarget
<1>1. CASE Refuse
  BY <1>1 DEF Refuse, Ended, HooksHeld, Jobs, Versions
<1>2. CASE Share
  <2>1. /\ job.version \in Versions /\ job.target \in Targets /\ job.target # None
        /\ target' = [target EXCEPT ![job.version] = job.target]
        /\ job' = [job EXCEPT !.at = "installed"]
        /\ \E v \in Versions : target[v] = job.target
        /\ UNCHANGED <<holder, initialized, context, enabled>>
    BY <1>2 DEF Share, Ended, Shared, Jobs, JobUnderWay
  <2>2. holder # "drain" => job.target \in enabled
    BY <2>1 DEF HooksHeld
  <2>3. job'.at = "installed" /\ job'.version = job.version /\ target'[job.version] = job.target
    BY <2>1 DEF Jobs
  <2>4. \A v \in Versions : target'[v] = target[v] \/ target'[v] = job.target
    BY <2>1
  <2>5. initialized
    BY <1>2 DEF Share, JobUnderWay
  <2> QED
    BY <2>1, <2>2, <2>3, <2>4, <2>5 DEF HooksHeld
<1>3. CASE CreateHook
  BY <1>3 DEF CreateHook, Ended, HooksHeld, Jobs, Versions
<1>4. CASE EnableHook
  BY <1>4 DEF EnableHook, Ended, HooksHeld, Jobs, Versions
<1>5. CASE RecordTarget
  <2>1. /\ job.version \in Versions /\ job.target \in enabled /\ job.target # None
        /\ target' = [target EXCEPT ![job.version] = job.target]
        /\ job' = [job EXCEPT !.at = "installed"]
        /\ UNCHANGED <<holder, initialized, context, enabled>>
    BY <1>5 DEF RecordTarget, Ended, Jobs, JobUnderWay, HooksHeld
  <2>2. job'.at = "installed" /\ job'.version = job.version /\ target'[job.version] = job.target
    BY <2>1 DEF Jobs
  <2>3. \A v \in Versions : target'[v] = target[v] \/ target'[v] = job.target
    BY <2>1
  <2>4. initialized
    BY <1>5 DEF RecordTarget, JobUnderWay
  <2> QED
    BY <2>1, <2>2, <2>3, <2>4 DEF HooksHeld
<1>6. CASE StartInstall
  BY <1>6 DEF StartInstall, Call, NoJob, HooksHeld, Jobs, Versions, JobUnderWay
<1>7. CASE InstallContextHook
  BY <1>7 DEF InstallContextHook, HooksHeld
<1>8. CASE Return
  BY <1>8 DEF Return, NoJob, HooksHeld, Versions
<1>9. CASE \E v \in Versions, t \in Targets : Observe(v, t)
  <2>1. PICK v \in Versions, t \in Targets : Observe(v, t)
    BY <1>9
  <2>2. /\ holder = "nobody" /\ context' = TRUE /\ holder' = "observe"
        /\ job' = [at |-> "choose", version |-> v, target |-> t, fresh |-> target[v] = None]
        /\ UNCHANGED <<initialized, target, enabled>>
    BY <2>1 DEF Observe, Call
  <2>3. job'.at = "choose" /\ job'.version = v /\ (job'.fresh <=> target[v] = None)
    BY <2>2, Zenon
  <2> QED
    BY <2>2, <2>3 DEF HooksHeld
<1>10. CASE Disable
  BY <1>10 DEF Disable, HooksHeld, JobUnderWay
<1>11. CASE Free
  BY <1>11 DEF Free, NoPointers, HooksHeld, JobUnderWay
<1>12. CASE EndProcess
  BY <1>12 DEF EndProcess, NoPointers, NoJob, HooksHeld, Versions
<1>13. CASE UNCHANGED hookVars
  BY <1>13 DEF hookVars, HooksHeld
<1> QED
  BY <1>1, <1>2, <1>3, <1>4, <1>5, <1>6, <1>7, <1>8, <1>9, <1>10, <1>11, <1>12, <1>13
     DEF HookNext, InstallPoseHook

(***************************************************************************)
(* The last line of the log, and the log without it.                       *)
(***************************************************************************)
LEMMA LastAppended ==
  ASSUME NEW S, NEW s \in Seq(S), NEW e \in S
  PROVE  Last(Append(s, e)) = e /\ Front(Append(s, e)) = s
<1> DEFINE r == Append(s, e)
           n == Len(s)
<1>1. r \in Seq(S) /\ n \in Nat /\ Len(r) = n + 1 /\ r[n + 1] = e /\ \A i \in 1 .. n : r[i] = s[i]
  BY AppendProperties, LenProperties
<1> HIDE DEF r
<1>2. Len(r) - 1 = n
  BY <1>1
<1>3. SubSeq(r, 1, n) = s
  <2>1. \A i \in 1 .. n : r[i] \in S
    BY <1>1, ElementOfSeq
  <2>2. /\ SubSeq(r, 1, n) \in Seq(S) /\ Len(SubSeq(r, 1, n)) = IF 1 <= n THEN n - 1 + 1 ELSE 0
        /\ \A i \in 1 .. n - 1 + 1 : SubSeq(r, 1, n)[i] = r[1 + i - 1]
    BY <1>1, <2>1, SubSeqProperties
  <2> DEFINE q == SubSeq(r, 1, n)
  <2> HIDE DEF q
  <2>3. q \in Seq(S) /\ Len(q) = n
    BY <1>1, <2>2 DEF q
  <2>4. \A i \in 1 .. n : q[i] = s[i]
    <3> SUFFICES ASSUME NEW i \in 1 .. n PROVE q[i] = s[i]
      OBVIOUS
    <3>1. i \in 1 .. n - 1 + 1 /\ 1 + i - 1 = i
      BY <1>1
    <3> QED
      BY <1>1, <2>2, <3>1 DEF q
  <2> QED
    BY <2>3, <2>4, SeqEqual DEF q, n
<1> QED
  BY <1>1, <1>2, <1>3 DEF Last, Front, r

LEMMA LastSplit ==
  ASSUME NEW S, NEW s \in Seq(S), s # <<>>
  PROVE  Front(s) \in Seq(S) /\ Last(s) \in S /\ s = Append(Front(s), Last(s))
<1> DEFINE n == Len(s) - 1
           f == Front(s)
<1>1. Len(s) \in Nat /\ Len(s) > 0 /\ \A i \in 1 .. Len(s) : s[i] \in S
  BY EmptySeq, ElementOfSeq, LenProperties
<1>2. n \in Nat /\ n + 1 = Len(s) /\ Len(s) \in 1 .. Len(s) /\ \A i \in 1 .. n : i \in 1 .. Len(s)
  BY <1>1
<1>3. Last(s) = s[n + 1] /\ Last(s) \in S
  BY <1>1, <1>2, Zenon DEF Last
<1> HIDE DEF n
<1>4. f = SubSeq(s, 1, n)
  BY DEF f, Front, n
<1>5. /\ f \in Seq(S) /\ Len(f) = (IF 1 <= n THEN n - 1 + 1 ELSE 0)
      /\ \A i \in 1 .. n - 1 + 1 : f[i] = s[1 + i - 1]
  <2>1. \A i \in 1 .. n : s[i] \in S
    BY <1>1, <1>2
  <2> QED
    BY <1>2, <1>4, <2>1, SubSeqProperties
<1> HIDE DEF f
<1>6. Len(f) = n
  BY <1>2, <1>5
<1>7. ASSUME NEW i \in 1 .. n PROVE f[i] = s[i]
  <2>1. i \in 1 .. n - 1 + 1 /\ 1 + i - 1 = i
    BY <1>2
  <2> QED
    BY <1>5, <2>1
<1> DEFINE r == Append(f, s[n + 1])
<1>8. /\ r \in Seq(S) /\ Len(r) = n + 1 /\ r[n + 1] = s[n + 1]
      /\ \A i \in 1 .. n : r[i] = f[i]
  BY <1>3, <1>5, <1>6, AppendProperties
<1> HIDE DEF r
<1>9. \A i \in 1 .. Len(s) : s[i] = r[i]
  BY <1>2, <1>7, <1>8
<1>10. s = r
  BY <1>2, <1>8, <1>9, SeqEqual
<1> QED
  BY <1>3, <1>5, <1>10 DEF r, f

\* What the log says once the line under way is left out.
Written == IF writing THEN Front(log) ELSE log
LineUnderWay == writing => \E kind \in LineKinds : Last(log) = Line(Stamp, kind)

LEMMA LineIs ==
  ASSUME NEW n, NEW kind
  PROVE  Line(n, kind).stamp = n /\ Line(n, kind).kind = kind
  BY Zenon DEF Line

\* A line that is begun is not yet part of it, one that is finished is.
LEMMA WriteTells ==
  ASSUME LogInv, NEW kind \in LineKinds, Write(kind), process' = process
  PROVE  /\ Written' = Written /\ LineUnderWay' /\ ~writing
         /\ writing' = TRUE /\ Last(log').kind = kind
<1>1. Stamp \in Nat /\ Stamp > 0 /\ Stamp' = Stamp
  BY SessionBounds DEF LogInv, Stamp
<1>2. log' = Append(log, Line(Stamp, kind)) /\ ~writing /\ writing' = TRUE
  BY DEF Write
<1>3. log \in Seq(LogLines(Stamp)) /\ Line(Stamp, kind) \in LogLines(Stamp)
  BY <1>1, LineFits DEF LogInv
<1>4. Last(log') = Line(Stamp, kind) /\ Front(log') = log
  BY <1>2, <1>3, LastAppended
<1> QED
  BY <1>1, <1>2, <1>4, LineIs, Zenon DEF Written, LineUnderWay

LEMMA WrittenFits ==
  ASSUME LogInv PROVE Written \in Seq(LogLines(Stamp))
<1>1. Front(log) \in Seq(LogLines(Stamp)) \/ ~writing
  BY LastSplit, Zenon DEF LogInv
<1> QED
  BY <1>1 DEF LogInv, Written

\* How what the log says grows: by the line that is finished, by a torn one, or a
\* new process empties it.
WrittenStep ==
  \/ process' = process /\ Written' = Written /\ ~FinishLine
  \/ /\ process' = process
     /\ \E kind \in LineKinds :
          /\ Written' = Append(Written, Line(Stamp, kind))
          /\ (FinishLine /\ Telling(kind)) \/ (Die /\ kind = "other")
  \/ StartVrServer /\ process' = process + 1 /\ Written' \in {Written, <<>>}

LEMMA TornLine ==
  ASSUME NEW S, NEW s \in Seq(S), NEW e \in S
  PROVE  s \o <<e>> = Append(s, e)
<1> DEFINE a == s \o <<e>>
           b == Append(s, e)
<1>1. <<e>> \in Seq(S) /\ Len(<<e>>) = 1 /\ <<e>>[1] = e /\ Len(s) \in Nat
  BY LenProperties
<1>2. /\ a \in Seq(S) /\ Len(a) = Len(s) + 1
      /\ \A i \in 1 .. Len(s) + 1 : a[i] = IF i <= Len(s) THEN s[i] ELSE <<e>>[i - Len(s)]
  BY <1>1, ConcatProperties
<1>3. /\ b \in Seq(S) /\ Len(b) = Len(s) + 1 /\ b[Len(s) + 1] = e
      /\ \A i \in 1 .. Len(s) : b[i] = s[i]
  BY AppendProperties
<1> HIDE DEF a, b
<1>4. ASSUME NEW i \in 1 .. Len(s) + 1 PROVE a[i] = b[i]
  <2>1. CASE i <= Len(s)
    BY <1>1, <1>2, <1>3, <2>1
  <2>2. CASE ~(i <= Len(s))
    <3>1. i = Len(s) + 1 /\ i - Len(s) = 1
      BY <1>1, <2>2
    <3>2. a[i] = <<e>>[i - Len(s)]
      BY <1>2, <2>2
    <3> QED
      BY <1>1, <1>3, <3>1, <3>2
  <2> QED
    BY <2>1, <2>2
<1>5. a = b
  BY <1>2, <1>3, <1>4, SeqEqual
<1> QED
  BY <1>5 DEF a, b

LEMMA WrittenSteps ==
  ASSUME LogInv, LineUnderWay, PhaseInv, Next
  PROVE  WrittenStep /\ LineUnderWay'
<1> USE DEF WrittenStep
<1>1. CASE UNCHANGED <<process, log, writing>>
  <2>1. ~FinishLine
    BY <1>1, Zenon DEF FinishLine
  <2> QED
    BY <1>1, <2>1, Zenon DEF Written, LineUnderWay, Stamp
<1>2. CASE StartVrServer
  <2>1. ~writing /\ ~writing' /\ log' \in {log, <<>>} /\ process' = process + 1
    BY <1>2 DEF StartVrServer, PhaseInv
  <2> QED
    BY <1>2, <2>1, Zenon DEF Written, LineUnderWay
<1>3. CASE FinishLine
  <2>1. writing /\ ~writing' /\ log' = log /\ process' = process
    BY <1>3 DEF FinishLine
  <2>2. PICK kind \in LineKinds : Last(log) = Line(Stamp, kind)
    BY <2>1 DEF LineUnderWay
  <2>3. log = Append(Front(log), Last(log))
    BY <2>1, LastSplit, Zenon DEF LogInv
  <2>4. Written' = Append(Written, Line(Stamp, kind))
    BY <2>1, <2>2, <2>3, Zenon DEF Written
  <2>5. Telling(kind)
    BY <2>1, <2>2, LineIs, Zenon DEF Telling
  <2> QED
    BY <1>3, <2>1, <2>4, <2>5, Zenon DEF LineUnderWay
<1>4. CASE Die
  <2>1. process' = process /\ ~writing' /\ Written' = log' /\ ~FinishLine
    BY <1>4 DEF Die, Written, FinishLine
  <2>2. CASE ~writing
    BY <1>4, <2>1, <2>2, Zenon DEF Die, Written, LineUnderWay
  <2>3. CASE writing
    <3>1. log' = Front(log) \/ log' = Front(log) \o <<Line(Stamp, "other")>>
      BY <1>4, <2>3, Zenon DEF Die
    <3>2. Line(Stamp, "other") \in LogLines(Stamp)
      <4>1. "other" \in LineKinds /\ Stamp \in Nat /\ Stamp > 0
        BY SessionBounds DEF LineKinds, LogInv, Stamp
      <4> QED
        BY <4>1, LineFits
    <3>3. Front(log) \o <<Line(Stamp, "other")>> = Append(Front(log), Line(Stamp, "other"))
      BY <2>3, <3>2, TornLine, WrittenFits, Zenon DEF Written
    <3>4. Written = Front(log) /\ "other" \in LineKinds
      BY <2>3 DEF Written, LineKinds
    <3> QED
      BY <1>4, <2>1, <3>1, <3>3, <3>4, Zenon DEF LineUnderWay
  <2> QED
    BY <2>2, <2>3
<1>5. CASE process' = process /\ \E kind \in LineKinds : Write(kind)
  <2>1. PICK kind \in LineKinds : Write(kind)
    BY <1>5
  <2>2. ~FinishLine
    BY <2>1, Zenon DEF Write, FinishLine
  <2> QED
    BY <1>5, <2>1, <2>2, WriteTells, Zenon
<1> QED
  BY <1>1, <1>2, <1>3, <1>4, <1>5, LogSteps, Zenon

(***************************************************************************)
(* Where the driver is while it writes a line.                             *)
(***************************************************************************)
DriverHeld ==
  /\ phase \in {"none", "idle", "unload"} => ~initialized
  /\ phase = "install" => filtering
  /\ ~filtering => ~initialized
  /\ phase \in {"install", "load", "explain"} => ~known
  /\ Telling("load") => phase = "explain"
  /\ Telling("unload") => phase = "idle"
  /\ Telling("hook") => phase \in {"load", "explain", "active", "cleanup"} /\ enabled # {}
  /\ Telling("disabled") => phase = "active" /\ ~filtering
  /\ Telling("failure") => phase = "active" /\ ~context /\ NoTarget
  /\ Telling("tracker") => phase = "active" /\ known

Begun(kind) == ~writing /\ writing' = TRUE /\ Last(log').kind = kind
Quiet == log' = log /\ writing' = writing

LEMMA DriverHeldInit == Init => DriverHeld
  BY DEF Init, Unhooked, DriverHeld, Telling

LEMMA DriverStep ==
  ASSUME SessionInv, HooksHeld, DriverHeld, Next
  PROVE  DriverHeld'
<1> USE DEF Server, Window, DriverHeld
<1>0. ASSUME NEW kind \in LineKinds, Write(kind), process' = process PROVE Begun(kind)
  BY <1>0, WriteTells DEF SessionInv, Begun
<1>a. /\ "other" \in LineKinds /\ "hook" \in LineKinds /\ "load" \in LineKinds
      /\ "failure" \in LineKinds /\ "disabled" \in LineKinds
      /\ "tracker" \in LineKinds /\ "unload" \in LineKinds
  BY DEF LineKinds
<1>1. CASE Server(FinishLine)
  BY <1>1 DEF FinishLine, hookVars, Telling, NoTarget
<1>2. CASE Server(StartVrServer)
  BY <1>2 DEF StartVrServer, hookVars, Telling, NoTarget, SessionInv, PhaseInv
<1>3. CASE Server(FirstLine)
  <2>1. Begun("other") /\ UNCHANGED hookVars /\ UNCHANGED <<phase, filtering, known>>
    BY <1>0, <1>a, <1>3, Zenon DEF FirstLine
  <2> QED
    BY <2>1 DEF Begun, hookVars, Telling
<1>4. CASE Server(Die)
  BY <1>4 DEF Die, EndProcess, Telling
<1>5. CASE Server(LoadDriver)
  <2>1. /\ phase = "idle" /\ ~writing /\ Quiet /\ UNCHANGED hookVars
        /\ known' = FALSE /\ phase' = IF filtering' THEN "install" ELSE "load"
    BY <1>5, Zenon DEF LoadDriver, Goto, Quiet
  <2> QED
    BY <2>1 DEF Quiet, hookVars, Telling
<1>6. CASE Server(BeginInstall)
  <2>1. /\ phase = "install" /\ StartInstall /\ Quiet /\ UNCHANGED <<phase, filtering, known>>
    BY <1>6, Zenon DEF BeginInstall, serverVars, Quiet
  <2> QED
    BY <2>1 DEF Quiet, StartInstall, Telling
<1>7. CASE Server(GoOnInstalling)
  <2>1. /\ ~writing /\ Quiet /\ UNCHANGED <<phase, filtering, known>>
        /\ InstallPoseHook \/ InstallContextHook
    BY <1>7, Zenon DEF GoOnInstalling, serverVars, Quiet
  <2>2. initialized' = initialized
    BY <2>1, Zenon DEF InstallPoseHook, Refuse, Share, CreateHook, EnableHook, RecordTarget,
                       InstallContextHook
  <2> QED
    BY <2>1, <2>2 DEF Quiet, Telling
<1>8. CASE Server(InstallLine)
  <2> DEFINE kind == IF job.at = "installed" THEN "hook" ELSE "other"
  <2>1. Begun(kind)
    BY <1>0, <1>a, <1>8, Zenon DEF InstallLine
  <2>2. phase = "install" /\ phase' = "load" /\ Return /\ UNCHANGED <<filtering, known>>
    BY <1>8, Zenon DEF InstallLine, Goto
  <2>3. holder = "install"
    BY <1>8, Zenon DEF InstallLine
  <2>4. job.at = "installed" => enabled # {}
    BY <2>3 DEF HooksHeld, SessionInv, HookInv, HookTypeOK, Jobs
  <2> QED
    BY <2>1, <2>2, <2>4 DEF Begun, Return, Telling
<1>9. CASE Server(LoadedLine)
  <2>1. /\ Begun("load") /\ phase = "load" /\ phase' = "explain"
        /\ UNCHANGED hookVars /\ UNCHANGED <<filtering, known>>
    BY <1>0, <1>a, <1>9, Zenon DEF LoadedLine, Goto
  <2> QED
    BY <2>1 DEF Begun, hookVars, Telling
<1>10. CASE Server(ExplainLine)
  <2>1. /\ phase = "explain" /\ phase' = "active" /\ ~writing
        /\ UNCHANGED hookVars /\ UNCHANGED <<filtering, known>>
    BY <1>10, Zenon DEF ExplainLine, Goto
  <2>2. CASE filtering /\ ~NoHookAtAll
    <3>1. Quiet
      BY <1>10, <2>2, Zenon DEF ExplainLine, Quiet
    <3> QED
      BY <2>1, <3>1 DEF Quiet, hookVars, Telling
  <2>3. CASE ~filtering
    <3>1. Begun("disabled")
      BY <1>0, <1>a, <1>10, <2>3, Zenon DEF ExplainLine
    <3> QED
      BY <2>1, <2>3, <3>1 DEF Begun, hookVars, Telling
  <2>4. CASE filtering /\ NoHookAtAll
    <3>1. Begun("failure")
      BY <1>0, <1>a, <1>10, <2>4, Zenon DEF ExplainLine
    <3>2. ~context /\ NoTarget
      BY <2>4 DEF NoHookAtAll, NoTarget, Recorded
    <3> QED
      BY <2>1, <3>1, <3>2 DEF Begun, hookVars, Telling, NoTarget
  <2> QED
    BY <2>2, <2>3, <2>4
<1>11. CASE Server(RequestInterface)
  <2>1. Quiet /\ UNCHANGED <<phase, filtering, known, initialized, context, target, enabled>>
    BY <1>11, Zenon DEF RequestInterface, Observe, serverVars, Quiet
  <2> QED
    BY <2>1 DEF Quiet, Telling, NoTarget
<1>12. CASE Server(ObserveLine)
  <2>1. Return /\ holder = "observe" /\ UNCHANGED <<phase, filtering, known>>
    BY <1>12, Zenon DEF ObserveLine
  <2>2. phase \in {"load", "explain", "active", "cleanup"} /\ job \in Jobs
    BY <2>1 DEF SessionInv, HolderInv, PhaseInv, Phases, HookInv, HookTypeOK
  <2>3. CASE job.at = "installed" /\ job.fresh
    <3>1. Begun("hook")
      BY <1>0, <1>a, <1>12, <2>3, Zenon DEF ObserveLine
    <3>2. enabled # {}
      BY <2>1, <2>2, <2>3 DEF HooksHeld, Jobs
    <3> QED
      BY <2>1, <2>2, <3>1, <3>2 DEF Begun, Return, Telling
  <2>4. CASE ~(job.at = "installed" /\ job.fresh)
    <3>1. Quiet
      BY <1>12, <2>4, Zenon DEF ObserveLine, Quiet
    <3> QED
      BY <2>1, <3>1 DEF Quiet, Return, Telling, NoTarget
  <2> QED
    BY <2>3, <2>4
<1>13. CASE Server(IdentifyTracker)
  <2>1. Begun("tracker") /\ phase = "active" /\ known' /\ UNCHANGED <<hookVars, phase, filtering>>
    BY <1>0, <1>a, <1>13, Zenon DEF IdentifyTracker
  <2> QED
    BY <2>1 DEF Begun, hookVars, Telling
<1>14. CASE Server(Cleanup)
  <2>1. /\ phase = "active" /\ phase' = "cleanup" /\ ~writing /\ Quiet
        /\ UNCHANGED <<hookVars, filtering, known>>
    BY <1>14, Zenon DEF Cleanup, Goto, Quiet
  <2> QED
    BY <2>1 DEF Quiet, hookVars, Telling
<1>15. CASE Server(RemoveHooks)
  <2>1. /\ phase = "cleanup" /\ ~writing /\ Quiet /\ UNCHANGED <<filtering, known, initialized>>
        /\ phase' = IF initialized THEN "drained" ELSE "unload"
    BY <1>15, Zenon DEF RemoveHooks, Disable, Goto, Quiet, hookVars
  <2> QED
    BY <2>1 DEF Quiet, Telling
<1>16. CASE Server(FreeHooks)
  <2>1. /\ phase = "drained" /\ phase' = "unload" /\ ~writing /\ Quiet
        /\ initialized' = FALSE /\ UNCHANGED <<filtering, known>>
    BY <1>16, Zenon DEF FreeHooks, Free, Goto, Quiet
  <2> QED
    BY <2>1 DEF Quiet, Telling
<1>17. CASE Server(UnloadedLine)
  <2>1. /\ Begun("unload") /\ phase = "unload" /\ phase' = "idle"
        /\ UNCHANGED <<hookVars, filtering, known>>
    BY <1>0, <1>a, <1>17, Zenon DEF UnloadedLine, Goto
  <2> QED
    BY <2>1 DEF Begun, hookVars, Telling
<1>18. CASE Window(Refresh) \/ Window(ScanFails) \/ Window(FindNoProcess) \/ Window(FindProcess)
            \/ Window(ReadNothing) \/ Window(ReadLog) \/ Window(RefreshFails)
  <2>1. UNCHANGED <<hookVars, serverVars>>
    BY <1>18, Zenon DEF Refresh, ScanFails, FindNoProcess, FindProcess, ReadNothing, ReadLog,
                        RefreshFails, ShowPage
  <2> QED
    BY <2>1 DEF hookVars, serverVars, Telling, NoTarget
<1> QED
  BY <1>1, <1>2, <1>3, <1>4, <1>5, <1>6, <1>7, <1>8, <1>9, <1>10, <1>11, <1>12, <1>13,
     <1>14, <1>15, <1>16, <1>17, <1>18, Zenon DEF Next

(***************************************************************************)
(* What a line does to a summary, as far as the page goes.                 *)
(***************************************************************************)
Same(r, s, fields) == \A f \in fields : r[f] = s[f]

LineRead(r, s, kind) ==
  /\ Shaped(r)
  /\ kind = "other" =>
       Same(r, s, {"loaded", "unloaded", "hook", "pending", "failure", "disabled", "trackers"})
  /\ kind = "hook" =>
       /\ Same(r, s, {"loaded", "unloaded", "disabled", "trackers"})
       /\ r.hook = (s.loaded \/ s.hook) /\ r.pending = (~s.loaded \/ s.pending)
       /\ r.failure = FALSE
  /\ kind = "load" =>
       /\ r.loaded = TRUE /\ r.hook = s.pending /\ r.pending = FALSE
       /\ r.failure = FALSE /\ r.disabled = FALSE /\ r.trackers = {}
  /\ kind = "unload" =>
       /\ r.loaded = FALSE /\ r.unloaded = TRUE /\ r.hook = FALSE /\ r.pending = FALSE
       /\ r.failure = FALSE /\ r.disabled = FALSE
  /\ kind = "disabled" =>
       /\ Same(r, s, {"loaded", "unloaded", "failure", "trackers"})
       /\ r.hook = FALSE /\ r.pending = FALSE /\ r.disabled = TRUE
  /\ kind = "failure" =>
       /\ Same(r, s, {"loaded", "unloaded", "disabled", "trackers"})
       /\ r.hook = FALSE /\ r.pending = FALSE /\ r.failure = TRUE
  /\ kind = "tracker" =>
       /\ Same(r, s, {"loaded", "unloaded", "hook", "pending", "failure", "disabled"})
       /\ s.loaded => r.trackers # {}

LEMMA TrackersFound ==
  ASSUME NEW s, NEW serial, NEW r, TrackersRead(r, s, serial)
  PROVE  r.trackers # {}
<1>1. Cardinality({}) = 0 /\ MaxTrackers \in Nat \ {0}
  BY FS_EmptySet, LogLimits
<1>2. 0 < MaxTrackers
  BY <1>1
<1>3. CASE s.trackers = {}
  BY <1>1, <1>2, <1>3, Zenon DEF TrackersRead
<1>4. CASE s.trackers # {}
  BY <1>4, Zenon DEF TrackersRead
<1> QED
  BY <1>3, <1>4

LEMMA LineReads ==
  ASSUME NEW s, Shaped(s), NEW line, NEW start, ~(line.stamp < start), line.kind \in LineKinds,
         NEW r, r = ReadLine(s, line, start)
  PROVE  LineRead(r, s, line.kind)
<1> DEFINE t == Touched(s)
<1>1. /\ Shaped(t) /\ t.loaded = s.loaded /\ t.unloaded = s.unloaded /\ t.hook = s.hook
      /\ t.pending = s.pending /\ t.failure = s.failure /\ t.disabled = s.disabled
      /\ t.trackers = s.trackers
  BY CurrentIs, Zenon DEF Touched
<1>2. r = Applied(t, line)
  BY ReadIs, Zenon
<1> HIDE DEF t
<1> USE DEF LineRead, Same
<1>3. CASE line.kind = "other"
  <2>1. r = t
    BY <1>2, <1>3, AppliedIs, Zenon
  <2> QED
    BY <1>1, <1>3, <2>1
<1>4. CASE line.kind = "hook"
  <2>1. r = HookSeen(t)
    BY <1>2, <1>4, AppliedIs, Zenon
  <2>2. /\ Shaped(HookSeen(t))
        /\ HookSeen(t).loaded = t.loaded
        /\ HookSeen(t).unloaded = t.unloaded
        /\ HookSeen(t).hook = (t.loaded \/ t.hook)
        /\ HookSeen(t).pending = (~t.loaded \/ t.pending)
        /\ HookSeen(t).failure = FALSE
        /\ HookSeen(t).disabled = t.disabled
        /\ HookSeen(t).trackers = t.trackers
    BY <1>1, HookSeenIs, Zenon
  <2> QED
    BY <1>1, <1>4, <2>1, <2>2
<1>5. CASE line.kind = "load"
  <2>1. r = Loaded(t)
    BY <1>2, <1>5, AppliedIs, Zenon
  <2>2. /\ Shaped(Loaded(t))
        /\ Loaded(t).loaded = TRUE
        /\ Loaded(t).hook = t.pending
        /\ Loaded(t).pending = FALSE
        /\ Loaded(t).failure = FALSE
        /\ Loaded(t).disabled = FALSE
        /\ Loaded(t).trackers = {}
    BY <1>1, LoadedIs, Zenon
  <2> QED
    BY <1>1, <1>5, <2>1, <2>2
<1>6. CASE line.kind = "unload"
  <2>1. r = Unloaded(t)
    BY <1>2, <1>6, AppliedIs, Zenon
  <2>2. /\ Shaped(Unloaded(t))
        /\ Unloaded(t).loaded = FALSE
        /\ Unloaded(t).unloaded = TRUE
        /\ Unloaded(t).hook = FALSE
        /\ Unloaded(t).pending = FALSE
        /\ Unloaded(t).failure = FALSE
        /\ Unloaded(t).disabled = FALSE
    BY <1>1, UnloadedIs, Zenon
  <2> QED
    BY <1>1, <1>6, <2>1, <2>2
<1>7. CASE line.kind = "disabled"
  <2>1. r = Disabled(t)
    BY <1>2, <1>7, AppliedIs, Zenon
  <2>2. /\ Shaped(Disabled(t))
        /\ Disabled(t).loaded = t.loaded
        /\ Disabled(t).unloaded = t.unloaded
        /\ Disabled(t).hook = FALSE
        /\ Disabled(t).pending = FALSE
        /\ Disabled(t).failure = t.failure
        /\ Disabled(t).disabled = TRUE
        /\ Disabled(t).trackers = t.trackers
    BY <1>1, DisabledIs, Zenon
  <2> QED
    BY <1>1, <1>7, <2>1, <2>2
<1>8. CASE line.kind = "failure"
  <2>1. r = Failed(t)
    BY <1>2, <1>8, AppliedIs, Zenon
  <2>2. /\ Shaped(Failed(t))
        /\ Failed(t).loaded = t.loaded
        /\ Failed(t).unloaded = t.unloaded
        /\ Failed(t).hook = FALSE
        /\ Failed(t).pending = FALSE
        /\ Failed(t).failure = TRUE
        /\ Failed(t).disabled = t.disabled
        /\ Failed(t).trackers = t.trackers
    BY <1>1, FailedIs, Zenon
  <2> QED
    BY <1>1, <1>8, <2>1, <2>2
<1>9. CASE line.kind = "tracker" /\ ~t.loaded
  <2>1. r = t
    BY <1>2, <1>9, AppliedIs, Zenon
  <2> QED
    BY <1>1, <1>9, <2>1
<1>10. CASE line.kind = "tracker" /\ t.loaded
  <2>1. r = Identified(t, line.of)
    BY <1>2, <1>10, AppliedIs, Zenon
  <2>2. Shaped(r) /\ \A f \in SummaryFields \ {"trackers", "truncated"} : r[f] = t[f]
    <3>1. /\ Shaped(Identified(t, line.of))
          /\ \A f \in SummaryFields \ {"trackers", "truncated"} : Identified(t, line.of)[f] = t[f]
      BY <1>1, IdentifiedIs, Zenon
    <3> QED
      BY <2>1, <3>1, Zenon
  <2>3. r.trackers # {}
    BY <1>1, <2>1, TrackersAfter, TrackersFound, Zenon
  <2>4. /\ r.loaded = t.loaded /\ r.unloaded = t.unloaded /\ r.hook = t.hook
        /\ r.pending = t.pending /\ r.failure = t.failure /\ r.disabled = t.disabled
    BY <2>2, Zenon DEF SummaryFields
  <2> QED
    BY <1>1, <1>10, <2>2, <2>3, <2>4
<1> QED
  BY <1>3, <1>4, <1>5, <1>6, <1>7, <1>8, <1>9, <1>10, Zenon DEF LineKinds

(***************************************************************************)
(* The summaries of the log's tails, and how they grow.                    *)
(***************************************************************************)
TailsOf(s, start) == {ReadTail(s, from, start) : from \in 1 .. Len(s) + 1}
Whole(start) == ReadTail(Written, 1, start)

\* A line more on every tail, and a new empty tail.
TailsGrow(later, s, line, start) ==
  /\ ReadTail(later, 1, start) = ReadLine(ReadTail(s, 1, start), line, start)
  /\ \A r \in TailsOf(later, start) :
       r = NoSummary \/ \E q \in TailsOf(s, start) : r = ReadLine(q, line, start)

LEMMA TailsGrown ==
  ASSUME NEW S, NEW s \in Seq(S), NEW line \in S, NEW start, NEW later, later = Append(s, line)
  PROVE  TailsGrow(later, s, line, start)
<1>1. Longer(later, s, line, start)
  BY LaterTails, Zenon
<1>2. ASSUME NEW r \in TailsOf(later, start)
      PROVE  r = NoSummary \/ \E q \in TailsOf(s, start) : r = ReadLine(q, line, start)
  <2>1. PICK from \in 1 .. Len(later) + 1 : r = ReadTail(later, from, start)
    BY <1>2, Zenon DEF TailsOf
  <2>2. CASE r = NoSummary
    BY <2>2
  <2>3. CASE /\ from \in 1 .. Len(s) + 1
             /\ ReadTail(later, from, start) = ReadLine(ReadTail(s, from, start), line, start)
    BY <2>1, <2>3, Zenon DEF TailsOf
  <2> QED
    BY <1>1, <2>1, <2>2, <2>3, Zenon DEF Longer
<1> QED
  BY <1>1, <1>2, Zenon DEF TailsGrow, Longer

LEMMA WholeIsTail ==
  ASSUME NEW S, NEW s \in Seq(S), NEW start
  PROVE  ReadTail(s, 1, start) \in TailsOf(s, start)
<1>1. 1 \in 1 .. Len(s) + 1
  BY LenProperties
<1> QED
  BY <1>1, Zenon DEF TailsOf

LEMMA EmptyTails ==
  ASSUME NEW start
  PROVE  TailsOf(<<>>, start) = {NoSummary} /\ ReadTail(<<>>, 1, start) = NoSummary
<1>1. <<>> \in Seq({}) /\ Len(<<>>) + 1 = 1
  OBVIOUS
<1>2. ReadTail(<<>>, 1, start) = NoSummary
  BY <1>1, TailNone
<1>3. 1 .. Len(<<>>) + 1 = {1}
  BY <1>1
<1> QED
  BY <1>2, <1>3, Zenon DEF TailsOf

\* No process finds lines of its own before those of an earlier one.
OldStamps ==
  \A q \in 0 .. process : \A i \in 1 .. Len(Written) :
    Written[i].stamp <= 2 * q => \A j \in 1 .. i : Written[j].stamp < 2 * q

LEMMA StampsFit ==
  ASSUME LogInv, NEW i \in 1 .. Len(Written) PROVE Written[i].stamp \in 1 .. Stamp
<1>1. Written[i] \in LogLines(Stamp)
  BY WrittenFits, ElementOfSeq, LenProperties
<1>2. PICK stamp \in 1 .. Stamp, kind \in LineKinds : Written[i] = Line(stamp, kind)
  BY <1>1 DEF LogLines
<1> QED
  BY <1>2, LineIs

LEMMA OldStampsKept ==
  ASSUME LogInv, OldStamps, WrittenStep PROVE OldStamps'
<1> DEFINE s == Written
<1>1. process \in Nat /\ s \in Seq(LogLines(Stamp)) /\ Len(s) \in Nat
  BY WrittenFits, LenProperties, SessionBounds DEF LogInv
<1>2. \A i \in 1 .. Len(s) : s[i].stamp \in 1 .. 2 * process + 1
  BY StampsFit DEF Stamp
<1>3. CASE process' = process /\ Written' = Written
  BY <1>3, Zenon DEF OldStamps
<1>4. CASE /\ process' = process
           /\ \E kind \in LineKinds : Written' = Append(Written, Line(Stamp, kind))
  <2>1. PICK kind \in LineKinds : Written' = Append(s, Line(Stamp, kind))
    BY <1>4
  <2>2. Line(Stamp, kind) \in LogLines(Stamp)
    BY <1>1, LineFits DEF Stamp
  <2> DEFINE r == Written'
  <2>3. Len(r) = Len(s) + 1 /\ r[Len(s) + 1] = Line(Stamp, kind)
          /\ \A i \in 1 .. Len(s) : r[i] = s[i]
    BY <1>1, <2>1, <2>2, AppendProperties
  <2>4. r[Len(s) + 1].stamp = 2 * process + 1
    BY <2>3, LineIs DEF Stamp
  <2>5. \A q \in 0 .. process : \A i \in 1 .. Len(s) :
          s[i].stamp <= 2 * q => \A j \in 1 .. i : s[j].stamp < 2 * q
    BY DEF OldStamps
  <2> HIDE DEF r, s
  <2> SUFFICES ASSUME NEW q \in 0 .. process, NEW i \in 1 .. Len(r), r[i].stamp <= 2 * q,
                      NEW j \in 1 .. i
               PROVE  r[j].stamp < 2 * q
    BY <1>4, Zenon DEF OldStamps, r
  <2>6. i # Len(s) + 1
    BY <1>1, <2>4
  <2>7. i \in 1 .. Len(s) /\ j \in 1 .. Len(s)
    BY <1>1, <2>3, <2>6
  <2> QED
    BY <2>3, <2>5, <2>7
<1>5. CASE process' = process + 1 /\ Written' = Written
  <2>1. \A q \in 0 .. process : \A i \in 1 .. Len(s) :
          s[i].stamp <= 2 * q => \A j \in 1 .. i : s[j].stamp < 2 * q
    BY DEF OldStamps
  <2> HIDE DEF s
  <2>2. ASSUME NEW q \in 0 .. process + 1, NEW i \in 1 .. Len(s), s[i].stamp <= 2 * q,
               NEW j \in 1 .. i
        PROVE  s[j].stamp < 2 * q
    <3>1. CASE q \in 0 .. process
      BY <2>1, <2>2, <3>1
    <3>2. CASE q = process + 1
      <4>1. j \in 1 .. Len(s)
        BY <1>1
      <4>2. s[j].stamp \in 1 .. 2 * process + 1
        BY <1>2, <4>1
      <4> QED
        BY <1>1, <3>2, <4>2
    <3> QED
      BY <1>1, <3>1, <3>2
  <2> QED
    BY <1>5, <2>2, Zenon DEF OldStamps, s
<1>6. CASE Written' = <<>>
  <2>1. 1 .. Len(<<>>) = {}
    OBVIOUS
  <2> QED
    BY <1>6, <2>1, Zenon DEF OldStamps
<1> QED
  BY <1>3, <1>4, <1>5, <1>6, Zenon DEF WrittenStep

(***************************************************************************)
(* What any tail of the log says of the present process, and what the whole *)
(* log says, still holds of the driver, or it is being unloaded.            *)
(***************************************************************************)
Disabling == phase = "active" /\ ~filtering
Failing == phase = "active" /\ ~context /\ NoTarget
Live == phase \in {"load", "explain", "active"} /\ Announced /\ ~Telling("hook")

Fits(s) ==
  /\ Shaped(s)
  /\ s.loaded => InForce \/ Unloading
  /\ s.hook \/ s.pending => enabled # {} \/ Unloading
  /\ s.disabled => Disabling \/ Unloading
  /\ s.failure => Failing \/ Unloading
  /\ s.loaded /\ s.trackers # {} => known \/ Unloading
  /\ s.loaded /\ known /\ ~Telling("tracker") => s.trackers # {}
  /\ InForce => s.loaded \/ ~s.unloaded

WholeFits(w) ==
  /\ InForce => w.loaded
  /\ Live => IF w.loaded THEN w.hook ELSE w.pending

LogFits ==
  phase # "none" =>
    (\A s \in TailsOf(Written, Began) : Fits(s)) /\ (\A w \in {Whole(Began)} : WholeFits(w))

\* No step but the end of a line or of the process takes anything back.
GoesOn ==
  /\ phase' # "none" => phase # "none"
  /\ Unloading => Unloading'
  /\ InForce => InForce' \/ Unloading'
  /\ enabled # {} => enabled' # {} \/ Unloading'
  /\ Disabling => Disabling' \/ Unloading'
  /\ Failing => Failing' \/ Unloading'
  /\ known => known' \/ ~(InForce \/ Unloading)
  /\ known' /\ ~Telling("tracker")' => known /\ ~Telling("tracker")
  /\ InForce' => InForce
  /\ Live' => Live

LEMMA StillFits ==
  ASSUME GoesOn
  PROVE  /\ \A s : Fits(s) => Fits(s)'
         /\ \A w : WholeFits(w) => WholeFits(w)'
<1>1. ASSUME NEW s, Fits(s) PROVE Fits(s)'
  BY <1>1, Zenon DEF Fits, GoesOn
<1>2. ASSUME NEW w, WholeFits(w) PROVE WholeFits(w)'
  BY <1>2, Zenon DEF WholeFits, GoesOn
<1> QED
  BY <1>1, <1>2, Zenon

LEMMA FitsRead ==
  ASSUME DriverHeld, HooksHeld, NEW kind \in LineKinds, FinishLine, Telling(kind),
         NEW s, NEW r, LineRead(r, s, kind), Fits(s)
  PROVE  Fits(r)' /\ (WholeFits(s) => WholeFits(r)')
<1> USE DEF Fits, WholeFits, DriverHeld, LineRead, Same, Telling, InForce, Unloading, Disabling,
            Failing, Live
<1>1. /\ UNCHANGED <<phase, filtering, known, enabled, context, target, holder, job, log>>
      /\ writing /\ writing' = FALSE
  BY DEF FinishLine, hookVars
<1>2. NoTarget' = NoTarget /\ Announced' = Announced
  BY <1>1 DEF NoTarget, Announced
<1>3. NoTarget => ~Announced
  BY DEF NoTarget, Announced
<1>4. CASE kind = "other"
  BY <1>1, <1>2, <1>4
<1>5. CASE kind = "hook"
  BY <1>1, <1>2, <1>5
<1>6. CASE kind = "load"
  BY <1>1, <1>2, <1>6
<1>7. CASE kind = "unload"
  BY <1>1, <1>2, <1>7
<1>8. CASE kind = "disabled"
  BY <1>1, <1>2, <1>3, <1>8 DEF HooksHeld
<1>9. CASE kind = "failure"
  BY <1>1, <1>2, <1>3, <1>9
<1>10. CASE kind = "tracker"
  BY <1>1, <1>2, <1>10
<1> QED
  BY <1>4, <1>5, <1>6, <1>7, <1>8, <1>9, <1>10 DEF LineKinds

LEMMA NoSummaryFacts ==
  /\ Shaped(NoSummary) /\ NoSummary.loaded = FALSE /\ NoSummary.unloaded = FALSE
  /\ NoSummary.hook = FALSE /\ NoSummary.pending = FALSE /\ NoSummary.failure = FALSE
  /\ NoSummary.disabled = FALSE /\ NoSummary.trackers = {}
  BY NoSummaryShaped, Zenon DEF NoSummary

LEMMA NothingFits == Fits(NoSummary)
  BY NoSummaryFacts, Zenon DEF Fits

LEMMA NothingFitsLater == Fits(NoSummary)'
  BY NoSummaryFacts, Zenon DEF Fits

\* Announced changes with the line that announces it.
LEMMA AnnouncedUnder ==
  ASSUME HookInv, HooksHeld, InstallPoseHook, holder = "observe"
  PROVE  Announced' => Announced
<1> USE DEF HookInv, HookTypeOK
<1> SUFFICES ASSUME Announced' PROVE Announced
  OBVIOUS
<1>1. PICK v \in Versions : target'[v] # None /\ ~(holder' = "observe" /\ job'.version = v
             /\ job'.fresh)
  BY DEF Announced
<1>2. /\ holder' = holder /\ job \in Jobs /\ job.at # "none"
      /\ \E at \in {"failed", "installed", "enable", "record"} : job' = [job EXCEPT !.at = at]
      /\ target' = target \/ target' = [target EXCEPT ![job.version] = job.target]
  BY DEF InstallPoseHook, Refuse, Share, CreateHook, EnableHook, RecordTarget, Ended
<1>3. job'.version = job.version /\ job'.fresh = job.fresh /\ job.version \in Versions
  BY <1>2 DEF Jobs
<1>4. CASE v # job.version
  <2>1. target'[v] = target[v]
    BY <1>2, <1>4
  <2> QED
    BY <1>1, <1>4, <2>1 DEF Announced
<1>5. CASE v = job.version
  <2>1. ~job.fresh
    BY <1>1, <1>2, <1>3, <1>5
  <2>2. target[v] # None
    BY <1>5, <2>1 DEF HooksHeld
  <2> QED
    BY <1>5, <2>1, <2>2 DEF Announced
<1> QED
  BY <1>4, <1>5

LEMMA DriverGoesOn ==
  ASSUME SessionInv, HooksHeld, DriverHeld, Next
  PROVE  GoesOn \/ FinishLine \/ Die \/ StartVrServer
<1> USE DEF Server, Window, DriverHeld
<1>0. ASSUME NEW kind \in LineKinds, Write(kind), process' = process PROVE Begun(kind)
  BY <1>0, WriteTells DEF SessionInv, Begun
<1>a. /\ "other" \in LineKinds /\ "hook" \in LineKinds /\ "load" \in LineKinds
      /\ "failure" \in LineKinds /\ "disabled" \in LineKinds
      /\ "tracker" \in LineKinds /\ "unload" \in LineKinds
  BY DEF LineKinds
<1>b. ASSUME UNCHANGED hookVars PROVE Announced' = Announced /\ NoTarget' = NoTarget
  BY <1>b DEF hookVars, Announced, NoTarget
<1>c. NoTarget => ~Announced
  BY DEF NoTarget, Announced
<1> USE DEF GoesOn, InForce, Unloading, Disabling, Failing, Live, Telling
<1>1. CASE Server(FinishLine) \/ Server(StartVrServer) \/ Server(Die)
  BY <1>1, Zenon
<1>3. CASE Server(FirstLine)
  <2>1. Begun("other") /\ UNCHANGED hookVars /\ UNCHANGED <<phase, filtering, known>>
    BY <1>0, <1>a, <1>3, Zenon DEF FirstLine
  <2> QED
    BY <1>b, <2>1 DEF Begun, hookVars
<1>5. CASE Server(LoadDriver)
  <2>1. /\ phase = "idle" /\ ~writing /\ Quiet /\ UNCHANGED hookVars
        /\ known' = FALSE /\ phase' = IF filtering' THEN "install" ELSE "load"
    BY <1>5, Zenon DEF LoadDriver, Goto, Quiet
  <2> QED
    BY <1>b, <1>c, <2>1 DEF Quiet, hookVars, HooksHeld
<1>6. CASE Server(BeginInstall)
  <2>1. /\ phase = "install" /\ StartInstall /\ Quiet /\ UNCHANGED <<phase, filtering, known>>
    BY <1>6, Zenon DEF BeginInstall, serverVars, Quiet
  <2> QED
    BY <2>1 DEF Quiet, StartInstall
<1>7. CASE Server(GoOnInstalling)
  <2>1. /\ ~writing /\ Quiet /\ UNCHANGED <<phase, filtering, known>>
        /\ InstallPoseHook \/ (phase = "install" /\ InstallContextHook)
    BY <1>7, Zenon DEF GoOnInstalling, serverVars, Quiet
  <2>2. CASE phase = "install"
    <3>1. enabled # {} => enabled' # {}
      BY <2>1 DEF InstallPoseHook, Refuse, Share, CreateHook, EnableHook, RecordTarget,
                  InstallContextHook
    <3> QED
      BY <2>1, <2>2, <3>1 DEF Quiet
  <2>3. CASE phase # "install"
    <3>1. InstallPoseHook /\ holder = "observe" /\ context
      <4>1. InstallPoseHook /\ job.at # "none"
        BY <2>1, <2>3 DEF InstallPoseHook, Refuse, Share, CreateHook, EnableHook, RecordTarget
      <4>2. holder = "observe"
        BY <2>3, <4>1 DEF SessionInv, HookInv, JobUnderWay, HolderInv, PhaseInv, Phases
      <4> QED
        BY <4>1, <4>2 DEF HooksHeld
    <3>2. Announced' => Announced
      BY <3>1, AnnouncedUnder DEF SessionInv
    <3>3. enabled # {} => enabled' # {}
      BY <3>1 DEF InstallPoseHook, Refuse, Share, CreateHook, EnableHook, RecordTarget
    <3> QED
      BY <2>1, <3>1, <3>2, <3>3 DEF Quiet
  <2> QED
    BY <2>2, <2>3
<1>8. CASE Server(InstallLine)
  <2> DEFINE kind == IF job.at = "installed" THEN "hook" ELSE "other"
  <2>1. Begun(kind)
    BY <1>0, <1>a, <1>8, Zenon DEF InstallLine
  <2>2. phase = "install" /\ phase' = "load" /\ Return /\ UNCHANGED <<filtering, known>>
    BY <1>8, Zenon DEF InstallLine, Goto
  <2>3. holder = "install"
    BY <1>8, Zenon DEF InstallLine
  <2>4. job.at # "installed" => ~Announced'
    BY <2>2, <2>3 DEF HooksHeld, NoTarget, Announced, Return
  <2> QED
    BY <2>1, <2>2, <2>4 DEF Begun, Return
<1>9. CASE Server(LoadedLine)
  <2>1. /\ Begun("load") /\ phase = "load" /\ phase' = "explain"
        /\ UNCHANGED hookVars /\ UNCHANGED <<filtering, known>>
    BY <1>0, <1>a, <1>9, Zenon DEF LoadedLine, Goto
  <2> QED
    BY <1>b, <2>1 DEF Begun, hookVars
<1>10. CASE Server(ExplainLine)
  <2>1. /\ phase = "explain" /\ phase' = "active" /\ ~writing
        /\ UNCHANGED hookVars /\ UNCHANGED <<filtering, known>>
    BY <1>10, Zenon DEF ExplainLine, Goto
  <2>2. CASE filtering /\ ~NoHookAtAll
    <3>1. Quiet
      BY <1>10, <2>2, Zenon DEF ExplainLine, Quiet
    <3> QED
      BY <1>b, <2>1, <3>1 DEF Quiet, hookVars
  <2>3. CASE ~(filtering /\ ~NoHookAtAll)
    <3>1. Begun("disabled") \/ Begun("failure")
      BY <1>0, <1>a, <1>10, <2>3, Zenon DEF ExplainLine
    <3> QED
      BY <1>b, <2>1, <2>3, <3>1 DEF Begun, hookVars
  <2> QED
    BY <2>2, <2>3
<1>11. CASE Server(RequestInterface)
  <2>1. /\ Quiet /\ UNCHANGED <<phase, filtering, known, initialized, context, target, enabled>>
        /\ \E v \in Versions, t \in Targets : Observe(v, t)
    BY <1>11, Zenon DEF RequestInterface, Observe, serverVars, Quiet
  <2>2. holder = "nobody" /\ context
    BY <2>1 DEF Observe
  <2>3. (Announced' => Announced) /\ NoTarget' = NoTarget
    BY <2>1, <2>2 DEF Announced, NoTarget
  <2> QED
    BY <2>1, <2>2, <2>3 DEF Quiet
<1>12. CASE Server(ObserveLine)
  <2>1. Return /\ holder = "observe" /\ UNCHANGED <<phase, filtering, known>>
    BY <1>12, Zenon DEF ObserveLine
  <2>2. context /\ job \in Jobs /\ initialized /\ job.at # "none"
    BY <2>1 DEF HooksHeld, SessionInv, HookInv, HookTypeOK
  <2>3. CASE job.at = "installed" /\ job.fresh
    <3>1. Begun("hook")
      BY <1>0, <1>a, <1>12, <2>3, Zenon DEF ObserveLine
    <3> QED
      BY <2>1, <2>2, <3>1 DEF Begun, Return
  <2>4. CASE ~(job.at = "installed" /\ job.fresh)
    <3>1. Quiet
      BY <1>12, <2>4, Zenon DEF ObserveLine, Quiet
    <3>2. job.fresh => target[job.version] = None
      BY <2>2, <2>4 DEF HooksHeld, Jobs
    <3>3. Announced' => Announced
      BY <2>1, <3>2 DEF Announced, Return
    <3> QED
      BY <2>1, <2>2, <3>1, <3>3 DEF Quiet, Return
  <2> QED
    BY <2>3, <2>4
<1>13. CASE Server(IdentifyTracker)
  <2>1. Begun("tracker") /\ phase = "active" /\ known' /\ UNCHANGED <<hookVars, phase, filtering>>
    BY <1>0, <1>a, <1>13, Zenon DEF IdentifyTracker
  <2> QED
    BY <1>b, <2>1 DEF Begun, hookVars
<1>14. CASE Server(Cleanup)
  <2>1. /\ phase = "active" /\ phase' = "cleanup" /\ ~writing /\ Quiet
        /\ UNCHANGED <<hookVars, filtering, known>>
    BY <1>14, Zenon DEF Cleanup, Goto, Quiet
  <2> QED
    BY <1>b, <2>1 DEF Quiet, hookVars
<1>15. CASE Server(RemoveHooks)
  <2>1. /\ phase = "cleanup" /\ ~writing /\ Quiet /\ UNCHANGED <<filtering, known, initialized>>
        /\ phase' = IF initialized THEN "drained" ELSE "unload"
    BY <1>15, Zenon DEF RemoveHooks, Disable, Goto, Quiet, hookVars
  <2> QED
    BY <2>1 DEF Quiet
<1>16. CASE Server(FreeHooks)
  <2>1. /\ phase = "drained" /\ phase' = "unload" /\ ~writing /\ Quiet
        /\ initialized' = FALSE /\ UNCHANGED <<filtering, known>>
    BY <1>16, Zenon DEF FreeHooks, Free, Goto, Quiet
  <2> QED
    BY <2>1 DEF Quiet
<1>17. CASE Server(UnloadedLine)
  <2>1. /\ Begun("unload") /\ phase = "unload" /\ phase' = "idle"
        /\ UNCHANGED <<hookVars, filtering, known>>
    BY <1>0, <1>a, <1>17, Zenon DEF UnloadedLine, Goto
  <2> QED
    BY <1>b, <2>1 DEF Begun, hookVars
<1>18. CASE Window(Refresh) \/ Window(ScanFails) \/ Window(FindNoProcess) \/ Window(FindProcess)
            \/ Window(ReadNothing) \/ Window(ReadLog) \/ Window(RefreshFails)
  <2>1. UNCHANGED <<hookVars, serverVars>>
    BY <1>18, Zenon DEF Refresh, ScanFails, FindNoProcess, FindProcess, ReadNothing, ReadLog,
                        RefreshFails, ShowPage
  <2> QED
    BY <1>b, <2>1 DEF hookVars, serverVars
<1> QED
  BY <1>1, <1>3, <1>5, <1>6, <1>7, <1>8, <1>9, <1>10, <1>11, <1>12, <1>13,
     <1>14, <1>15, <1>16, <1>17, <1>18, Zenon DEF Next

\* All tails of a log of old lines say nothing.
LEMMA NewTails ==
  ASSUME LogInv, StartVrServer, Written' \in {Written, <<>>}, process' = process + 1
  PROVE  TailsOf(Written', Began') = {NoSummary} /\ ReadTail(Written', 1, Began') = NoSummary
<1> DEFINE s == Written
           start == Began'
<1>1. CASE Written' = <<>>
  BY <1>1, EmptyTails, Zenon
<1>2. CASE Written' = Written
  <2>1. process \in Nat /\ s \in Seq(LogLines(Stamp)) /\ Len(s) \in Nat
    BY WrittenFits, LenProperties, SessionBounds DEF LogInv
  <2>2. start = 2 * (process + 1)
    BY DEF Began
  <2>3. ASSUME NEW i \in 1 .. Len(s) PROVE s[i].stamp < start
    <3>1. s[i].stamp \in 1 .. 2 * process + 1
      BY StampsFit DEF Stamp
    <3> QED
      BY <2>1, <2>2, <3>1
  <2> HIDE DEF s, start
  <2>4. \A from \in 1 .. Len(s) + 1 : ReadTail(s, from, start) = NoSummary
    BY <2>1, <2>3, OldTail
  <2>5. 1 \in 1 .. Len(s) + 1
    BY <2>1
  <2>6. TailsOf(s, start) = {NoSummary} /\ ReadTail(s, 1, start) = NoSummary
    BY <2>4, <2>5, Zenon DEF TailsOf
  <2> QED
    BY <1>2, <2>6, Zenon DEF s, start
<1> QED
  BY <1>1, <1>2

\* A line of the present process is not older than any start.
LEMMA NewLine ==
  ASSUME LogInv, NEW kind \in LineKinds, NEW start \in 0 .. Began
  PROVE  /\ Written \in Seq(LogLines(Stamp)) /\ Line(Stamp, kind) \in LogLines(Stamp)
         /\ ~(Line(Stamp, kind).stamp < start) /\ Line(Stamp, kind).kind = kind
<1>1. process \in Nat
  BY SessionBounds DEF LogInv
<1>2. Stamp \in Nat /\ Stamp > 0 /\ ~(Stamp < start)
  BY <1>1 DEF Stamp, Began
<1> QED
  BY <1>2, WrittenFits, LineFits, LineIs

\* The tails after one more line of the present process.
Grown(later, kind, start) ==
  /\ \A r \in TailsOf(later, start) :
       r = NoSummary \/ \E q \in TailsOf(Written, start) : Shaped(q) => LineRead(r, q, kind)
  /\ Whole(start) \in TailsOf(Written, start)
  /\ Shaped(Whole(start)) => LineRead(ReadTail(later, 1, start), Whole(start), kind)

LEMMA LineGrows ==
  ASSUME LogInv, NEW kind \in LineKinds, NEW start \in 0 .. Began,
         NEW later, later = Append(Written, Line(Stamp, kind))
  PROVE  Grown(later, kind, start)
<1> DEFINE line == Line(Stamp, kind)
<1>1. /\ Written \in Seq(LogLines(Stamp)) /\ line \in LogLines(Stamp)
      /\ ~(line.stamp < start) /\ line.kind = kind
  BY NewLine
<1>2. later = Append(Written, line)
  OBVIOUS
<1> HIDE DEF line
<1>3. TailsGrow(later, Written, line, start)
  BY <1>1, <1>2, TailsGrown, Zenon
<1>4. ASSUME NEW q, NEW r, r = ReadLine(q, line, start), Shaped(q) PROVE LineRead(r, q, kind)
  BY <1>1, <1>4, LineReads, Zenon
<1>5. Whole(start) \in TailsOf(Written, start)
  BY <1>1, WholeIsTail, Zenon DEF Whole
<1> QED
  BY <1>3, <1>4, <1>5, Zenon DEF TailsGrow, Grown, Whole

LEMMA LogFitsInit == Init => LogFits
  BY Zenon DEF Init, LogFits

LEMMA LogFitsStep ==
  ASSUME SessionInv, HooksHeld, DriverHeld, LineUnderWay, LogFits, Next
  PROVE  LogFits'
<1>1. LogInv /\ PhaseInv /\ process \in Nat
  BY SessionBounds DEF SessionInv, LogInv
<1>2. WrittenStep /\ (GoesOn \/ FinishLine \/ Die \/ StartVrServer)
  BY <1>1, WrittenSteps, DriverGoesOn, Zenon
<1>3. CASE Die
  BY <1>3, Zenon DEF Die, LogFits
<1>4. CASE StartVrServer /\ process' = process + 1 /\ Written' \in {Written, <<>>}
  <2>1. TailsOf(Written', Began') = {NoSummary} /\ ReadTail(Written', 1, Began') = NoSummary
    BY <1>1, <1>4, NewTails
  <2>2. phase' = "idle"
    BY <1>4, Zenon DEF StartVrServer
  <2>3. \A w \in {NoSummary} : WholeFits(w)'
    <3>1. ~InForce' /\ ~Live'
      BY <2>2 DEF InForce, Live
    <3> QED
      BY <3>1, Zenon DEF WholeFits
  <2>4. \A s \in {NoSummary} : Fits(s)'
    BY NothingFitsLater, Zenon
  <2> QED
    BY <2>1, <2>3, <2>4, Zenon DEF LogFits, Whole
<1>5. CASE process' = process /\ Written' = Written /\ GoesOn
  <2> SUFFICES ASSUME phase' # "none" PROVE LogFits'
    BY Zenon DEF LogFits
  <2>1. Began' = Began /\ phase # "none"
    BY <1>5, Zenon DEF Began, GoesOn
  <2>2. (\A s : Fits(s) => Fits(s)') /\ (\A w : WholeFits(w) => WholeFits(w)')
    BY <1>5, StillFits, Zenon
  <2>3. TailsOf(Written', Began') = TailsOf(Written, Began) /\ Whole(Began)' = Whole(Began)
    BY <1>5, <2>1, Zenon DEF Whole
  <2> QED
    BY <2>1, <2>2, <2>3, Zenon DEF LogFits
<1>6. CASE process' = process /\ \E kind \in LineKinds :
             Written' = Append(Written, Line(Stamp, kind)) /\ FinishLine /\ Telling(kind)
  <2>1. PICK kind \in LineKinds :
          Written' = Append(Written, Line(Stamp, kind)) /\ FinishLine /\ Telling(kind)
    BY <1>6, Zenon
  <2>2. Began' = Began /\ Began \in 0 .. Began /\ phase' = phase
    BY <1>1, <1>6, <2>1 DEF Began, FinishLine
  <2>3. Grown(Written', kind, Began)
    BY <1>1, <2>1, <2>2, LineGrows, Zenon
  <2> SUFFICES ASSUME phase # "none" PROVE LogFits'
    BY <2>2, Zenon DEF LogFits
  <2>4. (\A s \in TailsOf(Written, Began) : Fits(s)) /\ WholeFits(Whole(Began))
    BY Zenon DEF LogFits
  <2>5. ASSUME NEW r \in TailsOf(Written', Began) PROVE Fits(r)'
    <3>1. CASE r = NoSummary
      BY <3>1, NothingFitsLater, Zenon
    <3>2. CASE \E q \in TailsOf(Written, Began) : Shaped(q) => LineRead(r, q, kind)
      <4>1. PICK q \in TailsOf(Written, Began) : Shaped(q) => LineRead(r, q, kind)
        BY <3>2
      <4>2. Fits(q) /\ Shaped(q)
        BY <2>4, Zenon DEF Fits
      <4> QED
        BY <2>1, <4>1, <4>2, FitsRead, Zenon
    <3> QED
      BY <2>3, <2>5, <3>1, <3>2, Zenon DEF Grown
  <2>6. ASSUME NEW r, r = ReadTail(Written', 1, Began) PROVE WholeFits(r)'
    <3>1. PICK w : w = Whole(Began)
      OBVIOUS
    <3>2. Fits(w) /\ Shaped(w) /\ WholeFits(w)
      BY <2>3, <2>4, <3>1, Zenon DEF Grown, Fits
    <3>3. LineRead(r, w, kind)
      BY <2>3, <2>6, <3>1, <3>2, Zenon DEF Grown
    <3> QED
      BY <2>1, <3>2, <3>3, FitsRead, Zenon
  <2> QED
    BY <2>2, <2>5, <2>6, Zenon DEF LogFits, Whole
<1>7. CASE process' = process /\ Written' = Written /\ ~FinishLine
  <2>1. ~StartVrServer
    BY <1>1, <1>7 DEF StartVrServer
  <2> QED
    BY <1>2, <1>3, <1>5, <1>7, <2>1, Zenon
<1> QED
  BY <1>2, <1>3, <1>4, <1>6, <1>7, Zenon DEF WrittenStep

(***************************************************************************)
(* What is the case, and what the window remembers of it.                  *)
(***************************************************************************)
WindowFacts == {"running", "loaded", "hook", "disabled", "recognised"}

LEMMA FactHas ==
  ASSUME NEW settled \in BOOLEAN, NEW possible \in BOOLEAN
  PROVE  /\ TRUE \in Fact(settled, possible) <=> settled \/ possible \/ Unloading
         /\ FALSE \in Fact(settled, possible) <=> ~settled \/ Unloading
         /\ Fact(settled, possible) \in (SUBSET BOOLEAN) \ {{}}
<1>1. CASE settled /\ ~Unloading
  <2>1. Fact(settled, possible) = {TRUE}
    BY <1>1, Zenon DEF Fact
  <2> QED
    BY <1>1, <2>1
<1>2. CASE ~(settled /\ ~Unloading) /\ (possible \/ Unloading)
  <2>1. Fact(settled, possible) = BOOLEAN
    BY <1>2, Zenon DEF Fact
  <2> QED
    BY <1>2, <2>1
<1>3. CASE ~(settled /\ ~Unloading) /\ ~(possible \/ Unloading)
  <2>1. Fact(settled, possible) = {FALSE}
    BY <1>3, Zenon DEF Fact
  <2> QED
    BY <1>3, <2>1
<1> QED
  BY <1>1, <1>2, <1>3

LEMMA TruthHas ==
  ASSUME known \in BOOLEAN
  PROVE
  /\ DOMAIN Truth = WindowFacts /\ \A f \in WindowFacts : Truth[f] \in (SUBSET BOOLEAN) \ {{}}
  /\ Truth.running = {phase # "none"}
  /\ TRUE \in Truth.loaded <=> InForce \/ (phase = "load" \/ Telling("load")) \/ Unloading
  /\ FALSE \in Truth.loaded <=> ~InForce \/ Unloading
  /\ TRUE \in Truth.hook <=> (InForce /\ Announced /\ ~Telling("hook")) \/ enabled # {} \/ Unloading
  /\ FALSE \in Truth.hook <=> ~(InForce /\ Announced /\ ~Telling("hook")) \/ Unloading
  /\ TRUE \in Truth.disabled <=>
       (phase = "active" /\ ~filtering /\ ~writing) \/ (~filtering /\ phase # "idle") \/ Unloading
  /\ TRUE \in Truth.recognised <=> (known /\ ~writing) \/ known \/ Unloading
  /\ FALSE \in Truth.recognised <=> ~(known /\ ~writing) \/ Unloading
<1> DEFINE a == InForce
           b == phase = "load" \/ Telling("load")
           c == InForce /\ Announced /\ ~Telling("hook")
           d == enabled # {}
           e == phase = "active" /\ ~filtering /\ ~writing
           g == ~filtering /\ phase # "idle"
           h == known /\ ~writing
           k == known
<1>1. a \in BOOLEAN /\ b \in BOOLEAN /\ c \in BOOLEAN /\ d \in BOOLEAN
  BY Zenon DEF InForce
<1>2. e \in BOOLEAN /\ g \in BOOLEAN /\ h \in BOOLEAN /\ k \in BOOLEAN
  BY Zenon
<1>3. DOMAIN Truth = WindowFacts /\ Truth.running = {phase # "none"}
  BY Zenon DEF Truth, WindowFacts
<1>4. /\ Truth.loaded = Fact(a, b) /\ Truth.hook = Fact(c, d) /\ Truth.disabled = Fact(e, g)
      /\ Truth.recognised = Fact(h, k)
  BY Zenon DEF Truth
<1>5. /\ TRUE \in Fact(a, b) <=> a \/ b \/ Unloading
      /\ FALSE \in Fact(a, b) <=> ~a \/ Unloading
      /\ Fact(a, b) \in (SUBSET BOOLEAN) \ {{}}
  BY <1>1, FactHas
<1>6. /\ TRUE \in Fact(c, d) <=> c \/ d \/ Unloading
      /\ FALSE \in Fact(c, d) <=> ~c \/ Unloading
      /\ Fact(c, d) \in (SUBSET BOOLEAN) \ {{}}
  BY <1>1, FactHas
<1>7. /\ TRUE \in Fact(e, g) <=> e \/ g \/ Unloading
      /\ Fact(e, g) \in (SUBSET BOOLEAN) \ {{}}
  BY <1>2, FactHas
<1>8. /\ TRUE \in Fact(h, k) <=> h \/ k \/ Unloading
      /\ FALSE \in Fact(h, k) <=> ~h \/ Unloading
      /\ Fact(h, k) \in (SUBSET BOOLEAN) \ {{}}
  BY <1>2, FactHas
<1>9. {phase # "none"} \in (SUBSET BOOLEAN) \ {{}}
  OBVIOUS
<1>10. \A f \in WindowFacts : Truth[f] \in (SUBSET BOOLEAN) \ {{}}
  BY <1>3, <1>4, <1>5, <1>6, <1>7, <1>8, <1>9, Zenon DEF WindowFacts
<1> QED
  BY <1>3, <1>4, <1>5, <1>6, <1>7, <1>8, <1>10, Zenon

\* While it looks it remembers at least what is the case, otherwise just that.
SeenInv ==
  /\ DOMAIN seen = WindowFacts
  /\ IF window.at = "idle" THEN seen = Truth ELSE \A f \in WindowFacts : Truth[f] \subseteq seen[f]

LEMMA Remembering == Next => Remember
  BY Zenon DEF Next, Server, Window

LEMMA SeenInit == Init => SeenInv
<1> SUFFICES ASSUME Init PROVE SeenInv
  OBVIOUS
<1>1. window.at = "idle"
  BY DEF Init, Closed
<1>2. /\ phase = "none" /\ writing = FALSE /\ enabled = {} /\ filtering = TRUE /\ known = FALSE
  BY DEF Init, Unhooked
<1>3. ~InForce /\ ~Unloading
  BY <1>2 DEF InForce, Unloading, Telling
<1>4. Fact(FALSE, FALSE) = {FALSE}
  BY <1>3 DEF Fact
<1>5. Truth.running = {FALSE}
  BY <1>2 DEF Truth
<1>6. Truth.loaded = {FALSE}
  BY <1>2, <1>3, Zenon DEF Truth, Fact, Telling
<1>7. Truth.hook = {FALSE}
  BY <1>2, <1>3, Zenon DEF Truth, Fact
<1>8. Truth.disabled = {FALSE}
  BY <1>2, <1>3, Zenon DEF Truth, Fact
<1>9. Truth.recognised = {FALSE}
  BY <1>2, <1>3, Zenon DEF Truth, Fact
<1>10. seen = [running |-> {FALSE}, loaded |-> {FALSE}, hook |-> {FALSE},
               disabled |-> {FALSE}, recognised |-> {FALSE}]
  BY DEF Init
<1>11. Truth = [running |-> {FALSE}, loaded |-> {FALSE}, hook |-> {FALSE},
                disabled |-> {FALSE}, recognised |-> {FALSE}]
  BY <1>5, <1>6, <1>7, <1>8, <1>9 DEF Truth
<1> QED
  BY <1>1, <1>10, <1>11, Zenon DEF SeenInv, WindowFacts

\* Nothing that was seen in a refresh is forgotten in it.
LEMMA SeenNext ==
  ASSUME SeenInv, Next
  PROVE  /\ SeenInv'
         /\ window.at # "idle" /\ window'.at # "idle" =>
              \A f \in WindowFacts : seen[f] \subseteq seen'[f]
<1>1. Remember
  BY Remembering
<1>2. DOMAIN Truth' = WindowFacts
  BY Zenon DEF Truth, WindowFacts
<1>3. CASE window.at # "idle" /\ window'.at # "idle"
  <2>1. seen' = [f \in WindowFacts |-> seen[f] \cup Truth'[f]]
    BY <1>1, <1>3, Zenon DEF Remember, SeenInv
  <2>2. \A f \in WindowFacts : Truth'[f] \subseteq seen'[f] /\ seen[f] \subseteq seen'[f]
    BY <2>1
  <2> QED
    BY <1>3, <2>1, <2>2, Zenon DEF SeenInv
<1>4. CASE ~(window.at # "idle" /\ window'.at # "idle")
  <2>1. seen' = Truth'
    BY <1>1, <1>4, Zenon DEF Remember
  <2>2. \A f \in WindowFacts : Truth'[f] \subseteq seen'[f]
    BY <2>1
  <2> QED
    BY <1>2, <1>4, <2>1, <2>2, Zenon DEF SeenInv
<1> QED
  BY <1>3, <1>4

(***************************************************************************)
(* What the tails of the log say was the case since the refresh began.      *)
(***************************************************************************)
Says(s) ==
  /\ Shaped(s)
  /\ s.loaded => TRUE \in seen.loaded
  /\ s.unloaded /\ ~s.loaded => FALSE \in seen.loaded
  /\ s.hook \/ s.pending => TRUE \in seen.hook
  /\ s.disabled \/ s.failure => FALSE \in seen.hook
  /\ s.disabled => TRUE \in seen.disabled
  /\ s.loaded /\ s.trackers # {} => TRUE \in seen.recognised
  /\ s.loaded /\ s.trackers = {} => FALSE \in seen.recognised

WholeSays(w) ==
  /\ ~w.loaded => FALSE \in seen.loaded
  /\ w.loaded /\ ~w.hook => FALSE \in seen.hook

ReadInv ==
  window.at = "read" =>
    /\ TRUE \in seen.running
    /\ \E q \in 0 .. process : window.start = 2 * q
    /\ \A s \in TailsOf(Written, window.start) : Says(s)
    /\ \A w \in {Whole(window.start)} : WholeSays(w)

LEMMA StillSays ==
  ASSUME \A f \in WindowFacts : seen[f] \subseteq seen'[f]
  PROVE  /\ \A s : Says(s) => Says(s)'
         /\ \A w : WholeSays(w) => WholeSays(w)'
         /\ TRUE \in seen.running => TRUE \in seen'.running
<1>1. /\ seen.running \subseteq seen'.running /\ seen.loaded \subseteq seen'.loaded
      /\ seen.hook \subseteq seen'.hook /\ seen.disabled \subseteq seen'.disabled
      /\ seen.recognised \subseteq seen'.recognised
  BY Zenon DEF WindowFacts
<1>2. ASSUME NEW s, Says(s) PROVE Says(s)'
  BY <1>1, <1>2, Zenon DEF Says
<1>3. ASSUME NEW w, WholeSays(w) PROVE WholeSays(w)'
  BY <1>1, <1>3, Zenon DEF WholeSays
<1> QED
  BY <1>1, <1>2, <1>3, Zenon

LEMMA NothingSaid == Says(NoSummary)
  BY NoSummaryFacts, Zenon DEF Says

\* What has been seen includes what is the case.
SeenNow == \A f \in WindowFacts : Truth[f] \subseteq seen[f]

\* A summary that fits the driver says what is the case.
LEMMA FitsSay ==
  ASSUME HooksHeld, DriverHeld, known \in BOOLEAN, SeenNow, NEW s, Fits(s)
  PROVE  Says(s) /\ (WholeFits(s) => WholeSays(s))
<1>1. /\ Truth.loaded \subseteq seen.loaded /\ Truth.hook \subseteq seen.hook
      /\ Truth.disabled \subseteq seen.disabled /\ Truth.recognised \subseteq seen.recognised
  BY Zenon DEF SeenNow, WindowFacts
<1>2. ~filtering \/ NoTarget => ~Announced
  BY DEF HooksHeld, DriverHeld, NoTarget, Announced
<1> USE DEF Fits
<1>3. s.loaded => TRUE \in Truth.loaded
  BY TruthHas
<1>4. s.unloaded /\ ~s.loaded => FALSE \in Truth.loaded
  BY TruthHas
<1>5. s.hook \/ s.pending => TRUE \in Truth.hook
  BY TruthHas
<1>6. s.disabled \/ s.failure => FALSE \in Truth.hook
  BY <1>2, TruthHas DEF Disabling, Failing
<1>7. s.disabled => TRUE \in Truth.disabled
  BY TruthHas DEF Disabling
<1>8. s.loaded /\ s.trackers # {} => TRUE \in Truth.recognised
  BY TruthHas
<1>9. s.loaded /\ s.trackers = {} => FALSE \in Truth.recognised
  BY TruthHas DEF Telling
<1>10. WholeFits(s) => (~s.loaded => FALSE \in Truth.loaded)
  BY TruthHas DEF WholeFits
<1>11. WholeFits(s) => (s.loaded /\ ~s.hook => FALSE \in Truth.hook)
  BY TruthHas DEF WholeFits, Live, InForce
<1> QED
  BY <1>1, <1>3, <1>4, <1>5, <1>6, <1>7, <1>8, <1>9, <1>10, <1>11 DEF Says, WholeSays

\* A line that is finished says what is the case.
LEMMA LineSays ==
  ASSUME HooksHeld, DriverHeld, known \in BOOLEAN, SeenNow, NEW kind \in LineKinds,
         Telling(kind) \/ kind = "other", NEW s, NEW r, LineRead(r, s, kind), Says(s)
  PROVE  Says(r) /\ (WholeSays(s) => WholeSays(r))
<1>1. /\ Truth.loaded \subseteq seen.loaded /\ Truth.hook \subseteq seen.hook
      /\ Truth.disabled \subseteq seen.disabled /\ Truth.recognised \subseteq seen.recognised
  BY Zenon DEF SeenNow, WindowFacts
<1>2. ~filtering \/ NoTarget => ~Announced
  BY DEF HooksHeld, DriverHeld, NoTarget, Announced
<1> USE DEF LineRead, Same, Says, WholeSays
<1>3. CASE kind = "other"
  BY <1>3
<1>4. CASE kind = "hook" /\ Telling("hook")
  <2>1. TRUE \in seen.hook
    BY <1>1, <1>4, TruthHas DEF DriverHeld
  <2> QED
    BY <1>4, <2>1
<1>5. CASE kind = "load" /\ Telling("load")
  <2>1. TRUE \in seen.loaded /\ FALSE \in seen.hook /\ FALSE \in seen.recognised
    BY <1>1, <1>5, TruthHas DEF Telling, InForce
  <2> QED
    BY <1>5, <2>1
<1>6. CASE kind = "unload" /\ Telling("unload")
  <2>1. FALSE \in seen.loaded
    BY <1>1, <1>6, TruthHas DEF Unloading
  <2> QED
    BY <1>6, <2>1
<1>7. CASE kind = "disabled" /\ Telling("disabled")
  <2>1. TRUE \in seen.disabled /\ FALSE \in seen.hook
    BY <1>1, <1>2, <1>7, TruthHas DEF DriverHeld
  <2> QED
    BY <1>7, <2>1
<1>8. CASE kind = "failure" /\ Telling("failure")
  <2>1. FALSE \in seen.hook
    BY <1>1, <1>2, <1>8, TruthHas DEF DriverHeld
  <2> QED
    BY <1>8, <2>1
<1>9. CASE kind = "tracker" /\ Telling("tracker")
  <2>1. TRUE \in seen.recognised
    BY <1>1, <1>9, TruthHas DEF DriverHeld
  <2> QED
    BY <1>9, <2>1
<1> QED
  BY <1>3, <1>4, <1>5, <1>6, <1>7, <1>8, <1>9, Zenon DEF LineKinds

LEMMA SaysOn ==
  ASSUME HooksHeld, DriverHeld, known \in BOOLEAN, SeenNow, NEW kind \in LineKinds, NEW start,
         Telling(kind) \/ kind = "other", Grown(Written', kind, start),
         \A f \in WindowFacts : seen[f] \subseteq seen'[f],
         \A s \in TailsOf(Written, start) : Says(s), WholeSays(Whole(start))
  PROVE  /\ \A r \in TailsOf(Written', start) : Says(r)'
         /\ \A w \in {ReadTail(Written', 1, start)} : WholeSays(w)'
<1>1. (\A s : Says(s) => Says(s)') /\ (\A w : WholeSays(w) => WholeSays(w)')
  BY StillSays, Zenon
<1>2. ASSUME NEW r \in TailsOf(Written', start) PROVE Says(r)'
  <2>1. CASE r = NoSummary
    BY <1>1, <2>1, NothingSaid, Zenon
  <2>2. CASE \E q \in TailsOf(Written, start) : Shaped(q) => LineRead(r, q, kind)
    <3>1. PICK q \in TailsOf(Written, start) : Shaped(q) => LineRead(r, q, kind)
      BY <2>2
    <3>2. Says(q) /\ Shaped(q)
      BY Zenon DEF Says
    <3>3. Says(r)
      BY <3>1, <3>2, LineSays, Zenon
    <3> QED
      BY <1>1, <3>3, Zenon
  <2> QED
    BY <1>2, <2>1, <2>2, Zenon DEF Grown
<1>3. ASSUME NEW r, r = ReadTail(Written', 1, start) PROVE WholeSays(r)'
  <2>1. PICK w : w = Whole(start)
    OBVIOUS
  <2>2. Says(w) /\ Shaped(w) /\ WholeSays(w)
    BY <2>1, Zenon DEF Grown, Says
  <2>3. LineRead(r, w, kind)
    BY <1>3, <2>1, <2>2, Zenon DEF Grown
  <2>4. WholeSays(r)
    BY <2>2, <2>3, LineSays, Zenon
  <2> QED
    BY <1>1, <2>4, Zenon
<1> QED
  BY <1>2, <1>3, Zenon

\* The window looks on while the driver goes on.
LEMMA LooksOn ==
  ASSUME SessionInv, HooksHeld, DriverHeld, LineUnderWay, SeenInv, ReadInv, Next,
         window.at = "read", window' = window
  PROVE  ReadInv'
<1>1. LogInv /\ PhaseInv /\ known \in BOOLEAN /\ window.start \in 0 .. Began /\ process \in Nat
  BY SessionBounds DEF SessionInv, PhaseInv, WindowInv, LogInv
<1>2. SeenNow /\ \A f \in WindowFacts : seen[f] \subseteq seen'[f]
  BY SeenNext, Zenon DEF SeenInv, SeenNow
<1>3. /\ TRUE \in seen.running /\ \E q \in 0 .. process : window.start = 2 * q
      /\ \A s \in TailsOf(Written, window.start) : Says(s)
      /\ WholeSays(Whole(window.start))
  BY Zenon DEF ReadInv
<1>4. /\ \A s : Says(s) => Says(s)'
      /\ \A w : WholeSays(w) => WholeSays(w)'
      /\ TRUE \in seen'.running
  BY <1>2, <1>3, StillSays, Zenon
<1> DEFINE start == window.start
<1>5. start' = start /\ Whole(start)' = ReadTail(Written', 1, start)
  BY Zenon DEF Whole
<1>6. process' = process \/ process' = process + 1
  BY <1>1, WrittenSteps, Zenon DEF WrittenStep
<1>7. \E q \in 0 .. process' : start = 2 * q
  <2>1. PICK q \in 0 .. process : start = 2 * q
    BY <1>3
  <2>2. q \in 0 .. process'
    BY <1>1, <1>6
  <2> QED
    BY <2>1, <2>2
<1>8. SUFFICES /\ \A s \in TailsOf(Written', start) : Says(s)'
               /\ \A w \in {ReadTail(Written', 1, start)} : WholeSays(w)'
  BY <1>4, <1>5, <1>7, Zenon DEF ReadInv
<1>9. CASE Written' = Written
  BY <1>3, <1>4, <1>9, Zenon DEF Whole
<1>10. ASSUME NEW kind \in LineKinds, Telling(kind) \/ kind = "other",
              Written' = Append(Written, Line(Stamp, kind))
       PROVE  /\ \A s \in TailsOf(Written', start) : Says(s)'
              /\ \A w \in {ReadTail(Written', 1, start)} : WholeSays(w)'
  <2>1. Grown(Written', kind, start)
    BY <1>1, <1>10, LineGrows, Zenon
  <2> QED
    BY <1>1, <1>2, <1>3, <1>10, <2>1, SaysOn, Zenon
<1>11. CASE StartVrServer /\ Written' = <<>>
  <2>1. TailsOf(Written', start) = {NoSummary} /\ ReadTail(Written', 1, start) = NoSummary
    BY <1>11, EmptyTails, Zenon
  <2>2. phase = "none" /\ ~writing
    BY <1>1, <1>11 DEF StartVrServer, PhaseInv
  <2>3. FALSE \in Truth.loaded
    BY <1>1, <2>2, TruthHas DEF InForce
  <2>4. FALSE \in seen.loaded
    BY <1>2, <2>3, Zenon DEF SeenNow, WindowFacts
  <2>5. WholeSays(NoSummary)
    BY <2>4, NoSummaryFacts, Zenon DEF WholeSays
  <2> QED
    BY <1>4, <2>1, <2>5, NothingSaid, Zenon
<1> QED
  BY <1>1, <1>9, <1>10, <1>11, WrittenSteps, Zenon DEF WrittenStep

LEMMA ReadStep ==
  ASSUME SessionInv, HooksHeld, DriverHeld, LineUnderWay, LogFits, SeenInv, ReadInv, Next
  PROVE  ReadInv'
<1> SUFFICES ASSUME window'.at = "read" PROVE ReadInv'
  BY Zenon DEF ReadInv
<1>1. CASE UNCHANGED windowVars
  <2>1. window' = window /\ window.at = "read"
    BY <1>1, Zenon DEF windowVars
  <2> QED
    BY <2>1, LooksOn, Zenon
<1>2. CASE Refresh
  <2>1. window'.at = "scan"
    BY <1>2 DEF Refresh, SessionInv, WindowInv
  <2> QED
    BY <2>1
<1>3. CASE FindProcess
  <2>1. /\ window.at = "scan" /\ phase # "none" /\ window' = [at |-> "read", start |-> Began]
        /\ process' = process /\ log' = log /\ writing' = writing
    BY <1>3, Zenon DEF FindProcess, serverVars
  <2>2. window'.start = Began /\ Written' = Written /\ Began' = Began
    BY <2>1, Zenon DEF Written, Began
  <2>3. SeenNow /\ \A f \in WindowFacts : seen[f] \subseteq seen'[f]
    BY <2>1, SeenNext, Zenon DEF SeenInv, SeenNow
  <2>4. known \in BOOLEAN /\ process \in Nat /\ Began \in 0 .. Began /\ LogInv
    BY SessionBounds DEF SessionInv, PhaseInv, LogInv, Began
  <2>5. \A s \in TailsOf(Written, Began) : Fits(s) /\ Says(s)
    BY <2>1, <2>3, <2>4, FitsSay, Zenon DEF LogFits
  <2>6. Whole(Began) \in TailsOf(Written, Began)
    BY <2>4, WrittenFits, WholeIsTail, Zenon DEF Whole
  <2>7. \A w \in {Whole(Began)} : WholeSays(w)
    BY <2>1, <2>3, <2>4, <2>5, <2>6, FitsSay, Zenon DEF LogFits
  <2>8. TRUE \in seen.running
    <3>1. Truth.running = {TRUE}
      BY <2>1, <2>4, TruthHas
    <3> QED
      BY <2>3, <3>1 DEF SeenNow, WindowFacts
  <2>9. /\ \A s : Says(s) => Says(s)'
        /\ \A w : WholeSays(w) => WholeSays(w)'
        /\ TRUE \in seen'.running
    BY <2>3, <2>8, StillSays, Zenon
  <2>10. \E q \in 0 .. process' : Began = 2 * q
    BY <2>1, <2>4 DEF Began
  <2>11. TailsOf(Written', window'.start) = TailsOf(Written, Began)
         /\ Whole(window.start)' = Whole(Began)
    BY <2>2, Zenon DEF Whole
  <2> QED
    BY <2>2, <2>5, <2>7, <2>9, <2>10, <2>11, Zenon DEF ReadInv
<1>4. CASE window' = Closed
  BY <1>4 DEF Closed
<1> QED
  BY <1>1, <1>2, <1>3, <1>4, WindowSteps, Zenon

(***************************************************************************)
(* The page that is shown.                                                 *)
(***************************************************************************)
\* Lines of an earlier process, read or not, make no difference.
LEMMA OldPrefix ==
  ASSUME NEW S, NEW s \in Seq(S), NEW start, NEW i \in 1 .. Len(s), NEW from \in 1 .. i,
         \A j \in 1 .. i : s[j].stamp < start
  PROVE  ReadTail(s, from, start) = ReadTail(s, 1, start)
<1> DEFINE Q(n) == SubSeq(s, 1, n)
           T == {n \in Nat : i + n <= Len(s) =>
                               ReadTail(Q(i + n), from, start) = ReadTail(Q(i + n), 1, start)}
<1>1. Len(s) \in Nat /\ \A j \in 1 .. Len(s) : s[j] \in S
  BY ElementOfSeq, LenProperties
<1>2. ASSUME NEW n \in Nat, n <= Len(s)
      PROVE  Q(n) \in Seq(S) /\ Len(Q(n)) = n /\ \A j \in 1 .. n : Q(n)[j] = s[j]
  <2>1. n \in Int /\ 1 \in Int /\ \A j \in 1 .. n : s[j] \in S
    BY <1>1, <1>2
  <2>2. /\ Q(n) \in Seq(S) /\ Len(Q(n)) = (IF 1 <= n THEN n - 1 + 1 ELSE 0)
        /\ \A j \in 1 .. n - 1 + 1 : Q(n)[j] = s[1 + j - 1]
    BY <2>1, SubSeqProperties
  <2> HIDE DEF Q
  <2>3. ASSUME NEW j \in 1 .. n PROVE Q(n)[j] = s[j]
    <3>1. j \in 1 .. n - 1 + 1 /\ 1 + j - 1 = j
      BY <1>2
    <3> QED
      BY <2>2, <3>1
  <2>4. Len(Q(n)) = n
    BY <1>2, <2>2
  <2> QED
    BY <2>2, <2>3, <2>4
<1>3. Q(Len(s)) = s
  BY SubSeqFull
<1> HIDE DEF Q
<1>4. 0 \in T
  <2>1. i + 0 = i /\ i \in Nat /\ i <= Len(s)
    BY <1>1
  <2>2. Q(i) \in Seq(S) /\ Len(Q(i)) = i /\ \A j \in 1 .. Len(Q(i)) : Q(i)[j].stamp < start
    BY <1>2, <2>1
  <2>3. from \in 1 .. Len(Q(i)) + 1 /\ 1 \in 1 .. Len(Q(i)) + 1
    BY <2>1, <2>2
  <2>4. ReadTail(Q(i), from, start) = NoSummary /\ ReadTail(Q(i), 1, start) = NoSummary
    BY <2>2, <2>3, OldTail, Zenon
  <2> QED
    BY <2>1, <2>4
<1>5. ASSUME NEW n \in T PROVE n + 1 \in T
  <2>1. CASE i + (n + 1) <= Len(s)
    <3> DEFINE k == i + n
    <3>1. k \in Nat /\ k + 1 \in Nat /\ k <= Len(s) /\ k + 1 <= Len(s) /\ k + 1 = i + (n + 1)
          /\ k + 1 \in 1 .. Len(s) /\ from \in 1 .. k + 1 /\ 1 \in 1 .. k + 1
      BY <1>1, <2>1
    <3> HIDE DEF k
    <3>2. /\ Q(k) \in Seq(S) /\ Len(Q(k)) = k /\ \A j \in 1 .. k : Q(k)[j] = s[j]
          /\ Q(k + 1) \in Seq(S) /\ Len(Q(k + 1)) = k + 1
          /\ \A j \in 1 .. k + 1 : Q(k + 1)[j] = s[j]
      BY <1>2, <3>1
    <3>3. Q(k + 1) = Append(Q(k), s[k + 1])
      <4> DEFINE r == Append(Q(k), s[k + 1])
      <4>1. /\ r \in Seq(S) /\ Len(r) = k + 1 /\ r[k + 1] = s[k + 1]
            /\ \A j \in 1 .. k : r[j] = Q(k)[j]
        BY <1>1, <3>1, <3>2, AppendProperties
      <4> HIDE DEF r
      <4>2. \A j \in 1 .. k + 1 : Q(k + 1)[j] = r[j]
        BY <3>1, <3>2, <4>1
      <4>3. Q(k + 1) = r
        BY <3>2, <4>1, <4>2, SeqEqual
      <4> QED
        BY <4>3 DEF r
    <3>4. s[k + 1] \in S
      BY <1>1, <3>1
    <3>5. ReadTail(Q(k), from, start) = ReadTail(Q(k), 1, start)
      BY <3>1 DEF k
    <3>6. /\ ReadTail(Q(k + 1), from, start) = ReadLine(ReadTail(Q(k), from, start), s[k + 1],
               start)
          /\ ReadTail(Q(k + 1), 1, start) = ReadLine(ReadTail(Q(k), 1, start), s[k + 1], start)
      <4>1. ASSUME NEW f \in 1 .. k + 1
            PROVE  ReadTail(Q(k + 1), f, start) = ReadLine(ReadTail(Q(k), f, start), s[k + 1],
                     start)
        <5> DEFINE a == Q(k)
                   e == s[k + 1]
        <5>1. a \in Seq(S) /\ e \in S /\ f \in 1 .. Len(a) + 1
          BY <3>2, <3>4
        <5>2. Q(k + 1) = Append(a, e)
          BY <3>3
        <5> HIDE DEF a, e
        <5>3. ReadTail(Append(a, e), f, start) = ReadLine(ReadTail(a, f, start), e, start)
          BY <5>1, TailAppend
        <5> QED
          BY <5>2, <5>3 DEF a, e
      <4> QED
        BY <3>1, <4>1
    <3>7. ReadTail(Q(i + (n + 1)), from, start) = ReadTail(Q(i + (n + 1)), 1, start)
      BY <3>1, <3>5, <3>6
    <3> QED
      BY <3>7
  <2>2. CASE ~(i + (n + 1) <= Len(s))
    BY <2>2
  <2> QED
    BY <2>1, <2>2
<1>6. T = Nat
  BY <1>4, <1>5, SetInduction
<1>7. Len(s) - i \in Nat /\ i + (Len(s) - i) = Len(s)
  BY <1>1
<1>8. Len(s) - i \in T
  BY <1>6, <1>7
<1>9. ReadTail(Q(Len(s)), from, start) = ReadTail(Q(Len(s)), 1, start)
  BY <1>1, <1>7, <1>8
<1> QED
  BY <1>3, <1>9

LEMMA SnapshotIs ==
  ASSUME LogInv, NEW whole \in Snapshots
  PROVE  whole = Written \/ whole = Append(Written, Line(Stamp, "other"))
<1>1. "other" \in LineKinds /\ Stamp \in Nat /\ Stamp > 0
  BY SessionBounds DEF LineKinds, LogInv, Stamp
<1>2. Written \in Seq(LogLines(Stamp)) /\ Line(Stamp, "other") \in LogLines(Stamp)
  BY <1>1, WrittenFits, LineFits
<1>3. Written \o <<Line(Stamp, "other")>> = Append(Written, Line(Stamp, "other"))
  BY <1>2, TornLine, Zenon
<1>4. CASE writing
  <2>1. whole = Front(log) \/ whole = Front(log) \o <<Line(Stamp, "other")>>
    BY <1>4, Zenon DEF Snapshots
  <2> QED
    BY <1>3, <1>4, <2>1, Zenon DEF Written
<1>5. CASE ~writing
  BY <1>5, Zenon DEF Snapshots, Written
<1> QED
  BY <1>4, <1>5

\* A tail that reaches back to an older process says what the whole log says.
TailsCovered(whole, start) ==
  \A from \in 1 .. Len(whole) + 1 :
    (\E i \in from .. Len(whole) : whole[i].stamp <= start) =>
      ReadTail(whole, from, start) = ReadTail(whole, 1, start)

LEMMA SnapshotCovered ==
  ASSUME LogInv, OldStamps, NEW q \in 0 .. process, NEW whole \in Snapshots
  PROVE  TailsCovered(whole, 2 * q)
<1> DEFINE s == Written
           e == Line(Stamp, "other")
           start == 2 * q
<1>1. process \in Nat /\ s \in Seq(LogLines(Stamp)) /\ e \in LogLines(Stamp) /\ e.stamp = Stamp
  <2>1. process \in Nat /\ 0 \in 0 .. Began /\ "other" \in LineKinds
    BY SessionBounds DEF LogInv, Began, LineKinds
  <2> QED
    BY <2>1, NewLine, LineIs
<1>2. ~(e.stamp <= start)
  BY <1>1 DEF Stamp
<1>3. \A i \in 1 .. Len(s) : s[i].stamp <= start => \A j \in 1 .. i : s[j].stamp < start
  BY Zenon DEF OldStamps
<1>4. whole = s \/ whole = Append(s, e)
  BY SnapshotIs, Zenon
<1> HIDE DEF s, e, start
<1>5. whole \in Seq(LogLines(Stamp)) /\ Len(whole) \in Nat
  BY <1>1, <1>4, AppendProperties, LenProperties
<1>6. ASSUME NEW i \in 1 .. Len(whole), whole[i].stamp <= start
      PROVE  \A j \in 1 .. i : whole[j].stamp < start
  <2>1. CASE whole = s
    BY <1>3, <1>6, <2>1
  <2>2. CASE whole = Append(s, e)
    <3>1. /\ Len(whole) = Len(s) + 1 /\ whole[Len(s) + 1] = e /\ Len(s) \in Nat
          /\ \A j \in 1 .. Len(s) : whole[j] = s[j]
      BY <1>1, <2>2, AppendProperties, LenProperties
    <3>2. i # Len(s) + 1
      BY <1>2, <1>6, <3>1
    <3>3. i \in 1 .. Len(s) /\ \A j \in 1 .. i : j \in 1 .. Len(s)
      BY <3>1, <3>2
    <3> QED
      BY <1>3, <1>6, <3>1, <3>3
  <2> QED
    BY <1>4, <2>1, <2>2
<1>7. ASSUME NEW from \in 1 .. Len(whole) + 1, NEW i \in from .. Len(whole),
             whole[i].stamp <= start
      PROVE  ReadTail(whole, from, start) = ReadTail(whole, 1, start)
  <2>1. i \in 1 .. Len(whole) /\ from \in 1 .. i
    BY <1>5, <1>7
  <2>2. \A j \in 1 .. i : whole[j].stamp < start
    BY <1>6, <1>7, <2>1
  <2> QED
    BY <1>5, <2>1, <2>2, OldPrefix
<1> QED
  BY <1>7, Zenon DEF TailsCovered, start

LEMMA SnapshotSays ==
  ASSUME LogInv, HooksHeld, DriverHeld, known \in BOOLEAN, SeenNow, ReadInv,
         window.at = "read", window.start \in 0 .. Began, NEW whole \in Snapshots
  PROVE  /\ \A r \in TailsOf(whole, window.start) : Says(r)
         /\ WholeSays(ReadTail(whole, 1, window.start))
<1> DEFINE start == window.start
<1>1. (\A s \in TailsOf(Written, start) : Says(s)) /\ WholeSays(Whole(start))
  BY Zenon DEF ReadInv
<1>2. CASE whole = Written
  BY <1>1, <1>2, Zenon DEF Whole
<1>3. CASE whole = Append(Written, Line(Stamp, "other"))
  <2>0. "other" \in LineKinds
    BY DEF LineKinds
  <2>1. Grown(whole, "other", start)
    BY <1>3, <2>0, LineGrows
  <2>2. ASSUME NEW s, NEW r, LineRead(r, s, "other"), Says(s)
        PROVE  Says(r) /\ (WholeSays(s) => WholeSays(r))
    BY <2>0, <2>2, LineSays
  <2>3. ASSUME NEW r \in TailsOf(whole, start) PROVE Says(r)
    <3>1. CASE r = NoSummary
      BY <3>1, NothingSaid, Zenon
    <3>2. CASE \E q \in TailsOf(Written, start) : Shaped(q) => LineRead(r, q, "other")
      BY <1>1, <2>2, <3>2, Zenon DEF Says
    <3> QED
      BY <2>1, <2>3, <3>1, <3>2, Zenon DEF Grown
  <2>4. Says(Whole(start)) /\ Shaped(Whole(start))
    BY <1>1, <2>1, Zenon DEF Grown, Says
  <2>5. LineRead(ReadTail(whole, 1, start), Whole(start), "other")
    BY <2>1, <2>4, Zenon DEF Grown
  <2> QED
    BY <1>1, <2>2, <2>3, <2>4, <2>5, Zenon
<1> QED
  BY <1>2, <1>3, SnapshotIs, Zenon

(***************************************************************************)
(* What the page claims, the log said.                                     *)
(***************************************************************************)
PageOf(s, covered, truncated) ==
  LET yes  == LoadEvidence(s, covered)
      hook == HookEvidence(s, covered)
  IN Page(yes, hook,
          Overview("Registered", TRUE, TRUE, yes, hook, s.disabled, s.trackers # {}), truncated)

\* The summary shows the hook only of a driver that is loaded.
Rounded(s, r) ==
  /\ s.loaded = r.loaded /\ s.unloaded = r.unloaded /\ s.hook = (r.hook /\ r.loaded)
  /\ s.failure = r.failure /\ s.disabled = r.disabled /\ s.trackers = r.trackers

LEMMA LoadedHonest ==
  ASSUME NEW s, NEW r, Rounded(s, r), Says(r), NEW covered \in BOOLEAN, NEW truncated \in BOOLEAN,
         covered => WholeSays(r), ~truncated => covered
  PROVE  /\ LoadEvidence(s, covered) \in {"Yes", "No", "Unknown"}
         /\ LoadEvidence(s, covered) = "Yes" => s.loaded /\ TRUE \in seen.loaded
         /\ LoadEvidence(s, covered) = "No" => ~s.loaded /\ FALSE \in seen.loaded
         /\ LoadEvidence(s, covered) = "Unknown" =>
              ~s.loaded /\ (truncated \/ FALSE \in seen.loaded)
<1>1. CASE s.loaded
  BY <1>1 DEF LoadEvidence, Rounded, Says
<1>2. CASE ~s.loaded /\ (s.unloaded \/ (covered /\ s.current))
  BY <1>2 DEF LoadEvidence, Rounded, Says, WholeSays
<1>3. CASE ~s.loaded /\ ~(s.unloaded \/ (covered /\ s.current))
  BY <1>3 DEF LoadEvidence, Rounded, Says, WholeSays
<1> QED
  BY <1>1, <1>2, <1>3

LEMMA HookHonest ==
  ASSUME NEW s, NEW r, Rounded(s, r), Says(r), NEW covered \in BOOLEAN, NEW truncated \in BOOLEAN,
         covered => WholeSays(r), ~truncated => covered
  PROVE  /\ HookEvidence(s, covered) \in {"Yes", "No", "Unknown", "NotApplicable"}
         /\ HookEvidence(s, covered) = "Yes" => TRUE \in seen.hook
         /\ HookEvidence(s, covered) = "No" => FALSE \in seen.hook
         /\ HookEvidence(s, covered) = "Unknown" => truncated \/ FALSE \in seen.loaded
         /\ HookEvidence(s, covered) = "NotApplicable" => FALSE \in seen.loaded
<1> DEFINE a == LoadEvidence(s, covered)
<1>1. /\ a \in {"Yes", "No", "Unknown"}
      /\ a = "Yes" => s.loaded /\ TRUE \in seen.loaded
      /\ a = "No" => ~s.loaded /\ FALSE \in seen.loaded
      /\ a = "Unknown" => ~s.loaded /\ (truncated \/ FALSE \in seen.loaded)
  BY LoadedHonest, Zenon
<1> HIDE DEF a
<1>2. CASE a = "No"
  <2>0. ~s.hook
    BY <1>1, <1>2 DEF Rounded
  <2>1. HookEvidence(s, covered) = "NotApplicable"
    BY <1>2, <2>0 DEF HookEvidence, a
  <2> QED
    BY <1>1, <1>2, <2>1
<1>3. CASE a = "Unknown"
  <2>0. ~s.hook
    BY <1>1, <1>3 DEF Rounded
  <2>1. HookEvidence(s, covered) = "Unknown"
    BY <1>3, <2>0 DEF HookEvidence, a
  <2> QED
    BY <1>1, <1>3, <2>1
<1>4. CASE a = "Yes" /\ s.hook
  <2>1. HookEvidence(s, covered) = "Yes"
    BY <1>4 DEF HookEvidence, a
  <2> QED
    BY <1>4, <2>1 DEF Rounded, Says
<1>5. CASE a = "Yes" /\ ~s.hook
  <2>1. HookEvidence(s, covered) = IF s.disabled \/ s.failure \/ covered THEN "No" ELSE "Unknown"
    BY <1>5 DEF HookEvidence, a
  <2> QED
    BY <1>1, <1>5, <2>1 DEF Rounded, Says, WholeSays
<1> QED
  BY <1>1, <1>2, <1>3, <1>4, <1>5

LEMMA SnapshotFits ==
  ASSUME LogInv, NEW whole \in Snapshots
  PROVE  whole \in Seq(LogLines(Stamp))
<1>1. "other" \in LineKinds /\ Stamp \in Nat /\ Stamp > 0
  BY SessionBounds DEF LineKinds, LogInv, Stamp
<1>2. Written \in Seq(LogLines(Stamp)) /\ Line(Stamp, "other") \in LogLines(Stamp)
  BY <1>1, WrittenFits, LineFits
<1> QED
  BY <1>2, SnapshotIs, AppendProperties

LEMMA TailElements ==
  ASSUME NEW S, NEW t \in Seq(S), NEW first \in 1 .. Len(t) + 1
  PROVE  /\ DOMAIN SubSeq(t, first, Len(t)) = 1 .. Len(t) - first + 1
         /\ \A j \in 1 .. Len(t) - first + 1 : SubSeq(t, first, Len(t))[j] = t[first + j - 1]
<1>1. Len(t) \in Nat /\ \A j \in 1 .. Len(t) : t[j] \in S
  BY ElementOfSeq, LenProperties
<1>2. first \in Int /\ Len(t) \in Int /\ \A j \in first .. Len(t) : t[j] \in S
  BY <1>1
<1>3. /\ SubSeq(t, first, Len(t)) \in Seq(S)
      /\ Len(SubSeq(t, first, Len(t))) = (IF first <= Len(t) THEN Len(t) - first + 1 ELSE 0)
      /\ \A j \in 1 .. Len(t) - first + 1 : SubSeq(t, first, Len(t))[j] = t[first + j - 1]
  BY <1>2, SubSeqProperties
<1>4. DOMAIN SubSeq(t, first, Len(t)) = 1 .. Len(SubSeq(t, first, Len(t)))
  BY <1>3, LenProperties
<1>5. Len(SubSeq(t, first, Len(t))) = Len(t) - first + 1
  BY <1>1, <1>3
<1> QED
  BY <1>3, <1>4, <1>5

Backed(page, fact) ==
  /\ page[fact] \in {"Yes", "No", "Unknown", "NotApplicable"}
  /\ page[fact] = "Yes" => TRUE \in seen[fact]
  /\ page[fact] = "No" => FALSE \in seen[fact]
  /\ page[fact] = "Unknown" => page.partial \/ FALSE \in seen.loaded
  /\ page[fact] = "NotApplicable" => FALSE \in seen.loaded

LEMMA VerdictHonest ==
  ASSUME NEW page, NEW fact, Backed(page, fact)
  PROVE  Report!Honest(page, fact)
<1> USE DEF Backed
<1>1. CASE page[fact] = "Yes"
  BY <1>1 DEF Report!Honest
<1>2. CASE page[fact] = "No"
  BY <1>2 DEF Report!Honest
<1>3. CASE page[fact] = "Unknown"
  BY <1>3 DEF Report!Honest
<1>4. CASE page[fact] = "NotApplicable"
  BY <1>4 DEF Report!Honest
<1> QED
  BY <1>1, <1>2, <1>3, <1>4

\* The headline of a log that was read, case by case as selectOverview() goes.
LEMMA PageHonest ==
  ASSUME NEW s, NEW r, Rounded(s, r), Says(r), NEW covered \in BOOLEAN, NEW truncated \in BOOLEAN,
         covered => WholeSays(r), ~truncated => covered, TRUE \in seen.running
  PROVE  /\ PageOf(s, covered, truncated) \in Report!Pages
         /\ Report!Honest(PageOf(s, covered, truncated), "loaded")
         /\ Report!Honest(PageOf(s, covered, truncated), "hook")
         /\ Report!Headline(PageOf(s, covered, truncated))
<1> DEFINE a == LoadEvidence(s, covered)
           h == HookEvidence(s, covered)
           o == Overview("Registered", TRUE, TRUE, a, h, s.disabled, s.trackers # {})
           page == PageOf(s, covered, truncated)
<1>1. /\ a \in {"Yes", "No", "Unknown"}
      /\ a = "Yes" => s.loaded /\ TRUE \in seen.loaded
      /\ a = "No" => ~s.loaded /\ FALSE \in seen.loaded
      /\ a = "Unknown" => ~s.loaded /\ (truncated \/ FALSE \in seen.loaded)
  BY LoadedHonest, Zenon
<1>2. /\ h \in {"Yes", "No", "Unknown", "NotApplicable"}
      /\ h = "Yes" => TRUE \in seen.hook
      /\ h = "No" => FALSE \in seen.hook
      /\ h = "Unknown" => truncated \/ FALSE \in seen.loaded
      /\ h = "NotApplicable" => FALSE \in seen.loaded
  BY HookHonest, Zenon
<1>3. a = "Yes" => h \in {"Yes", "No"} \/ (h = "Unknown" /\ truncated)
  BY <1>1 DEF HookEvidence
<1>4. page = [loaded |-> a, hook |-> h, overview |-> o, partial |-> truncated]
  BY Zenon DEF PageOf, Page
<1>5. /\ page["loaded"] = a /\ page["hook"] = h
      /\ page.overview = o /\ page.partial = truncated
  BY <1>4
<1>6. o = IF a # "Yes" THEN "DriverUnavailable"
          ELSE IF s.disabled THEN "Disabled"
          ELSE IF h # "Yes" THEN "HookUnavailable"
          ELSE IF s.trackers # {} THEN "Ready" ELSE "WaitingForTracker"
  BY DEF Overview
<1> HIDE DEF a, h, o, page
<1>7. o \in Report!Overviews
  BY <1>6 DEF Report!Overviews
<1>8. page \in Report!Pages
  BY <1>1, <1>2, <1>4, <1>7 DEF Report!Pages, Report!Verdicts
<1>9. Report!Honest(page, "loaded") /\ Report!Honest(page, "hook")
  <2>1. Backed(page, "loaded")
    BY <1>1, <1>5 DEF Backed
  <2>2. Backed(page, "hook")
    BY <1>2, <1>5 DEF Backed
  <2>3. Report!Honest(page, "loaded")
    BY <2>1, VerdictHonest, Zenon
  <2>4. Report!Honest(page, "hook")
    BY <2>2, VerdictHonest, Zenon
  <2> QED
    BY <2>3, <2>4
<1>10. Report!Headline(page)
  <2>1. CASE a # "Yes"
    <3>1. page.overview = "DriverUnavailable" /\ (page.partial \/ FALSE \in seen.loaded)
      BY <1>1, <1>5, <1>6, <2>1
    <3> QED
      BY <3>1 DEF Report!Headline
  <2>2. CASE a = "Yes" /\ s.disabled
    <3>1. page.overview = "Disabled" /\ TRUE \in seen.disabled /\ TRUE \in seen.loaded
      BY <1>1, <1>5, <1>6, <2>2 DEF Rounded, Says
    <3> QED
      BY <3>1 DEF Report!Headline
  <2>3. CASE a = "Yes" /\ ~s.disabled /\ h # "Yes"
    <3>1. page.overview = "HookUnavailable" /\ (page.partial \/ FALSE \in seen.hook)
      BY <1>2, <1>3, <1>5, <1>6, <2>3
    <3> QED
      BY <3>1 DEF Report!Headline
  <2>4. CASE a = "Yes" /\ ~s.disabled /\ h = "Yes" /\ s.trackers # {}
    <3>1. page.overview = "Ready" /\ TRUE \in seen.loaded /\ TRUE \in seen.hook
          /\ TRUE \in seen.recognised
      BY <1>1, <1>2, <1>5, <1>6, <2>4 DEF Rounded, Says
    <3> QED
      BY <3>1 DEF Report!Headline, Report!Facts
  <2>5. CASE a = "Yes" /\ ~s.disabled /\ h = "Yes" /\ s.trackers = {}
    <3>1. page.overview = "WaitingForTracker" /\ TRUE \in seen.loaded /\ TRUE \in seen.hook
          /\ FALSE \in seen.recognised
      BY <1>1, <1>2, <1>5, <1>6, <2>5 DEF Rounded, Says
    <3> QED
      BY <3>1 DEF Report!Headline
  <2> QED
    BY <2>1, <2>2, <2>3, <2>4, <2>5
<1> QED
  BY <1>8, <1>9, <1>10 DEF page

\* Whatever is read of the log, the page it gives is honest.
LEMMA ReadLogHonest ==
  ASSUME SessionInv, OldStamps, HooksHeld, DriverHeld, SeenInv, ReadInv, ReadLog
  PROVE  /\ shown' \in Report!Pages
         /\ Report!Honest(shown', "loaded") /\ Report!Honest(shown', "hook")
         /\ Report!Headline(shown')
<1>1. /\ LogInv /\ known \in BOOLEAN /\ window.at = "read" /\ window.start \in 0 .. Began
      /\ process \in Nat
  BY SessionBounds DEF SessionInv, PhaseInv, WindowInv, ReadLog, LogInv
<1>2. SeenNow /\ TRUE \in seen.running /\ \E q \in 0 .. process : window.start = 2 * q
  BY <1>1, Zenon DEF SeenInv, SeenNow, ReadInv
<1> DEFINE start == window.start
           tail(whole, first) == SubSeq(whole, first, Len(whole))
<1>3. PICK whole \in Snapshots : \E first \in 1 .. Len(whole) + 1 :
        shown' = PageOf(Parsed(tail(whole, first), start),
                        Covered(tail(whole, first), first > 1, start), first > 1)
  BY Zenon DEF ReadLog, ShowPage, PageOf
<1>4. PICK first \in 1 .. Len(whole) + 1 :
        shown' = PageOf(Parsed(tail(whole, first), start),
                        Covered(tail(whole, first), first > 1, start), first > 1)
  BY <1>3, Zenon
<1>5. (\A r \in TailsOf(whole, start) : Says(r)) /\ WholeSays(ReadTail(whole, 1, start))
  BY <1>1, <1>2, SnapshotSays
<1>6. TailsCovered(whole, start)
  BY <1>1, <1>2, SnapshotCovered
<1>7. whole \in Seq(LogLines(Stamp)) /\ Len(whole) \in Nat
  BY <1>1, SnapshotFits, LenProperties
<1> DEFINE r == ReadTail(whole, first, start)
           s == Parsed(tail(whole, first), start)
           covered == Covered(tail(whole, first), first > 1, start)
<1>8. Says(r) /\ Rounded(s, r)
  <2>1. Says(r)
    BY <1>5, Zenon DEF TailsOf
  <2>2. Shaped(ReadLines(tail(whole, first), start)) /\ r = ReadLines(tail(whole, first), start)
    BY <2>1, Zenon DEF Says, ReadTail
  <2>3. {"loaded", "unloaded", "failure", "disabled", "trackers"} \subseteq
          SummaryFields \ {"hook", "recent"}
    BY Zenon DEF SummaryFields
  <2>4. \A f \in SummaryFields \ {"hook", "recent"} : s[f] = r[f]
    BY <2>2, ParsedIs
  <2>5. s.hook = (r.hook /\ r.loaded)
    BY <2>2, ParsedIs
  <2> HIDE DEF s, r
  <2> QED
    BY <2>1, <2>3, <2>4, <2>5 DEF Rounded
<1>9. covered \in BOOLEAN /\ (first > 1) \in BOOLEAN /\ (~(first > 1) => covered)
  <2>1. (first > 1) \in BOOLEAN
    BY <1>7
  <2>2. covered = (~(first > 1) \/ \E i \in DOMAIN tail(whole, first) :
                                   tail(whole, first)[i].stamp <= start)
    BY Zenon DEF Covered
  <2> HIDE DEF covered
  <2> QED
    BY <2>1, <2>2
<1>10. ASSUME covered PROVE r = ReadTail(whole, 1, start)
  <2>1. CASE first > 1
    <3>1. PICK i \in DOMAIN tail(whole, first) : tail(whole, first)[i].stamp <= start
      BY <1>10, <2>1, Zenon DEF Covered
    <3>2. /\ DOMAIN tail(whole, first) = 1 .. Len(whole) - first + 1
          /\ \A j \in 1 .. Len(whole) - first + 1 : tail(whole, first)[j] = whole[first + j - 1]
      BY <1>7, TailElements
    <3>3. first + i - 1 \in first .. Len(whole) /\ whole[first + i - 1].stamp <= start
      BY <1>7, <3>1, <3>2
    <3> QED
      BY <1>6, <3>3, Zenon DEF TailsCovered
  <2>2. CASE ~(first > 1)
    <3>1. first = 1
      BY <1>7, <2>2
    <3> QED
      BY <3>1
  <2> QED
    BY <2>1, <2>2
<1>11. covered => WholeSays(r)
  BY <1>5, <1>10
<1> HIDE DEF s, r, covered
<1>12. shown' = PageOf(s, covered, first > 1)
  BY <1>4, Zenon DEF s, covered
<1> QED
  BY <1>2, <1>8, <1>9, <1>11, <1>12, PageHonest

(***************************************************************************)
(* The session follows the report.                                         *)
(***************************************************************************)
Outcomes == {{TRUE}, BOOLEAN, {FALSE}}

LEMMA TruthFrom ==
  ASSUME NEW a \in Outcomes, NEW b \in Outcomes, NEW c \in Outcomes, NEW d \in Outcomes,
         NEW e \in Outcomes
  PROVE  [running |-> a, loaded |-> b, hook |-> c, disabled |-> d, recognised |-> e]
           \in Report!Truths
<1> DEFINE r == [running |-> a, loaded |-> b, hook |-> c, disabled |-> d, recognised |-> e]
<1>1. Outcomes \subseteq (SUBSET BOOLEAN) \ {{}}
  BY DEF Outcomes
<1>2. /\ r.running \in Outcomes /\ r.loaded \in Outcomes /\ r.hook \in Outcomes
      /\ r.disabled \in Outcomes /\ r.recognised \in Outcomes
  OBVIOUS
<1>3. DOMAIN r = Report!Facts /\ r = [f \in DOMAIN r |-> r[f]]
  BY Zenon DEF Report!Facts
<1> HIDE DEF r
<1>4. \A f \in Report!Facts : r[f] \in Outcomes
  BY <1>2, Zenon DEF Report!Facts
<1>5. r \in [Report!Facts -> Outcomes]
  BY <1>3, <1>4
<1> QED
  BY <1>1, <1>5 DEF Report!Truths, r

LEMMA TruthTyped == Truth \in Report!Truths /\ Truth' \in Report!Truths
<1>1. Truth \in Report!Truths
  <2> DEFINE r == {phase # "none"}
             l == Fact(InForce, phase = "load" \/ Telling("load"))
             h == Fact(InForce /\ Announced /\ ~Telling("hook"), enabled # {})
             d == Fact(phase = "active" /\ ~filtering /\ ~writing, ~filtering /\ phase # "idle")
             k == Fact(known /\ ~writing, known)
  <2>1. r \in Outcomes /\ l \in Outcomes /\ h \in Outcomes /\ d \in Outcomes /\ k \in Outcomes
    <3>1. r \in Outcomes
      BY DEF Outcomes
    <3> QED
      BY <3>1, Zenon DEF Fact, Outcomes
  <2>2. Truth = [running |-> r, loaded |-> l, hook |-> h, disabled |-> d, recognised |-> k]
    BY Zenon DEF Truth
  <2> HIDE DEF r, l, h, d, k
  <2> QED
    BY <2>1, <2>2, TruthFrom
<1>2. Truth' \in Report!Truths
  <2> DEFINE r == {phase' # "none"}
             l == Fact(InForce, phase = "load" \/ Telling("load"))'
             h == Fact(InForce /\ Announced /\ ~Telling("hook"), enabled # {})'
             d == Fact(phase = "active" /\ ~filtering /\ ~writing, ~filtering /\ phase # "idle")'
             k == Fact(known /\ ~writing, known)'
  <2>1. r \in Outcomes /\ l \in Outcomes /\ h \in Outcomes /\ d \in Outcomes /\ k \in Outcomes
    <3>1. r \in Outcomes
      BY DEF Outcomes
    <3> QED
      BY <3>1, Zenon DEF Fact, Outcomes
  <2>2. Truth' = [running |-> r, loaded |-> l, hook |-> h, disabled |-> d, recognised |-> k]
    BY Zenon DEF Truth
  <2> HIDE DEF r, l, h, d, k
  <2> QED
    BY <2>1, <2>2, TruthFrom
<1> QED
  BY <1>1, <1>2

\* What is the case depends on the driver alone.
LEMMA TruthSame ==
  ASSUME UNCHANGED hookVars, UNCHANGED serverVars
  PROVE  Truth' = Truth
<1>1. /\ phase' = phase /\ filtering' = filtering /\ known' = known /\ log' = log
      /\ writing' = writing /\ holder' = holder /\ job' = job /\ target' = target
      /\ enabled' = enabled
  BY Zenon DEF hookVars, serverVars
<1>2. \A kind : Telling(kind)' = Telling(kind)
  BY <1>1, Zenon DEF Telling
<1>3. Unloading' = Unloading /\ InForce' = InForce /\ Announced' = Announced
  BY <1>1, <1>2, Zenon DEF Unloading, InForce, Announced
<1> QED
  BY <1>1, <1>2, <1>3, Zenon DEF Truth, Fact

SeenTyped == seen \in Report!Truths

LEMMA SeenKeeps == ASSUME SeenTyped, Next PROVE SeenTyped'
<1>1. Remember /\ Truth' \in Report!Truths
  BY Remembering, TruthTyped
<1>2. CASE seen' = Truth'
  BY <1>1, <1>2, Zenon DEF SeenTyped
<1>3. CASE seen' = [f \in DOMAIN seen |-> seen[f] \cup Truth'[f]]
  <2> HIDE DEF Truth
  <2> QED
    BY <1>1, <1>3 DEF SeenTyped, Report!Truths
<1> QED
  BY <1>1, <1>2, <1>3, Zenon DEF Remember

\* The inductive invariant: the driver is where its line says, every tail of the log
\* that can be read fits the driver, and what the log says was the case meanwhile.
ReportInv ==
  /\ SessionInv /\ HooksHeld /\ DriverHeld /\ LineUnderWay /\ OldStamps /\ LogFits
  /\ SeenTyped /\ SeenInv /\ ReadInv

LEMMA ReportInit == Init => ReportInv
<1> SUFFICES ASSUME Init PROVE ReportInv
  OBVIOUS
<1>1. SessionInv /\ HooksHeld /\ DriverHeld /\ LogFits /\ SeenInv
  BY SessionInit, HooksHeldInit, DriverHeldInit, LogFitsInit, SeenInit, Zenon DEF Init
<1>2. LineUnderWay
  BY Zenon DEF Init, LineUnderWay
<1>3. OldStamps
  <2>1. Written = <<>>
    BY Zenon DEF Init, Written
  <2> QED
    BY <2>1 DEF OldStamps
<1>4. window.at = "idle"
  BY DEF Init, Closed
<1>5. ReadInv
  BY <1>4 DEF ReadInv
<1>6. SeenTyped
  BY <1>1, <1>4, TruthTyped, Zenon DEF SeenInv, SeenTyped
<1> QED
  BY <1>1, <1>2, <1>3, <1>5, <1>6 DEF ReportInv

LEMMA ReportStutter ==
  ASSUME ReportInv, UNCHANGED vars
  PROVE  ReportInv'
<1>1. UNCHANGED hookVars /\ UNCHANGED serverVars /\ UNCHANGED windowVars /\ seen' = seen
  BY Zenon DEF vars
<1>2. /\ process' = process /\ phase' = phase /\ filtering' = filtering /\ known' = known
      /\ log' = log /\ writing' = writing /\ window' = window
  BY <1>1, Zenon DEF serverVars, windowVars
<1>3. /\ holder' = holder /\ job' = job /\ target' = target /\ enabled' = enabled
      /\ initialized' = initialized /\ context' = context
  BY <1>1, Zenon DEF hookVars
<1>4. Written' = Written /\ Began' = Began /\ Stamp' = Stamp
  BY <1>2, Zenon DEF Written, Began, Stamp
<1>5. \A kind : Telling(kind)' = Telling(kind)
  BY <1>2, Zenon DEF Telling
<1>6. NoTarget' = NoTarget
  BY <1>3, Zenon DEF NoTarget
<1>7. SessionInv' /\ HooksHeld'
  BY <1>1, SessionNext, HooksHeldNext, Zenon DEF ReportInv, SessionInv
<1>8. DriverHeld'
  BY <1>2, <1>3, <1>5, <1>6, Zenon DEF ReportInv, DriverHeld
<1>9. LineUnderWay' /\ OldStamps'
  BY <1>2, <1>4, Zenon DEF ReportInv, LineUnderWay, OldStamps
<1>10. LogFits'
  <2>1. /\ Unloading' = Unloading /\ InForce' = InForce /\ Announced' = Announced
        /\ Disabling' = Disabling /\ Failing' = Failing
    BY <1>2, <1>3, <1>5, <1>6, Zenon DEF Unloading, InForce, Announced, Disabling, Failing
  <2>2. GoesOn
    BY <1>2, <1>3, <1>5, <2>1, Zenon DEF GoesOn, Live
  <2>3. (\A s : Fits(s) => Fits(s)') /\ (\A w : WholeFits(w) => WholeFits(w)')
    BY <2>2, StillFits
  <2>4. TailsOf(Written', Began') = TailsOf(Written, Began) /\ Whole(Began)' = Whole(Began)
    BY <1>4, Zenon DEF Whole
  <2> QED
    BY <1>2, <2>3, <2>4, Zenon DEF ReportInv, LogFits
<1>11. SeenTyped' /\ SeenInv'
  BY <1>1, <1>2, TruthSame, Zenon DEF ReportInv, SeenTyped, SeenInv
<1>12. ReadInv'
  <2>1. /\ \A s : Says(s) => Says(s)'
        /\ \A w : WholeSays(w) => WholeSays(w)'
    BY <1>1, StillSays, Zenon
  <2>2. TailsOf(Written', window'.start) = TailsOf(Written, window.start)
        /\ Whole(window.start)' = Whole(window.start)
    BY <1>2, <1>4, Zenon DEF Whole
  <2> QED
    BY <1>1, <1>2, <2>1, <2>2, Zenon DEF ReportInv, ReadInv
<1> QED
  BY <1>7, <1>8, <1>9, <1>10, <1>11, <1>12 DEF ReportInv

LEMMA ReportNext == ReportInv /\ [Next]_vars => ReportInv'
<1> SUFFICES ASSUME ReportInv, Next PROVE ReportInv'
  BY ReportStutter, Zenon
<1>1. SessionInv' /\ HooksHeld'
  BY SessionNext, SessionHooks, HooksHeldNext, Zenon DEF ReportInv, SessionInv
<1>2. DriverHeld'
  BY DriverStep, Zenon DEF ReportInv
<1>3. WrittenStep /\ LineUnderWay'
  BY WrittenSteps, Zenon DEF ReportInv, SessionInv
<1>4. OldStamps'
  BY <1>3, OldStampsKept, Zenon DEF ReportInv, SessionInv
<1>5. LogFits' /\ ReadInv'
  BY LogFitsStep, ReadStep, Zenon DEF ReportInv
<1>6. SeenTyped' /\ SeenInv'
  BY SeenKeeps, SeenNext, Zenon DEF ReportInv
<1> QED
  BY <1>1, <1>2, <1>3, <1>4, <1>5, <1>6 DEF ReportInv

\* A page that is shown closes the refresh, and what was the case is what is.
LEMMA PageCloses ==
  ASSUME NEW page, ShowPage(page), Remember, window.at # "idle"
  PROVE  /\ (window'.at # "idle") = FALSE /\ (window.at # "idle") = TRUE
         /\ shown' = page /\ Truth' = Truth /\ seen' = Truth
<1>1. shown' = page /\ window' = Closed /\ Truth' = Truth
  BY TruthSame, Zenon DEF ShowPage
<1>2. window'.at = "idle"
  BY <1>1 DEF Closed
<1>3. seen' = Truth'
  BY <1>2, Zenon DEF Remember
<1> QED
  BY <1>1, <1>2, <1>3

LEMMA ShowFollows ==
  ASSUME NEW page \in Report!Pages, ShowPage(page), Remember, window.at # "idle",
         Report!Honest(page, "loaded"), Report!Honest(page, "hook"), Report!Headline(page)
  PROVE  Report!Show
<1>1. /\ (window'.at # "idle") = FALSE /\ (window.at # "idle") = TRUE
      /\ shown' = page /\ Truth' = Truth /\ seen' = Truth
  BY PageCloses
<1>2. \A fact \in {"loaded", "hook"} : Report!Honest(shown', fact)
  BY <1>1
<1> QED
  BY <1>1, <1>2, Zenon DEF Report!Show


LEMMA ReportStep ==
  ASSUME ReportInv, Next
  PROVE  Report!Next
<1>0. /\ Remember /\ Truth \in Report!Truths /\ Truth' \in Report!Truths
      /\ seen \in Report!Truths /\ SeenInv
  BY Remembering, TruthTyped, Zenon DEF ReportInv, SeenTyped
<1>1. DOMAIN seen = Report!Facts
  BY <1>0 DEF SeenInv, WindowFacts, Report!Facts
<1> USE DEF Report!Next
<1>2. ASSUME UNCHANGED windowVars PROVE Report!Next
  <2>1. window' = window /\ shown' = shown
    BY <1>2, Zenon DEF windowVars
  <2>2. seen' = IF window.at # "idle" THEN Report!Merged(seen, Truth') ELSE Truth'
    BY <1>0, <1>1, <2>1, Zenon DEF Remember, Report!Merged
  <2>3. Report!Change
    BY <1>0, <2>1, <2>2, Zenon DEF Report!Change
  <2> QED
    BY <2>3
<1>3. CASE Refresh
  <2>1. window.at = "idle" /\ window'.at = "scan" /\ Truth' = Truth /\ shown' = shown
    BY <1>3, TruthSame DEF Refresh, ReportInv, SessionInv, WindowInv
  <2>2. seen' = Truth' /\ seen = Truth
    BY <1>0, <2>1, Zenon DEF Remember, SeenInv
  <2>3. (window.at # "idle") = FALSE /\ (window'.at # "idle") = TRUE
    BY <2>1
  <2>4. Report!Begin
    BY <2>1, <2>2, <2>3, Zenon DEF Report!Begin
  <2> QED
    BY <2>4
<1>4. CASE FindProcess
  <2>1. /\ window.at = "scan" /\ window'.at = "read" /\ Truth' = Truth /\ shown' = shown
    BY <1>4, TruthSame, Zenon DEF FindProcess
  <2>2. seen' = Report!Merged(seen, Truth')
    BY <1>0, <1>1, <2>1 DEF Remember, Report!Merged
  <2>3. (window'.at # "idle") = (window.at # "idle") /\ window.at # "idle"
    BY <2>1
  <2>4. Report!Change
    BY <1>0, <2>1, <2>2, <2>3, Zenon DEF Report!Change
  <2> QED
    BY <2>4
<1>5. CASE ScanFails
  <2> DEFINE page == Page("Unknown", "Unknown", "SteamVrUnknown", TRUE)
  <2>1. window.at = "scan" /\ ShowPage(page)
    BY <1>5, Zenon DEF ScanFails
  <2>2. page \in Report!Pages /\ page["loaded"] = "Unknown" /\ page["hook"] = "Unknown"
        /\ page.partial /\ page.overview = "SteamVrUnknown"
    BY DEF Page, Report!Pages, Report!Verdicts, Report!Overviews
  <2> HIDE DEF page
  <2>3. Backed(page, "loaded") /\ Backed(page, "hook")
    BY <2>2 DEF Backed
  <2>4. Report!Honest(page, "loaded") /\ Report!Honest(page, "hook")
    BY <2>3, VerdictHonest
  <2>5. Report!Headline(page)
    BY <2>2 DEF Report!Headline
  <2> QED
    BY <1>0, <2>1, <2>2, <2>4, <2>5, ShowFollows
<1>6. CASE FindNoProcess
  <2> DEFINE page == Page("NotApplicable", "NotApplicable", "SteamVrStopped", FALSE)
  <2>1. window.at = "scan" /\ phase = "none" /\ ShowPage(page)
    BY <1>6, Zenon DEF FindNoProcess
  <2>2. page \in Report!Pages /\ page["loaded"] = "NotApplicable"
        /\ page["hook"] = "NotApplicable" /\ page.overview = "SteamVrStopped"
    BY DEF Page, Report!Pages, Report!Verdicts, Report!Overviews
  <2> HIDE DEF page
  <2>3. FALSE \in seen.running /\ FALSE \in seen.loaded
    <3>1. known \in BOOLEAN /\ Truth.running \subseteq seen.running
          /\ Truth.loaded \subseteq seen.loaded
      BY <1>0, <2>1 DEF SeenInv, WindowFacts, ReportInv, SessionInv, PhaseInv
    <3>2. Truth.running = {phase # "none"} /\ (FALSE \in Truth.loaded <=> ~InForce \/ Unloading)
      BY <3>1, TruthHas
    <3>3. ~InForce
      BY <2>1 DEF InForce
    <3>4. FALSE \in Truth.running
      BY <2>1, <3>2
    <3> QED
      BY <3>1, <3>2, <3>3, <3>4
  <2>4. Backed(page, "loaded") /\ Backed(page, "hook")
    BY <2>2, <2>3 DEF Backed
  <2>5. Report!Honest(page, "loaded") /\ Report!Honest(page, "hook")
    BY <2>4, VerdictHonest
  <2>6. Report!Headline(page)
    BY <2>2, <2>3 DEF Report!Headline
  <2> QED
    BY <1>0, <2>1, <2>2, <2>5, <2>6, ShowFollows
<1>7. CASE ReadNothing
  <2> DEFINE page == Page("Unknown", "Unknown", "DriverUnavailable", TRUE)
  <2>1. window.at = "read" /\ ShowPage(page)
    BY <1>7, Zenon DEF ReadNothing
  <2>2. page \in Report!Pages /\ page["loaded"] = "Unknown" /\ page["hook"] = "Unknown"
        /\ page.partial /\ page.overview = "DriverUnavailable"
    BY DEF Page, Report!Pages, Report!Verdicts, Report!Overviews
  <2> HIDE DEF page
  <2>3. Backed(page, "loaded") /\ Backed(page, "hook")
    BY <2>2 DEF Backed
  <2>4. Report!Honest(page, "loaded") /\ Report!Honest(page, "hook")
    BY <2>3, VerdictHonest
  <2>5. Report!Headline(page)
    BY <2>2 DEF Report!Headline
  <2> QED
    BY <1>0, <2>1, <2>2, <2>4, <2>5, ShowFollows
<1>8. CASE ReadLog
  <2>1. /\ shown' \in Report!Pages
        /\ Report!Honest(shown', "loaded") /\ Report!Honest(shown', "hook")
        /\ Report!Headline(shown')
    BY <1>8, ReadLogHonest, Zenon DEF ReportInv
  <2>2. window.at = "read" /\ ShowPage(shown')
    BY <1>8, Zenon DEF ReadLog, ShowPage
  <2> QED
    BY <1>0, <2>1, <2>2, ShowFollows
<1>9. CASE RefreshFails
  <2>1. /\ (window'.at # "idle") = FALSE /\ (window.at # "idle") = TRUE
        /\ shown' = shown /\ Truth' = Truth /\ seen' = Truth
    BY <1>0, <1>9, PageCloses DEF RefreshFails
  <2>2. Report!Fail
    BY <2>1, Zenon DEF Report!Fail
  <2> QED
    BY <2>2
<1>10. \/ UNCHANGED windowVars \/ Refresh \/ FindProcess \/ ScanFails \/ FindNoProcess
       \/ ReadNothing \/ ReadLog \/ RefreshFails
  BY Zenon DEF Next, Server, Window
<1> QED
  BY <1>2, <1>3, <1>4, <1>5, <1>6, <1>7, <1>8, <1>9, <1>10, Zenon

LEMMA ReportStepOrStutter == ReportInv /\ [Next]_vars => [Report!Next]_(Report!vars)
<1>1. ASSUME ReportInv, Next PROVE Report!Next
  BY <1>1, ReportStep
<1>2. ASSUME UNCHANGED vars PROVE UNCHANGED (Report!vars)
  <2>1. UNCHANGED hookVars /\ UNCHANGED serverVars
    BY <1>2, Zenon DEF vars
  <2>2. Truth' = Truth
    BY <2>1, TruthSame
  <2>3. window' = window /\ seen' = seen /\ shown' = shown
    BY <1>2, Zenon DEF vars, windowVars
  <2> QED
    BY <2>2, <2>3, Zenon DEF Report!vars
<1> QED
  BY <1>1, <1>2, Zenon

LEMMA ReportStarts == ReportInv /\ Init => Report!Init
<1> SUFFICES ASSUME ReportInv, Init PROVE Report!Init
  OBVIOUS
<1>1. window.at = "idle" /\ shown = NoPage
  BY DEF Init, Closed
<1>2. Truth \in Report!Truths /\ seen = Truth
  BY <1>1, TruthTyped, Zenon DEF ReportInv, SeenInv
<1>3. (window.at # "idle") = FALSE /\ NoPage = Report!NoPage
  BY <1>1 DEF NoPage, Page, Report!NoPage
<1> QED
  BY <1>1, <1>2, <1>3, Zenon DEF Report!Init

\* However many processes vrserver has, wherever each of them is killed, however long
\* the log gets and however much of it can be read: the page claims nothing that was
\* not the case while the window looked, and it is unsure only for a reason
\* (inspectRuntime(), selectOverview(), parseVrServerLog()).
THEOREM SessionFollowsReport == Spec => FollowsReport
<1>1. Spec => []ReportInv
  BY ReportInit, ReportNext, PTL DEF Spec
<1>2. Init => Report!Init
  BY ReportInit, ReportStarts
<1> QED
  BY <1>1, <1>2, ReportStepOrStutter, PTL DEF Spec, FollowsReport, Report!Spec

=============================================================================
