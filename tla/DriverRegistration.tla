-------------------------- MODULE DriverRegistration --------------------------
(* How Setup and the uninstaller (installer/PoseAnchor.iss) change SteamVR's    *)
(* driver registry, openvrpaths.vrpath.  The file belongs to others too: it     *)
(* lists other drivers and other copies of this one, other programs edit it at  *)
(* any time, and it can only be changed through the external vrpathreg, which   *)
(* may fail half-way or report less than it did.  Every call of a tool, every   *)
(* copy, hash and replacement is a step of its own.                             *)
EXTENDS Naturals, FiniteSets

CONSTANTS
  App,         \* the path this copy is installed at: {app}
  OldCopies,   \* paths of other registered copies of the driver
  Others,      \* registrations of other drivers
  MaxFaults,   \* bound: failures of vrpathreg, of file operations, crashes
  MaxEdits,    \* bound: changes by other programs, launches, SteamVR removed
  MaxSetups    \* bound: times Setup is run

Copies == {App} \union OldCopies
Entries == Copies \union Others

\* A file is a list of entries, is not there, or was half written: vrpathreg cannot
\* read it then.
List(entries) == [kind |-> "list", entries |-> entries]
Missing == [kind |-> "missing", entries |-> {}]
Damaged == [kind |-> "damaged", entries |-> {}]
Files == {List(e) : e \in SUBSET Entries} \union {Missing, Damaged}
Registered(f) == f.entries

ASSUME EntryAssumption ==
  App \notin OldCopies /\ Copies \intersect Others = {}

ASSUME BudgetAssumption == {MaxFaults, MaxEdits, MaxSetups} \subseteq Nat

VARIABLES
  file,        \* openvrpaths.vrpath
  installed,   \* the files of this copy are on the disk
  pc,          \* the step Setup or the uninstaller is at, or "Idle"
  plan,        \* RegistrationCleanupMode and RegistrationCleanupPaths
  backup,      \* the copy in {tmp}, RegistrationBackupHash, RegistrationBackupReady
  stage,       \* openvrpaths.vrpath.poseanchor-restore.tmp
  rollbackFailed, \* DriverRegistrationRollbackFailed
  outcome,     \* what Setup told the user, until the next program starts
  running,     \* vrserver or the status window is running
  steamvr,     \* SteamVR, with vrpathreg, can be located
  before,      \* history: the registry when Setup last checked it before changing it
  interfered,  \* history: another program changed the registry since then
  budget       \* what is left of the three bounds

world == <<running, steamvr>>
memory == <<before, interfered>>
session == <<plan, backup, rollbackFailed, outcome>>
vars == <<file, installed, pc, stage, session, world, memory, budget>>

SetupSteps == {"Find", "Hash", "Copy", "Install", "Check", "Remove", "Add", "Verify",
  "Stage", "VerifyStage", "Replace", "VerifyRestored", "Undo", "CheckUndone", "Restore",
  "AddOld", "CheckRestored"}
UninstallSteps == {"Inspect", "FindOwn", "RecheckAbsent", "RecheckPresent", "Unregister",
  "VerifyGone", "Delete"}

\* at: the path being put back by a rollback, App when none is.
NoPlan == [mode |-> "None", paths |-> {}, at |-> App]
NoBackup == [copy |-> Missing, hash |-> Missing, ready |-> FALSE]
-------------------------------------------------------------------------------
(* vrpathreg and the file operations, as the installer may find them.           *)

Spend == budget.faults > 0 /\ budget' = [budget EXCEPT !.faults = @ - 1]

\* vrpathreg is there, and can read the file.
Readable == steamvr /\ file # Damaged

\* finddriver pose_anchor.  "unknown": not launched, output lost or not one path where
\* one is expected, any other exit code.  Exit codes 0 ("one") and 1 ("none") are
\* proofs; the list that comes with 2 ("many") may be incomplete.
Found(code, list) ==
  LET named == Registered(file) \intersect Copies IN
  \/ code = "unknown" /\ list = {} /\ ~Readable /\ UNCHANGED budget
  \/ code = "unknown" /\ list = {} /\ Readable /\ Spend
  \/ /\ Readable
     /\ code = IF named = {} THEN "none"
               ELSE IF \E c \in Copies : named = {c} THEN "one" ELSE "many"
     /\ \/ list = named /\ UNCHANGED budget
        \/ code = "many" /\ list \in (SUBSET named) \ {named} /\ Spend

Codes == {"unknown", "none", "one", "many"}

\* adddriver, removedriver, removedriverswithname: the file is rewritten.  A failure may
\* leave the old file, the new one or half of one, whatever is reported; exit code 0
\* (ok) can be reported for a file that was not changed, not for half a file.
Rewritten(new, ok) ==
  \/ ok /\ Readable /\ file' = List(new) /\ UNCHANGED budget
  \/ ~ok /\ ~Readable /\ UNCHANGED <<file, budget>>
  \/ /\ Readable /\ Spend
     /\ file' \in {file, List(new), Damaged} /\ (ok => file' # Damaged)

\* CopyFile(from) onto another file: exact, or (with a fault) half of it.
Copied(from, to) == (to = from /\ UNCHANGED budget) \/ (to = Damaged /\ Spend)

NoneOnly(p, code, list) == code = "none"

\* TryRegistrationPathPresent: absence follows from a complete answer only.
Shows(p, code, list) == code \in {"one", "many"} /\ p \in list
Excludes(p, code, list) == code \in {"none", "one"} /\ p \notin list

SoleOrListed(code, list) == App \in list

\* The final finddriver of AddInstalledDriver: this copy and no other.
Sole(code, list) == code = "one" /\ list = {App}
-------------------------------------------------------------------------------
Finish(o) == pc' = "Idle" /\ outcome' = o /\ plan' = NoPlan /\ backup' = NoBackup

Refuse == Finish("refused") /\ UNCHANGED <<file, stage, rollbackFailed>>

\* PrepareToInstall: SteamVR is located and no process blocks; then
\* PrepareRegistrationPlan starts from a clean plan.
StartSetup ==
  /\ pc = "Idle" /\ budget.setups > 0
  /\ budget' = [budget EXCEPT !.setups = @ - 1]
  /\ plan' = NoPlan /\ backup' = NoBackup /\ rollbackFailed' = FALSE
  /\ IF steamvr /\ ~running THEN pc' = "Find" /\ outcome' = "none"
                            ELSE pc' = "Idle" /\ outcome' = "refused"
  /\ UNCHANGED <<file, installed, stage, world, memory>>

\* PrepareRegistrationPlan: what is registered decides the plan; replacing other copies
\* needs the user's consent.
FindExisting ==
  /\ pc = "Find"
  /\ \E code \in Codes, list \in SUBSET Copies, consent \in BOOLEAN :
       /\ Found(code, list)
       /\ \/ /\ code = "none"
             /\ pc' = "Hash" /\ UNCHANGED session
          \/ /\ Sole(code, list)
             /\ pc' = "Install" /\ UNCHANGED session
          \/ /\ code \in {"one", "many"} /\ ~Sole(code, list) /\ consent
             /\ plan' = [NoPlan EXCEPT !.mode = IF code = "one" THEN "One" ELSE "All",
                                       !.paths = list]
             /\ pc' = "Hash" /\ UNCHANGED <<backup, rollbackFailed, outcome>>
          \/ /\ code = "unknown" \/ (code # "none" /\ ~Sole(code, list) /\ ~consent)
             /\ Finish("refused") /\ UNCHANGED rollbackFailed
  /\ UNCHANGED <<file, installed, stage, world, memory>>

CanAlwaysBackUp(f) == TRUE

\* CreateRegistrationBackup needs a file to copy.
CanBackUp(f) == f # Missing

HashRegistry ==
  /\ pc = "Hash"
  /\ IF CanBackUp(file)
     THEN /\ pc' = "Copy" /\ backup' = [backup EXCEPT !.hash = file]
          /\ UNCHANGED <<file, stage, plan, rollbackFailed, outcome>>
     ELSE Refuse
  /\ UNCHANGED <<installed, world, memory, budget>>

\* The copy counts only with the hash of what was hashed before it.
CopyBackup ==
  /\ pc = "Copy"
  /\ \E copy \in Files :
       /\ Copied(file, copy)
       /\ IF copy = backup.hash
          THEN /\ pc' = "Install" /\ backup' = [backup EXCEPT !.copy = copy, !.ready = TRUE]
               /\ UNCHANGED <<file, stage, plan, rollbackFailed, outcome>>
          ELSE Refuse
  /\ UNCHANGED <<installed, world, memory>>

\* Setup copies its files.
InstallFiles ==
  /\ pc = "Install"
  /\ pc' = "Check" /\ installed' = TRUE
  /\ UNCHANGED <<file, stage, session, world, memory, budget>>

NotCompared(b, f) == b.ready => b.copy = b.hash

\* RegistrationBackupStillCurrent
StillCurrent(b, f) == b.ready => f # Missing /\ b.copy = b.hash /\ f = b.hash

\* AddInstalledDriver, before it changes anything.
CheckBeforeChange ==
  /\ pc = "Check"
  /\ before' = file /\ interfered' = FALSE
  /\ IF steamvr /\ ~running /\ StillCurrent(backup, file)
     THEN pc' = "Remove" /\ UNCHANGED session
     ELSE Finish("failed") /\ UNCHANGED rollbackFailed
  /\ UNCHANGED <<file, installed, stage, world, budget>>

\* The start of RollBackRegistrationPlan.
RollBack == /\ pc' = IF backup.ready THEN "Stage" ELSE "Undo"
            /\ rollbackFailed' = FALSE
            /\ UNCHANGED <<plan, backup, outcome>>

\* removedriver the one old path, or removedriverswithname.
Cleaned(p, f) == Registered(f) \ (IF p.mode = "One" THEN p.paths ELSE Copies)

RemoveOld ==
  /\ pc = "Remove" /\ plan.mode # "None"
  /\ \E ok \in BOOLEAN :
       /\ Rewritten(Cleaned(plan, file), ok)
       /\ IF ok THEN pc' = "Add" /\ UNCHANGED session ELSE RollBack
  /\ UNCHANGED <<installed, stage, world, memory>>

\* With nothing to replace, finddriver once more: this copy, none, or a refusal.
FindAgain ==
  /\ pc = "Remove" /\ plan.mode = "None"
  /\ \E code \in Codes, list \in SUBSET Copies :
       /\ Found(code, list)
       /\ \/ code = "none" /\ pc' = "Add" /\ UNCHANGED session
          \/ Sole(code, list) /\ Finish("ok") /\ UNCHANGED rollbackFailed
          \/ code # "none" /\ ~Sole(code, list) /\ Finish("failed") /\ UNCHANGED rollbackFailed
  /\ UNCHANGED <<file, installed, stage, world, memory>>

AddNew ==
  /\ pc = "Add"
  /\ \E ok \in BOOLEAN :
       /\ Rewritten(Registered(file) \union {App}, ok)
       /\ IF ok THEN pc' = "Verify" /\ UNCHANGED session ELSE RollBack
  /\ UNCHANGED <<installed, stage, world, memory>>

VerifyNew ==
  /\ pc = "Verify"
  /\ \E code \in Codes, list \in SUBSET Copies :
       /\ Found(code, list)
       /\ IF Sole(code, list) THEN Finish("ok") /\ UNCHANGED rollbackFailed ELSE RollBack
  /\ UNCHANGED <<file, installed, stage, world, memory>>
-------------------------------------------------------------------------------
(* RestoreRegistrationBackup and the rest of RollBackRegistrationPlan.          *)

RestoreFails == /\ pc' = "Undo" /\ rollbackFailed' = TRUE
                /\ UNCHANGED <<plan, backup, outcome>>

\* The source is validated, a stale stage deleted, the copy made.
StageBackup ==
  /\ pc = "Stage"
  /\ \/ /\ backup.copy = backup.hash /\ backup.copy # Missing
        /\ Copied(backup.copy, stage')
        /\ pc' = "VerifyStage" /\ UNCHANGED session
     \/ /\ backup.copy # backup.hash \/ backup.copy = Missing
        /\ RestoreFails /\ UNCHANGED <<stage, budget>>
     \/ Spend /\ RestoreFails /\ stage' \in {stage, Missing}
  /\ UNCHANGED <<file, installed, world, memory>>

StageUnread(s, b) == TRUE

\* The stage is hashed before it replaces anything.
StageGood(s, b) == s = b.hash

VerifyStage ==
  /\ pc = "VerifyStage"
  /\ \/ /\ StageGood(stage, backup)
        /\ pc' = "Replace" /\ UNCHANGED <<stage, session, budget>>
     \/ ~StageGood(stage, backup) /\ RestoreFails /\ stage' = Missing /\ UNCHANGED budget
     \/ Spend /\ RestoreFails /\ stage' = Missing
  /\ UNCHANGED <<file, installed, world, memory>>

\* MoveFileExW replaces the registry in one step, or not at all.
ReplaceRegistry ==
  /\ pc = "Replace"
  /\ stage' = Missing
  /\ \/ file' = stage /\ pc' = "VerifyRestored" /\ UNCHANGED <<session, budget>>
     \/ Spend /\ RestoreFails /\ UNCHANGED file
  /\ UNCHANGED <<installed, world, memory>>

VerifyRestored ==
  /\ pc = "VerifyRestored"
  /\ \/ file = backup.hash /\ Finish("failed") /\ UNCHANGED <<rollbackFailed, budget>>
     \/ file # backup.hash /\ RestoreFails /\ UNCHANGED budget
     \/ Spend /\ RestoreFails
  /\ UNCHANGED <<file, installed, stage, world, memory>>

\* Without the backup: take the new path out, whatever vrpathreg says of it...
UndoAdd ==
  /\ pc = "Undo"
  /\ \E ok \in BOOLEAN : Rewritten(Registered(file) \ {App}, ok)
  /\ pc' = "CheckUndone"
  /\ UNCHANGED <<installed, stage, session, world, memory>>

\* ... check that it is gone ...
CheckUndone ==
  /\ pc = "CheckUndone"
  /\ \E code \in Codes, list \in SUBSET Copies :
       /\ Found(code, list)
       /\ rollbackFailed' = (rollbackFailed \/ ~Excludes(App, code, list))
  /\ pc' = "Restore"
  /\ UNCHANGED <<file, installed, stage, plan, backup, outcome, world, memory>>

\* ... and put each path of the plan back unless it shows, in any order.
RestoreNext ==
  /\ pc = "Restore"
  /\ \/ /\ plan.paths = {}
        /\ Finish("failed") /\ UNCHANGED <<rollbackFailed, budget>>
     \/ \E p \in plan.paths, code \in Codes, list \in SUBSET Copies :
          /\ Found(code, list)
          /\ IF Shows(p, code, list)
             THEN plan' = [plan EXCEPT !.paths = @ \ {p}] /\ UNCHANGED pc
             ELSE plan' = [plan EXCEPT !.at = p] /\ pc' = "AddOld"
          /\ UNCHANGED <<backup, rollbackFailed, outcome>>
  /\ UNCHANGED <<file, installed, stage, world, memory>>

AddOld ==
  /\ pc = "AddOld"
  /\ \E ok \in BOOLEAN : Rewritten(Registered(file) \union {plan.at}, ok)
  /\ pc' = "CheckRestored"
  /\ UNCHANGED <<installed, stage, session, world, memory>>

CheckRestored ==
  /\ pc = "CheckRestored"
  /\ \E code \in Codes, list \in SUBSET Copies :
       /\ Found(code, list)
       /\ rollbackFailed' = (rollbackFailed \/ ~Shows(plan.at, code, list))
  /\ plan' = [plan EXCEPT !.paths = @ \ {plan.at}, !.at = App]
  /\ pc' = "Restore"
  /\ UNCHANGED <<file, installed, stage, backup, outcome, world, memory>>
-------------------------------------------------------------------------------
(* The uninstaller: InitializeUninstall, RemoveInstalledDriver, the deletion.   *)

Goto(step) == pc' = step /\ UNCHANGED <<file, installed, stage, session, world, memory>>
Abort == Goto("Idle")

StartUninstall ==
  /\ pc = "Idle" /\ installed /\ ~running
  /\ pc' = "Inspect" /\ outcome' = "none" /\ rollbackFailed' = FALSE
  /\ UNCHANGED <<file, installed, stage, plan, backup, world, memory, budget>>

\* Without vrpathreg only a registry that is certainly not there proves anything.
Inspect ==
  /\ pc = "Inspect"
  /\ \/ running /\ Abort /\ UNCHANGED budget
     \/ ~running /\ steamvr /\ Goto("FindOwn") /\ UNCHANGED budget
     \/ ~running /\ ~steamvr /\ file = Missing /\ Goto("Delete") /\ UNCHANGED budget
     \/ ~running /\ ~steamvr /\ file # Missing /\ Abort /\ UNCHANGED budget
     \/ ~running /\ ~steamvr /\ Spend /\ Abort

FindOwn ==
  /\ pc = "FindOwn"
  /\ \E code \in Codes, list \in SUBSET Copies :
       /\ Found(code, list)
       /\ \/ Shows(App, code, list) /\ Goto("RecheckPresent")
          \/ Excludes(App, code, list) /\ Goto("RecheckAbsent")
          \/ ~Shows(App, code, list) /\ ~Excludes(App, code, list) /\ Abort

Recheck ==
  /\ pc \in {"RecheckPresent", "RecheckAbsent"}
  /\ IF running THEN Abort
     ELSE Goto(IF pc = "RecheckPresent" THEN "Unregister" ELSE "Delete")
  /\ UNCHANGED budget

Unregister ==
  /\ pc = "Unregister"
  /\ \E ok \in BOOLEAN :
       /\ Rewritten(Registered(file) \ {App}, ok)
       /\ pc' = IF ok THEN "VerifyGone" ELSE "Idle"
  /\ UNCHANGED <<installed, stage, session, world, memory>>

NotListed(code, list) == code # "unknown" /\ App \notin list

\* Absence after removedriver: no copy, or exactly one other.
Gone(code, list) == Excludes(App, code, list)

VerifyGone ==
  /\ pc = "VerifyGone"
  /\ \E code \in Codes, list \in SUBSET Copies :
       /\ Found(code, list)
       /\ Goto(IF Gone(code, list) THEN "Delete" ELSE "Idle")

DeleteFiles ==
  /\ pc = "Delete"
  /\ pc' = "Idle" /\ installed' = FALSE
  /\ UNCHANGED <<file, stage, session, world, memory, budget>>
-------------------------------------------------------------------------------
(* Everything else: other programs and the user, failures, crashes.             *)

Disturb == budget.edits > 0 /\ budget' = [budget EXCEPT !.edits = @ - 1]

\* Another program adds or removes an entry, or the first one creates the file.  None
\* registers this copy's path.
Edit ==
  /\ Disturb /\ file # Damaged
  /\ \E e \in Entries :
       \/ e # App /\ e \notin Registered(file) /\ file' = List(Registered(file) \union {e})
       \/ e \in Registered(file) /\ file' = List(Registered(file) \ {e})
  /\ interfered' = TRUE
  /\ UNCHANGED <<installed, pc, stage, session, world, before>>

\* vrserver or the status window starts, or is closed.
Launch == /\ Disturb /\ steamvr /\ ~running /\ running' = TRUE
          /\ UNCHANGED <<file, installed, pc, stage, session, steamvr, memory>>
Close == /\ running /\ running' = FALSE
         /\ UNCHANGED <<file, installed, pc, stage, session, steamvr, memory, budget>>

\* SteamVR is removed, or installed again.
RemoveSteamVR == /\ Disturb /\ steamvr /\ ~running /\ steamvr' = FALSE
                 /\ UNCHANGED <<file, installed, pc, stage, session, running, memory>>
ReturnSteamVR == /\ ~steamvr /\ steamvr' = TRUE
                 /\ UNCHANGED <<file, installed, pc, stage, session, running, memory, budget>>

\* The backup in {tmp} is lost or overwritten.
SpoilBackup ==
  /\ Spend /\ backup.copy \notin {Missing, Damaged}
  /\ \E copy \in {Missing, Damaged} : backup' = [backup EXCEPT !.copy = copy]
  /\ UNCHANGED <<file, installed, pc, stage, plan, rollbackFailed, outcome, world, memory>>

\* The program is cancelled or killed: its variables and {tmp} are gone, the file and
\* a stage beside it stay.
Crash ==
  /\ Spend /\ pc # "Idle"
  /\ Finish("none") /\ rollbackFailed' = FALSE
  /\ UNCHANGED <<file, installed, stage, world, memory>>
-------------------------------------------------------------------------------
\* The registry may hold anything but this copy's path when its files are not there.
Init ==
  /\ installed \in BOOLEAN
  /\ file \in Files \ {Damaged} /\ (App \in Registered(file) => installed)
  /\ pc = "Idle" /\ plan = NoPlan /\ backup = NoBackup /\ stage = Missing
  /\ rollbackFailed = FALSE /\ outcome = "none"
  /\ running = FALSE /\ steamvr = TRUE
  /\ before = file /\ interfered = FALSE
  /\ budget = [faults |-> MaxFaults, edits |-> MaxEdits, setups |-> MaxSetups]

SetupStep ==
  \/ FindExisting \/ HashRegistry \/ CopyBackup \/ InstallFiles \/ CheckBeforeChange
  \/ RemoveOld \/ FindAgain \/ AddNew \/ VerifyNew
  \/ StageBackup \/ VerifyStage \/ ReplaceRegistry \/ VerifyRestored
  \/ UndoAdd \/ CheckUndone \/ RestoreNext \/ AddOld \/ CheckRestored

UninstallStep ==
  \/ Inspect \/ FindOwn \/ Recheck \/ Unregister \/ VerifyGone \/ DeleteFiles

Environment ==
  \/ Edit \/ Launch \/ Close \/ RemoveSteamVR \/ ReturnSteamVR \/ SpoilBackup \/ Crash

Next == StartSetup \/ StartUninstall \/ SetupStep \/ UninstallStep \/ Environment

Spec == Init /\ [][Next]_vars

\* A program under way goes on; the user closes what blocks the uninstaller, installs
\* SteamVR again where it is needed, and starts the uninstaller again.
FairSpec ==
  /\ Spec
  /\ WF_vars(SetupStep) /\ WF_vars(UninstallStep) /\ WF_vars(StartUninstall)
  /\ WF_vars(Close) /\ WF_vars(ReturnSteamVR)
-------------------------------------------------------------------------------
(* Properties                                                                   *)

BackupType == [copy : Files, hash : Files, ready : BOOLEAN]
PlanType == [mode : {"None", "One", "All"}, paths : SUBSET Copies, at : Copies]

\* Types, with what the steps rely on: a plan to replace one copy names exactly one, and
\* only a backup of a file that was there counts.
TypeOK ==
  /\ file \in Files /\ stage \in Files /\ before \in Files
  /\ {installed, rollbackFailed, running, steamvr, interfered} \subseteq BOOLEAN
  /\ pc \in {"Idle"} \union SetupSteps \union UninstallSteps
  /\ outcome \in {"none", "refused", "ok", "failed"}
  /\ plan \in PlanType
  /\ backup \in BackupType /\ (backup.ready => backup.hash # Missing)
  /\ budget \in [faults : 0 .. MaxFaults, edits : 0 .. MaxEdits, setups : 0 .. MaxSetups]

\* Setup that failed without telling the user that the rollback failed left the registry
\* as it was, entry for entry, unless another program changed it meanwhile
\* (RollBackRegistrationPlan, the messages of CurStepChanged).
RollbackIsHonest ==
  outcome = "failed" /\ ~rollbackFailed /\ ~interfered => file = before

\* Setup that reports success registered this copy, and no other copy, and kept every
\* other driver (the checks around vrpathreg in AddInstalledDriver).
SuccessIsComplete ==
  outcome = "ok" /\ ~interfered =>
    Registered(file) = (Registered(before) \ Copies) \union {App}

\* The program never leaves a registration of a directory it deleted
\* (RemoveInstalledDriver: uncertain means retain the files).
NoDanglingPath == App \in Registered(file) => installed

Restoring == {"Stage", "VerifyStage", "Replace", "VerifyRestored"}

\* Whatever fails during a restore, the registry is either untouched or the exact backup
\* (RestoreRegistrationBackup: an I/O failure could truncate the live file).
RestoreIsExact ==
  [][~interfered' /\ pc \in Restoring => file' \in {file, before}]_vars

\* Once SteamVR can read its registry and at most one other copy is registered, a user
\* who keeps trying gets this copy uninstalled, whatever went wrong earlier.
UninstallEnds ==
  <>[](file # Damaged /\ \A c, d \in OldCopies \intersect Registered(file) : c = d)
    => <>[]~installed
===============================================================================
