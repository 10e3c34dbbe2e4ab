----------------------- MODULE DriverRegistrationProofs -----------------------
(* Proofs about DriverRegistration, for any number of copies, drivers, faults   *)
(* and edits: the types, that no registration outlives the files it names, and  *)
(* that what Setup tells the user is true.                                      *)
EXTENDS DriverRegistration, TLAPS

-------------------------------------------------------------------------------
(* Types.                                                                       *)

\* TypeOK is inductive but for the backup between its hash and its copy.
TypeInv == TypeOK /\ (pc = "Copy" => backup.hash # Missing)

\* What the tools may leave in place of the registry is a registry again.
LEMMA FilesClosed ==
  /\ Missing \in Files /\ Damaged \in Files
  /\ \A f \in Files : Registered(f) \subseteq Entries
  /\ \A e \in SUBSET Entries : List(e) \in Files
  /\ App \in Copies /\ Copies \subseteq Entries
<1>1. \A e \in SUBSET Entries : List(e) \in Files /\ Registered(List(e)) \subseteq Entries
  BY DEF Files, List, Registered
<1>2. Missing \in Files /\ Damaged \in Files
      /\ Registered(Missing) \subseteq Entries /\ Registered(Damaged) \subseteq Entries
  BY DEF Files, Missing, Damaged, Registered
<1>3. \A f \in Files : Registered(f) \subseteq Entries
  BY <1>1, <1>2 DEF Files
<1> QED BY <1>1, <1>2, <1>3 DEF Copies, Entries

Budgets == [faults : 0 .. MaxFaults, edits : 0 .. MaxEdits, setups : 0 .. MaxSetups]

\* A bound is spent only while it lasts.
LEMMA BudgetTyped ==
  ASSUME budget \in Budgets
  PROVE  /\ Spend => budget' \in Budgets
         /\ Disturb => budget' \in Budgets
         /\ budget.setups > 0 /\ budget' = [budget EXCEPT !.setups = @ - 1] => budget' \in Budgets
         /\ \A code, list : Found(code, list) => budget' \in Budgets
         /\ \A new, ok : Rewritten(new, ok) => budget' \in Budgets
         /\ \A from, to : Copied(from, to) => budget' \in Budgets
<1> USE BudgetAssumption DEF Budgets
<1>1. Spend => budget' \in Budgets
  BY DEF Spend
<1>2. Disturb => budget' \in Budgets
  BY DEF Disturb
<1>3. budget.setups > 0 /\ budget' = [budget EXCEPT !.setups = @ - 1] => budget' \in Budgets
  OBVIOUS
<1>4. \A code, list : Found(code, list) => budget' \in Budgets
  BY <1>1 DEF Found
<1>5. \A new, ok : Rewritten(new, ok) => budget' \in Budgets
  BY <1>1 DEF Rewritten
<1>6. \A from, to : Copied(from, to) => budget' \in Budgets
  BY <1>1 DEF Copied
<1> QED BY <1>1, <1>2, <1>3, <1>4, <1>5, <1>6

LEMMA RewrittenTyped ==
  ASSUME file \in Files, NEW new \in SUBSET Entries, NEW ok, Rewritten(new, ok)
  PROVE  file' \in Files
BY FilesClosed DEF Rewritten

\* Forgetting a plan and a backup keeps the types of both.
LEMMA NothingPlanned ==
  NoPlan \in PlanType /\ NoBackup \in BackupType /\ ~NoBackup.ready
BY FilesClosed DEF NoPlan, NoBackup, PlanType, BackupType


\* A plan to replace other copies names copies only.
LEMMA TypedFind == ASSUME TypeInv, FindExisting PROVE TypeInv'
<1>1. PICK code \in Codes, list \in SUBSET Copies, consent \in BOOLEAN :
        FindExisting!2!(code, list, consent)
  BY Zenon DEF FindExisting
<1>2. UNCHANGED <<file, stage, before, installed, running, steamvr, interfered>>
  BY DEF FindExisting, world, memory
<1>3. Found(code, list)
  BY <1>1
<1>4. \/ UNCHANGED session /\ pc' \in {"Hash", "Install"}
      \/ /\ plan' = [NoPlan EXCEPT !.mode = IF code = "one" THEN "One" ELSE "All", !.paths = list]
         /\ pc' = "Hash" /\ UNCHANGED <<backup, rollbackFailed, outcome>>
      \/ Finish("refused") /\ UNCHANGED rollbackFailed
  BY <1>1
<1>5. [NoPlan EXCEPT !.mode = IF code = "one" THEN "One" ELSE "All", !.paths = list] \in PlanType
  BY FilesClosed DEF NoPlan, PlanType
<1>6. /\ plan' \in PlanType /\ backup' \in BackupType /\ (backup'.ready => backup'.hash # Missing)
      /\ outcome' \in {"none", "refused", "ok", "failed"} /\ UNCHANGED rollbackFailed
      /\ pc' \in {"Idle"} \union SetupSteps /\ pc' # "Copy"
  BY <1>4, <1>5, NothingPlanned DEF TypeInv, TypeOK, Finish, session, SetupSteps
<1>7. budget' \in Budgets
  BY <1>3, BudgetTyped DEF TypeInv, TypeOK, Budgets
<1> QED BY <1>2, <1>6, <1>7 DEF TypeInv, TypeOK, Budgets

\* A copy counts only with the hash of a registry that was there.
LEMMA TypedCopy == ASSUME TypeInv, CopyBackup PROVE TypeInv'
<1>1. PICK copy \in Files : CopyBackup!2!(copy)
  BY Zenon DEF CopyBackup
<1>2. UNCHANGED <<installed, running, steamvr, before, interfered>> /\ pc = "Copy"
  BY DEF CopyBackup, world, memory
<1>3. backup \in BackupType /\ backup.hash # Missing
  BY <1>2 DEF TypeInv, TypeOK
<1>4. \/ /\ pc' = "Install" /\ backup' = [backup EXCEPT !.copy = copy, !.ready = TRUE]
         /\ UNCHANGED <<file, stage, plan, rollbackFailed, outcome>>
      \/ Finish("refused") /\ UNCHANGED <<file, stage, rollbackFailed>>
  BY <1>1 DEF Refuse
<1>5. [backup EXCEPT !.copy = copy, !.ready = TRUE] \in BackupType
      /\ [backup EXCEPT !.copy = copy, !.ready = TRUE].hash = backup.hash
  BY <1>3 DEF BackupType
<1>6. /\ plan' \in PlanType /\ backup' \in BackupType /\ (backup'.ready => backup'.hash # Missing)
      /\ outcome' \in {"none", "refused", "ok", "failed"} /\ pc' \in {"Idle", "Install"}
      /\ UNCHANGED <<file, stage, rollbackFailed>>
  BY <1>3, <1>4, <1>5, NothingPlanned DEF TypeInv, TypeOK, Finish
<1>7. budget' \in Budgets
  BY <1>1, BudgetTyped DEF TypeInv, TypeOK, Budgets
<1> QED BY <1>2, <1>6, <1>7 DEF TypeInv, TypeOK, Budgets, SetupSteps

\* The steps of Setup up to its verification.
LEMMA TypedInstall ==
  ASSUME TypeInv,
         \/ FindExisting \/ HashRegistry \/ CopyBackup \/ InstallFiles \/ CheckBeforeChange
         \/ RemoveOld \/ FindAgain \/ AddNew \/ VerifyNew
  PROVE  TypeInv'
<1> USE BudgetTyped, FilesClosed, NothingPlanned
    DEF TypeInv, TypeOK, SetupSteps, UninstallSteps, Budgets, Finish, Refuse, session, world, memory
<1>1. CASE FindExisting
  BY <1>1, TypedFind
<1>2. CASE HashRegistry
  <2>1. CASE Refuse
    BY <1>2, <2>1 DEF HashRegistry
  <2>2. CASE file # Missing /\ pc' = "Copy" /\ backup' = [backup EXCEPT !.hash = file]
    <3>1. backup' \in BackupType /\ backup'.hash = file
      BY <2>2 DEF BackupType
    <3> QED BY <1>2, <2>2, <3>1 DEF HashRegistry, CanBackUp
  <2> QED BY <1>2, <2>1, <2>2 DEF HashRegistry, CanBackUp
<1>3. CASE CopyBackup
  BY <1>3, TypedCopy
<1>4. CASE InstallFiles
  BY <1>4 DEF InstallFiles
<1>5. CASE CheckBeforeChange
  BY <1>5 DEF CheckBeforeChange
<1>6. CASE RemoveOld
  BY <1>6, RewrittenTyped DEF RemoveOld, RollBack, Cleaned
<1>7. CASE FindAgain
  BY <1>7 DEF FindAgain
<1>8. CASE AddNew
  BY <1>8, RewrittenTyped DEF AddNew, RollBack
<1>9. CASE VerifyNew
  BY <1>9 DEF VerifyNew, RollBack
<1> QED BY <1>1, <1>2, <1>3, <1>4, <1>5, <1>6, <1>7, <1>8, <1>9

\* The steps of a rollback.
LEMMA TypedRollback ==
  ASSUME TypeInv,
         \/ StageBackup \/ VerifyStage \/ ReplaceRegistry \/ VerifyRestored
         \/ UndoAdd \/ CheckUndone \/ RestoreNext \/ AddOld \/ CheckRestored
  PROVE  TypeInv'
<1> USE BudgetTyped, FilesClosed, NothingPlanned
    DEF TypeInv, TypeOK, SetupSteps, UninstallSteps, Budgets, Finish, RestoreFails,
        session, world, memory
<1>1. CASE StageBackup
  BY <1>1 DEF StageBackup, Copied, BackupType
<1>2. CASE VerifyStage
  BY <1>2 DEF VerifyStage
<1>3. CASE ReplaceRegistry
  BY <1>3 DEF ReplaceRegistry
<1>4. CASE VerifyRestored
  BY <1>4 DEF VerifyRestored
<1>5. CASE UndoAdd
  BY <1>5, RewrittenTyped DEF UndoAdd
<1>6. CASE CheckUndone
  BY <1>6 DEF CheckUndone
<1>7. CASE RestoreNext
  BY <1>7 DEF RestoreNext, PlanType
<1>8. CASE AddOld
  BY <1>8, RewrittenTyped DEF AddOld, PlanType
<1>9. CASE CheckRestored
  BY <1>9 DEF CheckRestored, PlanType
<1> QED BY <1>1, <1>2, <1>3, <1>4, <1>5, <1>6, <1>7, <1>8, <1>9

\* The uninstaller, the starts of both programs and everything else.
LEMMA TypedElse ==
  ASSUME TypeInv, StartSetup \/ StartUninstall \/ UninstallStep \/ Environment \/ UNCHANGED vars
  PROVE  TypeInv'
<1> USE BudgetTyped, FilesClosed, NothingPlanned
    DEF TypeInv, TypeOK, SetupSteps, UninstallSteps, Budgets, Finish, Goto, Abort,
        session, world, memory
<1>1. CASE StartSetup
  BY <1>1 DEF StartSetup
<1>2. CASE StartUninstall
  BY <1>2 DEF StartUninstall
<1>3. CASE Inspect
  BY <1>3 DEF Inspect
<1>4. CASE FindOwn
  BY <1>4 DEF FindOwn
<1>5. CASE Recheck
  BY <1>5 DEF Recheck
<1>6. CASE Unregister
  BY <1>6, RewrittenTyped DEF Unregister
<1>7. CASE VerifyGone
  BY <1>7 DEF VerifyGone
<1>8. CASE DeleteFiles
  BY <1>8 DEF DeleteFiles
<1>9. CASE Edit
  BY <1>9 DEF Edit
<1>10. CASE Launch \/ Close \/ RemoveSteamVR \/ ReturnSteamVR
  <2>1. running' \in BOOLEAN /\ steamvr' \in BOOLEAN
    BY <1>10 DEF Launch, Close, RemoveSteamVR, ReturnSteamVR
  <2>2. budget' \in Budgets
    BY <1>10 DEF Launch, Close, RemoveSteamVR, ReturnSteamVR
  <2>3. UNCHANGED <<file, installed, pc, stage, session, memory>>
    BY <1>10 DEF Launch, Close, RemoveSteamVR, ReturnSteamVR
  <2> QED BY <2>1, <2>2, <2>3
<1>11. CASE SpoilBackup
  <2>1. backup' \in BackupType /\ backup'.ready = backup.ready /\ backup'.hash = backup.hash
    BY <1>11 DEF SpoilBackup, BackupType
  <2> QED BY <1>11, <2>1 DEF SpoilBackup
<1>12. CASE Crash
  BY <1>12 DEF Crash
<1>13. CASE UNCHANGED vars
  BY <1>13 DEF vars
<1> QED BY <1>1, <1>2, <1>3, <1>4, <1>5, <1>6, <1>7, <1>8, <1>9, <1>10, <1>11, <1>12, <1>13
     DEF UninstallStep, Environment

\* Every variable has its type, the plan names copies of this driver only, and a backup
\* that counts is one of a registry that was there (CreateRegistrationBackup).
THEOREM RegistrationTyped == Spec => []TypeOK
<1>1. Init => TypeInv
  <2> SUFFICES ASSUME Init PROVE TypeInv
    OBVIOUS
  <2>1. budget \in [faults : 0 .. MaxFaults, edits : 0 .. MaxEdits, setups : 0 .. MaxSetups]
    BY BudgetAssumption DEF Init
  <2>2. plan \in PlanType /\ backup \in BackupType /\ ~backup.ready
    BY NothingPlanned DEF Init
  <2> QED BY <2>1, <2>2, FilesClosed DEF Init, TypeInv, TypeOK
<1>2. TypeInv /\ [Next]_vars => TypeInv'
  BY TypedInstall, TypedRollback, TypedElse DEF Next, SetupStep
<1>3. TypeInv => TypeOK
  BY DEF TypeInv
<1> QED BY <1>1, <1>2, <1>3, PTL DEF Spec

-------------------------------------------------------------------------------
(* No dangling path.  NoDanglingPath is not inductive: between a verification   *)
(* and the deletion it rests on what the verification saw, and every step of    *)
(* Setup that may register the path comes after the files.                      *)

BeforeFiles == {"Find", "Hash", "Copy", "Install"}

DanglingInv ==
  /\ NoDanglingPath
  /\ pc \in SetupSteps \ BeforeFiles => installed
  /\ pc \in {"RecheckAbsent", "Delete"} => App \notin Registered(file)

\* A file vrpathreg leaves behind lists App only if it did before or was to.
LEMMA RewrittenApp ==
  ASSUME NEW new, NEW ok, Rewritten(new, ok), App \in Registered(file')
  PROVE  App \in Registered(file) \/ App \in new
BY DEF Rewritten, List, Damaged, Registered

\* An answer that excludes App is right.
LEMMA ExcludedApp ==
  ASSUME NEW code, NEW list, Found(code, list), Excludes(App, code, list)
  PROVE  App \notin Registered(file)
BY DEF Found, Excludes, Copies

LEMMA DanglingInit == Init => DanglingInv
BY DEF Init, DanglingInv, NoDanglingPath, SetupSteps

\* The steps of Setup that do not touch the registry.
LEMMA DanglingQuiet ==
  ASSUME DanglingInv,
         \/ FindExisting \/ HashRegistry \/ CopyBackup \/ InstallFiles
         \/ CheckBeforeChange \/ FindAgain \/ VerifyNew \/ StageBackup \/ VerifyStage
         \/ VerifyRestored \/ CheckUndone \/ RestoreNext \/ CheckRestored
  PROVE  DanglingInv'
<1> USE DEF DanglingInv, NoDanglingPath, SetupSteps, BeforeFiles, Finish, Refuse, Goto
<1>1. CASE FindExisting BY <1>1 DEF FindExisting, session
<1>2. CASE HashRegistry BY <1>2 DEF HashRegistry
<1>3. CASE CopyBackup BY <1>3 DEF CopyBackup, Refuse
<1>4. CASE InstallFiles BY <1>4 DEF InstallFiles
<1>5. CASE CheckBeforeChange BY <1>5 DEF CheckBeforeChange
<1>6. CASE FindAgain BY <1>6 DEF FindAgain
<1>7. CASE VerifyNew BY <1>7 DEF VerifyNew, RollBack
<1>8. CASE StageBackup BY <1>8 DEF StageBackup, RestoreFails
<1>9. CASE VerifyStage BY <1>9 DEF VerifyStage, RestoreFails
<1>10. CASE VerifyRestored BY <1>10 DEF VerifyRestored, RestoreFails
<1>11. CASE CheckUndone BY <1>11 DEF CheckUndone
<1>12. CASE RestoreNext BY <1>12 DEF RestoreNext
<1>13. CASE CheckRestored BY <1>13 DEF CheckRestored
<1> QED BY <1>1, <1>2, <1>3, <1>4, <1>5, <1>6, <1>7, <1>8, <1>9, <1>10, <1>11, <1>12, <1>13

\* The steps of Setup that do: its files are there.
LEMMA DanglingChange ==
  ASSUME DanglingInv, RemoveOld \/ AddNew \/ ReplaceRegistry \/ UndoAdd \/ AddOld
  PROVE  DanglingInv'
<1>1. installed /\ UNCHANGED installed
  BY DEF DanglingInv, SetupSteps, BeforeFiles, RemoveOld, AddNew, ReplaceRegistry, UndoAdd, AddOld
<1>2. pc' \in SetupSteps
  BY DEF SetupSteps, RemoveOld, AddNew, ReplaceRegistry, UndoAdd, AddOld,
         RollBack, RestoreFails
<1> QED BY <1>1, <1>2 DEF DanglingInv, NoDanglingPath, SetupSteps

\* The uninstaller deletes the files only after an answer that excludes the path.
LEMMA DanglingUninstall == ASSUME DanglingInv, UninstallStep PROVE DanglingInv'
<1> USE DEF DanglingInv, NoDanglingPath, SetupSteps, BeforeFiles
<1>1. CASE Inspect BY <1>1 DEF Inspect, Goto, Abort, Missing, Registered
<1>2. CASE FindOwn BY <1>2, ExcludedApp DEF FindOwn, Goto, Abort
<1>3. CASE Recheck BY <1>3 DEF Recheck, Goto, Abort
<1>4. CASE Unregister BY <1>4, RewrittenApp DEF Unregister
<1>5. CASE VerifyGone BY <1>5, ExcludedApp DEF VerifyGone, Goto, Gone
<1>6. CASE DeleteFiles BY <1>6 DEF DeleteFiles
<1> QED BY <1>1, <1>2, <1>3, <1>4, <1>5, <1>6 DEF UninstallStep

\* Nobody else registers the path or touches the files.
LEMMA DanglingElse ==
  ASSUME DanglingInv, StartSetup \/ StartUninstall \/ Environment \/ UNCHANGED vars
  PROVE  DanglingInv'
<1> USE DEF DanglingInv, NoDanglingPath, SetupSteps, BeforeFiles
<1>1. CASE StartSetup BY <1>1 DEF StartSetup
<1>2. CASE StartUninstall BY <1>2 DEF StartUninstall
<1>3. CASE Edit BY <1>3 DEF Edit, List, Registered
<1>4. CASE Launch \/ Close \/ RemoveSteamVR \/ ReturnSteamVR \/ SpoilBackup
  BY <1>4 DEF Launch, Close, RemoveSteamVR, ReturnSteamVR, SpoilBackup
<1>5. CASE Crash BY <1>5 DEF Crash, Finish
<1>6. CASE UNCHANGED vars BY <1>6 DEF vars
<1> QED BY <1>1, <1>2, <1>3, <1>4, <1>5, <1>6 DEF Environment

\* Whatever vrpathreg does, whoever edits the registry and wherever the program is
\* killed, SteamVR is never left with the path of a deleted copy (RemoveInstalledDriver).
THEOREM NeverDangling == Spec => []NoDanglingPath
<1>1. DanglingInv /\ [Next]_vars => DanglingInv'
  <2> SUFFICES ASSUME DanglingInv, [Next]_vars PROVE DanglingInv'
    OBVIOUS
  <2>1. CASE SetupStep BY <2>1, DanglingQuiet, DanglingChange DEF SetupStep
  <2>2. CASE UninstallStep BY <2>2, DanglingUninstall
  <2>3. CASE StartSetup \/ StartUninstall \/ Environment \/ UNCHANGED vars
    BY <2>3, DanglingElse
  <2> QED BY <2>1, <2>2, <2>3 DEF Next
<1>2. DanglingInv => NoDanglingPath
  BY DEF DanglingInv
<1> QED BY DanglingInit, <1>1, <1>2, PTL DEF Spec

-------------------------------------------------------------------------------
(* What Setup tells the user is true: RollbackIsHonest, SuccessIsComplete and   *)
(* RestoreIsExact.  Session follows the program's own variables, Registry       *)
(* relates the file to what it was when last checked.                           *)

AfterCheck == {"Remove", "Add", "Verify", "Stage", "VerifyStage", "Replace",
  "VerifyRestored", "Undo", "CheckUndone", "Restore", "AddOld", "CheckRestored"}
Fallback == {"Undo", "CheckUndone", "Restore", "AddOld", "CheckRestored"}
WellFormed(f) == f = Missing \/ f = Damaged \/ f = List(Registered(f))

Session ==
  /\ backup = [copy |-> backup.copy, hash |-> backup.hash, ready |-> backup.ready]
  /\ plan = [mode |-> plan.mode, paths |-> plan.paths, at |-> plan.at]
  /\ WellFormed(file) /\ WellFormed(backup.hash) /\ plan.paths \subseteq Copies
  /\ pc = "Find" => plan = NoPlan /\ ~backup.ready
  /\ pc \in {"Install", "Check"} \union AfterCheck /\ ~backup.ready =>
       plan.paths = {} /\ plan.mode = "None" /\ file # Missing
  /\ pc \in Restoring => backup.ready /\ ~rollbackFailed
  /\ pc \in Fallback /\ backup.ready => rollbackFailed
  /\ pc \in {"AddOld", "CheckRestored"} => backup.ready
  /\ pc = "Replace" => stage = backup.hash
  /\ backup.ready \in BOOLEAN /\ rollbackFailed \in BOOLEAN
  /\ outcome \in {"ok", "failed"} => pc = "Idle"

Registry ==
  /\ pc = "Remove" => file = before
  /\ pc \in AfterCheck /\ backup.ready => backup.hash = before
  /\ pc \in {"Add", "Verify"} =>
       file = Damaged \/ Registered(file) \ Copies = Registered(before) \ Copies
  /\ pc \in {"Add", "Verify", "Undo", "CheckUndone"} /\ ~backup.ready =>
       /\ before = List(Registered(before)) /\ App \notin Registered(before)
       /\ file \in {before, List(Registered(before) \union {App}), Damaged}
  /\ pc = "Restore" /\ ~backup.ready /\ ~rollbackFailed => file = before
  /\ RollbackIsHonest /\ SuccessIsComplete

HonestInv == Session /\ (~interfered => Registry)

LEMMA Kinds ==
  /\ Missing # Damaged
  /\ \A S : List(S) # Missing /\ List(S) # Damaged /\ Registered(List(S)) = S
  /\ Registered(Missing) = {} /\ Registered(Damaged) = {}
<1>1. \A S : List(S).kind = "list" /\ Registered(List(S)) = S
  BY DEF List, Registered
<1>2. Missing.kind = "missing" /\ Damaged.kind = "damaged"
  BY DEF Missing, Damaged
<1>3. Registered(Missing) = {} /\ Registered(Damaged) = {}
  BY DEF Missing, Damaged, Registered
<1> QED BY <1>1, <1>2, <1>3

\* What a rewrite may leave behind.
LEMMA RewrittenTo ==
  ASSUME NEW new, NEW ok \in BOOLEAN, Rewritten(new, ok)
  PROVE  /\ file' \in {file, List(new), Damaged}
         /\ ok => file # Damaged /\ file' \in {file, List(new)}
         /\ file = Damaged => file' = Damaged
BY DEF Rewritten, Readable

\* The final check: this copy is the only one.
LEMMA SoleMeans ==
  ASSUME NEW code, NEW list, Found(code, list), Sole(code, list)
  PROVE  file # Damaged /\ Registered(file) \intersect Copies = {App}
BY DEF Found, Sole, Readable

LEMMA NoneMeans ==
  ASSUME NEW code, NEW list, Found(code, list), code = "none"
  PROVE  file # Damaged /\ Registered(file) \intersect Copies = {}
BY DEF Found, Readable

LEMMA ExcludesMeans ==
  ASSUME NEW code, NEW list, Found(code, list), Excludes(App, code, list)
  PROVE  file # Damaged /\ App \notin Registered(file)
BY DEF Found, Excludes, Readable, Copies

LEMMA HonestInit == Init => HonestInv
<1> SUFFICES ASSUME Init PROVE HonestInv
  OBVIOUS
<1>1. WellFormed(file)
  BY DEF Init, WellFormed, Files, List, Registered
<1> QED BY <1>1 DEF Init, HonestInv, Session, Registry, NoPlan, NoBackup, WellFormed,
  AfterCheck, Restoring, Fallback, RollbackIsHonest, SuccessIsComplete

-------------------------------------------------------------------------------
\* Before the check nothing is promised of the file, and no outcome is out.
LEMMA HonestPrepare ==
  ASSUME HonestInv, StartSetup \/ FindExisting \/ HashRegistry \/ CopyBackup \/ InstallFiles
  PROVE  HonestInv'
<1> USE DEF HonestInv, Session, Registry, AfterCheck, Fallback, Restoring, WellFormed,
  RollbackIsHonest, SuccessIsComplete, Finish
<1>1. CASE StartSetup BY <1>1, Kinds DEF StartSetup, NoPlan, NoBackup, world, memory
<1>2. CASE FindExisting
  <2>1. PICK code \in Codes, list \in SUBSET Copies, consent \in BOOLEAN :
          FindExisting!2!(code, list, consent)
    BY <1>2 DEF FindExisting
  <2> USE <1>2, <2>1, Kinds DEF FindExisting, session, memory, world
  <2>2. CASE code = "none" /\ pc' = "Hash" /\ UNCHANGED session
    BY <2>2
  <2>3. CASE Sole(code, list) /\ pc' = "Install" /\ UNCHANGED session
    BY <2>3, SoleMeans DEF NoPlan
  <2>4. CASE /\ plan' = [NoPlan EXCEPT !.mode = IF code = "one" THEN "One" ELSE "All",
                                       !.paths = list]
             /\ pc' = "Hash" /\ UNCHANGED <<backup, rollbackFailed, outcome>>
    BY <2>4 DEF NoPlan
  <2>5. CASE Finish("refused") /\ UNCHANGED rollbackFailed
    BY <2>5 DEF NoPlan, NoBackup
  <2> QED BY <2>1, <2>2, <2>3, <2>4, <2>5
<1>3. CASE HashRegistry
  <2> USE <1>3, Kinds DEF HashRegistry, memory
  <2>1. CASE Refuse BY <2>1 DEF Refuse, NoPlan, NoBackup
  <2>2. CASE ~Refuse
    <3>1. UNCHANGED <<file, plan, outcome, rollbackFailed>> /\ pc' = "Copy"
      BY <2>2
    <3>2. backup'.hash = file /\ backup'.ready = backup.ready
      BY <2>2
    <3>3. backup' = [copy |-> backup'.copy, hash |-> backup'.hash, ready |-> backup'.ready]
      BY <2>2
    <3> QED BY <3>1, <3>2, <3>3
  <2> QED BY <2>1, <2>2
<1>4. CASE CopyBackup
  <2> USE <1>4, Kinds DEF CopyBackup, memory
  <2>1. CASE Refuse BY <2>1 DEF Refuse, NoPlan, NoBackup
  <2>2. CASE ~Refuse
    <3>1. UNCHANGED <<file, plan, outcome, rollbackFailed>> /\ pc' = "Install"
      BY <2>2
    <3>2. backup'.hash = backup.hash /\ backup'.ready = TRUE
      BY <2>2
    <3>3. backup' = [copy |-> backup'.copy, hash |-> backup'.hash, ready |-> backup'.ready]
      BY <2>2
    <3> QED BY <3>1, <3>2, <3>3
  <2> QED BY <2>1, <2>2
<1>5. CASE InstallFiles
  BY <1>5 DEF InstallFiles, session, memory
<1> QED BY <1>1, <1>2, <1>3, <1>4, <1>5

\* The check fixes what the registry was; removing and adding keep other drivers.
LEMMA HonestReplace ==
  ASSUME HonestInv, CheckBeforeChange \/ RemoveOld \/ FindAgain \/ AddNew \/ VerifyNew
  PROVE  HonestInv'
<1> USE DEF HonestInv, Session, Registry, AfterCheck, Fallback, Restoring, WellFormed,
  RollbackIsHonest, SuccessIsComplete
<1>1. CASE CheckBeforeChange
  <2> USE <1>1, Kinds DEF CheckBeforeChange
  <2>1. CASE pc' = "Remove" /\ UNCHANGED session /\ StillCurrent(backup, file)
    BY <2>1 DEF session, StillCurrent
  <2>2. CASE Finish("failed") /\ UNCHANGED rollbackFailed
    BY <2>2 DEF Finish, NoPlan, NoBackup
  <2> QED BY <2>1, <2>2
<1>2. CASE RemoveOld
  <2>1. PICK ok \in BOOLEAN : Rewritten(Cleaned(plan, file), ok)
                              /\ IF ok THEN pc' = "Add" /\ UNCHANGED session ELSE RollBack
    BY <1>2 DEF RemoveOld
  <2>2. Cleaned(plan, file) \ Copies = Registered(file) \ Copies
    BY DEF Cleaned
  <2>3. backup.ready
    BY <1>2 DEF RemoveOld
  <2>4. WellFormed(file')
    BY <2>1, RewrittenTo, Kinds
  <2>5. ok => Registered(file') \ Copies = Registered(file) \ Copies
    BY <2>1, <2>2, RewrittenTo, Kinds
  <2>6. UNCHANGED <<plan, backup, outcome, before, interfered>>
    BY <1>2, <2>1 DEF RemoveOld, RollBack, session, memory
  <2> QED BY <1>2, <2>1, <2>3, <2>4, <2>5, <2>6 DEF RemoveOld, RollBack, session
<1>3. CASE FindAgain
  <2>1. PICK code \in Codes, list \in SUBSET Copies :
          /\ Found(code, list)
          /\ \/ code = "none" /\ pc' = "Add" /\ UNCHANGED session
             \/ Sole(code, list) /\ Finish("ok") /\ UNCHANGED rollbackFailed
             \/ code # "none" /\ ~Sole(code, list) /\ Finish("failed") /\ UNCHANGED rollbackFailed
    BY <1>3 DEF FindAgain
  <2> USE <1>3, <2>1, Kinds DEF FindAgain, memory
  <2>2. CASE code = "none" /\ pc' = "Add" /\ UNCHANGED session
    <3>1. file # Damaged /\ App \notin Registered(file)
      BY NoneMeans, <2>2 DEF Copies
    <3> QED BY <2>2, <3>1 DEF session
  <2>3. CASE Sole(code, list) /\ Finish("ok") /\ UNCHANGED rollbackFailed
    <3>1. Registered(file) = (Registered(file) \ Copies) \union {App}
      BY <2>3, SoleMeans
    <3> QED BY <2>3, <3>1 DEF Finish, NoPlan, NoBackup
  <2>4. CASE Finish("failed") /\ UNCHANGED rollbackFailed
    BY <2>4 DEF Finish, NoPlan, NoBackup
  <2> QED BY <2>1, <2>2, <2>3, <2>4
<1>4. CASE AddNew
  <2>1. PICK ok \in BOOLEAN : Rewritten(Registered(file) \union {App}, ok)
                              /\ IF ok THEN pc' = "Verify" /\ UNCHANGED session ELSE RollBack
    BY <1>4 DEF AddNew
  <2>2. WellFormed(file') /\ (file # Missing => file' # Missing)
    BY <2>1, RewrittenTo, Kinds
  <2>3. ok => file' = Damaged \/ Registered(file') \ Copies = Registered(file) \ Copies
    <3>1. (Registered(file) \union {App}) \ Copies = Registered(file) \ Copies
      BY DEF Copies
    <3> QED BY <2>1, <3>1, RewrittenTo, Kinds
  <2>4. file' \in {file, List(Registered(file) \union {App}), Damaged}
        /\ (file = Damaged => file' = Damaged)
    BY <2>1, RewrittenTo
  <2>5. UNCHANGED <<plan, backup, outcome, before, interfered>> /\ pc = "Add"
    BY <1>4, <2>1 DEF AddNew, RollBack, session, memory
  <2>6. Session'
    BY <2>1, <2>2, <2>5 DEF RollBack, session
  <2>7. ~interfered => Registry'
    <3> SUFFICES ASSUME ~interfered PROVE Registry'
      OBVIOUS
    <3>1. ~backup.ready => file' \in {before, List(Registered(before) \union {App}), Damaged}
      BY <2>4, <2>5, Kinds
    <3> QED BY <2>1, <2>3, <2>4, <2>5, <3>1, Kinds DEF RollBack, session
  <2> QED BY <2>5, <2>6, <2>7
<1>5. CASE VerifyNew
  <2>1. PICK code \in Codes, list \in SUBSET Copies :
          Found(code, list) /\ IF Sole(code, list) THEN Finish("ok") /\ UNCHANGED rollbackFailed
                               ELSE RollBack
    BY <1>5 DEF VerifyNew
  <2>2. pc = "Verify" /\ UNCHANGED <<file, before, interfered>>
    BY <1>5 DEF VerifyNew, memory
  <2>3. CASE Sole(code, list)
    <3>1. file # Damaged /\ Registered(file) = (Registered(file) \ Copies) \union {App}
      BY <2>1, <2>3, SoleMeans
    <3>2. ~interfered => Registered(file) = (Registered(before) \ Copies) \union {App}
      BY <2>2, <3>1
    <3>3. pc' = "Idle" /\ outcome' = "ok" /\ UNCHANGED rollbackFailed
          /\ plan' = NoPlan /\ backup' = NoBackup
      BY <2>1, <2>3 DEF Finish
    <3> QED BY <2>2, <3>2, <3>3, Kinds DEF NoPlan, NoBackup
  <2>4. CASE ~Sole(code, list)
    BY <2>1, <2>2, <2>4, Kinds DEF RollBack
  <2> QED BY <2>3, <2>4
<1> QED BY <1>1, <1>2, <1>3, <1>4, <1>5

\* Giving up a restore changes nothing and is remembered.
LEMMA RestoreGivesUp ==
  ASSUME HonestInv, RestoreFails, pc \in Restoring, UNCHANGED <<file, before, interfered>>
  PROVE  HonestInv'
BY Kinds DEF HonestInv, Session, Registry, AfterCheck, Fallback, Restoring, WellFormed,
  RollbackIsHonest, SuccessIsComplete, RestoreFails

\* The restore replaces the registry by what was hashed, or gives up.
LEMMA HonestRestore ==
  ASSUME HonestInv, StageBackup \/ VerifyStage \/ ReplaceRegistry \/ VerifyRestored
  PROVE  HonestInv'
<1>1. pc \in Restoring /\ UNCHANGED <<before, interfered>>
  BY DEF StageBackup, VerifyStage, ReplaceRegistry, VerifyRestored, Restoring, memory
<1>2. CASE RestoreFails
  <2>1. ReplaceRegistry => UNCHANGED file
    BY <1>2 DEF ReplaceRegistry, RestoreFails
  <2>2. UNCHANGED file
    BY <2>1 DEF StageBackup, VerifyStage, VerifyRestored
  <2> QED BY <1>1, <1>2, <2>2, RestoreGivesUp
<1> USE DEF HonestInv, Session, Registry, AfterCheck, Fallback, Restoring, WellFormed,
  RollbackIsHonest, SuccessIsComplete
<1>3. CASE StageBackup /\ ~RestoreFails
  <2>1. pc' = "VerifyStage" /\ UNCHANGED <<file, plan, backup, rollbackFailed, outcome>>
    BY <1>3 DEF StageBackup, session
  <2> QED BY <1>1, <2>1
<1>4. CASE VerifyStage /\ ~RestoreFails
  <2>1. pc' = "Replace" /\ UNCHANGED <<file, stage, plan, backup, rollbackFailed, outcome>>
        /\ stage = backup.hash
    BY <1>4 DEF VerifyStage, StageGood, session
  <2> QED BY <1>1, <2>1
<1>5. CASE ReplaceRegistry /\ ~RestoreFails
  <2>1. /\ pc = "Replace" /\ pc' = "VerifyRestored" /\ file' = stage
        /\ UNCHANGED <<plan, backup, rollbackFailed, outcome>>
    BY <1>5 DEF ReplaceRegistry, session
  <2> QED BY <1>1, <2>1
<1>6. CASE VerifyRestored /\ ~RestoreFails
  <2>1. /\ pc = "VerifyRestored" /\ UNCHANGED file /\ file = backup.hash
        /\ Finish("failed") /\ UNCHANGED rollbackFailed
    BY <1>6 DEF VerifyRestored
  <2> QED BY <1>1, <2>1, Kinds DEF Finish, NoPlan, NoBackup
<1> QED BY <1>2, <1>3, <1>4, <1>5, <1>6

\* Without a backup the old registry is the new one less this copy's path, and only an
\* answer that excludes the path keeps the rollback from being called failed.
LEMMA HonestUndo ==
  ASSUME HonestInv, UndoAdd \/ CheckUndone \/ RestoreNext \/ AddOld \/ CheckRestored
  PROVE  HonestInv'
<1> USE DEF HonestInv, Session, Registry, AfterCheck, Fallback, Restoring, WellFormed,
  RollbackIsHonest, SuccessIsComplete
<1>1. CASE UndoAdd
  <2>1. PICK ok \in BOOLEAN : Rewritten(Registered(file) \ {App}, ok)
    BY <1>1 DEF UndoAdd
  <2>2. WellFormed(file') /\ (file # Missing => file' # Missing)
    BY <2>1, RewrittenTo, Kinds
  <2>3. pc = "Undo" /\ pc' = "CheckUndone" /\ UNCHANGED <<plan, backup, rollbackFailed, outcome>>
        /\ UNCHANGED <<before, interfered>>
    BY <1>1 DEF UndoAdd, session, memory
  <2>4. ASSUME ~interfered, ~backup.ready
        PROVE  file' \in {before, List(Registered(before) \union {App}), Damaged}
    <3>1. (Registered(before) \union {App}) \ {App} = Registered(before) \ {App}
      OBVIOUS
    <3>2. Registered(before) \ {App} = Registered(before)
      BY <2>3, <2>4
    <3>3. file = Damaged \/ List(Registered(file) \ {App}) = before
      BY <2>3, <2>4, <3>1, <3>2, Kinds
    <3> QED BY <2>1, <2>3, <2>4, <3>3, RewrittenTo, Kinds
  <2> QED BY <2>2, <2>3, <2>4
<1>2. CASE CheckUndone
  <2>1. PICK code \in Codes, list \in SUBSET Copies :
          /\ Found(code, list)
          /\ rollbackFailed' = (rollbackFailed \/ ~Excludes(App, code, list))
    BY <1>2 DEF CheckUndone
  <2>2. pc = "CheckUndone" /\ pc' = "Restore" /\ UNCHANGED <<file, plan, backup, outcome>>
        /\ UNCHANGED <<before, interfered>>
    BY <1>2 DEF CheckUndone, memory
  <2>3. ASSUME ~interfered, ~backup.ready, ~rollbackFailed' PROVE file = before
    <3>1. file # Damaged /\ App \notin Registered(file)
      BY <2>1, <2>3, ExcludesMeans
    <3> QED BY <2>2, <2>3, <3>1, Kinds
  <2> QED BY <2>1, <2>2, <2>3
<1>3. CASE RestoreNext
  <2>1. pc = "Restore" /\ UNCHANGED <<file, before, interfered>>
    BY <1>3 DEF RestoreNext, memory
  <2>2. CASE plan.paths = {} /\ Finish("failed") /\ UNCHANGED rollbackFailed
    BY <2>1, <2>2, Kinds DEF Finish, NoPlan, NoBackup
  <2>3. CASE \E p \in plan.paths, code \in Codes, list \in SUBSET Copies :
              /\ IF Shows(p, code, list)
                 THEN plan' = [plan EXCEPT !.paths = @ \ {p}] /\ UNCHANGED pc
                 ELSE plan' = [plan EXCEPT !.at = p] /\ pc' = "AddOld"
              /\ UNCHANGED <<backup, rollbackFailed, outcome>>
    <3>1. plan.paths # {} /\ backup.ready
      BY <2>1, <2>3
    <3>2. plan' = [mode |-> plan'.mode, paths |-> plan'.paths, at |-> plan'.at]
          /\ plan'.paths \subseteq Copies /\ pc' \in {"Restore", "AddOld"}
          /\ UNCHANGED <<backup, rollbackFailed, outcome>>
      BY <2>1, <2>3
    <3> QED BY <2>1, <3>1, <3>2
  <2> QED BY <1>3, <2>2, <2>3 DEF RestoreNext
<1>4. CASE AddOld
  <2>1. PICK ok \in BOOLEAN : Rewritten(Registered(file) \union {plan.at}, ok)
    BY <1>4 DEF AddOld
  <2>2. WellFormed(file')
    BY <2>1, RewrittenTo, Kinds
  <2> QED BY <1>4, <2>2 DEF AddOld, session, memory
<1>5. CASE CheckRestored
  BY <1>5, Kinds DEF CheckRestored, memory
<1> QED BY <1>1, <1>2, <1>3, <1>4, <1>5
-------------------------------------------------------------------------------
\* Starting the uninstaller closes the account of the last Setup, and none of its steps
\* belongs to Setup.
LEMMA HonestUninstall ==
  ASSUME HonestInv, StartUninstall \/ UninstallStep
  PROVE  HonestInv'
<1> USE DEF HonestInv, Session, Registry, AfterCheck, Fallback, Restoring, WellFormed,
  RollbackIsHonest, SuccessIsComplete
<1>1. CASE StartUninstall
  BY <1>1, Kinds DEF StartUninstall, world, memory
<1>2. CASE UninstallStep
  <2>1. /\ pc \in UninstallSteps /\ pc' \in UninstallSteps \union {"Idle"}
        /\ UNCHANGED <<plan, backup, rollbackFailed, outcome, before, interfered>>
    BY <1>2 DEF UninstallStep, Inspect, FindOwn, Recheck, Unregister, VerifyGone, DeleteFiles,
       UninstallSteps, Goto, Abort, session, memory
  <2>2. WellFormed(file')
    <3>1. CASE Unregister
      <4>1. PICK ok \in BOOLEAN : Rewritten(Registered(file) \ {App}, ok)
        BY <3>1 DEF Unregister
      <4> QED BY <4>1, RewrittenTo, Kinds
    <3>2. CASE UNCHANGED file
      BY <3>2
    <3> QED BY <1>2, <3>1, <3>2 DEF UninstallStep, Inspect, FindOwn, Recheck, VerifyGone,
         DeleteFiles, Goto, Abort
  <2> QED BY <2>1, <2>2 DEF UninstallSteps
<1> QED BY <1>1, <1>2

\* Others may change the registry, which ends every promise about it, or anything else.
LEMMA HonestElse == ASSUME HonestInv, Environment \/ UNCHANGED vars PROVE HonestInv'
<1> USE DEF HonestInv, Session, Registry, AfterCheck, Fallback, Restoring, WellFormed,
  RollbackIsHonest, SuccessIsComplete
<1>1. CASE Edit
  <2>1. WellFormed(file') /\ file' # Missing /\ interfered'
    BY <1>1, Kinds DEF Edit
  <2> QED BY <1>1, <2>1, Kinds DEF Edit, session
<1>2. CASE Launch \/ Close \/ RemoveSteamVR \/ ReturnSteamVR \/ UNCHANGED vars
  BY <1>2 DEF Launch, Close, RemoveSteamVR, ReturnSteamVR, vars, session, memory
<1>3. CASE SpoilBackup
  <2>1. /\ backup'.hash = backup.hash /\ backup'.ready = backup.ready
        /\ backup' = [copy |-> backup'.copy, hash |-> backup'.hash, ready |-> backup'.ready]
        /\ UNCHANGED <<file, pc, stage, plan, rollbackFailed, outcome, before, interfered>>
    BY <1>3 DEF SpoilBackup, memory
  <2> QED BY <2>1
<1>4. CASE Crash
  BY <1>4, Kinds DEF Crash, Finish, NoPlan, NoBackup, memory
<1> QED BY <1>1, <1>2, <1>3, <1>4 DEF Environment

LEMMA HonestNext == HonestInv /\ [Next]_vars => HonestInv'
BY HonestPrepare, HonestReplace, HonestRestore, HonestUndo, HonestUninstall, HonestElse
   DEF Next, SetupStep

LEMMA HonestAlways == Spec => []HonestInv
BY HonestInit, HonestNext, PTL DEF Spec

\* A failure that is not reported as a failed rollback left the registry as it was,
\* whatever vrpathreg did, unless another program changed it (RollBackRegistrationPlan).
THEOREM RollbackHonest == Spec => []RollbackIsHonest
<1>1. HonestInv => RollbackIsHonest
  BY DEF HonestInv, Registry, RollbackIsHonest
<1> QED BY <1>1, HonestAlways, PTL

\* A success means this copy alone is registered and no other driver was lost
\* (AddInstalledDriver).
THEOREM SuccessComplete == Spec => []SuccessIsComplete
<1>1. HonestInv => SuccessIsComplete
  BY DEF HonestInv, Registry, SuccessIsComplete
<1> QED BY <1>1, HonestAlways, PTL

\* No failure of a restore leaves half a registry (RestoreRegistrationBackup).
THEOREM RestoreExact == Spec => RestoreIsExact
<1>1. HonestInv /\ [Next]_vars =>
        [~interfered' /\ pc \in Restoring => file' \in {file, before}]_vars
  <2> SUFFICES ASSUME HonestInv, Next, ~interfered', pc \in Restoring
               PROVE  file' \in {file, before}
    BY DEF vars
  <2>1. CASE ReplaceRegistry
    <3>1. ~interfered /\ pc = "Replace"
      BY <2>1 DEF ReplaceRegistry, memory
    <3>2. stage = before
      BY <3>1 DEF HonestInv, Session, Registry, Restoring, AfterCheck
    <3> QED BY <2>1, <3>2 DEF ReplaceRegistry
  <2>2. CASE StageBackup \/ VerifyStage \/ VerifyRestored
    BY <2>2 DEF StageBackup, VerifyStage, VerifyRestored
  <2>3. CASE Environment
    BY <2>3 DEF Environment, Edit, Launch, Close, RemoveSteamVR, ReturnSteamVR, SpoilBackup, Crash
  <2>4. CASE StartSetup \/ StartUninstall \/ UninstallStep
    BY <2>4 DEF StartSetup, StartUninstall, UninstallStep, Inspect, FindOwn, Recheck,
       Unregister, VerifyGone, DeleteFiles, Restoring
  <2>5. CASE \/ FindExisting \/ HashRegistry \/ CopyBackup \/ InstallFiles \/ CheckBeforeChange
             \/ RemoveOld \/ FindAgain \/ AddNew \/ VerifyNew
             \/ UndoAdd \/ CheckUndone \/ RestoreNext \/ AddOld \/ CheckRestored
    BY <2>5 DEF FindExisting, HashRegistry, CopyBackup, InstallFiles, CheckBeforeChange,
       RemoveOld, FindAgain, AddNew, VerifyNew, UndoAdd, CheckUndone, RestoreNext, AddOld,
       CheckRestored, Restoring
  <2> QED BY <2>1, <2>2, <2>3, <2>4, <2>5 DEF Next, SetupStep
<1> QED BY <1>1, HonestAlways, PTL DEF Spec, RestoreIsExact
===============================================================================
