----------------------------- MODULE MCSubjects -----------------------------
(* Bounded instances for TLC of three small machines that share no state:   *)
(* the initial state chooses one of them, and only that one moves.           *)
EXTENDS TransitionLog, RegistrationInspection, PoseSlot

VARIABLE subject

\* A second list of paths one edit away from the name, and a nested member with it.
TwoLists ==
  <<"{", "foreign", ":", "[", "other", "]", ",",
         "external_drivers", ":", "[", "this", ",", "other", "]", "}">>
NestedDocument ==
  <<"{", "foreign", ":", "[", "{", "external_drivers", ":", "literal", "}", "]",
    ",", "external_drivers", ":", "[", "this", "]", "}">>
Documents == {TwoLists, NestedDocument, <<"{", "}">>}
EditTokens == {"this", "external_drivers", ",", "[", "remote"}

\* A quarter turn about z and a third of a turn about (1, 1, 1).
Quarter == <<1, 0, 0, 1>>
Third == <<1, 1, 1, 1>>
Negated(q) == [i \in DOMAIN q |-> -q[i]]
Transform(rotation, translation) == [rotation |-> rotation, translation |-> translation]
DriverBodies == {Body(<<1, 2, 3>>, <<1, 1, 0, 0>>, <<0, 1, 2>>), Body(<<0, 1, 2>>, Third, <<1, 2, 3>>)}
\* The first three creep and change sign, and are no change; the last is one.
WorldSpaces == {Transform(Quarter, <<1, 0, 2>>), Transform(Negated(Quarter), <<2, 0, 2>>),
                Transform(Quarter, <<3, 0, 2>>), Transform(Third, <<0, 1, 0>>)}
HeadTransforms == {Transform(<<1, 0, 0, 0>>, <<0, 0, 1>>), Transform(Negated(<<1, 0, 0, 0>>), <<0, 0, 1>>),
                   Transform(Quarter, <<0, 0, 1>>), Transform(Quarter, <<0, 2, 1>>)}

Init ==
  /\ subject \in {"transitions", "registration", "slot"}
  /\ TransitionInit /\ PoseInit
  /\ RegistrationInit
  /\ subject # "registration" => document = <<"{", "}">>

LogSubject(A) ==
  subject = "transitions" /\ A /\ UNCHANGED <<subject, registryVars, poseVars>>
FileSubject(A) ==
  subject = "registration" /\ A /\ UNCHANGED <<subject, transitionVars, poseVars>>
PoseSubject(A) ==
  subject = "slot" /\ A /\ UNCHANGED <<subject, transitionVars, registryVars>>

Next ==
  \/ LogSubject(CallbackChange) \/ LogSubject(WatchdogChange) \/ LogSubject(ClockAdvances)
  \/ LogSubject(FrameBegins)    \/ LogSubject(ResetSlot)      \/ LogSubject(IdentifyOne)
  \/ LogSubject(Load)           \/ LogSubject(Unload)
  \/ FileSubject(ReplaceToken)  \/ FileSubject(RemoveToken)   \/ FileSubject(InsertToken)
  \/ FileSubject(WriteHalf)     \/ FileSubject(LoseAccess)    \/ FileSubject(LoseCopy)
  \/ PoseSubject(InitSlot)      \/ PoseSubject(FilterPose)    \/ PoseSubject(RunFrame)

Spec == Init /\ [][Next]_<<subject, transitionVars, registryVars, poseVars>>

\* Every variable of the three machines has its type.
TypesOK == TransitionTypeOK /\ RegistrationTypeOK /\ SlotTypeOK
=============================================================================
