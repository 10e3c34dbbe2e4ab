------------------------- MODULE DeviceRegistryProofs -------------------------
(* Proofs about DeviceRegistry.  Each invariant is strengthened by what the    *)
(* thread of RunFrame and the callbacks know at their program counters.        *)
EXTENDS DeviceRegistry, TLAPS

\* The labels at which a pass has taken a device out of the mask and not yet let go of it.
Querying == {"class", "identity", "metadata", "kind", "back off"}

-------------------------------------------------------------------------------
(* Lemmas about the operators.                                                 *)

\* The backoff in units of 100 ms: it doubles, up to 1 s.
LEMMA Delays ==
  /\ Delay(0) = 1 /\ Delay(1) = 2 /\ Delay(2) = 4 /\ Delay(3) = 8 /\ Delay(4) = 10
<1>1. 2 ^ 0 = 1 /\ 2 ^ 1 = 2 /\ 2 ^ 2 = 4 /\ 2 ^ 3 = 8 /\ 2 ^ 4 = 16
  OBVIOUS
<1> QED BY <1>1 DEF Delay, AtMost

LEMMA DelayTyped ==
  ASSUME NEW n \in 0 .. 4
  PROVE  Delay(n) \in 1 .. 10 /\ NextAttempt(n) \in 0 .. 4
<1>1. n = 0 \/ n = 1 \/ n = 2 \/ n = 3 \/ n = 4
  OBVIOUS
<1> QED BY <1>1, Delays DEF NextAttempt, AtMost

LEMMA SinceCapIs == SinceCap \in Nat /\ SinceCap = 10 + ScanCap /\ ScanCap \in Nat
BY RegistryAssumption DEF SinceCap

LEMMA IdentityCount == Len(IdentityProps) = 7
BY DEF IdentityProps

LEMMA IdentityPropsAre ==
  /\ \A i \in 1 .. 7 : IdentityProps[i] \in Props
  /\ \A p \in Props \ {"class"} : \E i \in 1 .. 7 : IdentityProps[i] = p
  /\ Props = {"class", "serial", "model", "registered", "system", "actual", "controller", "maker"}
BY DEF IdentityProps, Props

\* The pass between two calls of RunFrame.
LEMMA ScanIdles ==
  /\ IdleScan \in ScanType /\ IdleScan.at = "idle" /\ IdleScan.dev = NoDevice
  /\ IdleScan.pending = {} /\ IdleScan.deferred = {} /\ IdleScan.age = 0
BY RegistryAssumption, IdentityCount DEF IdleScan, ScanType, NothingRead, Answers, Kinds

\* What a callback goes on with.
LEMMA AfterCallback ==
  ASSUME NEW c, NEW d, Callback(c, d)
  PROVE  \/ caller' = [caller EXCEPT ![c] = [at |-> "request", dev |-> d]]
         \/ /\ caller' = [caller EXCEPT ![c] = [at |-> "read metadata", dev |-> d]]
            /\ kind[d] = "ViveTracker"
         \/ caller' = [caller EXCEPT ![c] = IdleCaller]
<1> DEFINE now == CASE kind[d] = "Unknown"     -> [at |-> "request", dev |-> d]
                    [] kind[d] = "ViveTracker" -> [at |-> "read metadata", dev |-> d]
                    [] OTHER                   -> IdleCaller
<1>1. caller' = [caller EXCEPT ![c] = now]
  BY Zenon DEF Callback
<1>2. \/ now = [at |-> "request", dev |-> d]
      \/ now = [at |-> "read metadata", dev |-> d] /\ kind[d] = "ViveTracker"
      \/ now = IdleCaller
  BY Zenon
<1> HIDE DEF now
<1> QED BY <1>1, <1>2

-------------------------------------------------------------------------------
(* Types.                                                                      *)

\* TypeOK alone is not inductive: what a pass writes is typed because it holds a device,
\* and what a request adds to the mask because its caller does.
TypeInv ==
  /\ TypeOK
  /\ \A c \in Callers : caller[c].at # "idle" => caller[c].dev \in Devices
  /\ IF scan.at \in Querying THEN scan.dev \in Devices ELSE scan.dev = NoDevice
  /\ scan.at = "identity" => scan.step >= 1
  /\ scan.at = "idle" => scan = IdleScan

LEMMA TypeInit == Init => TypeInv
<1> SUFFICES ASSUME Init PROVE TypeInv
  OBVIOUS
<1>1. IdleScan \in ScanType
  BY ScanIdles
<1>2. answers \in [Devices -> [Props -> Answers]]
  BY RegistryAssumption DEF Init, Answers
<1>3. SinceCap \in Nat
  BY RegistryAssumption DEF SinceCap
<1>4. TypeOK
  BY <1>1, <1>2, <1>3, RegistryAssumption
     DEF Init, TypeOK, Kinds, NoMetadata, Answers, IdleCaller
<1> QED BY <1>4 DEF Init, TypeInv, IdleScan, IdleCaller, Querying

\* The callbacks.
LEMMA TypeCallers ==
  ASSUME TypeInv, NEW c \in Callers, NEW d,
         (d \in Devices /\ Callback(c, d)) \/ Request(c) \/ ReadMetadata(c)
  PROVE  TypeInv'
<1> USE DEF TypeInv, TypeOK, registry, external, history
<1>1. CASE d \in Devices /\ Callback(c, d)
  <2>1. UNCHANGED <<registry, mask, external, scan, session, history>>
    BY <1>1 DEF Callback
  <2>2. \/ caller' = [caller EXCEPT ![c] = [at |-> "request", dev |-> d]]
        \/ caller' = [caller EXCEPT ![c] = [at |-> "read metadata", dev |-> d]]
        \/ caller' = [caller EXCEPT ![c] = IdleCaller]
    BY <1>1, AfterCallback
  <2>3. CASE caller' = [caller EXCEPT ![c] = [at |-> "request", dev |-> d]]
    BY <1>1, <2>1, <2>3
  <2>4. CASE caller' = [caller EXCEPT ![c] = [at |-> "read metadata", dev |-> d]]
    BY <1>1, <2>1, <2>4
  <2>5. CASE caller' = [caller EXCEPT ![c] = IdleCaller]
    BY <2>1, <2>5 DEF IdleCaller
  <2> QED BY <2>2, <2>3, <2>4, <2>5
<1>2. CASE Request(c)
  BY <1>2 DEF Request, IdleCaller
<1>3. CASE ReadMetadata(c)
  BY <1>3 DEF ReadMetadata, IdleCaller
<1> QED BY <1>1, <1>2, <1>3

-------------------------------------------------------------------------------
(* The steps of a pass, field by field.                                        *)

LEMMA ScanExchange ==
  ASSUME TypeInv, Exchange
  PROVE  /\ scan' \in ScanType /\ scan'.at = "next" /\ scan'.dev = NoDevice
         /\ scan'.pending = mask /\ scan'.due = {d \in Devices : wait[d] = 0}
         /\ scan'.deferred = {} /\ scan'.age = 0
<1>1. mask \subseteq Devices
  BY DEF TypeInv, TypeOK
<1>2. scan' = [IdleScan EXCEPT !.at = "next", !.pending = mask,
                               !.due = {d \in Devices : wait[d] = 0}]
  BY DEF Exchange
<1> QED BY ScanIdles, <1>1, <1>2 DEF ScanType

\* Skip, Defer, StartQuery: one device leaves what is pending.
LEMMA ScanTakes ==
  ASSUME scan \in ScanType, NEW d \in Devices, Skip(d) \/ Defer(d) \/ StartQuery(d)
  PROVE  /\ scan' \in ScanType /\ scan'.pending = scan.pending \ {d}
         /\ scan'.due = scan.due /\ scan'.age = scan.age
         /\ scan'.read = scan.read /\ scan'.retry = scan.retry
         /\ scan'.deferred = IF Defer(d) THEN scan.deferred \cup {d} ELSE scan.deferred
         /\ scan'.at = IF StartQuery(d) THEN "class" ELSE "next"
         /\ scan'.dev = IF StartQuery(d) THEN d ELSE scan.dev
<1>1. CASE Skip(d)
  <2>1. scan.at = "next" /\ scan' = [scan EXCEPT !.pending = @ \ {d}] /\ ~Defer(d) /\ ~StartQuery(d)
    BY <1>1 DEF Skip, Defer, StartQuery
  <2> QED BY <2>1 DEF ScanType
<1>2. CASE Defer(d)
  <2>1. /\ scan.at = "next" /\ ~StartQuery(d)
        /\ scan' = [scan EXCEPT !.pending = @ \ {d}, !.deferred = @ \cup {d}]
    BY <1>2 DEF Defer, StartQuery
  <2> QED BY <1>2, <2>1 DEF ScanType
<1>3. CASE StartQuery(d)
  <2>1. /\ scan.at = "next" /\ ~Defer(d)
        /\ scan' = [scan EXCEPT !.at = "class", !.pending = @ \ {d}, !.dev = d]
    BY <1>3 DEF Defer, StartQuery
  <2> QED BY <1>3, <2>1 DEF ScanType
<1> QED BY <1>1, <1>2, <1>3

\* What no step of a query changes.
Kept == /\ scan'.pending = scan.pending /\ scan'.due = scan.due /\ scan'.deferred = scan.deferred
        /\ scan'.age = scan.age /\ scan'.dev = scan.dev

LEMMA ScanClass ==
  ASSUME TypeInv, QueryClass
  PROVE  LET answer == answers[scan.dev]["class"] IN
         /\ scan' \in ScanType /\ Kept
         /\ \/ answer = "match" /\ scan'.at = "identity" /\ scan'.step = 1
            \/ answer = "other" /\ scan'.at = "metadata" /\ scan'.result = "Other"
            \/ scan'.at = "back off"
<1> DEFINE answer == answers[scan.dev]["class"]
<1>1. \/ answer = "match" /\ scan' = [scan EXCEPT !.at = "identity", !.step = 1]
      \/ answer = "other" /\ scan' = [scan EXCEPT !.at = "metadata", !.result = "Other"]
      \/ scan' = [scan EXCEPT !.at = "back off", !.retry = (answer = "pending")]
  BY Zenon DEF QueryClass
<1>2. scan \in ScanType
  BY DEF TypeInv, TypeOK
<1>3. scan' = [scan EXCEPT !.at = "identity", !.step = 1]
        => scan' \in ScanType /\ Kept /\ scan'.at = "identity" /\ scan'.step = 1
  <2>1. 1 \in 0 .. Len(IdentityProps) + 1
    BY IdentityCount
  <2> QED BY <1>2, <2>1 DEF ScanType, Kept
<1>4. scan' = [scan EXCEPT !.at = "metadata", !.result = "Other"]
        => scan' \in ScanType /\ Kept /\ scan'.at = "metadata" /\ scan'.result = "Other"
  BY <1>2 DEF ScanType, Kinds, Kept
<1>5. ASSUME NEW retry \in BOOLEAN, scan' = [scan EXCEPT !.at = "back off", !.retry = retry]
      PROVE  scan' \in ScanType /\ Kept /\ scan'.at = "back off"
  BY <1>2, <1>5 DEF ScanType, Kept
<1>6. (answer = "pending") \in BOOLEAN
  OBVIOUS
<1> QED BY <1>1, <1>3, <1>4, <1>5, <1>6

LEMMA ScanIdentity ==
  ASSUME TypeInv, QueryIdentity
  PROVE  /\ scan.step \in 1 .. 7
         /\ LET p == IdentityProps[scan.step]
                answer == answers[scan.dev][p]
            IN
            /\ scan' \in ScanType /\ Kept /\ scan'.at = "identity"
            /\ p \in Props /\ answer \in Answers
            /\ scan'.read = [scan.read EXCEPT ![p] = IF answer = "pending" THEN "empty" ELSE answer]
            /\ scan'.retry = Retry(answer) /\ scan'.step = scan.step + 1
<1> DEFINE p == IdentityProps[scan.step]
           answer == answers[scan.dev][p]
           read == [scan.read EXCEPT ![p] = IF answer = "pending" THEN "empty" ELSE answer]
           retry == Retry(answer)
<1>1. scan.at = "identity" /\ scan.step >= 1 /\ scan.step <= Len(IdentityProps)
  BY DEF QueryIdentity, TypeInv
<1>2. scan \in ScanType /\ answers \in [Devices -> [Props -> Answers]] /\ scan.dev \in Devices
  BY <1>1 DEF TypeInv, TypeOK, Querying
<1>3. scan.step \in 0 .. Len(IdentityProps) + 1 /\ scan.read \in [Props -> Answers]
      /\ scan.retry \in BOOLEAN
  BY <1>2 DEF ScanType
<1>4. scan.step \in 1 .. 7 /\ scan.step + 1 \in 0 .. Len(IdentityProps) + 1
  BY <1>1, <1>3, IdentityCount
<1>5. p \in Props
  BY <1>4, IdentityPropsAre
<1>6. answer \in Answers
  BY <1>2, <1>5
<1>7. read \in [Props -> Answers] /\ retry \in BOOLEAN
  BY <1>3, <1>5, <1>6 DEF Answers, Retry
<1>8. scan' = [scan EXCEPT !.read = read, !.retry = retry, !.step = @ + 1]
  BY DEF QueryIdentity
<1> HIDE DEF read, retry
<1>9. /\ scan' \in ScanType /\ Kept /\ scan'.at = "identity"
      /\ scan'.read = read /\ scan'.retry = retry /\ scan'.step = scan.step + 1
  BY <1>1, <1>2, <1>4, <1>7, <1>8 DEF ScanType, Kept
<1> QED BY <1>4, <1>5, <1>6, <1>9 DEF read, retry

LEMMA ScanDecides ==
  ASSUME scan \in ScanType, Decide
  PROVE  /\ scan' \in ScanType /\ Kept
         /\ \/ Identify(scan.read) /\ scan'.at = "metadata" /\ scan'.result = "ViveTracker"
            \/ /\ ~Identify(scan.read) /\ ~scan.retry
               /\ scan'.at = "metadata" /\ scan'.result = "Other"
            \/ scan'.at = "back off"
<1>1. \/ /\ Identify(scan.read)
         /\ scan' = [scan EXCEPT !.at = "metadata", !.result = "ViveTracker"]
      \/ /\ ~Identify(scan.read) /\ ~scan.retry
         /\ scan' = [scan EXCEPT !.at = "metadata", !.result = "Other"]
      \/ scan' = [scan EXCEPT !.at = "back off"]
  BY Zenon DEF Decide
<1>2. scan' = [scan EXCEPT !.at = "metadata", !.result = "ViveTracker"]
        => scan' \in ScanType /\ Kept /\ scan'.at = "metadata" /\ scan'.result = "ViveTracker"
  BY DEF ScanType, Kinds, Kept
<1>3. scan' = [scan EXCEPT !.at = "metadata", !.result = "Other"]
        => scan' \in ScanType /\ Kept /\ scan'.at = "metadata" /\ scan'.result = "Other"
  BY DEF ScanType, Kinds, Kept
<1>4. scan' = [scan EXCEPT !.at = "back off"]
        => scan' \in ScanType /\ Kept /\ scan'.at = "back off"
  BY DEF ScanType, Kept
<1> QED BY <1>1, <1>2, <1>3, <1>4

LEMMA ScanPublishes ==
  ASSUME scan \in ScanType, PublishMetadata
  PROVE  scan' \in ScanType /\ Kept /\ scan'.at = "kind" /\ scan'.result = scan.result
<1>1. scan' = [scan EXCEPT !.at = "kind"]
  BY DEF PublishMetadata
<1> QED BY <1>1 DEF ScanType, Kept

\* Time that passes in a pass.
LEMMA ScanTicks ==
  ASSUME scan \in ScanType, Tick
  PROVE  /\ scan' \in ScanType /\ scan'.at = scan.at /\ scan'.dev = scan.dev
         /\ scan'.step = scan.step /\ scan'.pending = scan.pending /\ scan'.due = scan.due
         /\ scan'.deferred = scan.deferred /\ scan'.read = scan.read
         /\ scan'.retry = scan.retry /\ scan'.result = scan.result
         /\ IF scan.at = "idle" THEN scan' = scan
            ELSE scan'.age = scan.age + 1 /\ scan'.age <= ScanCap
<1>1. scan.age \in 0 .. ScanCap /\ ScanCap \in Nat
  BY RegistryAssumption DEF ScanType
<1>2. CASE scan.at = "idle"
  BY <1>2 DEF Tick
<1>3. CASE scan.at # "idle"
  <2>1. scan' = [scan EXCEPT !.age = @ + 1] /\ scan.age < ScanCap
    BY <1>3 DEF Tick
  <2>2. scan.age + 1 \in 0 .. ScanCap
    BY <1>1, <2>1
  <2>3. /\ scan' \in ScanType /\ scan'.at = scan.at /\ scan'.dev = scan.dev
        /\ scan'.step = scan.step /\ scan'.pending = scan.pending /\ scan'.due = scan.due
        /\ scan'.deferred = scan.deferred /\ scan'.read = scan.read
        /\ scan'.retry = scan.retry /\ scan'.result = scan.result
        /\ scan'.age = scan.age + 1
    BY <2>1, <2>2 DEF ScanType
  <2>4. scan'.age <= ScanCap
    BY <1>1, <2>2, <2>3
  <2> QED BY <1>3, <2>3, <2>4
<1> QED BY <1>2, <1>3

\* PublishKind and BackOff: on to the next device.
LEMMA NextTyped ==
  ASSUME scan \in ScanType
  PROVE  LET s == NextOne(scan) IN
         /\ s \in ScanType /\ s.at = "next" /\ s.dev = NoDevice /\ s.pending = scan.pending
         /\ s.due = scan.due /\ s.age = scan.age /\ s.deferred = scan.deferred
<1>1. NothingRead \in [Props -> Answers]
  BY DEF NothingRead, Answers
<1> DEFINE r == [scan EXCEPT !.at = "next", !.dev = NoDevice, !.step = 0]
           s == [r EXCEPT !.read = NothingRead, !.retry = FALSE, !.result = "Unknown"]
<1>2. 0 \in 0 .. Len(IdentityProps) + 1
  BY IdentityCount
<1>3. /\ r \in ScanType /\ r.at = "next" /\ r.dev = NoDevice /\ r.pending = scan.pending
      /\ r.due = scan.due /\ r.age = scan.age /\ r.deferred = scan.deferred
  BY <1>2 DEF ScanType
<1> HIDE DEF r
<1>4. /\ s \in ScanType /\ s.at = "next" /\ s.dev = NoDevice /\ s.pending = scan.pending
      /\ s.due = scan.due /\ s.age = scan.age /\ s.deferred = scan.deferred
  BY <1>1, <1>3 DEF ScanType, Kinds
<1>5. NextOne(scan) = s
  BY DEF NextOne, r
<1> HIDE DEF s
<1> QED BY <1>4, <1>5

LEMMA ScanKind ==
  ASSUME scan \in ScanType, PublishKind
  PROVE  /\ scan' \in ScanType /\ scan'.at = "next" /\ scan'.dev = NoDevice
         /\ scan'.pending = scan.pending /\ scan'.due = scan.due /\ scan'.age = scan.age
         /\ scan'.deferred = scan.deferred
BY NextTyped DEF PublishKind

LEMMA ScanBackOff ==
  ASSUME TypeInv, BackOff
  PROVE  /\ scan' \in ScanType /\ scan'.at = "next" /\ scan'.dev = NoDevice
         /\ scan'.pending = scan.pending /\ scan'.due = scan.due /\ scan'.age = scan.age
         /\ scan'.deferred = scan.deferred \cup IF scan.retry THEN {scan.dev} ELSE {}
<1>1. scan \in ScanType /\ scan.dev \in Devices
  BY DEF BackOff, TypeInv, TypeOK, Querying
<1> DEFINE s == NextOne(scan)
           late == IF scan.retry THEN {scan.dev} ELSE {}
<1>2. /\ s \in ScanType /\ s.at = "next" /\ s.dev = NoDevice /\ s.pending = scan.pending
      /\ s.due = scan.due /\ s.age = scan.age /\ s.deferred = scan.deferred
  BY <1>1, NextTyped
<1>3. scan' = [s EXCEPT !.deferred = IF scan.retry THEN @ \cup {scan.dev} ELSE @]
  BY DEF BackOff
<1>4. late \in SUBSET Devices
  BY <1>1
<1> HIDE DEF s
<1>5. scan' = [s EXCEPT !.deferred = @ \cup late]
  BY <1>3
<1> HIDE DEF late
<1>6. /\ scan' \in ScanType /\ scan'.at = "next" /\ scan'.dev = NoDevice
      /\ scan'.pending = scan.pending /\ scan'.due = scan.due /\ scan'.age = scan.age
      /\ scan'.deferred = scan.deferred \cup late
  BY <1>2, <1>4, <1>5 DEF ScanType
<1> QED BY <1>6 DEF late

-------------------------------------------------------------------------------
(* The pass of RunFrame keeps the types.                                       *)

\* What is left to show when a step leaves the callbacks alone and is at scan'.at.
ScanTyped ==
  /\ scan' \in ScanType
  /\ IF scan'.at \in Querying THEN scan'.dev \in Devices ELSE scan'.dev = NoDevice
  /\ scan'.at = "identity" => scan'.step >= 1
  /\ scan'.at = "idle" => scan' = IdleScan

LEMMA TypeScanTyped == ASSUME TypeInv, ScanStep PROVE ScanTyped
<1>1. scan \in ScanType /\ kind \in [Devices -> Kinds]
  BY DEF TypeInv, TypeOK
<1>2. IF scan.at \in Querying THEN scan.dev \in Devices ELSE scan.dev = NoDevice
  BY DEF TypeInv
<1> USE DEF ScanTyped, Querying
<1>3. CASE Exchange
  BY <1>3, ScanExchange
<1>4. ASSUME NEW d \in Devices, Skip(d) \/ Defer(d) \/ StartQuery(d) PROVE ScanTyped
  <2>1. scan.at = "next"
    BY <1>4 DEF Skip, Defer, StartQuery
  <2> QED BY <1>1, <1>2, <1>4, <2>1, ScanTakes
<1>5. CASE QueryClass
  <2>1. scan.at = "class"
    BY <1>5 DEF QueryClass
  <2>2. scan' \in ScanType /\ scan'.dev = scan.dev /\ scan'.at \in Querying
    BY <1>5, ScanClass DEF Kept
  <2>3. scan'.at = "identity" => scan'.step >= 1
    BY <1>5, ScanClass
  <2> QED BY <1>2, <2>1, <2>2, <2>3
<1>6. CASE QueryIdentity
  <2>1. scan.at = "identity"
    BY <1>6 DEF QueryIdentity
  <2>2. scan' \in ScanType /\ scan'.dev = scan.dev /\ scan'.at = "identity"
    BY <1>6, ScanIdentity DEF Kept
  <2>3. scan'.step >= 1
    BY <1>6, ScanIdentity
  <2> QED BY <1>2, <2>1, <2>2, <2>3
<1>7. CASE Decide
  <2>1. scan.at = "identity"
    BY <1>7 DEF Decide
  <2> QED BY <1>1, <1>2, <1>7, <2>1, ScanDecides DEF Kept
<1>8. CASE PublishMetadata
  <2>1. scan.at = "metadata"
    BY <1>8 DEF PublishMetadata
  <2> QED BY <1>1, <1>2, <1>8, <2>1, ScanPublishes DEF Kept
<1>9. CASE PublishKind \/ BackOff
  BY <1>1, <1>9, ScanKind, ScanBackOff
<1>10. CASE EndScan
  BY <1>10, ScanIdles DEF EndScan
<1> QED BY <1>3, <1>4, <1>5, <1>6, <1>7, <1>8, <1>9, <1>10 DEF ScanStep

LEMMA TypeScan == ASSUME TypeInv, ScanStep PROVE TypeInv'
<1>1. ScanTyped
  BY TypeScanTyped
<1>2. /\ scan \in ScanType /\ kind \in [Devices -> Kinds] /\ mask \subseteq Devices
      /\ wait \in [Devices -> 0 .. 10] /\ attempts \in [Devices -> 0 .. 4]
      /\ metadata \in [Devices -> [MetadataProps -> Answers]]
      /\ tries \in [Devices -> 0 .. 5] /\ since \in [Devices -> 0 .. SinceCap]
      /\ asked \subseteq Devices
  BY DEF TypeInv, TypeOK
<1>3. /\ scan.pending \subseteq Devices /\ scan.deferred \subseteq Devices
      /\ scan.read \in [Props -> Answers] /\ scan.result \in Kinds /\ scan.age \in 0 .. ScanCap
  BY <1>2 DEF ScanType
\* The variables that a step writes besides scan.
<1>4. SUFFICES
        /\ kind' \in [Devices -> Kinds] /\ mask' \subseteq Devices /\ asked' \subseteq Devices
        /\ metadata' \in [Devices -> [MetadataProps -> Answers]]
        /\ wait' \in [Devices -> 0 .. 10] /\ attempts' \in [Devices -> 0 .. 4]
        /\ tries' \in [Devices -> 0 .. 5] /\ since' \in [Devices -> 0 .. SinceCap]
        /\ UNCHANGED <<truth, answers, caller, session>>
  BY <1>1 DEF TypeInv, TypeOK, ScanTyped
<1> USE DEF registry, external, history
<1>5. CASE Exchange
  BY <1>2, <1>5 DEF Exchange
<1>6. ASSUME NEW d \in Devices, Skip(d) PROVE <1>4!1
  BY <1>2, <1>6 DEF Skip
<1>7. ASSUME NEW d \in Devices, Defer(d) PROVE <1>4!1
  BY <1>2, <1>7 DEF Defer, Untouched
<1>8. ASSUME NEW d \in Devices, StartQuery(d) PROVE <1>4!1
  <2>1. scan.age \in 0 .. SinceCap
    BY <1>3, SinceCapIs
  <2> QED BY <1>2, <1>8, <2>1 DEF StartQuery
<1>9. CASE QueryClass \/ QueryIdentity \/ Decide
  BY <1>2, <1>9, Zenon DEF QueryClass, QueryIdentity, Decide
<1>10. CASE PublishMetadata
  <2>1. MetadataOf(scan.read) \in [MetadataProps -> Answers]
    <3>1. MetadataProps \subseteq Props
      BY IdentityPropsAre DEF MetadataProps
    <3> QED BY <1>3, <3>1 DEF MetadataOf, Answers
  <2> QED BY <1>2, <1>10, <2>1 DEF PublishMetadata
<1>11. CASE PublishKind
  BY <1>2, <1>3, <1>11 DEF PublishKind
<1>12. CASE BackOff
  <2>1. scan.dev \in Devices
    BY <1>12 DEF BackOff, TypeInv, Querying
  <2>2. attempts[scan.dev] \in 0 .. 4 /\ tries[scan.dev] \in 0 .. 5
    BY <1>2, <2>1
  <2> DEFINE delay == Delay(attempts[scan.dev])
             left == IF delay > scan.age THEN delay - scan.age ELSE 0
  <2>3. delay \in 1 .. 10 /\ NextAttempt(attempts[scan.dev]) \in 0 .. 4
    BY <2>2, DelayTyped
  <2>4. AtMost(tries[scan.dev] + 1, 5) \in 0 .. 5
    BY <2>2 DEF AtMost
  <2> HIDE DEF delay
  <2>5. left \in 0 .. 10
    BY <1>3, <2>3, SinceCapIs
  <2>6. /\ wait' = [wait EXCEPT ![scan.dev] = left]
        /\ attempts' = [attempts EXCEPT ![scan.dev] = NextAttempt(@)]
        /\ tries' = [tries EXCEPT ![scan.dev] = AtMost(@ + 1, 5)]
        /\ asked' = IF scan.retry THEN asked ELSE asked \ {scan.dev}
        /\ UNCHANGED <<kind, metadata, mask, external, caller, session, since>>
    BY <1>12 DEF BackOff, delay
  <2> HIDE DEF left
  <2> QED BY <1>2, <2>1, <2>3, <2>4, <2>5, <2>6
<1>13. CASE EndScan
  BY <1>2, <1>3, <1>13 DEF EndScan, PutBack
<1> QED BY <1>5, <1>6, <1>7, <1>8, <1>9, <1>10, <1>11, <1>12, <1>13 DEF ScanStep

\* The clock, SteamVR and Init.
LEMMA TypeElse ==
  ASSUME TypeInv, \/ \E d \in Devices, p \in Props : Publish(d, p)
                  \/ Tick \/ Reset \/ UNCHANGED vars
  PROVE  TypeInv'
<1> USE DEF TypeInv, TypeOK, registry, external, history
<1>1. ASSUME NEW d \in Devices, NEW p \in Props, Publish(d, p) PROVE TypeInv'
  <2>1. truth[d][p] \in Answers
    BY RegistryAssumption
  <2> QED BY <1>1, <2>1 DEF Publish
<1>2. CASE Tick
  <2>1. /\ scan' \in ScanType /\ scan'.at = scan.at /\ scan'.dev = scan.dev
        /\ scan'.step = scan.step /\ (scan.at = "idle" => scan' = scan)
    BY <1>2, ScanTicks
  <2>2. wait \in [Devices -> 0 .. 10] /\ since \in [Devices -> 0 .. SinceCap]
    OBVIOUS
  <2> HIDE DEF TypeInv, TypeOK, registry, external, history
  <2>3. since' \in [Devices -> 0 .. SinceCap] /\ wait' \in [Devices -> 0 .. 10]
    BY <1>2, <2>2, SinceCapIs DEF Tick, AtMost
  <2> QED BY <1>2, <2>1, <2>3 DEF Tick, TypeInv, TypeOK, external
<1>3. CASE Reset
  <2>1. /\ UNCHANGED <<truth, answers, caller, scan>>
        /\ kind' = [d \in Devices |-> "Unknown"] /\ mask' = {} /\ asked' = {}
        /\ metadata' = [d \in Devices |-> NoMetadata]
    BY <1>3 DEF Reset
  <2>2. kind' \in [Devices -> Kinds] /\ metadata' \in [Devices -> [MetadataProps -> Answers]]
    BY <2>1 DEF Kinds, NoMetadata, Answers
  <2>3. session \in 0 .. MaxSessions
    OBVIOUS
  <2> HIDE DEF TypeInv, TypeOK, registry, external, history
  <2>4. /\ wait' \in [Devices -> 0 .. 10] /\ attempts' \in [Devices -> 0 .. 4]
        /\ tries' \in [Devices -> 0 .. 5] /\ since' \in [Devices -> 0 .. SinceCap]
    BY <1>3, SinceCapIs DEF Reset
  <2>5. session' \in 0 .. MaxSessions
    BY <1>3, <2>3, RegistryAssumption DEF Reset
  <2> QED BY <2>1, <2>2, <2>4, <2>5 DEF TypeInv, TypeOK
<1>4. CASE UNCHANGED vars
  BY <1>4 DEF vars
<1> QED BY <1>1, <1>2, <1>3, <1>4

LEMMA TypeNext == TypeInv /\ [Next]_vars => TypeInv'
<1> SUFFICES ASSUME TypeInv, [Next]_vars PROVE TypeInv'
  OBVIOUS
<1>1. ASSUME NEW c \in Callers, NEW d \in Devices, Callback(c, d) PROVE TypeInv'
  BY <1>1, TypeCallers
<1>2. ASSUME NEW c \in Callers, Request(c) \/ ReadMetadata(c) PROVE TypeInv'
  BY <1>2, TypeCallers
<1> QED BY <1>1, <1>2, TypeScan, TypeElse DEF Next

\* Whatever order callbacks, passes and answers come in, every variable keeps its type:
\* no backoff is longer than a second, and what a pass works on is a device.
THEOREM RegistryTyped == Spec => []TypeOK
<1>1. TypeInv => TypeOK
  BY DEF TypeInv
<1> QED BY TypeInit, TypeNext, <1>1, PTL DEF Spec
-------------------------------------------------------------------------------

(* The metadata is never read and written at once.                             *)

\* A device is queried only while its kind is not known, and a callback reads metadata
\* only of a tracker: its kind does not change as long as the registry is not reset.
TornInv ==
  /\ scan.at \in Querying => kind[scan.dev] = "Unknown"
  /\ \A c \in Callers : caller[c].at = "read metadata" => kind[caller[c].dev] = "ViveTracker"

LEMMA TornCallers ==
  ASSUME TypeInv, TornInv, NEW c \in Callers, NEW d,
         (d \in Devices /\ Callback(c, d)) \/ Request(c) \/ ReadMetadata(c)
  PROVE  TornInv'
<1>1. UNCHANGED <<kind, scan>>
  BY DEF Callback, Request, ReadMetadata, registry
<1>2. caller \in [Callers -> [at : {"idle", "request", "read metadata"},
                              dev : Devices \cup {NoDevice}]]
  BY DEF TypeInv, TypeOK
<1>3. CASE d \in Devices /\ Callback(c, d)
  <2>1. CASE caller' = [caller EXCEPT ![c] = [at |-> "request", dev |-> d]]
    BY <1>1, <1>2, <2>1 DEF TornInv
  <2>2. CASE /\ caller' = [caller EXCEPT ![c] = [at |-> "read metadata", dev |-> d]]
             /\ kind[d] = "ViveTracker"
    BY <1>1, <1>2, <2>2 DEF TornInv
  <2>3. CASE caller' = [caller EXCEPT ![c] = IdleCaller]
    BY <1>1, <1>2, <2>3 DEF TornInv, IdleCaller
  <2> QED BY <1>3, <2>1, <2>2, <2>3, AfterCallback
<1>4. CASE Request(c)
  BY <1>1, <1>2, <1>4 DEF Request, TornInv, IdleCaller
<1>5. CASE ReadMetadata(c)
  BY <1>1, <1>2, <1>5 DEF ReadMetadata, TornInv, IdleCaller
<1> QED BY <1>3, <1>4, <1>5

LEMMA TornScan == ASSUME TypeInv, TornInv, ScanStep PROVE TornInv'
<1>1. scan \in ScanType /\ kind \in [Devices -> Kinds]
  BY DEF TypeInv, TypeOK
<1> USE DEF Querying, registry
<1>2. CASE Exchange
  BY <1>2, ScanExchange DEF Exchange, TornInv
<1>3. ASSUME NEW d \in Devices, Skip(d) \/ Defer(d) PROVE TornInv'
  <2>1. ~StartQuery(d) /\ UNCHANGED <<kind, caller>>
    BY <1>3 DEF Skip, Defer, StartQuery
  <2> QED BY <1>1, <1>3, <2>1, ScanTakes DEF TornInv
<1>4. ASSUME NEW d \in Devices, StartQuery(d) PROVE TornInv'
  <2>1. kind[d] = "Unknown" /\ UNCHANGED <<kind, caller>>
    BY <1>4 DEF StartQuery, Classified
  <2> QED BY <1>1, <1>4, <2>1, ScanTakes DEF TornInv
<1>5. CASE QueryClass \/ QueryIdentity \/ Decide \/ PublishMetadata
  <2>1. UNCHANGED <<kind, caller>> /\ scan.at \in Querying
    BY <1>5, Zenon DEF QueryClass, QueryIdentity, Decide, PublishMetadata
  <2>2. scan'.dev = scan.dev
    BY <1>1, <1>5, ScanClass, ScanIdentity, ScanDecides, ScanPublishes DEF Kept
  <2> QED BY <2>1, <2>2 DEF TornInv
<1>6. CASE PublishKind
  <2>1. \A c \in Callers : caller[c].at = "read metadata" => caller[c].dev # scan.dev
    BY <1>6 DEF TornInv, PublishKind
  <2> QED BY <1>1, <1>6, <2>1, ScanKind DEF TornInv, PublishKind, TypeInv
<1>7. CASE BackOff
  BY <1>7, ScanBackOff DEF BackOff, TornInv
<1>8. CASE EndScan
  BY <1>8, ScanIdles DEF EndScan, TornInv
<1> QED BY <1>2, <1>3, <1>4, <1>5, <1>6, <1>7, <1>8 DEF ScanStep

LEMMA TornElse ==
  ASSUME TypeInv, TornInv, \/ \E d \in Devices, p \in Props : Publish(d, p)
                           \/ Tick \/ Reset \/ UNCHANGED vars
  PROVE  TornInv'
<1>1. CASE \E d \in Devices, p \in Props : Publish(d, p)
  BY <1>1 DEF Publish, TornInv, registry
<1>2. CASE Tick
  <2>1. scan'.at = scan.at /\ scan'.dev = scan.dev
    BY <1>2, ScanTicks DEF TypeInv, TypeOK
  <2> QED BY <1>2, <2>1 DEF Tick, TornInv
<1>3. CASE Reset
  BY <1>3 DEF Reset, TornInv, Querying
<1>4. CASE UNCHANGED vars
  BY <1>4 DEF vars, TornInv
<1> QED BY <1>1, <1>2, <1>3, <1>4

LEMMA TornNext == TypeInv /\ TornInv /\ [Next]_vars => TornInv'
<1> SUFFICES ASSUME TypeInv, TornInv, [Next]_vars PROVE TornInv'
  OBVIOUS
<1>1. ASSUME NEW c \in Callers, NEW d \in Devices, Callback(c, d) PROVE TornInv'
  BY <1>1, TornCallers
<1>2. ASSUME NEW c \in Callers, Request(c) \/ ReadMetadata(c) PROVE TornInv'
  BY <1>2, TornCallers
<1> QED BY <1>1, <1>2, TornScan, TornElse DEF Next

\* No callback reads the metadata of a device, which is no atomic, while RunFrame may
\* write it, also when a stale request asks for a device that has its kind by now.
THEOREM NeverTorn == Spec => []MetadataNotTorn
<1>1. Init => TornInv
  <2> SUFFICES ASSUME Init PROVE TornInv
    OBVIOUS
  <2>1. scan = IdleScan /\ caller = [c \in Callers |-> IdleCaller]
    BY DEF Init
  <2> QED BY <2>1 DEF TornInv, IdleScan, IdleCaller, Querying
<1>2. TornInv => MetadataNotTorn
  BY DEF TornInv, MetadataNotTorn, Querying
<1> QED BY TypeInit, TypeNext, TornNext, <1>1, <1>2, PTL DEF Spec
-------------------------------------------------------------------------------
(* No request is lost.                                                         *)

\* With TypeInv, RequestKept is inductive: a device that is asked for is in the mask,
\* in one of the sets of the pass, in its hands, or answered.
LEMMA KeptScan == ASSUME TypeInv, RequestKept, ScanStep PROVE RequestKept'
<1>1. /\ scan \in ScanType /\ kind \in [Devices -> Kinds] /\ asked \subseteq Devices
      /\ NoDevice \notin Devices
  BY RegistryAssumption DEF TypeInv, TypeOK
<1>2. scan.at \notin Querying => scan.dev = NoDevice
  BY DEF TypeInv
<1> USE DEF registry, history
<1>3. CASE Exchange
  <2>1. scan = IdleScan /\ mask' = {} /\ UNCHANGED <<asked, kind>>
    BY <1>3 DEF Exchange, TypeInv
  <2> QED BY <1>1, <1>3, <2>1, ScanExchange, ScanIdles DEF RequestKept
<1>4. ASSUME NEW d \in Devices, Skip(d) PROVE RequestKept'
  <2>1. kind[d] # "Unknown" /\ ~StartQuery(d) /\ ~Defer(d) /\ UNCHANGED <<kind, mask, asked>>
    BY <1>4 DEF Skip, StartQuery, Defer, Classified
  <2> QED BY <1>1, <1>4, <2>1, ScanTakes DEF RequestKept
<1>5. ASSUME NEW d \in Devices, Defer(d) PROVE RequestKept'
  <2>1. ~StartQuery(d) /\ UNCHANGED <<kind, mask, asked>>
    BY <1>5 DEF StartQuery, Defer
  <2> QED BY <1>1, <1>5, <2>1, ScanTakes DEF RequestKept
<1>6. ASSUME NEW d \in Devices, StartQuery(d) PROVE RequestKept'
  <2>1. scan.at = "next" /\ ~Defer(d) /\ UNCHANGED <<kind, mask, asked>>
    BY <1>6 DEF StartQuery, Defer
  <2> QED BY <1>1, <1>2, <1>6, <2>1, ScanTakes DEF RequestKept, Querying
<1>7. CASE QueryClass \/ QueryIdentity \/ Decide \/ PublishMetadata
  <2>1. UNCHANGED <<kind, mask, asked>>
    BY <1>7, Zenon DEF QueryClass, QueryIdentity, Decide, PublishMetadata
  <2>2. Kept
    BY <1>1, <1>7, ScanClass, ScanIdentity, ScanDecides, ScanPublishes
  <2> QED BY <2>1, <2>2 DEF RequestKept, Kept
<1>8. CASE PublishKind
  <2>1. /\ kind' = [kind EXCEPT ![scan.dev] = scan.result] /\ asked' = asked \ {scan.dev}
        /\ UNCHANGED mask
    BY <1>8 DEF PublishKind
  <2> QED BY <1>1, <1>8, <2>1, ScanKind DEF RequestKept
<1>9. CASE BackOff
  <2>1. /\ asked' = IF scan.retry THEN asked ELSE asked \ {scan.dev}
        /\ UNCHANGED <<kind, mask>>
    BY <1>9 DEF BackOff
  <2> QED BY <1>1, <1>9, <2>1, ScanBackOff DEF RequestKept
<1>10. CASE EndScan
  <2>1. /\ scan.at = "next" /\ scan.pending = {} /\ mask' = mask \cup scan.deferred
        /\ scan' = IdleScan /\ UNCHANGED <<kind, asked>>
    BY <1>10 DEF EndScan, PutBack
  <2> QED BY <1>1, <1>2, <2>1, ScanIdles DEF RequestKept, Querying
<1> QED BY <1>3, <1>4, <1>5, <1>6, <1>7, <1>8, <1>9, <1>10 DEF ScanStep

LEMMA KeptNext == TypeInv /\ RequestKept /\ [Next]_vars => RequestKept'
<1> SUFFICES ASSUME TypeInv, RequestKept, [Next]_vars PROVE RequestKept'
  OBVIOUS
<1> USE DEF RequestKept, registry, external, history
<1>1. ASSUME NEW c \in Callers, NEW d \in Devices, Callback(c, d) PROVE RequestKept'
  BY <1>1 DEF Callback
<1>2. ASSUME NEW c \in Callers, Request(c) \/ ReadMetadata(c) PROVE RequestKept'
  BY <1>2 DEF Request, ReadMetadata
<1>3. CASE \E d \in Devices, p \in Props : Publish(d, p)
  BY <1>3 DEF Publish
<1>4. CASE Tick
  BY <1>4, ScanTicks DEF Tick, TypeInv, TypeOK
<1>5. CASE Reset
  BY <1>5 DEF Reset
<1>6. CASE UNCHANGED vars
  BY <1>6 DEF vars
<1> QED BY <1>1, <1>2, <1>3, <1>4, <1>5, <1>6, KeptScan DEF Next

\* A request is kept until it is answered, in every interleaving of the callbacks'
\* fetch_or with the exchange and the put-back of a pass.
THEOREM NoRequestLost == Spec => []RequestKept
<1>1. Init => RequestKept
  BY DEF Init, RequestKept
<1> QED BY TypeInit, TypeNext, KeptNext, <1>1, PTL DEF Spec
-------------------------------------------------------------------------------
(* Both decisions are right.                                                   *)

\* What the pass has read is what SteamVR answered: the truth, or nothing yet, and then
\* a retry is due.
ReadRight(p) ==
  \/ scan.read[p] = truth[scan.dev][p]
  \/ /\ scan.read[p] = "empty" /\ scan.retry
     /\ p \in Late \/ truth[scan.dev][p] = "pending"

AnswersRight ==
  \A d \in Devices, p \in Props :
     answers[d][p] = truth[d][p] \/ (answers[d][p] = "pending" /\ p \in Late)

ScanRight ==
  /\ scan.at = "identity" =>
       /\ truth[scan.dev]["class"] = "match"
       /\ \A i \in 1 .. scan.step - 1 : ReadRight(IdentityProps[i])
  /\ scan.at \in {"metadata", "kind"} =>
       \/ scan.result = "Other" /\ ~IsViveTracker(truth[scan.dev])
       \/ scan.result = "ViveTracker" /\ (IsViveTracker(truth[scan.dev]) \/ "actual" \in Late)

DecisionInv == DecisionsAreRight /\ AnswersRight /\ ScanRight

\* classifyIdentity() of what was read, against the tests of a Vive Tracker.
LEMMA IdentifyRight ==
  ASSUME NEW id \in [Props -> Answers], NEW read \in [Props -> Answers], NEW retry \in BOOLEAN,
         id["class"] = "match",
         \A p \in Props \ {"class"} :
            \/ read[p] = id[p]
            \/ read[p] = "empty" /\ retry /\ (p \in Late \/ id[p] = "pending")
  PROVE  /\ Identify(read) => IsViveTracker(id) \/ "actual" \in Late
         /\ IsViveTracker(id) /\ ~retry => Identify(read)
<1>1. \A p \in {"serial", "model", "registered", "system", "actual", "controller", "maker"} :
        /\ read[p] = "match" => id[p] = "match"
        /\ ~retry => read[p] = id[p]
        /\ p \notin Late => read[p] = id[p] \/ id[p] = "pending"
  BY IdentityPropsAre
<1>2. ASSUME Identify(read), "actual" \notin Late PROVE IsViveTracker(id)
  <2>1. \/ read["actual"] = "match"
        \/ read["actual"] \notin {"match", "other"} /\ read["system"] = "match"
    BY <1>2 DEF Identify
  <2>2. id["actual"] = "match" \/ (id["actual"] # "other" /\ id["system"] = "match")
    BY <1>1, <1>2, <2>1
  <2>3. \/ id["registered"] = "match" \/ id["controller"] = "match"
        \/ id["model"] = "match" /\ id["maker"] = "match"
    BY <1>1, <1>2 DEF Identify
  <2>4. \E proof \in {{"registered"}, {"controller"}, {"model", "maker"}} :
          \A p \in proof : id[p] = "match"
    BY <2>3
  <2> QED BY <2>2, <2>4 DEF IsViveTracker
<1>3. ASSUME IsViveTracker(id), ~retry PROVE Identify(read)
  <2>1. read["actual"] = "match" \/ (read["actual"] # "other" /\ read["system"] = "match")
    BY <1>1, <1>3 DEF IsViveTracker
  <2>2. \/ id["registered"] = "match" \/ id["controller"] = "match"
        \/ id["model"] = "match" /\ id["maker"] = "match"
    BY <1>3 DEF IsViveTracker
  <2>3. \/ "match" \in {read["registered"], read["controller"]}
        \/ read["model"] = "match" /\ read["maker"] = "match"
    BY <1>1, <1>3, <2>2
  <2> QED BY <2>1, <2>3 DEF Identify
<1> QED BY <1>2, <1>3

\* A pass of RunFrame decides right.
LEMMA DecisionScan == ASSUME TypeInv, DecisionInv, ScanStep PROVE DecisionInv'
<1>1. /\ scan \in ScanType /\ kind \in [Devices -> Kinds] /\ truth \in [Devices -> Identities]
      /\ answers \in [Devices -> [Props -> Answers]]
  BY DEF TypeInv, TypeOK
<1>2. UNCHANGED <<truth, answers>>
  BY Zenon DEF ScanStep, Exchange, Skip, Defer, StartQuery, QueryClass, QueryIdentity, Decide,
               PublishMetadata, PublishKind, BackOff, EndScan, external
<1>3. AnswersRight'
  BY <1>2 DEF DecisionInv, AnswersRight
<1>4. scan.at \in Querying => scan.dev \in Devices
  BY DEF TypeInv
<1>5. CASE kind' = kind /\ scan'.at \notin {"identity", "metadata", "kind"}
  BY <1>2, <1>3, <1>5 DEF DecisionInv, DecisionsAreRight, ScanRight
<1>6. CASE Exchange
  BY <1>5, <1>6, ScanExchange DEF Exchange, registry
<1>7. ASSUME NEW d \in Devices, Skip(d) \/ Defer(d) \/ StartQuery(d) PROVE DecisionInv'
  <2>1. UNCHANGED kind
    BY <1>7 DEF Skip, Defer, StartQuery, registry
  <2>2. scan'.at \in {"next", "class"}
    BY <1>1, <1>7, ScanTakes
  <2> QED BY <1>5, <2>1, <2>2
<1>8. CASE QueryClass
  <2>1. UNCHANGED kind /\ scan.at = "class" /\ scan.dev \in Devices /\ scan'.dev = scan.dev
    BY <1>4, <1>8, ScanClass DEF QueryClass, registry, Kept, Querying
  <2>2. "class" \in Props
    BY DEF Props
  <2>3. \/ answers[scan.dev]["class"] = truth[scan.dev]["class"]
        \/ answers[scan.dev]["class"] = "pending"
    BY <2>1, <2>2 DEF DecisionInv, AnswersRight
  <2>4. CASE scan'.at = "identity" /\ scan'.step = 1 /\ answers[scan.dev]["class"] = "match"
    BY <1>2, <1>3, <2>1, <2>3, <2>4 DEF DecisionInv, DecisionsAreRight, ScanRight
  <2>5. CASE scan'.at = "metadata" /\ scan'.result = "Other" /\ answers[scan.dev]["class"] = "other"
    BY <1>2, <1>3, <2>1, <2>3, <2>5 DEF DecisionInv, DecisionsAreRight, ScanRight, IsViveTracker
  <2>6. CASE scan'.at = "back off"
    BY <1>5, <2>1, <2>6
  <2> QED BY <1>8, <2>4, <2>5, <2>6, ScanClass
<1>9. CASE QueryIdentity
  <2>1. UNCHANGED kind /\ scan.at = "identity" /\ scan.dev \in Devices
    BY <1>4, <1>9 DEF QueryIdentity, registry, Querying
  <2>2. PICK p \in Props : p = IdentityProps[scan.step]
    BY <1>9, ScanIdentity
  <2> DEFINE answer == answers[scan.dev][p]
             read == IF answer = "pending" THEN "empty" ELSE answer
  <2>3. /\ scan.step \in 1 .. 7 /\ scan'.dev = scan.dev /\ scan'.at = "identity"
        /\ scan'.step = scan.step + 1 /\ scan'.read = [scan.read EXCEPT ![p] = read]
        /\ scan'.retry = (scan.retry \/ answer = "pending")
    BY <1>9, <2>2, ScanIdentity DEF Kept, Retry
  <2>4. scan.read \in [Props -> Answers]
    BY <1>1 DEF ScanType
  <2>5. /\ scan'.read[p] = read
        /\ \A q \in Props : q # p => scan'.read[q] = scan.read[q]
        /\ scan.retry => scan'.retry
    BY <2>3, <2>4
  <2>6. ASSUME NEW q \in Props, q = p \/ ReadRight(q) PROVE ReadRight(q)'
    <3>1. CASE q = p
      <4>1. answer = truth[scan.dev][p] \/ (answer = "pending" /\ p \in Late)
        BY <2>1 DEF DecisionInv, AnswersRight
      <4>2. CASE answer = "pending"
        <5>1. scan'.read[p] = "empty" /\ scan'.retry
          BY <2>3, <2>5, <4>2
        <5> QED BY <1>2, <2>3, <3>1, <4>1, <4>2, <5>1 DEF ReadRight
      <4>3. CASE answer # "pending"
        <5>1. scan'.read[p] = truth[scan.dev][p]
          BY <2>5, <4>1, <4>3
        <5> QED BY <1>2, <2>3, <3>1, <5>1 DEF ReadRight
      <4> QED BY <4>2, <4>3
    <3>2. CASE q # p
      BY <1>2, <2>3, <2>5, <2>6, <3>2 DEF ReadRight
    <3> QED BY <3>1, <3>2
  <2>7. ASSUME NEW i \in 1 .. scan'.step - 1 PROVE ReadRight(IdentityProps[i])'
    <3>1. i = scan.step \/ i \in 1 .. scan.step - 1
      BY <2>3
    <3>2. i \in 1 .. 7
      BY <2>3
    <3>3. IdentityProps[i] \in Props
      BY <3>2, IdentityPropsAre
    <3>4. IdentityProps[i] = p \/ ReadRight(IdentityProps[i])
      BY <2>1, <2>2, <3>1 DEF DecisionInv, ScanRight
    <3> QED BY <2>6, <3>3, <3>4
  <2>8. ScanRight'
    BY <1>2, <2>1, <2>3, <2>7 DEF DecisionInv, ScanRight
  <2> QED BY <1>2, <1>3, <2>1, <2>8 DEF DecisionInv, DecisionsAreRight
<1>10. CASE Decide
  <2>1. UNCHANGED kind /\ scan.at = "identity" /\ scan.dev \in Devices /\ scan.step > 7
        /\ scan'.dev = scan.dev
    BY <1>1, <1>4, <1>10, ScanDecides, IdentityCount DEF Decide, registry, Querying, Kept
  <2> DEFINE id == truth[scan.dev]
  <2>2. scan.read \in [Props -> Answers] /\ scan.retry \in BOOLEAN /\ scan.step \in Int
    <3>1. /\ scan.read \in [Props -> Answers] /\ scan.retry \in BOOLEAN
          /\ scan.step \in 0 .. Len(IdentityProps) + 1
      BY <1>1 DEF ScanType
    <3> QED BY <3>1, IdentityCount
  <2>3. id \in [Props -> Answers] /\ id["class"] = "match"
    BY <1>1, <2>1, RegistryAssumption DEF DecisionInv, ScanRight
  <2>4. \A i \in 1 .. 7 : ReadRight(IdentityProps[i])
    BY <2>1, <2>2 DEF DecisionInv, ScanRight
  <2>5. \A p \in Props \ {"class"} : ReadRight(p)
    BY <2>4, IdentityPropsAre
  <2>6. /\ Identify(scan.read) => IsViveTracker(id) \/ "actual" \in Late
        /\ IsViveTracker(id) /\ ~scan.retry => Identify(scan.read)
    BY <2>2, <2>3, <2>5, IdentifyRight DEF ReadRight
  <2>7. ScanRight'
    BY <1>1, <1>2, <1>10, <2>1, <2>6, ScanDecides DEF ScanRight
  <2> QED BY <1>2, <1>3, <2>1, <2>7 DEF DecisionInv, DecisionsAreRight
<1>11. CASE PublishMetadata
  <2>1. UNCHANGED kind /\ scan.at = "metadata"
    BY <1>11 DEF PublishMetadata
  <2> QED BY <1>1, <1>2, <1>3, <1>11, <2>1, ScanPublishes
          DEF DecisionInv, DecisionsAreRight, ScanRight, Kept
<1>12. CASE PublishKind
  <2>1. kind' = [kind EXCEPT ![scan.dev] = scan.result] /\ scan.at = "kind"
    BY <1>12 DEF PublishKind
  <2>2. scan'.at = "next"
    BY <1>1, <1>12, ScanKind
  <2> QED BY <1>1, <1>2, <1>3, <2>1, <2>2 DEF DecisionInv, DecisionsAreRight, ScanRight
<1>13. CASE BackOff
  BY <1>5, <1>13, ScanBackOff DEF BackOff
<1>14. CASE EndScan
  BY <1>5, <1>14, ScanIdles DEF EndScan, registry
<1> QED BY <1>6, <1>7, <1>8, <1>9, <1>10, <1>11, <1>12, <1>13, <1>14 DEF ScanStep

LEMMA DecisionNext == TypeInv /\ DecisionInv /\ [Next]_vars => DecisionInv'
<1> SUFFICES ASSUME TypeInv, DecisionInv, [Next]_vars PROVE DecisionInv'
  OBVIOUS
<1> USE DEF DecisionInv, DecisionsAreRight, AnswersRight, ScanRight, ReadRight, registry, external
<1>1. CASE \/ \E c \in Callers, d \in Devices : Callback(c, d)
           \/ \E c \in Callers : Request(c) \/ ReadMetadata(c)
           \/ UNCHANGED vars
  <2>1. UNCHANGED <<kind, truth, answers, scan>>
    BY <1>1 DEF Callback, Request, ReadMetadata, vars
  <2> QED BY <2>1
<1>3. ASSUME NEW d \in Devices, NEW p \in Props, Publish(d, p) PROVE DecisionInv'
  <2>1. answers \in [Devices -> [Props -> Answers]]
    BY DEF TypeInv, TypeOK
  <2>2. answers' = [answers EXCEPT ![d][p] = truth[d][p]] /\ UNCHANGED <<kind, truth, scan>>
    BY <1>3 DEF Publish
  <2>3. AnswersRight'
    BY <2>1, <2>2
  <2> QED BY <2>2, <2>3
<1>4. CASE Tick
  <2>1. UNCHANGED <<kind, truth, answers>>
    BY <1>4 DEF Tick
  <2>2. /\ scan'.at = scan.at /\ scan'.dev = scan.dev /\ scan'.step = scan.step
        /\ scan'.read = scan.read /\ scan'.retry = scan.retry /\ scan'.result = scan.result
    BY <1>4, ScanTicks DEF TypeInv, TypeOK
  <2> QED BY <2>1, <2>2
<1>5. CASE Reset
  BY <1>5, ScanIdles DEF Reset, TypeInv
<1> QED BY <1>1, <1>3, <1>4, <1>5, DecisionScan DEF Next

LEMMA DecisionInit == Init => DecisionInv
<1> SUFFICES ASSUME Init PROVE DecisionInv
  OBVIOUS
<1>1. kind = [d \in Devices |-> "Unknown"] /\ scan = IdleScan
  BY DEF Init
<1>2. answers = [d \in Devices |-> [p \in Props |-> IF p \in Late THEN "pending" ELSE truth[d][p]]]
  BY DEF Init
<1>3. AnswersRight
  BY <1>2 DEF AnswersRight
<1> QED BY <1>1, <1>3, ScanIdles DEF DecisionInv, DecisionsAreRight, ScanRight

\* Both decisions of classifyPendingAt are for good, and right, in whatever order SteamVR
\* publishes the properties: no tracker is given up because its identity was not there
\* yet, and nothing else is filtered, but for the actual tracking system that comes late.
THEOREM DecisionsRight == Spec => []DecisionsAreRight
<1>1. DecisionInv => DecisionsAreRight
  BY DEF DecisionInv
<1> QED BY TypeInit, TypeNext, DecisionInit, DecisionNext, <1>1, PTL DEF Spec
-------------------------------------------------------------------------------
(* Backoff.                                                                    *)

\* How long the n-th retry has to wait.
Backoff(n) == <<1, 2, 4, 8, 10>>[n]

LEMMA BackoffIs == \A n \in 1 .. 5 : Backoff(n) \in 1 .. 10
BY DEF Backoff

LEMMA BackoffAfter ==
  ASSUME NEW n \in 0 .. 5
  PROVE  Delay(AtMost(n, 4)) = Backoff(AtMost(n + 1, 5))
<1>1. n = 0 \/ n = 1 \/ n = 2 \/ n = 3 \/ n = 4 \/ n = 5
  OBVIOUS
<1>2. /\ AtMost(n, 4) = (IF n <= 4 THEN n ELSE 4)
      /\ AtMost(n + 1, 5) = (IF n + 1 <= 5 THEN n + 1 ELSE 5)
  BY DEF AtMost
<1> QED BY <1>1, <1>2, Delays DEF Backoff

\* A backoff runs from the clock reading of the pass that queried the device: what is
\* left of it is in wait, what is over in since.  The devices of a pass that are due
\* were due at its clock reading, scan.age ago.
AttemptsInv == \A d \in Devices : attempts[d] = AtMost(tries[d], 4)
WaitInv ==
  \A d \in Devices : tries[d] > 0 /\ kind[d] = "Unknown" /\ d # scan.dev =>
    since[d] + wait[d] >= Backoff(tries[d])
DueInv ==
  /\ scan.at \in Querying => since[scan.dev] = scan.age
  /\ scan.dev \notin scan.pending
  /\ \A d \in scan.pending \cap scan.due : tries[d] > 0 /\ kind[d] = "Unknown" =>
        since[d] - scan.age >= Backoff(tries[d])
RetryInv == AttemptsInv /\ WaitInv /\ DueInv

LEMMA RetryTypes ==
  ASSUME TypeInv
  PROVE  /\ wait \in [Devices -> 0 .. 10] /\ attempts \in [Devices -> 0 .. 4]
         /\ tries \in [Devices -> 0 .. 5] /\ since \in [Devices -> 0 .. SinceCap]
         /\ kind \in [Devices -> Kinds] /\ mask \subseteq Devices
         /\ scan \in ScanType /\ scan.pending \subseteq Devices /\ scan.age \in 0 .. ScanCap
         /\ IF scan.at \in Querying THEN scan.dev \in Devices ELSE scan.dev = NoDevice
         /\ NoDevice \notin Devices
BY RegistryAssumption DEF TypeInv, TypeOK, ScanType

LEMMA RetryScan == ASSUME TypeInv, DecisionInv, RetryInv, ScanStep PROVE RetryInv'
<1>1. RetryTypes!2
  BY RetryTypes
<1> USE DEF RetryInv, registry, history
<1>2. CASE Exchange
  <2>1. /\ UNCHANGED <<kind, attempts, wait, tries, since>> /\ scan = IdleScan
        /\ scan'.dev = NoDevice /\ scan'.pending = mask /\ scan'.age = 0
        /\ scan'.due = {d \in Devices : wait[d] = 0} /\ scan'.at = "next"
    BY <1>2, ScanExchange DEF Exchange, TypeInv
  <2>2. WaitInv'
    BY <2>1, ScanIdles DEF WaitInv
  <2>3. ASSUME NEW d \in Devices, wait[d] = 0, tries[d] > 0, kind[d] = "Unknown"
        PROVE  since[d] - 0 >= Backoff(tries[d])
    <3>1. since[d] \in Int /\ tries[d] \in 1 .. 5 /\ d # scan.dev
      BY <1>1, <2>1, <2>3, SinceCapIs, ScanIdles
    <3> QED BY <2>3, <3>1, BackoffIs DEF WaitInv
  <2>4. DueInv'
    BY <1>1, <2>1, <2>3 DEF DueInv, Querying
  <2> QED BY <2>1, <2>2, <2>4 DEF AttemptsInv
<1>3. ASSUME NEW d \in Devices, Skip(d) \/ Defer(d) PROVE RetryInv'
  <2>1. ~StartQuery(d) /\ UNCHANGED <<kind, attempts, wait, tries, since>> /\ scan.at = "next"
    BY <1>1, <1>3 DEF Skip, Defer, StartQuery, Untouched
  <2>2. /\ scan'.at = "next" /\ scan'.dev = scan.dev /\ scan'.pending = scan.pending \ {d}
        /\ scan'.due = scan.due /\ scan'.age = scan.age
    BY <1>1, <1>3, <2>1, ScanTakes
  <2> QED BY <2>1, <2>2 DEF AttemptsInv, WaitInv, DueInv, Querying
<1>4. ASSUME NEW d \in Devices, StartQuery(d) PROVE RetryInv'
  <2>1. /\ UNCHANGED <<kind, attempts, wait, tries>> /\ since' = [since EXCEPT ![d] = scan.age]
        /\ scan.at = "next"
    BY <1>4 DEF StartQuery
  <2>2. /\ scan'.at = "class" /\ scan'.dev = d /\ scan'.pending = scan.pending \ {d}
        /\ scan'.due = scan.due /\ scan'.age = scan.age
    BY <1>1, <1>4, ScanTakes
  <2>3. scan.dev = NoDevice /\ \A e \in Devices : e # d => since'[e] = since[e] /\ e # scan.dev
    BY <1>1, <2>1 DEF Querying
  <2>4. WaitInv'
    BY <2>1, <2>2, <2>3 DEF WaitInv
  <2>5. DueInv'
    BY <1>1, <2>1, <2>2, <2>3 DEF DueInv
  <2> QED BY <2>1, <2>4, <2>5 DEF AttemptsInv
<1>5. CASE QueryClass \/ QueryIdentity \/ Decide \/ PublishMetadata
  <2>1. UNCHANGED <<kind, attempts, wait, tries, since>> /\ scan.at \in Querying
    BY <1>5, Zenon DEF QueryClass, QueryIdentity, Decide, PublishMetadata, Querying
  <2>2. Kept
    BY <1>1, <1>5, ScanClass, ScanIdentity, ScanDecides, ScanPublishes
  <2> QED BY <2>1, <2>2 DEF AttemptsInv, WaitInv, DueInv, Kept
<1>6. CASE PublishKind
  <2>1. /\ kind' = [kind EXCEPT ![scan.dev] = scan.result] /\ scan.at = "kind"
        /\ UNCHANGED <<attempts, wait, tries, since>>
    BY <1>6 DEF PublishKind
  <2>2. /\ scan'.at = "next" /\ scan'.dev = NoDevice /\ scan'.pending = scan.pending
        /\ scan'.due = scan.due /\ scan'.age = scan.age
    BY <1>1, <1>6, ScanKind
  <2>3. scan.dev \in Devices /\ scan.result \in {"ViveTracker", "Other"}
    BY <1>1, <2>1 DEF Querying, DecisionInv, ScanRight
  <2> QED BY <1>1, <2>1, <2>2, <2>3 DEF AttemptsInv, WaitInv, DueInv, Querying
<1>7. CASE BackOff
  <2> DEFINE d == scan.dev
             delay == Delay(attempts[d])
  <2>1. d \in Devices /\ since[d] = scan.age /\ d \notin scan.pending
    BY <1>1, <1>7 DEF BackOff, Querying, DueInv
  <2>2. tries[d] \in 0 .. 5 /\ attempts[d] = AtMost(tries[d], 4)
    BY <1>1, <2>1 DEF AttemptsInv
  <2>3. delay = Backoff(AtMost(tries[d] + 1, 5)) /\ delay \in 1 .. 10
    BY <1>1, <2>1, <2>2, BackoffAfter, DelayTyped
  <2>4. NextAttempt(attempts[d]) = AtMost(AtMost(tries[d] + 1, 5), 4)
    BY <2>2 DEF NextAttempt, AtMost
  <2> HIDE DEF delay
  <2> DEFINE left == IF delay > scan.age THEN delay - scan.age ELSE 0
             more == AtMost(tries[d] + 1, 5)
  <2>5. /\ wait' = [wait EXCEPT ![d] = left] /\ tries' = [tries EXCEPT ![d] = more]
        /\ attempts' = [attempts EXCEPT ![d] = NextAttempt(attempts[d])]
        /\ UNCHANGED <<kind, since>>
    BY <1>7 DEF BackOff, delay
  <2>6. since[d] + left >= delay
    BY <1>1, <2>1, <2>3, SinceCapIs
  <2> HIDE DEF left, more, d
  <2>7. /\ scan'.at = "next" /\ scan'.dev = NoDevice /\ scan'.pending = scan.pending
        /\ scan'.due = scan.due /\ scan'.age = scan.age
    BY <1>7, ScanBackOff
  <2>8. /\ wait'[d] = left /\ tries'[d] = more /\ attempts'[d] = NextAttempt(attempts[d])
        /\ \A e \in Devices : e # d => /\ wait'[e] = wait[e] /\ tries'[e] = tries[e]
                                       /\ attempts'[e] = attempts[e]
    BY <1>1, <2>1, <2>5
  <2>9. AttemptsInv'
    BY <2>4, <2>8 DEF AttemptsInv, more
  <2>10. WaitInv'
    BY <2>3, <2>5, <2>6, <2>8 DEF WaitInv, d, more
  <2>11. DueInv'
    BY <1>1, <2>1, <2>5, <2>7, <2>8 DEF DueInv, Querying
  <2> QED BY <2>9, <2>10, <2>11
<1>8. CASE EndScan
  <2>1. scan' = IdleScan /\ UNCHANGED <<kind, attempts, wait, tries, since>> /\ scan.at = "next"
    BY <1>8 DEF EndScan
  <2> QED BY <1>1, <2>1, ScanIdles DEF AttemptsInv, WaitInv, DueInv, Querying
<1> QED BY <1>2, <1>3, <1>4, <1>5, <1>6, <1>7, <1>8 DEF ScanStep

LEMMA RetryTick == ASSUME TypeInv, RetryInv, Tick PROVE RetryInv'
<1>1. RetryTypes!2
  BY RetryTypes
<1>2. /\ wait' = [d \in Devices |-> IF wait[d] > 0 THEN wait[d] - 1 ELSE 0]
      /\ since' = [d \in Devices |-> AtMost(since[d] + 1, SinceCap)]
      /\ UNCHANGED <<kind, attempts, tries>>
  BY DEF Tick
<1>3. /\ scan'.at = scan.at /\ scan'.dev = scan.dev /\ scan'.pending = scan.pending
      /\ scan'.due = scan.due
      /\ IF scan.at = "idle" THEN scan' = scan
         ELSE scan'.age = scan.age + 1 /\ scan'.age <= ScanCap
  BY <1>1, ScanTicks
<1>4. ASSUME NEW d \in Devices, tries[d] > 0, since[d] + wait[d] >= Backoff(tries[d])
      PROVE  since'[d] + wait'[d] >= Backoff(tries[d])
  <2>1. tries[d] \in 1 .. 5 /\ wait[d] \in 0 .. 10 /\ since[d] \in 0 .. SinceCap
    BY <1>1, <1>4
  <2>2. /\ wait'[d] = (IF wait[d] > 0 THEN wait[d] - 1 ELSE 0)
        /\ since'[d] = (IF since[d] + 1 <= SinceCap THEN since[d] + 1 ELSE SinceCap)
    BY <1>2 DEF AtMost
  <2> QED BY <1>4, <2>1, <2>2, BackoffIs, SinceCapIs
<1>5. ASSUME NEW d \in Devices, tries[d] > 0, since[d] - scan.age >= Backoff(tries[d]),
             scan.at # "idle"
      PROVE  since'[d] - scan'.age >= Backoff(tries[d])
  <2>1. tries[d] \in 1 .. 5 /\ since[d] \in 0 .. SinceCap
    BY <1>1, <1>5
  <2>2. since'[d] = (IF since[d] + 1 <= SinceCap THEN since[d] + 1 ELSE SinceCap)
    BY <1>2 DEF AtMost
  <2> QED BY <1>1, <1>3, <1>5, <2>1, <2>2, BackoffIs, SinceCapIs
<1>6. ASSUME scan.at \in Querying PROVE since'[scan.dev] = scan'.age
  <2>1. since[scan.dev] = scan.age /\ scan.dev \in Devices /\ scan.at # "idle"
    BY <1>1, <1>6 DEF RetryInv, DueInv, Querying
  <2>2. since'[scan.dev] = (IF scan.age + 1 <= SinceCap THEN scan.age + 1 ELSE SinceCap)
    BY <1>2, <2>1 DEF AtMost
  <2> QED BY <1>1, <1>3, <2>1, <2>2, SinceCapIs
<1>7. AttemptsInv'
  BY <1>2 DEF RetryInv, AttemptsInv
<1>8. WaitInv'
  BY <1>2, <1>3, <1>4 DEF RetryInv, WaitInv
<1>9. DueInv'
  <2>1. CASE scan.at = "idle"
    <3>1. scan.pending = {} /\ scan' = scan
      BY <1>3, <2>1, ScanIdles DEF TypeInv
    <3> QED BY <1>2, <1>3, <1>6, <3>1 DEF RetryInv, DueInv
  <2>2. CASE scan.at # "idle"
    BY <1>1, <1>2, <1>3, <1>5, <1>6, <2>2 DEF RetryInv, DueInv
  <2> QED BY <2>1, <2>2
<1> QED BY <1>7, <1>8, <1>9 DEF RetryInv

LEMMA RetryNext == TypeInv /\ DecisionInv /\ RetryInv /\ [Next]_vars => RetryInv'
<1> SUFFICES ASSUME TypeInv, DecisionInv, RetryInv, [Next]_vars PROVE RetryInv'
  OBVIOUS
<1>1. CASE \/ \E c \in Callers, d \in Devices : Callback(c, d)
           \/ \E c \in Callers : Request(c) \/ ReadMetadata(c)
           \/ \E d \in Devices, p \in Props : Publish(d, p)
           \/ UNCHANGED vars
  <2>1. UNCHANGED <<kind, attempts, wait, tries, since, scan>>
    BY <1>1 DEF Callback, Request, ReadMetadata, Publish, vars, registry, history
  <2> QED BY <2>1 DEF RetryInv, AttemptsInv, WaitInv, DueInv
<1>2. CASE Reset
  <2>1. /\ attempts' = [d \in Devices |-> 0] /\ tries' = [d \in Devices |-> 0]
        /\ scan = IdleScan /\ scan' = scan
    BY <1>2 DEF Reset, TypeInv
  <2> QED BY <2>1, ScanIdles DEF RetryInv, AttemptsInv, WaitInv, DueInv, AtMost, Querying
<1> QED BY <1>1, <1>2, RetryScan, RetryTick DEF Next

LEMMA RetryInit == Init => RetryInv
<1> SUFFICES ASSUME Init PROVE RetryInv
  OBVIOUS
<1>1. /\ attempts = [d \in Devices |-> 0] /\ tries = [d \in Devices |-> 0] /\ scan = IdleScan
  BY DEF Init
<1> QED BY <1>1, ScanIdles DEF RetryInv, AttemptsInv, WaitInv, DueInv, AtMost, Querying

\* The n-th retry of a device comes no earlier than 100, 200, 400, 800 and then 1000 ms
\* after the clock reading of the query before it, however often its callbacks ask and
\* however long the passes take: classifyPendingAt never hammers SteamVR.
THEOREM RetriesWait == Spec => RetriesBackOff
<1>1. ASSUME TypeInv, RetryInv, [Next]_vars, NEW d \in Devices,
             scan.at = "next", scan'.at = "class", scan'.dev = d, tries[d] > 0
      PROVE  since[d] - scan.age >= Backoff(tries[d])
  <2>1. scan.at = "next" /\ scan'.at = "class" => \E e \in Devices : StartQuery(e)
    <3>1. CASE ScanStep
      <4>1. CASE \E e \in Devices : Skip(e) \/ Defer(e)
        <5>1. PICK e \in Devices : Skip(e) \/ Defer(e)
          BY <4>1
        <5> QED BY <1>1, <5>1, RetryTypes, ScanTakes
      <4>2. CASE QueryClass \/ QueryIdentity \/ Decide \/ PublishMetadata \/ PublishKind \/ BackOff
        BY <1>1, <4>2, Zenon DEF QueryClass, QueryIdentity, Decide, PublishMetadata, PublishKind,
                                 BackOff
      <4>3. CASE Exchange \/ EndScan
        BY <1>1, <4>3, ScanIdles DEF Exchange, EndScan
      <4> QED BY <3>1, <4>1, <4>2, <4>3 DEF ScanStep
    <3>2. CASE ~ScanStep
      <4>1. UNCHANGED scan \/ Tick
        BY <1>1, <3>2 DEF Next, Callback, Request, ReadMetadata, Publish, Reset, vars
      <4> QED BY <1>1, <4>1, ScanTicks, RetryTypes
    <3> QED BY <3>1, <3>2
  <2>2. PICK e \in Devices : StartQuery(e)
    BY <1>1, <2>1
  <2>3. e = d
    BY <1>1, <2>2, ScanTakes, RetryTypes
  <2>4. d \in scan.pending \cap scan.due /\ kind[d] = "Unknown"
    BY <2>2, <2>3 DEF StartQuery, Classified
  <2> QED BY <1>1, <2>4 DEF RetryInv, DueInv
<1>2. TypeInv /\ RetryInv /\ [Next]_vars =>
        [\A d \in Devices :
           scan.at = "next" /\ scan'.at = "class" /\ scan'.dev = d /\ tries[d] > 0
             => since[d] - scan.age >= <<1, 2, 4, 8, 10>>[tries[d]]]_vars
  BY <1>1 DEF Backoff
<1> QED
  BY TypeInit, TypeNext, DecisionInit, DecisionNext, RetryInit, RetryNext, <1>2, PTL
     DEF Spec, RetriesBackOff
===============================================================================
