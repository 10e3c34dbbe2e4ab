---------------------------- MODULE DeviceRegistry ----------------------------
(***************************************************************************)
(* How a device gets its kind (src/driver/device_registry.cpp).  Pose      *)
(* callbacks on any thread find a device Unknown and ask for it to be      *)
(* classified, by a bit in pendingMask_; RunFrame takes the whole mask,    *)
(* queries the properties of the devices in it one after the other, while  *)
(* SteamVR is still publishing them, and puts back what has to be retried. *)
(*                                                                         *)
(* A property is a match (it says what a lighthouse-tracked Vive Tracker   *)
(* says), other, empty (it is, or its error is not worth a retry) or not   *)
(* there yet.  Time is counted in units of the first backoff, 100 ms.      *)
(***************************************************************************)
EXTENDS Integers, Sequences, FiniteSets

CONSTANTS
  Devices, NoDevice,
  Callers,     \* threads that run pose callbacks
  Identities,  \* what a device may turn out to be: a function of its properties
  Late,        \* the properties SteamVR may publish later than the device
  ScanCap,     \* how long one pass of RunFrame may take
  MaxSessions  \* how often Init may reset the registry

IdentityProps == <<"serial", "model", "registered", "system", "actual", "controller", "maker">>
Props == {"class"} \cup {IdentityProps[i] : i \in DOMAIN IdentityProps}
Answers == {"match", "other", "empty", "pending"}
MetadataProps == {"serial", "model", "registered"}

ASSUME RegistryAssumption ==
  /\ NoDevice \notin Devices /\ IsFiniteSet(Devices)
  /\ Identities \subseteq [Props -> Answers] /\ Late \subseteq Props
  /\ ScanCap \in Nat /\ MaxSessions \in Nat

VARIABLES
  kind,      \* kinds_
  mask,      \* pendingMask_, a set of devices
  metadata,  \* metadata_
  wait,      \* how long until retryAfter_
  attempts,  \* retryAttempts_
  truth,     \* external: what the properties of a device end up as
  answers,   \* external: what SteamVR answers now
  caller,    \* per thread: where its callback is and for which device
  scan,      \* the pass of RunFrame
  session,   \* how often Init reset the registry
  asked,     \* history: an answer to a request for the device is still owed
  tries,     \* history: failed queries of the device in this session, at most 5
  since      \* history: time since the clock reading of its last query, at most SinceCap

registry == <<kind, metadata, wait, attempts>>
external == <<truth, answers>>
history == <<asked, tries, since>>
vars == <<kind, mask, metadata, wait, attempts, truth, answers, caller, scan, session,
          asked, tries, since>>

NoMetadata == [p \in MetadataProps |-> "empty"]
NothingRead == [p \in Props |-> "pending"]
IdleScan == [at |-> "idle", pending |-> {}, due |-> {}, deferred |-> {}, dev |-> NoDevice,
             step |-> 0, read |-> NothingRead, retry |-> FALSE, result |-> "Unknown", age |-> 0]
IdleCaller == [at |-> "idle", dev |-> NoDevice]

SinceCap == 10 + ScanCap
AtMost(n, k) == IF n <= k THEN n ELSE k
-------------------------------------------------------------------------------
(* Pose callbacks.                                                         *)

\* isFilterTarget() loads the kind.  A tracker's callback goes on to filterPose(), which
\* reads the metadata; an unknown device's to requestClassification().
Callback(c, d) ==
  /\ caller[c].at = "idle"
  /\ caller' = [caller EXCEPT ![c] =
       CASE kind[d] = "Unknown"     -> [at |-> "request", dev |-> d]
         [] kind[d] = "ViveTracker" -> [at |-> "read metadata", dev |-> d]
         [] OTHER                   -> IdleCaller]
  /\ UNCHANGED <<registry, mask, external, scan, session, history>>

\* fetch_or: a request that meets the exchange of RunFrame is not lost.
Request(c) ==
  /\ caller[c].at = "request"
  /\ mask' = mask \cup {caller[c].dev}
  /\ asked' = asked \cup {caller[c].dev}
  /\ caller' = [caller EXCEPT ![c] = IdleCaller]
  /\ UNCHANGED <<registry, external, scan, session, tries, since>>

ReadMetadata(c) ==
  /\ caller[c].at = "read metadata"
  /\ caller' = [caller EXCEPT ![c] = IdleCaller]
  /\ UNCHANGED <<registry, mask, external, scan, session, history>>
-------------------------------------------------------------------------------
(* classifyPendingAt, on the thread of RunFrame.                           *)

\* Read the clock and take the mask.  Only this thread writes retryAfter_, so the
\* devices that are due are known now.
Exchange ==
  /\ scan.at = "idle" /\ mask # {}
  /\ mask' = {}
  /\ scan' = [IdleScan EXCEPT !.at = "next", !.pending = mask,
                              !.due = {d \in Devices : wait[d] = 0}]
  /\ UNCHANGED <<registry, external, caller, session, history>>

\* A stale bit: the device was classified between a callback's load and its request.
AnyBit(d) == FALSE
Classified(d) == kind[d] # "Unknown"

Skip(d) ==
  /\ scan.at = "next" /\ d \in scan.pending
  /\ Classified(d)
  /\ scan' = [scan EXCEPT !.pending = @ \ {d}]
  /\ UNCHANGED <<registry, mask, external, caller, session, history>>

\* A device that waits for its retry is put back as it is.
StartedAnew(d) == 1
Untouched(d) == wait[d]

Defer(d) ==
  /\ scan.at = "next" /\ d \in scan.pending
  /\ ~Classified(d) /\ d \notin scan.due
  /\ scan' = [scan EXCEPT !.pending = @ \ {d}, !.deferred = @ \cup {d}]
  /\ wait' = [wait EXCEPT ![d] = Untouched(d)]
  /\ UNCHANGED <<kind, metadata, attempts, mask, external, caller, session, history>>

StartQuery(d) ==
  /\ scan.at = "next" /\ d \in scan.pending
  /\ ~Classified(d) /\ d \in scan.due
  /\ scan' = [scan EXCEPT !.at = "class", !.pending = @ \ {d}, !.dev = d]
  /\ since' = [since EXCEPT ![d] = scan.age]
  /\ UNCHANGED <<registry, mask, external, caller, session, asked, tries>>

\* The class comes first.  One that is not there is retried, one that is an error is
\* not; a device that is no generic tracker is Other.
QueryClass ==
  LET answer == answers[scan.dev]["class"] IN
  /\ scan.at = "class"
  /\ scan' = CASE answer = "match" -> [scan EXCEPT !.at = "identity", !.step = 1]
               [] answer = "other" -> [scan EXCEPT !.at = "metadata", !.result = "Other"]
               [] OTHER            -> [scan EXCEPT !.at = "back off",
                                                   !.retry = (answer = "pending")]
  /\ UNCHANGED <<registry, mask, external, caller, session, history>>

\* propertyString(): one property after the other, each read as it is now.
Retry(answer) == scan.retry \/ answer = "pending"

QueryIdentity ==
  LET p == IdentityProps[scan.step]
      answer == answers[scan.dev][p]
  IN
  /\ scan.at = "identity" /\ scan.step <= Len(IdentityProps)
  /\ scan' = [scan EXCEPT !.read[p] = IF answer = "pending" THEN "empty" ELSE answer,
                          !.retry = Retry(answer), !.step = @ + 1]
  /\ UNCHANGED <<registry, mask, external, caller, session, history>>

\* classifyIdentity(): the actual tracking system, if there is one, wins.
IdentifyBySystem(read) ==
  /\ "match" \in {read.system, read.actual}
  /\ \/ "match" \in {read.registered, read.controller}
     \/ read.model = "match" /\ read.maker = "match"
Identify(read) ==
  /\ (IF read.actual \in {"match", "other"} THEN read.actual ELSE read.system) = "match"
  /\ \/ "match" \in {read.registered, read.controller}
     \/ read.model = "match" /\ read.maker = "match"

\* A positive match stands whatever is missing, a negative one only if nothing is.
Decide ==
  /\ scan.at = "identity" /\ scan.step > Len(IdentityProps)
  /\ scan' = CASE Identify(scan.read) ->
                    [scan EXCEPT !.at = "metadata", !.result = "ViveTracker"]
               [] ~Identify(scan.read) /\ ~scan.retry ->
                    [scan EXCEPT !.at = "metadata", !.result = "Other"]
               [] OTHER -> [scan EXCEPT !.at = "back off"]
  /\ UNCHANGED <<registry, mask, external, caller, session, history>>

NextOne(s) == [s EXCEPT !.at = "next", !.dev = NoDevice, !.step = 0, !.read = NothingRead,
                        !.retry = FALSE, !.result = "Unknown"]

\* The metadata is complete before the kind lets callbacks read it.
MetadataOf(read) == [p \in MetadataProps |-> IF read[p] = "pending" THEN "empty" ELSE read[p]]
PublishMetadata ==
  /\ scan.at = "metadata"
  /\ metadata' = [metadata EXCEPT ![scan.dev] = MetadataOf(scan.read)]
  /\ scan' = [scan EXCEPT !.at = "kind"]
  /\ UNCHANGED <<kind, wait, attempts, mask, external, caller, session, history>>

PublishKind ==
  /\ scan.at = "kind"
  /\ kind' = [kind EXCEPT ![scan.dev] = scan.result]
  /\ asked' = asked \ {scan.dev}
  /\ scan' = NextOne(scan)
  /\ UNCHANGED <<metadata, wait, attempts, mask, external, caller, session, tries, since>>

\* min(1000, 100 << attempts) ms from the clock reading at the start of the pass.
Uncapped(n) == 2 ^ n
Delay(n) == AtMost(2 ^ n, 10)
ThreeSteps(n) == AtMost(n + 1, 3)
NextAttempt(n) == AtMost(n + 1, 4)

BackOff ==
  LET d == scan.dev
      delay == Delay(attempts[d])
  IN
  /\ scan.at = "back off"
  /\ wait' = [wait EXCEPT ![d] = IF delay > scan.age THEN delay - scan.age ELSE 0]
  /\ attempts' = [attempts EXCEPT ![d] = NextAttempt(@)]
  /\ tries' = [tries EXCEPT ![d] = AtMost(@ + 1, 5)]
  /\ asked' = IF scan.retry THEN asked ELSE asked \ {d}
  /\ scan' = [NextOne(scan) EXCEPT !.deferred = IF scan.retry THEN @ \cup {d} ELSE @]
  /\ UNCHANGED <<kind, metadata, mask, external, caller, session, since>>

\* fetch_or of what was deferred; requests that came meanwhile stay.
Overwritten(deferred) == IF deferred # {} THEN deferred ELSE mask
PutBack(deferred) == mask \cup deferred

EndScan ==
  /\ scan.at = "next" /\ scan.pending = {}
  /\ mask' = PutBack(scan.deferred)
  /\ scan' = IdleScan
  /\ UNCHANGED <<registry, external, caller, session, history>>

ScanStep ==
  \/ Exchange
  \/ \E d \in Devices : Skip(d) \/ Defer(d) \/ StartQuery(d)
  \/ QueryClass \/ QueryIdentity \/ Decide \/ PublishMetadata \/ PublishKind \/ BackOff
  \/ EndScan
-------------------------------------------------------------------------------
(* The rest of the world.                                                  *)

\* SteamVR publishes a property.  One whose final answer is pending never comes.
Publish(d, p) ==
  /\ answers[d][p] # truth[d][p]
  /\ answers' = [answers EXCEPT ![d][p] = truth[d][p]]
  /\ UNCHANGED <<registry, mask, truth, caller, scan, session, history>>

\* 100 ms go by.
Tick ==
  /\ scan.at = "idle" \/ scan.age < ScanCap
  /\ \E d \in Devices : wait[d] > 0 \/ since[d] < SinceCap
  /\ wait' = [d \in Devices |-> IF wait[d] > 0 THEN wait[d] - 1 ELSE 0]
  /\ since' = [d \in Devices |-> AtMost(since[d] + 1, SinceCap)]
  /\ scan' = IF scan.at = "idle" THEN scan ELSE [scan EXCEPT !.age = @ + 1]
  /\ UNCHANGED <<kind, metadata, attempts, mask, external, caller, session, asked, tries>>

\* reset(), called by Init when nothing else runs (PoseForwarding, InitAlone).
Reset ==
  /\ session < MaxSessions /\ scan.at = "idle" /\ \A c \in Callers : caller[c].at = "idle"
  /\ session' = session + 1
  /\ kind' = [d \in Devices |-> "Unknown"] /\ mask' = {}
  /\ metadata' = [d \in Devices |-> NoMetadata]
  /\ wait' = [d \in Devices |-> 0] /\ attempts' = [d \in Devices |-> 0]
  /\ asked' = {} /\ tries' = [d \in Devices |-> 0] /\ since' = [d \in Devices |-> SinceCap]
  /\ UNCHANGED <<external, caller, scan>>

Init ==
  /\ kind = [d \in Devices |-> "Unknown"] /\ mask = {}
  /\ metadata = [d \in Devices |-> NoMetadata]
  /\ wait = [d \in Devices |-> 0] /\ attempts = [d \in Devices |-> 0]
  /\ truth \in [Devices -> Identities]
  /\ answers = [d \in Devices |-> [p \in Props |-> IF p \in Late THEN "pending" ELSE truth[d][p]]]
  /\ caller = [c \in Callers |-> IdleCaller] /\ scan = IdleScan /\ session = 0
  /\ asked = {} /\ tries = [d \in Devices |-> 0] /\ since = [d \in Devices |-> SinceCap]

Next ==
  \/ \E c \in Callers, d \in Devices : Callback(c, d)
  \/ \E c \in Callers : Request(c) \/ ReadMetadata(c)
  \/ ScanStep
  \/ \E d \in Devices, p \in Props : Publish(d, p)
  \/ Tick \/ Reset

Spec == Init /\ [][Next]_vars

\* RunFrame keeps coming, time goes by, SteamVR publishes what it will publish, and a
\* callback that is under way goes on.  No device has to call again.  (Tick is strong: what
\* stops it in a pass is only the bound ScanCap.)
FairSpec ==
  /\ Spec
  /\ WF_vars(ScanStep) /\ SF_vars(Tick)
  /\ \A d \in Devices, p \in Props : WF_vars(Publish(d, p))
  /\ \A c \in Callers : WF_vars(Request(c) \/ ReadMetadata(c))
-------------------------------------------------------------------------------
(* Properties.                                                             *)

Kinds == {"Unknown", "ViveTracker", "Other"}
ScanType ==
  [at : {"idle", "next", "class", "identity", "metadata", "kind", "back off"},
   pending : SUBSET Devices, due : SUBSET Devices, deferred : SUBSET Devices,
   dev : Devices \cup {NoDevice}, step : 0 .. Len(IdentityProps) + 1,
   read : [Props -> Answers], retry : BOOLEAN, result : Kinds, age : 0 .. ScanCap]

\* Every variable has its type; a backoff is never longer than 1 s.
TypeOK ==
  /\ kind \in [Devices -> Kinds] /\ mask \subseteq Devices /\ asked \subseteq Devices
  /\ metadata \in [Devices -> [MetadataProps -> Answers]]
  /\ wait \in [Devices -> 0 .. 10] /\ attempts \in [Devices -> 0 .. 4]
  /\ truth \in [Devices -> Identities] /\ answers \in [Devices -> [Props -> Answers]]
  /\ caller \in [Callers -> [at : {"idle", "request", "read metadata"},
                             dev : Devices \cup {NoDevice}]]
  /\ scan \in ScanType /\ session \in 0 .. MaxSessions
  /\ tries \in [Devices -> 0 .. 5] /\ since \in [Devices -> 0 .. SinceCap]

\* The metadata is no atomic: no callback may read it while RunFrame may write it.  A
\* stale request for a device that has its kind must not start another query.
MetadataNotTorn ==
  \A c \in Callers : caller[c].at = "read metadata" =>
    ~(scan.at \in {"class", "identity", "metadata"} /\ scan.dev = caller[c].dev)

\* A request is kept until it is answered: no interleaving of the callbacks' fetch_or
\* with the exchange and the put-back of a pass loses it.
RequestKept ==
  \A d \in asked : \/ kind[d] # "Unknown"
                   \/ d \in mask \cup scan.pending \cup scan.deferred \/ d = scan.dev

\* What the tests of classifyIdentity() ask of a Vive Tracker.
IsViveTracker(id) ==
  /\ id["class"] = "match"
  /\ id.actual = "match" \/ (id.actual # "other" /\ id.system = "match")
  /\ \E proof \in {{"registered"}, {"controller"}, {"model", "maker"}} :
        \A p \in proof : id[p] = "match"

\* Both decisions are for good: a tracker is never given up because SteamVR was still
\* publishing its identity, and only a Vive Tracker is filtered.  A pass may take a
\* device for one by its tracking system as long as the actual one is not there: that
\* alone is excepted (classify()).
DecisionsAreRight ==
  \A d \in Devices :
    /\ kind[d] = "Other" => ~IsViveTracker(truth[d])
    /\ kind[d] = "ViveTracker" => IsViveTracker(truth[d]) \/ "actual" \in Late

\* The n-th retry of a device comes no earlier than 100, 200, 400, 800 and then 1000 ms
\* after the query before it, however often the device calls.
RetriesBackOff ==
  [][\A d \in Devices :
       scan.at = "next" /\ scan'.at = "class" /\ scan'.dev = d /\ tries[d] > 0
         => since[d] - scan.age >= <<1, 2, 4, 8, 10>>[tries[d]]]_vars

\* A single request is enough: a device whose identity arrives gets its kind, also when
\* it is asked for while a pass is under way and never again.
Answerable(d) == truth[d]["class"] # "empty" /\ \A p \in Props : truth[d][p] # "pending"
RequestAnswered ==
  \A d \in Devices : (d \in mask /\ Answerable(d)) ~> (kind[d] # "Unknown" \/ d \notin asked)
===============================================================================
