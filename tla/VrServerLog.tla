----------------------------- MODULE VrServerLog -----------------------------
(***************************************************************************)
(* What the status window reads out of vrserver.txt: parseVrServerLog() and *)
(* the evidence inspectRuntime() draws from its summary                     *)
(* (src/status/status_parser.cpp, status_main.cpp, status_overview.hpp).    *)
(*                                                                         *)
(* A line is its time stamp, the kind of PoseAnchor's message, what the     *)
(* message is about ("of": a serial or a destination state) and the number  *)
(* of suppressed messages it stands for ("count").  Any line without a      *)
(* message of PoseAnchor's, torn ones included, is of kind "other"; lines   *)
(* without a valid time stamp are skipped by the parser and left out.       *)
(***************************************************************************)
EXTENDS Naturals, SequencesExt

CONSTANTS MaxTrackers,   \* kMaximumTrackers
          MaxRecent,     \* ParseOptions::maxRecentEvents
          CounterMax,    \* the largest std::uint32_t
          SizeMax        \* the largest std::size_t

ASSUME LogLimits == {MaxTrackers, CounterMax, SizeMax} \subseteq Nat \ {0} /\ MaxRecent \in Nat

Destinations == {"tracking", "hold", "recovering", "lost"}

Line(stamp, kind) == [stamp |-> stamp, kind |-> kind, of |-> "", count |-> 0]

NoCounts == [d \in Destinations |-> 0]

NoSummary ==
  [current |-> FALSE, loaded |-> FALSE, unloaded |-> FALSE, hook |-> FALSE,
   pending |-> FALSE, failure |-> FALSE, disabled |-> FALSE,
   trackers |-> {}, truncated |-> FALSE, counts |-> NoCounts, recent |-> <<>>, next |-> 1]

(***************************************************************************)
(* The messages, one operator each.                                        *)
(***************************************************************************)
\* The driver logs its hook before it logs that it is loaded.
HookSeen(s) == [s EXCEPT !.hook = s.loaded \/ @, !.pending = ~s.loaded \/ @, !.failure = FALSE]

\* A load starts a new epoch; only the hook it announced carries over.
Loaded(s) ==
  [s EXCEPT !.loaded = TRUE, !.hook = s.pending, !.pending = FALSE, !.failure = FALSE,
            !.disabled = FALSE, !.trackers = {}, !.truncated = FALSE,
            !.counts = NoCounts, !.recent = <<>>, !.next = 1]

Unloaded(s) ==
  [s EXCEPT !.unloaded = TRUE, !.loaded = FALSE, !.hook = FALSE, !.pending = FALSE,
            !.failure = FALSE, !.disabled = FALSE]

Disabled(s) == [s EXCEPT !.disabled = TRUE, !.hook = FALSE, !.pending = FALSE]

Failed(s) == [s EXCEPT !.failure = TRUE, !.hook = FALSE, !.pending = FALSE]

Identified(s, serial) ==
  IF serial \in s.trackers \/ Cardinality(s.trackers) < MaxTrackers
  THEN [s EXCEPT !.trackers = @ \cup {serial}]
  ELSE [s EXCEPT !.truncated = TRUE]

AddSaturating(n, more) == IF n > SizeMax - more THEN SizeMax ELSE n + more
SuppressedOnly(count) == count
Occurrences(count) == IF count = CounterMax THEN count ELSE count + 1

\* The retained events are a ring: the slot after the newest is overwritten.
Retain(s, line) ==
  IF MaxRecent = 0 THEN s
  ELSE [s EXCEPT !.recent = IF Len(@) < MaxRecent THEN Append(@, line)
                            ELSE [@ EXCEPT ![s.next] = line],
                 !.next = IF @ = MaxRecent THEN 1 ELSE @ + 1]

Moved(s, line) ==
  LET counted == IF line.of \notin Destinations THEN s
                 ELSE [s EXCEPT !.counts[line.of] = AddSaturating(@, Occurrences(line.count))]
  IN Retain(counted, line)

Applied(s, line) ==
  CASE line.kind = "hook"                     -> HookSeen(s)
    [] line.kind = "load"                     -> Loaded(s)
    [] line.kind = "unload"                   -> Unloaded(s)
    [] line.kind = "disabled"                 -> Disabled(s)
    [] line.kind = "failure"                  -> Failed(s)
    [] line.kind = "tracker" /\ s.loaded      -> Identified(s, line.of)
    [] line.kind = "transition" /\ s.loaded   -> Moved(s, line)
    [] OTHER                                  -> s

NotRotated(s) == s.recent

\* std::rotate: oldest event first.
Rotated(s) ==
  IF s.next = 1 \/ Len(s.recent) # MaxRecent THEN s.recent
  ELSE SubSeq(s.recent, s.next, MaxRecent) \o SubSeq(s.recent, 1, s.next - 1)

\* A line older than the process belongs to an earlier vrserver.
ReadLine(s, line, start) ==
  IF line.stamp < start THEN s ELSE Applied([s EXCEPT !.current = TRUE], line)

\* The summary after each line, and after the last.
ReadLines(log, start) ==
  LET after[n \in 0 .. Len(log)] ==
        IF n = 0 THEN NoSummary ELSE ReadLine(after[n - 1], log[n], start)
  IN after[Len(log)]

Parsed(log, start) ==
  LET s == ReadLines(log, start)
  IN [s EXCEPT !.hook = @ /\ s.loaded, !.recent = Rotated(s)]

(***************************************************************************)
(* inspectRuntime(): what the summary of a log, read whole or as a tail,    *)
(* proves about the process that started at start.                          *)
(***************************************************************************)
AssumedCovered(log, truncated, start) == TRUE

\* A tail that reaches back to an older process shows the whole session.
Covered(log, truncated, start) ==
  ~truncated \/ \E i \in DOMAIN log : log[i].stamp <= start

LoadEvidence(s, covered) ==
  IF s.loaded THEN "Yes"
  ELSE IF s.unloaded \/ (covered /\ s.current) THEN "No" ELSE "Unknown"

HookEvidence(s, covered) ==
  IF LoadEvidence(s, covered) = "No" THEN "NotApplicable"
  ELSE IF LoadEvidence(s, covered) = "Unknown" THEN "Unknown"
  ELSE IF s.hook THEN "Yes"
  ELSE IF s.disabled \/ s.failure \/ covered THEN "No" ELSE "Unknown"

(***************************************************************************)
(* registrationStateFromInspection() and selectOverview().                  *)
(***************************************************************************)
RegistrationState(expected, others, incomplete) ==
  IF incomplete THEN "InspectionIncomplete"
  ELSE IF expected = 1 /\ others = 0 THEN "Registered"
  ELSE IF expected > 1 \/ others > 1 \/ (expected # 0 /\ others # 0)
  THEN "ConflictingRegistrations"
  ELSE IF others # 0 THEN "RegisteredElsewhere" ELSE "NotRegistered"

Overview(registration, complete, running, loaded, hook, disabled, recognised) ==
  IF registration # "Registered" THEN registration
  ELSE IF ~complete THEN "SteamVrUnknown"
  ELSE IF ~running THEN "SteamVrStopped"
  ELSE IF loaded # "Yes" THEN "DriverUnavailable"
  ELSE IF disabled THEN "Disabled"
  ELSE IF hook # "Yes" THEN "HookUnavailable"
  ELSE IF recognised THEN "Ready" ELSE "WaitingForTracker"

=============================================================================
