---------------------------- MODULE TransitionLog ----------------------------
(***************************************************************************)
(* How the driver tells of a tracker's changes of state, and what is left   *)
(* of them in the status window (server_provider.cpp, recordStateChange();  *)
(* status_parser.cpp).  Per destination the driver logs at most one change  *)
(* in an interval; a later line carries the number of those it left out.    *)
(*                                                                         *)
(* The clock is steady, but the watchdog reads it once a frame: a change it *)
(* finds may carry an earlier time than one a callback has just logged.     *)
(***************************************************************************)
EXTENDS VrServerLog

CONSTANTS Interval,  \* kTransitionLogIntervalNs
          Serials,   \* trackers that may be identified
          Reached,   \* bounds: the states the tracker reaches,
          MaxTime,   \* the clock,
          MaxChanges,\* the changes of state in one load
          MaxMessages \* and the driver's lines in the log

States == {"cold"} \cup Destinations

ASSUME TransitionLimits ==
  /\ Interval \in Nat /\ Reached \subseteq States
  /\ MaxTime \in Nat \ {0} /\ {MaxChanges, MaxMessages} \subseteq Nat

VARIABLES
  now,         \* steadyNowNs(); 0 in the slot means "never"
  frame,       \* nowNs of the RunFrame under way
  lastState,   \* DeviceSlot::lastState
  lastLog,     \* lastTransitionLogNs
  suppressed,  \* suppressedTransitionLogs
  identified,  \* the trackers identified since Init
  lines,       \* PoseAnchor's lines in vrserver.txt
  loaded,      \* the driver is loaded
  changes,     \* history: the changes of state since the load, per destination
  complete     \* history: none of them was forgotten

slotVars == <<lastState, lastLog, suppressed>>
transitionVars == <<now, frame, slotVars, identified, lines, loaded, changes, complete>>

Never == [s \in States |-> 0]

TransitionTypeOK ==
  /\ now \in 1 .. MaxTime /\ frame \in 1 .. now
  /\ lastState \in States /\ lastLog \in [States -> 0 .. now]
  /\ suppressed \in [States -> 0 .. CounterMax]
  /\ identified \in SUBSET Serials /\ loaded \in BOOLEAN /\ complete \in BOOLEAN
  /\ changes \in [States -> Nat]

Log(kind, of, count) ==
  /\ Len(lines) < MaxMessages
  /\ lines' = Append(lines, [stamp |-> 1, kind |-> kind, of |-> of, count |-> count])

TransitionInit ==
  /\ now = 1 /\ frame = 1
  /\ lastState = "cold" /\ lastLog = Never /\ suppressed = Never
  /\ identified = {} /\ lines = <<>> /\ loaded = FALSE
  /\ changes = Never /\ complete = TRUE

\* recordStateChange() suppresses a change that follows the last line too soon.
TooSoon(to, time) ==
  lastLog[to] # 0 /\ time >= lastLog[to] /\ time - lastLog[to] < Interval

OneMoreUnchecked(n) == n + 1
OneMore(n) == IF n = CounterMax THEN n ELSE n + 1

\* logStateChange() may fail: its line is lost, and the count with it.
RecordStateChange(to, time) ==
  /\ loaded /\ to # lastState /\ lastState' = to
  /\ FoldFunction(+, 0, changes) < MaxChanges /\ changes' = [changes EXCEPT ![to] = @ + 1]
  /\ IF TooSoon(to, time)
     THEN /\ suppressed' = [suppressed EXCEPT ![to] = OneMore(@)]
          /\ UNCHANGED <<lastLog, lines, complete>>
     ELSE /\ suppressed' = [suppressed EXCEPT ![to] = 0]
          /\ lastLog' = [lastLog EXCEPT ![to] = time]
          /\ \/ /\ Log("transition", to, suppressed[to])
                /\ UNCHANGED complete
             \/ UNCHANGED lines /\ complete' = FALSE
  /\ UNCHANGED <<now, frame, identified, loaded>>

\* push() in filterPose(), tick() in RunFrame().
CallbackChange == \E to \in Reached : RecordStateChange(to, now)
WatchdogChange == \E to \in {"hold", "lost"} \cap Reached : RecordStateChange(to, frame)

ClockAdvances ==
  /\ now < MaxTime /\ now' = now + 1
  /\ UNCHANGED <<frame, slotVars, identified, lines, loaded, changes, complete>>

FrameBegins ==
  /\ frame # now /\ frame' = now
  /\ UNCHANGED <<now, slotVars, identified, lines, loaded, changes, complete>>

\* A disconnect or a changed transform: resetTransitionLogRate().
ResetSlot ==
  /\ loaded
  /\ lastState' = "cold" /\ lastLog' = Never /\ suppressed' = Never
  /\ complete' = (complete /\ suppressed = Never)
  /\ UNCHANGED <<now, frame, identified, lines, loaded, changes>>

IdentifyOne ==
  /\ loaded
  /\ \E serial \in Serials \ identified :
       identified' = identified \cup {serial} /\ Log("tracker", serial, 0)
  /\ UNCHANGED <<now, frame, slotVars, loaded, changes, complete>>

\* Init() resets the slots before it says that it is loaded.
Load ==
  /\ ~loaded /\ loaded' = TRUE
  /\ lastState' = "cold" /\ lastLog' = Never /\ suppressed' = Never
  /\ identified' = {} /\ Log("load", "", 0)
  /\ changes' = Never /\ complete' = TRUE
  /\ UNCHANGED <<now, frame>>

Unload ==
  /\ loaded /\ loaded' = FALSE
  /\ Log("unload", "", 0)
  /\ UNCHANGED <<now, frame, slotVars, identified, changes, complete>>

TransitionNext ==
  \/ CallbackChange \/ WatchdogChange \/ ClockAdvances \/ FrameBegins
  \/ ResetSlot \/ IdentifyOne \/ Load \/ Unload

TransitionSpec == TransitionInit /\ [][TransitionNext]_transitionVars

(***************************************************************************)
(* Properties.                                                             *)
(***************************************************************************)
Summary(from) == Parsed(SubSeq(lines, from, Len(lines)), 0)

\* The counts the window shows never exceed what happened, whatever the rate
\* limit, the watchdog's earlier clock, saturation and resets did; and nothing
\* is missing that is not still waiting in the driver, unless a reset or a
\* failed log call forgot it or a counter is full (recordStateChange(),
\* status_parser.cpp:598-616).
CountsAreMinimums ==
  \A d \in Destinations :
    /\ \A from \in 1 .. Len(lines) + 1 : Summary(from).counts[d] <= changes[d]
    /\ complete /\ changes[d] <= CounterMax /\ changes[d] <= SizeMax =>
         Summary(1).counts[d] + suppressed[d] = changes[d]

\* What the window keeps of a log is the end of its last load: the newest
\* events, oldest first, and the first trackers, with a flag if there were
\* more (parseVrServerLog()).
Epoch ==
  LET loads == {i \in DOMAIN lines : lines[i].kind = "load"}
  IN IF loads = {} THEN <<>> ELSE SubSeq(lines, Max(loads) + 1, Len(lines))

Of(kind) == {i \in DOMAIN Epoch : Epoch[i].kind = kind}

\* The events at these positions, in their order: the last ones, and all if they fit.
AreNewest(events, positions) ==
  /\ Len(events) <= MaxRecent
  /\ \E at \in [DOMAIN events -> positions] :
       /\ \A j, k \in DOMAIN at : j < k => at[j] < at[k]
       /\ \A k \in DOMAIN at : events[k] = Epoch[at[k]]
       /\ \A i \in positions :
            \/ \E k \in DOMAIN at : at[k] = i
            \/ Len(events) = MaxRecent /\ \A k \in DOMAIN at : i < at[k]

SummaryIsReference ==
  LET serials == {Epoch[i].of : i \in Of("tracker")}
      s       == Summary(1)
  IN /\ AreNewest(s.recent, Of("transition"))
     /\ s.trackers \subseteq serials
     /\ s.truncated <=> s.trackers # serials
     /\ s.truncated => Cardinality(s.trackers) = MaxTrackers

=============================================================================
