-------------------------- MODULE TransitionLogProofs --------------------------
(* Proofs about TransitionLog, and first about the log both it and            *)
(* StatusSession write: what parseVrServerLog() makes of it line by line.      *)
EXTENDS TransitionLog, SequenceTheorems, FiniteSetTheorems, WellFoundedInduction, TLAPS

(***************************************************************************)
(* Reading a log.                                                          *)
(***************************************************************************)
\* Induction over the naturals, for a set.
LEMMA SetInduction ==
  ASSUME NEW T \in SUBSET Nat, 0 \in T, \A n \in T : n + 1 \in T
  PROVE  T = Nat
<1>1. SUFFICES ASSUME Nat \ T # {} PROVE FALSE
  OBVIOUS
<1>2. PICK x \in Nat \ T : \A y \in Nat \ T : <<y, x>> \notin OpToRel(<, Nat)
  BY <1>1, WFMin, NatLessThanWellFounded, Zenon
<1>3. \A y \in Nat \ T : ~(y < x)
  BY <1>2 DEF OpToRel
<1>4. x # 0 /\ x - 1 \in Nat
  OBVIOUS
<1>5. x - 1 \in T
  BY <1>3, <1>4
<1>6. (x - 1) + 1 \in T /\ (x - 1) + 1 = x
  BY <1>4, <1>5
<1> QED
  BY <1>6

\* f holds the summaries after the first n lines of log.
Reading(f, log, start, n) ==
  f = [i \in 0 .. n |-> IF i = 0 THEN NoSummary ELSE ReadLine(f[i - 1], log[i], start)]

LEMMA ReadingExists ==
  ASSUME NEW log, NEW start, NEW m \in Nat
  PROVE  \E f : Reading(f, log, start, m)
<1> DEFINE T == {n \in Nat : \E f : Reading(f, log, start, n)}
<1>1. 0 \in T
  <2>1. Reading([i \in 0 .. 0 |-> NoSummary], log, start, 0)
    BY DEF Reading
  <2> QED
    BY <2>1
<1>2. ASSUME NEW n \in T PROVE n + 1 \in T
  <2>1. PICK f : Reading(f, log, start, n)
    OBVIOUS
  <2> DEFINE g == [i \in 0 .. n + 1 |-> IF i = n + 1 THEN ReadLine(f[n], log[n + 1], start)
               ELSE f[i]]
  <2>2. Reading(g, log, start, n + 1)
    BY <2>1 DEF Reading
  <2> QED
    BY <2>2
<1> HIDE DEF T
<1>3. T = Nat
  BY <1>1, <1>2, SetInduction DEF T
<1> QED
  BY <1>3 DEF T

LEMMA ReadLinesReads ==
  ASSUME NEW log, NEW start, Len(log) \in Nat
  PROVE  \E f : Reading(f, log, start, Len(log)) /\ ReadLines(log, start) = f[Len(log)]
<1> DEFINE F == CHOOSE f : Reading(f, log, start, Len(log))
<1>1. Reading(F, log, start, Len(log))
  BY ReadingExists, Zenon
<1>2. ReadLines(log, start) = F[Len(log)]
  BY Zenon DEF ReadLines, Reading
<1> QED
  BY <1>1, <1>2

\* A prefix gives the same summaries, and the lines count as they are.
LEMMA ReadingAgrees ==
  ASSUME NEW f, NEW g, NEW a, NEW b, NEW start, NEW m \in Nat, NEW n \in Nat, m <= n,
         Reading(f, a, start, m), Reading(g, b, start, n),
         \A i \in 1 .. m : a[i] = b[i]
  PROVE  f[m] = g[m]
<1> DEFINE T == {i \in Nat : i <= m => f[i] = g[i]}
<1>1. 0 \in T
  BY DEF Reading
<1>2. ASSUME NEW i \in T PROVE i + 1 \in T
  <2>1. CASE i + 1 <= m
    <3>1. f[i + 1] = ReadLine(f[i], a[i + 1], start) /\ g[i + 1] = ReadLine(g[i], b[i + 1], start)
      BY <2>1 DEF Reading
    <3> QED
      BY <2>1, <3>1
  <2> QED
    BY <2>1
<1> HIDE DEF T
<1>3. T = Nat
  BY <1>1, <1>2, SetInduction DEF T
<1> QED
  BY <1>3 DEF T

\* Nothing read is no evidence.
LEMMA ReadNone == ASSUME NEW start PROVE ReadLines(<<>>, start) = NoSummary
<1>1. Len(<<>>) = 0
  OBVIOUS
<1>2. PICK f : Reading(f, <<>>, start, 0) /\ ReadLines(<<>>, start) = f[0]
  BY <1>1, ReadLinesReads
<1> QED
  BY <1>2 DEF Reading

\* The parser reads on where it stopped.
LEMMA ReadAppend ==
  ASSUME NEW S, NEW log \in Seq(S), NEW line \in S, NEW start
  PROVE  ReadLines(Append(log, line), start) = ReadLine(ReadLines(log, start), line, start)
<1> DEFINE n   == Len(log)
           all == Append(log, line)
<1>1. n \in Nat /\ Len(all) = n + 1 /\ all[n + 1] = line /\ \A i \in 1 .. n : log[i] = all[i]
  BY AppendProperties, LenProperties
<1>2. PICK f : Reading(f, log, start, n) /\ ReadLines(log, start) = f[n]
  BY <1>1, ReadLinesReads
<1> HIDE DEF all, n
<1>7. n + 1 \in Nat /\ n <= n + 1 /\ Len(all) \in Nat
  BY <1>1
<1>3. PICK g : Reading(g, all, start, n + 1) /\ ReadLines(all, start) = g[n + 1]
  <2>1. \E g : Reading(g, all, start, Len(all)) /\ ReadLines(all, start) = g[Len(all)]
    BY <1>7, ReadLinesReads, Zenon
  <2> QED
    BY <1>1, <2>1, Zenon
<1>4. f[n] = g[n]
  BY <1>1, <1>2, <1>3, <1>7, ReadingAgrees, Zenon
<1>5. g[n + 1] = ReadLine(g[(n + 1) - 1], all[n + 1], start)
  BY <1>1, <1>3 DEF Reading
<1>6. (n + 1) - 1 = n
  BY <1>1
<1> QED
  BY <1>1, <1>2, <1>3, <1>4, <1>5, <1>6 DEF all

\* What the lines from the one at "from" say.
ReadTail(log, from, start) == ReadLines(SubSeq(log, from, Len(log)), start)

LEMMA SubSeqAppend ==
  ASSUME NEW S, NEW log \in Seq(S), NEW line \in S, NEW from \in 1 .. Len(log) + 1
  PROVE  /\ SubSeq(log, from, Len(log)) \in Seq(S)
         /\ SubSeq(Append(log, line), from, Len(log) + 1) =
              Append(SubSeq(log, from, Len(log)), line)
<1> DEFINE n   == Len(log)
           all == Append(log, line)
           a   == SubSeq(log, from, n)
           b   == SubSeq(all, from, n + 1)
<1>1. n \in Nat /\ Len(all) = n + 1 /\ all[n + 1] = line /\ \A i \in 1 .. n : log[i] = all[i]
  BY AppendProperties, LenProperties
<1>2. from \in Int /\ n + 1 \in Int /\ n \in Int /\ from <= n + 1
  BY <1>1
<1>3. \A i \in from .. n : log[i] \in S
  BY <1>1, ElementOfSeq
<1>4. \A i \in from .. n + 1 : all[i] \in S
  <2>1. all \in Seq(S)
    BY AppendProperties
  <2> QED
    BY <2>1, <1>1, ElementOfSeq
<1>5. a \in Seq(S) /\ Len(a) = (IF from <= n THEN n - from + 1 ELSE 0)
      /\ \A i \in 1 .. n - from + 1 : a[i] = log[from + i - 1]
  BY <1>2, <1>3, SubSeqProperties
<1>6. b \in Seq(S) /\ Len(b) = n - from + 2
      /\ \A i \in 1 .. n - from + 2 : b[i] = all[from + i - 1]
  <2>1. b \in Seq(S) /\ Len(b) = (IF from <= n + 1 THEN n + 1 - from + 1 ELSE 0)
        /\ \A i \in 1 .. n + 1 - from + 1 : b[i] = all[from + i - 1]
    <3> HIDE DEF all, n
    <3> QED
      BY <1>2, <1>4, SubSeqProperties
  <2> HIDE DEF all, n, b
  <2> QED
    BY <1>1, <1>2, <2>1
<1> DEFINE c == Append(a, line)
<1>7. c \in Seq(S) /\ Len(c) = Len(a) + 1
      /\ (\A i \in 1 .. Len(a) : c[i] = a[i]) /\ c[Len(a) + 1] = line
  <2> HIDE DEF a
  <2> QED
    BY <1>5, AppendProperties
<1> HIDE DEF a, b, c, n, all
<1>8. Len(a) = n - from + 1 /\ from \in 1 .. n + 1
  BY <1>1, <1>2, <1>5 DEF n
<1>9. ASSUME NEW i \in 1 .. Len(b) PROVE b[i] = c[i]
  <2>1. CASE i = Len(a) + 1
    <3>1. from + i - 1 = n + 1
      BY <1>1, <1>2, <1>8, <2>1
    <3>2. b[i] = all[from + i - 1]
      BY <1>6
    <3> QED
      BY <1>1, <1>7, <2>1, <3>1, <3>2
  <2>2. CASE i # Len(a) + 1
    <3>1. i \in 1 .. n - from + 1 /\ i \in 1 .. Len(a) /\ from + i - 1 \in 1 .. n
      BY <1>1, <1>2, <1>6, <1>8, <2>2
    <3>2. b[i] = all[from + i - 1] /\ c[i] = a[i] /\ a[i] = log[from + i - 1]
      BY <1>5, <1>6, <1>7, <3>1
    <3> QED
      BY <1>1, <3>1, <3>2
  <2> QED
    BY <2>1, <2>2
<1>10. b = c
  <2>1. Len(b) = Len(c)
    BY <1>1, <1>2, <1>6, <1>7, <1>8
  <2> QED
    BY <1>6, <1>7, <1>9, <2>1, SeqEqual
<1> QED
  BY <1>5, <1>10 DEF a, b, c, n, all

LEMMA TailAppend ==
  ASSUME NEW S, NEW log \in Seq(S), NEW line \in S, NEW from \in 1 .. Len(log) + 1, NEW start
  PROVE  ReadTail(Append(log, line), from, start) =
           ReadLine(ReadTail(log, from, start), line, start)
<1>1. Len(Append(log, line)) = Len(log) + 1
  BY AppendProperties
<1>2. /\ SubSeq(log, from, Len(log)) \in Seq(S)
      /\ SubSeq(Append(log, line), from, Len(log) + 1) = Append(SubSeq(log, from, Len(log)), line)
  BY SubSeqAppend
<1>3. ReadLines(Append(SubSeq(log, from, Len(log)), line), start)
        = ReadLine(ReadLines(SubSeq(log, from, Len(log)), start), line, start)
  BY <1>2, ReadAppend
<1> QED
  BY <1>1, <1>2, <1>3, Zenon DEF ReadTail

LEMMA TailNone ==
  ASSUME NEW S, NEW log \in Seq(S), NEW start
  PROVE  ReadTail(log, Len(log) + 1, start) = NoSummary
<1>1. SubSeq(log, Len(log) + 1, Len(log)) = <<>>
  BY LenProperties, SubSeqEmpty
<1> QED
  BY <1>1, ReadNone, Zenon DEF ReadTail

LEMMA TailWhole ==
  ASSUME NEW S, NEW log \in Seq(S), NEW start
  PROVE  ReadTail(log, 1, start) = ReadLines(log, start)
  BY SubSeqFull, Zenon DEF ReadTail

\* Lines of an earlier process say nothing.
LEMMA OldLines ==
  ASSUME NEW log, Len(log) \in Nat, NEW start, \A i \in 1 .. Len(log) : log[i].stamp < start
  PROVE  ReadLines(log, start) = NoSummary
<1>1. PICK f : Reading(f, log, start, Len(log)) /\ ReadLines(log, start) = f[Len(log)]
  BY ReadLinesReads
<1> DEFINE T == {i \in Nat : i <= Len(log) => f[i] = NoSummary}
<1>2. 0 \in T
  BY <1>1 DEF Reading
<1>3. ASSUME NEW i \in T PROVE i + 1 \in T
  <2>1. CASE i + 1 <= Len(log)
    <3>1. f[i + 1] = ReadLine(f[i], log[i + 1], start)
      BY <1>1, <2>1 DEF Reading
    <3>2. i + 1 \in 1 .. Len(log) /\ f[i] = NoSummary
      BY <2>1
    <3> QED
      BY <2>1, <3>1, <3>2 DEF ReadLine
  <2> QED
    BY <2>1
<1> HIDE DEF T
<1>4. T = Nat
  BY <1>2, <1>3, SetInduction DEF T
<1> QED
  BY <1>1, <1>4 DEF T

LEMMA OldTail ==
  ASSUME NEW S, NEW log \in Seq(S), NEW start, NEW from \in 1 .. Len(log) + 1,
         \A i \in 1 .. Len(log) : log[i].stamp < start
  PROVE  ReadTail(log, from, start) = NoSummary
<1> DEFINE n == Len(log)
           a == SubSeq(log, from, n)
<1>1. n \in Nat /\ \A i \in from .. n : log[i] \in S
  BY LenProperties, ElementOfSeq
<1>2. a \in Seq(S) /\ Len(a) = (IF from <= n THEN n - from + 1 ELSE 0)
      /\ \A i \in 1 .. n - from + 1 : a[i] = log[from + i - 1]
  BY <1>1, SubSeqProperties
<1> HIDE DEF a
<1>3. ASSUME NEW i \in 1 .. Len(a) PROVE a[i].stamp < start
  <2>1. i \in 1 .. n - from + 1 /\ from + i - 1 \in 1 .. n
    BY <1>1, <1>2
  <2> QED
    BY <1>2, <2>1
<1>5. Len(a) \in Nat
  BY <1>1, <1>2
<1>4. ReadLines(a, start) = NoSummary
  BY <1>3, <1>5, OldLines
<1> QED
  BY <1>4 DEF a, ReadTail

(***************************************************************************)
(* What each message does to the summary, field by field.                  *)
(***************************************************************************)
SummaryFields == {"current", "loaded", "unloaded", "hook", "pending", "failure", "disabled",
                  "trackers", "truncated", "counts", "recent", "next"}
Shaped(s) == DOMAIN s = SummaryFields

LEMMA NoSummaryShaped == Shaped(NoSummary)
  BY Zenon DEF Shaped, NoSummary, SummaryFields

\* A hook is pending until the driver says that it is loaded.
LEMMA HookSeenIs ==
  ASSUME NEW s, Shaped(s)
  PROVE  /\ Shaped(HookSeen(s))
         /\ HookSeen(s).current = s.current
         /\ HookSeen(s).loaded = s.loaded
         /\ HookSeen(s).unloaded = s.unloaded
         /\ HookSeen(s).hook = (s.loaded \/ s.hook)
         /\ HookSeen(s).pending = (~s.loaded \/ s.pending)
         /\ HookSeen(s).failure = FALSE
         /\ HookSeen(s).disabled = s.disabled
         /\ HookSeen(s).trackers = s.trackers
         /\ HookSeen(s).truncated = s.truncated
         /\ HookSeen(s).counts = s.counts
         /\ HookSeen(s).recent = s.recent
         /\ HookSeen(s).next = s.next
  BY Zenon DEF Shaped, SummaryFields, HookSeen

\* A load forgets everything but a pending hook.
LEMMA LoadedIs ==
  ASSUME NEW s, Shaped(s)
  PROVE  /\ Shaped(Loaded(s))
         /\ Loaded(s).current = s.current
         /\ Loaded(s).loaded = TRUE
         /\ Loaded(s).unloaded = s.unloaded
         /\ Loaded(s).hook = s.pending
         /\ Loaded(s).pending = FALSE
         /\ Loaded(s).failure = FALSE
         /\ Loaded(s).disabled = FALSE
         /\ Loaded(s).trackers = {}
         /\ Loaded(s).truncated = FALSE
         /\ Loaded(s).counts = NoCounts
         /\ Loaded(s).recent = <<>>
         /\ Loaded(s).next = 1
  BY Zenon DEF Shaped, SummaryFields, Loaded

\* An unload keeps the events and the trackers of the load.
LEMMA UnloadedIs ==
  ASSUME NEW s, Shaped(s)
  PROVE  /\ Shaped(Unloaded(s))
         /\ Unloaded(s).current = s.current
         /\ Unloaded(s).loaded = FALSE
         /\ Unloaded(s).unloaded = TRUE
         /\ Unloaded(s).hook = FALSE
         /\ Unloaded(s).pending = FALSE
         /\ Unloaded(s).failure = FALSE
         /\ Unloaded(s).disabled = FALSE
         /\ Unloaded(s).trackers = s.trackers
         /\ Unloaded(s).truncated = s.truncated
         /\ Unloaded(s).counts = s.counts
         /\ Unloaded(s).recent = s.recent
         /\ Unloaded(s).next = s.next
  BY Zenon DEF Shaped, SummaryFields, Unloaded

\* A disabled filter has no hook.
LEMMA DisabledIs ==
  ASSUME NEW s, Shaped(s)
  PROVE  /\ Shaped(Disabled(s))
         /\ Disabled(s).current = s.current
         /\ Disabled(s).loaded = s.loaded
         /\ Disabled(s).unloaded = s.unloaded
         /\ Disabled(s).hook = FALSE
         /\ Disabled(s).pending = FALSE
         /\ Disabled(s).failure = s.failure
         /\ Disabled(s).disabled = TRUE
         /\ Disabled(s).trackers = s.trackers
         /\ Disabled(s).truncated = s.truncated
         /\ Disabled(s).counts = s.counts
         /\ Disabled(s).recent = s.recent
         /\ Disabled(s).next = s.next
  BY Zenon DEF Shaped, SummaryFields, Disabled

\* Nor has one that failed to install.
LEMMA FailedIs ==
  ASSUME NEW s, Shaped(s)
  PROVE  /\ Shaped(Failed(s))
         /\ Failed(s).current = s.current
         /\ Failed(s).loaded = s.loaded
         /\ Failed(s).unloaded = s.unloaded
         /\ Failed(s).hook = FALSE
         /\ Failed(s).pending = FALSE
         /\ Failed(s).failure = TRUE
         /\ Failed(s).disabled = s.disabled
         /\ Failed(s).trackers = s.trackers
         /\ Failed(s).truncated = s.truncated
         /\ Failed(s).counts = s.counts
         /\ Failed(s).recent = s.recent
         /\ Failed(s).next = s.next
  BY Zenon DEF Shaped, SummaryFields, Failed

\* Any line of the process shows that the log is its own.
LEMMA CurrentIs ==
  ASSUME NEW s, Shaped(s)
  PROVE  /\ Shaped([s EXCEPT !.current = TRUE])
         /\ [s EXCEPT !.current = TRUE].current = TRUE
         /\ [s EXCEPT !.current = TRUE].loaded = s.loaded
         /\ [s EXCEPT !.current = TRUE].unloaded = s.unloaded
         /\ [s EXCEPT !.current = TRUE].hook = s.hook
         /\ [s EXCEPT !.current = TRUE].pending = s.pending
         /\ [s EXCEPT !.current = TRUE].failure = s.failure
         /\ [s EXCEPT !.current = TRUE].disabled = s.disabled
         /\ [s EXCEPT !.current = TRUE].trackers = s.trackers
         /\ [s EXCEPT !.current = TRUE].truncated = s.truncated
         /\ [s EXCEPT !.current = TRUE].counts = s.counts
         /\ [s EXCEPT !.current = TRUE].recent = s.recent
         /\ [s EXCEPT !.current = TRUE].next = s.next
  BY Zenon DEF Shaped, SummaryFields

\* Another tracker, as long as there is room.
LEMMA IdentifiedIs ==
  ASSUME NEW s, Shaped(s), NEW serial
  PROVE  /\ Shaped(Identified(s, serial))
         /\ \A f \in SummaryFields \ {"trackers", "truncated"} : Identified(s, serial)[f] = s[f]
  BY Zenon DEF Identified, Shaped, SummaryFields

TrackersRead(r, s, serial) ==
  \/ /\ serial \in s.trackers \/ Cardinality(s.trackers) < MaxTrackers
     /\ r.trackers = s.trackers \cup {serial} /\ r.truncated = s.truncated
  \/ /\ ~(serial \in s.trackers \/ Cardinality(s.trackers) < MaxTrackers)
     /\ r.trackers = s.trackers /\ r.truncated = TRUE

LEMMA TrackersAfter ==
  ASSUME NEW s, Shaped(s), NEW serial, NEW r, r = Identified(s, serial)
  PROVE  TrackersRead(r, s, serial)
<1>1. CASE serial \in s.trackers \/ Cardinality(s.trackers) < MaxTrackers
  <2>1. r = [s EXCEPT !.trackers = @ \cup {serial}]
    BY <1>1, Zenon DEF Identified
  <2> QED
    BY <1>1, <2>1, Zenon DEF Shaped, SummaryFields, TrackersRead
<1>2. CASE ~(serial \in s.trackers \/ Cardinality(s.trackers) < MaxTrackers)
  <2>1. r = [s EXCEPT !.truncated = TRUE]
    BY <1>2, Zenon DEF Identified
  <2> QED
    BY <1>2, <2>1, Zenon DEF Shaped, SummaryFields, TrackersRead
<1> QED
  BY <1>1, <1>2

\* The ring after one more event.
RingAfter(s, line) ==
  IF MaxRecent = 0 THEN s.recent
  ELSE IF Len(s.recent) < MaxRecent THEN Append(s.recent, line)
  ELSE [s.recent EXCEPT ![s.next] = line]
SlotAfter(s) == IF MaxRecent = 0 THEN s.next ELSE IF s.next = MaxRecent THEN 1 ELSE s.next + 1

LEMMA RetainIs ==
  ASSUME NEW s, Shaped(s), NEW line
  PROVE  /\ Shaped(Retain(s, line))
         /\ \A f \in SummaryFields \ {"recent", "next"} : Retain(s, line)[f] = s[f]
         /\ Retain(s, line).recent = RingAfter(s, line)
         /\ Retain(s, line).next = SlotAfter(s)
<1>1. CASE MaxRecent = 0
  BY <1>1, Zenon DEF Retain, RingAfter, SlotAfter
<1>2. CASE MaxRecent # 0
  <2> DEFINE r == [s EXCEPT !.recent = RingAfter(s, line), !.next = SlotAfter(s)]
  <2>1. Retain(s, line) = r
    BY <1>2, Zenon DEF Retain, RingAfter, SlotAfter
  <2>2. /\ Shaped(r) /\ \A f \in SummaryFields \ {"recent", "next"} : r[f] = s[f]
        /\ r.recent = RingAfter(s, line) /\ r.next = SlotAfter(s)
    BY Zenon DEF Shaped, SummaryFields
  <2> QED
    BY <2>1, <2>2, Zenon
<1> QED
  BY <1>1, <1>2

CountsAfter(s, line) ==
  IF line.of \notin Destinations THEN s.counts
  ELSE [s.counts EXCEPT ![line.of] = AddSaturating(@, Occurrences(line.count))]

LEMMA MovedIs ==
  ASSUME NEW s, Shaped(s), NEW line
  PROVE  /\ Shaped(Moved(s, line))
         /\ \A f \in SummaryFields \ {"counts", "recent", "next"} : Moved(s, line)[f] = s[f]
         /\ Moved(s, line).counts = CountsAfter(s, line)
         /\ Moved(s, line).recent = RingAfter(s, line)
         /\ Moved(s, line).next = SlotAfter(s)
<1> DEFINE c == IF line.of \notin Destinations THEN s
                ELSE [s EXCEPT !.counts[line.of] = AddSaturating(@, Occurrences(line.count))]
<1>1. Moved(s, line) = Retain(c, line)
  BY Zenon DEF Moved
<1>2. /\ Shaped(c) /\ \A f \in SummaryFields \ {"counts"} : c[f] = s[f]
      /\ c.counts = CountsAfter(s, line)
  <2>1. CASE line.of \notin Destinations
    BY <2>1, Zenon DEF CountsAfter
  <2>2. CASE line.of \in Destinations
    BY <2>2, Zenon DEF CountsAfter, Shaped, SummaryFields
  <2> QED
    BY <2>1, <2>2
<1> HIDE DEF c
<1>3. /\ Shaped(Retain(c, line))
      /\ \A f \in SummaryFields \ {"recent", "next"} : Retain(c, line)[f] = c[f]
      /\ Retain(c, line).recent = RingAfter(c, line)
      /\ Retain(c, line).next = SlotAfter(c)
  BY <1>2, RetainIs, Zenon
<1>4. c.recent = s.recent /\ c.next = s.next
  BY <1>2, Zenon DEF SummaryFields
<1>5. RingAfter(c, line) = RingAfter(s, line) /\ SlotAfter(c) = SlotAfter(s)
  BY <1>4, Zenon DEF RingAfter, SlotAfter
<1>6. "counts" \in SummaryFields \ {"recent", "next"}
  BY Zenon DEF SummaryFields
<1>7. Retain(c, line).counts = CountsAfter(s, line)
  BY <1>2, <1>3, <1>6, Zenon
<1>8. \A f \in SummaryFields \ {"counts", "recent", "next"} : Retain(c, line)[f] = s[f]
  BY <1>2, <1>3, Zenon
<1> QED
  BY <1>1, <1>3, <1>5, <1>7, <1>8, Zenon

\* Every line of the process is applied.
Touched(s) == [s EXCEPT !.current = TRUE]

LEMMA ReadIs ==
  ASSUME NEW s, NEW line, NEW start, ~(line.stamp < start)
  PROVE  ReadLine(s, line, start) = Applied(Touched(s), line)
  BY Zenon DEF ReadLine, Touched

LEMMA AppliedIs ==
  ASSUME NEW t, NEW line
  PROVE  /\ line.kind = "hook" => Applied(t, line) = HookSeen(t)
         /\ line.kind = "load" => Applied(t, line) = Loaded(t)
         /\ line.kind = "unload" => Applied(t, line) = Unloaded(t)
         /\ line.kind = "disabled" => Applied(t, line) = Disabled(t)
         /\ line.kind = "failure" => Applied(t, line) = Failed(t)
         /\ line.kind = "tracker" /\ t.loaded => Applied(t, line) = Identified(t, line.of)
         /\ line.kind = "transition" /\ t.loaded => Applied(t, line) = Moved(t, line)
         /\ line.kind = "tracker" /\ ~t.loaded => Applied(t, line) = t
         /\ line.kind = "transition" /\ ~t.loaded => Applied(t, line) = t
         /\ line.kind = "other" => Applied(t, line) = t
  BY Zenon DEF Applied

(***************************************************************************)
(* The driver's steps, as the log sees them.                               *)
(***************************************************************************)
Kinds == {"transition", "tracker", "load", "unload"}
Topics == Serials \cup States \cup {""}
LineType == [stamp : {1}, kind : Kinds, of : Topics, count : 0 .. CounterMax]
Entry(kind, of, count) == [stamp |-> 1, kind |-> kind, of |-> of, count |-> count]

Remembers == UNCHANGED <<suppressed, changes, complete, loaded>>

Told(to) ==
  /\ loaded /\ to \in States /\ lines' = Append(lines, Entry("transition", to, suppressed[to]))
  /\ suppressed' = [suppressed EXCEPT ![to] = 0] /\ changes' = [changes EXCEPT ![to] = @ + 1]
  /\ complete' = complete /\ loaded' = loaded
HeldBack(to) ==
  /\ loaded /\ to \in States /\ lines' = lines
  /\ suppressed' = [suppressed EXCEPT ![to] = OneMore(@)]
  /\ changes' = [changes EXCEPT ![to] = @ + 1] /\ complete' = complete /\ loaded' = loaded
Dropped(to) ==
  /\ loaded /\ to \in States /\ lines' = lines
  /\ suppressed' = [suppressed EXCEPT ![to] = 0] /\ changes' = [changes EXCEPT ![to] = @ + 1]
  /\ complete' = FALSE /\ loaded' = loaded
Forgotten ==
  /\ lines' = lines /\ suppressed' = Never /\ changes' = changes /\ loaded' = loaded
  /\ complete' = (complete /\ suppressed = Never)
Introduced ==
  /\ loaded /\ Remembers
  /\ \E serial \in Serials : lines' = Append(lines, Entry("tracker", serial, 0))
LoadTold ==
  /\ loaded' = TRUE /\ lines' = Append(lines, Entry("load", "", 0))
  /\ suppressed' = Never /\ changes' = Never /\ complete' = TRUE
UnloadTold ==
  /\ loaded /\ loaded' = FALSE /\ lines' = Append(lines, Entry("unload", "", 0))
  /\ UNCHANGED <<suppressed, changes, complete>>

LogStep ==
  \/ \E to \in States : Told(to) \/ HeldBack(to) \/ Dropped(to)
  \/ Forgotten \/ Introduced \/ LoadTold \/ UnloadTold
  \/ lines' = lines /\ Remembers

\* What a change of state does to the log and to the counters.
LEMMA ChangeSteps ==
  ASSUME NEW to \in States, NEW time, RecordStateChange(to, time)
  PROVE  Told(to) \/ HeldBack(to) \/ Dropped(to)
<1>1. /\ loaded /\ loaded' = loaded /\ changes' = [changes EXCEPT ![to] = @ + 1]
      /\ \/ /\ suppressed' = [suppressed EXCEPT ![to] = OneMore(@)]
            /\ lines' = lines /\ complete' = complete
         \/ /\ suppressed' = [suppressed EXCEPT ![to] = 0]
            /\ \/ Log("transition", to, suppressed[to]) /\ complete' = complete
               \/ lines' = lines /\ complete' = FALSE
  BY Zenon DEF RecordStateChange
<1>2. Log("transition", to, suppressed[to]) => lines' =
        Append(lines, Entry("transition", to, suppressed[to]))
  BY Zenon DEF Log, Entry
<1> QED
  BY <1>1, <1>2, Zenon DEF Told, HeldBack, Dropped

LEMMA TransitionSteps == [TransitionNext]_transitionVars => LogStep
<1> SUFFICES ASSUME [TransitionNext]_transitionVars PROVE LogStep
  OBVIOUS
<1> USE DEF LogStep
<1>1. Reached \subseteq States
  BY TransitionLimits
<1>2. CASE CallbackChange
  <2>1. PICK to \in Reached : RecordStateChange(to, now)
    BY <1>2, Zenon DEF CallbackChange
  <2> QED
    BY <1>1, <2>1, ChangeSteps, Zenon
<1>3. CASE WatchdogChange
  <2>1. PICK to \in {"hold", "lost"} \cap Reached : RecordStateChange(to, frame)
    BY <1>3, Zenon DEF WatchdogChange
  <2> QED
    BY <1>1, <2>1, ChangeSteps, Zenon
<1>4. CASE ClockAdvances
  BY <1>4, Zenon DEF ClockAdvances, slotVars, Remembers
<1>5. CASE FrameBegins
  BY <1>5, Zenon DEF FrameBegins, slotVars, Remembers
<1>6. CASE ResetSlot
  BY <1>6, Zenon DEF ResetSlot, Forgotten
<1>7. CASE IdentifyOne
  BY <1>7, Zenon DEF IdentifyOne, slotVars, Remembers, Introduced, Log, Entry
<1>8. CASE Load
  BY <1>8, Zenon DEF Load, LoadTold, Log, Entry
<1>9. CASE Unload
  BY <1>9, Zenon DEF Unload, slotVars, UnloadTold, Log, Entry
<1>10. CASE UNCHANGED transitionVars
  BY <1>10, Zenon DEF transitionVars, slotVars, Remembers
<1> QED
  BY <1>2, <1>3, <1>4, <1>5, <1>6, <1>7, <1>8, <1>9, <1>10, Zenon DEF TransitionNext

(***************************************************************************)
(* The type invariant.                                                     *)
(***************************************************************************)
\* The clock and the times it left in the slot.
ClockTyped == now \in 1 .. MaxTime /\ frame \in 1 .. now /\ lastLog \in [States -> 0 .. now]
CountersTyped ==
  /\ suppressed \in [States -> 0 .. CounterMax] /\ changes \in [States -> Nat]
  /\ loaded \in BOOLEAN /\ complete \in BOOLEAN

LEMMA CountersKept == ASSUME CountersTyped, LogStep PROVE CountersTyped'
<1> USE DEF CountersTyped
<1>0. CounterMax \in Nat \ {0}
  BY LogLimits
<1>1. Never \in [States -> 0 .. CounterMax] /\ Never \in [States -> Nat]
  BY <1>0 DEF Never
<1>2. ASSUME NEW to \in States, Told(to) \/ HeldBack(to) \/ Dropped(to) PROVE CountersTyped'
  <2>1. OneMore(suppressed[to]) \in 0 .. CounterMax /\ changes[to] + 1 \in Nat
          /\ 0 \in 0 .. CounterMax
    BY <1>0 DEF OneMore
  <2>2. /\ [suppressed EXCEPT ![to] = OneMore(@)] \in [States -> 0 .. CounterMax]
        /\ [suppressed EXCEPT ![to] = 0] \in [States -> 0 .. CounterMax]
        /\ [changes EXCEPT ![to] = @ + 1] \in [States -> Nat]
    BY <2>1
  <2> QED
    BY <1>2, <2>2, Zenon DEF Told, HeldBack, Dropped
<1>3. CASE Forgotten
  BY <1>1, <1>3, Zenon DEF Forgotten
<1>4. CASE Introduced
  BY <1>4, Zenon DEF Introduced, Remembers
<1>5. CASE LoadTold
  BY <1>1, <1>5, Zenon DEF LoadTold
<1>6. CASE UnloadTold
  BY <1>6, Zenon DEF UnloadTold
<1>7. CASE Remembers
  BY <1>7, Zenon DEF Remembers
<1> QED
  BY <1>2, <1>3, <1>4, <1>5, <1>6, <1>7, Zenon DEF LogStep

LEMMA ClockKept == ASSUME ClockTyped, [TransitionNext]_transitionVars PROVE ClockTyped'
<1> USE DEF ClockTyped
<1>1. now \in Nat /\ MaxTime \in Nat /\ frame \in 1 .. now
  BY TransitionLimits
<1>2. \A n \in 0 .. now : n \in 0 .. now + 1
  BY <1>1
<1>3. Never \in [States -> 0 .. now]
  BY <1>1 DEF Never
<1>4. ASSUME NEW to, NEW time, RecordStateChange(to, time), time \in 0 .. now PROVE ClockTyped'
  <2>1. now' = now /\ frame' = frame
    BY <1>4, Zenon DEF RecordStateChange
  <2>2. lastLog' = lastLog \/ lastLog' = [lastLog EXCEPT ![to] = time]
    BY <1>4, Zenon DEF RecordStateChange
  <2>3. [lastLog EXCEPT ![to] = time] \in [States -> 0 .. now]
    BY <1>4
  <2> QED
    BY <2>1, <2>2, <2>3, Zenon
<1>5. CASE CallbackChange
  <2>1. PICK to \in Reached : RecordStateChange(to, now)
    BY <1>5, Zenon DEF CallbackChange
  <2>2. now \in 0 .. now
    BY <1>1
  <2> QED
    BY <1>4, <2>1, <2>2
<1>6. CASE WatchdogChange
  <2>1. PICK to \in {"hold", "lost"} \cap Reached : RecordStateChange(to, frame)
    BY <1>6, Zenon DEF WatchdogChange
  <2>2. frame \in 0 .. now
    BY <1>1
  <2> QED
    BY <1>4, <2>1, <2>2
<1>7. CASE ClockAdvances
  <2>1. now < MaxTime /\ now' = now + 1 /\ frame' = frame /\ lastLog' = lastLog
    BY <1>7, Zenon DEF ClockAdvances, slotVars
  <2>2. now + 1 \in 1 .. MaxTime /\ frame \in 1 .. now + 1
    BY <1>1, <2>1
  <2>3. lastLog \in [States -> 0 .. now + 1]
    BY <1>2
  <2> QED
    BY <2>1, <2>2, <2>3, Zenon
<1>8. CASE FrameBegins
  <2>1. now \in 1 .. now
    BY <1>1
  <2> QED
    BY <1>8, <2>1, Zenon DEF FrameBegins, slotVars
<1>9. CASE ResetSlot \/ Load
  BY <1>3, <1>9, Zenon DEF ResetSlot, Load
<1>10. CASE IdentifyOne \/ Unload \/ UNCHANGED transitionVars
  BY <1>10, Zenon DEF IdentifyOne, Unload, slotVars, transitionVars
<1> QED
  BY <1>5, <1>6, <1>7, <1>8, <1>9, <1>10, Zenon DEF TransitionNext

LEMMA StatesKept ==
  ASSUME lastState \in States, identified \in SUBSET Serials, [TransitionNext]_transitionVars
  PROVE  lastState' \in States /\ identified' \in SUBSET Serials
<1>0. Reached \subseteq States /\ "cold" \in States
  BY TransitionLimits DEF States
<1>1. ASSUME NEW to \in Reached, NEW time, RecordStateChange(to, time)
      PROVE  lastState' \in States /\ identified' \in SUBSET Serials
  BY <1>0, <1>1, Zenon DEF RecordStateChange
<1>2. CASE CallbackChange \/ WatchdogChange
  BY <1>1, <1>2, Zenon DEF CallbackChange, WatchdogChange
<1>3. CASE IdentifyOne
  <2>1. lastState' = lastState /\ \E serial \in Serials : identified' = identified \cup {serial}
    BY <1>3, Zenon DEF IdentifyOne, slotVars
  <2> QED
    BY <2>1
<1>4. CASE ClockAdvances \/ FrameBegins \/ ResetSlot \/ Unload \/ UNCHANGED transitionVars
  BY <1>0, <1>4, Zenon DEF ClockAdvances, FrameBegins, ResetSlot, Unload, slotVars, transitionVars
<1>5. CASE Load
  <2>1. lastState' = "cold" /\ identified' = {}
    BY <1>5, Zenon DEF Load
  <2> QED
    BY <1>0, <2>1
<1> QED
  BY <1>2, <1>3, <1>4, <1>5, Zenon DEF TransitionNext

LEMMA TransitionTyped ==
  TransitionTypeOK <=> ClockTyped /\ CountersTyped /\ lastState \in States
    /\ identified \in SUBSET Serials
  BY Zenon DEF TransitionTypeOK, ClockTyped, CountersTyped

LEMMA TransitionTypeInit == TransitionInit => TransitionTypeOK
<1> SUFFICES ASSUME TransitionInit PROVE TransitionTypeOK
  OBVIOUS
<1>1. CounterMax \in Nat /\ MaxTime \in Nat \ {0}
  BY LogLimits, TransitionLimits
<1>2. now = 1 /\ frame = 1 /\ lastLog = Never /\ suppressed = Never /\ changes = Never
  BY Zenon DEF TransitionInit
<1>3. 1 \in 1 .. MaxTime /\ 1 \in 1 .. 1
  BY <1>1
<1>4. Never \in [States -> 0 .. 1] /\ Never \in [States -> 0 .. CounterMax]
        /\ Never \in [States -> Nat]
  BY <1>1 DEF Never
<1>5. lastState \in States /\ identified \in SUBSET Serials /\ loaded \in BOOLEAN
        /\ complete \in BOOLEAN
  <2>1. lastState = "cold" /\ identified = {} /\ loaded = FALSE /\ complete = TRUE
    BY Zenon DEF TransitionInit
  <2> QED
    BY <2>1 DEF States
<1> QED
  BY <1>2, <1>3, <1>4, <1>5, TransitionTyped, Zenon DEF ClockTyped, CountersTyped

LEMMA TransitionTypeNext == TransitionTypeOK /\ [TransitionNext]_transitionVars => TransitionTypeOK'
<1> SUFFICES ASSUME TransitionTypeOK, [TransitionNext]_transitionVars PROVE TransitionTypeOK'
  OBVIOUS
<1>1. ClockTyped /\ CountersTyped /\ lastState \in States /\ identified \in SUBSET Serials
  BY TransitionTyped, Zenon
<1>2. ClockTyped' /\ CountersTyped' /\ lastState' \in States /\ identified' \in SUBSET Serials
  BY <1>1, ClockKept, CountersKept, StatesKept, TransitionSteps
<1> QED
  BY <1>2, Zenon DEF TransitionTypeOK, ClockTyped, CountersTyped

\* The rate limiter's clock, counters and times stay in their types for every
\* interval, and a slot never holds a later time than the clock shows
\* (recordStateChange(), resetTransitionLogRate()).
THEOREM TransitionIsTyped == TransitionSpec => []TransitionTypeOK
  BY TransitionTypeInit, TransitionTypeNext, PTL DEF TransitionSpec

(***************************************************************************)
(* The counts are minimums.                                                *)
(***************************************************************************)
\* What the lines from "from" on say, and what all of them say.
Said(from) == ReadTail(lines, from, 0)

\* Every tail of the log counts no more changes than there were, less those that
\* the driver still holds back; the whole log counts exactly those unless one was
\* forgotten or a counter is full.
Minimum(s, held, total) ==
  /\ Shaped(s) /\ s.loaded \in BOOLEAN /\ s.counts \in [Destinations -> Nat]
  /\ \A d \in Destinations : s.counts[d] + held[d] <= total[d]
Exact(s, held, total) ==
  \A d \in Destinations : total[d] <= CounterMax /\ total[d] <= SizeMax
    => s.counts[d] + held[d] = total[d]

CountsInv ==
  /\ CountersTyped /\ lines \in Seq(LineType)
  /\ \A from \in 1 .. Len(lines) + 1 : Minimum(Said(from), suppressed, changes)
  /\ Said(1).loaded = loaded
  /\ complete => Exact(Said(1), suppressed, changes)

\* A line more on every tail, and a new empty tail.
Longer(later, log, line, start) ==
  /\ Len(later) = Len(log) + 1 /\ Len(log) \in Nat
  /\ ReadTail(later, 1, start) = ReadLine(ReadTail(log, 1, start), line, start)
  /\ \A from \in 1 .. Len(later) + 1 :
       \/ /\ from \in 1 .. Len(log) + 1
          /\ ReadTail(later, from, start) = ReadLine(ReadTail(log, from, start), line, start)
       \/ ReadTail(later, from, start) = NoSummary

LEMMA LaterTails ==
  ASSUME NEW S, NEW log \in Seq(S), NEW line \in S, NEW start, NEW later, later = Append(log, line)
  PROVE  later \in Seq(S) /\ Longer(later, log, line, start)
<1>1. later \in Seq(S) /\ Len(later) = Len(log) + 1 /\ Len(log) \in Nat
  BY AppendProperties, LenProperties
<1>2. ASSUME NEW from \in 1 .. Len(log) + 1
      PROVE  ReadTail(later, from, start) = ReadLine(ReadTail(log, from, start), line, start)
  BY <1>2, TailAppend, Zenon
<1>3. ReadTail(later, Len(later) + 1, start) = NoSummary
  BY <1>1, TailNone, Zenon
<1>4. 1 \in 1 .. Len(log) + 1
  BY <1>1
<1>5. ASSUME NEW from \in 1 .. Len(later) + 1
      PROVE  from \in 1 .. Len(log) + 1 \/ from = Len(later) + 1
  BY <1>1
<1> QED
  BY <1>1, <1>2, <1>3, <1>4, <1>5, Zenon DEF Longer

LEMMA NoSummaryIs ==
  /\ Shaped(NoSummary) /\ NoSummary.loaded = FALSE /\ NoSummary.trackers = {}
  /\ NoSummary.truncated = FALSE /\ NoSummary.counts = NoCounts
  /\ NoSummary.recent = <<>> /\ NoSummary.next = 1
  BY NoSummaryShaped, Zenon DEF NoSummary

LEMMA EntryFits ==
  ASSUME NEW kind \in Kinds, NEW of \in Topics, NEW count \in 0 .. CounterMax,
         NEW entry, entry = Entry(kind, of, count)
  PROVE  entry \in LineType /\ entry.kind = kind /\ ~(entry.stamp < 0)
  BY DEF Entry, LineType

\* What a line changes in the summary, as far as the counts go.
CountsRead(r, s, line) ==
  /\ line.kind = "transition" /\ s.loaded = TRUE =>
       Shaped(r) /\ r.loaded = s.loaded /\ r.counts = CountsAfter(s, line)
  /\ line.kind = "transition" /\ s.loaded = FALSE =>
       Shaped(r) /\ r.loaded = s.loaded /\ r.counts = s.counts
  /\ line.kind = "tracker" => Shaped(r) /\ r.loaded = s.loaded /\ r.counts = s.counts
  /\ line.kind = "load" => Shaped(r) /\ r.loaded = TRUE /\ r.counts = NoCounts
  /\ line.kind = "unload" => Shaped(r) /\ r.loaded = FALSE /\ r.counts = s.counts

LEMMA ReadCounts ==
  ASSUME NEW s, Shaped(s), NEW line, ~(line.stamp < 0), NEW r, r = ReadLine(s, line, 0)
  PROVE  CountsRead(r, s, line)
<1> DEFINE t == Touched(s)
<1>1. Shaped(t) /\ t.loaded = s.loaded /\ t.counts = s.counts
  BY CurrentIs, Zenon DEF Touched
<1> HIDE DEF t
<1>2. t = Touched(s)
  BY DEF t
<1>3. /\ line.kind = "load" => r = Loaded(t)
      /\ line.kind = "unload" => r = Unloaded(t)
      /\ line.kind = "tracker" /\ t.loaded => r = Identified(t, line.of)
      /\ line.kind = "transition" /\ t.loaded => r = Moved(t, line)
      /\ line.kind = "tracker" /\ ~t.loaded => r = t
      /\ line.kind = "transition" /\ ~t.loaded => r = t
  <2>1. r = Applied(t, line)
    BY <1>2, ReadIs, Zenon
  <2> QED
    BY <2>1, AppliedIs
<1>4. {"loaded", "counts"} \subseteq SummaryFields \ {"trackers", "truncated"}
      /\ "loaded" \in SummaryFields \ {"counts", "recent", "next"}
  BY Zenon DEF SummaryFields
<1>5. Shaped(Identified(t, line.of)) /\ Identified(t, line.of).loaded = t.loaded
      /\ Identified(t, line.of).counts = t.counts
  <2>1. /\ Shaped(Identified(t, line.of))
        /\ \A f \in SummaryFields \ {"trackers", "truncated"} : Identified(t, line.of)[f] = t[f]
    BY <1>1, IdentifiedIs
  <2> QED
    BY <1>4, <2>1
<1>6. Shaped(Moved(t, line)) /\ Moved(t, line).loaded = t.loaded
      /\ Moved(t, line).counts = CountsAfter(t, line)
  BY <1>1, <1>4, MovedIs, Zenon
<1>7. CountsAfter(t, line) = CountsAfter(s, line)
  BY <1>1, Zenon DEF CountsAfter
<1>8. Shaped(Loaded(t)) /\ Loaded(t).loaded = TRUE /\ Loaded(t).counts = NoCounts
  BY <1>1, LoadedIs, Zenon
<1>9. Shaped(Unloaded(t)) /\ Unloaded(t).loaded = FALSE /\ Unloaded(t).counts = t.counts
  BY <1>1, UnloadedIs, Zenon
<1>10. line.kind = "transition" /\ s.loaded = TRUE =>
         Shaped(r) /\ r.loaded = s.loaded /\ r.counts = CountsAfter(s, line)
  BY <1>1, <1>3, <1>6, <1>7, Zenon
<1>11. line.kind = "transition" /\ s.loaded = FALSE
         => Shaped(r) /\ r.loaded = s.loaded /\ r.counts = s.counts
  BY <1>1, <1>3, Zenon
<1>12. line.kind = "tracker" => Shaped(r) /\ r.loaded = s.loaded /\ r.counts = s.counts
  BY <1>1, <1>3, <1>5, Zenon
<1>13. line.kind = "load" => Shaped(r) /\ r.loaded = TRUE /\ r.counts = NoCounts
  BY <1>3, <1>8, Zenon
<1>14. line.kind = "unload" => Shaped(r) /\ r.loaded = FALSE /\ r.counts = s.counts
  BY <1>1, <1>3, <1>9, Zenon
<1> QED
  BY <1>10, <1>11, <1>12, <1>13, <1>14, Zenon DEF CountsRead

\* One more change, and those held back: the sums saturate and stay minimums.
LEMMA AddedUp ==
  ASSUME NEW c \in Nat, NEW held \in 0 .. CounterMax, NEW total \in Nat, c + held <= total
  PROVE  LET n == AddSaturating(c, Occurrences(held))
         IN /\ n \in Nat /\ n <= total + 1
            /\ total + 1 <= CounterMax /\ total + 1 <= SizeMax /\ c + held = total => n = total + 1
  BY LogLimits DEF AddSaturating, Occurrences

LEMMA ToldCounts ==
  ASSUME CountersTyped, NEW to \in States, NEW s, Minimum(s, suppressed, changes), NEW r,
         r = ReadLine(s, Entry("transition", to, suppressed[to]), 0),
         suppressed' = [suppressed EXCEPT ![to] = 0], changes' = [changes EXCEPT ![to] = @ + 1]
  PROVE  /\ Minimum(r, suppressed', changes') /\ r.loaded = s.loaded
         /\ s.loaded = TRUE /\ Exact(s, suppressed, changes) => Exact(r, suppressed', changes')
<1> DEFINE line == Entry("transition", to, suppressed[to])
<1>1. line.kind = "transition" /\ line.of = to /\ line.count = suppressed[to] /\ ~(line.stamp < 0)
  BY DEF Entry
<1> HIDE DEF line
<1>2. Shaped(s) /\ s.loaded \in BOOLEAN /\ s.counts \in [Destinations -> Nat]
  BY Zenon DEF Minimum
<1>3. \A d \in Destinations : s.counts[d] + suppressed[d] <= changes[d]
  BY Zenon DEF Minimum
<1>4. r = ReadLine(s, line, 0)
  BY DEF line
<1>0. CountsRead(r, s, line)
  BY <1>1, <1>2, <1>4, ReadCounts, Zenon
<1>5. s.loaded = TRUE => Shaped(r) /\ r.loaded = s.loaded /\ r.counts = CountsAfter(s, line)
  BY <1>0, <1>1, Zenon DEF CountsRead
<1>6. s.loaded = FALSE => Shaped(r) /\ r.loaded = s.loaded /\ r.counts = s.counts
  BY <1>0, <1>1, Zenon DEF CountsRead
<1>7. Destinations \subseteq States
  BY DEF States
<1>8. /\ suppressed \in [States -> 0 .. CounterMax] /\ changes \in [States -> Nat]
      /\ CounterMax \in Nat
  BY LogLimits DEF CountersTyped
<1>9. ASSUME NEW d \in Destinations
      PROVE  /\ d # to => suppressed'[d] = suppressed[d] /\ changes'[d] = changes[d]
             /\ d = to => suppressed'[d] = 0 /\ changes'[d] = changes[d] + 1
  BY <1>7, <1>8
<1>10. CASE s.loaded = FALSE
  <2>1. \A d \in Destinations : r.counts[d] + suppressed'[d] <= changes'[d]
    <3> SUFFICES ASSUME NEW d \in Destinations PROVE r.counts[d] + suppressed'[d] <= changes'[d]
      OBVIOUS
    <3>1. s.counts[d] + suppressed[d] <= changes[d] /\ r.counts[d] = s.counts[d]
      BY <1>3, <1>6, <1>10
    <3>2. s.counts[d] \in Nat /\ suppressed[d] \in Nat /\ changes[d] \in Nat
      BY <1>2, <1>7, <1>8
    <3> QED
      BY <1>9, <3>1, <3>2
  <2> QED
    BY <1>2, <1>6, <1>10, <2>1 DEF Minimum
<1>11. CASE s.loaded = TRUE
  <2>1. ASSUME NEW d \in Destinations
        PROVE  /\ r.counts[d] \in Nat /\ r.counts[d] + suppressed'[d] <= changes'[d]
               /\ changes'[d] <= CounterMax /\ changes'[d] <= SizeMax
                  /\ (changes[d] <= CounterMax /\ changes[d] <= SizeMax =>
                        s.counts[d] + suppressed[d] = changes[d]) =>
                    r.counts[d] + suppressed'[d] = changes'[d]
    <3>1. r.counts = CountsAfter(s, line)
      BY <1>5, <1>11
    <3>2. s.counts[d] + suppressed[d] <= changes[d]
      BY <1>3
    <3>3. s.counts[d] \in Nat /\ suppressed[d] \in 0 .. CounterMax /\ changes[d] \in Nat
      BY <1>2, <1>7, <1>8
    <3>4. CASE d # to
      <4>1. r.counts[d] = s.counts[d]
        BY <1>1, <1>2, <3>1, <3>4 DEF CountsAfter
      <4> QED
        BY <1>9, <3>2, <3>3, <3>4, <4>1, <1>8
    <3>5. CASE d = to
      <4>1. r.counts[d] = AddSaturating(s.counts[d], Occurrences(suppressed[d]))
        BY <1>1, <1>2, <3>1, <3>5 DEF CountsAfter
      <4>2. /\ r.counts[d] \in Nat /\ r.counts[d] <= changes[d] + 1
            /\ changes[d] + 1 <= CounterMax /\ changes[d] + 1 <= SizeMax
               /\ s.counts[d] + suppressed[d] = changes[d] => r.counts[d] = changes[d] + 1
        BY <3>2, <3>3, <4>1, AddedUp
      <4>3. suppressed'[d] = 0 /\ changes'[d] = changes[d] + 1
        BY <1>9, <3>5
      <4>4. SizeMax \in Nat
        BY LogLimits
      <4> QED
        BY <1>8, <3>3, <4>2, <4>3, <4>4
    <3> QED
      BY <3>4, <3>5
  <2>2. r.counts \in [Destinations -> Nat]
    <3>1. r.counts = CountsAfter(s, line) /\ DOMAIN CountsAfter(s, line) = Destinations
      BY <1>2, <1>5, <1>11 DEF CountsAfter
    <3>2. r.counts = [d \in Destinations |-> r.counts[d]]
      BY <1>2, <3>1 DEF CountsAfter
    <3> QED
      BY <2>1, <3>2
  <2>3. Minimum(r, suppressed', changes')
    BY <1>2, <1>5, <1>11, <2>1, <2>2 DEF Minimum
  <2>4. Exact(s, suppressed, changes) => Exact(r, suppressed', changes')
    BY <2>1 DEF Exact
  <2> QED
    BY <1>5, <1>11, <2>3, <2>4
<1> QED
  BY <1>2, <1>10, <1>11

\* The summary may say less, and the driver hold back less, than before.
LEMMA StillMinimum ==
  ASSUME NEW s, NEW held, NEW total, Minimum(s, held, total), NEW h, NEW n,
         \A d \in Destinations :
           /\ held[d] \in Nat /\ total[d] \in Nat /\ h[d] \in Nat /\ n[d] \in Nat
           /\ h[d] <= held[d] + (n[d] - total[d]) /\ n[d] >= total[d]
  PROVE  Minimum(s, h, n)
<1>1. Shaped(s) /\ s.loaded \in BOOLEAN /\ s.counts \in [Destinations -> Nat]
  BY DEF Minimum
<1>2. ASSUME NEW d \in Destinations PROVE s.counts[d] + h[d] <= n[d]
  <2>1. s.counts[d] + held[d] <= total[d] /\ s.counts[d] \in Nat
    BY <1>1 DEF Minimum
  <2>2. /\ held[d] \in Nat /\ total[d] \in Nat /\ h[d] \in Nat /\ n[d] \in Nat
        /\ h[d] <= held[d] + (n[d] - total[d])
    OBVIOUS
  <2> QED
    BY <2>1, <2>2
<1> QED
  BY <1>1, <1>2 DEF Minimum

LEMMA NothingIsMinimum ==
  ASSUME NEW held, NEW total, \A d \in Destinations : held[d] \in Nat /\ total[d] \in Nat
           /\ held[d] <= total[d]
  PROVE  Minimum(NoSummary, held, total)
<1>1. /\ Shaped(NoSummary) /\ NoSummary.loaded = FALSE /\ NoSummary.counts = NoCounts
  BY NoSummaryIs
<1>2. NoCounts \in [Destinations -> Nat] /\ \A d \in Destinations : NoCounts[d] = 0
  BY DEF NoCounts
<1>3. ASSUME NEW d \in Destinations PROVE NoSummary.counts[d] + held[d] <= total[d]
  <2>1. NoSummary.counts[d] = 0 /\ held[d] \in Nat /\ held[d] <= total[d]
    BY <1>1, <1>2
  <2> QED
    BY <2>1
<1>4. NoSummary.loaded \in BOOLEAN /\ NoSummary.counts \in [Destinations -> Nat]
  BY <1>1, <1>2, Zenon
<1> QED
  BY <1>1, <1>3, <1>4, Zenon DEF Minimum

\* The counters of each destination are numbers.
LEMMA Numbers ==
  ASSUME CountersTyped, NEW d \in Destinations
  PROVE  /\ d \in States /\ suppressed[d] \in 0 .. CounterMax /\ suppressed[d] \in Nat
         /\ changes[d] \in Nat /\ Never[d] = 0 /\ CounterMax \in Nat
  BY LogLimits DEF CountersTyped, States, Never

LEMMA HeldBelowChanges ==
  ASSUME CountsInv, NEW d \in Destinations
  PROVE  suppressed[d] <= changes[d]
<1>1. 1 \in 1 .. Len(lines) + 1
  BY LenProperties DEF CountsInv
<1>2. Minimum(Said(1), suppressed, changes)
  BY <1>1, Zenon DEF CountsInv
<1>3. Said(1).counts[d] + suppressed[d] <= changes[d] /\ Said(1).counts[d] \in Nat
  BY <1>2 DEF Minimum
<1>4. CountersTyped
  BY Zenon DEF CountsInv
<1> QED
  BY <1>3, <1>4, Numbers

\* Steps that leave the log alone.
LEMMA CountsSilent ==
  ASSUME CountsInv, lines' = lines, loaded' = loaded,
         \/ \E to \in States : HeldBack(to) \/ Dropped(to)
         \/ Forgotten \/ Remembers
  PROVE  /\ \A from \in 1 .. Len(lines) + 1 : Minimum(Said(from), suppressed', changes')
         /\ complete' => Exact(Said(1), suppressed', changes')
<1>0. CountersTyped /\ lines \in Seq(LineType) /\ (complete => Exact(Said(1), suppressed, changes))
  BY Zenon DEF CountsInv
<1>1. CASE Remembers
  BY <1>1, Zenon DEF CountsInv, Remembers
<1>2. CASE Forgotten
  <2>1. suppressed' = Never /\ changes' = changes /\ complete' = (complete /\ suppressed = Never)
    BY <1>2, Zenon DEF Forgotten
  <2>2. ASSUME NEW from \in 1 .. Len(lines) + 1 PROVE Minimum(Said(from), suppressed', changes')
    <3>1. Minimum(Said(from), suppressed, changes)
      BY Zenon DEF CountsInv
    <3>2. \A d \in Destinations :
            /\ suppressed[d] \in Nat /\ changes[d] \in Nat /\ Never[d] \in Nat /\ changes[d] \in Nat
            /\ Never[d] <= suppressed[d] + (changes[d] - changes[d]) /\ changes[d] >= changes[d]
      BY <1>0, Numbers
    <3>4. Minimum(Said(from), Never, changes)
      BY <3>1, <3>2, StillMinimum, Zenon
    <3> QED
      BY <2>1, <3>4, Zenon
  <2>3. complete' => Exact(Said(1), suppressed', changes')
    BY <1>0, <2>1, Zenon
  <2> QED
    BY <2>2, <2>3
<1>3. ASSUME NEW to \in States, HeldBack(to) \/ Dropped(to)
      PROVE  /\ \A from \in 1 .. Len(lines) + 1 : Minimum(Said(from), suppressed', changes')
             /\ complete' => Exact(Said(1), suppressed', changes')
  <2>1. changes' = [changes EXCEPT ![to] = @ + 1]
    BY <1>3, Zenon DEF HeldBack, Dropped
  <2>2. \/ suppressed' = [suppressed EXCEPT ![to] = OneMore(@)] /\ complete' = complete
        \/ suppressed' = [suppressed EXCEPT ![to] = 0] /\ complete' = FALSE
    BY <1>3, Zenon DEF HeldBack, Dropped
  <2>3. ASSUME NEW d \in Destinations
        PROVE  /\ suppressed[d] \in Nat /\ changes[d] \in Nat /\ suppressed'[d] \in Nat
                    /\ changes'[d] \in Nat
               /\ suppressed'[d] <= suppressed[d] + (changes'[d] - changes[d])
                    /\ changes'[d] >= changes[d]
               /\ complete' /\ changes'[d] <= CounterMax =>
                    suppressed'[d] - suppressed[d] = changes'[d] - changes[d]
    <3>1. /\ d \in States /\ suppressed[d] \in 0 .. CounterMax /\ suppressed[d] \in Nat
          /\ changes[d] \in Nat /\ CounterMax \in Nat /\ suppressed[d] <= changes[d]
      BY <1>0, Numbers, HeldBelowChanges
    <3>2. suppressed \in [States -> 0 .. CounterMax] /\ changes \in [States -> Nat]
      BY <1>0, Zenon DEF CountersTyped
    <3>3. CASE d = to
      <4>1. changes'[d] = changes[d] + 1
        BY <2>1, <3>1, <3>2, <3>3
      <4>2. \/ suppressed'[d] = OneMore(suppressed[d]) /\ complete' = complete
            \/ suppressed'[d] = 0 /\ complete' = FALSE
        BY <2>2, <3>1, <3>2, <3>3
      <4> QED
        BY <3>1, <4>1, <4>2 DEF OneMore
    <3>4. CASE d # to
      <4>1. changes'[d] = changes[d] /\ suppressed'[d] = suppressed[d]
        BY <2>1, <2>2, <3>1, <3>2, <3>4
      <4> QED
        BY <3>1, <4>1
    <3> QED
      BY <3>3, <3>4
  <2>4. ASSUME NEW from \in 1 .. Len(lines) + 1 PROVE Minimum(Said(from), suppressed', changes')
    <3>1. Minimum(Said(from), suppressed, changes)
      BY Zenon DEF CountsInv
    <3> QED
      BY <2>3, <3>1, StillMinimum, Zenon
  <2>5. ASSUME complete' PROVE Exact(Said(1), suppressed', changes')
    <3>1. complete
      BY <2>2, <2>5
    <3>2. ASSUME NEW d \in Destinations, changes'[d] <= CounterMax, changes'[d] <= SizeMax
          PROVE  Said(1).counts[d] + suppressed'[d] = changes'[d]
      <4>1. changes[d] <= CounterMax /\ changes[d] <= SizeMax
        BY <2>3, <3>2, LogLimits
      <4>2. Said(1).counts[d] + suppressed[d] = changes[d]
        BY <1>0, <3>1, <4>1 DEF Exact
      <4>3. Said(1).counts[d] \in Nat
        <5>1. Minimum(Said(1), suppressed, changes)
          <6>1. 1 \in 1 .. Len(lines) + 1
            BY <1>0, LenProperties
          <6> QED
            BY <6>1, Zenon DEF CountsInv
        <5> QED
          BY <5>1 DEF Minimum
      <4> QED
        BY <2>3, <2>5, <3>2, <4>2, <4>3
    <3> QED
      BY <3>2 DEF Exact
  <2> QED
    BY <2>4, <2>5
<1> QED
  BY <1>1, <1>2, <1>3

\* Steps that write a line: what holds of each tail holds of it with the line.
LEMMA CountsTold ==
  ASSUME CountsInv, NEW to \in States, Told(to) PROVE CountsInv'
<1> DEFINE line == Entry("transition", to, suppressed[to])
<1>1. /\ lines' = Append(lines, line) /\ loaded /\ loaded' = loaded /\ complete' = complete
      /\ suppressed' = [suppressed EXCEPT ![to] = 0] /\ changes' = [changes EXCEPT ![to] = @ + 1]
  BY Zenon DEF Told
<1>2. CountersTyped /\ lines \in Seq(LineType) /\ Said(1).loaded = loaded
      /\ (complete => Exact(Said(1), suppressed, changes))
  BY Zenon DEF CountsInv
<1>3. CountersTyped'
  BY <1>2, CountersKept, Zenon DEF LogStep
<1>4. line \in LineType
  <2>1. suppressed[to] \in 0 .. CounterMax
    BY <1>2 DEF CountersTyped
  <2>2. "transition" \in Kinds /\ to \in Topics
    BY Zenon DEF Kinds, Topics
  <2> QED
    BY <2>1, <2>2, EntryFits, Zenon
<1>5. ASSUME NEW s, Minimum(s, suppressed, changes), NEW r, r = ReadLine(s, line, 0)
      PROVE  /\ Minimum(r, suppressed', changes') /\ r.loaded = s.loaded
             /\ s.loaded = TRUE /\ Exact(s, suppressed, changes) => Exact(r, suppressed', changes')
  BY <1>1, <1>2, <1>5, ToldCounts, Zenon
<1> HIDE DEF line
<1>6. /\ lines' \in Seq(LineType) /\ Len(lines') = Len(lines) + 1 /\ Len(lines) \in Nat
      /\ ReadTail(lines', 1, 0) = ReadLine(ReadTail(lines, 1, 0), line, 0)
      /\ \A from \in 1 .. Len(lines') + 1 :
           \/ /\ from \in 1 .. Len(lines) + 1
              /\ ReadTail(lines', from, 0) = ReadLine(ReadTail(lines, from, 0), line, 0)
           \/ ReadTail(lines', from, 0) = NoSummary
  <2>1. lines \in Seq(LineType) /\ line \in LineType /\ lines' = Append(lines, line)
    BY <1>1, <1>2, <1>4
  <2>2. lines' \in Seq(LineType) /\ Longer(lines', lines, line, 0)
    BY <2>1, LaterTails
  <2> QED
    BY <2>2, Zenon DEF Longer
<1>7. Said(1)' = ReadLine(Said(1), line, 0)
  BY <1>6, Zenon DEF Said
<1>8. Minimum(NoSummary, suppressed', changes')
  <2>1. 1 \in 1 .. Len(lines) + 1
    BY <1>6
  <2>2. Minimum(Said(1)', suppressed', changes')
    BY <1>5, <1>7, <2>1, Zenon DEF CountsInv
  <2>3. ASSUME NEW d \in Destinations
        PROVE  suppressed'[d] \in Nat /\ changes'[d] \in Nat /\ suppressed'[d] <= changes'[d]
    <3>1. suppressed'[d] \in 0 .. CounterMax /\ changes'[d] \in Nat /\ CounterMax \in Nat
      BY <1>3, LogLimits DEF CountersTyped, States
    <3>2. Said(1)'.counts[d] \in Nat /\ Said(1)'.counts[d] + suppressed'[d] <= changes'[d]
      BY <2>2 DEF Minimum
    <3> QED
      BY <3>1, <3>2
  <2> QED
    BY <2>3, NothingIsMinimum
<1>9. ASSUME NEW from \in 1 .. Len(lines') + 1 PROVE Minimum(Said(from)', suppressed', changes')
  <2>1. CASE from \in 1 .. Len(lines) + 1 /\ ReadTail(lines', from, 0) =
               ReadLine(ReadTail(lines, from, 0), line, 0)
    <3>1. Minimum(Said(from), suppressed, changes)
      BY <2>1, Zenon DEF CountsInv
    <3>2. Said(from)' = ReadLine(Said(from), line, 0)
      BY <2>1, Zenon DEF Said
    <3> QED
      BY <1>5, <3>1, <3>2, Zenon
  <2>2. CASE ReadTail(lines', from, 0) = NoSummary
    BY <1>8, <2>2, Zenon DEF Said
  <2> QED
    BY <1>6, <2>1, <2>2
<1>10. Said(1)'.loaded = loaded' /\ (complete' => Exact(Said(1)', suppressed', changes'))
  <2>1. Minimum(Said(1), suppressed, changes)
    <3>1. 1 \in 1 .. Len(lines) + 1
      BY <1>6
    <3> QED
      BY <3>1, Zenon DEF CountsInv
  <2>2. Said(1).loaded = TRUE
    BY <1>1, <1>2, Zenon DEF CountersTyped
  <2>3. /\ Said(1)'.loaded = Said(1).loaded
        /\ Exact(Said(1), suppressed, changes) => Exact(Said(1)', suppressed', changes')
    BY <1>5, <1>7, <2>1, <2>2, Zenon
  <2> QED
    BY <1>1, <1>2, <2>3, Zenon
<1> QED
  BY <1>3, <1>6, <1>9, <1>10, Zenon DEF CountsInv

\* Lines that are not about a change of state.
LEMMA CountsOther ==
  ASSUME CountsInv, NEW line \in LineType, ~(line.stamp < 0), lines' = Append(lines, line),
         \/ line.kind = "tracker" /\ Remembers
         \/ line.kind = "unload" /\ loaded' = FALSE /\ UNCHANGED <<suppressed, changes, complete>>
         \/ /\ line.kind = "load" /\ loaded' = TRUE
            /\ suppressed' = Never /\ changes' = Never /\ complete' = TRUE
  PROVE  CountsInv'
<1>1. CountersTyped /\ lines \in Seq(LineType) /\ Said(1).loaded = loaded
      /\ (complete => Exact(Said(1), suppressed, changes))
  BY Zenon DEF CountsInv
<1>2. CountersTyped'
  <2>1. Never \in [States -> 0 .. CounterMax] /\ Never \in [States -> Nat]
    BY LogLimits DEF Never
  <2> QED
    BY <1>1, <2>1, Zenon DEF CountersTyped, Remembers
<1>3. ASSUME NEW d \in Destinations
      PROVE  /\ suppressed[d] \in Nat /\ changes[d] \in Nat /\ suppressed[d] <= changes[d]
             /\ Never[d] \in Nat /\ Never[d] <= Never[d] /\ Never[d] = 0
  BY <1>1, Numbers, HeldBelowChanges
<1>4. \/ suppressed' = suppressed /\ changes' = changes /\ complete' = complete
           /\ line.kind # "load"
      \/ suppressed' = Never /\ changes' = Never /\ complete' = TRUE /\ line.kind = "load"
  BY Zenon DEF Remembers
<1>5. Minimum(NoSummary, suppressed', changes')
  BY <1>3, <1>4, NothingIsMinimum, Zenon
<1>6. ASSUME NEW s, Minimum(s, suppressed, changes), NEW r, r = ReadLine(s, line, 0)
      PROVE  /\ Minimum(r, suppressed', changes')
             /\ s.loaded = loaded => r.loaded = loaded'
             /\ (complete => Exact(s, suppressed, changes))
                  => (complete' => Exact(r, suppressed', changes'))
  <2>1. Shaped(s) /\ s.loaded \in BOOLEAN /\ s.counts \in [Destinations -> Nat]
        /\ \A d \in Destinations : s.counts[d] + suppressed[d] <= changes[d]
    BY <1>6 DEF Minimum
  <2>2. /\ line.kind = "tracker" => Shaped(r) /\ r.loaded = s.loaded /\ r.counts = s.counts
        /\ line.kind = "load" => Shaped(r) /\ r.loaded = TRUE /\ r.counts = NoCounts
        /\ line.kind = "unload" => Shaped(r) /\ r.loaded = FALSE /\ r.counts = s.counts
    <3>1. CountsRead(r, s, line)
      BY <1>6, <2>1, ReadCounts
    <3> QED
      BY <3>1, Zenon DEF CountsRead
  <2>5. CASE line.kind = "load" /\ loaded' = TRUE /\ suppressed' = Never /\ changes' = Never
    <3>1. NoCounts \in [Destinations -> Nat] /\ \A d \in Destinations : NoCounts[d] = 0
      BY DEF NoCounts
    <3>2. \A d \in Destinations : Never[d] = 0
      BY <1>3
    <3>3. \A d \in Destinations : r.counts[d] + Never[d] <= Never[d]
            /\ r.counts[d] + Never[d] = Never[d]
      BY <2>2, <2>5, <3>1, <3>2
    <3> QED
      BY <2>2, <2>5, <3>1, <3>3 DEF Minimum, Exact
  <2>6. CASE line.kind # "load" /\ suppressed' = suppressed /\ changes' = changes
               /\ complete' = complete
    <3>1. Shaped(r) /\ r.counts = s.counts /\ r.loaded \in BOOLEAN
            /\ (s.loaded = loaded => r.loaded = loaded')
      BY <2>1, <2>2, <2>6, Zenon DEF Remembers
    <3>2. Minimum(r, suppressed', changes')
      BY <2>1, <2>6, <3>1, Zenon DEF Minimum
    <3>3. Exact(s, suppressed, changes) => Exact(r, suppressed', changes')
      BY <2>6, <3>1, Zenon DEF Exact
    <3> QED
      BY <2>6, <3>1, <3>2, <3>3, Zenon
  <2>7. line.kind = "load" => loaded' = TRUE
    BY Zenon DEF Remembers
  <2> QED
    BY <1>4, <2>5, <2>6, <2>7, Zenon
<1>7. /\ lines' \in Seq(LineType) /\ Len(lines') = Len(lines) + 1 /\ Len(lines) \in Nat
      /\ ReadTail(lines', 1, 0) = ReadLine(ReadTail(lines, 1, 0), line, 0)
      /\ \A from \in 1 .. Len(lines') + 1 :
           \/ /\ from \in 1 .. Len(lines) + 1
              /\ ReadTail(lines', from, 0) = ReadLine(ReadTail(lines, from, 0), line, 0)
           \/ ReadTail(lines', from, 0) = NoSummary
  <2>1. lines \in Seq(LineType) /\ line \in LineType /\ lines' = Append(lines, line)
    BY <1>1
  <2>2. lines' \in Seq(LineType) /\ Longer(lines', lines, line, 0)
    BY <2>1, LaterTails
  <2> QED
    BY <2>2, Zenon DEF Longer
<1>8. Said(1)' = ReadLine(Said(1), line, 0)
  BY <1>7, Zenon DEF Said
<1>9. ASSUME NEW from \in 1 .. Len(lines') + 1 PROVE Minimum(Said(from)', suppressed', changes')
  <2>1. CASE from \in 1 .. Len(lines) + 1 /\ ReadTail(lines', from, 0) =
               ReadLine(ReadTail(lines, from, 0), line, 0)
    <3>1. Minimum(Said(from), suppressed, changes)
      BY <2>1, Zenon DEF CountsInv
    <3>2. Said(from)' = ReadLine(Said(from), line, 0)
      BY <2>1, Zenon DEF Said
    <3> QED
      BY <1>6, <3>1, <3>2, Zenon
  <2>2. CASE ReadTail(lines', from, 0) = NoSummary
    BY <1>5, <2>2, Zenon DEF Said
  <2> QED
    BY <1>7, <2>1, <2>2
<1>10. Said(1)'.loaded = loaded' /\ (complete' => Exact(Said(1)', suppressed', changes'))
  <2>1. Minimum(Said(1), suppressed, changes)
    <3>1. 1 \in 1 .. Len(lines) + 1
      BY <1>7
    <3> QED
      BY <3>1, Zenon DEF CountsInv
  <2> QED
    BY <1>1, <1>6, <1>8, <2>1, Zenon
<1> QED
  BY <1>2, <1>7, <1>9, <1>10, Zenon DEF CountsInv

LEMMA CountsInit == TransitionInit => CountsInv
<1> SUFFICES ASSUME TransitionInit PROVE CountsInv
  OBVIOUS
<1>1. lines = <<>> /\ suppressed = Never /\ changes = Never /\ loaded = FALSE /\ complete = TRUE
  BY Zenon DEF TransitionInit
<1>2. CountersTyped
  BY TransitionTypeInit, TransitionTyped, Zenon
<1>3. lines \in Seq(LineType) /\ Len(lines) = 0
  BY <1>1
<1>4. Said(1) = NoSummary
  <2>1. ReadTail(lines, Len(lines) + 1, 0) = NoSummary
    BY <1>3, TailNone, Zenon
  <2>2. Len(lines) + 1 = 1
    BY <1>3
  <2> QED
    BY <2>1, <2>2, Zenon DEF Said
<1>5. \A d \in Destinations : Never[d] = 0 /\ Never[d] \in Nat /\ Never[d] <= Never[d]
  BY <1>2, Numbers
<1>6. Minimum(NoSummary, suppressed, changes)
  BY <1>1, <1>5, NothingIsMinimum, Zenon
<1>7. Exact(NoSummary, suppressed, changes)
  <2>1. NoSummary.counts = NoCounts /\ \A d \in Destinations : NoCounts[d] = 0
    BY NoSummaryIs DEF NoCounts
  <2> QED
    BY <1>1, <1>5, <2>1 DEF Exact
<1>8. \A from \in 1 .. Len(lines) + 1 : from = 1
  BY <1>3
<1>9. NoSummary.loaded = FALSE
  BY NoSummaryIs
<1> QED
  BY <1>1, <1>2, <1>3, <1>4, <1>6, <1>7, <1>8, <1>9, Zenon DEF CountsInv

LEMMA CountsNext == CountsInv /\ [TransitionNext]_transitionVars => CountsInv'
<1> SUFFICES ASSUME CountsInv, [TransitionNext]_transitionVars PROVE CountsInv'
  OBVIOUS
<1>1. LogStep
  BY TransitionSteps
<1>2. CASE \E to \in States : Told(to)
  BY <1>2, CountsTold, Zenon
<1>3. CASE \/ \E to \in States : HeldBack(to) \/ Dropped(to)
           \/ Forgotten
           \/ lines' = lines /\ Remembers
  <2>1. lines' = lines /\ loaded' = loaded
    BY <1>3, Zenon DEF HeldBack, Dropped, Forgotten, Remembers
  <2>2. /\ \A from \in 1 .. Len(lines) + 1 : Minimum(Said(from), suppressed', changes')
        /\ complete' => Exact(Said(1), suppressed', changes')
    BY <1>3, <2>1, CountsSilent, Zenon
  <2>3. CountersTyped' /\ lines' \in Seq(LineType) /\ Said(1).loaded = loaded
    BY <1>1, <2>1, CountersKept, Zenon DEF CountsInv
  <2>4. \A from : Said(from)' = Said(from)
    BY <2>1, Zenon DEF Said
  <2> QED
    BY <2>1, <2>2, <2>3, <2>4, Zenon DEF CountsInv
<1>4. 0 \in 0 .. CounterMax /\ {"tracker", "load", "unload"} \subseteq Kinds /\ "" \in Topics
  <2>1. 0 \in 0 .. CounterMax
    BY LogLimits
  <2> QED
    BY <2>1, Zenon DEF Kinds, Topics
<1>5. CASE Introduced
  <2>1. PICK serial \in Serials : lines' = Append(lines, Entry("tracker", serial, 0))
    BY <1>5, Zenon DEF Introduced
  <2>2. "tracker" \in Kinds /\ serial \in Topics
    BY <1>4, Zenon DEF Topics
  <2>3. /\ Entry("tracker", serial, 0) \in LineType /\ Entry("tracker", serial, 0).kind = "tracker"
        /\ ~(Entry("tracker", serial, 0).stamp < 0)
    BY <1>4, <2>2, EntryFits, Zenon
  <2> QED
    BY <1>5, <2>1, <2>3, CountsOther, Zenon DEF Introduced
<1>6. CASE LoadTold
  <2>1. /\ Entry("load", "", 0) \in LineType /\ Entry("load", "", 0).kind = "load"
        /\ ~(Entry("load", "", 0).stamp < 0)
    BY <1>4, EntryFits, Zenon
  <2> QED
    BY <1>6, <2>1, CountsOther, Zenon DEF LoadTold
<1>7. CASE UnloadTold
  <2>1. /\ Entry("unload", "", 0) \in LineType /\ Entry("unload", "", 0).kind = "unload"
        /\ ~(Entry("unload", "", 0).stamp < 0)
    BY <1>4, EntryFits, Zenon
  <2> QED
    BY <1>7, <2>1, CountsOther, Zenon DEF UnloadTold
<1> QED
  BY <1>1, <1>2, <1>3, <1>5, <1>6, <1>7, Zenon DEF LogStep

LEMMA ParsedIs ==
  ASSUME NEW log, NEW start, Shaped(ReadLines(log, start))
  PROVE  /\ \A f \in SummaryFields \ {"hook", "recent"} : Parsed(log, start)[f] =
              ReadLines(log, start)[f]
         /\ Parsed(log, start).hook = (ReadLines(log, start).hook /\ ReadLines(log, start).loaded)
         /\ Parsed(log, start).recent = Rotated(ReadLines(log, start))
  BY Zenon DEF Parsed, Shaped, SummaryFields

LEMMA CountsImplied == CountsInv => CountsAreMinimums
<1> SUFFICES ASSUME CountsInv PROVE CountsAreMinimums
  OBVIOUS
<1>0. CountersTyped /\ lines \in Seq(LineType) /\ Len(lines) \in Nat /\ 1 \in 1 .. Len(lines) + 1
  BY LenProperties DEF CountsInv
<1>1. ASSUME NEW from \in 1 .. Len(lines) + 1 PROVE Minimum(Said(from), suppressed, changes)
  BY Zenon DEF CountsInv
<1>2. ASSUME NEW from \in 1 .. Len(lines) + 1 PROVE Summary(from).counts = Said(from).counts
  <2>1. Shaped(ReadLines(SubSeq(lines, from, Len(lines)), 0))
    BY <1>1, Zenon DEF Said, ReadTail, Minimum
  <2>2. "counts" \in SummaryFields \ {"hook", "recent"}
    BY Zenon DEF SummaryFields
  <2> QED
    BY <2>1, <2>2, ParsedIs, Zenon DEF Summary, Said, ReadTail
<1>3. ASSUME NEW d \in Destinations, NEW from \in 1 .. Len(lines) + 1
      PROVE  Summary(from).counts[d] <= changes[d]
  <2>1. Said(from).counts[d] \in Nat /\ Said(from).counts[d] + suppressed[d] <= changes[d]
    BY <1>1 DEF Minimum
  <2>2. suppressed[d] \in Nat /\ changes[d] \in Nat
    BY <1>0, Numbers
  <2>3. Said(from).counts[d] <= changes[d]
    BY <2>1, <2>2
  <2> QED
    BY <1>2, <2>3
<1>4. complete => Exact(Said(1), suppressed, changes)
  BY Zenon DEF CountsInv
<1>5. Summary(1).counts = Said(1).counts
  BY <1>0, <1>2
<1> QED
  BY <1>3, <1>4, <1>5, Zenon DEF CountsAreMinimums, Exact

\* For every interval, clock, counter width and log, whatever tail of it is read:
\* the counts the window shows are minimums of what happened since the last load,
\* and exact, with those still held back, while nothing was forgotten
\* (recordStateChange(), parseVrServerLog()).
THEOREM CountsTrusted == TransitionSpec => []CountsAreMinimums
  BY CountsInit, CountsNext, CountsImplied, PTL DEF TransitionSpec

(***************************************************************************)
(* The window keeps the end of the last load.                              *)
(***************************************************************************)
\* What each line does to the retained events and to the trackers.
KeptRead(r, s, line) ==
  /\ Shaped(r)
  /\ line.kind = "transition" =>
       /\ r.recent = RingAfter(s, line) /\ r.next = SlotAfter(s)
       /\ r.trackers = s.trackers /\ r.truncated = s.truncated
  /\ line.kind # "transition" /\ line.kind # "load" => r.recent = s.recent /\ r.next = s.next
  /\ line.kind = "tracker" => TrackersRead(r, s, line.of)
  /\ line.kind = "load" => r.recent = <<>> /\ r.next = 1 /\ r.trackers = {} /\ r.truncated = FALSE
  /\ line.kind = "unload" => r.trackers = s.trackers /\ r.truncated = s.truncated

LEMMA ReadKept ==
  ASSUME NEW s, Shaped(s), NEW line, line.kind \in Kinds, ~(line.stamp < 0),
         line.kind \in {"transition", "tracker"} => s.loaded = TRUE, NEW r, r = ReadLine(s, line, 0)
  PROVE  KeptRead(r, s, line)
<1> DEFINE t == Touched(s)
<1>1. /\ Shaped(t) /\ t.loaded = s.loaded /\ t.recent = s.recent /\ t.next = s.next
      /\ t.trackers = s.trackers /\ t.truncated = s.truncated
  BY CurrentIs, Zenon DEF Touched
<1>2. r = Applied(t, line)
  BY ReadIs, Zenon
<1> HIDE DEF t
<1>3. CASE line.kind = "transition"
  <2>1. r = Moved(t, line)
    <3>1. t.loaded
      BY <1>1, <1>3
    <3> QED
      BY <1>2, <1>3, <3>1, AppliedIs, Zenon
  <2> DEFINE q == Moved(t, line)
  <2>6. /\ Shaped(q) /\ q.recent = RingAfter(t, line) /\ q.next = SlotAfter(t)
        /\ \A f \in SummaryFields \ {"counts", "recent", "next"} : q[f] = t[f]
    BY <1>1, MovedIs, Zenon
  <2> HIDE DEF q
  <2>2. /\ Shaped(r) /\ r.recent = RingAfter(t, line) /\ r.next = SlotAfter(t)
        /\ \A f \in SummaryFields \ {"counts", "recent", "next"} : r[f] = t[f]
    BY <2>1, <2>6 DEF q
  <2>3. {"trackers", "truncated"} \subseteq SummaryFields \ {"counts", "recent", "next"}
    BY Zenon DEF SummaryFields
  <2>4. RingAfter(t, line) = RingAfter(s, line) /\ SlotAfter(t) = SlotAfter(s)
    BY <1>1, Zenon DEF RingAfter, SlotAfter
  <2>5. r.trackers = t.trackers /\ r.truncated = t.truncated
    BY <2>2, <2>3
  <2> QED
    BY <1>1, <1>3, <2>2, <2>4, <2>5 DEF KeptRead
<1>4. CASE line.kind = "tracker"
  <2>1. r = Identified(t, line.of)
    <3>1. t.loaded
      BY <1>1, <1>4
    <3> QED
      BY <1>2, <1>4, <3>1, AppliedIs, Zenon
  <2> DEFINE q == Identified(t, line.of)
  <2>7. Shaped(q) /\ \A f \in SummaryFields \ {"trackers", "truncated"} : q[f] = t[f]
    BY <1>1, IdentifiedIs, Zenon
  <2>8. TrackersRead(q, t, line.of)
    <3> HIDE DEF q
    <3>1. q = Identified(t, line.of)
      BY DEF q
    <3> QED
      BY <1>1, <3>1, TrackersAfter, Zenon
  <2>9. r = q
    BY <2>1
  <2> HIDE DEF q
  <2>2. Shaped(r) /\ \A f \in SummaryFields \ {"trackers", "truncated"} : r[f] = t[f]
    BY <2>7, <2>9
  <2>3. {"recent", "next"} \subseteq SummaryFields \ {"trackers", "truncated"}
    BY Zenon DEF SummaryFields
  <2>4. r.recent = t.recent /\ r.next = t.next
    BY <2>2, <2>3
  <2>5. TrackersRead(r, t, line.of)
    BY <2>8, <2>9, Zenon
  <2>6. TrackersRead(r, s, line.of)
    BY <1>1, <2>5, Zenon DEF TrackersRead
  <2> QED
    BY <1>1, <1>4, <2>2, <2>4, <2>6, Zenon DEF KeptRead
<1>5. CASE line.kind = "load"
  <2>1. r = Loaded(t)
    BY <1>2, <1>5, AppliedIs, Zenon
  <2> DEFINE q == Loaded(t)
  <2>3. Shaped(q) /\ q.recent = <<>> /\ q.next = 1 /\ q.trackers = {} /\ q.truncated = FALSE
    BY <1>1, LoadedIs, Zenon
  <2> HIDE DEF q
  <2>2. Shaped(r) /\ r.recent = <<>> /\ r.next = 1 /\ r.trackers = {} /\ r.truncated = FALSE
    BY <2>1, <2>3, Zenon DEF q
  <2> QED
    BY <1>5, <2>2, Zenon DEF KeptRead
<1>6. CASE line.kind = "unload"
  <2>1. r = Unloaded(t)
    BY <1>2, <1>6, AppliedIs, Zenon
  <2>2. Shaped(r) /\ r.recent = t.recent /\ r.next = t.next /\ r.trackers = t.trackers
        /\ r.truncated = t.truncated
    BY <1>1, <2>1, UnloadedIs, Zenon
  <2> QED
    BY <1>1, <1>6, <2>2, Zenon DEF KeptRead
<1> QED
  BY <1>3, <1>4, <1>5, <1>6, Zenon DEF Kinds

\* The ring: where the next event goes, and what it says in order.
RingOK(s) ==
  /\ s.recent \in Seq(LineType) /\ Len(s.recent) <= MaxRecent
  /\ MaxRecent = 0 => s.next = 1
  /\ MaxRecent # 0 => s.next \in 1 .. MaxRecent /\ (Len(s.recent) < MaxRecent
       => s.next = Len(s.recent) + 1)

LEMMA RotatedRoom ==
  ASSUME NEW s, RingOK(s), Len(s.recent) < MaxRecent
  PROVE  Rotated(s) = s.recent
<1>1. Len(s.recent) # MaxRecent
  BY LenProperties, LogLimits DEF RingOK
<1> QED
  BY <1>1, Zenon DEF Rotated

LEMMA RotatedFull ==
  ASSUME NEW s, RingOK(s), Len(s.recent) = MaxRecent, MaxRecent # 0
  PROVE  /\ Rotated(s) \in Seq(LineType) /\ Len(Rotated(s)) = MaxRecent
         /\ \A k \in 1 .. MaxRecent :
              /\ k <= MaxRecent - s.next + 1 => Rotated(s)[k] = s.recent[s.next + k - 1]
              /\ k > MaxRecent - s.next + 1 => Rotated(s)[k] =
                   s.recent[k - (MaxRecent - s.next + 1)]
<1> DEFINE m == MaxRecent
           e == s.recent
           n == s.next
<1>1. m \in Nat \ {0} /\ e \in Seq(LineType) /\ Len(e) = m /\ n \in 1 .. m
  BY LogLimits DEF RingOK
<1>2. CASE n = 1
  <2>1. Rotated(s) = e
    BY <1>2, Zenon DEF Rotated
  <2> QED
    BY <1>1, <1>2, <2>1
<1>3. CASE n # 1
  <2> DEFINE a == SubSeq(e, n, m)
             b == SubSeq(e, 1, n - 1)
  <2>1. Rotated(s) = a \o b
    BY <1>1, <1>3, Zenon DEF Rotated
  <2>2. \A i \in 1 .. m : e[i] \in LineType
    BY <1>1, ElementOfSeq
  <2>3. a \in Seq(LineType) /\ Len(a) = m - n + 1 /\ \A i \in 1 .. m - n + 1 : a[i] = e[n + i - 1]
    <3>1. \A i \in n .. m : e[i] \in LineType
      BY <1>1, <2>2
    <3> HIDE DEF e, n
    <3>2. a \in Seq(LineType) /\ Len(a) = (IF n <= m THEN m - n + 1 ELSE 0)
          /\ \A i \in 1 .. m - n + 1 : a[i] = e[n + i - 1]
      BY <1>1, <3>1, SubSeqProperties
    <3> QED
      BY <1>1, <3>2
  <2>4. b \in Seq(LineType) /\ Len(b) = n - 1 /\ \A i \in 1 .. n - 1 : b[i] = e[i]
    <3>1. \A i \in 1 .. n - 1 : e[i] \in LineType
      BY <1>1, <2>2
    <3> HIDE DEF e, n
    <3>2. b \in Seq(LineType) /\ Len(b) = (IF 1 <= n - 1 THEN n - 1 - 1 + 1 ELSE 0)
          /\ \A i \in 1 .. n - 1 - 1 + 1 : b[i] = e[1 + i - 1]
      BY <1>1, <3>1, SubSeqProperties
    <3> QED
      BY <1>1, <1>3, <3>2
  <2> HIDE DEF a, b
  <2>5. a \o b \in Seq(LineType) /\ Len(a \o b) = m
        /\ \A i \in 1 .. m : (a \o b)[i] = IF i <= Len(a) THEN a[i] ELSE b[i - Len(a)]
    <3>1. Len(a) + Len(b) = m
      BY <1>1, <2>3, <2>4
    <3>2. /\ a \o b \in Seq(LineType) /\ Len(a \o b) = Len(a) + Len(b)
          /\ \A i \in 1 .. Len(a) + Len(b) : (a \o b)[i] = IF i <= Len(a) THEN a[i]
               ELSE b[i - Len(a)]
      BY <2>3, <2>4, ConcatProperties
    <3> QED
      BY <3>1, <3>2
  <2> HIDE DEF e, n
  <2>6. ASSUME NEW k \in 1 .. m
        PROVE  /\ k <= m - n + 1 => (a \o b)[k] = e[n + k - 1]
               /\ k > m - n + 1 => (a \o b)[k] = e[k - (m - n + 1)]
    <3>1. CASE k <= m - n + 1
      <4>1. k \in 1 .. m - n + 1
        BY <1>1, <3>1
      <4> QED
        BY <2>3, <2>5, <3>1, <4>1
    <3>2. CASE k > m - n + 1
      <4>1. k - (m - n + 1) \in 1 .. n - 1 /\ ~(k <= m - n + 1)
        BY <1>1, <3>2
      <4> QED
        BY <2>3, <2>4, <2>5, <3>2, <4>1
    <3> QED
      BY <1>1, <3>1, <3>2
  <2> QED
    BY <2>1, <2>5, <2>6 DEF e, n
<1> QED
  BY <1>2, <1>3

\* The ring after one more event is still a ring, one event longer or with the
\* oldest overwritten.
LEMMA RingKept ==
  ASSUME NEW s, RingOK(s), NEW line \in LineType, NEW r, r.recent = RingAfter(s, line), r.next =
           SlotAfter(s)
  PROVE  RingOK(r)
<1>1. MaxRecent \in Nat /\ s.recent \in Seq(LineType) /\ Len(s.recent) \in Nat
        /\ Len(s.recent) <= MaxRecent
  BY LogLimits, LenProperties DEF RingOK
<1>2. CASE MaxRecent = 0
  BY <1>1, <1>2 DEF RingAfter, SlotAfter, RingOK
<1>3. CASE MaxRecent # 0 /\ Len(s.recent) < MaxRecent
  <2>1. r.recent = Append(s.recent, line) /\ s.next = Len(s.recent) + 1 /\ s.next \in 1 .. MaxRecent
    BY <1>3 DEF RingAfter, RingOK
  <2>2. r.recent \in Seq(LineType) /\ Len(r.recent) = Len(s.recent) + 1
    BY <1>1, <2>1, AppendProperties
  <2>3. r.next = IF s.next = MaxRecent THEN 1 ELSE s.next + 1
    BY <1>3 DEF SlotAfter
  <2> QED
    BY <1>1, <1>3, <2>1, <2>2, <2>3 DEF RingOK
<1>4. CASE MaxRecent # 0 /\ ~(Len(s.recent) < MaxRecent)
  <2>1. s.next \in 1 .. MaxRecent /\ Len(s.recent) = MaxRecent
    BY <1>1, <1>4 DEF RingOK
  <2>2. r.recent = [s.recent EXCEPT ![s.next] = line]
    BY <1>4 DEF RingAfter
  <2>3. r.recent \in Seq(LineType) /\ Len(r.recent) = MaxRecent
    BY <1>1, <2>1, <2>2, ExceptSeq
  <2>4. r.next = IF s.next = MaxRecent THEN 1 ELSE s.next + 1
    BY <1>4 DEF SlotAfter
  <2> QED
    BY <1>1, <2>1, <2>3, <2>4 DEF RingOK
<1> QED
  BY <1>2, <1>3, <1>4

LEMMA RotatedLonger ==
  ASSUME NEW s, RingOK(s), NEW line \in LineType, NEW r, r.recent = RingAfter(s, line), r.next =
           SlotAfter(s),
         Len(s.recent) < MaxRecent
  PROVE  Rotated(r) = Append(Rotated(s), line)
<1>1. MaxRecent \in Nat \ {0} /\ s.recent \in Seq(LineType) /\ Len(s.recent) \in Nat
      /\ s.next = Len(s.recent) + 1
  BY LogLimits, LenProperties DEF RingOK
<1>2. Rotated(s) = s.recent
  BY RotatedRoom
<1>3. r.recent = Append(s.recent, line) /\ r.next = IF s.next = MaxRecent THEN 1 ELSE s.next + 1
  BY <1>1 DEF RingAfter, SlotAfter
<1>4. Len(r.recent) = Len(s.recent) + 1
  BY <1>1, <1>3, AppendProperties
<1>5. r.next = 1 \/ Len(r.recent) # MaxRecent
  BY <1>1, <1>3, <1>4
<1> QED
  BY <1>2, <1>3, <1>5, Zenon DEF Rotated

LEMMA RotatedOn ==
  ASSUME NEW s, RingOK(s), NEW line \in LineType, NEW r, r.recent = RingAfter(s, line), r.next =
           SlotAfter(s),
         Len(s.recent) = MaxRecent, MaxRecent # 0
  PROVE  /\ Rotated(s) \in Seq(LineType) /\ Len(Rotated(s)) = MaxRecent
         /\ Rotated(r) \in Seq(LineType) /\ Len(Rotated(r)) = MaxRecent
         /\ Rotated(r)[MaxRecent] = line
         /\ \A k \in 1 .. MaxRecent - 1 : Rotated(r)[k] = Rotated(s)[k + 1]
<1> DEFINE m == MaxRecent
           e == s.recent
           n == s.next
           g == r.recent
           p == r.next
<1>1. m \in Nat \ {0} /\ e \in Seq(LineType) /\ Len(e) = m /\ n \in 1 .. m
  BY LogLimits DEF RingOK
<1>2. g = [e EXCEPT ![n] = line] /\ p = IF n = m THEN 1 ELSE n + 1
  BY <1>1 DEF RingAfter, SlotAfter
<1>3. Len(g) = m /\ \A j \in 1 .. m : g[j] = IF j = n THEN line ELSE e[j]
  BY <1>1, <1>2, ExceptSeq
<1>4. RingOK(r)
  BY RingKept
<1>5. /\ Rotated(s) \in Seq(LineType) /\ Len(Rotated(s)) = m
      /\ \A k \in 1 .. m :
           /\ k <= m - n + 1 => Rotated(s)[k] = e[n + k - 1]
           /\ k > m - n + 1 => Rotated(s)[k] = e[k - (m - n + 1)]
  BY <1>1, RotatedFull
<1>6. /\ Rotated(r) \in Seq(LineType) /\ Len(Rotated(r)) = m
      /\ \A k \in 1 .. m :
           /\ k <= m - p + 1 => Rotated(r)[k] = g[p + k - 1]
           /\ k > m - p + 1 => Rotated(r)[k] = g[k - (m - p + 1)]
  BY <1>3, <1>4, RotatedFull
<1> HIDE DEF m, e, n, g, p
<1>7. CASE n = m
  <2>1. p = 1
    BY <1>2, <1>7
  <2>2. ASSUME NEW k \in 1 .. m PROVE Rotated(r)[k] = g[k]
    <3>1. k <= m - p + 1 /\ p + k - 1 = k
      BY <1>1, <2>1
    <3> QED
      BY <1>6, <3>1
  <2>3. Rotated(r)[m] = line
    BY <1>1, <1>3, <1>7, <2>2
  <2>4. ASSUME NEW k \in 1 .. m - 1 PROVE Rotated(r)[k] = Rotated(s)[k + 1]
    <3>1. k \in 1 .. m /\ k # n /\ k + 1 \in 1 .. m /\ k + 1 > m - n + 1
            /\ (k + 1) - (m - n + 1) = k
      BY <1>1, <1>7
    <3>2. Rotated(s)[k + 1] = e[k]
      BY <1>5, <3>1
    <3> QED
      BY <1>3, <2>2, <3>1, <3>2
  <2> QED
    BY <1>5, <1>6, <2>3, <2>4 DEF m
<1>8. CASE n # m
  <2>1. p = n + 1 /\ n \in 1 .. m - 1
    BY <1>1, <1>2, <1>8
  <2>2. Rotated(r)[m] = line
    <3>1. m > m - p + 1 /\ m - (m - p + 1) = n /\ m \in 1 .. m
      BY <1>1, <2>1
    <3> QED
      BY <1>1, <1>3, <1>6, <3>1
  <2>3. ASSUME NEW k \in 1 .. m - 1 PROVE Rotated(r)[k] = Rotated(s)[k + 1]
    <3>0. k \in 1 .. m /\ k + 1 \in 1 .. m
      BY <1>1
    <3>1. CASE k <= m - p + 1
      <4>1. p + k - 1 = n + (k + 1) - 1 /\ p + k - 1 \in 1 .. m /\ p + k - 1 # n
              /\ k + 1 <= m - n + 1
        BY <1>1, <2>1, <3>1
      <4>2. Rotated(r)[k] = g[p + k - 1] /\ Rotated(s)[k + 1] = e[n + (k + 1) - 1]
        BY <1>5, <1>6, <3>0, <3>1, <4>1
      <4>3. g[p + k - 1] = e[p + k - 1]
        BY <1>3, <4>1
      <4> QED
        BY <4>1, <4>2, <4>3
    <3>2. CASE k > m - p + 1
      <4>1. /\ k - (m - p + 1) = (k + 1) - (m - n + 1) /\ k - (m - p + 1) \in 1 .. m
            /\ k - (m - p + 1) # n /\ k + 1 > m - n + 1
        BY <1>1, <2>1, <3>2
      <4>2. Rotated(r)[k] = g[k - (m - p + 1)] /\ Rotated(s)[k + 1] = e[(k + 1) - (m - n + 1)]
        BY <1>5, <1>6, <3>0, <3>2, <4>1
      <4>3. g[k - (m - p + 1)] = e[k - (m - p + 1)]
        BY <1>3, <4>1
      <4> QED
        BY <4>1, <4>2, <4>3
    <3> QED
      BY <1>1, <2>1, <3>1, <3>2
  <2> QED
    BY <1>5, <1>6, <2>2, <2>3 DEF m
<1> QED
  BY <1>7, <1>8

\* AreNewest() for any sequence of lines.
Newest(events, all, positions) ==
  /\ Len(events) <= MaxRecent
  /\ \E at \in [DOMAIN events -> positions] :
       /\ \A j, k \in DOMAIN at : j < k => at[j] < at[k]
       /\ \A k \in DOMAIN at : events[k] = all[at[k]]
       /\ \A i \in positions :
            \/ \E k \in DOMAIN at : at[k] = i
            \/ Len(events) = MaxRecent /\ \A k \in DOMAIN at : i < at[k]

PositionsOf(all, kind) == {i \in DOMAIN all : all[i].kind = kind}

\* Keeping nothing is right when nothing is to be kept.
LEMMA NewestNone ==
  ASSUME NEW all, NEW positions, MaxRecent = 0 \/ positions = {}
  PROVE  Newest(<<>>, all, positions)
<1>1. DOMAIN <<>> = {} /\ Len(<<>>) = 0 /\ MaxRecent \in Nat
  BY LogLimits
<1> DEFINE at == [k \in {} |-> 0]
<1>2. at \in [DOMAIN <<>> -> positions] /\ DOMAIN at = {}
  BY <1>1
<1> HIDE DEF at
<1>3. Len(<<>>) <= MaxRecent /\ (Len(<<>>) = MaxRecent \/ positions = {})
  BY <1>1
<1> QED
  BY <1>2, <1>3, Zenon DEF Newest

LEMMA NewestKept ==
  ASSUME NEW events, NEW all \in Seq(LineType), NEW line \in LineType, line.kind # "transition",
         Newest(events, all, PositionsOf(all, "transition"))
  PROVE  Newest(events, Append(all, line), PositionsOf(Append(all, line), "transition"))
<1> DEFINE next == Append(all, line)
           ps   == PositionsOf(all, "transition")
<1>1. Len(all) \in Nat /\ DOMAIN all = 1 .. Len(all) /\ DOMAIN next = 1 .. Len(all) + 1
      /\ next[Len(all) + 1] = line /\ \A i \in 1 .. Len(all) : next[i] = all[i]
  BY AppendProperties, LenProperties
<1> HIDE DEF next
<1>2. PositionsOf(next, "transition") = ps
  BY <1>1 DEF PositionsOf
<1>3. ps \subseteq 1 .. Len(all)
  BY <1>1 DEF PositionsOf
<1> HIDE DEF ps
<1>4. PICK at \in [DOMAIN events -> ps] :
        /\ \A j, k \in DOMAIN at : j < k => at[j] < at[k]
        /\ \A k \in DOMAIN at : events[k] = all[at[k]]
        /\ \A i \in ps :
             \/ \E k \in DOMAIN at : at[k] = i
             \/ Len(events) = MaxRecent /\ \A k \in DOMAIN at : i < at[k]
  BY Zenon DEF Newest, ps
<1>5. \A k \in DOMAIN at : events[k] = next[at[k]]
  BY <1>1, <1>3, <1>4
<1>6. Len(events) <= MaxRecent
  BY Zenon DEF Newest
<1>7. Newest(events, next, ps)
  BY <1>4, <1>5, <1>6, Zenon DEF Newest
<1> QED
  BY <1>2, <1>7, Zenon DEF next

\* One event more, after all the others, with or without the oldest of them.
LEMMA NewestLater ==
  ASSUME NEW events \in Seq(LineType), NEW all \in Seq(LineType), NEW line \in LineType,
         line.kind = "transition", Newest(events, all, PositionsOf(all, "transition")),
         NEW later \in Seq(LineType), NEW gone \in {0, 1}, Len(events) = MaxRecent \/ gone = 0,
         Len(later) = Len(events) + 1 - gone, Len(later) # 0, Len(later) <= MaxRecent,
         later[Len(later)] = line, \A k \in 1 .. Len(later) - 1 : later[k] = events[k + gone]
  PROVE  Newest(later, Append(all, line), PositionsOf(Append(all, line), "transition"))
<1> DEFINE next == Append(all, line)
           ps   == PositionsOf(all, "transition")
           n    == Len(all) + 1
           m    == Len(later)
<1>c. ASSUME NEW a \in Nat, NEW b \in Nat \ {0}, b = a + 1 - gone
      PROVE  /\ \A k \in 1 .. b : k = b \/ k \in 1 .. b - 1
             /\ \A k \in 1 .. b - 1 : k + gone \in 1 .. a /\ k # b /\ k \in 1 .. b /\ k < b
             /\ \A j, k \in 1 .. b : j < k => j \in 1 .. b - 1
             /\ \A k \in 1 .. a : k - gone \in 1 .. b - 1 =>
                  (k - gone) + gone = k /\ k - gone \in 1 .. b
             /\ \A k \in 1 .. a : ~(k - gone \in 1 .. b - 1) => k = 1 /\ gone = 1
  BY <1>c
<1>1. Len(all) \in Nat /\ DOMAIN all = 1 .. Len(all) /\ DOMAIN next = 1 .. n
      /\ next[n] = line /\ \A i \in 1 .. Len(all) : next[i] = all[i]
  BY AppendProperties, LenProperties
<1>a. /\ Len(events) \in Nat /\ DOMAIN events = 1 .. Len(events) /\ m \in Nat \ {0}
           /\ DOMAIN later = 1 .. m
      /\ MaxRecent \in Nat
  BY LenProperties, LogLimits
<1>d. /\ \A k \in 1 .. m : k = m \/ k \in 1 .. m - 1
      /\ \A k \in 1 .. m - 1 : k + gone \in 1 .. Len(events) /\ k # m /\ k \in 1 .. m /\ k < m
      /\ \A j, k \in 1 .. m : j < k => j \in 1 .. m - 1
      /\ \A k \in 1 .. Len(events) : k - gone \in 1 .. m - 1
           => (k - gone) + gone = k /\ k - gone \in 1 .. m
      /\ \A k \in 1 .. Len(events) : ~(k - gone \in 1 .. m - 1) => k = 1 /\ gone = 1
  <2> HIDE DEF m
  <2>1. m = Len(events) + 1 - gone /\ m \in Nat \ {0} /\ Len(events) \in Nat
    BY <1>a DEF m
  <2> QED
    BY <1>c, <2>1, Zenon
<1> HIDE DEF next
<1>2. PositionsOf(next, "transition") = ps \cup {n}
  BY <1>1 DEF PositionsOf
<1>3. ps \subseteq 1 .. n - 1 /\ n \in Nat
  BY <1>1 DEF PositionsOf
<1> HIDE DEF ps
<1>4. PICK at \in [DOMAIN events -> ps] :
        /\ \A j, k \in DOMAIN at : j < k => at[j] < at[k]
        /\ \A k \in DOMAIN at : events[k] = all[at[k]]
        /\ \A i \in ps :
             \/ \E k \in DOMAIN at : at[k] = i
             \/ Len(events) = MaxRecent /\ \A k \in DOMAIN at : i < at[k]
  BY Zenon DEF Newest, ps
<1> DEFINE to == [k \in 1 .. m |-> IF k = m THEN n ELSE at[k + gone]]
<1>5. ASSUME NEW k \in 1 .. m - 1
      PROVE  k + gone \in DOMAIN events /\ to[k] = at[k + gone] /\ to[k] \in ps /\ to[k] < n
  <2>1. k + gone \in 1 .. Len(events) /\ k # m /\ k \in 1 .. m
    BY <1>d, Zenon
  <2>2. at[k + gone] \in ps
    BY <1>a, <1>4, <2>1
  <2>3. at[k + gone] < n
    BY <1>3, <2>2
  <2> QED
    BY <1>a, <2>1, <2>2, <2>3
<1>6. m \in 1 .. m /\ to[m] = n
  BY <1>a
<1>b. \A k \in 1 .. m : k = m \/ k \in 1 .. m - 1
  BY <1>d, Zenon
<1>7. to \in [DOMAIN later -> ps \cup {n}] /\ DOMAIN to = 1 .. m
  <2>1. \A k \in 1 .. m : to[k] \in ps \cup {n}
    BY <1>5, <1>6, <1>b
  <2> QED
    BY <1>a, <2>1
<1> HIDE DEF to, m, n
<1>8. ASSUME NEW j \in 1 .. m, NEW k \in 1 .. m, j < k PROVE to[j] < to[k]
  <2>1. j \in 1 .. m - 1
    BY <1>8, <1>d, Zenon
  <2>2. CASE k = m
    BY <1>5, <1>6, <2>1, <2>2
  <2>3. CASE k \in 1 .. m - 1
    <3>1. j + gone < k + gone /\ j + gone \in DOMAIN at /\ k + gone \in DOMAIN at
      BY <1>4, <1>5, <1>8, <2>1, <2>3
    <3>2. at[j + gone] < at[k + gone]
      BY <1>4, <3>1
    <3> QED
      BY <1>5, <2>1, <2>3, <3>2
  <2> QED
    BY <1>b, <2>2, <2>3
<1>9. ASSUME NEW k \in 1 .. m PROVE later[k] = next[to[k]]
  <2>1. CASE k = m
    BY <1>1, <1>6, <2>1 DEF m
  <2>2. CASE k \in 1 .. m - 1
    <3>1. later[k] = events[k + gone] /\ events[k + gone] = all[at[k + gone]]
      BY <1>4, <1>5, <2>2 DEF m
    <3>2. next[to[k]] = all[to[k]]
      <4>1. to[k] \in 1 .. Len(all)
        BY <1>1, <1>3, <1>5, <2>2 DEF n
      <4> QED
        BY <1>1, <4>1
    <3> QED
      BY <1>5, <2>2, <3>1, <3>2
  <2> QED
    BY <1>b, <2>1, <2>2
<1>10. ASSUME NEW i \in ps \cup {n}
       PROVE  \/ \E k \in 1 .. m : to[k] = i
              \/ Len(later) = MaxRecent /\ \A k \in 1 .. m : i < to[k]
  <2>1. CASE i = n
    BY <1>6, <2>1
  <2>2. CASE i \in ps /\ \E k \in DOMAIN at : at[k] = i
    <3>1. PICK k \in DOMAIN events : at[k] = i
      BY <1>4, <2>2
    <3>2. CASE k - gone \in 1 .. m - 1
      <4>1. (k - gone) + gone = k /\ k - gone \in 1 .. m
        <5>1. k \in 1 .. Len(events)
          BY <1>a, <3>1
        <5> QED
          BY <1>d, <3>2, <5>1, Zenon
      <4>2. to[k - gone] = i
        BY <1>5, <3>1, <3>2, <4>1
      <4> QED
        BY <4>1, <4>2
    <3>3. CASE ~(k - gone \in 1 .. m - 1)
      <4>0. k \in 1 .. Len(events)
        BY <1>a, <3>1
      <4>1. k = 1 /\ gone = 1
        BY <1>d, <3>3, <4>0, Zenon
      <4>3. Len(later) = MaxRecent
        BY <1>a, <4>1
      <4>2. ASSUME NEW l \in 1 .. m PROVE i < to[l]
        <5>1. i \in ps /\ i < n
          BY <1>3, <2>2
        <5>2. CASE l = m
          BY <1>6, <5>1, <5>2
        <5>3. CASE l \in 1 .. m - 1
          <6>1. k < l + gone /\ l + gone \in DOMAIN at /\ k \in DOMAIN at
            BY <1>4, <1>5, <3>1, <4>1, <5>3
          <6>2. at[k] < at[l + gone]
            BY <1>4, <6>1
          <6> QED
            BY <1>5, <3>1, <5>3, <6>2
        <5> QED
          BY <1>b, <5>2, <5>3
      <4> QED
        BY <4>2, <4>3
    <3> QED
      BY <3>2, <3>3
  <2>3. CASE i \in ps /\ Len(events) = MaxRecent /\ \A k \in DOMAIN at : i < at[k]
    <3>1. Len(later) = MaxRecent
      BY <1>a, <2>3
    <3>2. ASSUME NEW l \in 1 .. m PROVE i < to[l]
      <4>1. i < n
        BY <1>3, <2>3
      <4>2. CASE l = m
        BY <1>6, <4>1, <4>2
      <4>3. CASE l \in 1 .. m - 1
        BY <1>4, <1>5, <2>3, <4>3
      <4> QED
        BY <1>b, <4>2, <4>3
    <3> QED
      BY <3>1, <3>2
  <2> QED
    BY <1>4, <2>1, <2>2, <2>3
<1>11. Newest(later, next, ps \cup {n})
  BY <1>7, <1>8, <1>9, <1>10, Zenon DEF Newest
<1> QED
  BY <1>2, <1>11, Zenon DEF next

\* The lines since the last load.
LoadLines == {i \in DOMAIN lines : lines[i].kind = "load"}

LEMMA EpochIs ==
  /\ LoadLines = {} => Epoch = <<>>
  /\ LoadLines # {} => Epoch = SubSeq(lines, Max(LoadLines) + 1, Len(lines))
  BY Zenon DEF Epoch, LoadLines

EpochOK == LoadLines # {} => Max(LoadLines) \in 1 .. Len(lines)

LEMMA EpochTyped ==
  ASSUME lines \in Seq(LineType), EpochOK
  PROVE  Epoch \in Seq(LineType)
<1>1. CASE LoadLines = {}
  BY <1>1, EpochIs
<1>2. CASE LoadLines # {}
  <2> DEFINE n == Max(LoadLines) + 1
  <2>1. n \in Int /\ Len(lines) \in Nat /\ \A i \in n .. Len(lines) : lines[i] \in LineType
    <3>1. Max(LoadLines) \in 1 .. Len(lines)
      BY <1>2 DEF EpochOK
    <3> QED
      BY <3>1, LenProperties, ElementOfSeq
  <2> HIDE DEF n
  <2>2. SubSeq(lines, n, Len(lines)) \in Seq(LineType)
    BY <2>1, SubSeqProperties
  <2> QED
    BY <1>2, <2>2, EpochIs, Zenon DEF n
<1> QED
  BY <1>1, <1>2

LEMMA EpochLater ==
  ASSUME lines \in Seq(LineType), EpochOK, NEW line \in LineType, lines' = Append(lines, line),
         line.kind = "load" \/ LoadLines # {}
  PROVE  /\ EpochOK' /\ LoadLines' # {}
         /\ line.kind = "load" => Epoch' = <<>>
         /\ line.kind # "load" => Epoch' = Append(Epoch, line)
<1>1. /\ Len(lines) \in Nat /\ DOMAIN lines = 1 .. Len(lines) /\ DOMAIN lines' = 1 .. Len(lines')
      /\ Len(lines') = Len(lines) + 1 /\ lines'[Len(lines) + 1] = line
      /\ \A i \in 1 .. Len(lines) : lines'[i] = lines[i]
  BY AppendProperties, LenProperties
<1>0. /\ LoadLines' = {} => Epoch' = <<>>
      /\ LoadLines' # {} => Epoch' = SubSeq(lines', Max(LoadLines') + 1, Len(lines'))
  BY Zenon DEF Epoch, LoadLines
<1>2. CASE line.kind = "load"
  <2> DEFINE n == Len(lines) + 1
  <2>1. n \in LoadLines' /\ \A i \in LoadLines' : n >= i
    BY <1>1, <1>2 DEF LoadLines
  <2>2. \A x \in LoadLines' : (\A y \in LoadLines' : x >= y) => x = n
    BY <1>1, <2>1 DEF LoadLines
  <2>3. Max(LoadLines') = n
    <3> HIDE DEF n
    <3> QED
      BY <2>1, <2>2, Zenon DEF Max
  <2>4. SubSeq(lines', n + 1, Len(lines')) = <<>>
    BY <1>1, SubSeqEmpty
  <2>5. n \in 1 .. Len(lines')
    BY <1>1
  <2> HIDE DEF n
  <2> QED
    BY <1>0, <1>2, <2>1, <2>3, <2>4, <2>5, Zenon DEF EpochOK
<1>3. CASE line.kind # "load"
  <2>1. LoadLines' = LoadLines
    BY <1>1, <1>3 DEF LoadLines
  <2>2. LoadLines # {}
    BY <1>3
  <2> DEFINE n == Max(LoadLines) + 1
  <2>3. n \in 1 .. Len(lines) + 1 /\ Max(LoadLines) \in 1 .. Len(lines')
    BY <1>1, <2>2 DEF EpochOK
  <2> HIDE DEF n
  <2>4. SubSeq(Append(lines, line), n, Len(lines) + 1) = Append(SubSeq(lines, n, Len(lines)), line)
    BY <2>3, SubSeqAppend, Zenon
  <2>5. Epoch = SubSeq(lines, n, Len(lines))
    BY <2>2, EpochIs, Zenon DEF n
  <2>6. Epoch' = SubSeq(lines', n, Len(lines'))
    BY <1>0, <2>1, <2>2, Zenon DEF n
  <2>7. Epoch' = Append(Epoch, line)
    BY <1>1, <2>4, <2>5, <2>6, Zenon
  <2> QED
    BY <1>3, <2>1, <2>2, <2>3, <2>7, Zenon DEF EpochOK
<1> QED
  BY <1>2, <1>3

\* The trackers are the first of those in the epoch.
SerialsOf(all) == {all[i].of : i \in PositionsOf(all, "tracker")}
TrackersOK(s, all) ==
  /\ IsFiniteSet(s.trackers) /\ Cardinality(s.trackers) <= MaxTrackers /\ s.truncated \in BOOLEAN
  /\ s.trackers \subseteq SerialsOf(all)
  /\ s.truncated <=> s.trackers # SerialsOf(all)
  /\ s.truncated => Cardinality(s.trackers) = MaxTrackers

LEMMA SerialsLater ==
  ASSUME NEW all \in Seq(LineType), NEW line \in LineType
  PROVE  /\ line.kind = "tracker" => SerialsOf(Append(all, line)) = SerialsOf(all) \cup {line.of}
         /\ line.kind # "tracker" => SerialsOf(Append(all, line)) = SerialsOf(all)
<1> DEFINE next == Append(all, line)
           n    == Len(all) + 1
<1>1. /\ Len(all) \in Nat /\ DOMAIN all = 1 .. Len(all) /\ DOMAIN next = 1 .. n
      /\ next[n] = line /\ \A i \in 1 .. Len(all) : next[i] = all[i]
  BY AppendProperties, LenProperties
<1> HIDE DEF next
<1>2. /\ line.kind = "tracker" => PositionsOf(next, "tracker") =
           PositionsOf(all, "tracker") \cup {n}
      /\ line.kind # "tracker" => PositionsOf(next, "tracker") = PositionsOf(all, "tracker")
  BY <1>1 DEF PositionsOf
<1>3. \A i \in PositionsOf(all, "tracker") : next[i] = all[i]
  BY <1>1 DEF PositionsOf
<1> HIDE DEF n
<1>4. ASSUME line.kind = "tracker" PROVE SerialsOf(next) = SerialsOf(all) \cup {line.of}
  <2>1. next[n].of = line.of
    BY <1>1
  <2> QED
    BY <1>2, <1>3, <1>4, <2>1 DEF SerialsOf
<1>5. ASSUME line.kind # "tracker" PROVE SerialsOf(next) = SerialsOf(all)
  BY <1>2, <1>3, <1>5 DEF SerialsOf
<1> QED
  BY <1>4, <1>5 DEF next

LEMMA TrackersKept ==
  ASSUME NEW all \in Seq(LineType), NEW line \in LineType, NEW s, TrackersOK(s, all), NEW r
  PROVE  /\ line.kind = "tracker" /\ TrackersRead(r, s, line.of) => TrackersOK(r, Append(all, line))
         /\ line.kind # "tracker" /\ r.trackers = s.trackers /\ r.truncated = s.truncated =>
              TrackersOK(r, Append(all, line))
<1> DEFINE a == SerialsOf(all)
           b == SerialsOf(Append(all, line))
           c == Cardinality(s.trackers)
<1>0. /\ line.kind = "tracker" => b = a \cup {line.of}
      /\ line.kind # "tracker" => b = a
  BY SerialsLater
<1>1. /\ IsFiniteSet(s.trackers) /\ c <= MaxTrackers /\ s.truncated \in BOOLEAN
      /\ s.trackers \subseteq a /\ (s.truncated <=> s.trackers # a)
           /\ (s.truncated => c = MaxTrackers)
  BY Zenon DEF TrackersOK
<1>2. c \in Nat /\ MaxTrackers \in Nat
  BY <1>1, FS_CardinalityType, LogLimits
<1> HIDE DEF a, b, c
<1>3. ASSUME line.kind = "tracker", TrackersRead(r, s, line.of) PROVE TrackersOK(r,
               Append(all, line))
  <2>0. b = a \cup {line.of}
    BY <1>0, <1>3
  <2>1. CASE /\ line.of \in s.trackers \/ c < MaxTrackers
             /\ r.trackers = s.trackers \cup {line.of} /\ r.truncated = s.truncated
    <3>1. CASE line.of \in s.trackers
      <4>1. r.trackers = s.trackers /\ b = a
        BY <1>1, <2>0, <2>1, <3>1
      <4> QED
        BY <1>1, <2>1, <4>1, Zenon DEF TrackersOK, b, c
    <3>2. CASE line.of \notin s.trackers
      <4>1. c < MaxTrackers /\ ~s.truncated /\ s.trackers = a
        BY <1>1, <1>2, <2>1, <3>2
      <4>2. r.trackers = b
        BY <2>0, <2>1, <4>1
      <4>3. IsFiniteSet(r.trackers) /\ Cardinality(r.trackers) = c + 1
        BY <1>1, <2>1, <3>2, FS_AddElement DEF c
      <4>4. Cardinality(r.trackers) <= MaxTrackers
        BY <1>2, <4>1, <4>3
      <4>5. r.truncated = FALSE
        BY <1>1, <2>1, <4>1
      <4> QED
        BY <4>2, <4>3, <4>4, <4>5 DEF TrackersOK, b
    <3> QED
      BY <3>1, <3>2
  <2>2. CASE /\ ~(line.of \in s.trackers \/ c < MaxTrackers)
             /\ r.trackers = s.trackers /\ r.truncated = TRUE
    <3>1. c = MaxTrackers
      BY <1>1, <1>2, <2>2
    <3>2. r.trackers # b /\ r.trackers \subseteq b
      BY <1>1, <2>0, <2>2
    <3>3. Cardinality(r.trackers) = MaxTrackers /\ IsFiniteSet(r.trackers)
      BY <1>1, <2>2, <3>1 DEF c
    <3>4. MaxTrackers <= MaxTrackers
      BY <1>2
    <3> QED
      BY <2>2, <3>2, <3>3, <3>4 DEF TrackersOK, b
  <2> QED
    BY <1>3, <2>1, <2>2, Zenon DEF TrackersRead, c
<1>4. ASSUME line.kind # "tracker", r.trackers = s.trackers, r.truncated = s.truncated
      PROVE  TrackersOK(r, Append(all, line))
  <2>1. b = a
    BY <1>0, <1>4
  <2> QED
    BY <1>1, <1>4, <2>1, Zenon DEF TrackersOK, b, c
<1> QED
  BY <1>3, <1>4

\* What the window keeps of the epoch, after one line more.
KeptOK(s, all) ==
  /\ RingOK(s) /\ Newest(Rotated(s), all, PositionsOf(all, "transition"))
  /\ TrackersOK(s, all)

LEMMA RingEmpty == ASSUME NEW s, s.recent = <<>>, s.next = 1 PROVE RingOK(s) /\ Rotated(s) = <<>>
<1>1. MaxRecent \in Nat /\ <<>> \in Seq(LineType) /\ Len(<<>>) = 0
  BY LogLimits
<1>2. RingOK(s)
  BY <1>1 DEF RingOK
<1> QED
  BY <1>2, Zenon DEF Rotated

LEMMA RingLater ==
  ASSUME NEW s, NEW all \in Seq(LineType), RingOK(s),
           Newest(Rotated(s), all, PositionsOf(all, "transition")),
         NEW line \in LineType, line.kind = "transition",
         NEW r, r.recent = RingAfter(s, line), r.next = SlotAfter(s)
  PROVE  RingOK(r) /\ Newest(Rotated(r), Append(all, line),
           PositionsOf(Append(all, line), "transition"))
<1>1. RingOK(r)
  BY RingKept
<1>2. s.recent \in Seq(LineType) /\ Len(s.recent) \in Nat /\ Len(s.recent) <= MaxRecent
        /\ MaxRecent \in Nat
  BY LenProperties, LogLimits DEF RingOK
<1>3. CASE MaxRecent = 0
  <2>1. s.recent = <<>> /\ s.next = 1
    BY <1>2, <1>3, EmptySeq DEF RingOK
  <2>2. r.recent = <<>> /\ r.next = 1
    BY <1>3, <2>1, Zenon DEF RingAfter, SlotAfter
  <2>3. Rotated(r) = <<>>
    BY <2>2, RingEmpty
  <2>4. Newest(<<>>, Append(all, line), PositionsOf(Append(all, line), "transition"))
    BY <1>3, NewestNone
  <2> QED
    BY <1>1, <2>3, <2>4
<1>4. CASE MaxRecent # 0 /\ Len(s.recent) < MaxRecent
  <2>1. Rotated(s) = s.recent /\ Rotated(r) = Append(s.recent, line)
    BY <1>4, RotatedRoom, RotatedLonger
  <2> DEFINE e == s.recent
             l == Append(e, line)
  <2>2. e \in Seq(LineType) /\ l \in Seq(LineType) /\ Len(l) = Len(e) + 1 - 0 /\ Len(l) # 0
        /\ Len(l) <= MaxRecent /\ l[Len(l)] = line
        /\ \A k \in 1 .. Len(l) - 1 : l[k] = e[k + 0]
    <3>1. l \in Seq(LineType) /\ Len(l) = Len(e) + 1 /\ l[Len(e) + 1] = line
          /\ \A i \in 1 .. Len(e) : l[i] = e[i]
      BY <1>2, AppendProperties
    <3> HIDE DEF l, e
    <3>2. Len(e) \in Nat /\ Len(e) < MaxRecent /\ e \in Seq(LineType)
      BY <1>2, <1>4 DEF e
    <3>3. ASSUME NEW k \in 1 .. Len(l) - 1 PROVE k \in 1 .. Len(e) /\ k + 0 = k
      BY <3>1, <3>2
    <3>4. Len(l) = Len(e) + 1 - 0 /\ Len(l) # 0 /\ Len(l) <= MaxRecent
      BY <1>2, <3>1, <3>2
    <3> QED
      BY <3>1, <3>2, <3>3, <3>4
  <2>3. Newest(e, all, PositionsOf(all, "transition"))
    BY <2>1
  <2> HIDE DEF l, e
  <2>4. Newest(l, Append(all, line), PositionsOf(Append(all, line), "transition"))
    <3>1. 0 \in {0, 1}
      OBVIOUS
    <3> QED
      BY <2>2, <2>3, <3>1, NewestLater
  <2> QED
    BY <1>1, <2>1, <2>4 DEF l, e
<1>5. CASE MaxRecent # 0 /\ ~(Len(s.recent) < MaxRecent)
  <2> DEFINE e == Rotated(s)
             l == Rotated(r)
  <2>1. Len(s.recent) = MaxRecent
    BY <1>2, <1>5
  <2>2. /\ e \in Seq(LineType) /\ Len(e) = MaxRecent /\ l \in Seq(LineType) /\ Len(l) = MaxRecent
        /\ l[MaxRecent] = line /\ \A k \in 1 .. MaxRecent - 1 : l[k] = e[k + 1]
    BY <1>5, <2>1, RotatedOn
  <2> HIDE DEF l, e
  <2>3. /\ Len(l) = Len(e) + 1 - 1 /\ Len(l) # 0 /\ Len(l) <= MaxRecent /\ l[Len(l)] = line
        /\ \A k \in 1 .. Len(l) - 1 : l[k] = e[k + 1]
    BY <1>2, <1>5, <2>2
  <2>4. Newest(e, all, PositionsOf(all, "transition"))
    BY DEF e
  <2>5. Newest(l, Append(all, line), PositionsOf(Append(all, line), "transition"))
    <3>1. 1 \in {0, 1}
      OBVIOUS
    <3> QED
      BY <2>2, <2>3, <2>4, <3>1, NewestLater
  <2> QED
    BY <1>1, <2>5 DEF l
<1> QED
  BY <1>3, <1>4, <1>5

LEMMA KeptLater ==
  ASSUME NEW s, NEW all \in Seq(LineType), KeptOK(s, all), NEW line \in LineType, NEW r,
           KeptRead(r, s, line)
  PROVE  /\ line.kind = "load" => KeptOK(r, <<>>)
         /\ line.kind # "load" => KeptOK(r, Append(all, line))
<1>0. RingOK(s) /\ Newest(Rotated(s), all, PositionsOf(all, "transition")) /\ TrackersOK(s, all)
  BY Zenon DEF KeptOK
<1>1. CASE line.kind = "load"
  <2>1. r.recent = <<>> /\ r.next = 1 /\ r.trackers = {} /\ r.truncated = FALSE
    BY <1>1, Zenon DEF KeptRead
  <2>2. RingOK(r) /\ Rotated(r) = <<>>
    BY <2>1, RingEmpty
  <2>3. PositionsOf(<<>>, "transition") = {} /\ SerialsOf(<<>>) = {}
    BY DEF PositionsOf, SerialsOf
  <2>4. Newest(<<>>, <<>>, PositionsOf(<<>>, "transition"))
    BY <2>3, NewestNone
  <2>5. TrackersOK(r, <<>>)
    <3>1. IsFiniteSet({}) /\ Cardinality({}) = 0 /\ 0 <= MaxTrackers
      BY FS_EmptySet, LogLimits
    <3> QED
      BY <2>1, <2>3, <3>1 DEF TrackersOK
  <2> QED
    BY <1>1, <2>2, <2>4, <2>5 DEF KeptOK
<1>2. CASE line.kind = "transition"
  <2>1. /\ r.recent = RingAfter(s, line) /\ r.next = SlotAfter(s)
        /\ r.trackers = s.trackers /\ r.truncated = s.truncated
    BY <1>2, Zenon DEF KeptRead
  <2>2. RingOK(r) /\ Newest(Rotated(r), Append(all, line),
          PositionsOf(Append(all, line), "transition"))
    BY <1>0, <1>2, <2>1, RingLater
  <2>3. TrackersOK(r, Append(all, line))
    <3>1. line.kind # "tracker"
      BY <1>2
    <3> QED
      BY <1>0, <2>1, <3>1, TrackersKept
  <2> QED
    BY <1>2, <2>2, <2>3 DEF KeptOK
<1>3. CASE line.kind \notin {"load", "transition"}
  <2>1. r.recent = s.recent /\ r.next = s.next
    BY <1>3, Zenon DEF KeptRead
  <2>2. RingOK(r) /\ Rotated(r) = Rotated(s)
    BY <1>0, <2>1, Zenon DEF RingOK, Rotated
  <2>3. Newest(Rotated(s), Append(all, line), PositionsOf(Append(all, line), "transition"))
    BY <1>0, <1>3, NewestKept
  <2>4. \/ line.kind = "tracker" /\ TrackersRead(r, s, line.of)
        \/ line.kind # "tracker" /\ r.trackers = s.trackers /\ r.truncated = s.truncated
    <3>1. line.kind \in {"tracker", "unload"}
      <4>1. line.kind \in Kinds
        BY DEF LineType
      <4> QED
        BY <1>3, <4>1 DEF Kinds
    <3> QED
      BY <3>1, Zenon DEF KeptRead
  <2>5. TrackersOK(r, Append(all, line))
    BY <1>0, <2>4, TrackersKept
  <2> QED
    BY <1>3, <2>2, <2>3, <2>5 DEF KeptOK
<1> QED
  BY <1>1, <1>2, <1>3

KeptInv ==
  /\ CountsInv /\ EpochOK /\ (loaded => LoadLines # {})
  /\ KeptOK(Said(1), Epoch)

LEMMA KeptWrites ==
  ASSUME KeptInv, NEW line \in LineType, ~(line.stamp < 0), lines' = Append(lines, line),
         line.kind = "load" \/ loaded = TRUE
  PROVE  EpochOK' /\ LoadLines' # {} /\ KeptOK(Said(1), Epoch)'
<1>0. /\ lines \in Seq(LineType) /\ EpochOK /\ KeptOK(Said(1), Epoch) /\ Said(1).loaded = loaded
      /\ (loaded => LoadLines # {})
  BY Zenon DEF KeptInv, CountsInv
<1>1. Longer(lines', lines, line, 0)
  BY <1>0, LaterTails
<1>2. Said(1)' = ReadLine(Said(1), line, 0)
  BY <1>1, Zenon DEF Longer, Said
<1>3. Shaped(Said(1))
  <2>1. 1 \in 1 .. Len(lines) + 1
    BY <1>0, LenProperties
  <2>2. Minimum(Said(1), suppressed, changes)
    BY <2>1, Zenon DEF KeptInv, CountsInv
  <2> QED
    BY <2>2, Zenon DEF Minimum
<1>4. line.kind \in Kinds
  BY DEF LineType
<1>5. line.kind \in {"transition", "tracker"} => Said(1).loaded = TRUE
  BY <1>0
<1>6. KeptRead(Said(1)', Said(1), line)
  BY <1>2, <1>3, <1>4, <1>5, ReadKept, Zenon
<1>7. Epoch \in Seq(LineType)
  BY <1>0, EpochTyped
<1>8. /\ EpochOK' /\ LoadLines' # {}
      /\ line.kind = "load" => Epoch' = <<>>
      /\ line.kind # "load" => Epoch' = Append(Epoch, line)
  BY <1>0, EpochLater
<1>9. /\ line.kind = "load" => KeptOK(Said(1)', <<>>)
      /\ line.kind # "load" => KeptOK(Said(1)', Append(Epoch, line))
  BY <1>0, <1>6, <1>7, KeptLater
<1>10. KeptOK(Said(1)', Epoch')
  BY <1>8, <1>9, Zenon
<1> QED
  BY <1>8, <1>10, Zenon DEF KeptOK, RingOK, Newest, PositionsOf, TrackersOK, SerialsOf, Rotated

LEMMA KeptInit == TransitionInit => KeptInv
<1> SUFFICES ASSUME TransitionInit PROVE KeptInv
  OBVIOUS
<1>1. lines = <<>> /\ loaded = FALSE
  BY Zenon DEF TransitionInit
<1>2. CountsInv
  BY CountsInit
<1>3. LoadLines = {}
  BY <1>1 DEF LoadLines
<1>4. Epoch = <<>>
  BY <1>3, EpochIs
<1>5. Said(1) = NoSummary
  <2>1. <<>> \in Seq(LineType) /\ Len(<<>>) + 1 = 1
    OBVIOUS
  <2>2. ReadTail(<<>>, Len(<<>>) + 1, 0) = NoSummary
    BY <2>1, TailNone, Zenon
  <2> QED
    BY <1>1, <2>1, <2>2, Zenon DEF Said
<1>6. NoSummary.recent = <<>> /\ NoSummary.next = 1 /\ NoSummary.trackers = {}
        /\ NoSummary.truncated = FALSE
  BY NoSummaryIs
<1>7. RingOK(NoSummary) /\ Rotated(NoSummary) = <<>>
  BY <1>6, RingEmpty
<1>8. PositionsOf(<<>>, "transition") = {} /\ SerialsOf(<<>>) = {}
  BY DEF PositionsOf, SerialsOf
<1>9. Newest(<<>>, <<>>, PositionsOf(<<>>, "transition"))
  BY <1>8, NewestNone
<1>10. TrackersOK(NoSummary, <<>>)
  <2>1. IsFiniteSet({}) /\ Cardinality({}) = 0 /\ 0 <= MaxTrackers
    BY FS_EmptySet, LogLimits
  <2> QED
    BY <1>6, <1>8, <2>1 DEF TrackersOK
<1>11. KeptOK(NoSummary, <<>>)
  BY <1>7, <1>9, <1>10 DEF KeptOK
<1> QED
  BY <1>1, <1>2, <1>3, <1>4, <1>5, <1>11, Zenon DEF KeptInv, EpochOK

LEMMA KeptSteps ==
  ASSUME CountersTyped, LogStep
  PROVE  \/ lines' = lines /\ loaded' = loaded
         \/ \E line \in LineType :
              ~(line.stamp < 0) /\ lines' = Append(lines, line)
                /\ (line.kind = "load" \/ loaded = TRUE)
<1>1. ASSUME NEW to \in States, Told(to)
      PROVE  \E line \in LineType :
               ~(line.stamp < 0) /\ lines' = Append(lines, line)
                 /\ (line.kind = "load" \/ loaded = TRUE)
  <2>1. suppressed[to] \in 0 .. CounterMax
    BY DEF CountersTyped
  <2>2. "transition" \in Kinds /\ to \in Topics
    BY Zenon DEF Kinds, Topics
  <2> DEFINE line == Entry("transition", to, suppressed[to])
  <2>3. line \in LineType /\ ~(line.stamp < 0)
    BY <2>1, <2>2, EntryFits, Zenon
  <2>4. lines' = Append(lines, line) /\ loaded = TRUE
    BY <1>1, Zenon DEF Told, CountersTyped
  <2> QED
    BY <2>3, <2>4, Zenon
<1>2. 0 \in 0 .. CounterMax
  BY LogLimits
<1>3. CASE Introduced
  <2>1. PICK serial \in Serials : lines' = Append(lines, Entry("tracker", serial, 0))
    BY <1>3, Zenon DEF Introduced
  <2>2. "tracker" \in Kinds /\ serial \in Topics
    BY Zenon DEF Kinds, Topics
  <2> DEFINE line == Entry("tracker", serial, 0)
  <2>3. line \in LineType /\ ~(line.stamp < 0)
    BY <1>2, <2>2, EntryFits, Zenon
  <2>4. loaded = TRUE
    BY <1>3, Zenon DEF Introduced, CountersTyped
  <2> QED
    BY <2>1, <2>3, <2>4, Zenon
<1>4. CASE LoadTold
  <2>1. "load" \in Kinds /\ "" \in Topics
    BY Zenon DEF Kinds, Topics
  <2> DEFINE line == Entry("load", "", 0)
  <2>2. line \in LineType /\ ~(line.stamp < 0) /\ line.kind = "load"
    BY <1>2, <2>1, EntryFits, Zenon
  <2> QED
    BY <1>4, <2>2, Zenon DEF LoadTold
<1>5. CASE UnloadTold
  <2>1. "unload" \in Kinds /\ "" \in Topics
    BY Zenon DEF Kinds, Topics
  <2> DEFINE line == Entry("unload", "", 0)
  <2>2. line \in LineType /\ ~(line.stamp < 0)
    BY <1>2, <2>1, EntryFits, Zenon
  <2>3. loaded = TRUE
    BY <1>5, Zenon DEF UnloadTold, CountersTyped
  <2> QED
    BY <1>5, <2>2, <2>3, Zenon DEF UnloadTold
<1>6. CASE \/ \E to \in States : HeldBack(to) \/ Dropped(to)
           \/ Forgotten
           \/ lines' = lines /\ Remembers
  BY <1>6, Zenon DEF HeldBack, Dropped, Forgotten, Remembers
<1> QED
  BY <1>1, <1>3, <1>4, <1>5, <1>6, Zenon DEF LogStep

LEMMA KeptNext == KeptInv /\ [TransitionNext]_transitionVars => KeptInv'
<1> SUFFICES ASSUME KeptInv, [TransitionNext]_transitionVars PROVE KeptInv'
  OBVIOUS
<1>1. CountsInv /\ CountersTyped
  BY Zenon DEF KeptInv, CountsInv
<1>2. CountsInv'
  BY <1>1, CountsNext
<1>3. LogStep
  BY TransitionSteps
<1>4. CASE lines' = lines /\ loaded' = loaded
  <2>1. LoadLines' = LoadLines
    BY <1>4, Zenon DEF LoadLines
  <2>2. Said(1)' = Said(1) /\ Epoch' = Epoch /\ (EpochOK' <=> EpochOK)
    BY <1>4, <2>1, Zenon DEF Said, Epoch, EpochOK
  <2>3. KeptOK(Said(1), Epoch)' <=> KeptOK(Said(1)', Epoch')
    BY Zenon DEF KeptOK, RingOK, Newest, PositionsOf, TrackersOK, SerialsOf, Rotated
  <2> QED
    BY <1>2, <1>4, <2>1, <2>2, <2>3, Zenon DEF KeptInv
<1>5. CASE \E line \in LineType :
             ~(line.stamp < 0) /\ lines' = Append(lines, line)
               /\ (line.kind = "load" \/ loaded = TRUE)
  <2>1. EpochOK' /\ LoadLines' # {} /\ KeptOK(Said(1), Epoch)'
    BY <1>5, KeptWrites, Zenon
  <2> QED
    BY <1>2, <2>1, Zenon DEF KeptInv
<1> QED
  BY <1>1, <1>3, <1>4, <1>5, KeptSteps, Zenon

LEMMA KeptImplied == KeptInv => SummaryIsReference
<1> SUFFICES ASSUME KeptInv PROVE SummaryIsReference
  OBVIOUS
<1> DEFINE s == Said(1)
<1>1. KeptOK(s, Epoch)
  BY Zenon DEF KeptInv
<1>2. lines \in Seq(LineType) /\ 1 \in 1 .. Len(lines) + 1
  BY LenProperties DEF KeptInv, CountsInv
<1>3. Shaped(s)
  BY <1>2, Zenon DEF KeptInv, CountsInv, Minimum
<1>4. /\ \A f \in SummaryFields \ {"hook", "recent"} : Summary(1)[f] = s[f]
      /\ Summary(1).recent = Rotated(s)
  <2>1. s = ReadLines(SubSeq(lines, 1, Len(lines)), 0)
    BY Zenon DEF Said, ReadTail
  <2>2. Summary(1) = Parsed(SubSeq(lines, 1, Len(lines)), 0)
    BY Zenon DEF Summary
  <2> HIDE DEF s
  <2>3. Shaped(ReadLines(SubSeq(lines, 1, Len(lines)), 0))
    BY <1>3, <2>1
  <2> QED
    BY <2>1, <2>2, <2>3, ParsedIs
<1> HIDE DEF s
<1>5. {"trackers", "truncated"} \subseteq SummaryFields \ {"hook", "recent"}
  BY Zenon DEF SummaryFields
<1>6. Summary(1).trackers = s.trackers /\ Summary(1).truncated = s.truncated
  BY <1>4, <1>5
<1>7. AreNewest(Summary(1).recent, Of("transition"))
  <2>1. Newest(Rotated(s), Epoch, PositionsOf(Epoch, "transition"))
    BY <1>1, Zenon DEF KeptOK
  <2>2. Of("transition") = PositionsOf(Epoch, "transition")
    BY Zenon DEF Of, PositionsOf
  <2>3. AreNewest(Rotated(s), PositionsOf(Epoch, "transition"))
    BY <2>1, Zenon DEF Newest, AreNewest
  <2> QED
    BY <1>4, <2>2, <2>3
<1> DEFINE serials == {Epoch[i].of : i \in Of("tracker")}
<1>8. serials = SerialsOf(Epoch)
  BY Zenon DEF SerialsOf, Of, PositionsOf
<1>9. /\ s.trackers \subseteq SerialsOf(Epoch) /\ (s.truncated <=> s.trackers # SerialsOf(Epoch))
      /\ (s.truncated => Cardinality(s.trackers) = MaxTrackers)
  BY <1>1, Zenon DEF KeptOK, TrackersOK
<1> HIDE DEF serials
<1>10. /\ Summary(1).trackers \subseteq serials /\ (Summary(1).truncated
            <=> Summary(1).trackers # serials)
       /\ (Summary(1).truncated => Cardinality(Summary(1).trackers) = MaxTrackers)
  BY <1>6, <1>8, <1>9
<1> QED
  BY <1>7, <1>10, Zenon DEF SummaryIsReference, serials

\* However many changes and trackers a load tells of, and however many fit: the
\* ring holds its newest events, oldest first, and the trackers are those of this
\* load, with a flag exactly if some are missing (parseVrServerLog()).
THEOREM SummaryFaithful == TransitionSpec => []SummaryIsReference
  BY KeptInit, KeptNext, KeptImplied, PTL DEF TransitionSpec

===============================================================================
