-------------------- MODULE RegistrationInspectionProofs --------------------
(* Proofs about RegistrationInspection: the recursive descent of JsonCursor   *)
(* and findTopLevelMember() accepts exactly the documents that are well       *)
(* formed token by token, so what the window says of the registration is true *)
(* of every document, however long and however it was edited.                 *)
EXTENDS RegistrationInspection, SequenceTheorems, FiniteSetTheorems, WellFoundedInduction, TLAPS

(***************************************************************************)
(* Numbers.                                                                *)
(***************************************************************************)
\* A set of naturals that is not empty has a least member.
LEMMA LeastNatural ==
  ASSUME NEW S \in SUBSET Nat, S # {}
  PROVE  \E x \in S : \A y \in S : x <= y
<1>1. PICK x \in S : \A y \in S : <<y, x>> \notin OpToRel(<, Nat)
  BY WFMin, NatLessThanWellFounded, Zenon
<1>2. \A y \in S : ~(y < x)
  BY <1>1 DEF OpToRel
<1> QED
  BY <1>2

\* A set of naturals that is bounded and not empty has a greatest member.
LEMMA GreatestNatural ==
  ASSUME NEW b \in Nat, NEW S \in SUBSET (0 .. b), S # {}
  PROVE  \E x \in S : \A y \in S : y <= x
<1> DEFINE T == {m \in Nat : \E x \in S : m = b - x}
<1>0. PICK z \in S : TRUE
  OBVIOUS
<1>1. T \in SUBSET Nat /\ T # {}
  <2>1. b - z \in Nat
    BY <1>0
  <2> QED
    BY <2>1
<1> HIDE DEF T
<1>2. PICK m \in T : \A k \in T : m <= k
  BY <1>1, LeastNatural
<1>3. PICK x \in S : m = b - x
  BY <1>2 DEF T
<1>4. \A y \in S : b - y \in T
  BY DEF T
<1>5. \A y \in S : m <= b - y
  BY <1>2, <1>4
<1> QED
  BY <1>3, <1>5

\* Induction over the naturals, for a set.
LEMMA SetInduction ==
  ASSUME NEW T \in SUBSET Nat, 0 \in T, \A n \in T : n + 1 \in T
  PROVE  T = Nat
<1>1. SUFFICES ASSUME Nat \ T # {} PROVE FALSE
  OBVIOUS
<1>2. PICK x \in Nat \ T : \A y \in Nat \ T : x <= y
  BY <1>1, LeastNatural
<1>3. x # 0 /\ x - 1 \in Nat
  OBVIOUS
<1>4. x - 1 \in T
  BY <1>2, <1>3
<1>5. (x - 1) + 1 \in T /\ (x - 1) + 1 = x
  BY <1>3, <1>4
<1> QED
  BY <1>5

(***************************************************************************)
(* Brackets.                                                               *)
(***************************************************************************)
Readable == document \in Seq(Tokens)
Ended == Len(document) + 1

\* One token more, and the number of those in a class grows by one or not at all.
LEMMA CountStep ==
  ASSUME Readable, NEW C, NEW i \in 1 .. Len(document)
  PROVE  LET N(m) == Cardinality({k \in 1 .. m - 1 : document[k] \in C})
         IN  N(i) \in Nat /\ N(i + 1) = N(i) + (IF document[i] \in C THEN 1 ELSE 0)
<1> DEFINE S == {k \in 1 .. i - 1 : document[k] \in C}
           T == {k \in 1 .. (i + 1) - 1 : document[k] \in C}
<1>1. i \in Nat
  BY DEF Readable
<1>2. IsFiniteSet(S) /\ Cardinality(S) \in Nat
  <2>1. IsFiniteSet(1 .. i - 1)
    BY <1>1, FS_Interval
  <2>2. S \subseteq 1 .. i - 1
    OBVIOUS
  <2> QED
    BY <2>1, <2>2, FS_Subset, FS_CardinalityType, Zenon
<1>3. T = IF document[i] \in C THEN S \cup {i} ELSE S
  BY <1>1
<1>4. i \notin S
  BY <1>1
<1> HIDE DEF S, T
<1>5. Cardinality(T) = Cardinality(S) + (IF document[i] \in C THEN 1 ELSE 0)
  <2>1. CASE document[i] \in C
    <3>1. Cardinality(S \cup {i}) = Cardinality(S) + 1
      BY <1>2, <1>4, FS_AddElement
    <3> QED
      BY <1>3, <2>1, <3>1
  <2> QED
    BY <1>2, <1>3, <2>1
<1> QED
  BY <1>2, <1>5 DEF S, T

\* Nothing is open before the first token.
LEMMA LevelFirst == Level(1) = 0
<1> DEFINE N(C) == {k \in 1 .. 1 - 1 : document[k] \in C}
<1>1. N(Openers) = {} /\ N(Closers) = {}
  OBVIOUS
<1>2. Cardinality({}) = 0
  BY FS_EmptySet
<1> QED
  BY <1>1, <1>2 DEF Level

\* What one token does to the level.
LEMMA LevelStep ==
  ASSUME Readable, NEW i \in 1 .. Len(document)
  PROVE  /\ Level(i) \in Int /\ Level(i + 1) \in Int
         /\ document[i] \in Openers => Level(i + 1) = Level(i) + 1
         /\ document[i] \in Closers => Level(i + 1) = Level(i) - 1
         /\ document[i] \notin Openers \cup Closers => Level(i + 1) = Level(i)
<1> DEFINE N(m, C) == Cardinality({k \in 1 .. m - 1 : document[k] \in C})
<1>1. /\ N(i, Openers) \in Nat
      /\ N(i + 1, Openers) = N(i, Openers) + (IF document[i] \in Openers THEN 1 ELSE 0)
  BY CountStep
<1>2. /\ N(i, Closers) \in Nat
      /\ N(i + 1, Closers) = N(i, Closers) + (IF document[i] \in Closers THEN 1 ELSE 0)
  BY CountStep
<1>3. Level(i) = N(i, Openers) - N(i, Closers) /\ Level(i + 1) =
        N(i + 1, Openers) - N(i + 1, Closers)
  BY DEF Level
<1>4. ~(document[i] \in Openers /\ document[i] \in Closers)
  BY DEF Openers, Closers
<1> HIDE DEF N
<1> QED
  BY <1>1, <1>2, <1>3, <1>4

\* A level is a number.
LEMMA LevelInt ==
  ASSUME Readable, NEW i \in 1 .. Ended
  PROVE  Level(i) \in Int
<1>1. Len(document) \in Nat
  BY DEF Readable
<1>2. CASE i \in 1 .. Len(document)
  BY <1>2, LevelStep
<1>3. CASE i = 1
  BY <1>3, LevelFirst
<1>4. CASE i - 1 \in 1 .. Len(document)
  <2>1. (i - 1) + 1 = i
    BY <1>1
  <2> QED
    BY <1>4, <2>1, LevelStep
<1> QED
  BY <1>1, <1>2, <1>3, <1>4 DEF Ended

\* The level moves by one, and only at a bracket.
LEMMA LevelTurns ==
  ASSUME Readable, NEW i \in 1 .. Len(document)
  PROVE  /\ Level(i) \in Int /\ Level(i + 1) \in Int
         /\ Level(i + 1) > Level(i) => document[i] \in Openers /\ Level(i + 1) = Level(i) + 1
         /\ Level(i + 1) < Level(i) => document[i] \in Closers /\ Level(i + 1) = Level(i) - 1
<1> DEFINE x == Level(i)
           y == Level(i + 1)
<1>1. /\ x \in Int /\ y \in Int
      /\ document[i] \in Openers => y = x + 1
      /\ document[i] \in Closers => y = x - 1
      /\ document[i] \notin Openers \cup Closers => y = x
  BY LevelStep
<1> HIDE DEF x, y
<1>2. /\ y > x => document[i] \in Openers /\ y = x + 1
      /\ y < x => document[i] \in Closers /\ y = x - 1
  BY <1>1
<1> QED
  BY <1>1, <1>2 DEF x, y

\* Between two positions the level rises over c at an opening bracket, for good.
LEMMA OpensBetween ==
  ASSUME Readable, NEW a \in 1 .. Ended, NEW b \in 1 .. Ended, a < b,
         NEW c \in Int, Level(a) <= c, c < Level(b)
  PROVE  \E k \in a .. b - 1 : /\ document[k] \in Openers /\ Level(k) = c
                               /\ \A i \in k + 1 .. b : Level(i) > c
<1>0. Len(document) \in Nat /\ Ended = Len(document) + 1
  BY DEF Readable, Ended
<1> DEFINE S == {k \in a .. b - 1 : Level(k) <= c}
<1>1. S \in SUBSET (0 .. b) /\ a \in S /\ b \in Nat
  BY <1>0
<1>2. PICK k \in S : \A j \in S : j <= k
  BY <1>1, GreatestNatural
<1>3. k \in 1 .. Len(document) /\ k \in a .. b - 1 /\ Level(k) <= c
  BY <1>0
<1>4. \A i \in k + 1 .. b : Level(i) > c
  <2> SUFFICES ASSUME NEW i \in k + 1 .. b PROVE Level(i) > c
    OBVIOUS
  <2>1. CASE i = b
    BY <2>1
  <2>2. CASE i # b
    <3>1. i \in a .. b - 1 /\ i \in 1 .. Ended /\ i \notin S
      BY <1>0, <1>2, <1>3, <2>2
    <3>2. Level(i) \in Int
      BY <3>1, LevelInt
    <3> QED
      BY <3>1, <3>2
  <2> QED
    BY <2>1, <2>2
<1>5. Level(k + 1) > c
  BY <1>0, <1>3, <1>4
<1>6. /\ Level(k) \in Int /\ Level(k + 1) \in Int
      /\ Level(k + 1) > Level(k) => document[k] \in Openers /\ Level(k + 1) = Level(k) + 1
  BY <1>3, LevelTurns
<1>7. document[k] \in Openers /\ Level(k) = c
  BY <1>3, <1>5, <1>6
<1> QED
  BY <1>3, <1>4, <1>7

\* Token p is in the container that opens at o, directly.
Inside(o, p) ==
  /\ o \in 1 .. Len(document) /\ p \in o + 1 .. Len(document)
  /\ document[o] \in Openers /\ Level(p) = Level(o) + 1
  /\ \A i \in o + 1 .. p : Level(i) > Level(o)

\* Where a token that is inside a bracket can be.
LEMMA InsideRange ==
  ASSUME Readable, NEW o, NEW p, Inside(o, p)
  PROVE  /\ Len(document) \in Nat /\ Ended = Len(document) + 1
         /\ o \in 1 .. Len(document) /\ p \in 2 .. Len(document) /\ p > o
         /\ o \in Int /\ p \in Int
         /\ p - 1 = o <=> p = o + 1
         /\ (p + 1) - 1 = p /\ (p + 1) - 2 = p - 1
<1>1. Len(document) \in Nat /\ Ended = Len(document) + 1
  BY DEF Readable, Ended
<1> QED
  BY <1>1 DEF Inside

\* The reference finds the same bracket.
LEMMA WithinIs ==
  ASSUME Readable, NEW o, NEW p, Inside(o, p)
  PROVE  Within(p) = o
<1> DEFINE S == {k \in 1 .. p - 1 : document[k] \in Openers /\ Level(k) = Level(p) - 1}
<1>0. Len(document) \in Nat /\ Ended = Len(document) + 1
  BY DEF Readable, Ended
<1>1. o \in 1 .. p - 1 /\ Level(o) \in Int /\ Level(o) = Level(p) - 1 /\ document[o] \in Openers
  BY <1>0, LevelInt DEF Inside
<1>2. o \in S
  BY <1>1
<1>3. \A k \in S : o >= k
  BY <1>0, <1>1 DEF Inside
<1>4. S \subseteq Int
  BY <1>0 DEF Inside
<1>5. Within(p) = CHOOSE x \in S : \A y \in S : x >= y
  BY DEF Within, Max
<1> HIDE DEF S
<1>6. Within(p) \in S /\ \A y \in S : Within(p) >= y
  <2>1. \E x \in S : \A y \in S : x >= y
    BY <1>2, <1>3
  <2> QED
    BY <1>5, <2>1
<1>7. Within(p) >= o /\ o >= Within(p) /\ Within(p) \in Int /\ o \in Int
  BY <1>2, <1>3, <1>4, <1>6
<1> QED
  BY <1>7

\* A token at a level is directly in the container its level opened with.
LEMMA InsideExists ==
  ASSUME Readable, NEW p \in 2 .. Len(document), NEW c \in Int, c >= 0, Level(p) = c + 1
  PROVE  \E o : Inside(o, p) /\ Within(p) = o /\ Level(o) = c
<1>0. Len(document) \in Nat /\ Ended = Len(document) + 1
  BY DEF Readable, Ended
<1>1. PICK o \in 1 .. p - 1 : /\ document[o] \in Openers /\ Level(o) = c
                              /\ \A i \in o + 1 .. p : Level(i) > c
  <2>1. 1 \in 1 .. Ended /\ p \in 1 .. Ended /\ 1 < p /\ Level(1) <= c /\ c < Level(p)
    BY <1>0, LevelFirst
  <2> QED
    BY <2>1, OpensBetween
<1>2. Inside(o, p)
  BY <1>0, <1>1 DEF Inside
<1> QED
  BY <1>1, <1>2, WithinIs

\* A container that closes, closes at a first position.
LEMMA Falls ==
  ASSUME Readable, NEW p \in 1 .. Len(document), document[p] \in Openers,
         NEW e \in p + 1 .. Ended, Level(e) <= Level(p)
  PROVE  \E q \in p + 2 .. e : /\ Level(q) = Level(p) /\ document[q - 1] \in Closers
                               /\ \A i \in p + 1 .. q - 1 : Level(i) > Level(p)
<1>0. Len(document) \in Nat /\ Ended = Len(document) + 1
  BY DEF Readable, Ended
<1> DEFINE S == {q \in p + 1 .. e : Level(q) <= Level(p)}
<1>1. S \in SUBSET Nat /\ e \in S
  BY <1>0
<1>2. PICK q \in S : \A j \in S : q <= j
  BY <1>1, LeastNatural
<1>3. q \in p + 1 .. e /\ q \in 2 .. Ended /\ Level(q) <= Level(p) /\ Level(p) \in Int
  BY <1>0, LevelInt
<1>4. \A i \in p + 1 .. q - 1 : Level(i) > Level(p)
  <2> SUFFICES ASSUME NEW i \in p + 1 .. q - 1 PROVE Level(i) > Level(p)
    OBVIOUS
  <2>1. i \in p + 1 .. e /\ i \in 1 .. Ended /\ i \notin S
    BY <1>0, <1>2, <1>3
  <2>2. Level(i) \in Int
    BY <2>1, LevelInt
  <2> QED
    BY <1>3, <2>1, <2>2
<1>5. Level(p + 1) = Level(p) + 1
  BY LevelStep
<1>6. q # p + 1
  BY <1>3, <1>5
<1>7. q - 1 \in 1 .. Len(document) /\ (q - 1) + 1 = q /\ q - 1 \in p + 1 .. q - 1
  BY <1>0, <1>3, <1>6
<1>8. Level(q - 1) > Level(p)
  BY <1>4, <1>7
<1>9. PICK r \in 1 .. Len(document) : r = q - 1 /\ r + 1 = q
  BY <1>7
<1>10. /\ Level(r) \in Int /\ Level(r + 1) \in Int
       /\ Level(r + 1) < Level(r) => document[r] \in Closers /\ Level(r + 1) = Level(r) - 1
  BY LevelTurns
<1>11. Level(q) = Level(p) /\ document[q - 1] \in Closers
  BY <1>3, <1>8, <1>9, <1>10
<1> QED
  BY <1>3, <1>4, <1>6, <1>11

(***************************************************************************)
(* What fits after what.                                                   *)
(***************************************************************************)
Brace == "{"
EndBrace == "}"
Comma == ","
Simple == Strings \cup Scalars
Keyed(o, i) ==
  /\ document[i - 1] \in Strings /\ i - 2 >= o
  /\ document[i - 2] = Comma \/ i - 2 = o

\* What the reference asks of a token in an array.
LEMMA FitsArray ==
  ASSUME Readable, NEW o, NEW p, Inside(o, p), document[o] = "["
  PROVE  Fits(p) <=> \/ document[p] \in Values /\ (p - 1 = o \/ document[p - 1] = Comma)
                     \/ document[p] = Comma /\ document[p - 1] \in Simple \cup Closers
                     \/ document[p] = "]" /\ (p - 1 = o \/ document[p - 1] \in Simple \cup Closers)
<1>1. Within(p) = o
  BY WithinIs
<1> QED
  BY <1>1 DEF Fits, Simple, Brace, EndBrace, Comma

\* What the reference asks of a token in an object.
LEMMA FitsObject ==
  ASSUME Readable, NEW o, NEW p, Inside(o, p), document[o] = Brace
  PROVE  Fits(p) <=> \/ document[p] \in Strings /\ (p - 1 = o \/ document[p - 1] = Comma)
                     \/ document[p] = ":" /\ Keyed(o, p)
                     \/ document[p] \in Values /\ document[p - 1] = ":"
                     \/ document[p] = Comma /\ document[p - 1] \in Simple \cup Closers
                          /\ ~Keyed(o, p)
                     \/ /\ document[p] = EndBrace
                        /\ \/ p - 1 = o
                           \/ document[p - 1] \in Simple \cup Closers /\ ~Keyed(o, p)
<1>1. Within(p) = o
  BY WithinIs
<1> QED
  BY <1>1 DEF Fits, Simple, Brace, EndBrace, Comma, Keyed

\* The marks are different tokens.
LEMMA MarksApart ==
  /\ Brace \notin {EndBrace, "[", "]", Comma, ":"}
  /\ EndBrace \notin {"[", "]", Comma, ":"}
  /\ Comma \notin {"[", "]", ":"}
  BY Zenon DEF Brace, EndBrace, Comma

\* The kinds of token exclude one another.
LEMMA TokensApart ==
  ASSUME NEW t
  PROVE  /\ t \in Openers => t \notin Simple \cup Closers \cup {Comma, ":"}
         /\ t \in Closers => t \notin Simple \cup Values \cup {Comma, ":"}
         /\ t \in Simple => t \notin {Comma, ":"}
         /\ t \in Values => t \notin {Comma, ":", "]", EndBrace}
         /\ t \in Values <=> t \in Simple \/ t \in Openers
         /\ t \in Openers <=> t = Brace \/ t = "["
         /\ t \in Closers <=> t = EndBrace \/ t = "]"
         /\ t \in Strings => t \in Simple /\ t \in Values
  BY Zenon DEF Simple, Strings, Paths, Scalars, Openers, Closers, Values, Brace, EndBrace, Comma

\* Where a value of an array begins, and where a key of an object does.
Starts(o, p) == Inside(o, p) /\ (p = o + 1 \/ document[p - 1] = Comma)

\* Where an element may start, a value may stand, or the end of an empty array.
LEMMA FitsElement ==
  ASSUME Readable, NEW o, NEW p, Starts(o, p), document[o] = "["
  PROVE  /\ document[p] \in Values => Fits(p)
         /\ Fits(p) => document[p] \in Values \/ (p = o + 1 /\ document[p] = "]")
<1>0. Inside(o, p)
  BY DEF Starts
<1>1. Inside(o, p) /\ p \in Int /\ o \in Int /\ (p - 1 = o <=> p = o + 1)
  BY <1>0, InsideRange, Zenon
<1>2. p = o + 1 \/ document[p - 1] = Comma
  BY DEF Starts
<1>3. p - 1 = o => document[p - 1] = "["
  OBVIOUS
<1>4. document[p - 1] \notin Simple \cup Closers
  BY <1>1, <1>2, <1>3, TokensApart DEF Simple, Strings, Paths, Scalars, Closers, Brace, EndBrace,
       Comma
<1> HIDE DEF Simple, Values, Closers
<1> QED
  BY <1>1, <1>2, <1>4, FitsArray

\* Where a member may start, a key may stand, or the end of an empty object.
LEMMA FitsMember ==
  ASSUME Readable, NEW o, NEW p, Starts(o, p), document[o] = Brace
  PROVE  /\ document[p] \in Strings => Fits(p)
         /\ Fits(p) => document[p] \in Strings \/ (p = o + 1 /\ document[p] = EndBrace)
<1>0. Inside(o, p)
  BY DEF Starts
<1>1. Inside(o, p) /\ p \in Int /\ o \in Int /\ (p - 1 = o <=> p = o + 1)
  BY <1>0, InsideRange, Zenon
<1>2. p = o + 1 \/ document[p - 1] = Comma
  BY DEF Starts
<1>3. p - 1 = o => document[p - 1] = Brace
  OBVIOUS
<1>4. document[p - 1] \in {Comma, Brace}
  BY <1>1, <1>2, <1>3
<1>5. document[p - 1] \notin Simple \cup Closers \cup Strings \cup {":"}
  BY <1>4 DEF Simple, Strings, Paths, Scalars, Closers, Brace, EndBrace, Comma
<1>6. ~Keyed(o, p)
  BY <1>5 DEF Keyed
<1> QED
  BY <1>1, <1>2, <1>5, <1>6, FitsObject

\* After the key of a member.
LEMMA FitsColon ==
  ASSUME Readable, NEW o, NEW p, Starts(o, p), document[o] = Brace, document[p] \in Strings,
         Inside(o, p + 1)
  PROVE  Fits(p + 1) <=> document[p + 1] = ":"
<1>0. Inside(o, p)
  BY DEF Starts
<1>1. p \in Int /\ o \in Int /\ p > o /\ (p + 1) - 1 = p /\ (p + 1) - 2 = p - 1
  BY <1>0, InsideRange, Zenon
<1>2. p - 1 = o \/ document[p - 1] = Comma
  BY <1>0, InsideRange, Zenon DEF Starts
<1>3. Keyed(o, p + 1)
  <2>1. document[(p + 1) - 1] \in Strings
    BY <1>1, Zenon
  <2>2. document[(p + 1) - 2] = Comma \/ (p + 1) - 2 = o
    BY <1>1, <1>2, Zenon
  <2>3. p - 1 >= o
    BY <1>1
  <2>4. (p + 1) - 2 >= o
    BY <1>1, <2>3, Zenon
  <2> QED
    BY <2>1, <2>2, <2>4, Zenon DEF Keyed
<1>4. p # o /\ document[p] \notin {Comma, ":"}
  BY <1>1, TokensApart
<1> QED
  BY <1>1, <1>3, <1>4, FitsObject

\* After the colon.
LEMMA FitsMemberValue ==
  ASSUME Readable, NEW o, NEW p, Inside(o, p), document[o] = Brace, document[p - 1] = ":"
  PROVE  Fits(p) <=> document[p] \in Values
<1>1. p - 1 # o
  BY MarksApart
<1>2. document[p - 1] \notin Simple \cup Closers \cup Strings
  BY DEF Simple, Strings, Paths, Scalars, Closers, Brace, EndBrace, Comma
<1>3. ~Keyed(o, p)
  BY <1>2 DEF Keyed
<1> QED
  BY <1>1, <1>2, <1>3, FitsObject, MarksApart

\* After a value of an array, and after one of an object.
LEMMA FitsAfterElement ==
  ASSUME Readable, NEW o, NEW p, Inside(o, p), document[o] = "[",
         document[p - 1] \in Simple \cup Closers
  PROVE  Fits(p) <=> document[p] \in {Comma, "]"}
<1>1. p - 1 # o /\ document[p - 1] # Comma
  BY TokensApart
<1> QED
  BY <1>1, FitsArray

\* After the value of a member comes a comma or the end of the object.
LEMMA FitsAfterMember ==
  ASSUME Readable, NEW o, NEW p, Inside(o, p), document[o] = Brace,
         document[p - 1] \in Simple \cup Closers,
         document[p - 1] \in Strings => document[p - 2] = ":"
  PROVE  Fits(p) <=> document[p] \in {Comma, EndBrace}
<1>1. p - 1 # o /\ document[p - 1] \notin {Comma, ":"}
  BY TokensApart
<1>2. ~Keyed(o, p)
  BY MarksApart DEF Keyed
<1> QED
  BY <1>1, <1>2, FitsObject

(***************************************************************************)
(* Functions that call one another.                                        *)
(***************************************************************************)
Ranked(D, rank, M) == M \in Nat /\ \A s \in D : rank[s] \in Nat /\ rank[s] < M
Same(D, rank, s, f, g) == \A t \in D : rank[t] < rank[s] => f[t] = g[t]
Contracts(D, rank, G, B) ==
  /\ G # {} /\ \A g \in G : B[g] \in G
  /\ \A g \in G, h \in G, s \in D : Same(D, rank, s, g, h) => B[g][s] = B[h][s]
SameByRank(D, rank, f, g) == \A s \in D : Same(D, rank, s, f, g) => f[s] = g[s]

\* A function whose every value depends on values of lower rank only exists.
LEMMA FixedPoint ==
  ASSUME NEW D, NEW rank, NEW M, Ranked(D, rank, M), NEW G, NEW B, Contracts(D, rank, G, B)
  PROVE  \E f \in G : \A s \in D : f[s] = B[f][s]
<1> USE DEF Ranked, Contracts, Same
<1> DEFINE T == {m \in Nat : \E g \in G : \A s \in D : rank[s] < m => g[s] = B[g][s]}
<1>1. 0 \in T
  <2>1. PICK g \in G : TRUE
    OBVIOUS
  <2> QED
    BY <2>1
<1>2. ASSUME NEW m \in T PROVE m + 1 \in T
  <2>1. PICK g \in G : \A s \in D : rank[s] < m => g[s] = B[g][s]
    OBVIOUS
  <2>2. B[g] \in G
    OBVIOUS
  <2>3. ASSUME NEW s \in D, rank[s] < m + 1 PROVE B[g][s] = B[B[g]][s]
    <3>1. \A t \in D : rank[t] < rank[s] => g[t] = B[g][t]
      BY <2>1, <2>3
    <3> QED
      BY <2>2, <3>1
  <2> QED
    BY <2>2, <2>3
<1> HIDE DEF T
<1>3. T = Nat
  <2>1. T \in SUBSET Nat
    BY DEF T
  <2> QED
    BY <1>1, <1>2, <2>1, SetInduction
<1>4. M \in T
  BY <1>3
<1> QED
  BY <1>4 DEF T

\* Two functions are equal if they are wherever they are equal at lower ranks.
LEMMA EqualByRank ==
  ASSUME NEW D, NEW rank, NEW M, Ranked(D, rank, M), NEW f, NEW g, SameByRank(D, rank, f, g)
  PROVE  \A s \in D : f[s] = g[s]
<1> USE DEF Ranked, SameByRank, Same
<1> DEFINE T == {m \in Nat : \A s \in D : rank[s] < m => f[s] = g[s]}
<1>1. 0 \in T
  OBVIOUS
<1>2. ASSUME NEW m \in T PROVE m + 1 \in T
  <2>1. ASSUME NEW s \in D, rank[s] < m + 1 PROVE f[s] = g[s]
    <3>1. \A t \in D : rank[t] < rank[s] => f[t] = g[t]
      BY <2>1
    <3> QED
      BY <3>1
  <2> QED
    BY <2>1
<1> HIDE DEF T
<1>3. T = Nat
  <2>1. T \in SUBSET Nat
    BY DEF T
  <2> QED
    BY <1>1, <1>2, <2>1, SetInduction
<1> QED
  BY <1>3 DEF T

(***************************************************************************)
(* The cursor.                                                             *)
(***************************************************************************)
Body(end, s) ==
  IF s[1] = "value" THEN SkipValue(end, document, s[2], s[3])
  ELSE IF s[1] = "elements" THEN SkipElements(end, document, s[2], s[3])
  ELSE SkipMembers(end, document, s[2], s[3])

\* What is read ends further on, if it ends.
Later(p) == {q \in 0 .. Ended : q = 0 \/ q > p}
Cursors == {g \in [Skips(document) -> 0 .. Ended] : \A s \in Skips(document) : g[s] \in Later(s[2])}

Rank(s) == 2 * (Ended - s[2]) + (IF s[1] = "value" THEN 0 ELSE 1)

\* At() without DOMAIN.
LEMMA AtIs ==
  ASSUME Readable, NEW p, NEW C
  PROVE  At(document, p, C) <=> p \in 1 .. Len(document) /\ document[p] \in C
  BY DEF At, Readable

\* The arguments of the cursor's function, and their rank.
LEMMA SkipsIs ==
  ASSUME Readable, NEW kind \in {"value", "elements", "members"}, NEW p \in 1 .. Ended,
         NEW d \in 0 .. MaxDepth
  PROVE  /\ <<kind, p, d>> \in Skips(document)
         /\ <<kind, p, d>>[1] = kind /\ <<kind, p, d>>[2] = p /\ <<kind, p, d>>[3] = d
         /\ Rank(<<kind, p, d>>) \in Nat
         /\ kind = "value" => Rank(<<kind, p, d>>) = 2 * (Ended - p)
         /\ kind # "value" => Rank(<<kind, p, d>>) = 2 * (Ended - p) + 1
         /\ Rank(<<kind, p, d>>) < 2 * Ended + 2
         /\ \A g \in Cursors : g[<<kind, p, d>>] \in Later(p)
<1>1. Len(document) \in Nat /\ Ended = Len(document) + 1
  BY DEF Readable, Ended
<1>2. <<kind, p, d>> \in Skips(document)
  BY <1>1 DEF Skips
<1>3. Rank(<<kind, p, d>>) = 2 * (Ended - p) + (IF kind = "value" THEN 0 ELSE 1)
  BY DEF Rank
<1>4. \A g \in Cursors : g[<<kind, p, d>>] \in Later(p)
  BY <1>2 DEF Cursors
<1>5. <<kind, p, d>>[1] = kind /\ <<kind, p, d>>[2] = p /\ <<kind, p, d>>[3] = d
  OBVIOUS
<1> DEFINE r == Rank(<<kind, p, d>>)
<1>6. /\ kind = "value" => r = 2 * (Ended - p)
      /\ kind # "value" => r = 2 * (Ended - p) + 1
  BY <1>1, <1>3
<1> HIDE DEF r
<1>7. r \in Nat /\ r < 2 * Ended + 2
  BY <1>1, <1>6
<1> QED
  BY <1>2, <1>4, <1>5, <1>6, <1>7, Zenon DEF r

\* skipValue() in terms of Brace, EndBrace and Comma.
LEMMA SkipValueIs ==
  ASSUME NEW end, NEW p, NEW d
  PROVE  SkipValue(end, document, p, d) =
           IF At(document, p, Simple) THEN p + 1
           ELSE IF At(document, p, {"["}) /\ Opened(d)
                THEN IF At(document, p + 1, {"]"}) THEN p + 2 ELSE end[<<"elements", p + 1, d + 1>>]
           ELSE IF At(document, p, {Brace}) /\ Opened(d)
                THEN IF At(document, p + 1, {EndBrace}) THEN p + 2
                     ELSE end[<<"members", p + 1, d + 1>>]
           ELSE Malformed
  BY Zenon DEF SkipValue, Simple, Brace, EndBrace

\* The same of skipArray()'s loop.
LEMMA SkipElementsIs ==
  ASSUME NEW end, NEW p, NEW d
  PROVE  LET q == end[<<"value", p, d>>] IN
         SkipElements(end, document, p, d) =
           IF At(document, q, {"]"}) THEN q + 1
           ELSE IF At(document, q, {Comma}) THEN end[<<"elements", q + 1, d>>] ELSE Malformed
  BY Zenon DEF SkipElements, Comma

\* The same of skipObject()'s loop.
LEMMA SkipMembersIs ==
  ASSUME NEW end, NEW p, NEW d
  PROVE  LET q == IF At(document, p, Strings) /\ At(document, p + 1, {":"})
                  THEN end[<<"value", p + 2, d>>] ELSE Malformed IN
         SkipMembers(end, document, p, d) =
           IF At(document, q, {EndBrace}) THEN q + 1
           ELSE IF At(document, q, {Comma}) THEN end[<<"members", q + 1, d>>] ELSE Malformed
  BY Zenon DEF SkipMembers, AtKey, EndBrace, Comma

\* A cursor's next result depends on results of lower rank, and lies further on.
Agree(g, h, s) == \A t \in Skips(document) : Rank(t) < Rank(s) => g[t] = h[t]

\* skipValue() moves forward, and only asks further on or deeper.
LEMMA ValueDepends ==
  ASSUME Readable, NEW g \in Cursors, NEW h, NEW p \in 1 .. Ended,
         NEW d \in 0 .. MaxDepth, Agree(g, h, <<"value", p, d>>)
  PROVE  /\ SkipValue(g, document, p, d) \in Later(p)
         /\ SkipValue(g, document, p, d) = SkipValue(h, document, p, d)
<1>0. Len(document) \in Nat /\ Ended = Len(document) + 1 /\ MaxDepth \in Nat
  BY RegistrationLimits DEF Readable, Ended
<1>1. ASSUME NEW kind \in {"elements", "members"}, p \in 1 .. Len(document), d < MaxDepth
      PROVE  /\ g[<<kind, p + 1, d + 1>>] = h[<<kind, p + 1, d + 1>>]
             /\ g[<<kind, p + 1, d + 1>>] \in Later(p)
  <2>1. p + 1 \in 1 .. Ended /\ d + 1 \in 0 .. MaxDepth /\ kind \in {"value", "elements", "members"}
    BY <1>0, <1>1
  <2>2. Rank(<<"value", p, d>>) = 2 * (Ended - p)
    BY SkipsIs
  <2>3. /\ <<kind, p + 1, d + 1>> \in Skips(document)
        /\ Rank(<<kind, p + 1, d + 1>>) = 2 * (Ended - (p + 1)) + 1
        /\ g[<<kind, p + 1, d + 1>>] \in Later(p + 1)
    BY <1>1, <2>1, SkipsIs
  <2>4. 2 * (Ended - (p + 1)) + 1 < 2 * (Ended - p)
    BY <1>0
  <2>5. g[<<kind, p + 1, d + 1>>] = h[<<kind, p + 1, d + 1>>]
    BY <2>2, <2>3, <2>4 DEF Agree
  <2>6. \A q \in Later(p + 1) : q \in Later(p)
    BY <1>0 DEF Later
  <2> QED
    BY <2>3, <2>5, <2>6
<1>2. /\ \A C : At(document, p, C) => p \in 1 .. Len(document) /\ p + 1 \in Later(p)
      /\ \A C : At(document, p + 1, C) => p + 2 \in Later(p)
      /\ Malformed \in Later(p)
  BY <1>0, AtIs DEF Later, Malformed
<1>3. Opened(d) => d < MaxDepth
  BY DEF Opened
<1> QED
  BY <1>1, <1>2, <1>3, SkipValueIs

\* So does the rest of an array,
LEMMA ElementsDepend ==
  ASSUME Readable, NEW g \in Cursors, NEW h, NEW p \in 1 .. Ended,
         NEW d \in 0 .. MaxDepth, Agree(g, h, <<"elements", p, d>>)
  PROVE  /\ SkipElements(g, document, p, d) \in Later(p)
         /\ SkipElements(g, document, p, d) = SkipElements(h, document, p, d)
<1>0. Len(document) \in Nat /\ Ended = Len(document) + 1 /\ MaxDepth \in Nat
  BY RegistrationLimits DEF Readable, Ended
<1>1. Rank(<<"elements", p, d>>) = 2 * (Ended - p) + 1
  BY SkipsIs
<1> DEFINE q == g[<<"value", p, d>>]
<1>2. q \in Later(p) /\ q = h[<<"value", p, d>>]
  <2>1. /\ <<"value", p, d>> \in Skips(document) /\ Rank(<<"value", p, d>>) = 2 * (Ended - p)
        /\ q \in Later(p)
    BY SkipsIs
  <2>2. 2 * (Ended - p) < 2 * (Ended - p) + 1
    BY <1>0
  <2> QED
    BY <1>1, <2>1, <2>2 DEF Agree
<1> HIDE DEF q
<1>3. ASSUME NEW C, At(document, q, C)
      PROVE  /\ q \in 1 .. Len(document) /\ q + 1 \in Later(p)
             /\ g[<<"elements", q + 1, d>>] \in Later(p)
             /\ g[<<"elements", q + 1, d>>] = h[<<"elements", q + 1, d>>]
  <2>1. q \in 1 .. Len(document) /\ q > p /\ q + 1 \in 1 .. Ended
    BY <1>0, <1>2, <1>3, AtIs DEF Later
  <2>2. /\ <<"elements", q + 1, d>> \in Skips(document)
        /\ Rank(<<"elements", q + 1, d>>) = 2 * (Ended - (q + 1)) + 1
        /\ g[<<"elements", q + 1, d>>] \in Later(q + 1)
    BY <2>1, SkipsIs
  <2>3. 2 * (Ended - (q + 1)) + 1 < 2 * (Ended - p) + 1
    BY <1>0, <2>1
  <2>4. g[<<"elements", q + 1, d>>] = h[<<"elements", q + 1, d>>]
    BY <1>1, <2>2, <2>3 DEF Agree
  <2>5. \A e \in Later(q + 1) : e \in Later(p)
    BY <1>0, <2>1 DEF Later
  <2>6. q + 1 \in Later(p)
    BY <1>0, <2>1 DEF Later
  <2> QED
    BY <2>1, <2>2, <2>4, <2>5, <2>6, Zenon
<1>4. Malformed \in Later(p)
  BY <1>0 DEF Later, Malformed
<1> QED
  BY <1>2, <1>3, <1>4, SkipElementsIs DEF q

\* and the rest of an object,
LEMMA MembersDepend ==
  ASSUME Readable, NEW g \in Cursors, NEW h, NEW p \in 1 .. Ended,
         NEW d \in 0 .. MaxDepth, Agree(g, h, <<"members", p, d>>)
  PROVE  /\ SkipMembers(g, document, p, d) \in Later(p)
         /\ SkipMembers(g, document, p, d) = SkipMembers(h, document, p, d)
<1>0. Len(document) \in Nat /\ Ended = Len(document) + 1 /\ MaxDepth \in Nat
  BY RegistrationLimits DEF Readable, Ended
<1>1. Rank(<<"members", p, d>>) = 2 * (Ended - p) + 1
  BY SkipsIs
<1> DEFINE key == At(document, p, Strings) /\ At(document, p + 1, {":"})
           q == IF key THEN g[<<"value", p + 2, d>>] ELSE Malformed
<1>2. q \in Later(p) /\ q = IF key THEN h[<<"value", p + 2, d>>] ELSE Malformed
  <2>1. CASE key
    <3>1. p + 2 \in 1 .. Ended
      BY <1>0, <2>1, AtIs
    <3>2. /\ <<"value", p + 2, d>> \in Skips(document)
          /\ Rank(<<"value", p + 2, d>>) = 2 * (Ended - (p + 2))
          /\ g[<<"value", p + 2, d>>] \in Later(p + 2)
      BY <3>1, SkipsIs
    <3>3. 2 * (Ended - (p + 2)) < 2 * (Ended - p) + 1
      BY <1>0
    <3>4. g[<<"value", p + 2, d>>] = h[<<"value", p + 2, d>>]
      BY <1>1, <3>2, <3>3 DEF Agree
    <3>5. \A e \in Later(p + 2) : e \in Later(p)
      BY <1>0 DEF Later
    <3> QED
      BY <2>1, <3>2, <3>4, <3>5
  <2>2. CASE ~key
    BY <1>0, <2>2 DEF Later, Malformed
  <2> QED
    BY <2>1, <2>2
<1> HIDE DEF q
<1>3. ASSUME NEW C, At(document, q, C)
      PROVE  /\ q \in 1 .. Len(document) /\ q + 1 \in Later(p)
             /\ g[<<"members", q + 1, d>>] \in Later(p)
             /\ g[<<"members", q + 1, d>>] = h[<<"members", q + 1, d>>]
  <2>1. q \in 1 .. Len(document) /\ q > p /\ q + 1 \in 1 .. Ended
    BY <1>0, <1>2, <1>3, AtIs DEF Later
  <2>2. /\ <<"members", q + 1, d>> \in Skips(document)
        /\ Rank(<<"members", q + 1, d>>) = 2 * (Ended - (q + 1)) + 1
        /\ g[<<"members", q + 1, d>>] \in Later(q + 1)
    BY <2>1, SkipsIs
  <2>3. 2 * (Ended - (q + 1)) + 1 < 2 * (Ended - p) + 1
    BY <1>0, <2>1
  <2>4. g[<<"members", q + 1, d>>] = h[<<"members", q + 1, d>>]
    BY <1>1, <2>2, <2>3 DEF Agree
  <2>5. \A e \in Later(q + 1) : e \in Later(p)
    BY <1>0, <2>1 DEF Later
  <2>6. q + 1 \in Later(p)
    BY <1>0, <2>1 DEF Later
  <2> QED
    BY <2>1, <2>2, <2>4, <2>5, <2>6, Zenon
<1>4. Malformed \in Later(p)
  BY <1>0 DEF Later, Malformed
<1> QED
  BY <1>2, <1>3, <1>4, SkipMembersIs DEF q

\* hence whatever the cursor is asked.
LEMMA BodyDepends ==
  ASSUME Readable, NEW g \in Cursors, NEW h, NEW s \in Skips(document), Agree(g, h, s)
  PROVE  Body(g, s) \in Later(s[2]) /\ Body(g, s) = Body(h, s)
<1>1. PICK kind \in {"value", "elements", "members"}, p \in 1 .. Ended, d \in 0 .. MaxDepth :
        s = <<kind, p, d>>
  BY DEF Skips, Ended
<1>2. s[1] = kind /\ s[2] = p /\ s[3] = d
  BY <1>1
<1>3. CASE kind = "value"
  <2>1. /\ SkipValue(g, document, p, d) \in Later(p)
        /\ SkipValue(g, document, p, d) = SkipValue(h, document, p, d)
    BY <1>1, <1>3, ValueDepends
  <2> QED
    BY <1>2, <1>3, <2>1 DEF Body
<1>4. CASE kind = "elements"
  <2>1. /\ SkipElements(g, document, p, d) \in Later(p)
        /\ SkipElements(g, document, p, d) = SkipElements(h, document, p, d)
    BY <1>1, <1>4, ElementsDepend
  <2> QED
    BY <1>2, <1>4, <2>1 DEF Body
<1>5. CASE kind = "members"
  <2>1. /\ SkipMembers(g, document, p, d) \in Later(p)
        /\ SkipMembers(g, document, p, d) = SkipMembers(h, document, p, d)
    BY <1>1, <1>5, MembersDepend
  <2> QED
    BY <1>2, <1>5, <2>1 DEF Body
<1> QED
  BY <1>3, <1>4, <1>5

\* The positions JsonCursor ends at exist, and each follows from the ones it calls for.
LEMMA EndsExist ==
  ASSUME Readable
  PROVE  Ends(document) \in Cursors /\ \A s \in Skips(document) : Ends(document)[s] =
           Body(Ends(document), s)
<1>0. Len(document) \in Nat /\ Ended = Len(document) + 1
  BY DEF Readable, Ended
<1> DEFINE D == Skips(document)
           rank == [s \in D |-> Rank(s)]
           B == [g \in Cursors |-> [s \in D |-> Body(g, s)]]
<1>1. \A s \in D : s[2] \in 1 .. Ended /\ rank[s] \in Nat /\ rank[s] < 2 * Ended + 2
  <2> SUFFICES ASSUME NEW s \in D PROVE s[2] \in 1 .. Ended /\ Rank(s) \in Nat
                        /\ Rank(s) < 2 * Ended + 2
    OBVIOUS
  <2>1. PICK kind \in {"value", "elements", "members"}, p \in 1 .. Ended, d \in 0 .. MaxDepth :
          s = <<kind, p, d>>
    BY DEF Skips, Ended
  <2>2. /\ Rank(<<kind, p, d>>) \in Nat /\ Rank(<<kind, p, d>>) < 2 * Ended + 2
        /\ <<kind, p, d>>[2] = p
    BY SkipsIs
  <2> QED
    BY <2>1, <2>2
<1>2. Cursors # {}
  <2>1. \A p \in 1 .. Ended : 0 \in Later(p)
    BY <1>0 DEF Later
  <2>2. [s \in D |-> 0] \in Cursors
    BY <1>0, <1>1, <2>1 DEF Cursors
  <2> QED
    BY <2>2
<1>3. ASSUME NEW g \in Cursors PROVE B[g] \in Cursors
  <2>1. \A s \in D : Agree(g, g, s)
    BY DEF Agree
  <2>2. \A s \in D : Body(g, s) \in Later(s[2])
    BY <2>1, BodyDepends
  <2>3. \A p : Later(p) \subseteq 0 .. Ended
    BY DEF Later
  <2>4. [s \in D |-> Body(g, s)] \in Cursors
    BY <2>2, <2>3, Zenon DEF Cursors
  <2> QED
    BY <2>4
<1>4. ASSUME NEW g \in Cursors, NEW h \in Cursors, NEW s \in D,
             \A t \in D : rank[t] < rank[s] => g[t] = h[t]
      PROVE  B[g][s] = B[h][s]
  <2>1. Agree(g, h, s)
    BY <1>4 DEF Agree
  <2>2. Body(g, s) = Body(h, s)
    BY <2>1, BodyDepends
  <2>3. \A k \in Cursors : B[k] = [t \in D |-> Body(k, t)]
    BY Zenon
  <2>4. \A k \in Cursors : B[k][s] = Body(k, s)
    <3> HIDE DEF B, D
    <3> QED
      BY <2>3, Zenon
  <2> HIDE DEF B
  <2> QED
    BY <2>2, <2>4, Zenon
<1> DEFINE M == 2 * Ended + 2
<1>5. Ranked(D, rank, M)
  BY <1>0, <1>1 DEF Ranked
<1> HIDE DEF M
<1>6. \E f \in Cursors : \A s \in D : f[s] = B[f][s]
  <2> HIDE DEF D, rank, B
  <2>1. Contracts(D, rank, Cursors, B)
    BY <1>2, <1>3, <1>4, Zenon DEF Contracts, Same
  <2> QED
    BY <1>5, <2>1, FixedPoint
<1>7. \E f \in Cursors : f = [s \in D |-> Body(f, s)]
  <2>1. PICK f \in Cursors : \A s \in D : f[s] = B[f][s]
    BY <1>6
  <2>2. f = [s \in D |-> f[s]]
    BY DEF Cursors
  <2>3. \A s \in D : f[s] = Body(f, s)
    BY <2>1
  <2> QED
    BY <2>2, <2>3
<1> DEFINE F == CHOOSE f : f = [s \in D |-> Body(f, s)]
<1>8. Ends(document) = F
  BY Zenon DEF Ends, Body
<1>9. F = [s \in D |-> Body(F, s)]
  BY <1>7
<1>10. F \in Cursors
  <2>1. PICK g \in Cursors : g = [s \in D |-> Body(g, s)]
    BY <1>7
  <2>2. ASSUME NEW s \in D, \A t \in D : rank[t] < rank[s] => F[t] = g[t] PROVE F[s] = g[s]
    <3>1. Agree(g, F, s)
      BY <2>2 DEF Agree
    <3>2. Body(g, s) = Body(F, s)
      BY <3>1, BodyDepends
    <3> QED
      BY <1>9, <2>1, <3>2
  <2>3. \A s \in D : F[s] = g[s]
    <3> HIDE DEF D, rank, F
    <3>1. SameByRank(D, rank, F, g)
      BY <2>2, Zenon DEF SameByRank, Same
    <3> QED
      BY <1>5, <3>1, EqualByRank
  <2>4. F = [s \in D |-> F[s]] /\ g = [s \in D |-> g[s]]
    BY <1>9, <2>1
  <2> HIDE DEF F
  <2> QED
    BY <2>1, <2>3, <2>4
<1> QED
  BY <1>8, <1>9, <1>10

(***************************************************************************)
(* Values, elements and members, token by token.                           *)
(***************************************************************************)
First(o) == IF document[o] = Brace THEN Strings ELSE Values
Close(o) == IF document[o] = Brace THEN EndBrace ELSE "]"

Sound(i) == Fits(i) /\ (document[i] \in Openers => Level(i) <= MaxDepth)

\* A value begins at p and ends before q.
ValueAt(p, q) ==
  /\ p \in 1 .. Len(document) /\ document[p] \in Values
  /\ document[p] \in Openers => Level(p) <= MaxDepth
  /\ q \in p + 1 .. Ended /\ Level(q) = Level(p)
  /\ \A i \in p + 1 .. q - 1 : Level(i) > Level(p) /\ Sound(i)

\* So does an element of the container that opens at o, or a member.
PartAt(o, p, q) ==
  IF document[o] = Brace
  THEN document[p] \in Strings /\ document[p + 1] = ":" /\ ValueAt(p + 2, q)
  ELSE ValueAt(p, q)

\* So does what is left of the container, its end included.
RestAt(o, p, q) ==
  /\ p \in 1 .. Len(document) /\ document[p] \in First(o)
  /\ q \in p + 1 .. Ended /\ Level(q) = Level(o)
  /\ \A i \in p .. q - 1 : Level(i) > Level(o) /\ Sound(i)

\* FitsElement and FitsMember in one.
LEMMA FitsStart ==
  ASSUME Readable, NEW o, NEW p, Starts(o, p)
  PROVE  /\ document[p] \in First(o) => Fits(p)
         /\ p = o + 1 /\ document[p] = Close(o) => Fits(p)
         /\ Fits(p) => document[p] \in First(o) \/ (p = o + 1 /\ document[p] = Close(o))
<1>1. /\ Inside(o, p) /\ (p = o + 1 => p - 1 = o) /\ document[o] \in Openers
  <2>1. Inside(o, p)
    BY DEF Starts
  <2> QED
    BY <2>1, InsideRange, Zenon DEF Inside
<1>2. CASE document[o] = Brace
  BY <1>1, <1>2, FitsMember, FitsObject DEF First, Close
<1>3. CASE document[o] = "["
  BY <1>1, <1>3, FitsElement, FitsArray, MarksApart DEF First, Close
<1> QED
  BY <1>1, <1>2, <1>3, TokensApart DEF Brace

\* Where a token that is no bracket is followed by another.
LEMMA InsideNext ==
  ASSUME Readable, NEW o, NEW p, Inside(o, p), document[p] \notin Openers \cup Closers,
         p + 1 \in 1 .. Len(document)
  PROVE  Inside(o, p + 1) /\ Level(p + 1) = Level(p)
<1>1. /\ Len(document) \in Nat /\ o \in Int /\ p \in Int /\ p \in 1 .. Len(document) /\ p > o
      /\ o \in 1 .. Len(document)
  BY InsideRange
<1>2. Level(p + 1) = Level(p)
  BY <1>1, LevelStep
<1> QED
  BY <1>1, <1>2 DEF Inside

\* A part of a container and what lies between them leave the next token inside it.
LEMMA InsideAfter ==
  ASSUME Readable, NEW o, NEW p, Inside(o, p), NEW r \in p .. Len(document), Level(r) = Level(p),
         \A i \in p .. r - 1 : Level(i) > Level(o)
  PROVE  Inside(o, r)
<1>1. Len(document) \in Nat /\ o \in Int /\ p \in Int /\ p > o /\ r \in Int /\ Level(o) \in Int
  BY InsideRange, LevelInt
<1>2. Level(p) = Level(o) + 1
  BY DEF Inside
<1> QED
  BY <1>1, <1>2 DEF Inside

\* How a value ends.
LEMMA ValueEnds ==
  ASSUME Readable, NEW p, NEW q, ValueAt(p, q)
  PROVE  /\ document[q - 1] \in Simple \cup Closers
         /\ document[q - 1] \in Strings => q - 1 = p
         /\ document[p] \in Simple => q = p + 1
<1>1. Len(document) \in Nat /\ Ended = Len(document) + 1 /\ p \in 1 .. Len(document)
        /\ q \in p + 1 .. Ended
  BY DEF Readable, Ended, ValueAt
<1>2. Level(p) \in Int /\ Level(q) = Level(p) /\ \A i \in p + 1 .. q - 1 : Level(i) > Level(p)
  BY <1>1, LevelInt DEF ValueAt, Ended
<1>3. CASE document[p] \in Simple
  <2>1. Level(p + 1) = Level(p)
    BY <1>1, <1>3, LevelStep, TokensApart
  <2>2. q = p + 1
    BY <1>1, <1>2, <2>1
  <2> QED
    BY <1>1, <1>3, <2>2
<1>4. CASE document[p] \in Openers
  <2>1. Level(p + 1) = Level(p) + 1
    BY <1>1, <1>4, LevelStep
  <2>2. q # p + 1
    BY <1>2, <2>1
  <2>3. PICK r \in 1 .. Len(document) : r = q - 1 /\ r + 1 = q /\ r \in p + 1 .. q - 1
    BY <1>1, <2>2
  <2>4. Level(r) > Level(p) /\ Level(r + 1) = Level(p)
    BY <1>2, <2>3
  <2>5. document[r] \in Closers
    BY <1>2, <2>4, LevelTurns
  <2>6. document[r] \notin Strings /\ document[p] \notin Simple
    BY <1>4, <2>5, TokensApart
  <2> QED
    BY <2>3, <2>5, <2>6
<1> QED
  BY <1>3, <1>4, TokensApart DEF ValueAt

\* A value ends before the container around it does.
LEMMA ValueExists ==
  ASSUME Readable, NEW p \in 1 .. Len(document), document[p] \in Values,
         NEW e \in p + 1 .. Ended, Level(e) < Level(p), \A i \in p .. e - 1 : Sound(i)
  PROVE  \E r \in p + 1 .. e - 1 : ValueAt(p, r)
<1>1. Len(document) \in Nat /\ Ended = Len(document) + 1 /\ Level(p) \in Int /\ Level(e) \in Int
  <2>1. Len(document) \in Nat /\ Ended = Len(document) + 1
    BY DEF Readable, Ended
  <2> QED
    BY <2>1, LevelInt
<1>2. Sound(p)
  BY <1>1
<1>3. CASE document[p] \in Simple
  <2>1. Level(p + 1) = Level(p) /\ document[p] \notin Openers
    BY <1>1, <1>3, LevelStep, TokensApart
  <2>2. p + 1 # e /\ p + 1 \in p + 1 .. e - 1
    BY <1>1, <2>1
  <2>3. ValueAt(p, p + 1)
    BY <1>1, <2>1, <2>2 DEF ValueAt
  <2> QED
    BY <2>2, <2>3
<1>4. CASE document[p] \in Openers
  <2>1. PICK r \in p + 2 .. e : Level(r) = Level(p) /\ \A i \in p + 1 .. r - 1 : Level(i) > Level(p)
    <3>1. Level(e) <= Level(p)
      BY <1>1
    <3> QED
      BY <1>4, <3>1, Falls
  <2>2. r # e /\ r \in p + 1 .. e - 1
    BY <1>1, <2>1
  <2>3. ValueAt(p, r)
    BY <1>1, <1>2, <2>1, <2>2 DEF ValueAt, Sound
  <2> QED
    BY <2>2, <2>3
<1> QED
  BY <1>3, <1>4, TokensApart

\* Where an element or a member can start.
LEMMA StartsRange ==
  ASSUME Readable, NEW o, NEW p, Starts(o, p)
  PROVE  /\ Inside(o, p) /\ Len(document) \in Nat /\ Ended = Len(document) + 1
         /\ o \in 1 .. Len(document) /\ p \in 1 .. Len(document) /\ p > o
         /\ Level(p) = Level(o) + 1 /\ Level(o) \in Int /\ document[o] \in Openers
<1>1. Inside(o, p)
  BY DEF Starts
<1>2. /\ Len(document) \in Nat /\ Ended = Len(document) + 1
      /\ o \in 1 .. Len(document) /\ p \in 2 .. Len(document) /\ p > o
  BY <1>1, InsideRange
<1>3. o \in 1 .. Ended
  BY <1>2
<1>4. Level(o) \in Int
  BY <1>3, LevelInt
<1>5. Level(p) = Level(o) + 1 /\ document[o] \in Openers
  BY <1>1 DEF Inside
<1> QED
  BY <1>1, <1>2, <1>4, <1>5

\* What lies between the ends of an element or of a member is sound.
LEMMA PartIsSound ==
  ASSUME Readable, NEW o, NEW p, NEW q, Starts(o, p), PartAt(o, p, q)
  PROVE  /\ p \in 1 .. Len(document) /\ document[p] \in First(o)
         /\ q \in p + 1 .. Ended /\ Level(q) = Level(p)
         /\ \A i \in p .. q - 1 : Level(i) > Level(o) /\ Sound(i)
         /\ document[q - 1] \in Simple \cup Closers
         /\ document[o] = Brace /\ document[q - 1] \in Strings => document[q - 2] = ":"
<1>1. /\ Inside(o, p) /\ Len(document) \in Nat /\ Ended = Len(document) + 1
      /\ o \in 1 .. Len(document) /\ p \in 1 .. Len(document) /\ p > o
      /\ Level(p) = Level(o) + 1 /\ Level(o) \in Int
  BY StartsRange
<1>2. CASE document[o] = Brace
  <2>1. document[p] \in Strings /\ document[p + 1] = ":" /\ ValueAt(p + 2, q)
    BY <1>2 DEF PartAt
  <2>2. p + 2 \in 1 .. Len(document) /\ p + 1 \in 1 .. Len(document) /\ (p + 1) + 1 = p + 2
    BY <1>1, <2>1 DEF ValueAt
  <2>3. document[p] \notin Openers \cup Closers /\ document[p + 1] \notin Openers \cup Closers
    BY <2>1, TokensApart
  <2>4. Inside(o, p + 1) /\ Level(p + 1) = Level(p)
    BY <1>1, <2>2, <2>3, InsideNext
  <2>5. Inside(o, p + 2) /\ Level(p + 2) = Level(p)
    BY <2>2, <2>3, <2>4, InsideNext
  <2>6. Fits(p) /\ Fits(p + 1)
    BY <1>2, <2>1, <2>4, FitsMember, FitsColon
  <2>7. document[(p + 2) - 1] = ":" /\ document[p + 2] \in Values
    BY <1>1, <2>1 DEF ValueAt
  <2>8. Fits(p + 2)
    BY <1>2, <2>5, <2>7, FitsMemberValue
  <2>9. Sound(p) /\ Sound(p + 1) /\ Sound(p + 2)
    <3>1. document[p + 2] \in Openers => Level(p + 2) <= MaxDepth
      BY <2>1 DEF ValueAt
    <3> QED
      BY <2>3, <2>6, <2>8, <3>1 DEF Sound
  <2>10. q \in p + 3 .. Ended /\ Level(q) = Level(p)
    BY <1>1, <2>1, <2>5 DEF ValueAt
  <2>11. \A i \in p .. q - 1 : Level(i) > Level(o) /\ Sound(i)
    <3> SUFFICES ASSUME NEW i \in p .. q - 1 PROVE Level(i) > Level(o) /\ Sound(i)
      OBVIOUS
    <3>1. CASE i \in {p, p + 1, p + 2}
      BY <1>1, <2>4, <2>5, <2>9, <3>1
    <3>2. CASE i \in (p + 2) + 1 .. q - 1
      <4>1. Level(i) > Level(p + 2) /\ Sound(i) /\ Level(i) \in Int
        BY <1>1, <2>1, <2>10, <3>2, LevelInt DEF ValueAt
      <4> QED
        BY <1>1, <2>5, <4>1
    <3> QED
      BY <1>1, <2>10, <3>1, <3>2
  <2>12. /\ document[q - 1] \in Simple \cup Closers
         /\ document[q - 1] \in Strings => q - 1 = p + 2
    BY <2>1, ValueEnds
  <2>13. q - 1 = p + 2 => q - 2 = p + 1
    BY <1>1, <2>10
  <2>14. document[p] \in First(o)
    BY <1>2, <2>1 DEF First
  <2>15. q \in p + 1 .. Ended
    BY <1>1, <2>10
  <2> QED
    BY <1>1, <2>1, <2>10, <2>11, <2>12, <2>13, <2>14, <2>15
<1>3. CASE document[o] # Brace
  <2>1. ValueAt(p, q)
    BY <1>3 DEF PartAt
  <2>2. document[p] \in First(o)
    BY <1>3, <2>1 DEF First, ValueAt
  <2>3. Fits(p)
    BY <2>2, FitsStart
  <2>4. Sound(p)
    BY <2>1, <2>3 DEF Sound, ValueAt
  <2>5. q \in p + 1 .. Ended /\ Level(q) = Level(p)
    BY <2>1 DEF ValueAt
  <2>6. \A i \in p .. q - 1 : Level(i) > Level(o) /\ Sound(i)
    <3> SUFFICES ASSUME NEW i \in p .. q - 1 PROVE Level(i) > Level(o) /\ Sound(i)
      OBVIOUS
    <3>1. CASE i = p
      BY <1>1, <2>4, <3>1
    <3>2. CASE i \in p + 1 .. q - 1
      <4>1. Level(i) > Level(p) /\ Sound(i) /\ Level(i) \in Int
        BY <1>1, <2>1, <2>5, <3>2, LevelInt DEF ValueAt
      <4> QED
        BY <1>1, <4>1
    <3> QED
      BY <1>1, <2>5, <3>1, <3>2
  <2>7. document[q - 1] \in Simple \cup Closers
    BY <2>1, ValueEnds
  <2> QED
    BY <1>1, <1>3, <2>2, <2>5, <2>6, <2>7
<1> QED
  BY <1>2, <1>3

\* What follows a part of a container.
LEMMA AfterPart ==
  ASSUME Readable, NEW o, NEW p, NEW r, Starts(o, p), PartAt(o, p, r), r \in 1 .. Len(document)
  PROVE  Inside(o, r) /\ (Fits(r) <=> document[r] \in {Comma, Close(o)})
<1>1. /\ p \in 1 .. Len(document) /\ r \in p + 1 .. Ended /\ Level(r) = Level(p)
      /\ \A i \in p .. r - 1 : Level(i) > Level(o)
      /\ document[r - 1] \in Simple \cup Closers
      /\ document[o] = Brace /\ document[r - 1] \in Strings => document[r - 2] = ":"
  BY PartIsSound
<1>2. Inside(o, p) /\ document[o] \in Openers
  BY DEF Starts, Inside
<1>3. r \in p .. Len(document)
  BY <1>1
<1>4. Inside(o, r)
  BY <1>1, <1>2, <1>3, InsideAfter
<1>5. CASE document[o] = Brace
  BY <1>1, <1>4, <1>5, FitsAfterMember DEF Close
<1>6. CASE document[o] = "["
  BY <1>1, <1>4, <1>6, FitsAfterElement, MarksApart DEF Close
<1> QED
  BY <1>2, <1>4, <1>5, <1>6, TokensApart DEF Brace

\* The rest of a container begins with a part.
LEMMA PartExists ==
  ASSUME Readable, NEW o, NEW p, NEW q, Starts(o, p), RestAt(o, p, q)
  PROVE  \E r \in p + 1 .. q - 1 : PartAt(o, p, r)
<1>1. /\ Inside(o, p) /\ Len(document) \in Nat /\ Ended = Len(document) + 1
      /\ o \in 1 .. Len(document) /\ p \in 1 .. Len(document) /\ p > o
      /\ Level(p) = Level(o) + 1 /\ Level(o) \in Int
  BY StartsRange
<1>2. /\ q \in p + 1 .. Ended /\ Level(q) = Level(o) /\ document[p] \in First(o)
      /\ \A i \in p .. q - 1 : Level(i) > Level(o) /\ Sound(i)
  BY DEF RestAt
<1>3. CASE document[o] = Brace
  <2>1. document[p] \in Strings /\ document[p] \notin Openers \cup Closers
    BY <1>2, <1>3, TokensApart DEF First
  <2>2. Level(p + 1) = Level(p)
    BY <1>1, <2>1, LevelStep
  <2>3. p + 1 # q /\ p + 1 \in p .. q - 1 /\ p + 1 \in 1 .. Len(document) /\ (p + 1) + 1 = p + 2
    BY <1>1, <1>2, <2>2
  <2>4. Inside(o, p + 1)
    BY <1>1, <2>1, <2>3, InsideNext
  <2>5. Fits(p + 1)
    BY <1>2, <2>3 DEF Sound
  <2>6. document[p + 1] = ":"
    BY <1>3, <2>1, <2>4, <2>5, FitsColon
  <2>7. document[p + 1] \notin Openers \cup Closers
    BY <2>6, TokensApart
  <2>8. Level(p + 2) = Level(p)
    BY <2>2, <2>3, <2>7, LevelStep
  <2>9. p + 2 # q /\ p + 2 \in p .. q - 1 /\ p + 2 \in 1 .. Len(document) /\ (p + 2) - 1 = p + 1
    BY <1>1, <1>2, <2>3, <2>8
  <2>10. Inside(o, p + 2) /\ Fits(p + 2)
    BY <1>2, <2>3, <2>4, <2>7, <2>9, InsideNext DEF Sound
  <2>11. document[p + 2] \in Values
    BY <1>3, <2>6, <2>9, <2>10, FitsMemberValue
  <2>12. PICK r \in (p + 2) + 1 .. q - 1 : ValueAt(p + 2, r)
    <3>1. q \in (p + 2) + 1 .. Ended /\ Level(q) < Level(p + 2)
            /\ \A i \in p + 2 .. q - 1 : Sound(i)
      BY <1>1, <1>2, <2>8, <2>9
    <3> QED
      BY <2>9, <2>11, <3>1, ValueExists
  <2>13. r \in p + 1 .. q - 1
    BY <1>1, <1>2
  <2> QED
    BY <1>3, <2>1, <2>6, <2>12, <2>13 DEF PartAt
<1>4. CASE document[o] # Brace
  <2>1. document[p] \in Values
    BY <1>2, <1>4 DEF First
  <2>2. PICK r \in p + 1 .. q - 1 : ValueAt(p, r)
    BY <1>1, <1>2, <2>1, ValueExists
  <2> QED
    BY <1>4, <2>2 DEF PartAt
<1> QED
  BY <1>3, <1>4

(***************************************************************************)
(* What JsonCursor reads.                                                  *)
(***************************************************************************)
End(kind, p, d) == Ends(document)[<<kind, p, d>>]
RestOf(o) == IF document[o] = Brace THEN "members" ELSE "elements"

\* Where the part of a container that begins at p ends, at a depth.
PartEnd(o, p, d) ==
  IF document[o] = Brace
  THEN IF At(document, p, Strings) /\ At(document, p + 1, {":"}) THEN End("value", p + 2, d)
       ELSE Malformed
  ELSE End("value", p, d)

\* The cursor's function is what its definition says.
LEMMA EndBody ==
  ASSUME Readable, NEW kind \in {"value", "elements", "members"}, NEW p \in 1 .. Ended,
         NEW d \in 0 .. MaxDepth
  PROVE  /\ End(kind, p, d) \in Later(p)
         /\ kind = "value" => End(kind, p, d) = SkipValue(Ends(document), document, p, d)
         /\ kind = "elements" => End(kind, p, d) = SkipElements(Ends(document), document, p, d)
         /\ kind = "members" => End(kind, p, d) = SkipMembers(Ends(document), document, p, d)
<1> DEFINE s == <<kind, p, d>>
<1>1. s \in Skips(document) /\ s[1] = kind /\ s[2] = p /\ s[3] = d
  BY SkipsIs
<1>2. Ends(document) \in Cursors /\ \A t \in Skips(document) : Ends(document)[t] =
        Body(Ends(document), t)
  BY EndsExist
<1>3. Ends(document)[s] \in Later(p)
  BY <1>2, SkipsIs
<1> HIDE DEF s
<1>4. End(kind, p, d) = Body(Ends(document), s)
  BY <1>1, <1>2 DEF End, s
<1> QED
  BY <1>1, <1>3, <1>4 DEF Body, End, s

\* What skipValue() returns, by the token it meets.
LEMMA EndValue ==
  ASSUME Readable, NEW p \in 1 .. Ended, NEW d \in 0 .. MaxDepth
  PROVE  /\ p \in 1 .. Len(document) /\ document[p] \in Simple => End("value", p, d) = p + 1
         /\ ~(p \in 1 .. Len(document) /\ document[p] \in Values) => End("value", p, d) = Malformed
         /\ p \in 1 .. Len(document) /\ document[p] \in Openers =>
              End("value", p, d) =
                IF ~Opened(d) THEN Malformed
                ELSE IF At(document, p + 1, {Close(p)}) THEN p + 2
                ELSE End(RestOf(p), p + 1, d + 1)
<1>1. /\ "value" \in {"value", "elements", "members"}
      /\ \A C : At(document, p, C) <=> p \in 1 .. Len(document) /\ document[p] \in C
  BY AtIs
<1>2. End("value", p, d) =
        IF At(document, p, Simple) THEN p + 1
        ELSE IF At(document, p, {"["}) /\ Opened(d)
             THEN IF At(document, p + 1, {"]"}) THEN p + 2 ELSE End("elements", p + 1, d + 1)
        ELSE IF At(document, p, {Brace}) /\ Opened(d)
             THEN IF At(document, p + 1, {EndBrace}) THEN p + 2 ELSE End("members", p + 1, d + 1)
        ELSE Malformed
  <2>1. End("value", p, d) = SkipValue(Ends(document), document, p, d)
    BY EndBody
  <2> QED
    BY <2>1, SkipValueIs, Zenon DEF End
<1>3. /\ document[p] \in Simple => document[p] \notin Openers
      /\ document[p] \in Openers <=> document[p] = Brace \/ document[p] = "["
      /\ document[p] \in Values <=> document[p] \in Simple \/ document[p] \in Openers
  BY Zenon, TokensApart DEF Brace
<1>4. CASE ~(p \in 1 .. Len(document) /\ document[p] \in Values)
  <2>1. document[p] \in {"["} => document[p] \in Values
    BY <1>3
  <2>2. document[p] \in {Brace} => document[p] \in Values
    BY <1>3
  <2>3. ~At(document, p, Simple) /\ ~At(document, p, {"["}) /\ ~At(document, p, {Brace})
    BY <1>1, <1>3, <1>4, <2>1, <2>2, Zenon
  <2>4. End("value", p, d) = Malformed
    BY <1>2, <2>3, Zenon
  <2> QED
    BY <1>3, <1>4, <2>4, Zenon
<1>5. CASE p \in 1 .. Len(document) /\ document[p] \in Simple
  <2>1. At(document, p, Simple)
    BY <1>1, <1>5, Zenon
  <2> QED
    BY <1>2, <1>3, <1>5, <2>1, Zenon
<1>6. CASE p \in 1 .. Len(document) /\ document[p] = "["
  <2>1. document[p] # Brace /\ document[p] \notin Simple
    BY <1>3, <1>6, MarksApart
  <2>2. ~At(document, p, Simple) /\ At(document, p, {"["}) /\ ~At(document, p, {Brace})
    BY <1>1, <1>6, <2>1
  <2>3. Close(p) = "]" /\ RestOf(p) = "elements"
    BY <2>1 DEF Close, RestOf
  <2> QED
    BY <1>2, <1>3, <1>6, <2>1, <2>2, <2>3, Zenon
<1>7. CASE p \in 1 .. Len(document) /\ document[p] = Brace
  <2>1. document[p] # "[" /\ document[p] \notin Simple
    BY <1>3, <1>7, MarksApart
  <2>2. ~At(document, p, Simple) /\ ~At(document, p, {"["}) /\ At(document, p, {Brace})
    BY <1>1, <1>7, <2>1
  <2>3. Close(p) = EndBrace /\ RestOf(p) = "members"
    BY <1>7 DEF Close, RestOf
  <2> QED
    BY <1>2, <1>3, <1>7, <2>1, <2>2, <2>3, Zenon
<1> QED
  BY <1>3, <1>4, <1>5, <1>6, <1>7

\* What the loops of skipArray() and skipObject() return, by what follows the part.
LEMMA EndRest ==
  ASSUME Readable, NEW p \in 1 .. Ended, NEW d \in 0 .. MaxDepth, NEW o
  PROVE  LET r == PartEnd(o, p, d) IN
         End(RestOf(o), p, d) = IF At(document, r, {Close(o)}) THEN r + 1
                                ELSE IF At(document, r, {Comma}) THEN End(RestOf(o), r + 1, d)
                                ELSE Malformed
<1>1. CASE document[o] = Brace
  <2>1. End("members", p, d) = SkipMembers(Ends(document), document, p, d)
    BY EndBody
  <2>2. RestOf(o) = "members" /\ Close(o) = EndBrace
    BY <1>1 DEF RestOf, Close
  <2> DEFINE q == IF At(document, p, Strings) /\ At(document, p + 1, {":"})
                  THEN Ends(document)[<<"value", p + 2, d>>] ELSE Malformed
  <2>3. SkipMembers(Ends(document), document, p, d) =
          IF At(document, q, {EndBrace}) THEN q + 1
          ELSE IF At(document, q, {Comma}) THEN Ends(document)[<<"members", q + 1, d>>]
            ELSE Malformed
    BY SkipMembersIs, Zenon
  <2>4. PartEnd(o, p, d) = q
    BY <1>1, Zenon DEF PartEnd, End
  <2> HIDE DEF q
  <2>5. \A j : End("members", j, d) = Ends(document)[<<"members", j, d>>]
    BY Zenon DEF End
  <2> QED
    BY <2>1, <2>2, <2>3, <2>4, <2>5, Zenon
<1>2. CASE document[o] # Brace
  <2>1. End("elements", p, d) = SkipElements(Ends(document), document, p, d)
    BY EndBody
  <2>2. RestOf(o) = "elements" /\ Close(o) = "]"
    BY <1>2 DEF RestOf, Close
  <2> DEFINE q == Ends(document)[<<"value", p, d>>]
  <2>3. SkipElements(Ends(document), document, p, d) =
          IF At(document, q, {"]"}) THEN q + 1
          ELSE IF At(document, q, {Comma}) THEN Ends(document)[<<"elements", q + 1, d>>]
            ELSE Malformed
    BY SkipElementsIs, Zenon
  <2>4. PartEnd(o, p, d) = q
    BY <1>2, Zenon DEF PartEnd, End
  <2> HIDE DEF q
  <2>5. \A j : End("elements", j, d) = Ends(document)[<<"elements", j, d>>]
    BY Zenon DEF End
  <2> QED
    BY <2>1, <2>2, <2>3, <2>4, <2>5, Zenon
<1> QED
  BY <1>1, <1>2

\* Nothing is read where the document ends.
LEMMA NothingLeft ==
  ASSUME Readable, NEW d \in 0 .. MaxDepth, NEW o
  PROVE  End("value", Ended, d) = Malformed /\ End(RestOf(o), Ended, d) = Malformed
<1>1. Ended \in 1 .. Ended /\ Ended \notin 1 .. Len(document) /\ Malformed \notin 1 .. Len(document)
  BY DEF Readable, Ended, Malformed
<1>2. End("value", Ended, d) = Malformed
  BY <1>1, EndValue
<1>3. PartEnd(o, Ended, d) = Malformed
  BY <1>1, <1>2, AtIs DEF PartEnd
<1>4. \A C : ~At(document, Malformed, C)
  BY <1>1, AtIs
<1>5. End(RestOf(o), Ended, d) = Malformed
  BY <1>1, <1>3, <1>4, EndRest
<1> QED
  BY <1>2, <1>5

\* At p, the cursor ends a value, and the rest of a container, where they end.
ReadsValue(p) ==
  \A d \in 0 .. MaxDepth : Level(p) = d + 1 =>
    \A q : q # Malformed /\ End("value", p, d) = q <=> ValueAt(p, q)

ReadsRest(p) ==
  \A o : \A d \in 0 .. MaxDepth : Starts(o, p) /\ Level(o) = d =>
    \A q : q # Malformed /\ End(RestOf(o), p, d) = q <=> RestAt(o, p, q)

\* The first token in a container.
LEMMA InsideFirst ==
  ASSUME Readable, NEW p \in 1 .. Len(document), document[p] \in Openers,
           p + 1 \in 1 .. Len(document)
  PROVE  Inside(p, p + 1) /\ Starts(p, p + 1) /\ Level(p + 1) = Level(p) + 1
<1>1. Len(document) \in Nat /\ Level(p) \in Int /\ Level(p + 1) = Level(p) + 1
  BY LevelStep DEF Readable
<1>2. Inside(p, p + 1)
  BY <1>1 DEF Inside
<1> QED
  BY <1>1, <1>2 DEF Starts

\* skipValue() on a container, if its rest is read right.
LEMMA ContainerReads ==
  ASSUME Readable, NEW p \in 1 .. Len(document), document[p] \in Openers,
         NEW d \in 0 .. MaxDepth, Level(p) = d + 1,
         p + 1 \in 1 .. Len(document) => ReadsRest(p + 1), NEW q
  PROVE  q # Malformed /\ End("value", p, d) = q <=> ValueAt(p, q)
<1>1. /\ Len(document) \in Nat /\ Ended = Len(document) + 1 /\ MaxDepth \in Nat /\ d \in Nat
      /\ p \in Nat /\ Level(p + 1) = Level(p) + 1 /\ p \in 1 .. Ended /\ p + 1 \in 1 .. Ended
      /\ document[p] \in Values
  BY RegistrationLimits, LevelStep, TokensApart DEF Readable, Ended
<1>2. End("value", p, d) = IF ~Opened(d) THEN Malformed
                           ELSE IF At(document, p + 1, {Close(p)}) THEN p + 2
                           ELSE End(RestOf(p), p + 1, d + 1)
  BY <1>1, EndValue
<1>3. CASE ~Opened(d)
  <2>1. ~(Level(p) <= MaxDepth)
    BY <1>1, <1>3 DEF Opened
  <2> QED
    BY <1>2, <1>3, <2>1 DEF ValueAt
<1>4. CASE Opened(d) /\ p + 1 = Ended
  <2>1. d + 1 \in 0 .. MaxDepth /\ ~At(document, p + 1, {Close(p)})
    BY <1>1, <1>4, AtIs DEF Opened
  <2>2. End("value", p, d) = Malformed
    BY <1>2, <1>4, <2>1, NothingLeft
  <2>3. ~ValueAt(p, q)
    <3>1. SUFFICES ASSUME ValueAt(p, q) PROVE FALSE
      OBVIOUS
    <3>2. q = p + 1
      BY <1>1, <1>4, <3>1 DEF ValueAt
    <3> QED
      BY <1>1, <3>1, <3>2 DEF ValueAt
  <2> QED
    BY <2>2, <2>3
<1>5. CASE Opened(d) /\ p + 1 # Ended
  <2>1. /\ p + 1 \in 1 .. Len(document) /\ d + 1 \in 0 .. MaxDepth /\ Level(p) <= MaxDepth
        /\ (p + 1) + 1 = p + 2
    BY <1>1, <1>5 DEF Opened
  <2>2. Inside(p, p + 1) /\ Starts(p, p + 1)
    BY <2>1, InsideFirst
  <2>3. At(document, p + 1, {Close(p)}) <=> document[p + 1] = Close(p)
    BY <2>1, AtIs
  <2>4. ValueAt(p, q) => q # p + 1
    BY <1>1 DEF ValueAt
  <2>5. CASE document[p + 1] = Close(p)
    <3>1. document[p + 1] \in Closers /\ document[p + 1] \notin Openers
      BY <2>5, TokensApart DEF Close
    <3>2. Level(p + 2) = Level(p)
      BY <1>1, <2>1, <3>1, LevelStep
    <3>3. Fits(p + 1)
      BY <2>2, <2>5, FitsStart
    <3>4. ValueAt(p, p + 2)
      BY <1>1, <2>1, <3>1, <3>2, <3>3 DEF ValueAt, Sound
    <3>5. ValueAt(p, q) => q = p + 2
      <4>1. SUFFICES ASSUME ValueAt(p, q), q # p + 2 PROVE FALSE
        OBVIOUS
      <4>2. q \in p + 1 .. Ended /\ p + 2 \in p + 1 .. q - 1
        BY <1>1, <2>4, <4>1 DEF ValueAt
      <4>3. Level(p + 2) > Level(p)
        BY <4>1, <4>2 DEF ValueAt
      <4> QED
        BY <1>1, <3>2, <4>3
    <3>6. End("value", p, d) = p + 2 /\ p + 2 # Malformed
      BY <1>1, <1>2, <1>5, <2>3, <2>5 DEF Malformed
    <3> QED
      BY <3>4, <3>5, <3>6
  <2>6. CASE document[p + 1] # Close(p)
    <3>1. q # Malformed /\ End(RestOf(p), p + 1, d + 1) = q <=> RestAt(p, p + 1, q)
      BY <2>1, <2>2 DEF ReadsRest
    <3>2. RestAt(p, p + 1, q) => ValueAt(p, q)
      BY <1>1, <2>1 DEF RestAt, ValueAt
    <3>3. ValueAt(p, q) => RestAt(p, p + 1, q)
      <4>1. SUFFICES ASSUME ValueAt(p, q) PROVE RestAt(p, p + 1, q)
        OBVIOUS
      <4>2. p + 1 \in p + 1 .. q - 1 /\ q \in (p + 1) + 1 .. Ended
        BY <1>1, <2>4, <4>1 DEF ValueAt
      <4>3. Fits(p + 1)
        BY <4>1, <4>2 DEF ValueAt, Sound
      <4>4. document[p + 1] \in First(p)
        BY <2>2, <2>6, <4>3, FitsStart
      <4> QED
        BY <2>1, <4>1, <4>2, <4>4 DEF ValueAt, RestAt
    <3> QED
      BY <1>2, <1>5, <2>3, <2>6, <3>1, <3>2, <3>3
  <2> QED
    BY <2>5, <2>6
<1> QED
  BY <1>1, <1>3, <1>4, <1>5

\* skipValue() on any token, likewise.
LEMMA ValueReads ==
  ASSUME Readable, NEW p \in 1 .. Ended, p + 1 \in 1 .. Len(document) => ReadsRest(p + 1)
  PROVE  ReadsValue(p)
<1>1. Len(document) \in Nat /\ Ended = Len(document) + 1
  BY DEF Readable, Ended
<1> SUFFICES ASSUME NEW d \in 0 .. MaxDepth, Level(p) = d + 1, NEW q
             PROVE  q # Malformed /\ End("value", p, d) = q <=> ValueAt(p, q)
  BY DEF ReadsValue
<1>2. CASE ~(p \in 1 .. Len(document) /\ document[p] \in Values)
  <2>1. End("value", p, d) = Malformed
    BY <1>2, EndValue
  <2> QED
    BY <1>2, <2>1 DEF ValueAt
<1>3. CASE p \in 1 .. Len(document) /\ document[p] \in Simple
  <2>1. End("value", p, d) = p + 1 /\ p + 1 # Malformed
    <3>1. End("value", p, d) = p + 1
      BY <1>3, EndValue
    <3> QED
      BY <1>1, <1>3, <3>1 DEF Malformed
  <2>2. Level(p + 1) = Level(p) /\ document[p] \in Values /\ document[p] \notin Openers
    BY <1>3, LevelStep, TokensApart
  <2>3. ValueAt(p, p + 1)
    BY <1>1, <1>3, <2>2 DEF ValueAt
  <2>4. ValueAt(p, q) => q = p + 1
    BY <1>3, ValueEnds
  <2> QED
    BY <2>1, <2>3, <2>4
<1>4. CASE p \in 1 .. Len(document) /\ document[p] \in Openers
  BY <1>4, ContainerReads
<1> QED
  BY <1>2, <1>3, <1>4, TokensApart

\* An element or a member, if the value in it is read right.
LEMMA PartReads ==
  ASSUME Readable, NEW p \in 1 .. Len(document), ReadsValue(p), p + 2 \in 1 .. Len(document)
           => ReadsValue(p + 2),
         NEW o, Starts(o, p), NEW d \in 0 .. MaxDepth, Level(o) = d, NEW r
  PROVE  /\ r # Malformed /\ PartEnd(o, p, d) = r <=> PartAt(o, p, r)
         /\ PartEnd(o, p, d) \in 0 .. Ended
<1>1. /\ Inside(o, p) /\ Len(document) \in Nat /\ Ended = Len(document) + 1
      /\ Level(p) = d + 1 /\ p \in 1 .. Ended
  BY StartsRange
<1>2. CASE document[o] # Brace
  <2>1. End("value", p, d) \in 0 .. Ended
    BY <1>1, EndBody DEF Later
  <2>2. r # Malformed /\ End("value", p, d) = r <=> ValueAt(p, r)
    BY <1>1 DEF ReadsValue
  <2> QED
    BY <1>2, <2>1, <2>2 DEF PartEnd, PartAt
<1>3. CASE document[o] = Brace
  <2> DEFINE key == At(document, p, Strings) /\ At(document, p + 1, {":"})
  <2>1. PartEnd(o, p, d) = IF key THEN End("value", p + 2, d) ELSE Malformed
    BY <1>3 DEF PartEnd
  <2>2. PartAt(o, p, r) <=> document[p] \in Strings /\ document[p + 1] = ":" /\ ValueAt(p + 2, r)
    BY <1>3 DEF PartAt
  <2>3. key <=> document[p] \in Strings /\ p + 1 \in 1 .. Len(document) /\ document[p + 1] = ":"
    BY AtIs
  <2>4. ValueAt(p + 2, r) => p + 2 \in 1 .. Len(document) /\ p + 1 \in 1 .. Len(document)
    BY <1>1 DEF ValueAt
  <2>5. CASE ~key
    BY <1>1, <2>1, <2>2, <2>3, <2>4, <2>5 DEF Malformed
  <2>6. CASE key /\ p + 2 = Ended
    <3>1. End("value", p + 2, d) = Malformed
      BY <2>6, NothingLeft
    <3>2. p + 2 \notin 1 .. Len(document)
      BY <1>1, <2>6
    <3> QED
      BY <1>1, <2>1, <2>2, <2>4, <2>6, <3>1, <3>2 DEF Malformed
  <2>7. CASE key /\ p + 2 # Ended
    <3>1. p + 2 \in 1 .. Len(document) /\ p + 2 \in 1 .. Ended /\ (p + 1) + 1 = p + 2
      BY <1>1, <2>3, <2>7
    <3>2. document[p] \notin Openers \cup Closers /\ document[p + 1] \notin Openers \cup Closers
      BY <2>3, <2>7, TokensApart
    <3>3. Inside(o, p + 1) /\ Level(p + 1) = Level(p)
      BY <1>1, <2>3, <2>7, <3>2, InsideNext
    <3>4. Level(p + 2) = Level(p)
      BY <3>1, <3>2, <3>3, InsideNext
    <3>5. r # Malformed /\ End("value", p + 2, d) = r <=> ValueAt(p + 2, r)
      BY <1>1, <3>1, <3>4 DEF ReadsValue
    <3>6. End("value", p + 2, d) \in 0 .. Ended
      BY <3>1, EndBody DEF Later
    <3> QED
      BY <2>1, <2>2, <2>3, <2>7, <3>5, <3>6
  <2> QED
    BY <2>5, <2>6, <2>7
<1> QED
  BY <1>2, <1>3

\* A container starts again after a comma.
LEMMA StartsAgain ==
  ASSUME Readable, NEW o, NEW r, Inside(o, r), document[r] = Comma, r + 1 \in 1 .. Len(document)
  PROVE  Starts(o, r + 1) /\ Level(r + 1) = Level(r)
<1>1. document[r] \notin Openers \cup Closers
  BY TokensApart
<1>2. Inside(o, r + 1) /\ Level(r + 1) = Level(r)
  BY <1>1, InsideNext
<1>3. (r + 1) - 1 = r
  BY InsideRange
<1> QED
  BY <1>2, <1>3 DEF Starts

\* The rest of a container: a part of it, and either its end or a comma and the rest.
LEMMA RestSplits ==
  ASSUME Readable, NEW o, NEW p, NEW r, NEW q, Starts(o, p), PartAt(o, p, r)
  PROVE  RestAt(o, p, q) <=>
           /\ r \in 1 .. Len(document)
           /\ \/ document[r] = Close(o) /\ q = r + 1
              \/ document[r] = Comma /\ Starts(o, r + 1) /\ RestAt(o, r + 1, q)
<1>1. /\ Inside(o, p) /\ Len(document) \in Nat /\ Ended = Len(document) + 1
      /\ o \in 1 .. Len(document) /\ p \in 1 .. Len(document) /\ p > o
      /\ Level(p) = Level(o) + 1 /\ Level(o) \in Int
  BY StartsRange
<1>2. /\ document[p] \in First(o) /\ r \in p + 1 .. Ended /\ Level(r) = Level(p)
      /\ \A i \in p .. r - 1 : Level(i) > Level(o) /\ Sound(i)
  BY PartIsSound
<1>3. ASSUME r \in 1 .. Len(document)
      PROVE  /\ Inside(o, r) /\ (Fits(r) <=> document[r] \in {Comma, Close(o)})
             /\ document[r] = Close(o) => Level(r + 1) = Level(o)
             /\ document[r] = Comma => Level(r + 1) = Level(r)
             /\ document[r] \in {Comma, Close(o)} => document[r] \notin Openers
             /\ r + 1 \in p + 1 .. Ended
  <2>1. Inside(o, r) /\ (Fits(r) <=> document[r] \in {Comma, Close(o)})
    BY <1>3, AfterPart
  <2>2. document[r] = Close(o) => document[r] \in Closers
    BY TokensApart DEF Close
  <2>3. /\ document[r] = Comma => document[r] \notin Openers \cup Closers
        /\ document[r] \in Closers => document[r] \notin Openers
    BY TokensApart
  <2>4. /\ document[r] \in Closers => Level(r + 1) = Level(r) - 1
        /\ document[r] \notin Openers \cup Closers => Level(r + 1) = Level(r)
    BY <1>3, LevelStep
  <2>5. Level(r) - 1 = Level(o)
    BY <1>1, <1>2
  <2>6. r + 1 \in p + 1 .. Ended
    BY <1>1, <1>2, <1>3
  <2> QED
    BY <2>1, <2>2, <2>3, <2>4, <2>5, <2>6
<1>4. ASSUME RestAt(o, p, q)
      PROVE  /\ r \in 1 .. Len(document)
             /\ \/ document[r] = Close(o) /\ q = r + 1
                \/ document[r] = Comma /\ Starts(o, r + 1) /\ RestAt(o, r + 1, q)
  <2>1. /\ q \in p + 1 .. Ended /\ Level(q) = Level(o)
        /\ \A i \in p .. q - 1 : Level(i) > Level(o) /\ Sound(i)
    BY <1>4 DEF RestAt
  <2>2. ~(q \in p .. r - 1)
    BY <1>1, <1>2, <2>1
  <2>3. r # q
    BY <1>1, <1>2, <2>1
  <2>4. r \in p .. q - 1 /\ r \in 1 .. Len(document)
    BY <1>1, <1>2, <2>1, <2>2, <2>3
  <2>5. document[r] \in {Comma, Close(o)}
    BY <1>3, <2>1, <2>4 DEF Sound
  <2>6. CASE document[r] = Close(o)
    <3>1. r + 1 \notin p .. q - 1
      BY <1>1, <1>3, <2>1, <2>4, <2>6
    <3>2. q = r + 1
      BY <1>1, <1>2, <2>1, <2>4, <3>1
    <3> QED
      BY <2>4, <2>6, <3>2
  <2>7. CASE document[r] = Comma
    <3>1. Level(r + 1) = Level(r)
      BY <1>3, <2>4, <2>7
    <3>2. r + 1 # q
      BY <1>1, <1>2, <2>1, <3>1
    <3>3. r + 1 \in p .. q - 1 /\ r + 1 \in 1 .. Len(document) /\ q \in (r + 1) + 1 .. Ended
      BY <1>1, <1>2, <2>1, <2>4, <3>2
    <3>4. Starts(o, r + 1)
      BY <1>3, <2>4, <2>7, <3>3, StartsAgain
    <3>5. Fits(r + 1) /\ r + 1 # o + 1
      BY <1>1, <1>2, <2>1, <3>3 DEF Sound
    <3>6. document[r + 1] \in First(o)
      BY <3>4, <3>5, FitsStart
    <3>7. \A i \in r + 1 .. q - 1 : Level(i) > Level(o) /\ Sound(i)
      BY <1>1, <1>2, <2>1
    <3>8. RestAt(o, r + 1, q)
      BY <2>1, <3>3, <3>6, <3>7 DEF RestAt
    <3> QED
      BY <2>4, <2>7, <3>4, <3>8
  <2> QED
    BY <2>5, <2>6, <2>7
<1>5. ASSUME r \in 1 .. Len(document), document[r] \in {Comma, Close(o)}
      PROVE  \A i \in p .. r : Level(i) > Level(o) /\ Sound(i)
  <2>1. Sound(r) /\ Level(r) > Level(o)
    BY <1>1, <1>2, <1>3, <1>5 DEF Sound
  <2> QED
    BY <1>1, <1>2, <2>1
<1>6. ASSUME r \in 1 .. Len(document), document[r] = Close(o), q = r + 1 PROVE RestAt(o, p, q)
  <2>1. Level(q) = Level(o) /\ q \in p + 1 .. Ended /\ q - 1 = r
    BY <1>1, <1>2, <1>3, <1>6
  <2>2. \A i \in p .. r : Level(i) > Level(o) /\ Sound(i)
    BY <1>5, <1>6
  <2> QED
    BY <1>1, <1>2, <2>1, <2>2 DEF RestAt
<1>7. ASSUME r \in 1 .. Len(document), document[r] = Comma,
               RestAt(o, r + 1, q) PROVE RestAt(o, p, q)
  <2>1. \A i \in p .. r : Level(i) > Level(o) /\ Sound(i)
    BY <1>5, <1>7
  <2>2. /\ q \in (r + 1) + 1 .. Ended /\ Level(q) = Level(o)
        /\ \A i \in r + 1 .. q - 1 : Level(i) > Level(o) /\ Sound(i)
    BY <1>7 DEF RestAt
  <2>3. \A i \in p .. q - 1 : i \in p .. r \/ i \in r + 1 .. q - 1
    BY <1>1, <1>2, <2>2
  <2>4. q \in p + 1 .. Ended
    BY <1>1, <1>2, <2>2
  <2> QED
    BY <1>1, <1>2, <2>1, <2>2, <2>3, <2>4 DEF RestAt
<1> QED
  BY <1>4, <1>6, <1>7

\* The rest of a container, if what follows is read right.
LEMMA RestReads ==
  ASSUME Readable, NEW p \in 1 .. Len(document), ReadsValue(p),
         p + 2 \in 1 .. Len(document) => ReadsValue(p + 2),
         \A j \in p + 1 .. Len(document) : ReadsRest(j)
  PROVE  ReadsRest(p)
<1> SUFFICES ASSUME NEW o, NEW d \in 0 .. MaxDepth, Starts(o, p), Level(o) = d, NEW q
             PROVE  q # Malformed /\ End(RestOf(o), p, d) = q <=> RestAt(o, p, q)
  BY DEF ReadsRest
<1>1. Len(document) \in Nat /\ Ended = Len(document) + 1 /\ p \in 1 .. Ended
  BY DEF Readable, Ended
<1> DEFINE r == PartEnd(o, p, d)
<1>2. /\ r \in 0 .. Ended
      /\ \A e : e # Malformed /\ r = e <=> PartAt(o, p, e)
  BY PartReads
<1>3. End(RestOf(o), p, d) = IF At(document, r, {Close(o)}) THEN r + 1
                             ELSE IF At(document, r, {Comma}) THEN End(RestOf(o), r + 1, d)
                             ELSE Malformed
  BY <1>1, EndRest
<1> HIDE DEF r
<1>4. CASE r = Malformed
  <2>1. ~At(document, r, {Close(o)}) /\ ~At(document, r, {Comma})
    BY <1>1, <1>4, AtIs DEF Malformed
  <2>2. ~RestAt(o, p, q)
    <3>1. SUFFICES ASSUME RestAt(o, p, q) PROVE FALSE
      OBVIOUS
    <3>2. PICK e \in p + 1 .. q - 1 : PartAt(o, p, e)
      BY <3>1, PartExists
    <3> QED
      BY <1>2, <1>4, <3>2
  <2> QED
    BY <1>3, <2>1, <2>2
<1>5. CASE r # Malformed
  <2>1. PartAt(o, p, r) /\ r \in p + 1 .. Ended
    <3>1. PartAt(o, p, r)
      BY <1>2, <1>5
    <3> QED
      BY <3>1, PartIsSound
  <2>2. RestAt(o, p, q) <=>
           /\ r \in 1 .. Len(document)
           /\ \/ document[r] = Close(o) /\ q = r + 1
              \/ document[r] = Comma /\ Starts(o, r + 1) /\ RestAt(o, r + 1, q)
    BY <2>1, RestSplits
  <2>3. /\ At(document, r, {Close(o)}) <=> r \in 1 .. Len(document) /\ document[r] = Close(o)
        /\ At(document, r, {Comma}) <=> r \in 1 .. Len(document) /\ document[r] = Comma
    BY AtIs
  <2>4. Close(o) # Comma
    BY MarksApart DEF Close
  <2>5. CASE ~(r \in 1 .. Len(document) /\ document[r] \in {Close(o), Comma})
    BY <1>3, <2>2, <2>3, <2>5
  <2>6. CASE r \in 1 .. Len(document) /\ document[r] = Close(o)
    <3>1. r + 1 # Malformed
      BY <1>1, <2>6 DEF Malformed
    <3> QED
      BY <1>3, <2>2, <2>3, <2>4, <2>6, <3>1
  <2>7. CASE r \in 1 .. Len(document) /\ document[r] = Comma
    <3>1. End(RestOf(o), p, d) = End(RestOf(o), r + 1, d)
      BY <1>3, <2>3, <2>4, <2>7
    <3>2. CASE r + 1 = Ended
      <4>1. End(RestOf(o), r + 1, d) = Malformed
        BY <3>2, NothingLeft
      <4>2. ~RestAt(o, r + 1, q)
        BY <1>1, <3>2 DEF RestAt
      <4> QED
        BY <2>2, <2>4, <2>7, <3>1, <4>1, <4>2
    <3>3. CASE r + 1 # Ended
      <4>1. r + 1 \in 1 .. Len(document) /\ r + 1 \in p + 1 .. Len(document)
        BY <1>1, <2>1, <2>7, <3>3
      <4>2. Starts(o, r + 1)
        BY <2>1, <2>7, <4>1, AfterPart, StartsAgain
      <4>3. q # Malformed /\ End(RestOf(o), r + 1, d) = q <=> RestAt(o, r + 1, q)
        BY <4>1, <4>2 DEF ReadsRest
      <4> QED
        BY <2>2, <2>4, <2>7, <3>1, <4>2, <4>3
    <3> QED
      BY <3>2, <3>3
  <2> QED
    BY <2>5, <2>6, <2>7
<1> QED
  BY <1>4, <1>5

\* The cursor ends every value, and the rest of every container, where they end.
LEMMA EndsRead ==
  ASSUME Readable
  PROVE  \A p \in 1 .. Len(document) : ReadsValue(p) /\ ReadsRest(p)
<1>1. Len(document) \in Nat /\ Ended = Len(document) + 1
  BY DEF Readable, Ended
<1> DEFINE T == {m \in Nat : \A p \in 1 .. Len(document) :
                   p + m > Len(document) => ReadsValue(p) /\ ReadsRest(p)}
<1>2. 0 \in T
  BY <1>1
<1>3. ASSUME NEW m \in T PROVE m + 1 \in T
  <2>1. \A p \in 1 .. Len(document) : p + m > Len(document) => ReadsValue(p) /\ ReadsRest(p)
    OBVIOUS
  <2>2. ASSUME NEW p \in 1 .. Len(document), p + (m + 1) > Len(document)
        PROVE  ReadsValue(p) /\ ReadsRest(p)
    <3>1. \A j \in p + 1 .. Len(document) : ReadsValue(j) /\ ReadsRest(j)
      BY <1>1, <2>1, <2>2
    <3>2. /\ p + 1 \in 1 .. Len(document) => ReadsRest(p + 1)
          /\ p + 2 \in 1 .. Len(document) => ReadsValue(p + 2)
      BY <1>1, <3>1
    <3>3. ReadsValue(p)
      BY <1>1, <3>2, ValueReads
    <3>4. ReadsRest(p)
      BY <3>1, <3>2, <3>3, RestReads
    <3> QED
      BY <3>3, <3>4
  <2> QED
    BY <2>2
<1> HIDE DEF T
<1>4. T = Nat
  <2>1. T \in SUBSET Nat
    BY DEF T
  <2> QED
    BY <1>2, <1>3, <2>1, SetInduction
<1>5. Len(document) \in T
  BY <1>1, <1>4
<1> QED
  BY <1>1, <1>5 DEF T

(***************************************************************************)
(* Counting.                                                               *)
(***************************************************************************)
Tokened(a, b, t) == {k \in a .. b : document[k] = t}

\* Counting a token more at the head,
LEMMA CountHead ==
  ASSUME NEW a \in Nat, NEW b \in Int, a <= b, NEW t
  PROVE  /\ Cardinality(Tokened(a + 1, b, t)) \in Nat /\ Cardinality(Tokened(a, b, t)) \in Nat
         /\ document[a] = t => Cardinality(Tokened(a, b, t)) = Cardinality(Tokened(a + 1, b, t)) + 1
         /\ document[a] # t => Cardinality(Tokened(a, b, t)) = Cardinality(Tokened(a + 1, b, t))
<1> DEFINE S == Tokened(a + 1, b, t)
           T == Tokened(a, b, t)
<1>1. IsFiniteSet(S) /\ Cardinality(S) \in Nat
  <2>1. IsFiniteSet(a + 1 .. b)
    BY FS_Interval
  <2>2. S \subseteq a + 1 .. b
    BY DEF Tokened
  <2> QED
    BY <2>1, <2>2, FS_Subset, FS_CardinalityType, Zenon
<1>2. a \notin S
  BY DEF Tokened
<1>3. document[a] = t => T = S \cup {a}
  BY DEF Tokened
<1>4. document[a] # t => T = S
  BY DEF Tokened
<1> HIDE DEF S, T
<1>5. Cardinality(S \cup {a}) = Cardinality(S) + 1
  BY <1>1, <1>2, FS_AddElement
<1> QED
  BY <1>1, <1>3, <1>4, <1>5 DEF S, T

\* and none at all.
LEMMA CountNone ==
  ASSUME NEW a \in Int, NEW t
  PROVE  Cardinality(Tokened(a + 1, a, t)) = 0
<1>1. Tokened(a + 1, a, t) = {}
  BY DEF Tokened
<1> QED
  BY <1>1, FS_EmptySet

\* No path occurs in an empty list,
LEMMA OccurringNone ==
  ASSUME NEW path
  PROVE  Occurring(<<>>, path) = 0
<1>1. {i \in DOMAIN <<>> : <<>>[i] = path} = {}
  OBVIOUS
<1> QED
  BY <1>1, FS_EmptySet DEF Occurring

\* and one more in a longer one.
LEMMA OccurringAppend ==
  ASSUME NEW values \in Seq(Strings), NEW x \in Strings, NEW path
  PROVE  /\ Occurring(values, path) \in Nat
         /\ x = path => Occurring(Append(values, x), path) = Occurring(values, path) + 1
         /\ x # path => Occurring(Append(values, x), path) = Occurring(values, path)
<1> DEFINE n == Len(values)
           S == {i \in DOMAIN values : values[i] = path}
           T == {i \in DOMAIN Append(values, x) : Append(values, x)[i] = path}
<1>1. n \in Nat /\ DOMAIN values = 1 .. n /\ DOMAIN Append(values, x) = 1 .. n + 1
  OBVIOUS
<1>2. Append(values, x)[n + 1] = x /\ \A i \in 1 .. n : Append(values, x)[i] = values[i]
  OBVIOUS
<1>3. IsFiniteSet(S) /\ Cardinality(S) \in Nat
  <2>1. IsFiniteSet(1 .. n)
    BY <1>1, FS_Interval
  <2>2. S \subseteq 1 .. n
    BY <1>1
  <2> QED
    BY <2>1, <2>2, FS_Subset, FS_CardinalityType, Zenon
<1> DEFINE A == Append(values, x)
<1>4. T = {i \in 1 .. n + 1 : A[i] = path} /\ S = {i \in 1 .. n : values[i] = path}
  BY <1>1
<1>5. A[n + 1] = x /\ \A i \in 1 .. n : A[i] = values[i]
  BY <1>2
<1> HIDE DEF A, T, S, n
<1>6. x = path => T = S \cup {n + 1}
  BY <1>1, <1>4, <1>5
<1>7. x # path => T = S
  BY <1>1, <1>4, <1>5
<1>8. n + 1 \notin S
  BY <1>1, <1>4
<1>9. Cardinality(S \cup {n + 1}) = Cardinality(S) + 1
  BY <1>3, <1>8, FS_AddElement
<1>10. Occurring(values, path) = Cardinality(S) /\ Occurring(Append(values, x), path) =
         Cardinality(T)
  BY DEF Occurring, S, T
<1> QED
  BY <1>3, <1>6, <1>7, <1>9, <1>10

(***************************************************************************)
(* The array of strings findTopLevelMember() wants.                        *)
(***************************************************************************)
ListCalls == (1 .. Ended) \X Seq(Strings)
Lists == [next : 0 .. Ended, values : Seq(Strings)]
ListCursors == {g \in [ListCalls -> Lists] : \A s \in ListCalls : g[s].next \in Later(s[1])}
ListRank(s) == Ended - s[1]

StringLists ==
  CHOOSE f : f = [s \in (1 .. Len(document) + 1) \X Seq(Strings) |-> ParseStrings(f, document,
    s[1], s[2])]

\* parseWanted's loop in terms of Comma.
LEMMA ParseStringsIs ==
  ASSUME NEW f, NEW p, NEW v
  PROVE  ParseStrings(f, document, p, v) =
           IF ~At(document, p, Strings) THEN Broken
           ELSE IF At(document, p + 1, {"]"}) THEN [next |-> p + 2,
             values |-> Append(v, document[p])]
           ELSE IF At(document, p + 1, {Comma}) THEN f[<<p + 2, Append(v, document[p])>>]
             ELSE Broken
  BY Zenon DEF ParseStrings, Comma

\* parseWanted's loop moves forward, and only asks further on.
LEMMA ListDepends ==
  ASSUME Readable, NEW g \in ListCursors, NEW h, NEW p \in 1 .. Ended, NEW v \in Seq(Strings),
         \A t \in ListCalls : ListRank(t) < Ended - p => g[t] = h[t]
  PROVE  /\ ParseStrings(g, document, p, v) \in Lists
         /\ ParseStrings(g, document, p, v).next \in Later(p)
         /\ ParseStrings(g, document, p, v) = ParseStrings(h, document, p, v)
<1>0. Len(document) \in Nat /\ Ended = Len(document) + 1
  BY DEF Readable, Ended
<1>1. Broken \in Lists /\ Broken.next \in Later(p)
  BY <1>0 DEF Broken, Malformed, Lists, Later
<1>2. At(document, p, Strings) => document[p] \in Strings /\ Append(v, document[p]) \in Seq(Strings)
  BY AtIs
<1>3. CASE ~At(document, p, Strings)
  BY <1>1, <1>3, ParseStringsIs
<1>4. CASE At(document, p, Strings) /\ At(document, p + 1, {"]"})
  <2>1. p + 1 \in 1 .. Len(document)
    BY <1>4, AtIs
  <2>2. p + 2 \in 0 .. Ended /\ p + 2 \in Later(p)
    BY <1>0, <2>1 DEF Later
  <2> DEFINE a == [next |-> p + 2, values |-> Append(v, document[p])]
  <2>3. a \in Lists /\ a.next \in Later(p)
    BY <1>2, <1>4, <2>2 DEF Lists
  <2>4. ParseStrings(g, document, p, v) = a /\ ParseStrings(h, document, p, v) = a
    BY <1>4, ParseStringsIs, Zenon
  <2> HIDE DEF a
  <2> QED
    BY <2>3, <2>4
<1>5. CASE At(document, p, Strings) /\ ~At(document, p + 1, {"]"}) /\ At(document, p + 1, {Comma})
  <2>1. p + 1 \in 1 .. Len(document)
    BY <1>5, AtIs
  <2>2. p + 2 \in 1 .. Ended
    BY <1>0, <2>1
  <2> DEFINE w == Append(v, document[p])
             t == <<p + 2, w>>
  <2>3. t \in ListCalls /\ t[1] = p + 2 /\ ListRank(t) < Ended - p
    <3>1. w \in Seq(Strings)
      BY <1>2, <1>5, Zenon
    <3> HIDE DEF w
    <3>2. ListRank(t) = Ended - (p + 2) /\ t[1] = p + 2
      BY DEF ListRank
    <3>3. t \in ListCalls
      BY <2>2, <3>1 DEF ListCalls
    <3> QED
      BY <1>0, <3>2, <3>3
  <2>4. ParseStrings(g, document, p, v) = g[t] /\ ParseStrings(h, document, p, v) = h[t]
    BY <1>5, ParseStringsIs, Zenon
  <2> HIDE DEF t
  <2>5. g[t] \in Lists /\ g[t].next \in Later(p + 2) /\ g[t] = h[t]
    BY <2>3 DEF ListCursors
  <2>6. g[t].next \in Later(p)
    BY <1>0, <2>5 DEF Later
  <2> QED
    BY <2>4, <2>5, <2>6
<1>6. CASE At(document, p, Strings) /\ ~At(document, p + 1, {"]"}) /\ ~At(document, p + 1, {Comma})
  BY <1>1, <1>6, ParseStringsIs
<1> QED
  BY <1>3, <1>4, <1>5, <1>6

\* Its function exists.
LEMMA ListsExist ==
  ASSUME Readable
  PROVE  /\ StringLists \in ListCursors
         /\ \A p \in 1 .. Ended, v \in Seq(Strings) :
              StringLists[<<p, v>>] = ParseStrings(StringLists, document, p, v)
<1>0. Len(document) \in Nat /\ Ended = Len(document) + 1
  BY DEF Readable, Ended
<1> DEFINE D == ListCalls
           rank == [s \in D |-> ListRank(s)]
           B == [g \in ListCursors |-> [s \in D |-> ParseStrings(g, document, s[1], s[2])]]
           M == Ended + 1
<1>1. \A s \in D : s[1] \in 1 .. Ended /\ s[2] \in Seq(Strings) /\ rank[s] = Ended - s[1]
  BY DEF ListCalls, ListRank
<1>2. Ranked(D, rank, M)
  BY <1>0, <1>1 DEF Ranked
<1>3. ASSUME NEW g \in ListCursors, NEW h, NEW s \in D, \A t \in D : rank[t] < rank[s]
               => g[t] = h[t]
      PROVE  /\ ParseStrings(g, document, s[1], s[2]) \in Lists
             /\ ParseStrings(g, document, s[1], s[2]).next \in Later(s[1])
             /\ ParseStrings(g, document, s[1], s[2]) = ParseStrings(h, document, s[1], s[2])
  <2>1. \A t \in ListCalls : ListRank(t) < Ended - s[1] => g[t] = h[t]
    BY <1>1, <1>3
  <2> QED
    BY <1>1, <2>1, ListDepends
<1>4. ListCursors # {}
  <2>1. Broken \in Lists /\ \A p \in 1 .. Ended : Broken.next \in Later(p)
    BY <1>0 DEF Broken, Malformed, Lists, Later
  <2>2. [s \in D |-> Broken] \in ListCursors
    BY <1>1, <2>1 DEF ListCursors
  <2> QED
    BY <2>2
<1>5. ASSUME NEW g \in ListCursors PROVE B[g] \in ListCursors
  <2>1. \A s \in D : /\ ParseStrings(g, document, s[1], s[2]) \in Lists
                     /\ ParseStrings(g, document, s[1], s[2]).next \in Later(s[1])
    BY <1>3
  <2>2. [s \in D |-> ParseStrings(g, document, s[1], s[2])] \in ListCursors
    BY <2>1, Zenon DEF ListCursors
  <2> QED
    BY <2>2, Zenon
<1>6. ASSUME NEW g \in ListCursors, NEW h \in ListCursors, NEW s \in D,
             \A t \in D : rank[t] < rank[s] => g[t] = h[t]
      PROVE  B[g][s] = B[h][s]
  <2>1. ParseStrings(g, document, s[1], s[2]) = ParseStrings(h, document, s[1], s[2])
    BY <1>3, <1>6
  <2>2. \A k \in ListCursors : B[k] = [t \in D |-> ParseStrings(k, document, t[1], t[2])]
    BY Zenon
  <2> HIDE DEF B, D
  <2>3. \A k \in ListCursors : B[k][s] = ParseStrings(k, document, s[1], s[2])
    BY <2>2, Zenon
  <2> QED
    BY <2>1, <2>3, Zenon
<1>7. \E f \in ListCursors : \A s \in D : f[s] = B[f][s]
  <2> HIDE DEF D, rank, B, M
  <2>1. Contracts(D, rank, ListCursors, B)
    BY <1>4, <1>5, <1>6, Zenon DEF Contracts, Same
  <2> QED
    BY <1>2, <2>1, FixedPoint
<1>8. PICK g \in ListCursors : g = [s \in D |-> ParseStrings(g, document, s[1], s[2])]
  <2>1. PICK g \in ListCursors : \A s \in D : g[s] = B[g][s]
    BY <1>7
  <2>2. g = [s \in D |-> g[s]]
    BY DEF ListCursors
  <2>3. \A s \in D : g[s] = ParseStrings(g, document, s[1], s[2])
    BY <2>1
  <2> QED
    BY <2>2, <2>3
<1> DEFINE F == StringLists
<1>9. F = [s \in D |-> ParseStrings(F, document, s[1], s[2])]
  <2>1. F = CHOOSE f : f = [s \in D |-> ParseStrings(f, document, s[1], s[2])]
    BY Zenon DEF StringLists, ListCalls, Ended
  <2> QED
    BY <1>8, <2>1
<1> HIDE DEF F
<1>10. F = g
  <2>1. ASSUME NEW s \in D, \A t \in D : rank[t] < rank[s] => g[t] = F[t] PROVE g[s] = F[s]
    <3>1. ParseStrings(g, document, s[1], s[2]) = ParseStrings(F, document, s[1], s[2])
      BY <1>3, <2>1
    <3>2. g[s] = ParseStrings(g, document, s[1], s[2])
      BY <1>8
    <3>3. F[s] = ParseStrings(F, document, s[1], s[2])
      BY <1>9
    <3> QED
      BY <3>1, <3>2, <3>3
  <2>2. \A s \in D : g[s] = F[s]
    <3> HIDE DEF D, rank, M
    <3>1. SameByRank(D, rank, g, F)
      BY <2>1, Zenon DEF SameByRank, Same
    <3> QED
      BY <1>2, <3>1, EqualByRank
  <2>3. F = [s \in D |-> F[s]] /\ g = [s \in D |-> g[s]]
    BY <1>8, <1>9
  <2> QED
    BY <2>2, <2>3
<1>11. \A p \in 1 .. Ended, v \in Seq(Strings) : F[<<p, v>>] = ParseStrings(F, document, p, v)
  <2> SUFFICES ASSUME NEW p \in 1 .. Ended, NEW v \in Seq(Strings)
               PROVE  F[<<p, v>>] = ParseStrings(F, document, p, v)
    OBVIOUS
  <2> DEFINE s == <<p, v>>
  <2>1. s \in D /\ s[1] = p /\ s[2] = v
    BY DEF ListCalls
  <2> HIDE DEF s
  <2>2. F[s] = ParseStrings(F, document, s[1], s[2])
    BY <1>9, <2>1
  <2> QED
    BY <2>1, <2>2 DEF s
<1> QED
  BY <1>8, <1>10, <1>11 DEF F

\* Nothing but strings and what separates them.
Plain(a, b) == \A i \in a .. b : document[i] \in Strings \cup {Comma, "]"}

\* At p, the list ends where an array of strings does, with its strings after those before.
ListReads(o, p, v) ==
  LET list == StringLists[<<p, v>>] IN
  /\ list \in Lists
  /\ \A q : q # Malformed /\ list.next = q <=> RestAt(o, p, q) /\ Plain(p, q - 1)
  /\ list.next # Malformed => \A path \in Strings :
       Occurring(list.values, path) =
         Occurring(v, path) + Cardinality(Tokened(p, list.next - 1, path))

\* The rest of a list, if what follows is read right.
LEMMA ListReadsOn ==
  ASSUME Readable, NEW p \in 1 .. Len(document), NEW o, Starts(o, p), document[o] = "[",
         NEW v \in Seq(Strings),
         \A w \in Seq(Strings) : p + 2 \in 1 .. Len(document) /\ Starts(o, p + 2)
           => ListReads(o, p + 2, w)
  PROVE  ListReads(o, p, v)
<1>0. /\ Len(document) \in Nat /\ Ended = Len(document) + 1 /\ p \in 1 .. Ended /\ Malformed = 0
      /\ (p + 1) + 1 = p + 2 /\ Close(o) = "]" /\ First(o) = Values /\ p \in Nat /\ o \in Nat
           /\ p > o
  BY StartsRange, MarksApart DEF Readable, Ended, Malformed, Close, First
<1> DEFINE list == StringLists[<<p, v>>]
<1>1. /\ list = ParseStrings(StringLists, document, p, v) /\ list \in Lists
  <2>1. /\ list = ParseStrings(StringLists, document, p, v) /\ StringLists \in ListCursors
    BY <1>0, ListsExist
  <2>2. <<p, v>> \in ListCalls
    BY <1>0 DEF ListCalls
  <2> QED
    BY <2>1, <2>2 DEF ListCursors
<1>2. list = IF ~At(document, p, Strings) THEN Broken
             ELSE IF At(document, p + 1, {"]"}) THEN [next |-> p + 2,
               values |-> Append(v, document[p])]
             ELSE IF At(document, p + 1, {Comma}) THEN StringLists[<<p + 2,
               Append(v, document[p])>>]
             ELSE Broken
  BY <1>1, ParseStringsIs, Zenon
<1> HIDE DEF list
<1>3. /\ At(document, p, Strings) <=> document[p] \in Strings
      /\ At(document, p + 1, {"]"}) <=> p + 1 \in 1 .. Len(document) /\ document[p + 1] = "]"
      /\ At(document, p + 1, {Comma}) <=> p + 1 \in 1 .. Len(document) /\ document[p + 1] = Comma
  BY AtIs
<1>4. Broken.next = Malformed
  BY DEF Broken
<1>5. CASE document[p] \notin Strings
  <2>1. list.next = Malformed
    BY <1>2, <1>3, <1>4, <1>5, Zenon
  <2>2. \A q : ~(RestAt(o, p, q) /\ Plain(p, q - 1))
    <3>1. SUFFICES ASSUME NEW q, RestAt(o, p, q), Plain(p, q - 1) PROVE FALSE
      OBVIOUS
    <3>2. document[p] \in Values /\ p \in p .. q - 1
      BY <1>0, <3>1 DEF RestAt
    <3>3. document[p] \in Strings \cup {Comma, "]"}
      BY <3>1, <3>2 DEF Plain
    <3> QED
      BY <1>5, <3>2, <3>3, TokensApart
  <2> QED
    BY <1>1, <2>1, <2>2 DEF ListReads, list
<1>6. CASE document[p] \in Strings
  <2>1. PartAt(o, p, p + 1)
    <3>1. document[p] \in Values /\ document[p] \notin Openers \cup Closers
      BY <1>6, TokensApart
    <3>2. Level(p + 1) = Level(p)
      BY <3>1, LevelStep
    <3>3. ValueAt(p, p + 1)
      BY <1>0, <3>1, <3>2 DEF ValueAt
    <3> QED
      BY <3>3, MarksApart DEF PartAt
  <2>2. ASSUME NEW q
        PROVE  RestAt(o, p, q) <=>
                 /\ p + 1 \in 1 .. Len(document)
                 /\ \/ document[p + 1] = "]" /\ q = p + 2
                    \/ document[p + 1] = Comma /\ Starts(o, p + 2) /\ RestAt(o, p + 2, q)
    <3>1. RestAt(o, p, q) <=>
                 /\ p + 1 \in 1 .. Len(document)
                 /\ \/ document[p + 1] = Close(o) /\ q = (p + 1) + 1
                    \/ document[p + 1] = Comma /\ Starts(o, (p + 1) + 1)
                         /\ RestAt(o, (p + 1) + 1, q)
      BY <2>1, RestSplits
    <3> QED
      BY <1>0, <3>1, Zenon
  <2> DEFINE w == Append(v, document[p])
  <2>3. /\ w \in Seq(Strings)
        /\ \A path \in Strings :
             Occurring(w, path) = Occurring(v, path) + (IF document[p] = path THEN 1 ELSE 0)
    <3>1. \A path \in Strings :
            /\ Occurring(v, path) \in Nat
            /\ document[p] = path => Occurring(w, path) = Occurring(v, path) + 1
            /\ document[p] # path => Occurring(w, path) = Occurring(v, path)
      BY <1>6, OccurringAppend, Zenon
    <3>2. w \in Seq(Strings)
      BY <1>6
    <3> HIDE DEF w
    <3> QED
      BY <3>1, <3>2
  <2> HIDE DEF w
  <2>4. ASSUME NEW path \in Strings, NEW b \in Int, b >= p + 1, document[p + 1] \notin Strings
        PROVE  /\ Cardinality(Tokened(p + 2, b, path)) \in Nat
               /\ Cardinality(Tokened(p, b, path)) =
                    Cardinality(Tokened(p + 2, b, path)) + (IF document[p] = path THEN 1 ELSE 0)
    <3>1. /\ Cardinality(Tokened(p + 1, b, path)) \in Nat
          /\ document[p] = path => Cardinality(Tokened(p, b, path)) =
               Cardinality(Tokened(p + 1, b, path)) + 1
          /\ document[p] # path => Cardinality(Tokened(p, b, path)) =
               Cardinality(Tokened(p + 1, b, path))
      BY <1>0, <2>4, CountHead
    <3>2. p + 1 \in Nat /\ p + 1 <= b /\ document[p + 1] # path
      BY <1>0, <2>4
    <3>3. /\ Cardinality(Tokened((p + 1) + 1, b, path)) \in Nat
          /\ document[p + 1] # path =>
               Cardinality(Tokened(p + 1, b, path)) = Cardinality(Tokened((p + 1) + 1, b, path))
      BY <2>4, <3>2, CountHead
    <3> QED
      BY <1>0, <3>1, <3>2, <3>3
  <2>5. CASE p + 1 \in 1 .. Len(document) /\ document[p + 1] = "]"
    <3>1. list = [next |-> p + 2, values |-> w]
      BY <1>2, <1>3, <1>6, <2>5, Zenon DEF w
    <3>2. list.next = p + 2 /\ list.values = w /\ (p + 2) - 1 = p + 1 /\ p + 2 # Malformed
      BY <1>0, <3>1
    <3>3. Plain(p, (p + 2) - 1)
      BY <1>0, <1>6, <2>5 DEF Plain
    <3>4. "]" # Comma /\ "]" \notin Strings
      BY MarksApart, TokensApart DEF Closers
    <3>5. \A q : RestAt(o, p, q) <=> q = p + 2
      BY <2>2, <2>5, <3>4
    <3>6. ASSUME NEW path \in Strings
          PROVE  Occurring(w, path) = Occurring(v, path) + Cardinality(Tokened(p, p + 1, path))
      <4>1. Cardinality(Tokened(p + 2, p + 1, path)) = 0
        <5>1. p + 1 \in Int
          BY <1>0
        <5>2. Cardinality(Tokened((p + 1) + 1, p + 1, path)) = 0
          BY <5>1, CountNone
        <5> QED
          BY <1>0, <5>2
      <4>2. Cardinality(Tokened(p, p + 1, path)) =
              Cardinality(Tokened(p + 2, p + 1, path)) + (IF document[p] = path THEN 1 ELSE 0)
        BY <1>0, <2>4, <2>5, <3>4
      <4> QED
        BY <2>3, <4>1, <4>2
    <3> QED
      BY <1>1, <3>2, <3>3, <3>5, <3>6, Zenon DEF ListReads, list
  <2>6. CASE ~(p + 1 \in 1 .. Len(document) /\ document[p + 1] \in {"]", Comma})
    <3>1. list.next = Malformed
      BY <1>2, <1>3, <1>4, <1>6, <2>6
    <3>2. \A q : ~RestAt(o, p, q)
      BY <2>2, <2>6
    <3> QED
      BY <1>1, <3>1, <3>2 DEF ListReads, list
  <2>7. CASE p + 1 \in 1 .. Len(document) /\ document[p + 1] = Comma
    <3>1. document[p + 1] # "]" /\ document[p + 1] \notin Strings
      BY <2>7, MarksApart, TokensApart
    <3>2. list = StringLists[<<p + 2, w>>]
      BY <1>2, <1>3, <1>6, <2>7, <3>1, Zenon DEF w
    <3>3. \A q : RestAt(o, p, q) <=> Starts(o, p + 2) /\ RestAt(o, p + 2, q)
      BY <2>2, <2>7, <3>1
    <3>4. CASE p + 2 \in 1 .. Len(document)
      <4>1. Starts(o, p + 2)
        <5>1. Inside(o, p + 1)
          BY <2>1, <2>7, AfterPart
        <5> QED
          BY <1>0, <2>7, <3>4, <5>1, StartsAgain
      <4>2. ListReads(o, p + 2, w)
        BY <2>3, <3>4, <4>1
      <4>3. \A q : q # Malformed /\ list.next = q <=> RestAt(o, p + 2, q) /\ Plain(p + 2, q - 1)
        BY <3>2, <4>2, Zenon DEF ListReads
      <4>4. ASSUME NEW q, RestAt(o, p + 2, q) PROVE Plain(p, q - 1) <=> Plain(p + 2, q - 1)
        <5>1. q \in Int /\ q >= p + 3
          BY <1>0, <4>4 DEF RestAt
        <5> QED
          BY <1>0, <1>6, <2>7, <5>1 DEF Plain
      <4>5. ASSUME list.next # Malformed, NEW path \in Strings
            PROVE  Occurring(list.values, path) =
                     Occurring(v, path) + Cardinality(Tokened(p, list.next - 1, path))
        <5>1. RestAt(o, p + 2, list.next)
          BY <4>3, <4>5, Zenon
        <5>2. list.next - 1 \in Int /\ list.next - 1 >= p + 1
          BY <1>0, <5>1 DEF RestAt
        <5>3. Occurring(list.values, path) =
                Occurring(w, path) + Cardinality(Tokened(p + 2, list.next - 1, path))
          BY <3>2, <4>2, <4>5, Zenon DEF ListReads
        <5>4. /\ Cardinality(Tokened(p + 2, list.next - 1, path)) \in Nat
              /\ Cardinality(Tokened(p, list.next - 1, path)) =
                   Cardinality(Tokened(p + 2, list.next - 1, path)) + (IF document[p] = path THEN 1
                     ELSE 0)
          BY <2>4, <3>1, <5>2
        <5>5. Occurring(v, path) \in Nat
          BY <1>6, OccurringAppend
        <5> QED
          BY <2>3, <5>3, <5>4, <5>5
      <4>6. \A q : q # Malformed /\ list.next = q <=> RestAt(o, p, q) /\ Plain(p, q - 1)
        BY <3>3, <4>1, <4>3, <4>4, Zenon
      <4> QED
        BY <1>1, <4>5, <4>6, Zenon DEF ListReads, list
    <3>5. CASE p + 2 \notin 1 .. Len(document)
      <4>1. p + 2 = Ended
        BY <1>0, <2>7, <3>5
      <4>2. ~At(document, p + 2, Strings)
        BY <3>5, AtIs
      <4>3. StringLists[<<p + 2, w>>] = ParseStrings(StringLists, document, p + 2, w)
        <5>1. p + 2 \in 1 .. Ended
          BY <1>0, <4>1
        <5> QED
          BY <2>3, <5>1, ListsExist, Zenon
      <4>4. list.next = Malformed
        BY <1>4, <3>2, <4>2, <4>3, ParseStringsIs, Zenon
      <4>5. \A q : ~RestAt(o, p, q)
        BY <3>3, <3>5 DEF RestAt
      <4> QED
        BY <1>1, <4>4, <4>5 DEF ListReads, list
    <3> QED
      BY <3>4, <3>5
  <2> QED
    BY <2>5, <2>6, <2>7
<1> QED
  BY <1>5, <1>6

\* Lists are read to their ends.
LEMMA ListsRead ==
  ASSUME Readable, NEW o, document[o] = "["
  PROVE  \A p \in 1 .. Len(document), v \in Seq(Strings) : Starts(o, p) => ListReads(o, p, v)
<1>1. Len(document) \in Nat
  BY DEF Readable
<1> DEFINE T == {m \in Nat : \A p \in 1 .. Len(document), v \in Seq(Strings) :
                   p + m > Len(document) /\ Starts(o, p) => ListReads(o, p, v)}
<1>2. 0 \in T
  BY <1>1
<1>3. ASSUME NEW m \in T PROVE m + 1 \in T
  <2>1. \A p \in 1 .. Len(document), v \in Seq(Strings) :
          p + m > Len(document) /\ Starts(o, p) => ListReads(o, p, v)
    OBVIOUS
  <2>2. ASSUME NEW p \in 1 .. Len(document), NEW v \in Seq(Strings),
               p + (m + 1) > Len(document), Starts(o, p)
        PROVE  ListReads(o, p, v)
    <3>1. (p + 2) + m > Len(document)
      BY <1>1, <2>2
    <3>2. \A w \in Seq(Strings) :
            p + 2 \in 1 .. Len(document) /\ Starts(o, p + 2) => ListReads(o, p + 2, w)
      BY <2>1, <3>1
    <3> QED
      BY <2>2, <3>2, ListReadsOn
  <2> QED
    BY <2>2
<1> HIDE DEF T
<1>4. T = Nat
  <2>1. T \in SUBSET Nat
    BY DEF T
  <2> QED
    BY <1>2, <1>3, <2>1, SetInduction
<1>5. Len(document) \in T
  BY <1>1, <1>4
<1>6. \A p \in 1 .. Len(document), v \in Seq(Strings) :
        p + Len(document) > Len(document) /\ Starts(o, p) => ListReads(o, p, v)
  BY <1>5 DEF T
<1> QED
  BY <1>1, <1>6

\* An array of strings at p that ends before q, and the paths in it.
ListAt(p, q) == document[p] = "[" /\ ValueAt(p, q) /\ Plain(p + 1, q - 1)

\* parseWanted succeeds on an array of strings, and gives its strings.
LEMMA ArrayReads ==
  ASSUME Readable, NEW p \in 1 .. Ended, Level(p) = 1
  PROVE  LET array == ParseStringArray(document, p) IN
         /\ array.next \in Later(p) /\ array.values \in Seq(Strings)
         /\ \A q : q # Malformed /\ array.next = q <=> p \in 1 .. Len(document) /\ ListAt(p, q)
         /\ array.next # Malformed => \A path \in Strings :
              Occurring(array.values, path) = Cardinality(Tokened(p + 1, array.next - 1, path))
<1>0. Len(document) \in Nat /\ Ended = Len(document) + 1 /\ MaxDepth \in Nat \ {0} /\ Malformed = 0
  BY RegistrationLimits DEF Readable, Ended, Malformed
<1> DEFINE array == ParseStringArray(document, p)
<1>1. array = IF ~At(document, p, {"["}) THEN Broken
              ELSE IF At(document, p + 1, {"]"}) THEN [next |-> p + 2, values |-> <<>>]
              ELSE StringLists[<<p + 1, <<>>>>]
  BY Zenon DEF ParseStringArray, StringLists
<1> HIDE DEF array
<1>2. /\ At(document, p, {"["}) <=> p \in 1 .. Len(document) /\ document[p] = "["
      /\ At(document, p + 1, {"]"}) <=> p + 1 \in 1 .. Len(document) /\ document[p + 1] = "]"
  BY AtIs
<1>3. Broken.next = Malformed /\ Broken.values \in Seq(Strings) /\ Broken.next \in Later(p)
  BY <1>0 DEF Broken, Later
<1>4. CASE ~(p \in 1 .. Len(document) /\ document[p] = "[")
  <2>1. array = Broken
    BY <1>1, <1>2, <1>4, Zenon
  <2>2. \A q : ~(p \in 1 .. Len(document) /\ ListAt(p, q))
    BY <1>4 DEF ListAt
  <2> QED
    BY <1>3, <2>1, <2>2, Zenon DEF array
<1>5. CASE p \in 1 .. Len(document) /\ document[p] = "["
  <2>0. /\ document[p] \in Openers /\ Level(p + 1) = 2 /\ p + 1 \in 1 .. Ended
        /\ Close(p) = "]" /\ First(p) = Values /\ document[p] \in Values
    <3>1. document[p] \in Openers /\ document[p] \in Values /\ document[p] # Brace
      BY <1>5, TokensApart, MarksApart DEF Openers, Values
    <3>2. Level(p + 1) = Level(p) + 1
      BY <1>5, <3>1, LevelStep
    <3> QED
      BY <1>0, <1>5, <3>1, <3>2 DEF Close, First
  <2>1. CASE p + 1 \in 1 .. Len(document) /\ document[p + 1] = "]"
    <3>1. array = [next |-> p + 2, values |-> <<>>]
      BY <1>1, <1>2, <1>5, <2>1, Zenon
    <3>2. array.next = p + 2 /\ array.values = <<>> /\ p + 2 \in Later(p) /\ p + 2 # Malformed
      BY <1>0, <1>5, <2>1, <3>1 DEF Later
    <3>3. document[p + 1] \in Closers /\ document[p + 1] \notin Openers
      BY <2>1, TokensApart
    <3>4. Level((p + 1) + 1) = Level(p + 1) - 1
      BY <2>1, <3>3, LevelStep
    <3>5. Level(p + 2) = 1 /\ p + 2 \in p + 1 .. Ended /\ (p + 2) - 1 = p + 1 /\ p \in Int
      BY <1>0, <1>5, <2>0, <2>1, <3>4
    <3>6. Fits(p + 1)
      BY <1>5, <2>0, <2>1, InsideFirst, FitsStart
    <3>7. ListAt(p, p + 2)
      <4>1. Plain(p + 1, p + 1)
        BY <2>1, <3>5 DEF Plain
      <4>2. \A i \in p + 1 .. p + 1 : Level(i) > Level(p) /\ Sound(i)
        BY <2>0, <3>3, <3>5, <3>6 DEF Sound
      <4> QED
        BY <1>0, <1>5, <2>0, <3>5, <4>1, <4>2 DEF ListAt, ValueAt
    <3>8. \A q : ListAt(p, q) => q = p + 2
      <4> SUFFICES ASSUME NEW q, ListAt(p, q), q # p + 2 PROVE FALSE
        OBVIOUS
      <4>1. q \in p + 1 .. Ended /\ Level(q) = 1 /\ \A i \in p + 1 .. q - 1 : Level(i) > 1
        BY DEF ListAt, ValueAt
      <4>2. q # p + 1
        BY <2>0, <4>1
      <4>3. p + 2 \in p + 1 .. q - 1
        BY <1>0, <3>5, <4>1, <4>2
      <4> QED
        BY <3>5, <4>1, <4>3
    <3>9. ASSUME NEW path \in Strings
          PROVE  Occurring(<<>>, path) = 0 /\ Cardinality(Tokened(p + 1, (p + 2) - 1, path)) = 0
      <4>1. document[p + 1] # path
        BY <3>3, TokensApart
      <4>2. p + 1 \in Nat /\ p + 1 \in Int /\ p + 1 <= p + 1
        BY <1>0, <1>5
      <4>3. Cardinality(Tokened(p + 1, p + 1, path)) =
              Cardinality(Tokened((p + 1) + 1, p + 1, path))
        BY <4>1, <4>2, CountHead
      <4>4. Cardinality(Tokened((p + 1) + 1, p + 1, path)) = 0
        BY <4>2, CountNone
      <4> QED
        BY <3>5, <4>3, <4>4, OccurringNone
    <3>10. <<>> \in Seq(Strings)
      OBVIOUS
    <3> QED
      BY <1>5, <3>2, <3>7, <3>8, <3>9, <3>10, Zenon DEF array
  <2>2. CASE p + 1 \in 1 .. Len(document) /\ document[p + 1] # "]"
    <3>1. array = StringLists[<<p + 1, <<>>>>] /\ <<>> \in Seq(Strings)
      BY <1>1, <1>2, <1>5, <2>2
    <3>2. Starts(p, p + 1)
      BY <1>5, <2>0, <2>2, InsideFirst
    <3>3. ListReads(p, p + 1, <<>>)
      BY <1>5, <2>2, <3>1, <3>2, ListsRead
    <3>4. /\ array \in Lists
          /\ \A q : q # Malformed /\ array.next = q <=> RestAt(p, p + 1, q) /\ Plain(p + 1, q - 1)
          /\ array.next # Malformed => \A path \in Strings :
               Occurring(array.values, path) =
                 Occurring(<<>>, path) + Cardinality(Tokened(p + 1, array.next - 1, path))
      BY <3>1, <3>3, Zenon DEF ListReads
    <3>5. ASSUME NEW q, Plain(p + 1, q - 1) PROVE RestAt(p, p + 1, q) <=> ValueAt(p, q)
      <4>1. RestAt(p, p + 1, q) => ValueAt(p, q)
        BY <1>0, <1>5, <2>0 DEF RestAt, ValueAt
      <4>2. ASSUME ValueAt(p, q) PROVE RestAt(p, p + 1, q)
        <5>1. q # p + 1
          BY <2>0, <4>2 DEF ValueAt
        <5>2. p + 1 \in p + 1 .. q - 1 /\ q \in (p + 1) + 1 .. Ended
          BY <1>0, <1>5, <4>2, <5>1 DEF ValueAt
        <5>3. Fits(p + 1)
          BY <4>2, <5>2 DEF ValueAt, Sound
        <5>4. document[p + 1] \in First(p)
          BY <2>0, <2>2, <3>2, <5>3, FitsStart
        <5> QED
          BY <2>2, <4>2, <5>2, <5>4 DEF ValueAt, RestAt
      <4> QED
        BY <4>1, <4>2
    <3>6. \A q : q # Malformed /\ array.next = q <=> ListAt(p, q)
      BY <1>5, <3>4, <3>5, Zenon DEF ListAt
    <3>7. array.next \in 0 .. Ended /\ array.values \in Seq(Strings)
      BY <3>4 DEF Lists
    <3>8. array.next \in Later(p)
      <4>1. array.next # Malformed => array.next > p
        <5>1. SUFFICES ASSUME array.next # Malformed PROVE array.next > p
          OBVIOUS
        <5>2. ValueAt(p, array.next)
          BY <3>6, <5>1, Zenon DEF ListAt
        <5> QED
          BY <1>0, <1>5, <5>2 DEF ValueAt
      <4> QED
        BY <1>0, <3>7, <4>1 DEF Later
    <3>9. array.next # Malformed => \A path \in Strings :
            Occurring(array.values, path) = Cardinality(Tokened(p + 1, array.next - 1, path))
      <4> SUFFICES ASSUME array.next # Malformed, NEW path \in Strings
                   PROVE  Occurring(array.values, path) =
                            Cardinality(Tokened(p + 1, array.next - 1, path))
        OBVIOUS
      <4>1. IsFiniteSet(Tokened(p + 1, array.next - 1, path))
        <5>1. p + 1 \in Int /\ array.next - 1 \in Int
          BY <1>0, <1>5, <3>7
        <5>2. IsFiniteSet(p + 1 .. array.next - 1)
          BY <5>1, FS_Interval
        <5>3. Tokened(p + 1, array.next - 1, path) \subseteq p + 1 .. array.next - 1
          BY DEF Tokened
        <5> QED
          BY <5>2, <5>3, FS_Subset, Zenon
      <4>2. Cardinality(Tokened(p + 1, array.next - 1, path)) \in Nat
        BY <4>1, FS_CardinalityType
      <4> QED
        BY <3>4, <4>2, OccurringNone
    <3> QED
      BY <1>5, <3>6, <3>7, <3>8, <3>9, Zenon DEF array
  <2>3. CASE p + 1 \notin 1 .. Len(document)
    <3>1. p + 1 = Ended
      BY <1>0, <1>5, <2>3
    <3>2. <<>> \in Seq(Strings) /\ p + 1 \in 1 .. Ended
      BY <2>0
    <3>3. StringLists[<<p + 1, <<>>>>] = ParseStrings(StringLists, document, p + 1, <<>>)
      BY <3>2, ListsExist, Zenon
    <3>4. ~At(document, p + 1, Strings)
      BY <2>3, AtIs
    <3>5. array = Broken
      BY <1>1, <1>2, <1>5, <2>3, <3>3, <3>4, ParseStringsIs, Zenon
    <3>6. \A q : ~ListAt(p, q)
      <4> SUFFICES ASSUME NEW q, ListAt(p, q) PROVE FALSE
        OBVIOUS
      <4>1. q \in p + 1 .. Ended /\ Level(q) = 1
        BY DEF ListAt, ValueAt
      <4>2. q = p + 1
        BY <1>0, <1>5, <3>1, <4>1
      <4> QED
        BY <2>0, <4>1, <4>2
    <3> QED
      BY <1>3, <3>5, <3>6, Zenon DEF array
  <2> QED
    BY <2>1, <2>2, <2>3
<1> QED
  BY <1>4, <1>5

\* parseWanted gives strings, further on, wherever it begins.
LEMMA ArrayRange ==
  ASSUME Readable, NEW p \in 1 .. Ended
  PROVE  /\ ParseStringArray(document, p).next \in Later(p)
         /\ ParseStringArray(document, p).values \in Seq(Strings)
<1>0. Len(document) \in Nat /\ Ended = Len(document) + 1 /\ Malformed = 0
  BY DEF Readable, Ended, Malformed
<1> DEFINE array == ParseStringArray(document, p)
<1>1. array = IF ~At(document, p, {"["}) THEN Broken
              ELSE IF At(document, p + 1, {"]"}) THEN [next |-> p + 2, values |-> <<>>]
              ELSE StringLists[<<p + 1, <<>>>>]
  BY Zenon DEF ParseStringArray, StringLists
<1> HIDE DEF array
<1>2. <<>> \in Seq(Strings)
  OBVIOUS
<1>3. Broken.next \in Later(p) /\ Broken.values \in Seq(Strings)
  BY <1>0 DEF Broken, Later
<1>4. CASE ~At(document, p, {"["})
  BY <1>1, <1>3, <1>4 DEF array
<1>5. CASE At(document, p, {"["}) /\ At(document, p + 1, {"]"})
  <2>1. p + 1 \in 1 .. Len(document)
    BY <1>5, AtIs
  <2>2. p + 2 \in Later(p)
    BY <1>0, <2>1 DEF Later
  <2>3. array = [next |-> p + 2, values |-> <<>>]
    BY <1>1, <1>5, Zenon
  <2> QED
    BY <1>2, <2>2, <2>3 DEF array
<1>6. CASE At(document, p, {"["}) /\ ~At(document, p + 1, {"]"})
  <2>1. p \in 1 .. Len(document)
    BY <1>6, AtIs
  <2>2. p + 1 \in 1 .. Ended
    BY <1>0, <2>1
  <2> DEFINE none == <<>>
             call == <<p + 1, none>>
  <2>3. none \in Seq(Strings) /\ array = StringLists[call]
    BY <1>1, <1>2, <1>6, Zenon
  <2> HIDE DEF none
  <2>4. call \in ListCalls /\ call[1] = p + 1
    BY <2>2, <2>3 DEF ListCalls
  <2> HIDE DEF call
  <2>5. StringLists[call] \in Lists /\ StringLists[call].next \in Later(p + 1)
    BY <2>4, ListsExist DEF ListCursors
  <2>6. array.next \in Later(p) /\ array.values \in Seq(Strings)
    BY <1>0, <2>3, <2>5 DEF Lists, Later
  <2> QED
    BY <2>6 DEF array
<1> QED
  BY <1>4, <1>5, <1>6

(***************************************************************************)
(* findTopLevelMember().                                                   *)
(***************************************************************************)
Named(p) == document[p] = "external_drivers"

\* Where the value of the member at p ends, and what the lookup is then.
NextMember(p) == IF Named(p) THEN ParseStringArray(document, p + 2).next ELSE End("value", p + 2, 0)
Found(p, result) ==
  IF Named(p) THEN Lookup("Found", ParseStringArray(document, p + 2).values) ELSE result

FindCalls == (1 .. Ended) \X Lookups
Findings == Lookups \cup {NoResult}
FindCursors == [FindCalls -> Findings]
Finder ==
  CHOOSE f : f = [s \in (1 .. Len(document) + 1) \X Lookups |-> FindMember(f, document, s[1], s[2])]

\* findTopLevelMember()'s loop in terms of Comma and EndBrace.
LEMMA FindMemberIs ==
  ASSUME NEW f, NEW p, NEW result
  PROVE  FindMember(f, document, p, result) =
           IF ~AtKey(document, p) \/ (Named(p) /\ result.status = "Found") THEN NoResult
           ELSE IF At(document, NextMember(p), {Comma})
                THEN f[<<NextMember(p) + 1, Found(p, result)>>]
           ELSE IF At(document, NextMember(p), {EndBrace}) /\ NextMember(p) + 1 = Ended
                THEN Found(p, result) ELSE NoResult
<1> DEFINE wanted == Named(p)
           array == ParseStringArray(document, p + 2)
           next == IF wanted THEN array.next ELSE Ends(document)[<<"value", p + 2, 0>>]
           found == IF wanted THEN Lookup("Found", array.values) ELSE result
<1>1. FindMember(f, document, p, result) =
        IF ~AtKey(document, p) \/ (wanted /\ result.status = "Found") THEN NoResult
        ELSE IF At(document, next, {","}) THEN f[<<next + 1, found>>]
        ELSE IF At(document, next, {"}"}) /\ next + 1 = Len(document) + 1 THEN found ELSE NoResult
  BY Zenon DEF FindMember, Ambiguous, AtEnd, Named
<1>2. next = NextMember(p) /\ found = Found(p, result)
  BY Zenon DEF NextMember, Found, End
<1> HIDE DEF next, found, wanted
<1> QED
  BY <1>1, <1>2, Zenon DEF Comma, EndBrace, Ended, wanted

\* Where a member's parts are, and how far its value can go.
LEMMA MemberRange ==
  ASSUME Readable, NEW p \in 1 .. Ended, NEW result \in Lookups, AtKey(document, p)
  PROVE  /\ document[p] \in Strings /\ document[p + 1] = ":" /\ p + 1 \in 1 .. Len(document)
         /\ p + 2 \in 1 .. Ended /\ p \in 1 .. Len(document)
         /\ NextMember(p) \in Later(p + 2) /\ Found(p, result) \in Lookups
<1>0. Len(document) \in Nat /\ Ended = Len(document) + 1 /\ MaxDepth \in Nat
  BY RegistrationLimits DEF Readable, Ended
<1>1. /\ p \in 1 .. Len(document) /\ document[p] \in Strings
      /\ p + 1 \in 1 .. Len(document) /\ document[p + 1] = ":"
  BY AtIs DEF AtKey
<1>2. p + 2 \in 1 .. Ended /\ 0 \in 0 .. MaxDepth
  BY <1>0, <1>1
<1>3. End("value", p + 2, 0) \in Later(p + 2)
  BY <1>2, EndBody
<1>4. /\ ParseStringArray(document, p + 2).next \in Later(p + 2)
      /\ ParseStringArray(document, p + 2).values \in Seq(Strings)
  BY <1>2, ArrayRange
<1>5. Found(p, result) \in Lookups
  BY <1>4 DEF Found, Lookup, Lookups
<1> QED
  BY <1>1, <1>2, <1>3, <1>4, <1>5 DEF NextMember

\* findTopLevelMember()'s loop only asks further on.
LEMMA FindDepends ==
  ASSUME Readable, NEW g \in FindCursors, NEW h, NEW p \in 1 .. Ended, NEW result \in Lookups,
         \A t \in FindCalls : ListRank(t) < Ended - p => g[t] = h[t]
  PROVE  /\ FindMember(g, document, p, result) \in Findings
         /\ FindMember(g, document, p, result) = FindMember(h, document, p, result)
<1>0. Len(document) \in Nat /\ Ended = Len(document) + 1 /\ NoResult \in Findings
  BY DEF Readable, Ended, Findings
<1>1. CASE ~AtKey(document, p) \/ (Named(p) /\ result.status = "Found")
  BY <1>0, <1>1, FindMemberIs
<1>2. CASE ~(~AtKey(document, p) \/ (Named(p) /\ result.status = "Found"))
  <2>1. NextMember(p) \in Later(p + 2) /\ Found(p, result) \in Lookups
    BY <1>2, MemberRange
  <2>2. Found(p, result) \in Findings
    BY <2>1 DEF Findings
  <2>3. CASE At(document, NextMember(p), {Comma})
    <3> DEFINE t == <<NextMember(p) + 1, Found(p, result)>>
    <3>1. NextMember(p) \in 1 .. Len(document) /\ NextMember(p) > p
      BY <1>0, <2>1, <2>3, AtIs DEF Later
    <3>2. t \in FindCalls /\ ListRank(t) < Ended - p
      BY <1>0, <2>1, <3>1 DEF FindCalls, ListRank
    <3>3. FindMember(g, document, p, result) = g[t] /\ FindMember(h, document, p, result) = h[t]
      BY <1>2, <2>3, FindMemberIs, Zenon
    <3> HIDE DEF t
    <3>4. g[t] \in Findings /\ g[t] = h[t]
      BY <3>2 DEF FindCursors
    <3> QED
      BY <3>3, <3>4
  <2>4. CASE ~At(document, NextMember(p), {Comma})
    <3> DEFINE r == IF At(document, NextMember(p), {EndBrace}) /\ NextMember(p) + 1 = Ended
                    THEN Found(p, result) ELSE NoResult
    <3>1. r \in Findings
      BY <1>0, <2>2, Zenon
    <3>2. FindMember(g, document, p, result) = r /\ FindMember(h, document, p, result) = r
      BY <1>2, <2>4, FindMemberIs, Zenon
    <3> HIDE DEF r
    <3> QED
      BY <3>1, <3>2
  <2> QED
    BY <2>3, <2>4
<1> QED
  BY <1>1, <1>2

\* Its function exists.
LEMMA FinderExists ==
  ASSUME Readable
  PROVE  /\ Finder \in FindCursors
         /\ \A p \in 1 .. Ended, result \in Lookups :
              Finder[<<p, result>>] = FindMember(Finder, document, p, result)
<1>0. Len(document) \in Nat /\ Ended = Len(document) + 1
  BY DEF Readable, Ended
<1> DEFINE D == FindCalls
           rank == [s \in D |-> ListRank(s)]
           B == [g \in FindCursors |-> [s \in D |-> FindMember(g, document, s[1], s[2])]]
           M == Ended + 1
<1>1. \A s \in D : s[1] \in 1 .. Ended /\ s[2] \in Lookups /\ rank[s] = Ended - s[1]
  BY DEF FindCalls, ListRank
<1>2. Ranked(D, rank, M)
  BY <1>0, <1>1 DEF Ranked
<1>3. ASSUME NEW g \in FindCursors, NEW h, NEW s \in D, \A t \in D : rank[t] < rank[s]
               => g[t] = h[t]
      PROVE  /\ FindMember(g, document, s[1], s[2]) \in Findings
             /\ FindMember(g, document, s[1], s[2]) = FindMember(h, document, s[1], s[2])
  <2>1. \A t \in FindCalls : ListRank(t) < Ended - s[1] => g[t] = h[t]
    BY <1>1, <1>3
  <2> QED
    BY <1>1, <2>1, FindDepends
<1>4. FindCursors # {}
  <2>1. NoResult \in Findings
    BY DEF Findings
  <2>2. [s \in D |-> NoResult] \in FindCursors
    BY <2>1, Zenon DEF FindCursors
  <2> QED
    BY <2>2, Zenon
<1>5. ASSUME NEW g \in FindCursors PROVE B[g] \in FindCursors
  <2>1. \A s \in D : FindMember(g, document, s[1], s[2]) \in Findings
    BY <1>3
  <2>2. [s \in D |-> FindMember(g, document, s[1], s[2])] \in FindCursors
    BY <2>1, Zenon DEF FindCursors
  <2> QED
    BY <2>2, Zenon
<1>6. ASSUME NEW g \in FindCursors, NEW h \in FindCursors, NEW s \in D,
             \A t \in D : rank[t] < rank[s] => g[t] = h[t]
      PROVE  B[g][s] = B[h][s]
  <2>1. FindMember(g, document, s[1], s[2]) = FindMember(h, document, s[1], s[2])
    BY <1>3, <1>6
  <2>2. \A k \in FindCursors : B[k] = [t \in D |-> FindMember(k, document, t[1], t[2])]
    BY Zenon
  <2> HIDE DEF B, D
  <2>3. \A k \in FindCursors : B[k][s] = FindMember(k, document, s[1], s[2])
    BY <2>2, Zenon
  <2> QED
    BY <2>1, <2>3, Zenon
<1>7. \E f \in FindCursors : \A s \in D : f[s] = B[f][s]
  <2> HIDE DEF D, rank, B, M
  <2>1. Contracts(D, rank, FindCursors, B)
    BY <1>4, <1>5, <1>6, Zenon DEF Contracts, Same
  <2> QED
    BY <1>2, <2>1, FixedPoint
<1>8. PICK g \in FindCursors : g = [s \in D |-> FindMember(g, document, s[1], s[2])]
  <2>1. PICK g \in FindCursors : \A s \in D : g[s] = B[g][s]
    BY <1>7
  <2>2. g = [s \in D |-> g[s]]
    BY DEF FindCursors
  <2>3. \A s \in D : g[s] = FindMember(g, document, s[1], s[2])
    BY <2>1
  <2> QED
    BY <2>2, <2>3
<1> DEFINE F == Finder
<1>9. F = [s \in D |-> FindMember(F, document, s[1], s[2])]
  <2>1. F = CHOOSE f : f = [s \in D |-> FindMember(f, document, s[1], s[2])]
    BY Zenon DEF Finder, FindCalls, Ended
  <2> QED
    BY <1>8, <2>1
<1> HIDE DEF F
<1>10. F = g
  <2>1. ASSUME NEW s \in D, \A t \in D : rank[t] < rank[s] => g[t] = F[t] PROVE g[s] = F[s]
    <3>1. FindMember(g, document, s[1], s[2]) = FindMember(F, document, s[1], s[2])
      BY <1>3, <2>1
    <3>2. g[s] = FindMember(g, document, s[1], s[2])
      BY <1>8
    <3>3. F[s] = FindMember(F, document, s[1], s[2])
      BY <1>9
    <3> QED
      BY <3>1, <3>2, <3>3
  <2>2. \A s \in D : g[s] = F[s]
    <3> HIDE DEF D, rank, M
    <3>1. SameByRank(D, rank, g, F)
      BY <2>1, Zenon DEF SameByRank, Same
    <3> QED
      BY <1>2, <3>1, EqualByRank
  <2>3. F = [s \in D |-> F[s]] /\ g = [s \in D |-> g[s]]
    BY <1>8, <1>9
  <2> QED
    BY <2>2, <2>3
<1>11. \A p \in 1 .. Ended, result \in Lookups : F[<<p, result>>] =
         FindMember(F, document, p, result)
  <2> SUFFICES ASSUME NEW p \in 1 .. Ended, NEW result \in Lookups
               PROVE  F[<<p, result>>] = FindMember(F, document, p, result)
    OBVIOUS
  <2> DEFINE s == <<p, result>>
  <2>1. s \in D /\ s[1] = p /\ s[2] = result
    BY DEF FindCalls
  <2> HIDE DEF s
  <2>2. F[s] = FindMember(F, document, s[1], s[2])
    BY <1>9, <2>1
  <2> QED
    BY <2>1, <2>2 DEF s
<1> QED
  BY <1>8, <1>10, <1>11 DEF F

\* The values of the members named external_drivers among those from p on.
Wanted(p) == {i \in p + 2 .. Len(document) : Named(i - 2) /\ document[i - 1] = ":"
  /\ Level(i - 2) = 1}

\* Those after the member at p, and its own.
LEMMA WantedSplits ==
  ASSUME Readable, document[1] = Brace, Level(1) = 0, NEW p, NEW r, Starts(1, p), PartAt(1, p, r),
         r \in 1 .. Len(document), document[r] \in {Comma, Close(1)}
  PROVE  /\ Wanted(p) = Wanted(r + 1) \cup (IF Named(p) THEN {p + 2} ELSE {})
         /\ p + 2 \notin Wanted(r + 1) /\ p + 2 \in 1 .. Len(document) /\ Level(p + 2) = 1
<1>0. /\ Len(document) \in Nat /\ Ended = Len(document) + 1 /\ Malformed = 0
      /\ p \in 1 .. Len(document) /\ Inside(1, p) /\ Level(p) = 1 /\ p \in Nat
  BY StartsRange DEF Malformed
<1>1. document[p] \in Strings /\ document[p + 1] = ":" /\ ValueAt(p + 2, r)
  BY DEF PartAt
<1>2. p + 2 \in 1 .. Len(document) /\ p + 1 \in 1 .. Len(document) /\ r \in p + 3 .. Len(document)
      /\ (p + 1) + 1 = p + 2 /\ (p + 2) + 1 = p + 3
  BY <1>0, <1>1 DEF ValueAt
<1>3. Level(p + 1) = 1 /\ Level(p + 2) = 1
  <2>1. document[p] \notin Openers \cup Closers /\ document[p + 1] \notin Openers \cup Closers
    BY <1>1, TokensApart
  <2>2. Level(p + 1) = 1
    BY <1>0, <2>1, LevelStep
  <2> QED
    BY <1>2, <2>1, <2>2, LevelStep
<1>4. "external_drivers" \in Strings /\ ":" \notin Strings /\ ":" \notin {Comma, Close(1)}
  BY MarksApart DEF Strings, Paths, Close
<1>5. \A t \in {Comma, Close(1)} : t \notin Strings
  BY TokensApart DEF Close
<1>6. ASSUME NEW i \in Wanted(p) PROVE i = p + 2 \/ i \in Wanted(r + 1)
  <2>1. /\ i \in p + 2 .. Len(document) /\ Named(i - 2) /\ document[i - 1] = ":" /\ Level(i - 2) = 1
        /\ document[i - 2] \in Strings
    BY <1>4 DEF Wanted, Named
  <2>2. i # p + 3
    <3>1. i = p + 3 => i - 2 = p + 1
      BY <1>0
    <3> QED
      BY <1>1, <1>4, <2>1, <3>1
  <2>3. i # p + 4
    <3>1. SUFFICES ASSUME i = p + 4 PROVE FALSE
      OBVIOUS
    <3>2. i - 2 = p + 2 /\ i - 1 = p + 3
      BY <1>0, <3>1
    <3>3. document[p + 2] \in Simple
      BY <2>1, <3>2, TokensApart
    <3>4. r = p + 3
      BY <1>1, <1>2, <3>3, ValueEnds
    <3> QED
      BY <1>4, <2>1, <3>2, <3>4
  <2>4. i - 2 \notin (p + 2) + 1 .. r - 1
    BY <1>1, <1>3, <2>1 DEF ValueAt
  <2>5. i - 2 # r
    BY <1>5, <2>1
  <2>6. i = p + 2 \/ i \in (r + 1) + 2 .. Len(document)
    BY <1>0, <1>2, <2>1, <2>2, <2>3, <2>4, <2>5
  <2> QED
    BY <2>1, <2>6 DEF Wanted
<1>7. Wanted(r + 1) \subseteq Wanted(p)
  BY <1>0, <1>2 DEF Wanted
<1>8. p + 2 \in Wanted(p) <=> Named(p)
  <2>1. (p + 2) - 2 = p /\ (p + 2) - 1 = p + 1 /\ p + 2 \in p + 2 .. Len(document)
    BY <1>0, <1>2
  <2> QED
    BY <1>0, <1>1, <2>1 DEF Wanted
<1>9. p + 2 \notin Wanted(r + 1)
  BY <1>0, <1>2 DEF Wanted
<1> QED
  BY <1>2, <1>3, <1>6, <1>7, <1>8, <1>9

\* From p on the object is well formed, and has one wanted member at most, of strings.
Clean(p, result) ==
  /\ RestAt(1, p, Ended)
  /\ \A i \in Wanted(p) : \E q : ListAt(i, q)
  /\ \A i \in Wanted(p), j \in Wanted(p) : i = j
  /\ result.status = "Found" => Wanted(p) = {}

Holds(values, i) ==
  \A q : ListAt(i, q) => \A path \in Strings : Occurring(values, path) =
    Cardinality(Tokened(i + 1, q - 1, path))

\* The members from p on are found to be what they are.
FindReads(p, result) ==
  LET found == Finder[<<p, result>>] IN
  /\ found \in Findings
  /\ found.status # "Malformed" <=> Clean(p, result)
  /\ Clean(p, result) /\ Wanted(p) = {} => found = result
  /\ Clean(p, result) => \A i \in Wanted(p) : found.status = "Found" /\ Holds(found.values, i)

\* A list of strings has one end.
LEMMA ListUnique ==
  ASSUME Readable, NEW p \in 1 .. Ended, Level(p) = 1, NEW q, NEW r, ListAt(p, q), ListAt(p, r)
  PROVE  q = r
<1>1. p \in 1 .. Len(document)
  BY DEF ListAt, ValueAt
<1>2. \A e : e # Malformed /\ ParseStringArray(document, p).next = e <=> p \in 1 .. Len(document)
        /\ ListAt(p, e)
  BY ArrayReads
<1> QED
  BY <1>1, <1>2

\* The parser takes the value of a member, or the array wanted, for what it is.
LEMMA NextMemberReads ==
  ASSUME Readable, document[1] = Brace, Level(1) = 0, NEW p, Starts(1, p), AtKey(document, p), NEW r
  PROVE  r # Malformed /\ NextMember(p) = r <=>
           PartAt(1, p, r) /\ (Named(p) => ListAt(p + 2, r))
<1>0. /\ Len(document) \in Nat /\ Ended = Len(document) + 1 /\ MaxDepth \in Nat
      /\ p \in 1 .. Len(document) /\ Inside(1, p) /\ Level(p) = 1
  BY StartsRange, RegistrationLimits
<1>1. /\ document[p] \in Strings /\ document[p + 1] = ":" /\ p + 1 \in 1 .. Len(document)
      /\ p + 2 \in 1 .. Ended /\ (p + 1) + 1 = p + 2
  BY <1>0, AtIs DEF AtKey
<1>2. Level(p + 2) = 1
  <2>1. document[p] \notin Openers \cup Closers /\ document[p + 1] \notin Openers \cup Closers
    BY <1>1, TokensApart
  <2>2. Level(p + 1) = 1
    BY <1>0, <2>1, LevelStep
  <2> QED
    BY <1>1, <2>1, <2>2, LevelStep
<1>3. PartAt(1, p, r) <=> ValueAt(p + 2, r)
  BY <1>1 DEF PartAt
<1>4. CASE Named(p)
  <2>1. \A e : e # Malformed /\ ParseStringArray(document, p + 2).next = e
                 <=> p + 2 \in 1 .. Len(document) /\ ListAt(p + 2, e)
    BY <1>1, <1>2, ArrayReads
  <2>2. ListAt(p + 2, r) => ValueAt(p + 2, r) /\ p + 2 \in 1 .. Len(document)
    BY DEF ListAt, ValueAt
  <2> QED
    BY <1>3, <1>4, <2>1, <2>2, Zenon DEF NextMember
<1>5. CASE ~Named(p)
  <2>1. CASE p + 2 \in 1 .. Len(document)
    <3>1. ReadsValue(p + 2)
      BY <2>1, EndsRead
    <3>2. 0 \in 0 .. MaxDepth /\ Level(p + 2) = 0 + 1
      BY <1>0, <1>2
    <3>3. r # Malformed /\ End("value", p + 2, 0) = r <=> ValueAt(p + 2, r)
      BY <3>1, <3>2 DEF ReadsValue
    <3> QED
      BY <1>3, <1>5, <3>3, Zenon DEF NextMember
  <2>2. CASE p + 2 \notin 1 .. Len(document)
    <3>1. p + 2 = Ended /\ 0 \in 0 .. MaxDepth
      BY <1>0, <1>1, <2>2
    <3>2. End("value", p + 2, 0) = Malformed
      BY <3>1, NothingLeft
    <3>3. ~ValueAt(p + 2, r)
      BY <2>2 DEF ValueAt
    <3> QED
      BY <1>3, <1>5, <3>2, <3>3, Zenon DEF NextMember
  <2> QED
    BY <2>1, <2>2
<1> QED
  BY <1>4, <1>5

\* Where the object goes on, it goes on with a member.
LEMMA RestHasKey ==
  ASSUME Readable, document[1] = Brace, Level(1) = 0, NEW p, NEW q, Starts(1, p), RestAt(1, p, q)
  PROVE  /\ Named(p) => p + 2 \in Wanted(p)
         /\ AtKey(document, p) /\ \E r : PartAt(1, p, r)
<1>0. /\ Len(document) \in Nat /\ p \in 1 .. Len(document) /\ Level(p) = 1
  BY StartsRange
<1>1. PICK r \in p + 1 .. q - 1 : PartAt(1, p, r)
  BY PartExists
<1>2. /\ document[p] \in Strings /\ document[p + 1] = ":" /\ p + 2 \in 1 .. Len(document)
  BY <1>1 DEF PartAt, ValueAt
<1>3. p + 1 \in 1 .. Len(document) /\ (p + 2) - 2 = p /\ (p + 2) - 1 = p + 1
  BY <1>0, <1>2
<1>4. AtKey(document, p)
  BY <1>0, <1>2, <1>3, AtIs DEF AtKey
<1>5. Named(p) => p + 2 \in Wanted(p)
  BY <1>0, <1>2, <1>3 DEF Wanted
<1> QED
  BY <1>1, <1>4, <1>5

\* Nothing is found where something is wrong.
LEMMA FindRejects ==
  ASSUME NEW p, NEW result, Finder[<<p, result>>] = NoResult, ~Clean(p, result)
  PROVE  FindReads(p, result)
<1>1. NoResult \in Findings /\ NoResult.status = "Malformed"
  BY DEF Findings, NoResult, Lookup
<1> QED
  BY <1>1, Zenon DEF FindReads

\* What is found where the member at p ends before r, and those after it are found to be.
GoesOn(p, r, result, found) ==
  LET next == Found(p, result)
      clean == /\ \A i \in Wanted(r + 1) : \E q : ListAt(i, q)
               /\ \A i \in Wanted(r + 1), j \in Wanted(r + 1) : i = j
               /\ next.status = "Found" => Wanted(r + 1) = {}
      rest == RestAt(1, p, Ended)
  IN  /\ found.status # "Malformed" <=> rest /\ clean
      /\ rest /\ clean /\ Wanted(r + 1) = {} => found = next
      /\ rest /\ clean => \A i \in Wanted(r + 1) : found.status = "Found" /\ Holds(found.values, i)

\* A member whose value is what it must be, and those after it.
LEMMA FindGoesOn ==
  ASSUME Readable, document[1] = Brace, Level(1) = 0, NEW p, NEW r, Starts(1, p), PartAt(1, p, r),
         r \in 1 .. Len(document), document[r] \in {Comma, Close(1)},
         NEW result \in Lookups, Named(p) => ListAt(p + 2, r) /\ result.status # "Found",
         NEW found \in Findings,
         GoesOn(p, r, result, found),
         Finder[<<p, result>>] = found,
         Named(p) => Holds(ParseStringArray(document, p + 2).values, p + 2)
  PROVE  FindReads(p, result)
<1> DEFINE W == Wanted(r + 1)
           V == Wanted(p)
           next == Found(p, result)
           clean == /\ \A i \in W : \E q : ListAt(i, q)
                    /\ \A i \in W, j \in W : i = j
                    /\ next.status = "Found" => W = {}
           rest == RestAt(1, p, Ended)
<1>1. /\ found.status # "Malformed" <=> rest /\ clean
      /\ rest /\ clean /\ W = {} => found = next
      /\ rest /\ clean => \A i \in W : found.status = "Found" /\ Holds(found.values, i)
  BY Zenon DEF GoesOn
<1>2. V = W \cup (IF Named(p) THEN {p + 2} ELSE {}) /\ p + 2 \notin W
  BY WantedSplits
<1>3. Clean(p, result) <=> /\ rest
                           /\ \A i \in V : \E q : ListAt(i, q)
                           /\ \A i \in V, j \in V : i = j
                           /\ result.status = "Found" => V = {}
  BY Zenon DEF Clean
<1>4. CASE ~Named(p)
  <2>1. V = W /\ next = result
    BY <1>2, <1>4 DEF Found
  <2> HIDE DEF V, W, rest, next
  <2>2. Clean(p, result) <=> rest /\ clean
    BY <1>3, <2>1, Zenon
  <2>3. /\ found.status # "Malformed" <=> Clean(p, result)
        /\ Clean(p, result) /\ V = {} => found = result
        /\ Clean(p, result) => \A i \in V : found.status = "Found" /\ Holds(found.values, i)
    <3> HIDE DEF clean
    <3> QED
      BY <1>1, <2>1, <2>2, Zenon
  <2> QED
    BY <2>3, Zenon DEF FindReads, V
<1>5. CASE Named(p)
  <2>1. V = W \cup {p + 2} /\ p + 2 \notin W
    BY <1>2, <1>5
  <2>2. next.status = "Found" /\ next.values = ParseStringArray(document, p + 2).values
    BY <1>5 DEF Found, Lookup
  <2>3. ListAt(p + 2, r) /\ result.status # "Found" /\ Holds(next.values, p + 2)
    BY <1>5, <2>2
  <2> DEFINE x == p + 2
  <2> HIDE DEF V, W, rest, next, x
  <2>4. V = W \cup {x} /\ x \notin W /\ ListAt(x, r) /\ Holds(next.values, x)
    BY <2>1, <2>3 DEF x
  <2>5. (\A i \in V, j \in V : i = j) <=> W = {}
    BY <2>4
  <2>6. clean <=> W = {}
    BY <2>2, Zenon
  <2>7. W = {} => \A i \in V : \E q : ListAt(i, q)
    BY <2>4
  <2>8. Clean(p, result) <=> rest /\ clean
    BY <1>3, <2>3, <2>5, <2>6, <2>7, Zenon
  <2>9. V # {}
    BY <2>4
  <2>10. ASSUME Clean(p, result) PROVE \A i \in V : found.status = "Found" /\ Holds(found.values, i)
    <3>1. found = next /\ \A i \in V : i = x
      BY <1>1, <2>4, <2>6, <2>8, <2>10
    <3> QED
      BY <2>2, <2>4, <3>1
  <2>11. found.status # "Malformed" <=> Clean(p, result)
    <3> HIDE DEF clean
    <3> QED
      BY <1>1, <2>8, Zenon
  <2> QED
    BY <2>9, <2>10, <2>11, Zenon DEF FindReads, V
<1> QED
  BY <1>4, <1>5

\* The members from p on, if those after p are read right.
LEMMA FindReadsOn ==
  ASSUME Readable, document[1] = Brace, Level(1) = 0, NEW p, Starts(1, p), NEW result \in Lookups,
         \A j \in p + 1 .. Len(document), next \in Lookups : Starts(1, j) => FindReads(j, next)
  PROVE  FindReads(p, result)
<1>0. /\ Len(document) \in Nat /\ Ended = Len(document) + 1 /\ Malformed = 0
      /\ p \in 1 .. Len(document) /\ p \in 1 .. Ended /\ Level(p) = 1
  BY StartsRange DEF Malformed
<1> DEFINE found == Finder[<<p, result>>]
           r == NextMember(p)
<1>1. found = IF ~AtKey(document, p) \/ (Named(p) /\ result.status = "Found") THEN NoResult
              ELSE IF At(document, r, {Comma}) THEN Finder[<<r + 1, Found(p, result)>>]
              ELSE IF At(document, r, {EndBrace}) /\ r + 1 = Ended THEN Found(p, result)
                ELSE NoResult
  <2>1. found = FindMember(Finder, document, p, result)
    BY <1>0, FinderExists
  <2> QED
    BY <2>1, FindMemberIs, Zenon
<1>2. CASE ~AtKey(document, p)
  <2>1. ~Clean(p, result)
    BY <1>2, RestHasKey DEF Clean
  <2>2. found = NoResult
    BY <1>1, <1>2, Zenon
  <2> QED
    BY <2>1, <2>2, FindRejects
<1>3. CASE AtKey(document, p) /\ Named(p) /\ result.status = "Found"
  <2>1. ~Clean(p, result)
    BY <1>3, RestHasKey DEF Clean
  <2>2. found = NoResult
    BY <1>1, <1>3, Zenon
  <2> QED
    BY <2>1, <2>2, FindRejects
<1>4. CASE AtKey(document, p) /\ ~(Named(p) /\ result.status = "Found")
  <2>1. /\ found = IF At(document, r, {Comma}) THEN Finder[<<r + 1, Found(p, result)>>]
                   ELSE IF At(document, r, {EndBrace}) /\ r + 1 = Ended THEN Found(p, result)
                   ELSE NoResult
    BY <1>1, <1>4, Zenon
  <2>2. /\ r \in Later(p + 2) /\ Found(p, result) \in Lookups /\ p + 2 \in 1 .. Ended
        /\ \A e : e # Malformed /\ r = e <=> PartAt(1, p, e) /\ (Named(p) => ListAt(p + 2, e))
    BY <1>0, <1>4, MemberRange, NextMemberReads
  <2>3. /\ At(document, r, {Comma}) <=> r \in 1 .. Len(document) /\ document[r] = Comma
        /\ At(document, r, {EndBrace}) <=> r \in 1 .. Len(document) /\ document[r] = EndBrace
        /\ Close(1) = EndBrace /\ Comma # EndBrace
    BY AtIs, MarksApart DEF Close
  <2>4. CASE r = Malformed
    <3>1. found = NoResult
      BY <1>0, <2>1, <2>3, <2>4
    <3>2. ~Clean(p, result)
      <4>1. SUFFICES ASSUME Clean(p, result) PROVE FALSE
        OBVIOUS
      <4>2. PICK e : PartAt(1, p, e)
        BY <4>1, RestHasKey DEF Clean
      <4>3. CASE Named(p)
        <5>1. PICK q : ListAt(p + 2, q)
          BY <4>1, <4>3, RestHasKey DEF Clean
        <5>2. document[p] \in Strings /\ document[p + 1] = ":" /\ ValueAt(p + 2, q)
          BY <4>2, <5>1 DEF PartAt, ListAt
        <5>3. PartAt(1, p, q)
          BY <5>2 DEF PartAt
        <5> QED
          BY <2>2, <2>4, <5>1, <5>3
      <4>4. CASE ~Named(p)
        BY <2>2, <2>4, <4>2, <4>4
      <4> QED
        BY <4>3, <4>4
    <3> QED
      BY <3>1, <3>2, FindRejects
  <2>5. CASE r # Malformed
    <3>1. PartAt(1, p, r) /\ (Named(p) => ListAt(p + 2, r))
      BY <2>2, <2>5
    <3>2. \A q : RestAt(1, p, q) <=>
            /\ r \in 1 .. Len(document)
            /\ \/ document[r] = EndBrace /\ q = r + 1
               \/ document[r] = Comma /\ Starts(1, r + 1) /\ RestAt(1, r + 1, q)
      BY <2>3, <3>1, RestSplits
    <3>3. Named(p) => Holds(ParseStringArray(document, p + 2).values, p + 2)
      <4>1. SUFFICES ASSUME Named(p) PROVE Holds(ParseStringArray(document, p + 2).values, p + 2)
        OBVIOUS
      <4>2. r = ParseStringArray(document, p + 2).next /\ ListAt(p + 2, r)
        BY <3>1, <4>1 DEF NextMember
      <4>3. Level(p + 2) = 1
        <5>1. document[p] \notin Openers \cup Closers /\ document[p + 1] \notin Openers \cup Closers
          BY <3>1, TokensApart DEF PartAt
        <5>2. p + 1 \in 1 .. Len(document) /\ (p + 1) + 1 = p + 2
          BY <1>0, <2>2
        <5>3. Level(p + 1) = 1
          BY <1>0, <5>1, LevelStep
        <5> QED
          BY <5>1, <5>2, <5>3, LevelStep
      <4>4. \A path \in Strings : Occurring(ParseStringArray(document, p + 2).values, path) =
              Cardinality(Tokened((p + 2) + 1, r - 1, path))
        <5>1. ParseStringArray(document, p + 2).next # Malformed => \A path \in Strings :
                Occurring(ParseStringArray(document, p + 2).values, path) =
                  Cardinality(Tokened((p + 2) + 1, ParseStringArray(document, p + 2).next - 1,
                    path))
          BY <2>2, <4>3, ArrayReads
        <5> QED
          BY <2>5, <4>2, <5>1, Zenon
      <4>5. \A q : ListAt(p + 2, q) => q = r
        BY <2>2, <4>2, <4>3, ListUnique
      <4> QED
        BY <4>4, <4>5, Zenon DEF Holds
    <3>4. CASE ~(r \in 1 .. Len(document) /\ document[r] \in {Comma, EndBrace})
      <4>1. found = NoResult
        BY <2>1, <2>3, <3>4
      <4>2. ~Clean(p, result)
        BY <3>2, <3>4 DEF Clean
      <4> QED
        BY <4>1, <4>2, FindRejects
    <3>5. CASE r \in 1 .. Len(document) /\ document[r] = EndBrace /\ r + 1 # Ended
      <4>1. found = NoResult
        BY <2>1, <2>3, <3>5
      <4>2. ~RestAt(1, p, Ended)
        BY <2>3, <3>2, <3>5
      <4>3. ~Clean(p, result)
        BY <4>2 DEF Clean
      <4> QED
        BY <4>1, <4>3, FindRejects
    <3>6. CASE r \in 1 .. Len(document) /\ document[r] = EndBrace /\ r + 1 = Ended
      <4>1. found = Found(p, result)
        BY <2>1, <2>3, <3>6
      <4>2. RestAt(1, p, Ended)
        BY <3>2, <3>6
      <4>3. Wanted(r + 1) = {}
        BY <1>0, <3>6 DEF Wanted
      <4>4. found \in Findings /\ found.status # "Malformed"
        BY <2>2, <4>1 DEF Findings, Lookups
      <4>5. GoesOn(p, r, result, found)
        BY <4>1, <4>2, <4>3, <4>4, Zenon DEF GoesOn
      <4> QED
        BY <1>4, <2>3, <3>1, <3>3, <3>6, <4>4, <4>5, FindGoesOn
    <3>7. CASE r \in 1 .. Len(document) /\ document[r] = Comma
      <4> DEFINE next == Found(p, result)
      <4>1. found = Finder[<<r + 1, next>>] /\ next \in Lookups
        BY <2>1, <2>2, <2>3, <3>7
      <4>2. RestAt(1, p, Ended) <=> Starts(1, r + 1) /\ RestAt(1, r + 1, Ended)
        BY <2>3, <3>2, <3>7
      <4>3. CASE r + 1 = Ended
        <5>1. ~AtKey(document, r + 1)
          BY <1>0, <4>3, AtIs DEF AtKey
        <5>2. r + 1 \in 1 .. Ended
          BY <1>0, <4>3
        <5>3. Finder[<<r + 1, next>>] = FindMember(Finder, document, r + 1, next)
          <6> HIDE DEF next
          <6> QED
            BY <4>1, <5>2, FinderExists, Zenon
        <5>4. found = NoResult
          BY <4>1, <5>1, <5>3, FindMemberIs, Zenon
        <5>5. ~RestAt(1, r + 1, Ended)
          BY <1>0, <4>3 DEF RestAt
        <5>6. ~Clean(p, result)
          BY <4>2, <5>5 DEF Clean
        <5> QED
          BY <5>4, <5>6, FindRejects
      <4>4. CASE r + 1 # Ended
        <5>1. r + 1 \in p + 1 .. Len(document) /\ r + 1 \in 1 .. Len(document)
          BY <1>0, <2>2, <3>7, <4>4 DEF Later
        <5>2. Starts(1, r + 1)
          BY <3>1, <3>7, <5>1, AfterPart, StartsAgain
        <5>3. FindReads(r + 1, next)
          <6> HIDE DEF next
          <6> QED
            BY <4>1, <5>1, <5>2
        <5>4. RestAt(1, p, Ended) <=> RestAt(1, r + 1, Ended)
          BY <4>2, <5>2
        <5>5. found \in Findings
          BY <4>1, <5>3 DEF FindReads
        <5>6. GoesOn(p, r, result, found)
          BY <4>1, <5>3, <5>4, Zenon DEF GoesOn, FindReads, Clean
        <5> QED
          BY <1>4, <2>3, <3>1, <3>3, <3>7, <5>5, <5>6, FindGoesOn
      <4> QED
        BY <4>3, <4>4
    <3> QED
      BY <3>4, <3>5, <3>6, <3>7
  <2> QED
    BY <2>4, <2>5
<1> QED
  BY <1>2, <1>3, <1>4

\* findTopLevelMember() from any member on.
LEMMA FindsRead ==
  ASSUME Readable, document[1] = Brace, Level(1) = 0
  PROVE  \A p \in 1 .. Len(document), result \in Lookups : Starts(1, p) => FindReads(p, result)
<1>1. Len(document) \in Nat
  BY DEF Readable
<1> DEFINE T == {m \in Nat : \A p \in 1 .. Len(document), result \in Lookups :
                   p + m > Len(document) /\ Starts(1, p) => FindReads(p, result)}
<1>2. 0 \in T
  BY <1>1
<1>3. ASSUME NEW m \in T PROVE m + 1 \in T
  <2>1. \A p \in 1 .. Len(document), result \in Lookups :
          p + m > Len(document) /\ Starts(1, p) => FindReads(p, result)
    OBVIOUS
  <2>2. ASSUME NEW p \in 1 .. Len(document), NEW result \in Lookups,
               p + (m + 1) > Len(document), Starts(1, p)
        PROVE  FindReads(p, result)
    <3>1. \A j \in p + 1 .. Len(document), next \in Lookups : Starts(1, j) => FindReads(j, next)
      BY <1>1, <2>1, <2>2
    <3> QED
      BY <2>2, <3>1, FindReadsOn
  <2> QED
    BY <2>2
<1> HIDE DEF T
<1>4. T = Nat
  <2>1. T \in SUBSET Nat
    BY DEF T
  <2> QED
    BY <1>2, <1>3, <2>1, SetInduction
<1>5. Len(document) \in T
  BY <1>1, <1>4
<1>6. \A p \in 1 .. Len(document), result \in Lookups :
        p + Len(document) > Len(document) /\ Starts(1, p) => FindReads(p, result)
  BY <1>5 DEF T
<1> QED
  BY <1>1, <1>6

Nothing == Lookup("Missing", <<>>)

\* findJsonStringArray() in terms of Brace and EndBrace.
LEMMA FindJsonStringArrayIs ==
  FindJsonStringArray(document) =
    IF ~At(document, 1, {Brace}) THEN NoResult
    ELSE IF At(document, 2, {EndBrace}) THEN IF 3 = Ended THEN Nothing ELSE NoResult
    ELSE Finder[<<2, Nothing>>]
BY Zenon DEF FindJsonStringArray, Finder, Brace, EndBrace, AtEnd, Ended, Nothing

\* JSON is an empty object, or one that is read from its second token to the end.
LEMMA WellFormedIs ==
  ASSUME Readable
  PROVE  WellFormed <=> /\ Len(document) > 0 /\ document[1] = Brace
                        /\ \/ Len(document) = 2 /\ document[2] = EndBrace
                           \/ RestAt(1, 2, Ended)
<1>0. Len(document) \in Nat /\ Ended = Len(document) + 1 /\ MaxDepth \in Nat \ {0} /\ Level(1) = 0
  BY RegistrationLimits, LevelFirst DEF Readable, Ended
<1>1. WellFormed <=> /\ Len(document) > 0 /\ document[1] = Brace /\ Level(Ended) = 0
                     /\ \A i \in 2 .. Len(document) : Level(i) > 0
                     /\ \A i \in 2 .. Len(document) : Fits(i)
                     /\ \A i \in 1 .. Len(document) : document[i] \in Openers
                          => Level(i) <= MaxDepth
  BY Zenon DEF WellFormed, Brace, Ended
<1> SUFFICES ASSUME Len(document) > 0, document[1] = Brace
    PROVE  WellFormed <=> \/ Len(document) = 2 /\ document[2] = EndBrace
                          \/ RestAt(1, 2, Ended)
  BY <1>1
<1>2. /\ document[1] \in Openers /\ First(1) = Strings /\ Close(1) = EndBrace
      /\ 1 \in 1 .. Len(document) /\ 1 + 1 = 2 /\ 2 - 1 = 1
  BY <1>0, TokensApart DEF First, Close
<1>3. Level(2) = 1
  BY <1>0, <1>2, LevelStep
<1>4. WellFormed <=> Level(Ended) = 0 /\ \A i \in 2 .. Len(document) : Level(i) > 0 /\ Sound(i)
  BY <1>0, <1>1 DEF Sound
<1>5. CASE Len(document) = 1
  <2>1. Ended = 2 /\ 2 \notin 1 .. Len(document) /\ Len(document) # 2
    BY <1>0, <1>5
  <2>2. ~WellFormed /\ ~RestAt(1, 2, Ended)
    BY <1>3, <1>4, <2>1 DEF RestAt
  <2> QED
    BY <2>1, <2>2
<1>6. CASE Len(document) > 1
  <2>1. 2 \in 1 .. Len(document) /\ Inside(1, 2) /\ Starts(1, 2)
    BY <1>0, <1>2, <1>6, InsideFirst
  <2>2. /\ document[2] \in Strings => Fits(2)
        /\ document[2] = EndBrace => Fits(2)
        /\ Fits(2) => document[2] \in Strings \/ document[2] = EndBrace
    BY <1>2, <2>1, FitsStart
  <2>3. CASE document[2] \in Strings
    <3>1. document[2] # EndBrace
      BY <2>3, TokensApart
    <3>2. RestAt(1, 2, Ended) <=> Level(Ended) = 0 /\ \A i \in 2 .. Ended - 1 : Level(i) > 0
            /\ Sound(i)
      BY <1>0, <1>2, <1>6, <2>1, <2>3 DEF RestAt
    <3>3. Ended - 1 = Len(document)
      BY <1>0
    <3>4. WellFormed <=> RestAt(1, 2, Ended)
      BY <1>4, <3>2, <3>3, Zenon
    <3> QED
      BY <3>1, <3>4
  <2>4. CASE document[2] = EndBrace
    <3>1. document[2] \in Closers /\ document[2] \notin Strings /\ document[2] \notin Openers
      BY <2>4, TokensApart
    <3>2. ~RestAt(1, 2, Ended)
      BY <1>2, <3>1 DEF RestAt
    <3>3. Level(2 + 1) = Level(2) - 1
      BY <2>1, <3>1, LevelStep
    <3>4. CASE Len(document) = 2
      <4>1. Ended = 3 /\ 2 + 1 = 3 /\ \A i \in 2 .. Len(document) : i = 2
        BY <1>0, <3>4
      <4>2. Level(Ended) = 0 /\ Level(2) > 0 /\ Sound(2)
        BY <1>3, <2>2, <2>4, <3>1, <3>3, <4>1 DEF Sound
      <4>3. WellFormed
        BY <1>4, <4>1, <4>2
      <4> QED
        BY <2>4, <3>4, <4>3
    <3>5. CASE Len(document) # 2
      <4>1. 2 + 1 = 3 /\ 3 \in 2 .. Len(document)
        <5> DEFINE n == Len(document)
        <5>1. n \in Nat /\ n > 1 /\ n # 2
          BY <1>0, <1>6, <3>5
        <5> HIDE DEF n
        <5>2. 2 + 1 = 3 /\ 3 \in 2 .. n
          BY <5>1
        <5> QED
          BY <5>2 DEF n
      <4>2. ~(Level(3) > 0)
        BY <1>3, <3>3, <4>1
      <4>3. ~WellFormed
        BY <1>4, <4>1, <4>2, Zenon
      <4> QED
        BY <3>2, <3>5, <4>3, Zenon
    <3> QED
      BY <3>4, <3>5
  <2>5. CASE document[2] \notin Strings /\ document[2] # EndBrace
    <3>1. ~Fits(2) /\ ~RestAt(1, 2, Ended)
      BY <1>2, <2>2, <2>5 DEF RestAt
    <3> QED
      BY <1>4, <1>6, <2>1, <2>5, <3>1 DEF Sound
  <2> QED
    BY <2>3, <2>4, <2>5
<1>7. Len(document) = 1 \/ Len(document) > 1
  BY <1>0
<1> QED
  BY <1>5, <1>6, <1>7, Zenon

\* The first token of an object is not the key of one of its members.
LEMMA MembersAre ==
  ASSUME Readable, document[1] = Brace
  PROVE  Members = Wanted(2)
<1>1. Len(document) \in Nat
  BY DEF Readable
<1>2. ~Named(1)
  <2>1. document[1] \notin Strings
    BY TokensApart
  <2> QED
    BY <2>1 DEF Named, Strings
<1>3. Members = {i \in 3 .. Len(document) : Named(i - 2) /\ document[i - 1] = ":"
        /\ Level(i - 2) = 1}
  BY Zenon DEF Members, Named
<1>4. \A i \in 3 .. Len(document) : Named(i - 2) => i \in 2 + 2 .. Len(document)
  BY <1>1, <1>2
<1>5. \A i \in 2 + 2 .. Len(document) : i \in 3 .. Len(document)
  BY <1>1
<1> QED
  BY <1>3, <1>4, <1>5 DEF Wanted

\* What the reference asks of a document, position by position.
LEMMA WellFormedGives ==
  ASSUME Readable, WellFormed
  PROVE  /\ Len(document) \in Nat /\ Ended = Len(document) + 1 /\ 1 \in 1 .. Len(document)
         /\ document[1] = Brace /\ document[1] \in Openers /\ Level(1) = 0 /\ Level(Ended) = 0
         /\ \A i \in 2 .. Len(document) : Level(i) > 0 /\ Sound(i)
<1>0. Len(document) \in Nat /\ Ended = Len(document) + 1 /\ Level(1) = 0
  BY LevelFirst DEF Readable, Ended
<1>1. /\ Len(document) > 0 /\ document[1] = Brace /\ Level(Ended) = 0
      /\ \A i \in 2 .. Len(document) : Level(i) > 0
      /\ \A i \in 2 .. Len(document) : Fits(i)
      /\ \A i \in 1 .. Len(document) : document[i] \in Openers => Level(i) <= MaxDepth
  BY Zenon DEF WellFormed, Brace, Ended
<1>2. document[1] \in Openers /\ 1 \in 1 .. Len(document)
  BY <1>0, <1>1, TokensApart
<1>3. \A i \in 2 .. Len(document) : Level(i) > 0 /\ Sound(i)
  BY <1>0, <1>1 DEF Sound
<1> QED
  BY <1>0, <1>1, <1>2, <1>3, Zenon

\* What is wanted has a value.
LEMMA MemberIsValue ==
  ASSUME Readable, WellFormed, NEW i \in Members
  PROVE  /\ i \in 1 .. Len(document) /\ i \in 1 .. Ended /\ Level(i) = 1
         /\ \E r \in 1 .. Len(document) : ValueAt(i, r)
<1>0. /\ Len(document) \in Nat /\ Ended = Len(document) + 1 /\ 1 \in 1 .. Len(document)
      /\ document[1] = Brace /\ document[1] \in Openers /\ Level(1) = 0 /\ Level(Ended) = 0
      /\ \A k \in 2 .. Len(document) : Level(k) > 0 /\ Sound(k)
  BY WellFormedGives
<1>1. /\ i \in 3 .. Len(document) /\ document[i - 2] = "external_drivers" /\ document[i - 1] = ":"
      /\ Level(i - 2) = 1
  BY DEF Members
<1>2. /\ i - 2 \in 1 .. Len(document) /\ i - 1 \in 1 .. Len(document) /\ i \in 1 .. Len(document)
      /\ (i - 2) + 1 = i - 1 /\ (i - 1) + 1 = i /\ i \in 2 .. Len(document)
           /\ i \in 1 + 1 .. Len(document)
      /\ \A k \in 1 + 1 .. i : k \in 2 .. Len(document)
      /\ \A k \in i .. Ended - 1 : k \in 2 .. Len(document)
      /\ Ended \in i + 1 .. Ended /\ i \in 1 .. Ended
  BY <1>0, <1>1
<1>3. document[i - 2] \notin Openers \cup Closers /\ document[i - 1] \notin Openers \cup Closers
  <2>1. document[i - 2] \in Strings
    BY <1>1 DEF Strings
  <2> QED
    BY <1>1, <2>1, TokensApart
<1>4. Level(i - 1) = 1
  BY <1>1, <1>2, <1>3, LevelStep
<1>5. Level(i) = 1
  BY <1>2, <1>3, <1>4, LevelStep
<1>6. Inside(1, i)
  BY <1>0, <1>2, <1>5 DEF Inside
<1>7. document[i] \in Values
  BY <1>0, <1>1, <1>2, <1>6, FitsMemberValue DEF Sound
<1>8. \E r \in i + 1 .. Ended - 1 : ValueAt(i, r)
  BY <1>0, <1>2, <1>5, <1>7, ValueExists
<1>9. \A r \in i + 1 .. Ended - 1 : r \in 1 .. Len(document)
  BY <1>0, <1>2
<1> QED
  BY <1>2, <1>5, <1>8, <1>9

\* What is listed in an array lies between its brackets, unless more are opened there.
LEMMA InList ==
  ASSUME Readable, NEW i \in 1 .. Len(document), document[i] = "[", Level(i) = 1,
         NEW r \in 1 .. Len(document), ValueAt(i, r), NEW k
  PROVE  /\ k \in Listed(i) => k \in i + 1 .. r - 1
         /\ k \in i + 1 .. r - 1 /\ Level(k) = 2 => k \in Listed(i)
         /\ k \in i + 1 .. r - 1 /\ Level(k) # 2 =>
              \E o \in i + 1 .. r - 1 : Level(o) = 2 /\ document[o] \in Openers
<1>0. /\ Len(document) \in Nat /\ Ended = Len(document) + 1 /\ i \in Int /\ r \in Int
      /\ r > i /\ Level(r) = 1 /\ document[i] \in Openers
      /\ \A j \in i + 1 .. r - 1 : Level(j) > 1
      /\ i + 1 \in 1 .. Ended /\ i + 1 \in 1 .. Len(document)
  BY TokensApart DEF Readable, Ended, ValueAt
<1>1. ASSUME k \in Listed(i) PROVE k \in i + 1 .. r - 1
  <2>1. k \in i + 1 .. Len(document) /\ Level(k) > 1 /\ Within(k) = i
    BY <1>1 DEF Listed
  <2>2. k \in Int /\ k \in 1 .. Ended /\ r \in 1 .. Ended /\ Level(k) \in Int
    BY <1>0, <2>1, LevelInt
  <2>3. SUFFICES ASSUME k >= r PROVE FALSE
    BY <1>0, <2>1, <2>2
  <2>4. k > r
    BY <1>0, <2>1, <2>2, <2>3
  <2> DEFINE c == Level(k) - 1
  <2>5. c \in Int /\ Level(r) <= c /\ c < Level(k) /\ Level(k) = c + 1
    BY <1>0, <2>1, <2>2
  <2> HIDE DEF c
  <2>6. PICK o \in r .. k - 1 : document[o] \in Openers /\ Level(o) = c
               /\ \A j \in o + 1 .. k : Level(j) > c
    BY <2>2, <2>4, <2>5, OpensBetween
  <2>7. o \in 1 .. Len(document) /\ k \in o + 1 .. Len(document) /\ o # i
    BY <1>0, <2>1, <2>2, <2>6
  <2>8. Inside(o, k)
    BY <2>5, <2>6, <2>7 DEF Inside
  <2> QED
    BY <2>1, <2>7, <2>8, WithinIs
<1>2. ASSUME k \in i + 1 .. r - 1, Level(k) = 2 PROVE k \in Listed(i)
  <2>1. k \in i + 1 .. Len(document) /\ \A j \in i + 1 .. k : Level(j) > Level(i)
    BY <1>0, <1>2
  <2>2. Inside(i, k)
    BY <1>0, <1>2, <2>1 DEF Inside
  <2>3. Within(k) = i
    BY <2>2, WithinIs
  <2> QED
    BY <1>2, <2>1, <2>3 DEF Listed
<1>3. ASSUME k \in i + 1 .. r - 1, Level(k) # 2
      PROVE  \E o \in i + 1 .. r - 1 : Level(o) = 2 /\ document[o] \in Openers
  <2>1. Level(i + 1) = 2
    BY <1>0, LevelStep
  <2>2. k \in 1 .. Ended /\ Level(k) \in Int /\ k > i + 1 /\ 2 < Level(k)
    <3>1. k \in 1 .. Ended /\ Level(k) \in Int /\ Level(k) > 1
      BY <1>0, <1>3, LevelInt
    <3>2. k # i + 1
      BY <1>3, <2>1
    <3> QED
      BY <1>0, <1>3, <3>1, <3>2
  <2>3. PICK o \in i + 1 .. k - 1 : document[o] \in Openers /\ Level(o) = 2
    BY <1>0, <2>1, <2>2, OpensBetween
  <2>4. o \in i + 1 .. r - 1
    BY <1>0, <1>3, <2>2
  <2> QED
    BY <2>3, <2>4
<1> QED
  BY <1>1, <1>2, <1>3

\* OnlyStrings() is said of what parseWanted reads as a list, and Listed() are its tokens.
LEMMA ListIs ==
  ASSUME Readable, NEW i \in 1 .. Len(document), Level(i) = 1,
         NEW r \in 1 .. Len(document), ValueAt(i, r)
  PROVE  /\ OnlyStrings(i) <=> ListAt(i, r)
         /\ ListAt(i, r) => \A path : Listing(i, path) = Cardinality(Tokened(i + 1, r - 1, path))
<1>1. OnlyStrings(i) <=> document[i] = "[" /\ \A k \in Listed(i) :
        document[k] \in Strings \cup {Comma, "]"}
  BY Zenon DEF OnlyStrings, Comma
<1>2. ListAt(i, r) <=> document[i] = "[" /\ \A k \in i + 1 .. r - 1 :
        document[k] \in Strings \cup {Comma, "]"}
  BY Zenon DEF ListAt, Plain
<1> SUFFICES ASSUME document[i] = "["
    PROVE  /\ OnlyStrings(i) <=> ListAt(i, r)
           /\ ListAt(i, r) => \A path : Listing(i, path) = Cardinality(Tokened(i + 1, r - 1, path))
  BY <1>1, <1>2
<1>3. \A t \in Openers : t \notin Strings \cup {Comma, "]"}
  BY TokensApart DEF Simple
<1>4. ASSUME \A k \in Listed(i) : document[k] \in Strings \cup {Comma, "]"}
      PROVE  \A k \in i + 1 .. r - 1 : document[k] \in Strings \cup {Comma, "]"}
  <2>1. TAKE k \in i + 1 .. r - 1
  <2>2. CASE Level(k) = 2
    BY <1>4, <2>2, InList
  <2>3. CASE Level(k) # 2
    <3>1. PICK o \in i + 1 .. r - 1 : Level(o) = 2 /\ document[o] \in Openers
      BY <2>3, InList
    <3>2. o \in Listed(i)
      BY <3>1, InList
    <3> QED
      BY <1>3, <1>4, <3>1, <3>2
  <2> QED
    BY <2>2, <2>3
<1>5. \A k \in Listed(i) : k \in i + 1 .. r - 1
  BY InList
<1>6. ASSUME \A k \in i + 1 .. r - 1 : document[k] \in Strings \cup {Comma, "]"}
      PROVE  \A k \in i + 1 .. r - 1 : k \in Listed(i)
  <2>1. TAKE k \in i + 1 .. r - 1
  <2>2. Level(k) = 2
    BY <1>3, <1>6, InList
  <2> QED
    BY <2>2, InList
<1>7. OnlyStrings(i) <=> ListAt(i, r)
  BY <1>1, <1>2, <1>4, <1>5
<1>8. ASSUME ListAt(i, r), NEW path PROVE Listing(i, path) =
               Cardinality(Tokened(i + 1, r - 1, path))
  <2>1. Listed(i) = i + 1 .. r - 1
    BY <1>2, <1>5, <1>6, <1>8
  <2> QED
    BY <2>1, Zenon DEF Listing, Tokened
<1> QED
  BY <1>7, <1>8

\* A value has one end.
LEMMA ValueUnique ==
  ASSUME Readable, NEW i \in 1 .. Len(document), Level(i) = 1, NEW q, NEW r, ValueAt(i, q),
           ValueAt(i, r)
  PROVE  q = r
<1>1. 0 \in 0 .. MaxDepth /\ 0 + 1 = 1
  BY RegistrationLimits
<1>2. ReadsValue(i)
  BY EndsRead
<1>3. /\ q # Malformed /\ End("value", i, 0) = q <=> ValueAt(i, q)
      /\ r # Malformed /\ End("value", i, 0) = r <=> ValueAt(i, r)
  BY <1>1, <1>2 DEF ReadsValue
<1> QED
  BY <1>3

Usable ==
  /\ WellFormed
  /\ \A i \in Members : \E q : ListAt(i, q)
  /\ \A i \in Members, j \in Members : i = j

\* What findJsonStringArray() gives for a document.
Reads(drivers) ==
  /\ drivers \in Findings
  /\ drivers.status # "Malformed" <=> Usable
  /\ Usable /\ Members = {} => drivers = Nothing
  /\ Usable => \A i \in Members : drivers.status = "Found" /\ Holds(drivers.values, i)

\* findJsonStringArray() gives what the reference finds.
LEMMA DocumentReads ==
  ASSUME Readable
  PROVE  Reads(FindJsonStringArray(document))
<1>0. Len(document) \in Nat /\ Ended = Len(document) + 1 /\ Level(1) = 0
  BY LevelFirst DEF Readable, Ended
<1> DEFINE drivers == FindJsonStringArray(document)
<1>1. drivers = IF ~At(document, 1, {Brace}) THEN NoResult
                ELSE IF At(document, 2, {EndBrace}) THEN IF 3 = Ended THEN Nothing ELSE NoResult
                ELSE Finder[<<2, Nothing>>]
  BY FindJsonStringArrayIs
<1>2. /\ At(document, 1, {Brace}) <=> 1 \in 1 .. Len(document) /\ document[1] = Brace
      /\ At(document, 2, {EndBrace}) <=> 2 \in 1 .. Len(document) /\ document[2] = EndBrace
  BY AtIs
<1>3. WellFormed <=> /\ Len(document) > 0 /\ document[1] = Brace
                     /\ \/ Len(document) = 2 /\ document[2] = EndBrace
                        \/ RestAt(1, 2, Ended)
  BY WellFormedIs
<1>4. /\ NoResult \in Findings /\ NoResult.status = "Malformed"
      /\ Nothing \in Findings /\ Nothing \in Lookups /\ Nothing.status = "Missing"
  BY DEF Findings, NoResult, Nothing, Lookups, Lookup
<1> SUFFICES Reads(drivers)
  OBVIOUS
<1> HIDE DEF drivers
<1>5. ASSUME drivers = NoResult, ~WellFormed PROVE Reads(drivers)
  BY <1>4, <1>5 DEF Reads, Usable
<1>6. CASE ~At(document, 1, {Brace})
  <2>1. drivers = NoResult
    BY <1>1, <1>6
  <2>2. ~WellFormed
    BY <1>0, <1>2, <1>3, <1>6
  <2> QED
    BY <1>5, <2>1, <2>2
<1>7. CASE At(document, 1, {Brace})
  <2>0. document[1] = Brace /\ 1 \in 1 .. Len(document) /\ Len(document) > 0
          /\ document[1] \in Openers
    BY <1>0, <1>2, <1>7, TokensApart
  <2>1. Members = Wanted(2)
    BY <2>0, MembersAre
  <2>2. First(1) = Strings
    BY <2>0 DEF First
  <2>3. CASE At(document, 2, {EndBrace})
    <3>1. drivers = IF 3 = Ended THEN Nothing ELSE NoResult
      BY <1>1, <1>7, <2>3
    <3>2. document[2] = EndBrace /\ document[2] \notin Strings
      BY <1>2, <2>3, TokensApart
    <3>3. WellFormed <=> Len(document) = 2
      BY <1>3, <2>0, <2>2, <3>2 DEF RestAt
    <3>4. CASE 3 = Ended
      <4>1. drivers = Nothing /\ WellFormed
        BY <1>0, <3>1, <3>3, <3>4
      <4>2. Members = {}
        BY <1>0, <2>1, <3>4 DEF Wanted
      <4> QED
        BY <1>4, <4>1, <4>2 DEF Reads, Usable
    <3>5. CASE 3 # Ended
      <4>1. drivers = NoResult /\ ~WellFormed
        BY <1>0, <3>1, <3>3, <3>5
      <4> QED
        BY <1>5, <4>1
    <3> QED
      BY <3>4, <3>5
  <2>4. CASE ~At(document, 2, {EndBrace})
    <3>1. drivers = Finder[<<2, Nothing>>]
      BY <1>1, <1>7, <2>4
    <3>2. WellFormed <=> RestAt(1, 2, Ended)
      <4>1. ~(Len(document) = 2 /\ document[2] = EndBrace)
        BY <1>2, <2>4
      <4> QED
        BY <1>3, <2>0, <4>1, Zenon
    <3>3. CASE Len(document) = 1
      <4>1. 2 \in 1 .. Ended /\ 2 \notin 1 .. Len(document)
        BY <1>0, <3>3
      <4>2. ~AtKey(document, 2)
        BY <4>1, AtIs DEF AtKey
      <4>3. Finder[<<2, Nothing>>] = FindMember(Finder, document, 2, Nothing)
        <5> HIDE DEF Nothing
        <5> QED
          BY <1>4, <4>1, FinderExists, Zenon
      <4>4. drivers = NoResult
        BY <3>1, <4>2, <4>3, FindMemberIs, Zenon
      <4>5. ~WellFormed
        BY <3>2, <4>1 DEF RestAt
      <4> QED
        BY <1>5, <4>4, <4>5
    <3>4. CASE Len(document) # 1
      <4>1. 2 \in 1 .. Len(document) /\ 1 + 1 = 2
        <5> DEFINE n == Len(document)
        <5>1. n \in Nat /\ n > 0 /\ n # 1
          BY <1>0, <2>0, <3>4
        <5> HIDE DEF n
        <5>2. 2 \in 1 .. n /\ 1 + 1 = 2
          BY <5>1
        <5> QED
          BY <5>2 DEF n
      <4>2. Starts(1, 2)
        BY <2>0, <4>1, InsideFirst
      <4>3. FindReads(2, Nothing)
        BY <1>0, <1>4, <2>0, <4>1, <4>2, FindsRead
      <4>4. Usable <=> Clean(2, Nothing)
        BY <1>4, <2>1, <3>2 DEF Usable, Clean
      <4> QED
        BY <2>1, <3>1, <4>3, <4>4, Zenon DEF Reads, FindReads
    <3> QED
      BY <3>3, <3>4
  <2> QED
    BY <2>3, <2>4
<1> QED
  BY <1>6, <1>7

\* At most one member, as the reference counts it.
LEMMA OneMember ==
  ASSUME Readable
  PROVE  /\ Cardinality(Members) <= 1 <=> \A i \in Members, j \in Members : i = j
         /\ \A i \in Members : (\A j \in Members : j = i) => Max(Members) = i
<1>1. Len(document) \in Nat /\ Members \subseteq 3 .. Len(document)
  BY DEF Readable, Members
<1>2. IsFiniteSet(Members) /\ \A i \in Members : i \in Int
  <2>1. IsFiniteSet(3 .. Len(document))
    BY <1>1, FS_Interval
  <2>2. IsFiniteSet(Members)
    BY <1>1, <2>1, FS_Subset
  <2> QED
    BY <1>1, <2>2
<1> DEFINE M == Members
<1>3. IsFiniteSet(M) /\ \A i \in M : i \in Int
  BY <1>2
<1> HIDE DEF M
<1>4. Cardinality(M) \in Nat /\ (Cardinality(M) = 0 <=> M = {})
  BY <1>3, FS_CardinalityType, FS_EmptySet
<1>5. Cardinality(M) = 1 <=> \E i : M = {i}
  BY <1>3, FS_Singleton
<1>6. Cardinality(M) <= 1 <=> M = {} \/ \E i : M = {i}
  BY <1>4, <1>5
<1>7. (M = {} \/ \E i : M = {i}) <=> \A i \in M, j \in M : i = j
  <2>1. ASSUME \A i \in M, j \in M : i = j PROVE M = {} \/ \E i : M = {i}
    <3>1. SUFFICES ASSUME NEW i \in M PROVE M = {i}
      BY Zenon
    <3> QED
      BY <2>1, <3>1
  <2>2. ASSUME M = {} \/ \E i : M = {i} PROVE \A i \in M, j \in M : i = j
    BY <2>2, Zenon
  <2> QED
    BY <2>1, <2>2
<1>8. ASSUME NEW i \in M, \A j \in M : j = i PROVE Max(M) = i
  <2>1. i >= i
    BY <1>3, <1>8
  <2>2. \E x \in M : \A y \in M : x >= y
    BY <1>8, <2>1
  <2>3. Max(M) \in M
    BY <2>2 DEF Max
  <2> QED
    BY <1>8, <2>3
<1> QED
  BY <1>6, <1>7, <1>8 DEF M

\* registrationStateFromInspection() in terms of the counts alone.
LEMMA StateIs ==
  ASSUME NEW e \in Nat, NEW o \in Nat, NEW m \in Nat
  PROVE  LET state == RegistrationState(e, o, m > 0) IN
         /\ state = "Registered" <=> e = 1 /\ o = 0 /\ m = 0
         /\ state = "RegisteredElsewhere" <=> e = 0 /\ o = 1 /\ m = 0
         /\ state = "ConflictingRegistrations" <=> e + o > 1 /\ m = 0
         /\ state = "NotRegistered" <=> e = 0 /\ o = 0 /\ m = 0
         /\ state # "Unknown"
BY DEF RegistrationState

Count(path) == IF Members = {} THEN 0 ELSE Listing(Max(Members), path)

\* The reference's word for a document that can be used, and what it counts in it.
LEMMA UsableIs ==
  ASSUME Readable
  PROVE  LET drivers == FindJsonStringArray(document) IN
         /\ (WellFormed /\ Cardinality(Members) <= 1 /\ \A i \in Members : OnlyStrings(i))
              <=> Usable
         /\ drivers.status # "Malformed" <=> Usable
         /\ Usable => \A path \in Strings : Occurring(drivers.values, path) = Count(path)
         /\ drivers.status = "Missing" => \A path \in Strings : Occurring(drivers.values, path) = 0
         /\ \A path : Occurring(drivers.values, path) \in Nat
<1> DEFINE drivers == FindJsonStringArray(document)
<1>1. Reads(drivers)
  BY DocumentReads
<1> HIDE DEF drivers
<1>2. ASSUME WellFormed, NEW i \in Members
      PROVE  /\ OnlyStrings(i) <=> \E q : ListAt(i, q)
             /\ \A q : ListAt(i, q) =>
                  \A path : Listing(i, path) = Cardinality(Tokened(i + 1, q - 1, path))
  <2>1. /\ i \in 1 .. Len(document) /\ Level(i) = 1
        /\ \E r \in 1 .. Len(document) : ValueAt(i, r)
    BY <1>2, MemberIsValue
  <2>2. PICK r \in 1 .. Len(document) : ValueAt(i, r)
    BY <2>1
  <2>3. \A q : ListAt(i, q) => q = r
    BY <2>1, <2>2, ValueUnique DEF ListAt
  <2>4. /\ OnlyStrings(i) <=> ListAt(i, r)
        /\ ListAt(i, r) => \A path : Listing(i, path) = Cardinality(Tokened(i + 1, r - 1, path))
    BY <2>1, <2>2, ListIs
  <2> QED
    BY <2>3, <2>4
<1>3. (WellFormed /\ Cardinality(Members) <= 1 /\ \A i \in Members : OnlyStrings(i)) <=> Usable
  <2>1. Cardinality(Members) <= 1 <=> \A i \in Members, j \in Members : i = j
    BY OneMember
  <2>2. WellFormed => ((\A i \in Members : OnlyStrings(i))
          <=> (\A i \in Members : \E q : ListAt(i, q)))
    BY <1>2, Zenon
  <2> QED
    BY <2>1, <2>2, Zenon DEF Usable
<1>4. drivers.status # "Malformed" <=> Usable
  BY <1>1 DEF Reads
<1>5. Nothing.status = "Missing" /\ Nothing.values = <<>> /\ NoResult.values = <<>>
  BY DEF Nothing, NoResult, Lookup
<1>6. ASSUME Members = {}
      PROVE  Usable => \A path \in Strings : Occurring(drivers.values, path) = Count(path)
  <2>1. \A path : Count(path) = 0
    BY <1>6 DEF Count
  <2>2. Usable => drivers = Nothing
    BY <1>1, <1>6 DEF Reads
  <2>3. Usable => \A path \in Strings : Occurring(drivers.values, path) = Count(path)
    BY <1>5, <2>1, <2>2, OccurringNone
  <2> QED
    BY <2>3
<1>7. ASSUME Usable, NEW i \in Members
      PROVE  /\ drivers.status = "Found"
             /\ \A path \in Strings : Occurring(drivers.values, path) = Count(path)
  <2>1. drivers.status = "Found" /\ Holds(drivers.values, i)
    BY <1>1, <1>7 DEF Reads
  <2>2. WellFormed /\ \A j \in Members : j = i
    BY <1>7 DEF Usable
  <2>3. Max(Members) = i /\ Members # {}
    BY <2>2, OneMember
  <2>4. PICK q : ListAt(i, q)
    BY <1>7 DEF Usable
  <2>5. \A path \in Strings : Occurring(drivers.values, path) =
          Cardinality(Tokened(i + 1, q - 1, path))
    BY <2>1, <2>4 DEF Holds
  <2>6. \A path : Listing(i, path) = Cardinality(Tokened(i + 1, q - 1, path))
    BY <1>2, <2>2, <2>4
  <2>7. \A path : Count(path) = Listing(i, path)
    BY <2>3 DEF Count
  <2> QED
    BY <2>1, <2>5, <2>6, <2>7
<1>8. Usable => \A path \in Strings : Occurring(drivers.values, path) = Count(path)
  <2>1. CASE Members = {}
    BY <1>6, <2>1
  <2>2. CASE Members # {}
    BY <1>7, <2>2
  <2> QED
    BY <2>1, <2>2
<1>9. drivers.status = "Missing" => \A path \in Strings : Occurring(drivers.values, path) = 0
  <2>1. SUFFICES ASSUME drivers.status = "Missing"
                 PROVE  \A path \in Strings : Occurring(drivers.values, path) = 0
    OBVIOUS
  <2>2. Usable
    BY <1>4, <2>1
  <2>3. Members = {}
    BY <1>7, <2>1, <2>2
  <2>4. drivers = Nothing
    BY <1>1, <2>2, <2>3 DEF Reads
  <2> QED
    BY <1>5, <2>4, OccurringNone
<1>10. \A path : Occurring(drivers.values, path) \in Nat
  <2>1. drivers.values \in Seq(Strings)
    <3>1. <<>> \in Seq(Strings)
      OBVIOUS
    <3>2. drivers = NoResult \/ drivers \in Lookups
      BY <1>1 DEF Reads, Findings
    <3>3. CASE drivers \in Lookups
      BY <3>3 DEF Lookups
    <3> QED
      BY <1>5, <3>1, <3>2, <3>3
  <2>2. Strings # {}
    BY DEF Strings
  <2> QED
    BY <2>1, <2>2, OccurringAppend
<1> QED
  BY <1>3, <1>4, <1>8, <1>9, <1>10 DEF drivers

\* The window's word, whatever can be opened.
LEMMA InspectedRight ==
  ASSUME RegistrationTypeOK
  PROVE  RegistrationIsReference
<1>0. Readable
  BY DEF Readable, RegistrationTypeOK
<1> DEFINE drivers == FindJsonStringArray(document)
           state == InspectRegistration
           e == Occurring(drivers.values, "this")
           o == Occurring(drivers.values, "other")
           m == Occurring(drivers.values, "remote")
           usable == /\ Intact /\ WellFormed
                     /\ Cardinality(Members) <= 1 /\ \A i \in Members : OnlyStrings(i)
<1>1. /\ usable <=> Intact /\ Usable
      /\ drivers.status # "Malformed" <=> Usable
      /\ Usable => e = Count("this") /\ o = Count("other") /\ m = Count("remote")
      /\ drivers.status = "Missing" => e = 0 /\ o = 0 /\ m = 0
      /\ e \in Nat /\ o \in Nat /\ m \in Nat
  <2>1. {"this", "other", "remote"} \subseteq Strings
    BY DEF Strings, Paths
  <2> QED
    BY <1>0, <2>1, UsableIs
<1>2. state = IF copy = "remote" THEN "InspectionIncomplete"
              ELSE IF copy = "broken" THEN "BrokenInstallation"
              ELSE IF access = "remote" THEN "InspectionIncomplete"
              ELSE IF access = "missing" THEN "NotRegistered"
              ELSE IF access \in {"nowhere", "unreadable"} THEN "Unknown"
              ELSE IF drivers.status = "Missing" THEN "NotRegistered"
              ELSE IF drivers.status = "Malformed" THEN "Unknown"
              ELSE RegistrationState(e, o, m > 0)
  BY Zenon DEF InspectRegistration
<1>3. /\ access \in {"contents", "missing", "unreadable", "remote", "nowhere"}
      /\ copy \in {"whole", "broken", "remote"}
  BY DEF RegistrationTypeOK
<1> SUFFICES
      /\ state = "Registered" <=>
           usable /\ Count("this") = 1 /\ Count("other") = 0 /\ Count("remote") = 0
      /\ state = "RegisteredElsewhere" <=>
           usable /\ Count("this") = 0 /\ Count("other") = 1 /\ Count("remote") = 0
      /\ state = "ConflictingRegistrations" <=>
           usable /\ Count("this") + Count("other") > 1 /\ Count("remote") = 0
      /\ state = "NotRegistered" <=>
           \/ usable /\ Count("this") = 0 /\ Count("other") = 0 /\ Count("remote") = 0
           \/ access = "missing" /\ copy = "whole"
      /\ Intact /\ state = "Unknown" => ~usable
  BY Zenon DEF RegistrationIsReference, Count
<1> HIDE DEF drivers, state, usable, e, o, m
<1>4. CASE ~Intact
  <2>1. ~usable
    BY <1>1, <1>4
  <2>2. state \in {"InspectionIncomplete", "BrokenInstallation", "NotRegistered", "Unknown"}
    BY <1>2, <1>3, <1>4 DEF Intact
  <2>3. state = "NotRegistered" <=> access = "missing" /\ copy = "whole"
    BY <1>2, <1>3, <1>4 DEF Intact
  <2> QED
    BY <1>4, <2>1, <2>2, <2>3
<1>5. CASE Intact
  <2>1. access = "contents" /\ copy = "whole" /\ (usable <=> Usable)
    BY <1>1, <1>5 DEF Intact
  <2>2. state = IF drivers.status = "Missing" THEN "NotRegistered"
                ELSE IF drivers.status = "Malformed" THEN "Unknown"
                ELSE RegistrationState(e, o, m > 0)
    BY <1>2, <2>1
  <2>3. CASE ~Usable
    BY <1>1, <2>1, <2>2, <2>3
  <2>4. CASE Usable
    <3>1. e = Count("this") /\ o = Count("other") /\ m = Count("remote")
      BY <1>1, <2>4
    <3>2. LET s == RegistrationState(e, o, m > 0) IN
          /\ s = "Registered" <=> e = 1 /\ o = 0 /\ m = 0
          /\ s = "RegisteredElsewhere" <=> e = 0 /\ o = 1 /\ m = 0
          /\ s = "ConflictingRegistrations" <=> e + o > 1 /\ m = 0
          /\ s = "NotRegistered" <=> e = 0 /\ o = 0 /\ m = 0
          /\ s # "Unknown"
      BY <1>1, StateIs
    <3>3. /\ state = "Registered" <=> e = 1 /\ o = 0 /\ m = 0
          /\ state = "RegisteredElsewhere" <=> e = 0 /\ o = 1 /\ m = 0
          /\ state = "ConflictingRegistrations" <=> e + o > 1 /\ m = 0
          /\ state = "NotRegistered" <=> e = 0 /\ o = 0 /\ m = 0
          /\ state # "Unknown"
      <4>1. CASE drivers.status = "Missing"
        BY <1>1, <2>2, <4>1
      <4>2. CASE drivers.status # "Missing"
        <5>1. state = RegistrationState(e, o, m > 0)
          BY <1>1, <2>2, <2>4, <4>2
        <5> QED
          BY <3>2, <5>1, Zenon
      <4> QED
        BY <4>1, <4>2
    <3> QED
      BY <2>1, <2>4, <3>1, <3>3
  <2> QED
    BY <2>3, <2>4
<1> QED
  BY <1>4, <1>5

(***************************************************************************)
(* What becomes of the file leaves a sequence of tokens.                    *)
(***************************************************************************)

\* A part of the file is a sequence of tokens.
LEMMA Part ==
  ASSUME Readable, NEW m \in Int, m > 0, NEW n \in Int, n <= Len(document)
  PROVE  SubSeq(document, m, n) \in Seq(Tokens)
<1>1. \A i \in m .. n : document[i] \in Tokens
  BY DEF Readable
<1> QED
  BY <1>1, SubSeqProperties

\* An edit that leaves a sequence of tokens keeps the type.
LEMMA EditTyped ==
  ASSUME RegistrationTypeOK, NEW changed \in Seq(Tokens), Edit(changed)
  PROVE  RegistrationTypeOK'
<1>1. /\ document' = changed /\ edits' = edits + 1 /\ edits < MaxEdits
      /\ access' = access /\ copy' = copy
  BY DEF Edit
<1>2. edits' \in 0 .. MaxEdits
  BY <1>1, RegistrationLimits DEF RegistrationTypeOK
<1> QED
  BY <1>1, <1>2 DEF RegistrationTypeOK

\* Whatever is edited, half-written or lost, the document stays a sequence of
\* tokens and what opening it gives one of the results
\* inspectRegistration() tells apart (src/status/status_main.cpp).
THEOREM InspectionTyped == RegistrationSpec => []RegistrationTypeOK
<1>1. RegistrationInit => RegistrationTypeOK
  BY RegistrationLimits DEF RegistrationInit, RegistrationTypeOK
<1>2. RegistrationTypeOK /\ [RegistrationNext]_registryVars => RegistrationTypeOK'
  <2> SUFFICES ASSUME RegistrationTypeOK, [RegistrationNext]_registryVars
      PROVE  RegistrationTypeOK'
    OBVIOUS
  <2>0. Readable /\ Len(document) \in Nat /\ DOMAIN document = 1 .. Len(document)
    BY DEF Readable, RegistrationTypeOK
  <2>1. CASE ReplaceToken
    <3>1. PICK i \in DOMAIN document, t \in Inserted : Edit([document EXCEPT ![i] = t])
      BY <2>1 DEF ReplaceToken
    <3>2. [document EXCEPT ![i] = t] \in Seq(Tokens)
      <4>1. document \in Seq(Tokens) /\ i \in 1 .. Len(document) /\ t \in Tokens
        BY <2>0, <3>1, RegistrationLimits DEF Readable
      <4> QED
        BY <4>1, ExceptSeq
    <3> QED
      BY <3>1, <3>2, EditTyped
  <2>2. CASE RemoveToken
    <3>1. PICK i \in DOMAIN document : Edit(RemoveAt(document, i))
      BY <2>2 DEF RemoveToken
    <3>2. RemoveAt(document, i) \in Seq(Tokens)
      <4>1. SubSeq(document, 1, i - 1) \in Seq(Tokens)
        BY <2>0, Part
      <4>2. SubSeq(document, i + 1, Len(document)) \in Seq(Tokens)
        BY <2>0, Part
      <4> QED
        BY <4>1, <4>2, ConcatProperties DEF RemoveAt
    <3> QED
      BY <3>1, <3>2, EditTyped
  <2>3. CASE InsertToken
    <3>1. PICK i \in 1 .. Len(document) + 1, t \in Inserted : Edit(InsertAt(document, i, t))
      BY <2>3 DEF InsertToken
    <3>2. InsertAt(document, i, t) \in Seq(Tokens)
      <4>1. SubSeq(document, 1, i - 1) \in Seq(Tokens)
        BY <2>0, Part
      <4>2. SubSeq(document, i, Len(document)) \in Seq(Tokens)
        BY <2>0, Part
      <4>3. <<t>> \in Seq(Tokens)
        <5>1. t \in Tokens
          BY RegistrationLimits
        <5> QED
          BY <5>1
      <4>4. SubSeq(document, 1, i - 1) \o <<t>> \in Seq(Tokens)
        BY <4>1, <4>3, ConcatProperties
      <4> QED
        BY <4>2, <4>4, ConcatProperties DEF InsertAt
    <3> QED
      BY <3>1, <3>2, EditTyped
  <2>4. CASE WriteHalf
    <3>1. PICK n \in 0 .. Len(document) - 1 : Edit(SubSeq(document, 1, n))
      BY <2>4 DEF WriteHalf
    <3>2. SubSeq(document, 1, n) \in Seq(Tokens)
      BY <2>0, Part
    <3> QED
      BY <3>1, <3>2, EditTyped
  <2>5. CASE LoseAccess
    BY <2>5 DEF LoseAccess, RegistrationTypeOK
  <2>6. CASE LoseCopy
    BY <2>6 DEF LoseCopy, RegistrationTypeOK
  <2>7. CASE UNCHANGED registryVars
    BY <2>7 DEF registryVars, RegistrationTypeOK
  <2> QED
    BY <2>1, <2>2, <2>3, <2>4, <2>5, <2>6, <2>7 DEF RegistrationNext
<1> QED
  BY <1>1, <1>2, PTL DEF RegistrationSpec

\* The cursor of status_parser.cpp is right about every document, however long
\* and however deep: the window says that this copy will be loaded exactly if
\* the file is JSON with one list of drivers that names it once and no other
\* copy, and its word for every other file is the one the reference gives,
\* whatever became of the file (inspectRegistration(), findTopLevelMember(),
\* skipValue(), parseStringArray()).
THEOREM InspectionIsReference == RegistrationSpec => []RegistrationIsReference
<1>1. RegistrationTypeOK => RegistrationIsReference
  BY InspectedRight
<1> QED
  BY <1>1, InspectionTyped, PTL

=============================================================================
