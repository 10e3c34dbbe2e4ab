----------------------- MODULE RegistrationInspection -----------------------
(***************************************************************************)
(* How the status window finds out which copy of the driver SteamVR will    *)
(* load: inspectRegistration() (src/status/status_main.cpp) reads           *)
(* openvrpaths.vrpath, a JSON file that vrpathreg rewrites and users edit,   *)
(* with the parser of status_parser.cpp.                                    *)
(*                                                                         *)
(* A document is a sequence of tokens.  A string is named for what it is    *)
(* here: the wanted key, or a path by what it leads to.  "torn" is a token  *)
(* no JSON value starts with (an unterminated string, a broken number).     *)
(***************************************************************************)
EXTENDS VrServerLog

CONSTANTS MaxDepth,   \* kMaximumJsonDepth
          Originals,  \* the documents vrpathreg writes
          Inserted,   \* bounds: the tokens an edit puts in,
          MaxEdits    \* and the edits of one document

Paths == {"this",     \* this copy
          "other",    \* another copy of PoseAnchor
          "foreign",  \* another driver, or nothing
          "remote"}   \* a path that is not inspected: remote, a device, not UTF-8
Strings == Paths \cup {"external_drivers"}
Scalars == {"literal"}   \* true, false, null, a number
Openers == {"{", "["}
Closers == {"}", "]"}
Tokens == Strings \cup Scalars \cup Openers \cup Closers \cup {",", ":", "torn"}

ASSUME RegistrationLimits ==
  /\ MaxDepth \in Nat \ {0} /\ MaxEdits \in Nat
  /\ Inserted \subseteq Tokens /\ Originals \subseteq Seq(Tokens)

VARIABLES
  document,  \* openvrpaths.vrpath
  edits,     \* how often it was edited
  access,    \* what opening it gives
  copy       \* the copy the window belongs to

registryVars == <<document, edits, access, copy>>

RegistrationTypeOK ==
  /\ document \in Seq(Tokens) /\ edits \in 0 .. MaxEdits
  /\ access \in {"contents", "missing", "unreadable", "remote", "nowhere"}
  /\ copy \in {"whole", "broken", "remote"}

(***************************************************************************)
(* JsonCursor.  What is read begins at a position and ends before another,  *)
(* or is Malformed.  The functions of the cursor call one another, always   *)
(* further on or deeper: their results are one recursive function.          *)
(***************************************************************************)
Malformed == 0

At(doc, p, tokens) == p \in DOMAIN doc /\ doc[p] \in tokens
AtKey(doc, p) == At(doc, p, Strings) /\ At(doc, p + 1, {":"})

Opened(depth) == depth < MaxDepth

SkipValue(end, doc, p, depth) ==
  IF At(doc, p, Strings \cup Scalars) THEN p + 1
  ELSE IF At(doc, p, {"["}) /\ Opened(depth)
       THEN IF At(doc, p + 1, {"]"}) THEN p + 2 ELSE end[<<"elements", p + 1, depth + 1>>]
  ELSE IF At(doc, p, {"{"}) /\ Opened(depth)
       THEN IF At(doc, p + 1, {"}"}) THEN p + 2 ELSE end[<<"members", p + 1, depth + 1>>]
  ELSE Malformed

\* The rest of an array: one value and what follows it.
SkipElements(end, doc, p, depth) ==
  LET q == end[<<"value", p, depth>>] IN
  IF At(doc, q, {"]"}) THEN q + 1
  ELSE IF At(doc, q, {","}) THEN end[<<"elements", q + 1, depth>>] ELSE Malformed

\* The rest of an object.
SkipMembers(end, doc, p, depth) ==
  LET q == IF AtKey(doc, p) THEN end[<<"value", p + 2, depth>>] ELSE Malformed IN
  IF At(doc, q, {"}"}) THEN q + 1
  ELSE IF At(doc, q, {","}) THEN end[<<"members", q + 1, depth>>] ELSE Malformed

Skips(doc) == {"value", "elements", "members"} \X (1 .. Len(doc) + 1) \X (0 .. MaxDepth)

Ends(doc) ==
  LET end[s \in Skips(doc)] ==
        IF s[1] = "value" THEN SkipValue(end, doc, s[2], s[3])
        ELSE IF s[1] = "elements" THEN SkipElements(end, doc, s[2], s[3])
        ELSE SkipMembers(end, doc, s[2], s[3])
  IN end

\* The strings of an array from p on, after those before, and the position after it.
Broken == [next |-> Malformed, values |-> <<>>]

ParseStrings(strings, doc, p, values) ==
  IF ~At(doc, p, Strings) THEN Broken
  ELSE IF At(doc, p + 1, {"]"}) THEN [next |-> p + 2, values |-> Append(values, doc[p])]
  ELSE IF At(doc, p + 1, {","}) THEN strings[<<p + 2, Append(values, doc[p])>>] ELSE Broken

ParseStringArray(doc, p) ==
  LET strings[s \in (1 .. Len(doc) + 1) \X Seq(Strings)] == ParseStrings(strings, doc, s[1], s[2])
  IN IF ~At(doc, p, {"["}) THEN Broken
     ELSE IF At(doc, p + 1, {"]"}) THEN [next |-> p + 2, values |-> <<>>]
     ELSE strings[<<p + 1, <<>>>>]

(***************************************************************************)
(* findTopLevelMember() with findJsonStringArray()'s parseWanted.           *)
(***************************************************************************)
Lookup(status, values) == [status |-> status, values |-> values]
Lookups == [status : {"Missing", "Found"}, values : Seq(Strings)]
NoResult == Lookup("Malformed", <<>>)

TakeLast(result) == FALSE

\* A second member of the wanted name makes the file ambiguous.
Ambiguous(result) == result.status = "Found"

AtEnd(doc, p) == p = Len(doc) + 1

\* The members from p on, with what those before were found to be.
FindMember(find, doc, p, result) ==
  LET wanted == doc[p] = "external_drivers"
      array  == ParseStringArray(doc, p + 2)
      next   == IF wanted THEN array.next ELSE Ends(doc)[<<"value", p + 2, 0>>]
      found  == IF wanted THEN Lookup("Found", array.values) ELSE result
  IN IF ~AtKey(doc, p) \/ (wanted /\ Ambiguous(result)) THEN NoResult
     ELSE IF At(doc, next, {","}) THEN find[<<next + 1, found>>]
     ELSE IF At(doc, next, {"}"}) /\ AtEnd(doc, next + 1) THEN found ELSE NoResult

FindJsonStringArray(doc) ==
  LET find[s \in (1 .. Len(doc) + 1) \X Lookups] == FindMember(find, doc, s[1], s[2])
  IN IF ~At(doc, 1, {"{"}) THEN NoResult
     ELSE IF At(doc, 2, {"}"}) THEN IF AtEnd(doc, 3) THEN Lookup("Missing", <<>>) ELSE NoResult
     ELSE find[<<2, Lookup("Missing", <<>>)>>]

(***************************************************************************)
(* inspectRegistration().                                                  *)
(***************************************************************************)
Occurring(values, path) == Cardinality({i \in DOMAIN values : values[i] = path})

InspectRegistration ==
  LET drivers == FindJsonStringArray(document) IN
  IF copy = "remote" THEN "InspectionIncomplete"
  ELSE IF copy = "broken" THEN "BrokenInstallation"
  ELSE IF access = "remote" THEN "InspectionIncomplete"
  ELSE IF access = "missing" THEN "NotRegistered"
  ELSE IF access \in {"nowhere", "unreadable"} THEN "Unknown"
  ELSE IF drivers.status = "Missing" THEN "NotRegistered"
  ELSE IF drivers.status = "Malformed" THEN "Unknown"
  ELSE RegistrationState(Occurring(drivers.values, "this"),
                         Occurring(drivers.values, "other"),
                         Occurring(drivers.values, "remote") > 0)

(***************************************************************************)
(* What becomes of the file.                                               *)
(***************************************************************************)
RegistrationInit ==
  /\ document \in Originals /\ edits = 0
  /\ access = "contents" /\ copy = "whole"

Edit(changed) ==
  /\ edits < MaxEdits /\ edits' = edits + 1
  /\ document' = changed
  /\ UNCHANGED <<access, copy>>

\* An edit by hand replaces, removes or inserts a token.
ReplaceToken == \E i \in DOMAIN document, t \in Inserted : Edit([document EXCEPT ![i] = t])
RemoveToken  == \E i \in DOMAIN document : Edit(RemoveAt(document, i))
InsertToken  == \E i \in 1 .. Len(document) + 1, t \in Inserted : Edit(InsertAt(document, i, t))

\* vrpathreg has written a part of the file so far, or was killed there.
WriteHalf == \E n \in 0 .. Len(document) - 1 : Edit(SubSeq(document, 1, n))

\* The file or this copy disappears, or is locked, or its path changes: one at a time.
Intact == access = "contents" /\ copy = "whole"

LoseAccess ==
  /\ Intact /\ access' \in {"missing", "unreadable", "remote", "nowhere"}
  /\ UNCHANGED <<document, edits, copy>>
LoseCopy ==
  /\ Intact /\ copy' \in {"broken", "remote"}
  /\ UNCHANGED <<document, edits, access>>

RegistrationNext ==
  \/ ReplaceToken \/ RemoveToken \/ InsertToken \/ WriteHalf
  \/ LoseAccess \/ LoseCopy

RegistrationSpec == RegistrationInit /\ [][RegistrationNext]_registryVars

(***************************************************************************)
(* Properties: what JSON says of the document, without a parser.  Level(i)  *)
(* counts the brackets that are open before token i, Within(i) is the       *)
(* position of the innermost of them.                                       *)
(***************************************************************************)
Level(i) ==
  Cardinality({k \in 1 .. i - 1 : document[k] \in Openers})
    - Cardinality({k \in 1 .. i - 1 : document[k] \in Closers})

Within(i) == Max({k \in 1 .. i - 1 : document[k] \in Openers /\ Level(k) = Level(i) - 1})

\* Each token goes with the one before it in the object or the array both are in.
Values == Strings \cup Scalars \cup Openers
Fits(i) ==
  LET before == document[i - 1]
      t      == document[i]
      opened == i - 1 = Within(i)
      ended  == before \in Strings \cup Scalars \cup Closers
      keyed  == \* the token before is a key
        /\ before \in Strings /\ i - 2 >= Within(i)
        /\ document[i - 2] = "," \/ i - 2 = Within(i)
  IN IF document[Within(i)] = "["
     THEN \/ t \in Values /\ (opened \/ before = ",")
          \/ t = "," /\ ended
          \/ t = "]" /\ (opened \/ ended)
     ELSE \/ t \in Strings /\ (opened \/ before = ",")
          \/ t = ":" /\ keyed
          \/ t \in Values /\ before = ":"
          \/ t = "," /\ ended /\ ~keyed
          \/ t = "}" /\ (opened \/ (ended /\ ~keyed))

\* One object and nothing after it, no container nested too deep.
WellFormed ==
  LET n == Len(document) IN
  /\ n > 0 /\ document[1] = "{" /\ Level(n + 1) = 0
  /\ \A i \in 2 .. n : Level(i) > 0
  /\ \A i \in 2 .. n : Fits(i)
  /\ \A i \in 1 .. n : document[i] \in Openers => Level(i) <= MaxDepth

\* The values of the object's members named external_drivers, by their position.
Members == {i \in 3 .. Len(document) :
              /\ document[i - 2] = "external_drivers" /\ document[i - 1] = ":"
              /\ Level(i - 2) = 1}

\* The array that opens at i holds strings only; these are its paths.
Listed(i) == {k \in i + 1 .. Len(document) : Level(k) > 1 /\ Within(k) = i}
OnlyStrings(i) ==
  document[i] = "[" /\ \A k \in Listed(i) : document[k] \in Strings \cup {",", "]"}
Listing(i, path) == Cardinality({k \in Listed(i) : document[k] = path})

\* The window says that this copy will be loaded exactly if the file is JSON,
\* names it once in the one list of drivers there is, and names no other copy
\* nor anything it did not look at; and whatever the file is, half-written,
\* edited or gone, the window's word for it is the right one
\* (inspectRegistration(), findTopLevelMember(), skipValue()).
RegistrationIsReference ==
  LET usable == /\ Intact /\ WellFormed
                /\ Cardinality(Members) <= 1 /\ \A i \in Members : OnlyStrings(i)
      Count(path) == IF Members = {} THEN 0 ELSE Listing(Max(Members), path)
      state == InspectRegistration
  IN /\ state = "Registered" <=>
          usable /\ Count("this") = 1 /\ Count("other") = 0 /\ Count("remote") = 0
     /\ state = "RegisteredElsewhere" <=>
          usable /\ Count("this") = 0 /\ Count("other") = 1 /\ Count("remote") = 0
     /\ state = "ConflictingRegistrations" <=>
          usable /\ Count("this") + Count("other") > 1 /\ Count("remote") = 0
     /\ state = "NotRegistered" <=>
          \/ usable /\ Count("this") = 0 /\ Count("other") = 0 /\ Count("remote") = 0
          \/ access = "missing" /\ copy = "whole"
     /\ Intact /\ state = "Unknown" => ~usable

=============================================================================
