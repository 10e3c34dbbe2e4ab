---------------------------- MODULE StatusReport ----------------------------
(***************************************************************************)
(* What the status window promises about the runtime: it never shows as     *)
(* fact what was not the case at some moment while it looked, and it is     *)
(* unsure only if something hid the evidence or there was none to find      *)
(* (status_overview.hpp:17, status_main.cpp:396).                           *)
(*                                                                         *)
(* A fact has a set of values: both while the driver is on the way from one *)
(* to the other, between a change and the line in the log that tells of it. *)
(***************************************************************************)
EXTENDS Naturals

Facts == {"running", "loaded", "hook", "disabled", "recognised"}
Truths == [Facts -> (SUBSET BOOLEAN) \ {{}}]

VARIABLES truth,       \* what is the case
          refreshing,  \* the window is looking
          seen,        \* what has been the case since it began
          shown        \* the page

vars == <<truth, refreshing, seen, shown>>

Merged(a, b) == [f \in Facts |-> a[f] \cup b[f]]

Verdicts == {"Yes", "No", "Unknown", "NotApplicable"}
Overviews == {"nothing", "Ready", "WaitingForTracker", "SteamVrStopped", "SteamVrUnknown",
              "Disabled", "DriverUnavailable", "HookUnavailable"}
\* partial: something kept evidence from the window.
Pages == [loaded : Verdicts, hook : Verdicts, overview : Overviews, partial : BOOLEAN]
NoPage == [loaded |-> "Unknown", hook |-> "Unknown", overview |-> "nothing", partial |-> FALSE]

\* "Unknown" needs an excuse, and so does "not applicable": there is no driver.
Honest(page, fact) ==
  CASE page[fact] = "Yes"     -> TRUE \in seen[fact]
    [] page[fact] = "No"      -> FALSE \in seen[fact]
    [] page[fact] = "Unknown" -> page.partial \/ FALSE \in seen.loaded
    [] OTHER                  -> FALSE \in seen.loaded

\* The headline is no bolder than the facts.
Headline(page) ==
  CASE page.overview = "Ready" -> \A f \in Facts \ {"disabled"} : TRUE \in seen[f]
    [] page.overview = "WaitingForTracker" ->
         /\ \A f \in {"running", "loaded", "hook"} : TRUE \in seen[f]
         /\ FALSE \in seen.recognised
    [] page.overview = "Disabled"          -> TRUE \in seen.disabled /\ TRUE \in seen.loaded
    [] page.overview = "SteamVrStopped"    -> FALSE \in seen.running
    [] page.overview = "DriverUnavailable" -> page.partial \/ FALSE \in seen.loaded
    [] page.overview = "HookUnavailable"   -> page.partial \/ FALSE \in seen.hook
    [] OTHER                               -> page.partial

Init == truth \in Truths /\ refreshing = FALSE /\ seen = truth /\ shown = NoPage

Change ==
  /\ truth' \in Truths
  /\ seen' = IF refreshing THEN Merged(seen, truth') ELSE truth'
  /\ UNCHANGED <<refreshing, shown>>

Begin == ~refreshing /\ refreshing' = TRUE /\ UNCHANGED <<truth, seen, shown>>

Show ==
  /\ refreshing /\ refreshing' = FALSE
  /\ shown' \in Pages
  /\ \A fact \in {"loaded", "hook"} : Honest(shown', fact)
  /\ Headline(shown')
  /\ seen' = truth /\ UNCHANGED truth

\* A refresh that fails leaves the previous page.
Fail == refreshing /\ refreshing' = FALSE /\ seen' = truth /\ UNCHANGED <<truth, shown>>

Next == Change \/ Begin \/ Show \/ Fail
Spec == Init /\ [][Next]_vars

=============================================================================
