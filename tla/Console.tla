------------------------------- MODULE Console -------------------------------
(***************************************************************************)
(* Two pages of the web application that race with the API.  The overview  *)
(* lists the events of the selected route: it loads them when the route is *)
(* selected and when the stream of attempts says that there are more.  The *)
(* form of a new live route demands that its destination was checked.      *)
(*                                                                         *)
(* Answers arrive in any order and are applied as they arrive.  The stream *)
(* is a Redis subscription, which the API opens after it told the browser  *)
(* that the stream is ready, and which keeps nothing for later.            *)
(***************************************************************************)
EXTENDS Integers

CONSTANTS
  Routes, Urls,
  Loads,            \* requests for events under way at once
  MaxAttempts,      \* bounds: attempts received,
  MaxSwitches,      \*   selections of a route and other reloads of the list,
  MaxUpsets,        \*   lost connections, lost messages and failed requests,
  MaxEdits          \*   edits of the form

VARIABLES
  attempts,    \* per route: how many there are
  selected,
  shown,       \* the list: its route and how many attempts it shows
  load,        \* the requests for events
  stream,      \* useEventStream of the selected route
  form,        \* the destination in the form, and the check it shows
  check,       \* the request that checks a destination
  budget,      \* how much of each bound is used
  seen         \* history: see Seen

consoleVars == <<attempts, selected, shown, load, stream, form, check, budget, seen>>

NoUrl == "no url"
ASSUME ConsoleAssumption ==
  /\ MaxAttempts \in Nat /\ MaxSwitches \in Nat /\ MaxUpsets \in Nat /\ MaxEdits \in Nat
  /\ NoUrl \notin Urls

(* A message waits in the connection, the timer of 200 ms in the browser.  *)
Stream == [state : {"connecting", "ready", "subscribed", "broken"},
           message : BOOLEAN, timer : BOOLEAN]
Connecting == [state |-> "connecting", message |-> FALSE, timer |-> FALSE]

(* missed: an attempt of the selected route was neither announced nor read *)
(* since.  newest: what the latest answer for it had read of all that were *)
(* shown.  stale: the list came from an answer that arrived after that one *)
(* or after its route was left.  reached: destinations a check found       *)
(* reachable.                                                              *)
Seen == [missed : BOOLEAN, newest : Nat, stale : BOOLEAN,
         reached : SUBSET Urls, created : SUBSET Urls]

Idle == [state |-> "idle", route |-> "none", read |-> 0]
Sent(route) == [state |-> "sent", route |-> route, read |-> 0]

ConsoleInit ==
  /\ attempts = [r \in Routes |-> 0]
  /\ selected \in Routes
  /\ shown = [route |-> selected, upTo |-> 0]
  /\ load = [l \in Loads |-> Idle]
  /\ stream = Connecting
  /\ form = [url |-> NoUrl, checked |-> NoUrl, reachable |-> FALSE]
  /\ check = NoUrl
  /\ budget = [attempts |-> 0, switches |-> 0, upsets |-> 0, edits |-> 0]
  /\ seen = [missed |-> FALSE, newest |-> 0, stale |-> FALSE, reached |-> {}, created |-> {}]

Within(field, bound) ==
  budget[field] < bound /\ budget' = [budget EXCEPT ![field] = @ + 1]

-----------------------------------------------------------------------------
(* The overview.                                                           *)

formVars == <<form, check>>
Begin(l, route) == load[l].state = "idle" /\ load' = [load EXCEPT ![l] = Sent(route)]

(* The effect on the selected route: it loads, and the stream of the old   *)
(* route and its timer end.  The old list stays until the answer.          *)
SelectOnly(l, r) ==
  /\ r # selected /\ Within("switches", MaxSwitches)
  /\ selected' = r
  /\ stream' = Connecting
  /\ seen' = [seen EXCEPT !.missed = FALSE, !.newest = 0, !.stale = FALSE]
  /\ UNCHANGED <<attempts, shown, load, formVars>>
Select(l, r) ==
  /\ r # selected /\ Within("switches", MaxSwitches)
  /\ selected' = r
  /\ Begin(l, r)
  /\ stream' = Connecting
  /\ seen' = [seen EXCEPT !.missed = FALSE, !.newest = 0, !.stale = FALSE]
  /\ UNCHANGED <<attempts, shown, formVars>>

(* The dashboard replaced its list of routes: the effect runs again.       *)
Reload(l) ==
  /\ Within("switches", MaxSwitches)
  /\ Begin(l, selected)
  /\ UNCHANGED <<attempts, selected, shown, stream, formVars, seen>>

(* GET /v1/endpoints/:id/events reads what there is ...                    *)
Read(l) ==
  /\ load[l].state = "sent"
  /\ load' = [load EXCEPT ![l].state = "answered", ![l].read = attempts[load[l].route]]
  /\ UNCHANGED <<attempts, selected, shown, stream, formVars, budget, seen>>

(* ... and the page shows what arrives.                                    *)
Older(l) == load[l].route # selected \/ load[l].read < seen.newest
Show(l) ==
  /\ load[l].state = "answered"
  /\ shown' = [route |-> load[l].route, upTo |-> load[l].read]
  /\ load' = [load EXCEPT ![l] = Idle]
  /\ seen' = [seen EXCEPT !.stale = Older(l), !.newest = IF Older(l) THEN @ ELSE load[l].read,
                          !.missed = @ /\ (Older(l) \/ load[l].read < attempts[selected])]
  /\ UNCHANGED <<attempts, selected, stream, formVars, budget>>
LoadFails(l) ==
  /\ load[l].state # "idle" /\ Within("upsets", MaxUpsets)
  /\ load' = [load EXCEPT ![l] = Idle]
  /\ seen' = [seen EXCEPT !.missed = TRUE]
  /\ UNCHANGED <<attempts, selected, shown, stream, formVars>>

(* The ingestor stored an attempt and published it, if it got so far.      *)
Attempt(r, published) ==
  /\ Within("attempts", MaxAttempts)
  /\ ~published => budget.upsets < MaxUpsets
  /\ attempts' = [attempts EXCEPT ![r] = @ + 1]
  /\ LET heard == published /\ r = selected /\ stream.state = "subscribed"
     IN  /\ stream' = IF heard THEN [stream EXCEPT !.message = TRUE] ELSE stream
         /\ seen' = [seen EXCEPT !.missed = @ \/ (r = selected /\ ~heard)]
  /\ UNCHANGED <<selected, shown, load, formVars>>

(* GET /v1/endpoints/:id/stream says ready, then subscribes.               *)
Opens ==
  /\ stream.state \in {"connecting", "broken"}
  /\ stream' = [stream EXCEPT !.state = "ready"]
  /\ UNCHANGED <<attempts, selected, shown, load, formVars, budget, seen>>
Subscribes ==
  /\ stream.state = "ready" /\ stream' = [stream EXCEPT !.state = "subscribed"]
  /\ UNCHANGED <<attempts, selected, shown, load, formVars, budget, seen>>
Breaks ==
  /\ stream.state \in {"ready", "subscribed"} /\ Within("upsets", MaxUpsets)
  /\ stream' = [stream EXCEPT !.state = "broken", !.message = FALSE]
  /\ seen' = [seen EXCEPT !.missed = @ \/ stream.message]
  /\ UNCHANGED <<attempts, selected, shown, load, formVars>>

(* A message sets the timer anew, which loads when it fires.               *)
Hears ==
  /\ stream.message
  /\ stream' = [stream EXCEPT !.message = FALSE, !.timer = TRUE]
  /\ UNCHANGED <<attempts, selected, shown, load, formVars, budget, seen>>
TimerFires(l) ==
  /\ stream.timer /\ Begin(l, selected)
  /\ stream' = [stream EXCEPT !.timer = FALSE]
  /\ UNCHANGED <<attempts, selected, shown, formVars, budget, seen>>

-----------------------------------------------------------------------------
(* The form of a new live route.                                           *)

overviewVars == <<attempts, selected, shown, load, stream>>

Edit(url) ==
  /\ url # form.url /\ Within("edits", MaxEdits)
  /\ form' = [url |-> url, checked |-> NoUrl, reachable |-> FALSE]
  /\ UNCHANGED <<overviewVars, check, seen>>

(* Another provider or secret: the check is dropped, the url stays.        *)
EditOther ==
  /\ Within("edits", MaxEdits)
  /\ form' = [form EXCEPT !.checked = NoUrl, !.reachable = FALSE]
  /\ UNCHANGED <<overviewVars, check, seen>>

(* The button is disabled while a check is under way.                      *)
Check ==
  /\ form.url # NoUrl /\ check = NoUrl
  /\ check' = form.url
  /\ form' = [form EXCEPT !.checked = NoUrl, !.reachable = FALSE]
  /\ UNCHANGED <<overviewVars, budget, seen>>
CheckAnswers(reachable) ==
  /\ check # NoUrl /\ check' = NoUrl
  /\ form' = [form EXCEPT !.checked = check, !.reachable = reachable]
  /\ seen' = [seen EXCEPT !.reached = IF reachable THEN @ \cup {check} ELSE @]
  /\ UNCHANGED <<overviewVars, budget>>
CheckFails ==
  /\ check # NoUrl /\ check' = NoUrl
  /\ UNCHANGED <<overviewVars, form, budget, seen>>

destinationReachable == form.reachable /\ form.url # NoUrl
destinationChecked == form.reachable /\ form.checked = form.url /\ form.url # NoUrl
Submit ==
  /\ destinationChecked
  /\ seen' = [seen EXCEPT !.created = @ \cup {form.url}]
  /\ form' = [url |-> NoUrl, checked |-> NoUrl, reachable |-> FALSE]
  /\ UNCHANGED <<overviewVars, check, budget>>

-----------------------------------------------------------------------------
OverviewNext ==
  \/ \E l \in Loads :
       \/ \E r \in Routes : Select(l, r)
       \/ Reload(l) \/ Read(l) \/ Show(l) \/ LoadFails(l) \/ TimerFires(l)
  \/ \E r \in Routes, published \in BOOLEAN : Attempt(r, published)
  \/ Opens \/ Subscribes \/ Breaks \/ Hears

FormNext ==
  \/ \E url \in Urls : Edit(url)
  \/ EditOther \/ Check \/ CheckFails \/ Submit
  \/ \E reachable \in BOOLEAN : CheckAnswers(reachable)

ConsoleNext == OverviewNext \/ FormNext

ConsoleSpec == ConsoleInit /\ [][ConsoleNext]_consoleVars

-----------------------------------------------------------------------------
(* Properties.                                                             *)

Quiet == (\A l \in Loads : load[l].state = "idle") /\ ~stream.message /\ ~stream.timer

(* When nothing is under way, the list is that of the selected route and   *)
(* shows all its attempts, however selections, reloads and messages were   *)
(* interleaved; except after an answer that was applied out of order, or   *)
(* an attempt that no message announced: the page does not ask again.      *)
ShownIsCurrent ==
  Quiet /\ ~seen.missed /\ ~seen.stale =>
    shown = [route |-> selected, upTo |-> attempts[selected]]

(* A live route is created only with a destination that a check found      *)
(* reachable, though the form is edited while the answer is under way.     *)
DestinationChecked == seen.created \subseteq seen.reached
=============================================================================
