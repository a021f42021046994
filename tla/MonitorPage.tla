---------------------------- MODULE MonitorPage ----------------------------
(***************************************************************************)
(* The monitoring page.  Its list is loaded again every ten seconds and    *)
(* whenever the selection in the address bar changes, the detail of the    *)
(* selected monitor likewise, and every answer is applied as it arrives:   *)
(* one that was asked for an earlier selection too.                        *)
(***************************************************************************)
EXTENDS Naturals

CONSTANTS
  Watched,           \* monitors, in the order of the list
  First(_),          \* the first of a set of them
  Expectations,      \* texts a monitor may expect, the empty one included
  ListLoads, DetailLoads,              \* requests under way at once
  MaxClicks, MaxPolls, MaxElsewhere    \* bounds

None == "none"
Blank == ""
Unread == {"unread"}

ASSUME MonitorPageAssumption ==
  /\ None \notin Watched /\ Blank \in Expectations /\ Expectations # {Blank}
  /\ \A ms \in SUBSET Watched : ms # {} => First(ms) \in ms
  /\ MaxClicks \in Nat /\ MaxPolls \in Nat /\ MaxElsewhere \in Nat

VARIABLES
  alive, gone,  \* monitors in the database, and those deleted from it
  expects,      \* what each of them expects in an answer
  wanted,       \* what the form that was saved last for each of them said
  inList,       \* the list the page shows
  chosenMonitor,   \* the selection, which is the parameter of the address
  detail,       \* whose detail is shown
  lists,        \* lists under way: the selection they were asked with, what was read, what comes after
  details,      \* details under way
  editForm,     \* the open form: the monitor and the text
  late, failed, \* an answer was applied that was not of the selection; a request failed
  pageBudget

monitorVars == <<alive, gone, expects, wanted>>
signalVars == <<late, failed>>
monitorPageVars == <<monitorVars, inList, chosenMonitor, detail, lists, details,
                     editForm, signalVars, pageBudget>>

NoMore == [then |-> "no more", monitor |-> None]
NoList == [stage |-> "idle", requested |-> None, read |-> Unread, after |-> NoMore]
NoDetail == None
NoForm == [monitor |-> None, text |-> Blank]

MonitorPageInit ==
  /\ alive \in SUBSET Watched \ {{}} /\ gone = {}
  /\ inList = {} /\ chosenMonitor = None /\ detail = None
  /\ expects = [m \in Watched |-> CHOOSE text \in Expectations : text # Blank] /\ wanted = expects
  /\ lists \in {[[l \in ListLoads |-> NoList] EXCEPT ![k].stage = "asked"] : k \in ListLoads}
  /\ details = [d \in DetailLoads |-> NoDetail]
  /\ editForm = NoForm
  /\ late = FALSE /\ failed = FALSE
  /\ pageBudget = [clicks |-> 0, polls |-> 0, elsewhere |-> 0]

Costs(field, bound) ==
  pageBudget[field] < bound /\ pageBudget' = [pageBudget EXCEPT ![field] = @ + 1]

-----------------------------------------------------------------------------
(* Requests.  The slots are a bound: a request begins when there is one.   *)

AsksFor(requested, after) ==
  [NoList EXCEPT !.stage = "asked", !.requested = requested, !.after = after]
BeginList(l, requested, after) ==
  /\ lists[l] = NoList
  /\ lists' = [lists EXCEPT ![l] = AsksFor(requested, after)]

FreeDetail == {d \in DetailLoads : details[d] = NoDetail}
(* The details of the monitors in ms are asked for.                        *)
BeginDetails(ms) ==
  \E slot \in [ms -> FreeDetail] :
    /\ \A m, n \in ms : slot[m] = slot[n] => m = n
    /\ details' = [d \in DetailLoads |->
         IF \E m \in ms : slot[m] = d THEN CHOOSE m \in ms : slot[m] = d ELSE details[d]]

(* A new selection changes the address, which makes the page load its list *)
(* and the detail.                                                         *)
SelectWithoutLoading(m, l) ==
  /\ chosenMonitor' = m
  /\ UNCHANGED <<lists, details>>
SelectMonitor(m, l) ==
  /\ chosenMonitor' = m
  /\ BeginList(l, m, NoMore)
  /\ BeginDetails({m})

Click(m, l) ==
  /\ m \in inList /\ m # chosenMonitor /\ editForm = NoForm /\ Costs("clicks", MaxClicks)
  /\ SelectMonitor(m, l)
  /\ UNCHANGED <<monitorVars, inList, detail, editForm, signalVars>>

PollList(l) ==
  /\ Costs("polls", MaxPolls) /\ BeginList(l, chosenMonitor, NoMore)
  /\ UNCHANGED <<monitorVars, inList, chosenMonitor, detail, details, editForm, signalVars>>
PollDetail ==
  /\ chosenMonitor # None /\ Costs("polls", MaxPolls) /\ BeginDetails({chosenMonitor})
  /\ UNCHANGED <<monitorVars, inList, chosenMonitor, detail, lists, editForm, signalVars>>

ReadList(l) ==
  /\ lists[l].stage = "asked"
  /\ lists' = [lists EXCEPT ![l].stage = "read", ![l].read = alive]
  /\ UNCHANGED <<monitorVars, inList, chosenMonitor, detail, details, editForm,
                 signalVars, pageBudget>>

(* The slot of a list that was applied: what its caller does next is left. *)
Applied(l) == IF lists[l].after = NoMore THEN NoList ELSE [lists[l] EXCEPT !.stage = "after"]

(* The selection a list was asked with is in it: then the present one      *)
(* stays, but when it is another the old one's detail is asked for again   *)
(* before that of the present.                                             *)
ShowList(l) ==
  LET answer == lists[l]
      other == answer.requested # chosenMonitor
  IN  /\ answer.stage = "read" /\ answer.requested \in answer.read
      /\ inList' = answer.read
      /\ IF other THEN BeginDetails({answer.requested, chosenMonitor} \ {None}) ELSE UNCHANGED details
      /\ late' = (late \/ other)
      /\ lists' = [lists EXCEPT ![l] = Applied(l)]
      /\ UNCHANGED <<monitorVars, chosenMonitor, detail, editForm, failed, pageBudget>>

(* It is not: the first of the list is selected.                           *)
ShowListAnew(l, k) ==
  LET answer == lists[l]
      next == IF answer.read = {} THEN None ELSE First(answer.read)
      applied == [lists EXCEPT ![l] = Applied(l)]
  IN  /\ answer.stage = "read" /\ answer.requested \notin answer.read
      /\ inList' = answer.read /\ chosenMonitor' = next
      /\ late' = (late \/ answer.requested # chosenMonitor)
      /\ applied[k] = NoList
      /\ lists' = IF next = chosenMonitor THEN applied
                  ELSE [applied EXCEPT ![k] = AsksFor(next, NoMore)]
      /\ detail' = IF next = None THEN None ELSE detail
      /\ IF next \in {None, chosenMonitor} THEN UNCHANGED details ELSE BeginDetails({next})
      /\ UNCHANGED <<monitorVars, editForm, failed, pageBudget>>

(* After a button the detail of what was selected at the click, after a    *)
(* creation the selection of the new monitor.                              *)
GoOn(l) ==
  LET after == lists[l].after
  IN  /\ lists[l].stage = "after"
      /\ IF after.then = "select" /\ after.monitor # chosenMonitor
         THEN /\ chosenMonitor' = after.monitor
              /\ lists' = [lists EXCEPT ![l] = AsksFor(after.monitor, NoMore)]
              /\ BeginDetails({after.monitor})
         ELSE /\ lists' = [lists EXCEPT ![l] = NoList]
              /\ IF after.then = "detail" /\ after.monitor # None THEN BeginDetails({after.monitor})
                 ELSE UNCHANGED details
              /\ UNCHANGED chosenMonitor
      /\ UNCHANGED <<monitorVars, inList, detail, editForm, signalVars, pageBudget>>

ShowDetail(d) ==
  /\ details[d] # NoDetail
  /\ IF details[d] \in alive
     THEN /\ detail' = details[d] /\ late' = (late \/ details[d] # chosenMonitor)
          /\ UNCHANGED failed
     ELSE failed' = TRUE /\ UNCHANGED <<detail, late>>
  /\ details' = [details EXCEPT ![d] = NoDetail]
  /\ UNCHANGED <<monitorVars, inList, chosenMonitor, lists, editForm, pageBudget>>

ListFails(l) ==
  /\ lists[l].stage \in {"asked", "read"} /\ Costs("elsewhere", MaxElsewhere)
  /\ lists' = [lists EXCEPT ![l] = NoList] /\ failed' = TRUE
  /\ UNCHANGED <<monitorVars, inList, chosenMonitor, detail, details, editForm, late>>
DetailFails(d) ==
  /\ details[d] # NoDetail /\ Costs("elsewhere", MaxElsewhere)
  /\ details' = [details EXCEPT ![d] = NoDetail] /\ failed' = TRUE
  /\ UNCHANGED <<monitorVars, inList, chosenMonitor, detail, lists, editForm, late>>

-----------------------------------------------------------------------------
(* The buttons of the detail.  Its header is the selected monitor.  An open *)
(* form covers them, and the list too.                                     *)

Header == IF chosenMonitor \in inList THEN chosenMonitor ELSE detail

(* Run now, pause and resume: the request, the list, then the detail of    *)
(* what was selected at the click.                                         *)
Act(l) ==
  /\ detail # None /\ editForm = NoForm /\ Costs("clicks", MaxClicks)
  /\ BeginList(l, chosenMonitor, [then |-> "detail", monitor |-> chosenMonitor])
  /\ UNCHANGED <<monitorVars, inList, chosenMonitor, detail, details, editForm, signalVars>>

DeleteWatched(l) ==
  /\ detail # None /\ Header \in alive /\ editForm = NoForm /\ Costs("clicks", MaxClicks)
  /\ alive' = alive \ {Header} /\ gone' = gone \cup {Header} /\ detail' = None
  /\ BeginList(l, chosenMonitor, NoMore)
  /\ UNCHANGED <<expects, wanted, inList, chosenMonitor, details, editForm, signalVars>>

CreateWatched(m, l) ==
  /\ m \in Watched \ (alive \cup gone) /\ editForm = NoForm /\ Costs("clicks", MaxClicks)
  /\ alive' = alive \cup {m}
  /\ BeginList(l, chosenMonitor, [then |-> "select", monitor |-> m])
  /\ UNCHANGED <<gone, expects, wanted, inList, chosenMonitor, detail, details, editForm, signalVars>>

OpenForm ==
  /\ detail # None /\ editForm = NoForm /\ Costs("clicks", MaxClicks)
  /\ editForm' = [monitor |-> detail, text |-> expects[detail]]
  /\ UNCHANGED <<monitorVars, inList, chosenMonitor, detail, lists, details, signalVars>>
TypeText(text) ==
  /\ editForm # NoForm /\ text # editForm.text
  /\ editForm' = [editForm EXCEPT !.text = text]
  /\ UNCHANGED <<monitorVars, inList, chosenMonitor, detail, lists, details, signalVars, pageBudget>>

(* An empty field is left out of the request, and what a request leaves    *)
(* out keeps its value.                                                    *)
Merged(stored, text) == IF text = Blank THEN stored ELSE text
SaveForm(l) ==
  LET m == editForm.monitor
  IN  /\ editForm # NoForm /\ m \in alive
      /\ expects' = [expects EXCEPT ![m] = Merged(@, editForm.text)]
      /\ wanted' = [wanted EXCEPT ![m] = editForm.text]
      /\ editForm' = NoForm
      /\ BeginList(l, chosenMonitor, [then |-> "detail", monitor |-> m])
      /\ UNCHANGED <<alive, gone, inList, chosenMonitor, detail, details, signalVars, pageBudget>>
CloseForm ==
  /\ editForm # NoForm /\ editForm' = NoForm
  /\ UNCHANGED <<monitorVars, inList, chosenMonitor, detail, lists, details, signalVars, pageBudget>>

(* Another member, or another tab.                                         *)
GoneElsewhere(m) ==
  /\ m \in alive /\ Costs("elsewhere", MaxElsewhere)
  /\ alive' = alive \ {m} /\ gone' = gone \cup {m}
  /\ UNCHANGED <<expects, wanted, inList, chosenMonitor, detail, lists, details, editForm, signalVars>>

-----------------------------------------------------------------------------
MonitorPageNext ==
  \/ \E l \in ListLoads :
       \/ \E m \in Watched : Click(m, l) \/ CreateWatched(m, l)
       \/ \E k \in ListLoads : ShowListAnew(l, k)
       \/ PollList(l) \/ ReadList(l) \/ ShowList(l) \/ GoOn(l) \/ ListFails(l)
       \/ Act(l) \/ DeleteWatched(l) \/ SaveForm(l)
  \/ \E d \in DetailLoads : ShowDetail(d) \/ DetailFails(d)
  \/ PollDetail \/ OpenForm \/ CloseForm
  \/ \E text \in Expectations : TypeText(text)
  \/ \E m \in Watched : GoneElsewhere(m)

MonitorPageSpec == MonitorPageInit /\ [][MonitorPageNext]_monitorPageVars

-----------------------------------------------------------------------------
(* Properties.                                                             *)

AtRest == (\A l \in ListLoads : lists[l] = NoList) /\ (\A d \in DetailLoads : details[d] = NoDetail)

(* When nothing is under way the selected monitor is in the list and its   *)
(* detail is shown, whatever was clicked and deleted in the meantime;      *)
(* unless a request failed or an answer for another selection was applied. *)
DetailOfSelected ==
  AtRest /\ ~late /\ ~failed =>
    /\ chosenMonitor \in inList \cup {None}
    /\ detail = chosenMonitor

(* The buttons act on the monitor whose name is above them: does not hold  *)
(* between a selection and the arrival of its detail.                      *)
ActsOnSelected ==
  [][(\E l \in ListLoads : Act(l)) \/ OpenForm => Header = detail]_monitorPageVars

(* A form that was saved is what the monitor has: does not hold, a text    *)
(* cannot be emptied.                                                      *)
SavedAsShown == \A m \in alive : expects[m] = wanted[m]
=============================================================================
