--------------------------- MODULE IncidentCenter ---------------------------
(***************************************************************************)
(* Incidents & recovery: members acknowledge, assign and annotate          *)
(* incidents and recover dead letters.  The page asks for everything every *)
(* ten seconds and after each of its own changes; the API reads the        *)
(* incidents, the dead letters and the alerts first, what followed on the  *)
(* dead letters next.  The deliveries are those of one event of a route    *)
(* whose policy is fan-out, all its targets active.                        *)
(***************************************************************************)
EXTENDS Naturals, Sequences, SequencesExt, Overrides

CONSTANTS
  People, Owner,      \* members of the workspace, its owner among them
  Cases,              \* incidents
  Notes,              \* what a note may say
  Aims,               \* destinations of the event
  Triages, Views,     \* changes, and requests for the page, under way at once
  MaxFollowUps, MaxCaseChanges, MaxViews    \* bounds: manual deliveries, changes, requests

NoOne == "nobody"
NoNote == "no note"

ASSUME IncidentCenterAssumption ==
  /\ Owner \in People /\ NoOne \notin People /\ NoNote \notin Notes
  /\ Aims # {} /\ IsFiniteSet(Aims) /\ MaxFollowUps \in Nat /\ MaxCaseChanges \in Nat /\ MaxViews \in Nat

VARIABLES
  team,       \* the members there are
  cases,      \* incidents: state, who acknowledged, who is assigned, the note
  told,       \* alerts that were sent: the incident and its event
  followed,   \* the deliveries of the event, in sequence
  triages,    \* changes of incidents under way
  viewer,     \* who looks at the page
  views,      \* requests for the page under way
  page,       \* what it shows
  drafts,     \* notes typed on it
  busyWith,   \* the incident whose controls are disabled
  own,        \* of each incident, what the viewer set last and no one else since
  crossed, missed,    \* an answer came after a later one's; a request for the page failed
  triageBudget

recordVars == <<team, cases, told, followed>>
lookingVars == <<viewer, views, page, drafts, busyWith, crossed, missed>>
incidentCenterVars == <<recordVars, triages, lookingVars, own, triageBudget>>

NoTriage == [stage |-> "none"]
NoView == [stage |-> "none"]
UnderWay == "under way"   \* queued or delivering
Pending == {UnderWay, "retrying"}
Case == [status |-> "open", acknowledged |-> NoOne, assignee |-> NoOne, note |-> NoNote]

IncidentCenterInit ==
  /\ team = People /\ viewer \in People
  /\ cases = [i \in Cases |-> Case] /\ told = {}
  /\ followed = [n \in 1..Cardinality(Aims) |->
                   [aim |-> SetToSeq(Aims)[n], state |-> UnderWay, after |-> 0, kind |-> "forward"]]
  /\ triages = [t \in Triages |-> NoTriage]
  /\ views = [v \in Views |-> NoView]
  /\ page = [cases |-> <<>>, dead |-> {}, offered |-> {}, resolved |-> {}, alerts |-> {},
             readAt |-> 0, turn |-> 0]
  /\ drafts = <<>> /\ busyWith = NoOne
  /\ own = [i \in Cases |-> <<>>] /\ crossed = FALSE /\ missed = FALSE
  /\ triageBudget = [changes |-> 0, views |-> 0]

Spends(field, bound) ==
  triageBudget[field] < bound /\ triageBudget' = [triageBudget EXCEPT ![field] = @ + 1]

-----------------------------------------------------------------------------
(* The worker and the workspace.                                           *)

DeliveryEnds(n, state) ==
  /\ followed[n].state = UnderWay
  /\ followed' = [followed EXCEPT ![n].state = state]
  /\ UNCHANGED <<team, cases, told, triages, lookingVars, own, triageBudget>>

(* A failed delivery stays 'retrying'; a delivery of its own follows.      *)
DeliveryRetries(n) ==
  /\ followed[n].state = UnderWay /\ Len(followed) < Cardinality(Aims) + MaxFollowUps
  /\ followed' = Append([followed EXCEPT ![n].state = "retrying"],
       [followed[n] EXCEPT !.after = n, !.kind = "retry"])
  /\ UNCHANGED <<team, cases, told, triages, lookingVars, own, triageBudget>>

CaseRecovers(i) ==
  /\ cases[i].status = "open" /\ Spends("changes", MaxCaseChanges)
  /\ cases' = [cases EXCEPT ![i].status = "recovered"]
  /\ UNCHANGED <<team, told, followed, triages, lookingVars, own>>
AlertIsSent(i, event) ==
  /\ event = "recovered" => cases[i].status = "recovered"
  /\ <<i, event>> \notin told /\ told' = told \cup {<<i, event>>}
  /\ Spends("changes", MaxCaseChanges)
  /\ UNCHANGED <<team, cases, followed, triages, lookingVars, own>>

LeaveTeam(m) ==
  /\ m \in team \ {Owner, viewer} /\ team' = team \ {m}
  /\ Spends("changes", MaxCaseChanges)
  /\ UNCHANGED <<cases, told, followed, triages, lookingVars, own>>

-----------------------------------------------------------------------------
(* Changing an incident: the API looks it up and checks that an assignee   *)
(* is a member, then writes what the change names.                         *)

Patches ==
  [acknowledged : BOOLEAN] \cup [assignee : People \cup {NoOne}] \cup [note : Notes \cup {NoNote}]
Settled(m, patch) ==
  IF "acknowledged" \in DOMAIN patch
  THEN [acknowledged |-> IF patch.acknowledged THEN m ELSE NoOne]
  ELSE patch

BeginTriage(t, m, i, patch) ==
  /\ triages[t] = NoTriage /\ Spends("changes", MaxCaseChanges)
  /\ "assignee" \in DOMAIN patch => patch.assignee \in team \cup {NoOne}
  /\ triages' = [triages EXCEPT ![t] =
       [stage |-> "checked", by |-> m, incident |-> i, values |-> Settled(m, patch),
        found |-> cases[i]]]

(* A colleague, on a page of their own or with an API client.              *)
TriageElsewhere(t, m, i, patch) ==
  /\ m \in team \ {viewer} /\ BeginTriage(t, m, i, patch)
  /\ UNCHANGED <<recordVars, lookingVars, own>>

TriagedWhole(triage, stored) == Over(triage.values, triage.found)
Triaged(triage, stored) == Over(triage.values, stored)
CommitTriage(t) ==
  LET triage == triages[t]
      i == triage.incident
      others == [f \in DOMAIN own[i] \ DOMAIN triage.values |-> own[i][f]]
  IN  /\ triage.stage = "checked"
      /\ cases' = [cases EXCEPT ![i] = Triaged(triage, @)]
      /\ own' = [own EXCEPT ![i] = IF triage.by = viewer THEN Over(triage.values, @) ELSE others]
      /\ triages' = [triages EXCEPT ![t] =
           IF triage.by = viewer THEN [triage EXCEPT !.stage = "done"] ELSE NoTriage]
      /\ UNCHANGED <<team, told, followed, lookingVars, triageBudget>>

-----------------------------------------------------------------------------
(* The page.                                                               *)

Turn == 1 + triageBudget.views
BeginView(v, for) ==
  /\ views[v] = NoView /\ Spends("views", MaxViews)
  /\ views' = [views EXCEPT ![v] = [stage |-> "asked", for |-> for, turn |-> Turn]]

DeadLetters == {n \in 1..Len(followed) : followed[n].state = "dead_letter"}
Audit == IF viewer = Owner THEN told ELSE {}
RepeatOf(n, k) == followed[k].after = n
FollowUpOf(n, k) == k > n
Later(n, states) == \E k \in 1..Len(followed) : FollowUpOf(n, k) /\ followed[k].state \in states

ReadRecords(v) ==
  /\ views[v].stage = "asked"
  /\ views' = [views EXCEPT ![v] =
       [stage |-> "records", for |-> @.for, turn |-> @.turn, cases |-> cases,
        dead |-> DeadLetters, alerts |-> Audit, readAt |-> Len(followed)]]
  /\ UNCHANGED <<recordVars, triages, viewer, page, drafts, busyWith, crossed, missed,
                 own, triageBudget>>

(* What came later on the event settles a dead letter, whichever           *)
(* destination it went to.                                                 *)
ReadFollowUps(v) ==
  LET view == views[v]
      resolved == {n \in view.dead : Later(n, {"succeeded"})}
  IN  /\ view.stage = "records"
      /\ views' = [views EXCEPT ![v] =
           [stage |-> "read", for |-> view.for,
            data |-> [cases |-> view.cases, dead |-> view.dead, resolved |-> resolved,
                      offered |-> {n \in view.dead \ resolved : ~Later(n, Pending)},
                      alerts |-> view.alerts, readAt |-> view.readAt, turn |-> view.turn]]]
      /\ UNCHANGED <<recordVars, triages, viewer, page, drafts, busyWith, crossed, missed,
                     own, triageBudget>>

ShowView(v) ==
  LET view == views[v]
  IN  /\ view.stage = "read"
      /\ page' = view.data /\ crossed' = (crossed \/ view.data.turn < page.turn)
      /\ busyWith' = IF view.for = "triage" THEN NoOne ELSE busyWith
      /\ views' = [views EXCEPT ![v] = NoView]
      /\ UNCHANGED <<recordVars, triages, viewer, drafts, missed, own, triageBudget>>
FailView(v) ==
  /\ views[v].stage \in {"asked", "records"} /\ Spends("views", MaxViews)
  /\ views' = [views EXCEPT ![v] = NoView] /\ missed' = TRUE
  /\ busyWith' = IF views[v].for = "triage" THEN NoOne ELSE busyWith
  /\ UNCHANGED <<recordVars, triages, viewer, page, drafts, crossed, own>>

Poll(v) ==
  /\ BeginView(v, "poll")
  /\ UNCHANGED <<recordVars, triages, viewer, page, drafts, busyWith, crossed, missed, own>>

(* A control of an incident: its request, then the page again.             *)
Triage(t, i, patch) ==
  /\ i \in DOMAIN page.cases /\ busyWith # i
  /\ "acknowledged" \in DOMAIN patch =>
       patch.acknowledged = (page.cases[i].acknowledged = NoOne)
  /\ "note" \in DOMAIN patch =>
       patch.note = IF i \in DOMAIN drafts THEN drafts[i] ELSE page.cases[i].note
  /\ BeginTriage(t, viewer, i, patch)
  /\ busyWith' = i
  /\ UNCHANGED <<recordVars, viewer, views, page, drafts, crossed, missed, own>>
AfterTriage(t, v) ==
  /\ triages[t].stage = "done" /\ BeginView(v, "triage")
  /\ triages' = [triages EXCEPT ![t] = NoTriage]
  /\ UNCHANGED <<recordVars, viewer, page, drafts, busyWith, crossed, missed, own>>
Draft(i, note) ==
  /\ i \in DOMAIN page.cases /\ i \notin DOMAIN drafts
  /\ drafts' = Over([x \in {i} |-> note], drafts)
  /\ UNCHANGED <<recordVars, triages, viewer, views, page, busyWith, crossed, missed, own, triageBudget>>

(* The buttons of a dead letter ask for confirmation first; then the       *)
(* request, which finds a pending copy of the same kind or adds one, to    *)
(* the first target whichever it repeats, and the page again.              *)
Requested(n, kind) ==
  /\ kind = "retry" => followed[n].state = "dead_letter"
  /\ IF \E k \in 1..Len(followed) :
          followed[k].after = n /\ followed[k].kind = kind /\ followed[k].state \in Pending
     THEN UNCHANGED followed
     ELSE /\ Len(followed) < Cardinality(Aims) + MaxFollowUps
          /\ followed' = Append(followed,
               [aim |-> followed[1].aim, state |-> UnderWay, after |-> n, kind |-> kind])
RecoverDeadLetter(n, kind, v) ==
  /\ n \in page.offered /\ Requested(n, kind) /\ BeginView(v, "recovery")
  /\ UNCHANGED <<team, cases, told, triages, viewer, page, drafts, busyWith, crossed, missed, own>>
RecoverElsewhere(n, kind) ==
  /\ followed[n].state = "dead_letter" /\ Requested(n, kind)
  /\ UNCHANGED <<team, cases, told, triages, lookingVars, own, triageBudget>>

-----------------------------------------------------------------------------
ViewNext ==
  \E v \in Views : Poll(v) \/ ReadRecords(v) \/ ReadFollowUps(v) \/ ShowView(v) \/ FailView(v)
RecoveryNext ==
  \/ \E n \in 1..Len(followed) :
       \/ \E state \in {"succeeded", "dead_letter"} : DeliveryEnds(n, state)
       \/ DeliveryRetries(n)
       \/ \E kind \in {"retry", "replay"} :
            RecoverElsewhere(n, kind) \/ \E v \in Views : RecoverDeadLetter(n, kind, v)
  \/ ViewNext
TriageNext ==
  \/ \E i \in Cases :
       \/ CaseRecovers(i) \/ \E event \in {"opened", "recovered"} : AlertIsSent(i, event)
       \/ \E note \in Notes : Draft(i, note)
       \/ \E t \in Triages, patch \in Patches :
            Triage(t, i, patch) \/ \E m \in People : TriageElsewhere(t, m, i, patch)
  \/ \E t \in Triages : CommitTriage(t) \/ \E v \in Views : AfterTriage(t, v)
  \/ \E m \in People : LeaveTeam(m)
  \/ ViewNext
IncidentCenterNext == RecoveryNext \/ TriageNext

IncidentCenterSpec == IncidentCenterInit /\ [][IncidentCenterNext]_incidentCenterVars

-----------------------------------------------------------------------------
(* Properties.                                                             *)

(* A dead letter is offered for recovery only if whatever had followed on  *)
(* it when it was read has ended as a dead letter too: no second delivery  *)
(* is begun beside one that was under way or had succeeded.                *)
OfferedAreIdle ==
  \A n \in page.offered : \A k \in n + 1..page.readAt : followed[k].state = "dead_letter"

(* After a change the page shows it, field by field, unless someone else   *)
(* changed the same field since, an answer came late or did not come.      *)
OwnChangeShown ==
  /\ \A v \in Views : views[v] = NoView
  /\ \A t \in Triages : triages[t] # NoTriage => triages[t].by # viewer
  /\ ~crossed /\ ~missed
  => \A i \in Cases : \A f \in DOMAIN own[i] : page.cases[i][f] = own[i][f]

(* A dead letter that is shown as resolved was delivered to where it was   *)
(* sent: does not hold, another destination's success counts.              *)
ResolvedMeansRecovered ==
  \A n \in page.resolved :
    \E k \in 1..Len(followed) :
      followed[k].aim = followed[n].aim /\ followed[k].state = "succeeded"

(* While nothing of the event is on its way, a dead letter that no later   *)
(* delivery resolved is offered for recovery: does not hold of one with a  *)
(* later delivery of another destination that was retried.                 *)
DeadLetterRecoverable ==
  [][\A v \in Views : ReadFollowUps(v) =>
       \/ \E k \in 1..Len(followed) : followed[k].state = UnderWay
       \/ \A n \in views[v].dead : n \in views'[v].data.offered \cup views'[v].data.resolved
    ]_incidentCenterVars

(* The alert audit has every alert that was sent when the page was asked   *)
(* for: does not hold, only the owner sees any.                            *)
AuditSeen == [][\A v \in Views : ReadRecords(v) => views'[v].alerts = told]_incidentCenterVars

(* Who an incident is assigned to is a member: does not hold of one who    *)
(* left.                                                                   *)
AssigneeIsMember == \A i \in Cases : cases[i].assignee \in team \cup {NoOne}
=============================================================================
