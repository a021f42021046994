------------------------------ MODULE Sharing ------------------------------
(***************************************************************************)
(* What leaves the workspace: the redacted evidence of an event, exported  *)
(* or read through a temporary link, and the public status page.  Evidence *)
(* is put together from several statements while the worker goes on        *)
(* recording; the page is edited by several members in transactions.       *)
(***************************************************************************)
EXTENDS Integers

CONSTANTS
  Recorded,          \* events
  Links,             \* tokens the API generates
  Readers,           \* handlers that read evidence
  Shown,             \* monitors of the workspace
  Editors,           \* members with the panel of status pages open
  MaxRecords, MaxAnalyses, MaxSaves, MaxRemovals   \* bounds

NoLink == "no link"
NotRead == -1
NoEvent == "no event"
Nobody == "nobody"

ASSUME SharingAssumption ==
  /\ NoEvent \notin Recorded /\ NoLink \notin Links /\ Nobody \notin Editors
  /\ MaxRecords \in Nat /\ MaxAnalyses \in Nat /\ MaxSaves \in Nat /\ MaxRemovals \in Nat

VARIABLES
  history,     \* per event how many changes its attempts and its deliveries have seen
  report,      \* per event what its report rests on, and its link
  kept,        \* events retention has not removed
  reading,     \* per reader what it has read so far
  share,       \* the page of reports: selected, its filter, the link shown, the request
  pageMembers, published, exists, link,    \* the status page
  visited,     \* tokens under which a visitor's request has found it
  saved,       \* the list of the last change that was saved, and its number
  present,     \* monitors that exist
  lockedBy,    \* whose transaction holds the row of the page
  listed, editor,                      \* per editor the list as loaded, and the form
  sharingBudget

evidenceVars == <<history, report, kept, reading, share>>
pageVars ==
  <<pageMembers, published, exists, link, visited, saved, present, lockedBy, listed, editor>>
sharingVars == <<evidenceVars, pageVars, sharingBudget>>

NoReport == [attempts |-> NotRead, deliveries |-> NotRead]
NotReading == [stage |-> "idle", event |-> NoEvent, basis |-> NoReport,
         attempts |-> NotRead, deliveries |-> NotRead]
Closed == [stage |-> "closed", list |-> {}, seen |-> {}]

(* Rows of one save differ from those of another, also for one monitor.    *)
Rows(list, number) == {[monitor |-> m, save |-> number] : m \in list}
MonitorsOf(rows) == {row.monitor : row \in rows}

SharingInit ==
  /\ history = [e \in Recorded |-> [attempts |-> 1, deliveries |-> 0]]
  /\ report = [e \in Recorded |-> [basis |-> NoReport, link |-> NoLink]]
  /\ kept = Recorded
  /\ reading = [r \in Readers |-> NotReading]
  /\ share = [visible |-> Recorded, selected |-> CHOOSE e \in Recorded : TRUE,
              url |-> NoLink, asking |-> NoEvent]
  /\ pageMembers = Rows(Shown, 0) /\ published = TRUE /\ exists = TRUE /\ link = CHOOSE t \in Links : TRUE
  /\ visited = {}
  /\ saved = [list |-> Shown, number |-> 0] /\ present = Shown /\ lockedBy = Nobody
  /\ listed = [u \in Editors |-> Shown]
  /\ editor = [u \in Editors |-> Closed]
  /\ sharingBudget = [records |-> 0, analyses |-> 0, saves |-> 0, removals |-> 0]

Takes(field, bound) ==
  sharingBudget[field] < bound /\ sharingBudget' = [sharingBudget EXCEPT ![field] = @ + 1]

-----------------------------------------------------------------------------
(* The ingestor and the worker, as far as evidence shows them.             *)

Record(e, kind) ==
  /\ e \in kept /\ Takes("records", MaxRecords)
  /\ history' = [history EXCEPT ![e][kind] = @ + 1]
  /\ UNCHANGED <<report, kept, reading, share, pageVars>>

(* An analysis writes what it concluded from rows it read before; the link *)
(* of the report stays.                                                    *)
Analyse(e, a, d) ==
  /\ e \in kept /\ Takes("analyses", MaxAnalyses)
  /\ a \in 0..history[e].attempts /\ d \in 0..history[e].deliveries
  /\ report' = [report EXCEPT ![e].basis = [attempts |-> a, deliveries |-> d]]
  /\ UNCHANGED <<history, kept, reading, share, pageVars>>

RetentionRemoves(e) ==
  /\ e \in kept /\ Takes("removals", MaxRemovals)
  /\ kept' = kept \ {e}
  /\ report' = [report EXCEPT ![e] = [basis |-> NoReport, link |-> NoLink]]
  /\ UNCHANGED <<history, reading, share, pageVars>>

-----------------------------------------------------------------------------
(* Evidence is read in four statements: the report of a link, the event    *)
(* with its report, and side by side its attempts and its deliveries.      *)

OpenLink(r, t) ==
  /\ reading[r] = NotReading
  /\ \E e \in kept : report[e].link = t /\ reading' = [reading EXCEPT ![r].stage = "event", ![r].event = e]
  /\ UNCHANGED <<history, report, kept, share, pageVars, sharingBudget>>

Export(r, e) ==
  /\ reading[r] = NotReading /\ e \in kept
  /\ reading' = [reading EXCEPT ![r].stage = "event", ![r].event = e]
  /\ UNCHANGED <<history, report, kept, share, pageVars, sharingBudget>>

ReadEvent(r) ==
  LET e == reading[r].event
  IN  /\ reading[r].stage = "event"
      /\ reading' = [reading EXCEPT ![r] =
           IF e \in kept THEN [@ EXCEPT !.stage = "rows", !.basis = report[e].basis] ELSE NotReading]
      /\ UNCHANGED <<history, report, kept, share, pageVars, sharingBudget>>

MayReadRowsAtOnce(r) == reading[r].stage \in {"event", "rows"}
MayReadRows(r) == reading[r].stage = "rows"

ReadRows(r, kind) ==
  LET e == reading[r].event
  IN  /\ MayReadRows(r) /\ reading[r][kind] = NotRead
      /\ reading' = [reading EXCEPT ![r][kind] = IF e \in kept THEN history[e][kind] ELSE 0]
      /\ UNCHANGED <<history, report, kept, share, pageVars, sharingBudget>>

Complete(r) ==
  reading[r].stage = "rows" /\ reading[r].attempts # NotRead /\ reading[r].deliveries # NotRead
SendEvidence(r) ==
  /\ Complete(r)
  /\ reading' = [reading EXCEPT ![r] = NotReading]
  /\ UNCHANGED <<history, report, kept, share, pageVars, sharingBudget>>

-----------------------------------------------------------------------------
(* The page of reports and its links.                                      *)

SelectReport(e) ==
  /\ e \in share.visible
  /\ share' = [share EXCEPT !.selected = e, !.url = NoLink]
  /\ UNCHANGED <<history, report, kept, reading, pageVars, sharingBudget>>

(* A filter, or a list loaded again: when the selected report is no longer *)
(* in the list its first one is selected, and the link shown stays.        *)
FilterReports(visible) ==
  /\ visible # share.visible
  /\ \E e \in IF share.selected \in visible THEN {share.selected}
             ELSE IF visible = {} THEN {NoEvent} ELSE visible :
       share' = [share EXCEPT !.visible = visible, !.selected = e,
                              !.url = IF visible = {} THEN NoLink ELSE @]
  /\ UNCHANGED <<history, report, kept, reading, pageVars, sharingBudget>>

AskShare ==
  /\ share.asking = NoEvent /\ share.selected # NoEvent /\ share.url = NoLink
  /\ share' = [share EXCEPT !.asking = share.selected]
  /\ UNCHANGED <<history, report, kept, reading, pageVars, sharingBudget>>

Issued == {report[e].link : e \in Recorded} \cup {share.url}
(* The API's upsert and its answer; an event that is gone is a 404.        *)
Share(t) ==
  LET e == share.asking
  IN  /\ e # NoEvent /\ t \notin Issued
      /\ IF e \in kept
         THEN /\ report' = [report EXCEPT ![e].link = t]
              /\ share' = [share EXCEPT !.asking = NoEvent, !.url = t]
         ELSE share' = [share EXCEPT !.asking = NoEvent] /\ UNCHANGED report
      /\ UNCHANGED <<history, kept, reading, pageVars, sharingBudget>>

(* Revoked, or 24 hours over.                                              *)
EndLink(e) ==
  /\ report[e].link # NoLink
  /\ report' = [report EXCEPT ![e].link = NoLink]
  /\ UNCHANGED <<history, kept, reading, share, pageVars, sharingBudget>>

-----------------------------------------------------------------------------
(* The status page.                                                        *)

(* A visitor's request looks the page up by its token, and then, whatever  *)
(* has become of it, reads the monitors that are on it.                    *)
Visit(t) ==
  /\ exists /\ published /\ t = link /\ t \notin visited
  /\ visited' = visited \cup {t}
  /\ UNCHANGED <<evidenceVars, pageMembers, published, exists, link, saved, present,
                 lockedBy, listed, editor, sharingBudget>>
Refused == {}
Published(t) == IF t \in visited THEN MonitorsOf(pageMembers) ELSE Refused

LoadPages(u) ==
  /\ exists /\ listed[u] # MonitorsOf(pageMembers)
  /\ listed' = [listed EXCEPT ![u] = MonitorsOf(pageMembers)]
  /\ UNCHANGED <<evidenceVars, visited, pageMembers, published, exists, link, saved, present,
                 lockedBy, editor, sharingBudget>>

OpenEditor(u) ==
  /\ exists /\ editor[u] = Closed /\ Takes("saves", MaxSaves)
  /\ editor' = [editor EXCEPT ![u].stage = "form", ![u].list = listed[u]]
  /\ UNCHANGED <<evidenceVars, visited, pageMembers, published, exists, link, saved, present,
                 lockedBy, listed>>

EditMonitors(u, m) ==
  /\ editor[u].stage = "form" /\ m \in present \cup editor[u].list
  /\ editor' = [editor EXCEPT ![u].list = IF m \in @ THEN @ \ {m} ELSE @ \cup {m}]
  /\ UNCHANGED <<evidenceVars, visited, pageMembers, published, exists, link, saved, present,
                 lockedBy, listed, sharingBudget>>

(* The look-ups before the transaction; a page that is gone is a 404, a    *)
(* monitor that is gone an error, and the form stays.                      *)
SavePage(u) ==
  /\ editor[u].stage = "form" /\ editor[u].list # {}
  /\ exists /\ editor[u].list \subseteq present
  /\ editor' = [editor EXCEPT ![u].stage = "update"]
  /\ UNCHANGED <<evidenceVars, visited, pageMembers, published, exists, link, saved, present,
                 lockedBy, listed, sharingBudget>>

(* The update of the page comes first and holds its row until the end.     *)
NoPageLock(u) == UNCHANGED lockedBy
PageLock(u) == lockedBy = Nobody /\ lockedBy' = u
UpdatePage(u) ==
  /\ editor[u].stage = "update" /\ PageLock(u)
  /\ editor' = [editor EXCEPT ![u].stage = "delete"]
  /\ UNCHANGED <<evidenceVars, visited, pageMembers, published, exists, link, saved, present,
                 listed, sharingBudget>>

(* A statement sees, and removes, the rows that are committed.                 *)
DeleteMembers(u) ==
  /\ editor[u].stage = "delete"
  /\ editor' = [editor EXCEPT ![u].stage = "insert", ![u].seen = pageMembers]
  /\ UNCHANGED <<evidenceVars, visited, pageMembers, published, exists, link, saved, present,
                 lockedBy, listed, sharingBudget>>

(* The insert and the commit.  A foreign key or a member who is there      *)
(* already makes the insert fail, and the transaction is rolled back.      *)
InsertMembers(u) ==
  LET rest == pageMembers \ editor[u].seen
      list == editor[u].list
      possible == exists /\ list \subseteq present /\ list \cap MonitorsOf(rest) = {}
  IN  /\ editor[u].stage = "insert"
      /\ IF possible
         THEN /\ saved' = [list |-> list, number |-> saved.number + 1]
              /\ pageMembers' = rest \cup Rows(list, saved.number + 1)
         ELSE UNCHANGED <<pageMembers, saved>>
      /\ editor' = [editor EXCEPT ![u] = IF possible THEN Closed ELSE [@ EXCEPT !.stage = "form"]]
      /\ lockedBy' = IF lockedBy = u THEN Nobody ELSE lockedBy
      /\ UNCHANGED <<evidenceVars, visited, published, exists, link, present, listed,
                 sharingBudget>>

CancelEdit(u) ==
  /\ editor[u].stage = "form"
  /\ editor' = [editor EXCEPT ![u] = Closed]
  /\ UNCHANGED <<evidenceVars, visited, pageMembers, published, exists, link, saved, present,
                 lockedBy, listed, sharingBudget>>

(* One statement each, which waits for a row that is locked.               *)
PublishPage(on) ==
  /\ exists /\ lockedBy = Nobody /\ published # on /\ Takes("removals", MaxRemovals)
  /\ published' = on
  /\ UNCHANGED <<evidenceVars, visited, pageMembers, exists, link, saved, present, lockedBy,
                 listed, editor>>
RotateLink(t) ==
  /\ exists /\ lockedBy = Nobody /\ t # link /\ Takes("removals", MaxRemovals)
  /\ link' = t /\ published' = TRUE
  /\ UNCHANGED <<evidenceVars, visited, pageMembers, exists, saved, present, lockedBy, listed,
                 editor>>
RemovePage ==
  /\ exists /\ lockedBy = Nobody /\ Takes("removals", MaxRemovals)
  /\ exists' = FALSE /\ pageMembers' = {}
  /\ UNCHANGED <<evidenceVars, visited, published, link, saved, present, lockedBy, listed, editor>>
RemoveMonitor(m) ==
  /\ m \in present /\ Takes("removals", MaxRemovals)
  /\ present' = present \ {m} /\ pageMembers' = {row \in pageMembers : row.monitor # m}
  /\ UNCHANGED <<evidenceVars, visited, published, exists, link, saved, lockedBy, listed, editor>>

-----------------------------------------------------------------------------
EvidenceNext ==
  \/ \E e \in Recorded :
       \/ \E kind \in {"attempts", "deliveries"} : Record(e, kind)
       \/ \E a, d \in 0..MaxRecords + 1 : Analyse(e, a, d)
       \/ RetentionRemoves(e) \/ EndLink(e) \/ SelectReport(e)
  \/ \E r \in Readers :
       \/ \E t \in Links : OpenLink(r, t)
       \/ \E e \in Recorded : Export(r, e)
       \/ ReadEvent(r) \/ SendEvidence(r)
       \/ \E kind \in {"attempts", "deliveries"} : ReadRows(r, kind)
  \/ \E visible \in SUBSET Recorded : FilterReports(visible)
  \/ AskShare
  \/ \E t \in Links : Share(t)

PageNext ==
  \/ \E u \in Editors :
       \/ LoadPages(u) \/ OpenEditor(u) \/ SavePage(u) \/ UpdatePage(u)
       \/ DeleteMembers(u) \/ InsertMembers(u) \/ CancelEdit(u)
       \/ \E m \in Shown : EditMonitors(u, m)
  \/ \E on \in BOOLEAN : PublishPage(on)
  \/ \E t \in Links : RotateLink(t) \/ Visit(t)
  \/ RemovePage
  \/ \E m \in Shown : RemoveMonitor(m)

SharingSpec == SharingInit /\ [][EvidenceNext \/ PageNext]_sharingVars

-----------------------------------------------------------------------------
(* Properties.                                                             *)

(* Evidence shows every attempt and delivery its report rests on, though   *)
(* the worker writes while it is read; unless retention removed the event  *)
(* in the middle.                                                          *)
EvidenceCovers ==
  \A r \in Readers :
    Complete(r) /\ reading[r].basis # NoReport /\ reading[r].event \in kept =>
      /\ reading[r].basis.attempts <= reading[r].attempts
      /\ reading[r].basis.deliveries <= reading[r].deliveries

(* A visitor sees the list that one member saved last, as a whole, or      *)
(* nothing: never what two members chose at once.                              *)
PageAsSaved == \A t \in Links : Published(t) \in {Refused, saved.list \cap present}

(* The link shown with a report is a link to it: does not hold, the link   *)
(* stays, or arrives, when another report has been selected.               *)
LinkOfSelected ==
  \A e \in Recorded : share.url # NoLink /\ report[e].link = share.url => share.selected = e
=============================================================================
