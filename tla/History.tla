-------------------------------- MODULE History --------------------------------
(***************************************************************************)
(* The two histories of a workspace that are read page by page: the audit  *)
(* entries, which a hook writes after the reply to each change, and the    *)
(* events of the evidence list, which move up when they are seen again.    *)
(* A page is the newest rows before a time, the time of the last row of    *)
(* the page before.  The database keeps finer times than the API shows.    *)
(***************************************************************************)
EXTENDS Integers, Sequences, SequencesExt, FiniteSetsExt

CONSTANTS
  Staff, Boss,      \* people who may be members; the owner, always one
  Inbound,             \* events of providers
  Limit,            \* rows of a page
  Fine,             \* database times in a millisecond
  MaxEntries, MaxMoments, MaxSightings    \* bounds

ASSUME HistoryAssumption ==
  /\ Boss \in Staff /\ Limit \in Nat \ {0} /\ Fine \in Nat \ {0}
  /\ MaxEntries \in Nat /\ MaxMoments \in Nat /\ MaxSightings \in Nat

VARIABLES
  belongs,     \* members of the workspace
  signedIn,    \* people with a session
  replied,     \* changes whose hook has not run: [id, by]
  entries,     \* audit entries: [id, by, at]
  sightings,   \* events on record: [id, at], at when it was last seen
  paging,     \* the reader: [list, got, cursor, more, since]
  moment,      \* the database's clock
  made,        \* number of changes
  sighted      \* number of sightings

historyVars == <<belongs, signedIn, replied, entries, sightings, paging, moment, made, sighted>>

NoPaging == [list |-> "none"]
Start == MaxMoments \div Fine + 1

HistoryInit ==
  /\ belongs = Staff /\ signedIn = Staff /\ replied = {} /\ entries = {} /\ sightings = {}
  /\ paging = NoPaging /\ moment = 0 /\ made = 0 /\ sighted = 0

-----------------------------------------------------------------------------
(* Changes and the hook.  The hook finds out anew who sent the request.    *)

Change(p) ==
  /\ p \in belongs \cap signedIn /\ made < MaxEntries
  /\ replied' = replied \cup {[id |-> made, by |-> p]} /\ made' = made + 1
  /\ UNCHANGED <<belongs, signedIn, entries, sightings, paging, moment, sighted>>
onResponse(r) ==
  /\ replied' = replied \ {r}
  /\ entries' = IF r.by \in signedIn
                THEN entries \cup {[id |-> r.id, by |-> r.by, at |-> moment]} ELSE entries
  /\ UNCHANGED <<belongs, signedIn, sightings, paging, moment, made, sighted>>
(* An entry that cannot be written is only logged.                         *)
AuditFails(r) ==
  /\ replied' = replied \ {r}
  /\ UNCHANGED <<belongs, signedIn, entries, sightings, paging, moment, made, sighted>>
EndSession(p) ==
  /\ p \in signedIn /\ signedIn' = signedIn \ {p}
  /\ UNCHANGED <<belongs, replied, entries, sightings, paging, moment, made, sighted>>
RemoveMember(p) ==
  /\ p \in belongs \ {Boss} /\ belongs' = belongs \ {p}
  /\ UNCHANGED <<signedIn, replied, entries, sightings, paging, moment, made, sighted>>

(* A request of a provider: a new event, or one that is seen again.        *)
Sight(e) ==
  /\ sighted < MaxSightings /\ sighted' = sighted + 1
  /\ sightings' = {s \in sightings : s.id # e} \cup {[id |-> e, at |-> moment]}
  /\ UNCHANGED <<belongs, signedIn, replied, entries, paging, moment, made>>
Moment ==
  /\ moment < MaxMoments /\ moment' = moment + 1
  /\ UNCHANGED <<belongs, signedIn, replied, entries, sightings, paging, made, sighted>>

-----------------------------------------------------------------------------
(* Pages.                                                                  *)

AuditRows == {e \in entries : e.by \in belongs}
ListRows(list) == IF list = "audit" THEN AuditRows ELSE sightings
ShownTime(at) == at \div Fine
NotAfter(row, cursor) == row.at <= Fine * cursor
OlderRow(row, cursor) == row.at < Fine * cursor

(* The newest rows, in an order of the database's choice among equals.     *)
IsPage(page, rows) ==
  /\ Len(page) = Min({Limit, Cardinality(rows)})
  /\ \A i, j \in DOMAIN page : i < j => page[i].at >= page[j].at /\ page[i] # page[j]
  /\ \A r \in rows \ ToSet(page) : \A i \in DOMAIN page : page[i].at >= r.at
Pages(rows) == {page \in SeqOf(rows, Limit) : IsPage(page, rows)}

OpenList(list) ==
  /\ paging = NoPaging
  /\ paging' = [list |-> list, got |-> <<>>, cursor |-> Start, more |-> TRUE,
                 since |-> ListRows(list)]
  /\ UNCHANGED <<belongs, signedIn, replied, entries, sightings, moment, made, sighted>>
ReadPage ==
  /\ paging # NoPaging /\ paging.more
  /\ \E page \in Pages({r \in ListRows(paging.list) : OlderRow(r, paging.cursor)}) :
       paging' = [paging EXCEPT
         !.got = @ \o [i \in DOMAIN page |-> page[i].id],
         !.cursor = IF page = <<>> THEN @ ELSE ShownTime(Last(page).at),
         !.more = Len(page) = Limit]
  /\ UNCHANGED <<belongs, signedIn, replied, entries, sightings, moment, made, sighted>>

-----------------------------------------------------------------------------
AuditNext ==
  \/ \E p \in Staff : Change(p) \/ EndSession(p) \/ RemoveMember(p)
  \/ \E r \in replied : onResponse(r) \/ AuditFails(r)
  \/ Moment \/ ReadPage \/ OpenList("audit")
EvidenceListNext ==
  \/ \E e \in Inbound : Sight(e)
  \/ Moment \/ ReadPage \/ OpenList("evidence")

HistorySpec == HistoryInit /\ [][AuditNext \/ EvidenceListNext]_historyVars

-----------------------------------------------------------------------------
(* Properties.                                                             *)

(* Whatever is written and seen again between the pages, no row is read    *)
(* twice.                                                                  *)
NoneTwice == paging # NoPaging => IsInjective(paging.got)

(* What was on record when the first page was read and is there unchanged  *)
(* at the last is on one of the pages: does not hold, rows of the same     *)
(* millisecond as the last of a page are left out.                         *)
NoneSkipped ==
  paging # NoPaging /\ ~paging.more
  => \A r \in paging.since \cap ListRows(paging.list) : r.id \in ToSet(paging.got)

(* Each change is on record once its hook has run: does not hold if the    *)
(* session ends, or the insert fails, in between.                          *)
EveryChangeRecorded ==
  \A n \in 0..(made - 1) : n \in {e.id : e \in entries} \cup {r.id : r \in replied}

(* What was on record stays visible: does not hold of a member who is      *)
(* removed.                                                                *)
RecordStays == [][AuditRows \subseteq AuditRows']_historyVars
=============================================================================
