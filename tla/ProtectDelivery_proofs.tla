----------------------- MODULE ProtectDelivery_proofs -----------------------
(***************************************************************************)
(* Proofs about ProtectDelivery for every value of its constants.          *)
(***************************************************************************)
EXTENDS ProtectDelivery, Sums, SequenceTheorems, FiniteSetTheorems, TLAPS

-----------------------------------------------------------------------------
(* The operators the actions are built from.                               *)

(* The targets of a policy, one by one.                                    *)
LEMMA PolicyTargets ==
  ASSUME NEW p \in Policies
  PROVE  /\ Len(p.dests) \in Nat \ {0}
         /\ \A i \in 1 .. Len(p.dests) : p.dests[i] \in Target
         /\ \A i \in 1 .. Len(p.dests) : p.dests[i].id \in Dests
<1>1. p.dests \in Seq(Target) /\ p.dests # <<>>
  BY PoliciesAssumption
<1>2. Len(p.dests) \in Nat \ {0} /\ \A i \in 1 .. Len(p.dests) : p.dests[i] \in Target
  BY <1>1, EmptySeq, ElementOfSeq
<1> QED BY <1>2 DEF Target

(* Every policy offers the worker a target, whatever the row names.        *)
LEMMA DestinationInDests ==
  ASSUME NEW p \in Policies, NEW row \in Row
  PROVE  Destination(row, p) \in Dests
<1>1. row.index \in Nat
  BY DEF Row
<1> QED BY <1>1, PolicyTargets DEF Destination

LEMMA KeyInKeys ==
  ASSUME NEW p \in Policies, NEW row \in Row
  PROVE  RequestKey(row, p) \in Keys
  BY DestinationInDests DEF RequestKey, IdempotencyKey, Keys, NoKey, Row

(* A failover hands over to an active target of the policy behind i.       *)
LEMMA NextTargetActive ==
  ASSUME NEW p \in Policies, NEW i \in Nat, NextTarget(p, i) # None
  PROVE  /\ NextTarget(p, i) \in Nat /\ i < NextTarget(p, i)
         /\ NextTarget(p, i) + 1 \in 1 .. Len(p.dests)
         /\ p.dests[NextTarget(p, i) + 1].id \in Dests
<1>1. ActiveAfter(p, i) \subseteq Nat /\ ActiveAfter(p, i) # {}
  BY PolicyTargets DEF NextTarget, ActiveAfter
<1>2. Min(ActiveAfter(p, i)) \in ActiveAfter(p, i)
  BY <1>1, LeastOf DEF Min
<1>3. NextTarget(p, i) \in ActiveAfter(p, i)
  BY <1>2 DEF NextTarget
<1> QED BY <1>3, PolicyTargets DEF ActiveAfter

(* The targets the ingestor records an event for, and where it puts them.  *)
LEMMA ChosenTargets ==
  ASSUME NEW p \in Policies
  PROVE  /\ Chosen(p) # {} /\ Chosen(p) \subseteq 0 .. Len(p.dests) - 1
         /\ Cardinality(Chosen(p)) \in Nat \ {0}
         /\ \A i \in Chosen(p) : /\ p.dests[i + 1].id \in Dests
                                 /\ Rank(p, i) \in Nat
                                 /\ Rank(p, i) < Cardinality(Chosen(p))
<1> DEFINE on == ActiveAfter(p, -1)
<1>1. on # {} /\ on \subseteq 0 .. Len(p.dests) - 1
  <2>1. PICK k \in 1 .. Len(p.dests) : p.dests[k].active
    BY PoliciesAssumption
  <2>2. k - 1 \in on
    BY <2>1, PolicyTargets DEF ActiveAfter
  <2> QED BY <2>2 DEF ActiveAfter
<1>2. on \subseteq Nat
  BY <1>1, PolicyTargets
<1>3. Min(on) \in on
  BY <1>1, <1>2, LeastOf DEF Min
<1>4. Chosen(p) # {} /\ Chosen(p) \subseteq 0 .. Len(p.dests) - 1
  BY <1>1, <1>3 DEF Chosen
<1>5. IsFiniteSet(Chosen(p))
  <2>1. IsFiniteSet(0 .. Len(p.dests) - 1)
    BY PolicyTargets, FS_Interval
  <2> QED BY <1>4, <2>1, FS_Subset
<1>6. Cardinality(Chosen(p)) \in Nat \ {0}
  BY <1>4, <1>5, FS_CardinalityType, FS_EmptySet
<1>7. ASSUME NEW i \in Chosen(p)
      PROVE  Rank(p, i) \in Nat /\ Rank(p, i) < Cardinality(Chosen(p))
  <2> DEFINE before == {j \in Chosen(p) : j < i}
  <2>1. before \in SUBSET Chosen(p) /\ before # Chosen(p)
    BY <1>4, PolicyTargets
  <2>2. /\ IsFiniteSet(before) /\ Cardinality(before) # Cardinality(Chosen(p))
        /\ Cardinality(before) <= Cardinality(Chosen(p))
    BY <1>5, <2>1, FS_Subset
  <2>3. Cardinality(before) \in Nat
    BY <2>2, FS_CardinalityType
  <2> QED BY <1>6, <2>2, <2>3 DEF Rank
<1>8. \A i \in Chosen(p) : p.dests[i + 1].id \in Dests
  BY <1>4, PolicyTargets
<1> QED BY <1>4, <1>6, <1>7, <1>8

-----------------------------------------------------------------------------
(* What an action does to the table of rows.                               *)

States == {"none", "queued", "retrying", "delivering", "succeeded", "failed",
           "dead_letter"}

LEMMA RowWithState ==
  ASSUME NEW row \in Row, NEW s \in States
  PROVE  [row EXCEPT !.state = s] \in Row
  BY DEF Row, States

LEMMA NewRowInRow ==
  ASSUME NEW e \in Events, NEW kind \in {"forward", "retry", "replay", "failover"},
         NEW n \in 1 .. MaxAttempts, NEW t \in Dests \cup {NoDest}, NEW i \in Nat,
         NEW key \in Keys \cup {NoKey}, NEW parent \in Id \cup {NoRow},
         NEW due \in BOOLEAN
  PROVE  NewRow(e, kind, n, t, i, key, parent, due) \in Row
  BY DEF Row, NewRow

(* The rows keep their types, no row disappears and none changes its event. *)
RowsKept ==
  /\ RowsOK'
  /\ \A d \in Id : Exists(d) => Exists(d)' /\ rows'[d].event = rows[d].event

LEMMA SameRows ==
  ASSUME RowsOK, UNCHANGED <<rows, nextId>>
  PROVE  RowsKept
  BY DEF RowsOK, RowsKept, Exists

(* A row that exists gets another state.                                   *)
LEMMA StateSet ==
  ASSUME RowsOK, NEW d \in Id, Exists(d), NEW s \in States \ {"none"},
         SetState(d, s), UNCHANGED nextId
  PROVE  RowsKept
<1>1. rows[d] \in Row /\ rows' = [rows EXCEPT ![d] = [rows[d] EXCEPT !.state = s]]
  BY DEF RowsOK, SetState
<1>2. rows' \in [Id -> Row]
  BY <1>1, RowWithState DEF RowsOK
<1>3. \A c \in Id : /\ rows'[c].event = rows[c].event
                    /\ Exists(c)' <=> Exists(c)
  <2> SUFFICES ASSUME NEW c \in Id
               PROVE  /\ rows'[c].event = rows[c].event
                      /\ Exists(c)' <=> Exists(c)
    OBVIOUS
  <2>1. CASE c # d
    BY <1>1, <2>1 DEF RowsOK, Exists
  <2>2. CASE c = d
    <3>1. rows'[c] = [rows[d] EXCEPT !.state = s]
      BY <1>1, <2>2 DEF RowsOK
    <3>2. rows'[c].event = rows[c].event /\ rows'[c].state = s
      BY <1>1, <2>2, <3>1 DEF Row
    <3> QED BY <2>2, <3>2 DEF Exists
  <2> QED BY <2>1, <2>2
<1>4. nextId' \in 1 .. MaxRows + 1 /\ \A c \in Id : Exists(c)' => c < nextId'
  <2>1. nextId \in 1 .. MaxRows + 1 /\ \A c \in Id : Exists(c) => c < nextId
    BY DEF RowsOK
  <2>2. nextId' = nextId
    OBVIOUS
  <2> QED BY <1>3, <2>1, <2>2
<1>5. RowsOK'
  BY <1>2, <1>4 DEF RowsOK
<1> QED BY <1>3, <1>5 DEF RowsKept

(* A row that exists gets another state and the next id a row.             *)
LEMMA RowReplaced ==
  ASSUME RowsOK, NEW d \in Id, Exists(d), NEW s \in States \ {"none"},
         NEW c \in Row, c.state = "queued", Replace(d, s, c)
  PROVE  RowsKept /\ nextId \in Id /\ rows'[nextId].state # "none"
<1>1. nextId \in Id /\ d # nextId /\ nextId' = nextId + 1 /\ ~Exists(nextId)
  BY BoundsAssumption DEF RowsOK, Replace, Id
<1>2. /\ rows[d] \in Row
      /\ rows' = [rows EXCEPT ![d] = [rows[d] EXCEPT !.state = s], ![nextId] = c]
  BY DEF RowsOK, Replace
<1>3. rows' \in [Id -> Row]
  BY <1>1, <1>2, RowWithState DEF RowsOK
<1>4. \A b \in Id : /\ Exists(b) => rows'[b].event = rows[b].event
                    /\ Exists(b)' <=> Exists(b) \/ b = nextId
  <2> SUFFICES ASSUME NEW b \in Id
               PROVE  /\ Exists(b) => rows'[b].event = rows[b].event
                      /\ Exists(b)' <=> Exists(b) \/ b = nextId
    OBVIOUS
  <2>1. CASE b # d /\ b # nextId
    BY <1>2, <2>1 DEF RowsOK, Exists
  <2>2. CASE b = d
    <3>1. rows'[b] = [rows[d] EXCEPT !.state = s]
      BY <1>1, <1>2, <2>2 DEF RowsOK
    <3>2. rows'[b].event = rows[b].event /\ rows'[b].state = s
      BY <1>2, <2>2, <3>1 DEF Row
    <3> QED BY <2>2, <3>2 DEF Exists
  <2>3. CASE b = nextId
    <3>1. rows'[b] = c
      BY <1>1, <1>2, <2>3 DEF RowsOK
    <3> QED BY <1>1, <2>3, <3>1 DEF Exists
  <2> QED BY <2>1, <2>2, <2>3
<1>5. nextId' \in 1 .. MaxRows + 1 /\ \A b \in Id : Exists(b)' => b < nextId'
  <2>1. nextId \in 1 .. MaxRows + 1 /\ \A b \in Id : Exists(b) => b < nextId
    BY DEF RowsOK
  <2> QED BY <1>1, <1>4, <2>1, BoundsAssumption DEF Id, Exists
<1>6. RowsOK'
  BY <1>3, <1>5 DEF RowsOK
<1> QED BY <1>1, <1>4, <1>6 DEF RowsKept, Exists

(* The next id gets a row.                                                 *)
LEMMA RowAdded ==
  ASSUME RowsOK, NEW c \in Row, c.state = "queued", nextId <= MaxRows,
         rows' = [rows EXCEPT ![nextId] = c], nextId' = nextId + 1
  PROVE  RowsKept /\ nextId \in Id /\ rows'[nextId].state # "none"
<1>1. nextId \in Id /\ ~Exists(nextId)
  BY BoundsAssumption DEF RowsOK, Id
<1>2. rows' \in [Id -> Row] /\ rows'[nextId] = c
  BY <1>1 DEF RowsOK
<1>3. \A b \in Id \ {nextId} : rows'[b] = rows[b]
  BY DEF RowsOK
<1>4. nextId' \in 1 .. MaxRows + 1 /\ \A b \in Id : Exists(b)' => b < nextId'
  <2>1. nextId \in 1 .. MaxRows + 1 /\ \A b \in Id : Exists(b) => b < nextId
    BY DEF RowsOK
  <2> QED BY <1>1, <1>3, <2>1, BoundsAssumption DEF Id, Exists
<1>5. RowsOK'
  BY <1>2, <1>4 DEF RowsOK
<1> QED BY <1>1, <1>2, <1>3, <1>5 DEF RowsKept, Exists

(* A backoff elapses.                                                      *)
LEMMA DueSet ==
  ASSUME RowsOK, NEW d \in Id, rows' = [rows EXCEPT ![d].due = TRUE],
         UNCHANGED nextId
  PROVE  RowsKept
<1>1. rows[d] \in Row /\ rows' = [rows EXCEPT ![d] = [rows[d] EXCEPT !.due = TRUE]]
  BY DEF RowsOK
<1>2. [rows[d] EXCEPT !.due = TRUE] \in Row
  BY <1>1 DEF Row
<1>3. rows' \in [Id -> Row]
  BY <1>1, <1>2 DEF RowsOK
<1>4. \A c \in Id : rows'[c].event = rows[c].event /\ rows'[c].state = rows[c].state
  <2> SUFFICES ASSUME NEW c \in Id
               PROVE  rows'[c].event = rows[c].event /\ rows'[c].state = rows[c].state
    OBVIOUS
  <2>1. CASE c # d
    BY <1>1, <2>1 DEF RowsOK
  <2>2. CASE c = d
    <3>1. rows'[c] = [rows[d] EXCEPT !.due = TRUE]
      BY <1>1, <2>2 DEF RowsOK
    <3> QED BY <1>1, <2>2, <3>1 DEF Row
  <2> QED BY <2>1, <2>2
<1>5. RowsOK'
  BY <1>3, <1>4 DEF RowsOK, Exists
<1> QED BY <1>4, <1>5 DEF RowsKept, Exists

(* The rows of the ingestor.                                               *)
LEMMA RowsIngested ==
  ASSUME RowsOK, IngestorOK, NEW r \in Requests, IngestInsert(r)
  PROVE  /\ RowsKept
         /\ \A d \in ing'[r].pending : d \in Id /\ rows'[d].state # "none"
         /\ \E d \in Id : rows'[d].state # "none" /\ rows'[d].event = r[1]
<1> DEFINE p == ing[r].policy
           n == Cardinality(Chosen(p))
           id(i) == nextId + Rank(p, i)
           new == {id(i) : i \in Chosen(p)}
           pos(d) == CHOOSE i \in Chosen(p) : id(i) = d
           initial(i) == NewRow(r[1], "forward", 1, p.dests[i + 1].id, Rank(p, i),
                                IdempotencyKey(r[1], p.dests[i + 1].id, p.scope),
                                NoRow, TRUE)
<1>1. p \in Policies /\ r[1] \in Events
  BY DEF IngestorOK, Requests
<1>2. n \in Nat \ {0} /\ nextId \in 1 .. MaxRows + 1 /\ nextId + n <= MaxRows + 1
  BY <1>1, ChosenTargets DEF RowsOK, IngestInsert
<1>3. /\ rows' = [d \in Id |-> IF d \in new THEN initial(pos(d)) ELSE rows[d]]
      /\ nextId' = nextId + n
      /\ ing' = [ing EXCEPT ![r].pc = "inserted",
                            ![r].pending = IF ing[r].paused THEN {} ELSE new]
  BY DEF IngestInsert
<1>4. \A d \in new : d \in Id /\ nextId <= d /\ d < nextId + n
  BY <1>1, <1>2, ChosenTargets, BoundsAssumption DEF Id
<1>5. ASSUME NEW i \in Chosen(p)
      PROVE  /\ initial(i) \in Row
             /\ initial(i).state = "queued" /\ initial(i).event = r[1]
  <2>1. p.dests[i + 1].id \in Dests /\ Rank(p, i) \in Nat
    BY <1>1, ChosenTargets
  <2>2. IdempotencyKey(r[1], p.dests[i + 1].id, p.scope) \in Keys
    BY <1>1, <2>1 DEF Keys, IdempotencyKey
  <2>3. 1 \in 1 .. MaxAttempts
    BY BoundsAssumption
  <2>4. initial(i) \in Row
    BY <1>1, <2>1, <2>2, <2>3, NewRowInRow
  <2> QED BY <2>4 DEF NewRow
<1>6. \A d \in new : pos(d) \in Chosen(p)
  OBVIOUS
<1>7. ASSUME NEW d \in new
      PROVE  /\ rows'[d] \in Row
             /\ rows'[d].state # "none" /\ rows'[d].event = r[1]
  <2>1. rows'[d] = initial(pos(d))
    BY <1>3, <1>4
  <2> HIDE DEF initial, pos
  <2> QED BY <1>5, <1>6, <2>1
<1>8. \A d \in Id \ new : rows'[d] = rows[d]
  BY <1>3
<1> HIDE DEF new
<1>9. rows' \in [Id -> Row]
  <2>1. DOMAIN rows' = Id /\ rows' = [d \in Id |-> rows'[d]]
    BY <1>3
  <2> QED BY <1>7, <1>8, <2>1 DEF RowsOK
<1>10. \A d \in Id : Exists(d) => d < nextId
  BY DEF RowsOK
<1>11. nextId' \in 1 .. MaxRows + 1 /\ \A d \in Id : Exists(d)' => d < nextId'
  <2>1. nextId' = nextId + n /\ n \in Nat \ {0} /\ nextId + n <= MaxRows + 1
    BY <1>2, <1>3
  <2>2. nextId' \in 1 .. MaxRows + 1
    BY <1>2, <2>1, BoundsAssumption
  <2>3. ASSUME NEW d \in Id, Exists(d)'
        PROVE  d < nextId'
    <3>1. CASE d \in new
      BY <1>4, <2>1, <3>1
    <3>2. CASE d \notin new
      <4>1. Exists(d)
        BY <1>8, <2>3, <3>2 DEF Exists
      <4> HIDE DEF n
      <4> QED BY <1>2, <1>10, <2>1, <4>1 DEF Id
    <3> QED BY <3>1, <3>2
  <2> QED BY <2>2, <2>3
<1>12. RowsOK'
  BY <1>9, <1>11 DEF RowsOK
<1>13. \A d \in new : ~Exists(d)
  BY <1>2, <1>4, <1>10 DEF Id
<1>14. \A d \in Id : Exists(d) => Exists(d)' /\ rows'[d].event = rows[d].event
  BY <1>8, <1>13 DEF Exists
<1>15. new # {}
  BY <1>1, ChosenTargets DEF new
<1>16. ing'[r].pending \subseteq new
  BY <1>3 DEF IngestorOK
<1> QED BY <1>4, <1>7, <1>12, <1>14, <1>15, <1>16 DEF RowsKept

LEMMA RunningRows ==
  ASSUME IndInv, NEW d \in Id, Running(d)
  PROVE  /\ Exists(d) /\ jobs[d] = "active" /\ run[d] \in Run
         /\ rows[d] \in Row
         /\ run[d].dest \in Dests /\ run[d].policy \in Policies
         /\ run[d].attempt \in 1 .. MaxAttempts /\ run[d].index \in Nat
BY DEF IndInv, TypeOK, WorkerOK, RowsOK, References, Run

(* The table of rows, under every step.                                    *)
LEMMA RowsStep ==
  ASSUME IndInv, [Next]_vars
  PROVE  RowsKept
<1> USE DEF IndInv, TypeOK
<1>1. ASSUME NEW r \in Requests, IngestInsert(r)
      PROVE  RowsKept
  BY <1>1, RowsIngested
<1>2. ASSUME NEW d \in Id, Deliver(d) \/ RecordSuccess(d) \/ RecordDeadLetter(d)
      PROVE  RowsKept
  <2>1. Exists(d) /\ UNCHANGED nextId
    BY <1>2, RunningRows DEF Deliver, RecordSuccess, RecordDeadLetter, Running
  <2>2. \E s \in States \ {"none"} : SetState(d, s)
    BY <1>2 DEF Deliver, RecordSuccess, RecordDeadLetter, States
  <2> QED BY <2>1, <2>2, StateSet
<1>3. ASSUME NEW d \in Id, RecordRetry(d)
      PROVE  RowsKept
  <2> DEFINE c == NewRow(rows[d].event, "retry", run[d].attempt + 1, rows[d].dest,
                         rows[d].index, rows[d].key, d, FALSE)
  <2>1. Exists(d) /\ rows[d] \in Row /\ Replace(d, "retrying", c)
    BY <1>3, RunningRows DEF RecordRetry, Running
  <2>2. run[d].attempt + 1 \in 1 .. MaxAttempts
    BY <1>3, RunningRows, BoundsAssumption
    DEF RecordRetry, Running, Exhausted, RetriesExhausted
  <2>3. c \in Row
    BY <2>1, <2>2, NewRowInRow DEF Row
  <2>4. c.state = "queued"
    BY DEF NewRow
  <2> QED BY <2>1, <2>3, <2>4, RowReplaced DEF States
<1>4. ASSUME NEW d \in Id, RecordFailover(d)
      PROVE  RowsKept
  <2> DEFINE p == run[d].policy
             t == p.dests[Handover(d) + 1].id
             c == NewRow(rows[d].event, "failover", 1, t, Handover(d),
                         IdempotencyKey(rows[d].event, t, p.scope), d, TRUE)
  <2>1. Exists(d) /\ rows[d] \in Row /\ Replace(d, "failed", c)
    BY <1>4, RunningRows DEF RecordFailover, Running
  <2>2. Handover(d) \in Nat /\ t \in Dests
    BY <1>4, RunningRows, NextTargetActive DEF RecordFailover, Running, Handover
  <2>3. rows[d].event \in Events
    BY <2>1 DEF Row
  <2>4. IdempotencyKey(rows[d].event, t, p.scope) \in Keys
    BY <2>2, <2>3 DEF IdempotencyKey, Keys
  <2>5. c \in Row
    <3>1. 1 \in 1 .. MaxAttempts /\ d \in Id \cup {NoRow} /\ TRUE \in BOOLEAN
      BY BoundsAssumption
    <3> HIDE DEF t, p
    <3> QED BY <2>2, <2>3, <2>4, <3>1, NewRowInRow
  <2>6. c.state = "queued"
    BY DEF NewRow
  <2> QED BY <2>1, <2>5, <2>6, RowReplaced DEF States
<1>5. ASSUME NEW d \in Id, JobThrows(d) \/ ReadThrows(d) \/ StallFails(d)
      PROVE  RowsKept
  <2>1. Exists(d) /\ UNCHANGED nextId
    BY <1>5, RunningRows
    DEF JobThrows, ReadThrows, StallFails, Running, References, Orphaned
  <2>2. SetState(d, "queued") \/ UNCHANGED rows
    BY <1>5 DEF JobThrows, ReadThrows, StallFails, FailedHandler
  <2> QED BY <2>1, <2>2, StateSet, SameRows DEF States
<1>6. ASSUME NEW d \in Id, BackoffElapses(d)
      PROVE  RowsKept
  BY <1>6, DueSet DEF BackoffElapses
<1>7. ASSUME NEW m \in Manuals, ManualInsert(m)
      PROVE  RowsKept
  <2> DEFINE d == man[m].source
             c == [NewRow(rows[d].event, man[m].kind, 1, NoDest, 0, NoKey, d, TRUE)
                     EXCEPT !.manual = TRUE]
  <2>1. d \in Id /\ rows[d] \in Row /\ man[m].kind \in {"retry", "replay"}
    BY <1>7 DEF ManualInsert, References, RowsOK, ApiOK
  <2>2. NewRow(rows[d].event, man[m].kind, 1, NoDest, 0, NoKey, d, TRUE) \in Row
    <3>1. /\ rows[d].event \in Events /\ man[m].kind \in {"forward", "retry", "replay", "failover"}
          /\ 1 \in 1 .. MaxAttempts /\ 0 \in Nat /\ d \in Id \cup {NoRow}
          /\ NoDest \in Dests \cup {NoDest} /\ NoKey \in Keys \cup {NoKey} /\ TRUE \in BOOLEAN
      BY <2>1, BoundsAssumption DEF Row
    <3> QED BY <3>1, NewRowInRow
  <2>3. c \in Row /\ c.state = "queued"
    BY <2>2 DEF Row, NewRow
  <2> QED BY <1>7, <2>3, RowAdded DEF ManualInsert
<1>8. ASSUME \/ \E r \in Requests :
                  \/ IngestCheck(r) \/ IngestReply(r) \/ IngestDies(r)
                  \/ \E d \in Id : IngestEnqueue(r, d)
             \/ \E d \in Id :
                  \/ StartJob(d) \/ SkipJob(d) \/ RequestSucceeds(d)
                  \/ RequestFails(d) \/ Recover(d) \/ Enqueue(d) \/ ReadOpen(d)
                  \/ WriteOpen(d) \/ FinishJob(d) \/ SuccessPathThrows(d)
                  \/ Stall(d) \/ PromoteDelayed(d) \/ EvictCompleted(d)
             \/ WorkerCrash \/ SchedulerStep \/ PatchEndpoint
             \/ \E m \in Manuals :
                  \/ ManualEnqueue(m) \/ ManualDies(m)
                  \/ \E d \in Id, kind \in {"retry", "replay"} : ManualCheck(m, d, kind)
             \/ UNCHANGED vars
      PROVE  RowsKept
  <2>1. UNCHANGED <<rows, nextId>>
    BY <1>8 DEF IngestCheck, IngestReply, IngestDies, IngestEnqueue, StartJob, SkipJob,
       RequestSucceeds, RequestFails, Recover, Enqueue, ReadOpen, WriteOpen, FinishJob,
       SuccessPathThrows, Stall, PromoteDelayed, EvictCompleted, WorkerCrash,
       SchedulerStep, ScheduleRead, ScheduleAdd, PatchEndpoint, ManualEnqueue,
       ManualDies, ManualCheck, vars
  <2> QED BY <2>1, SameRows
<1> QED BY <1>1, <1>2, <1>3, <1>4, <1>5, <1>6, <1>7, <1>8
    DEF Next, Ingestor, WorkerStep, Fault, QueueStep, Operator

-----------------------------------------------------------------------------
(* The other variables keep their types.                                   *)

JobStates == {"none", "delayed", "waiting", "active", "completed"}

LEMMA QueueKept ==
  ASSUME IndInv, [Next]_vars
  PROVE  QueueOK'
<1> SUFFICES ASSUME QueueOK
             PROVE  QueueOK'
  BY DEF IndInv, TypeOK
<1>1. ASSUME NEW d, NEW s \in JobStates,
             jobs' = [jobs EXCEPT ![d] = s] \/ AddJob(d, s) \/ UNCHANGED jobs,
             \/ UNCHANGED stalls
             \/ stalls' = [stalls EXCEPT ![d] = 0]
             \/ stalls[d] < MaxStalls /\ stalls' = [stalls EXCEPT ![d] = @ + 1]
      PROVE  QueueOK'
  BY <1>1, BoundsAssumption DEF QueueOK, AddJob, JobStates
<1>2. ASSUME NEW r \in Requests, NEW d \in Id, IngestEnqueue(r, d)
      PROVE  QueueOK'
  BY <1>1, <1>2 DEF IngestEnqueue, JobStates
<1>3. ASSUME NEW d \in Id,
             \/ StartJob(d) \/ SkipJob(d) \/ FinishJob(d) \/ JobThrows(d) \/ ReadThrows(d)
             \/ Stall(d) \/ StallFails(d) \/ PromoteDelayed(d) \/ EvictCompleted(d)
             \/ ScheduleAdd(d)
      PROVE  QueueOK'
  BY <1>1, <1>3 DEF StartJob, SkipJob, FinishJob, JobThrows, ReadThrows, Stall, StallFails,
     PromoteDelayed, EvictCompleted, ScheduleAdd, EndJob, JobStates
<1>4. ASSUME NEW d \in Id, Enqueue(d)
      PROVE  QueueOK'
  BY <1>1, <1>4 DEF Enqueue, JobStates
<1>5. ASSUME NEW m \in Manuals, ManualEnqueue(m)
      PROVE  QueueOK'
  BY <1>1, <1>5 DEF ManualEnqueue, JobStates
<1>6. ASSUME \/ \E r \in Requests :
                  \/ IngestCheck(r) \/ IngestInsert(r) \/ IngestReply(r) \/ IngestDies(r)
             \/ \E d \in Id :
                  \/ Deliver(d) \/ RequestSucceeds(d) \/ RequestFails(d)
                  \/ RecordSuccess(d) \/ RecordRetry(d) \/ RecordFailover(d)
                  \/ RecordDeadLetter(d) \/ Recover(d) \/ ReadOpen(d) \/ WriteOpen(d)
                  \/ SuccessPathThrows(d) \/ BackoffElapses(d)
             \/ WorkerCrash \/ ScheduleRead \/ PatchEndpoint
             \/ \E m \in Manuals :
                  \/ ManualInsert(m) \/ ManualDies(m)
                  \/ \E d \in Id, kind \in {"retry", "replay"} : ManualCheck(m, d, kind)
             \/ UNCHANGED vars
      PROVE  QueueOK'
  <2>1. UNCHANGED <<jobs, stalls>>
    BY <1>6 DEF IngestCheck, IngestInsert, IngestReply, IngestDies, Deliver,
       RequestSucceeds, RequestFails, RecordSuccess, RecordRetry, RecordFailover,
       RecordDeadLetter, Recover, ReadOpen, WriteOpen, SuccessPathThrows, BackoffElapses,
       WorkerCrash, ScheduleRead, PatchEndpoint, ManualInsert, ManualDies, ManualCheck,
       queue, vars
  <2> QED BY <2>1 DEF QueueOK
<1> QED BY <1>2, <1>3, <1>4, <1>5, <1>6
    DEF Next, Ingestor, WorkerStep, Fault, QueueStep, SchedulerStep, Operator

(* The values a run can be reset to or started with.                       *)
LEMMA IdleInRun == Idle \in Run
<1>1. PICK p \in Policies : TRUE
  BY NamesAssumption
<1>2. Dests # {}
  BY <1>1, PolicyTargets
<1> QED BY <1>1, <1>2, NamesAssumption, BoundsAssumption DEF Idle, Run, Keys

LEMMA WorkerKept ==
  ASSUME IndInv, [Next]_vars
  PROVE  WorkerOK'
<1> DEFINE Pcs == {"idle", "lock", "request", "accepted", "recover", "published",
                   "failing", "enqueue", "readOpen", "writeOpen", "report"}
<1> SUFFICES ASSUME WorkerOK
             PROVE  WorkerOK'
  BY DEF IndInv, TypeOK
<1>1. ASSUME NEW d \in Id, NEW x \in Run, run' = [run EXCEPT ![d] = x],
             UNCHANGED <<chain, todo>>
      PROVE  WorkerOK'
  BY <1>1 DEF WorkerOK
<1>2. ASSUME NEW d \in Id, NEW pc \in Pcs, Goto(d, pc), UNCHANGED <<chain, todo>>
      PROVE  WorkerOK'
  <2>1. run[d] \in Run
    BY DEF WorkerOK
  <2>2. [run[d] EXCEPT !.pc = pc] \in Run
    BY <2>1 DEF Run
  <2>3. run' = [run EXCEPT ![d] = [run[d] EXCEPT !.pc = pc]]
    BY <1>2 DEF Goto
  <2> QED BY <1>1, <1>2, <2>2, <2>3
<1>3. ASSUME NEW d \in Id, StartJob(d)
      PROVE  WorkerOK'
  <2> DEFINE t == Destination(rows[d], endpoint.policy)
             k == RequestKey(rows[d], endpoint.policy)
             x == [pc |-> "lock", dest |-> t, index |-> rows[d].index,
                   attempt |-> rows[d].attempt, key |-> k,
                   policy |-> endpoint.policy, child |-> NoRow, saw |-> FALSE]
  <2>1. rows[d] \in Row /\ endpoint.policy \in Policies
    BY DEF IndInv, TypeOK, RowsOK, ApiOK
  <2>2. t \in Dests /\ k \in Keys
    BY <2>1, DestinationInDests, KeyInKeys
  <2>3. /\ run' = [run EXCEPT ![d] = x]
        /\ chain' = [chain EXCEPT ![t] = Append(@, d)]
        /\ UNCHANGED todo
    BY <1>3 DEF StartJob
  <2>4. x \in Run
    <3> HIDE DEF t, k
    <3> QED BY <2>1, <2>2 DEF Run, Row
  <2>5. Append(chain[t], d) \in Seq(Id)
    BY <2>2, AppendProperties DEF WorkerOK
  <2> HIDE DEF x
  <2> QED BY <2>2, <2>3, <2>4, <2>5 DEF WorkerOK
<1>4. ASSUME NEW d \in Id, FinishJob(d) \/ JobThrows(d)
      PROVE  WorkerOK'
  <2>1. Running(d) /\ (EndJob(d, "completed") \/ EndJob(d, "none"))
    BY <1>4 DEF FinishJob, JobThrows, Running
  <2>2. UNCHANGED todo
    BY <1>4 DEF FinishJob, JobThrows
  <2>3. run[d].dest \in Dests
    BY <2>1, RunningRows
  <2>4. chain[run[d].dest] \in Seq(Id) /\ chain[run[d].dest] # <<>>
    BY <2>1, <2>3, EmptySeq DEF WorkerOK, IndInv, Locks
  <2>5. Tail(chain[run[d].dest]) \in Seq(Id)
    BY <2>4, HeadTailProperties
  <2> QED BY <2>1, <2>2, <2>3, <2>5, IdleInRun DEF WorkerOK, EndJob
<1>5. ASSUME NEW d \in Id,
             \/ Deliver(d) \/ RequestSucceeds(d) \/ RequestFails(d) \/ RecordSuccess(d)
             \/ RecordDeadLetter(d) \/ Recover(d) \/ Enqueue(d) \/ WriteOpen(d)
             \/ SuccessPathThrows(d)
      PROVE  WorkerOK'
  <2>1. \E pc \in Pcs : Goto(d, pc)
    BY <1>5 DEF Deliver, RequestSucceeds, RequestFails, RecordSuccess, RecordDeadLetter,
       Recover, Enqueue, WriteOpen, SuccessPathThrows
  <2>2. UNCHANGED <<chain, todo>>
    BY <1>5 DEF Deliver, RequestSucceeds, RequestFails, RecordSuccess, RecordDeadLetter,
       Recover, Enqueue, WriteOpen, SuccessPathThrows
  <2> QED BY <1>2, <2>1, <2>2
<1>6. ASSUME NEW d \in Id, RecordRetry(d) \/ RecordFailover(d)
      PROVE  WorkerOK'
  <2> DEFINE x == [run[d] EXCEPT !.pc = "enqueue", !.child = nextId]
  <2>1. /\ run' = [run EXCEPT ![d] = x] /\ nextId <= MaxRows
        /\ UNCHANGED <<chain, todo>>
    BY <1>6 DEF RecordRetry, RecordFailover, Replace, WorkerOK
  <2>2. nextId \in Id
    BY <2>1, BoundsAssumption DEF IndInv, TypeOK, RowsOK, Id
  <2>3. x \in Run
    <3>1. run[d] \in Run /\ nextId \in Id \cup {NoRow}
      BY <2>2 DEF WorkerOK
    <3> QED BY <3>1 DEF Run
  <2> HIDE DEF x
  <2> QED BY <1>1, <2>1, <2>3
<1>7. ASSUME NEW d \in Id, ReadOpen(d)
      PROVE  WorkerOK'
  <2> DEFINE saw == open > 0
             x == [run[d] EXCEPT !.pc = "writeOpen", !.saw = saw]
  <2>1. run' = [run EXCEPT ![d] = x] /\ UNCHANGED <<chain, todo>>
    BY <1>7 DEF ReadOpen, WorkerOK
  <2>2. x \in Run
    <3>1. saw \in BOOLEAN /\ run[d] \in Run
      BY DEF WorkerOK
    <3> HIDE DEF saw
    <3> QED BY <3>1 DEF Run
  <2> HIDE DEF x
  <2> QED BY <1>1, <2>1, <2>2
<1>8. ASSUME WorkerCrash
      PROVE  WorkerOK'
  <2>1. <<>> \in Seq(Id)
    BY EmptySeq
  <2> QED BY <1>8, <2>1, IdleInRun DEF WorkerCrash, WorkerOK
<1>9. ASSUME SchedulerStep
      PROVE  WorkerOK'
  BY <1>9 DEF SchedulerStep, ScheduleRead, ScheduleAdd, Schedulable, WorkerOK, worker
<1>10. ASSUME \/ Ingestor \/ Operator \/ UNCHANGED vars
              \/ \E d \in Id : SkipJob(d) \/ ReadThrows(d) \/ QueueStep(d)
                               \/ EvictCompleted(d)
       PROVE  WorkerOK'
  <2>1. UNCHANGED <<run, chain, todo>>
    BY <1>10 DEF Ingestor, IngestCheck, IngestInsert, IngestReply, IngestDies,
       IngestEnqueue, Operator, PatchEndpoint, ManualInsert, ManualDies, ManualCheck,
       ManualEnqueue, SkipJob, ReadThrows, QueueStep, Stall, StallFails, BackoffElapses,
       PromoteDelayed, EvictCompleted, worker, vars
  <2> QED BY <2>1 DEF WorkerOK
<1> QED BY <1>3, <1>4, <1>5, <1>6, <1>7, <1>8, <1>9, <1>10
    DEF Next, WorkerStep, Fault

(* A handler of the ingestor changes nothing of another one, and no other  *)
(* part changes anything of the handlers.                                  *)
LEMMA OtherHandlers ==
  ASSUME IngestorOK, NEW r \in Requests, NEW q \in Requests \ {r},
         \/ IngestCheck(q) \/ IngestInsert(q) \/ IngestReply(q) \/ IngestDies(q)
         \/ \E d \in Id : IngestEnqueue(q, d)
  PROVE  ing'[r] = ing[r] /\ ~IngestInsert(r)
<1>1. \E x : ing' = [ing EXCEPT ![q] = x]
  <2>1. CASE IngestCheck(q)
    BY <2>1 DEF IngestCheck
  <2>2. CASE IngestInsert(q)
    <3>1. \E new : ing' = [ing EXCEPT ![q] = [ing[q] EXCEPT !.pc = "inserted", !.pending = new]]
      BY <2>2 DEF IngestInsert, IngestorOK
    <3> QED BY <3>1
  <2>3. CASE IngestReply(q) \/ IngestDies(q)
    BY <2>3 DEF IngestReply, IngestDies
  <2>4. CASE \E d \in Id : IngestEnqueue(q, d)
    BY <2>4 DEF IngestEnqueue
  <2> QED BY <2>1, <2>2, <2>3, <2>4
<1>2. ing'[r] = ing[r] /\ DOMAIN ing = Requests /\ "pc" \in DOMAIN ing[r]
  BY <1>1 DEF IngestorOK
<1>3. ~IngestInsert(r)
  BY <1>2 DEF IngestInsert
<1> QED BY <1>2, <1>3

LEMMA IngestorOnly ==
  ASSUME [Next]_vars, ~Ingestor
  PROVE  UNCHANGED ing
<1>1. CASE WorkerCrash \/ SchedulerStep \/ UNCHANGED vars
  BY <1>1 DEF WorkerCrash, SchedulerStep, ScheduleRead, ScheduleAdd, api, vars
<1>2. CASE Operator
  BY <1>2 DEF Operator, PatchEndpoint, ManualCheck, ManualInsert, ManualEnqueue, ManualDies, api
<1>3. ASSUME NEW d \in Id, WorkerStep(d)
      PROVE  UNCHANGED ing
  BY <1>3, ZenonT(60) DEF WorkerStep, StartJob, SkipJob, Deliver, RequestSucceeds, RequestFails,
     RecordSuccess, Recover, RecordRetry, RecordFailover, RecordDeadLetter, Enqueue,
     ReadOpen, WriteOpen, FinishJob, api
<1>4. ASSUME NEW d \in Id, Fault(d) \/ QueueStep(d) \/ EvictCompleted(d)
      PROVE  UNCHANGED ing
  BY <1>4 DEF Fault, SuccessPathThrows, JobThrows, ReadThrows, QueueStep, Stall, StallFails,
     BackoffElapses, PromoteDelayed, EvictCompleted, api
<1> QED BY <1>1, <1>2, <1>3, <1>4 DEF Next

LEMMA IngestorKept ==
  ASSUME IndInv, [Next]_vars
  PROVE  IngestorOK'
<1> DEFINE Received == [pc : {"new", "checked", "inserted", "replied", "died"},
                        duplicate : BOOLEAN, paused : BOOLEAN,
                        policy : Policies, pending : SUBSET Id]
<1> SUFFICES ASSUME IngestorOK
             PROVE  IngestorOK'
  BY DEF IndInv, TypeOK
<1>1. ASSUME NEW r \in Requests, NEW x \in Received, ing' = [ing EXCEPT ![r] = x]
      PROVE  IngestorOK'
  BY <1>1 DEF IngestorOK
<1>2. ASSUME NEW r \in Requests, IngestCheck(r)
      PROVE  IngestorOK'
  <2> DEFINE x == [pc |-> "checked", duplicate |-> RowsOf(r[1]) # {},
                   paused |-> endpoint.paused, policy |-> endpoint.policy,
                   pending |-> {}]
  <2>1. x \in Received
    <3>1. /\ (RowsOf(r[1]) # {}) \in BOOLEAN /\ endpoint.paused \in BOOLEAN
          /\ endpoint.policy \in Policies
      BY DEF IndInv, TypeOK, ApiOK
    <3> QED BY <3>1
  <2> QED BY <1>1, <1>2, <2>1 DEF IngestCheck
<1>3. ASSUME NEW r \in Requests, IngestInsert(r)
      PROVE  IngestorOK'
  <2>1. \A d \in ing'[r].pending : d \in Id
    BY <1>3, RowsIngested DEF IndInv, TypeOK
  <2>2. PICK new : ing' = [ing EXCEPT ![r] = [ing[r] EXCEPT !.pc = "inserted",
                                                           !.pending = new]]
    BY <1>3 DEF IngestInsert, IngestorOK
  <2>3. new \in SUBSET Id
    BY <2>1, <2>2 DEF IngestorOK
  <2>4. [ing[r] EXCEPT !.pc = "inserted", !.pending = new] \in Received
    BY <2>3 DEF IngestorOK
  <2> QED BY <1>1, <2>2, <2>4
<1>4. ASSUME NEW r \in Requests, NEW d \in Id, IngestEnqueue(r, d)
      PROVE  IngestorOK'
  <2>1. ing' = [ing EXCEPT ![r] = [ing[r] EXCEPT !.pending = @ \ {d}]]
    BY <1>4 DEF IngestEnqueue, IngestorOK
  <2>2. [ing[r] EXCEPT !.pending = @ \ {d}] \in Received
    BY DEF IngestorOK
  <2> QED BY <1>1, <2>1, <2>2
<1>5. ASSUME NEW r \in Requests, IngestReply(r) \/ IngestDies(r)
      PROVE  IngestorOK'
  <2>1. NotReceived \in Received
    BY NamesAssumption DEF NotReceived
  <2>2. /\ [NotReceived EXCEPT !.pc = "replied"] \in Received
        /\ [NotReceived EXCEPT !.pc = "died"] \in Received
    BY <2>1
  <2> QED BY <1>1, <1>5, <2>2 DEF IngestReply, IngestDies
<1>6. ASSUME ~Ingestor
      PROVE  IngestorOK'
  BY <1>6, IngestorOnly DEF IngestorOK
<1> QED BY <1>2, <1>3, <1>4, <1>5, <1>6 DEF Ingestor

LEMMA ApiKept ==
  ASSUME IndInv, [Next]_vars
  PROVE  ApiOK'
<1> DEFINE Asked == [pc : {"new", "checked", "inserted", "replied", "died"},
                     source : Id \cup {NoRow}, kind : {"retry", "replay"},
                     child : Id \cup {NoRow}]
<1> SUFFICES ASSUME ApiOK
             PROVE  ApiOK'
  BY DEF IndInv, TypeOK
<1>1. ASSUME NEW m \in Manuals, NEW x \in Asked, man' = [man EXCEPT ![m] = x],
             UNCHANGED endpoint
      PROVE  ApiOK'
  BY <1>1 DEF ApiOK
<1>2. ASSUME NEW m \in Manuals, NEW d \in Id, NEW kind \in {"retry", "replay"},
             ManualCheck(m, d, kind)
      PROVE  ApiOK'
  <2>1. [pc |-> "checked", source |-> d, kind |-> kind, child |-> NoRow] \in Asked
    OBVIOUS
  <2> QED BY <1>1, <1>2, <2>1 DEF ManualCheck
<1>3. ASSUME NEW m \in Manuals, ManualInsert(m)
      PROVE  ApiOK'
  <2>1. man' = [man EXCEPT ![m] = [man[m] EXCEPT !.pc = "inserted", !.child = nextId]]
    BY <1>3 DEF ManualInsert, ApiOK
  <2>2. nextId \in Id
    BY <1>3, BoundsAssumption DEF ManualInsert, IndInv, TypeOK, RowsOK, Id
  <2>3. [man[m] EXCEPT !.pc = "inserted", !.child = nextId] \in Asked
    BY <2>2 DEF ApiOK
  <2> QED BY <1>1, <1>3, <2>1, <2>3 DEF ManualInsert
<1>4. ASSUME NEW m \in Manuals, ManualEnqueue(m) \/ ManualDies(m)
      PROVE  ApiOK'
  <2>1. /\ [NotRequested EXCEPT !.pc = "replied"] \in Asked
        /\ [NotRequested EXCEPT !.pc = "died"] \in Asked
    BY DEF NotRequested
  <2> QED BY <1>1, <1>4, <2>1 DEF ManualEnqueue, ManualDies
<1>5. ASSUME PatchEndpoint
      PROVE  ApiOK'
  <2>1. endpoint' \in [protect : BOOLEAN, paused : BOOLEAN, policy : Policies]
    BY <1>5 DEF PatchEndpoint, ApiOK
  <2>2. UNCHANGED man
    BY <1>5 DEF PatchEndpoint, api
  <2> QED BY <2>1, <2>2 DEF ApiOK
<1>6. ASSUME \/ Ingestor \/ WorkerCrash \/ SchedulerStep \/ UNCHANGED vars
             \/ \E d \in Id : \/ WorkerStep(d) \/ Fault(d) \/ QueueStep(d)
                              \/ EvictCompleted(d)
      PROVE  ApiOK'
  <2>1. UNCHANGED <<man, endpoint>>
    BY <1>6 DEF Ingestor, IngestCheck, IngestInsert, IngestReply, IngestDies,
       IngestEnqueue, WorkerCrash, SchedulerStep, ScheduleRead, ScheduleAdd, WorkerStep,
       StartJob, SkipJob, Deliver, RequestSucceeds, RequestFails, RecordSuccess, Recover,
       RecordRetry, RecordFailover, RecordDeadLetter, Enqueue, ReadOpen, WriteOpen,
       FinishJob, Fault, SuccessPathThrows, JobThrows, ReadThrows, QueueStep, Stall,
       StallFails, BackoffElapses, PromoteDelayed, EvictCompleted, api, vars
  <2> QED BY <2>1 DEF ApiOK
<1> QED BY <1>2, <1>3, <1>4, <1>5, <1>6 DEF Next, Operator

LEMMA HistoryKept ==
  ASSUME IndInv, [Next]_vars
  PROVE  HistoryOK'
<1> SUFFICES ASSUME HistoryOK
             PROVE  HistoryOK'
  BY DEF IndInv, TypeOK
<1>1. open' \in Nat
  <2>1. CASE \E d \in Id : Recover(d) \/ WriteOpen(d)
    BY <2>1 DEF Recover, WriteOpen, HistoryOK
  <2>2. CASE ~ \E d \in Id : Recover(d) \/ WriteOpen(d)
    <3>1. UNCHANGED open
      BY <2>2 DEF Next, Ingestor, IngestCheck, IngestInsert, IngestReply, IngestDies,
         IngestEnqueue, WorkerCrash, SchedulerStep, ScheduleRead, ScheduleAdd, WorkerStep,
         StartJob, SkipJob, Deliver, RequestSucceeds, RequestFails, RecordSuccess,
         RecordRetry, RecordFailover, RecordDeadLetter, Enqueue, ReadOpen, FinishJob,
         Fault, SuccessPathThrows, JobThrows, ReadThrows, QueueStep, Stall, StallFails,
         BackoffElapses, PromoteDelayed, EvictCompleted, Operator, PatchEndpoint,
         ManualCheck, ManualInsert, ManualEnqueue, ManualDies, vars
    <3> QED BY <3>1 DEF HistoryOK
  <2> QED BY <2>1, <2>2
<1>2. sent' \in [Id -> Seq(Request)]
  <2>1. ASSUME NEW d \in Id, Deliver(d)
        PROVE  sent' \in [Id -> Seq(Request)]
    <3>1. run[d].dest \in Dests /\ run[d].key \in Keys
      BY DEF IndInv, TypeOK, WorkerOK, Run
    <3> DEFINE x == [dest |-> run[d].dest, key |-> run[d].key]
    <3>2. x \in Request
      BY <3>1 DEF Request
    <3>3. sent' = [sent EXCEPT ![d] = Append(@, x)]
      BY <2>1 DEF Deliver
    <3> HIDE DEF x
    <3>4. Append(sent[d], x) \in Seq(Request)
      BY <3>2, AppendProperties DEF HistoryOK
    <3> QED BY <3>3, <3>4 DEF HistoryOK
  <2>2. CASE ~ \E d \in Id : Deliver(d)
    <3>1. UNCHANGED sent
      BY <2>2, ZenonT(60) DEF Next, Ingestor, IngestCheck, IngestInsert, IngestReply, IngestDies,
         IngestEnqueue, WorkerCrash, SchedulerStep, ScheduleRead, ScheduleAdd, WorkerStep,
         StartJob, SkipJob, RequestSucceeds, RequestFails, RecordSuccess, Recover,
         RecordRetry, RecordFailover, RecordDeadLetter, Enqueue, ReadOpen, WriteOpen,
         FinishJob, Fault, SuccessPathThrows, JobThrows, ReadThrows, QueueStep, Stall,
         StallFails, BackoffElapses, PromoteDelayed, EvictCompleted, Operator,
         PatchEndpoint, ManualCheck, ManualInsert, ManualEnqueue, ManualDies, vars
    <3> QED BY <3>1 DEF HistoryOK
  <2> QED BY <2>1, <2>2
<1>3. spent' \in [crashes : 0 .. MaxCrashes, faults : 0 .. MaxFaults,
                  patches : 0 .. MaxPatches, evictions : 0 .. MaxEvictions]
  <2>1. CASE \/ spent.crashes < MaxCrashes /\ Spend("crashes")
             \/ spent.faults < MaxFaults /\ Spend("faults")
             \/ spent.patches < MaxPatches /\ Spend("patches")
             \/ spent.evictions < MaxEvictions /\ Spend("evictions")
             \/ UNCHANGED spent
    <3>1. CASE spent.crashes < MaxCrashes /\ Spend("crashes")
      BY <3>1, BoundsAssumption DEF Spend, HistoryOK
    <3>2. CASE spent.faults < MaxFaults /\ Spend("faults")
      BY <3>2, BoundsAssumption DEF Spend, HistoryOK
    <3>3. CASE spent.patches < MaxPatches /\ Spend("patches")
      BY <3>3, BoundsAssumption DEF Spend, HistoryOK
    <3>4. CASE spent.evictions < MaxEvictions /\ Spend("evictions")
      BY <3>4, BoundsAssumption DEF Spend, HistoryOK
    <3> QED BY <2>1, <3>1, <3>2, <3>3, <3>4 DEF HistoryOK
  <2> QED BY <2>1, ZenonT(60) DEF Next, Ingestor, IngestCheck, IngestInsert, IngestReply, IngestDies,
         IngestEnqueue, WorkerCrash, SchedulerStep, ScheduleRead, ScheduleAdd, WorkerStep,
         StartJob, SkipJob, Deliver, RequestSucceeds, RequestFails, RecordSuccess, Recover,
         RecordRetry, RecordFailover, RecordDeadLetter, Enqueue, ReadOpen, WriteOpen,
         FinishJob, Fault, SuccessPathThrows, JobThrows, ReadThrows, QueueStep, Stall,
         StallFails, BackoffElapses, PromoteDelayed, EvictCompleted, Operator,
         PatchEndpoint, ManualCheck, ManualInsert, ManualEnqueue, ManualDies, vars
<1> QED BY <1>1, <1>2, <1>3 DEF HistoryOK

-----------------------------------------------------------------------------
(* References between the variables.                                       *)

(* A step that adds no job: what has a job afterwards had one before.      *)
AddsNoJob == \A d \in Id : jobs'[d] # "none" => jobs[d] # "none"

LEMMA JobsStep ==
  ASSUME IndInv, [Next]_vars
  PROVE  \/ AddsNoJob
         \/ \E d \in Id, s \in JobStates : AddJob(d, s) /\ Exists(d)
<1> DEFINE Goal == \/ AddsNoJob
                   \/ \E d \in Id, s \in JobStates : AddJob(d, s) /\ Exists(d)
<1>0. jobs \in [Id -> JobStates]
  BY DEF IndInv, TypeOK, QueueOK, JobStates
<1>1. ASSUME NEW r \in Requests, NEW d \in Id, IngestEnqueue(r, d)
      PROVE  Goal
  BY <1>1 DEF IngestEnqueue, IndInv, References, JobStates
<1>2. ASSUME NEW d \in Id, Enqueue(d)
      PROVE  Goal
  BY <1>2 DEF Enqueue, IndInv, References, JobStates
<1>3. ASSUME NEW d \in Id, ScheduleAdd(d)
      PROVE  Goal
  BY <1>3 DEF ScheduleAdd, IndInv, References, JobStates
<1>4. ASSUME NEW m \in Manuals, ManualEnqueue(m)
      PROVE  Goal
  BY <1>4 DEF ManualEnqueue, IndInv, References, JobStates
<1>5. ASSUME NEW d \in Id,
             \/ StartJob(d) \/ SkipJob(d) \/ FinishJob(d) \/ JobThrows(d) \/ ReadThrows(d)
             \/ Stall(d) \/ StallFails(d) \/ PromoteDelayed(d) \/ EvictCompleted(d)
      PROVE  AddsNoJob
  <2>1. jobs[d] # "none"
    BY <1>5, RunningRows DEF StartJob, SkipJob, FinishJob, JobThrows, ReadThrows, Stall,
       StallFails, PromoteDelayed, EvictCompleted, Orphaned, Running
  <2>2. \E s \in JobStates : jobs' = [jobs EXCEPT ![d] = s]
    BY <1>5 DEF StartJob, SkipJob, FinishJob, JobThrows, ReadThrows, Stall,
       StallFails, PromoteDelayed, EvictCompleted, EndJob, JobStates
  <2> QED BY <1>0, <2>1, <2>2 DEF AddsNoJob
<1>6. ASSUME \/ \E r \in Requests :
                  \/ IngestCheck(r) \/ IngestInsert(r) \/ IngestReply(r) \/ IngestDies(r)
             \/ \E d \in Id :
                  \/ Deliver(d) \/ RequestSucceeds(d) \/ RequestFails(d)
                  \/ RecordSuccess(d) \/ RecordRetry(d) \/ RecordFailover(d)
                  \/ RecordDeadLetter(d) \/ Recover(d) \/ ReadOpen(d) \/ WriteOpen(d)
                  \/ SuccessPathThrows(d) \/ BackoffElapses(d)
             \/ WorkerCrash \/ ScheduleRead \/ PatchEndpoint
             \/ \E m \in Manuals :
                  \/ ManualInsert(m) \/ ManualDies(m)
                  \/ \E d \in Id, kind \in {"retry", "replay"} : ManualCheck(m, d, kind)
             \/ UNCHANGED vars
      PROVE  UNCHANGED jobs
  BY <1>6 DEF IngestCheck, IngestInsert, IngestReply, IngestDies, Deliver,
     RequestSucceeds, RequestFails, RecordSuccess, RecordRetry, RecordFailover,
     RecordDeadLetter, Recover, ReadOpen, WriteOpen, SuccessPathThrows, BackoffElapses,
     WorkerCrash, ScheduleRead, PatchEndpoint, ManualInsert, ManualDies, ManualCheck,
     queue, vars
<1>7. UNCHANGED jobs => AddsNoJob
  BY DEF AddsNoJob
<1> QED BY <1>1, <1>2, <1>3, <1>4, <1>5, <1>6, <1>7
    DEF Next, Ingestor, WorkerStep, Fault, QueueStep, SchedulerStep, Operator

(* What runs after a step ran before it with the same destination, or was  *)
(* just started; its job is active.                                        *)
LEMMA RunStep ==
  ASSUME IndInv, [Next]_vars, NEW d \in Id, Running(d)'
  PROVE  jobs'[d] = "active" /\ (Running(d) \/ StartJob(d))
<1>0. /\ jobs \in [Id -> JobStates] /\ run \in [Id -> Run]
      /\ \A c \in Id : Running(c) => jobs[c] = "active"
  BY DEF IndInv, TypeOK, QueueOK, WorkerOK, References, JobStates
<1> DEFINE Goal == jobs'[d] = "active" /\ (Running(d) \/ StartJob(d))
<1>1. ASSUME UNCHANGED run,
             \/ \E c \in Id, s \in JobStates : AddJob(c, s)
             \/ \E c \in Id, s \in JobStates : ~Running(c) /\ jobs' = [jobs EXCEPT ![c] = s]
             \/ UNCHANGED jobs
      PROVE  Goal
  BY <1>0, <1>1 DEF AddJob, Running
<1>2. ASSUME NEW c \in Id, NEW x, run' = [run EXCEPT ![c] = x], Running(c),
             \/ UNCHANGED jobs
             \/ \E b \in Id, s \in JobStates : AddJob(b, s)
             \/ x.pc = "idle" /\ \E s \in JobStates : jobs' = [jobs EXCEPT ![c] = s]
      PROVE  Goal
  BY <1>0, <1>2 DEF AddJob, Running
<1>3. ASSUME NEW c \in Id, StartJob(c)
      PROVE  Goal
  BY <1>0, <1>3 DEF StartJob, Running
<1>4. ASSUME NEW c \in Id,
             \/ Deliver(c) \/ RequestSucceeds(c) \/ RequestFails(c) \/ RecordSuccess(c)
             \/ RecordDeadLetter(c) \/ Recover(c) \/ WriteOpen(c) \/ SuccessPathThrows(c)
             \/ RecordRetry(c) \/ RecordFailover(c) \/ ReadOpen(c)
      PROVE  Goal
  <2>1. Running(c) /\ UNCHANGED jobs
    BY <1>4 DEF Deliver, RequestSucceeds, RequestFails, RecordSuccess, RecordDeadLetter,
       Recover, WriteOpen, SuccessPathThrows, RecordRetry, RecordFailover, ReadOpen,
       Running, queue
  <2>2. \E x : run' = [run EXCEPT ![c] = x]
    BY <1>4 DEF Deliver, RequestSucceeds, RequestFails, RecordSuccess, RecordDeadLetter,
       Recover, WriteOpen, SuccessPathThrows, RecordRetry, RecordFailover, ReadOpen,
       Replace, Goto
  <2> QED BY <1>2, <2>1, <2>2
<1>5. ASSUME NEW c \in Id, Enqueue(c)
      PROVE  Goal
  <2>1. \E x : run' = [run EXCEPT ![c] = x]
    BY <1>5 DEF Enqueue, Goto
  <2>2. \E b \in Id, s \in JobStates : AddJob(b, s)
    BY <1>5 DEF Enqueue, IndInv, References, JobStates
  <2> QED BY <1>2, <1>5, <2>1, <2>2 DEF Enqueue, Running
<1>6. ASSUME NEW c \in Id, FinishJob(c) \/ JobThrows(c)
      PROVE  Goal
  <2>1. Running(c) /\ run' = [run EXCEPT ![c] = Idle]
    BY <1>6 DEF FinishJob, JobThrows, EndJob, Running
  <2>2. \E s \in JobStates : jobs' = [jobs EXCEPT ![c] = s]
    BY <1>6 DEF FinishJob, JobThrows, EndJob, JobStates
  <2> QED BY <1>2, <2>1, <2>2 DEF Idle
<1>7. ASSUME NEW c \in Id,
             \/ SkipJob(c) \/ ReadThrows(c) \/ Stall(c) \/ StallFails(c)
             \/ PromoteDelayed(c) \/ EvictCompleted(c)
      PROVE  Goal
  <2>1. ~Running(c) /\ UNCHANGED run
    BY <1>0, <1>7 DEF SkipJob, ReadThrows, Stall, StallFails, PromoteDelayed,
       EvictCompleted, Orphaned, worker
  <2>2. \E s \in JobStates : jobs' = [jobs EXCEPT ![c] = s]
    BY <1>7 DEF SkipJob, ReadThrows, Stall, StallFails, PromoteDelayed,
       EvictCompleted, JobStates
  <2> QED BY <1>1, <2>1, <2>2
<1>8. CASE WorkerCrash
  BY <1>8 DEF WorkerCrash, Running, Idle
<1>9. ASSUME \/ Ingestor \/ SchedulerStep \/ Operator \/ UNCHANGED vars
             \/ \E c \in Id : BackoffElapses(c)
      PROVE  Goal
  <2>1. UNCHANGED run
    BY <1>9 DEF Ingestor, IngestCheck, IngestInsert, IngestReply, IngestDies,
       IngestEnqueue, SchedulerStep, ScheduleRead, ScheduleAdd, Operator, PatchEndpoint,
       ManualCheck, ManualInsert, ManualEnqueue, ManualDies, BackoffElapses, worker, vars
  <2>2. (\E c \in Id, s \in JobStates : AddJob(c, s)) \/ UNCHANGED jobs
    BY <1>9 DEF Ingestor, IngestCheck, IngestInsert, IngestReply, IngestDies,
       IngestEnqueue, SchedulerStep, ScheduleRead, ScheduleAdd, Operator, PatchEndpoint,
       ManualCheck, ManualInsert, ManualEnqueue, ManualDies, BackoffElapses, queue, vars,
       IndInv, References, JobStates
  <2> QED BY <1>1, <2>1, <2>2
<1> QED BY <1>3, <1>4, <1>5, <1>6, <1>7, <1>8, <1>9 DEF Next, WorkerStep, Fault, QueueStep

(* A run that is about to add its successor's job has inserted that row.   *)
LEMMA ChildStep ==
  ASSUME IndInv, [Next]_vars, NEW d \in Id, run'[d].pc = "enqueue"
  PROVE  run'[d].child \in Id /\ rows'[run'[d].child].state # "none"
<1> DEFINE Goal == run'[d].child \in Id /\ rows'[run'[d].child].state # "none"
<1>0. run \in [Id -> Run] /\ RowsOK
  BY DEF IndInv, TypeOK, WorkerOK
<1>1. ASSUME RecordRetry(d) \/ RecordFailover(d)
      PROVE  Goal
  <2>1. PICK c, s : Replace(d, s, c) /\ c.state = "queued"
    BY <1>1 DEF RecordRetry, RecordFailover, NewRow
  <2>2. nextId \in Id
    BY <1>0, <2>1, BoundsAssumption DEF Replace, RowsOK, Id
  <2>3. run'[d].child = nextId
    BY <1>0, <2>1 DEF Replace
  <2>4. rows'[nextId] = c
    BY <1>0, <2>1, <2>2 DEF Replace, RowsOK
  <2> QED BY <2>1, <2>2, <2>3, <2>4
<1>2. ASSUME run'[d] = run[d]
      PROVE  Goal
  <2>1. run[d].child \in Id /\ Exists(run[d].child)
    BY <1>2 DEF IndInv, References
  <2> QED BY <1>2, <2>1, RowsStep DEF RowsKept, Exists
<1>3. ASSUME NEW c \in Id, NEW x, run' = [run EXCEPT ![c] = x],
             x.pc # "enqueue" \/ c # d
      PROVE  Goal
  BY <1>0, <1>2, <1>3
<1>4. ASSUME NEW c \in Id,
             \/ Deliver(c) \/ RequestSucceeds(c) \/ RequestFails(c) \/ RecordSuccess(c)
             \/ RecordDeadLetter(c) \/ Recover(c) \/ WriteOpen(c) \/ SuccessPathThrows(c)
             \/ Enqueue(c)
      PROVE  Goal
  <2>1. PICK pc : pc # "enqueue" /\ run' = [run EXCEPT ![c].pc = pc]
    BY <1>4 DEF Deliver, RequestSucceeds, RequestFails, RecordSuccess, RecordDeadLetter,
       Recover, WriteOpen, SuccessPathThrows, Enqueue, Goto
  <2>2. run[c] \in Run /\ run' = [run EXCEPT ![c] = [run[c] EXCEPT !.pc = pc]]
    BY <1>0, <2>1
  <2>3. [run[c] EXCEPT !.pc = pc].pc = pc
    BY <2>2 DEF Run
  <2> QED BY <1>3, <2>1, <2>2, <2>3
<1>5. ASSUME NEW c \in Id,
             \/ StartJob(c) \/ FinishJob(c) \/ JobThrows(c) \/ ReadOpen(c)
      PROVE  Goal
  <2>1. CASE StartJob(c) \/ FinishJob(c) \/ JobThrows(c)
    <3>1. run'[c].pc # "enqueue" /\ \A b \in Id \ {c} : run'[b] = run[b]
      BY <1>0, <2>1 DEF StartJob, FinishJob, JobThrows, EndJob, Idle
    <3> QED BY <1>2, <3>1
  <2>2. CASE ReadOpen(c)
    <3>1. run'[c].pc # "enqueue" /\ \A b \in Id \ {c} : run'[b] = run[b]
      BY <1>0, <2>2 DEF ReadOpen, Run
    <3> QED BY <1>2, <3>1
  <2> QED BY <1>5, <2>1, <2>2
<1>6. ASSUME NEW c \in Id \ {d}, RecordRetry(c) \/ RecordFailover(c)
      PROVE  Goal
  <2>1. run' = [run EXCEPT ![c] = [run[c] EXCEPT !.pc = "enqueue", !.child = nextId]]
    BY <1>0, <1>6 DEF RecordRetry, RecordFailover, Replace
  <2> QED BY <1>3, <2>1
<1>7. CASE WorkerCrash
  BY <1>7 DEF WorkerCrash, Idle
<1>8. ASSUME \/ Ingestor \/ SchedulerStep \/ Operator \/ UNCHANGED vars
             \/ \E c \in Id : SkipJob(c) \/ ReadThrows(c) \/ QueueStep(c)
                              \/ EvictCompleted(c)
      PROVE  Goal
  <2>1. UNCHANGED run
    BY <1>8 DEF Ingestor, IngestCheck, IngestInsert, IngestReply, IngestDies,
       IngestEnqueue, SchedulerStep, ScheduleRead, ScheduleAdd, Operator, PatchEndpoint,
       ManualCheck, ManualInsert, ManualEnqueue, ManualDies, SkipJob, ReadThrows,
       QueueStep, Stall, StallFails, BackoffElapses, PromoteDelayed, EvictCompleted,
       worker, vars
  <2> QED BY <1>2, <2>1
<1> QED BY <1>1, <1>4, <1>5, <1>6, <1>7, <1>8 DEF Next, WorkerStep, Fault

(* The rows an ingestor or scheduler pass is about to add jobs for exist.  *)
LEMMA PendingStep ==
  ASSUME IndInv, [Next]_vars
  PROVE  /\ \A d \in todo' : rows'[d].state # "none"
         /\ \A r \in Requests : \A d \in ing'[r].pending : rows'[d].state # "none"
<1>0. /\ \A d \in Id : Exists(d) => rows'[d].state # "none"
      /\ todo \subseteq Id
      /\ \A r \in Requests : ing[r].pending \subseteq Id
  BY RowsStep DEF RowsKept, Exists, IndInv, TypeOK, WorkerOK, IngestorOK
<1>1. \A d \in todo' : rows'[d].state # "none"
  <2>1. CASE ScheduleRead
    BY <1>0, <2>1 DEF ScheduleRead, Schedulable, Waiting, Exists
  <2>2. CASE ~ScheduleRead
    <3>1. todo' \subseteq todo
      BY <2>2, ZenonT(60) DEF Next, Ingestor, IngestCheck, IngestInsert, IngestReply, IngestDies,
         IngestEnqueue, WorkerCrash, SchedulerStep, ScheduleAdd, WorkerStep,
         StartJob, SkipJob, Deliver, RequestSucceeds, RequestFails, RecordSuccess, Recover,
         RecordRetry, RecordFailover, RecordDeadLetter, Enqueue, ReadOpen, WriteOpen,
         FinishJob, Fault, SuccessPathThrows, JobThrows, ReadThrows, QueueStep, Stall,
         StallFails, BackoffElapses, PromoteDelayed, EvictCompleted, Operator,
         PatchEndpoint, ManualCheck, ManualInsert, ManualEnqueue, ManualDies, vars
    <3> QED BY <1>0, <3>1 DEF IndInv, References
  <2> QED BY <2>1, <2>2
<1>2. ASSUME NEW r \in Requests, NEW d \in ing'[r].pending
      PROVE  rows'[d].state # "none"
  <2>1. ASSUME NEW q \in Requests, IngestInsert(q)
        PROVE  d \in ing[r].pending \/ rows'[d].state # "none"
    <3>1. CASE q = r
      BY <2>1, <3>1, RowsIngested DEF IndInv, TypeOK
    <3>2. CASE q # r
      BY <2>1, <3>2 DEF IngestInsert, IndInv, TypeOK, IngestorOK
    <3> QED BY <3>1, <3>2
  <2>2. ASSUME NEW q \in Requests,
               \/ IngestCheck(q) \/ IngestReply(q) \/ IngestDies(q)
               \/ \E c \in Id : IngestEnqueue(q, c)
        PROVE  d \in ing[r].pending
    <3>1. ing \in [Requests -> [pc : {"new", "checked", "inserted", "replied", "died"},
                               duplicate : BOOLEAN, paused : BOOLEAN,
                               policy : Policies, pending : SUBSET Id]]
      BY DEF IndInv, TypeOK, IngestorOK
    <3>2. CASE IngestCheck(q) \/ IngestReply(q) \/ IngestDies(q)
      <4>1. ing'[q].pending = {} /\ \A o \in Requests \ {q} : ing'[o] = ing[o]
        <5>1. CASE IngestCheck(q)
          BY <3>1, <5>1 DEF IngestCheck
        <5>2. CASE IngestReply(q) \/ IngestDies(q)
          <6>1. PICK pc : ing' = [ing EXCEPT ![q] = [NotReceived EXCEPT !.pc = pc]]
            BY <5>2 DEF IngestReply, IngestDies
          <6>2. [NotReceived EXCEPT !.pc = pc].pending = {}
            BY DEF NotReceived
          <6> QED BY <3>1, <6>1, <6>2
        <5> QED BY <3>2, <5>1, <5>2
      <4> QED BY <4>1
    <3>3. ASSUME NEW c \in Id, IngestEnqueue(q, c)
          PROVE  d \in ing[r].pending
      <4>1. ing' = [ing EXCEPT ![q] = [ing[q] EXCEPT !.pending = @ \ {c}]]
        BY <3>1, <3>3 DEF IngestEnqueue
      <4>2. [ing[q] EXCEPT !.pending = @ \ {c}].pending = ing[q].pending \ {c}
        BY <3>1
      <4> QED BY <3>1, <4>1, <4>2
    <3> QED BY <2>2, <3>2, <3>3
  <2>3. ASSUME ~Ingestor
        PROVE  d \in ing[r].pending
    <3>1. UNCHANGED ing
      BY <2>3, IngestorOnly
    <3> QED BY <3>1
  <2>4. d \in ing[r].pending \/ rows'[d].state # "none"
    BY <2>1, <2>2, <2>3 DEF Ingestor
  <2>5. d \in ing[r].pending => d \in Id /\ Exists(d)
    BY <1>0 DEF IndInv, References
  <2> QED BY <1>0, <2>4, <2>5
<1> QED BY <1>1, <1>2

(* The row a manual request is about, and the one it inserted, exist.      *)
LEMMA ManualStep ==
  ASSUME IndInv, [Next]_vars, NEW m \in Manuals
  PROVE  /\ man'[m].pc = "checked" => /\ man'[m].source \in Id
                                      /\ rows'[man'[m].source].state # "none"
         /\ man'[m].pc = "inserted" => /\ man'[m].child \in Id
                                       /\ rows'[man'[m].child].state # "none"
<1> DEFINE Goal ==
      /\ man'[m].pc = "checked" => /\ man'[m].source \in Id
                                   /\ rows'[man'[m].source].state # "none"
      /\ man'[m].pc = "inserted" => /\ man'[m].child \in Id
                                    /\ rows'[man'[m].child].state # "none"
<1>0. /\ \A d \in Id : Exists(d) => rows'[d].state # "none"
      /\ ApiOK
  BY RowsStep DEF RowsKept, Exists, IndInv, TypeOK
<1>1. ASSUME man'[m] = man[m]
      PROVE  Goal
  BY <1>0, <1>1 DEF IndInv, References
<1>2. ASSUME NEW d \in Id, NEW kind \in {"retry", "replay"}, ManualCheck(m, d, kind)
      PROVE  Goal
  BY <1>0, <1>2 DEF ManualCheck, ApiOK
<1>3. ASSUME ManualInsert(m)
      PROVE  Goal
  <2>1. man'[m].pc = "inserted" /\ man'[m].child = nextId
    BY <1>0, <1>3 DEF ManualInsert, ApiOK
  <2>2. nextId \in Id
    BY <1>3, BoundsAssumption DEF ManualInsert, IndInv, TypeOK, RowsOK, Id
  <2>3. rows'[nextId].state = "queued"
    BY <1>3, <2>2 DEF ManualInsert, NewRow, IndInv, TypeOK, RowsOK
  <2> QED BY <2>1, <2>2, <2>3
<1>4. ASSUME ManualEnqueue(m) \/ ManualDies(m)
      PROVE  Goal
  BY <1>0, <1>4 DEF ManualEnqueue, ManualDies, NotRequested, ApiOK
<1>5. ASSUME NEW q \in Manuals \ {m},
             \/ ManualInsert(q) \/ ManualEnqueue(q) \/ ManualDies(q)
             \/ \E d \in Id, kind \in {"retry", "replay"} : ManualCheck(q, d, kind)
      PROVE  Goal
  <2>1. man'[m] = man[m]
    BY <1>0, <1>5 DEF ManualInsert, ManualEnqueue, ManualDies, ManualCheck, ApiOK
  <2> QED BY <1>1, <2>1
<1>6. ASSUME \/ Ingestor \/ WorkerCrash \/ SchedulerStep \/ PatchEndpoint
             \/ UNCHANGED vars
             \/ \E d \in Id : \/ WorkerStep(d) \/ Fault(d) \/ QueueStep(d)
                              \/ EvictCompleted(d)
      PROVE  Goal
  <2>1. UNCHANGED man
    BY <1>6, ZenonT(60) DEF Ingestor, IngestCheck, IngestInsert, IngestReply, IngestDies,
       IngestEnqueue, WorkerCrash, SchedulerStep, ScheduleRead, ScheduleAdd, WorkerStep,
       StartJob, SkipJob, Deliver, RequestSucceeds, RequestFails, RecordSuccess, Recover,
       RecordRetry, RecordFailover, RecordDeadLetter, Enqueue, ReadOpen, WriteOpen,
       FinishJob, Fault, SuccessPathThrows, JobThrows, ReadThrows, QueueStep, Stall,
       StallFails, BackoffElapses, PromoteDelayed, EvictCompleted, PatchEndpoint, api, vars
  <2> QED BY <1>1, <2>1
<1> QED BY <1>2, <1>3, <1>4, <1>5, <1>6 DEF Next, Operator

LEMMA ReferencesKept ==
  ASSUME IndInv, [Next]_vars
  PROVE  References'
<1>1. ASSUME NEW d \in Id, jobs'[d] # "none"
      PROVE  rows'[d].state # "none"
  <2>1. CASE AddsNoJob
    BY <1>1, <2>1, RowsStep DEF AddsNoJob, RowsKept, Exists, IndInv, References
  <2>2. ASSUME NEW c \in Id, NEW s \in JobStates, AddJob(c, s) /\ Exists(c)
        PROVE  rows'[d].state # "none"
    <3>1. Exists(d)
      BY <1>1, <2>2 DEF AddJob, IndInv, TypeOK, QueueOK, References
    <3> QED BY <3>1, RowsStep DEF RowsKept, Exists
  <2> QED BY <2>1, <2>2, JobsStep
<1>2. \A d \in Id : Running(d)' => jobs'[d] = "active"
  BY RunStep
<1>3. \A d \in Id : run'[d].pc = "enqueue"
                  => run'[d].child \in Id /\ rows'[run'[d].child].state # "none"
  BY ChildStep
<1> QED BY <1>1, <1>2, <1>3, PendingStep, ManualStep DEF References, Exists

-----------------------------------------------------------------------------
(* The destination locks.                                                  *)

LEMMA ChainTypes ==
  ASSUME WorkerOK, NEW t \in Dests
  PROVE  /\ chain[t] \in Seq(Id) /\ Len(chain[t]) \in Nat
         /\ \A i \in 1 .. Len(chain[t]) : chain[t][i] \in Id
<1>1. chain[t] \in Seq(Id)
  BY DEF WorkerOK
<1> QED BY <1>1, LenProperties, ElementOfSeq

(* A run past the lock is the first of its chain.                          *)
LEMMA HolderIsHead ==
  ASSUME IndInv, NEW d \in Id, Running(d), run[d].pc # "lock" \/ HasLock(d)
  PROVE  /\ chain[run[d].dest] # <<>> /\ chain[run[d].dest][1] = d
         /\ 1 \in 1 .. Len(chain[run[d].dest])
<1> DEFINE t == run[d].dest
<1>1. t \in Dests /\ WorkerOK
  BY RunningRows DEF IndInv, TypeOK
<1>2. PICK i \in 1 .. Len(chain[t]) : chain[t][i] = d
  BY DEF IndInv, Locks
<1>3. 1 \in 1 .. Len(chain[t]) /\ chain[t] # <<>>
  BY <1>1, <1>2, ChainTypes, EmptySeq
<1>4. CASE run[d].pc # "lock"
  <2>1. ~ (i > 1)
    BY <1>1, <1>2, <1>4 DEF IndInv, Locks
  <2>2. i = 1
    BY <1>1, <1>2, <2>1, ChainTypes
  <2> QED BY <1>2, <1>3, <2>2
<1>5. CASE HasLock(d)
  BY <1>3, <1>5 DEF HasLock
<1> QED BY <1>4, <1>5

(* The holder of a lock moves on.                                          *)
LEMMA HolderMoves ==
  ASSUME IndInv, NEW d \in Id, Running(d), run[d].pc # "lock" \/ HasLock(d),
         NEW x, run' = [run EXCEPT ![d] = x], x.pc # "idle", x.dest = run[d].dest,
         UNCHANGED chain
  PROVE  Locks'
<1>1. run \in [Id -> Run] /\ WorkerOK
  BY DEF IndInv, TypeOK, WorkerOK
<1>2. run'[d] = x /\ \A c \in Id \ {d} : run'[c] = run[c]
  BY <1>1
<1>3. \A c \in Id : (Running(c)' <=> Running(c)) /\ run'[c].dest = run[c].dest
  BY <1>2 DEF Running
<1>4. ASSUME NEW t \in Dests, NEW i \in 1 .. Len(chain'[t])
      PROVE  /\ Running(chain[t][i])' /\ run'[chain[t][i]].dest = t
             /\ i > 1 => run'[chain[t][i]].pc = "lock"
             /\ \A j \in 1 .. Len(chain[t]) : chain[t][i] = chain[t][j] => i = j
  <2>1. /\ Running(chain[t][i]) /\ run[chain[t][i]].dest = t
        /\ i > 1 => run[chain[t][i]].pc = "lock"
        /\ \A j \in 1 .. Len(chain[t]) : chain[t][i] = chain[t][j] => i = j
    BY <1>4 DEF IndInv, Locks
  <2>2. chain[t][i] \in Id /\ Len(chain[t]) \in Nat
    BY <1>1, <1>4, ChainTypes
  <2>3. chain[t][i] = d => i = 1
    BY <2>1, HolderIsHead
  <2>4. Running(chain[t][i])' /\ run'[chain[t][i]].dest = t
    <3>1. run'[chain[t][i]].pc # "idle"
      BY <1>2, <2>1, <2>2 DEF Running
    <3> QED BY <1>3, <2>1, <2>2, <3>1 DEF Running
  <2>5. ASSUME i > 1
        PROVE  run'[chain[t][i]].pc = "lock"
    <3>1. chain[t][i] # d
      BY <2>3, <2>5
    <3> QED BY <1>2, <2>1, <2>2, <2>5, <3>1
  <2> QED BY <2>1, <2>4, <2>5
<1>5. ASSUME NEW c \in Id, Running(c)'
      PROVE  \E i \in 1 .. Len(chain[run'[c].dest]) : chain[run'[c].dest][i] = c
  <2>1. Running(c) /\ run'[c].dest = run[c].dest
    BY <1>3, <1>5
  <2> QED BY <2>1 DEF IndInv, Locks
<1> QED BY <1>4, <1>5 DEF Locks, Running

(* A run starts, at the end of the chain of its destination.               *)
LEMMA RunQueues ==
  ASSUME IndInv, NEW d \in Id, ~Running(d), NEW t \in Dests,
         NEW x, run' = [run EXCEPT ![d] = x], x.pc = "lock", x.dest = t,
         chain' = [chain EXCEPT ![t] = Append(@, d)]
  PROVE  Locks'
<1>1. run \in [Id -> Run] /\ WorkerOK /\ chain \in [Dests -> Seq(Id)]
  BY DEF IndInv, TypeOK, WorkerOK
<1>2. run'[d] = x /\ \A c \in Id \ {d} : run'[c] = run[c]
  BY <1>1
<1>3. chain'[t] = Append(chain[t], d) /\ \A u \in Dests \ {t} : chain'[u] = chain[u]
  BY <1>1
<1>4. \A u \in Dests : \A i \in 1 .. Len(chain[u]) :
        /\ chain[u][i] \in Id \ {d} /\ Running(chain[u][i]) /\ run[chain[u][i]].dest = u
        /\ i > 1 => run[chain[u][i]].pc = "lock"
        /\ \A j \in 1 .. Len(chain[u]) : chain[u][i] = chain[u][j] => i = j
  BY <1>1, ChainTypes DEF IndInv, Locks
<1>5. /\ Len(chain[t]) \in Nat /\ Len(chain'[t]) = Len(chain[t]) + 1
      /\ \A i \in 1 .. Len(chain[t]) : chain'[t][i] = chain[t][i]
      /\ chain'[t][Len(chain[t]) + 1] = d
  BY <1>1, <1>3, ChainTypes, AppendProperties
<1>6. ASSUME NEW u \in Dests, NEW i \in 1 .. Len(chain'[u])
      PROVE  /\ run'[chain'[u][i]].pc # "idle" /\ run'[chain'[u][i]].dest = u
             /\ i > 1 => run'[chain'[u][i]].pc = "lock"
             /\ \A j \in 1 .. Len(chain'[u]) : chain'[u][i] = chain'[u][j] => i = j
  <2>1. CASE u # t
    BY <1>2, <1>3, <1>4, <2>1 DEF Running
  <2>2. CASE u = t /\ i # Len(chain[t]) + 1
    <3>1. i \in 1 .. Len(chain[t]) /\ chain'[t][i] = chain[t][i] /\ chain[t][i] # d
      BY <1>4, <1>5, <2>2
    <3>2. ASSUME NEW j \in 1 .. Len(chain'[t]), chain'[t][i] = chain'[t][j]
          PROVE  i = j
      <4>1. j \in 1 .. Len(chain[t])
        BY <1>5, <3>1, <3>2
      <4> QED BY <1>4, <1>5, <3>1, <3>2, <4>1
    <3> QED BY <1>2, <1>4, <2>2, <3>1, <3>2 DEF Running
  <2>3. CASE u = t /\ i = Len(chain[t]) + 1
    <3>1. chain'[t][i] = d
      BY <1>5, <2>3
    <3>2. ASSUME NEW j \in 1 .. Len(chain'[t]), j # i
          PROVE  chain'[t][j] # d
      <4>1. j \in 1 .. Len(chain[t])
        BY <1>5, <2>3, <3>2
      <4> QED BY <1>4, <1>5, <4>1
    <3> QED BY <1>2, <2>3, <3>1, <3>2
  <2> QED BY <2>1, <2>2, <2>3
<1>7. ASSUME NEW c \in Id, Running(c)'
      PROVE  \E i \in 1 .. Len(chain'[run'[c].dest]) : chain'[run'[c].dest][i] = c
  <2>1. CASE c = d
    <3>1. Len(chain[t]) + 1 \in 1 .. Len(chain'[t])
      BY <1>5
    <3> QED BY <1>2, <1>5, <2>1, <3>1
  <2>2. CASE c # d
    <3>1. Running(c) /\ run'[c] = run[c] /\ run[c].dest \in Dests
      BY <1>2, <1>7, <2>2, RunningRows DEF Running
    <3>2. PICK i \in 1 .. Len(chain[run[c].dest]) : chain[run[c].dest][i] = c
      BY <3>1 DEF IndInv, Locks
    <3>3. i \in 1 .. Len(chain'[run[c].dest]) /\ chain'[run[c].dest][i] = c
      BY <1>3, <1>5, <3>1, <3>2
    <3> QED BY <3>1, <3>3
  <2> QED BY <2>1, <2>2
<1> QED BY <1>6, <1>7 DEF Locks, Running

(* A run ends and the next of its chain gets the lock.                     *)
LEMMA RunEnds ==
  ASSUME IndInv, NEW d \in Id, Running(d), run[d].pc # "lock" \/ HasLock(d),
         run' = [run EXCEPT ![d] = Idle],
         chain' = [chain EXCEPT ![run[d].dest] = Tail(@)]
  PROVE  Locks'
<1> DEFINE t == run[d].dest
<1>1. /\ run \in [Id -> Run] /\ WorkerOK /\ chain \in [Dests -> Seq(Id)]
      /\ t \in Dests
  BY RunningRows DEF IndInv, TypeOK, WorkerOK
<1>2. run'[d] = Idle /\ \A c \in Id \ {d} : run'[c] = run[c]
  BY <1>1
<1>3. chain'[t] = Tail(chain[t]) /\ \A u \in Dests \ {t} : chain'[u] = chain[u]
  BY <1>1
<1>4. \A u \in Dests : \A i \in 1 .. Len(chain[u]) :
        /\ chain[u][i] \in Id /\ Running(chain[u][i]) /\ run[chain[u][i]].dest = u
        /\ i > 1 => run[chain[u][i]].pc = "lock"
        /\ \A j \in 1 .. Len(chain[u]) : chain[u][i] = chain[u][j] => i = j
  BY <1>1, ChainTypes DEF IndInv, Locks
<1>5. chain[t] # <<>> /\ chain[t][1] = d /\ 1 \in 1 .. Len(chain[t])
  BY HolderIsHead
<1>6. /\ Len(chain[t]) \in Nat /\ Len(chain'[t]) = Len(chain[t]) - 1
      /\ \A i \in 1 .. Len(chain'[t]) : chain'[t][i] = chain[t][i + 1]
  BY <1>1, <1>3, <1>5, ChainTypes, HeadTailProperties
<1>7. ASSUME NEW u \in Dests, NEW i \in 1 .. Len(chain'[u])
      PROVE  /\ run'[chain'[u][i]].pc # "idle" /\ run'[chain'[u][i]].dest = u
             /\ i > 1 => run'[chain'[u][i]].pc = "lock"
             /\ \A j \in 1 .. Len(chain'[u]) : chain'[u][i] = chain'[u][j] => i = j
  <2>1. CASE u # t
    <3>1. chain[u][i] # d
      BY <1>3, <1>4, <2>1
    <3> QED BY <1>2, <1>3, <1>4, <2>1, <3>1 DEF Running
  <2>2. CASE u = t
    <3>1. /\ i + 1 \in 1 .. Len(chain[t]) /\ i + 1 # 1 /\ i + 1 > 1
          /\ chain'[t][i] = chain[t][i + 1]
      BY <1>6, <2>2
    <3>2. chain[t][i + 1] # d /\ chain[t][i + 1] \in Id
      BY <1>1, <1>4, <1>5, <3>1
    <3>3. ASSUME NEW j \in 1 .. Len(chain'[t]), chain'[t][i] = chain'[t][j]
          PROVE  i = j
      <4>1. j + 1 \in 1 .. Len(chain[t]) /\ chain'[t][j] = chain[t][j + 1]
        BY <1>6
      <4>2. i + 1 = j + 1
        BY <1>1, <1>4, <3>1, <3>3, <4>1
      <4> QED BY <1>6, <2>2, <4>2
    <3> QED BY <1>1, <1>2, <1>4, <2>2, <3>1, <3>2, <3>3 DEF Running
  <2> QED BY <2>1, <2>2
<1>8. ASSUME NEW c \in Id, Running(c)'
      PROVE  \E i \in 1 .. Len(chain'[run'[c].dest]) : chain'[run'[c].dest][i] = c
  <2>1. c # d /\ run'[c] = run[c] /\ Running(c) /\ run[c].dest \in Dests
    BY <1>2, <1>8, RunningRows DEF Running, Idle
  <2>2. PICK i \in 1 .. Len(chain[run[c].dest]) : chain[run[c].dest][i] = c
    BY <2>1 DEF IndInv, Locks
  <2>3. CASE run[c].dest # t
    BY <1>3, <2>1, <2>2, <2>3
  <2>4. CASE run[c].dest = t
    <3>1. i # 1
      BY <1>5, <2>1, <2>2, <2>4
    <3>2. i - 1 \in 1 .. Len(chain'[t]) /\ chain'[t][i - 1] = c
      BY <1>6, <2>2, <2>4, <3>1
    <3> QED BY <2>1, <2>4, <3>2
  <2> QED BY <2>3, <2>4
<1> QED BY <1>7, <1>8 DEF Locks, Running

LEMMA LocksKept ==
  ASSUME IndInv, [Next]_vars
  PROVE  Locks'
<1>0. run \in [Id -> Run]
  BY DEF IndInv, TypeOK, WorkerOK
<1>1. ASSUME NEW d \in Id, StartJob(d)
      PROVE  Locks'
  <2>1. Destination(rows[d], endpoint.policy) \in Dests
    BY DestinationInDests DEF IndInv, TypeOK, RowsOK, ApiOK
  <2> DEFINE x == [pc |-> "lock", dest |-> Destination(rows[d], endpoint.policy),
                   index |-> rows[d].index, attempt |-> rows[d].attempt,
                   key |-> RequestKey(rows[d], endpoint.policy),
                   policy |-> endpoint.policy, child |-> NoRow, saw |-> FALSE]
  <2>2. /\ ~Running(d) /\ run' = [run EXCEPT ![d] = x]
        /\ chain' = [chain EXCEPT ![x.dest] = Append(@, d)]
    BY <1>1 DEF StartJob
  <2>3. x.pc = "lock" /\ x.dest \in Dests
    BY <2>1
  <2> HIDE DEF x
  <2> QED BY <2>2, <2>3, RunQueues
<1>2. ASSUME NEW d \in Id,
             \/ Deliver(d) \/ RequestSucceeds(d) \/ RequestFails(d) \/ RecordSuccess(d)
             \/ RecordDeadLetter(d) \/ Recover(d) \/ Enqueue(d) \/ WriteOpen(d)
             \/ SuccessPathThrows(d)
      PROVE  Locks'
  <2>1. Running(d) /\ (run[d].pc # "lock" \/ HasLock(d)) /\ UNCHANGED chain
    BY <1>2 DEF Deliver, RequestSucceeds, RequestFails, RecordSuccess, RecordDeadLetter,
       Recover, Enqueue, WriteOpen, SuccessPathThrows, Running
  <2>2. PICK pc : pc # "idle" /\ run' = [run EXCEPT ![d].pc = pc]
    BY <1>2 DEF Deliver, RequestSucceeds, RequestFails, RecordSuccess, RecordDeadLetter,
       Recover, Enqueue, WriteOpen, SuccessPathThrows, Goto
  <2> DEFINE x == [run[d] EXCEPT !.pc = pc]
  <2>3. run' = [run EXCEPT ![d] = x] /\ x.pc = pc /\ x.dest = run[d].dest
    BY <1>0, <2>2 DEF Run
  <2> HIDE DEF x
  <2> QED BY <2>1, <2>2, <2>3, HolderMoves
<1>3. ASSUME NEW d \in Id, RecordRetry(d) \/ RecordFailover(d)
      PROVE  Locks'
  <2>1. Running(d) /\ run[d].pc # "lock" /\ UNCHANGED chain
    BY <1>3 DEF RecordRetry, RecordFailover, Running
  <2> DEFINE x == [run[d] EXCEPT !.pc = "enqueue", !.child = nextId]
  <2>2. run' = [run EXCEPT ![d] = x]
    BY <1>0, <1>3 DEF RecordRetry, RecordFailover, Replace
  <2>3. x.pc = "enqueue" /\ x.dest = run[d].dest
    BY <1>0 DEF Run
  <2> HIDE DEF x
  <2> QED BY <2>1, <2>2, <2>3, HolderMoves
<1>4. ASSUME NEW d \in Id, ReadOpen(d)
      PROVE  Locks'
  <2>1. Running(d) /\ run[d].pc # "lock" /\ UNCHANGED chain
    BY <1>4 DEF ReadOpen, Running
  <2> DEFINE x == [run[d] EXCEPT !.pc = "writeOpen", !.saw = open > 0]
  <2>2. run' = [run EXCEPT ![d] = x]
    BY <1>0, <1>4 DEF ReadOpen
  <2>3. x.pc = "writeOpen" /\ x.dest = run[d].dest
    BY <1>0 DEF Run
  <2> HIDE DEF x
  <2> QED BY <2>1, <2>2, <2>3, HolderMoves
<1>5. ASSUME NEW d \in Id, FinishJob(d) \/ JobThrows(d)
      PROVE  Locks'
  <2>1. Running(d) /\ (run[d].pc # "lock" \/ HasLock(d))
    BY <1>5 DEF FinishJob, JobThrows, Running
  <2>2. /\ run' = [run EXCEPT ![d] = Idle]
        /\ chain' = [chain EXCEPT ![run[d].dest] = Tail(@)]
    BY <1>5 DEF FinishJob, JobThrows, EndJob
  <2> QED BY <2>1, <2>2, RunEnds
<1>6. CASE WorkerCrash
  <2>1. \A d \in Id : ~Running(d)'
    BY <1>6 DEF WorkerCrash, Running, Idle
  <2>2. \A t \in Dests : Len(chain'[t]) = 0
    BY <1>6, EmptySeq DEF WorkerCrash
  <2> QED BY <2>1, <2>2 DEF Locks
<1>7. ASSUME \/ Ingestor \/ SchedulerStep \/ Operator \/ UNCHANGED vars
             \/ \E d \in Id : SkipJob(d) \/ ReadThrows(d) \/ QueueStep(d)
                              \/ EvictCompleted(d)
      PROVE  Locks'
  <2>1. UNCHANGED <<run, chain>>
    BY <1>7 DEF Ingestor, IngestCheck, IngestInsert, IngestReply, IngestDies,
       IngestEnqueue, SchedulerStep, ScheduleRead, ScheduleAdd, Operator, PatchEndpoint,
       ManualCheck, ManualInsert, ManualEnqueue, ManualDies, SkipJob, ReadThrows,
       QueueStep, Stall, StallFails, BackoffElapses, PromoteDelayed, EvictCompleted,
       worker, vars
  <2> QED BY <2>1 DEF IndInv, Locks, Running
<1> QED BY <1>1, <1>2, <1>3, <1>4, <1>5, <1>6, <1>7 DEF Next, WorkerStep, Fault

-----------------------------------------------------------------------------
(* The inductive invariant, and what it implies.                           *)

LEMMA InitiallyIndInv == Init => IndInv
<1> SUFFICES ASSUME Init
             PROVE  IndInv
  OBVIOUS
<1>1. PICK e : e = (CHOOSE x \in Events : TRUE) /\ e \in Events
  BY NamesAssumption
<1>2. Unused \in Row /\ Unused.state = "none"
  <2> DEFINE row == NewRow(e, "forward", 1, NoDest, 0, NoKey, NoRow, FALSE)
  <2>1. 1 \in 1 .. MaxAttempts
    BY BoundsAssumption
  <2>2. row \in Row
    BY <1>1, <2>1, NewRowInRow
  <2>3. Unused = [row EXCEPT !.state = "none"]
    BY <1>1 DEF Unused
  <2> HIDE DEF row
  <2> QED BY <2>2, <2>3 DEF Row
<1>3. RowsOK
  BY <1>2, BoundsAssumption DEF Init, RowsOK, Exists
<1>4. QueueOK
  BY BoundsAssumption DEF Init, QueueOK
<1>5. WorkerOK
  BY IdleInRun, EmptySeq DEF Init, WorkerOK
<1>6. IngestorOK
  <2>1. (CHOOSE p \in Policies : TRUE) \in Policies
    BY NamesAssumption
  <2> QED BY <2>1 DEF Init, IngestorOK, NotReceived
<1>7. ApiOK
  BY DEF Init, ApiOK, NotRequested
<1>8. HistoryOK
  BY EmptySeq, BoundsAssumption DEF Init, HistoryOK
<1>9. References
  BY DEF Init, References, Running, Idle, NotReceived, NotRequested
<1>10. Locks
  BY EmptySeq DEF Init, Locks, Running, Idle
<1> QED BY <1>3, <1>4, <1>5, <1>6, <1>7, <1>8, <1>9, <1>10 DEF IndInv, TypeOK

LEMMA IndInvKept == IndInv /\ [Next]_vars => IndInv'
<1> SUFFICES ASSUME IndInv, [Next]_vars
             PROVE  IndInv'
  OBVIOUS
<1>1. RowsOK'
  BY RowsStep DEF RowsKept
<1>2. QueueOK' /\ WorkerOK' /\ IngestorOK' /\ ApiOK' /\ HistoryOK'
  BY QueueKept, WorkerKept, IngestorKept, ApiKept, HistoryKept
<1> QED BY <1>1, <1>2, ReferencesKept, LocksKept DEF IndInv, TypeOK

(* Every reachable state satisfies the inductive invariant, whatever       *)
(* crashes, throws, is patched or is rerun, and whether or not the 'failed' *)
(* listener's query runs.                                                  *)
THEOREM Invariance == Spec => []IndInv
<1>1. Init => IndInv
  BY InitiallyIndInv
<1>2. IndInv /\ [Next]_vars => IndInv'
  BY IndInvKept
<1> QED BY <1>1, <1>2, PTL DEF Spec

(* Every variable keeps its type.                                          *)
THEOREM TypeCorrect == Spec => []TypeOK
<1>1. IndInv => TypeOK
  BY DEF IndInv
<1> QED BY <1>1, Invariance, PTL

(* No destination of the route is ever sent two requests at a time: of two *)
(* runs for one destination at most one is past withDestinationLock.       *)
THEOREM OneRequestAtATime == Spec => []DestinationExclusive
<1>1. IndInv => DestinationExclusive
  <2> SUFFICES ASSUME IndInv, NEW c \in Id, NEW d \in Id, InFlight(c), InFlight(d),
                      run[c].dest = run[d].dest
               PROVE  c = d
    BY DEF DestinationExclusive
  <2>1. /\ Running(c) /\ run[c].pc # "lock"
        /\ Running(d) /\ run[d].pc # "lock"
    BY DEF InFlight, Running
  <2>2. chain[run[c].dest][1] = c /\ chain[run[d].dest][1] = d
    BY <2>1, HolderIsHead
  <2> QED BY <2>2
<1> QED BY <1>1, Invariance, PTL
=============================================================================
