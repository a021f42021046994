----------------------- MODULE ProtectDelivery_promises -----------------------
(***************************************************************************)
(* What ProtectDelivery promises the provider and the operator, proved     *)
(* from the inductive invariant of ProtectDelivery_proofs: a 202 is on     *)
(* record, an outcome is final, a target has one key and one initial       *)
(* delivery, a failover moves on, no delivery is left behind, and,         *)
(* undisturbed, each ends as DeliveryOutcome says.                         *)
(***************************************************************************)
EXTENDS ProtectDelivery_proofs

-----------------------------------------------------------------------------
(* The 202 of the ingestor.                                                *)

(* A handler that found rows of its event, inserted them or answered has   *)
(* rows of the event on record.                                            *)
OnRecord ==
  \A r \in Requests :
    \/ ing[r].pc = "checked" /\ ing[r].duplicate
    \/ ing[r].pc \in {"inserted", "replied"}
    => \E d \in Id : Exists(d) /\ rows[d].event = r[1]

LEMMA OnRecordKept == IndInv /\ OnRecord /\ [Next]_vars => OnRecord'
<1> SUFFICES ASSUME IndInv, OnRecord, [Next]_vars, NEW r \in Requests,
                    \/ ing'[r].pc = "checked" /\ ing'[r].duplicate
                    \/ ing'[r].pc \in {"inserted", "replied"}
             PROVE  \E d \in Id : rows'[d].state # "none" /\ rows'[d].event = r[1]
  BY DEF OnRecord, Exists
<1> DEFINE Goal == \E d \in Id : rows'[d].state # "none" /\ rows'[d].event = r[1]
<1>0. IngestorOK /\ RowsOK
  BY DEF IndInv, TypeOK
<1>1. ASSUME NEW d \in Id, Exists(d), rows[d].event = r[1]
      PROVE  Goal
  BY <1>1, RowsStep DEF RowsKept, Exists
<1>2. ASSUME \/ ing[r].pc = "checked" /\ ing[r].duplicate
             \/ ing[r].pc \in {"inserted", "replied"}
      PROVE  Goal
  BY <1>1, <1>2 DEF OnRecord
<1>3. ASSUME IngestCheck(r)
      PROVE  Goal
  <2>1. RowsOf(r[1]) # {}
    BY <1>0, <1>3 DEF IngestCheck, IngestorOK
  <2> QED BY <1>1, <2>1 DEF RowsOf
<1>4. ASSUME IngestInsert(r)
      PROVE  Goal
  BY <1>0, <1>4, RowsIngested
<1>5. ASSUME NEW d \in Id, IngestEnqueue(r, d)
      PROVE  Goal
  BY <1>2, <1>5 DEF IngestEnqueue
<1>6. ASSUME IngestReply(r)
      PROVE  Goal
  BY <1>2, <1>6 DEF IngestReply
<1>7. ASSUME IngestDies(r)
      PROVE  Goal
  BY <1>0, <1>7 DEF IngestDies, IngestorOK
<1>8. ASSUME ing'[r] = ing[r]
      PROVE  Goal
  BY <1>2, <1>8
<1>9. ASSUME NEW q \in Requests \ {r},
             \/ IngestCheck(q) \/ IngestInsert(q) \/ IngestReply(q) \/ IngestDies(q)
             \/ \E d \in Id : IngestEnqueue(q, d)
      PROVE  Goal
  <2>1. ing'[r] = ing[r]
    BY <1>0, <1>9, OtherHandlers
  <2> QED BY <1>8, <2>1
<1>10. ASSUME ~Ingestor
       PROVE  Goal
  <2>1. UNCHANGED ing
    BY <1>10, IngestorOnly
  <2> QED BY <1>8, <2>1
<1> QED BY <1>3, <1>4, <1>5, <1>6, <1>7, <1>9, <1>10 DEF Ingestor

(* An event the provider got a 202 for has rows, whatever the handlers of  *)
(* its other requests do and whichever of them die.                        *)
THEOREM AcceptedOnRecord == Spec => []AcceptedIsDurable
<1>1. Init => OnRecord
  BY DEF Init, OnRecord, NotReceived
<1>2. IndInv /\ OnRecord /\ [Next]_vars => OnRecord'
  BY OnRecordKept
<1>3. OnRecord => AcceptedIsDurable
  BY DEF OnRecord, AcceptedIsDurable, RowsOf
<1> QED BY <1>1, <1>2, <1>3, Invariance, PTL DEF Spec

-----------------------------------------------------------------------------
(* The end of a delivery.                                                  *)

(* While no call throws, a run records an outcome only for a row that is   *)
(* being delivered, and none waits for its lock once its row has ended.    *)
RunsMatchRows ==
  \A d \in Id :
    /\ run[d].pc = "lock" => rows[d].state \notin Ended
    /\ run[d].pc \in {"request", "accepted", "failing"} => rows[d].state = "delivering"

NoFault == MaxFaults = 0 /\ ~FailedHandlerRuns

(* A step leaves another row's state alone, or the row was not in use.     *)
LEMMA StateChanges ==
  ASSUME IndInv, RunsMatchRows, [Next]_vars, NoFault, NEW d \in Id
  PROVE  \/ rows'[d].state = rows[d].state
         \/ ~Exists(d) /\ rows'[d].state \notin Ended
         \/ Deliver(d)
         \/ RecordSuccess(d) /\ rows[d].state = "delivering"
         \/ (RecordRetry(d) \/ RecordFailover(d) \/ RecordDeadLetter(d))
            /\ rows[d].state = "delivering"
<1> DEFINE Goal ==
      \/ rows'[d].state = rows[d].state
      \/ ~Exists(d) /\ rows'[d].state \notin Ended
      \/ Deliver(d)
      \/ RecordSuccess(d) /\ rows[d].state = "delivering"
      \/ (RecordRetry(d) \/ RecordFailover(d) \/ RecordDeadLetter(d))
         /\ rows[d].state = "delivering"
<1>0. /\ rows \in [Id -> Row] /\ \A c \in Id : Exists(c) => c < nextId
      /\ spent.faults = 0
  BY DEF IndInv, TypeOK, RowsOK, HistoryOK, NoFault
<1>1. ASSUME NEW c \in Id, c # d, Deliver(c) \/ RecordSuccess(c) \/ RecordDeadLetter(c)
      PROVE  Goal
  BY <1>0, <1>1 DEF Deliver, RecordSuccess, RecordDeadLetter, SetState
<1>2. ASSUME RecordSuccess(d) \/ RecordRetry(d) \/ RecordFailover(d) \/ RecordDeadLetter(d)
      PROVE  Goal
  BY <1>2 DEF RecordSuccess, RecordRetry, RecordFailover, RecordDeadLetter, RunsMatchRows
<1>3. ASSUME NEW c \in Id, c # d, RecordRetry(c) \/ RecordFailover(c)
      PROVE  Goal
  <2>1. PICK x, s : Replace(c, s, x) /\ x.state = "queued"
    BY <1>3 DEF RecordRetry, RecordFailover, NewRow
  <2>2. CASE d = nextId
    <3>1. ~Exists(d)
      BY <1>0, <2>2 DEF Id
    <3>2. rows'[d] = x
      BY <1>0, <2>1, <2>2 DEF Replace
    <3> QED BY <2>1, <3>1, <3>2 DEF Ended
  <2>3. CASE d # nextId
    BY <1>0, <1>3, <2>1, <2>3 DEF Replace
  <2> QED BY <2>2, <2>3
<1>4. ASSUME NEW r \in Requests, IngestInsert(r)
      PROVE  Goal
  <2>1. CASE Exists(d)
    <3>1. d < nextId
      BY <1>0, <2>1
    <3>2. \A i \in Chosen(ing[r].policy) : nextId + Rank(ing[r].policy, i) # d
      <4>1. nextId \in Nat /\ \A i \in Chosen(ing[r].policy) : Rank(ing[r].policy, i) \in Nat
        BY ChosenTargets, BoundsAssumption DEF IndInv, TypeOK, RowsOK, IngestorOK
      <4> QED BY <3>1, <4>1 DEF Id
    <3>3. rows'[d] = rows[d]
      BY <1>4, <3>2 DEF IngestInsert
    <3> QED BY <3>3
  <2>2. CASE ~Exists(d)
    <3>1. rows'[d] = rows[d] \/ rows'[d].state = "queued"
      BY <1>4 DEF IngestInsert, NewRow
    <3> QED BY <2>2, <3>1 DEF Ended
  <2> QED BY <2>1, <2>2
<1>5. ASSUME NEW c \in Id, BackoffElapses(c)
      PROVE  Goal
  <2>1. rows'[d].state = rows[d].state
    BY <1>0, <1>5 DEF BackoffElapses, Row
  <2> QED BY <2>1
<1>6. ASSUME NEW m \in Manuals, ManualInsert(m)
      PROVE  Goal
  <2>1. CASE d = nextId
    <3>1. ~Exists(d)
      BY <1>0, <2>1 DEF Id
    <3>2. rows'[d].state = "queued"
      BY <1>0, <1>6, <2>1 DEF ManualInsert, NewRow
    <3> QED BY <3>1, <3>2 DEF Ended
  <2>2. CASE d # nextId
    BY <1>0, <1>6, <2>2 DEF ManualInsert
  <2> QED BY <2>1, <2>2
<1>7. ASSUME NEW c \in Id, StallFails(c)
      PROVE  Goal
  BY <1>7 DEF StallFails, FailedHandler, NoFault
<1>8. ASSUME \/ \E r \in Requests :
                  \/ IngestCheck(r) \/ IngestReply(r)
                  \/ \E c \in Id : IngestEnqueue(r, c)
             \/ \E c \in Id :
                  \/ StartJob(c) \/ SkipJob(c) \/ RequestSucceeds(c)
                  \/ RequestFails(c) \/ Recover(c) \/ Enqueue(c) \/ ReadOpen(c)
                  \/ WriteOpen(c) \/ FinishJob(c)
                  \/ Stall(c) \/ PromoteDelayed(c) \/ EvictCompleted(c)
             \/ WorkerCrash \/ SchedulerStep \/ PatchEndpoint
             \/ \E m \in Manuals :
                  \/ ManualEnqueue(m)
                  \/ \E c \in Id, kind \in {"retry", "replay"} : ManualCheck(m, c, kind)
             \/ UNCHANGED vars
      PROVE  Goal
  <2>1. UNCHANGED rows
    BY <1>8 DEF IngestCheck, IngestReply, IngestEnqueue, StartJob, SkipJob,
       RequestSucceeds, RequestFails, Recover, Enqueue, ReadOpen, WriteOpen, FinishJob,
       Stall, PromoteDelayed, EvictCompleted, WorkerCrash, SchedulerStep, ScheduleRead,
       ScheduleAdd, PatchEndpoint, ManualEnqueue, ManualCheck, vars
  <2> QED BY <2>1
<1>9. /\ \A c \in Id : ~Fault(c)
      /\ \A r \in Requests : ~IngestDies(r)
      /\ \A m \in Manuals : ~ManualDies(m)
  BY <1>0 DEF Fault, SuccessPathThrows, JobThrows, ReadThrows, IngestDies, ManualDies,
     NoFault
<1> QED BY <1>1, <1>2, <1>3, <1>4, <1>5, <1>6, <1>7, <1>8, <1>9
    DEF Next, Ingestor, WorkerStep, QueueStep, Operator

(* How a run comes to wait for its lock, and to be about to record an      *)
(* outcome.                                                                *)
LEMMA PcChanges ==
  ASSUME IndInv, [Next]_vars, NoFault, NEW d \in Id
  PROVE  /\ run'[d].pc = "lock" => run[d].pc = "lock" \/ StartJob(d)
         /\ run'[d].pc \in {"request", "accepted", "failing"}
            => run[d].pc \in {"request", "accepted", "failing"} \/ Deliver(d)
<1> DEFINE Sending == {"request", "accepted", "failing"}
           Goal == /\ run'[d].pc = "lock" => run[d].pc = "lock" \/ StartJob(d)
                   /\ run'[d].pc \in Sending => run[d].pc \in Sending \/ Deliver(d)
<1>0. run \in [Id -> Run] /\ spent.faults = 0
  BY DEF IndInv, TypeOK, WorkerOK, HistoryOK, NoFault
<1>1. ASSUME run'[d] = run[d]
      PROVE  Goal
  BY <1>1
<1>2. ASSUME NEW c \in Id,
             \/ Deliver(c) \/ RequestSucceeds(c) \/ RequestFails(c) \/ RecordSuccess(c)
             \/ RecordDeadLetter(c) \/ Recover(c) \/ Enqueue(c) \/ WriteOpen(c)
      PROVE  Goal
  <2>1. CASE c # d
    <3>1. run'[d] = run[d]
      BY <1>0, <1>2, <2>1 DEF Deliver, RequestSucceeds, RequestFails, RecordSuccess,
         RecordDeadLetter, Recover, Enqueue, WriteOpen, Goto
    <3> QED BY <1>1, <3>1
  <2>2. CASE c = d
    <3>1. PICK pc : /\ run' = [run EXCEPT ![d].pc = pc] /\ pc # "lock"
                    /\ pc \in Sending => run[d].pc \in Sending \/ Deliver(d)
      <4>1. CASE Deliver(d)
        BY <4>1 DEF Deliver, Goto
      <4>2. CASE RequestSucceeds(d) \/ RequestFails(d)
        BY <4>2 DEF RequestSucceeds, RequestFails, Goto
      <4>3. CASE \/ RecordSuccess(d) \/ RecordDeadLetter(d) \/ Recover(d) \/ Enqueue(d)
                 \/ WriteOpen(d)
        <5>1. \E pc \in {"recover", "readOpen", "published", "report"} :
                run' = [run EXCEPT ![d].pc = pc]
          BY <4>3 DEF RecordSuccess, RecordDeadLetter, Recover, Enqueue, WriteOpen, Goto
        <5> QED BY <5>1
      <4> QED BY <1>2, <2>2, <4>1, <4>2, <4>3
    <3>2. run'[d].pc = pc
      BY <1>0, <3>1 DEF Run
    <3> QED BY <3>1, <3>2
  <2> QED BY <2>1, <2>2
<1>3. ASSUME NEW c \in Id, RecordRetry(c) \/ RecordFailover(c)
      PROVE  Goal
  <2>1. run' = [run EXCEPT ![c].pc = "enqueue", ![c].child = nextId]
    BY <1>3 DEF RecordRetry, RecordFailover, Replace
  <2>2. CASE c # d
    <3>1. run'[d] = run[d]
      BY <1>0, <2>1, <2>2
    <3> QED BY <1>1, <3>1
  <2>3. CASE c = d
    <3>1. run'[d].pc = "enqueue"
      BY <1>0, <2>1, <2>3 DEF Run
    <3> QED BY <3>1
  <2> QED BY <2>2, <2>3
<1>4. ASSUME NEW c \in Id, StartJob(c) \/ FinishJob(c) \/ ReadOpen(c)
      PROVE  Goal
  <2>1. CASE c # d
    <3>1. run'[d] = run[d]
      BY <1>0, <1>4, <2>1 DEF StartJob, FinishJob, EndJob, ReadOpen
    <3> QED BY <1>1, <3>1
  <2>2. CASE c = d /\ StartJob(d)
    <3>1. run'[d].pc = "lock"
      BY <1>0, <2>2 DEF StartJob
    <3> QED BY <2>2, <3>1
  <2>3. CASE c = d /\ (FinishJob(d) \/ ReadOpen(d))
    <3>1. run'[d].pc \in {"idle", "writeOpen"}
      BY <1>0, <2>3 DEF FinishJob, EndJob, ReadOpen, Idle, Run
    <3> QED BY <3>1
  <2> QED BY <1>4, <2>1, <2>2, <2>3
<1>5. CASE WorkerCrash
  BY <1>5 DEF WorkerCrash, Idle
<1>6. ASSUME \/ Ingestor \/ SchedulerStep \/ Operator \/ UNCHANGED vars
             \/ \E c \in Id : SkipJob(c) \/ QueueStep(c) \/ EvictCompleted(c)
      PROVE  Goal
  <2>1. UNCHANGED run
    BY <1>6 DEF Ingestor, IngestCheck, IngestInsert, IngestReply, IngestDies,
       IngestEnqueue, SchedulerStep, ScheduleRead, ScheduleAdd, Operator, PatchEndpoint,
       ManualCheck, ManualInsert, ManualEnqueue, ManualDies, SkipJob,
       QueueStep, Stall, StallFails, BackoffElapses, PromoteDelayed, EvictCompleted,
       worker, vars
  <2> QED BY <1>1, <2>1
<1>7. \A c \in Id : ~Fault(c)
  BY <1>0 DEF Fault, SuccessPathThrows, JobThrows, ReadThrows, NoFault
<1> QED BY <1>2, <1>3, <1>4, <1>5, <1>6, <1>7 DEF Next, WorkerStep

LEMMA RunsMatchRowsKept ==
  ASSUME IndInv, RunsMatchRows, [Next]_vars, NoFault
  PROVE  RunsMatchRows'
<1> DEFINE Sending == {"request", "accepted", "failing"}
<1> SUFFICES ASSUME NEW d \in Id
             PROVE  /\ run'[d].pc = "lock" => rows'[d].state \notin Ended
                    /\ run'[d].pc \in Sending => rows'[d].state = "delivering"
  BY DEF RunsMatchRows
<1>0. run \in [Id -> Run] /\ rows \in [Id -> Row]
  BY DEF IndInv, TypeOK, WorkerOK, RowsOK
<1>1. CASE Deliver(d)
  BY <1>0, <1>1 DEF Deliver, SetState, Goto, Run, Row, Ended
<1>2. CASE ~Exists(d) /\ rows'[d].state \notin Ended
  <2>1. ~Running(d) /\ ~StartJob(d)
    BY <1>2, RunningRows DEF StartJob, IndInv, References
  <2>2. ~Running(d)'
    BY <2>1, RunStep
  <2> QED BY <2>2 DEF Running
<1>3. CASE RecordSuccess(d) \/ RecordDeadLetter(d)
  <2>1. run'[d].pc \in {"recover", "readOpen"}
    BY <1>0, <1>3 DEF RecordSuccess, RecordDeadLetter, Goto, Run
  <2> QED BY <2>1
<1>4. CASE RecordRetry(d) \/ RecordFailover(d)
  <2>1. run' = [run EXCEPT ![d].pc = "enqueue", ![d].child = nextId]
    BY <1>4 DEF RecordRetry, RecordFailover, Replace
  <2>2. run'[d].pc = "enqueue"
    BY <1>0, <2>1 DEF Run
  <2> QED BY <2>2
<1>5. CASE rows'[d].state = rows[d].state /\ ~Deliver(d)
  <2>1. StartJob(d) => rows[d].state \notin Ended
    BY DEF StartJob, Skipped, Startable, Ended
  <2> QED BY <1>5, <2>1, PcChanges DEF RunsMatchRows
<1> QED BY <1>1, <1>2, <1>3, <1>4, <1>5, StateChanges

(* While no call throws, a delivery that ended stays as it ended: however  *)
(* often the worker crashes, and whichever jobs BullMQ runs again, no run  *)
(* of performDestinationDelivery reopens or overwrites an outcome.         *)
THEOREM OutcomeIsFinal ==
  ASSUME NoFault
  PROVE  Spec => EndedIsFinal
<1>1. Init => RunsMatchRows
  BY DEF Init, RunsMatchRows, Idle
<1>2. IndInv /\ RunsMatchRows /\ [Next]_vars => RunsMatchRows'
  BY RunsMatchRowsKept
<1>3. IndInv /\ RunsMatchRows /\ [Next]_vars
      => [\A d \in Id : rows[d].state \in Ended => rows'[d].state = rows[d].state]_vars
  <2> SUFFICES ASSUME IndInv, RunsMatchRows, [Next]_vars, NEW d \in Id,
                      rows[d].state \in Ended
               PROVE  rows'[d].state = rows[d].state
    OBVIOUS
  <2>1. Exists(d) /\ rows[d].state # "delivering"
    BY DEF Exists, Ended
  <2>2. ~Deliver(d)
    BY DEF Deliver, RunsMatchRows
  <2> QED BY <2>1, <2>2, StateChanges
<1> QED BY <1>1, <1>2, <1>3, Invariance, PTL DEF Spec, EndedIsFinal

-----------------------------------------------------------------------------
(* The key a target's deliveries are sent with.                              *)

(* Where a path that only leads to smaller numbers ends.                   *)
LEMMA PathEnds ==
  ASSUME NEW n \in Nat, NEW up, \A c \in 1 .. n : up[c] \in 0 .. (c - 1)
  PROVE  \E f : f = [c \in 1 .. n |-> IF up[c] # 0 THEN f[up[c]] ELSE c]
<1> DEFINE Ends(m) == \E f : f = [c \in 1 .. m |-> IF up[c] # 0 THEN f[up[c]] ELSE c]
           S == {m \in 0 .. n : ~Ends(m)}
<1>1. SUFFICES ASSUME S # {}
               PROVE  FALSE
  OBVIOUS
<1>2. PICK m \in S : \A k \in S : m =< k
  <2>1. S \subseteq Nat
    OBVIOUS
  <2> HIDE DEF S
  <2> QED BY <1>1, <2>1, LeastOf
<1>3. m \in 0 .. n /\ ~Ends(m)
  BY <1>2
<1>4. m # 0
  <2>1. 1 .. 0 = {}
    OBVIOUS
  <2>2. ASSUME m = 0
        PROVE  Ends(m)
    <3> DEFINE g == [c \in 1 .. 0 |-> c]
    <3>1. g = [c \in 1 .. m |-> IF up[c] # 0 THEN g[up[c]] ELSE c]
      BY <2>1, <2>2
    <3> QED BY <3>1
  <2> QED BY <1>3, <2>2
<1>5. Ends(m - 1)
  <2>1. m - 1 \in 0 .. n /\ ~(m <= m - 1)
    BY <1>3, <1>4
  <2>2. m - 1 \notin S
    BY <1>2, <2>1
  <2> HIDE DEF Ends
  <2> QED BY <2>1, <2>2
<1>6. PICK f : f = [c \in 1 .. (m - 1) |-> IF up[c] # 0 THEN f[up[c]] ELSE c]
  BY <1>5
<1> DEFINE g == [c \in 1 .. m |-> IF c = m THEN (IF up[m] # 0 THEN f[up[m]] ELSE m) ELSE f[c]]
           h == [c \in 1 .. m |-> IF up[c] # 0 THEN g[up[c]] ELSE c]
<1>7. ASSUME NEW c \in 1 .. m
      PROVE  g[c] = h[c]
  <2>1. up[c] \in 0 .. (c - 1)
    BY <1>3, <1>7
  <2>2. up[c] # 0 => up[c] \in 1 .. (m - 1)
    BY <2>1, <1>7, <1>3
  <2>3. up[c] # 0 => g[up[c]] = f[up[c]]
    BY <2>2, <1>3
  <2>4. CASE c = m
    BY <2>3, <2>4
  <2>5. CASE c # m
    <3>1. c \in 1 .. (m - 1)
      BY <2>5, <1>7, <1>3
    <3>2. f[c] = IF up[c] # 0 THEN f[up[c]] ELSE c
      BY <1>6, <3>1
    <3> QED BY <2>3, <2>5, <3>2
  <2> QED BY <2>4, <2>5
<1>8. g = h
  <2>1. DOMAIN g = DOMAIN h
    OBVIOUS
  <2> QED BY <1>7, <2>1
<1>9. Ends(m)
  <2>1. g = [c \in 1 .. m |-> IF up[c] # 0 THEN g[up[c]] ELSE c]
    BY <1>8
  <2> HIDE DEF g, h
  <2> QED BY <2>1
<1> QED BY <1>3, <1>9

(* How the rows of a delivery descend from each other, and that a row has  *)
(* a key unless an operator's request is at its root.                      *)
Retried(d) == rows[d].kind = "retry" /\ ~rows[d].manual
Descent ==
  /\ \A d \in Id : Exists(d) =>
       \/ rows[d].manual
       \/ rows[d].kind # "retry" /\ rows[d].key # NoKey
       \/ /\ rows[d].kind = "retry" /\ rows[d].parent \in Id /\ rows[d].parent < d
          /\ Exists(rows[d].parent) /\ rows[d].key = rows[rows[d].parent].key
  /\ \A d \in Id : ~Exists(d) => ~Retried(d)

LEMMA FirstTryRule ==
  ASSUME RowsOK, Descent, NEW d \in Id
  PROVE  FirstTry(d) = IF Retried(d) THEN FirstTry(rows[d].parent) ELSE d
<1> DEFINE up == [c \in Id |-> IF Retried(c) THEN rows[c].parent ELSE 0]
<1>1. \A c \in Id : Retried(c) => rows[c].parent \in 1 .. (c - 1)
  BY DEF Descent, Retried, Id
<1>2. \A c \in 1 .. MaxRows : up[c] \in 0 .. (c - 1) /\ (up[c] # 0 <=> Retried(c))
  BY <1>1 DEF Id
<1>3. \A c \in Id : Retried(c) => up[c] = rows[c].parent
  OBVIOUS
<1> HIDE DEF up
<1>4. PICK f : f = [c \in 1 .. MaxRows |-> IF up[c] # 0 THEN f[up[c]] ELSE c]
  <2>1. MaxRows \in Nat /\ \A c \in 1 .. MaxRows : up[c] \in 0 .. (c - 1)
    BY <1>2, BoundsAssumption
  <2>2. \E f : f = [c \in 1 .. MaxRows |-> IF up[c] # 0 THEN f[up[c]] ELSE c]
    BY <2>1, PathEnds, ZenonT(60)
  <2> QED BY <2>2, Zenon
<1>5. f = [c \in Id |-> IF rows[c].kind = "retry" /\ ~rows[c].manual
                        THEN f[rows[c].parent] ELSE c]
  BY <1>2, <1>3, <1>4 DEF Id, Retried
<1> DEFINE first == CHOOSE g : g = [c \in Id |-> IF rows[c].kind = "retry" /\ ~rows[c].manual
                                                THEN g[rows[c].parent] ELSE c]
<1>6. first = [c \in Id |-> IF rows[c].kind = "retry" /\ ~rows[c].manual
                            THEN first[rows[c].parent] ELSE c]
  BY <1>5
<1>7. \A c : FirstTry(c) = first[c]
  BY Zenon DEF FirstTry
<1> HIDE DEF first
<1> QED BY <1>6, <1>7, <1>1 DEF Retried, Id

(* A row that exists keeps what it descends from, its target and its key.  *)
(* A new one is of the ingestor, of a failover, of an operator's request,  *)
(* or a retry: with the event of the row there was before and, for a       *)
(* retry, with its target, its key and its attempts and one.               *)
SameDescent(d) ==
  /\ rows'[d].kind = rows[d].kind /\ rows'[d].manual = rows[d].manual
  /\ rows'[d].parent = rows[d].parent /\ rows'[d].key = rows[d].key
  /\ rows'[d].attempt = rows[d].attempt /\ rows'[d].event = rows[d].event
  /\ rows'[d].dest = rows[d].dest /\ rows'[d].index = rows[d].index
  /\ Exists(d)' <=> Exists(d)
RecordedFor(d, r, i) ==
  LET p == ing[r].policy
  IN  /\ IngestInsert(r) /\ d = nextId + Rank(p, i) /\ rows'[d].event = r[1]
      /\ rows'[d].dest = p.dests[i + 1].id /\ rows'[d].index = Rank(p, i)
HandedTo(d, c) ==
  /\ Running(c) /\ Handover(c) # None /\ rows'[d].index = Handover(c)
  /\ rows'[d].dest = run[c].policy.dests[Handover(c) + 1].id
ChildOf(d, c) == c \in Id /\ Exists(c) /\ rows'[d].event = rows[c].event
NewDescent(d) ==
  /\ ~Exists(d) /\ Exists(d)'
  /\ \/ /\ rows'[d].kind = "forward" /\ rows'[d].key # NoKey /\ rows'[d].attempt = 1
        /\ \E r \in Requests : \E i \in Chosen(ing[r].policy) : RecordedFor(d, r, i)
     \/ /\ rows'[d].kind = "failover" /\ rows'[d].key # NoKey /\ rows'[d].attempt = 1
        /\ ChildOf(d, rows'[d].parent) /\ HandedTo(d, rows'[d].parent)
     \/ /\ rows'[d].manual /\ rows'[d].attempt = 1 /\ rows'[d].kind \in {"retry", "replay"}
        /\ ChildOf(d, rows'[d].parent) /\ rows'[d].dest = NoDest
     \/ /\ Retried(d)' /\ ChildOf(d, rows'[d].parent) /\ rows'[d].parent < d
        /\ rows'[d].key = rows[rows'[d].parent].key
        /\ rows'[d].dest = rows[rows'[d].parent].dest
        /\ rows'[d].index = rows[rows'[d].parent].index
        /\ run[rows'[d].parent].pc = "failing"
        /\ rows'[d].attempt = run[rows'[d].parent].attempt + 1

LEMMA SameRow ==
  ASSUME NEW d \in Id, rows'[d] = rows[d]
  PROVE  SameDescent(d)
BY DEF SameDescent, Exists

LEMMA KeyIsNotNoKey == NoKey \notin Keys
BY NamesAssumption DEF NoKey, Keys

LEMMA RowDescends ==
  ASSUME IndInv, [Next]_vars, NEW d \in Id
  PROVE  SameDescent(d) \/ NewDescent(d)
<1> DEFINE Goal == SameDescent(d) \/ NewDescent(d)
<1>0. /\ rows \in [Id -> Row] /\ \A c \in Id : Exists(c) => c < nextId
      /\ nextId \in 1 .. MaxRows + 1
  BY DEF IndInv, TypeOK, RowsOK
<1>1. ASSUME NEW c \in Id, NEW s \in States \ {"none"}, SetState(c, s), Exists(c)
      PROVE  Goal
  <2>1. CASE c = d
    <3>1. rows'[d] = [rows[d] EXCEPT !.state = s] /\ rows[d] \in Row
      BY <1>0, <1>1, <2>1 DEF SetState
    <3> QED BY <1>1, <2>1, <3>1 DEF SameDescent, Exists, Row
  <2>2. CASE c # d
    BY <1>0, <1>1, <2>2, SameRow DEF SetState
  <2> QED BY <2>1, <2>2
<1>2. ASSUME NEW c \in Id, Deliver(c) \/ RecordSuccess(c) \/ RecordDeadLetter(c)
      PROVE  Goal
  <2>1. Exists(c)
    BY <1>2, RunningRows DEF Deliver, RecordSuccess, RecordDeadLetter, Running
  <2>2. \E s \in States \ {"none"} : SetState(c, s)
    BY <1>2 DEF Deliver, RecordSuccess, RecordDeadLetter, States
  <2> QED BY <1>1, <2>1, <2>2
<1>3. ASSUME NEW c \in Id, NEW s \in States \ {"none"}, NEW x \in Row, Exists(c), Replace(c, s, x),
             x.state = "queued",
             x.parent = c, x.event = rows[c].event,
             \/ /\ x.kind = "failover" /\ x.key # NoKey /\ x.attempt = 1
                /\ Running(c) /\ Handover(c) # None /\ x.index = Handover(c)
                /\ x.dest = run[c].policy.dests[Handover(c) + 1].id
             \/ /\ x.kind = "retry" /\ ~x.manual /\ x.key = rows[c].key
                /\ x.dest = rows[c].dest /\ x.index = rows[c].index
                /\ run[c].pc = "failing" /\ x.attempt = run[c].attempt + 1
      PROVE  Goal
  <2>1. nextId \in Id /\ c < nextId /\ ~Exists(nextId)
    BY <1>0, <1>3 DEF Replace, Id
  <2>2. rows' = [rows EXCEPT ![c] = [rows[c] EXCEPT !.state = s], ![nextId] = x]
    BY <1>0, <1>3 DEF Replace
  <2>3. CASE d = nextId
    <3>1. rows'[d] = x
      BY <1>0, <2>1, <2>2, <2>3
    <3> QED BY <1>3, <2>1, <2>3, <3>1 DEF NewDescent, Exists, Retried, ChildOf, HandedTo
  <2>4. CASE d = c
    <3>1. rows'[d] = [rows[d] EXCEPT !.state = s] /\ rows[d] \in Row
      BY <1>0, <2>1, <2>2, <2>4
    <3> QED BY <1>3, <2>4, <3>1 DEF SameDescent, Exists, Row
  <2>5. CASE d # nextId /\ d # c
    BY <1>0, <2>2, <2>5, SameRow
  <2> QED BY <2>3, <2>4, <2>5
<1>4. ASSUME NEW c \in Id, RecordRetry(c)
      PROVE  Goal
  <2> DEFINE x == NewRow(rows[c].event, "retry", run[c].attempt + 1, rows[c].dest,
                         rows[c].index, rows[c].key, c, FALSE)
  <2>1. Exists(c) /\ rows[c] \in Row /\ Replace(c, "retrying", x)
    BY <1>4, RunningRows DEF RecordRetry, Running
  <2>2. run[c].attempt + 1 \in 1 .. MaxAttempts
    BY <1>4, RunningRows, BoundsAssumption
    DEF RecordRetry, Running, Exhausted, RetriesExhausted
  <2>3. x \in Row
    BY <2>1, <2>2, NewRowInRow DEF Row
  <2>4. /\ x.state = "queued" /\ x.kind = "retry" /\ ~x.manual /\ x.parent = c /\ x.key = rows[c].key
        /\ x.attempt = run[c].attempt + 1 /\ run[c].pc = "failing"
        /\ x.event = rows[c].event /\ x.dest = rows[c].dest /\ x.index = rows[c].index
    BY <1>4 DEF NewRow, RecordRetry
  <2> HIDE DEF x
  <2> QED BY <2>1, <2>3, <2>4, <1>3 DEF States
<1>5. ASSUME NEW c \in Id, RecordFailover(c)
      PROVE  Goal
  <2> DEFINE p == run[c].policy
             t == p.dests[Handover(c) + 1].id
             x == NewRow(rows[c].event, "failover", 1, t, Handover(c),
                         IdempotencyKey(rows[c].event, t, p.scope), c, TRUE)
  <2>1. Exists(c) /\ rows[c] \in Row /\ Replace(c, "failed", x)
    BY <1>5, RunningRows DEF RecordFailover, Running
  <2>2. Handover(c) \in Nat /\ t \in Dests
    BY <1>5, RunningRows, NextTargetActive DEF RecordFailover, Running, Handover
  <2>3. IdempotencyKey(rows[c].event, t, p.scope) \in Keys
    BY <2>1, <2>2 DEF IdempotencyKey, Keys, Row
  <2>4. x \in Row
    <3>1. 1 \in 1 .. MaxAttempts /\ c \in Id \cup {NoRow} /\ TRUE \in BOOLEAN
          /\ rows[c].event \in Events
      BY <2>1, BoundsAssumption DEF Row
    <3> HIDE DEF t, p
    <3> QED BY <2>2, <2>3, <3>1, NewRowInRow
  <2>5. /\ x.state = "queued" /\ x.kind = "failover" /\ x.key # NoKey /\ x.attempt = 1
        /\ x.parent = c /\ x.event = rows[c].event
        /\ x.index = Handover(c) /\ x.dest = run[c].policy.dests[Handover(c) + 1].id
    BY <2>3, KeyIsNotNoKey DEF NewRow
  <2>6. Running(c) /\ Handover(c) # None
    BY <1>5 DEF RecordFailover, Running
  <2> HIDE DEF x
  <2> QED BY <2>1, <2>4, <2>5, <2>6, <1>3 DEF States
<1>6. ASSUME NEW c \in Id, JobThrows(c) \/ ReadThrows(c) \/ StallFails(c)
      PROVE  Goal
  <2>1. Exists(c)
    BY <1>6, RunningRows, RunStep
    DEF JobThrows, ReadThrows, StallFails, Running, References, Orphaned, IndInv
  <2>2. SetState(c, "queued") \/ UNCHANGED rows
    BY <1>6 DEF JobThrows, ReadThrows, StallFails, FailedHandler
  <2> QED BY <1>1, <2>1, <2>2, SameRow DEF States
<1>7. ASSUME NEW c \in Id, BackoffElapses(c)
      PROVE  Goal
  <2>1. CASE c = d
    <3>1. rows'[d] = [rows[d] EXCEPT !.due = TRUE] /\ rows[d] \in Row
      BY <1>0, <1>7, <2>1 DEF BackoffElapses
    <3> QED BY <3>1 DEF SameDescent, Exists, Row
  <2>2. CASE c # d
    BY <1>0, <1>7, <2>2, SameRow DEF BackoffElapses
  <2> QED BY <2>1, <2>2
<1>8. ASSUME NEW m \in Manuals, ManualInsert(m)
      PROVE  Goal
  <2> DEFINE c == man[m].source
             x == [NewRow(rows[c].event, man[m].kind, 1, NoDest, 0, NoKey, c, TRUE)
                     EXCEPT !.manual = TRUE]
  <2>1. nextId \in Id /\ ~Exists(nextId) /\ rows' = [rows EXCEPT ![nextId] = x]
    BY <1>0, <1>8 DEF ManualInsert, Id
  <2>2. /\ x.manual /\ x.state = "queued" /\ x.attempt = 1 /\ x.kind = man[m].kind
        /\ x.dest = NoDest /\ x.parent = c /\ x.event = rows[c].event
    BY DEF NewRow
  <2> HIDE DEF x
  <2>3. c \in Id /\ Exists(c) /\ man[m].kind \in {"retry", "replay"}
    BY <1>8 DEF ManualInsert, IndInv, TypeOK, ApiOK, References
  <2>4. CASE d = nextId
    <3>1. rows'[d] = x
      BY <1>0, <2>1, <2>4
    <3> QED BY <2>1, <2>2, <2>3, <2>4, <3>1 DEF NewDescent, Exists, ChildOf
  <2>5. CASE d # nextId
    BY <1>0, <2>1, <2>5, SameRow
  <2> QED BY <2>4, <2>5
<1>9. ASSUME NEW r \in Requests, IngestInsert(r)
      PROVE  Goal
  <2>1. CASE rows'[d] = rows[d]
    BY <2>1, SameRow
  <2>2. CASE rows'[d] # rows[d]
    <3> DEFINE p == ing[r].policy
               initial(i) == NewRow(r[1], "forward", 1, p.dests[i + 1].id, Rank(p, i),
                                    IdempotencyKey(r[1], p.dests[i + 1].id, p.scope),
                                    NoRow, TRUE)
    <3>1. PICK i \in Chosen(p) : d = nextId + Rank(p, i) /\ rows'[d] = initial(i)
      BY <1>9, <2>2 DEF IngestInsert
    <3>2. p \in Policies /\ r[1] \in Events
      BY DEF IndInv, TypeOK, IngestorOK, Requests
    <3>3. p.dests[i + 1].id \in Dests /\ Rank(p, i) \in Nat
      BY <3>2, ChosenTargets
    <3>4. IdempotencyKey(r[1], p.dests[i + 1].id, p.scope) # NoKey
      BY <3>2, <3>3, KeyIsNotNoKey DEF Keys, IdempotencyKey
    <3>5. ~Exists(d)
      BY <1>0, <3>1, <3>3
    <3>6. /\ rows'[d].kind = "forward" /\ rows'[d].key # NoKey /\ rows'[d].state = "queued"
          /\ rows'[d].attempt = 1
      BY <3>1, <3>4 DEF NewRow
    <3>7. RecordedFor(d, r, i)
      BY <1>9, <3>1 DEF RecordedFor, NewRow
    <3> QED BY <3>5, <3>6, <3>7 DEF NewDescent, Exists
  <2> QED BY <2>1, <2>2
<1>10. ASSUME \/ \E r \in Requests :
                   \/ IngestCheck(r) \/ IngestReply(r) \/ IngestDies(r)
                   \/ \E c \in Id : IngestEnqueue(r, c)
              \/ \E c \in Id :
                   \/ StartJob(c) \/ SkipJob(c) \/ RequestSucceeds(c)
                   \/ RequestFails(c) \/ Recover(c) \/ Enqueue(c) \/ ReadOpen(c)
                   \/ WriteOpen(c) \/ FinishJob(c) \/ SuccessPathThrows(c)
                   \/ Stall(c) \/ PromoteDelayed(c) \/ EvictCompleted(c)
              \/ WorkerCrash \/ SchedulerStep \/ PatchEndpoint
              \/ \E m \in Manuals :
                   \/ ManualEnqueue(m) \/ ManualDies(m)
                   \/ \E c \in Id, kind \in {"retry", "replay"} : ManualCheck(m, c, kind)
              \/ UNCHANGED vars
       PROVE  Goal
  <2>1. UNCHANGED rows
    BY <1>10 DEF IngestCheck, IngestReply, IngestDies, IngestEnqueue, StartJob, SkipJob,
       RequestSucceeds, RequestFails, Recover, Enqueue, ReadOpen, WriteOpen, FinishJob,
       SuccessPathThrows, Stall, PromoteDelayed, EvictCompleted, WorkerCrash,
       SchedulerStep, ScheduleRead, ScheduleAdd, PatchEndpoint, ManualEnqueue,
       ManualDies, ManualCheck, vars
  <2> QED BY <2>1, SameRow
<1> QED BY <1>2, <1>4, <1>5, <1>6, <1>7, <1>8, <1>9, <1>10
    DEF Next, Ingestor, WorkerStep, Fault, QueueStep, Operator

LEMMA DescentKept ==
  ASSUME IndInv, Descent, [Next]_vars
  PROVE  Descent'
<1>1. \A d \in Id : Exists(d) => Exists(d)'
  BY RowsStep DEF RowsKept
<1>2. ASSUME NEW d \in Id, Exists(d)'
      PROVE  \/ rows'[d].manual
             \/ rows'[d].kind # "retry" /\ rows'[d].key # NoKey
             \/ /\ rows'[d].kind = "retry" /\ rows'[d].parent \in Id /\ rows'[d].parent < d
                /\ rows'[rows'[d].parent].state # "none"
                /\ rows'[d].key = rows'[rows'[d].parent].key
  <2>1. ASSUME NEW p \in Id, Exists(p)
        PROVE  rows'[p].state # "none" /\ rows'[p].key = rows[p].key
    BY <1>1, <2>1, RowDescends DEF SameDescent, NewDescent, Exists
  <2>2. CASE SameDescent(d)
    BY <1>2, <2>1, <2>2 DEF Descent, SameDescent
  <2>3. CASE NewDescent(d)
    BY <2>1, <2>3 DEF NewDescent, ChildOf, Retried
  <2> QED BY <2>2, <2>3, RowDescends
<1>3. ASSUME NEW d \in Id, ~Exists(d)'
      PROVE  ~Retried(d)'
  <2>1. SameDescent(d) /\ ~Exists(d)
    BY <1>1, <1>3, RowDescends DEF NewDescent
  <2> QED BY <2>1 DEF Descent, SameDescent, Retried
<1> QED BY <1>2, <1>3 DEF Descent, Exists, Retried

(* The key of a request is the one its row was recorded with, if it was.   *)
KeysUsed ==
  \A d \in Id :
    /\ Running(d) /\ rows[d].key # NoKey => run[d].key = rows[d].key
    /\ sent[d] # <<>> => Exists(d)
    /\ \A i \in 1 .. Len(sent[d]) : rows[d].key # NoKey => sent[d][i].key = rows[d].key

(* A run goes on with the key, the attempt and the index it read at its    *)
(* start.                                                                  *)
SameTask(d) ==
  /\ run'[d].key = run[d].key /\ run'[d].attempt = run[d].attempt
  /\ run'[d].index = run[d].index

LEMMA RunKeepsTask ==
  ASSUME IndInv, [Next]_vars, NEW d \in Id, Running(d)', ~StartJob(d)
  PROVE  Running(d) /\ SameTask(d)
<1>0. run \in [Id -> Run] /\ Running(d)
  BY RunStep DEF IndInv, TypeOK, WorkerOK
<1>1. ASSUME NEW c \in Id,
             \/ Deliver(c) \/ RequestSucceeds(c) \/ RequestFails(c) \/ RecordSuccess(c)
             \/ RecordDeadLetter(c) \/ Recover(c) \/ WriteOpen(c) \/ SuccessPathThrows(c)
             \/ Enqueue(c)
      PROVE  SameTask(d)
  <2>1. PICK pc : run' = [run EXCEPT ![c].pc = pc]
    BY <1>1 DEF Deliver, RequestSucceeds, RequestFails, RecordSuccess, RecordDeadLetter,
       Recover, WriteOpen, SuccessPathThrows, Enqueue, Goto
  <2> QED BY <1>0, <2>1 DEF Run, SameTask
<1>2. ASSUME NEW c \in Id, RecordRetry(c) \/ RecordFailover(c)
      PROVE  SameTask(d)
  <2>1. run' = [run EXCEPT ![c].pc = "enqueue", ![c].child = nextId]
    BY <1>2 DEF RecordRetry, RecordFailover, Replace
  <2>2. CASE c = d
    <3>1. run'[d] = [run[d] EXCEPT !.pc = "enqueue", !.child = nextId] /\ run[d] \in Run
      BY <1>0, <2>1, <2>2
    <3> QED BY <3>1 DEF Run, SameTask
  <2>3. CASE c # d
    BY <1>0, <2>1, <2>3 DEF SameTask
  <2> QED BY <2>2, <2>3
<1>3. ASSUME NEW c \in Id, ReadOpen(c)
      PROVE  SameTask(d)
  <2>1. run' = [run EXCEPT ![c] = [run[c] EXCEPT !.pc = "writeOpen", !.saw = open > 0]]
    BY <1>0, <1>3 DEF ReadOpen
  <2>2. CASE c = d
    <3>1. run'[d] = [run[d] EXCEPT !.pc = "writeOpen", !.saw = open > 0] /\ run[d] \in Run
      BY <1>0, <2>1, <2>2
    <3> QED BY <3>1 DEF Run, SameTask
  <2>3. CASE c # d
    BY <1>0, <2>1, <2>3 DEF SameTask
  <2> QED BY <2>2, <2>3
<1>4. ASSUME NEW c \in Id, StartJob(c)
      PROVE  SameTask(d)
  <2>1. c # d
    BY <1>4
  <2> QED BY <1>0, <1>4, <2>1 DEF StartJob, SameTask
<1>5. ASSUME NEW c \in Id, FinishJob(c) \/ JobThrows(c)
      PROVE  SameTask(d)
  <2>1. run' = [run EXCEPT ![c] = Idle]
    BY <1>5 DEF FinishJob, JobThrows, EndJob
  <2>2. c # d
    BY <1>0, <2>1 DEF Running, Idle
  <2> QED BY <1>0, <2>1, <2>2 DEF SameTask
<1>6. CASE WorkerCrash
  BY <1>6 DEF WorkerCrash, Running, Idle
<1>7. ASSUME \/ Ingestor \/ SchedulerStep \/ Operator \/ UNCHANGED vars
             \/ \E c \in Id : SkipJob(c) \/ ReadThrows(c) \/ QueueStep(c) \/ EvictCompleted(c)
      PROVE  SameTask(d)
  <2>1. UNCHANGED run
    BY <1>7, ZenonT(60) DEF Ingestor, IngestCheck, IngestInsert, IngestReply, IngestDies,
     IngestEnqueue, SchedulerStep, ScheduleRead, ScheduleAdd, Operator, PatchEndpoint,
     ManualCheck, ManualInsert, ManualEnqueue, ManualDies, SkipJob, ReadThrows,
     QueueStep, Stall, StallFails, BackoffElapses, PromoteDelayed, EvictCompleted,
     worker, vars
  <2> QED BY <2>1 DEF SameTask
<1> QED BY <1>0, <1>1, <1>2, <1>3, <1>4, <1>5, <1>6, <1>7 DEF Next, WorkerStep, Fault

LEMMA SentStep ==
  ASSUME IndInv, [Next]_vars, NEW d \in Id
  PROVE  \/ sent'[d] = sent[d]
         \/ Running(d) /\ sent'[d] = Append(sent[d], [dest |-> run[d].dest, key |-> run[d].key])
<1>0. sent \in [Id -> Seq(Request)]
  BY DEF IndInv, TypeOK, HistoryOK
<1>1. ASSUME NEW c \in Id, Deliver(c)
      PROVE  \/ sent'[d] = sent[d]
             \/ Running(d) /\ sent'[d] = Append(sent[d], [dest |-> run[d].dest, key |-> run[d].key])
  BY <1>0, <1>1 DEF Deliver, Running
<1>2. ASSUME ~ \E c \in Id : Deliver(c)
      PROVE  UNCHANGED sent
  BY <1>2, ZenonT(60) DEF Next, Ingestor, IngestCheck, IngestInsert, IngestReply, IngestDies,
     IngestEnqueue, WorkerCrash, SchedulerStep, ScheduleRead, ScheduleAdd, WorkerStep,
     StartJob, SkipJob, RequestSucceeds, RequestFails, RecordSuccess, Recover,
     RecordRetry, RecordFailover, RecordDeadLetter, Enqueue, ReadOpen, WriteOpen,
     FinishJob, Fault, SuccessPathThrows, JobThrows, ReadThrows, QueueStep, Stall,
     StallFails, BackoffElapses, PromoteDelayed, EvictCompleted, Operator,
     PatchEndpoint, ManualCheck, ManualInsert, ManualEnqueue, ManualDies, vars
<1> QED BY <1>1, <1>2

LEMMA KeysUsedKept ==
  ASSUME IndInv, KeysUsed, [Next]_vars
  PROVE  KeysUsed'
<1> SUFFICES ASSUME NEW d \in Id
             PROVE  /\ Running(d)' /\ rows'[d].key # NoKey => run'[d].key = rows'[d].key
                    /\ sent'[d] # <<>> => rows'[d].state # "none"
                    /\ \A i \in 1 .. Len(sent'[d]) :
                         rows'[d].key # NoKey => sent'[d][i].key = rows'[d].key
  BY DEF KeysUsed, Running, Exists
<1>1. Exists(d) => rows'[d].key = rows[d].key /\ rows'[d].state # "none"
  BY RowDescends DEF SameDescent, NewDescent, Exists
<1>2. Running(d) \/ StartJob(d) => Exists(d)
  BY RunningRows DEF StartJob, IndInv, References
<1>3. ASSUME Running(d)', rows'[d].key # NoKey
      PROVE  run'[d].key = rows'[d].key
  <2>1. CASE StartJob(d)
    <3>1. rows[d].key # NoKey /\ rows'[d].key = rows[d].key
      BY <1>1, <1>2, <1>3, <2>1
    <3>2. run'[d].key = RequestKey(rows[d], endpoint.policy)
      BY <2>1 DEF StartJob, IndInv, TypeOK, WorkerOK
    <3> QED BY <3>1, <3>2 DEF RequestKey
  <2>2. CASE ~StartJob(d)
    BY <1>1, <1>2, <1>3, <2>2, RunKeepsTask DEF KeysUsed, SameTask
  <2> QED BY <2>1, <2>2
<1>4. CASE sent'[d] = sent[d]
  BY <1>1, <1>3, <1>4 DEF KeysUsed, IndInv, TypeOK, HistoryOK
<1>5. CASE Running(d) /\ sent'[d] = Append(sent[d], [dest |-> run[d].dest, key |-> run[d].key])
  <2>1. sent[d] \in Seq(Request)
    BY DEF IndInv, TypeOK, HistoryOK
  <2>2. \A i \in 1 .. Len(sent'[d]) :
          \/ i \in 1 .. Len(sent[d]) /\ sent'[d][i] = sent[d][i]
          \/ sent'[d][i].key = run[d].key
    BY <1>5, <2>1
  <2> QED BY <1>1, <1>2, <1>3, <1>5, <2>2 DEF KeysUsed
<1> QED BY <1>4, <1>5, SentStep

(* What the ingestor recorded for a target is sent with one key by all of  *)
(* its retries: whatever is patched, crashes, throws or is asked for by    *)
(* hand in between.                                                        *)
THEOREM KeyStableHolds == Spec => []KeyStable
<1>1. Init => Descent /\ KeysUsed
  <2>1. Init => \A d \in Id : /\ rows[d].state = "none" /\ rows[d].kind = "forward"
                             /\ run[d].pc = "idle" /\ sent[d] = <<>>
    <3>1. Unused.state = "none" /\ Unused.kind = "forward" /\ Idle.pc = "idle"
      BY DEF Unused, NewRow, Idle
    <3> QED BY <3>1 DEF Init
  <2>2. Init => Descent
    BY <2>1 DEF Descent, Retried, Exists
  <2>3. Init => KeysUsed
    BY <2>1 DEF KeysUsed, Running
  <2> QED BY <2>2, <2>3
<1>2. IndInv /\ Descent /\ KeysUsed /\ [Next]_vars => Descent' /\ KeysUsed'
  BY DescentKept, KeysUsedKept
<1>3. IndInv /\ Descent /\ KeysUsed => KeyStable
  <2> SUFFICES ASSUME IndInv, Descent, KeysUsed, NEW d \in Id, Automatic(d),
                      rows[d].kind = "retry", ~rows[FirstTry(d)].manual,
                      NEW i \in 1 .. Len(sent[d]), NEW j \in 1 .. Len(sent[rows[d].parent])
               PROVE  sent[d][i].key = sent[rows[d].parent][j].key
    BY DEF KeyStable
  <2>0. RowsOK
    BY DEF IndInv, TypeOK
  <2> DEFINE Bad == {c \in Id : Exists(c) /\ rows[c].key = NoKey /\ ~rows[FirstTry(c)].manual}
  <2>1. Bad = {}
    <3>1. SUFFICES ASSUME Bad # {}
                   PROVE  FALSE
      OBVIOUS
    <3>2. PICK c \in Bad : \A k \in Bad : c =< k
      <4>1. Bad \subseteq Nat
        BY DEF Id
      <4> HIDE DEF Bad
      <4> QED BY <3>1, <4>1, LeastOf
    <3>3. CASE ~Retried(c)
      <4>1. FirstTry(c) = c
        BY <2>0, <3>3, FirstTryRule
      <4> QED BY <3>3, <4>1 DEF Descent, Retried
    <3>4. CASE Retried(c)
      <4> DEFINE p == rows[c].parent
      <4>1. p \in Id /\ p < c /\ Exists(p) /\ rows[c].key = rows[p].key
        BY <3>4 DEF Descent, Retried
      <4>2. FirstTry(c) = FirstTry(p)
        BY <2>0, <3>4, FirstTryRule
      <4>3. p \in Bad
        BY <4>1, <4>2
      <4>4. ~(c =< p)
        BY <4>1 DEF Id
      <4> QED BY <3>2, <4>3, <4>4
    <3> QED BY <3>3, <3>4
  <2>2. Exists(d)
    BY DEF KeysUsed
  <2>3. rows[d].key # NoKey
    BY <2>1, <2>2
  <2>4. rows[d].parent \in Id /\ rows[d].key = rows[rows[d].parent].key
    BY <2>2 DEF Descent, Automatic
  <2> QED BY <2>3, <2>4 DEF KeysUsed
<1> QED BY <1>1, <1>2, <1>3, Invariance, PTL DEF Spec

-----------------------------------------------------------------------------
(* Where initial deliveries and failovers go.                              *)

(* No two handlers of one event have both looked before either inserted.   *)
Overlooks(r) == ing[r].pc = "checked" /\ ~ing[r].duplicate
OneAtATime ==
  \A r, q \in Requests : Overlooks(r) /\ Overlooks(q) /\ r[1] = q[1] => r = q

(* The targets of a policy are different ones.                             *)
DistinctTargets ==
  \A p \in Policies : \A i, j \in 1 .. Len(p.dests) : p.dests[i].id = p.dests[j].id => i = j

(* A handler that is about to insert still finds no row of its event.      *)
NoneYet == \A r \in Requests : Overlooks(r) => \A d \in Id : Exists(d) => rows[d].event # r[1]

LEMMA NoneYetKept ==
  ASSUME IndInv, NoneYet, OneAtATime, [Next]_vars
  PROVE  NoneYet'
<1> SUFFICES ASSUME NEW r \in Requests, Overlooks(r)', NEW d \in Id, Exists(d)'
             PROVE  rows'[d].event # r[1]
  BY DEF NoneYet
<1>0. IngestorOK /\ RowsKept
  BY RowsStep DEF IndInv, TypeOK
<1>1. CASE IngestCheck(r)
  <2>1. RowsOf(r[1]) = {} /\ UNCHANGED rows
    BY <1>0, <1>1 DEF IngestCheck, IngestorOK, Overlooks
  <2> QED BY <2>1 DEF RowsOf, Exists
<1>2. CASE ~IngestCheck(r)
  <2>1. Overlooks(r) /\ ~IngestInsert(r)
    <3>1. CASE \E q \in Requests : \/ IngestCheck(q) \/ IngestInsert(q) \/ IngestReply(q)
                                  \/ IngestDies(q) \/ \E c \in Id : IngestEnqueue(q, c)
      <4>1. PICK q \in Requests : \/ IngestCheck(q) \/ IngestInsert(q) \/ IngestReply(q)
                                 \/ IngestDies(q) \/ \E c \in Id : IngestEnqueue(q, c)
        BY <3>1
      <4>2. q # r => ing'[r] = ing[r] /\ ~IngestInsert(r)
        BY <1>0, <4>1, OtherHandlers
      <4>3. ~IngestInsert(r) /\ ~IngestReply(r) /\ ~IngestDies(r)
        <5>1. \A pc : [NotReceived EXCEPT !.pc = pc].pc = pc
          BY DEF NotReceived
        <5>2. ing'[r].pc = "checked" /\ DOMAIN ing = Requests /\ "pc" \in DOMAIN ing[r]
          BY <1>0 DEF Overlooks, IngestorOK
        <5>3. ~IngestInsert(r)
          BY <1>0, <5>2 DEF IngestInsert, IngestorOK
        <5>4. ~IngestReply(r) /\ ~IngestDies(r)
          <6>1. ASSUME NEW pc \in {"replied", "died"}, ing' = [ing EXCEPT ![r] = [NotReceived EXCEPT !.pc = pc]]
                PROVE  FALSE
            BY <5>1, <5>2, <6>1
          <6> QED BY <6>1 DEF IngestReply, IngestDies
        <5> QED BY <5>3, <5>4
      <4>4. \A c \in Id : ~IngestEnqueue(r, c)
        BY <1>0 DEF IngestEnqueue, IngestorOK, Overlooks
      <4> QED BY <1>2, <4>1, <4>2, <4>3, <4>4 DEF Overlooks
    <3>2. CASE ~Ingestor
      <4>1. UNCHANGED ing
        BY <3>2, IngestorOnly
      <4>2. ~IngestInsert(r)
        BY <3>2 DEF Ingestor
      <4> QED BY <4>1, <4>2 DEF Overlooks
    <3> QED BY <3>1, <3>2 DEF Ingestor
  <2>2. \A c \in Id : Exists(c) => rows[c].event # r[1]
    BY <2>1 DEF NoneYet
  <2>3. CASE SameDescent(d)
    BY <2>2, <2>3 DEF SameDescent
  <2>4. CASE NewDescent(d) /\ \E q \in Requests : \E i \in Chosen(ing[q].policy) : RecordedFor(d, q, i)
    <3>1. PICK q \in Requests : IngestInsert(q) /\ rows'[d].event = q[1]
      BY <2>4 DEF RecordedFor
    <3>2. Overlooks(q)
      BY <3>1 DEF IngestInsert, Overlooks
    <3>3. q # r
      BY <2>1, <3>1
    <3>4. q[1] # r[1]
      BY <2>1, <3>2, <3>3 DEF OneAtATime
    <3> QED BY <3>1, <3>4
  <2>5. CASE NewDescent(d) /\ ChildOf(d, rows'[d].parent)
    BY <2>2, <2>5 DEF ChildOf
  <2> QED BY <2>3, <2>4, <2>5, RowDescends DEF NewDescent
<1> QED BY <1>1, <1>2

(* However often the provider sends an event, whatever dies and whatever   *)
(* the operator asks for, a target gets the event recorded for it once,    *)
(* unless two handlers of the event overlap between the look and the       *)
(* insertion.                                                              *)
THEOREM OneInitialDeliveryHolds ==
  ASSUME DistinctTargets
  PROVE  Spec /\ []OneAtATime => []OneInitialDelivery
<1>1. Init => NoneYet /\ OneInitialDelivery
  <2>1. Unused.state = "none"
    BY DEF Unused, NewRow
  <2> QED BY <2>1 DEF Init, NoneYet, OneInitialDelivery, Exists
<1>2. IndInv /\ NoneYet /\ OneInitialDelivery /\ OneAtATime /\ [Next]_vars
      => NoneYet' /\ OneInitialDelivery'
  <2> SUFFICES ASSUME IndInv, NoneYet, OneInitialDelivery, OneAtATime, [Next]_vars
               PROVE  OneInitialDelivery'
    BY NoneYetKept
  <2>1. ASSUME NEW d \in Id, Exists(d)', rows'[d].kind = "forward", ~Exists(d)
        PROVE  \E r \in Requests : \E i \in Chosen(ing[r].policy) : RecordedFor(d, r, i)
    BY <2>1, RowDescends DEF SameDescent, NewDescent, Retried
  <2>2. ASSUME NEW c \in Id, Exists(c)', rows'[c].kind = "forward",
               NEW d \in Id, Exists(d)', rows'[d].kind = "forward",
               rows'[c].event = rows'[d].event, rows'[c].dest = rows'[d].dest, ~Exists(d)
        PROVE  c = d
    <3>1. PICK r \in Requests : \E i \in Chosen(ing[r].policy) : RecordedFor(d, r, i)
      BY <2>1, <2>2
    <3>2. PICK i \in Chosen(ing[r].policy) : RecordedFor(d, r, i)
      BY <3>1
    <3>3. ~Exists(c)
      <4>1. Overlooks(r) /\ rows'[d].event = r[1]
        BY <3>2 DEF RecordedFor, IngestInsert, Overlooks
      <4>2. Exists(c) => rows'[c].event = rows[c].event
        BY RowsStep DEF RowsKept
      <4> QED BY <2>2, <4>1, <4>2 DEF NoneYet
    <3>4. PICK q \in Requests : \E j \in Chosen(ing[q].policy) : RecordedFor(c, q, j)
      BY <2>1, <2>2, <3>3
    <3>5. PICK j \in Chosen(ing[q].policy) : RecordedFor(c, q, j)
      BY <3>4
    <3>6. q = r
      <4>1. Overlooks(r) /\ rows'[d].event = r[1] /\ Overlooks(q) /\ rows'[c].event = q[1]
        BY <3>2, <3>5 DEF RecordedFor, IngestInsert, Overlooks
      <4> QED BY <2>2, <4>1 DEF OneAtATime
    <3> DEFINE p == ing[r].policy
    <3>7. p.dests[i + 1].id = p.dests[j + 1].id
      BY <2>2, <3>2, <3>5, <3>6 DEF RecordedFor
    <3>8. p \in Policies
      BY DEF IndInv, TypeOK, IngestorOK
    <3>9. i + 1 \in 1 .. Len(p.dests) /\ j + 1 \in 1 .. Len(p.dests) /\ i \in Int /\ j \in Int
      <4>1. Len(p.dests) \in Nat /\ Chosen(p) \subseteq 0 .. Len(p.dests) - 1
        BY <3>8, ChosenTargets, PolicyTargets
      <4>2. i \in Chosen(p) /\ j \in Chosen(p)
        BY <3>2, <3>5, <3>6
      <4> HIDE DEF p
      <4> QED BY <4>1, <4>2
    <3>10. i + 1 = j + 1
      <4> HIDE DEF p
      <4> QED BY <3>7, <3>8, <3>9 DEF DistinctTargets
    <3>11. i = j
      BY <3>9, <3>10
    <3> QED BY <3>2, <3>5, <3>6, <3>11 DEF RecordedFor
  <2>3. ASSUME NEW d \in Id, Exists(d)
        PROVE  SameDescent(d)
    BY <2>3, RowDescends DEF NewDescent
  <2>4. ASSUME NEW c \in Id, Exists(c)', rows'[c].kind = "forward",
               NEW d \in Id, Exists(d)', rows'[d].kind = "forward",
               rows'[c].event = rows'[d].event, rows'[c].dest = rows'[d].dest
        PROVE  c = d
    <3>1. CASE Exists(c) /\ Exists(d)
      BY <2>3, <2>4, <3>1 DEF SameDescent, OneInitialDelivery
    <3> QED BY <2>2, <2>4, <3>1
  <2> QED BY <2>4 DEF OneInitialDelivery, Exists
<1> QED BY <1>1, <1>2, Invariance, PTL DEF Spec

(* The route keeps one policy; a failover policy begins with an active     *)
(* target.                                                                 *)
OnePolicy == \A p, q \in Policies : p = q
FirstIsActive == \A p \in Policies : p.strategy = "failover" => p.dests[1].active

(* A row that names its target has the index of that target, and a run the *)
(* index of its row.                                                       *)
Placed(d) ==
  \A p \in Policies : p.strategy = "failover" /\ rows[d].dest # NoDest =>
    rows[d].index + 1 \in 1 .. Len(p.dests) /\ rows[d].dest = p.dests[rows[d].index + 1].id
MovesOn(d) ==
  rows[d].kind = "failover" =>
    /\ rows[d].parent \in Id /\ Exists(rows[d].parent)
    /\ rows[d].dest # rows[rows[d].parent].dest
FailoverInv ==
  \A d \in Id : /\ Exists(d) => Placed(d) /\ MovesOn(d)
                /\ Running(d) => run[d].index = rows[d].index

(* The ingestor records a failover route's events for its first target.    *)
LEMMA FirstChosen ==
  ASSUME FirstIsActive, NEW p \in Policies, p.strategy = "failover", NEW i \in Chosen(p)
  PROVE  i = 0 /\ Rank(p, i) = 0
<1> DEFINE on == ActiveAfter(p, -1)
<1>1. 0 \in on /\ on \subseteq Nat
  <2>1. Len(p.dests) \in Nat \ {0} /\ p.dests[1].active
    BY PolicyTargets DEF FirstIsActive
  <2> QED BY <2>1 DEF ActiveAfter
<1> HIDE DEF on
<1>2. Min(on) = 0
  <2>1. Min(on) \in on /\ \A j \in on : Min(on) <= j
    <3>1. on # {}
      BY <1>1
    <3>2. \E x \in on : \A y \in on : x <= y
      BY <1>1, <3>1, LeastOf
    <3> QED BY <3>2 DEF Min
  <2>2. Min(on) \in Nat /\ Min(on) <= 0
    BY <1>1, <2>1
  <2> QED BY <2>2
<1>3. Chosen(p) = {0}
  BY <1>2 DEF Chosen, on
<1>4. {j \in Chosen(p) : j < i} = {}
  BY <1>3
<1> QED BY <1>3, <1>4, FS_EmptySet DEF Rank

LEMMA FailoverInvKept ==
  ASSUME OnePolicy, DistinctTargets, FirstIsActive, IndInv, FailoverInv, [Next]_vars
  PROVE  FailoverInv'
<1>0. \A d \in Id : Exists(d) => SameDescent(d)
  BY RowDescends DEF NewDescent
<1>1. ASSUME NEW d \in Id, Running(d)'
      PROVE  run'[d].index = rows'[d].index
  <2>1. CASE StartJob(d)
    BY <2>1 DEF StartJob, IndInv, TypeOK, WorkerOK
  <2>2. CASE ~StartJob(d)
    <3>1. Running(d) /\ SameTask(d) /\ Exists(d)
      BY <1>1, <2>2, RunKeepsTask, RunningRows
    <3> QED BY <1>0, <3>1 DEF SameTask, SameDescent, FailoverInv
  <2> QED BY <2>1, <2>2
<1>2. ASSUME NEW d \in Id, Exists(d)
      PROVE  Placed(d)' /\ MovesOn(d)'
  <2>1. Placed(d) /\ MovesOn(d) /\ SameDescent(d)
    BY <1>0, <1>2 DEF FailoverInv
  <2>2. Placed(d)'
    BY <2>1 DEF SameDescent, Placed
  <2>3. ASSUME rows[d].kind = "failover"
        PROVE  SameDescent(rows[d].parent)
    BY <1>0, <2>1, <2>3 DEF MovesOn
  <2>4. MovesOn(d)'
    BY <2>1, <2>3 DEF MovesOn, SameDescent
  <2> QED BY <2>2, <2>4
<1>3. ASSUME NEW d \in Id, NewDescent(d)
      PROVE  Placed(d)' /\ MovesOn(d)'
  <2>1. CASE /\ rows'[d].kind = "forward"
             /\ \E r \in Requests : \E i \in Chosen(ing[r].policy) : RecordedFor(d, r, i)
    <3>1. PICK r \in Requests : \E i \in Chosen(ing[r].policy) : RecordedFor(d, r, i)
      BY <2>1
    <3>2. PICK i \in Chosen(ing[r].policy) : RecordedFor(d, r, i)
      BY <3>1
    <3>3. ing[r].policy \in Policies
      BY DEF IndInv, TypeOK, IngestorOK
    <3>4. ASSUME NEW p \in Policies, p.strategy = "failover"
          PROVE  rows'[d].index = 0 /\ rows'[d].dest = p.dests[1].id /\ 1 \in 1 .. Len(p.dests)
      <4>1. ing[r].policy = p
        BY <3>3 DEF OnePolicy
      <4>2. i = 0 /\ Rank(p, i) = 0
        BY <3>2, <3>4, <4>1, FirstChosen
      <4> QED BY <3>2, <4>1, <4>2, PolicyTargets DEF RecordedFor
    <3>5. Placed(d)'
      BY <3>4 DEF Placed
    <3> QED BY <2>1, <3>5 DEF MovesOn
  <2>2. ASSUME NEW c \in Id, Exists(c), rows'[d].parent = c, HandedTo(d, c), rows'[d].kind = "failover"
        PROVE  Placed(d)' /\ MovesOn(d)'
    <3> DEFINE p == run[c].policy
               j == Handover(c)
    <3>1. p \in Policies /\ run[c].index \in Nat /\ run[c].index = rows[c].index
      BY <2>2, RunningRows DEF HandedTo, FailoverInv
    <3>2. /\ p.strategy = "failover" /\ j \in Nat /\ run[c].index < j /\ j + 1 \in 1 .. Len(p.dests)
          /\ p.dests[j + 1].id \in Dests
      BY <2>2, <3>1, NextTargetActive DEF HandedTo, Handover, NextTarget
    <3>3. rows'[d].index = j /\ rows'[d].dest = p.dests[j + 1].id
      BY <2>2 DEF HandedTo
    <3>4. \A q \in Policies : q = p
      BY <3>1 DEF OnePolicy
    <3> HIDE DEF p, j
    <3>5. Placed(d)'
      BY <3>2, <3>3, <3>4 DEF Placed
    <3>6. rows'[c].dest = rows[c].dest /\ Exists(c)' /\ Placed(c)
      BY <1>0, <2>2 DEF SameDescent, FailoverInv
    <3>7. rows[c].dest # rows'[d].dest
      <4>1. CASE rows[c].dest = NoDest
        BY <3>2, <3>3, <4>1, NamesAssumption
      <4>2. CASE rows[c].dest # NoDest
        <5>1. /\ rows[c].index + 1 \in 1 .. Len(p.dests)
              /\ rows[c].dest = p.dests[rows[c].index + 1].id
          BY <3>1, <3>2, <3>6, <4>2 DEF Placed
        <5>2. rows[c].index + 1 # j + 1
          BY <3>1, <3>2
        <5> QED BY <3>1, <3>2, <3>3, <5>1, <5>2 DEF DistinctTargets
      <4> QED BY <4>1, <4>2
    <3>8. MovesOn(d)'
      BY <2>2, <3>6, <3>7 DEF MovesOn
    <3> QED BY <3>5, <3>8
  <2>3. CASE rows'[d].kind \in {"retry", "replay"} /\ rows'[d].dest = NoDest
    BY <2>3 DEF Placed, MovesOn
  <2>4. ASSUME NEW c \in Id, Exists(c), rows'[d].kind = "retry",
               rows'[d].dest = rows[c].dest, rows'[d].index = rows[c].index
        PROVE  Placed(d)' /\ MovesOn(d)'
    BY <2>4 DEF Placed, MovesOn, FailoverInv
  <2> QED BY <1>3, <2>1, <2>2, <2>3, <2>4 DEF NewDescent, ChildOf, Retried
<1> QED BY <1>1, <1>2, <1>3, RowDescends DEF FailoverInv, SameDescent, Running, Exists

(* As long as the route keeps its policy, and a failover policy begins     *)
(* with an active target, a failover goes to another target than the one   *)
(* that was given up, whatever crashes, throws or is asked for by hand.    *)
THEOREM FailoverMovesOnHolds ==
  ASSUME OnePolicy, DistinctTargets, FirstIsActive
  PROVE  Spec => []FailoverMovesOn
<1>1. Init => FailoverInv
  <2>1. Unused.state = "none" /\ Idle.pc = "idle"
    BY DEF Unused, NewRow, Idle
  <2> QED BY <2>1 DEF Init, FailoverInv, Exists, Running
<1>2. IndInv /\ FailoverInv /\ [Next]_vars => FailoverInv'
  BY FailoverInvKept
<1>3. FailoverInv => FailoverMovesOn
  BY DEF FailoverInv, MovesOn, FailoverMovesOn
<1> QED BY <1>1, <1>2, <1>3, Invariance, PTL DEF Spec

-----------------------------------------------------------------------------
(* The retry budget.                                                        *)

GivenUp == {"dead_letter", "failed"}

(* The attempt of a row counts the rows it descends from by retries, each  *)
(* of which a request was made for; a run past its lock has made one, and  *)
(* a target is given up at the last attempt.                               *)
BudgetSpent ==
  \A d \in Id :
    /\ Exists(d) /\ Retried(d) => /\ rows[d].attempt = rows[rows[d].parent].attempt + 1
                                  /\ sent[rows[d].parent] # <<>>
    /\ Exists(d) /\ ~Retried(d) => rows[d].attempt = 1
    /\ Running(d) => run[d].attempt = rows[d].attempt
    /\ run[d].pc \notin {"idle", "lock"} => sent[d] # <<>>
    /\ rows[d].state \in GivenUp => sent[d] # <<>> /\ rows[d].attempt >= MaxAttempts

LEMMA PastLock ==
  ASSUME IndInv, [Next]_vars, NEW d \in Id, run'[d].pc \notin {"idle", "lock"}
  PROVE  run[d].pc \notin {"idle", "lock"} \/ Deliver(d)
<1> DEFINE Goal == run[d].pc \notin {"idle", "lock"} \/ Deliver(d)
<1>0. run \in [Id -> Run]
  BY DEF IndInv, TypeOK, WorkerOK
<1>1. ASSUME run'[d] = run[d]
      PROVE  Goal
  BY <1>1
<1>2. ASSUME NEW c \in Id,
             \/ RequestSucceeds(c) \/ RequestFails(c) \/ RecordSuccess(c)
             \/ RecordRetry(c) \/ RecordFailover(c) \/ RecordDeadLetter(c)
             \/ Recover(c) \/ Enqueue(c) \/ ReadOpen(c) \/ WriteOpen(c)
             \/ SuccessPathThrows(c) \/ Deliver(c)
      PROVE  Goal
  <2>1. CASE c = d
    BY <1>2, <2>1 DEF RequestSucceeds, RequestFails, RecordSuccess, RecordRetry,
       RecordFailover, RecordDeadLetter, Recover, Enqueue, ReadOpen, WriteOpen,
       SuccessPathThrows
  <2>2. CASE c # d
    <3>1. run'[d] = run[d]
      BY <1>0, <1>2, <2>2 DEF RequestSucceeds, RequestFails, RecordSuccess, RecordRetry,
         RecordFailover, RecordDeadLetter, Recover, Enqueue, ReadOpen, WriteOpen,
         SuccessPathThrows, Deliver, Goto, Replace
    <3> QED BY <1>1, <3>1
  <2> QED BY <2>1, <2>2
<1>3. ASSUME NEW c \in Id, StartJob(c) \/ FinishJob(c) \/ JobThrows(c)
      PROVE  Goal
  <2>1. CASE c = d
    <3>1. run'[d].pc \in {"idle", "lock"}
      BY <1>0, <1>3, <2>1 DEF StartJob, FinishJob, JobThrows, EndJob, Idle
    <3> QED BY <3>1
  <2>2. CASE c # d
    <3>1. run'[d] = run[d]
      BY <1>0, <1>3, <2>2 DEF StartJob, FinishJob, JobThrows, EndJob
    <3> QED BY <1>1, <3>1
  <2> QED BY <2>1, <2>2
<1>4. CASE WorkerCrash
  BY <1>4 DEF WorkerCrash, Idle
<1>5. ASSUME \/ Ingestor \/ SchedulerStep \/ Operator \/ UNCHANGED vars
             \/ \E c \in Id : SkipJob(c) \/ ReadThrows(c) \/ QueueStep(c) \/ EvictCompleted(c)
      PROVE  Goal
  <2>1. UNCHANGED run
    BY <1>5 DEF Ingestor, IngestCheck, IngestInsert, IngestReply, IngestDies,
       IngestEnqueue, SchedulerStep, ScheduleRead, ScheduleAdd, Operator, PatchEndpoint,
       ManualCheck, ManualInsert, ManualEnqueue, ManualDies, SkipJob, ReadThrows,
       QueueStep, Stall, StallFails, BackoffElapses, PromoteDelayed, EvictCompleted,
       worker, vars
  <2> QED BY <1>1, <2>1
<1> QED BY <1>2, <1>3, <1>4, <1>5 DEF Next, WorkerStep, Fault

LEMMA GivesUp ==
  ASSUME IndInv, [Next]_vars, NEW d \in Id, rows'[d].state \in GivenUp
  PROVE  rows[d].state \in GivenUp \/ (run[d].pc = "failing" /\ Exhausted(d))
<1> DEFINE Goal == rows[d].state \in GivenUp \/ (run[d].pc = "failing" /\ Exhausted(d))
<1>0. rows \in [Id -> Row]
  BY DEF IndInv, TypeOK, RowsOK
<1>1. ASSUME rows'[d] = rows[d]
      PROVE  Goal
  BY <1>1
<1>2. ASSUME NEW c \in Id, NEW s \in {"delivering", "succeeded", "queued"}, SetState(c, s)
      PROVE  Goal
  BY <1>0, <1>2 DEF SetState, GivenUp, Row
<1>3. ASSUME NEW c \in Id, RecordDeadLetter(c)
      PROVE  Goal
  BY <1>0, <1>3 DEF RecordDeadLetter, SetState
<1>4. ASSUME NEW c \in Id, NEW s \in {"retrying", "failed"}, NEW x, x.state = "queued",
             Replace(c, s, x), s = "failed" => run[c].pc = "failing" /\ Exhausted(c)
      PROVE  Goal
  <2>1. rows' = [rows EXCEPT ![c] = [rows[c] EXCEPT !.state = s], ![nextId] = x]
    BY <1>0, <1>4 DEF Replace
  <2>2. CASE d = nextId
    <3>1. rows'[d] = x
      BY <1>0, <2>1, <2>2
    <3> QED BY <1>4, <3>1 DEF GivenUp
  <2>3. CASE d # nextId /\ d = c
    <3>1. rows'[d] = [rows[d] EXCEPT !.state = s] /\ rows[d] \in Row
      BY <1>0, <2>1, <2>3
    <3>2. rows'[d].state = s
      BY <3>1 DEF Row
    <3> QED BY <1>4, <2>3, <3>2 DEF GivenUp
  <2>4. CASE d # nextId /\ d # c
    BY <1>0, <1>1, <2>1, <2>4
  <2> QED BY <2>2, <2>3, <2>4
<1>5. ASSUME NEW c \in Id, RecordRetry(c)
      PROVE  Goal
  <2>1. PICK x : Replace(c, "retrying", x) /\ x.state = "queued"
    BY <1>5 DEF RecordRetry, NewRow
  <2> QED BY <1>4, <2>1
<1>6. ASSUME NEW c \in Id, RecordFailover(c)
      PROVE  Goal
  <2>1. PICK x : Replace(c, "failed", x) /\ x.state = "queued"
    BY <1>6 DEF RecordFailover, NewRow
  <2>2. run[c].pc = "failing" /\ Exhausted(c)
    BY <1>6 DEF RecordFailover
  <2> QED BY <1>4, <2>1, <2>2
<1>7. ASSUME NEW c \in Id,
             Deliver(c) \/ RecordSuccess(c) \/ JobThrows(c) \/ ReadThrows(c) \/ StallFails(c)
      PROVE  Goal
  <2>1. (\E s \in {"delivering", "succeeded", "queued"} : SetState(c, s)) \/ UNCHANGED rows
    BY <1>7 DEF Deliver, RecordSuccess, JobThrows, ReadThrows, StallFails, FailedHandler
  <2> QED BY <1>1, <1>2, <2>1
<1>8. ASSUME NEW c \in Id, BackoffElapses(c)
      PROVE  Goal
  <2>1. rows'[d].state = rows[d].state
    <3>1. CASE c = d
      <4>1. rows'[d] = [rows[d] EXCEPT !.due = TRUE] /\ rows[d] \in Row
        BY <1>0, <1>8, <3>1 DEF BackoffElapses
      <4> QED BY <4>1 DEF Row
    <3>2. CASE c # d
      BY <1>0, <1>8, <3>2 DEF BackoffElapses
    <3> QED BY <3>1, <3>2
  <2> QED BY <2>1
<1>9. ASSUME NEW m \in Manuals, ManualInsert(m)
      PROVE  Goal
  <2>1. PICK x : x.state = "queued" /\ rows' = [rows EXCEPT ![nextId] = x]
    BY <1>9 DEF ManualInsert, NewRow
  <2>2. CASE d = nextId
    BY <1>0, <2>1, <2>2 DEF GivenUp
  <2>3. CASE d # nextId
    BY <1>0, <1>1, <2>1, <2>3
  <2> QED BY <2>2, <2>3
<1>10. ASSUME NEW r \in Requests, IngestInsert(r)
       PROVE  Goal
  <2>1. rows'[d] = rows[d] \/ rows'[d].state = "queued"
    BY <1>10 DEF IngestInsert, NewRow
  <2> QED BY <1>1, <2>1 DEF GivenUp
<1>11. ASSUME \/ \E r \in Requests :
                   \/ IngestCheck(r) \/ IngestReply(r) \/ IngestDies(r)
                   \/ \E c \in Id : IngestEnqueue(r, c)
              \/ \E c \in Id :
                   \/ StartJob(c) \/ SkipJob(c) \/ RequestSucceeds(c)
                   \/ RequestFails(c) \/ Recover(c) \/ Enqueue(c) \/ ReadOpen(c)
                   \/ WriteOpen(c) \/ FinishJob(c) \/ SuccessPathThrows(c)
                   \/ Stall(c) \/ PromoteDelayed(c) \/ EvictCompleted(c)
              \/ WorkerCrash \/ SchedulerStep \/ PatchEndpoint
              \/ \E m \in Manuals :
                   \/ ManualEnqueue(m) \/ ManualDies(m)
                   \/ \E c \in Id, kind \in {"retry", "replay"} : ManualCheck(m, c, kind)
              \/ UNCHANGED vars
       PROVE  Goal
  <2>1. UNCHANGED rows
    BY <1>11 DEF IngestCheck, IngestReply, IngestDies, IngestEnqueue, StartJob, SkipJob,
       RequestSucceeds, RequestFails, Recover, Enqueue, ReadOpen, WriteOpen, FinishJob,
       SuccessPathThrows, Stall, PromoteDelayed, EvictCompleted, WorkerCrash,
       SchedulerStep, ScheduleRead, ScheduleAdd, PatchEndpoint, ManualEnqueue,
       ManualDies, ManualCheck, vars
  <2> QED BY <1>1, <2>1
<1> QED BY <1>3, <1>5, <1>6, <1>7, <1>8, <1>9, <1>10, <1>11
    DEF Next, Ingestor, WorkerStep, Fault, QueueStep, Operator

LEMMA BudgetSpentKept ==
  ASSUME IndInv, Descent, BudgetSpent, [Next]_vars
  PROVE  BudgetSpent'
<1>1. ASSUME NEW d \in Id, sent[d] # <<>> \/ Deliver(d)
      PROVE  sent'[d] # <<>>
  <2>1. sent \in [Id -> Seq(Request)]
    BY DEF IndInv, TypeOK, HistoryOK
  <2>2. Deliver(d) => sent'[d] = Append(sent[d], [dest |-> run[d].dest, key |-> run[d].key])
    BY <2>1 DEF Deliver
  <2>3. \/ sent'[d] = sent[d]
        \/ sent'[d] = Append(sent[d], [dest |-> run[d].dest, key |-> run[d].key])
    BY SentStep
  <2>4. sent[d] \in Seq(Request)
    BY <2>1
  <2> QED BY <1>1, <2>2, <2>3, <2>4
<1>2. ASSUME NEW d \in Id, Exists(d)
      PROVE  SameDescent(d)
  BY <1>2, RowDescends DEF NewDescent
<1>3. ASSUME NEW d \in Id, Running(d)
      PROVE  Exists(d) /\ run[d].attempt = rows[d].attempt
  BY <1>3, RunningRows DEF BudgetSpent
<1>4. ASSUME NEW d \in Id, Exists(d)'
      PROVE  /\ Retried(d)' => /\ rows'[d].attempt = rows'[rows'[d].parent].attempt + 1
                               /\ sent'[rows'[d].parent] # <<>>
             /\ ~Retried(d)' => rows'[d].attempt = 1
  <2>1. CASE SameDescent(d)
    <3>1. Exists(d) /\ (Retried(d)' <=> Retried(d)) /\ rows'[d].attempt = rows[d].attempt
          /\ rows'[d].parent = rows[d].parent
      BY <1>4, <2>1 DEF SameDescent, Retried
    <3>2. CASE Retried(d)
      <4>1. rows[d].parent \in Id /\ Exists(rows[d].parent)
        BY <3>1, <3>2 DEF Descent, Retried
      <4>2. rows'[rows[d].parent].attempt = rows[rows[d].parent].attempt
        BY <1>2, <4>1 DEF SameDescent
      <4>3. rows[d].attempt = rows[rows[d].parent].attempt + 1 /\ sent[rows[d].parent] # <<>>
        BY <3>1, <3>2 DEF BudgetSpent
      <4> QED BY <1>1, <3>1, <3>2, <4>1, <4>2, <4>3
    <3>3. CASE ~Retried(d)
      BY <3>1, <3>3 DEF BudgetSpent
    <3> QED BY <3>2, <3>3
  <2>2. CASE NewDescent(d) /\ Retried(d)'
    <3> DEFINE p == rows'[d].parent
    <3>1. p \in Id /\ Exists(p) /\ run[p].pc = "failing" /\ rows'[d].attempt = run[p].attempt + 1
      BY <2>2 DEF NewDescent, ChildOf, Retried
    <3>2. sent[p] # <<>> /\ run[p].attempt = rows[p].attempt
      BY <3>1 DEF BudgetSpent, Running
    <3>3. rows'[p].attempt = rows[p].attempt
      BY <1>2, <3>1 DEF SameDescent
    <3> HIDE DEF p
    <3> QED BY <1>1, <2>2, <3>1, <3>2, <3>3 DEF p
  <2>3. CASE NewDescent(d) /\ ~Retried(d)'
    BY <2>3 DEF NewDescent
  <2> QED BY <2>1, <2>2, <2>3, RowDescends
<1>5. ASSUME NEW d \in Id, Running(d)'
      PROVE  run'[d].attempt = rows'[d].attempt
  <2>1. CASE StartJob(d)
    <3>1. run'[d].attempt = rows[d].attempt /\ UNCHANGED rows
      BY <2>1 DEF StartJob, IndInv, TypeOK, WorkerOK
    <3> QED BY <3>1
  <2>2. CASE ~StartJob(d)
    <3>1. Running(d) /\ run'[d].attempt = run[d].attempt
      BY <1>5, <2>2, RunKeepsTask DEF SameTask
    <3> QED BY <1>2, <1>3, <3>1 DEF SameDescent
  <2> QED BY <2>1, <2>2
<1>6. ASSUME NEW d \in Id, run'[d].pc \notin {"idle", "lock"}
      PROVE  sent'[d] # <<>>
  BY <1>1, <1>6, PastLock DEF BudgetSpent
<1>7. ASSUME NEW d \in Id, rows'[d].state \in GivenUp
      PROVE  sent'[d] # <<>> /\ rows'[d].attempt >= MaxAttempts
  <2>1. CASE rows[d].state \in GivenUp
    <3>1. Exists(d)
      BY <2>1 DEF Exists, GivenUp
    <3> QED BY <1>1, <1>2, <2>1, <3>1 DEF BudgetSpent, SameDescent
  <2>2. CASE run[d].pc = "failing" /\ Exhausted(d)
    <3>1. Running(d)
      BY <2>2 DEF Running
    <3>2. rows'[d].attempt = run[d].attempt
      BY <1>2, <1>3, <3>1 DEF SameDescent
    <3>3. sent[d] # <<>>
      BY <2>2 DEF BudgetSpent
    <3> QED BY <1>1, <2>2, <3>2, <3>3 DEF Exhausted, RetriesExhausted
  <2> QED BY <1>7, <2>1, <2>2, GivesUp
<1> QED BY <1>4, <1>5, <1>6, <1>7 DEF BudgetSpent, Exists, Running

(* A delivery of the n-th attempt had n - 1 others to its target before it *)
(* for which requests were made.                                           *)
EarlierTries(d) == {c \in Id : c < d /\ Exists(c) /\ FirstTry(c) = FirstTry(d) /\ sent[c] # <<>>}

LEMMA FiniteId == \A s \in SUBSET Id : IsFiniteSet(s) /\ Cardinality(s) \in Nat
<1>1. IsFiniteSet(Id)
  <2>1. 1 \in Int /\ MaxRows \in Int
    BY BoundsAssumption
  <2> QED BY <2>1, FS_Interval DEF Id
<1> QED BY <1>1, FS_Subset, FS_CardinalityType

LEMMA TriesCounted ==
  ASSUME RowsOK, Descent, BudgetSpent, NEW d \in Id, Exists(d)
  PROVE  Cardinality(EarlierTries(d)) + 1 >= rows[d].attempt
<1> DEFINE Bad == {c \in Id : Exists(c) /\ ~(Cardinality(EarlierTries(c)) + 1 >= rows[c].attempt)}
<1>1. SUFFICES ASSUME Bad # {}
               PROVE  FALSE
  OBVIOUS
<1>2. PICK c \in Bad : \A k \in Bad : c <= k
  <2>1. Bad \subseteq Nat
    BY DEF Id
  <2> HIDE DEF Bad
  <2> QED BY <1>1, <2>1, LeastOf
<1>3. c \in Id /\ Exists(c) /\ ~(Cardinality(EarlierTries(c)) + 1 >= rows[c].attempt)
  BY <1>2
<1>4. IsFiniteSet(EarlierTries(c)) /\ Cardinality(EarlierTries(c)) \in Nat
  BY FiniteId DEF EarlierTries
<1>5. CASE ~Retried(c)
  <2>1. rows[c].attempt = 1
    BY <1>3, <1>5 DEF BudgetSpent
  <2> QED BY <1>3, <1>4, <2>1
<1>6. CASE Retried(c)
  <2> DEFINE p == rows[c].parent
  <2>1. p \in Id /\ p < c /\ Exists(p)
    BY <1>3, <1>6 DEF Descent, Retried
  <2>2. rows[c].attempt = rows[p].attempt + 1 /\ sent[p] # <<>> /\ rows[p].attempt \in Nat
    BY <1>3, <1>6, <2>1, BoundsAssumption DEF BudgetSpent, RowsOK, Row
  <2>3. FirstTry(c) = FirstTry(p)
    BY <1>3, <1>6, FirstTryRule
  <2>4. Cardinality(EarlierTries(p)) + 1 >= rows[p].attempt
    <3>1. ~(c <= p)
      BY <1>3, <2>1 DEF Id
    <3>2. p \notin Bad
      BY <1>2, <3>1
    <3> QED BY <2>1, <3>2
  <2> HIDE DEF p
  <2>5. EarlierTries(p) \cup {p} \subseteq EarlierTries(c) /\ p \notin EarlierTries(p)
    BY <1>3, <2>1, <2>2, <2>3 DEF EarlierTries, Id
  <2>6. IsFiniteSet(EarlierTries(p)) /\ Cardinality(EarlierTries(p)) \in Nat
    BY FiniteId DEF EarlierTries
  <2>7. Cardinality(EarlierTries(p) \cup {p}) = Cardinality(EarlierTries(p)) + 1
    BY <2>5, <2>6, FS_AddElement
  <2>8. Cardinality(EarlierTries(p) \cup {p}) <= Cardinality(EarlierTries(c))
    BY <1>4, <2>5, FS_Subset
  <2> QED BY <1>3, <1>4, <2>2, <2>4, <2>6, <2>7, <2>8
<1> QED BY <1>5, <1>6

(* What RequestsMade adds up is at least the number of its rows with a     *)
(* request.                                                                *)
LEMMA RequestsCounted ==
  ASSUME TypeOK, NEW d \in Id, NEW T, T \subseteq {c \in Id : Exists(c) /\ FirstTry(c) = FirstTry(d)},
         \A c \in T : sent[c] # <<>>
  PROVE  RequestsMade(d) \in Nat /\ RequestsMade(d) >= Cardinality(T)
<1> DEFINE S == {c \in Id : Exists(c) /\ FirstTry(c) = FirstTry(d)}
           f == [c \in S |-> Len(sent[c])]
           it == CHOOSE g : g = [s \in SUBSET S |->
                   IF s = {} THEN 0
                   ELSE Len(sent[CHOOSE x \in s : TRUE]) + g[s \ {CHOOSE x \in s : TRUE}]]
<1>1. sent \in [Id -> Seq(Request)]
  BY DEF TypeOK, HistoryOK
<1>2. IsFiniteSet(S) /\ S \subseteq Id
  BY FiniteId
<1>3. (\A x \in S : f[x] \in Nat) /\ \A x \in T : f[x] > 0
  <2>1. \A x \in S : sent[x] \in Seq(Request) /\ f[x] = Len(sent[x])
    BY <1>1
  <2>2. \A x \in T : x \in S
    OBVIOUS
  <2> HIDE DEF S, f
  <2> QED BY <2>1, <2>2
<1>4. RequestsMade(d) = it[S]
  BY Zenon DEF RequestsMade, MapThenSumSet, MapThenFoldSet
<1> HIDE DEF S
<1>5. \A s \in SUBSET S : s # {} => Len(sent[OneOf(s)]) = f[OneOf(s)]
  BY DEF OneOf
<1> HIDE DEF f
<1>6. \A g : g = [s \in SUBSET S |-> IF s = {} THEN 0
                                     ELSE Len(sent[OneOf(s)]) + g[s \ {OneOf(s)}]]
             <=> Adds(g, SUBSET S, f)
  <2>1. ASSUME NEW g
        PROVE  [s \in SUBSET S |-> IF s = {} THEN 0
                                   ELSE Len(sent[OneOf(s)]) + g[s \ {OneOf(s)}]]
               = [s \in SUBSET S |-> IF s = {} THEN 0 ELSE f[OneOf(s)] + g[s \ {OneOf(s)}]]
    <3>1. ASSUME NEW s \in SUBSET S
          PROVE  (IF s = {} THEN 0 ELSE Len(sent[OneOf(s)]) + g[s \ {OneOf(s)}])
                 = (IF s = {} THEN 0 ELSE f[OneOf(s)] + g[s \ {OneOf(s)}])
      BY <1>5
    <3> QED BY <3>1, Zenon
  <2> QED BY <2>1, Zenon DEF Adds
<1>7. Addable(SUBSET S, f)
  BY <1>2, SumExists
<1>8. Adds(it, SUBSET S, f)
  <2>1. \E g : g = [s \in SUBSET S |->
                   IF s = {} THEN 0
                   ELSE Len(sent[CHOOSE x \in s : TRUE]) + g[s \ {CHOOSE x \in s : TRUE}]]
    <3>1. PICK g : Adds(g, SUBSET S, f)
      BY <1>7 DEF Addable
    <3>2. g = [s \in SUBSET S |-> IF s = {} THEN 0
                                  ELSE Len(sent[OneOf(s)]) + g[s \ {OneOf(s)}]]
      BY <1>6, <3>1, Zenon
    <3> QED BY <3>2, Zenon DEF OneOf
  <2>2. it = [s \in SUBSET S |->
                   IF s = {} THEN 0
                   ELSE Len(sent[CHOOSE x \in s : TRUE]) + it[s \ {CHOOSE x \in s : TRUE}]]
    BY <2>1, Zenon
  <2> HIDE DEF it
  <2>3. it = [s \in SUBSET S |-> IF s = {} THEN 0
                                 ELSE Len(sent[OneOf(s)]) + it[s \ {OneOf(s)}]]
    BY <2>2, Zenon DEF OneOf
  <2> QED BY <1>6, <2>3, Zenon
<1> HIDE DEF it
<1>9. T \subseteq S
  BY DEF S
<1>10. it[S] \in Nat /\ it[S] >= Cardinality(T)
  BY <1>2, <1>3, <1>8, <1>9, SumIsNat
<1> QED BY <1>4, <1>10

(* A target is given up, by a dead letter or a failover, only after as     *)
(* many requests as the retry budget allows: whatever crashes, throws or   *)
(* is asked for by hand in between.                                        *)
THEOREM GivenUpAfterBudgetHolds == Spec => []GivenUpAfterBudget
<1>1. Init => Descent /\ BudgetSpent
  <2>1. Init => \A d \in Id : /\ rows[d].state = "none" /\ rows[d].kind = "forward"
                             /\ run[d].pc = "idle"
    <3>1. Unused.state = "none" /\ Unused.kind = "forward" /\ Idle.pc = "idle"
      BY DEF Unused, NewRow, Idle
    <3> QED BY <3>1 DEF Init
  <2>2. Init => Descent
    BY <2>1 DEF Descent, Retried, Exists
  <2>3. Init => BudgetSpent
    BY <2>1 DEF BudgetSpent, Running, Exists, GivenUp
  <2> QED BY <2>2, <2>3
<1>2. IndInv /\ Descent /\ BudgetSpent /\ [Next]_vars => Descent' /\ BudgetSpent'
  BY DescentKept, BudgetSpentKept
<1>3. IndInv /\ Descent /\ BudgetSpent => GivenUpAfterBudget
  <2> SUFFICES ASSUME IndInv, Descent, BudgetSpent, NEW d \in Id, rows[d].state \in GivenUp
               PROVE  RequestsMade(d) >= MaxAttempts
    BY DEF GivenUpAfterBudget, GivenUp
  <2>1. TypeOK /\ RowsOK /\ Exists(d)
    BY DEF IndInv, TypeOK, Exists, GivenUp
  <2>2. rows[d].attempt >= MaxAttempts /\ sent[d] # <<>> /\ rows[d].attempt \in Nat
    BY <2>1, BoundsAssumption DEF BudgetSpent, RowsOK, Row
  <2> DEFINE T == EarlierTries(d) \cup {d}
  <2>3. IsFiniteSet(EarlierTries(d)) /\ Cardinality(EarlierTries(d)) \in Nat
    BY FiniteId DEF EarlierTries
  <2>4. d \notin EarlierTries(d)
    BY DEF EarlierTries, Id
  <2>5. Cardinality(T) = Cardinality(EarlierTries(d)) + 1
    BY <2>3, <2>4, FS_AddElement
  <2>6. Cardinality(T) >= MaxAttempts
    <3>1. Cardinality(EarlierTries(d)) + 1 >= rows[d].attempt
      BY <2>1, TriesCounted
    <3> QED BY <2>2, <2>3, <2>5, <3>1, BoundsAssumption
  <2>7. /\ T \subseteq {c \in Id : Exists(c) /\ FirstTry(c) = FirstTry(d)}
        /\ \A c \in T : sent[c] # <<>>
    BY <2>1, <2>2 DEF EarlierTries
  <2> HIDE DEF T
  <2>8. RequestsMade(d) \in Nat /\ RequestsMade(d) >= Cardinality(T)
    BY <2>1, <2>7, RequestsCounted
  <2> QED BY <2>2, <2>3, <2>5, <2>6, <2>8, BoundsAssumption
<1> QED BY <1>1, <1>2, <1>3, Invariance, PTL DEF Spec

-----------------------------------------------------------------------------
(* What the reruns of BullMQ and the scheduler carry.                       *)

(* The route stays in Protect mode, no call throws, and the worker dies no *)
(* more often than BullMQ reruns a job.                                    *)
Quiet == endpoint.protect /\ spent.faults = 0 /\ spent.crashes <= MaxStalls

(* A job is found stalled at most once for each crash; a row that waits or *)
(* is being delivered has a run that has not gone past that, or none.      *)
Carries(d) ==
  /\ stalls[d] <= spent.crashes
  /\ Orphaned(d) => stalls[d] < spent.crashes
  /\ rows[d].state = "queued" => jobs[d] # "completed" /\ run[d].pc \in {"idle", "lock"}
  /\ rows[d].state = "delivering" =>
       /\ jobs[d] \in {"waiting", "active"}
       /\ run[d].pc \in {"idle", "lock", "request", "accepted", "failing"}

LEMMA CarriesFacts ==
  ASSUME IndInv, NEW d \in Id
  PROVE  /\ jobs \in [Id -> JobStates] /\ stalls \in [Id -> Nat] /\ run \in [Id -> Run]
         /\ rows \in [Id -> Row] /\ spent.crashes \in Nat
         /\ Running(d) => jobs[d] = "active"
         /\ jobs[d] # "none" => Exists(d)
BY BoundsAssumption DEF IndInv, TypeOK, QueueOK, WorkerOK, RowsOK, HistoryOK, References, JobStates

LEMMA SameCarries ==
  ASSUME NEW d \in Id, Carries(d), stalls'[d] = stalls[d], jobs'[d] = jobs[d],
         run'[d].pc = run[d].pc, rows'[d].state = rows[d].state, spent'.crashes = spent.crashes
  PROVE  Carries(d)'
BY DEF Carries, Orphaned, Running

LEMMA JobAdded ==
  ASSUME IndInv, NEW d \in Id, Carries(d), NEW c, NEW s \in {"waiting", "delayed"},
         AddJob(c, s), UNCHANGED stalls, run'[d].pc = run[d].pc, UNCHANGED rows,
         spent'.crashes = spent.crashes
  PROVE  Carries(d)'
<1>1. jobs'[d] = jobs[d] \/ (jobs[d] = "none" /\ jobs'[d] = s)
  BY CarriesFacts DEF AddJob
<1> QED BY <1>1 DEF Carries, Orphaned, Running

(* A step of a run that leaves the row alone.                              *)
LEMMA RunMoved ==
  ASSUME IndInv, NEW d \in Id, Carries(d), NEW c \in Id, NEW pc, NEW x,
         run' = [run EXCEPT ![c] = x], x.pc = pc, pc # "idle", run[c].pc # "idle",
         \/ run[c].pc \in {"request", "accepted", "failing"}
            /\ pc \in {"request", "accepted", "failing"}
         \/ run[c].pc \notin {"idle", "lock", "request", "accepted", "failing"},
         rows' = rows, jobs' = jobs, stalls' = stalls, spent'.crashes = spent.crashes
  PROVE  Carries(d)'
<1>1. run'[d] = run[d] \/ (c = d /\ run'[d].pc = pc)
  BY CarriesFacts
<1> QED BY <1>1 DEF Carries, Orphaned, Running

LEMMA CarriesKept ==
  ASSUME IndInv, Quiet, Quiet', [Next]_vars, NEW d \in Id, Carries(d)
  PROVE  Carries(d)'
<1>0. /\ jobs \in [Id -> JobStates] /\ stalls \in [Id -> Nat] /\ run \in [Id -> Run]
      /\ rows \in [Id -> Row] /\ spent.crashes \in Nat
      /\ Running(d) => jobs[d] = "active"
      /\ jobs[d] # "none" => Exists(d)
  BY CarriesFacts
<1>00. /\ spent \in [crashes : 0 .. MaxCrashes, faults : 0 .. MaxFaults,
                     patches : 0 .. MaxPatches, evictions : 0 .. MaxEvictions]
       /\ spent.faults = 0 /\ spent'.faults = 0
  BY DEF IndInv, TypeOK, HistoryOK, Quiet
<1>1. \A c \in Id : ~Fault(c)
  BY <1>00 DEF Fault, SuccessPathThrows, JobThrows, ReadThrows, Spend
<1>2. ASSUME NEW c \in Id, StartJob(c)
      PROVE  Carries(d)'
  <2>1. CASE c = d
    <3>1. run'[d].pc = "lock" /\ jobs'[d] = "active" /\ UNCHANGED <<rows, stalls, spent>>
      BY <1>0, <1>2, <2>1 DEF StartJob
    <3> QED BY <3>1 DEF Carries, Orphaned, Running
  <2>2. CASE c # d
    <3>1. run'[d] = run[d] /\ jobs'[d] = jobs[d] /\ UNCHANGED <<rows, stalls, spent>>
      BY <1>0, <1>2, <2>2 DEF StartJob
    <3> QED BY <3>1, SameCarries
  <2> QED BY <2>1, <2>2
<1>3. ASSUME NEW c \in Id, SkipJob(c)
      PROVE  Carries(d)'
  <2>1. CASE c = d
    <3>1. jobs'[d] = "completed" /\ UNCHANGED <<rows, stalls, spent, run>>
      BY <1>0, <1>3, <2>1 DEF SkipJob, worker
    <3>2. rows[d].state \notin {"queued", "delivering"}
      BY <1>3, <2>1 DEF SkipJob, Skipped, Startable, Quiet
    <3> QED BY <3>1, <3>2 DEF Carries, Orphaned, Running
  <2>2. CASE c # d
    <3>1. run'[d] = run[d] /\ jobs'[d] = jobs[d] /\ UNCHANGED <<rows, stalls, spent>>
      BY <1>0, <1>3, <2>2 DEF SkipJob, worker
    <3> QED BY <3>1, SameCarries
  <2> QED BY <2>1, <2>2
<1>4. ASSUME NEW c \in Id, Deliver(c)
      PROVE  Carries(d)'
  <2>1. UNCHANGED <<jobs, stalls, spent>>
    BY <1>4 DEF Deliver, queue
  <2>2. CASE c = d
    <3>1. run' = [run EXCEPT ![d] = [run[d] EXCEPT !.pc = "request"]]
          /\ rows' = [rows EXCEPT ![d] = [rows[d] EXCEPT !.state = "delivering"]]
      BY <1>0, <1>4, <2>2 DEF Deliver, Goto, SetState
    <3>2. run'[d].pc = "request" /\ rows'[d].state = "delivering"
      BY <1>0, <3>1 DEF Run, Row
    <3>3. Running(d)
      BY <1>4, <2>2 DEF Deliver, Running
    <3> QED BY <1>0, <2>1, <3>2, <3>3 DEF Carries, Orphaned, Running
  <2>3. CASE c # d
    <3>1. run'[d] = run[d] /\ rows'[d] = rows[d]
      BY <1>0, <1>4, <2>3 DEF Deliver, Goto, SetState
    <3> QED BY <2>1, <3>1, SameCarries
  <2> QED BY <2>2, <2>3
<1>5. ASSUME NEW c \in Id, RecordSuccess(c) \/ RecordDeadLetter(c)
      PROVE  Carries(d)'
  <2>1. UNCHANGED <<jobs, stalls, spent>> /\ Running(c)
    BY <1>5 DEF RecordSuccess, RecordDeadLetter, queue, Running
  <2>2. PICK pc \in {"recover", "readOpen"}, s \in {"succeeded", "dead_letter"} :
          run' = [run EXCEPT ![c].pc = pc] /\ rows' = [rows EXCEPT ![c].state = s]
    BY <1>5 DEF RecordSuccess, RecordDeadLetter, Goto, SetState
  <2>3. CASE c = d
    <3>1. run'[d].pc = pc /\ rows'[d].state = s
      BY <1>0, <2>2, <2>3 DEF Run, Row
    <3> QED BY <1>0, <2>1, <2>3, <3>1 DEF Carries, Orphaned, Running
  <2>4. CASE c # d
    <3>1. run'[d] = run[d] /\ rows'[d] = rows[d]
      BY <1>0, <2>2, <2>4
    <3> QED BY <2>1, <3>1, SameCarries
  <2> QED BY <2>3, <2>4
<1>6. ASSUME NEW c \in Id, RecordRetry(c) \/ RecordFailover(c)
      PROVE  Carries(d)'
  <2>1. UNCHANGED <<jobs, stalls, spent>> /\ Running(c)
    BY <1>6 DEF RecordRetry, RecordFailover, queue, Running
  <2>2. PICK s, x :
          /\ s \in {"retrying", "failed"} /\ x.state = "queued" /\ nextId <= MaxRows
          /\ rows' = [rows EXCEPT ![c].state = s, ![nextId] = x]
          /\ run' = [run EXCEPT ![c].pc = "enqueue", ![c].child = nextId]
    <3>1. CASE RecordRetry(c)
      <4>1. Replace(c, "retrying",
                    NewRow(rows[c].event, "retry", run[c].attempt + 1, rows[c].dest,
                           rows[c].index, rows[c].key, c, FALSE))
        BY <3>1 DEF RecordRetry
      <4>2. PICK x : x.state = "queued" /\ Replace(c, "retrying", x)
        BY <4>1 DEF NewRow
      <4> QED BY <4>2 DEF Replace
    <3>2. CASE RecordFailover(c)
      <4>1. PICK x : x.state = "queued" /\ Replace(c, "failed", x)
        BY <3>2 DEF RecordFailover, NewRow
      <4> QED BY <4>1 DEF Replace
    <3> QED BY <1>6, <3>1, <3>2
  <2>3. nextId \in Id /\ ~Exists(nextId)
    BY <2>2, BoundsAssumption DEF IndInv, TypeOK, RowsOK, Id
  <2>4. c # nextId
    BY <2>1, <2>3, RunningRows
  <2>5. CASE d = c
    <3>1. run' = [run EXCEPT ![d] = [run[d] EXCEPT !.pc = "enqueue", !.child = nextId]]
      BY <1>0, <2>2, <2>5
    <3>2. run'[d].pc = "enqueue" /\ rows'[d].state = s
      BY <1>0, <2>2, <2>4, <2>5, <3>1 DEF Run, Row
    <3> QED BY <1>0, <2>1, <2>2, <2>5, <3>2 DEF Carries, Orphaned, Running
  <2>6. CASE d = nextId
    <3>1. rows'[d] = x /\ run'[d] = run[d] /\ jobs[d] = "none" /\ ~Running(d)
      BY <1>0, <2>2, <2>3, <2>4, <2>6
    <3> QED BY <2>1, <2>2, <3>1 DEF Carries, Orphaned, Running
  <2>7. CASE d # c /\ d # nextId
    <3>1. rows'[d] = rows[d] /\ run'[d] = run[d]
      BY <1>0, <2>2, <2>7
    <3> QED BY <2>1, <3>1, SameCarries
  <2> QED BY <2>5, <2>6, <2>7
<1>7. ASSUME NEW c \in Id,
             RequestSucceeds(c) \/ RequestFails(c) \/ Recover(c) \/ WriteOpen(c) \/ ReadOpen(c)
      PROVE  Carries(d)'
  <2>1. UNCHANGED <<rows, jobs, stalls, spent>>
    BY <1>7 DEF RequestSucceeds, RequestFails, Recover, WriteOpen, ReadOpen, queue
  <2>2. CASE RequestSucceeds(c) \/ RequestFails(c)
    <3>1. \E pc \in {"accepted", "failing"} :
            run' = [run EXCEPT ![c] = [run[c] EXCEPT !.pc = pc]]
      BY <1>0, <2>2 DEF RequestSucceeds, RequestFails, Goto
    <3>2. run[c].pc = "request" /\ \A pc : [run[c] EXCEPT !.pc = pc].pc = pc
      BY <1>0, <2>2 DEF RequestSucceeds, RequestFails, Run
    <3> QED BY <2>1, <3>1, <3>2, RunMoved
  <2>3. CASE Recover(c) \/ WriteOpen(c)
    <3>1. \E pc \in {"published", "report"} :
            run' = [run EXCEPT ![c] = [run[c] EXCEPT !.pc = pc]]
      BY <1>0, <2>3 DEF Recover, WriteOpen, Goto
    <3>2. run[c].pc \in {"recover", "writeOpen"} /\ \A pc : [run[c] EXCEPT !.pc = pc].pc = pc
      BY <1>0, <2>3 DEF Recover, WriteOpen, Run
    <3> QED BY <2>1, <3>1, <3>2, RunMoved
  <2>4. CASE ReadOpen(c)
    <3>1. run' = [run EXCEPT ![c] = [run[c] EXCEPT !.pc = "writeOpen", !.saw = open > 0]]
      BY <1>0, <2>4 DEF ReadOpen
    <3>2. /\ run[c].pc = "readOpen"
          /\ [run[c] EXCEPT !.pc = "writeOpen", !.saw = open > 0].pc = "writeOpen"
      BY <1>0, <2>4 DEF ReadOpen, Run
    <3> QED BY <2>1, <3>1, <3>2, RunMoved
  <2> QED BY <1>7, <2>2, <2>3, <2>4
<1>8. ASSUME NEW c \in Id, Enqueue(c)
      PROVE  Carries(d)'
  <2>1. UNCHANGED <<rows, stalls, spent>> /\ run' = [run EXCEPT ![c].pc = "readOpen"]
    BY <1>8 DEF Enqueue, Goto
  <2>2. \E b, s : s \in {"waiting", "delayed"} /\ AddJob(b, s)
    BY <1>8 DEF Enqueue
  <2>3. jobs'[d] = jobs[d] \/ (jobs[d] = "none" /\ jobs'[d] \in {"waiting", "delayed"})
    BY <1>0, <2>2 DEF AddJob
  <2>4. run[c].pc = "enqueue"
    BY <1>8 DEF Enqueue
  <2>5. run'[d].pc = run[d].pc \/ (run[d].pc = "enqueue" /\ run'[d].pc = "readOpen")
    BY <1>0, <2>1, <2>4 DEF Run
  <2> QED BY <2>1, <2>3, <2>5 DEF Carries, Orphaned, Running
<1>9. ASSUME NEW c \in Id, FinishJob(c)
      PROVE  Carries(d)'
  <2>1. /\ UNCHANGED <<rows, stalls, spent>> /\ run[c].pc \in {"published", "report"}
        /\ run' = [run EXCEPT ![c] = Idle] /\ jobs' = [jobs EXCEPT ![c] = "completed"]
    BY <1>9 DEF FinishJob, EndJob
  <2>2. CASE c = d
    BY <1>0, <2>1, <2>2 DEF Carries, Orphaned, Running, Idle
  <2>3. CASE c # d
    <3>1. run'[d] = run[d] /\ jobs'[d] = jobs[d]
      BY <1>0, <2>1, <2>3
    <3> QED BY <2>1, <3>1, SameCarries
  <2> QED BY <2>2, <2>3
<1>10. ASSUME NEW c \in Id, Stall(c)
       PROVE  Carries(d)'
  <2>1. CASE c = d
    <3>1. /\ jobs'[d] = "waiting" /\ stalls'[d] = stalls[d] + 1
          /\ stalls[d] < spent.crashes /\ UNCHANGED <<rows, spent, run>>
      BY <1>0, <1>10, <2>1 DEF Stall, Carries, worker
    <3> QED BY <1>0, <3>1 DEF Carries, Orphaned, Running
  <2>2. CASE c # d
    <3>1. /\ jobs'[d] = jobs[d] /\ stalls'[d] = stalls[d] /\ UNCHANGED <<rows, spent, run>>
      BY <1>0, <1>10, <2>2 DEF Stall, worker
    <3> QED BY <3>1, SameCarries
  <2> QED BY <2>1, <2>2
<1>11. ASSUME NEW c \in Id \ {d}, StallFails(c)
       PROVE  Carries(d)'
  <2>1. jobs'[d] = jobs[d] /\ stalls'[d] = stalls[d] /\ UNCHANGED <<spent, run>>
    BY <1>0, <1>11 DEF StallFails, worker
  <2>2. rows'[d] = rows[d]
    BY <1>0, <1>11 DEF StallFails, FailedHandler, SetState
  <2> QED BY <2>1, <2>2, SameCarries
<1>12. ~StallFails(d)
  BY <1>0, BoundsAssumption DEF StallFails, Carries, Quiet
<1>13. ASSUME NEW c \in Id, PromoteDelayed(c) \/ EvictCompleted(c) \/ BackoffElapses(c)
       PROVE  Carries(d)'
  <2>1. CASE PromoteDelayed(c)
    <3>1. /\ UNCHANGED <<rows, stalls, spent, run>>
          /\ jobs'[d] = jobs[d] \/ (jobs[d] = "delayed" /\ jobs'[d] = "waiting")
      BY <1>0, <2>1 DEF PromoteDelayed, worker
    <3> QED BY <3>1 DEF Carries, Orphaned, Running
  <2>2. CASE EvictCompleted(c)
    <3>1. UNCHANGED <<rows, run>> /\ spent'.crashes = spent.crashes
      BY <1>00, <2>2 DEF EvictCompleted, Spend, worker
    <3>2. CASE c = d
      <4>1. jobs[d] = "completed" /\ jobs'[d] = "none" /\ stalls'[d] = 0
        BY <1>0, <2>2, <3>2 DEF EvictCompleted
      <4> QED BY <1>0, <3>1, <4>1 DEF Carries, Orphaned, Running
    <3>3. CASE c # d
      <4>1. jobs'[d] = jobs[d] /\ stalls'[d] = stalls[d]
        BY <1>0, <2>2, <3>3 DEF EvictCompleted
      <4> QED BY <3>1, <4>1, SameCarries
    <3> QED BY <3>2, <3>3
  <2>3. CASE BackoffElapses(c)
    <3>1. UNCHANGED <<jobs, stalls, spent, run>> /\ rows'[d].state = rows[d].state
      BY <1>0, <2>3 DEF BackoffElapses, worker, queue, Row
    <3> QED BY <3>1, SameCarries
  <2> QED BY <1>13, <2>1, <2>2, <2>3
<1>14. CASE WorkerCrash
  <2>1. /\ UNCHANGED <<rows, jobs, stalls>> /\ spent'.crashes = spent.crashes + 1
        /\ run'[d] = Idle
    BY <1>00, <1>14 DEF WorkerCrash, Spend, queue
  <2> QED BY <1>0, <2>1 DEF Carries, Orphaned, Running, Idle
<1>15. ASSUME NEW r \in Requests, IngestInsert(r)
       PROVE  Carries(d)'
  <2>1. UNCHANGED <<jobs, stalls, run, spent>>
    BY <1>15 DEF IngestInsert, queue, worker
  <2>2. CASE rows'[d] = rows[d]
    BY <2>1, <2>2, SameCarries
  <2>3. CASE rows'[d] # rows[d]
    <3>1. PICK i \in Chosen(ing[r].policy) : d = nextId + Rank(ing[r].policy, i)
      BY <1>15, <2>3 DEF IngestInsert
    <3>2. rows'[d].state = "queued"
      BY <1>15, <2>3 DEF IngestInsert, NewRow
    <3>3. Rank(ing[r].policy, i) \in Nat
      BY ChosenTargets DEF IndInv, TypeOK, IngestorOK
    <3>4. ~Exists(d)
      BY <3>1, <3>3 DEF IndInv, TypeOK, RowsOK
    <3> QED BY <1>0, <2>1, <3>2, <3>4 DEF Carries, Orphaned, Running
  <2> QED BY <2>2, <2>3
<1>16. ASSUME NEW m \in Manuals, ManualInsert(m)
       PROVE  Carries(d)'
  <2>1. UNCHANGED <<jobs, stalls, run, spent>>
    BY <1>16 DEF ManualInsert, queue, worker
  <2>2. nextId \in Id /\ ~Exists(nextId)
    BY <1>16, BoundsAssumption DEF ManualInsert, IndInv, TypeOK, RowsOK, Id
  <2>3. PICK x : x.state = "queued" /\ rows' = [rows EXCEPT ![nextId] = x]
    BY <1>16 DEF ManualInsert, NewRow
  <2>4. CASE d = nextId
    <3>1. rows'[d].state = "queued"
      BY <1>0, <2>3, <2>4
    <3> QED BY <1>0, <2>1, <2>2, <2>4, <3>1 DEF Carries, Orphaned, Running
  <2>5. CASE d # nextId
    <3>1. rows'[d] = rows[d]
      BY <1>0, <2>3, <2>5
    <3> QED BY <2>1, <3>1, SameCarries
  <2> QED BY <2>4, <2>5
<1>17. ASSUME \/ \E r \in Requests : \E c \in Id : IngestEnqueue(r, c)
              \/ \E c \in Id : ScheduleAdd(c)
              \/ \E m \in Manuals : ManualEnqueue(m)
       PROVE  Carries(d)'
  <2>1. UNCHANGED <<rows, stalls, run, spent>>
    BY <1>17 DEF IngestEnqueue, ScheduleAdd, ManualEnqueue, worker
  <2>2. \E b : AddJob(b, "waiting")
    BY <1>17 DEF IngestEnqueue, ScheduleAdd, ManualEnqueue
  <2> QED BY <2>1, <2>2, JobAdded
<1>18. ASSUME \/ \E r \in Requests : IngestCheck(r) \/ IngestReply(r) \/ IngestDies(r)
              \/ ScheduleRead \/ PatchEndpoint
              \/ \E m \in Manuals :
                   \/ ManualDies(m)
                   \/ \E c \in Id, kind \in {"retry", "replay"} : ManualCheck(m, c, kind)
              \/ UNCHANGED vars
       PROVE  Carries(d)'
  <2>1. UNCHANGED <<rows, jobs, stalls, run>>
    BY <1>18 DEF IngestCheck, IngestReply, IngestDies, ScheduleRead, PatchEndpoint, ManualDies,
       ManualCheck, vars, queue, worker
  <2>2. UNCHANGED spent \/ \E what \in {"faults", "patches"} : Spend(what)
    BY <1>18 DEF IngestCheck, IngestReply, IngestDies, ScheduleRead, PatchEndpoint, ManualDies,
       ManualCheck, vars
  <2>3. spent'.crashes = spent.crashes
    BY <1>00, <2>2 DEF Spend
  <2> QED BY <2>1, <2>3, SameCarries
<1> QED BY <1>1, <1>2, <1>3, <1>4, <1>5, <1>6, <1>7, <1>8, <1>9, <1>10, <1>11, <1>12, <1>13, <1>14,
           <1>15, <1>16, <1>17, <1>18
        DEF Next, Ingestor, WorkerStep, QueueStep, SchedulerStep, Operator

(* While the route stays in Protect mode, nothing throws and the worker    *)
(* dies no more often than BullMQ reruns a job, no delivery is left behind:*)
(* whatever else the operator patches, and however crashes, reruns, the    *)
(* scheduler and the eviction of completed jobs interleave.                *)
THEOREM CarriedHolds == Spec /\ []Quiet => []Carried
<1> DEFINE AllCarried == \A d \in Id : Carries(d)
<1>1. Init => AllCarried
  <2>1. Unused.state = "none" /\ Idle.pc = "idle"
    BY DEF Unused, NewRow, Idle
  <2> QED BY <2>1 DEF Init, Carries, Orphaned, Running
<1>2. IndInv /\ AllCarried /\ Quiet /\ Quiet' /\ [Next]_vars => AllCarried'
  BY CarriesKept
<1>3. IndInv /\ AllCarried /\ Quiet => Carried
  <2> SUFFICES ASSUME IndInv, Quiet, NEW d \in Id, Carries(d)
               PROVE  /\ rows[d].state = "queued" => jobs[d] # "completed"
                      /\ rows[d].state = "delivering" =>
                           \/ Running(d)
                           \/ jobs[d] = "waiting"
                           \/ jobs[d] = "active" /\ stalls[d] < MaxStalls
    BY DEF Carried
  <2> QED BY CarriesFacts, BoundsAssumption DEF Carries, Orphaned, Quiet
<1> QED BY <1>1, <1>2, <1>3, Invariance, PTL DEF Spec

-----------------------------------------------------------------------------
(* The promise of DeliveryOutcome.                                         *)

(* No process crashes, no call throws, the provider sends each event once  *)
(* and the operator requests nothing.  He may patch the endpoint.          *)
Undisturbed == NoFault /\ MaxCrashes = 0 /\ Tries <= 1 /\ Manuals = {}

(* A row that was replaced by its retry has no job that will run again,    *)
(* and an event that no request has recorded has no rows.                  *)
HandedOver(d) ==
  rows[d].state = "retrying" =>
    /\ jobs[d] \in {"active", "completed", "none"} /\ run[d].pc # "lock"
    /\ jobs[d] = "none" => ~AboutToAdd(d)
Unrecorded ==
  \A r \in Requests : ing[r].pc \in {"new", "checked"}
                      => \A d \in Id : Exists(d) => rows[d].event # r[1]
PromiseInv ==
  /\ RunsMatchRows /\ OnRecord /\ Unrecorded
  /\ \A d \in Id : ~Orphaned(d) /\ HandedOver(d)

(* A request adds the job of a row only while the row is listed there.     *)
LEMMA OnlyListedAdded ==
  ASSUME IndInv, Undisturbed, [Next]_vars, NEW d \in Id, jobs[d] = "none", ~AboutToAdd(d)
  PROVE  jobs'[d] = "none"
<1>0. jobs \in [Id -> JobStates] /\ spent.faults = 0
  BY DEF IndInv, TypeOK, QueueOK, HistoryOK, Undisturbed, NoFault, JobStates
<1>1. ASSUME NEW c, c # d, NEW s, AddJob(c, s)
      PROVE  jobs'[d] = "none"
  BY <1>0, <1>1 DEF AddJob
<1>2. ASSUME NEW r \in Requests, NEW c \in Id, IngestEnqueue(r, c)
      PROVE  jobs'[d] = "none"
  BY <1>1, <1>2 DEF IngestEnqueue, AboutToAdd
<1>3. ASSUME NEW c \in Id, ScheduleAdd(c)
      PROVE  jobs'[d] = "none"
  BY <1>1, <1>3 DEF ScheduleAdd, AboutToAdd
<1>4. ASSUME NEW c \in Id, Enqueue(c)
      PROVE  jobs'[d] = "none"
  BY <1>1, <1>4 DEF Enqueue, AboutToAdd
<1>5. ASSUME NEW c \in Id,
             \/ StartJob(c) \/ SkipJob(c) \/ Stall(c) \/ StallFails(c) \/ PromoteDelayed(c)
             \/ EvictCompleted(c)
      PROVE  jobs'[d] = "none"
  BY <1>0, <1>5 DEF StartJob, SkipJob, Stall, StallFails, PromoteDelayed, EvictCompleted, Orphaned
<1>6. ASSUME NEW c \in Id, FinishJob(c)
      PROVE  jobs'[d] = "none"
  <2>1. c # d
    BY <1>6, RunningRows DEF FinishJob, Running
  <2> QED BY <1>0, <1>6, <2>1 DEF FinishJob, EndJob
<1>7. ASSUME \/ \E r \in Requests : IngestCheck(r) \/ IngestInsert(r) \/ IngestReply(r)
             \/ \E c \in Id : \/ Deliver(c) \/ RequestSucceeds(c) \/ RequestFails(c)
                              \/ RecordSuccess(c) \/ Recover(c) \/ RecordRetry(c)
                              \/ RecordFailover(c) \/ RecordDeadLetter(c) \/ ReadOpen(c)
                              \/ WriteOpen(c) \/ BackoffElapses(c)
             \/ WorkerCrash \/ ScheduleRead \/ PatchEndpoint \/ UNCHANGED vars
      PROVE  jobs'[d] = "none"
  <2>1. UNCHANGED jobs
    BY <1>7 DEF IngestCheck, IngestInsert, IngestReply, Deliver, RequestSucceeds, RequestFails,
       RecordSuccess, Recover, RecordRetry, RecordFailover, RecordDeadLetter, ReadOpen,
       WriteOpen, BackoffElapses, WorkerCrash, ScheduleRead, PatchEndpoint, vars, queue
  <2> QED BY <2>1
<1>8. /\ \A c \in Id : ~Fault(c)
      /\ \A r \in Requests : ~IngestDies(r)
      /\ Manuals = {}
  BY <1>0 DEF Fault, SuccessPathThrows, JobThrows, ReadThrows, IngestDies, Undisturbed, NoFault
<1> QED BY <1>2, <1>3, <1>4, <1>5, <1>6, <1>7, <1>8
    DEF Next, Ingestor, WorkerStep, QueueStep, SchedulerStep, Operator

LEMMA NothingDies ==
  ASSUME IndInv, Undisturbed
  PROVE  /\ \A d \in Id : ~Fault(d)
         /\ \A r \in Requests : ~IngestDies(r)
         /\ ~WorkerCrash /\ Manuals = {}
<1>1. spent.faults = 0 /\ spent.crashes = 0 /\ MaxFaults = 0 /\ MaxCrashes = 0
  BY DEF IndInv, TypeOK, HistoryOK, Undisturbed, NoFault
<1> QED BY <1>1 DEF Fault, SuccessPathThrows, JobThrows, ReadThrows, IngestDies, WorkerCrash,
           Undisturbed

(* How the job of a row moves on.                                          *)
LEMMA JobMoves ==
  ASSUME IndInv, Undisturbed, [Next]_vars, NEW d \in Id, ~Orphaned(d)
  PROVE  \/ jobs'[d] = jobs[d]
         \/ jobs[d] = "none" /\ jobs'[d] \in {"waiting", "delayed"}
         \/ jobs[d] = "delayed" /\ jobs'[d] = "waiting"
         \/ jobs[d] = "waiting" /\ jobs'[d] = "completed"
         \/ StartJob(d) \/ FinishJob(d) \/ EvictCompleted(d)
<1> DEFINE Goal ==
         \/ jobs'[d] = jobs[d]
         \/ jobs[d] = "none" /\ jobs'[d] \in {"waiting", "delayed"}
         \/ jobs[d] = "delayed" /\ jobs'[d] = "waiting"
         \/ jobs[d] = "waiting" /\ jobs'[d] = "completed"
         \/ StartJob(d) \/ FinishJob(d) \/ EvictCompleted(d)
<1>0. jobs \in [Id -> JobStates]
  BY DEF IndInv, TypeOK, QueueOK, JobStates
<1>1. ASSUME NEW c, NEW s \in {"waiting", "delayed"}, AddJob(c, s)
      PROVE  Goal
  BY <1>0, <1>1 DEF AddJob
<1>2. ASSUME \/ \E r \in Requests : \E c \in Id : IngestEnqueue(r, c)
             \/ \E c \in Id : ScheduleAdd(c) \/ Enqueue(c)
      PROVE  Goal
  <2>1. \E c, s : s \in {"waiting", "delayed"} /\ AddJob(c, s)
    BY <1>2 DEF IngestEnqueue, ScheduleAdd, Enqueue
  <2> QED BY <1>1, <2>1
<1>3. ASSUME NEW c \in Id, StartJob(c) \/ SkipJob(c) \/ PromoteDelayed(c) \/ EvictCompleted(c)
      PROVE  Goal
  BY <1>0, <1>3 DEF StartJob, SkipJob, PromoteDelayed, EvictCompleted
<1>4. ASSUME NEW c \in Id, Stall(c) \/ StallFails(c)
      PROVE  Goal
  BY <1>0, <1>4 DEF Stall, StallFails, Orphaned
<1>5. ASSUME NEW c \in Id, FinishJob(c)
      PROVE  Goal
  BY <1>0, <1>5 DEF FinishJob, EndJob
<1>6. ASSUME \/ \E r \in Requests : IngestCheck(r) \/ IngestInsert(r) \/ IngestReply(r)
             \/ \E c \in Id : \/ Deliver(c) \/ RequestSucceeds(c) \/ RequestFails(c)
                              \/ RecordSuccess(c) \/ Recover(c) \/ RecordRetry(c)
                              \/ RecordFailover(c) \/ RecordDeadLetter(c) \/ ReadOpen(c)
                              \/ WriteOpen(c) \/ BackoffElapses(c)
             \/ ScheduleRead \/ PatchEndpoint \/ UNCHANGED vars
      PROVE  Goal
  <2>1. UNCHANGED jobs
    BY <1>6 DEF IngestCheck, IngestInsert, IngestReply, Deliver, RequestSucceeds, RequestFails,
       RecordSuccess, Recover, RecordRetry, RecordFailover, RecordDeadLetter, ReadOpen,
       WriteOpen, BackoffElapses, ScheduleRead, PatchEndpoint, vars, queue
  <2> QED BY <2>1
<1> QED BY <1>2, <1>3, <1>4, <1>5, <1>6, NothingDies
    DEF Next, Ingestor, WorkerStep, QueueStep, SchedulerStep, Operator

LEMMA RunsToItsEnd ==
  ASSUME IndInv, Undisturbed, [Next]_vars, NEW d \in Id, Running(d), ~Running(d)'
  PROVE  FinishJob(d)
<1>0. run \in [Id -> Run]
  BY DEF IndInv, TypeOK, WorkerOK
<1>1. ASSUME run'[d] = run[d]
      PROVE  FALSE
  BY <1>1 DEF Running
<1>2. ASSUME NEW c \in Id,
             \/ Deliver(c) \/ RequestSucceeds(c) \/ RequestFails(c) \/ RecordSuccess(c)
             \/ RecordDeadLetter(c) \/ Recover(c) \/ Enqueue(c) \/ WriteOpen(c)
      PROVE  FALSE
  <2>1. PICK pc : run' = [run EXCEPT ![c].pc = pc] /\ pc # "idle"
    <3>1. CASE Deliver(c) \/ RequestSucceeds(c) \/ RequestFails(c)
      <4>1. \E pc \in {"request", "accepted", "failing"} : run' = [run EXCEPT ![c].pc = pc]
        BY <3>1 DEF Deliver, RequestSucceeds, RequestFails, Goto
      <4> QED BY <4>1
    <3>2. CASE RecordSuccess(c) \/ RecordDeadLetter(c) \/ Recover(c) \/ Enqueue(c) \/ WriteOpen(c)
      <4>1. \E pc \in {"recover", "readOpen", "published", "report"} :
              run' = [run EXCEPT ![c].pc = pc]
        BY <3>2 DEF RecordSuccess, RecordDeadLetter, Recover, Enqueue, WriteOpen, Goto
      <4> QED BY <4>1
    <3> QED BY <1>2, <3>1, <3>2
  <2> QED BY <1>0, <2>1 DEF Run, Running
<1>3. ASSUME NEW c \in Id, RecordRetry(c) \/ RecordFailover(c)
      PROVE  FALSE
  <2>1. run' = [run EXCEPT ![c].pc = "enqueue", ![c].child = nextId]
    BY <1>3 DEF RecordRetry, RecordFailover, Replace
  <2> QED BY <1>0, <2>1 DEF Run, Running
<1>4. ASSUME NEW c \in Id, StartJob(c) \/ ReadOpen(c) \/ (c # d /\ FinishJob(c))
      PROVE  FALSE
  BY <1>0, <1>4 DEF StartJob, ReadOpen, FinishJob, EndJob, Run, Running
<1>5. ASSUME \/ Ingestor \/ SchedulerStep \/ Operator \/ UNCHANGED vars
             \/ \E c \in Id : SkipJob(c) \/ QueueStep(c) \/ EvictCompleted(c)
      PROVE  FALSE
  <2>1. UNCHANGED run
    BY <1>5 DEF Ingestor, IngestCheck, IngestInsert, IngestReply, IngestDies,
       IngestEnqueue, SchedulerStep, ScheduleRead, ScheduleAdd, Operator, PatchEndpoint,
       ManualCheck, ManualInsert, ManualEnqueue, ManualDies, SkipJob,
       QueueStep, Stall, StallFails, BackoffElapses, PromoteDelayed, EvictCompleted,
       worker, vars
  <2> QED BY <1>1, <2>1
<1> QED BY <1>2, <1>3, <1>4, <1>5, NothingDies DEF Next, WorkerStep

(* Where rows come from.                                                   *)
LEMMA RowAppears ==
  ASSUME IndInv, Undisturbed, [Next]_vars, NEW d \in Id, ~Exists(d), Exists(d)'
  PROVE  /\ rows'[d].state = "queued"
         /\ \/ \E r \in Requests : IngestInsert(r) /\ rows'[d].event = r[1]
            \/ \E c \in Id : Exists(c) /\ rows'[d].event = rows[c].event
<1> DEFINE Goal ==
         /\ rows'[d].state = "queued"
         /\ \/ \E r \in Requests : IngestInsert(r) /\ rows'[d].event = r[1]
            \/ \E c \in Id : Exists(c) /\ rows'[d].event = rows[c].event
<1>0. rows \in [Id -> Row]
  BY DEF IndInv, TypeOK, RowsOK
<1>1. ASSUME rows'[d] = rows[d]
      PROVE  FALSE
  BY <1>1 DEF Exists
<1>2. ASSUME NEW r \in Requests, IngestInsert(r)
      PROVE  Goal
  <2>1. rows'[d] # rows[d]
    BY <1>1
  <2>2. rows'[d].state = "queued" /\ rows'[d].event = r[1]
    BY <1>2, <2>1 DEF IngestInsert, NewRow
  <2> QED BY <1>2, <2>2
<1>3. ASSUME NEW c \in Id, Deliver(c) \/ RecordSuccess(c) \/ RecordDeadLetter(c)
      PROVE  FALSE
  <2>1. Exists(c)
    BY <1>3, RunningRows DEF Deliver, RecordSuccess, RecordDeadLetter, Running
  <2> QED BY <1>0, <1>1, <1>3, <2>1 DEF Deliver, RecordSuccess, RecordDeadLetter, SetState
<1>4. ASSUME NEW c \in Id, BackoffElapses(c)
      PROVE  FALSE
  BY <1>0, <1>1, <1>4 DEF BackoffElapses
<1>5. ASSUME NEW c \in Id, RecordRetry(c) \/ RecordFailover(c)
      PROVE  Goal
  <2>1. Exists(c)
    BY <1>5, RunningRows DEF RecordRetry, RecordFailover, Running
  <2>2. PICK x, s : /\ Replace(c, s, x)
                    /\ x.state = "queued" /\ x.event = rows[c].event
    BY <1>5 DEF RecordRetry, RecordFailover, NewRow
  <2>3. rows'[d] = x
    BY <1>0, <1>1, <2>1, <2>2 DEF Replace
  <2> QED BY <2>1, <2>2, <2>3
<1>6. ASSUME \/ \E r \in Requests :
                  \/ IngestCheck(r) \/ IngestReply(r)
                  \/ \E c \in Id : IngestEnqueue(r, c)
             \/ \E c \in Id :
                  \/ StartJob(c) \/ SkipJob(c) \/ RequestSucceeds(c)
                  \/ RequestFails(c) \/ Recover(c) \/ Enqueue(c) \/ ReadOpen(c)
                  \/ WriteOpen(c) \/ FinishJob(c)
                  \/ Stall(c) \/ PromoteDelayed(c) \/ EvictCompleted(c)
             \/ SchedulerStep \/ PatchEndpoint \/ UNCHANGED vars
      PROVE  FALSE
  <2>1. UNCHANGED rows
    BY <1>6 DEF IngestCheck, IngestReply, IngestEnqueue, StartJob, SkipJob,
       RequestSucceeds, RequestFails, Recover, Enqueue, ReadOpen, WriteOpen, FinishJob,
       Stall, PromoteDelayed, EvictCompleted, SchedulerStep, ScheduleRead,
       ScheduleAdd, PatchEndpoint, vars
  <2> QED BY <1>1, <2>1
<1>7. ASSUME NEW c \in Id, StallFails(c)
      PROVE  FALSE
  BY <1>1, <1>7 DEF StallFails, FailedHandler, Undisturbed, NoFault
<1> QED BY <1>2, <1>3, <1>4, <1>5, <1>6, <1>7, NothingDies
    DEF Next, Ingestor, WorkerStep, QueueStep, Operator

(* Nobody lists a row that is not queued, nor one that existed before.     *)
LEMMA NotListed ==
  ASSUME IndInv, Undisturbed, [Next]_vars, NEW d \in Id, Exists(d),
         rows[d].state # "queued", ~AboutToAdd(d)
  PROVE  ~AboutToAdd(d)'
<1>0. /\ rows \in [Id -> Row] /\ run \in [Id -> Run] /\ todo \subseteq Id /\ d < nextId
      /\ \A r \in Requests : ing[r].pending \subseteq Id
      /\ nextId \in Nat
  BY BoundsAssumption DEF IndInv, TypeOK, RowsOK, WorkerOK, IngestorOK
<1>1. d \notin todo'
  <2>1. CASE ScheduleRead
    BY <2>1 DEF ScheduleRead, Schedulable, Waiting
  <2>2. CASE ~ScheduleRead
    <3>1. todo' \subseteq todo
      BY <2>2 DEF Next, Ingestor, IngestCheck, IngestInsert, IngestReply, IngestDies,
         IngestEnqueue, WorkerCrash, SchedulerStep, ScheduleAdd, WorkerStep,
         StartJob, SkipJob, Deliver, RequestSucceeds, RequestFails, RecordSuccess, Recover,
         RecordRetry, RecordFailover, RecordDeadLetter, Enqueue, ReadOpen, WriteOpen,
         FinishJob, Fault, SuccessPathThrows, JobThrows, ReadThrows, QueueStep, Stall,
         StallFails, BackoffElapses, PromoteDelayed, EvictCompleted, Operator,
         PatchEndpoint, ManualCheck, ManualInsert, ManualEnqueue, ManualDies, vars
    <3> QED BY <3>1 DEF AboutToAdd
  <2> QED BY <2>1, <2>2
<1>2. ASSUME NEW r \in Requests
      PROVE  d \notin ing'[r].pending
  <2>0. IngestorOK /\ d \notin ing[r].pending
    BY DEF IndInv, TypeOK, AboutToAdd
  <2>1. CASE \E q \in Requests : IngestInsert(q)
    <3>1. PICK q \in Requests : IngestInsert(q)
      BY <2>1
    <3>2. \A i \in Chosen(ing[q].policy) : nextId + Rank(ing[q].policy, i) # d
      <4>1. \A i \in Chosen(ing[q].policy) : Rank(ing[q].policy, i) \in Nat
        BY ChosenTargets, <2>0 DEF IngestorOK
      <4> QED BY <1>0, <4>1 DEF Id
    <3> DEFINE new == {nextId + Rank(ing[q].policy, i) : i \in Chosen(ing[q].policy)}
               S == IF ing[q].paused THEN {} ELSE new
    <3>3. ing' = [ing EXCEPT ![q].pc = "inserted", ![q].pending = S]
      BY <3>1 DEF IngestInsert
    <3>4. d \notin S
      BY <3>2
    <3> HIDE DEF S
    <3> QED BY <2>0, <3>3, <3>4 DEF IngestorOK
  <2>2. CASE \E q \in Requests : \/ IngestCheck(q) \/ IngestReply(q) \/ IngestDies(q)
                                 \/ \E c \in Id : IngestEnqueue(q, c)
    <3>1. PICK q \in Requests : \/ IngestCheck(q) \/ IngestReply(q) \/ IngestDies(q)
                               \/ \E c \in Id : IngestEnqueue(q, c)
      BY <2>2
    <3>2. \E S \in SUBSET ing[q].pending : \E x : x.pending = S /\ ing' = [ing EXCEPT ![q] = x]
      <4>1. CASE IngestCheck(q)
        BY <4>1 DEF IngestCheck
      <4>2. CASE IngestReply(q) \/ IngestDies(q)
        <5>1. \A pc : [NotReceived EXCEPT !.pc = pc].pending = {}
          BY DEF NotReceived
        <5> QED BY <4>2, <5>1 DEF IngestReply, IngestDies
      <4>3. CASE \E c \in Id : IngestEnqueue(q, c)
        <5>1. PICK c \in Id : ing' = [ing EXCEPT ![q] = [ing[q] EXCEPT !.pending = @ \ {c}]]
          BY <2>0, <4>3 DEF IngestEnqueue, IngestorOK
        <5>2. [ing[q] EXCEPT !.pending = @ \ {c}].pending = ing[q].pending \ {c}
          BY <2>0 DEF IngestorOK
        <5> QED BY <5>1, <5>2
      <4> QED BY <3>1, <4>1, <4>2, <4>3
    <3> QED BY <2>0, <3>2 DEF IngestorOK
  <2>3. CASE ~Ingestor
    <3>1. UNCHANGED ing
      BY <2>3, IngestorOnly
    <3> QED BY <2>0, <3>1
  <2> QED BY <2>1, <2>2, <2>3 DEF Ingestor
<1>3. ASSUME NEW c \in Id
      PROVE  ~(run'[c].pc = "enqueue" /\ run'[c].child = d)
  <2>0. ~(run[c].pc = "enqueue" /\ run[c].child = d)
    BY DEF AboutToAdd
  <2>1. ASSUME NEW b \in Id, RecordRetry(b) \/ RecordFailover(b)
        PROVE  ~(run'[c].pc = "enqueue" /\ run'[c].child = d)
    <3>1. run' = [run EXCEPT ![b].pc = "enqueue", ![b].child = nextId]
      BY <2>1 DEF RecordRetry, RecordFailover, Replace
    <3>2. CASE c = b
      <4>1. run' = [run EXCEPT ![c] = [run[c] EXCEPT !.pc = "enqueue", !.child = nextId]]
        BY <1>0, <3>1, <3>2
      <4>2. run'[c].child = nextId
        BY <1>0, <4>1 DEF Run
      <4> QED BY <1>0, <4>2
    <3>3. CASE c # b
      BY <1>0, <2>0, <3>1, <3>3
    <3> QED BY <3>2, <3>3
  <2>2. ASSUME NEW b \in Id,
               \/ Deliver(b) \/ RequestSucceeds(b) \/ RequestFails(b) \/ RecordSuccess(b)
               \/ RecordDeadLetter(b) \/ Recover(b) \/ Enqueue(b) \/ WriteOpen(b)
        PROVE  ~(run'[c].pc = "enqueue" /\ run'[c].child = d)
    <3>1. \E pc \in {"request", "accepted", "failing", "recover", "readOpen", "published", "report"} :
            run' = [run EXCEPT ![b].pc = pc]
      BY <2>2 DEF Deliver, RequestSucceeds, RequestFails, RecordSuccess, RecordDeadLetter,
         Recover, Enqueue, WriteOpen, Goto
    <3> QED BY <1>0, <2>0, <3>1 DEF Run
  <2>3. ASSUME NEW b \in Id, StartJob(b) \/ ReadOpen(b) \/ FinishJob(b)
        PROVE  ~(run'[c].pc = "enqueue" /\ run'[c].child = d)
    BY <1>0, <2>0, <2>3 DEF StartJob, ReadOpen, FinishJob, EndJob, Idle, Run
  <2>4. ASSUME \/ Ingestor \/ SchedulerStep \/ Operator \/ UNCHANGED vars
               \/ \E b \in Id : SkipJob(b) \/ QueueStep(b) \/ EvictCompleted(b)
        PROVE  ~(run'[c].pc = "enqueue" /\ run'[c].child = d)
    <3>1. UNCHANGED run
      BY <2>4 DEF Ingestor, IngestCheck, IngestInsert, IngestReply, IngestDies,
         IngestEnqueue, SchedulerStep, ScheduleRead, ScheduleAdd, Operator, PatchEndpoint,
         ManualCheck, ManualInsert, ManualEnqueue, ManualDies, SkipJob,
         QueueStep, Stall, StallFails, BackoffElapses, PromoteDelayed, EvictCompleted,
         worker, vars
    <3> QED BY <2>0, <3>1
  <2> QED BY <2>1, <2>2, <2>3, <2>4, NothingDies DEF Next, WorkerStep
<1> QED BY <1>1, <1>2, <1>3, NothingDies DEF AboutToAdd

LEMMA UnrecordedKept ==
  ASSUME IndInv, Undisturbed, Unrecorded, [Next]_vars
  PROVE  Unrecorded'
<1> SUFFICES ASSUME NEW r \in Requests, ing'[r].pc \in {"new", "checked"},
                    NEW d \in Id, Exists(d)'
             PROVE  rows'[d].event # r[1]
  BY DEF Unrecorded
<1>0. IngestorOK
  BY DEF IndInv, TypeOK
<1>1. ing[r].pc \in {"new", "checked"} /\ ~IngestInsert(r)
  <2>1. CASE \E q \in Requests : \/ IngestCheck(q) \/ IngestInsert(q) \/ IngestReply(q)
                                \/ \E c \in Id : IngestEnqueue(q, c)
    <3>1. PICK q \in Requests : \/ IngestCheck(q) \/ IngestInsert(q) \/ IngestReply(q)
                               \/ \E c \in Id : IngestEnqueue(q, c)
      BY <2>1
    <3>2. q # r => ing'[r] = ing[r] /\ ~IngestInsert(r)
      BY <1>0, <3>1, OtherHandlers
    <3>3. IngestCheck(r) => ing[r].pc = "new"
      BY DEF IngestCheck
    <3>4. ~IngestInsert(r) /\ ~IngestReply(r)
      BY <1>0 DEF IngestInsert, IngestReply, NotReceived, IngestorOK
    <3>5. \A c \in Id : ~IngestEnqueue(r, c)
      BY <1>0 DEF IngestEnqueue, IngestorOK
    <3> QED BY <3>1, <3>2, <3>3, <3>4, <3>5
  <2>2. CASE ~Ingestor
    <3>1. UNCHANGED ing
      BY <2>2, IngestorOnly
    <3>2. ~IngestInsert(r)
      BY <2>2 DEF Ingestor
    <3> QED BY <3>1, <3>2
  <2> QED BY <2>1, <2>2, NothingDies DEF Ingestor
<1>2. CASE Exists(d)
  BY <1>1, <1>2, RowsStep DEF RowsKept, Unrecorded
<1>3. ASSUME NEW q \in Requests, IngestInsert(q), rows'[d].event = q[1]
      PROVE  rows'[d].event # r[1]
  <2>1. q # r
    BY <1>1, <1>3
  <2>2. r[1] = q[1] => r = q
    BY BoundsAssumption DEF Requests, Undisturbed
  <2> QED BY <1>3, <2>1, <2>2
<1>4. CASE ~Exists(d)
  BY <1>1, <1>3, <1>4, RowAppears DEF Unrecorded
<1> QED BY <1>2, <1>4

LEMMA HandedOverKept ==
  ASSUME IndInv, Undisturbed, PromiseInv, [Next]_vars, NEW d \in Id
  PROVE  HandedOver(d)'
<1> SUFFICES ASSUME rows'[d].state = "retrying"
             PROVE  /\ jobs'[d] \in {"active", "completed", "none"} /\ run'[d].pc # "lock"
                    /\ jobs'[d] = "none" => ~AboutToAdd(d)'
  BY DEF HandedOver
<1>0. /\ jobs \in [Id -> JobStates] /\ run \in [Id -> Run] /\ rows \in [Id -> Row] /\ NoFault
      /\ \A c \in Id : Exists(c) => c < nextId
  BY DEF IndInv, TypeOK, QueueOK, WorkerOK, RowsOK, JobStates, Undisturbed
<1>1. CASE RecordRetry(d) \/ RecordFailover(d)
  <2>1. /\ run' = [run EXCEPT ![d].pc = "enqueue", ![d].child = nextId]
        /\ jobs' = jobs /\ jobs[d] = "active"
    BY <1>1, RunningRows DEF RecordRetry, RecordFailover, Replace, queue, Running
  <2>2. run'[d].pc = "enqueue"
    BY <1>0, <2>1 DEF Run
  <2> QED BY <2>1, <2>2
<1>2. CASE rows[d].state = "retrying"
  <2>1. /\ jobs[d] \in {"active", "completed", "none"} /\ run[d].pc # "lock"
        /\ jobs[d] = "none" => ~AboutToAdd(d)
        /\ Exists(d) /\ rows[d].state # "queued" /\ ~Orphaned(d)
    BY <1>2 DEF PromiseInv, HandedOver, Exists
  <2>2. ~StartJob(d)
    BY <2>1 DEF StartJob
  <2>3. run'[d].pc # "lock"
    BY <1>0, <2>1, <2>2, PcChanges
  <2>4. jobs[d] = "none" => jobs'[d] = "none" /\ ~AboutToAdd(d)'
    BY <2>1, NotListed, OnlyListedAdded
  <2>5. FinishJob(d) => jobs'[d] = "completed"
    BY <1>0 DEF FinishJob, EndJob
  <2>6. EvictCompleted(d) => ~AboutToAdd(d)' /\ jobs'[d] = "none"
    BY <1>0, <2>1, NotListed DEF EvictCompleted
  <2> QED BY <2>1, <2>2, <2>3, <2>4, <2>5, <2>6, JobMoves
<1>3. ~Deliver(d) /\ ~RecordSuccess(d) /\ ~RecordDeadLetter(d)
  BY <1>0 DEF Deliver, RecordSuccess, RecordDeadLetter, SetState, Row
<1>4. ~Exists(d) => rows'[d].state # "retrying"
  BY RowAppears DEF Exists
<1> QED BY <1>0, <1>1, <1>2, <1>3, <1>4, StateChanges DEF PromiseInv

LEMMA PromiseInvKept ==
  ASSUME IndInv, Undisturbed, PromiseInv, [Next]_vars
  PROVE  PromiseInv'
<1>1. RunsMatchRows' /\ OnRecord' /\ Unrecorded'
  BY RunsMatchRowsKept, OnRecordKept, UnrecordedKept DEF PromiseInv, Undisturbed
<1>2. ASSUME NEW d \in Id
      PROVE  ~Orphaned(d)' /\ HandedOver(d)'
  <2>1. HandedOver(d)'
    BY HandedOverKept
  <2>2. ASSUME jobs'[d] = "active"
        PROVE  Running(d)'
    <3>0. jobs \in [Id -> JobStates] /\ run \in [Id -> Run] /\ ~Orphaned(d)
      BY DEF IndInv, TypeOK, QueueOK, WorkerOK, JobStates, PromiseInv
    <3>1. StartJob(d) => Running(d)'
      BY <3>0 DEF StartJob, Running
    <3>2. ~FinishJob(d) /\ ~EvictCompleted(d)
      BY <2>2, <3>0 DEF FinishJob, EndJob, EvictCompleted
    <3>3. jobs[d] = "active" => Running(d)
      BY <3>0 DEF Orphaned
    <3> QED BY <2>2, <3>0, <3>1, <3>2, <3>3, JobMoves, RunsToItsEnd
  <2> QED BY <2>1, <2>2 DEF Orphaned
<1> QED BY <1>1, <1>2 DEF PromiseInv

(* The state of DeliveryOutcome that a state stands for.                   *)
Owners == [d \in Id |-> IF Exists(d) THEN rows[d].event ELSE NoEvent]
Outcomes == [d \in Id |-> Outcome(d)]
Acknowledged == {e \in Events : Accepted(e)}

LEMMA SameAcknowledged ==
  ASSUME IndInv, \A r \in Requests : ing'[r].pc = "replied" <=> ing[r].pc = "replied"
  PROVE  Acknowledged' = Acknowledged
BY DEF Acknowledged, Accepted

LEMMA SameOutcome ==
  ASSUME \A d \in Id : /\ rows'[d].event = rows[d].event
                        /\ \/ rows'[d].state = rows[d].state
                           \/ {rows[d].state, rows'[d].state} \subseteq {"queued", "delivering"}
  PROVE  Owners' = Owners /\ Outcomes' = Outcomes
<1>1. \A d \in Id : (Exists(d)' <=> Exists(d)) /\ Outcome(d)' = Outcome(d)
  BY DEF Exists, Outcome
<1> QED BY <1>1 DEF Owners, Outcomes

LEMMA RecordSimulated ==
  ASSUME IndInv, Undisturbed, PromiseInv, NEW r \in Requests, IngestInsert(r)
  PROVE  \E ds \in SUBSET Promise!New : Promise!Record(r[1], ds)
<1> DEFINE p == ing[r].policy
           new == {nextId + Rank(p, i) : i \in Chosen(p)}
           ds == new \cap Id
<1>0. IngestorOK /\ RowsOK /\ r[1] \in Events
  BY DEF IndInv, TypeOK, Requests
<1>1. \A d \in ds : ~Exists(d) /\ rows'[d].state = "queued" /\ rows'[d].event = r[1]
  <2>1. nextId \in Nat /\ \A i \in Chosen(p) : Rank(p, i) \in Nat
    BY <1>0, ChosenTargets DEF RowsOK, IngestorOK
  <2>2. \A d \in ds : ~Exists(d)
    BY <1>0, <2>1 DEF RowsOK, Id
  <2>3. \A d \in ds : rows'[d].state = "queued" /\ rows'[d].event = r[1]
    BY DEF IngestInsert, NewRow
  <2> QED BY <2>2, <2>3
<1>2. \A d \in Id \ ds : rows'[d] = rows[d]
  BY DEF IngestInsert
<1> HIDE DEF ds, new
<1>3. ds \in SUBSET Promise!New
  BY <1>1 DEF Promise!New, Exists, Outcome, ds
<1>4. \A d \in Id : Owners[d] # r[1]
  BY <1>0, NamesAssumption DEF PromiseInv, Unrecorded, Owners, IngestInsert
<1>5. Owners' = [d \in Id |-> IF d \in ds THEN r[1] ELSE Owners[d]]
  BY <1>1, <1>2 DEF Owners, Exists
<1>6. Outcomes' = [d \in Id |-> IF d \in ds THEN "pending" ELSE Outcomes[d]]
  <2>1. \A d \in Id : Outcome(d)' = IF d \in ds THEN "pending" ELSE Outcome(d)
    <3>1. \A d \in ds : Outcome(d)' = "pending"
      BY <1>1 DEF Outcome, ds
    <3>2. \A d \in Id \ ds : Outcome(d)' = Outcome(d)
      BY <1>2 DEF Outcome
    <3> QED BY <3>1, <3>2
  <2> QED BY <2>1 DEF Outcomes
<1>7. Acknowledged' = Acknowledged
  <2>1. \A q \in Requests : ing'[q].pc = "replied" <=> ing[q].pc = "replied"
    BY <1>0 DEF IngestInsert, IngestorOK
  <2> QED BY <2>1, SameAcknowledged
<1>8. Promise!Record(r[1], ds)
  BY <1>4, <1>5, <1>6, <1>7 DEF Promise!Record, Owners, Outcomes, Acknowledged
<1> QED BY <1>3, <1>8, Zenon DEF Promise!Record

LEMMA AcknowledgeSimulated ==
  ASSUME IndInv, PromiseInv, NEW r \in Requests, IngestReply(r)
  PROVE  Promise!Acknowledge(r[1])
<1>0. IngestorOK /\ UNCHANGED rows /\ r[1] \in Events
  BY DEF IndInv, TypeOK, IngestReply, Requests
<1>1. \E d \in Id : Owners[d] = r[1]
  <2>1. \E d \in Id : Exists(d) /\ rows[d].event = r[1]
    BY DEF IngestReply, PromiseInv, OnRecord
  <2> QED BY <2>1 DEF Owners
<1>2. \A q \in Requests : ing'[q].pc = "replied" <=> ing[q].pc = "replied" \/ q = r
  <2>1. [NotReceived EXCEPT !.pc = "replied"].pc = "replied"
    BY DEF NotReceived
  <2> QED BY <1>0, <2>1 DEF IngestReply, IngestorOK
<1>3. Acknowledged' = Acknowledged \cup {r[1]}
  BY <1>0, <1>2 DEF Acknowledged, Accepted
<1>4. Owners' = Owners /\ Outcomes' = Outcomes
  BY <1>0 DEF Owners, Outcomes, Outcome, Exists
<1> QED BY <1>1, <1>3, <1>4 DEF Promise!Acknowledge, Owners, Outcomes, Acknowledged

LEMMA SettleSimulated ==
  ASSUME IndInv, PromiseInv, NEW d \in Id, RecordSuccess(d) \/ RecordDeadLetter(d)
  PROVE  Promise!Settle(d)
<1>0. rows \in [Id -> Row] /\ rows[d].state = "delivering" /\ UNCHANGED ing
  BY DEF IndInv, TypeOK, RowsOK, PromiseInv, RunsMatchRows, RecordSuccess, RecordDeadLetter, api
<1>1. PICK s \in {"succeeded", "dead_letter"} : rows' = [rows EXCEPT ![d].state = s]
  BY DEF RecordSuccess, RecordDeadLetter, SetState
<1>2. rows' = [rows EXCEPT ![d] = [rows[d] EXCEPT !.state = s]]
  BY <1>0, <1>1
<1>3. rows'[d].state = s /\ rows'[d].event = rows[d].event
  BY <1>0, <1>2 DEF Row
<1>4. \A c \in Id \ {d} : rows'[c] = rows[c]
  BY <1>0, <1>2
<1>5. Owners' = Owners
  BY <1>0, <1>3, <1>4 DEF Owners, Exists
<1>6. PICK o \in {"delivered", "dead"} : Outcome(d)' = o
  BY <1>3 DEF Outcome
<1>7. \A c \in Id \ {d} : Outcome(c)' = Outcome(c)
  BY <1>4 DEF Outcome
<1>8. Outcomes' = [Outcomes EXCEPT ![d] = o]
  BY <1>6, <1>7 DEF Outcomes
<1>9. Outcomes[d] = "pending"
  BY <1>0 DEF Outcomes, Outcome
<1>10. Acknowledged' = Acknowledged
  BY <1>0, SameAcknowledged
<1> QED BY <1>5, <1>8, <1>9, <1>10 DEF Promise!Settle, Owners, Outcomes, Acknowledged

LEMMA ReplaceSimulated ==
  ASSUME IndInv, PromiseInv, NEW d \in Id, RecordRetry(d) \/ RecordFailover(d)
  PROVE  nextId \in Promise!New /\ Promise!Replace(d, nextId)
<1>0. rows \in [Id -> Row] /\ rows[d].state = "delivering" /\ UNCHANGED ing
  BY DEF IndInv, TypeOK, RowsOK, PromiseInv, RunsMatchRows, RecordRetry, RecordFailover, api
<1>1. PICK s, x :
        /\ s \in {"retrying", "failed"} /\ x.state = "queued" /\ x.event = rows[d].event
        /\ nextId <= MaxRows
        /\ rows' = [rows EXCEPT ![d].state = s, ![nextId] = x]
  <2>1. PICK s, x :
          /\ s \in {"retrying", "failed"} /\ x.state = "queued" /\ x.event = rows[d].event
          /\ Replace(d, s, x)
    <3>1. CASE RecordRetry(d)
      BY <3>1 DEF RecordRetry, NewRow
    <3>2. CASE RecordFailover(d)
      BY <3>2 DEF RecordFailover, NewRow
    <3> QED BY <3>1, <3>2
  <2> QED BY <2>1 DEF Replace
<1>2. nextId \in Id /\ ~Exists(nextId) /\ nextId # d
  BY <1>0, <1>1, BoundsAssumption DEF IndInv, TypeOK, RowsOK, Id, Exists
<1>3. rows' = [rows EXCEPT ![d] = [rows[d] EXCEPT !.state = s], ![nextId] = x]
  BY <1>0, <1>1
<1>4. rows'[d].state = s /\ rows'[d].event = rows[d].event /\ rows'[nextId] = x
  BY <1>0, <1>2, <1>3 DEF Row
<1>5. \A c \in Id \ {d, nextId} : rows'[c] = rows[c]
  BY <1>0, <1>3
<1>6. Owners[d] = rows[d].event
  BY <1>0 DEF Owners, Exists
<1>7. Owners' = [Owners EXCEPT ![nextId] = Owners[d]]
  BY <1>0, <1>1, <1>2, <1>4, <1>5, <1>6 DEF Owners, Exists
<1>8. Outcome(d)' = "replaced" /\ Outcome(nextId) = "none"
  BY <1>1, <1>2, <1>4 DEF Outcome, Exists
<1>9. \A c \in Id : c = nextId => rows'[c].state = "queued"
  BY <1>1, <1>4
<1>10. \A c \in Id : rows'[c].state = "queued" => Outcome(c)' = "pending"
  BY DEF Outcome
<1>11. \A c \in Id \ {d, nextId} : Outcome(c)' = Outcome(c)
  BY <1>5 DEF Outcome
<1>12. Outcomes' = [Outcomes EXCEPT ![d] = "replaced", ![nextId] = "pending"]
  BY <1>2, <1>8, <1>9, <1>10, <1>11 DEF Outcomes
<1>13. Outcomes[d] = "pending"
  BY <1>0 DEF Outcomes, Outcome
<1>14. Acknowledged' = Acknowledged
  BY <1>0, SameAcknowledged
<1>15. nextId \in Promise!New
  BY <1>2, <1>8 DEF Promise!New
<1> QED BY <1>7, <1>12, <1>13, <1>14, <1>15 DEF Promise!Replace, Owners, Outcomes, Acknowledged

(* Every other step is none of DeliveryOutcome's.                          *)
LEMMA StutterSimulated ==
  ASSUME IndInv, Undisturbed, PromiseInv, [Next]_vars,
         \A r \in Requests : ~IngestInsert(r) /\ ~IngestReply(r),
         \A d \in Id : /\ ~RecordSuccess(d) /\ ~RecordDeadLetter(d)
                       /\ ~RecordRetry(d) /\ ~RecordFailover(d)
  PROVE  UNCHANGED Promise!vars
<1>0. rows \in [Id -> Row] /\ IngestorOK
  BY DEF IndInv, TypeOK, RowsOK
<1> DEFINE Same == \A d \in Id :
              /\ rows'[d].event = rows[d].event
              /\ \/ rows'[d].state = rows[d].state
                 \/ {rows[d].state, rows'[d].state} \subseteq {"queued", "delivering"}
           SameReplies == \A r \in Requests : ing'[r].pc = "replied" <=> ing[r].pc = "replied"
<1>1. SameReplies
  <2>1. ASSUME NEW r \in Requests, IngestCheck(r) \/ \E d \in Id : IngestEnqueue(r, d)
        PROVE  SameReplies
    BY <1>0, <2>1 DEF IngestCheck, IngestEnqueue, IngestorOK
  <2>2. CASE ~Ingestor
    <3>1. UNCHANGED ing
      BY <2>2, IngestorOnly
    <3> QED BY <3>1
  <2> QED BY <2>1, <2>2, NothingDies DEF Ingestor
<1>2. Same
  <2>1. ASSUME NEW c \in Id, Deliver(c)
        PROVE  Same
    <3>1. rows' = [rows EXCEPT ![c] = [rows[c] EXCEPT !.state = "delivering"]]
      BY <1>0, <2>1 DEF Deliver, SetState
    <3>2. rows'[c].state = "delivering" /\ rows'[c].event = rows[c].event
      BY <1>0, <3>1 DEF Row
    <3>3. rows[c].state \in {"queued", "delivering"}
      <4>1. Exists(c)
        BY <2>1, RunningRows DEF Deliver, Running
      <4>2. rows[c].state \notin Ended /\ rows[c].state # "retrying"
        BY <2>1 DEF Deliver, PromiseInv, RunsMatchRows, HandedOver
      <4> QED BY <1>0, <4>1, <4>2 DEF Row, Ended, Exists
    <3>4. \A d \in Id \ {c} : rows'[d] = rows[d]
      BY <1>0, <3>1
    <3> QED BY <3>2, <3>3, <3>4
  <2>2. ASSUME NEW c \in Id, BackoffElapses(c)
        PROVE  Same
    <3>1. rows' = [rows EXCEPT ![c] = [rows[c] EXCEPT !.due = TRUE]]
      BY <1>0, <2>2 DEF BackoffElapses
    <3>2. rows'[c].state = rows[c].state /\ rows'[c].event = rows[c].event
      BY <1>0, <3>1 DEF Row
    <3>3. \A d \in Id \ {c} : rows'[d] = rows[d]
      BY <1>0, <3>1
    <3> QED BY <3>2, <3>3
  <2>3. ASSUME NEW c \in Id, StallFails(c)
        PROVE  Same
    BY <2>3 DEF StallFails, FailedHandler, Undisturbed, NoFault
  <2>4. ASSUME \/ \E r \in Requests :
                    \/ IngestCheck(r)
                    \/ \E c \in Id : IngestEnqueue(r, c)
               \/ \E c \in Id :
                    \/ StartJob(c) \/ SkipJob(c) \/ RequestSucceeds(c)
                    \/ RequestFails(c) \/ Recover(c) \/ Enqueue(c) \/ ReadOpen(c)
                    \/ WriteOpen(c) \/ FinishJob(c)
                    \/ Stall(c) \/ PromoteDelayed(c) \/ EvictCompleted(c)
               \/ SchedulerStep \/ PatchEndpoint \/ UNCHANGED vars
        PROVE  Same
    <3>1. UNCHANGED rows
      BY <2>4 DEF IngestCheck, IngestEnqueue, StartJob, SkipJob,
         RequestSucceeds, RequestFails, Recover, Enqueue, ReadOpen, WriteOpen, FinishJob,
         Stall, PromoteDelayed, EvictCompleted, SchedulerStep, ScheduleRead,
         ScheduleAdd, PatchEndpoint, vars
    <3> QED BY <3>1
  <2> HIDE DEF Same
  <2> QED BY <2>1, <2>2, <2>3, <2>4, NothingDies
      DEF Next, Ingestor, WorkerStep, QueueStep, Operator
<1>3. Owners' = Owners /\ Outcomes' = Outcomes /\ Acknowledged' = Acknowledged
  BY <1>1, <1>2, SameOutcome, SameAcknowledged
<1> QED BY <1>3 DEF Promise!vars, Owners, Outcomes, Acknowledged

(* As long as nothing dies or throws, every delivery of the pipeline ends  *)
(* exactly once, as DeliveryOutcome says: the rows of an event are         *)
(* inserted once and before its 202, a row is delivered, dead-lettered or  *)
(* replaced by one other row, never reopened and never replaced twice,     *)
(* for every policy, whatever the operator patches meanwhile, however jobs *)
(* interleave and whichever completed jobs are evicted.                    *)
THEOREM PromiseKept ==
  ASSUME Undisturbed
  PROVE  Spec => KeepsPromise
<1>1. Init => PromiseInv
  <2> SUFFICES ASSUME Init
               PROVE  PromiseInv
    OBVIOUS
  <2>1. \A d \in Id : ~Exists(d) /\ rows[d].state = "none" /\ jobs[d] = "none" /\ run[d].pc = "idle"
    <3>1. Unused.state = "none" /\ Idle.pc = "idle"
      BY DEF Unused, NewRow, Idle
    <3> QED BY <3>1 DEF Init, Exists
  <2>2. \A r \in Requests : ing[r].pc = "new"
    BY DEF Init, NotReceived
  <2> QED BY <2>1, <2>2 DEF PromiseInv, RunsMatchRows, OnRecord, Unrecorded, Orphaned, HandedOver
<1>2. Init => Promise!Init
  <2> SUFFICES ASSUME Init
               PROVE  Promise!Init
    OBVIOUS
  <2>1. \A d \in Id : ~Exists(d) /\ Outcome(d) = "none"
    <3>1. Unused.state = "none"
      BY DEF Unused, NewRow
    <3> QED BY <3>1 DEF Init, Exists, Outcome
  <2>2. \A r \in Requests : ing[r].pc = "new"
    BY DEF Init, NotReceived
  <2>3. Owners = [d \in Id |-> NoEvent] /\ Outcomes = [d \in Id |-> "none"] /\ Acknowledged = {}
    BY <2>1, <2>2 DEF Owners, Outcomes, Acknowledged, Accepted
  <2> QED BY <2>3 DEF Promise!Init, Owners, Outcomes, Acknowledged
<1>3. IndInv /\ PromiseInv /\ [Next]_vars => PromiseInv'
  BY PromiseInvKept
<1>4. IndInv /\ PromiseInv /\ [Next]_vars => [Promise!Next]_(Promise!vars)
  <2> SUFFICES ASSUME IndInv, PromiseInv, [Next]_vars
               PROVE  [Promise!Next]_(Promise!vars)
    OBVIOUS
  <2>1. ASSUME NEW r \in Requests, IngestInsert(r)
        PROVE  Promise!Next
    <3>1. r[1] \in Events
      BY DEF Requests
    <3> QED BY <2>1, <3>1, RecordSimulated DEF Promise!Next
  <2>2. ASSUME NEW r \in Requests, IngestReply(r)
        PROVE  Promise!Next
    <3>1. r[1] \in Events
      BY DEF Requests
    <3> QED BY <2>2, <3>1, AcknowledgeSimulated DEF Promise!Next
  <2>3. ASSUME NEW d \in Id, RecordSuccess(d) \/ RecordDeadLetter(d)
        PROVE  Promise!Next
    BY <2>3, SettleSimulated DEF Promise!Next
  <2>4. ASSUME NEW d \in Id, RecordRetry(d) \/ RecordFailover(d)
        PROVE  Promise!Next
    <3>1. nextId \in Promise!New /\ Promise!Replace(d, nextId)
      BY <2>4, ReplaceSimulated
    <3>2. \E c \in Promise!New : Promise!Replace(d, c)
      BY <3>1, Zenon DEF Promise!Replace
    <3> QED BY <3>2 DEF Promise!Next
  <2> QED BY <2>1, <2>2, <2>3, <2>4, StutterSimulated
<1> QED BY <1>1, <1>2, <1>3, <1>4, Invariance, PTL DEF Spec, KeepsPromise, Promise!Spec
=============================================================================
