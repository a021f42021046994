--------------------------- MODULE ProtectDelivery ---------------------------
(***************************************************************************)
(* The Protect delivery pipeline of one endpoint: the ingestor records an  *)
(* event as rows of destination_deliveries and answers 202, the delivery   *)
(* worker sends each row to its destination, records the outcome and adds  *)
(* the next attempt as a new row, the scheduler re-adds queued rows that   *)
(* have no job, the operator pauses the route, changes its mode or policy  *)
(* and retries or replays old rows, and any of the processes may crash.    *)
(*                                                                         *)
(* PostgreSQL (rows, open, endpoint) survives every crash.  So does the    *)
(* BullMQ queue (jobs, stalls); what the code relies on of it is: a job id *)
(* that already exists is not added again, a job whose worker died is      *)
(* stalled and run again at most MaxStalls times, a failed job is removed. *)
(* run, chain and todo are the worker's memory.                            *)
(*                                                                         *)
(* A row's job has the id delivery-<row id>, so a row has at most one job  *)
(* and jobs, run and stalls are functions of the row.                      *)
(***************************************************************************)
EXTENDS DeliveryEngine, FiniteSets

CONSTANTS
  Events,             \* correlated provider events
  Tries,              \* how often the provider sends each of them
  Manuals,            \* manual retry and replay requests of the operator
  Policies,           \* delivery policies the endpoint may have
  Dests,              \* the ids of their destinations
  MaxAttempts,        \* endpoint.retryMaxAttempts
  Concurrency,        \* jobs the delivery worker runs at once
  BatchLimit,         \* rows one scheduler pass reads
  MaxStalls,          \* times a stalled job is run again
  FailedHandlerRuns,  \* whether the query of the 'failed' listener, which
                      \* nothing awaits, is executed
  MaxRows,            \* bounds: rows,
  MaxCrashes,         \*   crashes of the worker,
  MaxFaults,          \*   calls that throw, handlers of the ingestor or the
                      \*   API that die,
  MaxPatches,         \*   changes of the endpoint's settings,
  MaxEvictions        \*   completed jobs BullMQ forgets

VARIABLES
  rows,      \* destination_deliveries, in order of insertion
  nextId,    \* the id the next row gets
  jobs,      \* the state of each row's job
  stalls,    \* how often that job was found stalled
  run,       \* the worker's run of each row's job
  chain,     \* per destination, the runs holding or awaiting its lock
  todo,      \* rows the scheduler read and has not yet added
  open,      \* open incidents of the resource
  endpoint,  \* the endpoint's settings
  ing,       \* the ingestor's handlers, one per provider request
  man,       \* the API's handlers, one per manual request
  sent,      \* history: the requests made for each row
  spent      \* how much of each bound is used

queue == <<jobs, stalls>>
worker == <<run, chain>>
api == <<ing, man>>
vars == <<rows, nextId, queue, worker, todo, open, endpoint, api, sent, spent>>

Id == 1 .. MaxRows
Requests == Events \X (1 .. Tries)
NoRow == 0
NoDest == "no_dest"
NoEvent == "no_event"
NoKey == [event |-> NoEvent, dest |-> NoDest]
Keys == [event : Events, dest : Dests \cup {AnyDest}]

Row == [event : Events, kind : {"forward", "retry", "replay", "failover"},
        state : {"none", "queued", "retrying", "delivering", "succeeded",
                 "failed", "dead_letter"},
        attempt : 1 .. MaxAttempts, dest : Dests \cup {NoDest}, index : Nat,
        key : Keys \cup {NoKey}, parent : Id \cup {NoRow},
        manual : BOOLEAN, due : BOOLEAN]

(* pc is the statement of performDestinationDelivery the run is at, and    *)
(* the rest what it read or computed before.                               *)
Run == [pc : {"idle", "lock", "request", "accepted", "recover", "published",
              "failing", "enqueue", "readOpen", "writeOpen", "report"},
        dest : Dests, index : Nat, attempt : 1 .. MaxAttempts, key : Keys,
        policy : Policies, child : Id \cup {NoRow}, saw : BOOLEAN]

ASSUME BoundsAssumption ==
  /\ MaxAttempts \in Nat \ {0} /\ Concurrency \in Nat \ {0}
  /\ BatchLimit \in Nat \ {0} /\ MaxStalls \in Nat /\ Tries \in Nat
  /\ MaxRows \in Nat /\ MaxCrashes \in Nat /\ MaxFaults \in Nat
  /\ MaxPatches \in Nat /\ MaxEvictions \in Nat /\ FailedHandlerRuns \in BOOLEAN

(* A target of a policy; a request as the destination sees it.             *)
Target == [id : Dests, active : BOOLEAN]
Request == [dest : Dests, key : Keys]

ASSUME NamesAssumption ==
  /\ Events # {} /\ Policies # {}
  /\ NoEvent \notin Events /\ NoDest \notin Dests

(* What deliveryPolicyInputSchema accepts: at least one active target, a   *)
(* single policy has one target.  That ids differ is not checked there.    *)
ASSUME PoliciesAssumption ==
  \A p \in Policies :
    /\ p.dests \in Seq(Target) /\ p.dests # <<>>
    /\ \E i \in 1 .. Len(p.dests) : p.dests[i].active
    /\ p.strategy \in {"single", "fanout", "failover"}
    /\ p.strategy = "single" => Len(p.dests) = 1
    /\ p.scope \in {"destination", "event"}
-----------------------------------------------------------------------------
NotReceived == [pc |-> "new", duplicate |-> FALSE, paused |-> FALSE,
                policy |-> CHOOSE p \in Policies : TRUE, pending |-> {}]
NotRequested == [pc |-> "new", source |-> NoRow, kind |-> "retry",
                 child |-> NoRow]

(* A row for an event, as the insert statements of the code fill it in.    *)
NewRow(event, kind, attempt, dest, index, key, parent, due) ==
  [event |-> event, kind |-> kind, state |-> "queued", attempt |-> attempt,
   dest |-> dest, index |-> index, key |-> key, parent |-> parent,
   manual |-> FALSE, due |-> due]

(* Only the state of an id not yet in use matters.                         *)
Unused == [NewRow(CHOOSE e \in Events : TRUE, "forward", 1, NoDest, 0, NoKey,
                  NoRow, FALSE) EXCEPT !.state = "none"]

Idle == [pc |-> "idle", dest |-> CHOOSE t \in Dests : TRUE, index |-> 0,
         attempt |-> 1, key |-> [event |-> CHOOSE e \in Events : TRUE,
                                 dest |-> AnyDest],
         policy |-> CHOOSE p \in Policies : TRUE, child |-> NoRow,
         saw |-> FALSE]

(* deliveryQueue.add with the row's job id: ignored when the job exists.   *)
AddJobAgain(d, state) == jobs' = [jobs EXCEPT ![d] = state]
AddJob(d, state) == jobs' = [jobs EXCEPT ![d] = IF @ = "none" THEN state ELSE @]

SetState(d, state) == rows' = [rows EXCEPT ![d].state = state]
Goto(d, pc) == run' = [run EXCEPT ![d].pc = pc]
Spend(what) == spent' = [spent EXCEPT ![what] = @ + 1]

Exists(d) == rows[d].state # "none"
Waiting(d) == rows[d].state = "queued" /\ rows[d].due
Running(d) == run[d].pc # "idle"
HasLockAtOnce(d) == d \in Id
HasLock(d) == chain[run[d].dest] # <<>> /\ Head(chain[run[d].dest]) = d
RowsOf(e) == {d \in Id : Exists(d) /\ rows[d].event = e}

Init ==
  /\ rows = [d \in Id |-> Unused]
  /\ nextId = 1
  /\ jobs = [d \in Id |-> "none"]
  /\ stalls = [d \in Id |-> 0]
  /\ run = [d \in Id |-> Idle]
  /\ chain = [t \in Dests |-> <<>>]
  /\ todo = {}
  /\ open = 0
  /\ endpoint \in [protect : {TRUE}, paused : {FALSE}, policy : Policies]
  /\ ing = [r \in Requests |-> NotReceived]
  /\ man = [m \in Manuals |-> NotRequested]
  /\ sent = [d \in Id |-> <<>>]
  /\ spent = [crashes |-> 0, faults |-> 0, patches |-> 0,
              evictions |-> 0]

-----------------------------------------------------------------------------
(* The ingestor.  A handler read the endpoint and found it in Protect      *)
(* mode; its event and attempt are recorded (module Ingest, for their      *)
(* races) and it looks for rows of the event.                              *)
IngestCheck(r) ==
  /\ ing[r].pc = "new"
  /\ endpoint.protect
  /\ ing' = [ing EXCEPT ![r] = [pc |-> "checked",
                               duplicate |-> RowsOf(r[1]) # {},
                               paused |-> endpoint.paused,
                               policy |-> endpoint.policy, pending |-> {}]]
  /\ UNCHANGED <<rows, nextId, queue, worker, todo, open, endpoint, man, sent, spent>>

(* The targets that get a row: every active one for fan-out, else the      *)
(* first.  The index recorded is the position among those that get one.    *)
Chosen(policy) ==
  LET on == ActiveAfter(policy, -1)
  IN  IF policy.strategy = "fanout" THEN on ELSE {Min(on)}
Rank(policy, i) == Cardinality({j \in Chosen(policy) : j < i})

IngestInsert(r) ==
  LET e == r[1]
      p == ing[r].policy
      id(i) == nextId + Rank(p, i)
      new == {id(i) : i \in Chosen(p)}
      initial(i) == LET t == p.dests[i + 1].id
                    IN  NewRow(e, "forward", 1, t, Rank(p, i),
                               IdempotencyKey(e, t, p.scope), NoRow, TRUE)
  IN  /\ ing[r].pc = "checked" /\ ~ing[r].duplicate
      /\ nextId + Cardinality(Chosen(p)) <= MaxRows + 1
      /\ rows' = [d \in Id |-> IF d \in new
                               THEN initial(CHOOSE i \in Chosen(p) : id(i) = d)
                               ELSE rows[d]]
      /\ nextId' = nextId + Cardinality(Chosen(p))
      /\ ing' = [ing EXCEPT ![r].pc = "inserted",
                            ![r].pending = IF ing[r].paused THEN {} ELSE new]
      /\ UNCHANGED <<queue, worker, todo, open, endpoint, man, sent, spent>>

IngestEnqueue(r, d) ==
  /\ ing[r].pc = "inserted" /\ d \in ing[r].pending
  /\ AddJob(d, "waiting")
  /\ ing' = [ing EXCEPT ![r].pending = @ \ {d}]
  /\ UNCHANGED <<rows, nextId, stalls, worker, todo, open, endpoint, man, sent, spent>>

(* 202 Accepted.                                                           *)
IngestReplyFirst(r) ==
  /\ ing[r].pc = "checked"
  /\ ing' = [ing EXCEPT ![r] = [NotReceived EXCEPT !.pc = "replied"]]
  /\ UNCHANGED <<rows, nextId, queue, worker, todo, open, endpoint, man, sent, spent>>
IngestReply(r) ==
  /\ \/ ing[r].pc = "checked" /\ ing[r].duplicate
     \/ ing[r].pc = "inserted" /\ ing[r].pending = {}
  /\ ing' = [ing EXCEPT ![r] = [NotReceived EXCEPT !.pc = "replied"]]
  /\ UNCHANGED <<rows, nextId, queue, worker, todo, open, endpoint, man, sent, spent>>

(* The ingestor crashes in the handler, or one of its calls throws.        *)
IngestDies(r) ==
  /\ ing[r].pc \in {"checked", "inserted"}
  /\ spent.faults < MaxFaults /\ Spend("faults")
  /\ ing' = [ing EXCEPT ![r] = [NotReceived EXCEPT !.pc = "died"]]
  /\ UNCHANGED <<rows, nextId, queue, worker, todo, open, endpoint, man, sent>>

-----------------------------------------------------------------------------
(* The worker.                                                             *)

StartableOnlyFresh(d) == rows[d].state \in {"queued", "retrying"}
StartableAlways(d) == Exists(d)
Startable(d) == rows[d].state \in {"queued", "retrying", "delivering"}
Skipped(d) ==
  \/ ~Startable(d)
  \/ ~endpoint.protect /\ rows[d].kind = "forward"

(* By id, else by index, else the first: rows of the ingestor and of a     *)
(* failover name their target, rows of a manual request have index 0.      *)
Destination(row, policy) ==
  LET ids == [i \in 1 .. Len(policy.dests) |-> policy.dests[i].id]
  IN  IF \E i \in DOMAIN ids : ids[i] = row.dest THEN row.dest
      ELSE IF row.index < Len(policy.dests) THEN ids[row.index + 1] ELSE ids[1]

(* The key the ingestor or a failover recorded, else one made up now.      *)
RequestKeyRecomputed(row, policy) ==
  IdempotencyKey(row.event, Destination(row, policy), policy.scope)
RequestKey(row, policy) ==
  IF row.key # NoKey THEN row.key
  ELSE IdempotencyKey(row.event, Destination(row, policy), policy.scope)

(* BullMQ hands the worker a job, which reads the row with its endpoint    *)
(* and queues for the lock of the destination.  deliveryPaused is not      *)
(* looked at.                                                              *)
StartJob(d) ==
  LET t == Destination(rows[d], endpoint.policy)
  IN  /\ jobs[d] = "waiting" /\ ~Running(d) /\ ~Skipped(d)
      /\ Cardinality({c \in Id : Running(c)}) < Concurrency
      /\ jobs' = [jobs EXCEPT ![d] = "active"]
      /\ run' = [run EXCEPT ![d] =
                    [pc |-> "lock", dest |-> t, index |-> rows[d].index,
                     attempt |-> rows[d].attempt,
                     key |-> RequestKey(rows[d], endpoint.policy),
                     policy |-> endpoint.policy, child |-> NoRow,
                     saw |-> FALSE]]
      /\ chain' = [chain EXCEPT ![t] = Append(@, d)]
      /\ UNCHANGED <<rows, nextId, stalls, todo, open, endpoint, api, sent, spent>>

(* The early returns: the job is done, BullMQ keeps it among the completed. *)
SkipJob(d) ==
  /\ jobs[d] = "waiting" /\ ~Running(d) /\ Skipped(d)
  /\ Cardinality({c \in Id : Running(c)}) < Concurrency
  /\ jobs' = [jobs EXCEPT ![d] = "completed"]
  /\ UNCHANGED <<rows, nextId, stalls, worker, todo, open, endpoint, api, sent, spent>>

(* Under the lock: the row is 'delivering' whatever it was, then the       *)
(* request leaves.                                                         *)
Deliver(d) ==
  /\ run[d].pc = "lock" /\ HasLock(d)
  /\ SetState(d, "delivering")
  /\ sent' = [sent EXCEPT ![d] = Append(@, [dest |-> run[d].dest,
                                           key |-> run[d].key])]
  /\ Goto(d, "request")
  /\ UNCHANGED <<nextId, queue, chain, todo, open, endpoint, api, spent>>

(* The response is in the expected range ...                               *)
RequestSucceeds(d) ==
  /\ run[d].pc = "request"
  /\ Goto(d, "accepted")
  /\ UNCHANGED <<rows, nextId, queue, chain, todo, open, endpoint, api, sent, spent>>

(* ... or out of it, or there is none: a refused or reset connection, the  *)
(* timeout, a blocked address, an unsupported method.                      *)
RequestFails(d) ==
  /\ run[d].pc = "request"
  /\ Goto(d, "failing")
  /\ UNCHANGED <<rows, nextId, queue, chain, todo, open, endpoint, api, sent, spent>>

RecordSuccess(d) ==
  /\ run[d].pc = "accepted"
  /\ SetState(d, "succeeded")
  /\ Goto(d, "recover")
  /\ UNCHANGED <<nextId, queue, chain, todo, open, endpoint, api, sent, spent>>

(* recoverDeliveryIncident closes every open incident of the resource (the *)
(* alerts it queues are module IncidentAlerts').                           *)
Recover(d) ==
  /\ run[d].pc = "recover"
  /\ open' = 0
  /\ Goto(d, "published")
  /\ UNCHANGED <<rows, nextId, queue, chain, todo, endpoint, api, sent, spent>>

(* All of the success path is inside the try: when one of its calls throws,*)
(* the catch block treats the delivery as failed.                          *)
SuccessPathThrows(d) ==
  /\ run[d].pc \in {"accepted", "recover", "published"}
  /\ spent.faults < MaxFaults /\ Spend("faults")
  /\ Goto(d, "failing")
  /\ UNCHANGED <<rows, nextId, queue, chain, todo, open, endpoint, api, sent>>

(* One transaction ends the row and inserts its successor.                 *)
ReplaceWithoutEnd(d, state, successor) ==
  /\ nextId <= MaxRows
  /\ rows' = [rows EXCEPT ![nextId] = successor]
  /\ nextId' = nextId + 1
  /\ run' = [run EXCEPT ![d].pc = "enqueue", ![d].child = nextId]
Replace(d, state, successor) ==
  /\ nextId <= MaxRows
  /\ rows' = [rows EXCEPT ![d].state = state, ![nextId] = successor]
  /\ nextId' = nextId + 1
  /\ run' = [run EXCEPT ![d].pc = "enqueue", ![d].child = nextId]

ExhaustedEarly(d) == run[d].attempt + 1 >= MaxAttempts
ExhaustedLate(d) == run[d].attempt > MaxAttempts
Exhausted(d) == RetriesExhausted(run[d].attempt, MaxAttempts)
Handover(d) == NextTarget(run[d].policy, run[d].index)

RecordRetry(d) ==
  LET row == rows[d]
  IN  /\ run[d].pc = "failing" /\ ~Exhausted(d)
      /\ Replace(d, "retrying",
                 NewRow(row.event, "retry", run[d].attempt + 1, row.dest,
                        row.index, row.key, d, FALSE))
      /\ UNCHANGED <<queue, chain, todo, open, endpoint, api, sent, spent>>

RecordFailover(d) ==
  LET j == Handover(d)
      t == run[d].policy.dests[j + 1].id
      e == rows[d].event
  IN  /\ run[d].pc = "failing" /\ Exhausted(d) /\ j # None
      /\ Replace(d, "failed",
                 NewRow(e, "failover", 1, t, j,
                        IdempotencyKey(e, t, run[d].policy.scope), d, TRUE))
      /\ UNCHANGED <<queue, chain, todo, open, endpoint, api, sent, spent>>

RecordDeadLetter(d) ==
  /\ run[d].pc = "failing" /\ Exhausted(d) /\ Handover(d) = None
  /\ SetState(d, "dead_letter")
  /\ Goto(d, "readOpen")
  /\ UNCHANGED <<nextId, queue, chain, todo, open, endpoint, api, sent, spent>>

(* The successor's job: delayed for a retry, at once for a failover.       *)
Enqueue(d) ==
  LET c == run[d].child
  IN  /\ run[d].pc = "enqueue"
      /\ AddJob(c, IF rows[c].kind = "retry" THEN "delayed" ELSE "waiting")
      /\ Goto(d, "readOpen")
      /\ UNCHANGED <<rows, nextId, stalls, chain, todo, open, endpoint, api, sent, spent>>

(* updateDeliveryIncident: look for an open incident of the resource, ...  *)
ReadOpen(d) ==
  /\ run[d].pc = "readOpen"
  /\ run' = [run EXCEPT ![d].pc = "writeOpen", ![d].saw = open > 0]
  /\ UNCHANGED <<rows, nextId, queue, chain, todo, open, endpoint, api, sent, spent>>

(* ... refresh it, by id and whatever became of it, or open a new one.     *)
WriteOpen(d) ==
  /\ run[d].pc = "writeOpen"
  /\ open' = IF run[d].saw THEN open ELSE open + 1
  /\ Goto(d, "report")
  /\ UNCHANGED <<rows, nextId, queue, chain, todo, endpoint, api, sent, spent>>

(* The run of d is over: its lock is released and its job is j.            *)
EndJob(d, j) ==
  /\ jobs' = [jobs EXCEPT ![d] = j]
  /\ run' = [run EXCEPT ![d] = Idle]
  /\ chain' = [chain EXCEPT ![run[d].dest] = Tail(@)]

(* Publish, analyse (module EventReport), release the lock; the job is     *)
(* completed.                                                              *)
FinishJob(d) ==
  /\ run[d].pc \in {"published", "report"}
  /\ EndJob(d, "completed")
  /\ UNCHANGED <<rows, nextId, stalls, todo, open, endpoint, api, sent, spent>>

(* BullMQ removes a failed job and calls the 'failed' listener, whose      *)
(* update makes the row 'queued' whatever it was, if it is executed.       *)
FailedHandler(d) ==
  IF FailedHandlerRuns THEN SetState(d, "queued") ELSE UNCHANGED rows

(* A call outside the try throws.                                          *)
JobThrows(d) ==
  /\ \/ run[d].pc = "lock" /\ HasLock(d)
     \/ run[d].pc \in {"failing", "enqueue", "readOpen", "writeOpen", "report"}
  /\ spent.faults < MaxFaults /\ Spend("faults")
  /\ EndJob(d, "none")
  /\ stalls' = [stalls EXCEPT ![d] = 0]
  /\ FailedHandler(d)
  /\ UNCHANGED <<nextId, todo, open, endpoint, api, sent>>

(* The query that reads the row throws, before there is a lock.            *)
ReadThrows(d) ==
  /\ jobs[d] = "waiting" /\ ~Running(d)
  /\ spent.faults < MaxFaults /\ Spend("faults")
  /\ jobs' = [jobs EXCEPT ![d] = "none"]
  /\ stalls' = [stalls EXCEPT ![d] = 0]
  /\ FailedHandler(d)
  /\ UNCHANGED <<nextId, worker, todo, open, endpoint, api, sent>>

(* The worker process dies, with all of its runs, and starts again.        *)
WorkerCrash ==
  /\ spent.crashes < MaxCrashes /\ Spend("crashes")
  /\ \E d \in Id : Running(d)
  /\ run' = [d \in Id |-> Idle]
  /\ chain' = [t \in Dests |-> <<>>]
  /\ todo' = {}
  /\ UNCHANGED <<rows, nextId, queue, open, endpoint, api, sent>>

-----------------------------------------------------------------------------
(* BullMQ.                                                                 *)

Orphaned(d) == jobs[d] = "active" /\ ~Running(d)

(* A job whose worker died is run again, ...                               *)
Stall(d) ==
  /\ Orphaned(d) /\ stalls[d] < MaxStalls
  /\ jobs' = [jobs EXCEPT ![d] = "waiting"]
  /\ stalls' = [stalls EXCEPT ![d] = @ + 1]
  /\ UNCHANGED <<rows, nextId, worker, todo, open, endpoint, api, sent, spent>>

(* ... or fails when that happened too often.                              *)
StallFails(d) ==
  /\ Orphaned(d) /\ stalls[d] >= MaxStalls
  /\ jobs' = [jobs EXCEPT ![d] = "none"]
  /\ stalls' = [stalls EXCEPT ![d] = 0]
  /\ FailedHandler(d)
  /\ UNCHANGED <<nextId, worker, todo, open, endpoint, api, sent, spent>>

(* nextAttemptAt is reached; the job's delay starts, and ends, later.      *)
BackoffElapses(d) ==
  /\ Exists(d) /\ ~rows[d].due
  /\ rows' = [rows EXCEPT ![d].due = TRUE]
  /\ UNCHANGED <<nextId, queue, worker, todo, open, endpoint, api, sent, spent>>

PromoteDelayed(d) ==
  /\ jobs[d] = "delayed" /\ rows[d].due
  /\ jobs' = [jobs EXCEPT ![d] = "waiting"]
  /\ UNCHANGED <<rows, nextId, stalls, worker, todo, open, endpoint, api, sent, spent>>

(* removeOnComplete: 500 later jobs completed.  Whoever was about to add   *)
(* the job, a scheduler pass of 100 rows at most, has done so before that. *)
AboutToAdd(d) ==
  \/ d \in todo
  \/ \E r \in Requests : d \in ing[r].pending
  \/ \E m \in Manuals : man[m].child = d
  \/ \E c \in Id : run[c].pc = "enqueue" /\ run[c].child = d

EvictCompleted(d) ==
  /\ jobs[d] = "completed" /\ ~AboutToAdd(d)
  /\ spent.evictions < MaxEvictions /\ Spend("evictions")
  /\ jobs' = [jobs EXCEPT ![d] = "none"]
  /\ stalls' = [stalls EXCEPT ![d] = 0]
  /\ UNCHANGED <<rows, nextId, worker, todo, open, endpoint, api, sent>>

-----------------------------------------------------------------------------
(* scheduleQueuedDeliveries: read a batch, then add one job after another. *)

SchedulableUndelayed ==
  {d \in Id : Waiting(d) /\ ~endpoint.paused /\ rows[d].kind # "retry"}
Schedulable == {d \in Id : Waiting(d) /\ ~endpoint.paused}

ScheduleRead ==
  /\ todo = {}
  /\ \E batch \in SUBSET Schedulable :
       /\ batch # {}
       /\ Cardinality(batch) = Smaller(BatchLimit, Cardinality(Schedulable))
       /\ todo' = batch
  /\ UNCHANGED <<rows, nextId, queue, worker, open, endpoint, api, sent, spent>>

ScheduleAdd(d) ==
  /\ d \in todo
  /\ todo' = todo \ {d}
  /\ AddJob(d, "waiting")
  /\ UNCHANGED <<rows, nextId, stalls, worker, open, endpoint, api, sent, spent>>

-----------------------------------------------------------------------------
(* createManualDelivery, in the API: look for a pending request of the     *)
(* same kind for the same source, insert a row, add its job.               *)

Pending == {"queued", "delivering", "retrying"}

ManualCheck(m, d, kind) ==
  /\ man[m].pc = "new"
  /\ Exists(d)
  /\ kind = "retry" => rows[d].state \in {"failed", "dead_letter"}
  /\ \A c \in Id : ~(rows[c].parent = d /\ rows[c].kind = kind
                     /\ rows[c].state \in Pending)
  /\ man' = [man EXCEPT ![m] = [pc |-> "checked", source |-> d, kind |-> kind,
                               child |-> NoRow]]
  /\ UNCHANGED <<rows, nextId, queue, worker, todo, open, endpoint, ing, sent, spent>>

(* The row's auditMetadata names neither a destination nor a key.          *)
ManualInsert(m) ==
  LET d == man[m].source
  IN  /\ man[m].pc = "checked"
      /\ nextId <= MaxRows
      /\ rows' = [rows EXCEPT ![nextId] =
                    [NewRow(rows[d].event, man[m].kind, 1, NoDest, 0, NoKey, d,
                            TRUE) EXCEPT !.manual = TRUE]]
      /\ nextId' = nextId + 1
      /\ man' = [man EXCEPT ![m].pc = "inserted", ![m].child = nextId]
      /\ UNCHANGED <<queue, worker, todo, open, endpoint, ing, sent, spent>>

ManualEnqueue(m) ==
  /\ man[m].pc = "inserted"
  /\ AddJob(man[m].child, "waiting")
  /\ man' = [man EXCEPT ![m] = [NotRequested EXCEPT !.pc = "replied"]]
  /\ UNCHANGED <<rows, nextId, stalls, worker, todo, open, endpoint, ing, sent, spent>>

(* The API crashes in the handler, or one of its calls throws.             *)
ManualDies(m) ==
  /\ man[m].pc \in {"checked", "inserted"}
  /\ spent.faults < MaxFaults /\ Spend("faults")
  /\ man' = [man EXCEPT ![m] = [NotRequested EXCEPT !.pc = "died"]]
  /\ UNCHANGED <<rows, nextId, queue, worker, todo, open, endpoint, ing, sent>>

(* PATCH /v1/endpoints/:id: pause or resume, leave or enter Protect mode,  *)
(* replace the policy.                                                     *)
PatchEndpoint ==
  /\ spent.patches < MaxPatches /\ Spend("patches")
  /\ \/ endpoint' = [endpoint EXCEPT !.paused = ~@]
     \/ endpoint' = [endpoint EXCEPT !.protect = ~@]
     \/ \E p \in Policies \ {endpoint.policy} :
          endpoint' = [endpoint EXCEPT !.policy = p]
  /\ UNCHANGED <<rows, nextId, queue, worker, todo, open, api, sent>>

-----------------------------------------------------------------------------
Ingestor ==
  \E r \in Requests : \/ IngestCheck(r) \/ IngestInsert(r)
                      \/ \E d \in Id : IngestEnqueue(r, d)
                      \/ IngestReply(r) \/ IngestDies(r)

WorkerStep(d) ==
  \/ StartJob(d) \/ SkipJob(d) \/ Deliver(d)
  \/ RequestSucceeds(d) \/ RequestFails(d)
  \/ RecordSuccess(d) \/ Recover(d)
  \/ RecordRetry(d) \/ RecordFailover(d) \/ RecordDeadLetter(d)
  \/ Enqueue(d) \/ ReadOpen(d) \/ WriteOpen(d) \/ FinishJob(d)

Fault(d) == SuccessPathThrows(d) \/ JobThrows(d) \/ ReadThrows(d)

QueueStep(d) == \/ Stall(d) \/ StallFails(d) \/ BackoffElapses(d)
                \/ PromoteDelayed(d)

SchedulerStep == ScheduleRead \/ \E d \in Id : ScheduleAdd(d)

Operator ==
  \/ PatchEndpoint
  \/ \E m \in Manuals :
       \/ \E d \in Id, kind \in {"retry", "replay"} : ManualCheck(m, d, kind)
       \/ ManualInsert(m) \/ ManualEnqueue(m) \/ ManualDies(m)

Next ==
  \/ Ingestor
  \/ \E d \in Id : WorkerStep(d) \/ Fault(d) \/ QueueStep(d)
                   \/ EvictCompleted(d)
  \/ WorkerCrash
  \/ SchedulerStep
  \/ Operator

(* A started run goes on, a waiting job is taken, time passes and the      *)
(* scheduler's timer fires.  Nothing obliges the provider, the operator,   *)
(* the faults or the eviction of completed jobs.                           *)
Fairness ==
  /\ \A d \in Id : WF_vars(WorkerStep(d)) /\ WF_vars(QueueStep(d))
  /\ WF_vars(SchedulerStep)

Spec == Init /\ [][Next]_vars
FairSpec == Spec /\ Fairness

-----------------------------------------------------------------------------
(* Properties.                                                             *)

RowsOK ==
  /\ rows \in [Id -> Row] /\ nextId \in 1 .. MaxRows + 1
  /\ \A d \in Id : Exists(d) => d < nextId
QueueOK ==
  /\ jobs \in [Id -> {"none", "delayed", "waiting", "active", "completed"}]
  /\ stalls \in [Id -> 0 .. MaxStalls]
WorkerOK ==
  /\ run \in [Id -> Run] /\ chain \in [Dests -> Seq(Id)]
  /\ todo \subseteq Id
IngestorOK ==
  ing \in [Requests -> [pc : {"new", "checked", "inserted", "replied", "died"},
                       duplicate : BOOLEAN, paused : BOOLEAN,
                       policy : Policies, pending : SUBSET Id]]
ApiOK ==
  /\ man \in [Manuals -> [pc : {"new", "checked", "inserted", "replied", "died"},
                         source : Id \cup {NoRow}, kind : {"retry", "replay"},
                         child : Id \cup {NoRow}]]
  /\ endpoint \in [protect : BOOLEAN, paused : BOOLEAN, policy : Policies]
HistoryOK ==
  /\ open \in Nat
  /\ sent \in [Id -> Seq(Request)]
  /\ spent \in [crashes : 0 .. MaxCrashes, faults : 0 .. MaxFaults,
               patches : 0 .. MaxPatches, evictions : 0 .. MaxEvictions]

TypeOK == RowsOK /\ QueueOK /\ WorkerOK /\ IngestorOK /\ ApiOK /\ HistoryOK

(* Jobs, runs and handlers are about rows that are committed, and what     *)
(* runs has an active job.                                                 *)
References ==
  /\ \A d \in Id : jobs[d] # "none" => Exists(d)
  /\ \A d \in Id : Running(d) => jobs[d] = "active"
  /\ \A d \in Id : run[d].pc = "enqueue"
                 => run[d].child \in Id /\ Exists(run[d].child)
  /\ \A d \in todo : Exists(d)
  /\ \A r \in Requests : \A d \in ing[r].pending : Exists(d)
  /\ \A m \in Manuals :
       /\ man[m].pc = "checked" => man[m].source \in Id /\ Exists(man[m].source)
       /\ man[m].pc = "inserted" => man[m].child \in Id /\ Exists(man[m].child)

(* The chain of a destination holds, once each, the runs that want it, and *)
(* only the first of them is past the lock.                                *)
Locks ==
  /\ \A t \in Dests : \A i \in 1 .. Len(chain[t]) :
       /\ Running(chain[t][i]) /\ run[chain[t][i]].dest = t
       /\ i > 1 => run[chain[t][i]].pc = "lock"
       /\ \A j \in 1 .. Len(chain[t]) : chain[t][i] = chain[t][j] => i = j
  /\ \A d \in Id : Running(d) =>
       \E i \in 1 .. Len(chain[run[d].dest]) : chain[run[d].dest][i] = d

IndInv == TypeOK /\ References /\ Locks

Automatic(d) == rows[d].kind \in {"retry", "failover"} /\ ~rows[d].manual

(* Two runs never talk to one destination at once, whatever crashes, so a  *)
(* destination gets one request of the route at a time.                    *)
InFlight(d) == run[d].pc \notin {"idle", "lock"}
DestinationExclusive ==
  \A c, d \in Id : InFlight(c) /\ InFlight(d) /\ c # d
                   => run[c].dest # run[d].dest

(* The first row of the chain of automatic retries that leads to d.        *)
FirstTry(d) ==
  LET first[c \in Id] == IF rows[c].kind = "retry" /\ ~rows[c].manual
                         THEN first[rows[c].parent] ELSE c
  IN  first[d]

(* The requests made for a delivery to one target, its retries included.   *)
RequestsMade(d) ==
  LET tries == {c \in Id : Exists(c) /\ FirstTry(c) = FirstTry(d)}
  IN  MapThenSumSet(LAMBDA c : Len(sent[c]), tries)

(* A target is given up, by a dead letter or a failover, only after the    *)
(* whole retry budget was spent on requests to it.                         *)
GivenUpAfterBudget ==
  \A d \in Id : rows[d].state \in {"dead_letter", "failed"}
               => RequestsMade(d) >= MaxAttempts

(* While the route stays in Protect mode and the worker does not crash     *)
(* more often than BullMQ reruns a job, no row waits for something that    *)
(* never comes: a queued row can get a job, a row being delivered has one  *)
(* that runs or will be run again.                                         *)
Carried ==
  \A d \in Id :
    /\ rows[d].state = "queued" => jobs[d] # "completed"
    /\ rows[d].state = "delivering" =>
         \/ Running(d)
         \/ jobs[d] = "waiting"
         \/ jobs[d] = "active" /\ stalls[d] < MaxStalls

(* What the ingestor recorded for a target carries one idempotency key     *)
(* through all of its retries, whatever becomes of the policy meanwhile.   *)
KeyStable ==
  \A d \in Id : Automatic(d) /\ rows[d].kind = "retry" /\ ~rows[FirstTry(d)].manual
    => \A i \in 1 .. Len(sent[d]), j \in 1 .. Len(sent[rows[d].parent]) :
         sent[d][i].key = sent[rows[d].parent][j].key

(* The 202 of the ingestor is a promise: rows of the event are on record,  *)
(* whatever handler wrote them and whatever became of that handler.        *)
AcceptedIsDurable ==
  \A r \in Requests : ing[r].pc = "replied" => RowsOf(r[1]) # {}

(* A row that was delivered or given up stays so: the worker that reruns   *)
(* its job after a crash leaves it alone.                                  *)
Ended == {"succeeded", "failed", "dead_letter"}
EndedIsFinal ==
  [][\A d \in Id : rows[d].state \in Ended => rows'[d].state = rows[d].state]_vars

(* Every accepted event is delivered or dead-lettered in the end, unless   *)
(* the route is paused.                                                    *)
Settled(e) == \A d \in RowsOf(e) : rows[d].state \notin {"queued", "delivering"}
Accepted(e) == \E r \in Requests : r[1] = e /\ ing[r].pc = "replied"
AcceptedSettles ==
  \A e \in Events : Accepted(e) ~> Settled(e) \/ endpoint.paused

-----------------------------------------------------------------------------
(* What the documentation says and the code does not keep.                 *)

(* docs/delivery-control-plane.md: the worker does not send queued         *)
(* deliveries while the route is paused.                                   *)
NoSendWhilePaused ==
  [][\A d \in Id : ~Running(d) /\ Running(d)' => ~endpoint.paused]_vars

(* docs/delivery-control-plane.md: a provider's retry does not create a    *)
(* second downstream delivery.                                             *)
OneInitialDelivery ==
  \A c, d \in Id :
    /\ Exists(c) /\ rows[c].kind = "forward"
    /\ Exists(d) /\ rows[d].kind = "forward"
    /\ rows[c].event = rows[d].event /\ rows[c].dest = rows[d].dest
    => c = d

(* docs/protect-mode.md: a manual retry continues the failed delivery, so  *)
(* it talks to the destination that delivery failed at.                    *)
RetryContinues ==
  \A d \in Id : rows[d].manual /\ rows[d].kind = "retry"
    => \A i \in 1 .. Len(sent[d]), j \in 1 .. Len(sent[rows[d].parent]) :
         sent[d][i].dest = sent[rows[d].parent][j].dest

(* docs/delivery-policies.md: an exhausted target is followed by the next  *)
(* active one.                                                             *)
FailoverMovesOn ==
  \A d \in Id : Exists(d) /\ rows[d].kind = "failover"
    => rows[d].dest # rows[rows[d].parent].dest

-----------------------------------------------------------------------------
(* Refinement: a delivery of DeliveryOutcome is a row.                     *)

Outcome(d) ==
  CASE rows[d].state = "none" -> "none"
    [] rows[d].state \in {"queued", "delivering"} -> "pending"
    [] rows[d].state = "succeeded" -> "delivered"
    [] rows[d].state = "dead_letter" -> "dead"
    [] rows[d].state \in {"retrying", "failed"} -> "replaced"

Promise ==
  INSTANCE DeliveryOutcome
    WITH Deliveries <- Id,
         owner <- [d \in Id |-> IF Exists(d) THEN rows[d].event ELSE NoEvent],
         outcome <- [d \in Id |-> Outcome(d)],
         acked <- {e \in Events : Accepted(e)}

(* Every delivery of the pipeline ends exactly once, as DeliveryOutcome    *)
(* says, when no process crashes and no call throws.                       *)
KeepsPromise == Promise!Spec
=============================================================================
