-------------------------------- MODULE Ingest --------------------------------
(***************************************************************************)
(* What the ingestor records of a provider's requests and what the worker  *)
(* reports of it.  A request finds or creates its event, counts the event's *)
(* attempts to number its own, and goes on by the mode of its endpoint:    *)
(* Trial answers the scenario's step, Observe forwards the request and     *)
(* mirrors the answer, Protect leaves a row for the delivery worker.  Each *)
(* path asks for an analysis, which reads attempts and deliveries and then *)
(* writes the report, in separate statements.                              *)
(*                                                                         *)
(* The protected pipeline itself is in ProtectDelivery; here its worker    *)
(* only moves the rows of one target, or hands them over to the next, and  *)
(* analyses the event each time.                                           *)
(***************************************************************************)
EXTENDS Integers, Sequences, FiniteSets, SequencesExt

CONSTANTS
  Keys,            \* correlation keys, each sent to one endpoint
  Modes,           \* the modes its endpoint is in or is switched to
  Requests,        \* requests the ingestor serves at once
  Messages,        \* what may be sent: see Body and Check
  Strategies,      \* the delivery policies of its endpoint
  Analysts,        \* analyses the worker runs at once
  DailyLimit,      \* DAILY_EVENTS_LIMIT
  Steps,           \* the scenario's answers
  RepeatLastStep,
  MaxRequests,     \* bounds: requests,
  MaxDeliveries,   \*   rows of an event,
  MaxUpsets        \*   retries by hand, changes of mode, ends of the day,
                   \*   crashes and statements that throw

VARIABLES
  mode,       \* per key: the mode of its endpoint
  event,      \* per key: whether the row exists and how old it is
  generation, \* per key: how often its row was removed
  attempts,   \* per key: the rows in order of insertion
  deliveries, \* per key: the rows in order of insertion
  reports,    \* per key: the status of the report
  jobs,       \* per key: jobs in the queue event-analysis
  request,    \* the handlers of the ingestor
  analysis,   \* the analyses of the worker
  doubtful,   \* history: the last change of an event had no analysis to itself
  spent       \* how much of each bound is used

tables == <<event, generation, attempts, deliveries, reports>>
vars == <<mode, tables, jobs, request, analysis, doubtful, spent>>

Delivery == "delivery"          \* the analysis that ends a delivery
Analyst == Analysts \cup {Delivery}

Body(msg) == IF msg = "altered" THEN "b2" ELSE "b1"
Check(msg) == CASE msg = "forged" -> "signature"
                [] msg = "unmet" -> "contract"
                [] OTHER -> "passed"

ASSUME BoundsAssumption ==
  /\ Keys # {} /\ IsFiniteSet(Keys) /\ IsFiniteSet(Requests)
  /\ Modes \subseteq {"trial", "observe", "protect"} /\ Delivery \notin Analysts
  /\ Messages \subseteq {"plain", "altered", "forged", "unmet"}
  /\ Strategies \subseteq {"single", "failover"}
  /\ Steps \in Seq({"ok", "error"}) /\ Steps # <<>> /\ RepeatLastStep \in BOOLEAN
  /\ DailyLimit \in Nat /\ MaxRequests \in Nat /\ MaxDeliveries \in Nat
  /\ MaxUpsets \in Nat

NoRequest == [pc |-> "idle", key |-> CHOOSE k \in Keys : TRUE, generation |-> 0,
              msg |-> "plain", mode |-> "trial", sequence |-> 1, row |-> 1]
NoAnalysis == [pc |-> "idle", key |-> CHOOSE k \in Keys : TRUE, generation |-> 0,
               read |-> <<>>, verdict |-> "pending", late |-> FALSE]

Spend(what, bound) == spent[what] < bound /\ spent' = [spent EXCEPT ![what] = @ + 1]
Advance(r, pc) == request' = [request EXCEPT ![r].pc = pc]
Done(r) == request' = [request EXCEPT ![r] = NoRequest]
Bump(f, k) == [f EXCEPT ![k] = @ + 1]

Init ==
  /\ mode \in [Keys -> Modes]
  /\ event = [k \in Keys |-> "none"]
  /\ generation = [k \in Keys |-> 0]
  /\ attempts = [k \in Keys |-> <<>>]
  /\ deliveries = [k \in Keys |-> <<>>]
  /\ reports = [k \in Keys |-> "none"]
  /\ jobs = [k \in Keys |-> 0]
  /\ request = [r \in Requests |-> NoRequest]
  /\ analysis = [a \in Analyst |-> NoAnalysis]
  /\ doubtful = [k \in Keys |-> FALSE]
  /\ spent = [requests |-> 0, upsets |-> 0]

(* A change nobody will analyse: what is being analysed is out of date.    *)
Unanalysed(k) ==
  /\ doubtful' = [doubtful EXCEPT ![k] = TRUE]
  /\ analysis' = [a \in Analyst |->
       IF analysis[a].pc # "idle" /\ analysis[a].key = k
       THEN [analysis[a] EXCEPT !.late = TRUE] ELSE analysis[a]]

-----------------------------------------------------------------------------
(* ingest.  Requests to an unknown, inactive or expired endpoint are       *)
(* refused before anything is written and are not followed.                *)

(* All endpoints belong to one user: the quota counts every attempt.       *)
Usage == Cardinality({x \in Keys \X (1 .. MaxRequests) :
           x[2] \in DOMAIN attempts[x[1]] /\ attempts[x[1]][x[2]].today})

OverQuotaByOne == DailyLimit > 0 /\ Usage > DailyLimit
OverQuota == DailyLimit > 0 /\ Usage >= DailyLimit

(* The endpoint's settings are read here and kept.                         *)
Receive(r, k, msg) ==
  /\ request[r].pc = "idle"
  /\ Spend("requests", MaxRequests)
  /\ IF OverQuota THEN UNCHANGED request
     ELSE request' = [request EXCEPT ![r] = [NoRequest EXCEPT
            !.pc = "find", !.key = k, !.msg = msg, !.mode = mode[k]]]
  /\ UNCHANGED <<mode, tables, jobs, analysis, doubtful>>

(* Select, insert unless another request just did, select again.           *)
FindEvent(r) ==
  LET k == request[r].key
  IN  /\ request[r].pc = "find"
      /\ event' = [event EXCEPT ![k] = IF @ = "none" THEN "fresh" ELSE @]
      /\ request' = [request EXCEPT ![r].pc = "count", ![r].generation = generation[k]]
      /\ UNCHANGED <<mode, generation, attempts, deliveries, reports, jobs, analysis, doubtful, spent>>

Found(r) == /\ event[request[r].key] # "none"
            /\ request[r].generation = generation[request[r].key]
NumberedFromZero(k) == Len(attempts[k])
Numbered(k) == Len(attempts[k]) + 1

(* Touch the event, count its attempts.                                    *)
CountAttempts(r) ==
  LET k == request[r].key
  IN  /\ request[r].pc = "count"
      /\ event' = [event EXCEPT ![k] = IF Found(r) THEN "fresh" ELSE @]
      /\ request' = [request EXCEPT ![r].pc = "insert",
                       ![r].sequence = IF Found(r) THEN Numbered(k) ELSE 1]
      /\ UNCHANGED <<mode, generation, attempts, deliveries, reports, jobs, analysis, doubtful, spent>>

(* resolveScenarioStep.                                                    *)
ResolveScenarioStep(n) ==
  IF n <= Len(Steps) THEN Steps[n]
  ELSE IF RepeatLastStep THEN Steps[Len(Steps)] ELSE "error"

(* The status stored first: 401 or 422, 202 for a managed endpoint, or the *)
(* step's.                                                                 *)
FirstStatus(r) ==
  IF Check(request[r].msg) # "passed" THEN "error"
  ELSE IF request[r].mode = "trial" THEN ResolveScenarioStep(request[r].sequence)
  ELSE "ok"

TakenNever(k, n) == attempts[k] # <<>> /\ n = 0
Taken(k, n) == \E i \in DOMAIN attempts[k] : attempts[k][i].sequence = n

(* What follows; a managed endpoint may have no active destination.        *)
AfterInsert(r) ==
  IF Check(request[r].msg) # "passed" \/ request[r].mode = "trial" THEN {"publish"}
  ELSE {"unset", IF request[r].mode = "protect" THEN "previous" ELSE "observe"}

(* The insert throws when the event is gone or another request took the    *)
(* number: the provider is answered 500 and nothing is stored.             *)
InsertAttempt(r) ==
  LET k == request[r].key
  IN  /\ request[r].pc = "insert"
      /\ IF Found(r) /\ ~Taken(k, request[r].sequence)
         THEN /\ attempts' = [attempts EXCEPT ![k] = Append(@,
                   [sequence |-> request[r].sequence, body |-> Body(request[r].msg),
                    check |-> Check(request[r].msg), status |-> FirstStatus(r),
                    today |-> TRUE])]
              /\ \E pc \in AfterInsert(r) : Advance(r, pc)
         ELSE Done(r) /\ UNCHANGED attempts
      /\ UNCHANGED <<mode, event, generation, deliveries, reports, jobs, analysis, doubtful, spent>>

(* Each request's attempt is found by its number.                          *)
SetStatus(r, status) ==
  LET k == request[r].key
  IN  attempts' = IF ~Found(r) THEN attempts
                  ELSE [attempts EXCEPT ![k] = [i \in DOMAIN @ |->
                         IF @[i].sequence = request[r].sequence
                         THEN [@[i] EXCEPT !.status = status] ELSE @[i]]]

(* A managed endpoint without a destination: 503, and no analysis.         *)
ReplyUnset(r) ==
  /\ request[r].pc = "unset"
  /\ SetStatus(r, "error")
  /\ Done(r)
  /\ Unanalysed(request[r].key)
  /\ UNCHANGED <<mode, event, generation, deliveries, reports, jobs, spent>>

(* Protect: look for a delivery of the event, ...                          *)
LookForDelivery(r) ==
  /\ request[r].pc = "previous"
  /\ Advance(r, IF deliveries[request[r].key] # <<>> THEN "publish" ELSE "accept")
  /\ UNCHANGED <<mode, tables, jobs, analysis, doubtful, spent>>

(* Only whether the strategy on a row is failover matters to the analysis. *)
NewDelivery(sequence, target, state, kind, strategy) ==
  [sequence |-> sequence, target |-> target, state |-> state, kind |-> kind,
   failover |-> strategy = "failover"]

(* ... insert one if there was none, by the policy there is; ...           *)
Accept(r) ==
  LET k == request[r].key
  IN  /\ request[r].pc = "accept"
      /\ IF Found(r)
         THEN /\ \E strategy \in Strategies :
                   deliveries' = [deliveries EXCEPT ![k] =
                     Append(@, NewDelivery(1, "target", "queued", "forward", strategy))]
              /\ Advance(r, "publish")
         ELSE Done(r) /\ UNCHANGED deliveries
      /\ UNCHANGED <<mode, event, generation, attempts, reports, jobs, analysis, doubtful, spent>>

(* Observe: a row for every attempt, each numbered 1, without a strategy,  *)
(* ...                                                                     *)
ObserveInsert(r) ==
  LET k == request[r].key
  IN  /\ request[r].pc = "observe"
      /\ IF Found(r)
         THEN /\ deliveries' = [deliveries EXCEPT ![k] =
                   Append(@, NewDelivery(1, "primary", "delivering", "forward", "none"))]
              /\ request' = [request EXCEPT ![r].pc = "forward",
                                            ![r].row = Len(deliveries[k]) + 1]
         ELSE Done(r) /\ UNCHANGED deliveries
      /\ UNCHANGED <<mode, event, generation, attempts, reports, jobs, analysis, doubtful, spent>>

SetRow(r, state) ==
  LET k == request[r].key
  IN  deliveries' = IF Found(r) THEN [deliveries EXCEPT ![k][request[r].row].state = state]
                    ELSE deliveries

(* ... the destination answers, and row and attempt are updated, ...       *)
ObserveAnswered(r) ==
  /\ request[r].pc = "forward"
  /\ \E status \in {"ok", "error"} :
       /\ SetStatus(r, status)
       /\ SetRow(r, IF status = "ok" THEN "succeeded" ELSE "failed")
  /\ Advance(r, "publish")
  /\ UNCHANGED <<mode, event, generation, reports, jobs, analysis, doubtful, spent>>

(* ... or it does not: 502 or 504, and no analysis.                        *)
ObserveFailed(r) ==
  /\ request[r].pc = "forward"
  /\ SetStatus(r, "error")
  /\ SetRow(r, "failed")
  /\ Done(r)
  /\ Unanalysed(request[r].key)
  /\ UNCHANGED <<mode, event, generation, reports, jobs, spent>>

(* Publish, ask for an analysis, reply.                                    *)
Publish(r) ==
  /\ request[r].pc = "publish"
  /\ jobs' = IF Found(r) THEN Bump(jobs, request[r].key) ELSE jobs
  /\ Done(r)
  /\ UNCHANGED <<mode, tables, analysis, doubtful, spent>>

(* Forwarding is over but Redis is not there: the catch of Observe marks   *)
(* the delivery failed and answers 502, whatever the destination said.     *)
PublishThrows(r) ==
  /\ request[r].pc = "publish" /\ Check(request[r].msg) = "passed"
  /\ request[r].mode = "observe"
  /\ Spend("upsets", MaxUpsets)
  /\ SetStatus(r, "error")
  /\ SetRow(r, "failed")
  /\ Done(r)
  /\ Unanalysed(request[r].key)
  /\ UNCHANGED <<mode, event, generation, reports, jobs>>

(* A statement throws, or the process dies.                                *)
Stored(r) == request[r].pc \in {"unset", "previous", "accept", "observe", "forward", "publish"}
HandlerDies(r) ==
  /\ request[r].pc # "idle"
  /\ Spend("upsets", MaxUpsets)
  /\ Done(r)
  /\ IF Stored(r) THEN Unanalysed(request[r].key) ELSE UNCHANGED <<doubtful, analysis>>
  /\ UNCHANGED <<mode, tables, jobs>>

-----------------------------------------------------------------------------
(* The delivery worker on a protected event, and the operator's retry,     *)
(* whose row names neither a target nor a strategy.                        *)

NextNumber(k) == Max({deliveries[k][i].sequence : i \in DOMAIN deliveries[k]}) + 1

(* By the policy when the row is exhausted, there is another target.       *)
MayFailOver(row) == "failover" \in Strategies /\ row.target # "backup"

(* A row of an endpoint no longer in Protect is left as it is.  An         *)
(* exhausted one is handed over to the next target or given up.            *)
Deliver(k, n, outcome) ==
  LET row == deliveries[k][n]
  IN  /\ row.state = "queued"
      /\ mode[k] = "protect" \/ row.kind # "forward"
      /\ analysis[Delivery].pc = "idle"
      /\ \/ outcome \in {"succeeded", "dead_letter"}
            /\ deliveries' = [deliveries EXCEPT ![k][n].state = outcome]
         \/ outcome = "retrying" /\ Len(deliveries[k]) < MaxDeliveries
            /\ deliveries' = [deliveries EXCEPT ![k] = Append(
                 [@ EXCEPT ![n].state = "retrying"],
                 [row EXCEPT !.sequence = NextNumber(k), !.kind = "retry"])]
         \/ outcome = "failed" /\ MayFailOver(row) /\ Len(deliveries[k]) < MaxDeliveries
            /\ deliveries' = [deliveries EXCEPT ![k] = Append(
                 [@ EXCEPT ![n].state = "failed"],
                 NewDelivery(NextNumber(k), "backup", "queued", "failover", "failover"))]
      /\ analysis' = [analysis EXCEPT ![Delivery] = [NoAnalysis EXCEPT
                        !.pc = "attempts", !.key = k, !.generation = generation[k]]]
      /\ UNCHANGED <<mode, event, generation, attempts, reports, jobs, request, doubtful, spent>>

(* createManualDelivery, of a row that ended without success.              *)
RetryByHand(k, n) ==
  /\ deliveries[k][n].state \in {"failed", "dead_letter"}
  /\ Len(deliveries[k]) < MaxDeliveries
  /\ Spend("upsets", MaxUpsets)
  /\ deliveries' = [deliveries EXCEPT ![k] = Append(@,
       NewDelivery(NextNumber(k), "primary", "queued", "retry", "none"))]
  /\ UNCHANGED <<mode, event, generation, attempts, reports, jobs, request, analysis, doubtful>>

(* The operator changes the mode, under way requests keep theirs.          *)
SwitchMode(k, to) ==
  /\ to # mode[k]
  /\ Spend("upsets", MaxUpsets)
  /\ mode' = [mode EXCEPT ![k] = to]
  /\ UNCHANGED <<tables, jobs, request, analysis, doubtful>>

-----------------------------------------------------------------------------
(* analyzeEvent.                                                           *)

Rows(a, table) ==
  LET k == analysis[a].key IN IF analysis[a].generation = generation[k] THEN table[k] ELSE <<>>

(* Nothing to do for an event without attempts.                            *)
Begin(a, k) ==
  analysis' = [analysis EXCEPT ![a] =
    IF attempts[k] = <<>> \/ (a = Delivery /\ @.generation # generation[k]) THEN NoAnalysis
    ELSE [NoAnalysis EXCEPT !.pc = "deliveries", !.key = k,
            !.generation = generation[k], !.read = attempts[k]]]

TakeAnalysis(a, k) ==
  /\ a \in Analysts /\ analysis[a].pc = "idle" /\ jobs[k] > 0
  /\ jobs' = [jobs EXCEPT ![k] = @ - 1]
  /\ Begin(a, k)
  /\ UNCHANGED <<mode, tables, request, doubtful, spent>>

(* The analysis at the end of a delivery reads a little later.             *)
ReadAttempts ==
  /\ analysis[Delivery].pc = "attempts"
  /\ Begin(Delivery, analysis[Delivery].key)
  /\ UNCHANGED <<mode, tables, jobs, request, doubtful, spent>>

(* The row each target ended with: the last by number.  Rows of one number *)
(* come in any order.                                                      *)
Targets(rows) == {rows[i].target : i \in DOMAIN rows}
LastOf(rows, t) ==
  {rows[i] : i \in {i \in DOMAIN rows :
     rows[i].target = t /\ \A j \in DOMAIN rows :
       rows[j].target = t => rows[j].sequence <= rows[i].sequence}}
Finals(rows) == {f \in [Targets(rows) -> UNION {LastOf(rows, t) : t \in Targets(rows)}] :
                   \A t \in Targets(rows) : f[t] \in LastOf(rows, t)}

(* The last of the attempts by number; numbers are not repeated (Gapless). *)
LastAttempt(rows) ==
  rows[CHOOSE i \in DOMAIN rows : \A j \in DOMAIN rows : rows[j].sequence <= rows[i].sequence]

Waiting == {"queued", "retrying", "delivering"}
HasFailover(rows) == \E i \in DOMAIN rows : rows[i].failover
RecoveredBySome(read, rows, f) ==
  IF DOMAIN f = {} THEN LastAttempt(read).status = "ok"
  ELSE /\ \A t \in DOMAIN f : f[t].state \notin Waiting \cup {"dead_letter"}
       /\ \E t \in DOMAIN f : f[t].state = "succeeded"

(* Recovered: no target waits or gave up and, with a row of a failover,    *)
(* some target's last delivery succeeded, else every target's; without a   *)
(* delivery the last attempt was answered 2xx.                             *)
Recovered(read, rows, f) ==
  IF DOMAIN f = {} THEN LastAttempt(read).status = "ok"
  ELSE /\ \A t \in DOMAIN f : f[t].state \notin Waiting \cup {"dead_letter"}
       /\ IF HasFailover(rows) THEN \E t \in DOMAIN f : f[t].state = "succeeded"
          ELSE \A t \in DOMAIN f : f[t].state = "succeeded"

Clean(read) == \A i \in DOMAIN read : read[i].check = "passed" /\ read[i].body = read[1].body
StatusOf(read, rows, f) ==
  IF ~Recovered(read, rows, f) THEN "pending" ELSE IF Clean(read) THEN "passed" ELSE "failed"
Verdicts(read, rows) == {StatusOf(read, rows, f) : f \in Finals(rows)}

ReadDeliveries(a) ==
  /\ analysis[a].pc = "deliveries"
  /\ \E v \in Verdicts(analysis[a].read, Rows(a, deliveries)) :
       analysis' = [analysis EXCEPT ![a].pc = "write", ![a].read = <<>>, ![a].verdict = v]
  /\ UNCHANGED <<mode, tables, jobs, request, doubtful, spent>>

KeptFirst(old, new) == IF old = "none" THEN new ELSE old
Upserted(old, new) == new

(* The upsert, which fails when the event is gone.  Other analyses of the  *)
(* event that are under way read before this one wrote.                    *)
WriteReport(a) ==
  LET k == analysis[a].key
  IN  /\ analysis[a].pc = "write"
      /\ IF analysis[a].generation = generation[k]
         THEN /\ reports' = [reports EXCEPT ![k] = Upserted(@, analysis[a].verdict)]
              /\ doubtful' = [doubtful EXCEPT ![k] = analysis[a].late]
              /\ analysis' = [b \in Analyst |->
                   IF b = a THEN NoAnalysis
                   ELSE IF analysis[b].pc \in {"deliveries", "write"} /\ analysis[b].key = k
                   THEN [analysis[b] EXCEPT !.late = TRUE] ELSE analysis[b]]
         ELSE /\ analysis' = [analysis EXCEPT ![a] = NoAnalysis]
              /\ UNCHANGED <<reports, doubtful>>
      /\ UNCHANGED <<mode, event, generation, attempts, deliveries, jobs, request, spent>>

(* The worker dies: BullMQ runs the job again, the analysis at the end of  *)
(* a delivery is lost.                                                     *)
WorkerDies(a) ==
  LET k == analysis[a].key
  IN  /\ analysis[a].pc # "idle"
      /\ Spend("upsets", MaxUpsets)
      /\ analysis' = [b \in Analyst |->
           IF b = a THEN NoAnalysis
           ELSE IF a = Delivery /\ analysis[b].key = k /\ analysis[b].pc # "idle"
           THEN [analysis[b] EXCEPT !.late = TRUE] ELSE analysis[b]]
      /\ IF a = Delivery THEN doubtful' = [doubtful EXCEPT ![k] = TRUE] /\ UNCHANGED jobs
         ELSE /\ jobs' = IF analysis[a].generation = generation[k] THEN Bump(jobs, k) ELSE jobs
              /\ UNCHANGED doubtful
      /\ UNCHANGED <<mode, tables, request>>

-----------------------------------------------------------------------------
(* The day ends: the quota starts anew, and events grow old enough for     *)
(* cleanupExpiredData, whose delete cascades.  Its jobs would find nothing.  *)

DayEnds ==
  /\ Spend("upsets", MaxUpsets)
  /\ event' = [k \in Keys |-> IF event[k] = "none" THEN "none" ELSE "old"]
  /\ attempts' = [k \in Keys |-> [i \in DOMAIN attempts[k] |->
                                    [attempts[k][i] EXCEPT !.today = FALSE]]]
  /\ UNCHANGED <<mode, generation, deliveries, reports, jobs, request, analysis, doubtful>>

CleanupExpired(k) ==
  /\ event[k] = "old"
  /\ event' = [event EXCEPT ![k] = "none"]
  /\ generation' = Bump(generation, k)
  /\ attempts' = [attempts EXCEPT ![k] = <<>>]
  /\ deliveries' = [deliveries EXCEPT ![k] = <<>>]
  /\ reports' = [reports EXCEPT ![k] = "none"]
  /\ doubtful' = [doubtful EXCEPT ![k] = FALSE]
  /\ jobs' = [jobs EXCEPT ![k] = 0]
  /\ UNCHANGED <<mode, request, analysis, spent>>

-----------------------------------------------------------------------------
RequestStep(r) ==
  \/ FindEvent(r) \/ CountAttempts(r) \/ InsertAttempt(r)
  \/ ReplyUnset(r) \/ LookForDelivery(r) \/ Accept(r)
  \/ ObserveInsert(r) \/ ObserveAnswered(r) \/ ObserveFailed(r) \/ Publish(r)

AnalysisStep(a) ==
  \/ \E k \in Keys : TakeAnalysis(a, k)
  \/ (a = Delivery /\ ReadAttempts)
  \/ ReadDeliveries(a) \/ WriteReport(a)

Provider ==
  \E r \in Requests, k \in Keys, msg \in Messages : Receive(r, k, msg)

DeliveryWorker ==
  \E k \in Keys, outcome \in {"succeeded", "retrying", "failed", "dead_letter"} :
    \E n \in DOMAIN deliveries[k] : Deliver(k, n, outcome)

Operator ==
  \E k \in Keys : \/ \E n \in DOMAIN deliveries[k] : RetryByHand(k, n)
                  \/ \E to \in Modes : SwitchMode(k, to)

Next ==
  \/ Provider \/ DeliveryWorker \/ Operator
  \/ \E r \in Requests : RequestStep(r) \/ PublishThrows(r) \/ HandlerDies(r)
  \/ \E a \in Analyst : AnalysisStep(a) \/ WorkerDies(a)
  \/ \E k \in Keys : CleanupExpired(k)
  \/ DayEnds

Spec == Init /\ [][Next]_vars

-----------------------------------------------------------------------------
(* Properties.                                                             *)

Attempt == [sequence : 1 .. MaxRequests, body : {"b1", "b2"},
            check : {"passed", "signature", "contract"}, status : {"ok", "error"},
            today : BOOLEAN]
Row == [sequence : Nat \ {0}, target : {"target", "backup", "primary"},
        kind : {"forward", "retry", "failover"}, failover : BOOLEAN,
        state : {"queued", "delivering", "succeeded", "failed", "retrying", "dead_letter"}]

TablesOK ==
  /\ event \in [Keys -> {"none", "fresh", "old"}] /\ generation \in [Keys -> Nat]
  /\ \A k \in Keys : /\ \A i \in DOMAIN attempts[k] : attempts[k][i] \in Attempt
                     /\ \A i \in DOMAIN deliveries[k] : deliveries[k][i] \in Row
  /\ reports \in [Keys -> {"none", "pending", "passed", "failed"}]
RequestsOK ==
  request \in [Requests ->
    [pc : {"idle", "find", "count", "insert", "unset", "previous", "accept",
           "observe", "forward", "publish"},
     key : Keys, generation : Nat, msg : Messages \cup {"plain"}, mode : Modes \cup {"trial"},
     sequence : 1 .. MaxRequests, row : Nat \ {0}]]
TypeOK == /\ mode \in [Keys -> Modes] /\ TablesOK /\ RequestsOK
          /\ jobs \in [Keys -> Nat] /\ doubtful \in [Keys -> BOOLEAN]

(* Attempts of an event are numbered 1, 2, 3, ... without a gap and        *)
(* without a repetition, though each number is a count read before the     *)
(* insert, while others insert, handlers die and events are removed.       *)
Gapless ==
  \A k \in Keys :
    {attempts[k][i].sequence : i \in DOMAIN attempts[k]} = 1 .. Len(attempts[k])

(* The daily limit is exceeded by no more than the requests that were      *)
(* served at once with the one that reached it.                            *)
WithinQuota == DailyLimit > 0 => Usage < DailyLimit + Cardinality(Requests)

(* The report of an event at rest is the verdict on its rows, unless a     *)
(* change had no analysis to itself: it was written by an analysis another *)
(* one overtook, or the path that made it (an unreachable destination, no  *)
(* destination, a crash) asks for none.                                    *)
Quiet(k) ==
  /\ jobs[k] = 0
  /\ \A r \in Requests : ~(Stored(r) /\ request[r].key = k)
  /\ \A a \in Analyst : analysis[a].pc = "idle" \/ analysis[a].key # k
  /\ \A i \in DOMAIN deliveries[k] : deliveries[k][i].state \notin {"queued", "delivering"}
ReportFresh ==
  \A k \in Keys : Quiet(k) /\ attempts[k] # <<>> /\ ~doubtful[k]
    => reports[k] \in Verdicts(attempts[k], deliveries[k])

(* buildReliabilityReplay on the rows of an event.                         *)
FailedRow(d) == d.state \in {"failed", "retrying", "dead_letter"}
ReplayOutcome(k, last) ==
  LET rows == deliveries[k]
      failedRows == \E i \in DOMAIN rows : FailedRow(rows[i])
      answered == LastAttempt(attempts[k]).status
  IN  IF rows # <<>>
      THEN CASE last.state = "succeeded" -> IF failedRows THEN "recovered" ELSE "delivered"
             [] last.state \in {"queued", "delivering", "retrying"} -> "protected"
             [] OTHER -> "failed"
      ELSE IF answered = "error" THEN "failed"
      ELSE IF Len(attempts[k]) > 1 THEN "recovered" ELSE "delivered"
LastRows(k) == {deliveries[k][i] : i \in {i \in DOMAIN deliveries[k] :
                  \A j \in DOMAIN deliveries[k] :
                    deliveries[k][j].sequence <= deliveries[k][i].sequence}}
Outcomes(k) == IF deliveries[k] = <<>> THEN {ReplayOutcome(k, NewDelivery(1, "target", "queued", "forward", "none"))}
               ELSE {ReplayOutcome(k, d) : d \in LastRows(k)}

(* The list of evidence shows the stored report beside the replay of the   *)
(* rows as they are.  The two do not contradict each other: an event at    *)
(* rest whose report passed is one the replay calls delivered or recovered *)
(* (unless a change had no analysis to itself, as in ReportFresh).  Rows   *)
(* are ordered by number only.  Where that leaves the verdict open, or     *)
(* leaves open which row of an event with a failover is the last, both     *)
(* views are arbitrary: see the README for the event that shows it.        *)
OneLast(k) ==
  \A i, j \in DOMAIN deliveries[k] :
    /\ \A n \in DOMAIN deliveries[k] : deliveries[k][n].sequence <= deliveries[k][i].sequence
    /\ deliveries[k][j].sequence = deliveries[k][i].sequence
    => j = i
Ordered(k) ==
  /\ \A v, w \in Verdicts(attempts[k], deliveries[k]) : v = w
  /\ HasFailover(deliveries[k]) => OneLast(k)
ReplayAgrees ==
  \A k \in Keys :
    Quiet(k) /\ attempts[k] # <<>> /\ ~doubtful[k] /\ Ordered(k) /\ reports[k] = "passed"
    => Outcomes(k) \subseteq {"delivered", "recovered"}

(* A pending report is one the analysis has not finished, not a failed     *)
(* delivery (docs/evidence-reports.md): does not hold, the worker stores   *)
(* pending of every event that did not recover.                            *)
PendingIsUnfinished ==
  \A k \in Keys : Quiet(k) /\ reports[k] = "pending" => "failed" \notin Outcomes(k)

(* A 202 of Protect is about an event that HookTrials keeps a delivery of: *)
(* one that succeeded, waits for its turn or for an operator.  A failed    *)
(* forward of Observe, from before the endpoint changed its mode, is not.  *)
AcceptedIsKept ==
  [][\A r \in Requests : LET k == request[r].key IN
       request[r].pc = "publish" /\ request[r].mode = "protect" /\ jobs'[k] > jobs[k]
         /\ request'[r].pc = "idle" /\ Check(request[r].msg) = "passed"
       => \E i \in DOMAIN deliveries[k] : deliveries[k][i].state # "failed"]_vars
=============================================================================
