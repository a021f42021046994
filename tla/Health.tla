-------------------------------- MODULE Health --------------------------------
(***************************************************************************)
(* What HookTrials says of a route: whether a request is signed and keeps  *)
(* the contract, the state and the score of the route, its production      *)
(* readiness, and the replay of an event.  All are computed from the same  *)
(* attempts, deliveries and incidents, each by a function of its own.      *)
(* One request is handled at a time here: Ingest has the interleavings.    *)
(***************************************************************************)
EXTENDS Integers, Sequences, SequencesExt, FiniteSetsExt, Selections

CONSTANTS
  Events, Aimed,       \* events; the active targets of the route, in order
  FirstRoutes,         \* how the route may be set up
  RouteUpdates,        \* what a change of its settings may set
  Received,            \* requests of a provider: [signed, conforms]
  Answered,            \* status codes a destination or a scenario answers with
  ScoreDepth,             \* attempts and deliveries a score looks at
  TryBudget,              \* requests to a target before it is given up
  MaxReceived, MaxUpdates, MaxDeliveries    \* bounds

ASSUME HealthAssumption ==
  /\ Len(Aimed) \in Nat \ {0} /\ DOMAIN Aimed = 1..Len(Aimed)
  /\ ScoreDepth \in Nat \ {0} /\ TryBudget \in Nat \ {0}
  /\ MaxReceived \in Nat /\ MaxUpdates \in Nat /\ MaxDeliveries \in Nat
  /\ Answered \subseteq 100..599

VARIABLES
  webhook,     \* the settings of the route
  attempted,   \* attempts, in the order they were received
  sends,        \* deliveries, in the order they were inserted
  ticks,       \* the time, counted in starts of deliveries
  troubled,    \* an incident of the route is open
  passed,      \* events with a report that passed
  updates      \* changes of the settings

healthVars == <<webhook, attempted, sends, ticks, troubled, passed, updates>>

HealthInit ==
  /\ webhook \in FirstRoutes /\ attempted = <<>> /\ sends = <<>> /\ ticks = 0
  /\ troubled = FALSE /\ passed = {} /\ updates = 0

-----------------------------------------------------------------------------
(* The checks of a request.                                                *)

(* GitHub signs the body; Stripe signs a time with it that must be recent. *)
verifyWebhookSignature(request) ==
  CASE webhook.provider = "none" -> "not_configured"
    [] webhook.provider # "none" /\ ~webhook.secret -> "invalid"
    [] webhook.provider # "none" /\ webhook.secret /\ request.signed = "absent" -> "missing"
    [] webhook.provider = "stripe" /\ webhook.secret /\ request.signed = "old" -> "stale"
    [] OTHER -> IF request.signed = "forged" THEN "invalid" ELSE "valid"
evaluateWebhookContract(request) ==
  [configured |-> webhook.contract, passed |-> webhook.contract => request.conforms]

Unsigned == {"invalid", "missing", "stale"}
OutOfContract(attempt) == attempt.contract.configured /\ ~attempt.contract.passed

-----------------------------------------------------------------------------
(* The ingestor.                                                           *)

AttemptsOf(e) == Selected(attempted, {i \in DOMAIN attempted : attempted[i].event = e})
RowsOf(e) == Selected(sends, {i \in DOMAIN sends : sends[i].event = e})
Inspected(e, request, status) ==
  [event |-> e, signature |-> verifyWebhookSignature(request),
   contract |-> evaluateWebhookContract(request), status |-> status]
Row(e, target, sequence, kind, state, code) ==
  [event |-> e, target |-> target, sequence |-> sequence, kind |-> kind, state |-> state,
   code |-> code, tries |-> 1, started |-> ticks + sequence]

Reject(e, request, status) ==
  /\ attempted' = Append(attempted, Inspected(e, request, status)) /\ troubled' = TRUE
  /\ UNCHANGED <<sends, ticks>>
Trial(e, request, code) ==
  /\ attempted' = Append(attempted, Inspected(e, request, code))
  /\ UNCHANGED <<sends, ticks, troubled>>
(* A forward of Observe has number 1, of a provider's retry too.           *)
Observe(e, request, code) ==
  /\ Len(sends) < MaxDeliveries
  /\ attempted' = Append(attempted, Inspected(e, request, code))
  /\ sends' = Append(sends,
       Row(e, Aimed[1], 1, "forward", IF code < 300 THEN "succeeded" ELSE "failed", code))
  /\ ticks' = ticks + 1 /\ troubled' = (code >= 300)
Protect(e, request) ==
  /\ attempted' = Append(attempted, Inspected(e, request, 202))
  /\ IF RowsOf(e) # <<>> THEN UNCHANGED <<sends, ticks>>
     ELSE /\ Len(sends) + Len(Aimed) <= MaxDeliveries
          /\ sends' = sends \o [i \in DOMAIN Aimed |-> Row(e, Aimed[i], i, "forward", "queued", 0)]
          /\ ticks' = ticks + Len(Aimed)
  /\ UNCHANGED troubled
(* A route that is not in Trial has a destination.                         *)
Ingest(e, request, code) ==
  LET signature == verifyWebhookSignature(request)
  IN  /\ webhook.active /\ Len(attempted) < MaxReceived
      /\ CASE signature \in Unsigned -> Reject(e, request, 401)
           [] signature \notin Unsigned /\ ~evaluateWebhookContract(request).passed ->
                Reject(e, request, 422)
           [] OTHER ->
                \/ webhook.mode = "trial" /\ Trial(e, request, code)
                \/ webhook.mode = "observe" /\ Observe(e, request, code)
                \/ webhook.mode = "protect" /\ Protect(e, request)
      /\ UNCHANGED <<webhook, passed, updates>>

(* The worker.                                                             *)
BeginDelivery(i) ==
  /\ sends[i].state = "queued" /\ ticks' = ticks + 1
  /\ sends' = [sends EXCEPT ![i].state = "delivering", ![i].started = ticks + 1]
  /\ UNCHANGED <<webhook, attempted, troubled, passed, updates>>
EndDelivery(i, code) ==
  LET row == sends[i]
      settled(state) == [sends EXCEPT ![i].state = state, ![i].code = code]
      next == Max({r.sequence : r \in ToSet(RowsOf(row.event))}) + 1
  IN  /\ row.state = "delivering" /\ troubled' = (code >= 300)
      /\ \/ code < 300 /\ sends' = settled("succeeded") /\ UNCHANGED ticks
         \/ code >= 300 /\ row.tries >= TryBudget /\ sends' = settled("dead_letter") /\ UNCHANGED ticks
         \/ /\ code >= 300 /\ row.tries < TryBudget /\ Len(sends) < MaxDeliveries
            /\ sends' = Append(settled("retrying"),
                 [row EXCEPT !.kind = "retry", !.state = "queued", !.tries = @ + 1,
                             !.sequence = next, !.started = ticks + 1])
            /\ ticks' = ticks + 1
      /\ UNCHANGED <<webhook, attempted, passed, updates>>

(* The report passes when the last delivery to each target succeeded, or   *)
(* without deliveries the last attempt, and nothing was rejected.          *)
Finals(e) ==
  {r \in ToSet(RowsOf(e)) :
     \A other \in ToSet(RowsOf(e)) : other.target = r.target => other.sequence <= r.sequence}
analyzeEvent(e) ==
  LET own == AttemptsOf(e)
      recovered == IF RowsOf(e) # <<>> THEN \A r \in Finals(e) : r.state = "succeeded"
                   ELSE Last(own).status \in 200..299
  IN  /\ own # <<>>
      /\ passed' = IF recovered /\ \A a \in ToSet(own) : a.signature \notin Unsigned /\ ~OutOfContract(a)
                   THEN passed \cup {e} ELSE passed \ {e}
      /\ UNCHANGED <<webhook, attempted, sends, ticks, troubled, updates>>

ChangeRoute(update) ==
  /\ updates < MaxUpdates /\ updates' = updates + 1
  /\ webhook' = update @@ webhook
  /\ webhook'.mode # "trial" => webhook'.destination
  /\ webhook'.provider # "none" => webhook'.secret
  /\ UNCHANGED <<attempted, sends, ticks, troubled, passed>>

-----------------------------------------------------------------------------
(* What is said of the route, from its latest attempts and deliveries.     *)

RecentAttempts == SubSeq(attempted, Max({1, Len(attempted) - ScoreDepth + 1}), Len(attempted))
RecentRows ==
  {i \in DOMAIN sends : Cardinality({j \in DOMAIN sends : sends[j].started > sends[i].started}) < ScoreDepth}
FailuresOfProtect == {"retrying", "dead_letter"}
ScoredFailures == {"failed", "retrying", "dead_letter"}
RowsIn(states) == Cardinality({i \in RecentRows : sends[i].state \in states})

Latest == CHOOSE i \in DOMAIN sends : \A j \in DOMAIN sends : sends[j].started <= sends[i].started
RouteState ==
  CASE ~webhook.active -> "paused"
    [] webhook.active /\ sends = <<>> -> "new"
    [] OTHER -> CASE sends[Latest].state = "succeeded" -> "healthy"
                  [] sends[Latest].state \in {"queued", "delivering", "retrying"} -> "degraded"
                  [] OTHER -> "down"

PartOf(part, whole, points) == (part * points + Max({1, whole}) - 1) \div Max({1, whole})
AttemptsWhere(Test(_)) == Cardinality({i \in DOMAIN RecentAttempts : Test(RecentAttempts[i])})
calculateWebhookScore ==
  LET retries == Cardinality({i \in RecentRows : sends[i].kind = "retry"})
      unsigned == AttemptsWhere(LAMBDA a : a.signature \in Unsigned)
  IN  Max({0, 100
        - Min({35, PartOf(RowsIn(ScoredFailures), Cardinality(RecentRows), 35)})
        - Min({15, 3 * retries})
        - Min({25, 15 * RowsIn({"dead_letter"})})
        - Min({15, 5 * unsigned})
        - Min({10, 2 * AttemptsWhere(OutOfContract)})
        - (IF troubled THEN 15 ELSE 0)})

RecoveryShown ==
  \/ \E i \in RecentRows : sends[i].state = "succeeded" /\ sends[i].sequence > 1
  \/ Len(attempted) > 1 /\ Last(attempted).status \in 200..299
ReadinessChecks(external) ==
  {[code |-> "active", points |-> 5, passed |-> webhook.active],
   [code |-> "external_access", points |-> 10, passed |-> external],
   [code |-> "contract", points |-> 15, passed |-> webhook.contract],
   [code |-> "signature", points |-> 15, passed |-> webhook.secret],
   [code |-> "destination", points |-> 10, passed |-> webhook.destination],
   [code |-> "protect", points |-> 15, passed |-> webhook.mode = "protect"],
   [code |-> "traffic", points |-> 10, passed |-> attempted # <<>>],
   [code |-> "recovery", points |-> 10, passed |-> RecoveryShown],
   [code |-> "evidence", points |-> 5, passed |-> passed # {}],
   [code |-> "incident", points |-> 5, passed |-> ~troubled]}
calculateIntegrationReadiness(external) ==
  LET score == MapThenSumSet(LAMBDA c : IF c.passed THEN c.points ELSE 0, ReadinessChecks(external))
  IN  IF score >= 85 THEN "production_ready" ELSE IF score >= 55 THEN "developing" ELSE "starting"

-----------------------------------------------------------------------------
(* The replay of an event.  The evidence orders its deliveries by their    *)
(* number, the inspector by their start.                                   *)

LastByNumber(e) == {r \in ToSet(RowsOf(e)) : \A o \in ToSet(RowsOf(e)) : o.sequence <= r.sequence}
LastByStart(e) == {r \in ToSet(RowsOf(e)) : \A o \in ToSet(RowsOf(e)) : o.started <= r.started}

Failures == {"failed", "retrying", "dead_letter"}
Outcome(last, failed) ==
  CASE last.state = "succeeded" -> IF failed # {} THEN "recovered" ELSE "delivered"
    [] last.state \in {"queued", "delivering", "retrying"} -> "protected"
    [] OTHER -> "failed"
OutcomeOfTrial(own) ==
  LET status == Last(own).status
  IN  CASE status \in 200..299 -> IF Len(own) > 1 THEN "recovered" ELSE "delivered"
        [] status >= 400 -> "failed"
        [] OTHER -> "received"
Integrity(own) ==
  IF \E a \in ToSet(own) : a.signature \in Unsigned THEN "signature"
  ELSE IF \E a \in ToSet(own) : OutOfContract(a) THEN "contract" ELSE "passed"
Runbook(own, last, failed, outcome) ==
  (IF \E a \in ToSet(own) : a.signature \in Unsigned THEN {"verify the secret"} ELSE {})
  \cup (IF \E a \in ToSet(own) : OutOfContract(a) THEN {"compare the contract"} ELSE {})
  \cup (IF last.state = "dead_letter" THEN {"retry the dead letter"} ELSE {})
  \cup (IF \E r \in failed : r.code = 429 THEN {"review the rate limit"} ELSE {})
  \cup (IF \E r \in failed : r.code >= 500 THEN {"check the destination"} ELSE {})
  \cup (IF outcome = "recovered" THEN {"share the evidence"} ELSE {})
ReplayOf(e, last) ==
  LET own == AttemptsOf(e)
      failed == {r \in ToSet(RowsOf(e)) : r.state \in Failures}
      outcome == IF RowsOf(e) = <<>> THEN OutcomeOfTrial(own) ELSE Outcome(last, failed)
  IN  [outcome |-> outcome, integrity |-> Integrity(own),
       actions |-> Runbook(own, last, failed, outcome)]
NoRow == [state |-> "none"]
Replays(e) ==
  {ReplayOf(e, last) : last \in IF RowsOf(e) = <<>> THEN {NoRow}
                                ELSE LastByNumber(e) \cup LastByStart(e)}

-----------------------------------------------------------------------------
HealthNext ==
  \/ \E e \in Events : analyzeEvent(e) \/ \E r \in Received, code \in Answered : Ingest(e, r, code)
  \/ \E i \in DOMAIN sends : BeginDelivery(i) \/ \E code \in Answered : EndDelivery(i, code)
  \/ \E update \in RouteUpdates : ChangeRoute(update)

HealthSpec == HealthInit /\ [][HealthNext]_healthVars

-----------------------------------------------------------------------------
(* Properties.                                                             *)

(* While the history is within what a score looks at, a full score of a    *)
(* live route means that the replays have nothing to report: no rejected   *)
(* attempt, no failed delivery, no advice.                                 *)
FullScoreIsClean ==
  /\ calculateWebhookScore = 100 /\ Len(attempted) <= ScoreDepth /\ Len(sends) <= ScoreDepth
  => \A e \in {a.event : a \in ToSet(attempted)} : \A replay \in Replays(e) :
       /\ replay.integrity = "passed"
       /\ RowsOf(e) # <<>> => replay.actions = {}

(* An event of which a target was given up is called failed: does not      *)
(* hold, the last delivery of whichever target decides.                    *)
ExhaustedIsFailed ==
  \A e \in Events : (\E r \in Finals(e) : r.state = "dead_letter")
    => \A replay \in Replays(e) : replay.outcome \in {"failed", "protected"}

(* Readiness says that recovery was demonstrated only after a failure:     *)
(* does not hold, two events without one are enough.                       *)
RecoveryOfFailure ==
  RecoveryShown => \/ \E a \in ToSet(attempted) : a.status >= 400
                   \/ \E r \in ToSet(sends) : r.state \in Failures

(* Readiness says that the signature is verified only while it is: does    *)
(* not hold once the provider is set to none, which keeps the secret.      *)
SignatureIsVerified ==
  \A c \in ReadinessChecks(TRUE) :
    c.code = "signature" /\ c.passed => webhook.provider # "none"

(* A route is called healthy only if none of its targets was given up:     *)
(* does not hold, the delivery that began last decides.                    *)
HealthyHasNoDeadLetter ==
  RouteState = "healthy" => \A e \in Events : \A r \in Finals(e) : r.state # "dead_letter"
=============================================================================
