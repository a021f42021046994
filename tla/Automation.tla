------------------------------- MODULE Automation -------------------------------
(***************************************************************************)
(* Requests that HookTrials' own tools send: hooktrials-trial plays the    *)
(* attempts of a provider against a Trial route, hooktrials-run and the    *)
(* button of the Live webhooks page send a synthetic event to a live one.  *)
(* Jobs run side by side while the route and the API keys change.          *)
(***************************************************************************)
EXTENDS Integers, Overrides, Sequences, SequencesExt, FiniteSetsExt

CONSTANTS
  Jobs,                       \* slots for CI jobs
  Configs,                    \* trial files: [event, expect], event "" for none
  Scenario, RepeatsLast,      \* the answers of the Trial route
  ApiKeys, ScopesOf,          \* keys that may be created, with their scopes
  FirstLines, LineUpdates,    \* how the live route is set up; what a change sets
  Codes,                      \* answers of the destination
  DailyLimit,                 \* requests the ingestor accepts in a day
  MaxJobs, MaxLineChanges, MaxKeyChanges, MaxTime, MaxLost    \* bounds

(* A trial file expects at least one status, and an event of its own is    *)
(* none that the API generates.                                            *)
ASSUME AutomationAssumption ==
  /\ Len(Scenario) > 0 /\ RepeatsLast \in BOOLEAN
  /\ \A c \in Configs : c.expect \in Seq(Nat) /\ Len(c.expect) > 0 /\ c.event # "evt_ht"
  /\ DailyLimit \in Nat /\ MaxJobs \in Nat /\ MaxLineChanges \in Nat /\ MaxKeyChanges \in Nat
  /\ MaxTime \in Nat /\ MaxLost \in Nat

VARIABLES
  line,          \* the settings of the route the jobs use
  apiKeys,       \* "none", "active" or "revoked", for each key
  attemptsMade,  \* what the ingestor recorded, in order
  belated,          \* requests whose client gave up before they arrived
  jobs,          \* the jobs
  keyPage,       \* the secret on the page of the API keys, NoSecret for none
  now,           \* milliseconds
  spent          \* what is used up of the bounds

automationVars == <<line, apiKeys, attemptsMade, belated, jobs, keyPage, now, spent>>

NoJob == [stage |-> "none"]
NoSecret == "none"
NoAnswer == 0

AutomationInit ==
  /\ line \in FirstLines /\ apiKeys = [k \in ApiKeys |-> "none"]
  /\ attemptsMade = <<>> /\ belated = <<>> /\ jobs = [j \in Jobs |-> NoJob] /\ keyPage = NoSecret
  /\ now = 0 /\ spent = [jobs |-> 0, line |-> 0, keys |-> 0, lost |-> 0]

Spent(what, bound) == spent[what] < bound /\ spent' = [spent EXCEPT ![what] = @ + 1]
Frees(j) == /\ jobs' = [jobs EXCEPT ![j] = NoJob]
            /\ UNCHANGED <<line, apiKeys, attemptsMade, belated, keyPage, now, spent>>

-----------------------------------------------------------------------------
(* The ingestor: the event is known by its key, the answer follows from    *)
(* the attempts of the event so far.                                       *)

resolveScenarioStep(n) ==
  IF n <= Len(Scenario) THEN Scenario[n] ELSE IF RepeatsLast THEN Last(Scenario) ELSE 410

BeforeOnRoute(event) == Len(attemptsMade)
Before(event) == Cardinality({i \in DOMAIN attemptsMade : attemptsMade[i].event = event})
SequenceOf(event) == Before(event) + 1

NotTaken(code) == [recorded |-> FALSE, code |-> code]
(* A request is [event, from, token, signed, shaped].                      *)
Ingested(request, code) ==
  IF request.token # line.token \/ ~line.active THEN NotTaken(404)
  ELSE IF Len(attemptsMade) >= DailyLimit THEN NotTaken(429)
  ELSE [recorded |-> TRUE,
        code |-> IF line.signature # "none" /\ request.signed # line.secret THEN 401
                 ELSE IF line.demands /\ ~request.shaped THEN 422
                 ELSE CASE line.mode = "trial" -> resolveScenarioStep(SequenceOf(request.event))
                        [] line.mode = "observe" -> code
                        [] OTHER -> 202]    \* protect
Records(request, result) ==
  attemptsMade' = IF result.recorded
                  THEN Append(attemptsMade, [event |-> request.event, from |-> request.from,
                                             code |-> result.code])
                  ELSE attemptsMade

-----------------------------------------------------------------------------
(* hooktrials-trial.  A run keeps its event for all attempts; a request    *)
(* that takes too long counts as an attempt without an answer.             *)

PlainTrial == line.active /\ line.mode = "trial" /\ line.signature = "none" /\ ~line.demands
ParseTrialConfig(j, config) ==
  /\ jobs[j] = NoJob /\ Spent("jobs", MaxJobs)
  /\ jobs' = [jobs EXCEPT ![j] =
       [stage |-> "trying", from |-> spent.jobs, expect |-> config.expect, actual |-> <<>>,
        event |-> IF config.event = "" THEN <<"ht-ci", now>> ELSE <<config.event, 0>>,
        token |-> line.token, steady |-> PlainTrial]]
  /\ UNCHANGED <<line, apiKeys, attemptsMade, belated, keyPage, now>>

TrialRequest(job) ==
  [event |-> job.event, from |-> job.from, token |-> job.token, signed |-> "", shaped |-> FALSE]
Trying(j) == jobs[j].stage = "trying" /\ Len(jobs[j].actual) < Len(jobs[j].expect)
Saw(j, code) == jobs' = [jobs EXCEPT ![j].actual = Append(@, code)]

AttemptAnswered(j) ==
  /\ Trying(j)
  /\ LET result == Ingested(TrialRequest(jobs[j]), 0)
     IN  Records(TrialRequest(jobs[j]), result) /\ Saw(j, result.code)
  /\ UNCHANGED <<line, apiKeys, belated, keyPage, now, spent>>
AttemptUnanswered(j) ==
  /\ Trying(j) /\ Spent("lost", MaxLost) /\ Saw(j, NoAnswer)
  /\ \/ /\ Records(TrialRequest(jobs[j]), Ingested(TrialRequest(jobs[j]), 0))
        /\ UNCHANGED belated
     \/ belated' = Append(belated, TrialRequest(jobs[j])) /\ UNCHANGED attemptsMade
  /\ UNCHANGED <<line, apiKeys, keyPage, now>>
Arrives ==
  /\ belated # <<>> /\ belated' = Tail(belated)
  /\ Records(Head(belated), Ingested(Head(belated), 0))
  /\ UNCHANGED <<line, apiKeys, jobs, keyPage, now, spent>>

Finished(j) == jobs[j].stage = "trying" /\ Len(jobs[j].actual) = Len(jobs[j].expect)
Passed(j) == \A i \in DOMAIN jobs[j].expect : jobs[j].actual[i] = jobs[j].expect[i]
ReportTrial(j) == Finished(j) /\ Frees(j)

-----------------------------------------------------------------------------
(* hooktrials-run and the page: the API reads the route, makes an event    *)
(* that fits it, sends it to the ingestor and looks the event up.          *)

AskWithKey(j, k) ==
  /\ jobs[j] = NoJob /\ apiKeys[k] # "none" /\ Spent("jobs", MaxJobs)
  /\ jobs' = [jobs EXCEPT ![j] = [stage |-> "asked", from |-> spent.jobs, key |-> k]]
  /\ UNCHANGED <<line, apiKeys, attemptsMade, belated, keyPage, now>>
AskFromPage(j) ==
  /\ jobs[j] = NoJob /\ Spent("jobs", MaxJobs)
  /\ jobs' = [jobs EXCEPT ![j] = [stage |-> "authorised", from |-> spent.jobs, key |-> "page"]]
  /\ UNCHANGED <<line, apiKeys, attemptsMade, belated, keyPage, now>>

MayUse(k, scope) == apiKeys[k] = "active" /\ scope \in ScopesOf[k]
RequireApiKey(j) ==
  /\ jobs[j].stage = "asked"
  /\ jobs' = [jobs EXCEPT ![j].stage =
       IF MayUse(jobs[j].key, "write") THEN "authorised" ELSE "refused"]
  /\ UNCHANGED <<line, apiKeys, attemptsMade, belated, keyPage, now, spent>>

(* The event is signed as its starter does it, if the secret is for it.    *)
SyntheticSignature == IF line.starter = line.signature THEN line.secret ELSE ""
TriggerSyntheticEvent(j) ==
  /\ jobs[j].stage = "authorised"
  /\ jobs' = [jobs EXCEPT ![j] =
       IF ~line.active \/ line.mode = "trial" THEN [@ EXCEPT !.stage = "refused"]
       ELSE [stage |-> "sent", key |-> @.key, mode |-> line.mode,
             request |-> [event |-> <<"evt_ht", @.from>>, from |-> @.from, token |-> line.token,
                          signed |-> SyntheticSignature, shaped |-> ~line.exact]]]
  /\ UNCHANGED <<line, apiKeys, attemptsMade, belated, keyPage, now, spent>>
ReachIngestor(j, code) ==
  /\ jobs[j].stage = "sent"
  /\ LET result == Ingested(jobs[j].request, code)
     IN  /\ Records(jobs[j].request, result)
         /\ jobs' = [jobs EXCEPT ![j] = [stage |-> "answered", key |-> @.key, mode |-> @.mode,
                                         request |-> @.request, code |-> result.code]]
  /\ UNCHANGED <<line, apiKeys, belated, keyPage, now, spent>>

(* The ingestor does not answer, or not what the API takes for an answer,  *)
(* be the request recorded or not.                                         *)
MissIngestor(j) ==
  /\ jobs[j].stage \in {"sent", "answered"}
  /\ jobs' = [jobs EXCEPT ![j] = [stage |-> "refused", key |-> @.key]]
  /\ UNCHANGED <<line, apiKeys, attemptsMade, belated, keyPage, now, spent>>

FoundOnRoute(request) == {a \in ToSet(attemptsMade) : a.event[1] = request.event[1]}
FoundFor(request) == {a \in ToSet(attemptsMade) : a.event = request.event}
LookUp(j) ==
  /\ jobs[j].stage = "answered"
  /\ jobs' = [jobs EXCEPT ![j] =
       [stage |-> "printed", key |-> @.key, mode |-> @.mode, request |-> @.request,
        code |-> @.code, found |-> FoundFor(@.request), accepted |-> FoundFor(@.request) # {}]]
  /\ UNCHANGED <<line, apiKeys, attemptsMade, belated, keyPage, now, spent>>
Report(j) == jobs[j].stage \in {"printed", "refused"} /\ Frees(j)

-----------------------------------------------------------------------------
(* Meanwhile: the route and the keys change.                               *)

ChangeLine(update) ==
  /\ Spent("line", MaxLineChanges) /\ line' = Over(update, line)
  /\ jobs' = [j \in Jobs |-> IF jobs[j].stage = "trying" THEN [jobs[j] EXCEPT !.steady = FALSE]
                             ELSE jobs[j]]
  /\ UNCHANGED <<apiKeys, attemptsMade, belated, keyPage, now>>
RotateToken ==
  /\ Spent("line", MaxLineChanges) /\ line' = [line EXCEPT !.token = @ + 1]
  /\ jobs' = [j \in Jobs |-> IF jobs[j].stage = "trying" THEN [jobs[j] EXCEPT !.steady = FALSE]
                             ELSE jobs[j]]
  /\ UNCHANGED <<apiKeys, attemptsMade, belated, keyPage, now>>
CreateKey(k) ==
  /\ apiKeys[k] = "none" /\ Spent("keys", MaxKeyChanges)
  /\ apiKeys' = [apiKeys EXCEPT ![k] = "active"] /\ keyPage' = k
  /\ UNCHANGED <<line, attemptsMade, belated, jobs, now>>
RevokeKey(k) ==
  /\ apiKeys[k] = "active" /\ Spent("keys", MaxKeyChanges)
  /\ apiKeys' = [apiKeys EXCEPT ![k] = "revoked"] /\ keyPage' = NoSecret
  /\ UNCHANGED <<line, attemptsMade, belated, jobs, now>>
LeaveKeyPage ==
  /\ keyPage # NoSecret /\ keyPage' = NoSecret
  /\ UNCHANGED <<line, apiKeys, attemptsMade, belated, jobs, now, spent>>
Passes == now < MaxTime /\ now' = now + 1
          /\ UNCHANGED <<line, apiKeys, attemptsMade, belated, jobs, keyPage, spent>>

-----------------------------------------------------------------------------
TrialNext ==
  \/ \E j \in Jobs : \/ \E c \in Configs : ParseTrialConfig(j, c)
                     \/ AttemptAnswered(j) \/ AttemptUnanswered(j) \/ ReportTrial(j)
  \/ Arrives \/ Passes
  \/ \E update \in LineUpdates : ChangeLine(update)
SyntheticNext ==
  \/ \E j \in Jobs : \/ \E k \in ApiKeys : AskWithKey(j, k)
                     \/ \E code \in Codes : ReachIngestor(j, code)
                     \/ AskFromPage(j) \/ RequireApiKey(j) \/ TriggerSyntheticEvent(j)
                     \/ MissIngestor(j) \/ LookUp(j) \/ Report(j)
  \/ RotateToken \/ LeaveKeyPage
  \/ \E update \in LineUpdates : ChangeLine(update)
  \/ \E k \in ApiKeys : CreateKey(k) \/ RevokeKey(k)

AutomationSpec == AutomationInit /\ [][TrialNext \/ SyntheticNext]_automationVars

-----------------------------------------------------------------------------
(* Properties.                                                             *)

Alone(j) ==
  /\ \A a \in ToSet(attemptsMade) : a.event = jobs[j].event => a.from = jobs[j].from
  /\ \A r \in ToSet(belated) : r.event # jobs[j].event

(* A trial that had its event to itself, a route that did not change and   *)
(* an answer to every request passes exactly if it expects the scenario,   *)
(* and an event that is printed as recorded is the one of the job, with    *)
(* the status it was answered with, whatever other jobs and the route do.  *)
VerdictIsOwn ==
  \A j \in Jobs :
    /\ Finished(j) /\ Alone(j) /\ jobs[j].steady /\ Len(attemptsMade) < DailyLimit
       /\ NoAnswer \notin ToSet(jobs[j].actual)
       => (Passed(j) <=> \A i \in DOMAIN jobs[j].expect :
                           jobs[j].expect[i] = resolveScenarioStep(i))
    /\ jobs[j].stage = "printed" /\ jobs[j].accepted
       => jobs[j].found = {[event |-> jobs[j].request.event, from |-> jobs[j].request.from,
                            code |-> jobs[j].code]}

(* A trial file with an event of its own can be run again: does not hold,  *)
(* the scenario goes on where the last run left it.                        *)
Repeatable ==
  \A j \in Jobs :
    Finished(j) /\ jobs[j].steady /\ belated = <<>> /\ Len(attemptsMade) < DailyLimit
    /\ NoAnswer \notin ToSet(jobs[j].actual)
    /\ (\A o \in Jobs \ {j} : jobs[o].stage = "none")
    /\ (\A a \in ToSet(attemptsMade) : a.event = jobs[j].event)
    /\ (\A i \in DOMAIN jobs[j].expect : jobs[j].expect[i] = resolveScenarioStep(i))
    => Passed(j)

(* The event of a run without one of its own is unique: does not hold of   *)
(* two runs that start within a millisecond.                               *)
UniqueRunId ==
  \A i, j \in Jobs :
    i # j /\ jobs[i].stage = "trying" /\ jobs[j].stage = "trying" /\ jobs[i].event = jobs[j].event
    => jobs[i].event[1] # "ht-ci"

(* What the page calls recorded is recorded: does not hold, it does not    *)
(* look at accepted.                                                       *)
RecordedIsRecorded ==
  \A j \in Jobs : jobs[j].stage = "printed" /\ jobs[j].key = "page" => jobs[j].found # {}

(* The status that hooktrials-run prints is the destination's: does not    *)
(* hold of Protect, nor of a request that the ingestor rejects.            *)
DestinationStatus ==
  \A j \in Jobs : jobs[j].stage = "printed" /\ jobs[j].accepted /\ jobs[j].key # "page"
                  => jobs[j].code \in Codes

(* The secret of a new key stays on the page until the page is left: does  *)
(* not hold, revoking another key hides it.                                *)
SecretStays ==
  [][keyPage # NoSecret /\ keyPage' # keyPage
     => LeaveKeyPage \/ (\E k \in ApiKeys : CreateKey(k)) \/ RevokeKey(keyPage)]_automationVars
=============================================================================
