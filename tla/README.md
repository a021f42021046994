# HookTrials in TLA+

HookTrials receives webhooks, records them, replays or forwards them to their
destinations, watches HTTP and ICMP targets, opens incidents and tells people
about them.  This directory holds TLA+ models of its core protocols, the TLC
configurations that check them on small instances and the TLAPS proofs of what
holds for every instance.  Paths below are relative to `src/`; `PROJECT.json`
maps every definition to the lines it models.

| module | what it is |
| --- | --- |
| `DeliveryEngine` | the pure delivery rules: retry budget, failover order, idempotency key, backoff |
| `ProtectDelivery` | the Protect pipeline: ingestor, queue, delivery worker, scheduler, operator, crashes |
| `DeliveryOutcome` | the abstract promise of that pipeline, which `ProtectDelivery` refines |
| `Ingest` | recording of events and attempts in all three modes, observed deliveries, reports, retention |
| `IncidentAlerts` | incidents of a webhook resource and the alert worker |
| `Monitoring` | scheduler, locks and checks of monitors, and their incidents |
| `Reliability` | availability objectives: the error budget of the worker and that of the page |
| `Health` | what a route's attempts and deliveries amount to: verdicts, state, score, readiness, replay |
| `Accounts` | registration, sessions, links by mail, invitations and roles |
| `Catalogue` | scenarios, endpoints, monitors, pages, the alert channel, and Demo Lab under its lock |
| `RouteSettings` | partial changes of a route and the form that sends them |
| `IncidentCenter` | triage of incidents, recovery of dead letters, and their page |
| `Sharing` | evidence and its links, public status pages |
| `History` | the audit hook, and the lists that are read page by page |
| `Automation` | trials and synthetic events of the command line and the API, keys |
| `Outbound` | the network policy in front of each outbound request |
| `Console` | the overview and the route form, whose requests race with the API |
| `MonitorPage` | the monitoring page |
| `Import` | monitors made from an OpenAPI document in the browser |
| `Overrides` | `f` where it is defined and `g` elsewhere, for three of the modules above |
| `Selections` | the entries of a list at some of its positions, in order, for `Import` and `Health` |
| `MCProtectDelivery`, `MCIngest`, `MCIncidentAlerts`, `MCMonitoring`, `MCWorkspace`, `MCPages` | the instances TLC checks |
| `ProtectDelivery_proofs`, `ProtectDelivery_promises`, `Ingest_proofs`, `IncidentAlerts_proofs`, `Monitoring_proofs`, `Workspace_proofs`, `Pages_proofs` | theorems and proofs |
| `Sums` | lemmas on least elements and on the sums that `MapThenSumSet` computes |

## 1. The system

Three Node processes share PostgreSQL, which is the source of truth, and Redis,
which holds BullMQ's queues and a few locks.  The *ingestor* takes webhooks,
the *API* serves the operator and the web interface, the *worker*, a single
process, runs four queues (analysis, deliveries, alerts, monitor checks) and
two timers (monitors every 15 s, deliveries every 10 s).  Messages between
processes are BullMQ jobs and rows of the database; no process calls another.

| component | state | operations | hard behaviour | correct when |
| --- | --- | --- | --- | --- |
| Protect delivery: ingestor 439-546, worker 301-316, 367-704, 1130-1155, API 5008-5087 | `destination_deliveries`, `endpoints`, queue `destination-deliveries`, lock chains in memory | check, insert, enqueue, reply; start, lock, request, record, retry, fail over, dead-letter; schedule; retry and replay by hand; patch | crash at any statement, stalled jobs, lost adds, policy and mode changed under a running delivery, retries of the provider | an acknowledged event is on record and ends once; a target gets one request at a time, within its budget, under one key |
| incidents and alerts: ingestor 193-266, worker 318-365, 706-820, API 3079-3208 | `incidents`, `alert_channels`, `alert_deliveries`, queue `incident-alerts` | open, refresh, recover, announce; take, record, notify, update; put and delete the channel | reads and writes in separate statements, job rerun while its first run goes on, channel replaced under a run | a channel hears of each alert at most once and on record, of no recovery that did not happen, and of openings it wants |
| monitors: worker 55-76, 845-1128, API 2500-2740, monitor-engine | `monitors`, `monitor_checks`, `incidents`, queue `monitor-checks`, leases in Redis | claim, add, run now, pause, resume, edit; take a slot and a lock, check, commit, announce, release | leases that expire, stalled jobs with the same token, stale counters, passes that overlap | no overlapping checks, an interval makes one check, state, incidents and alerts agree |
| ingest, Observe and Trial mode: ingestor 274-660 | `events`, `attempts`, `usage`, observed rows | quota, event upsert, attempt number, scenario's answer, forward and mirror, publish | count then insert, an observed request that dies in flight, a change of mode between a request and its retry | attempts are numbered once and without a gap, the limit is exceeded only by what ran at once |
| event reports: worker 78-195 | `reports` | analyse and upsert, expire | an older analysis written last, rows that change while they are read | the report of an event at rest is the verdict on its rows |
| accounts, workspaces: API 295-1402 | `users`, `sessions`, `auth_tokens`, members, invitations | register, verify, reset, change address or password, invite, accept, change a role, remove | look-up and use in separate statements, mail between two writes | an owner stays the owner, a new password ends old sessions, an address is taken only with its own link |
| resources and Demo Lab: demo-lock.ts, API 1404-2500, 3079-4232 | scenarios, endpoints, monitors, pages, the channel, the lock in Redis | create, patch, delete; set up, clean up, reset | limits counted before the insert, references to rows deleted meanwhile, a lock of five minutes outlived by its holder | one demo run, which leaves nothing behind; limits exceeded only by what ran at once |
| route settings: `/v1/endpoints` of the API, RouteConfiguration | `endpoints`, the form | create, change in part, edit, save | rules checked on the row as it was read, fields that are never sent back | a live route has a destination, a confirmed impact and its secret |
| incident center: `/v1/incidents`, `/v1/operations`, OperationsPage | `incidents`, the page | acknowledge, assign, annotate; retry and replay; poll | several statements make one answer, answers overtake each other, colleagues | nothing under way is offered for recovery; the page shows one's own change |
| evidence, status pages: `/v1/evidence`, `/v1/status-pages`, their public counterparts, EvidenceReportsPage, StatusPagesPanel | `reports`, `status_pages`, links | analyse, read, share, expire; save in a transaction, publish | a report and its rows read one after the other, two members save at once | evidence covers its report, a visitor sees what one member saved |
| objectives: worker 940-1010, `/v1/reliability` of the API | `monitor_checks`, `slo_objectives` | check, edit, judge, show, expire | the same budget computed in two places | incident and page agree |
| scores, readiness, replay: integration-engine and the API routes that call it | none of their own | verify, validate, analyse, score, replay | four functions read the same rows | they do not contradict each other |
| command line, synthetic events, keys: packages/cli, LiveWebhooksPage, ApiKeysPage, the API's trigger and key routes | `api_keys`, a run in memory | trial, dispatch, print; rotate, revoke | jobs side by side, a route and keys that change, late answers | a job's verdict is about its own event |
| audit history, lists: the `onResponse` hook, `/v1/audit-events`, `/v1/evidence` | `audit_logs`, `events` | record after the reply, read a page | rows that move or arrive between pages, equal times | no row comes twice |
| network policy: packages/network-policy | none | check, resolve, connect, read | names that change between check and connection | only permitted addresses are reached |
| web interface: OverviewPage, useEventStream, LiveWebhooksPage, MonitorPage, OpenApiImportPage | React state, one `EventSource` | select, load, hear of an attempt; edit, check, submit; poll; read a document, import | answers out of order, attempts nobody announced, a check that answers after an edit | a page at rest shows what there is; what is created is what was checked or chosen |
| crypto, configuration, logging, migrations | none | pure functions and start-up | none between steps | per their own unit tests |
| email, GitHub action | none of their own | formatting | none between steps | — |

## 2. What is modelled

### ProtectDelivery

One endpoint, its events and its targets.  `rows` is the table
`destination_deliveries`; a job's id is made of its row's id, so jobs, their
stall counts and the worker's runs are functions of the row.  `chain` is the
promise chain of `withDestinationLock`, `todo` the batch a scheduler pass read,
`ing` and `man` the handlers of the ingestor and the API between two
statements, `sent` the history of requests, `spent` what is used of each bound.

| code | actions |
| --- | --- |
| `ingest`, Protect part | `IngestCheck`, `IngestInsert`, `IngestEnqueue`, `IngestReply`, `IngestDies` |
| `performDestinationDelivery` | `StartJob`/`SkipJob`, `Deliver`, `RequestSucceeds`/`RequestFails`, `RecordSuccess`, `Recover`, `RecordRetry`/`RecordFailover`/`RecordDeadLetter`, `Enqueue`, `ReadOpen`, `WriteOpen`, `FinishJob`; the `pc` of a run is the statement it is at |
| throws inside and outside its `try` | `SuccessPathThrows`, `ReadThrows`, `JobThrows` |
| the `failed` listener | `FailedHandler`, with `FailedHandlerRuns` saying whether the query nobody awaits is executed; Drizzle builds such a query and never sends it, so the runs set it FALSE |
| `scheduleQueuedDeliveries` | `ScheduleRead`, `ScheduleAdd` |
| `createManualDelivery`, `PATCH /v1/endpoints/:id` | `ManualCheck`, `ManualInsert`, `ManualEnqueue`, `ManualDies`, `PatchEndpoint` |
| a worker restart | `WorkerCrash`: runs, lock chains and the scheduler's batch are gone |
| BullMQ (external) | `Stall`, `StallFails`, `PromoteDelayed`, `EvictCompleted`, and `AddJob`, which does nothing when the job exists |

Time is one bit per row, `due`: `BackoffElapses` sets it, at no particular
moment.  Delays are computed by `ComputeBackoff` and `ParseRetryAfter`, which
no action needs.  Contents of messages, evidence and logging are left out.

`DeliveryOutcome` says what this amounts to: an event is acknowledged only with
deliveries on record, and each of those ends once: delivered, dead-lettered, or
replaced by exactly one other.  `KeepsPromise` is the refinement, with the
mapping `Outcome` from the state of a row.

### IncidentAlerts

`Writers` stand for delivery runs and ingestor handlers at the point where an
outcome reaches the incidents: `ReadFailure`/`ReadSuccess` is the select,
`OpenIncident`, `RefreshIncident` and `RecoverIncidents` the second statement,
`Announce` one `alertQueue.add` each, `WriterDies` a crash or a throw between
two of them.  The alert worker is `TakeAlert`/`SkipAlert`, `InsertRecord` with
its conflict and its foreign key, `Notify`/`NotifyFails`, `UpdateRecord`,
`AlertThrows`.  Here a job may be found stalled *while its run goes on* (the
event loop was blocked longer than BullMQ's lock), so two runs of one alert
race; `holder` is the run that may still complete the job.  `ReplaceChannel`
deletes the channel, its records with it, and creates another.

### Monitoring

`due` stands for `nextCheckAt <= now`.  `PassReads` and `PassClaims` are the
select and the conditional update of `scheduleDueMonitors`, `AddCheck` the add
that follows; `RunNow`, `Pause`, `Resume`, `PutMonitor` the routes.  A run
takes a user slot (`AcquireSlot`) and the monitor's lock (`AcquireMonitor`),
keys in Redis that hold `<job id>:<monitor id>`; then `ReadMonitor`, `Request`,
`Commit`, which is the whole transaction of `performMonitorCheck`, `Announce`
and the two releases of the `finally` blocks.  `LeaseExpires` lets keys of dead
runs expire at any time, and those of live runs `MaxExpiries` times.  Whether
the SLO window has too few checks, keeps or breaks the objective is open in
each commit.

### Ingest

A correlation key stands for its event; `generation` counts how often retention
removed it, so that a handler which knew the old row can be told from one that
knows the new.  `request` is a handler of the ingestor between two statements,
`analysis` one of the worker.

| code | actions |
| --- | --- |
| `ingest`: limit, event, attempt | `Receive`, `FindEvent`, `CountAttempts`, `InsertAttempt` (its unique index refuses a number that is taken), `SetStatus` |
| Trial | `ReplyUnset` with `ResolveScenarioStep` |
| Observe | `LookForDelivery`, `ObserveInsert`, `ObserveAnswered`/`ObserveFailed` |
| Protect | `LookForDelivery`, `Accept`; the pipeline proper is `ProtectDelivery`, here its worker is `Deliver` |
| the job in `event-analysis` | `Publish`/`PublishThrows`, and `TakeAnalysis`, `ReadAttempts`, `ReadDeliveries`, `WriteReport` |
| faults, operator, time | `HandlerDies`, `WorkerDies`, `RetryByHand`, `SwitchMode`, `DayEnds`, `CleanupExpired` |

Rows of equal `sequence` come back from PostgreSQL in any order, and
`analyzeEvent` takes the last of each target: `Finals` is the set of choices,
`Verdicts` the set of statuses they give.  A row remembers whether its delivery
was recorded with the strategy failover: with one such row, one target whose
last row succeeded is enough for `Recovered`.  `Deliver` hands a row that is given
up over to another target when the policy is a failover; observed rows and
retries by hand carry no strategy.  `doubtful` remembers that an event's last
change had no analysis of its own.

### Accounts

A handler is named by the operation it does next (`issue`, `send`, `pending`,
`verify`, `purge`, `accept`, ...) and keeps in `item` what it read before; so
`AskVerify` is the look-up of a link and `Verify` its use, with the password
hash or the mail between them.  `token` holds links that are neither used nor
expired, `RunsOut` ends one, `Dies` ends a handler between two statements.
`past` remembers three things that the properties except, see there.

### Catalogue

One workspace.  A demo run `d` creates scenario, trial, monitor and page of the
same name; `tagged` and `stored` are the metadata by which cleanup finds them.
`Ask...` is what a handler reads, the action of the same name what it writes.
`AskDemo` takes the lock and `Finish` releases it, by token; `LockRunsOut` lets
it expire under a live call, `CallDies` leaves it behind.  A reset locks its
caller while setup and cleanup lock the owner, as in the code (`LockOf`).
Resources made in a personal workspace and brought along when a member joins
are `Brought`.

### RouteSettings

A change is a record of what it names.  `PartialChange`, `ToggleRoute` and
`SubmitSettings` are a request and its look-up of the route; `CommitChange` is
the check of what the route *would* become and the update of what was named,
`RefuseChange` and `MissChange` its failures.  In between the row may change
(`overlapped` remembers it) or disappear.  `CreateRoute` goes through the
request's own rules in one transaction.  The form is filled anew when the route
it shows is another object (`ShowRoutes`, `SelectRoute`, `ShowChange`), but the
destination and the secret, which are never sent back, keep what was typed.

### IncidentCenter

`followed` are the deliveries of one event in the order they began, so what
came after a dead letter is what follows it there.  `Triage` looks an incident
up and `CommitTriage` changes it, the viewer's (with `AfterTriage`, which asks
for the page again) or a colleague's.  A view reads incidents, dead letters and
alerts (`ReadRecords`), then what followed (`ReadFollowUps`), then arrives
(`ShowView`), possibly after a later one.  `RecoverDeadLetter` is a retry or a
replay from the page, `RecoverElsewhere` one from another.

### Sharing

A reader, by export or by link, reads the report (`OpenLink`, `Export`), the
event with its report (`ReadEvent`), attempts and deliveries (`ReadRows`) in
separate statements, while `Record` and `Analyse` go on and retention removes
the event.  A member's save of a status page is `SavePage`, the look-ups, then
the transaction: `UpdatePage`, which takes the row's lock, `DeleteMembers` and
`InsertMembers`, which commits or rolls back.  A visitor looks a page up by its
link (`Visit`) and then, in another statement, reads the monitors that are on it
by then (`Published`), of whoever saved last.

### Reliability, Health, Outbound, Automation, History

`Reliability` keeps checks by age in days.  The worker judges by the window of the
objective, `Breached`; the page, `SloStatus`, by the window and the target it is
asked for, with at most `PageLimit` checks (`OnPage`).  Both compute the budget in
double precision and round differently: `checks * (1 - bps / 10000)` against
`checks * (1 - bps / 100 / 100)`.  `Rounded` is the rounding of one division, to a
multiple of 2^-53 (below 1) or 2^-46 (from 64 on), as an integer multiple of
2^-53 / 10000; `WorkerError` and `PageError` add up what the divisions of each
formula are off by.  (1 - x is exact for x from one half to 1, by Sterbenz.)
That matters only where the failures use the budget up exactly
(`UsedUp`): elsewhere they are at least 1/10000 of a check apart, and the errors,
for windows of a few hundred thousand checks, below 10^-9.  At the edge the
product is rounded once more, to the spacing of doubles below or above the
number of failures; `Left` says that it ends above.  The operators were compared
with the code's arithmetic for every objective from 90.00 to 100.00 % and
every number of checks from 5 to 20 000: they give the same verdicts.
`Health` handles one request at a time (the interleavings are in
`Ingest`) and says what is concluded from the rows: `analyzeEvent`, the state,
`calculateWebhookScore`, readiness and `Replays`.  `Outbound` is the check of a
target, the resolution, the check of *all* addresses and the connection to the
first, while names and policies change.  `Automation` runs jobs: a trial's
attempts under one event, or a synthetic event that the API makes, sends and
looks up.  In `History` a hook writes an entry after the reply, and a list is
read with the time of its last row as a cursor, in coarser units (`Fine`) than
the rows have.

### MonitorPage, Import

`MonitorPage` has requests for the list and for details, each applied when it
arrives, whatever it was asked for; `late` and `failed` remember what is never
corrected.  `Import` reads a document with the fields as they were at the
click, keeps what is ticked, and creates one monitor after the other.  What is
typed as an address may be none (`Usable`): it is passed over.

### Console

`Select`, `Reload` and `TimerFires` begin a load of the list, `Read` is the
API's answer, `Show` its arrival; two loads may overtake each other.  `Opens`,
`Subscribes`, `Breaks` and `Hears` are the stream: it says that it is ready
before it subscribes, keeps nothing, and a message starts a timer of 200 ms.
The form is `Edit`, `EditOther`, `Check`, `CheckAnswers`/`CheckFails`, `Submit`.

`MCWorkspace` checks `Accounts` and `Catalogue` side by side, `MCPages` the
eleven modules from `Reliability` on, `Console` included, in sixteen parts.
The parts share no state in the code either (a user's row apart, whose role the
others read in one statement), so in each behaviour one `part` moves and the
rest keeps one initial state: the sum of the state spaces, not the product.
The theorems are about each module's own specification, all parts of it moving.

### External assumptions

BullMQ: a job id that exists is not added again; a job whose worker died or was
blocked is run again at most `MaxStalls` times and then fails; failed delivery
jobs are removed, completed ones forgotten later.  `EvictCompleted` in
`ProtectDelivery` waits while somebody is about to add the job: 500 other jobs
would have to complete between a read and the add that follows it.  PostgreSQL:
statements are atomic, transactions of one row are ordered by its lock.  Redis:
`SET NX PX` is atomic.  Hashing is injective, encryption transparent.

## 3. What is checked

TLC explores every interleaving within the bounds.  Each property has a mutant
in `PROJECT.json`, a plausible bug in one definition, which makes TLC refute it.

| run | properties | instance | states |
| --- | --- | --- | --- |
| `delivery_policies` | `DestinationExclusive`, `KeepsPromise` | single, fan-out and failover over two targets, two attempts, no faults | 125 000 |
| `delivery_crash` | `Carried`, `EndedIsFinal`, `AcceptedSettles` | one crash anywhere, one eviction | 12 000 |
| `delivery_operator` | `KeyStable`, `GivenUpAfterBudget` | one target under either rule for the key, one request by hand, one patch, a handler that dies, one throw, two crashes | 2 860 000 |
| `ingest` | `Gapless`, `WithinQuota`, `ReportFresh`, `ReplayAgrees` | one event, three requests, two at once, any mode, with or without a failover; two rows; two analyses; one upset (retry by hand, change of mode, end of a day, crash) | 3 105 000 |
| `alerts_once` | `NotifiedOnce`, `RecoveryIsReal`, `NoticeIsAudited` | two writers, two runs, one of each fault, a second channel | 1 125 000 |
| `alerts_audited` | `OpeningIsAudited` | two incidents, one crash | 71 000 |
| `checks_exclusive` | `MonitorExclusive`, `DownAfterThreshold`, `IncidentMatchesState`, `OneJobPerInterval`, `ToldInOrder` | two passes, two runs, two stalls of live runs, two changes | 985 000 |
| `checks_end` | `JobsEnd`, `OpeningIsTold` | one slot for two jobs, one crash, one throw, one check by hand | 135 000 |
| `workspace` | `OwnerRole`, `SessionsFollowPassword`, `EmailByLink`; `OneRun`, `NothingLeft` | two users, three requests; two runs and one brought along, four requests, one fault: two handlers at once in each part | 351 000 |
| `pages` | `ShownIsCurrent`, `SafeByDefault`, `DetailOfSelected`, `VerdictsAgree`, `LiveRouteReady`, `EvidenceCovers`, `PageAsSaved`, `OfferedAreIdle`, `OwnChangeShown`, `ReachesPermitted`, `FullScoreIsClean`, `VerdictIsOwn`, `NoneTwice` | two requests at once in each of the sixteen parts, two of what they are about, one or two of each disturbance | 744 000 |

The type invariants and the inductive invariants of section 4 are not in these
runs: they are theorems.

What the properties say and what they except:

- `KeepsPromise`: every acknowledged event ends as `DeliveryOutcome` says.
  `Carried`: a row that waits has a job, a run or a scheduler that will find it.
  `KeyStable`: the requests for what the ingestor recorded, and for all of its
  automatic retries, have one key.  `GivenUpAfterBudget`: a target is given up
  only after its whole budget was spent on requests, deaths of the worker
  included.
- `Gapless`: the attempts of an event are numbered 1, 2, 3, ... though each
  number is a count read before the insert.  The unique index makes the loser
  of a race fail, and retention removes whole events.
- `WithinQuota`: a limit counted before the insert is exceeded by no more than
  the requests that ran at once.
- `ReportFresh`: the report of an event at rest is the verdict on its rows,
  unless `doubtful`: the job of the last change was overtaken, or the path asks
  for none (an unreachable destination, no destination, a crash).
- `ReplayAgrees`: what the stored report of an event at rest calls passed, its
  replay calls delivered or recovered.  It excepts what `ReportFresh` excepts,
  and events whose rows have no order (`Ordered`), since rows are read in order
  of their number and observed rows are all numbered 1.  The event that shows
  why: a failover policy in Protect, a first row that carries the strategy and
  succeeds, then a request while the endpoint observes, whose row is numbered 1
  too and fails.  The report is passed whichever row comes last, for one target
  succeeded; the replay is failed or recovered as the database returns the two.
  With distinct numbers a failed row is not the last of an event with a failover.
  Without trial and with a failover policy only, TLC has also looked at three rows
  and two upsets (1 640 000 states).
- `ToldInOrder`: the alerts of one cause are enqueued in the order of the
  incidents: opened, recovered, opened, unless a crash or a throw swallowed one.
- `OwnerRole`: an owner keeps the role, except one who accepts an invitation to
  the own workspace, which overwrites it.
- `SessionsFollowPassword`: sessions are of the present password, between the
  statements of a change and after a race with a sign-in apart.
- `EmailByLink`: an address is taken only with a link sent to it, unless two
  changes of one user overlapped.
- `OneRun`, `NothingLeft`: the demo, unless a lock ran out or users took the run
  apart with the ordinary routes.
- `ShownIsCurrent`: a page at rest shows every attempt, unless a message was
  missed or a late answer replaced a newer one (neither is ever corrected).
- `DetailOfSelected`: the same for the monitoring page and its selection.
- `SafeByDefault`: an import creates monitors only for what it may: concrete GET
  and HEAD operations, POST when its box was ticked at the start, not in
  production, though fields and documents change under it.
- `VerdictsAgree`: once the worker has judged by the objective there is, a page
  asked for its window calls the budget breached exactly when the incident is
  open, through edits under a check, days that pass and checks that expire.  It
  excepts failures that use the budget up exactly, an objective without
  failures and a page that does not read all checks of the window: see
  `ExhaustedOpens`, `BreachNeedsFailure`, `WindowOfObjective`.
- `LiveRouteReady`: any series of partial changes keeps a live route ready,
  unless one was written to a row that had changed since it was read.
- `OfferedAreIdle`: what is offered for recovery had nothing under way when it
  was read.  `OwnChangeShown`: after a change the page shows it, field by field.
- `EvidenceCovers`: evidence has every row its report rests on, though the
  statements that read them are not one transaction.  `PageAsSaved`: a visitor
  sees what one member saved, as a whole, or nothing, though the page may have
  changed hands between the two reads of the visit.
- `ReachesPermitted`: however names resolve, a connection is made to a permitted
  address.
- `FullScoreIsClean`: a route with a score of 100 has no event whose replay
  reports something.  `VerdictIsOwn`: a trial passes exactly if it expects the
  scenario, and what is printed is the job's own event, whoever else runs.
- `NoneTwice`: no row is on two pages of a list.

Each exception is a behaviour of the code that TLC found; without it the
property fails.

Why these bounds are enough for what they ask.  Two targets give fan-out two
rows and failover a hand-off; two attempts are the least with a retry between
the first and the last.  Races are between two actors: two requests, two
writers, two runs, two passes, two handlers.  A third request after two that
raced shows what the race left behind; a fourth in `Catalogue` is a cleanup
after a setup, beside two calls of users.  `delivery_crash` has one crash
because `MaxStalls` is 1, BullMQ's default, and a second one is a finding;
`delivery_operator` goes past that for the properties that survive it, with one
request of the provider, since a second is in `provider_retry` and `Ingest`.  Two jobs
in `checks_exclusive` make up to four checks, since each may be rerun, enough
for the threshold of two, an open incident and its recovery.  Two attempts of a
selected route are the least for an answer that is older than another, and so
are two views, two lists and two details of the other pages.  A score of
`Health` looks at four rows instead of the code's limits, and three deliveries
of two targets give one that fails, one that succeeds and one that retries.  The
bounds that do not matter to a run are zero, so that the others can be larger.
Where the system may stop because a bound is spent or all work is done, the
configurations say `CHECK_DEADLOCK FALSE`; that nothing stops too early is what
the liveness properties say.  Symmetry is used only in runs without liveness,
over slots of handlers, requests and runs, which the code does not tell apart; in
`MCWorkspace` users are not symmetric (their addresses differ), and
`NamedAccounts` fixes which of the two is first instead.

**Fairness.**  Only what the code's loops and timers guarantee: a run that
started goes on, a waiting job is taken, delays end, stalled jobs are found,
the scheduler's timer fires, keys of dead runs expire.  The provider, the
operator, faults, crashes and evictions are never obliged to happen, and
`AcceptedSettles` excepts a route that is paused.

### Disagreements with the documentation

Two runs expect a violation and have a finding in `PROJECT.json`.

- `provider_retry`: two requests of the provider for one event both look for
  rows before either inserts; the event is delivered twice.
- `crash_twice`: after two crashes on one job BullMQ fails it, the row stays
  `delivering` and nothing ever looks at it again.

The other findings are not kept as runs.  Each entry of `PROJECT.json` quotes
the document, and each property is in its module.  To see one, check it with
the configuration of the run named and the changes in brackets; those of the
modules in `MCPages` need nothing but their name in `pages.cfg`, unless said.

- `NoSendWhilePaused` (property; `delivery_policies`, `Policies <- OnlySingle`,
  `MaxPatches = 1`): a job already in the queue is sent after the route was
  paused.
- `RetryContinues` (invariant; `delivery_policies`, `Policies <- OnlyFanout`,
  `Manuals = {m1}`): a retry by hand of the second target's delivery goes to
  the first.
- `FailoverMovesOn` (invariant; `delivery_policies`, `Policies <- OnlyHalfOff`,
  `Dests <- ThreeTargets`): with an inactive target in front, the recorded
  index and the index the worker reads differ by one, and the hand-off goes to
  the target that was just given up.
- `PartialFailureVisible` (invariant; `alerts_audited`): the success of one
  fan-out target recovers the incident of another target's failure.
- `AcceptedIsKept` (property; `ingest`, `Modes = {"observe", "protect"}`): after
  a change from Observe to Protect the provider's retry of an event whose
  forward failed is acknowledged as a duplicate and never delivered.
- `PendingIsUnfinished` (invariant; `ingest`): the finished analysis of a failed
  delivery stores `pending`, which the documentation calls not a failed delivery.
- `MonitorExclusive` (invariant; `checks_exclusive`, `MaxExpiries = 1`): a check
  longer than its lease of 60 s loses the lock and another one starts.
- `UserChannelKept` (property; module `Catalogue`, `SPECIFICATION
  CatalogueSpec`, no members, two runs, one resource of each kind, two calls,
  four requests, one channel, no fault): a channel that setup created and the
  user then configured is deleted by cleanup.
- `Reliability`: `ExhaustedOpens` (with `Targets = {9990}`, `Earlier = {999}`,
  `MaxChecks = 1001`, `PageLimit = 20000`: of 99.90 % and 1000 checks the worker's
  budget is 1.0000000000000009 and the page's 0.9999999999999; one failure, and
  the page is breached while no incident is opened; other targets give the
  opposite), `WindowOfObjective` (the page judges an objective by the seven days
  it is asked for first, and calls one of one day breached for a failure of the
  day before), `BreachNeedsFailure` (an objective of 100 % is breached on the
  page from the start), `WholeWindow` (retention cuts the window to three
  days), `LatestShown` (with `Earlier = {288}`: the public page leaves the latest
  checks out).
- `Health`: `ExhaustedIsFailed`, `HealthyHasNoDeadLetter` (the last delivery
  decides, whichever its target), `RecoveryOfFailure` (recovery is demonstrated
  without a failure), `SignatureIsVerified` (the secret stays when the provider
  is set to none).
- `RouteSettings`: `SettingsSaved`, `DestinationInForce` (the stored policy
  wins), `EveryChangeConfirmed` (confirmed once), `AlwaysReady` (two partial
  changes at once), `TypedForShown` (fields typed for another route).
- `IncidentCenter`: `ResolvedMeansRecovered`, `DeadLetterRecoverable` (a later
  delivery of another target), `AuditSeen` (a member's audit is empty),
  `AssigneeIsMember` (removed members keep their incidents).
- `Sharing`: `LinkOfSelected`.  `MonitorPage`: `ActsOnSelected`,
  `SavedAsShown`.  `Import`: `OwnServer`, `FirstResponse`.
- `Automation`: `Repeatable`, `UniqueRunId`, `RecordedIsRecorded`,
  `DestinationStatus`, `SecretStays` (three changes of keys).
- `History`: `NoneSkipped` (the cursor is in milliseconds, the column is not),
  `EveryChangeRecorded`, `RecordStays`.
- `Outbound`: `AllowedIsReachable` (with a policy that allows `"net6"`).

Other things a reader of the code may stumble over, which no document denies or
whose wording leaves room:

- an incident opened between the select and the update of
  `recoverDeliveryIncident` is recovered without a recovery alert, and `paused`
  is overwritten by a check in flight;
- an owner who accepts an invitation to the own workspace gets the invited role;
- a link sent before a change of address may be used in the middle of it;
- a sign-in that verified the old password opens its session after the change;
- after its last step a scenario that does not repeat answers 410;
- reset locks its caller, setup and cleanup lock the owner, so a member's reset
  and a setup run side by side; a run a member brought along blocks setup;
- a stream is `ready` before it subscribes, so an attempt in between is not
  announced;
- an observed request whose job cannot be published is answered 502 and never
  analysed, though it was delivered.

## 4. What is proved

For all values of the constants, under the assumptions the modules name.  Each
module has one: bounds are natural numbers, names that must differ do; in
`ProtectDelivery` also `PoliciesAssumption`, what `deliveryPolicyInputSchema`
accepts (an active target, one target for `single`).

**`ProtectDelivery_proofs`**: `Invariance`, `TypeCorrect`, `OneRequestAtATime`.
`DestinationExclusive` is not inductive.  Two runs for one destination are kept
apart because both are in that destination's chain and only its head is past
the lock; that is `Locks`: chains hold each run once, under its own
destination, and all but the first are still at the lock.  It needs to know
what an entry of a chain is, `References`: whatever is queued, running or about
to be added is a row that exists, and what runs has an active job, so a job is
not started twice.  Both need `TypeOK`.  `IndInv` is the conjunction, with one
lemma per part and, in each, one case per action that disturbs the part.
`DestinationExclusive` then follows: two runs past the lock are both the first
of one chain.

**`ProtectDelivery_promises`**: `AcceptedOnRecord`, from `OnRecord`: a handler
that found a duplicate, inserted rows or replied has rows of its event, and
rows never disappear.  `OutcomeIsFinal` proves `EndedIsFinal` under `NoFault`
(`MaxFaults = 0`, the failed listener's query does not run), for any number of
crashes, from `RunsMatchRows`: a run about to record an outcome has a row in
`delivering`, and a run waiting for its lock has a row that has not ended.
Without `NoFault` the theorem is false: a throw after `succeeded` was written
sends the run to the catch block.

`KeyStableHolds` needs no condition.  `Descent` says of which row a retry is the
continuation: an earlier one of the same target, with the same key, whatever
the operator changed in the meantime; `KeysUsed` that a run, and every request
it made, carries the key of its own row.

`CarriedHolds` is about behaviours that stay `Quiet`: the route remains in
Protect, nothing throws, and the worker dies no more often than BullMQ reruns a
job, as the property says.  `Carries` is what makes it inductive: a job was found
stalled at most as often as the worker died, less often if its run is gone and
it was not found yet; a queued row's run has not begun to deliver, and a row
that is being delivered has a job and a run that has recorded nothing.

`GivenUpAfterBudgetHolds` needs no condition either.  `BudgetSpent`: the attempt
of a row is one more than that of the row it retries, for which a request was
made; a run past its lock has made its own; a row that was given up was at the
last attempt.  That a chain of retries made as many requests as its last row's
attempt says follows by counting along the chain: a least row for which it
fails has a parent for which it fails.  Sums over rows have to be taken apart
for that, by the lemmas of `Sums`.

Two properties that the code does not keep are proved under what it takes to
keep them.  `OneInitialDeliveryHolds`, for policies of different targets
(`DistinctTargets`, which `deliveryPolicyInputSchema` does not demand) and as
long as `OneAtATime` holds: no two handlers of one event have both looked for
rows before either inserted.  So the race of `provider_retry` is the only way to
a second initial delivery, however often the provider repeats itself and
whatever dies meanwhile; the invariant is `NoneYet`, that a handler about to
insert still finds no row of its event.  `FailoverMovesOnHolds`, for a route that
keeps one policy of different targets, the first of them active if it is a
failover policy: the recorded index and the index the worker reads then agree
(`Placed`), and a hand-off goes behind the target given up.  Replacing the policy
or an inactive first target is thus what the finding of section 3 needs.

`PromiseKept` is the refinement `Spec => DeliveryOutcome!Spec` under the mapping
`Outcome`, assuming `Undisturbed`: no throw, no crash, one request of the
provider per event, no request by hand (patches are allowed).  `PromiseInv` adds
to `RunsMatchRows` and `OnRecord` that an event no request has recorded has no
rows, that no run is gone while its job is active, and `HandedOver`: a row that
was replaced by its retry has no job that will run again.  Then initial states
map to initial states, and the step of each action to a step of
`DeliveryOutcome` or a stutter.  The hypotheses are those under which the promise
holds at all: `provider_retry` and `crash_twice` refute it without two of them,
and a throw after `succeeded` takes an ended row up again.

**`IncidentAlerts_proofs`**: `ThAlertInv`, `ThNotifiedOnce`,
`ThRecoveryIsReal`, `ThNoticeIsAudited`.  `Notifications` carries the argument:
without a record nobody has notified the present channel or is about to, at
most one run is between the record and the notification, and channels to come
have heard nothing; a replaced channel takes its records along, but runs that
read it can no longer insert.  `Recoveries` follows a recovery alert from the
writer through job and run to the notice, and `recovered` is final.

**`Monitoring_proofs`**: `TypeOKHolds`, `OneJobHolds`, `IncidentMatchesHolds`
without conditions, and `MonitorExclusiveHolds`, `UserConcurrencyHolds`,
`DownAfterThresholdHolds` for `MaxExpiries = 0`; with an expiry under a live
run they are false.  `Based` is types and `Known`: a job that was added has a
number below the next one, so no later add meets an old job's keys.
`DuesAreBits` says that the intervals begun and not yet claimed are one or none,
as the row's `due` says, which gives `OneJobPerInterval`.
`MonitorExclusive` is not inductive: a key carries the *job* of its run, not the
run, and a stalled run that goes on shares its job with the rerun.  `Locked`
therefore says that the keys a run holds carry its job, and that the keys of two
runs are disjoint, those of a rerun included.  `Counted` says that the row's
failures, and those a run read before its request, never exceed the failed
checks in a row: nobody else commits in between, by `MonitorExclusive`.
`ToldInOrderHolds`, again for `MaxExpiries = 0`: `Reported` says that what was
told last is what the incident is, but for one alert that waits in a run, and
`Waiting` are the alerts of a run that are still to be announced: one for each
cause at most, and in one run of the monitor, because the lock is held from the
read of the monitor until the announcement is over.

**`Ingest_proofs`**: `GaplessHolds`.  `Gapless` speaks of the set of numbers;
the invariant says more, `InOrder`: a row's number is its place.  `Claims`
carries the race: the number a handler is about to insert is the next one or is
taken already, if the event it counted is still the same generation.  Then the
unique index leaves only the next one.  `WithinQuotaHolds` is by cardinalities:
`QuotaInv` bounds today's attempts together with the handlers that were admitted
and have not inserted yet by the limit and the number of handlers.
`ReportFreshHolds`: `Attended` says of every event with rows that there is work
to come (a job, or a handler or delivery that will ask for one), or an analysis
is under way, or it is `doubtful`, or its report is a verdict on its rows; and
that each analysis under way is up to date with what it has read so far, or is
followed by another.  `ReplayAgreesHolds` is about the stored report, so it needs
that invariant, and one about the rows, `RowsInv`: a failed row is an observed one,
numbered 1, or was handed over, and another has a greater number.  It is the
handlers of Observe that make this hard: one may still mark a row failed that it
inserted before others (`Pointed`).  Then the last row of a passed event cannot
have failed: without a failover every target's last row succeeded, and with
one it is numbered beyond the failed ones, or there is no order
(`LastSucceeded`).

**`Workspace_proofs`**, about `Accounts`: `OwnerRoleHolds`, `SessionsFollowPasswordHolds`,
`EmailByLinkHolds`.  `AccountInv` is `TablesOK` (whoever is referred to has an
account; a member of a workspace lists it), `RequestsOK` (what a handler read
before, by operation: a change of role is never about the owner of the
workspace, which is what was checked a statement earlier) and `OwnerRole`
itself.  `LinksInv` follows the links of each user whose changes did not cross:
at most one change is under way, when none is, every link to change the address
goes to the pending one, and a handler about to use a link read a pending
address that is the link's.  For sessions, a handler knows no password newer than
the present one, and one that is about to open a session with an older one
opens it late.

The same module, about `Catalogue`: `LockHeldAtWorkHolds`, `OneRunHolds`,
`NothingLeftHolds`, from one invariant: `Read` (what a removal has read is all
there is to remove), `Whole` (a run is there as a whole and found by its tag),
`Numbered` (channel ids are given once, so a stored id does not come to mean
another channel), and, unless a lock ran out, `Alone` (between the two
statements of a setup there is no run, because its call holds the owner's lock
and every other setup needs it) and `Single`.

**`Pages_proofs`**, one section for each module, about the module's own
specification.

- `Console`: `ShownIsCurrentHolds`, `DestinationCheckedHolds`.  `Past` says that
  answers under way have read what was there, `Kept` that whenever the list is
  behind, something will still bring it up to date: a message, a timer or a
  load that has not read yet.  `FormInv` ties `reachable` to the address that
  was checked: any edit drops it.
- `RouteSettings`: `LiveRouteReadyHolds`.  `RouteInv`: a route that was never
  written over has all its settings and is `Ready`.  The work is in the steps:
  what a change is checked for is what its update makes of the row it has read.
- `IncidentCenter`: `OfferedAreIdleHolds`, from `IdleAfter`: what a view was
  offered is followed, as far as it was read, by dead letters only, and those
  never change.  `OwnChangeShownHolds`: `OwnStored` (what the viewer set is in
  the row, unless crossed), `TurnsInv` (views are numbered in the order they
  were asked for) and `Caught` (from some turn on every answer has the value);
  this is the longest argument of the module, since a change, the view it asks
  for and a poll that overtakes it may be interleaved in any order.
- `Outbound`: `ReachesPermittedHolds`.  `CallsChecked`: the address of a call
  past its check is one the policy it read permits.
- `Sharing`: `PageAsSavedHolds`, from `Transactions` (one transaction is past
  the update of the page's row) and `RowsOfSave` (committed rows are of the last
  save).  `EvidenceCoversHolds`: `Covered` (a report never rests on more rows
  than there are) and `Faithful` (nor does what a reader has of it).
- `History`: `NoneTwiceHolds`.  `HistoryRows`: ids are given once and times do
  not decrease; `PagedRows`: what was read is not older than the cursor, so a
  page, which is strictly older, has none of it; an event that is seen again
  moves up and away from the pages to come.
- `MonitorPage`: `DetailOfSelectedHolds`.  `Listed` and `Detailed`: unless an
  answer for another selection was applied or a request failed, the selection is
  in the list and its detail is shown, or the request that will bring it there
  is under way; for a monitor that was deleted it is a list that has not been
  read yet or lacks it, which makes the page select another.
- `Reliability`: `VerdictsAgreeHolds`.  `Judged`: since the worker judged by the
  objective there is, its incident says of the checks counted now what it said
  of those it counted.  `VerdictsCompare`: the page's verdict on the same checks
  is the worker's, unless the failures use the budget up exactly.  The counts are
  sums over days, natural numbers by the lemmas of `Sums`.
- `Automation`: `VerdictIsOwnHolds`.  `Numbers`: jobs have numbers of their own,
  and what they send carries them, late requests included, so an attempt can be
  traced to its job.  `SyntheticOnce` follows from that: an event the API
  generates is recorded at most once, with the status its job was answered with.
  `TrialsFollow`: as long as nobody else used a trial's event, the route did not
  change, every request was answered and the day's limit was not reached, there
  are as many attempts of the event as answers, and the answers are the
  scenario's.  The proof rests on an assumption about trial files, that their
  own event is not one the API generates, which ends in random characters.
- `Import`: `SafeByDefaultHolds`.  What the page offers, and what of it is
  ticked, is a selection from the document's operations, whatever the ids were
  ticked for (`MonitorableIsSafe`, `SelectionIsSafe`); `ImportsSafe`: what is
  left of an import are such operations, of the page as it was when the import
  was started, whatever became of the page since.
- `Health`: `FullScoreIsCleanHolds`.  A score is 100 less six deductions, none of
  which is negative, so a full score means that each is zero, and with it what
  it counts (`Deducted`, `PartIs`, `NoneOf`, `FullScore`).  `AllRecent`: a history
  within the limits is counted as a whole, and `OfTheEvent`: what a replay is
  made from is part of it.  `HealthInv` only says that rows are lists and dated.

`Selected` stands where the code filters a list.  `RankIs`, `RankTaken` and
`SelectedIs` prove of it what its readers need: the entries at the positions
kept, each of them once, in the order they had.  TLC was used to compare it with
`SelectSeq`, whose recursive definition nothing can be proved about.

**`Sums`**: that a sum over a finite set exists and is a natural number
(`SumExists`, `SumIsNat`) is proved from the definition of `MapThenSumSet` in the
community modules by a least counterexample (`LeastOf`), which stands in for the
induction that the provers cannot instantiate.

**Only model-checked**: liveness (`AcceptedSettles`, `JobsEnd`, `OpeningIsTold`,
`OpeningIsAudited`), since fairness and `ENABLED` are outside the prover's reach.
Every invariant and every action property of the passing runs is stated by a
theorem; those of the two runs that expect a violation are of course false.

## 5. What is not modelled

A module here stands for the protocol in a part of the code: what is read, what
is written, in which order, and what may come between.  Much of the repository
has no such part.  Of its lines about half are JSX, texts and translations, and
many routes of the API validate, run one statement and format the answer.  These
are left out, since an action for a single statement says nothing its property
would not repeat:

- the home and demo pages, layout, `i18n`, statistics and charts;
- HMAC and the reading of a contract's or a monitor's answer (JSON path, text),
  whose verdicts are inputs; backoff and `Retry-After` are operators no action
  needs; the tables of address ranges, of which `Outbound` has one member each;
- email, the wrapper of the GitHub action, installation, migrations,
  configuration, logging, cryptography.

Left out of modelled parts:

- in `ProtectDelivery`: a second live run of one row (a blocked event loop), a
  change of `retryMaxAttempts`, deletion of the endpoint under a delivery.
  `IncidentAlerts` and `Monitoring` do model blocked runs;
- in `Ingest`: the score of a report and its texts (`Health` has the score), the
  order of the targets of a policy, the derivation of the correlation key;
- in `Reliability`: `at_risk`, which is one kind of healthy there, and the
  aggregate over all monitors;
- in `IncidentAlerts`: triage, which is in `IncidentCenter`, and test alerts;
- in `Monitoring`: the arithmetic of the objective, which is in `Reliability`;
- in `Accounts`: profiles and the modes that close registration;
- in `Catalogue`: edits that touch one row only;
- in `Health`: interleavings, which are in `Ingest`;
- in `Sharing`: what redaction removes from a header or a body;
- in `IncidentCenter` and `History`: filters and the timeline of an incident.

## 6. Plan

All modules of the plan are written.  What would come next is a second live run
of one row in `ProtectDelivery`, as in `Monitoring`.
