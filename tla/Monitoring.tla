----------------------------- MODULE Monitoring -----------------------------
(***************************************************************************)
(* The checks of monitors: the scheduler claims the monitors that are due  *)
(* and adds a job for each, an operator asks for checks by hand, pauses    *)
(* and resumes, and the monitor worker runs the jobs.  A run takes one of  *)
(* its user's slots and the monitor's lock, both keys of Redis that expire *)
(* after a minute, reads the monitor, makes the request, and records what  *)
(* it concludes in one transaction, whose alerts it enqueues afterwards.   *)
(*                                                                         *)
(* PostgreSQL (monitors, incidents), Redis (lease) and BullMQ (jobs,       *)
(* stalls, holder) survive crashes; passes, claims and runs are memory.    *)
(***************************************************************************)
EXTENDS Integers, Sequences, FiniteSets

CONSTANTS
  Monitors,
  Users,
  Owner,            \* the user of each monitor
  UserSlots,        \* checks a user may have at once
  Runs,             \* jobs the monitor worker runs at once
  Passes,           \* scheduler passes that may overlap
  FailuresToOpen,   \* consecutiveFailuresToOpen
  Cause,            \* the causes of incidents that are followed
  MaxStalls,        \* times a stalled job is run again
  MaxJobs,          \* bounds: jobs,
  MaxManual,        \*   checks asked for by hand,
  MaxChanges,       \*   pauses, resumes and edits,
  MaxCrashes,       \*   crashes of the worker,
  MaxBlocked,       \*   times its event loop is blocked for too long,
  MaxFaults,        \*   statements that throw, handlers of the API that die,
  MaxExpiries       \*   keys that expire while their run goes on

VARIABLES
  monitors,    \* the rows, with the resource's active flag
  incidents,   \* the last incident of each monitor and cause
  passes,      \* the due monitors each pass read and has not yet claimed
  claimed,     \* who claimed a monitor and has not yet added its job
  jobs,        \* the jobs, in order of creation
  nextJob,     \* the id the next one gets
  stalls,      \* how often each was found stalled
  holder,      \* the run that may complete it
  lease,       \* the keys in Redis: the job whose token they hold
  runs,        \* the worker's runs
  dues,        \* history: intervals that elapsed and made no job yet
  streak,      \* history: failed checks in a row
  told,        \* history: the last alert enqueued, per monitor and cause
  spent        \* how much of each bound is used

queue == <<jobs, nextJob, stalls, holder>>
history == <<dues, streak, told>>
vars == <<monitors, incidents, passes, claimed, queue, lease, runs, history, spent>>

Job == 1 .. MaxJobs
Key == (Users \X UserSlots) \cup Monitors
Api == "api"
NoJob == 0
NoRun == "no_run"

ASSUME BoundsAssumption ==
  /\ Owner \in [Monitors -> Users] /\ Monitors # {} /\ Monitors \cap (Users \X UserSlots) = {}
  /\ IsFiniteSet(UserSlots) /\ UserSlots # {}
  /\ Cause \subseteq {"availability", "slo_budget"}
  /\ FailuresToOpen \in Nat \ {0} /\ MaxJobs \in Nat \ {0} /\ MaxStalls \in Nat
  /\ MaxManual \in Nat /\ MaxChanges \in Nat /\ MaxCrashes \in Nat
  /\ MaxBlocked \in Nat /\ MaxFaults \in Nat /\ MaxExpiries \in Nat
  /\ Api \notin Passes /\ NoRun \notin Runs

Idle == [pc |-> "idle", job |-> 1, slot |-> CHOOSE k \in UserSlots : TRUE,
         saw |-> 0, outcome |-> "healthy", alerts |-> <<>>]
NoJobYet == [state |-> "none", monitor |-> CHOOSE m \in Monitors : TRUE]

MonitorOf(r) == jobs[runs[r].job].monitor
SlotKey(r) == <<Owner[MonitorOf(r)], runs[r].slot>>
Goto(r, pc) == runs' = [runs EXCEPT ![r].pc = pc]
Spend(what) == spent' = [spent EXCEPT ![what] = @ + 1]

Init ==
  /\ monitors = [m \in Monitors |-> [state |-> "new", failures |-> 0,
                                     active |-> TRUE, due |-> TRUE]]
  /\ incidents = [m \in Monitors |-> [c \in Cause |-> "none"]]
  /\ passes = [p \in Passes |-> {}]
  /\ claimed = {}
  /\ jobs = [j \in Job |-> NoJobYet]
  /\ nextJob = 1
  /\ stalls = [j \in Job |-> 0]
  /\ holder = [j \in Job |-> NoRun]
  /\ lease = [k \in Key |-> NoJob]
  /\ runs = [r \in Runs |-> Idle]
  /\ dues = [m \in Monitors |-> 1]
  /\ streak = [m \in Monitors |-> 0]
  /\ told = [m \in Monitors |-> [c \in Cause |-> "none"]]
  /\ spent = [manual |-> 0, changes |-> 0, crashes |-> 0, blocked |-> 0,
              faults |-> 0, expiries |-> 0]

-----------------------------------------------------------------------------
(* scheduleDueMonitors.  nextCheckAt is reached, a pass reads the monitors *)
(* that are due, claims one after another unless its nextCheckAt was moved *)
(* on meanwhile, and adds the job of each one it claimed.                  *)

IntervalElapses(m) ==
  /\ ~monitors[m].due
  /\ nextJob + Cardinality(claimed) <= MaxJobs
  /\ monitors' = [monitors EXCEPT ![m].due = TRUE]
  /\ dues' = [dues EXCEPT ![m] = @ + 1]
  /\ UNCHANGED <<incidents, passes, claimed, queue, lease, runs, streak, told, spent>>

Due == {m \in Monitors :
          monitors[m].active /\ monitors[m].state # "paused" /\ monitors[m].due}

PassReads(p) ==
  /\ passes[p] = {} /\ Due # {} /\ \A m \in Monitors : <<p, m>> \notin claimed
  /\ passes' = [passes EXCEPT ![p] = Due]
  /\ UNCHANGED <<monitors, incidents, claimed, queue, lease, runs, history, spent>>

ClaimableAlways(m) == TRUE
Claimable(m) == monitors[m].due

(* The claim: an update with the condition repeated.                       *)
PassClaims(p, m) ==
  /\ m \in passes[p] /\ \A n \in Monitors : <<p, n>> \notin claimed
  /\ passes' = [passes EXCEPT ![p] = @ \ {m}]
  /\ IF Claimable(m)
     THEN /\ monitors' = [monitors EXCEPT ![m].due = FALSE]
          /\ dues' = [dues EXCEPT ![m] = @ - 1]
          /\ claimed' = claimed \cup {<<p, m>>}
     ELSE UNCHANGED <<monitors, dues, claimed>>
  /\ UNCHANGED <<incidents, queue, lease, runs, streak, told, spent>>

(* POST /v1/monitors/:id/run postpones the next scheduled check.           *)
RunNow(m) ==
  /\ monitors[m].active /\ monitors[m].state # "paused" /\ <<Api, m>> \notin claimed
  /\ spent.manual < MaxManual /\ Spend("manual")
  /\ monitors' = [monitors EXCEPT ![m].due = FALSE]
  /\ dues' = [dues EXCEPT ![m] = IF monitors[m].due THEN @ - 1 ELSE @]
  /\ claimed' = claimed \cup {<<Api, m>>}
  /\ UNCHANGED <<incidents, passes, queue, lease, runs, streak, told>>

(* Job ids carry the time: every add makes a new job.                      *)
AddCheck(who, m) ==
  /\ <<who, m>> \in claimed /\ nextJob <= MaxJobs
  /\ claimed' = claimed \ {<<who, m>>}
  /\ jobs' = [jobs EXCEPT ![nextJob] = [state |-> "waiting", monitor |-> m]]
  /\ nextJob' = nextJob + 1
  /\ UNCHANGED <<monitors, incidents, passes, stalls, holder, lease, runs, history, spent>>

(* The API dies between its update and the add: no check this interval.    *)
HandlerDies(m) ==
  /\ <<Api, m>> \in claimed
  /\ spent.faults < MaxFaults /\ Spend("faults")
  /\ claimed' = claimed \ {<<Api, m>>}
  /\ UNCHANGED <<monitors, incidents, passes, queue, lease, runs, history>>

(* A pass throws: what it had not claimed waits for the next pass, what it *)
(* claimed and did not add is skipped for an interval.                     *)
PassThrows(p) ==
  /\ passes[p] # {} \/ \E m \in Monitors : <<p, m>> \in claimed
  /\ spent.faults < MaxFaults /\ Spend("faults")
  /\ passes' = [passes EXCEPT ![p] = {}]
  /\ claimed' = {c \in claimed : c[1] # p}
  /\ UNCHANGED <<monitors, incidents, queue, lease, runs, history>>

-----------------------------------------------------------------------------
(* The operator: pause, resume, and an edit, which makes the monitor due.  *)

MakeDue(m, row) ==
  /\ monitors' = [monitors EXCEPT ![m] = [row EXCEPT !.due = TRUE]]
  /\ dues' = [dues EXCEPT ![m] = IF monitors[m].due THEN @ ELSE @ + 1]

Change == /\ spent.changes < MaxChanges /\ Spend("changes")
          /\ UNCHANGED <<incidents, passes, claimed, queue, lease, runs, streak, told>>

Pause(m) ==
  /\ Change
  /\ monitors' = [monitors EXCEPT ![m].state = "paused", ![m].active = FALSE]
  /\ UNCHANGED dues

Resume(m) ==
  /\ Change
  /\ MakeDue(m, [monitors[m] EXCEPT !.state = "new", !.active = TRUE, !.failures = 0])

PutMonitor(m) == Change /\ MakeDue(m, monitors[m])

-----------------------------------------------------------------------------
(* The monitor worker.                                                     *)

TakeCheck(r, j) ==
  /\ jobs[j].state = "waiting" /\ runs[r].pc = "idle"
  /\ jobs' = [jobs EXCEPT ![j].state = "active"]
  /\ holder' = [holder EXCEPT ![j] = r]
  /\ runs' = [runs EXCEPT ![r] = [Idle EXCEPT !.pc = "slot", !.job = j]]
  /\ UNCHANGED <<monitors, incidents, passes, claimed, nextJob, stalls, lease, history, spent>>

(* SET key token NX; the token is made of the job's id.                    *)
FreeAlways(k) == k \in Key
Free(k) == lease[k] = NoJob

(* acquireMonitorSlot for the user tries the slots until one is free.      *)
AcquireSlot(r, s) ==
  LET k == <<Owner[MonitorOf(r)], s>>
  IN  /\ runs[r].pc = "slot" /\ Free(k)
      /\ lease' = [lease EXCEPT ![k] = runs[r].job]
      /\ runs' = [runs EXCEPT ![r].pc = "lock", ![r].slot = s]
      /\ UNCHANGED <<monitors, incidents, passes, claimed, queue, history, spent>>

(* For the monitor it tries once; when the lock is taken the run is over.  *)
AcquireMonitor(r) ==
  LET m == MonitorOf(r)
  IN  /\ runs[r].pc = "lock"
      /\ lease' = IF Free(m) THEN [lease EXCEPT ![m] = runs[r].job] ELSE lease
      /\ Goto(r, IF Free(m) THEN "read" ELSE "leave")
      /\ UNCHANGED <<monitors, incidents, passes, claimed, queue, history, spent>>

(* performMonitorCheck reads the monitor, ...                              *)
ReadMonitor(r) ==
  LET row == monitors[MonitorOf(r)]
  IN  /\ runs[r].pc = "read"
      /\ runs' = [runs EXCEPT ![r].saw = row.failures,
                    ![r].pc = IF row.active /\ row.state # "paused"
                              THEN "request" ELSE "unlock"]
      /\ UNCHANGED <<monitors, incidents, passes, claimed, queue, lease, history, spent>>

(* ... makes the request and judges the answer, ...                        *)
Request(r) ==
  /\ runs[r].pc = "request"
  /\ \E o \in {"healthy", "degraded", "down"} :
       runs' = [runs EXCEPT ![r].outcome = o, ![r].pc = "commit"]
  /\ UNCHANGED <<monitors, incidents, passes, claimed, queue, lease, history, spent>>

DeriveEarly(outcome, failures) ==
  IF outcome = "healthy" THEN [state |-> "healthy", failures |-> 0]
  ELSE [state |-> IF outcome = "degraded" \/ failures + 2 < FailuresToOpen
                  THEN "degraded" ELSE "down",
        failures |-> failures + 1]
DeriveDecaying(outcome, failures) ==
  IF outcome = "healthy" THEN [state |-> "healthy", failures |-> failures - 1]
  ELSE DeriveEarly(outcome, failures)
(* deriveMonitorState.                                                     *)
Derive(outcome, failures) ==
  IF outcome = "healthy" THEN [state |-> "healthy", failures |-> 0]
  ELSE [state |-> IF outcome = "degraded" \/ failures + 1 < FailuresToOpen
                  THEN "degraded" ELSE "down",
        failures |-> failures + 1]

(* What the transaction does to the open incident of a cause.              *)
Opens(m, cause, bad) == bad /\ incidents[m][cause] # "open"
RecoversUnopened(m, cause, good) == good /\ cause \in DOMAIN incidents[m]
RecoversAnyway(m, cause, good) == incidents[m][cause] = "open"
Recovers(m, cause, good) == good /\ incidents[m][cause] = "open"

(* ... and records the check in one transaction, which the lock on the     *)
(* monitor's row orders among those of one monitor.  Whether the rolling   *)
(* window has too few checks, keeps or breaks the objective is open here.  *)
Commit(r) ==
  \E slo \in {"few", "kept", "breached"} :
    LET m == MonitorOf(r)
        next == Derive(runs[r].outcome, runs[r].saw)
        bad == [availability |-> next.state = "down", slo_budget |-> slo = "breached"]
        good == [availability |-> next.state = "healthy", slo_budget |-> slo = "kept"]
        alert(c) == IF c \notin Cause THEN <<>>
                    ELSE IF Opens(m, c, bad[c]) THEN <<[cause |-> c, event |-> "opened"]>>
                    ELSE IF Recovers(m, c, good[c])
                    THEN <<[cause |-> c, event |-> "recovered"]>> ELSE <<>>
    IN  /\ runs[r].pc = "commit"
        /\ monitors' = [monitors EXCEPT ![m].state = next.state,
                                        ![m].failures = next.failures]
        /\ incidents' = [incidents EXCEPT ![m] =
             [c \in Cause |-> IF Opens(m, c, bad[c]) THEN "open"
                              ELSE IF Recovers(m, c, good[c]) THEN "recovered"
                              ELSE incidents[m][c]]]
        /\ runs' = [runs EXCEPT ![r].pc = "announce",
                      ![r].saw = 0, ![r].outcome = "healthy",
                      ![r].alerts = alert("availability") \o alert("slo_budget")]
        /\ streak' = [streak EXCEPT ![m] = IF runs[r].outcome = "healthy" THEN 0 ELSE @ + 1]
        /\ UNCHANGED <<passes, claimed, queue, lease, dues, told, spent>>

(* enqueueIncidentAlert, one after another.                                *)
Announce(r) ==
  /\ runs[r].pc = "announce" /\ runs[r].alerts # <<>>
  /\ LET a == Head(runs[r].alerts)
     IN  told' = [told EXCEPT ![MonitorOf(r)][a.cause] = a.event]
  /\ runs' = [runs EXCEPT ![r].alerts = Tail(@)]
  /\ UNCHANGED <<monitors, incidents, passes, claimed, queue, lease, dues, streak, spent>>

AnnouncedEarly(r) ==
  /\ runs[r].pc = "announce" /\ runs' = [runs EXCEPT ![r].pc = "unlock", ![r].alerts = <<>>]
  /\ UNCHANGED <<monitors, incidents, passes, claimed, queue, lease, history, spent>>
Announced(r) ==
  /\ runs[r].pc = "announce" /\ runs[r].alerts = <<>>
  /\ Goto(r, "unlock")
  /\ UNCHANGED <<monitors, incidents, passes, claimed, queue, lease, history, spent>>

(* The finally block: a key is deleted if it still holds the run's token.  *)
Released(k, j) == IF lease[k] = j THEN [lease EXCEPT ![k] = NoJob] ELSE lease

ReleaseMonitor(r) ==
  /\ runs[r].pc = "unlock"
  /\ lease' = Released(MonitorOf(r), runs[r].job)
  /\ Goto(r, "leave")
  /\ UNCHANGED <<monitors, incidents, passes, claimed, queue, history, spent>>

EndRun(r) ==
  LET j == runs[r].job
  IN  /\ runs' = [runs EXCEPT ![r] = Idle]
      /\ jobs' = IF holder[j] = r THEN [jobs EXCEPT ![j].state = "done"] ELSE jobs
      /\ holder' = IF holder[j] = r THEN [holder EXCEPT ![j] = NoRun] ELSE holder

ReleaseSlot(r) ==
  /\ runs[r].pc = "leave"
  /\ lease' = Released(SlotKey(r), runs[r].job)
  /\ EndRun(r)
  /\ UNCHANGED <<monitors, incidents, passes, claimed, nextJob, stalls, history, spent>>

(* A statement throws: the finally block is entered, or, when it is Redis  *)
(* that throws, the keys are left to expire.  The job fails and is not     *)
(* tried again.                                                            *)
RunThrows(r) ==
  /\ runs[r].pc # "idle"
  /\ spent.faults < MaxFaults /\ Spend("faults")
  /\ \/ /\ runs[r].pc \in {"read", "commit", "announce"}
        /\ Goto(r, "unlock")
        /\ UNCHANGED <<jobs, holder>>
     \/ /\ runs[r].pc = "lock"
        /\ Goto(r, "leave")
        /\ UNCHANGED <<jobs, holder>>
     \/ runs[r].pc \in {"slot", "unlock", "leave"} /\ EndRun(r)
  /\ UNCHANGED <<monitors, incidents, passes, claimed, nextJob, stalls, lease, history>>

WorkerCrash ==
  /\ spent.crashes < MaxCrashes /\ Spend("crashes")
  /\ \/ \E r \in Runs : runs[r].pc # "idle"
     \/ \E p \in Passes : passes[p] # {} \/ \E m \in Monitors : <<p, m>> \in claimed
  /\ runs' = [r \in Runs |-> Idle]
  /\ passes' = [p \in Passes |-> {}]
  /\ claimed' = {c \in claimed : c[1] = Api}
  /\ UNCHANGED <<monitors, incidents, queue, lease, history>>

-----------------------------------------------------------------------------
(* Redis: keys expire, those of a run that is gone sooner or later, those  *)
(* of a live run when it takes longer than a minute.                       *)
Holding(r) == {SlotKey(r)} \cup
  (IF runs[r].pc \in {"read", "request", "commit", "announce", "unlock"}
   THEN {MonitorOf(r)} ELSE {})
Held(k) == \E r \in Runs : /\ runs[r].pc \notin {"idle", "slot"}
                           /\ k \in Holding(r) /\ lease[k] = runs[r].job

NeverExpires(k) == k \notin Key
Expires(k) == lease[k] # NoJob
LeaseExpires(k) ==
  /\ Expires(k)
  /\ IF Held(k) THEN spent.expiries < MaxExpiries /\ Spend("expiries")
     ELSE UNCHANGED spent
  /\ lease' = [lease EXCEPT ![k] = NoJob]
  /\ UNCHANGED <<monitors, incidents, passes, claimed, queue, runs, history>>

(* BullMQ, as in IncidentAlerts; a job that failed keeps its id.           *)
Orphaned(j) == \A r \in Runs : runs[r].pc = "idle" \/ runs[r].job # j

LosesLock(j) ==
  /\ jobs[j].state = "active"
  /\ IF Orphaned(j) THEN UNCHANGED spent
     ELSE spent.blocked < MaxBlocked /\ Spend("blocked")
  /\ holder' = [holder EXCEPT ![j] = NoRun]
  /\ UNCHANGED <<monitors, incidents, passes, claimed, nextJob, lease, runs, history>>

Stall(j) ==
  /\ LosesLock(j) /\ stalls[j] < MaxStalls
  /\ jobs' = [jobs EXCEPT ![j].state = "waiting"]
  /\ stalls' = [stalls EXCEPT ![j] = @ + 1]

StallFails(j) ==
  /\ LosesLock(j) /\ stalls[j] >= MaxStalls
  /\ jobs' = [jobs EXCEPT ![j].state = "done"]
  /\ UNCHANGED stalls

-----------------------------------------------------------------------------
Scheduler ==
  \E p \in Passes : \/ PassReads(p) \/ PassThrows(p)
                    \/ \E m \in Monitors : PassClaims(p, m) \/ AddCheck(p, m)

Operator ==
  \E m \in Monitors : \/ RunNow(m) \/ AddCheck(Api, m) \/ HandlerDies(m)
                      \/ Pause(m) \/ Resume(m) \/ PutMonitor(m)

RunStep(r) ==
  \/ \E j \in Job : TakeCheck(r, j)
  \/ \E s \in UserSlots : AcquireSlot(r, s)
  \/ AcquireMonitor(r) \/ ReadMonitor(r) \/ Request(r) \/ Commit(r)
  \/ Announce(r) \/ Announced(r) \/ ReleaseMonitor(r) \/ ReleaseSlot(r)

Next ==
  \/ \E m \in Monitors : IntervalElapses(m)
  \/ Scheduler \/ Operator
  \/ \E r \in Runs : RunStep(r) \/ RunThrows(r)
  \/ WorkerCrash
  \/ \E k \in Key : LeaseExpires(k)
  \/ \E j \in Job : Stall(j) \/ StallFails(j)

(* Runs go on, dead keys expire and orphaned jobs are found; nobody has to *)
(* schedule, ask, pause, crash or throw.                                   *)
Fairness ==
  /\ \A r \in Runs : WF_vars(RunStep(r))
  /\ \A k \in Key : WF_vars(~Held(k) /\ LeaseExpires(k))
  /\ \A j \in Job : WF_vars(Orphaned(j) /\ (Stall(j) \/ StallFails(j)))

Spec == Init /\ [][Next]_vars
FairSpec == Spec /\ Fairness

-----------------------------------------------------------------------------
(* Properties.                                                             *)

MonitorsOK ==
  /\ monitors \in [Monitors -> [state : {"new", "healthy", "degraded", "down", "paused"},
                                failures : Nat, active : BOOLEAN, due : BOOLEAN]]
  /\ incidents \in [Monitors -> [Cause -> {"none", "open", "recovered"}]]
SchedulerOK ==
  /\ passes \in [Passes -> SUBSET Monitors]
  /\ claimed \subseteq (Passes \cup {Api}) \X Monitors
QueueOK ==
  /\ jobs \in [Job -> [state : {"none", "waiting", "active", "done"}, monitor : Monitors]]
  /\ nextJob \in 1 .. MaxJobs + 1
  /\ stalls \in [Job -> 0 .. MaxStalls]
  /\ holder \in [Job -> Runs \cup {NoRun}]
  /\ lease \in [Key -> Job \cup {NoJob}]
RunsOK ==
  runs \in [Runs -> [pc : {"idle", "slot", "lock", "read", "request", "commit",
                          "announce", "unlock", "leave"},
                    job : Job, slot : UserSlots, saw : Nat,
                    outcome : {"healthy", "degraded", "down"},
                    alerts : Seq([cause : Cause, event : {"opened", "recovered"}])]]
HistoryOK ==
  /\ dues \in [Monitors -> Int] /\ streak \in [Monitors -> Nat]
  /\ told \in [Monitors -> [Cause -> {"none", "opened", "recovered"}]]

TypeOK == MonitorsOK /\ SchedulerOK /\ QueueOK /\ RunsOK /\ HistoryOK

(* While no key expires under a live run, scheduled and manual checks of a *)
(* monitor do not overlap, though jobs stall, crash and are run again.     *)
Checking(r) == runs[r].pc \in {"read", "request", "commit", "announce"}
MonitorExclusive ==
  \A r, q \in Runs : Checking(r) /\ Checking(q) /\ r # q => MonitorOf(r) # MonitorOf(q)

(* Nor does a user get more checks at once than there are slots.           *)
Busy(u) == {r \in Runs : runs[r].pc \notin {"idle", "slot"} /\ Owner[MonitorOf(r)] = u}
UserConcurrency == \A u \in Users : Cardinality(Busy(u)) <= Cardinality(UserSlots)

(* A monitor is down only after as many failed checks in a row as it was   *)
(* configured with, whatever was paused, resumed and rerun in between.     *)
DownAfterThreshold ==
  \A m \in Monitors : monitors[m].state = "down" => streak[m] >= FailuresToOpen

(* What the dashboard shows agrees with the incidents: a monitor that is   *)
(* down has an open one, a healthy monitor has none.                       *)
IncidentMatchesState ==
  \A m \in Monitors : "availability" \in Cause =>
    /\ monitors[m].state = "down" => incidents[m]["availability"] = "open"
    /\ monitors[m].state = "healthy" => incidents[m]["availability"] # "open"

(* Overlapping passes and manual runs turn an interval into one job.       *)
OneJobPerInterval == \A m \in Monitors : dues[m] >= 0

(* Alerts of one cause are enqueued in the order of the incidents: opened, *)
(* recovered, opened, unless a crash or a throw swallowed one.             *)
Undisturbed == spent.crashes = 0 /\ spent.faults = 0
ToldInOrder ==
  [][\A m \in Monitors, c \in Cause :
       told'[m][c] # told[m][c] /\ Undisturbed
         => told'[m][c] = "recovered" <=> told[m][c] = "opened"]_vars

(* Every job that was added ends, though a run dies with keys in its name. *)
JobsEnd == \A j \in Job : jobs[j].state = "waiting" ~> jobs[j].state = "done"

(* What is opened is told, unless a crash or a throw comes between.        *)
OpeningIsTold ==
  \A m \in Monitors, c \in Cause :
    incidents[m][c] = "open" ~> told[m][c] = "opened" \/ ~Undisturbed
=============================================================================
