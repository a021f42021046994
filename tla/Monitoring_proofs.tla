-------------------------- MODULE Monitoring_proofs --------------------------
(***************************************************************************)
(* Proofs about Monitoring, for any monitors, users, slots, runs, passes   *)
(* and bounds: an interval makes one job, incidents agree with the states  *)
(* of the monitors, and, while no key expires under a live run, checks     *)
(* exclude each other, failures are counted one by one and alerts are told *)
(* in the order of the incidents.                                          *)
(***************************************************************************)
EXTENDS Monitoring, FiniteSetTheorems, SequenceTheorems, TLAPS

States == {"new", "healthy", "degraded", "down", "paused"}
MonitorRow == [state : States, failures : Nat, active : BOOLEAN, due : BOOLEAN]
JobRow == [state : {"none", "waiting", "active", "done"}, monitor : Monitors]
Pcs == {"idle", "slot", "lock", "read", "request", "commit", "announce", "unlock", "leave"}
Alert == [cause : Cause, event : {"opened", "recovered"}]
Run == [pc : Pcs, job : Job, slot : UserSlots, saw : Nat,
        outcome : {"healthy", "degraded", "down"}, alerts : Seq(Alert)]
Spent == [manual : Nat, changes : Nat, crashes : Nat, blocked : Nat, faults : Nat, expiries : Nat]

Typed == TypeOK /\ spent \in Spent

LEMMA TypesAre ==
  ASSUME Typed
  PROVE  /\ monitors \in [Monitors -> MonitorRow]
         /\ incidents \in [Monitors -> [Cause -> {"none", "open", "recovered"}]]
         /\ jobs \in [Job -> JobRow] /\ nextJob \in 1 .. MaxJobs + 1
         /\ lease \in [Key -> Job \cup {NoJob}] /\ holder \in [Job -> Runs \cup {NoRun}]
         /\ runs \in [Runs -> Run]
         /\ dues \in [Monitors -> Int] /\ streak \in [Monitors -> Nat]
         /\ spent \in Spent
BY DEF Typed, TypeOK, MonitorsOK, QueueOK, RunsOK, HistoryOK, MonitorRow, States, JobRow,
       Run, Pcs, Alert, Spent

-----------------------------------------------------------------------------
(* The rows of the monitors.                                               *)

LEMMA RowDue ==
  ASSUME NEW q \in MonitorRow, NEW b \in BOOLEAN
  PROVE  /\ [q EXCEPT !.due = b] \in MonitorRow /\ [q EXCEPT !.due = b].due = b
         /\ [q EXCEPT !.due = b].state = q.state /\ [q EXCEPT !.due = b].failures = q.failures
BY DEF MonitorRow

LEMMA RowActive ==
  ASSUME NEW q \in MonitorRow, NEW b \in BOOLEAN
  PROVE  /\ [q EXCEPT !.active = b] \in MonitorRow /\ [q EXCEPT !.active = b].due = q.due
         /\ [q EXCEPT !.active = b].state = q.state /\ [q EXCEPT !.active = b].failures = q.failures
BY DEF MonitorRow

LEMMA RowState ==
  ASSUME NEW q \in MonitorRow, NEW s \in States
  PROVE  /\ [q EXCEPT !.state = s] \in MonitorRow /\ [q EXCEPT !.state = s].due = q.due
         /\ [q EXCEPT !.state = s].state = s /\ [q EXCEPT !.state = s].failures = q.failures
BY DEF MonitorRow

LEMMA RowFailures ==
  ASSUME NEW q \in MonitorRow, NEW n \in Nat
  PROVE  /\ [q EXCEPT !.failures = n] \in MonitorRow /\ [q EXCEPT !.failures = n].due = q.due
         /\ [q EXCEPT !.failures = n].state = q.state /\ [q EXCEPT !.failures = n].failures = n
BY DEF MonitorRow

Bit(b) == IF b THEN 1 ELSE 0

(* What a step other than a check's does to a row and its intervals.       *)
RowGoes(m, q) ==
  /\ monitors' = [monitors EXCEPT ![m] = q]
  /\ dues' = [dues EXCEPT ![m] = dues[m] + Bit(q.due) - Bit(monitors[m].due)]
  /\ q.failures \in {0, monitors[m].failures} /\ q.state \in {monitors[m].state, "paused", "new"}
  /\ UNCHANGED <<incidents, streak>>

LEMMA DueGoes ==
  ASSUME Typed, NEW m \in Monitors, NEW b \in BOOLEAN,
         monitors' = [monitors EXCEPT ![m].due = b],
         dues' = [dues EXCEPT ![m] = dues[m] + Bit(b) - Bit(monitors[m].due)],
         UNCHANGED <<incidents, streak>>
  PROVE  \E q \in MonitorRow : RowGoes(m, q)
<1>1. PICK p \in MonitorRow : p = monitors[m]
  BY TypesAre
<1> DEFINE q == [p EXCEPT !.due = b]
<1>2. q \in MonitorRow /\ q.due = b /\ q.failures = p.failures /\ q.state = p.state
  BY RowDue
<1>3. monitors' = [monitors EXCEPT ![m] = q]
  BY <1>1
<1> HIDE DEF q
<1> QED BY <1>1, <1>2, <1>3 DEF RowGoes

LEMMA PauseGoes ==
  ASSUME Typed, NEW m \in Monitors, Pause(m)
  PROVE  \E q \in MonitorRow : RowGoes(m, q)
<1>1. PICK p \in MonitorRow : p = monitors[m]
  BY TypesAre
<1> DEFINE q1 == [p EXCEPT !.state = "paused"]
           q2 == [q1 EXCEPT !.active = FALSE]
<1>2. q1 \in MonitorRow /\ q1.due = p.due /\ q1.failures = p.failures /\ q1.state = "paused"
  <2>1. "paused" \in States
    BY DEF States
  <2> QED BY <2>1, RowState
<1>3. monitors' = [monitors EXCEPT ![m] = q2] /\ UNCHANGED <<incidents, streak, dues>>
  BY <1>1 DEF Pause, Change
<1> HIDE DEF q1
<1>4. q2 \in MonitorRow /\ q2.due = p.due /\ q2.failures = p.failures /\ q2.state = "paused"
  BY <1>2, RowActive
<1> HIDE DEF q2
<1>5. dues[m] = dues[m] + Bit(q2.due) - Bit(monitors[m].due) /\ dues = [dues EXCEPT ![m] = dues[m]]
  BY <1>1, <1>4, TypesAre DEF Bit
<1> QED BY <1>1, <1>3, <1>4, <1>5 DEF RowGoes

LEMMA MakeDueGoes ==
  ASSUME Typed, NEW m \in Monitors, NEW row \in MonitorRow, MakeDue(m, row),
         row.failures \in {0, monitors[m].failures}, row.state \in {monitors[m].state, "paused", "new"},
         UNCHANGED <<incidents, streak>>
  PROVE  \E q \in MonitorRow : RowGoes(m, q)
<1> DEFINE q == [row EXCEPT !.due = TRUE]
<1>1. q \in MonitorRow /\ q.due = TRUE /\ q.failures = row.failures /\ q.state = row.state
  BY RowDue
<1>2. monitors' = [monitors EXCEPT ![m] = q]
      /\ dues' = [dues EXCEPT ![m] = IF monitors[m].due THEN dues[m] ELSE dues[m] + 1]
  BY DEF MakeDue
<1> HIDE DEF q
<1>3. (IF monitors[m].due THEN dues[m] ELSE dues[m] + 1) = dues[m] + Bit(q.due) - Bit(monitors[m].due)
  BY <1>1, TypesAre DEF Bit
<1> QED BY <1>1, <1>2, <1>3 DEF RowGoes

LEMMA ResumeGoes ==
  ASSUME Typed, NEW m \in Monitors, Resume(m)
  PROVE  \E q \in MonitorRow : RowGoes(m, q)
<1>1. PICK p \in MonitorRow : p = monitors[m]
  BY TypesAre
<1> DEFINE q1 == [p EXCEPT !.state = "new"]
           q2 == [q1 EXCEPT !.active = TRUE]
           q3 == [q2 EXCEPT !.failures = 0]
<1>2. q1 \in MonitorRow /\ q1.state = "new"
  <2>1. "new" \in States
    BY DEF States
  <2> QED BY <2>1, RowState
<1>3. MakeDue(m, q3) /\ UNCHANGED <<incidents, streak>>
  BY <1>1 DEF Resume, Change
<1> HIDE DEF q1
<1>4. q2 \in MonitorRow /\ q2.state = "new"
  BY <1>2, RowActive
<1> HIDE DEF q2
<1>5. q3 \in MonitorRow /\ q3.state = "new" /\ q3.failures = 0
  BY <1>4, RowFailures
<1> HIDE DEF q3
<1> QED BY <1>3, <1>5, MakeDueGoes

LEMMA RowSteps ==
  ASSUME Typed, [Next]_vars
  PROVE  \/ UNCHANGED <<monitors, dues, incidents, streak>>
         \/ \E m \in Monitors, q \in MonitorRow : RowGoes(m, q)
         \/ \E r \in Runs : Commit(r)
<1> DEFINE Goal == \/ UNCHANGED <<monitors, dues, incidents, streak>>
                   \/ \E m \in Monitors, q \in MonitorRow : RowGoes(m, q)
                   \/ \E r \in Runs : Commit(r)
<1>1. ASSUME NEW m \in Monitors, IntervalElapses(m)
      PROVE  Goal
  <2>1. dues[m] + 1 = dues[m] + Bit(TRUE) - Bit(monitors[m].due)
    BY <1>1, TypesAre DEF Bit, IntervalElapses
  <2> QED BY <1>1, <2>1, DueGoes DEF IntervalElapses
<1>2. ASSUME NEW p \in Passes, NEW m \in Monitors, PassClaims(p, m)
      PROVE  Goal
  <2>1. CASE UNCHANGED <<monitors, dues>>
    BY <1>2, <2>1 DEF PassClaims
  <2>2. CASE ~UNCHANGED <<monitors, dues>>
    <3>1. dues[m] - 1 = dues[m] + Bit(FALSE) - Bit(monitors[m].due)
      BY <1>2, <2>2, TypesAre DEF Bit, PassClaims, Claimable
    <3>2. /\ monitors' = [monitors EXCEPT ![m].due = FALSE]
          /\ dues' = [dues EXCEPT ![m] = dues[m] - 1] /\ UNCHANGED <<incidents, streak>>
      BY <1>2, <2>2 DEF PassClaims
    <3> QED BY <3>1, <3>2, DueGoes
  <2> QED BY <2>1, <2>2
<1>3. ASSUME NEW m \in Monitors, RunNow(m)
      PROVE  Goal
  <2>1. (IF monitors[m].due THEN dues[m] - 1 ELSE dues[m]) = dues[m] + Bit(FALSE) - Bit(monitors[m].due)
    BY TypesAre DEF Bit
  <2>2. /\ monitors' = [monitors EXCEPT ![m].due = FALSE] /\ UNCHANGED <<incidents, streak>>
        /\ dues' = [dues EXCEPT ![m] = IF monitors[m].due THEN dues[m] - 1 ELSE dues[m]]
    BY <1>3 DEF RunNow
  <2> QED BY <2>1, <2>2, DueGoes
<1>4. ASSUME NEW m \in Monitors, Pause(m) \/ Resume(m) \/ PutMonitor(m)
      PROVE  Goal
  <2>1. CASE PutMonitor(m)
    <3>1. monitors[m] \in MonitorRow
      BY TypesAre
    <3> QED BY <2>1, <3>1, MakeDueGoes DEF PutMonitor, Change
  <2> QED BY <1>4, <2>1, PauseGoes, ResumeGoes
<1>5. ASSUME UNCHANGED <<monitors, dues, incidents, streak>> \/ \E r \in Runs : Commit(r)
      PROVE  Goal
  BY <1>5
<1> HIDE DEF Goal
<1>6. ASSUME Scheduler PROVE Goal
  BY <1>2, <1>5, <1>6 DEF Scheduler, PassReads, AddCheck, PassThrows, history
<1>7. ASSUME Operator PROVE Goal
  BY <1>3, <1>4, <1>5, <1>7 DEF Operator, AddCheck, HandlerDies, history
<1>8. ASSUME NEW r \in Runs, RunStep(r) \/ RunThrows(r) PROVE Goal
  <2>1. CASE Commit(r)
    BY <1>5, <2>1
  <2> QED BY <1>5, <1>8, <2>1
          DEF RunStep, RunThrows, TakeCheck, AcquireSlot, AcquireMonitor, ReadMonitor, Request,
              Announce, Announced, ReleaseMonitor, ReleaseSlot, history
<1>9. ASSUME WorkerCrash \/ (\E k \in Key : LeaseExpires(k)) \/ (\E j \in Job : Stall(j) \/ StallFails(j))
      PROVE  Goal
  BY <1>5, <1>9 DEF WorkerCrash, LeaseExpires, LosesLock, Stall, StallFails, history
<1>10. ASSUME UNCHANGED vars PROVE Goal
  BY <1>5, <1>10 DEF vars, history
<1>11. Goal
  BY <1>1, <1>6, <1>7, <1>8, <1>9, <1>10 DEF Next
<1> QED BY <1>11 DEF Goal

-----------------------------------------------------------------------------
(* The records of the runs.                                                *)

LEMMA RunPc ==
  ASSUME NEW q \in Run, NEW pc \in Pcs
  PROVE  /\ [q EXCEPT !.pc = pc] \in Run /\ [q EXCEPT !.pc = pc].pc = pc
         /\ [q EXCEPT !.pc = pc].job = q.job /\ [q EXCEPT !.pc = pc].slot = q.slot
         /\ [q EXCEPT !.pc = pc].saw = q.saw /\ [q EXCEPT !.pc = pc].alerts = q.alerts
BY DEF Run

LEMMA RunJob ==
  ASSUME NEW q \in Run, NEW j \in Job
  PROVE  /\ [q EXCEPT !.job = j] \in Run /\ [q EXCEPT !.job = j].pc = q.pc
         /\ [q EXCEPT !.job = j].job = j
BY DEF Run

LEMMA RunSlot ==
  ASSUME NEW q \in Run, NEW s \in UserSlots
  PROVE  /\ [q EXCEPT !.slot = s] \in Run /\ [q EXCEPT !.slot = s].pc = q.pc
         /\ [q EXCEPT !.slot = s].job = q.job /\ [q EXCEPT !.slot = s].slot = s
BY DEF Run

LEMMA RunSaw ==
  ASSUME NEW q \in Run, NEW n \in Nat
  PROVE  /\ [q EXCEPT !.saw = n] \in Run /\ [q EXCEPT !.saw = n].pc = q.pc
         /\ [q EXCEPT !.saw = n].job = q.job /\ [q EXCEPT !.saw = n].slot = q.slot
         /\ [q EXCEPT !.saw = n].saw = n
BY DEF Run

LEMMA RunOutcome ==
  ASSUME NEW q \in Run, NEW o \in {"healthy", "degraded", "down"}
  PROVE  /\ [q EXCEPT !.outcome = o] \in Run /\ [q EXCEPT !.outcome = o].pc = q.pc
         /\ [q EXCEPT !.outcome = o].job = q.job /\ [q EXCEPT !.outcome = o].slot = q.slot
         /\ [q EXCEPT !.outcome = o].saw = q.saw
BY DEF Run

LEMMA RunAlerts ==
  ASSUME NEW q \in Run, NEW a \in Seq(Alert)
  PROVE  /\ [q EXCEPT !.alerts = a] \in Run /\ [q EXCEPT !.alerts = a].pc = q.pc
         /\ [q EXCEPT !.alerts = a].job = q.job /\ [q EXCEPT !.alerts = a].slot = q.slot
         /\ [q EXCEPT !.alerts = a].saw = q.saw
BY DEF Run

LEMMA IdleRun == BoundsAssumption => Idle \in Run /\ Idle.pc = "idle"
<1> SUFFICES ASSUME BoundsAssumption PROVE Idle \in Run /\ Idle.pc = "idle"
  OBVIOUS
<1>1. 1 \in Job /\ (CHOOSE k \in UserSlots : TRUE) \in UserSlots /\ <<>> \in Seq(Alert)
  BY DEF BoundsAssumption, Job
<1> QED BY <1>1 DEF Idle, Run, Pcs

-----------------------------------------------------------------------------
(* The transaction of a check.                                             *)

LEMMA DeriveIs ==
  ASSUME BoundsAssumption, NEW o \in {"healthy", "degraded", "down"}, NEW n \in Nat
  PROVE  /\ Derive(o, n).state \in {"healthy", "degraded", "down"}
         /\ Derive(o, n).failures \in Nat
         /\ Derive(o, n).state = "down" => FailuresToOpen <= n + 1 /\ o # "healthy"
         /\ Derive(o, n).failures = IF o = "healthy" THEN 0 ELSE n + 1
BY DEF Derive, BoundsAssumption

Announcing(r, z) ==
  /\ runs' = [runs EXCEPT ![r] = z]
  /\ z.pc = "announce" /\ z.job = runs[r].job /\ z.slot = runs[r].slot

CommitGoes(r, q) ==
  LET m == MonitorOf(r)
  IN  /\ monitors' = [monitors EXCEPT ![m] = q]
      /\ q.due = monitors[m].due
      /\ q.state = Derive(runs[r].outcome, runs[r].saw).state
      /\ q.failures = Derive(runs[r].outcome, runs[r].saw).failures
      /\ streak' = [streak EXCEPT ![m] = IF runs[r].outcome = "healthy" THEN 0 ELSE streak[m] + 1]
      /\ UNCHANGED <<passes, claimed, queue, lease, dues, told, spent>>

IncidentsGo(m, state) ==
  /\ incidents' \in [Monitors -> [Cause -> {"none", "open", "recovered"}]]
  /\ \A x \in Monitors : x # m => incidents'[x] = incidents[x]
  /\ "availability" \in Cause =>
       /\ state = "down" => incidents'[m]["availability"] = "open"
       /\ state = "healthy" => incidents'[m]["availability"] # "open"

LEMMA CommitRow ==
  ASSUME Typed, BoundsAssumption, NEW r \in Runs, Commit(r)
  PROVE  \E q \in MonitorRow : CommitGoes(r, q)
<1>1. /\ runs[r] \in Run /\ MonitorOf(r) \in Monitors
      /\ runs[r].outcome \in {"healthy", "degraded", "down"} /\ runs[r].saw \in Nat
  BY TypesAre DEF Run, JobRow, MonitorOf
<1>2. PICK p \in MonitorRow : p = monitors[MonitorOf(r)]
  BY <1>1, TypesAre
<1>3. PICK s, n : s = Derive(runs[r].outcome, runs[r].saw).state
                  /\ n = Derive(runs[r].outcome, runs[r].saw).failures
  OBVIOUS
<1>4. s \in States /\ n \in Nat
  BY <1>1, <1>3, DeriveIs DEF States
<1> DEFINE q1 == [p EXCEPT !.state = s]
           q2 == [q1 EXCEPT !.failures = n]
<1>5. /\ monitors' = [monitors EXCEPT ![MonitorOf(r)].state = s, ![MonitorOf(r)].failures = n]
      /\ streak' = [streak EXCEPT ![MonitorOf(r)] =
                      IF runs[r].outcome = "healthy" THEN 0 ELSE streak[MonitorOf(r)] + 1]
      /\ UNCHANGED <<passes, claimed, queue, lease, dues, told, spent>>
  BY <1>3 DEF Commit
<1>6. monitors' = [monitors EXCEPT ![MonitorOf(r)] = q2]
  BY <1>1, <1>2, <1>5, TypesAre
<1>7. q1 \in MonitorRow /\ q1.due = p.due /\ q1.state = s
  BY <1>4, RowState
<1> HIDE DEF q1
<1>8. q2 \in MonitorRow /\ q2.due = p.due /\ q2.state = s /\ q2.failures = n
  BY <1>4, <1>7, RowFailures
<1> HIDE DEF q2
<1> QED BY <1>2, <1>3, <1>5, <1>6, <1>8 DEF CommitGoes

LEMMA CommitIncidents ==
  ASSUME Typed, BoundsAssumption, NEW r \in Runs, Commit(r)
  PROVE  IncidentsGo(MonitorOf(r), Derive(runs[r].outcome, runs[r].saw).state)
<1> DEFINE m == MonitorOf(r)
           next == Derive(runs[r].outcome, runs[r].saw)
<1>1. PICK slo \in {"few", "kept", "breached"} :
        incidents' = [incidents EXCEPT ![m] =
          [c \in Cause |->
             IF Opens(m, c, [availability |-> next.state = "down", slo_budget |-> slo = "breached"][c])
             THEN "open"
             ELSE IF Recovers(m, c, [availability |-> next.state = "healthy", slo_budget |-> slo = "kept"][c])
             THEN "recovered" ELSE incidents[m][c]]]
  BY DEF Commit
<1>2. m \in Monitors /\ incidents[m] \in [Cause -> {"none", "open", "recovered"}]
  BY TypesAre DEF Run, JobRow, MonitorOf
<1>3. incidents' \in [Monitors -> [Cause -> {"none", "open", "recovered"}]]
  BY <1>1, <1>2, TypesAre
<1>4. \A x \in Monitors : x # m => incidents'[x] = incidents[x]
  BY <1>1, <1>2, TypesAre
<1>5. "availability" \in Cause =>
        incidents'[m]["availability"] =
          IF next.state = "down" /\ incidents[m]["availability"] # "open" THEN "open"
          ELSE IF next.state = "healthy" /\ incidents[m]["availability"] = "open" THEN "recovered"
          ELSE incidents[m]["availability"]
  BY <1>1, <1>2, TypesAre DEF Opens, Recovers
<1> QED BY <1>3, <1>4, <1>5 DEF IncidentsGo

LEMMA CommitRun ==
  ASSUME Typed, BoundsAssumption, NEW r \in Runs, Commit(r)
  PROVE  \E z \in Run : Announcing(r, z)
<1>1. PICK p \in Run : p = runs[r]
  BY TypesAre
<1> DEFINE m == MonitorOf(r)
           next == Derive(runs[r].outcome, runs[r].saw)
<1>2. PICK slo \in {"few", "kept", "breached"} :
        LET bad == [availability |-> next.state = "down", slo_budget |-> slo = "breached"]
            good == [availability |-> next.state = "healthy", slo_budget |-> slo = "kept"]
            alert(c) == IF c \notin Cause THEN <<>>
                        ELSE IF Opens(m, c, bad[c]) THEN <<[cause |-> c, event |-> "opened"]>>
                        ELSE IF Recovers(m, c, good[c])
                        THEN <<[cause |-> c, event |-> "recovered"]>> ELSE <<>>
        IN  runs' = [runs EXCEPT ![r].pc = "announce", ![r].saw = 0, ![r].outcome = "healthy",
                       ![r].alerts = alert("availability") \o alert("slo_budget")]
  BY DEF Commit
<1> DEFINE bad == [availability |-> next.state = "down", slo_budget |-> slo = "breached"]
           good == [availability |-> next.state = "healthy", slo_budget |-> slo = "kept"]
           alert(c) == IF c \notin Cause THEN <<>>
                       ELSE IF Opens(m, c, bad[c]) THEN <<[cause |-> c, event |-> "opened"]>>
                       ELSE IF Recovers(m, c, good[c])
                       THEN <<[cause |-> c, event |-> "recovered"]>> ELSE <<>>
           a == alert("availability") \o alert("slo_budget")
<1>3. a \in Seq(Alert)
  <2>1. ASSUME NEW c PROVE alert(c) \in Seq(Alert)
    <3> DEFINE o == [cause |-> c, event |-> "opened"]
               v == [cause |-> c, event |-> "recovered"]
    <3>1. c \in Cause => o \in Alert /\ v \in Alert
      BY DEF Alert
    <3>2. \/ alert(c) = <<>>
          \/ c \in Cause /\ alert(c) = <<o>>
          \/ c \in Cause /\ alert(c) = <<v>>
      BY Zenon
    <3> HIDE DEF alert, o, v
    <3>3. <<>> \in Seq(Alert) /\ (c \in Cause => <<o>> \in Seq(Alert) /\ <<v>> \in Seq(Alert))
      BY <3>1
    <3> QED BY <3>2, <3>3
  <2> HIDE DEF alert
  <2> QED BY <2>1
<1>4. runs' = [runs EXCEPT ![r].pc = "announce", ![r].saw = 0, ![r].outcome = "healthy",
                           ![r].alerts = a]
  BY <1>2
<1> HIDE DEF a
<1> DEFINE q1 == [p EXCEPT !.pc = "announce"]
           q2 == [q1 EXCEPT !.saw = 0]
           q3 == [q2 EXCEPT !.outcome = "healthy"]
           q4 == [q3 EXCEPT !.alerts = a]
<1>5. runs' = [runs EXCEPT ![r] = q4]
  BY <1>1, <1>4, TypesAre
<1>6. q1 \in Run /\ q1.pc = "announce" /\ q1.job = p.job /\ q1.slot = p.slot
  <2>1. "announce" \in Pcs
    BY DEF Pcs
  <2> QED BY <2>1, RunPc
<1> HIDE DEF q1
<1>7. q2 \in Run /\ q2.pc = "announce" /\ q2.job = p.job /\ q2.slot = p.slot
  BY <1>6, RunSaw
<1> HIDE DEF q2
<1>8. q3 \in Run /\ q3.pc = "announce" /\ q3.job = p.job /\ q3.slot = p.slot
  BY <1>7, RunOutcome
<1> HIDE DEF q3
<1>9. q4 \in Run /\ q4.pc = "announce" /\ q4.job = p.job /\ q4.slot = p.slot
  BY <1>3, <1>8, RunAlerts
<1> HIDE DEF q4
<1> QED BY <1>1, <1>5, <1>9 DEF Announcing

-----------------------------------------------------------------------------
(* What a step does to the runs and to the keys they hold.                 *)

OwningPcs == {"read", "request", "commit", "announce", "unlock"}

Becomes(r, z) == z \in Run /\ runs' = [runs EXCEPT ![r] = z]
Same(r, z) == z.job = runs[r].job /\ z.slot = runs[r].slot
Takes(r, z) ==
  /\ runs[r].pc = "idle" /\ z.pc = "slot" /\ jobs[z.job].state = "waiting"
  /\ UNCHANGED lease
TakesSlot(r, z) ==
  /\ runs[r].pc = "slot" /\ z.pc = "lock" /\ z.job = runs[r].job
  /\ Free(<<Owner[MonitorOf(r)], z.slot>>)
  /\ lease' = [lease EXCEPT ![<<Owner[MonitorOf(r)], z.slot>>] = z.job]
TakesLock(r, z) ==
  /\ runs[r].pc = "lock" /\ z.pc = "read" /\ Same(r, z) /\ Free(MonitorOf(r))
  /\ lease' = [lease EXCEPT ![MonitorOf(r)] = z.job]
Inside(r, z) ==
  /\ runs[r].pc \in OwningPcs /\ z.pc \in OwningPcs /\ Same(r, z) /\ UNCHANGED lease
  /\ z.pc \in {"request", "commit"} =>
       \/ z.saw = monitors[MonitorOf(r)].failures
       \/ z.saw = runs[r].saw /\ runs[r].pc = "request"
Leaves(r, z) ==
  /\ runs[r].pc \in {"lock", "unlock"} /\ z.pc = "leave" /\ Same(r, z)
  /\ \/ UNCHANGED lease
     \/ runs[r].pc = "unlock" /\ lease' = Released(MonitorOf(r), z.job)
Ends(r, z) ==
  /\ z.pc = "idle"
  /\ \/ UNCHANGED lease
     \/ runs[r].pc = "leave" /\ lease' = Released(SlotKey(r), runs[r].job)

RunMoves(r, z) ==
  /\ Becomes(r, z)
  /\ \/ Takes(r, z) \/ TakesSlot(r, z) \/ TakesLock(r, z) \/ Inside(r, z)
     \/ Leaves(r, z) \/ Ends(r, z)

LEMMA GotoMoves ==
  ASSUME Typed, NEW r \in Runs, NEW pc \in Pcs, Goto(r, pc)
  PROVE  \E z \in Run : /\ Becomes(r, z) /\ z.pc = pc /\ Same(r, z) /\ z.saw = runs[r].saw
<1>1. PICK q \in Run : q = runs[r]
  BY TypesAre
<1> DEFINE z == [q EXCEPT !.pc = pc]
<1>2. z \in Run /\ z.pc = pc /\ z.job = q.job /\ z.slot = q.slot /\ z.saw = q.saw
  BY RunPc
<1>3. runs' = [runs EXCEPT ![r] = z]
  BY <1>1 DEF Goto
<1> HIDE DEF z
<1> QED BY <1>1, <1>2, <1>3 DEF Becomes, Same

LEMMA TakeMoves ==
  ASSUME Typed, BoundsAssumption, NEW r \in Runs, NEW j \in Job, TakeCheck(r, j)
  PROVE  \E z \in Run : RunMoves(r, z)
<1>1. PICK q \in Run : q = Idle
  BY IdleRun
<1> DEFINE q1 == [q EXCEPT !.pc = "slot"]
           q2 == [q1 EXCEPT !.job = j]
<1>2. runs' = [runs EXCEPT ![r] = q2] /\ UNCHANGED lease
      /\ runs[r].pc = "idle" /\ jobs[j].state = "waiting"
  BY <1>1 DEF TakeCheck
<1>3. q1 \in Run /\ q1.pc = "slot"
  <2>1. "slot" \in Pcs
    BY DEF Pcs
  <2> QED BY <2>1, RunPc
<1> HIDE DEF q1
<1>4. q2 \in Run /\ q2.pc = "slot" /\ q2.job = j
  BY <1>3, RunJob
<1> HIDE DEF q2
<1> QED BY <1>2, <1>4 DEF RunMoves, Becomes, Takes

LEMMA SlotMoves ==
  ASSUME Typed, NEW r \in Runs, NEW s \in UserSlots, AcquireSlot(r, s)
  PROVE  \E z \in Run : RunMoves(r, z)
<1>1. PICK q \in Run : q = runs[r]
  BY TypesAre
<1> DEFINE q1 == [q EXCEPT !.pc = "lock"]
           q2 == [q1 EXCEPT !.slot = s]
<1>2. /\ runs' = [runs EXCEPT ![r] = q2] /\ runs[r].pc = "slot"
      /\ Free(<<Owner[MonitorOf(r)], s>>)
      /\ lease' = [lease EXCEPT ![<<Owner[MonitorOf(r)], s>>] = q.job]
  BY <1>1, TypesAre DEF AcquireSlot
<1>3. q1 \in Run /\ q1.pc = "lock" /\ q1.job = q.job
  <2>1. "lock" \in Pcs
    BY DEF Pcs
  <2> QED BY <2>1, RunPc
<1> HIDE DEF q1
<1>4. q2 \in Run /\ q2.pc = "lock" /\ q2.job = q.job /\ q2.slot = s
  BY <1>3, RunSlot
<1> HIDE DEF q2
<1> QED BY <1>1, <1>2, <1>4 DEF RunMoves, Becomes, TakesSlot

LEMMA ReadMoves ==
  ASSUME Typed, NEW r \in Runs, ReadMonitor(r)
  PROVE  \E z \in Run : RunMoves(r, z)
<1> DEFINE row == monitors[MonitorOf(r)]
<1>1. PICK q \in Run : q = runs[r]
  BY TypesAre
<1>2. PICK n \in Nat : n = row.failures
  BY TypesAre DEF MonitorRow, Run, JobRow, MonitorOf
<1>3. PICK pc \in {"request", "unlock"} :
        pc = IF row.active /\ row.state # "paused" THEN "request" ELSE "unlock"
  OBVIOUS
<1> DEFINE q1 == [q EXCEPT !.saw = n]
           q2 == [q1 EXCEPT !.pc = pc]
<1>4. runs' = [runs EXCEPT ![r] = q2] /\ runs[r].pc = "read" /\ UNCHANGED lease
  BY <1>1, <1>2, <1>3, TypesAre DEF ReadMonitor
<1>5. q1 \in Run /\ q1.job = q.job /\ q1.slot = q.slot /\ q1.saw = n
  BY RunSaw
<1> HIDE DEF q1
<1>6. q2 \in Run /\ q2.pc = pc /\ q2.job = q.job /\ q2.slot = q.slot /\ q2.saw = n
  <2>1. pc \in Pcs
    BY DEF Pcs
  <2> QED BY <1>5, <2>1, RunPc
<1> HIDE DEF q2
<1>7. Inside(r, q2)
  BY <1>1, <1>2, <1>4, <1>6 DEF Inside, Same, OwningPcs
<1> QED BY <1>4, <1>6, <1>7 DEF RunMoves, Becomes

LEMMA RequestMoves ==
  ASSUME Typed, NEW r \in Runs, Request(r)
  PROVE  \E z \in Run : RunMoves(r, z)
<1>1. PICK q \in Run : q = runs[r]
  BY TypesAre
<1>2. PICK o \in {"healthy", "degraded", "down"} :
        runs' = [runs EXCEPT ![r].outcome = o, ![r].pc = "commit"]
  BY DEF Request
<1> DEFINE q1 == [q EXCEPT !.outcome = o]
           q2 == [q1 EXCEPT !.pc = "commit"]
<1>3. runs' = [runs EXCEPT ![r] = q2] /\ runs[r].pc = "request" /\ UNCHANGED lease
  BY <1>1, <1>2, TypesAre DEF Request
<1>4. q1 \in Run /\ q1.job = q.job /\ q1.slot = q.slot /\ q1.saw = q.saw
  BY RunOutcome
<1> HIDE DEF q1
<1>5. q2 \in Run /\ q2.pc = "commit" /\ q2.job = q.job /\ q2.slot = q.slot /\ q2.saw = q.saw
  <2>1. "commit" \in Pcs
    BY DEF Pcs
  <2> QED BY <1>4, <2>1, RunPc
<1> HIDE DEF q2
<1>6. Inside(r, q2)
  BY <1>1, <1>3, <1>5 DEF Inside, Same, OwningPcs
<1> QED BY <1>3, <1>5, <1>6 DEF RunMoves, Becomes

LEMMA AnnounceMoves ==
  ASSUME Typed, BoundsAssumption, NEW r \in Runs, Commit(r) \/ Announce(r) \/ Announced(r)
  PROVE  \E z \in Run : RunMoves(r, z)
<1>1. CASE Commit(r)
  <2>1. PICK z \in Run : Announcing(r, z)
    BY <1>1, CommitRun
  <2>2. runs[r].pc = "commit" /\ UNCHANGED lease
    BY <1>1 DEF Commit
  <2>3. Inside(r, z)
    BY <2>1, <2>2 DEF Inside, Same, OwningPcs, Announcing
  <2> QED BY <2>1, <2>3 DEF RunMoves, Becomes, Announcing
<1>2. CASE Announce(r)
  <2>1. PICK q \in Run : q = runs[r]
    BY TypesAre
  <2>2. q.alerts \in Seq(Alert) /\ q.alerts # <<>> /\ q.pc = "announce" /\ UNCHANGED lease
    BY <1>2, <2>1 DEF Announce, Run
  <2> DEFINE z == [q EXCEPT !.alerts = Tail(q.alerts)]
  <2>3. Tail(q.alerts) \in Seq(Alert)
    BY <2>2
  <2>4. z \in Run /\ z.pc = q.pc /\ z.job = q.job /\ z.slot = q.slot
    BY <2>3, RunAlerts
  <2>5. runs' = [runs EXCEPT ![r] = z]
    BY <1>2, <2>1 DEF Announce
  <2> HIDE DEF z
  <2>6. Inside(r, z)
    BY <2>1, <2>2, <2>4 DEF Inside, Same, OwningPcs
  <2> QED BY <2>4, <2>5, <2>6 DEF RunMoves, Becomes
<1>3. CASE Announced(r)
  <2>1. Goto(r, "unlock") /\ runs[r].pc = "announce" /\ UNCHANGED lease
    BY <1>3 DEF Announced
  <2>2. "unlock" \in Pcs
    BY DEF Pcs
  <2>3. PICK z \in Run : Becomes(r, z) /\ z.pc = "unlock" /\ Same(r, z)
    BY <2>1, <2>2, GotoMoves
  <2> QED BY <2>1, <2>3 DEF RunMoves, Inside, OwningPcs
<1> QED BY <1>1, <1>2, <1>3

LEMMA LockMoves ==
  ASSUME Typed, NEW r \in Runs, AcquireMonitor(r) \/ ReleaseMonitor(r)
  PROVE  \E z \in Run : RunMoves(r, z)
<1> "read" \in Pcs /\ "leave" \in Pcs
  BY DEF Pcs
<1>1. CASE AcquireMonitor(r) /\ Free(MonitorOf(r))
  <2>1. /\ Goto(r, "read") /\ runs[r].pc = "lock"
        /\ lease' = [lease EXCEPT ![MonitorOf(r)] = runs[r].job]
    BY <1>1 DEF AcquireMonitor
  <2>2. PICK z \in Run : Becomes(r, z) /\ z.pc = "read" /\ Same(r, z)
    BY <2>1, GotoMoves
  <2>3. TakesLock(r, z)
    BY <1>1, <2>1, <2>2 DEF TakesLock, Same
  <2> QED BY <2>2, <2>3 DEF RunMoves
<1>2. CASE AcquireMonitor(r) /\ ~Free(MonitorOf(r))
  <2>1. Goto(r, "leave") /\ runs[r].pc = "lock" /\ UNCHANGED lease
    BY <1>2 DEF AcquireMonitor
  <2>2. PICK z \in Run : Becomes(r, z) /\ z.pc = "leave" /\ Same(r, z)
    BY <2>1, GotoMoves
  <2> QED BY <2>1, <2>2 DEF RunMoves, Leaves
<1>3. CASE ReleaseMonitor(r)
  <2>1. Goto(r, "leave") /\ runs[r].pc = "unlock" /\ lease' = Released(MonitorOf(r), runs[r].job)
    BY <1>3 DEF ReleaseMonitor
  <2>2. PICK z \in Run : Becomes(r, z) /\ z.pc = "leave" /\ Same(r, z)
    BY <2>1, GotoMoves
  <2>3. Leaves(r, z)
    BY <2>1, <2>2 DEF Leaves, Same
  <2> QED BY <2>2, <2>3 DEF RunMoves
<1> QED BY <1>1, <1>2, <1>3

LEMMA EndMoves ==
  ASSUME Typed, BoundsAssumption, NEW r \in Runs, ReleaseSlot(r) \/ RunThrows(r)
  PROVE  \E z \in Run : RunMoves(r, z)
<1> "unlock" \in Pcs /\ "leave" \in Pcs
  BY DEF Pcs
<1>1. CASE ReleaseSlot(r)
  BY <1>1, IdleRun DEF ReleaseSlot, EndRun, RunMoves, Becomes, Ends
<1>2. CASE RunThrows(r)
  <2>1. CASE runs[r].pc \in {"read", "commit", "announce"} /\ Goto(r, "unlock")
    <3>1. PICK z \in Run : Becomes(r, z) /\ z.pc = "unlock" /\ Same(r, z)
      BY <2>1, GotoMoves
    <3>2. Inside(r, z)
      BY <1>2, <2>1, <3>1 DEF Inside, OwningPcs, RunThrows
    <3> QED BY <3>1, <3>2 DEF RunMoves
  <2>2. CASE runs[r].pc = "lock" /\ Goto(r, "leave")
    <3>1. PICK z \in Run : Becomes(r, z) /\ z.pc = "leave" /\ Same(r, z)
      BY <2>2, GotoMoves
    <3>2. Leaves(r, z)
      BY <1>2, <2>2, <3>1 DEF Leaves, RunThrows
    <3> QED BY <3>1, <3>2 DEF RunMoves
  <2>3. CASE EndRun(r)
    BY <1>2, <2>3, IdleRun DEF RunThrows, EndRun, RunMoves, Becomes, Ends
  <2> QED BY <1>2, <2>1, <2>2, <2>3 DEF RunThrows
<1> QED BY <1>1, <1>2

LEMMA RunSteps ==
  ASSUME Typed, BoundsAssumption, [Next]_vars
  PROVE  \/ UNCHANGED <<runs, lease>>
         \/ UNCHANGED runs /\ \E k \in Key : LeaseExpires(k)
         \/ runs' = [r \in Runs |-> Idle] /\ UNCHANGED lease
         \/ \E r \in Runs, z \in Run : RunMoves(r, z)
<1> DEFINE Goal == \/ UNCHANGED <<runs, lease>>
                   \/ UNCHANGED runs /\ \E k \in Key : LeaseExpires(k)
                   \/ runs' = [r \in Runs |-> Idle] /\ UNCHANGED lease
                   \/ \E r \in Runs, z \in Run : RunMoves(r, z)
<1>1. ASSUME NEW r \in Runs, RunStep(r) \/ RunThrows(r) PROVE Goal
  <2>1. \E z \in Run : RunMoves(r, z)
    BY <1>1, TakeMoves, SlotMoves, LockMoves, ReadMoves, RequestMoves, AnnounceMoves, EndMoves
    DEF RunStep
  <2> QED BY <2>1
<1>2. ASSUME (\E k \in Key : LeaseExpires(k)) \/ WorkerCrash PROVE Goal
  BY <1>2 DEF LeaseExpires, WorkerCrash
<1>3. ASSUME UNCHANGED <<runs, lease>> PROVE Goal
  BY <1>3
<1> HIDE DEF Goal
<1>4. ASSUME Scheduler \/ Operator \/ (\E m \in Monitors : IntervalElapses(m)) PROVE Goal
  BY <1>3, <1>4 DEF Scheduler, PassReads, PassClaims, AddCheck, PassThrows, Operator, RunNow,
                    HandlerDies, Pause, Resume, PutMonitor, Change, IntervalElapses
<1>5. ASSUME (\E j \in Job : Stall(j) \/ StallFails(j)) \/ UNCHANGED vars PROVE Goal
  BY <1>3, <1>5 DEF Stall, StallFails, LosesLock, vars
<1>6. Goal
  BY <1>1, <1>2, <1>4, <1>5 DEF Next
<1> QED BY <1>6 DEF Goal

-----------------------------------------------------------------------------
(* The jobs.  A job that was added has an id below the next one, and a run *)
(* has such a job.                                                         *)

Known ==
  /\ \A j \in Job : jobs[j].state # "none" => j < nextJob
  /\ \A r \in Runs : runs[r].pc # "idle" => runs[r].job < nextJob

LEMMA JobState ==
  ASSUME NEW q \in JobRow, NEW s \in {"none", "waiting", "active", "done"}
  PROVE  [q EXCEPT !.state = s] \in JobRow /\ [q EXCEPT !.state = s].monitor = q.monitor
         /\ [q EXCEPT !.state = s].state = s
BY DEF JobRow

JobBecomes(j, q) ==
  j < nextJob /\ jobs' = [jobs EXCEPT ![j] = q] /\ q.monitor = jobs[j].monitor /\ UNCHANGED nextJob
JobAdded(q) ==
  nextJob \in Job /\ jobs' = [jobs EXCEPT ![nextJob] = q] /\ nextJob' = nextJob + 1

LEMMA StateBecomes ==
  ASSUME Typed, NEW j \in Job, j < nextJob, NEW s \in {"none", "waiting", "active", "done"},
         jobs' = [jobs EXCEPT ![j].state = s], UNCHANGED nextJob
  PROVE  \E q \in JobRow : JobBecomes(j, q)
<1>1. PICK p \in JobRow : p = jobs[j]
  BY TypesAre
<1> DEFINE q == [p EXCEPT !.state = s]
<1>2. q \in JobRow /\ q.monitor = p.monitor
  BY JobState
<1>3. jobs' = [jobs EXCEPT ![j] = q]
  BY <1>1
<1> HIDE DEF q
<1> QED BY <1>1, <1>2, <1>3 DEF JobBecomes

LEMMA EndRunJobs ==
  ASSUME Typed, Known, NEW r \in Runs, runs[r].pc # "idle", EndRun(r), UNCHANGED nextJob
  PROVE  /\ UNCHANGED <<jobs, nextJob>> \/ \E j \in Job, q \in JobRow : JobBecomes(j, q)
         /\ holder' \in [Job -> Runs \cup {NoRun}]
<1>1. runs[r].job \in Job /\ runs[r].job < nextJob
  BY TypesAre DEF Run, Known
<1>2. \/ UNCHANGED jobs
      \/ jobs' = [jobs EXCEPT ![runs[r].job].state = "done"]
  BY DEF EndRun
<1>3. UNCHANGED holder \/ holder' = [holder EXCEPT ![runs[r].job] = NoRun]
  BY DEF EndRun
<1>4. holder' \in [Job -> Runs \cup {NoRun}]
  BY <1>1, <1>3, TypesAre
<1> QED BY <1>1, <1>2, <1>4, StateBecomes

LEMMA JobSteps ==
  ASSUME Typed, Known, BoundsAssumption, [Next]_vars
  PROVE  /\ \/ UNCHANGED <<jobs, nextJob>>
            \/ \E j \in Job, q \in JobRow : JobBecomes(j, q)
            \/ \E q \in JobRow : JobAdded(q)
         /\ holder' \in [Job -> Runs \cup {NoRun}]
         /\ stalls' \in [Job -> 0 .. MaxStalls]
<1> DEFINE Moves == \/ UNCHANGED <<jobs, nextJob>>
                    \/ \E j \in Job, q \in JobRow : JobBecomes(j, q)
                    \/ \E q \in JobRow : JobAdded(q)
           Goal == /\ Moves
                   /\ holder' \in [Job -> Runs \cup {NoRun}]
                   /\ stalls' \in [Job -> 0 .. MaxStalls]
<1>1. holder \in [Job -> Runs \cup {NoRun}] /\ stalls \in [Job -> 0 .. MaxStalls]
  BY DEF Typed, TypeOK, QueueOK
<1>2. ASSUME UNCHANGED <<jobs, nextJob, stalls, holder>> PROVE Goal
  BY <1>1, <1>2
<1>3. ASSUME NEW who, NEW m \in Monitors, AddCheck(who, m) PROVE Goal
  <2> DEFINE q == [state |-> "waiting", monitor |-> m]
  <2>1. q \in JobRow
    BY DEF JobRow
  <2>2. nextJob \in Job
    BY <1>3, TypesAre DEF Job, AddCheck, BoundsAssumption
  <2>3. jobs' = [jobs EXCEPT ![nextJob] = q] /\ nextJob' = nextJob + 1 /\ UNCHANGED <<stalls, holder>>
    BY <1>3 DEF AddCheck
  <2> HIDE DEF q
  <2> QED BY <1>1, <2>1, <2>2, <2>3 DEF JobAdded
<1>4. ASSUME NEW r \in Runs, NEW j \in Job, TakeCheck(r, j) PROVE Goal
  <2>1. /\ jobs' = [jobs EXCEPT ![j].state = "active"] /\ UNCHANGED <<nextJob, stalls>>
        /\ jobs[j].state = "waiting" /\ holder' = [holder EXCEPT ![j] = r]
    BY <1>4 DEF TakeCheck
  <2>2. j < nextJob
    BY <2>1 DEF Known
  <2>3. \E q \in JobRow : JobBecomes(j, q)
    BY <2>1, <2>2, StateBecomes
  <2> QED BY <1>1, <2>1, <2>3
<1>5. ASSUME NEW r \in Runs, ReleaseSlot(r) \/ RunThrows(r) PROVE Goal
  <2>1. UNCHANGED <<nextJob, stalls>> /\ runs[r].pc # "idle"
    BY <1>5 DEF ReleaseSlot, RunThrows
  <2>2. CASE EndRun(r)
    BY <1>1, <2>1, <2>2, EndRunJobs
  <2>3. CASE UNCHANGED <<jobs, holder>>
    BY <1>2, <2>1, <2>3
  <2> QED BY <1>5, <2>2, <2>3 DEF ReleaseSlot, RunThrows
<1>6. ASSUME NEW j \in Job, Stall(j) \/ StallFails(j) PROVE Goal
  <2>1. /\ jobs[j].state = "active" /\ holder' = [holder EXCEPT ![j] = NoRun] /\ UNCHANGED nextJob
    BY <1>6 DEF Stall, StallFails, LosesLock
  <2>2. j < nextJob
    BY <2>1 DEF Known
  <2>3. PICK s \in {"waiting", "done"} : jobs' = [jobs EXCEPT ![j].state = s]
    BY <1>6 DEF Stall, StallFails
  <2>4. \E q \in JobRow : JobBecomes(j, q)
    BY <2>1, <2>2, <2>3, StateBecomes
  <2>5. stalls' \in [Job -> 0 .. MaxStalls]
    BY <1>1, <1>6 DEF Stall, StallFails, BoundsAssumption
  <2> QED BY <1>1, <2>1, <2>4, <2>5
<1> HIDE DEF Goal
<1>7. ASSUME Scheduler \/ Operator \/ (\E m \in Monitors : IntervalElapses(m)) PROVE Goal
  BY <1>2, <1>3, <1>7 DEF Scheduler, PassReads, PassClaims, PassThrows, Operator, RunNow,
                          HandlerDies, Pause, Resume, PutMonitor, Change, IntervalElapses, queue
<1>8. ASSUME NEW r \in Runs, RunStep(r) \/ RunThrows(r) PROVE Goal
  BY <1>2, <1>4, <1>5, <1>8 DEF RunStep, AcquireSlot, AcquireMonitor, ReadMonitor, Request, Commit,
                                Announce, Announced, ReleaseMonitor, queue
<1>9. ASSUME WorkerCrash \/ (\E k \in Key : LeaseExpires(k)) \/ UNCHANGED vars PROVE Goal
  BY <1>2, <1>9 DEF WorkerCrash, LeaseExpires, vars, queue
<1>10. Goal
  BY <1>6, <1>7, <1>8, <1>9 DEF Next
<1> QED BY <1>10 DEF Goal

(* A run's monitor stays what it was.                                      *)
LEMMA JobsKeepMonitor ==
  ASSUME Typed, Known, BoundsAssumption, [Next]_vars
  PROVE  /\ jobs' \in [Job -> JobRow] /\ nextJob' \in 1 .. MaxJobs + 1 /\ nextJob <= nextJob'
         /\ \A j \in Job : j < nextJob => jobs'[j].monitor = jobs[j].monitor
         /\ \A j \in Job : jobs'[j].state # "none" => jobs[j].state # "none" \/ j < nextJob'
<1>1. jobs \in [Job -> JobRow] /\ nextJob \in 1 .. MaxJobs + 1 /\ MaxJobs \in Nat
      /\ \A j \in Job : j \in Nat
  BY TypesAre DEF BoundsAssumption, Job
<1>2. CASE UNCHANGED <<jobs, nextJob>>
  BY <1>1, <1>2
<1>3. CASE \E j \in Job, q \in JobRow : JobBecomes(j, q)
  BY <1>1, <1>3 DEF JobBecomes
<1>4. CASE \E q \in JobRow : JobAdded(q)
  BY <1>1, <1>4 DEF JobAdded, Job
<1> QED BY <1>2, <1>3, <1>4, JobSteps

LEMMA KnownKept ==
  ASSUME Typed, Known, BoundsAssumption, [Next]_vars
  PROVE  Known'
<1>1. nextJob \in Nat /\ nextJob' \in Nat /\ nextJob <= nextJob'
      /\ \A r \in Runs : runs[r].job \in Nat /\ \A z \in Run : z.job \in Nat
  BY JobsKeepMonitor, TypesAre DEF Run, Job
<1>2. \A j \in Job : jobs'[j].state # "none" => j < nextJob'
  BY <1>1, JobsKeepMonitor DEF Known, Job
<1>3. ASSUME NEW x \in Runs, runs'[x].pc # "idle"
      PROVE  runs'[x].job < nextJob'
  <2>1. CASE runs'[x] = runs[x]
    BY <1>1, <1>3, <2>1 DEF Known
  <2>2. CASE \E r \in Runs, z \in Run : RunMoves(r, z)
    <3>1. PICK r \in Runs, z \in Run : RunMoves(r, z)
      BY <2>2
    <3>2. CASE x # r
      BY <2>1, <3>1, <3>2, TypesAre DEF RunMoves, Becomes
    <3>3. CASE x = r
      <4>1. runs'[x] = z /\ z.pc # "idle"
        BY <1>3, <3>1, <3>3, TypesAre DEF RunMoves, Becomes
      <4>2. CASE Takes(r, z)
        <5>1. z.job \in Job /\ jobs[z.job].state = "waiting"
          BY <4>2 DEF Takes, Run
        <5>2. z.job < nextJob /\ z.job \in Nat
          BY <1>1, <5>1 DEF Known
        <5> QED BY <1>1, <3>3, <4>1, <5>2
      <4>3. CASE z.job = runs[r].job /\ runs[r].pc # "idle"
        BY <1>1, <3>3, <4>1, <4>3 DEF Known
      <4> QED BY <3>1, <4>1, <4>2, <4>3
              DEF RunMoves, TakesSlot, TakesLock, Inside, OwningPcs, Leaves, Same, Ends
    <3> QED BY <3>2, <3>3
  <2>3. CASE runs' = [r \in Runs |-> Idle]
    BY <1>3, <2>3, IdleRun
  <2> QED BY <2>1, <2>2, <2>3, RunSteps
<1> QED BY <1>2, <1>3 DEF Known

-----------------------------------------------------------------------------
(* The other types.                                                        *)

LEMMA MonitorsKept ==
  ASSUME Typed, BoundsAssumption, [Next]_vars
  PROVE  /\ MonitorsOK' /\ dues' \in [Monitors -> Int] /\ streak' \in [Monitors -> Nat]
<1>1. /\ monitors \in [Monitors -> MonitorRow] /\ dues \in [Monitors -> Int]
      /\ streak \in [Monitors -> Nat]
      /\ incidents \in [Monitors -> [Cause -> {"none", "open", "recovered"}]]
  BY TypesAre
<1>2. CASE UNCHANGED <<monitors, dues, incidents, streak>>
  BY <1>1, <1>2 DEF MonitorsOK, MonitorRow, States
<1>3. ASSUME NEW m \in Monitors, NEW q \in MonitorRow, RowGoes(m, q)
      PROVE  MonitorsOK' /\ dues' \in [Monitors -> Int] /\ streak' \in [Monitors -> Nat]
  <2>1. dues[m] + Bit(q.due) - Bit(monitors[m].due) \in Int
    BY <1>1 DEF Bit
  <2>2. dues' \in [Monitors -> Int]
    BY <1>1, <1>3, <2>1 DEF RowGoes
  <2>3. monitors' \in [Monitors -> MonitorRow] /\ UNCHANGED <<incidents, streak>>
    BY <1>1, <1>3 DEF RowGoes
  <2> QED BY <1>1, <2>2, <2>3 DEF MonitorsOK, MonitorRow, States
<1>4. ASSUME NEW r \in Runs, Commit(r)
      PROVE  MonitorsOK' /\ dues' \in [Monitors -> Int] /\ streak' \in [Monitors -> Nat]
  <2>1. PICK q \in MonitorRow : CommitGoes(r, q)
    BY <1>4, CommitRow
  <2>2. monitors' \in [Monitors -> MonitorRow] /\ dues' = dues
    BY <1>1, <2>1 DEF CommitGoes
  <2>3. streak' \in [Monitors -> Nat]
    <3>1. PICK n : n = IF runs[r].outcome = "healthy" THEN 0 ELSE streak[MonitorOf(r)] + 1
      OBVIOUS
    <3>2. n \in Nat
      BY <1>1, <3>1, TypesAre DEF MonitorOf, Run, JobRow
    <3>3. streak' = [streak EXCEPT ![MonitorOf(r)] = n]
      BY <2>1, <3>1 DEF CommitGoes
    <3> QED BY <1>1, <3>2, <3>3
  <2>4. incidents' \in [Monitors -> [Cause -> {"none", "open", "recovered"}]]
    BY <1>4, CommitIncidents DEF IncidentsGo
  <2> QED BY <1>1, <2>2, <2>3, <2>4 DEF MonitorsOK, MonitorRow, States
<1> QED BY <1>2, <1>3, <1>4, RowSteps

LEMMA RunsKept ==
  ASSUME Typed, BoundsAssumption, [Next]_vars
  PROVE  RunsOK'
<1>1. runs' \in [Runs -> Run]
  BY TypesAre, IdleRun, RunSteps DEF RunMoves, Becomes
<1> QED BY <1>1 DEF RunsOK, Run, Pcs, Alert
LEMMA LeaseKept ==
  ASSUME Typed, BoundsAssumption, [Next]_vars
  PROVE  lease' \in [Key -> Job \cup {NoJob}]
<1>1. lease \in [Key -> Job \cup {NoJob}]
  BY TypesAre
<1>2. CASE UNCHANGED lease
  BY <1>1, <1>2
<1>3. ASSUME NEW k, NEW v \in Job \cup {NoJob}, lease' = [lease EXCEPT ![k] = v]
      PROVE  lease' \in [Key -> Job \cup {NoJob}]
  BY <1>1, <1>3
<1>4. ASSUME NEW r \in Runs, NEW z \in Run, RunMoves(r, z)
      PROVE  lease' \in [Key -> Job \cup {NoJob}]
  <2>1. z.job \in Job
    BY DEF Run
  <2>2. \/ UNCHANGED lease
        \/ \E k : lease' = [lease EXCEPT ![k] = z.job]
        \/ \E k : lease' = [lease EXCEPT ![k] = NoJob]
    BY <1>4 DEF RunMoves, Takes, TakesSlot, TakesLock, Inside, Leaves, Ends, Released
  <2> QED BY <1>2, <1>3, <2>1, <2>2
<1>5. ASSUME NEW k \in Key, LeaseExpires(k)
      PROVE  lease' \in [Key -> Job \cup {NoJob}]
  BY <1>3, <1>5 DEF LeaseExpires
<1> QED BY <1>2, <1>4, <1>5, RunSteps

LEMMA RunLeaves ==
  ASSUME NEW r \in Runs, RunStep(r) \/ RunThrows(r)
  PROVE  /\ UNCHANGED <<passes, claimed>> /\ (Announce(r) \/ UNCHANGED told)
         /\ UNCHANGED spent \/ Spend("faults")
<1> DEFINE Goal == /\ UNCHANGED <<passes, claimed>> /\ (Announce(r) \/ UNCHANGED told)
                   /\ UNCHANGED spent \/ Spend("faults")
<1>1. CASE Commit(r)
  <2>1. UNCHANGED <<passes, claimed, told, spent>>
    BY <1>1 DEF Commit
  <2> QED BY <2>1
<1>2. CASE \E j \in Job : TakeCheck(r, j)
  BY <1>2 DEF TakeCheck, history
<1>3. CASE \E s \in UserSlots : AcquireSlot(r, s)
  BY <1>3 DEF AcquireSlot, history
<1>4. CASE AcquireMonitor(r) \/ ReadMonitor(r) \/ Request(r) \/ Announced(r)
  BY <1>4 DEF AcquireMonitor, ReadMonitor, Request, Announced, history
<1>5. CASE Announce(r)
  BY <1>5 DEF Announce
<1>6. CASE ReleaseMonitor(r) \/ ReleaseSlot(r)
  BY <1>6 DEF ReleaseMonitor, ReleaseSlot, history
<1>7. CASE RunThrows(r)
  BY <1>7 DEF RunThrows, history
<1> HIDE DEF Goal
<1> QED BY <1>1, <1>2, <1>3, <1>4, <1>5, <1>6, <1>7 DEF RunStep

LEMMA SchedulerKept ==
  ASSUME Typed, [Next]_vars
  PROVE  SchedulerOK'
<1> DEFINE Who == (Passes \cup {Api}) \X Monitors
<1>1. passes \in [Passes -> SUBSET Monitors] /\ claimed \subseteq Who
  BY DEF Typed, TypeOK, SchedulerOK
<1>2. CASE UNCHANGED <<passes, claimed>>
  BY <1>1, <1>2 DEF SchedulerOK
<1>3. ASSUME NEW p \in Passes, NEW m \in Monitors, PassReads(p) \/ PassClaims(p, m) \/ PassThrows(p)
      PROVE  SchedulerOK'
  <2>1. passes' \in [Passes -> SUBSET Monitors]
    BY <1>1, <1>3 DEF PassReads, PassClaims, PassThrows, Due
  <2>2. <<p, m>> \in Who
    OBVIOUS
  <2>3. claimed' \subseteq Who
    BY <1>1, <1>3, <2>2 DEF PassReads, PassClaims, PassThrows
  <2> QED BY <2>1, <2>3 DEF SchedulerOK
<1>4. ASSUME NEW m \in Monitors, RunNow(m) \/ HandlerDies(m)
      PROVE  SchedulerOK'
  <2>1. <<Api, m>> \in Who
    OBVIOUS
  <2>2. passes' = passes /\ claimed' \subseteq Who
    BY <1>1, <1>4, <2>1 DEF RunNow, HandlerDies
  <2> QED BY <1>1, <2>2 DEF SchedulerOK
<1>5. ASSUME NEW who, NEW m, AddCheck(who, m) PROVE SchedulerOK'
  <2>1. passes' = passes /\ claimed' \subseteq Who
    BY <1>1, <1>5 DEF AddCheck
  <2> QED BY <1>1, <2>1 DEF SchedulerOK
<1>6. CASE WorkerCrash
  <2>1. passes' = [p \in Passes |-> {}] /\ claimed' \subseteq Who
    BY <1>1, <1>6 DEF WorkerCrash
  <2> QED BY <2>1 DEF SchedulerOK
<1>7. CASE Scheduler
  <2>1. PICK p \in Passes : \/ PassReads(p) \/ PassThrows(p)
                            \/ \E m \in Monitors : PassClaims(p, m) \/ AddCheck(p, m)
    BY <1>7 DEF Scheduler
  <2>2. CASE PassReads(p) \/ PassThrows(p)
    <3>1. passes' \in [Passes -> SUBSET Monitors]
      BY <1>1, <2>2 DEF PassReads, PassThrows, Due
    <3>2. claimed' \subseteq Who
      BY <1>1, <2>2 DEF PassReads, PassThrows
    <3> QED BY <3>1, <3>2 DEF SchedulerOK
  <2> QED BY <1>3, <1>5, <2>1, <2>2
<1>8. CASE Operator
  BY <1>2, <1>4, <1>5, <1>8 DEF Operator, Pause, Resume, PutMonitor, Change
<1>9. CASE (\E r \in Runs : RunStep(r) \/ RunThrows(r)) \/ (\E m \in Monitors : IntervalElapses(m))
  BY <1>2, <1>9, RunLeaves DEF IntervalElapses
<1>10. CASE (\E k \in Key : LeaseExpires(k)) \/ (\E j \in Job : Stall(j) \/ StallFails(j)) \/ UNCHANGED vars
  BY <1>2, <1>10 DEF LeaseExpires, LosesLock, Stall, StallFails, vars
<1> QED BY <1>6, <1>7, <1>8, <1>9, <1>10 DEF Next

LEMMA ToldKept ==
  ASSUME Typed, [Next]_vars
  PROVE  told' \in [Monitors -> [Cause -> {"none", "opened", "recovered"}]]
<1>1. told \in [Monitors -> [Cause -> {"none", "opened", "recovered"}]]
  BY DEF Typed, TypeOK, HistoryOK
<1>2. ASSUME NEW r \in Runs, Announce(r)
      PROVE  told' \in [Monitors -> [Cause -> {"none", "opened", "recovered"}]]
  <2>1. Head(runs[r].alerts) \in Alert /\ MonitorOf(r) \in Monitors
    BY <1>2, TypesAre DEF Announce, Run, MonitorOf, JobRow
  <2>2. PICK c \in Cause, e \in {"opened", "recovered"} :
          c = Head(runs[r].alerts).cause /\ e = Head(runs[r].alerts).event
    BY <2>1 DEF Alert
  <2>3. told' = [told EXCEPT ![MonitorOf(r)][c] = e]
    BY <1>2, <2>2 DEF Announce
  <2> QED BY <1>1, <2>1, <2>3
<1>3. CASE UNCHANGED told
  BY <1>1, <1>3
<1>4. CASE Scheduler \/ Operator
  BY <1>3, <1>4 DEF Scheduler, PassReads, PassClaims, AddCheck, PassThrows, Operator, RunNow,
                    HandlerDies, Pause, Resume, PutMonitor, Change, history
<1>5. CASE (\E r \in Runs : RunStep(r) \/ RunThrows(r)) \/ (\E m \in Monitors : IntervalElapses(m))
  BY <1>2, <1>3, <1>5, RunLeaves DEF IntervalElapses
<1>6. CASE \/ WorkerCrash \/ (\E k \in Key : LeaseExpires(k))
           \/ (\E j \in Job : Stall(j) \/ StallFails(j)) \/ UNCHANGED vars
  BY <1>3, <1>6 DEF WorkerCrash, LeaseExpires, LosesLock, Stall, StallFails, vars, history
<1> QED BY <1>4, <1>5, <1>6 DEF Next

LEMMA SpentKept ==
  ASSUME Typed, [Next]_vars
  PROVE  spent' \in Spent
<1>1. spent \in Spent
  BY DEF Typed
<1>2. ASSUME NEW what \in {"manual", "changes", "crashes", "blocked", "faults", "expiries"}, Spend(what)
      PROVE  spent' \in Spent
  BY <1>1, <1>2 DEF Spend, Spent
<1>3. CASE UNCHANGED spent
  BY <1>1, <1>3
<1>4. CASE Scheduler \/ Operator
  BY <1>2, <1>3, <1>4 DEF Scheduler, PassReads, PassClaims, AddCheck, PassThrows, Operator, RunNow,
                    HandlerDies, Pause, Resume, PutMonitor, Change
<1>5. CASE (\E r \in Runs : RunStep(r) \/ RunThrows(r)) \/ (\E m \in Monitors : IntervalElapses(m))
  BY <1>2, <1>3, <1>5, RunLeaves DEF IntervalElapses
<1>6. CASE \/ WorkerCrash \/ (\E k \in Key : LeaseExpires(k))
           \/ (\E j \in Job : Stall(j) \/ StallFails(j)) \/ UNCHANGED vars
  BY <1>2, <1>3, <1>6 DEF WorkerCrash, LeaseExpires, LosesLock, Stall, StallFails, vars
<1> QED BY <1>4, <1>5, <1>6 DEF Next

LEMMA TypedKept ==
  ASSUME Typed, Known, BoundsAssumption, [Next]_vars
  PROVE  Typed'
<1>1. QueueOK'
  BY JobSteps, JobsKeepMonitor, LeaseKept DEF QueueOK, JobRow
<1>2. HistoryOK'
  BY MonitorsKept, ToldKept DEF HistoryOK
<1> QED BY <1>1, <1>2, MonitorsKept, SchedulerKept, RunsKept, SpentKept DEF Typed, TypeOK

LEMMA InitTyped ==
  ASSUME BoundsAssumption, Init
  PROVE  Typed /\ Known
<1>1. MonitorsOK
  BY DEF Init, MonitorsOK
<1>2. SchedulerOK
  BY DEF Init, SchedulerOK
<1>3. NoJobYet \in JobRow /\ NoJobYet.state = "none"
  BY DEF NoJobYet, JobRow, BoundsAssumption
<1>4. jobs \in [Job -> JobRow] /\ \A j \in Job : jobs[j].state = "none"
  BY <1>3 DEF Init
<1>5. /\ nextJob \in 1 .. MaxJobs + 1 /\ stalls \in [Job -> 0 .. MaxStalls]
      /\ holder \in [Job -> Runs \cup {NoRun}] /\ lease \in [Key -> Job \cup {NoJob}]
  BY DEF Init, BoundsAssumption
<1>6. runs \in [Runs -> Run] /\ \A r \in Runs : runs[r].pc = "idle"
  BY IdleRun DEF Init
<1>7. HistoryOK /\ spent \in Spent
  BY DEF Init, HistoryOK, Spent
<1> QED BY <1>1, <1>2, <1>4, <1>5, <1>6, <1>7
        DEF Typed, TypeOK, QueueOK, JobRow, RunsOK, Run, Pcs, Alert, Known
-----------------------------------------------------------------------------
(* Types, intervals and incidents.                                         *)

Based == Typed /\ Known
DuesAreBits == \A m \in Monitors : dues[m] = Bit(monitors[m].due)

LEMMA BasedAlways == Spec => []Based
<1>1. Init => Based
  BY BoundsAssumption, InitTyped DEF Based
<1>2. Based /\ [Next]_vars => Based'
  BY BoundsAssumption, TypedKept, KnownKept DEF Based
<1> QED BY <1>1, <1>2, PTL DEF Spec

(* Every record, queue, key and run has its type.                          *)
THEOREM TypeOKHolds == Spec => []TypeOK
<1>1. Based => TypeOK
  BY DEF Based, Typed
<1> QED BY <1>1, BasedAlways, PTL

LEMMA DuesKept ==
  ASSUME Typed, BoundsAssumption, DuesAreBits, [Next]_vars
  PROVE  DuesAreBits'
<1>1. monitors \in [Monitors -> MonitorRow] /\ dues \in [Monitors -> Int]
  BY TypesAre
<1>2. CASE UNCHANGED <<monitors, dues>>
  BY <1>2 DEF DuesAreBits, Bit
<1>3. ASSUME NEW m \in Monitors, NEW q \in MonitorRow, RowGoes(m, q)
      PROVE  DuesAreBits'
  <2>1. dues[m] + Bit(q.due) - Bit(monitors[m].due) = Bit(q.due)
    BY <1>1 DEF DuesAreBits, Bit
  <2>2. dues' = [dues EXCEPT ![m] = Bit(q.due)] /\ monitors' = [monitors EXCEPT ![m] = q]
    BY <1>3, <2>1 DEF RowGoes
  <2> QED BY <1>1, <2>2 DEF DuesAreBits, Bit
<1>4. ASSUME NEW r \in Runs, Commit(r)
      PROVE  DuesAreBits'
  <2>1. PICK q \in MonitorRow : CommitGoes(r, q)
    BY <1>4, CommitRow
  <2>2. \A m \in Monitors : monitors'[m].due = monitors[m].due /\ dues' = dues
    BY <1>1, <2>1 DEF CommitGoes
  <2> QED BY <2>2 DEF DuesAreBits, Bit
<1> QED BY <1>2, <1>3, <1>4, RowSteps

(* An interval makes at most one job, whichever passes and manual runs     *)
(* overlap: scheduleDueMonitors and POST /v1/monitors/:id/run only claim   *)
(* what is due.                                                            *)
THEOREM OneJobHolds == Spec => []OneJobPerInterval
<1>1. Init => DuesAreBits
  BY DEF Init, DuesAreBits, Bit
<1>2. Based /\ DuesAreBits /\ [Next]_vars => DuesAreBits'
  BY BoundsAssumption, DuesKept DEF Based
<1>3. DuesAreBits => OneJobPerInterval
  BY DEF DuesAreBits, OneJobPerInterval, Bit
<1> QED BY <1>1, <1>2, <1>3, BasedAlways, PTL DEF Spec

LEMMA IncidentsKept ==
  ASSUME Typed, BoundsAssumption, IncidentMatchesState, [Next]_vars
  PROVE  IncidentMatchesState'
<1>1. /\ monitors \in [Monitors -> MonitorRow]
      /\ incidents \in [Monitors -> [Cause -> {"none", "open", "recovered"}]]
  BY TypesAre
<1>2. CASE UNCHANGED <<monitors, incidents>>
  BY <1>2 DEF IncidentMatchesState
<1>3. ASSUME NEW m \in Monitors, NEW q \in MonitorRow, RowGoes(m, q)
      PROVE  IncidentMatchesState'
  BY <1>1, <1>3 DEF RowGoes, IncidentMatchesState
<1>4. ASSUME NEW r \in Runs, Commit(r)
      PROVE  IncidentMatchesState'
  <2>1. PICK q \in MonitorRow : CommitGoes(r, q)
    BY <1>4, CommitRow
  <2>2. IncidentsGo(MonitorOf(r), q.state)
    BY <1>4, <2>1, CommitIncidents DEF CommitGoes
  <2>3. monitors' = [monitors EXCEPT ![MonitorOf(r)] = q]
    BY <2>1 DEF CommitGoes
  <2> QED BY <1>1, <2>2, <2>3 DEF IncidentsGo, IncidentMatchesState
<1> QED BY <1>2, <1>3, <1>4, RowSteps

(* A monitor that is down has an open incident and a healthy one has none: *)
(* the transaction of a check writes both.                                 *)
THEOREM IncidentMatchesHolds == Spec => []IncidentMatchesState
<1>1. Init => IncidentMatchesState
  BY DEF Init, IncidentMatchesState
<1>2. Based /\ IncidentMatchesState /\ [Next]_vars => IncidentMatchesState'
  BY BoundsAssumption, IncidentsKept DEF Based
<1> QED BY <1>1, <1>2, BasedAlways, PTL DEF Spec

-----------------------------------------------------------------------------
(* The keys a run holds: its user's slot and, between taking and releasing *)
(* it, the monitor's lock.  Nobody else holds them, and they carry its job.*)

KeysOf(r) == IF runs[r].pc \in {"idle", "slot"} THEN {} ELSE Holding(r)
Locked ==
  /\ \A r \in Runs : \A k \in KeysOf(r) : lease[k] = runs[r].job
  /\ \A r, q \in Runs : r # q => KeysOf(r) \cap KeysOf(q) = {}

LEMMA RunIs ==
  ASSUME Typed, BoundsAssumption, NEW r \in Runs
  PROVE  /\ runs[r] \in Run /\ runs[r].job \in Job /\ MonitorOf(r) \in Monitors
         /\ SlotKey(r) \in Key /\ MonitorOf(r) \in Key /\ SlotKey(r) # MonitorOf(r)
         /\ KeysOf(r) \subseteq Key /\ runs[r].job # NoJob
<1>1. runs[r] \in Run /\ runs[r].job \in Job /\ runs[r].slot \in UserSlots
  BY TypesAre DEF Run
<1>2. MonitorOf(r) \in Monitors
  BY <1>1, TypesAre DEF MonitorOf, JobRow
<1>3. SlotKey(r) \in Users \X UserSlots
  BY <1>1, <1>2 DEF SlotKey, BoundsAssumption
<1>4. SlotKey(r) # MonitorOf(r)
  BY <1>2, <1>3 DEF BoundsAssumption
<1>5. runs[r].job # NoJob
  BY <1>1 DEF Job, NoJob
<1> QED BY <1>1, <1>2, <1>3, <1>4, <1>5 DEF Key, KeysOf, Holding

LEMMA MonitorStays ==
  ASSUME Typed, Known, BoundsAssumption, [Next]_vars, NEW r \in Runs,
         runs[r].pc # "idle", runs'[r].job = runs[r].job
  PROVE  MonitorOf(r)' = MonitorOf(r)
<1>1. runs[r].job \in Job /\ runs[r].job < nextJob
  BY RunIs DEF Known
<1> QED BY <1>1, JobsKeepMonitor DEF MonitorOf

LEMMA KeysStay ==
  ASSUME Typed, Known, BoundsAssumption, [Next]_vars, NEW r \in Runs, runs'[r] = runs[r]
  PROVE  KeysOf(r)' = KeysOf(r)
<1>1. CASE runs[r].pc = "idle"
  BY <1>1 DEF KeysOf
<1>2. CASE runs[r].pc # "idle"
  <2>1. MonitorOf(r)' = MonitorOf(r) /\ SlotKey(r)' = SlotKey(r)
    BY <1>2, MonitorStays DEF SlotKey
  <2> QED BY <2>1 DEF KeysOf, Holding
<1> QED BY <1>1, <1>2
KeysGo(r, z) ==
  /\ KeysOf(r)' # {} => z.job = runs[r].job
  /\ \/ KeysOf(r)' \subseteq KeysOf(r) /\ UNCHANGED lease
     \/ \E k \in KeysOf(r) : KeysOf(r)' \subseteq KeysOf(r) \ {k} /\ lease' = [lease EXCEPT ![k] = NoJob]
     \/ \E k \in Key : /\ lease[k] = NoJob /\ KeysOf(r)' \subseteq KeysOf(r) \cup {k}
                       /\ lease' = [lease EXCEPT ![k] = z.job]

LEMMA RunKeysGo ==
  ASSUME Typed, Known, BoundsAssumption, [Next]_vars, NEW r \in Runs, NEW z \in Run, RunMoves(r, z)
  PROVE  KeysGo(r, z)
<1>1. runs'[r] = z
  BY TypesAre DEF RunMoves, Becomes
<1>2. /\ MonitorOf(r) \in Key /\ SlotKey(r) \in Key /\ SlotKey(r) # MonitorOf(r)
  BY RunIs
<1>3. z.job = runs[r].job /\ runs[r].pc # "idle" => MonitorOf(r)' = MonitorOf(r)
  BY <1>1, MonitorStays
<1>4. CASE Takes(r, z)
  <2>1. KeysOf(r)' = {}
    BY <1>1, <1>4 DEF Takes, KeysOf
  <2> QED BY <1>4, <2>1 DEF Takes, KeysGo
<1>5. CASE TakesSlot(r, z)
  <2> DEFINE k == <<Owner[MonitorOf(r)], z.slot>>
  <2>1. KeysOf(r)' = {k} /\ runs[r].pc = "slot" /\ z.job = runs[r].job
    BY <1>1, <1>3, <1>5 DEF TakesSlot, KeysOf, Holding, SlotKey
  <2>2. k \in Key
    BY RunIs DEF Run, Key, BoundsAssumption
  <2>3. lease[k] = NoJob /\ lease' = [lease EXCEPT ![k] = z.job]
    BY <1>5 DEF TakesSlot, Free
  <2> HIDE DEF k
  <2> QED BY <2>1, <2>2, <2>3 DEF KeysGo
<1>6. CASE TakesLock(r, z)
  <2>1. /\ z.job = runs[r].job /\ KeysOf(r) = {SlotKey(r)}
        /\ KeysOf(r)' = {SlotKey(r), MonitorOf(r)}
    BY <1>1, <1>3, <1>6 DEF TakesLock, Same, KeysOf, Holding, SlotKey
  <2>2. lease[MonitorOf(r)] = NoJob /\ lease' = [lease EXCEPT ![MonitorOf(r)] = z.job]
    BY <1>6 DEF TakesLock, Free
  <2> QED BY <1>2, <2>1, <2>2 DEF KeysGo
<1>7. CASE Inside(r, z)
  <2>1. z.job = runs[r].job /\ KeysOf(r)' = KeysOf(r) /\ UNCHANGED lease
    BY <1>1, <1>3, <1>7 DEF Inside, OwningPcs, Same, KeysOf, Holding, SlotKey
  <2> QED BY <2>1 DEF KeysGo
<1>8. CASE Leaves(r, z)
  <2>1. z.job = runs[r].job /\ KeysOf(r)' = {SlotKey(r)} /\ SlotKey(r) \in KeysOf(r)
    BY <1>1, <1>3, <1>8 DEF Leaves, Same, KeysOf, Holding, SlotKey
  <2>2. CASE UNCHANGED lease
    BY <2>1, <2>2 DEF KeysGo
  <2>3. CASE runs[r].pc = "unlock" /\ lease' = [lease EXCEPT ![MonitorOf(r)] = NoJob]
    <3>1. MonitorOf(r) \in KeysOf(r)
      BY <2>3 DEF KeysOf, Holding
    <3> QED BY <1>2, <2>1, <2>3, <3>1 DEF KeysGo
  <2> QED BY <1>8, <2>2, <2>3 DEF Leaves, Released
<1>9. CASE Ends(r, z)
  <2>1. KeysOf(r)' = {} /\ z.pc = "idle"
    BY <1>1, <1>9 DEF Ends, KeysOf
  <2>2. CASE UNCHANGED lease
    BY <2>1, <2>2 DEF KeysGo
  <2>3. CASE runs[r].pc = "leave" /\ lease' = [lease EXCEPT ![SlotKey(r)] = NoJob]
    <3>1. SlotKey(r) \in KeysOf(r)
      BY <2>3 DEF KeysOf, Holding
    <3> QED BY <2>1, <2>3, <3>1 DEF KeysGo
  <2> QED BY <1>9, <2>2, <2>3 DEF Ends, Released
<1> QED BY <1>4, <1>5, <1>6, <1>7, <1>8, <1>9 DEF RunMoves

(* While no key expires under a live run, each keeps its keys.             *)
LEMMA LockedKept ==
  ASSUME Typed, Known, BoundsAssumption, MaxExpiries = 0, Locked, [Next]_vars
  PROVE  Locked'
<1>1. /\ lease \in [Key -> Job \cup {NoJob}] /\ runs \in [Runs -> Run]
      /\ \A x \in Runs : KeysOf(x) \subseteq Key /\ runs[x].job # NoJob
  BY TypesAre, RunIs
<1>2. CASE UNCHANGED <<runs, lease>>
  <2>1. \A x \in Runs : KeysOf(x)' = KeysOf(x)
    BY <1>2, KeysStay
  <2> QED BY <1>2, <2>1 DEF Locked
<1>3. ASSUME UNCHANGED runs, NEW k \in Key, LeaseExpires(k)
      PROVE  Locked'
  <2>1. \A x \in Runs : KeysOf(x)' = KeysOf(x)
    BY <1>3, KeysStay
  <2>2. ~Held(k)
    BY <1>3, TypesAre DEF LeaseExpires, Spent
  <2>3. \A x \in Runs : k \notin KeysOf(x)
    BY <2>2 DEF Locked, Held, KeysOf
  <2>4. lease' = [lease EXCEPT ![k] = NoJob]
    BY <1>3 DEF LeaseExpires
  <2> QED BY <1>1, <1>3, <2>1, <2>3, <2>4 DEF Locked
<1>4. CASE runs' = [r \in Runs |-> Idle]
  BY <1>4, IdleRun DEF Locked, KeysOf
<1>5. ASSUME NEW r \in Runs, NEW z \in Run, RunMoves(r, z)
      PROVE  Locked'
  <2>1. runs'[r] = z /\ \A x \in Runs : x # r => runs'[x] = runs[x]
    BY <1>1, <1>5 DEF RunMoves, Becomes
  <2>2. \A x \in Runs : x # r => KeysOf(x)' = KeysOf(x)
    BY <2>1, KeysStay
  <2>3. KeysGo(r, z)
    BY <1>5, RunKeysGo
  <2>4. ASSUME NEW x \in Runs, NEW k \in KeysOf(x)'
        PROVE  lease'[k] = runs'[x].job
    <3>1. CASE x = r
      <4>1. z.job = runs[r].job /\ k \in KeysOf(r)'
        BY <2>3, <2>4, <3>1 DEF KeysGo
      <4>2. k \in Key /\ (k \in KeysOf(r) => lease[k] = z.job)
        BY <1>1, <2>3, <4>1 DEF KeysGo, Locked
      <4>3. lease'[k] = z.job
        BY <1>1, <2>3, <4>1, <4>2 DEF KeysGo
      <4> QED BY <2>1, <3>1, <4>3
    <3>2. CASE x # r
      BY <1>1, <2>1, <2>2, <2>3, <2>4, <3>2 DEF KeysGo, Locked
    <3> QED BY <3>1, <3>2
  <2>5. ASSUME NEW x \in Runs, x # r
        PROVE  KeysOf(x)' \cap KeysOf(r)' = {}
    <3>1. CASE KeysOf(r)' \subseteq KeysOf(r)
      BY <2>2, <2>5, <3>1 DEF Locked
    <3>2. ASSUME NEW k \in Key, lease[k] = NoJob, KeysOf(r)' \subseteq KeysOf(r) \cup {k}
          PROVE  KeysOf(x)' \cap KeysOf(r)' = {}
      <4>1. k \notin KeysOf(x)
        BY <1>1, <3>2 DEF Locked
      <4> QED BY <2>2, <2>5, <3>2, <4>1 DEF Locked
    <3> QED BY <2>3, <3>1, <3>2 DEF KeysGo
  <2>6. ASSUME NEW x \in Runs, NEW y \in Runs, x # y
        PROVE  KeysOf(x)' \cap KeysOf(y)' = {}
    BY <2>2, <2>5, <2>6 DEF Locked
  <2> QED BY <2>4, <2>6 DEF Locked
<1> QED BY <1>2, <1>3, <1>4, <1>5, RunSteps

Exclusive == Based /\ Locked

LEMMA ExclusiveAlways == MaxExpiries = 0 /\ Spec => []Exclusive
<1> SUFFICES ASSUME MaxExpiries = 0 PROVE Spec => []Exclusive
  OBVIOUS
<1>1. Init => Locked
  BY BoundsAssumption, IdleRun DEF Init, Locked, KeysOf
<1>2. Based /\ Locked /\ [Next]_vars => Locked'
  BY LockedKept, BoundsAssumption DEF Based
<1> QED BY <1>1, <1>2, BasedAlways, PTL DEF Spec, Exclusive

LEMMA ExclusiveMonitors ==
  ASSUME Exclusive, NEW r \in Runs, NEW q \in Runs, r # q,
         runs[r].pc \in OwningPcs, runs[q].pc \in OwningPcs
  PROVE  MonitorOf(r) # MonitorOf(q)
<1>1. MonitorOf(r) \in KeysOf(r) /\ MonitorOf(q) \in KeysOf(q)
  BY DEF KeysOf, Holding, OwningPcs
<1> QED BY <1>1 DEF Exclusive, Locked

(* The checks of a monitor do not overlap while no lock expires under a    *)
(* run that is alive: acquireMonitorSlot and its release.                  *)
THEOREM MonitorExclusiveHolds == MaxExpiries = 0 /\ Spec => []MonitorExclusive
<1>1. Exclusive => MonitorExclusive
  BY ExclusiveMonitors DEF MonitorExclusive, Checking, OwningPcs
<1> QED BY <1>1, ExclusiveAlways, PTL

LEMMA BusyFits ==
  ASSUME Exclusive, NEW u \in Users
  PROVE  Cardinality(Busy(u)) <= Cardinality(UserSlots)
<1> DEFINE f == [r \in Busy(u) |-> runs[r].slot]
<1>1. f \in [Busy(u) -> UserSlots]
  BY TypesAre DEF Busy, Exclusive, Based, Run
<1>2. ASSUME NEW r \in Busy(u), NEW q \in Busy(u), f[r] = f[q], r # q
      PROVE  FALSE
  <2>1. SlotKey(r) = SlotKey(q)
    BY <1>2 DEF Busy, SlotKey
  <2>2. SlotKey(r) \in KeysOf(r) /\ SlotKey(q) \in KeysOf(q) /\ r \in Runs /\ q \in Runs
    BY DEF Busy, KeysOf, Holding
  <2> QED BY <1>2, <2>1, <2>2 DEF Exclusive, Locked
<1>3. f \in Injection(Busy(u), UserSlots)
  BY <1>1, <1>2 DEF Injection, IsInjective
<1>4. IsFiniteSet(UserSlots)
  BY BoundsAssumption
<1> QED BY <1>3, <1>4, FS_Injection

(* A user has no more checks at once than slots, under the same condition. *)
THEOREM UserConcurrencyHolds == MaxExpiries = 0 /\ Spec => []UserConcurrency
<1>1. Exclusive => UserConcurrency
  BY BusyFits DEF UserConcurrency
<1> QED BY <1>1, ExclusiveAlways, PTL

-----------------------------------------------------------------------------
(* Failures: the row's count, and the one a run read, never exceed the     *)
(* failed checks in a row, because no other check commits in between.      *)

Counted ==
  /\ \A m \in Monitors : monitors[m].failures <= streak[m]
  /\ \A r \in Runs : runs[r].pc \in {"request", "commit"} => runs[r].saw <= streak[MonitorOf(r)]
  /\ DownAfterThreshold

LEMMA CountedByCommit ==
  ASSUME Exclusive, Counted, BoundsAssumption, [Next]_vars, NEW r \in Runs, Commit(r)
  PROVE  Counted'
<1> USE DEF Exclusive, Based
<1> DEFINE o == runs[r].outcome
           m == MonitorOf(r)
<1>1. PICK q \in MonitorRow : CommitGoes(r, q)
  BY CommitRow
<1>2. PICK z \in Run : Announcing(r, z)
  BY CommitRun
<1>3. /\ runs[r] \in Run /\ runs[r].saw \in Nat /\ o \in {"healthy", "degraded", "down"}
      /\ m \in Monitors /\ runs[r].pc = "commit" /\ streak \in [Monitors -> Nat]
      /\ monitors \in [Monitors -> MonitorRow] /\ runs \in [Runs -> Run]
  BY TypesAre, RunIs DEF Commit, Run
<1>4. PICK n \in Nat : n = IF o = "healthy" THEN 0 ELSE streak[m] + 1
  BY <1>3
<1>5. streak' = [streak EXCEPT ![m] = n] /\ monitors' = [monitors EXCEPT ![m] = q]
  BY <1>1, <1>4 DEF CommitGoes
<1>6. runs[r].saw <= streak[m]
  BY <1>3 DEF Counted
<1>7. /\ q.failures <= n
      /\ q.state = "down" => n >= FailuresToOpen
  <2>1. /\ q.state = "down" => FailuresToOpen <= runs[r].saw + 1 /\ o # "healthy"
        /\ q.failures = IF o = "healthy" THEN 0 ELSE runs[r].saw + 1
    BY <1>1, <1>3, DeriveIs DEF CommitGoes
  <2>2. streak[m] \in Nat /\ FailuresToOpen \in Nat
    BY <1>3 DEF BoundsAssumption
  <2> QED BY <1>3, <1>4, <1>6, <2>1, <2>2
<1>8. ASSUME NEW x \in Monitors
      PROVE  /\ monitors'[x].failures <= streak'[x]
             /\ monitors'[x].state = "down" => streak'[x] >= FailuresToOpen
  <2>1. CASE x = m
    BY <1>3, <1>5, <1>7, <2>1
  <2>2. CASE x # m
    BY <1>3, <1>5, <2>2 DEF Counted, DownAfterThreshold
  <2> QED BY <2>1, <2>2
<1>9. ASSUME NEW x \in Runs, runs'[x].pc \in {"request", "commit"}
      PROVE  runs'[x].saw <= streak'[MonitorOf(x)']
  <2>1. runs' = [runs EXCEPT ![r] = z] /\ z.pc = "announce"
    BY <1>2 DEF Announcing
  <2>2. x # r /\ runs'[x] = runs[x]
    BY <1>3, <1>9, <2>1
  <2>3. MonitorOf(x)' = MonitorOf(x)
    BY <1>9, <2>2, MonitorStays
  <2>4. MonitorOf(x) # m
    BY <1>3, <1>9, <2>2, ExclusiveMonitors DEF OwningPcs
  <2>5. MonitorOf(x) \in Monitors
    BY RunIs
  <2> QED BY <1>3, <1>5, <1>9, <2>2, <2>3, <2>4, <2>5 DEF Counted
<1> QED BY <1>8, <1>9 DEF Counted, DownAfterThreshold

LEMMA CountedByRow ==
  ASSUME Exclusive, Counted, BoundsAssumption, UNCHANGED streak,
         \/ UNCHANGED monitors
         \/ \E m \in Monitors, q \in MonitorRow : RowGoes(m, q)
  PROVE  /\ \A m \in Monitors : monitors'[m].failures <= streak'[m]
         /\ DownAfterThreshold'
<1>1. monitors \in [Monitors -> MonitorRow] /\ streak \in [Monitors -> Nat]
  BY TypesAre DEF Exclusive, Based
<1>2. CASE UNCHANGED monitors
  BY <1>2 DEF Counted, DownAfterThreshold
<1>3. ASSUME NEW m \in Monitors, NEW q \in MonitorRow, RowGoes(m, q)
      PROVE  /\ \A x \in Monitors : monitors'[x].failures <= streak'[x]
             /\ DownAfterThreshold'
  <2>1. monitors' = [monitors EXCEPT ![m] = q]
    BY <1>3 DEF RowGoes
  <2>2. q.failures <= streak[m] /\ (q.state = "down" => streak[m] >= FailuresToOpen)
    BY <1>1, <1>3 DEF RowGoes, Counted, DownAfterThreshold
  <2> QED BY <1>1, <2>1, <2>2 DEF Counted, DownAfterThreshold
<1> QED BY <1>2, <1>3

LEMMA CountedByRun ==
  ASSUME Exclusive, Counted, BoundsAssumption, [Next]_vars, UNCHANGED streak,
         NEW x \in Runs, runs'[x].pc \in {"request", "commit"}
  PROVE  runs'[x].saw <= streak'[MonitorOf(x)']
<1> USE DEF Exclusive, Based
<1>1. /\ monitors \in [Monitors -> MonitorRow] /\ streak \in [Monitors -> Nat]
      /\ runs \in [Runs -> Run] /\ MonitorOf(x) \in Monitors
  BY TypesAre, RunIs
<1>2. CASE runs'[x] = runs[x]
  <2>1. MonitorOf(x)' = MonitorOf(x)
    BY <1>2, MonitorStays
  <2> QED BY <1>2, <2>1 DEF Counted
<1>3. ASSUME NEW z \in Run, RunMoves(x, z)
      PROVE  runs'[x].saw <= streak'[MonitorOf(x)']
  <2>1. runs'[x] = z
    BY <1>1, <1>3 DEF RunMoves, Becomes
  <2>2. Inside(x, z)
    BY <1>3, <2>1 DEF RunMoves, Takes, TakesSlot, TakesLock, Leaves, Ends
  <2>3. MonitorOf(x)' = MonitorOf(x)
    BY <2>1, <2>2, MonitorStays DEF Inside, Same, OwningPcs
  <2>4. \/ z.saw = monitors[MonitorOf(x)].failures
        \/ z.saw = runs[x].saw /\ runs[x].pc = "request"
    BY <2>1, <2>2 DEF Inside
  <2> QED BY <1>1, <2>1, <2>3, <2>4 DEF Counted
<1>4. ASSUME NEW r \in Runs, NEW z \in Run, RunMoves(r, z), r # x
      PROVE  runs'[x] = runs[x]
  BY <1>1, <1>4 DEF RunMoves, Becomes
<1>5. CASE runs' = [r \in Runs |-> Idle]
  BY <1>5, IdleRun
<1> QED BY <1>2, <1>3, <1>4, <1>5, RunSteps

LEMMA CountedKept ==
  ASSUME Exclusive, Counted, BoundsAssumption, [Next]_vars
  PROVE  Counted'
<1>1. CASE \E r \in Runs : Commit(r)
  BY <1>1, CountedByCommit
<1>2. CASE \/ UNCHANGED <<monitors, dues, incidents, streak>>
           \/ \E m \in Monitors, q \in MonitorRow : RowGoes(m, q)
  <2>1. UNCHANGED streak /\ (UNCHANGED monitors \/ \E m \in Monitors, q \in MonitorRow : RowGoes(m, q))
    BY <1>2 DEF RowGoes
  <2> QED BY <2>1, CountedByRow, CountedByRun DEF Counted
<1> QED BY <1>1, <1>2, RowSteps DEF Exclusive, Based

(* A monitor is down only after its threshold of failed checks in a row:   *)
(* deriveMonitorState on the row that performMonitorCheck read.            *)
THEOREM DownAfterThresholdHolds == MaxExpiries = 0 /\ Spec => []DownAfterThreshold
<1> SUFFICES ASSUME MaxExpiries = 0 PROVE Spec => []DownAfterThreshold
  OBVIOUS
<1>1. Init => Counted
  BY BoundsAssumption, IdleRun DEF Init, Counted, DownAfterThreshold
<1>2. Exclusive /\ Counted /\ [Next]_vars => Counted'
  BY CountedKept, BoundsAssumption
<1>3. Counted => DownAfterThreshold
  BY DEF Counted
<1> QED BY <1>1, <1>2, <1>3, ExclusiveAlways, PTL DEF Spec

-----------------------------------------------------------------------------
(* The alerts of a monitor and a cause.  Between the commit that changes   *)
(* an incident and the announcement of its last alert, the monitor's lock  *)
(* keeps every other run out.                                              *)

Word(state) == IF state = "open" THEN "opened" ELSE state
Waiting(r, m, c) ==
  {i \in DOMAIN runs[r].alerts : /\ runs[r].pc = "announce" /\ MonitorOf(r) = m
                                 /\ runs[r].alerts[i].cause = c}

(* What was told is what the incident is, but for the one alert that waits *)
(* to say so.                                                              *)
Reported(m, c) ==
  /\ (\A r \in Runs : Waiting(r, m, c) = {}) => told[m][c] = Word(incidents[m][c])
  /\ \A r \in Runs : \A i \in Waiting(r, m, c) :
       /\ runs[r].alerts[i].event = Word(incidents[m][c])
       /\ runs[r].alerts[i].event = "recovered" <=> told[m][c] = "opened"
       /\ Waiting(r, m, c) = {i}
ToldInv == Undisturbed => \A m \in Monitors, c \in Cause : Reported(m, c)

LEMMA AlertsAre ==
  ASSUME Typed, NEW r \in Runs
  PROVE  /\ runs[r].alerts \in Seq(Alert)
         /\ DOMAIN runs[r].alerts = 1 .. Len(runs[r].alerts)
         /\ \A i \in DOMAIN runs[r].alerts : runs[r].alerts[i] \in Alert
<1>1. runs[r].alerts \in Seq(Alert)
  BY TypesAre DEF Run
<1> QED BY <1>1

(* Two sequences of one alert at most, each of a cause of its own.         *)
LEMMA TwoAlerts ==
  ASSUME NEW s \in Seq(Alert), NEW t \in Seq(Alert), NEW a, NEW b, a # b,
         Len(s) <= 1, Len(t) <= 1,
         \A i \in DOMAIN s : s[i].cause = a, \A i \in DOMAIN t : t[i].cause = b
  PROVE  /\ {i \in DOMAIN (s \o t) : (s \o t)[i].cause = a} = IF s = <<>> THEN {} ELSE {1}
         /\ {i \in DOMAIN (s \o t) : (s \o t)[i].cause = b} =
              IF t = <<>> THEN {} ELSE {Len(s) + 1}
         /\ s # <<>> => (s \o t)[1] = s[1]
         /\ t # <<>> => (s \o t)[Len(s) + 1] = t[1]
<1>1. s \o t \in Seq(Alert) /\ Len(s \o t) = Len(s) + Len(t)
  OBVIOUS
<1>2. \A i \in 1 .. Len(s) + Len(t) : (s \o t)[i] = IF i <= Len(s) THEN s[i] ELSE t[i - Len(s)]
  OBVIOUS
<1>3. DOMAIN (s \o t) = 1 .. Len(s) + Len(t) /\ DOMAIN s = 1 .. Len(s) /\ DOMAIN t = 1 .. Len(t)
  BY <1>1
<1>4. (s = <<>> \/ Len(s) = 1) /\ (t = <<>> \/ Len(t) = 1) /\ Len(<<>>) = 0
  <2>1. ASSUME NEW q \in Seq(Alert), Len(q) <= 1
        PROVE  q = <<>> \/ Len(q) = 1
    <3>1. q # <<>> => Len(q) \in Nat \ {0}
      BY EmptySeq
    <3>2. ASSUME NEW n \in Nat \ {0}, n <= 1 PROVE n = 1
      BY <3>2
    <3> QED BY <2>1, <3>1, <3>2
  <2>2. Len(<<>>) = 0
    OBVIOUS
  <2> QED BY <2>1, <2>2
<1>5. CASE s = <<>> /\ t = <<>>
  BY <1>2, <1>3, <1>4, <1>5
<1>6. CASE s = <<>> /\ Len(t) = 1
  BY <1>2, <1>3, <1>4, <1>6
<1>7. CASE Len(s) = 1 /\ t = <<>>
  BY <1>2, <1>3, <1>4, <1>7
<1>8. CASE Len(s) = 1 /\ Len(t) = 1
  BY <1>2, <1>3, <1>4, <1>8
<1> QED BY <1>4, <1>5, <1>6, <1>7, <1>8

(* What a commit does to an incident is what its alert says.               *)
Says(r, c, state) ==
  LET mine == {i \in DOMAIN runs'[r].alerts : runs'[r].alerts[i].cause = c}
      was == incidents[MonitorOf(r)][c]
  IN  \/ mine = {} /\ state = was
      \/ \E i : /\ mine = {i}
                /\ \/ was # "open" /\ state = "open" /\ runs'[r].alerts[i].event = "opened"
                   \/ was = "open" /\ state = "recovered" /\ runs'[r].alerts[i].event = "recovered"

LEMMA CommitSays ==
  ASSUME Typed, BoundsAssumption, NEW r \in Runs, Commit(r), NEW c \in Cause
  PROVE  Says(r, c, incidents'[MonitorOf(r)][c])
<1> DEFINE m == MonitorOf(r)
           next == Derive(runs[r].outcome, runs[r].saw)
<1>1. PICK slo \in {"few", "kept", "breached"} :
        LET bad == [availability |-> next.state = "down", slo_budget |-> slo = "breached"]
            good == [availability |-> next.state = "healthy", slo_budget |-> slo = "kept"]
            alert(x) == IF x \notin Cause THEN <<>>
                        ELSE IF Opens(m, x, bad[x]) THEN <<[cause |-> x, event |-> "opened"]>>
                        ELSE IF Recovers(m, x, good[x])
                        THEN <<[cause |-> x, event |-> "recovered"]>> ELSE <<>>
        IN  /\ runs' = [runs EXCEPT ![r].pc = "announce", ![r].saw = 0, ![r].outcome = "healthy",
                          ![r].alerts = alert("availability") \o alert("slo_budget")]
            /\ incidents' = [incidents EXCEPT ![m] =
                 [x \in Cause |-> IF Opens(m, x, bad[x]) THEN "open"
                                  ELSE IF Recovers(m, x, good[x]) THEN "recovered"
                                  ELSE incidents[m][x]]]
  BY DEF Commit
<1> DEFINE bad == [availability |-> next.state = "down", slo_budget |-> slo = "breached"]
           good == [availability |-> next.state = "healthy", slo_budget |-> slo = "kept"]
           alert(x) == IF x \notin Cause THEN <<>>
                       ELSE IF Opens(m, x, bad[x]) THEN <<[cause |-> x, event |-> "opened"]>>
                       ELSE IF Recovers(m, x, good[x])
                       THEN <<[cause |-> x, event |-> "recovered"]>> ELSE <<>>
<1>2. PICK a : a = alert("availability")
  OBVIOUS
<1>3. PICK b : b = alert("slo_budget")
  OBVIOUS
<1>4. runs \in [Runs -> Run] /\ m \in Monitors /\ incidents \in [Monitors -> [Cause -> {"none", "open", "recovered"}]]
  BY TypesAre, RunIs
<1>5. runs'[r].alerts = a \o b
  <2>1. PICK d : d = a \o b
    OBVIOUS
  <2>2. runs' = [runs EXCEPT ![r].pc = "announce", ![r].saw = 0, ![r].outcome = "healthy",
                             ![r].alerts = d]
    BY <1>1, <1>2, <1>3, <2>1
  <2>3. \A q \in Run : [q EXCEPT !.pc = "announce", !.saw = 0, !.outcome = "healthy", !.alerts = d].alerts = d
    BY DEF Run
  <2> QED BY <1>4, <2>1, <2>2, <2>3
<1>6. incidents'[m][c] = IF Opens(m, c, bad[c]) THEN "open"
                         ELSE IF Recovers(m, c, good[c]) THEN "recovered" ELSE incidents[m][c]
  BY <1>1, <1>4
<1> DEFINE o(x) == [cause |-> x, event |-> "opened"]
           v(x) == [cause |-> x, event |-> "recovered"]
<1>7. ASSUME NEW x
      PROVE  /\ alert(x) \in Seq(Alert) /\ Len(alert(x)) <= 1
             /\ \A i \in DOMAIN alert(x) : alert(x)[i].cause = x
             /\ x \in Cause =>
                  \/ alert(x) = <<>> /\ ~Opens(m, x, bad[x]) /\ ~Recovers(m, x, good[x])
                  \/ /\ alert(x) # <<>> /\ Opens(m, x, bad[x])
                     /\ alert(x)[1].event = "opened"
                  \/ /\ alert(x) # <<>> /\ ~Opens(m, x, bad[x]) /\ Recovers(m, x, good[x])
                     /\ alert(x)[1].event = "recovered"
  <2>1. \/ alert(x) = <<>> /\ (x \in Cause => ~Opens(m, x, bad[x]) /\ ~Recovers(m, x, good[x]))
        \/ x \in Cause /\ Opens(m, x, bad[x]) /\ alert(x) = <<o(x)>>
        \/ x \in Cause /\ ~Opens(m, x, bad[x]) /\ Recovers(m, x, good[x]) /\ alert(x) = <<v(x)>>
    BY Zenon
  <2>2. /\ x \in Cause => o(x) \in Alert /\ v(x) \in Alert
        /\ o(x).cause = x /\ o(x).event = "opened" /\ v(x).cause = x /\ v(x).event = "recovered"
    BY DEF Alert
  <2> HIDE DEF alert, o, v, bad, good
  <2>3. ASSUME NEW y \in Alert PROVE <<y>> \in Seq(Alert) /\ Len(<<y>>) = 1 /\ <<y>> # <<>>
                                     /\ <<y>>[1] = y /\ DOMAIN <<y>> = {1}
    OBVIOUS
  <2>4. CASE alert(x) = <<>>
    <3>1. <<>> \in Seq(Alert) /\ Len(<<>>) = 0 /\ DOMAIN <<>> = {}
      BY EmptySeq
    <3> QED BY <2>1, <2>4, <3>1, <2>2, <2>3
  <2>5. CASE x \in Cause /\ Opens(m, x, bad[x]) /\ alert(x) = <<o(x)>>
    BY <2>2, <2>3, <2>5
  <2>6. CASE x \in Cause /\ ~Opens(m, x, bad[x]) /\ Recovers(m, x, good[x]) /\ alert(x) = <<v(x)>>
    BY <2>2, <2>3, <2>6
  <2> QED BY <2>1, <2>4, <2>5, <2>6
<1>8. c \in {"availability", "slo_budget"}
  BY DEF BoundsAssumption
<1> DEFINE mine == {i \in DOMAIN (a \o b) : (a \o b)[i].cause = c}
<1> HIDE DEF alert, bad, good
<1>9. \/ mine = {} /\ alert(c) = <<>>
      \/ \E i : mine = {i} /\ alert(c) # <<>> /\ (a \o b)[i] = alert(c)[1]
  <2>1. /\ a \in Seq(Alert) /\ Len(a) <= 1 /\ \A i \in DOMAIN a : a[i].cause = "availability"
        /\ b \in Seq(Alert) /\ Len(b) <= 1 /\ \A i \in DOMAIN b : b[i].cause = "slo_budget"
    BY <1>2, <1>3, <1>7
  <2>2. CASE c = "availability"
    BY <1>2, <2>1, <2>2, TwoAlerts
  <2>3. CASE c = "slo_budget"
    BY <1>3, <2>1, <2>3, TwoAlerts
  <2> QED BY <1>8, <2>2, <2>3
<1> HIDE DEF mine
<1>10. mine = {i \in DOMAIN runs'[r].alerts : runs'[r].alerts[i].cause = c}
  BY <1>5 DEF mine
<1>11. /\ Opens(m, c, bad[c]) => incidents[m][c] # "open"
       /\ Recovers(m, c, good[c]) => incidents[m][c] = "open"
  BY DEF Opens, Recovers
<1>12. CASE alert(c) = <<>>
  BY <1>6, <1>7, <1>9, <1>10, <1>12 DEF Says
<1>13. CASE alert(c) # <<>>
  <2>1. PICK i : mine = {i} /\ (a \o b)[i] = alert(c)[1]
    BY <1>9, <1>13
  <2>2. mine = {i} /\ runs'[r].alerts[i] = alert(c)[1]
    BY <1>5, <2>1
  <2>3. \/ incidents[m][c] # "open" /\ incidents'[m][c] = "open" /\ alert(c)[1].event = "opened"
        \/ incidents[m][c] = "open" /\ incidents'[m][c] = "recovered" /\ alert(c)[1].event = "recovered"
    BY <1>6, <1>7, <1>11, <1>13
  <2> QED BY <1>10, <2>2, <2>3 DEF Says
<1> QED BY <1>12, <1>13

(* Where the incident and what was told of it stay, and no run starts or   *)
(* ends to wait with an alert of it, what was reported stays so.           *)
Waits(r, m, c) == Waiting(r, m, c) # {}
Stays(m, c) ==
  /\ told'[m][c] = told[m][c] /\ incidents'[m][c] = incidents[m][c]
  /\ \A r \in Runs : \/ Waiting(r, m, c)' = Waiting(r, m, c) /\ runs'[r].alerts = runs[r].alerts
                     \/ Waiting(r, m, c)' = {} /\ Waiting(r, m, c) = {}

LEMMA ReportedStays ==
  ASSUME NEW m \in Monitors, NEW c \in Cause, Reported(m, c), Stays(m, c)
  PROVE  Reported(m, c)'
BY DEF Reported, Stays

(* A run that did not move waits with what it waited with.                 *)
LEMMA SameWaits ==
  ASSUME Typed, Known, BoundsAssumption, [Next]_vars, NEW m, NEW c,
         NEW r \in Runs, runs'[r] = runs[r]
  PROVE  Waiting(r, m, c)' = Waiting(r, m, c)
<1>1. runs[r].pc = "announce" => MonitorOf(r)' = MonitorOf(r)
  BY MonitorStays
<1> QED BY <1>1 DEF Waiting

LEMMA ReportedByCommit ==
  ASSUME Exclusive, BoundsAssumption, [Next]_vars, NEW r \in Runs, Commit(r),
         NEW m \in Monitors, NEW c \in Cause, Reported(m, c)
  PROVE  Reported(m, c)'
<1> USE DEF Exclusive, Based
<1>1. PICK z \in Run : Announcing(r, z)
  BY CommitRun
<1>2. /\ runs \in [Runs -> Run] /\ runs' = [runs EXCEPT ![r] = z] /\ runs'[r] = z
      /\ runs[r].pc = "commit" /\ z.pc = "announce" /\ z.job = runs[r].job /\ UNCHANGED told
  BY <1>1, TypesAre DEF Announcing, Commit
<1>3. \A q \in Runs : q # r => runs'[q] = runs[q] /\ Waiting(q, m, c)' = Waiting(q, m, c)
  BY <1>2, SameWaits
<1>4. MonitorOf(r)' = MonitorOf(r) /\ MonitorOf(r) \in Monitors
  BY <1>2, MonitorStays, RunIs
<1>5. Waiting(r, m, c) = {}
  BY <1>2 DEF Waiting
<1>6. CASE MonitorOf(r) # m
  <2>1. Waiting(r, m, c)' = {}
    BY <1>4, <1>6 DEF Waiting
  <2>2. incidents'[m] = incidents[m]
    BY <1>6, CommitIncidents DEF IncidentsGo
  <2> QED BY <1>2, <1>3, <1>5, <2>1, <2>2, ReportedStays DEF Stays
<1>7. CASE MonitorOf(r) = m
  <2>1. ASSUME NEW q \in Runs, q # r PROVE Waiting(q, m, c) = {}
    <3>1. runs[q].pc # "announce" \/ MonitorOf(q) # m
      BY <1>2, <1>7, <2>1, ExclusiveMonitors DEF OwningPcs
    <3> QED BY <3>1 DEF Waiting
  <2>2. told[m][c] = Word(incidents[m][c])
    BY <1>5, <2>1 DEF Reported
  <2>3. Waiting(r, m, c)' = {i \in DOMAIN runs'[r].alerts : runs'[r].alerts[i].cause = c}
    BY <1>2, <1>4, <1>7 DEF Waiting
  <2>4. Says(r, c, incidents'[m][c])
    BY <1>7, CommitSays
  <2>5. incidents[m][c] \in {"none", "open", "recovered"}
    BY TypesAre
  <2>6. CASE Waiting(r, m, c)' = {} /\ incidents'[m][c] = incidents[m][c]
    BY <1>2, <1>3, <2>1, <2>2, <2>6 DEF Reported
  <2>7. ASSUME NEW i, Waiting(r, m, c)' = {i},
               \/ /\ incidents[m][c] # "open" /\ incidents'[m][c] = "open"
                  /\ runs'[r].alerts[i].event = "opened"
               \/ /\ incidents[m][c] = "open" /\ incidents'[m][c] = "recovered"
                  /\ runs'[r].alerts[i].event = "recovered"
        PROVE  Reported(m, c)'
    <3>1. /\ runs'[r].alerts[i].event = Word(incidents'[m][c])
          /\ runs'[r].alerts[i].event = "recovered" <=> told'[m][c] = "opened"
      BY <1>2, <2>2, <2>5, <2>7 DEF Word
    <3>2. \A q \in Runs : q # r => Waiting(q, m, c)' = {}
      BY <1>3, <2>1
    <3> QED BY <2>7, <3>1, <3>2 DEF Reported, Word
  <2> QED BY <1>7, <2>3, <2>4, <2>6, <2>7 DEF Says
<1> QED BY <1>6, <1>7

LEMMA TailIs ==
  ASSUME NEW s \in Seq(Alert), s # <<>>
  PROVE  /\ 1 \in DOMAIN s /\ Head(s) = s[1] /\ Tail(s) \in Seq(Alert)
         /\ \A i \in DOMAIN Tail(s) : /\ i + 1 \in DOMAIN s /\ Tail(s)[i] = s[i + 1]
                                      /\ i + 1 # 1
         /\ \A i \in DOMAIN s : i # 1 => i - 1 \in DOMAIN Tail(s) /\ Tail(s)[i - 1] = s[i]
<1>1. Len(s) \in Nat \ {0} /\ DOMAIN s = 1 .. Len(s)
  BY EmptySeq
<1>2. Tail(s) \in Seq(Alert) /\ DOMAIN Tail(s) = 1 .. Len(s) - 1
      /\ \A i \in 1 .. Len(s) - 1 : Tail(s)[i] = s[i + 1]
  BY HeadTailProperties
<1> QED BY <1>1, <1>2

(* An announcement tells what its alert says, and takes the alert away.    *)
LEMMA AnnounceTells ==
  ASSUME Typed, BoundsAssumption, NEW r \in Runs, Announce(r)
  PROVE  LET a == runs[r].alerts[1]
         IN  /\ 1 \in DOMAIN runs[r].alerts /\ a.cause \in Cause /\ MonitorOf(r) \in Monitors
             /\ runs[r].pc = "announce" /\ runs'[r].pc = "announce" /\ UNCHANGED <<incidents, spent>>
             /\ runs'[r].job = runs[r].job /\ runs'[r].alerts = Tail(runs[r].alerts)
             /\ \A q \in Runs : q # r => runs'[q] = runs[q]
             /\ \A m \in Monitors, c \in Cause :
                  told'[m][c] = IF m = MonitorOf(r) /\ c = a.cause THEN a.event ELSE told[m][c]
             /\ runs[r].alerts \in Seq(Alert) /\ runs[r].alerts # <<>>
<1>1. /\ runs[r].alerts \in Seq(Alert) /\ runs[r].alerts # <<>> /\ runs[r] \in Run
      /\ runs \in [Runs -> Run] /\ MonitorOf(r) \in Monitors
      /\ told \in [Monitors -> [Cause -> {"none", "opened", "recovered"}]]
  BY TypesAre, RunIs, AlertsAre DEF Announce, Typed, TypeOK, HistoryOK
<1>2. PICK a \in Alert : a = Head(runs[r].alerts) /\ a = runs[r].alerts[1]
                        /\ 1 \in DOMAIN runs[r].alerts
  <2>1. 1 \in DOMAIN runs[r].alerts /\ Head(runs[r].alerts) = runs[r].alerts[1]
    BY <1>1, TailIs
  <2>2. runs[r].alerts[1] \in Alert
    BY <2>1, AlertsAre
  <2> QED BY <2>1, <2>2
<1>3. a.cause \in Cause
  BY DEF Alert
<1>4. told' = [told EXCEPT ![MonitorOf(r)][a.cause] = a.event]
  BY <1>2 DEF Announce
<1>5. \A m \in Monitors, c \in Cause :
        told'[m][c] = IF m = MonitorOf(r) /\ c = a.cause THEN a.event ELSE told[m][c]
  BY <1>1, <1>3, <1>4
<1>6. PICK t : t = Tail(runs[r].alerts)
  OBVIOUS
<1>7. runs' = [runs EXCEPT ![r].alerts = t] /\ runs[r].pc = "announce" /\ UNCHANGED <<incidents, spent>>
  BY <1>6 DEF Announce
<1>8. \A q \in Run : [q EXCEPT !.alerts = t].alerts = t /\ [q EXCEPT !.alerts = t].pc = q.pc
                     /\ [q EXCEPT !.alerts = t].job = q.job
  BY DEF Run
<1>9. /\ runs'[r].pc = "announce" /\ runs'[r].job = runs[r].job /\ runs'[r].alerts = t
      /\ \A q \in Runs : q # r => runs'[q] = runs[q]
  BY <1>1, <1>7, <1>8
<1> QED BY <1>1, <1>2, <1>3, <1>5, <1>6, <1>7, <1>9

LEMMA ReportedByAnnounce ==
  ASSUME Exclusive, BoundsAssumption, [Next]_vars, NEW r \in Runs, Announce(r),
         NEW m \in Monitors, NEW c \in Cause, Reported(m, c)
  PROVE  /\ Reported(m, c)'
         /\ told'[m][c] # told[m][c] => (told'[m][c] = "recovered" <=> told[m][c] = "opened")
<1> USE DEF Exclusive, Based
<1> DEFINE s == runs[r].alerts
           a == s[1]
<1>1. /\ 1 \in DOMAIN s /\ a.cause \in Cause /\ MonitorOf(r) \in Monitors
      /\ runs[r].pc = "announce" /\ runs'[r].pc = "announce" /\ UNCHANGED <<incidents, spent>>
      /\ runs'[r].job = runs[r].job /\ runs'[r].alerts = Tail(s)
      /\ \A q \in Runs : q # r => runs'[q] = runs[q]
      /\ told'[m][c] = IF m = MonitorOf(r) /\ c = a.cause THEN a.event ELSE told[m][c]
      /\ s \in Seq(Alert) /\ s # <<>>
  BY AnnounceTells
<1>2. MonitorOf(r)' = MonitorOf(r)
  BY <1>1, MonitorStays
<1>3. \A q \in Runs : q # r => Waiting(q, m, c)' = Waiting(q, m, c)
  BY <1>1, SameWaits
<1>4. CASE MonitorOf(r) # m
  <2>1. Waiting(r, m, c)' = {} /\ Waiting(r, m, c) = {}
    BY <1>2, <1>4 DEF Waiting
  <2> QED BY <1>1, <1>3, <1>4, <2>1, ReportedStays DEF Stays
<1>5. CASE MonitorOf(r) = m
  <2>1. \A q \in Runs : q # r => Waiting(q, m, c) = {}
    BY <1>1, <1>5, ExclusiveMonitors DEF Waiting, OwningPcs
  <2>2. \A q \in Runs : q # r => Waiting(q, m, c)' = {}
    BY <1>3, <2>1
  <2>3. /\ Waiting(r, m, c) = {i \in DOMAIN s : s[i].cause = c}
        /\ Waiting(r, m, c)' = {i \in DOMAIN Tail(s) : Tail(s)[i].cause = c}
    BY <1>1, <1>2, <1>5 DEF Waiting
  <2>4. \A i \in DOMAIN Tail(s) : i + 1 \in DOMAIN s /\ Tail(s)[i] = s[i + 1] /\ i + 1 # 1 /\ i \in Int
    BY <1>1, TailIs
  <2>5. \A i \in DOMAIN s : i # 1 => i - 1 \in DOMAIN Tail(s) /\ Tail(s)[i - 1] = s[i]
    BY <1>1, TailIs
  <2>6. CASE c = a.cause
    <3>1. 1 \in Waiting(r, m, c)
      BY <1>1, <2>3, <2>6
    <3>2. /\ a.event = Word(incidents[m][c]) /\ (a.event = "recovered" <=> told[m][c] = "opened")
          /\ Waiting(r, m, c) = {1}
      BY <3>1 DEF Reported
    <3>3. Waiting(r, m, c)' = {}
      <4>1. ASSUME NEW i \in Waiting(r, m, c)' PROVE FALSE
        BY <2>3, <2>4, <3>2, <4>1
      <4> QED BY <4>1
    <3>4. told'[m][c] = a.event
      BY <1>1, <1>5, <2>6
    <3>5. \A q \in Runs : Waiting(q, m, c)' = {}
      BY <2>2, <3>3
    <3> QED BY <1>1, <3>2, <3>4, <3>5 DEF Reported, Word
  <2>7. CASE c # a.cause
    <3>1. told'[m][c] = told[m][c] /\ incidents'[m][c] = incidents[m][c]
      BY <1>1, <2>7
    <3>2. Waiting(r, m, c)' = {} => Waiting(r, m, c) = {}
      <4>1. ASSUME NEW i \in Waiting(r, m, c) PROVE i - 1 \in Waiting(r, m, c)'
        <5>1. i \in DOMAIN s /\ s[i].cause = c /\ i # 1
          BY <2>3, <2>7
        <5> QED BY <2>3, <2>5, <5>1
      <4> QED BY <4>1
    <3>3. ASSUME NEW i \in Waiting(r, m, c)'
          PROVE  /\ runs'[r].alerts[i].event = Word(incidents[m][c])
                 /\ runs'[r].alerts[i].event = "recovered" <=> told[m][c] = "opened"
                 /\ Waiting(r, m, c)' = {i}
      <4>1. i + 1 \in Waiting(r, m, c) /\ runs'[r].alerts[i] = runs[r].alerts[i + 1] /\ i \in Int
        BY <1>1, <2>3, <2>4
      <4>2. \A j \in Waiting(r, m, c)' : j + 1 \in Waiting(r, m, c) /\ j \in Int
        BY <2>3, <2>4
      <4>3. /\ runs[r].alerts[i + 1].event = Word(incidents[m][c])
            /\ runs[r].alerts[i + 1].event = "recovered" <=> told[m][c] = "opened"
            /\ Waiting(r, m, c) = {i + 1}
        BY <4>1 DEF Reported
      <4>4. ASSUME NEW j \in Waiting(r, m, c)' PROVE j = i
        BY <4>1, <4>2, <4>3
      <4> QED BY <4>1, <4>3, <4>4
    <3>4. (\A q \in Runs : Waiting(q, m, c)' = {}) => told[m][c] = Word(incidents[m][c])
      BY <2>1, <3>2 DEF Reported
    <3> QED BY <2>2, <3>1, <3>3, <3>4 DEF Reported, Word
  <2> QED BY <2>6, <2>7
<1> QED BY <1>4, <1>5

(* A run that did not move, did not announce, or had announced it all.     *)
Still(x) ==
  \/ runs'[x] = runs[x]
  \/ runs[x].pc # "announce" /\ runs'[x].pc # "announce"
  \/ runs[x].alerts = <<>> /\ runs'[x].pc # "announce"
Calm == Undisturbed /\ UNCHANGED <<told, incidents>> /\ \A x \in Runs : Still(x)

(* Every other step leaves what was reported alone, or disturbs.           *)
LEMMA OthersStay ==
  ASSUME Exclusive, BoundsAssumption, [Next]_vars, Undisturbed',
         ~ \E r \in Runs : Commit(r) \/ Announce(r)
  PROVE  Undisturbed /\ \A m \in Monitors, c \in Cause : Stays(m, c)
<1> USE DEF Exclusive, Based
<1>1. spent \in Spent /\ runs \in [Runs -> Run]
  BY TypesAre DEF Typed
<1>2. ASSUME Spend("faults") \/ Spend("crashes") PROVE FALSE
  BY <1>1, <1>2 DEF Spend, Spent, Undisturbed
<1>3. ASSUME UNCHANGED <<told, incidents, runs>>,
             UNCHANGED spent \/ Spend("manual") \/ Spend("changes") \/ Spend("blocked") \/ Spend("expiries")
      PROVE  Calm
  BY <1>1, <1>3 DEF Spend, Spent, Undisturbed, Calm, Still
<1>4. ASSUME NEW r \in Runs, RunStep(r) PROVE Calm
  <2>1. UNCHANGED <<told, incidents, spent>>
    BY <1>4 DEF RunStep, TakeCheck, AcquireSlot, AcquireMonitor, ReadMonitor, Request, Announced,
                ReleaseMonitor, ReleaseSlot, history
  <2>2. ASSUME NEW x \in Runs, x # r PROVE runs'[x] = runs[x]
    BY <1>1, <1>4, <2>2 DEF RunStep, TakeCheck, AcquireSlot, AcquireMonitor, ReadMonitor, Request,
       Announced, ReleaseMonitor, ReleaseSlot, EndRun, Goto
  <2>3. Still(r)
    <3>1. CASE \/ (\E j \in Job : TakeCheck(r, j)) \/ (\E s \in UserSlots : AcquireSlot(r, s))
      <4>1. ASSUME NEW j \in Job, TakeCheck(r, j)
            PROVE  runs[r].pc = "idle" /\ runs'[r].pc = "slot"
        BY <1>1, <4>1 DEF TakeCheck, Idle
      <4>2. ASSUME NEW k \in UserSlots, AcquireSlot(r, k)
            PROVE  runs[r].pc = "slot" /\ runs'[r].pc = "lock"
        BY <1>1, <4>2 DEF AcquireSlot, Run
      <4> QED BY <3>1, <4>1, <4>2 DEF Still
    <3>2. CASE AcquireMonitor(r) \/ ReadMonitor(r) \/ Request(r)
      BY <1>1, <3>2 DEF AcquireMonitor, ReadMonitor, Request, Goto, Run, Still
    <3>3. CASE Announced(r) \/ ReleaseMonitor(r) \/ ReleaseSlot(r)
      BY <1>1, <3>3 DEF Announced, ReleaseMonitor, ReleaseSlot, EndRun, Goto, Idle, Run, Still
    <3> QED BY <1>4, <3>1, <3>2, <3>3 DEF RunStep
  <2>4. Undisturbed
    BY <2>1 DEF Undisturbed
  <2>5. \A x \in Runs : Still(x)
    BY <2>2, <2>3 DEF Still
  <2> QED BY <2>1, <2>4, <2>5 DEF Calm
<1>5. ASSUME Scheduler \/ Operator \/ (\E m \in Monitors : IntervalElapses(m))
      PROVE  Calm
  <2>1. UNCHANGED <<told, incidents, runs>>
    BY <1>5 DEF Scheduler, PassReads, PassClaims, AddCheck, PassThrows, Operator, RunNow,
       HandlerDies, Pause, Resume, PutMonitor, Change, IntervalElapses, history
  <2>2. UNCHANGED spent \/ Spend("manual") \/ Spend("changes") \/ Spend("faults")
    BY <1>5 DEF Scheduler, PassReads, PassClaims, AddCheck, PassThrows, Operator, RunNow,
       HandlerDies, Pause, Resume, PutMonitor, Change, IntervalElapses
  <2> QED BY <1>2, <1>3, <2>1, <2>2
<1>6. ASSUME (\E k \in Key : LeaseExpires(k)) \/ (\E j \in Job : Stall(j) \/ StallFails(j)) \/ UNCHANGED vars
      PROVE  Calm
  <2>1. UNCHANGED <<told, incidents, runs>>
    BY <1>6 DEF LeaseExpires, Stall, StallFails, LosesLock, vars, history
  <2>2. UNCHANGED spent \/ Spend("blocked") \/ Spend("expiries")
    BY <1>6 DEF LeaseExpires, Stall, StallFails, LosesLock, vars
  <2> QED BY <1>3, <2>1, <2>2
<1>7. ASSUME NEW r \in Runs, RunThrows(r) PROVE FALSE
  BY <1>2, <1>7 DEF RunThrows
<1>8. ~WorkerCrash
  BY <1>2 DEF WorkerCrash
<1>9. Calm
  BY <1>4, <1>5, <1>6, <1>7, <1>8 DEF Next
<1>10. ASSUME NEW m \in Monitors, NEW c \in Cause, NEW x \in Runs
       PROVE  \/ Waiting(x, m, c)' = Waiting(x, m, c) /\ runs'[x].alerts = runs[x].alerts
              \/ Waiting(x, m, c)' = {} /\ Waiting(x, m, c) = {}
  <2>1. CASE runs'[x] = runs[x]
    BY <2>1, SameWaits
  <2>2. CASE runs[x].pc # "announce" /\ runs'[x].pc # "announce"
    BY <2>2 DEF Waiting
  <2>3. CASE runs[x].alerts = <<>> /\ runs'[x].pc # "announce"
    <3>1. DOMAIN runs[x].alerts = {}
      BY <2>3
    <3> QED BY <2>3, <3>1 DEF Waiting
  <2> QED BY <1>9, <2>1, <2>2, <2>3 DEF Calm, Still
<1> QED BY <1>9, <1>10 DEF Calm, Stays

(* Only an announcement tells anything.                                    *)
LEMMA ToldMoves ==
  ASSUME [Next]_vars, told' # told
  PROVE  \E r \in Runs : Announce(r)
<1>1. CASE Scheduler \/ Operator \/ (\E m \in Monitors : IntervalElapses(m))
  BY <1>1 DEF Scheduler, PassReads, PassClaims, AddCheck, PassThrows, Operator, RunNow,
     HandlerDies, Pause, Resume, PutMonitor, Change, IntervalElapses, history
<1>2. CASE \E r \in Runs : RunStep(r) \/ RunThrows(r)
  BY <1>2, RunLeaves
<1>3. CASE \/ WorkerCrash \/ (\E k \in Key : LeaseExpires(k))
           \/ (\E j \in Job : Stall(j) \/ StallFails(j)) \/ UNCHANGED vars
  BY <1>3 DEF WorkerCrash, LeaseExpires, LosesLock, Stall, StallFails, vars, history
<1> QED BY <1>1, <1>2, <1>3 DEF Next

LEMMA ToldInvKept ==
  ASSUME Exclusive, BoundsAssumption, ToldInv, [Next]_vars
  PROVE  ToldInv'
<1> SUFFICES ASSUME Undisturbed', NEW m \in Monitors, NEW c \in Cause
             PROVE  Reported(m, c)'
  BY DEF ToldInv
<1>1. ASSUME NEW r \in Runs, Commit(r) \/ Announce(r)
      PROVE  Reported(m, c)'
  <2>1. Undisturbed
    BY <1>1 DEF Commit, Announce, Undisturbed
  <2>2. Reported(m, c)
    BY <2>1 DEF ToldInv
  <2> QED BY <1>1, <2>2, ReportedByCommit, ReportedByAnnounce
<1>2. CASE ~ \E r \in Runs : Commit(r) \/ Announce(r)
  <2>1. Undisturbed /\ Stays(m, c)
    BY <1>2, OthersStay
  <2> QED BY <2>1, ReportedStays DEF ToldInv
<1> QED BY <1>1, <1>2

(* The alerts of a monitor are enqueued in the order of its incidents,     *)
(* while no key expires under a live run, for any number of causes, runs,  *)
(* stalls and edits, unless a crash or a throw swallowed one.              *)
THEOREM ToldInOrderHolds == MaxExpiries = 0 /\ Spec => ToldInOrder
<1> SUFFICES ASSUME MaxExpiries = 0 PROVE Spec => ToldInOrder
  OBVIOUS
<1> DEFINE Step == \A m \in Monitors, c \in Cause :
                     told'[m][c] # told[m][c] /\ Undisturbed
                       => told'[m][c] = "recovered" <=> told[m][c] = "opened"
<1>1. Init => ToldInv
  <2>1. Idle.pc = "idle"
    BY BoundsAssumption, IdleRun
  <2> QED BY <2>1 DEF Init, ToldInv, Reported, Waiting, Word
<1>2. Exclusive /\ ToldInv /\ [Next]_vars => ToldInv'
  BY ToldInvKept, BoundsAssumption
<1>3. Exclusive /\ ToldInv /\ [Next]_vars => [Step]_vars
  <2> SUFFICES ASSUME Exclusive, ToldInv, [Next]_vars, NEW m \in Monitors, NEW c \in Cause,
                      told'[m][c] # told[m][c], Undisturbed
               PROVE  told'[m][c] = "recovered" <=> told[m][c] = "opened"
    OBVIOUS
  <2>1. Reported(m, c)
    BY DEF ToldInv
  <2>2. ASSUME NEW r \in Runs, Announce(r)
        PROVE  told'[m][c] = "recovered" <=> told[m][c] = "opened"
    BY <2>1, <2>2, ReportedByAnnounce, BoundsAssumption
  <2>3. \E r \in Runs : Announce(r)
    BY ToldMoves
  <2> QED BY <2>2, <2>3
<1>4. ToldInOrder <=> [][Step]_vars
  BY DEF ToldInOrder
<1> QED BY <1>1, <1>2, <1>3, ExclusiveAlways, PTL DEF Spec, ToldInOrder
=============================================================================
