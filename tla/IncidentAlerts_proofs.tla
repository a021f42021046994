----------------------- MODULE IncidentAlerts_proofs -----------------------
(***************************************************************************)
(* Proofs about IncidentAlerts, for any number of incidents, writers,      *)
(* runs, crashes, stalls, faults and channels.                             *)
(***************************************************************************)
EXTENDS IncidentAlerts, TLAPS

(* How a run ends keeps the types of the queue and of the runs.            *)
LEMMA RunEnds ==
  ASSUME QueueOK, SlotsOK, NEW s \in Slots, NEW state \in {"none", "completed"},
         EndRun(s, state)
  PROVE  QueueOK' /\ SlotsOK'
<1> IdleSlot \in [pc : {"idle", "insert", "demo", "send", "update"},
                  alert : Alert, channel : Channel, result : {"sent", "failed"}]
  BY BoundsAssumption DEF IdleSlot, Alert, Id, Event, Channel
<1>1. slots[s].alert \in Alert
  BY DEF SlotsOK
<1> QED
  BY <1>1, BoundsAssumption DEF EndRun, QueueOK, SlotsOK

(* Every step keeps the types.                                             *)
LEMMA TypesKept ==
  ASSUME TypeOK, [Next]_vars
  PROVE  TypeOK'
<1> USE DEF TypeOK
<1> IdleWriter \in [pc : {"idle", "write"} \cup Event,
                    kind : {"delivery", "observed", "rejected", "succeeded"},
                    target : Targets \cup {Validation}, saw : SUBSET Id]
  BY DEF IdleWriter
<1> IdleSlot \in [pc : {"idle", "insert", "demo", "send", "update"},
                  alert : Alert, channel : Channel, result : {"sent", "failed"}]
  BY BoundsAssumption DEF IdleSlot, Alert, Id, Event, Channel
<1> Open \in SUBSET Id
  BY DEF Open
<1> "opened" \in Event /\ "recovered" \in Event
  BY DEF Event
<1>1. ASSUME NEW w \in Writers, Report(w)
      PROVE  TypeOK'
  <2>1. PICK kind \in {"delivery", "observed", "rejected", "succeeded"},
             t \in Targets \cup {Validation}, found \in SUBSET Id :
          writers' = [writers EXCEPT ![w] = [pc |-> "write", kind |-> kind,
                                             target |-> t, saw |-> found]]
    <3>1. CASE \E t \in Targets \cup {Validation},
                   kind \in {"delivery", "observed", "rejected"} : ReadFailure(w, kind, t)
      <4>1. PICK t \in Targets \cup {Validation},
                 kind \in {"delivery", "observed", "rejected"} : ReadFailure(w, kind, t)
        BY <3>1
      <4>2. PICK found \in SUBSET Open :
              writers' = [writers EXCEPT ![w] = [pc |-> "write", kind |-> kind,
                                                 target |-> t, saw |-> found]]
        BY <4>1 DEF ReadFailure
      <4>3. found \in SUBSET Id
        BY DEF Open
      <4> QED
        BY <4>2, <4>3
    <3>2. CASE \E t \in Targets : ReadSuccess(w, t)
      BY <3>2 DEF ReadSuccess
    <3> QED
      BY <1>1, <3>1, <3>2 DEF Report
  <2>2. UNCHANGED <<incidents, queue, slots, records, channel, notices>>
    BY <1>1 DEF Report, ReadFailure, ReadSuccess
  <2> QED
    BY <2>1, <2>2 DEF IncidentsOK, WritersOK, QueueOK, SlotsOK, RecordsOK, queue
<1>2. ASSUME NEW w \in Writers, OpenIncident(w)
      PROVE  TypeOK'
  <2> DEFINE i == CHOOSE j \in Unused : TRUE
  <2>1. i \in Id
    BY <1>2 DEF OpenIncident, Unused
  <2> HIDE DEF i
  <2>2. /\ incidents' = [incidents EXCEPT ![i] =
                           [NoIncident EXCEPT !.status = "open",
                                              !.about = writers[w].target]]
        /\ writers' = [writers EXCEPT ![w].pc = "opened", ![w].saw = {i}]
        /\ UNCHANGED <<queue, slots, records, channel, notices, spent>>
    BY <1>2 DEF OpenIncident, i
  <2>3. writers[w].target \in Targets \cup {Validation}
    BY DEF WritersOK
  <2>4. IncidentsOK'
    BY <2>1, <2>2, <2>3 DEF NoIncident, IncidentsOK
  <2>5. WritersOK'
    BY <2>1, <2>2 DEF WritersOK
  <2> QED
    BY <2>2, <2>4, <2>5 DEF QueueOK, SlotsOK, RecordsOK, queue
<1>3. ASSUME NEW w \in Writers, RefreshIncident(w)
      PROVE  TypeOK'
  <2>1. writers[w].target \in Targets \cup {Validation}
    BY DEF WritersOK
  <2>2. IncidentsOK'
    BY <1>3, <2>1 DEF RefreshIncident, IncidentsOK
  <2>3. WritersOK'
    BY <1>3 DEF RefreshIncident, WritersOK
  <2> QED
    BY <1>3, <2>2, <2>3 DEF RefreshIncident, QueueOK, SlotsOK, RecordsOK, queue
<1>4. ASSUME NEW w \in Writers, RecoverIncidents(w)
      PROVE  TypeOK'
  <2>1. writers[w].target \in Targets \cup {Validation}
    BY DEF WritersOK
  <2>2. IncidentsOK'
    BY <1>4, <2>1, ZenonT(60) DEF RecoverIncidents, IncidentsOK
  <2>3. WritersOK'
    BY <1>4 DEF RecoverIncidents, WritersOK
  <2> QED
    BY <1>4, <2>2, <2>3 DEF RecoverIncidents, QueueOK, SlotsOK, RecordsOK, queue
<1>5. ASSUME NEW w \in Writers, Announce(w)
      PROVE  TypeOK'
  <2>1. PICK i \in writers[w].saw :
          /\ jobs' = IF \A b \in SameJob(<<i, writers[w].pc>>) : jobs[b] = "none"
                     THEN [jobs EXCEPT ![<<i, writers[w].pc>>] = "waiting"] ELSE jobs
          /\ writers' = [writers EXCEPT ![w] =
               IF writers[w].saw \ {i} = {} THEN IdleWriter
               ELSE [@ EXCEPT !.saw = writers[w].saw \ {i}]]
          /\ UNCHANGED <<incidents, stalls, holder, slots, records, channel, notices, spent>>
    BY <1>5 DEF Announce
  <2>2. jobs' \in [Alert -> {"none", "waiting", "active", "completed"}]
    BY <2>1 DEF QueueOK
  <2>3. WritersOK'
    BY <2>1 DEF WritersOK
  <2> QED
    BY <2>1, <2>2, <2>3 DEF IncidentsOK, QueueOK, SlotsOK, RecordsOK
<1>6. ASSUME NEW w \in Writers, WriterDies(w)
      PROVE  TypeOK'
  BY <1>6 DEF WriterDies, IncidentsOK, WritersOK, QueueOK, SlotsOK, RecordsOK, queue
<1>7. ASSUME NEW s \in Slots, NEW a \in Alert, TakeAlert(s, a) \/ SkipAlert(s, a)
      PROVE  TypeOK'
  <2>1. channel.id \in Channel
    BY DEF RecordsOK
  <2>2. SlotsOK'
    BY <1>7, <2>1 DEF TakeAlert, SkipAlert, SlotsOK
  <2>3. QueueOK'
    BY <1>7 DEF TakeAlert, SkipAlert, QueueOK
  <2> QED
    BY <1>7, <2>2, <2>3 DEF TakeAlert, SkipAlert, IncidentsOK, WritersOK, RecordsOK
<1>8. ASSUME NEW s \in Slots, InsertRecord(s) \/ Notify(s) \/ NotifyFails(s)
      PROVE  TypeOK'
  <2>1. slots[s].alert \in Alert /\ slots[s].channel \in Channel
    BY DEF SlotsOK
  <2>2. SlotsOK'
    BY <1>8 DEF InsertRecord, Notify, NotifyFails, SlotsOK
  <2>3. RecordsOK'
    <3>1. CASE Notify(s)
      <4> DEFINE a == slots[s].alert
                 c == slots[s].channel
      <4>1. notices' = [notices EXCEPT ![a][c] = @ + 1]
        BY <3>1 DEF Notify
      <4>2. [notices[a] EXCEPT ![c] = @ + 1] \in [Channel -> Nat]
        BY <2>1 DEF RecordsOK
      <4>3. notices' \in [Alert -> [Channel -> Nat]]
        BY <2>1, <4>1, <4>2 DEF RecordsOK
      <4> QED
        BY <3>1, <4>3 DEF Notify, RecordsOK
    <3> QED
      BY <1>8, <2>1, <3>1 DEF InsertRecord, NotifyFails, RecordsOK
  <2> QED
    BY <1>8, <2>2, <2>3 DEF InsertRecord, Notify, NotifyFails, IncidentsOK, WritersOK,
                            QueueOK, queue
<1>9. ASSUME NEW s \in Slots,
             \/ InsertConflicts(s) \/ InsertFails(s) \/ UpdateRecord(s) \/ AlertThrows(s)
      PROVE  TypeOK'
  <2>1. QueueOK' /\ SlotsOK'
    BY <1>9, RunEnds DEF InsertConflicts, InsertFails, UpdateRecord, AlertThrows
  <2>2. records' \in [Alert -> {"none", "pending", "sent", "failed"}]
    <3>1. slots[s].alert \in Alert /\ slots[s].result \in {"sent", "failed"}
      BY DEF SlotsOK
    <3> QED
      BY <1>9, <3>1 DEF InsertConflicts, InsertFails, UpdateRecord, AlertThrows,
                        SetRecord, RecordsOK
  <2> QED
    BY <1>9, <2>1, <2>2 DEF InsertConflicts, InsertFails, UpdateRecord, AlertThrows,
                            IncidentsOK, WritersOK, RecordsOK
<1>10. ASSUME NEW a \in Alert, Stall(a) \/ StallFails(a) \/ EvictCompleted(a)
       PROVE  TypeOK'
  <2>1. QueueOK'
    <3>1. CASE Stall(a)
      BY <3>1, BoundsAssumption DEF Stall, LosesLock, QueueOK
    <3>2. CASE StallFails(a)
      BY <3>2, BoundsAssumption DEF StallFails, LosesLock, QueueOK
    <3>3. CASE EvictCompleted(a)
      BY <3>3, BoundsAssumption DEF EvictCompleted, QueueOK
    <3> QED
      BY <1>10, <3>1, <3>2, <3>3
  <2> QED
    BY <1>10, <2>1 DEF Stall, StallFails, LosesLock, EvictCompleted, IncidentsOK,
                       WritersOK, SlotsOK, RecordsOK
<1>11. CASE AlertWorkerCrash
  BY <1>11 DEF AlertWorkerCrash, IncidentsOK, WritersOK, QueueOK, SlotsOK, RecordsOK, queue
<1>12. CASE ReplaceChannel
  <2>1. channel.id + 1 \in Channel
    BY <1>12, BoundsAssumption, SMTT(30) DEF ReplaceChannel, RecordsOK, Channel
  <2>2. RecordsOK'
    BY <1>12, <2>1 DEF ReplaceChannel, RecordsOK
  <2> QED
    BY <1>12, <2>2 DEF ReplaceChannel, IncidentsOK, WritersOK, QueueOK, SlotsOK, queue
<1>13. CASE PutChannel
  BY <1>13 DEF PutChannel, IncidentsOK, WritersOK, QueueOK, SlotsOK, RecordsOK, queue
<1>14. CASE UNCHANGED vars
  BY <1>14 DEF vars, queue, IncidentsOK, WritersOK, QueueOK, SlotsOK, RecordsOK
<1> QED
  BY <1>1, <1>2, <1>3, <1>4, <1>5, <1>6, <1>7, <1>8, <1>9, <1>10, <1>11, <1>12,
     <1>13, <1>14 DEF Next, WriterStep, AlertStep

-----------------------------------------------------------------------------
(* Incidents stay recorded, and recovered ones stay recovered.             *)
LEMMA RecoveredKept ==
  ASSUME TypeOK, [Next]_vars, NEW i \in Id
  PROVE  (Exists(i) => Exists(i)') /\ (Recovered(i) => Recovered(i)')
<1> USE DEF Exists, Recovered
<1>1. CASE UNCHANGED incidents
  BY <1>1
<1>2. ASSUME NEW w \in Writers, OpenIncident(w)
      PROVE  (Exists(i) => Exists(i)') /\ (Recovered(i) => Recovered(i)')
  <2> DEFINE j == CHOOSE k \in Unused : TRUE
  <2>1. j \in Id /\ ~Exists(j)
    BY <1>2 DEF OpenIncident, Unused
  <2> HIDE DEF j
  <2>2. incidents' = [incidents EXCEPT ![j] =
                        [NoIncident EXCEPT !.status = "open", !.about = writers[w].target]]
    BY <1>2 DEF OpenIncident, j
  <2> QED
    BY <2>1, <2>2 DEF TypeOK, IncidentsOK, NoIncident
<1>3. ASSUME NEW w \in Writers, RefreshIncident(w) \/ RecoverIncidents(w)
      PROVE  (Exists(i) => Exists(i)') /\ (Recovered(i) => Recovered(i)')
  <2>1. CASE RefreshIncident(w)
    BY <2>1 DEF RefreshIncident, TypeOK, IncidentsOK
  <2>2. CASE RecoverIncidents(w)
    BY <2>2 DEF RecoverIncidents, Open, TypeOK, IncidentsOK
  <2> QED
    BY <1>3, <2>1, <2>2
<1>4. ASSUME NEW w \in Writers, Report(w) \/ Announce(w) \/ WriterDies(w)
      PROVE  UNCHANGED incidents
  BY <1>4 DEF Report, ReadFailure, ReadSuccess, Announce, WriterDies
<1>5. ASSUME NEW s \in Slots, AlertStep(s) \/ AlertThrows(s)
      PROVE  UNCHANGED incidents
  BY <1>5 DEF AlertStep, TakeAlert, SkipAlert, InsertRecord, InsertConflicts, InsertFails,
              Notify, NotifyFails, UpdateRecord, AlertThrows
<1>6. ASSUME NEW a \in Alert, Stall(a) \/ StallFails(a) \/ EvictCompleted(a)
      PROVE  UNCHANGED incidents
  BY <1>6 DEF Stall, StallFails, LosesLock, EvictCompleted
<1>7. ASSUME AlertWorkerCrash \/ ReplaceChannel \/ PutChannel \/ UNCHANGED vars
      PROVE  UNCHANGED incidents
  BY <1>7 DEF AlertWorkerCrash, ReplaceChannel, PutChannel, vars
<1> QED
  BY <1>1, <1>2, <1>3, <1>4, <1>5, <1>6, <1>7 DEF Next, WriterStep

LEMMA RecoveriesKept ==
  ASSUME TypeOK, Recoveries, [Next]_vars
  PROVE  Recoveries'
<1> USE DEF TypeOK, Exists, Recovered
<1>1. \A i \in Id : (Exists(i) => Exists(i)') /\ (Recovered(i) => Recovered(i)')
  BY RecoveredKept
<1>2. /\ \A i \in Id : <<i, "recovered">> \in Alert
      /\ \A w \in Writers : writers[w].saw \subseteq Id
  BY DEF Alert, Event, WritersOK
<1>3. ASSUME NEW w \in Writers, Report(w) \/ WriterDies(w)
      PROVE  Recoveries'
  <2>1. \A i \in Open : i \in Id /\ Exists(i)
    BY DEF Open, Exists
  <2>2. writers' \in [Writers -> [pc : {"idle", "write"} \cup Event,
                          kind : {"delivery", "observed", "rejected", "succeeded"},
                          target : Targets \cup {Validation}, saw : SUBSET Id]]
    BY TypesKept DEF WritersOK
  <2>3. /\ \A v \in Writers \ {w} : writers'[v] = writers[v]
        /\ writers'[w].pc # "recovered" /\ writers'[w].saw \subseteq Open
    BY <1>3 DEF Report, ReadFailure, ReadSuccess, WriterDies, WritersOK, IdleWriter
  <2>4. UNCHANGED <<jobs, slots, notices>>
    BY <1>3 DEF Report, ReadFailure, ReadSuccess, WriterDies, queue
  <2>5. ASSUME NEW v \in Writers, NEW i \in writers'[v].saw
        PROVE  Exists(i)' /\ (writers'[v].pc = "recovered" => Recovered(i)')
    <3>1. CASE v = w
      BY <1>1, <2>1, <2>3, <3>1
    <3>2. CASE v # w
      BY <1>1, <1>2, <2>3, <3>2 DEF Recoveries
    <3> QED
      BY <3>1, <3>2
  <2> QED
    BY <1>1, <1>2, <2>4, <2>5 DEF Recoveries
<1>4. ASSUME NEW w \in Writers, OpenIncident(w)
      PROVE  Recoveries'
  <2>1. PICK i \in Id :
          /\ incidents' = [incidents EXCEPT ![i] =
                             [NoIncident EXCEPT !.status = "open",
                                                !.about = writers[w].target]]
          /\ writers' = [writers EXCEPT ![w].pc = "opened", ![w].saw = {i}]
          /\ UNCHANGED <<jobs, slots, notices>>
    <3>1. (CHOOSE k \in Unused : TRUE) \in Id
      BY <1>4 DEF OpenIncident, Unused
    <3> QED
      BY <1>4, <3>1 DEF OpenIncident, queue
  <2>3. Exists(i)'
    BY <2>1 DEF NoIncident, IncidentsOK
  <2>4. /\ \A v \in Writers \ {w} : writers'[v] = writers[v]
        /\ writers'[w].pc = "opened" /\ writers'[w].saw = {i}
    BY <2>1 DEF WritersOK
  <2>5. ASSUME NEW v \in Writers, NEW j \in writers'[v].saw
        PROVE  Exists(j)' /\ (writers'[v].pc = "recovered" => Recovered(j)')
    <3>1. CASE v = w
      BY <2>3, <2>4, <3>1
    <3>2. CASE v # w
      BY <1>1, <1>2, <2>4, <3>2 DEF Recoveries
    <3> QED
      BY <3>1, <3>2
  <2> QED
    BY <1>1, <1>2, <2>1, <2>5 DEF Recoveries
<1>5. ASSUME NEW w \in Writers, RefreshIncident(w)
      PROVE  Recoveries'
  <2>1. /\ \A v \in Writers \ {w} : writers'[v] = writers[v]
        /\ writers'[w].pc = "idle" /\ writers'[w].saw = {}
        /\ UNCHANGED <<jobs, slots, notices>>
    BY <1>5 DEF RefreshIncident, WritersOK, IdleWriter, queue
  <2> QED
    BY <1>1, <1>2, <2>1 DEF Recoveries
<1>6. ASSUME NEW w \in Writers, RecoverIncidents(w)
      PROVE  Recoveries'
  <2>1. /\ \A v \in Writers \ {w} : writers'[v] = writers[v]
        /\ writers'[w].saw \subseteq writers[w].saw
        /\ UNCHANGED <<jobs, slots, notices>>
    BY <1>6 DEF RecoverIncidents, WritersOK, IdleWriter, queue
  <2>2. \A i \in writers[w].saw : Recovered(i)'
    <3> SUFFICES ASSUME NEW i \in writers[w].saw
                 PROVE  Recovered(i)'
      OBVIOUS
    <3>1. i \in Id /\ Exists(i)
      BY DEF WritersOK, Recoveries
    <3> QED
      BY <1>6, <3>1 DEF RecoverIncidents, Recovered, Exists, Open, IncidentsOK
  <2> QED
    BY <1>1, <1>2, <2>1, <2>2 DEF Recoveries
<1>7. ASSUME NEW w \in Writers, Announce(w)
      PROVE  Recoveries'
  <2>1. PICK i \in writers[w].saw :
          /\ writers[w].pc \in Event
          /\ jobs' = IF \A b \in SameJob(<<i, writers[w].pc>>) : jobs[b] = "none"
                     THEN [jobs EXCEPT ![<<i, writers[w].pc>>] = "waiting"] ELSE jobs
          /\ writers' = [writers EXCEPT ![w] =
               IF writers[w].saw \ {i} = {} THEN IdleWriter
               ELSE [@ EXCEPT !.saw = writers[w].saw \ {i}]]
          /\ UNCHANGED <<incidents, stalls, holder, slots, records, channel, notices, spent>>
    BY <1>7 DEF Announce
  <2>2. i \in Id
    BY DEF WritersOK
  <2>3. /\ \A v \in Writers \ {w} : writers'[v] = writers[v]
        /\ writers'[w].saw \subseteq writers[w].saw
        /\ writers'[w].pc = "recovered" => writers[w].pc = "recovered"
    BY <2>1 DEF WritersOK, IdleWriter
  <2>4. ASSUME NEW j \in Id, jobs'[<<j, "recovered">>] # "none"
        PROVE  Recovered(j)'
    <3>1. CASE jobs'[<<j, "recovered">>] = jobs[<<j, "recovered">>]
      BY <1>1, <1>2, <2>4, <3>1 DEF Recoveries
    <3>2. CASE jobs'[<<j, "recovered">>] # jobs[<<j, "recovered">>]
      <4>1. <<j, "recovered">> = <<i, writers[w].pc>>
        BY <1>2, <2>1, <3>2 DEF QueueOK
      <4> QED
        BY <1>1, <4>1, <2>2 DEF Recoveries
    <3> QED
      BY <3>1, <3>2
  <2> QED
    BY <1>1, <1>2, <2>1, <2>3, <2>4 DEF Recoveries
<1>8. ASSUME NEW s \in Slots, AlertStep(s) \/ AlertThrows(s)
      PROVE  Recoveries'
  <2>1. slots[s].alert \in Alert /\ slots[s].channel \in Channel
    BY DEF SlotsOK
  <2>2. UNCHANGED writers
    BY <1>8 DEF AlertStep, TakeAlert, SkipAlert, InsertRecord, InsertConflicts,
                InsertFails, Notify, NotifyFails, UpdateRecord, AlertThrows
  <2>3. \A a \in Alert : jobs'[a] # "none" =>
          jobs[a] # "none" \/ (slots[s].pc # "idle" /\ slots[s].alert = a)
    BY <1>8, <2>1 DEF AlertStep, TakeAlert, SkipAlert, InsertRecord, InsertConflicts,
                      InsertFails, Notify, NotifyFails, UpdateRecord, AlertThrows,
                      EndRun, QueueOK, queue
  <2>4. \A u \in Slots : slots'[u].pc # "idle" =>
          \/ slots[u].pc # "idle" /\ slots'[u].alert = slots[u].alert
          \/ jobs[slots'[u].alert] # "none"
    BY <1>8, <2>1 DEF AlertStep, TakeAlert, SkipAlert, InsertRecord, InsertConflicts,
                      InsertFails, Notify, NotifyFails, UpdateRecord, AlertThrows,
                      EndRun, IdleSlot, SlotsOK
  <2>5. \A a \in Alert, c \in Channel :
          notices'[a][c] # notices[a][c] => slots[s].alert = a /\ slots[s].pc # "idle"
    BY <1>8, <2>1 DEF AlertStep, TakeAlert, SkipAlert, InsertRecord, InsertConflicts,
                      InsertFails, Notify, NotifyFails, UpdateRecord, AlertThrows,
                      RecordsOK
  <2>6. ASSUME NEW i \in Id, jobs'[<<i, "recovered">>] # "none"
        PROVE  Recovered(i)'
    BY <1>1, <1>2, <2>3, <2>6 DEF Recoveries
  <2>7. ASSUME NEW u \in Slots, NEW i \in Id, slots'[u].pc # "idle",
               slots'[u].alert = <<i, "recovered">>
        PROVE  Recovered(i)'
    BY <1>1, <1>2, <2>4, <2>7 DEF Recoveries
  <2>8. ASSUME NEW i \in Id, NEW c \in Channel, notices'[<<i, "recovered">>][c] > 0
        PROVE  Recovered(i)'
    BY <1>1, <1>2, <2>5, <2>8 DEF Recoveries
  <2> QED
    BY <1>1, <1>2, <2>2, <2>6, <2>7, <2>8 DEF Recoveries
<1>9. ASSUME NEW a \in Alert, Stall(a) \/ StallFails(a) \/ EvictCompleted(a)
      PROVE  Recoveries'
  <2>1. \A b \in Alert : jobs'[b] # "none" => jobs[b] # "none"
    BY <1>9 DEF Stall, StallFails, LosesLock, EvictCompleted, QueueOK
  <2>2. UNCHANGED <<writers, slots, notices>>
    BY <1>9 DEF Stall, StallFails, LosesLock, EvictCompleted
  <2> QED
    BY <1>1, <1>2, <2>1, <2>2 DEF Recoveries
<1>10. CASE AlertWorkerCrash
  <2>1. /\ UNCHANGED <<writers, jobs, notices>>
        /\ \A s \in Slots : slots'[s].pc = "idle"
    BY <1>10 DEF AlertWorkerCrash, IdleSlot, queue
  <2> QED
    BY <1>1, <1>2, <2>1 DEF Recoveries
<1>11. CASE ReplaceChannel \/ PutChannel \/ UNCHANGED vars
  <2>1. UNCHANGED <<writers, jobs, slots, notices>>
    BY <1>11 DEF ReplaceChannel, PutChannel, vars, queue
  <2> QED
    BY <1>1, <1>2, <2>1 DEF Recoveries
<1> QED
  BY <1>3, <1>4, <1>5, <1>6, <1>7, <1>8, <1>9, <1>10, <1>11 DEF Next, WriterStep

-----------------------------------------------------------------------------
(* A step that sends nothing, starts no sending, takes no record away and  *)
(* leaves the channel in place cannot disturb Notifications.               *)
LEMMA QuietKept ==
  ASSUME Notifications,
         notices' = notices, channel'.id = channel.id,
         \A a \in Alert : records'[a] = "none" => records[a] = "none",
         \A s \in Slots : slots'[s].pc = "send" => slots'[s] = slots[s],
         \A s \in Slots : slots'[s].channel <= channel.id
  PROVE  Notifications'
BY DEF Notifications, Sending

LEMMA NotificationsKept ==
  ASSUME TypeOK, Notifications, [Next]_vars
  PROVE  Notifications'
<1> USE DEF TypeOK
<1> DEFINE Quiet == /\ notices' = notices /\ channel'.id = channel.id
                    /\ \A a \in Alert : records'[a] = "none" => records[a] = "none"
                    /\ \A s \in Slots : slots'[s].pc = "send" => slots'[s] = slots[s]
                    /\ \A s \in Slots : slots'[s].channel <= channel.id
<1>1. channel.id \in Channel /\ 1 <= channel.id /\ IdleSlot.channel = 1
      /\ IdleSlot.pc = "idle"
  BY DEF RecordsOK, Channel, IdleSlot
<1>2. \A s \in Slots : /\ slots[s].channel <= channel.id
                       /\ slots[s].alert \in Alert /\ slots[s].channel \in Channel
  BY DEF Notifications, SlotsOK
<1>3. Quiet => Notifications'
  BY QuietKept
<1>4. ASSUME NEW w \in Writers, Report(w) \/ WriterStep(w) \/ WriterDies(w)
      PROVE  Quiet
  <2>1. UNCHANGED <<slots, records, channel, notices>>
    BY <1>4 DEF Report, ReadFailure, ReadSuccess, WriterStep, OpenIncident,
                RefreshIncident, RecoverIncidents, Announce, WriterDies
  <2> QED
    BY <1>2, <2>1
<1>5. ASSUME NEW s \in Slots, NEW a \in Alert, TakeAlert(s, a) \/ SkipAlert(s, a)
      PROVE  Quiet
  <2>1. UNCHANGED <<records, channel, notices>>
    BY <1>5 DEF TakeAlert, SkipAlert
  <2>2. \A u \in Slots : \/ slots'[u] = slots[u]
                         \/ slots'[u].pc = "insert" /\ slots'[u].channel = channel.id
    BY <1>5 DEF TakeAlert, SkipAlert, SlotsOK
  <2>3. channel.id <= channel.id
    BY <1>1 DEF Channel
  <2> QED
    BY <1>2, <2>1, <2>2, <2>3
<1>6. ASSUME NEW s \in Slots, InsertRecord(s)
      PROVE  Notifications'
  <2> DEFINE a == slots[s].alert
  <2>1. /\ a \in Alert /\ slots[s].channel = channel.id /\ records[a] = "none"
        /\ records' = [records EXCEPT ![a] = "pending"]
        /\ \A u \in Slots \ {s} : slots'[u] = slots[u]
        /\ slots'[s].alert = a /\ slots'[s].channel = channel.id
        /\ UNCHANGED <<channel, notices>>
    BY <1>2, <1>6 DEF InsertRecord, MayInsert, SlotsOK
  <2>2. notices[a][channel.id] = 0 /\ \A u \in Slots : ~Sending(u, a, channel.id)
    BY <2>1 DEF Notifications
  <2>3. ASSUME NEW b \in Alert, NEW c \in Channel, NEW u \in Slots, Sending(u, b, c)'
        PROVE  /\ notices[b][c] = 0
               /\ \A v \in Slots : Sending(v, b, c)' => v = u
    <3>1. CASE b = a /\ c = channel.id
      <4>1. \A v \in Slots : Sending(v, b, c)' => v = s
        BY <2>1, <2>2, <3>1 DEF Sending
      <4> QED
        BY <2>2, <2>3, <3>1, <4>1
    <3>2. CASE ~(b = a /\ c = channel.id)
      <4>1. \A v \in Slots : Sending(v, b, c)' => Sending(v, b, c)
        BY <2>1, <3>2 DEF Sending
      <4> QED
        BY <2>3, <4>1 DEF Notifications
    <3> QED
      BY <3>1, <3>2
  <2>4. ASSUME NEW b \in Alert, records'[b] = "none"
        PROVE  notices[b][channel.id] = 0 /\ \A u \in Slots : ~Sending(u, b, channel.id)'
    <3>1. b # a /\ records[b] = "none"
      BY <2>1, <2>4 DEF RecordsOK
    <3> QED
      BY <2>1, <3>1 DEF Notifications, Sending
  <2>5. \A u \in Slots : slots'[u].channel <= channel.id
    BY <1>1, <1>2, <2>1 DEF Channel
  <2> QED
    BY <2>1, <2>3, <2>4, <2>5 DEF Notifications
<1>7. ASSUME NEW s \in Slots, InsertConflicts(s) \/ InsertFails(s)
      PROVE  Quiet
  BY <1>1, <1>2, <1>7 DEF InsertConflicts, InsertFails, EndRun, SlotsOK
<1>8. ASSUME NEW s \in Slots, Notify(s)
      PROVE  Notifications'
  <2> DEFINE a == slots[s].alert
             d == slots[s].channel
  <2>1. /\ a \in Alert /\ d \in Channel /\ Sending(s, a, d)
        /\ notices' = [notices EXCEPT ![a][d] = @ + 1]
        /\ UNCHANGED <<records, channel>>
        /\ slots'[s].pc = "update" /\ slots'[s].channel = d
        /\ \A u \in Slots \ {s} : slots'[u] = slots[u]
    BY <1>2, <1>8 DEF Notify, Sending, SlotsOK
  <2>2. /\ notices[a][d] = 0 /\ \A u \in Slots : Sending(u, a, d) => u = s
        /\ d <= channel.id
        /\ d = channel.id => records[a] # "none"
    BY <1>2, <2>1 DEF Notifications
  <2>3. \A b \in Alert, c \in Channel :
          notices'[b][c] = IF b = a /\ c = d THEN 1 ELSE notices[b][c]
    BY <2>1, <2>2 DEF RecordsOK
  <2>4. \A u \in Slots, b \in Alert, c \in Channel :
          Sending(u, b, c)' => Sending(u, b, c) /\ u # s
    BY <2>1 DEF Sending
  <2> HIDE DEF a, d
  <2>5. ASSUME NEW u \in Slots, NEW b \in Alert, NEW c \in Channel, Sending(u, b, c)'
        PROVE  notices'[b][c] = 0 /\ \A v \in Slots : Sending(v, b, c)' => v = u
    BY <2>2, <2>3, <2>4, <2>5 DEF Notifications
  <2>6. ASSUME NEW b \in Alert, records'[b] = "none"
        PROVE  /\ notices'[b][channel.id] = 0
               /\ \A u \in Slots : ~Sending(u, b, channel.id)'
    BY <1>1, <2>1, <2>2, <2>3, <2>4, <2>6 DEF Notifications
  <2>7. \A b \in Alert, c \in Channel :
          notices'[b][c] <= 1 /\ (c > channel.id => notices'[b][c] = 0)
    BY <1>1, <2>1, <2>2, <2>3 DEF Notifications, Channel
  <2>8. \A u \in Slots : slots'[u].channel <= channel.id
    BY <1>2, <2>1, <2>2
  <2> QED
    BY <2>1, <2>5, <2>6, <2>7, <2>8 DEF Notifications
<1>9. ASSUME NEW s \in Slots, NotifyFails(s)
      PROVE  Quiet
  BY <1>1, <1>2, <1>9 DEF NotifyFails, SlotsOK
<1>10. ASSUME NEW s \in Slots, UpdateRecord(s) \/ AlertThrows(s)
       PROVE  Quiet
  <2>1. \A a \in Alert : records'[a] = "none" => records[a] = "none"
    <3>1. slots[s].result \in {"sent", "failed"}
      BY DEF SlotsOK
    <3> QED
      BY <1>10, <3>1 DEF UpdateRecord, AlertThrows, SetRecord, RecordsOK
  <2>2. /\ slots' = [slots EXCEPT ![s] = IdleSlot]
        /\ UNCHANGED <<channel, notices>>
    BY <1>10 DEF UpdateRecord, AlertThrows, EndRun
  <2> QED
    BY <1>1, <1>2, <2>1, <2>2 DEF SlotsOK
<1>11. ASSUME NEW a \in Alert, Stall(a) \/ StallFails(a) \/ EvictCompleted(a)
       PROVE  Quiet
  BY <1>2, <1>11 DEF Stall, StallFails, LosesLock, EvictCompleted
<1>12. CASE AlertWorkerCrash
  BY <1>1, <1>3, <1>12 DEF AlertWorkerCrash
<1>13. CASE ReplaceChannel
  <2>1. /\ channel'.id = channel.id + 1 /\ channel'.id \in Channel
        /\ UNCHANGED <<slots, notices>>
    BY <1>13, TypesKept DEF ReplaceChannel, RecordsOK
  <2>2. \A a \in Alert : notices[a][channel'.id] = 0
    BY <1>1, <2>1 DEF Notifications, Channel
  <2>3. \A s \in Slots : slots'[s].channel < channel'.id
    BY <1>1, <1>2, <2>1 DEF Channel
  <2>4. /\ \A a \in Alert, c \in Channel, s \in Slots : Sending(s, a, c)' = Sending(s, a, c)
        /\ \A a \in Alert, s \in Slots : slots'[s].channel # channel'.id
    BY <1>1, <1>2, <2>1, <2>3 DEF Sending, Channel
  <2> QED
    BY <1>1, <1>2, <2>1, <2>2, <2>3, <2>4 DEF Notifications, Sending, Channel
<1>14. CASE PutChannel \/ UNCHANGED vars
  <2>1. /\ UNCHANGED <<slots, records, notices>>
        /\ channel'.id = channel.id
    BY <1>14 DEF PutChannel, RecordsOK, vars
  <2> QED
    BY <1>2, <1>3, <2>1
<1> QED
  BY <1>3, <1>4, <1>5, <1>6, <1>7, <1>8, <1>9, <1>10, <1>11, <1>12, <1>13, <1>14
     DEF Next, AlertStep

-----------------------------------------------------------------------------
(* The initial states: nothing was opened, queued or sent.                 *)
LEMMA InitAlertInv == Init => AlertInv
<1> SUFFICES ASSUME Init PROVE AlertInv
  OBVIOUS
<1>1. TypeOK
  <2>1. IncidentsOK /\ WritersOK
    BY DEF Init, IncidentsOK, WritersOK, NoIncident, IdleWriter
  <2>2. QueueOK
    BY BoundsAssumption DEF Init, QueueOK
  <2>3. SlotsOK
    BY BoundsAssumption DEF Init, SlotsOK, IdleSlot, Alert, Id, Event, Channel
  <2>4. RecordsOK
    <3>1. 1 \in Channel
      BY BoundsAssumption DEF Channel
    <3>2. channel \in [id : Channel, active : BOOLEAN, events : SUBSET Event, demo : BOOLEAN]
      BY <3>1 DEF Init
    <3>3. notices \in [Alert -> [Channel -> Nat]]
      <4>1. [c \in Channel |-> 0] \in [Channel -> Nat]
        OBVIOUS
      <4> QED
        BY <4>1 DEF Init
    <3>4. records \in [Alert -> {"none", "pending", "sent", "failed"}]
      BY DEF Init
    <3> QED
      BY <3>2, <3>3, <3>4 DEF RecordsOK
  <2> QED
    BY <2>1, <2>2, <2>3, <2>4 DEF TypeOK
<1>2. Recoveries
  BY DEF Init, Recoveries, IdleWriter, IdleSlot, Alert, Event
<1>3. Notifications
  BY BoundsAssumption DEF Init, Notifications, Sending, IdleSlot, Channel
<1> QED
  BY <1>1, <1>2, <1>3 DEF AlertInv

(* Types, recoveries and notifications are kept together: AlertInv is      *)
(* inductive.                                                              *)
THEOREM ThAlertInv == Spec => []AlertInv
<1>1. AlertInv /\ [Next]_vars => AlertInv'
  BY TypesKept, RecoveriesKept, NotificationsKept DEF AlertInv
<1> QED
  BY InitAlertInv, <1>1, PTL DEF Spec

(* performIncidentAlert: a channel is notified of an alert at most once,   *)
(* whatever BullMQ reruns.                                                 *)
THEOREM ThNotifiedOnce == Spec => []NotifiedOnce
<1>1. AlertInv => NotifiedOnce
  BY DEF AlertInv, Notifications, NotifiedOnce
<1> QED
  BY ThAlertInv, <1>1, PTL

(* No notification of a recovery precedes the recovery.                    *)
THEOREM ThRecoveryIsReal == Spec => []RecoveryIsReal
<1>1. AlertInv => RecoveryIsReal
  BY DEF AlertInv, Recoveries, RecoveryIsReal
<1> QED
  BY ThAlertInv, <1>1, PTL

(* Every notification of the present channel is in alert_deliveries.       *)
THEOREM ThNoticeIsAudited == Spec => []NoticeIsAudited
<1>1. AlertInv => NoticeIsAudited
  <2>1. AlertInv => channel.id \in Channel
    BY DEF AlertInv, TypeOK, RecordsOK
  <2> QED
    BY <2>1 DEF AlertInv, Notifications, NoticeIsAudited
<1> QED
  BY ThAlertInv, <1>1, PTL
=============================================================================
