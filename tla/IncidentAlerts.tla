--------------------------- MODULE IncidentAlerts ---------------------------
(***************************************************************************)
(* The incidents of one webhook resource and the alerts about them.        *)
(*                                                                         *)
(* Writers are the runs of the delivery worker and the handlers of the     *)
(* ingestor at the point where the outcome of a delivery, or of a request's *)
(* validation, reaches the incidents: they read the open incidents, write  *)
(* in a second statement what they conclude, and add an alert job per      *)
(* incident opened or recovered.  The alert worker takes these jobs, two   *)
(* at a time, records each alert in alert_deliveries and then notifies the *)
(* user's channel.                                                         *)
(*                                                                         *)
(* PostgreSQL (incidents, records, channel) and the BullMQ queue (jobs,    *)
(* stalls, holder) survive crashes; slots and writers are memory.  Unlike  *)
(* in ProtectDelivery a job may be found stalled while its run goes on.    *)
(***************************************************************************)
EXTENDS Integers, FiniteSets

CONSTANTS
  Targets,        \* destinations of the resource's route
  Writers,        \* runs and handlers that report outcomes
  Slots,          \* jobs the alert worker runs at once
  MaxStalls,      \* times a stalled job is run again
  MaxIncidents,   \* bounds: incidents,
  MaxOutcomes,    \*   outcomes reported,
  MaxDeaths,      \*   writers that die between two statements,
  MaxCrashes,     \*   crashes of the alert worker,
  MaxBlocked,     \*   times its event loop is blocked for too long,
  MaxFaults,      \*   statements of the alert worker that throw,
  MaxChannels,    \*   alert channels, one after another,
  MaxPatches,     \*   changes of a channel's settings,
  MaxEvictions    \*   completed jobs BullMQ forgets

VARIABLES
  incidents,   \* the rows of the resource
  writers,     \* what each writer found and has still to do
  jobs,        \* the state of each alert's job
  stalls,      \* how often that job was found stalled
  holder,      \* the slot that may complete it
  slots,       \* the alert worker's runs
  records,     \* alert_deliveries
  channel,     \* the user's alert channel
  notices,     \* history: notifications sent, per alert and channel
  spent        \* how much of each bound is used

queue == <<jobs, stalls, holder>>
vars == <<incidents, writers, queue, slots, records, channel, notices, spent>>

Id == 1 .. MaxIncidents
Event == {"opened", "recovered"}
Alert == Id \X Event
Channel == 1 .. MaxChannels
NoSlot == "no_slot"
Validation == "validation"

ASSUME BoundsAssumption ==
  /\ MaxIncidents \in Nat \ {0} /\ MaxOutcomes \in Nat /\ MaxDeaths \in Nat
  /\ MaxCrashes \in Nat /\ MaxBlocked \in Nat /\ MaxFaults \in Nat
  /\ MaxChannels \in Nat \ {0} /\ MaxPatches \in Nat /\ MaxEvictions \in Nat
  /\ MaxStalls \in Nat
  /\ NoSlot \notin Slots /\ Validation \notin Targets

(* about: what the last failure written to the incident was a failure of;  *)
(* by: the target whose success recovered it.                              *)
NoIncident == [status |-> "none", about |-> Validation, by |-> Validation]
IdleWriter == [pc |-> "idle", kind |-> "succeeded", target |-> Validation, saw |-> {}]
IdleSlot == [pc |-> "idle", alert |-> <<1, "opened">>, channel |-> 1, result |-> "sent"]

Exists(i) == incidents[i].status # "none"
Open == {i \in Id : incidents[i].status = "open"}
Unused == {i \in Id : ~Exists(i)}
Spend(what) == spent' = [spent EXCEPT ![what] = @ + 1]

Init ==
  /\ incidents = [i \in Id |-> NoIncident]
  /\ writers = [w \in Writers |-> IdleWriter]
  /\ jobs = [a \in Alert |-> "none"]
  /\ stalls = [a \in Alert |-> 0]
  /\ holder = [a \in Alert |-> NoSlot]
  /\ slots = [s \in Slots |-> IdleSlot]
  /\ records = [a \in Alert |-> "none"]
  /\ channel \in [id : {1}, active : {TRUE}, events : (SUBSET Event) \ {{}},
                  demo : BOOLEAN]
  /\ notices = [a \in Alert |-> [c \in Channel |-> 0]]
  /\ spent = [outcomes |-> 0, deaths |-> 0, crashes |-> 0, blocked |-> 0,
              faults |-> 0, patches |-> 0, evictions |-> 0]

-----------------------------------------------------------------------------
(* Writers.  A delivery failed or was dead-lettered (kind "delivery",      *)
(* updateDeliveryIncident), an observed request failed ("observed",        *)
(* openDestinationIncident), a request did not validate ("rejected",       *)
(* openValidationIncident): all look for one open incident first.          *)
ReadFailure(w, kind, t) ==
  /\ writers[w].pc = "idle"
  /\ spent.outcomes < MaxOutcomes /\ Spend("outcomes")
  /\ (kind = "rejected") <=> (t = Validation)
  /\ \E found \in SUBSET Open :
       /\ Cardinality(found) = IF Open = {} THEN 0 ELSE 1
       /\ writers' = [writers EXCEPT ![w] = [pc |-> "write", kind |-> kind,
                                             target |-> t, saw |-> found]]
  /\ UNCHANGED <<incidents, queue, slots, records, channel, notices>>

(* A delivery succeeded: recoverDeliveryIncident, or for an observed one   *)
(* recoverDestinationIncident, reads all open incidents.                   *)
ReadSuccessAnnounced(w, t) ==
  /\ writers[w].pc = "idle" /\ Open # {}
  /\ spent.outcomes < MaxOutcomes /\ Spend("outcomes")
  /\ writers' = [writers EXCEPT ![w] = [pc |-> "recovered", kind |-> "succeeded",
                                        target |-> t, saw |-> Open]]
  /\ UNCHANGED <<incidents, queue, slots, records, channel, notices>>
ReadSuccess(w, t) ==
  /\ writers[w].pc = "idle"
  /\ spent.outcomes < MaxOutcomes /\ Spend("outcomes")
  /\ writers' = [writers EXCEPT ![w] = [pc |-> "write", kind |-> "succeeded",
                                        target |-> t, saw |-> Open]]
  /\ UNCHANGED <<incidents, queue, slots, records, channel, notices>>

(* No open incident was found: a new one, to be announced.                 *)
OpenIncident(w) ==
  LET i == CHOOSE j \in Unused : TRUE
  IN  /\ writers[w].pc = "write" /\ writers[w].kind # "succeeded"
      /\ writers[w].saw = {} /\ Unused # {}
      /\ incidents' = [incidents EXCEPT ![i] =
                         [NoIncident EXCEPT !.status = "open",
                                            !.about = writers[w].target]]
      /\ writers' = [writers EXCEPT ![w].pc = "opened", ![w].saw = {i}]
      /\ UNCHANGED <<queue, slots, records, channel, notices, spent>>

(* One was found: it gets the new cause and evidence, whatever became of   *)
(* it meanwhile; an observed failure leaves it alone.                      *)
RefreshIncident(w) ==
  /\ writers[w].pc = "write" /\ writers[w].kind # "succeeded"
  /\ writers[w].saw # {}
  /\ incidents' =
       IF writers[w].kind = "observed" THEN incidents
       ELSE [i \in Id |-> IF i \in writers[w].saw
                          THEN [incidents[i] EXCEPT !.about = writers[w].target]
                          ELSE incidents[i]]
  /\ writers' = [writers EXCEPT ![w] = IdleWriter]
  /\ UNCHANGED <<queue, slots, records, channel, notices, spent>>

(* Every incident open by now is recovered, those that were read are       *)
(* announced.                                                              *)
RecoverIncidents(w) ==
  /\ writers[w].pc = "write" /\ writers[w].kind = "succeeded"
  /\ incidents' = [i \in Id |-> IF i \in Open
                                THEN [incidents[i] EXCEPT !.status = "recovered",
                                                          !.by = writers[w].target]
                                ELSE incidents[i]]
  /\ writers' = [writers EXCEPT ![w] =
                   IF @.saw = {} THEN IdleWriter ELSE [@ EXCEPT !.pc = "recovered"]]
  /\ UNCHANGED <<queue, slots, records, channel, notices, spent>>

(* enqueueIncidentAlert: nothing is added while the alert's job exists.    *)
(* SameJob(a) is the alerts that would share the job id of a.              *)
SameJobPerIncident(a) == {b \in Alert : b[1] = a[1]}
SameJob(a) == {a}
Announce(w) ==
  \E i \in writers[w].saw :
    LET a == <<i, writers[w].pc>>
        rest == writers[w].saw \ {i}
    IN  /\ writers[w].pc \in Event
        /\ jobs' = IF \A b \in SameJob(a) : jobs[b] = "none"
                   THEN [jobs EXCEPT ![a] = "waiting"] ELSE jobs
        /\ writers' = [writers EXCEPT ![w] =
                         IF rest = {} THEN IdleWriter ELSE [@ EXCEPT !.saw = rest]]
        /\ UNCHANGED <<incidents, stalls, holder, slots, records, channel, notices, spent>>

(* A statement or queue call throws or the process dies: what is left of   *)
(* the report is never made.                                               *)
WriterDies(w) ==
  /\ writers[w].pc # "idle"
  /\ spent.deaths < MaxDeaths /\ Spend("deaths")
  /\ writers' = [writers EXCEPT ![w] = IdleWriter]
  /\ UNCHANGED <<incidents, queue, slots, records, channel, notices>>

-----------------------------------------------------------------------------
(* The alert worker: performIncidentAlert.                                 *)

Wanted(event) == channel.active /\ event \in channel.events

(* The run of slot s ends; BullMQ completes or removes the job unless it   *)
(* gave the job to another run meanwhile.                                  *)
EndRun(s, state) ==
  LET a == slots[s].alert
  IN  /\ slots' = [slots EXCEPT ![s] = IdleSlot]
      /\ jobs' = IF holder[a] = s THEN [jobs EXCEPT ![a] = state] ELSE jobs
      /\ holder' = IF holder[a] = s THEN [holder EXCEPT ![a] = NoSlot] ELSE holder
      /\ stalls' = IF holder[a] = s /\ state = "none"
                   THEN [stalls EXCEPT ![a] = 0] ELSE stalls

(* The incident and the channel are read; without an active channel that   *)
(* wants the event the job is done.  A channel whose scopes leave webhooks *)
(* out counts as inactive here.                                            *)
TakeAlert(s, a) ==
  /\ jobs[a] = "waiting" /\ slots[s].pc = "idle" /\ Wanted(a[2])
  /\ jobs' = [jobs EXCEPT ![a] = "active"]
  /\ holder' = [holder EXCEPT ![a] = s]
  /\ slots' = [slots EXCEPT ![s] = [pc |-> "insert", alert |-> a,
                                   channel |-> channel.id, result |-> "sent"]]
  /\ UNCHANGED <<incidents, writers, stalls, records, channel, notices, spent>>

SkipAlert(s, a) ==
  /\ jobs[a] = "waiting" /\ slots[s].pc = "idle" /\ ~Wanted(a[2])
  /\ jobs' = [jobs EXCEPT ![a] = "completed"]
  /\ UNCHANGED <<incidents, writers, stalls, holder, slots, records, channel, notices, spent>>

(* Insert, or do nothing on a conflict: the run that inserted the record   *)
(* goes on, any other one is done.                                         *)
MayInsertAlways(a) == TRUE
MayInsert(a) == records[a] = "none"

InsertRecordLate(s) ==
  /\ slots[s].pc = "insert" /\ slots[s].channel = channel.id
  /\ MayInsert(slots[s].alert)
  /\ slots' = [slots EXCEPT ![s].pc = "send"]
  /\ UNCHANGED <<incidents, writers, queue, records, channel, notices, spent>>
InsertRecord(s) ==
  LET a == slots[s].alert
  IN  /\ slots[s].pc = "insert" /\ slots[s].channel = channel.id
      /\ MayInsert(a)
      /\ records' = [records EXCEPT ![a] = "pending"]
      /\ slots' = [slots EXCEPT ![s].pc = IF channel.demo THEN "demo" ELSE "send"]
      /\ UNCHANGED <<incidents, writers, queue, channel, notices, spent>>

InsertConflicts(s) ==
  /\ slots[s].pc = "insert" /\ slots[s].channel = channel.id
  /\ ~MayInsert(slots[s].alert)
  /\ EndRun(s, "completed")
  /\ UNCHANGED <<incidents, writers, records, channel, notices, spent>>

(* The channel read is gone: the foreign key fails, and so does the job.   *)
InsertFails(s) ==
  /\ slots[s].pc = "insert" /\ slots[s].channel # channel.id
  /\ EndRun(s, "none")
  /\ UNCHANGED <<incidents, writers, records, channel, notices, spent>>

(* The notification leaves and is answered, well or badly ...              *)
Notify(s) ==
  /\ slots[s].pc = "send"
  /\ notices' = [notices EXCEPT ![slots[s].alert][slots[s].channel] = @ + 1]
  /\ \E result \in {"sent", "failed"} :
       slots' = [slots EXCEPT ![s].pc = "update", ![s].result = result]
  /\ UNCHANGED <<incidents, writers, queue, records, channel, spent>>

(* ... or cannot be sent at all.                                           *)
NotifyFails(s) ==
  /\ slots[s].pc = "send"
  /\ slots' = [slots EXCEPT ![s].pc = "update", ![s].result = "failed"]
  /\ UNCHANGED <<incidents, writers, queue, records, channel, notices, spent>>

(* The record gets the result, if it still exists.  A demo's alert counts  *)
(* as sent without a request.                                              *)
SetRecord(s, result) ==
  records' = IF slots[s].channel = channel.id
             THEN [records EXCEPT ![slots[s].alert] = result] ELSE records

UpdateRecord(s) ==
  /\ slots[s].pc \in {"update", "demo"}
  /\ SetRecord(s, IF slots[s].pc = "demo" THEN "sent" ELSE slots[s].result)
  /\ EndRun(s, "completed")
  /\ UNCHANGED <<incidents, writers, channel, notices, spent>>

(* A statement throws.  The update after the request is inside the try and *)
(* the catch block writes 'failed' instead; anything else fails the job.   *)
AlertThrows(s) ==
  /\ spent.faults < MaxFaults /\ Spend("faults")
  /\ \/ slots[s].pc = "update" /\ SetRecord(s, "failed") /\ EndRun(s, "completed")
     \/ slots[s].pc \in {"insert", "demo", "update"}
        /\ EndRun(s, "none") /\ UNCHANGED records
  /\ UNCHANGED <<incidents, writers, channel, notices>>

AlertWorkerCrash ==
  /\ spent.crashes < MaxCrashes /\ Spend("crashes")
  /\ \E s \in Slots : slots[s].pc # "idle"
  /\ slots' = [s \in Slots |-> IdleSlot]
  /\ UNCHANGED <<incidents, writers, queue, records, channel, notices>>

-----------------------------------------------------------------------------
(* BullMQ: the lock of an active job is not renewed when its worker died,  *)
(* or when the worker's event loop was blocked for too long.               *)
Orphaned(a) == \A s \in Slots : slots[s].pc = "idle" \/ slots[s].alert # a

LosesLock(a) ==
  /\ jobs[a] = "active"
  /\ IF Orphaned(a) THEN UNCHANGED spent
     ELSE spent.blocked < MaxBlocked /\ Spend("blocked")
  /\ holder' = [holder EXCEPT ![a] = NoSlot]
  /\ UNCHANGED <<incidents, writers, slots, records, channel, notices>>

Stall(a) ==
  /\ LosesLock(a) /\ stalls[a] < MaxStalls
  /\ jobs' = [jobs EXCEPT ![a] = "waiting"]
  /\ stalls' = [stalls EXCEPT ![a] = @ + 1]

StallFails(a) ==
  /\ LosesLock(a) /\ stalls[a] >= MaxStalls
  /\ jobs' = [jobs EXCEPT ![a] = "none"]
  /\ stalls' = [stalls EXCEPT ![a] = 0]

(* removeOnComplete: 500 later jobs completed.                             *)
EvictCompleted(a) ==
  /\ jobs[a] = "completed"
  /\ spent.evictions < MaxEvictions /\ Spend("evictions")
  /\ jobs' = [jobs EXCEPT ![a] = "none"]
  /\ stalls' = [stalls EXCEPT ![a] = 0]
  /\ UNCHANGED <<incidents, writers, holder, slots, records, channel, notices>>

(* DELETE and PUT /v1/alert-channel: the records of a deleted channel go   *)
(* with it; the next channel is another row.                               *)
ReplaceChannel ==
  /\ channel.id < MaxChannels
  /\ channel' = [channel EXCEPT !.id = @ + 1]
  /\ records' = [a \in Alert |-> "none"]
  /\ UNCHANGED <<incidents, writers, queue, slots, notices, spent>>

(* PUT /v1/alert-channel on the existing row.                              *)
PutChannel ==
  /\ spent.patches < MaxPatches /\ Spend("patches")
  /\ \E on \in BOOLEAN, wanted \in (SUBSET Event) \ {{}} :
       channel' = [channel EXCEPT !.active = on, !.events = wanted]
  /\ UNCHANGED <<incidents, writers, queue, slots, records, notices>>

-----------------------------------------------------------------------------
WriterStep(w) == \/ OpenIncident(w) \/ RefreshIncident(w)
                 \/ RecoverIncidents(w) \/ Announce(w)

AlertStep(s) ==
  \/ \E a \in Alert : TakeAlert(s, a) \/ SkipAlert(s, a)
  \/ InsertRecord(s) \/ InsertConflicts(s) \/ InsertFails(s)
  \/ Notify(s) \/ NotifyFails(s) \/ UpdateRecord(s)

Report(w) ==
  \/ \E t \in Targets \cup {Validation}, kind \in {"delivery", "observed", "rejected"} :
       ReadFailure(w, kind, t)
  \/ \E t \in Targets : ReadSuccess(w, t)

Next ==
  \/ \E w \in Writers : Report(w) \/ WriterStep(w) \/ WriterDies(w)
  \/ \E s \in Slots : AlertStep(s) \/ AlertThrows(s)
  \/ \E a \in Alert : Stall(a) \/ StallFails(a) \/ EvictCompleted(a)
  \/ AlertWorkerCrash \/ ReplaceChannel \/ PutChannel

(* Started reports and alerts go on and orphaned jobs are found; nothing   *)
(* obliges outcomes, faults, crashes or the operator to happen.            *)
Fairness ==
  /\ \A w \in Writers : WF_vars(WriterStep(w))
  /\ \A s \in Slots : WF_vars(AlertStep(s))
  /\ \A a \in Alert : WF_vars(Orphaned(a) /\ (Stall(a) \/ StallFails(a)))

Spec == Init /\ [][Next]_vars
FairSpec == Spec /\ Fairness

-----------------------------------------------------------------------------
(* Properties.                                                             *)

IncidentsOK ==
  incidents \in [Id -> [status : {"none", "open", "recovered"},
                       about : Targets \cup {Validation},
                       by : Targets \cup {Validation}]]
WritersOK ==
  writers \in [Writers -> [pc : {"idle", "write"} \cup Event,
                          kind : {"delivery", "observed", "rejected", "succeeded"},
                          target : Targets \cup {Validation}, saw : SUBSET Id]]
QueueOK ==
  /\ jobs \in [Alert -> {"none", "waiting", "active", "completed"}]
  /\ stalls \in [Alert -> 0 .. MaxStalls]
  /\ holder \in [Alert -> Slots \cup {NoSlot}]
SlotsOK ==
  slots \in [Slots -> [pc : {"idle", "insert", "demo", "send", "update"},
                      alert : Alert, channel : Channel, result : {"sent", "failed"}]]
RecordsOK ==
  /\ records \in [Alert -> {"none", "pending", "sent", "failed"}]
  /\ channel \in [id : Channel, active : BOOLEAN, events : SUBSET Event, demo : BOOLEAN]
  /\ notices \in [Alert -> [Channel -> Nat]]

TypeOK == IncidentsOK /\ WritersOK /\ QueueOK /\ SlotsOK /\ RecordsOK

(* No recovery is announced, queued, taken or sent before it happened.     *)
Recovered(i) == incidents[i].status = "recovered"
Recoveries ==
  /\ \A w \in Writers : \A i \in writers[w].saw : Exists(i)
  /\ \A w \in Writers : writers[w].pc = "recovered"
                        => \A i \in writers[w].saw : Recovered(i)
  /\ \A i \in Id : jobs[<<i, "recovered">>] # "none" => Recovered(i)
  /\ \A s \in Slots, i \in Id :
       slots[s].pc # "idle" /\ slots[s].alert = <<i, "recovered">> => Recovered(i)
  /\ \A i \in Id, c \in Channel : notices[<<i, "recovered">>][c] > 0 => Recovered(i)

(* One run at most is between the record of an alert for a channel and its *)
(* notification, and nothing was sent before.                              *)
Sending(s, a, c) ==
  slots[s].pc = "send" /\ slots[s].alert = a /\ slots[s].channel = c
Notifications ==
  /\ \A a \in Alert, c \in Channel : notices[a][c] <= 1
  /\ \A a \in Alert, c \in Channel, s \in Slots :
       Sending(s, a, c) => /\ notices[a][c] = 0
                           /\ \A u \in Slots : Sending(u, a, c) => u = s
  /\ \A a \in Alert : records[a] = "none" =>
       /\ notices[a][channel.id] = 0
       /\ \A s \in Slots : ~Sending(s, a, channel.id)
  /\ \A a \in Alert, c \in Channel : c > channel.id => notices[a][c] = 0
  /\ \A s \in Slots : slots[s].channel <= channel.id

AlertInv == TypeOK /\ Recoveries /\ Notifications

(* A channel gets each alert at most once, however often its job is added, *)
(* stalls while it runs, fails, is forgotten or is rerun after a crash.    *)
NotifiedOnce == \A a \in Alert, c \in Channel : notices[a][c] <= 1

(* Nobody is told of a recovery before the incident is recovered.          *)
RecoveryIsReal ==
  \A i \in Id, c \in Channel :
    notices[<<i, "recovered">>][c] > 0 => Recovered(i)

(* Whoever was notified can be found in the alert audit.                   *)
NoticeIsAudited ==
  \A a \in Alert : notices[a][channel.id] > 0 => records[a] # "none"

(* An incident that is opened reaches the audit of a channel that wants to *)
(* know, though another writer refreshes or recovers it meanwhile and the  *)
(* alert worker crashes on it as often as BullMQ runs a stalled job again. *)
OpeningIsAudited ==
  \A i \in Id : Exists(i) /\ Wanted("opened") ~> records[<<i, "opened">>] # "none"

-----------------------------------------------------------------------------
(* What the documentation says and the code does not keep.                 *)

(* docs/delivery-policies.md: with fan-out a partial failure stays visible, *)
(* so the success of one target does not close the incident of another.    *)
PartialFailureVisible ==
  \A i \in Id : incidents[i].status = "recovered" /\ incidents[i].about \in Targets
                => incidents[i].by = incidents[i].about
=============================================================================
