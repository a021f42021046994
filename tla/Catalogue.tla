------------------------------ MODULE Catalogue ------------------------------
(***************************************************************************)
(* The resources of one workspace and Demo Lab: scenarios, endpoints that  *)
(* use them, monitors, status pages that show them, the alert channel, and *)
(* the demo runs that create and remove all of these under a lock.  Each   *)
(* handler of the API reads in one statement and writes in a later one.    *)
(*                                                                         *)
(* A run stands for what it creates: run d has the scenario d, the trial   *)
(* endpoint d, the monitor d and the status page d.  Resources carry their *)
(* run in their metadata; the trial's also stores the ids of the scenario, *)
(* the page and the alert channel.                                         *)
(***************************************************************************)
EXTENDS Integers, FiniteSets

CONSTANTS
  Owner, Members,      \* who calls: the workspace's owner and its members
  Runs,                \* demo runs
  Brought,             \* those a member made before joining
  OwnScenarios, OwnEndpoints, OwnMonitors, OwnPages,   \* what users create
  Limit,               \* ENDPOINTS_LIMIT, MONITORS_LIMIT, the ten pages
  Calls,               \* requests the API serves at once
  MaxCalls,            \* bounds: requests,
  MaxChannels,         \*   alert channels,
  MaxFaults            \*   locks that run out and handlers that die

VARIABLES
  db,      \* the tables: see Tables
  lock,    \* per user: the call that holds the demo lock
  call,    \* the handlers
  used,    \* how much of each bound is used
  byHand,  \* history: runs whose trial was deleted like any endpoint, or
           \* whose monitor was updated
  ranOut   \* history: whether a lock ran out

catalogueVars == <<db, lock, call, used, byHand, ranOut>>

People == Members \cup {Owner}
Nothing == "nothing"
Free == "free"
Dead == "dead"

ASSUME CatalogueAssumption ==
  /\ Owner \notin Members /\ Brought \subseteq Runs /\ Limit \in Nat
  /\ IsFiniteSet(Calls) /\ Calls # {}
  /\ MaxCalls \in Nat /\ MaxChannels \in Nat /\ MaxFaults \in Nat
  /\ Nothing \notin Runs \cup OwnScenarios /\ Free \notin Calls /\ Dead \notin Calls

Scenarios == OwnScenarios \cup Runs
Endpoints == OwnEndpoints \cup Runs
Monitors == OwnMonitors \cup Runs
Pages == OwnPages \cup Runs

(* Rows are never there, here or gone.  uses is the scenario of an         *)
(* endpoint, shows the monitors of a page, tagged the runs whose monitor   *)
(* still has its metadata, stored the channel id in the trial's metadata;  *)
(* channel id 0 is none.                                                   *)
Status == {"never", "here", "gone"}
Channel == [id : 0 .. MaxChannels, by : {"user", "demo"}, active : BOOLEAN]
Tables == [scenario : [Scenarios -> Status], endpoint : [Endpoints -> Status],
           monitor : [Monitors -> Status], page : [Pages -> Status],
           uses : [Endpoints -> Scenarios \cup {Nothing}],
           shows : [Pages -> SUBSET Monitors], tagged : SUBSET Runs,
           channel : Channel, stored : [Runs -> 0 .. MaxChannels]]

Here(table) == {x \in DOMAIN table : table[x] = "here"}
New(table) == {x \in DOMAIN table : table[x] = "never"} \ Runs
Mark(table, items, status) == [x \in DOMAIN table |-> IF x \in items THEN status ELSE table[x]]
Made(all, items) == Mark([x \in all |-> "never"], items, "here")

NoChannel == [id |-> 0, by |-> "demo", active |-> FALSE]
CallFor(op, by, item, with) == [op |-> op, by |-> by, item |-> item, with |-> with, also |-> {}]
NoCall == CallFor("none", Owner, Nothing, {})

CatalogueInit ==
  /\ \E brought \in SUBSET Brought :
       db = [scenario |-> Made(Scenarios, brought), endpoint |-> Made(Endpoints, brought),
             monitor |-> Made(Monitors, brought), page |-> Made(Pages, brought),
             uses |-> [e \in Endpoints |-> IF e \in brought THEN e ELSE Nothing],
             shows |-> [p \in Pages |-> IF p \in brought THEN {p} ELSE {}],
             tagged |-> brought, channel |-> NoChannel, stored |-> [d \in Runs |-> 0]]
  /\ lock = [u \in People |-> Free]
  /\ call = [c \in Calls |-> NoCall]
  /\ used = [calls |-> 0, channels |-> 0, faults |-> 0]
  /\ byHand = {} /\ ranOut = FALSE

-----------------------------------------------------------------------------
(* Handlers that read first begin with Ask and go on with a step that      *)
(* writes and answers; the others are one step.                            *)

Request == used.calls < MaxCalls /\ used' = [used EXCEPT !.calls = @ + 1]

Ask(c, op, item, with) ==
  /\ call[c].op = "none" /\ Request
  /\ call' = [call EXCEPT ![c] = CallFor(op, Owner, item, with)]
  /\ UNCHANGED <<db, lock, byHand, ranOut>>

Answer(c) == call' = [call EXCEPT ![c] = NoCall]
Write(c, op, after) ==
  /\ call[c].op = op /\ db' = after /\ Answer(c)
  /\ UNCHANGED <<lock, used, ranOut>>
AtOnce(after) == Request /\ db' = after /\ UNCHANGED <<lock, call, ranOut>>

UnderLimitByOne(items) == Cardinality(items) <= Limit
UnderLimit(items) == Cardinality(items) < Limit

(* POST /v1/endpoints counts what is not demo and checks the scenario; the *)
(* insert throws when the scenario is gone.                                *)
AskEndpoint(c, s) ==
  /\ UnderLimit(Here(db.endpoint) \cap OwnEndpoints) /\ s \in Here(db.scenario)
  /\ Ask(c, "endpoint", s, {})
CreateEndpoint(c, e) ==
  /\ e \in New(db.endpoint) /\ UNCHANGED byHand
  /\ Write(c, "endpoint",
       IF call[c].item \notin Here(db.scenario) THEN db
       ELSE [db EXCEPT !.endpoint[e] = "here", !.uses[e] = call[c].item])

(* PATCH /v1/endpoints/:id, with another scenario.                         *)
AskPatch(c, e, s) ==
  /\ e \in Here(db.endpoint) /\ s \in Here(db.scenario)
  /\ Ask(c, "patch", e, {s})
PatchEndpoint(c) ==
  LET e == call[c].item IN
  /\ UNCHANGED byHand
  /\ Write(c, "patch",
       IF e \in Here(db.endpoint) /\ call[c].with \subseteq Here(db.scenario)
       THEN [db EXCEPT !.uses[e] = CHOOSE s \in call[c].with : TRUE] ELSE db)

(* DELETE /v1/endpoints/:id: the endpoint and its resource, a trial's with *)
(* all it stores.                                                          *)
DeleteEndpoint(e) ==
  /\ e \in Here(db.endpoint)
  /\ AtOnce([db EXCEPT !.endpoint[e] = "gone", !.uses[e] = Nothing])
  /\ byHand' = byHand \cup ({e} \cap Runs)

CreateScenario(s) ==
  /\ s \in New(db.scenario) /\ UNCHANGED byHand
  /\ AtOnce([db EXCEPT !.scenario[s] = "here"])

(* DELETE /v1/scenarios/:id looks whether it is used.  Deleting a scenario *)
(* leaves its endpoints without: on delete set null.                       *)
AskDelete(c, s) ==
  /\ s \in Here(db.scenario) /\ \A e \in Endpoints : db.uses[e] # s
  /\ Ask(c, "scenario", s, {})
SetNull(gone) == [e \in Endpoints |-> IF db.uses[e] \in gone THEN Nothing ELSE db.uses[e]]
DeleteScenario(c) ==
  /\ UNCHANGED byHand
  /\ Write(c, "scenario", [db EXCEPT !.scenario = Mark(@, {call[c].item}, "gone"),
                                     !.uses = SetNull({call[c].item})])

-----------------------------------------------------------------------------
(* Monitors, status pages and the alert channel.                           *)

AskMonitor(c) ==
  /\ UnderLimit(Here(db.monitor) \ db.tagged)
  /\ Ask(c, "monitor", Nothing, {})
CreateMonitor(c, m) ==
  /\ m \in New(db.monitor) /\ UNCHANGED byHand
  /\ Write(c, "monitor", [db EXCEPT !.monitor[m] = "here"])

(* PUT /v1/monitors/:id replaces the metadata of the resource.             *)
AskUpdate(c, m) == m \in Here(db.monitor) /\ Ask(c, "update", m, {})
UpdateMonitor(c) ==
  /\ Write(c, "update", [db EXCEPT !.tagged = @ \ {call[c].item}])
  /\ byHand' = byHand \cup ({call[c].item} \cap Runs)

DeleteMonitor(m) ==
  /\ m \in Here(db.monitor) /\ UNCHANGED byHand
  /\ AtOnce([db EXCEPT !.monitor[m] = "gone", !.tagged = @ \ {m},
                       !.shows = [p \in Pages |-> @[p] \ {m}]])

(* POST and PUT /v1/status-pages check the monitors, POST counts the       *)
(* pages; writing the links fails when a monitor is gone.                  *)
AskPage(c, p, ms) ==
  /\ ms # {} /\ ms \subseteq Here(db.monitor)
  /\ p \in Here(db.page) \/ (p \in New(db.page) /\ UnderLimit(Here(db.page)))
  /\ Ask(c, "page", p, ms)
WritePage(c) ==
  LET p == call[c].item IN
  /\ UNCHANGED byHand
  /\ Write(c, "page",
       IF call[c].with \subseteq Here(db.monitor) /\ db.page[p] # "gone"
       THEN [db EXCEPT !.page[p] = "here", !.shows[p] = call[c].with] ELSE db)
DeletePage(p) ==
  /\ p \in Here(db.page) /\ UNCHANGED byHand
  /\ AtOnce([db EXCEPT !.page[p] = "gone", !.shows[p] = {}])

(* PUT /v1/alert-channel: one row per owner, updated in place.             *)
NextChannel == used.channels + 1
CanAddChannel == used.channels < MaxChannels
AskChannel(c) == Ask(c, "channel", Nothing, {})
PutChannel(c, active) ==
  /\ call[c].op = "channel"
  /\ IF db.channel.id = 0
     THEN /\ CanAddChannel /\ used' = [used EXCEPT !.channels = @ + 1]
          /\ db' = [db EXCEPT !.channel = [id |-> NextChannel, by |-> "user", active |-> active]]
     ELSE /\ db' = [db EXCEPT !.channel.by = "user", !.channel.active = active]
          /\ UNCHANGED used
  /\ Answer(c)
  /\ UNCHANGED <<lock, byHand, ranOut>>
DeleteChannel ==
  /\ db.channel.id # 0 /\ UNCHANGED byHand
  /\ AtOnce([db EXCEPT !.channel = NoChannel])

-----------------------------------------------------------------------------
(* Demo Lab.                                                               *)

(* The lock of setup and cleanup is the owner's, reset's the caller's.     *)
LockOfCaller(op, u) == u
LockOf(op, u) == IF op = "reset" THEN u ELSE Owner

(* SET NX PX; a call that does not get the lock is answered 409.           *)
AskDemo(c, op, u) ==
  /\ call[c].op = "none" /\ Request
  /\ lock[LockOf(op, u)] = Free
  /\ lock' = [lock EXCEPT ![LockOf(op, u)] = c]
  /\ call' = [call EXCEPT ![c] = CallFor(op, u, Nothing, {})]
  /\ UNCHANGED <<db, byHand, ranOut>>

(* The script deletes the lock if it still holds this call's token.        *)
ReleaseOwners(c) == [u \in People |-> IF u = Owner /\ lock[u] = c THEN Free ELSE lock[u]]
Release(c) == [u \in People |-> IF lock[u] = c THEN Free ELSE lock[u]]
Finish(c) == lock' = Release(c) /\ Answer(c)

(* The runs a read finds, of every user of the workspace.                  *)
Found == {d \in Runs : d \in Here(db.endpoint) \/ d \in Here(db.monitor) \cap db.tagged}

(* Setup reads whether a run exists and whether a channel is active, ...   *)
SetupLooks(c) ==
  /\ call[c].op = "setup"
  /\ IF Found # {} THEN Finish(c)
     ELSE /\ call' = [call EXCEPT ![c].op = "create",
                        ![c].item = IF db.channel.active THEN Nothing ELSE "channel"]
          /\ UNCHANGED lock
  /\ UNCHANGED <<db, used, byHand, ranOut>>

(* ... then creates everything in a transaction, which throws when it adds *)
(* a channel and the owner has one, active or not.                         *)
SetupCreates(c, d) ==
  LET adds == call[c].item = "channel"
      id == IF adds THEN NextChannel ELSE 0
  IN  /\ call[c].op = "create" /\ d \in Runs \ Brought /\ db.endpoint[d] = "never"
      /\ IF adds /\ db.channel.id # 0 THEN UNCHANGED <<db, used>>
         ELSE /\ adds => CanAddChannel
              /\ db' = [db EXCEPT
                   !.scenario[d] = "here", !.endpoint[d] = "here", !.monitor[d] = "here",
                   !.page[d] = "here", !.uses[d] = d, !.shows[d] = {d},
                   !.tagged = @ \cup {d}, !.stored[d] = id,
                   !.channel = IF adds THEN [id |-> id, by |-> "demo", active |-> TRUE] ELSE @]
              /\ used' = [used EXCEPT !.channels = IF adds THEN @ + 1 ELSE @]
      /\ Finish(c)
      /\ UNCHANGED <<byHand, ranOut>>

(* Cleanup reads the resources of one run, reset those of all: the trials  *)
(* and the monitors that still have their metadata.                        *)
RemoveLooks(c) ==
  /\ \E ds \in IF call[c].op = "reset" THEN {Runs} ELSE {{d} : d \in Runs} :
       call' = [call EXCEPT ![c].op = "remove", ![c].with = ds \cap Here(db.endpoint),
                            ![c].also = ds \cap Here(db.monitor) \cap db.tagged]
  /\ call[c].op \in {"cleanup", "reset"}
  /\ UNCHANGED <<db, lock, used, byHand, ranOut>>

(* They delete those of the owner, and what the trials store.              *)
OfCaller(c, ds) == IF call[c].by = Owner THEN ds \ Brought ELSE {}
OfOwner(c, ds) == ds \ Brought
Remove(c) ==
  LET trials == call[c].with \ Brought
      mons == call[c].also \ Brought
      stored == OfOwner(c, call[c].with)
  IN  /\ call[c].op = "remove"
      /\ db' = [db EXCEPT
           !.endpoint = Mark(@, trials, "gone"), !.monitor = Mark(@, mons, "gone"),
           !.page = Mark(@, stored, "gone"), !.scenario = Mark(@, stored, "gone"),
           !.tagged = @ \ mons,
           !.uses = [e \in Endpoints |-> IF e \in trials THEN Nothing ELSE SetNull(stored)[e]],
           !.shows = [p \in Pages |-> IF p \in stored THEN {} ELSE @[p] \ mons],
           !.channel = IF @.id \in {db.stored[d] : d \in stored} THEN NoChannel ELSE @]
      /\ Finish(c)
      /\ UNCHANGED <<used, byHand, ranOut>>

(* Any handler may throw; the demo's release their lock.                   *)
Throws(c) ==
  /\ call[c].op # "none"
  /\ Finish(c)
  /\ UNCHANGED <<db, used, byHand, ranOut>>

(* The process dies, or the release does not reach Redis.                  *)
Fault == used.faults < MaxFaults /\ used' = [used EXCEPT !.faults = @ + 1]
CallDies(c) ==
  /\ call[c].op # "none" /\ Fault
  /\ Answer(c)
  /\ lock' = [u \in People |-> IF lock[u] = c THEN Dead ELSE lock[u]]
  /\ UNCHANGED <<db, byHand, ranOut>>

(* Five minutes: long after a process died, or under a slow one.           *)
LockRunsOut(u) ==
  /\ lock[u] # Free
  /\ IF lock[u] = Dead THEN UNCHANGED <<used, ranOut>> ELSE Fault /\ ranOut' = TRUE
  /\ lock' = [lock EXCEPT ![u] = Free]
  /\ UNCHANGED <<db, call, byHand>>

-----------------------------------------------------------------------------
Asks(c) ==
  \/ \E s \in Scenarios : AskEndpoint(c, s) \/ AskDelete(c, s)
                         \/ \E e \in Endpoints : AskPatch(c, e, s)
  \/ AskMonitor(c) \/ AskChannel(c)
  \/ \E m \in Monitors : AskUpdate(c, m)
  \/ \E p \in Pages, ms \in SUBSET Monitors : AskPage(c, p, ms)
  \/ \E u \in People, op \in {"setup", "cleanup", "reset"} : AskDemo(c, op, u)

Answers(c) ==
  \/ \E e \in Endpoints : CreateEndpoint(c, e)
  \/ \E m \in Monitors : CreateMonitor(c, m)
  \/ PatchEndpoint(c) \/ DeleteScenario(c) \/ UpdateMonitor(c) \/ WritePage(c)
  \/ \E active \in BOOLEAN : PutChannel(c, active)
  \/ SetupLooks(c) \/ \E d \in Runs : SetupCreates(c, d)
  \/ RemoveLooks(c) \/ Remove(c) \/ Throws(c)

OneStep ==
  \/ \E e \in Endpoints : DeleteEndpoint(e)
  \/ \E s \in Scenarios : CreateScenario(s)
  \/ \E m \in Monitors : DeleteMonitor(m)
  \/ \E p \in Pages : DeletePage(p)
  \/ DeleteChannel

CatalogueNext ==
  \/ \E c \in Calls : Asks(c) \/ Answers(c) \/ CallDies(c)
  \/ OneStep
  \/ \E u \in People : LockRunsOut(u)

CatalogueSpec == CatalogueInit /\ [][CatalogueNext]_catalogueVars

-----------------------------------------------------------------------------
(* Properties.                                                             *)

Operations == {"none", "endpoint", "patch", "scenario", "monitor", "update", "page",
               "channel", "setup", "create", "cleanup", "reset", "remove"}
DemoOperations == {"setup", "create", "cleanup", "reset", "remove"}

(* The tables, the locks and the calls.                                    *)
CatalogueTypeOK ==
  /\ db \in Tables
  /\ lock \in [People -> Calls \cup {Free, Dead}]
  /\ \A c \in Calls : call[c].op \in Operations /\ call[c].by \in People

(* A limit that is counted before the insert is exceeded by no more than   *)
(* the requests that counted at once.                                      *)
LimitsKept ==
  LET most == Limit + Cardinality(Calls) - 1
  IN  /\ Cardinality(Here(db.endpoint) \cap OwnEndpoints) <= most
      /\ Cardinality(Here(db.monitor) \cap OwnMonitors) <= most
      /\ Cardinality(Here(db.page) \cap OwnPages) <= most

(* The workspace has at most one demo run of its own, though setup looks   *)
(* and creates in two statements: its lock spans both, unless it ran out   *)
(* under a slow setup, or the run was taken apart by hand.                 *)
OneRun == ranOut \/ Cardinality((Found \ Brought) \ byHand) <= 1

(* A lock is held by a call that is still at work on the demo, or by one   *)
(* that died: what was answered leaves no lock behind.                     *)
LockHeldAtWork ==
  \A u \in People : lock[u] \in Calls => call[lock[u]].op \in DemoOperations

(* A run that was removed leaves nothing: its monitor, its scenario, its   *)
(* status page and its alert channel went with the trial, unless a user    *)
(* deleted the trial like any endpoint, with the ids it stored, or updated *)
(* the monitor, which took its tag.                                        *)
NothingLeft ==
  \A d \in Runs \ byHand : db.endpoint[d] = "gone" =>
    /\ db.monitor[d] = "gone" /\ db.scenario[d] = "gone" /\ db.page[d] = "gone"
    /\ db.stored[d] = 0 \/ db.channel.id # db.stored[d]

(* Demo Lab does not delete the alert channel a user configured.           *)
UserChannelKept ==
  [][\A c \in Calls : call[c].op = "remove" /\ call'[c].op = "none"
       /\ db.channel.id # 0 /\ db.channel.by = "user" => db'.channel = db.channel]_catalogueVars
=============================================================================
