------------------------------- MODULE MCPages -------------------------------
(* What people see and send: parts that share no state, checked side by    *)
(* side.  In each behaviour one of them moves, the others stay in one      *)
(* initial state.                                                          *)
EXTENDS Automation, Console, Health, History, Import, IncidentCenter, MonitorPage, Outbound,
        Reliability, RouteSettings, Sharing, TLC

VARIABLE part

(* One document with a POST operation, a path with a parameter and a       *)
(* method that is not monitored, one with another server, one that cannot  *)
(* be read.                                                                *)
CONSTANTS petstore, orders, broken
MCOperation(id, method, concrete) ==
  [id |-> id, method |-> method, inline |-> TRUE, concrete |-> concrete, codes |-> {200, 204}]
MCServer == (petstore :> "a") @@ (orders :> "b") @@ (broken :> NoAddress)
MCOperations ==
  (petstore :> <<MCOperation("get pets", "get", TRUE), MCOperation("post pets", "post", TRUE),
                 MCOperation("put pets", "put", TRUE)>>)
  @@ (orders :> <<MCOperation("post orders", "post", TRUE), MCOperation("get order", "get", FALSE)>>)
  @@ (broken :> <<>>)

CONSTANTS m1
MCFirst(monitors) == IF m1 \in monitors THEN m1 ELSE CHOOSE m \in monitors : TRUE

(* Routes are created in Trial, live in production and with a policy.      *)
CONSTANTS u, v
MCCreation(mode, destination) ==
  [mode |-> mode, environment |-> "test", destination |-> destination, timeout |-> 20,
   provider |-> "none", secret |-> FALSE, confirm |-> FALSE]
MCTarget(host) == [host |-> host, timeout |-> 10]
MCFailover == [strategy |-> "failover", targets |-> <<MCTarget(u), MCTarget(v)>>]
MCCreations ==
  {MCCreation("trial", u),
   [MCCreation("observe", u) EXCEPT !.environment = "production", !.confirm = TRUE],
   [policy |-> MCFailover] @@ MCCreation("protect", NoHost)}
MCPartialChanges ==
  {[environment |-> "production"], [mode |-> "observe"], [destination |-> NoHost],
   [provider |-> "github", secret |-> TRUE], [policy |-> NoPolicy]}

(* A public address, a private one of each IP version.                     *)
CONSTANTS pub, lan, lan6
MCFamily == (pub :> 4) @@ (lan :> 4) @@ (lan6 :> 6)
MCMembers == ("lan" :> {lan}) @@ ("net6" :> {lan6, pub}) @@ ("host6" :> {lan6})
MCAnswers == {<<>>, <<pub>>, <<lan>>, <<lan6, pub>>, <<pub, lan>>}
MCPolicy(private, allowed) == [private |-> private, allowed |-> allowed]
MCPolicies == {MCPolicy(FALSE, {}), MCPolicy(TRUE, {"lan"}), MCPolicy(TRUE, {"host6"})}

(* Routes whose health is shown, and what providers send to them.          *)
MCAimed == <<u, v>>
MCRoute(mode, provider) ==
  [active |-> TRUE, mode |-> mode, provider |-> provider, secret |-> provider # "none",
   contract |-> provider # "none", destination |-> mode # "trial"]
MCRoutes == {MCRoute("trial", "none"), MCRoute("observe", "stripe"), MCRoute("protect", "github")}
MCRouteUpdates == {[provider |-> "none"], [active |-> FALSE], [mode |-> "protect"]}
MCRequest(signed, conforms) == [signed |-> signed, conforms |-> conforms]
MCReceived ==
  {MCRequest("good", TRUE), MCRequest("old", FALSE), MCRequest("absent", TRUE),
   MCRequest("forged", TRUE)}

(* Trial files with and without an event; the routes the tools use.        *)
MCConfigs == {[event |-> "", expect |-> <<500, 200>>], [event |-> "e", expect |-> <<500, 500, 200>>]}
MCScenario == <<500, 500, 200>>
MCScopes == [k \in ApiKeys |-> IF k = "k1" THEN {"write"} ELSE {"read"}]
MCLine(mode, signature) ==
  [active |-> TRUE, mode |-> mode, token |-> 0, starter |-> "github", signature |-> signature,
   secret |-> "s1", demands |-> signature # "none", exact |-> FALSE]
MCLines == {MCLine("trial", "none"), MCLine("observe", "github")}
MCLineUpdates == {[active |-> FALSE], [mode |-> "protect", secret |-> "s2", exact |-> TRUE]}

forms == <<consoleVars, importVars, monitorPageVars, routeSettingsVars>>
desks == <<healthVars, historyVars, incidentCenterVars, reliabilityVars>>
senders == <<automationVars, outboundVars, sharingVars>>
MCvars == <<forms, desks, senders, part>>

Looking ==
  ConsoleInit /\ (part \notin {"overview", "form"} => selected = CHOOSE r \in Routes : TRUE)
Triaging ==
  IncidentCenterInit /\ (part \notin {"dead letters", "incidents"} => viewer = Owner)
Watching ==
  MonitorPageInit /\ (part # "monitor page" => alive = Watched /\ lists[CHOOSE l \in ListLoads : TRUE] # NoList)
Measuring ==
  ReliabilityInit /\ (part # "reliability" =>
    /\ recorded[0].healthy = Min(Earlier)
    /\ objective = [target |-> Min(Targets), window |-> Min(Windows)])
Scoring == HealthInit /\ (part # "health" => webhook = MCRoute("trial", "none"))
Sending ==
  OutboundInit /\ (part # "network" =>
    deployment = "selfhost" /\ \A n \in Names : resolves[n] = <<>>)
Running == AutomationInit /\ (line.mode = "trial" <=> part # "automation")

MCInit ==
  /\ part \in {"overview", "form", "import", "monitor page", "settings", "health",
               "audit list", "evidence list", "dead letters", "incidents", "reliability",
               "trials", "automation", "network", "evidence", "status page"}
  /\ Looking /\ ImportInit /\ Watching /\ RouteSettingsInit
  /\ Scoring /\ HistoryInit /\ Triaging /\ Measuring /\ Running /\ Sending /\ SharingInit

FormsNext ==
  \/ /\ \/ part = "overview" /\ OverviewNext
        \/ part = "form" /\ FormNext
     /\ UNCHANGED <<importVars, monitorPageVars, routeSettingsVars>>
  \/ part = "import" /\ ImportNext
     /\ UNCHANGED <<consoleVars, monitorPageVars, routeSettingsVars>>
  \/ part = "monitor page" /\ MonitorPageNext
     /\ UNCHANGED <<consoleVars, importVars, routeSettingsVars>>
  \/ part = "settings" /\ RouteSettingsNext
     /\ UNCHANGED <<consoleVars, importVars, monitorPageVars>>
DesksNext ==
  \/ part = "health" /\ HealthNext
     /\ UNCHANGED <<historyVars, incidentCenterVars, reliabilityVars>>
  \/ /\ \/ part = "audit list" /\ AuditNext
        \/ part = "evidence list" /\ EvidenceListNext
     /\ UNCHANGED <<healthVars, incidentCenterVars, reliabilityVars>>
  \/ /\ \/ part = "dead letters" /\ RecoveryNext
        \/ part = "incidents" /\ TriageNext
     /\ UNCHANGED <<healthVars, historyVars, reliabilityVars>>
  \/ part = "reliability" /\ ReliabilityNext
     /\ UNCHANGED <<healthVars, historyVars, incidentCenterVars>>
SendersNext ==
  \/ /\ \/ part = "trials" /\ TrialNext
        \/ part = "automation" /\ SyntheticNext
     /\ UNCHANGED <<outboundVars, sharingVars>>
  \/ part = "network" /\ OutboundNext
     /\ UNCHANGED <<automationVars, sharingVars>>
  \/ /\ \/ part = "evidence" /\ EvidenceNext
        \/ part = "status page" /\ PageNext
     /\ UNCHANGED <<automationVars, outboundVars>>

MCNext ==
  /\ \/ FormsNext /\ UNCHANGED <<desks, senders>>
     \/ DesksNext /\ UNCHANGED <<forms, senders>>
     \/ SendersNext /\ UNCHANGED <<forms, desks>>
  /\ UNCHANGED part

MCSpec == MCInit /\ [][MCNext]_MCvars

Interchangeable == Permutations(Loads) \cup Permutations(ListLoads)
=============================================================================
