--------------------------- MODULE RouteSettings ---------------------------
(***************************************************************************)
(* The settings of routes.  A change names some of them; the API reads the *)
(* route, checks its rules on what the route would become and writes what  *)
(* was named in a later statement.  The dashboard shows a form of one      *)
(* route, with fields for what is never sent back: the destination and the *)
(* signing secret.                                                         *)
(***************************************************************************)
EXTENDS Naturals, Sequences, Overrides

CONSTANTS
  Configured,         \* routes
  Hosts,              \* destinations
  Timeouts,           \* seconds before a destination has timed out
  Creations,          \* what a route may be created with
  PartialChanges,     \* changes that API clients send: functions on some settings
  Changes,            \* requests under way at once
  MaxMoves            \* bound: routes made and looked at, changes sent, fields filled

NoHost == "no host"
NoPolicy == [strategy |-> "none", targets |-> <<>>]
NoTarget == [host |-> NoHost, timeout |-> 0]
DefaultTimeout == 10

ASSUME RouteSettingsAssumption ==
  /\ NoHost \notin Hosts /\ DefaultTimeout \in Timeouts
  /\ Timeouts \subseteq Nat \ {0}
  /\ \A change \in PartialChanges : DOMAIN change # {}
  /\ \A input \in Creations : "policy" \in DOMAIN input => input.policy # NoPolicy
  /\ MaxMoves \in Nat

VARIABLES
  row, removed,   \* the routes that exist, as stored, and those that were deleted
  changes,     \* requests under way: what they ask for, what they read, their answer
  overlapped,  \* routes a change was written to that had changed since it read them
  routeList,       \* the routes as the dashboard knows them
  listing,     \* lists under way
  chosenRoute, \* the one whose form is shown
  routeForm, typed, \* the settings in the form; what was typed into its empty fields
  typedAt,     \* the route whose form that was
  moves

routeFormVars == <<routeList, listing, chosenRoute, routeForm, typed, typedAt>>
routeSettingsVars == <<row, removed, changes, overlapped, routeFormVars, moves>>

NoChange == [stage |-> "none"]
NothingListed == <<>>
NoRouteForm == [mode |-> "no form"]
Untyped == [destination |-> NoHost, fallback |-> NoHost, secret |-> FALSE, confirm |-> FALSE]
NoRoute == "no route"

RouteSettingsInit ==
  /\ row = <<>> /\ removed = {} /\ overlapped = {} /\ moves = 0
  /\ changes = [c \in Changes |-> NoChange]
  /\ routeList = <<>> /\ listing = NothingListed /\ chosenRoute = NoRoute
  /\ routeForm = NoRouteForm /\ typed = Untyped /\ typedAt = NoRoute

Move == moves < MaxMoves /\ moves' = moves + 1

-----------------------------------------------------------------------------
(* Policies.  A route without a stored one has the destination of its own  *)
(* settings, and that is where its deliveries go.                          *)

Legacy(settings) ==
  IF settings.destination = NoHost THEN NoPolicy
  ELSE [strategy |-> "single",
        targets |-> <<[host |-> settings.destination, timeout |-> settings.timeout]>>]
PolicyInForce(settings) ==
  IF settings.policy # NoPolicy THEN settings.policy ELSE Legacy(settings)
Primary(policy) == IF policy = NoPolicy THEN NoTarget ELSE policy.targets[1]
StrategyOf(policy) == IF policy = NoPolicy THEN "single" ELSE policy.strategy

Live(settings) == settings.mode # "trial"
Confirmable(settings) == settings.environment = "production" /\ Live(settings)
Given(input, setting) == setting \in DOMAIN input
GivenOr(input, setting, otherwise) ==
  IF Given(input, setting) THEN input[setting] ELSE otherwise

(* Creation: the request's own rules, then one transaction.                *)
CreationAllowed(input) ==
  /\ Live(input) => input.destination # NoHost \/ Given(input, "policy")
  /\ input.provider # "none" => input.secret
  /\ Given(input, "policy") /\ input.mode # "protect" => input.policy.strategy = "single"
  /\ Confirmable(input) => input.confirm
Created(input) ==
  LET prepared == GivenOr(input, "policy", Legacy(input))
      primary == Primary(prepared)
  IN  [active |-> TRUE, paused |-> FALSE, mode |-> input.mode, environment |-> input.environment,
       destination |-> IF input.destination # NoHost THEN input.destination ELSE primary.host,
       timeout |-> IF prepared = NoPolicy THEN input.timeout ELSE primary.timeout,
       policy |-> GivenOr(input, "policy", NoPolicy), strategy |-> StrategyOf(prepared),
       provider |-> input.provider, secret |-> input.secret, confirmed |-> Confirmable(input)]

-----------------------------------------------------------------------------
(* A change of a route, by what it says (input) and what was read.         *)

CurrentPolicy(current) == PolicyInForce(current)
Prepared(current, input) == GivenOr(input, "policy", CurrentPolicy(current))
DestinationAfter(current, input) ==
  LET primary == Primary(Prepared(current, input))
  IN  GivenOr(input, "destination",
              IF primary = NoTarget THEN current.destination ELSE primary.host)
SecretAfter(current, input) == GivenOr(input, "secret", current.secret)

RefusalOfGiven(current, input) ==
  Given(input, "mode") /\ Live(input) /\ DestinationAfter(current, input) = NoHost
Refusal(current, input) ==
  LET after == [mode |-> GivenOr(input, "mode", current.mode),
                environment |-> GivenOr(input, "environment", current.environment)]
  IN  \/ Live(after) /\ DestinationAfter(current, input) = NoHost
      \/ GivenOr(input, "provider", current.provider) # "none" /\ ~SecretAfter(current, input)
      \/ Confirmable(after) /\ ~current.confirmed /\ ~GivenOr(input, "confirm", FALSE)

(* Most settings are written as given.  The timeout is that of the first   *)
(* destination, when there is one, whether or not the change has a policy. *)
AsGiven == {"active", "paused", "mode", "environment", "provider", "secret"}
Written(stored, current, input) ==
  LET prepared == Prepared(current, input)
      primary == Primary(prepared)
      after == Over(input, current)
      kept(settings, value, old) == IF DOMAIN input \cap settings # {} THEN value ELSE old
  IN  [setting \in DOMAIN stored |->
         CASE setting \in AsGiven -> GivenOr(input, setting, stored[setting])
           [] setting = "destination" ->
                kept({"destination", "policy"},
                     DestinationAfter(current, input), stored.destination)
           [] setting = "timeout" ->
                kept({"timeout", "policy"},
                     IF primary = NoTarget THEN after.timeout ELSE primary.timeout, stored.timeout)
           [] setting = "policy" -> kept({"policy"}, prepared, stored.policy)
           [] setting = "strategy" -> kept({"policy"}, StrategyOf(prepared), stored.strategy)
           [] setting = "confirmed" ->
                stored.confirmed \/ (Confirmable(after) /\ GivenOr(input, "confirm", FALSE))]

(* A request and its first statement, which reads the route.               *)
BeginChange(c, r, input, by) ==
  /\ changes[c] = NoChange /\ r \in DOMAIN row /\ Move
  /\ changes' = [changes EXCEPT ![c] =
       [stage |-> "read", route |-> r, input |-> input, by |-> by, current |-> row[r]]]
  /\ UNCHANGED <<row, removed, overlapped, routeFormVars>>

PartialChange(c, r, input) == input \in PartialChanges /\ BeginChange(c, r, input, "client")

CommitChange(c) ==
  LET change == changes[c]
      r == change.route
  IN  /\ change.stage = "read" /\ r \in DOMAIN row /\ ~Refusal(change.current, change.input)
      /\ row' = [row EXCEPT ![r] = Written(@, change.current, change.input)]
      /\ overlapped' = IF row[r] = change.current THEN overlapped ELSE overlapped \cup {r}
      /\ changes' = [changes EXCEPT ![c] =
           [stage |-> "answered", route |-> r, by |-> change.by, answer |-> row'[r]]]
      /\ UNCHANGED <<removed, routeFormVars, moves>>
RefuseChange(c) ==
  LET change == changes[c]
  IN  /\ change.stage = "read" /\ Refusal(change.current, change.input)
      /\ changes' = [changes EXCEPT ![c] = NoChange]
      /\ UNCHANGED <<row, removed, overlapped, routeFormVars, moves>>
(* The route was deleted in between: the answer is a success all the same, *)
(* without the settings.                                                   *)
MissChange(c) ==
  /\ changes[c].stage = "read" /\ changes[c].route \notin DOMAIN row
  /\ changes' = [changes EXCEPT ![c] =
       [stage |-> "answered", route |-> @.route, by |-> @.by, answer |-> <<>>]]
  /\ UNCHANGED <<row, removed, overlapped, routeFormVars, moves>>

-----------------------------------------------------------------------------
(* The dashboard.  A form is filled anew whenever the route it shows is    *)
(* another object: another route, a new list, an answer.  What was typed   *)
(* into the fields that are always empty stays.                            *)

FormOf(settings) ==
  [setting \in {"mode", "environment", "timeout", "paused", "provider", "strategy"} |->
     settings[setting]]
Fill(routes, r) ==
  /\ routeList' = routes /\ chosenRoute' = r
  /\ routeForm' = IF r = NoRoute THEN NoRouteForm ELSE FormOf(routes[r])
RestTyped == typed' = [typed EXCEPT !.fallback = NoHost] /\ UNCHANGED typedAt

CreateRoute(r, input) ==
  /\ r \notin DOMAIN row \cup removed /\ CreationAllowed(input) /\ Move
  /\ row' = Over([q \in {r} |-> Created(input)], row)
  /\ Fill(Over([q \in {r} |-> Created(input)], routeList), r) /\ RestTyped
  /\ UNCHANGED <<removed, changes, overlapped, listing>>

DeleteRoute(r) ==
  LET rest == [q \in DOMAIN routeList \ {r} |-> routeList[q]]
  IN  /\ r \in DOMAIN row \cap DOMAIN routeList /\ Move
      /\ row' = [q \in DOMAIN row \ {r} |-> row[q]] /\ removed' = removed \cup {r}
      /\ IF chosenRoute = r
         THEN /\ \E q \in DOMAIN rest \cup {NoRoute} :
                   (q = NoRoute <=> DOMAIN rest = {}) /\ Fill(rest, q)
              /\ RestTyped
         ELSE routeList' = rest /\ UNCHANGED <<chosenRoute, routeForm, typed, typedAt>>
      /\ UNCHANGED <<changes, overlapped, listing>>

SelectRoute(r) ==
  /\ r \in DOMAIN routeList \ {chosenRoute} /\ Move
  /\ Fill(routeList, r) /\ RestTyped
  /\ UNCHANGED <<row, removed, changes, overlapped, listing>>

ReadRoutes ==
  /\ listing = NothingListed /\ row # <<>> /\ Move
  /\ listing' = row
  /\ UNCHANGED <<row, removed, changes, overlapped, routeList, chosenRoute, routeForm, typed, typedAt>>
ShowRoutes ==
  /\ listing # NothingListed /\ listing' = NothingListed
  /\ \E r \in DOMAIN listing :
       (chosenRoute \in DOMAIN listing => r = chosenRoute) /\ Fill(listing, r)
  /\ RestTyped
  /\ UNCHANGED <<row, removed, changes, overlapped, moves>>

(* Editing.  Another strategy than the single destination needs Protect.   *)
EditSetting(setting, value) ==
  /\ chosenRoute # NoRoute /\ routeForm[setting] # value /\ Move
  /\ routeForm' = IF setting = "strategy" /\ value # "single"
             THEN [routeForm EXCEPT !.strategy = value, !.mode = "protect"]
             ELSE [routeForm EXCEPT ![setting] = value]
  /\ IF setting = "strategy" /\ value = "single" THEN RestTyped ELSE UNCHANGED <<typed, typedAt>>
  /\ UNCHANGED <<row, removed, changes, overlapped, routeList, listing, chosenRoute>>
TypeInto(field, value) ==
  /\ chosenRoute # NoRoute /\ typed[field] # value /\ Move
  /\ field = "fallback" => routeForm.strategy # "single"
  /\ typed' = [typed EXCEPT ![field] = value] /\ typedAt' = chosenRoute
  /\ UNCHANGED <<row, removed, changes, overlapped, routeList, listing, chosenRoute, routeForm>>

Replacing == routeForm.strategy # routeList[chosenRoute].strategy \/ typed.fallback # NoHost
TypedPolicy ==
  LET target(host) == [host |-> host, timeout |-> DefaultTimeout]
  IN  [strategy |-> routeForm.strategy,
       targets |-> IF typed.fallback = NoHost THEN <<target(typed.destination)>>
                   ELSE <<target(typed.destination), target(typed.fallback)>>]
Submittable ==
  LET endpoint == routeList[chosenRoute]
  IN  /\ Live(routeForm) => endpoint.destination # NoHost \/ typed.destination # NoHost
      /\ Replacing =>
           /\ routeForm.mode = "protect" /\ typed.destination # NoHost
           /\ routeForm.strategy = "failover" => typed.fallback # NoHost
      /\ routeForm.provider # "none" => endpoint.secret \/ typed.secret
Submitted ==
  LET always == [mode |-> routeForm.mode, environment |-> routeForm.environment,
                 timeout |-> routeForm.timeout, paused |-> routeForm.mode = "protect" /\ routeForm.paused,
                 provider |-> routeForm.provider, confirm |-> typed.confirm]
      secret == IF routeForm.provider = "none" THEN [secret |-> FALSE]
                ELSE IF typed.secret THEN [secret |-> TRUE] ELSE <<>>
      destination == IF typed.destination # NoHost THEN [destination |-> typed.destination] ELSE <<>>
  IN  Over(always, Over(secret, Over(destination, IF Replacing THEN [policy |-> TypedPolicy] ELSE <<>>)))

(* Nothing is sent while a change of the form is under way.                *)
Saving == \E c \in Changes : changes[c] # NoChange /\ changes[c].by = "form"
SubmitSettings(c) ==
  /\ chosenRoute \in DOMAIN routeList /\ ~Saving /\ Submittable
  /\ BeginChange(c, chosenRoute, Submitted, "form")
ToggleRoute(c, r) ==
  /\ r \in DOMAIN routeList /\ BeginChange(c, r, [active |-> ~routeList[r].active], "button")

(* The answer replaces the route in the list; after a change of the form   *)
(* the fields are empty again, whatever they have been filled with since.  *)
ShowChange(c) ==
  LET change == changes[c]
      r == change.route
  IN  /\ change.stage = "answered"
      /\ IF change.by # "client" /\ r \in DOMAIN routeList
         THEN /\ routeList' = [routeList EXCEPT ![r] = Over(change.answer, @)]
              /\ routeForm' = IF r = chosenRoute THEN FormOf(routeList'[r]) ELSE routeForm
         ELSE UNCHANGED <<routeList, routeForm>>
      /\ IF change.by = "form" THEN typed' = Untyped /\ typedAt' = NoRoute
         ELSE IF change.by = "button" /\ r = chosenRoute THEN RestTyped
         ELSE UNCHANGED <<typed, typedAt>>
      /\ changes' = [changes EXCEPT ![c] = NoChange]
      /\ UNCHANGED <<row, removed, overlapped, listing, chosenRoute, moves>>

-----------------------------------------------------------------------------
FormChoices ==
  [mode |-> {"trial", "observe", "protect"}, environment |-> {"test", "production"},
   timeout |-> Timeouts, paused |-> BOOLEAN, provider |-> {"none", "github"},
   strategy |-> {"single", "fanout", "failover"}]
Blanks ==
  [destination |-> Hosts, fallback |-> Hosts, secret |-> {TRUE}, confirm |-> BOOLEAN]

RouteSettingsNext ==
  \/ \E r \in Configured :
       \/ \E input \in Creations : CreateRoute(r, input)
       \/ DeleteRoute(r) \/ SelectRoute(r)
  \/ \E c \in Changes :
       \/ \E r \in Configured :
            (\E input \in PartialChanges : PartialChange(c, r, input)) \/ ToggleRoute(c, r)
       \/ SubmitSettings(c) \/ CommitChange(c) \/ RefuseChange(c) \/ MissChange(c) \/ ShowChange(c)
  \/ ReadRoutes \/ ShowRoutes
  \/ \E setting \in DOMAIN FormChoices :
       \E value \in FormChoices[setting] : EditSetting(setting, value)
  \/ \E field \in DOMAIN Blanks : \E value \in Blanks[field] : TypeInto(field, value)

RouteSettingsSpec == RouteSettingsInit /\ [][RouteSettingsNext]_routeSettingsVars

-----------------------------------------------------------------------------
(* Properties.                                                             *)

Ready(settings) ==
  /\ Live(settings) => PolicyInForce(settings) # NoPolicy
  /\ settings.provider # "none" => settings.secret
  /\ Confirmable(settings) => settings.confirmed

(* A route that takes live traffic has somewhere to send it, its production *)
(* impact was confirmed, and a provider whose signatures are checked has a *)
(* secret, after any series of partial changes: unless one was written to  *)
(* a route that had changed since it was read.                             *)
LiveRouteReady == \A r \in DOMAIN row \ overlapped : Ready(row[r])

(* The rules hold of what is stored however changes overlap: does not      *)
(* hold, each is checked on the route as it was read.                      *)
AlwaysReady == \A r \in DOMAIN row : Ready(row[r])

(* The timeout a saved change gives is the timeout the route has: does not *)
(* hold of a route with a destination.                                     *)
SettingsSaved ==
  [][\A c \in Changes :
       CommitChange(c) /\ Given(changes[c].input, "timeout") =>
         row'[changes[c].route].timeout = changes[c].input.timeout]_routeSettingsVars

(* Deliveries go to the destination that was set last: does not hold of a  *)
(* route with a policy.                                                    *)
DestinationInForce ==
  \A r \in DOMAIN row : Primary(PolicyInForce(row[r])).host = row[r].destination

(* A change of a live production route is confirmed: does not hold after   *)
(* the first.                                                              *)
EveryChangeConfirmed ==
  [][\A c \in Changes : CommitChange(c) /\ Confirmable(row[changes[c].route]) =>
       GivenOr(changes[c].input, "confirm", FALSE)]_routeSettingsVars

(* What is saved to a route was typed into its own form: does not hold.    *)
TypedForShown ==
  [][\A c \in Changes : SubmitSettings(c) /\ typed # Untyped =>
       typedAt = chosenRoute]_routeSettingsVars
=============================================================================
