------------------------------- MODULE Outbound -------------------------------
(***************************************************************************)
(* The network policy every request of HookTrials to the outside goes      *)
(* through: a target is checked when it is saved and again at each         *)
(* request, which resolves the name, checks every address of the answer    *)
(* and connects to the first.  Names may resolve differently at any time.  *)
(***************************************************************************)
EXTENDS Naturals, Sequences, SequencesExt

CONSTANTS
  Names,              \* host names of targets
  Addresses, Family,  \* addresses, and which IP version each is of
  Special,            \* those that are not publicly routable
  Ranges, Members,    \* what an allowlist may name, and the addresses in it
  Answers,            \* what a name may resolve to
  Policies,           \* settings of a target: [private, allowed]
  Calls,              \* requests under way at once
  MaxBody,            \* pieces of a response that are within the byte limit
  MaxCalls, MaxMovesOfNames    \* bounds

ASSUME OutboundAssumption ==
  /\ Family \in [Addresses -> {4, 6}] /\ Special \subseteq Addresses
  /\ Members \in [Ranges -> SUBSET Addresses] /\ Answers \subseteq Seq(Addresses)
  /\ Policies \subseteq [private : BOOLEAN, allowed : SUBSET Ranges]
  /\ MaxBody \in Nat /\ MaxCalls \in Nat /\ MaxMovesOfNames \in Nat

VARIABLES
  deployment,   \* self-hosted, or the cloud service
  resolves,     \* of each name, the answer it has now
  policyOf,     \* of each name, the policy of the target with it, once saved
  calls,        \* requests under way
  reached,      \* connections that were made: the request, the address, the policy
  outboundBudget

outboundVars == <<deployment, resolves, policyOf, calls, reached, outboundBudget>>

NoPolicyYet == [private |-> FALSE, allowed |-> {}, saved |-> FALSE]
NoCall == [stage |-> "none"]

OutboundInit ==
  /\ deployment \in {"selfhost", "cloud"}
  /\ resolves \in [Names -> Answers]
  /\ policyOf = [n \in Names |-> NoPolicyYet]
  /\ calls = [c \in Calls |-> NoCall] /\ reached = {}
  /\ outboundBudget = [calls |-> 0, names |-> 0]

OutboundCosts(field, bound) ==
  outboundBudget[field] < bound /\ outboundBudget' = [outboundBudget EXCEPT ![field] = @ + 1]

-----------------------------------------------------------------------------
(* Which addresses may be reached.  A range is an IPv4 network or a single *)
(* IPv6 address: other entries match nothing.                              *)

isBlockedAddress(a) == a \in Special
explicitlyAllowed(a, policy) ==
  /\ policy.private
  /\ \E range \in policy.allowed :
       a \in Members[range] /\ (Family[a] = 6 => Members[range] = {a})
Permitted(a, policy) == ~isBlockedAddress(a) \/ explicitlyAllowed(a, policy)

(* The cloud service refuses a policy that opens private networks when it  *)
(* is saved, and ignores one at a request.                                 *)
NetworkOptions(policy) == [policy EXCEPT !.private = @ /\ deployment = "selfhost"]

ValidateTarget(answer, policy) ==
  IF answer = <<>> THEN "dns"
  ELSE IF \A a \in ToSet(answer) : Permitted(a, policy) THEN "valid" ELSE "blocked"

SaveTarget(n, policy) ==
  /\ policy.private => policy.allowed # {} /\ deployment = "selfhost"
  /\ ValidateTarget(resolves[n], policy) = "valid"
  /\ OutboundCosts("names", MaxMovesOfNames)
  /\ policyOf' = [policyOf EXCEPT ![n] = [private |-> policy.private, allowed |-> policy.allowed,
                                          saved |-> TRUE]]
  /\ UNCHANGED <<deployment, resolves, calls, reached>>

Resolves(n, answer) ==
  /\ answer # resolves[n] /\ OutboundCosts("names", MaxMovesOfNames)
  /\ resolves' = [resolves EXCEPT ![n] = answer]
  /\ UNCHANGED <<deployment, policyOf, calls, reached>>

-----------------------------------------------------------------------------
(* A request.  The caller has read the target before; the name is resolved *)
(* and checked, then the connection is made to what was checked.           *)

BeginCall(c, n, kind) ==
  /\ policyOf[n].saved /\ calls[c] = NoCall /\ OutboundCosts("calls", MaxCalls)
  /\ calls' = [calls EXCEPT ![c] =
       [stage |-> "read", name |-> n, kind |-> kind, policy |-> NetworkOptions(policyOf[n])]]
  /\ UNCHANGED <<deployment, resolves, policyOf, reached>>

Ended(c, outcome) == calls' = [calls EXCEPT ![c] = [stage |-> "ended", outcome |-> outcome]]

(* A request connects to the first address, a ping prefers IPv4.           *)
Chosen(kind, answer) ==
  LET four == {i \in DOMAIN answer : Family[answer[i]] = 4}
  IN  IF kind = "icmp" /\ four # {} THEN answer[Min(four)] ELSE answer[1]

CheckTarget(c) ==
  LET call == calls[c]
      answer == resolves[call.name]
      verdict == ValidateTarget(answer, call.policy)
  IN  /\ call.stage = "read"
      /\ IF verdict = "valid"
         THEN calls' = [calls EXCEPT ![c] =
                [stage |-> "checked", name |-> call.name, kind |-> call.kind,
                 policy |-> call.policy, address |-> Chosen(call.kind, answer)]]
         ELSE Ended(c, verdict)
      /\ UNCHANGED <<deployment, resolves, policyOf, reached, outboundBudget>>

ResolvedAnew(call) == IF resolves[call.name] = <<>> THEN call.address ELSE resolves[call.name][1]
Pinned(call) == call.address
Connect(c) ==
  LET call == calls[c]
  IN  /\ call.stage = "checked"
      /\ reached' = reached \cup {[address |-> Pinned(call), policy |-> call.policy]}
      /\ calls' = [calls EXCEPT ![c] =
           [stage |-> "connected", kind |-> call.kind, received |-> 0]]
      /\ UNCHANGED <<deployment, resolves, policyOf, outboundBudget>>
ConnectFails(c, why) ==
  /\ calls[c].stage = "checked" /\ Ended(c, why)
  /\ UNCHANGED <<deployment, resolves, policyOf, reached, outboundBudget>>

(* The response: a redirect is not followed, a piece beyond the limit ends *)
(* the request, silence for the time limit too.                            *)
Answers3xx(c) ==
  /\ calls[c].stage = "connected" /\ calls[c].kind = "http" /\ calls[c].received = 0
  /\ Ended(c, "redirect")
  /\ UNCHANGED <<deployment, resolves, policyOf, reached, outboundBudget>>
Receives(c) ==
  /\ calls[c].stage = "connected" /\ calls[c].kind = "http"
  /\ IF calls[c].received = MaxBody THEN Ended(c, "response_too_large")
     ELSE calls' = [calls EXCEPT ![c].received = @ + 1]
  /\ UNCHANGED <<deployment, resolves, policyOf, reached, outboundBudget>>
Completes(c) ==
  /\ calls[c].stage = "connected" /\ Ended(c, "answered")
  /\ UNCHANGED <<deployment, resolves, policyOf, reached, outboundBudget>>
BreaksOff(c, why) ==
  /\ calls[c].stage = "connected" /\ Ended(c, why)
  /\ UNCHANGED <<deployment, resolves, policyOf, reached, outboundBudget>>
Return(c) ==
  /\ calls[c].stage = "ended" /\ calls' = [calls EXCEPT ![c] = NoCall]
  /\ UNCHANGED <<deployment, resolves, policyOf, reached, outboundBudget>>

OutboundNext ==
  \/ \E n \in Names :
       \/ \E policy \in Policies : SaveTarget(n, policy)
       \/ \E answer \in Answers : Resolves(n, answer)
       \/ \E c \in Calls, kind \in {"http", "icmp"} : BeginCall(c, n, kind)
  \/ \E c \in Calls :
       \/ CheckTarget(c) \/ Connect(c) \/ Answers3xx(c) \/ Receives(c) \/ Completes(c) \/ Return(c)
       \/ \E why \in {"connect", "tls", "timeout"} : ConnectFails(c, why) \/ BreaksOff(c, why)

OutboundSpec == OutboundInit /\ [][OutboundNext]_outboundVars

-----------------------------------------------------------------------------
(* Properties.                                                             *)

(* However a name resolves in between, a request connects only to a public *)
(* address or, self-hosted, to one that its target's policy allows.        *)
ReachesPermitted ==
  \A r \in reached :
    \/ r.address \notin Special
    \/ /\ deployment = "selfhost"
       /\ r.address \in UNION {Members[range] : range \in r.policy.allowed}

(* A private address in a range that the policy of a self-hosted target    *)
(* names is not refused: does not hold of an IPv6 network.                 *)
AllowedIsReachable ==
  [][\A c \in Calls :
       (CheckTarget(c) /\ calls[c].policy.private
         /\ ToSet(resolves[calls[c].name]) \subseteq
              UNION {Members[range] : range \in calls[c].policy.allowed}
         /\ resolves[calls[c].name] # <<>>)
       => calls'[c].stage = "checked"]_outboundVars
=============================================================================
