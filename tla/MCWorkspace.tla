----------------------------- MODULE MCWorkspace -----------------------------
(* Two parts that share no state, checked side by side: in each behaviour   *)
(* one of them moves and the other stays in one initial state.              *)
EXTENDS Accounts, Catalogue, TLC

VARIABLE part

CONSTANTS ua, ub, mailA, mailB, mailC
MCHome == (ua :> mailA) @@ (ub :> mailB)

MCvars == <<accountVars, catalogueVars, part>>

StillAccounts == AccountInit /\ Registered = {}
StillCatalogue == CatalogueInit /\ db.tagged = {}

(* Up to the names of the two users: who is there first is ua, who has      *)
(* joined a workspace of another is ub.                                     *)
NamedAccounts == AccountInit /\ (ub \in Registered => ua \in Registered) /\ role[ub][ua] = "none"

MCInit ==
  \/ part = "accounts" /\ NamedAccounts /\ StillCatalogue
  \/ part = "catalogue" /\ StillAccounts /\ CatalogueInit

MCNext ==
  \/ part = "accounts" /\ AccountNext /\ UNCHANGED <<catalogueVars, part>>
  \/ part = "catalogue" /\ CatalogueNext /\ UNCHANGED <<accountVars, part>>

MCSpec == MCInit /\ [][MCNext]_MCvars

Interchangeable == Permutations(Requests \cup Calls)
=============================================================================
