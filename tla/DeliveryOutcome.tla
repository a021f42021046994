--------------------------- MODULE DeliveryOutcome ---------------------------
(***************************************************************************)
(* What Protect mode promises, without jobs, workers or destinations: an   *)
(* event is acknowledged only when deliveries are on record for it, and a  *)
(* recorded delivery ends exactly once: delivered, dead-lettered, or       *)
(* replaced by exactly one other delivery of the same event.               *)
(***************************************************************************)
CONSTANTS Deliveries, Events, NoEvent

VARIABLES
  owner,     \* the event each delivery is for, NoEvent before it is recorded
  outcome,   \* what became of it
  acked      \* events the provider got a 202 for

vars == <<owner, outcome, acked>>

TypeOK ==
  /\ owner \in [Deliveries -> Events \cup {NoEvent}]
  /\ outcome \in [Deliveries -> {"none", "pending", "delivered", "dead", "replaced"}]
  /\ acked \subseteq Events

Init ==
  /\ owner = [d \in Deliveries |-> NoEvent]
  /\ outcome = [d \in Deliveries |-> "none"]
  /\ acked = {}

New == {d \in Deliveries : outcome[d] = "none"}

(* One insert records all initial deliveries of an event.                  *)
Record(e, ds) ==
  /\ \A d \in Deliveries : owner[d] # e
  /\ owner' = [d \in Deliveries |-> IF d \in ds THEN e ELSE owner[d]]
  /\ outcome' = [d \in Deliveries |-> IF d \in ds THEN "pending" ELSE outcome[d]]
  /\ UNCHANGED acked

Acknowledge(e) ==
  /\ \E d \in Deliveries : owner[d] = e
  /\ acked' = acked \cup {e}
  /\ UNCHANGED <<owner, outcome>>

Settle(d) ==
  /\ outcome[d] = "pending"
  /\ \E o \in {"delivered", "dead"} : outcome' = [outcome EXCEPT ![d] = o]
  /\ UNCHANGED <<owner, acked>>

Replace(d, c) ==
  /\ outcome[d] = "pending"
  /\ outcome' = [outcome EXCEPT ![d] = "replaced", ![c] = "pending"]
  /\ owner' = [owner EXCEPT ![c] = owner[d]]
  /\ UNCHANGED acked

Next ==
  \/ \E e \in Events : Acknowledge(e) \/ \E ds \in SUBSET New : Record(e, ds)
  \/ \E d \in Deliveries : Settle(d) \/ \E c \in New : Replace(d, c)

Spec == Init /\ [][Next]_vars
=============================================================================
