-------------------------- MODULE MCProtectDelivery --------------------------
(***************************************************************************)
(* Small instances of ProtectDelivery: the policies of the route.          *)
(***************************************************************************)
EXTENDS ProtectDelivery

CONSTANTS e1, m1

To(t, on) == [id |-> t, active |-> on]
Policy(strategy, targets) ==
  [strategy |-> strategy, scope |-> "destination", dests |-> targets]

Single == Policy("single", <<To("a", TRUE)>>)
Fanout == Policy("fanout", <<To("a", TRUE), To("b", TRUE)>>)
Failover == Policy("failover", <<To("a", TRUE), To("b", TRUE)>>)

SingleByEvent == [Policy("single", <<To("b", TRUE)>>) EXCEPT !.scope = "event"]
FailoverHalfOff ==
  Policy("failover", <<To("a", FALSE), To("b", TRUE), To("c", TRUE)>>)

AllPolicies == {Single, Fanout, Failover}
Replaceable == {Single, SingleByEvent}
OnlySingle == {Single}
OnlyFanout == {Fanout}
OnlyHalfOff == {FailoverHalfOff}

TwoTargets == {"a", "b"}
ThreeTargets == {"a", "b", "c"}
=============================================================================
