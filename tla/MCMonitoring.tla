---------------------------- MODULE MCMonitoring ----------------------------
(***************************************************************************)
(* Small instances of Monitoring: all monitors belong to one user.         *)
(***************************************************************************)
EXTENDS Monitoring, TLC

CONSTANTS m1, m2, u1, r1, r2, p1, p2

OneOwner == [m \in Monitors |-> u1]
Symmetry == Permutations(Runs) \cup Permutations(Passes)
=============================================================================
