-------------------------- MODULE MCIncidentAlerts --------------------------
(***************************************************************************)
(* Small instances of IncidentAlerts.                                      *)
(***************************************************************************)
EXTENDS IncidentAlerts, TLC

CONSTANTS t1, t2, w1, w2, s1, s2

Symmetry == Permutations(Writers) \cup Permutations(Slots)
=============================================================================
