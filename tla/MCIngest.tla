------------------------------- MODULE MCIngest -------------------------------
(***************************************************************************)
(* A small instance of Ingest: one event, whose endpoint may be in any     *)
(* mode, and a scenario that recovers.                                     *)
(***************************************************************************)
EXTENDS Ingest

OutageThenOk == <<"error", "ok">>
Interchangeable == Permutations(Requests) \cup Permutations(Analysts)
=============================================================================
