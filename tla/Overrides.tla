------------------------------- MODULE Overrides -------------------------------
(* f where it is defined, g elsewhere: @@ of module TLC, with a definition *)
(* the proof system can expand.                                            *)
Over(f, g) == [x \in DOMAIN f \cup DOMAIN g |-> IF x \in DOMAIN f THEN f[x] ELSE g[x]]
=============================================================================
