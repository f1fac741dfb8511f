------------------------------- MODULE Tables -------------------------------
(* The code's tables are functions; a long one is put together from parts.   *)

(* The entries of f, and those of g for what f has no entry for. *)
Joined(f, g) == [x \in DOMAIN f \cup DOMAIN g |-> IF x \in DOMAIN f THEN f[x] ELSE g[x]]
=============================================================================
