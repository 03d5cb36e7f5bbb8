----------------------------- MODULE MCLoadRead -----------------------------
(***************************************************************************)
(* LoadRead on a small instance. Tickets and probes are interchangeable.   *)
(***************************************************************************)
EXTENDS LoadRead, TLC

Symmetry == Permutations(Tickets) \cup Permutations(Probes)
=============================================================================
