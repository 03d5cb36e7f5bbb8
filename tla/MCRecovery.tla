----------------------------- MODULE MCRecovery -----------------------------
(***************************************************************************)
(* Recovery on a small instance.                                           *)
(***************************************************************************)
EXTENDS Recovery, TLC

Symmetry == Permutations(Workers)
=============================================================================
