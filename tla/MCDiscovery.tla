---------------------------- MODULE MCDiscovery ----------------------------
(***************************************************************************)
(* Discovery on a small instance: one worker of WORKERS_LIST and one that  *)
(* is not, of which only DNS and PUSH can speak.                           *)
(***************************************************************************)
EXTENDS Discovery, TLC

CONSTANTS listed, others

MCUrls == {listed} \cup others
MCList == {listed}
Symmetry == Permutations(others) \cup Permutations(Lookups)
=============================================================================
