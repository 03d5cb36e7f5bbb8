---------------------------- MODULE MCScheduling ----------------------------
(***************************************************************************)
(* Scheduling on a small instance: two GPU workers, one for two sessions   *)
(* and one for one, and a CPU worker that does not say for how many.       *)
(***************************************************************************)
EXTENDS Scheduling

MCWorkers == 1..3
MCMaxSessions == << 2, 1, 0 >>
MCFirstBackend == << "hw", "hw", "sw" >>
Symmetry == Permutations(Dispatches)
=============================================================================
