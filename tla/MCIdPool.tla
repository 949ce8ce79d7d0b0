------------------------------ MODULE MCIdPool ------------------------------
(***************************************************************************)
(* Instances of IdPool for TLC.                                            *)
(***************************************************************************)
EXTENDS IdPool, TLC

ThreadSymmetry == Permutations(Threads)
=============================================================================
