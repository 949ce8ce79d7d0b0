----------------------------- MODULE MCPageCow -----------------------------
(***************************************************************************)
(* Instances of PageCow for TLC.  Frames are interchangeable, and so are   *)
(* the values a program writes and the processes that fork creates.        *)
(***************************************************************************)
EXTENDS PageCow, TLC

Symmetry == Permutations(Frames) \cup Permutations(Values \ {Zero})
            \cup Permutations(Procs \ {First})
=============================================================================
