--------------------------- MODULE PrivateMemory ---------------------------
(***************************************************************************)
(* What virtual memory promises a program: every process has a memory of   *)
(* its own.  A page nobody has written reads as zeros, a fork copies the   *)
(* memory of the parent, exec and exit drop it, and a write is seen by the *)
(* process that made it and by nobody else.                                *)
(***************************************************************************)
CONSTANTS Procs, Pages, Values, Zero

VARIABLE mem     \* mem[p][v]: what process p reads in page v

Blank == [v \in Pages |-> Zero]

Init == mem = [p \in Procs |-> Blank]

Write(p, v, x) == mem' = [mem EXCEPT ![p][v] = x]

Copy(p, q) == mem[q] = Blank /\ mem' = [mem EXCEPT ![q] = mem[p]]

Drop(p) == mem' = [mem EXCEPT ![p] = Blank]

Next == \E p \in Procs : \/ \E v \in Pages, x \in Values : Write(p, v, x)
                         \/ \E q \in Procs \ {p} : Copy(p, q)
                         \/ Drop(p)

Spec == Init /\ [][Next]_mem
=============================================================================
