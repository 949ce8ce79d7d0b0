----------------------------- MODULE MCProcess -----------------------------
(***************************************************************************)
(* Instances of Process for TLC.                                           *)
(***************************************************************************)
EXTENDS Process

UserProcs == Procs \ {KernelProc, InitProc}

\* Every process may make every call at any time.
AnyProgram == [p \in UserProcs |-> {"fork", "wait", "exit"}]

\* The first process may make every call, the others do not wait: both a parent
\* that reaps its children and orphans that init inherits occur.
MixedProgram ==
  [p \in UserProcs |-> IF p = 2 THEN {"fork", "wait", "exit"} ELSE {"fork", "exit"}]
=============================================================================
