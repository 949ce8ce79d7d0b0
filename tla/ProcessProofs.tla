--------------------------- MODULE ProcessProofs ---------------------------
(***************************************************************************)
(* Theorems about Process, for every size of the id pools and every        *)
(* program, in three parts: the types and the lists of the dead; the tree  *)
(* of processes; the locks and the queues.                                 *)
(***************************************************************************)
EXTENDS Process, SchedulerProofs

(* Part 1: types, and the lists of the dead *)

\* The threads and processes that boot creates are among the ids.
LEMMA Constants ==
  /\ Main \in Threads /\ Clean \in Threads /\ InitThread \in Threads
  /\ KernelProc \in Procs /\ InitProc \in Procs
  /\ UserThreads \subseteq Threads
  BY SizeAssumption DEF Main, Clean, InitThread, KernelProc, InitProc,
     Threads, Procs, UserThreads

\* A context switch keeps the scheduler's variables well typed.
LEMMA SwitchType ==
  ASSUME SchedTypeOK, NEW st \in [Threads -> Status],
         NEW rd \in Seq(Threads), do_context_switch(st, rd)
  PROVE  /\ cur' \in Threads /\ ready' \in Seq(Threads)
         /\ status' \in [Threads -> Status] /\ cr3' \in Procs
         /\ fault' \in Faults
<1> DEFINE next == Head(RunQueue(rd))
<1>1. /\ RunQueue(rd) \in Seq(Threads) /\ RunQueue(rd) # <<>>
      /\ next \in Threads
  BY Constants DEF RunQueue
<1>2. /\ NextQueue(st, rd) \in Seq(Threads) /\ NextQueue(st, rd) # <<>>
  <2>1. cur \in Threads BY DEF SchedTypeOK
  <2>2. CASE Requeues(st)
    <3>1. NextQueue(st, rd) = Append(RunQueue(rd), cur)
      BY <2>2 DEF NextQueue
    <3> QED BY <1>1, <2>1, <3>1
  <2>3. CASE ~Requeues(st) BY <1>1, <2>3 DEF NextQueue
  <2> QED BY <2>2, <2>3
<1>3. SwitchStatus(st, next) \in [Threads -> Status]
  BY <1>1 DEF SwitchStatus, Status
<1>4. CASE process[next] # process[cur] /\ process[next] = NULL
  BY <1>4 DEF do_context_switch, SchedTypeOK, Faults
<1>5. CASE ~(process[next] # process[cur] /\ process[next] = NULL)
  <2>1. /\ cur' = next /\ ready' = Tail(NextQueue(st, rd))
        /\ status' = SwitchStatus(st, next)
        /\ cr3' = IF process[next] # process[cur] THEN process[next] ELSE cr3
        /\ fault' = fault
    BY <1>5 DEF do_context_switch, process_switch
  <2>2. process[next] \in Procs \cup {NULL}
    BY <1>1 DEF SchedTypeOK
  <2> QED BY <2>1, <2>2, <1>1, <1>2, <1>3, <1>5 DEF SchedTypeOK
<1> QED BY <1>4, <1>5

\* So does waking a queue of threads.
LEMMA WakeType ==
  ASSUME NEW st \in [Threads -> Status], NEW ts \in Seq(Threads)
  PROVE  Woken(st, ts) \in [Threads -> Status]
  BY DEF Woken, Status

\* A thread that spins on a lock changes nothing but the scheduler's state.
LEMMA SpinType ==
  ASSUME TypeOK, Spin
  PROVE  TypeOK'
<1>1. SchedTypeOK BY DEF TypeOK
<1>2. status \in [Threads -> Status] /\ ready \in Seq(Threads)
  BY <1>1 DEF SchedTypeOK
<1>3. do_context_switch(status, ready)
  BY DEF Spin, schedule_thread_yield
<1>4. SchedTypeOK'
  BY <1>1, <1>2, <1>3, SwitchType DEF Spin, SchedTypeOK
<1> QED BY <1>4 DEF TypeOK, Spin, procVars, cleanVars, LocTyped

\* So does a thread that takes a process lock, or finds it taken.
LEMMA LockProcType ==
  ASSUME TypeOK, NEW t \in Threads, NEW p \in Procs, NEW l \in Labels,
         l \in UsesLoc => loc[t] # NULL, LockProc(t, p, l)
  PROVE  TypeOK'
<1>1. CASE Spin BY <1>1, SpinType
<1>2. CASE ~Spin
  <2>1. /\ plock' = [plock EXCEPT ![p] = TRUE]
        /\ pc' = [pc EXCEPT ![t] = l]
        /\ UNCHANGED <<schedVars, self, loc, pcb, parent, children, exited,
                       wait_any, exit_wait, cleanVars>>
    BY <1>2 DEF LockProc, Goto
  <2>2. plock' \in [Procs -> BOOLEAN]
    BY <2>1 DEF TypeOK
  <2> QED BY <2>1, <2>2 DEF TypeOK, SchedTypeOK, schedVars, cleanVars,
                              LocTyped
<1> QED BY <1>1, <1>2 DEF LockProc

\* The same for dead_resource_lock.
LEMMA LockDeadType ==
  ASSUME TypeOK, NEW t \in Threads, NEW l \in Labels,
         l \in UsesLoc => loc[t] # NULL, LockDead(t, l)
  PROVE  TypeOK'
<1>1. CASE Spin BY <1>1, SpinType
<1>2. CASE ~dead_lock /\ ~Spin
  BY <1>2 DEF LockDead, Goto, TypeOK, SchedTypeOK, schedVars, procVars,
              LocTyped
<1> QED BY <1>1, <1>2 DEF LockDead

\* A crash changes the fault and nothing else.
LEMMA CrashType ==
  ASSUME TypeOK, NEW f \in Faults, Crash(f)
  PROVE  TypeOK'
  BY DEF Crash, TypeOK, SchedTypeOK, procVars, cleanVars, LocTyped

\* What boot leaves behind is well typed.
LEMMA InitType == Init => TypeOK
<1> SUFFICES ASSUME Init PROVE TypeOK OBVIOUS
<1>1. SchedTypeOK
  <2>1. status \in [Threads -> Status]
    BY DEF Init, SchedInit, Status
  <2>2. process \in [Threads -> Procs \cup {NULL}]
    BY Constants DEF Init, SchedInit
  <2> QED BY <2>1, <2>2, Constants DEF Init, SchedInit, SchedTypeOK, Faults
<1>2. pc \in [Threads -> Labels]
  BY DEF Init, Labels
<1>3. LocTyped
  BY DEF Init, UsesLoc, LocTyped
<1>4. /\ self \in [Threads -> Procs] /\ pcb \in [Procs -> {"free", "normal", "exit"}]
  BY Constants DEF Init
<1>5. /\ plock \in [Procs -> BOOLEAN] /\ dead_lock \in BOOLEAN
  BY DEF Init
<1> QED BY <1>1, <1>2, <1>3, <1>4, <1>5, Constants DEF Init, TypeOK

\* process_fork keeps the types.
LEMMA ForkType ==
  ASSUME TypeOK, NEW t \in Threads, ForkCreate(t) \/ Fork(t)
  PROVE  TypeOK'
<1> USE DEF schedVars, procVars, cleanVars
<1>1. CASE ForkCreate(t)
  <2> DEFINE free == {p \in Procs : pcb[p] = "free"}
  <2>1. CASE free = {}
    BY <1>1, <2>1, CrashType DEF ForkCreate, Faults
  <2>2. CASE free # {}
    <3>1. PICK p \in Procs :
            /\ loc' = [loc EXCEPT ![t] = p]
            /\ pcb' = [pcb EXCEPT ![p] = "normal"]
            /\ parent' = [parent EXCEPT ![p] = NULL]
            /\ children' = [children EXCEPT ![p] = {}]
            /\ exited' = [exited EXCEPT ![p] = {}]
            /\ wait_any' = [wait_any EXCEPT ![p] = <<>>]
            /\ exit_wait' = [exit_wait EXCEPT ![p] = <<>>]
            /\ plock' = [plock EXCEPT ![p] = FALSE]
            /\ pc' = [pc EXCEPT ![t] = "f_lock"]
            /\ UNCHANGED <<schedVars, self, cleanVars>>
      BY <1>1, <2>2 DEF ForkCreate, First, UnlockProc, Goto
    <3>2. plock' \in [Procs -> BOOLEAN] BY <3>1 DEF TypeOK
    <3>3. p # NULL BY DEF Procs, NULL
    <3>4. LocTyped' BY <3>1, <3>3 DEF TypeOK, LocTyped
    <3>5. SchedTypeOK' BY <3>1 DEF TypeOK, SchedTypeOK
    <3> QED BY <3>1, <3>2, <3>4, <3>5 DEF TypeOK, Labels
  <2> QED BY <2>1, <2>2
<1>2. CASE ForkLock(t)
  BY <1>2, LockProcType DEF ForkLock, Labels, TypeOK, LocTyped, At, UsesLoc
<1>3. CASE ForkAdd(t)
  <2>1. plock' \in [Procs -> BOOLEAN] BY <1>3 DEF TypeOK, ForkAdd, UnlockProc
  <2>2. loc[t] \in Procs BY <1>3 DEF ForkAdd, TypeOK, LocTyped, UsesLoc, At
  <2>3. LocTyped' BY <1>3 DEF ForkAdd, TypeOK, LocTyped, UsesLoc, Goto, At
  <2>4. SchedTypeOK' BY <1>3 DEF ForkAdd, TypeOK, SchedTypeOK
  <2>5. children' \in [Procs -> SUBSET Procs]
    BY <1>3, <2>2 DEF ForkAdd, TypeOK
  <2>6. parent' \in [Procs -> Procs \cup {NULL}]
    BY <1>3, <2>2 DEF ForkAdd, TypeOK
  <2>7. pc' \in [Threads -> Labels]
    BY <1>3 DEF ForkAdd, TypeOK, Labels, Goto
  <2> QED BY <1>3, <2>1, <2>3, <2>4, <2>5, <2>6, <2>7 DEF ForkAdd, TypeOK
<1>4. CASE ForkSched(t)
  <2> DEFINE free == {u \in Threads : pc[u] = "none"}
  <2>1. CASE free = {}
    BY <1>4, <2>1, CrashType DEF ForkSched, Faults
  <2>2. CASE free # {}
    <3>1. PICK u \in Threads :
            /\ status' = [status EXCEPT ![u] = "ready"]
            /\ ready' = Append(ready, u)
            /\ process' = [process EXCEPT ![u] = loc[t]]
            /\ self' = [self EXCEPT ![u] = loc[t]]
            /\ loc' = [loc EXCEPT ![t] = NULL]
            /\ pc' = [pc EXCEPT ![t] = "user", ![u] = "user"]
            /\ UNCHANGED <<cur, cr3, fault, procVars, cleanVars>>
      BY <1>4, <2>2 DEF ForkSched, First
    <3>2. loc[t] \in Procs
      BY <1>4 DEF ForkSched, TypeOK, LocTyped, UsesLoc, At
    <3>3. LocTyped'
      <4> SUFFICES ASSUME NEW v \in Threads, pc'[v] \in UsesLoc
                   PROVE  loc'[v] # NULL
        BY DEF LocTyped
      <4>1. v # t /\ v # u BY <3>1 DEF TypeOK, UsesLoc
      <4> QED BY <3>1, <4>1 DEF TypeOK, LocTyped
    <3>4. SchedTypeOK'
      <4>1. status' \in [Threads -> Status] /\ ready' \in Seq(Threads)
        BY <3>1 DEF TypeOK, SchedTypeOK, Status
      <4>2. process' \in [Threads -> Procs \cup {NULL}]
        BY <3>1, <3>2 DEF TypeOK, SchedTypeOK
      <4> QED BY <3>1, <4>1, <4>2 DEF TypeOK, SchedTypeOK
    <3> QED BY <3>1, <3>2, <3>3, <3>4 DEF TypeOK, Labels
  <2> QED BY <2>1, <2>2
<1> QED BY <1>1, <1>2, <1>3, <1>4 DEF Fork

\* The condition variable's waiters are threads.
LEMMA NotifyType ==
  ASSUME TypeOK
  PROVE  /\ Notified \in Seq(Threads)
         /\ cond_var_notify => cv' \in Seq(Threads)
<1>1. cv \in Seq(Threads) BY DEF TypeOK
<1>2. Notified \in Seq(Threads)
  <2>1. CASE cv = <<>> BY <2>1 DEF Notified
  <2>2. CASE cv # <<>>
    <3>1. Head(cv) \in Threads BY <1>1, <2>2
    <3> QED BY <2>2, <3>1 DEF Notified
  <2> QED BY <2>1, <2>2
<1>3. cond_var_notify => cv' \in Seq(Threads)
  BY <1>1 DEF cond_var_notify
<1> QED BY <1>2, <1>3

\* The scheduler is well typed after a wakeup.
LEMMA WakeSchedType ==
  ASSUME SchedTypeOK, NEW ts \in Seq(Threads), add_thread_nodes_to_schedule(ts)
  PROVE  status' \in [Threads -> Status] /\ ready' \in Seq(Threads)
  BY WakeType DEF SchedTypeOK, add_thread_nodes_to_schedule

\* process_wait keeps the types.
LEMMA WaitType ==
  ASSUME TypeOK, NEW t \in Threads, WaitCall(t) \/ Wait(t)
  PROVE  TypeOK'
<1> USE DEF schedVars, procVars, cleanVars
<1>a. ASSUME pc[t] \in UsesLoc PROVE loc[t] \in Procs /\ loc[t] # NULL
  BY <1>a DEF TypeOK, LocTyped
<1>b. ASSUME NEW p, UnlockProc(p) PROVE plock' \in [Procs -> BOOLEAN]
  BY <1>b DEF UnlockProc, TypeOK
<1>1. CASE WaitCall(t)
  <2>1. PICK pid \in Procs : loc' = [loc EXCEPT ![t] = pid]
    BY <1>1 DEF WaitCall
  <2>2. pid # NULL BY DEF Procs, NULL
  <2>3. LocTyped' BY <1>1, <2>1, <2>2 DEF WaitCall, Goto, TypeOK, LocTyped
  <2> QED BY <1>1, <2>1, <2>3 DEF WaitCall, Goto, TypeOK, SchedTypeOK, Labels
<1>2. CASE WaitLock(t)
  BY <1>2, <1>a, LockProcType DEF WaitLock, Labels, TypeOK, At, UsesLoc
<1>3. CASE WaitNone(t)
  <2>1. LocTyped' BY <1>3 DEF WaitNone, Goto, TypeOK, LocTyped, UsesLoc, At
  <2> QED BY <1>3, <2>1 DEF WaitNone, Goto, TypeOK, SchedTypeOK, Labels
<1>4. CASE WaitFail(t)
  <2>1. LocTyped' BY <1>4 DEF WaitFail, Goto, TypeOK, LocTyped, UsesLoc
  <2>2. plock' \in [Procs -> BOOLEAN] BY <1>4, <1>b DEF WaitFail
  <2> QED BY <1>4, <2>1, <2>2 DEF WaitFail, Goto, TypeOK, SchedTypeOK, Labels
<1>5. CASE WaitTake(t)
  <2>1. CASE Crash("not_a_child")
    BY <2>1, CrashType DEF Faults
  <2>2. CASE ~Crash("not_a_child")
    <3>1. PICK c \in Takable(self[t], loc[t]) :
            /\ exited' = [exited EXCEPT ![self[t]] = @ \ {c}]
            /\ children' = [children EXCEPT ![self[t]] = @ \ {c}]
            /\ loc' = [loc EXCEPT ![t] = c]
            /\ pc' = [pc EXCEPT ![t] = "w_reap"]
            /\ UNCHANGED <<schedVars, self, plock, pcb, parent, wait_any,
                           exit_wait, cleanVars>>
      BY <1>5, <2>2 DEF WaitTake, Goto
    <3>2. c \in Procs /\ c # NULL
      BY DEF Takable, TypeOK, Procs, NULL
    <3>3. LocTyped' BY <3>1, <3>2 DEF TypeOK, LocTyped
    <3> QED BY <3>1, <3>2, <3>3 DEF TypeOK, SchedTypeOK, Labels
  <2> QED BY <2>1, <2>2
<1>6. CASE WaitQueueAny(t)
  <2>1. LocTyped' BY <1>6 DEF WaitQueueAny, Goto, TypeOK, LocTyped, UsesLoc, At
  <2>2. wait_any' \in [Procs -> Seq(Threads)]
    <3>1. self[t] \in Procs /\ wait_any[self[t]] \in Seq(Threads)
      BY DEF TypeOK
    <3>2. <<t>> \o wait_any[self[t]] \in Seq(Threads)
      BY <3>1
    <3> QED BY <1>6, <3>1, <3>2 DEF WaitQueueAny, TypeOK
  <2> QED BY <1>6, <2>1, <2>2 DEF WaitQueueAny, Goto, TypeOK, SchedTypeOK, Labels
<1>7. CASE WaitChild(t)
  <2>1. LocTyped' BY <1>7 DEF WaitChild, Goto, TypeOK, LocTyped, UsesLoc, At
  <2> QED BY <1>7, <2>1 DEF WaitChild, Goto, TypeOK, SchedTypeOK, Labels
<1>8. CASE WaitChildLock(t)
  BY <1>8, <1>a, LockProcType DEF WaitChildLock, Labels, At, UsesLoc
<1>9. CASE WaitQueueChild(t)
  <2>1. LocTyped' BY <1>9 DEF WaitQueueChild, Goto, TypeOK, LocTyped, UsesLoc, At
  <2>2. exit_wait' \in [Procs -> Seq(Threads)]
    <3>1. loc[t] \in Procs /\ exit_wait[loc[t]] \in Seq(Threads)
      BY <1>9, <1>a DEF TypeOK, WaitQueueChild, At, UsesLoc
    <3>2. <<t>> \o exit_wait[loc[t]] \in Seq(Threads)
      BY <3>1
    <3> QED BY <1>9, <3>1, <3>2 DEF WaitQueueChild, TypeOK
  <2>3. plock' \in [Procs -> BOOLEAN] BY <1>9, <1>b DEF WaitQueueChild
  <2> QED BY <1>9, <2>1, <2>2, <2>3
          DEF WaitQueueChild, Goto, TypeOK, SchedTypeOK, Labels
<1>10. CASE WaitMark(t)
  <2>1. LocTyped' BY <1>10 DEF WaitMark, Goto, TypeOK, LocTyped, UsesLoc, At
  <2> QED BY <1>10, <2>1 DEF WaitMark, Goto, TypeOK, SchedTypeOK, Labels, Status
<1>11. CASE WaitUnlock(t)
  <2>1. LocTyped' BY <1>11 DEF WaitUnlock, Goto, TypeOK, LocTyped, UsesLoc, At
  <2>2. plock' \in [Procs -> BOOLEAN] BY <1>11, <1>b DEF WaitUnlock
  <2> QED BY <1>11, <2>1, <2>2 DEF WaitUnlock, Goto, TypeOK, SchedTypeOK, Labels
<1>12. CASE WaitYield(t)
  <2>1. LocTyped' BY <1>12 DEF WaitYield, Goto, TypeOK, LocTyped, UsesLoc, At
  <2>2. SchedTypeOK'
    BY <1>12, SwitchType
       DEF WaitYield, schedule_thread_yield, TypeOK, SchedTypeOK
  <2> QED BY <1>12, <2>1, <2>2 DEF WaitYield, Goto, TypeOK, Labels
<1>13. CASE WaitReap(t)
  <2>1. LocTyped' BY <1>13 DEF WaitReap, Goto, TypeOK, LocTyped, UsesLoc, At
  <2>2. plock' \in [Procs -> BOOLEAN] BY <1>13, <1>b DEF WaitReap
  <2> QED BY <1>13, <2>1, <2>2 DEF WaitReap, Goto, TypeOK, SchedTypeOK, Labels
<1>14. CASE DeadProcLock(t)
  BY <1>14, <1>a, LockDeadType DEF DeadProcLock, Labels, At, UsesLoc
<1>15. CASE DeadProcPut(t)
  <2>1. LocTyped' BY <1>15 DEF DeadProcPut, Goto, TypeOK, LocTyped, UsesLoc
  <2>2. SchedTypeOK'
    BY <1>15, NotifyType, WakeSchedType DEF DeadProcPut, TypeOK, SchedTypeOK
  <2>3. cv' \in Seq(Threads) BY <1>15, NotifyType DEF DeadProcPut
  <2>4. loc[t] \in Procs BY <1>15, <1>a DEF DeadProcPut, At, UsesLoc
  <2>5. dead_lock' \in BOOLEAN BY <1>15 DEF DeadProcPut
  <2>6. dead_processes' \in Seq(Procs) BY <1>15, <2>4 DEF DeadProcPut, TypeOK
  <2> QED BY <1>15, <2>1, <2>2, <2>3, <2>5, <2>6
          DEF DeadProcPut, Goto, TypeOK, Labels
<1> QED BY <1>1, <1>2, <1>3, <1>4, <1>5, <1>6, <1>7, <1>8, <1>9, <1>10,
           <1>11, <1>12, <1>13, <1>14, <1>15 DEF Wait

\* process_exit keeps the types.
LEMMA ExitType ==
  ASSUME TypeOK, NEW t \in Threads, ExitCall(t) \/ Exit(t)
  PROVE  TypeOK'
<1> USE DEF schedVars, procVars, cleanVars
<1>a. ASSUME pc[t] \in UsesLoc PROVE loc[t] \in Procs /\ loc[t] # NULL
  BY <1>a DEF TypeOK, LocTyped
<1>b. ASSUME NEW p, UnlockProc(p) PROVE plock' \in [Procs -> BOOLEAN]
  BY <1>b DEF UnlockProc, TypeOK
<1>c. self[t] \in Procs BY DEF TypeOK
<1>1. CASE ExitCall(t)
  <2>1. CASE Crash("no_parent") BY <2>1, CrashType DEF Faults
  <2>2. CASE ~Crash("no_parent")
    <3>1. parent[self[t]] \in Procs /\ parent[self[t]] # NULL
      BY <1>1, <1>c, <2>2 DEF ExitCall, TypeOK
    <3>2. LocTyped'
      BY <1>1, <2>2, <3>1 DEF ExitCall, Goto, TypeOK, LocTyped
    <3>3. /\ loc' = [loc EXCEPT ![t] = parent[self[t]]]
          /\ pc' = [pc EXCEPT ![t] = "e_cli"]
          /\ UNCHANGED <<schedVars, self, procVars, cleanVars>>
      BY <1>1, <2>2 DEF ExitCall, Goto
    <3>4. SchedTypeOK' BY <3>3 DEF TypeOK, SchedTypeOK
    <3> QED BY <3>1, <3>2, <3>3, <3>4 DEF TypeOK, Labels
  <2> QED BY <2>1, <2>2
<1>2. CASE ExitCli(t)
  <2>1. LocTyped' BY <1>2 DEF ExitCli, Goto, TypeOK, LocTyped, UsesLoc, At
  <2> QED BY <1>2, <2>1 DEF ExitCli, Goto, TypeOK, SchedTypeOK, Labels, NoIntr
<1>3. CASE ExitSelf(t)
  <2>1. CASE Spin BY <2>1, SpinType
  <2>2. CASE ~Spin
    <3>1. LocTyped'
      BY <1>3, <2>2 DEF ExitSelf, Goto, TypeOK, LocTyped, UsesLoc, At
    <3> QED BY <1>3, <2>2, <3>1
            DEF ExitSelf, Goto, TypeOK, SchedTypeOK, Labels, NoIntr
  <2> QED BY <2>1, <2>2
<1>4. CASE ExitInitLock(t)
  BY <1>4, <1>a, Constants, LockProcType
     DEF ExitInitLock, Labels, NoIntr, At, UsesLoc
<1>5. CASE ExitOrphans(t)
  <2> DEFINE p == self[t]
             orphans == children[p] \cup exited[p]
  <2>1. CASE Spin BY <2>1, SpinType
  <2>2. CASE ~Spin
    <3>1. /\ parent' = [q \in Procs |-> IF q \in orphans THEN InitProc
                                        ELSE parent[q]]
          /\ children' = [children EXCEPT ![p] = {},
                                          ![InitProc] = @ \cup orphans]
          /\ exited' = [exited EXCEPT ![p] = {},
                                      ![InitProc] = @ \cup exited[p]]
          /\ add_thread_nodes_to_schedule(wait_any[InitProc])
          /\ wait_any' = [wait_any EXCEPT ![InitProc] = <<>>]
          /\ UnlockProc(InitProc)
          /\ pcb' = [pcb EXCEPT ![p] = "exit"]
          /\ process' = [process EXCEPT ![t] = NULL]
          /\ pc' = [pc EXCEPT ![t] = "e_par"]
          /\ UNCHANGED <<cur, cr3, fault, self, loc, exit_wait, cleanVars>>
      BY <1>5, <2>2 DEF ExitOrphans, Goto
    <3>2. LocTyped'
      BY <1>5, <3>1 DEF ExitOrphans, TypeOK, LocTyped, UsesLoc, At
    <3>3. status' \in [Threads -> Status] /\ ready' \in Seq(Threads)
      BY <3>1, Constants, WakeSchedType DEF TypeOK
    <3>4. SchedTypeOK' BY <3>1, <3>3 DEF TypeOK, SchedTypeOK
    <3>5. children' \in [Procs -> SUBSET Procs]
      BY <3>1, <1>c, Constants DEF TypeOK
    <3>6. exited' \in [Procs -> SUBSET Procs]
      BY <3>1, <1>c, Constants DEF TypeOK
    <3>7. parent' \in [Procs -> Procs \cup {NULL}]
      BY <3>1, Constants DEF TypeOK
    <3>8. plock' \in [Procs -> BOOLEAN] BY <3>1, <1>b
    <3>9. /\ pc' \in [Threads -> Labels]
          /\ pcb' \in [Procs -> {"free", "normal", "exit"}]
          /\ wait_any' \in [Procs -> Seq(Threads)]
      <4>1. pc' \in [Threads -> Labels]
        BY <3>1 DEF TypeOK, Labels, NoIntr
      <4>2. pcb' \in [Procs -> {"free", "normal", "exit"}]
        BY <3>1 DEF TypeOK
      <4>3. wait_any' \in [Procs -> Seq(Threads)]
        <5>1. wait_any' = [wait_any EXCEPT ![InitProc] = <<>>] BY <3>1
        <5>2. wait_any \in [Procs -> Seq(Threads)] BY DEF TypeOK
        <5>3. <<>> \in Seq(Threads) OBVIOUS
        <5> QED BY <5>1, <5>2, <5>3
      <4> QED BY <4>1, <4>2, <4>3
    <3> HIDE DEF p, orphans
    <3> QED BY <3>1, <3>2, <3>4, <3>5, <3>6, <3>7, <3>8, <3>9 DEF TypeOK
  <2> QED BY <2>1, <2>2
<1>6. CASE ExitParentLock(t)
  BY <1>6, <1>a, LockProcType, CrashType
     DEF ExitParentLock, Labels, NoIntr, At, UsesLoc, Faults
<1>7. CASE ExitNotify(t)
  <2> DEFINE p == self[t]
             q == loc[t]
  <2>1. CASE Spin BY <2>1, SpinType
  <2>c. CASE Crash("freed_table") BY <2>c, CrashType DEF Faults
  <2>2. CASE ~Spin /\ ~Crash("freed_table")
    <3>1. /\ exited' = [exited EXCEPT ![q] = @ \cup {p}]
          /\ add_thread_nodes_to_schedule(exit_wait[p] \o wait_any[q])
          /\ exit_wait' = [exit_wait EXCEPT ![p] = <<>>]
          /\ wait_any' = [wait_any EXCEPT ![q] = <<>>]
          /\ UnlockProc(q)
          /\ pc' = [pc EXCEPT ![t] = "x_dead"]
          /\ UNCHANGED <<cur, process, cr3, fault, self, loc, pcb, parent,
                         children, cleanVars>>
      BY <1>7, <2>2 DEF ExitNotify, Goto
    <3>2. LocTyped'
      BY <1>7, <3>1 DEF ExitNotify, TypeOK, LocTyped, UsesLoc, At
    <3>3. q \in Procs BY <1>7, <1>a DEF ExitNotify, UsesLoc, At
    <3>4. exit_wait[p] \o wait_any[q] \in Seq(Threads)
      <4>1. exit_wait[p] \in Seq(Threads) /\ wait_any[q] \in Seq(Threads)
        BY <1>c, <3>3 DEF TypeOK
      <4> QED BY <4>1
    <3>5. status' \in [Threads -> Status] /\ ready' \in Seq(Threads)
      BY <3>1, <3>4, WakeSchedType DEF TypeOK
    <3>6. SchedTypeOK' BY <3>1, <3>5 DEF TypeOK, SchedTypeOK
    <3>7. exited' \in [Procs -> SUBSET Procs]
      BY <3>1, <3>3, <1>c DEF TypeOK
    <3>8. plock' \in [Procs -> BOOLEAN] BY <3>1, <1>b
    <3>9. /\ exit_wait' \in [Procs -> Seq(Threads)]
          /\ wait_any' \in [Procs -> Seq(Threads)]
      <4>1. /\ exit_wait' = [exit_wait EXCEPT ![p] = <<>>]
            /\ wait_any' = [wait_any EXCEPT ![q] = <<>>]
        BY <3>1
      <4>2. /\ exit_wait \in [Procs -> Seq(Threads)]
            /\ wait_any \in [Procs -> Seq(Threads)]
        BY DEF TypeOK
      <4>3. <<>> \in Seq(Threads) OBVIOUS
      <4> QED BY <4>1, <4>2, <4>3
    <3>10. pc' \in [Threads -> Labels] BY <3>1 DEF TypeOK, Labels, NoIntr
    <3> QED BY <3>1, <3>2, <3>6, <3>7, <3>8, <3>9, <3>10 DEF TypeOK
  <2> QED BY <2>1, <2>c, <2>2
<1>8. CASE ExitThread(t)
  <2> DEFINE st == [Woken(status, Notified) EXCEPT ![t] = "dead"]
  <2>1. CASE Spin BY <2>1, SpinType
  <2>2. CASE ~Spin
    <3>1. /\ dead_tasks' = Append(dead_tasks, t)
          /\ cond_var_notify
          /\ do_context_switch(st, ready \o Notified)
          /\ pc' = [pc EXCEPT ![t] = "dead"]
          /\ UNCHANGED <<process, self, loc, procVars, dead_lock,
                         dead_processes, clearing_tasks, clearing_procs, lost>>
      BY <1>8, <2>2 DEF ExitThread, Goto
    <3>2. SchedTypeOK BY DEF TypeOK
    <3>3. st \in [Threads -> Status]
      BY <3>2, NotifyType, WakeType DEF SchedTypeOK, Status
    <3>4. ready \o Notified \in Seq(Threads)
      BY <3>2, NotifyType DEF SchedTypeOK
    <3>5. SchedTypeOK' BY <3>1, <3>2, <3>3, <3>4, SwitchType DEF SchedTypeOK
    <3>6. LocTyped' BY <3>1 DEF TypeOK, LocTyped, UsesLoc
    <3>7. cv' \in Seq(Threads) BY <3>1, NotifyType
    <3>8. dead_tasks' \in Seq(Threads) BY <3>1 DEF TypeOK
    <3>9. pc' \in [Threads -> Labels] BY <3>1 DEF TypeOK, Labels, NoIntr
    <3>10. /\ plock' \in [Procs -> BOOLEAN] /\ parent' \in [Procs -> Procs \cup {NULL}]
           /\ pcb' \in [Procs -> {"free", "normal", "exit"}]
           /\ children' \in [Procs -> SUBSET Procs] /\ exited' \in [Procs -> SUBSET Procs]
           /\ wait_any' \in [Procs -> Seq(Threads)] /\ exit_wait' \in [Procs -> Seq(Threads)]
      BY <3>1 DEF TypeOK, procVars
    <3> QED BY <3>1, <3>5, <3>6, <3>7, <3>8, <3>9, <3>10 DEF TypeOK
  <2> QED BY <2>1, <2>2
<1> QED BY <1>1, <1>2, <1>3, <1>4, <1>5, <1>6, <1>7, <1>8 DEF Exit

\* kernel_clean_thread keeps the types.
LEMMA CleanType ==
  ASSUME TypeOK, CleanStep
  PROVE  TypeOK'
<1> USE DEF schedVars, procVars, cleanVars
<1>a. Clean \in Threads BY Constants
<1>1. CASE CleanLock
  BY <1>1, <1>a, LockDeadType DEF CleanLock, Labels, UsesLoc
<1>2. CASE CleanBlock
  <2>1. LocTyped' BY <1>2 DEF CleanBlock, Goto, TypeOK, LocTyped, UsesLoc
  <2>2. SchedTypeOK' BY <1>2 DEF CleanBlock, TypeOK, SchedTypeOK, Status
  <2>3. cv' \in Seq(Threads) BY <1>2, <1>a DEF CleanBlock, TypeOK
  <2>4. pc' \in [Threads -> Labels] BY <1>2 DEF CleanBlock, Goto, TypeOK, Labels
  <2> QED BY <1>2, <2>1, <2>2, <2>3, <2>4 DEF CleanBlock, TypeOK
<1>3. CASE CleanUnlock
  <2>1. LocTyped' BY <1>3 DEF CleanUnlock, Goto, TypeOK, LocTyped, UsesLoc
  <2>2. dead_lock' \in BOOLEAN BY <1>3 DEF CleanUnlock
  <2> QED BY <1>3, <2>1, <2>2 DEF CleanUnlock, Goto, TypeOK, SchedTypeOK, Labels
<1>4. CASE CleanYield
  <2>1. LocTyped' BY <1>4 DEF CleanYield, Goto, TypeOK, LocTyped, UsesLoc
  <2>2. SchedTypeOK'
    BY <1>4, SwitchType
       DEF CleanYield, schedule_thread_yield, TypeOK, SchedTypeOK
  <2> QED BY <1>4, <2>1, <2>2 DEF CleanYield, Goto, TypeOK, Labels
<1>5. CASE CleanTake
  <2>1. LocTyped' BY <1>5 DEF CleanTake, Goto, TypeOK, LocTyped, UsesLoc
  <2>2. dead_lock' \in BOOLEAN BY <1>5 DEF CleanTake
  <2>3. SchedTypeOK' BY <1>5 DEF CleanTake, TypeOK, SchedTypeOK
  <2>4. pc' \in [Threads -> Labels] BY <1>5 DEF CleanTake, Goto, TypeOK, Labels
  <2>5. /\ dead_tasks' \in Seq(Threads) /\ clearing_tasks' \in Seq(Threads)
        /\ dead_processes' \in Seq(Procs) /\ clearing_procs' \in Seq(Procs)
    BY <1>5 DEF CleanTake, TypeOK
  <2> QED BY <1>5, <2>1, <2>2, <2>3, <2>4, <2>5 DEF CleanTake, TypeOK
<1>6. CASE CleanThread
  <2> DEFINE u == Head(clearing_tasks)
  <2>1. u \in Threads BY <1>6 DEF CleanThread, TypeOK
  <2>2. LocTyped'
    <3>1. pc' = [pc EXCEPT ![u] = "none"] /\ loc' = [loc EXCEPT ![u] = NULL]
      BY <1>6 DEF CleanThread, Goto
    <3> QED BY <2>1, <3>1 DEF TypeOK, LocTyped, UsesLoc
  <2>3. SchedTypeOK' BY <1>6, <2>1 DEF CleanThread, TypeOK, SchedTypeOK, Status
  <2>4. /\ pc' \in [Threads -> Labels] /\ self' \in [Threads -> Procs]
        /\ loc' \in [Threads -> Procs \cup {NULL}]
    BY <1>6, <2>1, Constants DEF CleanThread, Goto, TypeOK, Labels
  <2>5. clearing_tasks' \in Seq(Threads) BY <1>6 DEF CleanThread, TypeOK
  <2> QED BY <1>6, <2>2, <2>3, <2>4, <2>5 DEF CleanThread, TypeOK
<1>7. CASE CleanThreadsDone
  <2>1. LocTyped' BY <1>7 DEF CleanThreadsDone, Goto, TypeOK, LocTyped, UsesLoc
  <2> QED BY <1>7, <2>1 DEF CleanThreadsDone, Goto, TypeOK, SchedTypeOK, Labels
<1>8. CASE CleanProc
  <2>1. LocTyped' BY <1>8 DEF CleanProc, TypeOK, LocTyped
  <2>2. SchedTypeOK' BY <1>8 DEF CleanProc, TypeOK, SchedTypeOK
  <2>3. clearing_procs' \in Seq(Procs) BY <1>8 DEF CleanProc, TypeOK
  <2>4. pcb' \in [Procs -> {"free", "normal", "exit"}]
    BY <1>8 DEF CleanProc, TypeOK
  <2>5. lost' \in SUBSET Procs
    <3>1. Head(clearing_procs) \in Procs BY <1>8 DEF CleanProc, TypeOK
    <3> QED BY <1>8, <3>1 DEF CleanProc, TypeOK
  <2>6. /\ plock' \in [Procs -> BOOLEAN] /\ dead_lock' \in BOOLEAN
        /\ parent' \in [Procs -> Procs \cup {NULL}]
        /\ children' \in [Procs -> SUBSET Procs] /\ exited' \in [Procs -> SUBSET Procs]
    BY <1>8 DEF CleanProc, TypeOK
  <2> QED BY <1>8, <2>1, <2>2, <2>3, <2>4, <2>5, <2>6 DEF CleanProc, TypeOK
<1>9. CASE CleanProcsDone
  <2>1. LocTyped' BY <1>9 DEF CleanProcsDone, Goto, TypeOK, LocTyped, UsesLoc
  <2> QED BY <1>9, <2>1 DEF CleanProcsDone, Goto, TypeOK, SchedTypeOK, Labels
<1> QED BY <1>1, <1>2, <1>3, <1>4, <1>5, <1>6, <1>7, <1>8, <1>9 DEF CleanStep

\* A preemption keeps the types.
LEMMA PreemptType ==
  ASSUME TypeOK, Preempt
  PROVE  TypeOK'
<1>1. Spin BY DEF Preempt, Spin, schedule, schedule_thread_yield
<1> QED BY <1>1, SpinType

\* Every variable keeps its type, and the local pointer of fork, wait and exit
\* is never NULL where the code follows it (the Assert of process.c:414 and the
\* checks of process_wait are enough for that).
THEOREM TypeCorrect == Spec => []TypeOK
<1>1. Init => TypeOK BY InitType
<1>2. TypeOK /\ [Next]_vars => TypeOK'
  <2> SUFFICES ASSUME TypeOK, [Next]_vars PROVE TypeOK'
    OBVIOUS
  <2>1. ASSUME NEW t \in UserThreads,
               UserCall(t) \/ Fork(t) \/ Wait(t) \/ Exit(t)
        PROVE  TypeOK'
    BY <2>1, Constants, ForkType, WaitType, ExitType DEF UserCall
  <2>2. CASE CleanStep BY <2>2, CleanType
  <2>3. CASE Preempt BY <2>3, PreemptType
  <2>4. CASE Idle \/ Halted \/ UNCHANGED vars
    BY <2>4 DEF Idle, Halted, vars, schedVars, procVars, cleanVars, TypeOK,
                SchedTypeOK, LocTyped
  <2> QED BY <2>1, <2>2, <2>3, <2>4 DEF Next
<1> QED BY <1>1, <1>2, PTL DEF Spec

-----------------------------------------------------------------------------
(* dead_resource_lock and the dead lists.  The two invariants below are    *)
(* inductive together: the clean thread resets the control state of the    *)
(* thread it frees, so exclusion needs to know that this thread has ended. *)

DeadInv == DeadLockExclusion /\ EndedThreadListedOnce

\* The dead lists hold threads.
LEMMA ListedThreads ==
  ASSUME TypeOK
  PROVE  /\ \A i \in 1 .. Len(dead_tasks) : dead_tasks[i] \in Threads
         /\ \A i \in 1 .. Len(clearing_tasks) : clearing_tasks[i] \in Threads
<1>1. dead_tasks \in Seq(Threads) /\ clearing_tasks \in Seq(Threads)
  BY DEF TypeOK
<1> QED BY <1>1

\* Lists that do not change stay right while the ended threads stay ended.
LEMMA SameLists ==
  ASSUME TypeOK, DeadInv, UNCHANGED <<dead_tasks, clearing_tasks>>,
         \A u \in Threads : pc[u] = "dead" => pc'[u] = "dead"
  PROVE  EndedThreadListedOnce'
  BY ListedThreads DEF DeadInv, EndedThreadListedOnce

\* A step that moves one thread between labels outside the section, and leaves
\* the lock and the lists alone, keeps both.
LEMMA OutsideStep ==
  ASSUME TypeOK, DeadInv, NEW t \in Threads, NEW l,
         pc' = [pc EXCEPT ![t] = l],
         pc[t] \notin {"ap_put", "c_test", "c_unlock", "dead"},
         l \notin {"ap_put", "c_test", "c_unlock", "dead"},
         UNCHANGED <<dead_lock, dead_tasks, clearing_tasks>>
  PROVE  DeadInv'
<1>1. pc \in [Threads -> Labels] BY DEF TypeOK
<1>2. \A u \in Threads : InDeadSection(u)' <=> InDeadSection(u)
  BY <1>1 DEF InDeadSection
<1>3. DeadLockExclusion'
  BY <1>2 DEF DeadInv, DeadLockExclusion
<1>4. EndedThreadListedOnce'
  BY <1>1, SameLists
<1> QED BY <1>3, <1>4 DEF DeadInv

\* A step that changes neither program counters nor the dead lists.
LEMMA SameDead ==
  ASSUME DeadInv, UNCHANGED <<pc, dead_lock, dead_tasks, clearing_tasks>>
  PROVE  DeadInv'
  BY DEF DeadInv, DeadLockExclusion, EndedThreadListedOnce, InDeadSection

\* Taking dead_resource_lock.
LEMMA LockDeadStep ==
  ASSUME TypeOK, DeadInv, NEW t \in Threads,
         NEW l \in {"ap_put", "c_test"}, pc[t] # "dead", LockDead(t, l)
  PROVE  DeadInv'
<1>1. CASE Spin BY <1>1, SameDead DEF Spin, cleanVars
<1>2. CASE ~Spin
  <2>1. /\ ~dead_lock /\ dead_lock' = TRUE
        /\ pc' = [pc EXCEPT ![t] = l]
        /\ UNCHANGED <<dead_tasks, clearing_tasks>>
    BY <1>2 DEF LockDead, Goto
  <2>2. pc \in [Threads -> Labels] BY DEF TypeOK
  <2>3. \A u \in Threads : InDeadSection(u)' <=> u = t
    BY <2>1, <2>2 DEF InDeadSection, DeadInv, DeadLockExclusion
  <2>4. DeadLockExclusion'
    BY <2>1, <2>3 DEF DeadLockExclusion
  <2>5. EndedThreadListedOnce'
    BY <2>1, <2>2, SameLists
  <2> QED BY <2>4, <2>5 DEF DeadInv
<1> QED BY <1>1, <1>2

\* Releasing it.
LEMMA UnlockDeadStep ==
  ASSUME TypeOK, DeadInv, NEW t \in Threads, NEW l,
         l \notin {"ap_put", "c_test", "c_unlock"},
         InDeadSection(t), pc' = [pc EXCEPT ![t] = l], dead_lock' = FALSE
  PROVE  DeadLockExclusion'
<1>1. \A u \in Threads : ~InDeadSection(u)'
  BY DEF InDeadSection, DeadInv, DeadLockExclusion, TypeOK
<1> QED BY <1>1 DEF DeadLockExclusion

\* Taking a process lock does not concern dead_resource_lock.
LEMMA LockProcStep ==
  ASSUME TypeOK, DeadInv, NEW t \in Threads, NEW p, NEW l,
         pc[t] \notin {"ap_put", "c_test", "c_unlock", "dead"},
         l \notin {"ap_put", "c_test", "c_unlock", "dead"},
         LockProc(t, p, l)
  PROVE  DeadInv'
<1>1. CASE Spin BY <1>1, SameDead DEF Spin, cleanVars
<1>2. CASE ~Spin
  BY <1>2, OutsideStep DEF LockProc, Goto, cleanVars
<1> QED BY <1>1, <1>2

\* Nor does a crash.
LEMMA CrashStep ==
  ASSUME DeadInv, NEW f, Crash(f)
  PROVE  DeadInv'
  BY SameDead DEF Crash, cleanVars

\* process_fork keeps the invariant; a new thread is not an ended one.
LEMMA ForkDead ==
  ASSUME TypeOK, DeadInv, NEW t \in Threads, ForkCreate(t) \/ Fork(t)
  PROVE  DeadInv'
<1> USE DEF cleanVars
<1>1. CASE ForkCreate(t)
  <2>1. CASE Crash("fork_null") BY <2>1, CrashStep
  <2>2. CASE ~Crash("fork_null")
    <3>1. /\ pc' = [pc EXCEPT ![t] = "f_lock"]
          /\ UNCHANGED cleanVars
      BY <1>1, <2>2 DEF ForkCreate, Goto
    <3>2. pc[t] \in {"init", "user"} BY <1>1 DEF ForkCreate, MayFork, At
    <3> QED BY <3>1, <3>2, OutsideStep
  <2> QED BY <2>1, <2>2
<1>2. CASE ForkLock(t)
  BY <1>2, LockProcStep DEF ForkLock, At
<1>3. CASE ForkAdd(t)
  BY <1>3, OutsideStep DEF ForkAdd, At, Goto
<1>4. CASE ForkSched(t)
  <2>1. CASE Crash("no_thread_id") BY <2>1, CrashStep
  <2>2. CASE ~Crash("no_thread_id")
    <3>1. PICK u \in Threads :
            /\ pc[u] = "none" /\ pc[t] = "f_sched"
            /\ pc' = [pc EXCEPT ![t] = "user", ![u] = "user"]
            /\ UNCHANGED cleanVars
      BY <1>4, <2>2 DEF ForkSched, First, At
    <3>2. pc \in [Threads -> Labels] BY DEF TypeOK
    <3>3. \A v \in Threads : InDeadSection(v)' <=> InDeadSection(v)
      BY <3>1, <3>2 DEF InDeadSection
    <3>4. DeadLockExclusion'
      BY <3>1, <3>3 DEF DeadInv, DeadLockExclusion
    <3>5. EndedThreadListedOnce'
      BY <3>1, <3>2, SameLists
    <3> QED BY <3>4, <3>5 DEF DeadInv
  <2> QED BY <2>1, <2>2
<1> QED BY <1>1, <1>2, <1>3, <1>4 DEF Fork

\* process_wait keeps it; add_dead_process is the section it has.
LEMMA WaitDead ==
  ASSUME TypeOK, DeadInv, NEW t \in Threads, WaitCall(t) \/ Wait(t)
  PROVE  DeadInv'
<1> USE DEF cleanVars, At, Goto
<1>1. CASE WaitCall(t) BY <1>1, OutsideStep DEF WaitCall
<1>2. CASE WaitLock(t) BY <1>2, LockProcStep DEF WaitLock
<1>3. CASE WaitNone(t) BY <1>3, OutsideStep DEF WaitNone
<1>4. CASE WaitFail(t) BY <1>4, OutsideStep DEF WaitFail
<1>5. CASE WaitTake(t)
  <2>1. CASE Crash("not_a_child") BY <2>1, CrashStep
  <2>2. CASE ~Crash("not_a_child")
    BY <1>5, <2>2, OutsideStep DEF WaitTake
  <2> QED BY <2>1, <2>2
<1>6. CASE WaitQueueAny(t) BY <1>6, OutsideStep DEF WaitQueueAny
<1>7. CASE WaitChild(t) BY <1>7, OutsideStep DEF WaitChild
<1>8. CASE WaitChildLock(t) BY <1>8, LockProcStep DEF WaitChildLock
<1>9. CASE WaitQueueChild(t) BY <1>9, OutsideStep DEF WaitQueueChild
<1>10. CASE WaitMark(t) BY <1>10, OutsideStep DEF WaitMark
<1>11. CASE WaitUnlock(t) BY <1>11, OutsideStep DEF WaitUnlock
<1>12. CASE WaitYield(t) BY <1>12, OutsideStep DEF WaitYield
<1>13. CASE WaitReap(t) BY <1>13, OutsideStep DEF WaitReap
<1>14. CASE DeadProcLock(t) BY <1>14, LockDeadStep DEF DeadProcLock
<1>15. CASE DeadProcPut(t)
  <2>1. /\ pc[t] = "ap_put" /\ pc' = [pc EXCEPT ![t] = "user"]
        /\ dead_lock' = FALSE /\ UNCHANGED <<dead_tasks, clearing_tasks>>
    BY <1>15 DEF DeadProcPut
  <2>2. DeadLockExclusion' BY <2>1, UnlockDeadStep DEF InDeadSection
  <2>3. pc \in [Threads -> Labels] BY DEF TypeOK
  <2>4. EndedThreadListedOnce'
    BY <2>1, <2>3, SameLists
  <2> QED BY <2>2, <2>4 DEF DeadInv
<1> QED BY <1>1, <1>2, <1>3, <1>4, <1>5, <1>6, <1>7, <1>8, <1>9, <1>10,
           <1>11, <1>12, <1>13, <1>14, <1>15 DEF Wait

\* process_exit keeps it; add_dead_tasks files the thread once.
LEMMA ExitDead ==
  ASSUME TypeOK, DeadInv, NEW t \in Threads, ExitCall(t) \/ Exit(t)
  PROVE  DeadInv'
<1> USE DEF cleanVars, At, Goto
<1>s. CASE Spin BY <1>s, SameDead DEF Spin
<1>1. CASE ExitCall(t)
  <2>1. CASE Crash("no_parent") BY <2>1, CrashStep
  <2>2. CASE ~Crash("no_parent") BY <1>1, <2>2, OutsideStep DEF ExitCall
  <2> QED BY <2>1, <2>2
<1>2. CASE ExitCli(t) BY <1>2, OutsideStep DEF ExitCli
<1>3. CASE ExitSelf(t) /\ ~Spin BY <1>3, OutsideStep DEF ExitSelf
<1>4. CASE ExitInitLock(t) BY <1>4, LockProcStep DEF ExitInitLock
<1>5. CASE ExitOrphans(t) /\ ~Spin BY <1>5, OutsideStep DEF ExitOrphans
<1>6. CASE ExitParentLock(t)
  BY <1>6, LockProcStep, CrashStep DEF ExitParentLock
<1>7. CASE ExitNotify(t) /\ ~Spin
  <2>1. CASE Crash("freed_table") BY <2>1, CrashStep
  <2>2. CASE ~Crash("freed_table")
    BY <1>7, <2>2, OutsideStep DEF ExitNotify
  <2> QED BY <2>1, <2>2
<1>8. CASE ExitThread(t) /\ ~Spin
  <2>1. /\ pc[t] = "x_dead" /\ pc' = [pc EXCEPT ![t] = "dead"]
        /\ dead_tasks' = Append(dead_tasks, t)
        /\ UNCHANGED <<dead_lock, clearing_tasks>>
    BY <1>8 DEF ExitThread
  <2>2. pc \in [Threads -> Labels] BY DEF TypeOK
  <2>3. \A u \in Threads : InDeadSection(u)' <=> InDeadSection(u)
    BY <2>1, <2>2 DEF InDeadSection
  <2>4. DeadLockExclusion' BY <2>1, <2>3 DEF DeadInv, DeadLockExclusion
  <2>5. dead_tasks \in Seq(Threads)
    BY DEF TypeOK
  <2>6. /\ Len(dead_tasks') = Len(dead_tasks) + 1
        /\ dead_tasks'[Len(dead_tasks) + 1] = t
        /\ \A i \in 1 .. Len(dead_tasks) : dead_tasks'[i] = dead_tasks[i]
    BY <2>1, <2>5
  <2>7. /\ \A i \in 1 .. Len(dead_tasks) : dead_tasks[i] # t
        /\ \A i \in 1 .. Len(clearing_tasks) : clearing_tasks[i] # t
    BY <2>1 DEF DeadInv, EndedThreadListedOnce
  <2>8. EndedThreadListedOnce'
    BY <2>1, <2>2, <2>6, <2>7, ListedThreads
       DEF DeadInv, EndedThreadListedOnce
  <2> QED BY <2>4, <2>8 DEF DeadInv
<1> QED BY <1>s, <1>1, <1>2, <1>3, <1>4, <1>5, <1>6, <1>7, <1>8 DEF Exit

\* kernel_clean_thread keeps it, from the lock to destroy_thread.
LEMMA CleanDead ==
  ASSUME TypeOK, DeadInv, CleanStep
  PROVE  DeadInv'
<1> USE DEF cleanVars, At, Goto
<1>a. Clean \in Threads BY Constants
<1>b. pc \in [Threads -> Labels] BY DEF TypeOK
<1>c. /\ \A i \in 1 .. Len(dead_tasks) : dead_tasks[i] \in Threads
      /\ \A i \in 1 .. Len(clearing_tasks) : clearing_tasks[i] \in Threads
      /\ dead_tasks \in Seq(Threads) /\ clearing_tasks \in Seq(Threads)
  BY ListedThreads DEF TypeOK
<1>1. CASE CleanLock BY <1>1, <1>a, LockDeadStep DEF CleanLock
<1>2. CASE CleanBlock
  <2>1. /\ pc[Clean] = "c_test" /\ pc' = [pc EXCEPT ![Clean] = "c_unlock"]
        /\ UNCHANGED <<dead_lock, dead_tasks, clearing_tasks>>
    BY <1>2 DEF CleanBlock
  <2>2. \A u \in Threads : InDeadSection(u)' <=> InDeadSection(u)
    BY <2>1, <1>a, <1>b DEF InDeadSection
  <2>3. DeadLockExclusion' BY <2>1, <2>2 DEF DeadInv, DeadLockExclusion
  <2>4. EndedThreadListedOnce'
    BY <2>1, <1>b, <1>c DEF DeadInv, EndedThreadListedOnce
  <2> QED BY <2>3, <2>4 DEF DeadInv
<1>3. CASE CleanUnlock
  <2>1. /\ pc[Clean] = "c_unlock" /\ pc' = [pc EXCEPT ![Clean] = "c_yield"]
        /\ dead_lock' = FALSE /\ UNCHANGED <<dead_tasks, clearing_tasks>>
    BY <1>3 DEF CleanUnlock
  <2>2. DeadLockExclusion' BY <2>1, <1>a, UnlockDeadStep DEF InDeadSection
  <2>3. EndedThreadListedOnce'
    BY <2>1, <1>b, <1>c DEF DeadInv, EndedThreadListedOnce
  <2> QED BY <2>2, <2>3 DEF DeadInv
<1>4. CASE CleanYield BY <1>4, <1>a, OutsideStep DEF CleanYield
<1>5. CASE CleanTake
  <2>1. /\ pc[Clean] = "c_test" /\ pc' = [pc EXCEPT ![Clean] = "c_tasks"]
        /\ dead_lock' = FALSE
        /\ dead_tasks' = <<>> /\ clearing_tasks' = dead_tasks
    BY <1>5 DEF CleanTake
  <2>2. DeadLockExclusion' BY <2>1, <1>a, UnlockDeadStep DEF InDeadSection
  <2>3. EndedThreadListedOnce'
    BY <2>1, <1>b, <1>c DEF DeadInv, EndedThreadListedOnce
  <2> QED BY <2>2, <2>3 DEF DeadInv
<1>6. CASE CleanThread
  <2> DEFINE u == Head(clearing_tasks)
  <2>1. /\ clearing_tasks # <<>> /\ pc' = [pc EXCEPT ![u] = "none"]
        /\ clearing_tasks' = Tail(clearing_tasks)
        /\ UNCHANGED <<dead_lock, dead_tasks>>
    BY <1>6 DEF CleanThread
  <2>2. u = clearing_tasks[1] /\ u \in Threads /\ 1 \in 1 .. Len(clearing_tasks)
    BY <2>1, <1>c
  <2>3. pc[u] = "dead" BY <2>2 DEF DeadInv, EndedThreadListedOnce
  <2>4. \A v \in Threads : InDeadSection(v)' <=> InDeadSection(v)
    BY <2>1, <2>2, <2>3, <1>b DEF InDeadSection
  <2>5. DeadLockExclusion' BY <2>1, <2>4 DEF DeadInv, DeadLockExclusion
  <2>6. /\ Len(clearing_tasks') = Len(clearing_tasks) - 1
        /\ \A i \in 1 .. Len(clearing_tasks) - 1 :
             clearing_tasks'[i] = clearing_tasks[i + 1]
    BY <2>1, <1>c
  <2>7. /\ \A i \in 1 .. Len(clearing_tasks) - 1 : clearing_tasks[i + 1] # u
        /\ \A i \in 1 .. Len(dead_tasks) : dead_tasks[i] # u
    BY <2>2, <1>c DEF DeadInv, EndedThreadListedOnce
  <2>8. EndedThreadListedOnce'
    <3> USE <2>1, <2>6, <2>7, <1>b, <1>c
    <3> HIDE DEF u
    <3>1. \A i \in 1 .. Len(dead_tasks) : pc'[dead_tasks'[i]] = "dead"
      BY DEF DeadInv, EndedThreadListedOnce
    <3>2. \A i \in 1 .. Len(clearing_tasks') : pc'[clearing_tasks'[i]] = "dead"
      BY DEF DeadInv, EndedThreadListedOnce
    <3>3. \A i, j \in 1 .. Len(clearing_tasks') :
            clearing_tasks'[i] = clearing_tasks'[j] => i = j
      BY DEF DeadInv, EndedThreadListedOnce
    <3>4. \A i \in 1 .. Len(dead_tasks), j \in 1 .. Len(clearing_tasks') :
            dead_tasks'[i] # clearing_tasks'[j]
      BY DEF DeadInv, EndedThreadListedOnce
    <3> QED BY <3>1, <3>2, <3>3, <3>4 DEF DeadInv, EndedThreadListedOnce
  <2> QED BY <2>5, <2>8 DEF DeadInv
<1>7. CASE CleanThreadsDone BY <1>7, <1>a, OutsideStep DEF CleanThreadsDone
<1>8. CASE CleanProc BY <1>8, SameDead DEF CleanProc
<1>9. CASE CleanProcsDone BY <1>9, <1>a, OutsideStep DEF CleanProcsDone
<1> QED BY <1>1, <1>2, <1>3, <1>4, <1>5, <1>6, <1>7, <1>8, <1>9 DEF CleanStep

\* The inductive invariant of the dead lists and their lock (scheduler.c:123-167,
\* 297-311).
THEOREM DeadInvariant == Spec => []DeadInv
<1>1. Init => DeadInv
  <2> SUFFICES ASSUME Init PROVE DeadInv OBVIOUS
  <2>1. \A t \in Threads : ~InDeadSection(t) BY DEF Init, InDeadSection
  <2>2. DeadLockExclusion BY <2>1 DEF Init, DeadLockExclusion
  <2>3. EndedThreadListedOnce BY DEF Init, EndedThreadListedOnce
  <2> QED BY <2>2, <2>3 DEF DeadInv
<1>2. TypeOK /\ DeadInv /\ [Next]_vars => DeadInv'
  <2> SUFFICES ASSUME TypeOK, DeadInv, [Next]_vars PROVE DeadInv'
    OBVIOUS
  <2>1. ASSUME NEW t \in UserThreads,
               UserCall(t) \/ Fork(t) \/ Wait(t) \/ Exit(t)
        PROVE  DeadInv'
    BY <2>1, Constants, ForkDead, WaitDead, ExitDead DEF UserCall
  <2>2. CASE CleanStep BY <2>2, CleanDead
  <2>3. CASE Preempt BY <2>3, SameDead DEF Preempt, cleanVars
  <2>4. CASE Idle \/ Halted \/ UNCHANGED vars
    BY <2>4, SameDead DEF Idle, Halted, vars, cleanVars
  <2> QED BY <2>1, <2>2, <2>3, <2>4 DEF Next
<1> QED BY <1>1, <1>2, TypeCorrect, PTL DEF Spec

\* dead_resource_lock is held exactly while one thread is between its lock and
\* its unlock (add_dead_process, cond_var_wait in the clean thread), whatever
\* the interleaving and however many processes there are.
THEOREM DeadLockCorrect == Spec => []DeadLockExclusion
<1>1. DeadInv => DeadLockExclusion BY DEF DeadInv
<1> QED BY <1>1, DeadInvariant, PTL

\* A thread that has ended is handed to destroy_thread exactly once, and no
\* thread that can still run is.
THEOREM EndedThreadsSafe == Spec => []EndedThreadListedOnce
<1>1. DeadInv => EndedThreadListedOnce BY DEF DeadInv
<1> QED BY <1>1, DeadInvariant, PTL

-----------------------------------------------------------------------------
(* Part 2: the tree of processes.  Who acts as a process, whose child it   *)
(* is, and the way of a process that has exited to destroy_process.        *)

\* Where a thread has no process any more, or not yet.
Gone == {"none", "e_par", "e_par2", "x_dead", "dead"}

\* Where a thread prepares a new process, waits for a child, has reaped one,
\* exits, or exits and is not yet filed with its parent.
Forking == {"f_lock", "f_add", "f_sched"}
Looking == {"w_clock", "w_cenq", "w_mark", "w_unlock", "w_yield"}
Reaping == {"w_reap", "ap_lock", "ap_put"}
Exiting == {"e_cli", "e_self", "e_init", "e_init2", "e_par", "e_par2"}
Leaving == {"e_par", "e_par2"}

\* Where the clean thread is.
Cleaning == {"c_lock", "c_test", "c_unlock", "c_yield", "c_tasks", "c_procs"}

\* Thread t acts as process p: t \in Carriers(p) for a user thread t.
Carries(t, p) == \/ self[t] = p /\ pc[t] \notin Gone
                 \/ loc[t] = p /\ pc[t] \in Forking

\* Process c is in somebody's children_processes.
Filed(c) == \E q \in Procs : c \in children[q]

\* Which threads there are, and the process pointer of each.
KindInv ==
  /\ pc[Main] = "idle" /\ pc[Clean] \in Cleaning
  /\ \A t \in UserThreads : pc[t] \notin Cleaning /\ pc[t] # "idle"
  /\ pc[InitThread] \notin Exiting /\ pc[InitThread] \notin Gone
  /\ \A t \in UserThreads : self[t] = InitProc <=> t = InitThread
  /\ process[Main] = KernelProc /\ process[Clean] = KernelProc
  /\ \A t \in UserThreads :
       process[t] = IF pc[t] \in Gone THEN NULL ELSE self[t]

\* A process that has not exited has one thread that acts as it.
CarrierInv ==
  /\ \A t, u \in UserThreads, p \in Procs :
       Carries(t, p) /\ Carries(u, p) => t = u
  /\ \A t \in UserThreads, p \in Procs :
       Carries(t, p) => pcb[p] = "normal" /\ p # KernelProc
  /\ \A p \in Procs : pcb[p] = "normal" /\ p # KernelProc
                        => \E t \in UserThreads : Carries(t, p)
  /\ pcb[KernelProc] = "normal" /\ pcb[InitProc] = "normal"

\* The children of a process are alive or not yet reaped, and have one parent.
ChildInv ==
  \A q \in Procs : \A c \in children[q] :
    /\ pcb[q] = "normal" /\ pcb[c] # "free" /\ parent[c] = q
    /\ c \notin {q, KernelProc, InitProc}

\* What the locals of fork, wait and exit mean.  The parent that process_exit
\* read is out of date only if the child was given to init meanwhile.
CallInv(t) ==
  /\ pc[t] \notin Gone /\ t # InitThread => Filed(self[t])
  /\ pc[t] \in Forking => loc[t] # self[t]
  /\ pc[t] \in {"f_lock", "f_add"} => parent[loc[t]] = NULL
  /\ pc[t] = "f_sched" => Filed(loc[t])
  /\ pc[t] \in Leaving => pcb[self[t]] = "exit" /\ Filed(self[t])
  /\ pc[t] \in Exiting =>
       /\ loc[t] = parent[self[t]] \/ parent[self[t]] = InitProc
       /\ loc[t] # self[t]
  /\ pc[t] \in {"w_clock", "w_cenq"} => loc[t] # 0
  /\ pc[t] \in Looking /\ loc[t] # 0 => loc[t] \in children[self[t]]
  /\ t = InitThread /\ pc[t] \in Looking \cup {"w_lock", "w_scan"}
       => loc[t] = 0

\* A process is filed as exited with one pcb, after its last step as a process.
ZombieInv ==
  /\ \A t, u \in UserThreads :
       pc[t] \in Leaving /\ pc[u] \in Leaving /\ self[t] = self[u] => t = u
  /\ \A q \in Procs : \A c \in exited[q] : pcb[q] # "free" =>
       /\ pcb[c] = "exit" /\ Filed(c) /\ parent[c] \in {q, InitProc}
       /\ \A t \in UserThreads : pc[t] \in Leaving => self[t] # c
  /\ \A q, r \in Procs : \A c \in exited[q] :
       pcb[q] # "free" /\ pcb[r] # "free" /\ c \in exited[r] => q = r

\* A process that was reaped is in one place, and nobody's child.
ReapInv ==
  /\ \A t \in UserThreads : pc[t] \in Reaping =>
       /\ pcb[loc[t]] = "exit" /\ ~Filed(loc[t])
       /\ ~In(dead_processes, loc[t]) /\ ~In(clearing_procs, loc[t])
       /\ \A u \in UserThreads : pc[u] \in Reaping /\ loc[u] = loc[t] => u = t
  /\ \A c \in Procs : In(dead_processes, c) \/ In(clearing_procs, c) =>
       pcb[c] = "exit" /\ ~Filed(c)
  /\ \A c \in Procs : ~(In(dead_processes, c) /\ In(clearing_procs, c))
  /\ Distinct(dead_processes) /\ Distinct(clearing_procs)

TreeInv == /\ KindInv /\ CarrierInv /\ ChildInv /\ ZombieInv /\ ReapInv
           /\ \A t \in UserThreads : CallInv(t)

-----------------------------------------------------------------------------
(* Steps that leave the tree alone *)

\* User threads are threads, and not the kernel's.
LEMMA Users ==
  /\ \A t \in UserThreads : t \in Threads /\ t # Main /\ t # Clean
  /\ \A t \in Threads : t \in {Main, Clean} \/ t \in UserThreads
  /\ InitThread \in UserThreads /\ Main # Clean
  BY Constants DEF UserThreads, Main, Clean, InitThread

\* Every variable of the tree that is not a label or a local.
treeVars == <<self, process, pcb, parent, children, exited, dead_processes,
              clearing_procs>>

\* The labels k and l are of the same part of fork, wait or exit.
SamePart(k, l) ==
  /\ k \in Gone <=> l \in Gone
  /\ k \in Forking <=> l \in Forking
  /\ k = "f_sched" <=> l = "f_sched"
  /\ k \in Leaving <=> l \in Leaving
  /\ k \in Reaping <=> l \in Reaping

\* A step of a user thread inside one part keeps the tree, if what it goes on
\* to is true of its local.
LEMMA QuietStep ==
  ASSUME TypeOK, TreeInv, NEW t \in UserThreads, NEW l, NEW x,
         pc' = [pc EXCEPT ![t] = l], loc' = [loc EXCEPT ![t] = x],
         UNCHANGED treeVars,
         l \notin Cleaning, l # "idle", SamePart(pc[t], l),
         pc[t] \in Gone \cup Forking \cup Reaping => x = loc[t],
         t = InitThread => l \notin Exiting,
         l \in Exiting =>
           /\ x = parent[self[t]] \/ parent[self[t]] = InitProc
           /\ x # self[t],
         l \in {"w_clock", "w_cenq"} => x # 0,
         l \in Looking /\ x # 0 => x \in children[self[t]],
         t = InitThread /\ l \in Looking \cup {"w_lock", "w_scan"} => x = 0
  PROVE  TreeInv'
<1>1. /\ pc'[t] = l /\ loc'[t] = x
      /\ \A u \in Threads : u # t => pc'[u] = pc[u] /\ loc'[u] = loc[u]
      /\ t \in Threads
  BY Users DEF TypeOK
<1>2. UNCHANGED <<self, process, pcb, parent, children, exited,
                  dead_processes, clearing_procs>>
  BY DEF treeVars
<1>3. \A c : Filed(c)' <=> Filed(c) BY <1>2 DEF Filed
<1>4. \A u \in UserThreads, p \in Procs : Carries(u, p)' <=> Carries(u, p)
  BY <1>1, <1>2, Users DEF Carries, SamePart
<1>5. KindInv'
  BY <1>1, <1>2, Users DEF TreeInv, KindInv, SamePart
<1>6. CarrierInv' BY <1>2, <1>4 DEF TreeInv, CarrierInv
<1>7. ChildInv' BY <1>2 DEF TreeInv, ChildInv
<1>8. ZombieInv'
  BY <1>1, <1>2, <1>3, Users DEF TreeInv, ZombieInv, SamePart
<1>9. ReapInv'
  BY <1>1, <1>2, <1>3, Users DEF TreeInv, ReapInv, SamePart
<1>10. ASSUME NEW u \in UserThreads PROVE CallInv(u)'
  <2>1. CASE u # t
    BY <1>1, <1>2, <1>3, <2>1, Users DEF TreeInv, CallInv
  <2>2. CASE u = t
    BY <1>1, <1>2, <1>3, <2>2 DEF TreeInv, CallInv, SamePart, Forking
  <2> QED BY <2>1, <2>2
<1> QED BY <1>5, <1>6, <1>7, <1>8, <1>9, <1>10 DEF TreeInv

\* So does a step of the clean thread, and one that moves no thread.
LEMMA KernelStepQuiet ==
  ASSUME TypeOK, TreeInv, UNCHANGED loc, UNCHANGED treeVars,
         \A u \in Threads : u # Clean => pc'[u] = pc[u],
         pc'[Clean] \in Cleaning
  PROVE  TreeInv'
<1>2. UNCHANGED <<self, process, pcb, parent, children, exited,
                  dead_processes, clearing_procs>>
  BY DEF treeVars
<1>1. \A u \in UserThreads : pc'[u] = pc[u] BY Users
<1>3. \A c : Filed(c)' <=> Filed(c) BY <1>2 DEF Filed
<1>4. \A u \in UserThreads, p \in Procs : Carries(u, p)' <=> Carries(u, p)
  BY <1>1, <1>2 DEF Carries
<1>5. KindInv'
  BY <1>1, <1>2, Users, Constants DEF TreeInv, KindInv
<1>6. CarrierInv' BY <1>2, <1>4 DEF TreeInv, CarrierInv
<1>7. ChildInv' BY <1>2 DEF TreeInv, ChildInv
<1>8. ZombieInv' BY <1>1, <1>2, <1>3 DEF TreeInv, ZombieInv
<1>9. ReapInv' BY <1>1, <1>2, <1>3 DEF TreeInv, ReapInv
<1>10. \A u \in UserThreads : CallInv(u)'
  BY <1>1, <1>2, <1>3 DEF TreeInv, CallInv
<1> QED BY <1>5, <1>6, <1>7, <1>8, <1>9, <1>10 DEF TreeInv

\* A step inside one part that leaves the local alone.
LEMMA QuietMove ==
  ASSUME TypeOK, TreeInv, NEW t \in UserThreads, NEW l,
         pc' = [pc EXCEPT ![t] = l], UNCHANGED loc, UNCHANGED treeVars,
         l \notin Cleaning, l # "idle", SamePart(pc[t], l),
         pc[t] \in Exiting <=> l \in Exiting,
         l \in {"w_clock", "w_cenq"} => loc[t] # 0,
         l \in Looking /\ loc[t] # 0 => loc[t] \in children[self[t]],
         t = InitThread /\ l \in Looking \cup {"w_lock", "w_scan"}
           => loc[t] = 0
  PROVE  TreeInv'
<1> DEFINE x == loc[t]
<1>1. loc' = [loc EXCEPT ![t] = x] BY Users DEF TypeOK
<1>2. l \in Exiting =>
        /\ x = parent[self[t]] \/ parent[self[t]] = InitProc
        /\ x # self[t]
  BY DEF TreeInv, CallInv
<1>3. t = InitThread => l \notin Exiting BY DEF TreeInv, KindInv
<1> HIDE DEF x
<1> QED BY <1>1, <1>2, <1>3, QuietStep DEF x

\* A thread that spins, or a slice that ends.
LEMMA SpinTree ==
  ASSUME TypeOK, TreeInv, Spin
  PROVE  TreeInv'
  BY KernelStepQuiet DEF Spin, procVars, cleanVars, treeVars, TreeInv, KindInv

\* A kernel that halts.
LEMMA CrashTree ==
  ASSUME TypeOK, TreeInv, NEW f, Crash(f)
  PROVE  TreeInv'
  BY KernelStepQuiet DEF Crash, procVars, cleanVars, treeVars, TreeInv, KindInv

\* Taking a process lock, or finding it taken.
LEMMA LockProcTree ==
  ASSUME TypeOK, TreeInv, NEW t \in UserThreads, NEW p, NEW l, LockProc(t, p, l),
         l \notin Cleaning, l # "idle", SamePart(pc[t], l),
         pc[t] \in Exiting <=> l \in Exiting,
         l \in {"w_clock", "w_cenq"} => loc[t] # 0,
         l \in Looking /\ loc[t] # 0 => loc[t] \in children[self[t]],
         t = InitThread /\ l \in Looking \cup {"w_lock", "w_scan"}
           => loc[t] = 0
  PROVE  TreeInv'
<1>1. CASE Spin BY <1>1, SpinTree
<1>2. CASE ~Spin
  <2>1. /\ pc' = [pc EXCEPT ![t] = l] /\ UNCHANGED loc /\ UNCHANGED treeVars
    BY <1>2 DEF LockProc, Goto, schedVars, cleanVars, treeVars
  <2> QED BY <2>1, QuietMove
<1> QED BY <1>1, <1>2

\* The parts of process_wait and process_exit before and after the steps that
\* change the tree, and those of process_fork that only lock.
LEMMA QuietTree ==
  ASSUME TypeOK, TreeInv, NEW t \in UserThreads,
         \/ ForkLock(t)
         \/ WaitCall(t) \/ WaitLock(t) \/ WaitNone(t) \/ WaitFail(t)
         \/ WaitQueueAny(t) \/ WaitChild(t) \/ WaitChildLock(t)
         \/ WaitQueueChild(t) \/ WaitMark(t) \/ WaitUnlock(t)
         \/ WaitYield(t) \/ WaitReap(t) \/ DeadProcLock(t)
         \/ ExitCall(t) \/ ExitCli(t) \/ ExitSelf(t) \/ ExitInitLock(t)
         \/ ExitParentLock(t) \/ ExitThread(t)
  PROVE  TreeInv'
<1> USE DEF schedVars, procVars, cleanVars, treeVars, At, Goto
<1>a. CallInv(t) BY DEF TreeInv
<1>c. t = InitThread => pc[t] \notin Exiting /\ pc[t] \notin Gone
  BY DEF TreeInv, KindInv
<1>s. CASE Spin BY <1>s, SpinTree
<1>k. ASSUME NEW f, Crash(f) PROVE TreeInv' BY <1>k, CrashTree
<1> DEFINE Fits(l) ==
      /\ l \notin Cleaning /\ l # "idle" /\ SamePart(pc[t], l)
      /\ pc[t] \in Exiting <=> l \in Exiting
      /\ l \in {"w_clock", "w_cenq"} => loc[t] # 0
      /\ l \in Looking /\ loc[t] # 0 => loc[t] \in children[self[t]]
      /\ t = InitThread /\ l \in Looking \cup {"w_lock", "w_scan"} => loc[t] = 0
<1>m. ASSUME NEW l, Fits(l), pc' = [pc EXCEPT ![t] = l], UNCHANGED loc,
             UNCHANGED treeVars
      PROVE  TreeInv'
  BY <1>m, QuietMove
<1>l. ASSUME NEW l, Fits(l), NEW p, LockProc(t, p, l) PROVE TreeInv'
  BY <1>l, LockProcTree
<1> USE DEF Cleaning, SamePart, Gone, Forking, Looking, Reaping, Exiting, Leaving
<1>1. CASE ForkLock(t)
  <2>1. Fits("f_add") BY <1>1 DEF ForkLock
  <2> QED BY <1>1, <1>l, <2>1 DEF ForkLock
<1>2. CASE WaitCall(t)
  <2>1. PICK x \in Procs : /\ loc' = [loc EXCEPT ![t] = x]
                           /\ t = InitThread => x = 0
    BY <1>2 DEF WaitCall
  <2>2. pc' = [pc EXCEPT ![t] = "w_lock"] /\ UNCHANGED treeVars /\ pc[t] = "user"
    BY <1>2 DEF WaitCall
  <2> QED BY <2>1, <2>2, QuietStep
<1>3. CASE WaitLock(t)
  <2>1. Fits("w_scan") BY <1>3, <1>a DEF WaitLock, CallInv
  <2> QED BY <1>3, <1>l, <2>1 DEF WaitLock
<1>4. CASE WaitNone(t)
  <2>1. Fits("w_fail") BY <1>4 DEF WaitNone
  <2> QED BY <1>4, <1>m, <2>1 DEF WaitNone
<1>5. CASE WaitFail(t)
  <2>1. /\ loc' = [loc EXCEPT ![t] = NULL] /\ pc' = [pc EXCEPT ![t] = "user"]
        /\ UNCHANGED treeVars /\ pc[t] = "w_fail"
    BY <1>5 DEF WaitFail
  <2> QED BY <2>1, QuietStep
<1>6. CASE WaitQueueAny(t)
  <2>1. Fits("w_mark") BY <1>6 DEF WaitQueueAny
  <2> QED BY <1>6, <1>m, <2>1 DEF WaitQueueAny
<1>7. CASE WaitChild(t)
  <2>1. loc[t] # 0 /\ loc[t] \in children[self[t]]
    BY <1>7 DEF WaitChild, HasChild
  <2>2. Fits("w_clock") BY <1>7, <1>a, <2>1 DEF WaitChild, CallInv
  <2> QED BY <1>7, <1>m, <2>2 DEF WaitChild
<1>8. CASE WaitChildLock(t)
  <2>1. Fits("w_cenq") BY <1>8, <1>a DEF WaitChildLock, CallInv
  <2> QED BY <1>8, <1>l, <2>1 DEF WaitChildLock
<1>9. CASE WaitQueueChild(t)
  <2>1. Fits("w_mark") BY <1>9, <1>a DEF WaitQueueChild, CallInv
  <2> QED BY <1>9, <1>m, <2>1 DEF WaitQueueChild
<1>10. CASE WaitMark(t)
  <2>1. Fits("w_unlock") BY <1>10, <1>a DEF WaitMark, CallInv
  <2> QED BY <1>10, <1>m, <2>1 DEF WaitMark
<1>11. CASE WaitUnlock(t)
  <2>1. Fits("w_yield") BY <1>11, <1>a DEF WaitUnlock, CallInv
  <2> QED BY <1>11, <1>m, <2>1 DEF WaitUnlock
<1>12. CASE WaitYield(t)
  <2>1. Fits("w_lock") BY <1>12, <1>a DEF WaitYield, CallInv
  <2> QED BY <1>12, <1>m, <2>1 DEF WaitYield
<1>13. CASE WaitReap(t)
  <2>1. Fits("ap_lock") BY <1>13 DEF WaitReap
  <2> QED BY <1>13, <1>m, <2>1 DEF WaitReap
<1>14. CASE DeadProcLock(t) /\ ~Spin
  <2>1. Fits("ap_put") BY <1>14 DEF DeadProcLock
  <2> QED BY <1>14, <1>m, <2>1 DEF DeadProcLock, LockDead
<1>15. CASE ExitCall(t)
  <2>1. CASE parent[self[t]] = NULL BY <1>15, <1>k, <2>1 DEF ExitCall
  <2>2. CASE parent[self[t]] # NULL
    <3> DEFINE x == parent[self[t]]
    <3>1. /\ loc' = [loc EXCEPT ![t] = x] /\ pc' = [pc EXCEPT ![t] = "e_cli"]
          /\ UNCHANGED treeVars /\ pc[t] = "user" /\ t # InitThread
      BY <1>15, <2>2 DEF ExitCall
    <3>2. x # self[t]
      BY <1>a, <3>1 DEF CallInv, Filed, TreeInv, ChildInv
    <3> HIDE DEF x
    <3>3. x = parent[self[t]] BY DEF x
    <3> QED BY <3>1, <3>2, <3>3, QuietStep
  <2> QED BY <2>1, <2>2
<1>16. CASE ExitCli(t)
  <2>1. Fits("e_self") BY <1>16 DEF ExitCli
  <2> QED BY <1>16, <1>m, <2>1 DEF ExitCli
<1>17. CASE ExitSelf(t) /\ ~Spin
  <2>1. Fits("e_init") BY <1>17 DEF ExitSelf
  <2> QED BY <1>17, <1>m, <2>1 DEF ExitSelf
<1>18. CASE ExitInitLock(t)
  <2>1. Fits("e_init2") BY <1>18 DEF ExitInitLock
  <2> QED BY <1>18, <1>l, <2>1 DEF ExitInitLock
<1>19. CASE ExitParentLock(t)
  <2>1. Fits("e_par2") BY <1>19 DEF ExitParentLock
  <2> QED BY <1>19, <1>k, <1>l, <2>1 DEF ExitParentLock
<1>20. CASE ExitThread(t) /\ ~Spin
  <2>1. Fits("dead") BY <1>20 DEF ExitThread
  <2> QED BY <1>20, <1>m, <2>1 DEF ExitThread
<1> QED
  <2> HIDE DEF Fits
  <2>1. CASE DeadProcLock(t) /\ Spin BY <2>1, <1>s
  <2> QED
  BY <1>s, <1>1, <1>2, <1>3, <1>4, <1>5, <1>6, <1>7, <1>8, <1>9, <1>10, <1>11,
     <1>12, <1>13, <1>14, <1>15, <1>16, <1>17, <1>18, <1>19, <1>20

-----------------------------------------------------------------------------
(* process_fork *)

\* A user thread with a process is the only one that acts as it.
LEMMA Carrier ==
  ASSUME TypeOK, TreeInv, NEW t \in UserThreads
  PROVE  /\ self[t] \in Procs
         /\ pc[t] \notin Gone =>
              /\ Carries(t, self[t]) /\ pcb[self[t]] = "normal"
              /\ self[t] # KernelProc
              /\ \A u \in UserThreads : pc[u] \notin Gone /\ self[u] = self[t]
                                          => u = t
              /\ \A u \in UserThreads : pc[u] \in Leaving => self[u] # self[t]
         /\ pc[t] \in Forking =>
              /\ loc[t] \in Procs /\ Carries(t, loc[t])
              /\ pcb[loc[t]] = "normal"
              /\ loc[t] # KernelProc /\ loc[t] # InitProc
              /\ \A u \in UserThreads :
                   /\ pc[u] \notin Gone => self[u] # loc[t]
                   /\ pc[u] \in Forking /\ loc[u] = loc[t] => u = t
                   /\ pc[u] \in Leaving => self[u] # loc[t]
<1>1. /\ \A u \in UserThreads : self[u] \in Procs /\ u \in Threads
      /\ InitThread \in UserThreads
  BY Users DEF TypeOK
<1>2. pc[t] \in Forking => loc[t] \in Procs /\ pc[t] \notin Gone
  BY Users DEF TypeOK, LocTyped, Forking, Gone, UsesLoc
<1>3. \A u \in UserThreads : pc[u] \in Leaving => pcb[self[u]] = "exit"
  BY DEF TreeInv, CallInv
<1>4. \A u \in UserThreads : pc[u] \notin Gone => Carries(u, self[u])
  BY DEF Carries
<1>5. pc[t] \in Forking => Carries(t, loc[t]) BY DEF Carries
<1>6. pc[InitThread] \notin Gone /\ self[InitThread] = InitProc
  BY <1>1 DEF TreeInv, KindInv
<1>7. pc[t] \in Forking => loc[t] # self[t] BY DEF TreeInv, CallInv
<1>8. \A u \in UserThreads, p \in Procs : Carries(t, p) /\ Carries(u, p) => t = u
  BY DEF TreeInv, CarrierInv
<1>9. \A p \in Procs : Carries(t, p) => pcb[p] = "normal" /\ p # KernelProc
  BY DEF TreeInv, CarrierInv
<1>10. pc[t] \notin Gone =>
         /\ Carries(t, self[t]) /\ pcb[self[t]] = "normal"
         /\ self[t] # KernelProc
         /\ \A u \in UserThreads : pc[u] \notin Gone /\ self[u] = self[t] => u = t
         /\ \A u \in UserThreads : pc[u] \in Leaving => self[u] # self[t]
  BY <1>1, <1>3, <1>4, <1>8, <1>9
<1>11. ASSUME pc[t] \in Forking
       PROVE  /\ loc[t] # InitProc
              /\ \A u \in UserThreads :
                   /\ pc[u] \notin Gone => self[u] # loc[t]
                   /\ pc[u] \in Forking /\ loc[u] = loc[t] => u = t
                   /\ pc[u] \in Leaving => self[u] # loc[t]
  <2>1. \A u \in UserThreads : pc[u] \notin Gone => self[u] # loc[t]
    BY <1>1, <1>2, <1>4, <1>5, <1>7, <1>8, <1>11
  <2>2. \A u \in UserThreads : pc[u] \in Forking /\ loc[u] = loc[t] => u = t
    BY <1>2, <1>5, <1>8, <1>11 DEF Carries
  <2>3. \A u \in UserThreads : pc[u] \in Leaving => self[u] # loc[t]
    BY <1>2, <1>3, <1>5, <1>9, <1>11
  <2> QED BY <1>1, <1>6, <2>1, <2>2, <2>3
<1> QED BY <1>1, <1>2, <1>5, <1>9, <1>10, <1>11

\* create_process takes an id that nobody acts as, that is nobody's child and
\* on none of the lists.
LEMMA ForkCreateTree ==
  ASSUME TypeOK, TreeInv, NEW t \in UserThreads, ForkCreate(t)
  PROVE  TreeInv'
<1> USE DEF schedVars, cleanVars, At, Goto
<1> DEFINE free == {p \in Procs : pcb[p] = "free"}
<1>1. CASE free = {} BY <1>1, CrashTree DEF ForkCreate
<1>2. CASE free # {}
  <2>1. PICK p \in Procs :
          /\ pcb[p] = "free"
          /\ loc' = [loc EXCEPT ![t] = p]
          /\ pcb' = [pcb EXCEPT ![p] = "normal"]
          /\ parent' = [parent EXCEPT ![p] = NULL]
          /\ children' = [children EXCEPT ![p] = {}]
          /\ exited' = [exited EXCEPT ![p] = {}]
          /\ pc' = [pc EXCEPT ![t] = "f_lock"]
          /\ UNCHANGED <<self, process, dead_processes, clearing_procs>>
    BY <1>2 DEF ForkCreate, First
  <2>2. /\ pc[t] \notin Gone /\ pc[t] \notin Forking /\ pc[t] \notin Leaving
        /\ pc[t] \notin Reaping /\ pc[t] \notin Exiting
    BY DEF ForkCreate, MayFork, Gone, Forking, Leaving, Reaping, Exiting
  <2>3. /\ pc'[t] = "f_lock" /\ loc'[t] = p
        /\ \A u \in Threads : u # t => pc'[u] = pc[u] /\ loc'[u] = loc[u]
        /\ pcb'[p] = "normal" /\ parent'[p] = NULL
        /\ children'[p] = {} /\ exited'[p] = {}
        /\ \A q \in Procs : q # p =>
             /\ pcb'[q] = pcb[q] /\ parent'[q] = parent[q]
             /\ children'[q] = children[q] /\ exited'[q] = exited[q]
    BY <2>1, Users DEF TypeOK
  <2>4. /\ "f_lock" \in Forking /\ "f_lock" \notin Gone /\ "f_lock" \notin Leaving
        /\ "f_lock" \notin Reaping /\ "f_lock" \notin Exiting
        /\ "f_lock" \notin Cleaning /\ "f_lock" \notin Looking
    BY DEF Gone, Forking, Leaving, Reaping, Exiting, Cleaning, Looking
  <2>5. /\ \A u \in UserThreads : ~Carries(u, p)
        /\ p # KernelProc /\ p # InitProc
        /\ \A u \in UserThreads : pc[u] \notin Gone => self[u] # p
        /\ \A u \in UserThreads : pc[u] \in Leaving => self[u] # p
    <3>1. \A u \in UserThreads : pc[u] \in Leaving => self[u] # p
      BY <2>1 DEF TreeInv, CallInv
    <3>2. \A u \in UserThreads : ~Carries(u, p)
      BY <2>1 DEF TreeInv, CarrierInv
    <3> QED BY <2>1, <3>1, <3>2 DEF TreeInv, CarrierInv, Carries
  <2>6. children[p] = {} /\ ~Filed(p)
    BY <2>1 DEF TreeInv, ChildInv, Filed
  <2>7. \A c : Filed(c)' <=> Filed(c)
    BY <2>3, <2>6 DEF Filed
  <2>8. \A u \in UserThreads, q \in Procs :
          Carries(u, q)' <=> Carries(u, q) \/ (u = t /\ q = p)
    BY <2>1, <2>2, <2>3, <2>4, Users DEF Carries
  <2>9. KindInv'
    BY <2>1, <2>2, <2>3, <2>4, Users DEF TreeInv, KindInv
  <2>10. CarrierInv'
    <3>1. \A v, u \in UserThreads, q \in Procs :
            Carries(v, q)' /\ Carries(u, q)' => v = u
      BY <2>5, <2>8 DEF TreeInv, CarrierInv
    <3>2. \A u \in UserThreads, q \in Procs :
            Carries(u, q)' => pcb'[q] = "normal" /\ q # KernelProc
      BY <2>3, <2>5, <2>8 DEF TreeInv, CarrierInv
    <3>3. \A q \in Procs : pcb'[q] = "normal" /\ q # KernelProc
                             => \E u \in UserThreads : Carries(u, q)'
      BY <2>3, <2>8 DEF TreeInv, CarrierInv
    <3> QED BY <2>3, <2>5, <3>1, <3>2, <3>3, Constants DEF TreeInv, CarrierInv
  <2>11. ChildInv'
    <3>1. \A q \in Procs : \A c \in children[q] : c \in Procs BY DEF TypeOK
    <3> QED BY <2>1, <2>3, <2>6, <3>1 DEF TreeInv, ChildInv
  <2>12. \A q \in Procs : \A c \in exited[q] : c \in Procs BY DEF TypeOK
  <2>13. ZombieInv'
    <3>1. \A u \in UserThreads : pc'[u] \in Leaving <=> pc[u] \in Leaving
      BY <2>2, <2>3, <2>4, Users
    <3>2. \A v, u \in UserThreads :
            pc'[v] \in Leaving /\ pc'[u] \in Leaving /\ self'[v] = self'[u] => v = u
      BY <2>1, <3>1 DEF TreeInv, ZombieInv
    <3>3. ASSUME NEW q \in Procs, NEW c \in exited'[q], pcb'[q] # "free"
          PROVE  /\ pcb'[c] = "exit" /\ Filed(c)' /\ parent'[c] \in {q, InitProc}
                 /\ \A v \in UserThreads : pc'[v] \in Leaving => self'[v] # c
      <4>1. q # p /\ c \in exited[q] /\ pcb[q] # "free" BY <2>3, <3>3
      <4>2. /\ pcb[c] = "exit" /\ Filed(c) /\ parent[c] \in {q, InitProc}
            /\ \A v \in UserThreads : pc[v] \in Leaving => self[v] # c
        BY <4>1 DEF TreeInv, ZombieInv
      <4>3. c # p /\ c \in Procs BY <2>1, <2>12, <4>1, <4>2
      <4> QED BY <2>1, <2>3, <2>7, <3>1, <4>2, <4>3
    <3>4. \A q, r \in Procs : \A c \in exited'[q] :
            pcb'[q] # "free" /\ pcb'[r] # "free" /\ c \in exited'[r] => q = r
      BY <2>3 DEF TreeInv, ZombieInv
    <3> QED BY <3>2, <3>3, <3>4 DEF ZombieInv
  <2>14. ReapInv'
    <3>1. \A u \in UserThreads : pc'[u] \in Reaping <=> pc[u] \in Reaping
      BY <2>2, <2>3, <2>4, Users
    <3>2. \A u \in UserThreads : pc[u] \in Reaping =>
            u # t /\ loc[u] \in Procs /\ loc[u] # p
      BY <2>1, <2>2, Users
         DEF TreeInv, ReapInv, TypeOK, LocTyped, Reaping, UsesLoc
    <3> QED BY <2>1, <2>3, <2>7, <3>1, <3>2, Users DEF TreeInv, ReapInv
  <2>15. ASSUME NEW u \in UserThreads PROVE CallInv(u)'
    <3>1. CASE u = t
      <4>1. self[t] # p BY <2>2, <2>5
      <4> QED BY <2>1, <2>2, <2>3, <2>4, <2>7, <3>1, <4>1
              DEF TreeInv, CallInv, Leaving
    <3>2. CASE u # t
      <4>1. CallInv(u) BY DEF TreeInv
      <4>2. pc'[u] = pc[u] /\ loc'[u] = loc[u] /\ self'[u] = self[u] /\ u \in Threads
        BY <2>1, <2>3, <3>2, Users
      <4>3. pc[u] \in Exiting => self[u] # p /\ self[u] \in Procs
        BY <2>5, <4>2 DEF TypeOK, Exiting, Leaving, Gone
      <4>4. pc[u] \in {"f_lock", "f_add"} => parent'[loc[u]] = NULL
        BY <2>3, <4>1, <4>2 DEF CallInv, TypeOK, LocTyped, UsesLoc
      <4>5. pc[u] \in Leaving => pcb'[self[u]] = "exit"
        BY <2>3, <2>5, <4>1, <4>2 DEF CallInv, TypeOK
      <4>6. pc[u] \in Looking /\ loc[u] # 0 => loc[u] \in children'[self[u]]
        BY <2>3, <2>6, <4>1, <4>2 DEF CallInv, TypeOK
      <4> QED BY <2>3, <2>7, <4>1, <4>2, <4>3, <4>4, <4>5, <4>6 DEF CallInv
    <3> QED BY <3>1, <3>2
  <2> QED BY <2>9, <2>10, <2>11, <2>13, <2>14, <2>15 DEF TreeInv
<1> QED BY <1>1, <1>2

\* add_child_process files the new process, which had no parent, with one.
LEMMA ForkAddTree ==
  ASSUME TypeOK, TreeInv, NEW t \in UserThreads, ForkAdd(t)
  PROVE  TreeInv'
<1> USE DEF schedVars, cleanVars, At, Goto
<1> DEFINE p == loc[t]  s == self[t]
<1>1. /\ pc[t] = "f_add" /\ pc' = [pc EXCEPT ![t] = "f_sched"]
      /\ children' = [children EXCEPT ![s] = @ \cup {p}]
      /\ parent' = [parent EXCEPT ![p] = s]
      /\ UNCHANGED <<self, process, loc, pcb, exited, dead_processes,
                     clearing_procs>>
  BY DEF ForkAdd
<1>2. pc[t] \in Forking /\ pc[t] \notin Gone BY <1>1 DEF Forking, Gone
<1>3. /\ s \in Procs /\ pcb[s] = "normal"
      /\ p \in Procs /\ pcb[p] = "normal" /\ p # KernelProc /\ p # InitProc
      /\ \A u \in UserThreads :
           /\ pc[u] \notin Gone => self[u] # p
           /\ pc[u] \in Forking /\ loc[u] = p => u = t
           /\ pc[u] \in Leaving => self[u] # p
  BY <1>2, Carrier
<1>4. CallInv(t) BY DEF TreeInv
<1>5. p # s /\ parent[p] = NULL BY <1>1, <1>2, <1>4 DEF CallInv
<1> HIDE DEF p, s
<1>6. /\ pc'[t] = "f_sched"
      /\ \A u \in Threads : u # t => pc'[u] = pc[u]
      /\ parent'[p] = s /\ \A c \in Procs : c # p => parent'[c] = parent[c]
      /\ children'[s] = children[s] \cup {p}
      /\ \A q \in Procs : q # s => children'[q] = children[q]
  BY <1>1, <1>3, Users DEF TypeOK
<1>7. SamePart(pc[t], "f_lock") /\ "f_sched" \in Forking /\ "f_sched" \notin Gone
      /\ "f_sched" \notin Leaving /\ "f_sched" \notin Reaping
      /\ "f_sched" \notin Exiting /\ "f_sched" \notin Cleaning
      /\ "f_sched" \notin Looking
      /\ pc[t] \notin Leaving /\ pc[t] \notin Reaping
  BY <1>1 DEF SamePart, Gone, Forking, Leaving, Reaping, Exiting, Cleaning, Looking
<1>8. ~Filed(p)
  <2>1. NULL \notin Procs BY DEF NULL, Procs
  <2> QED BY <1>5, <2>1 DEF TreeInv, ChildInv, Filed
<1>9. \A c : Filed(c)' <=> Filed(c) \/ c = p
  BY <1>3, <1>6 DEF Filed
<1>10. \A u \in UserThreads, q \in Procs : Carries(u, q)' <=> Carries(u, q)
  BY <1>1, <1>2, <1>6, <1>7, Users DEF Carries
<1>11. KindInv'
  BY <1>1, <1>2, <1>6, <1>7, Users DEF TreeInv, KindInv
<1>12. CarrierInv' BY <1>1, <1>10 DEF TreeInv, CarrierInv
<1>13. ChildInv'
  <2>1. ASSUME NEW q \in Procs, NEW c \in children'[q]
        PROVE  /\ pcb[q] = "normal" /\ pcb[c] # "free" /\ parent'[c] = q
               /\ c \notin {q, KernelProc, InitProc}
    <3>1. CASE c = p /\ q = s BY <1>3, <1>5, <1>6, <3>1
    <3>2. CASE c \in children[q]
      <4>1. c # p /\ c \in Procs BY <1>8, <3>2 DEF Filed, TypeOK
      <4> QED BY <1>6, <3>2, <4>1 DEF TreeInv, ChildInv
    <3> QED BY <1>6, <2>1, <3>1, <3>2
  <2> QED BY <1>1, <2>1 DEF ChildInv
<1>14. ZombieInv'
  <2>1. \A u \in UserThreads : pc'[u] \in Leaving <=> pc[u] \in Leaving
    BY <1>6, <1>7, Users
  <2>2. \A q \in Procs : \A c \in exited[q] : pcb[q] # "free" => c \in Procs /\ c # p
    BY <1>3 DEF TypeOK, TreeInv, ZombieInv
  <2> QED BY <1>1, <1>6, <1>9, <2>1, <2>2 DEF TreeInv, ZombieInv
<1>15. ReapInv'
  <2>1. \A u \in UserThreads : pc'[u] \in Reaping <=> pc[u] \in Reaping
    BY <1>6, <1>7, Users
  <2>2. \A u \in UserThreads : pc[u] \in Reaping => loc[u] # p
    BY <1>3 DEF TreeInv, ReapInv
  <2>3. \A c \in Procs : In(dead_processes, c) \/ In(clearing_procs, c) => c # p
    BY <1>3 DEF TreeInv, ReapInv
  <2> QED BY <1>1, <1>9, <2>1, <2>2, <2>3 DEF TreeInv, ReapInv
<1>16. ASSUME NEW u \in UserThreads PROVE CallInv(u)'
  <2>1. CASE u = t
    BY <1>1, <1>2, <1>4, <1>5, <1>6, <1>7, <1>9, <2>1 DEF CallInv, p, s
  <2>2. CASE u # t
    <3>1. CallInv(u) BY DEF TreeInv
    <3>2. /\ pc'[u] = pc[u] /\ loc'[u] = loc[u] /\ self'[u] = self[u]
          /\ self[u] \in Procs /\ pcb' = pcb /\ u \in Threads
      BY <1>1, <1>6, <2>2, Users DEF TypeOK
    <3>3. pc[u] \in Exiting => parent'[self[u]] = parent[self[u]]
      BY <1>3, <1>6, <3>2 DEF Exiting, Leaving, Gone
    <3>4. pc[u] \in {"f_lock", "f_add"} => parent'[loc[u]] = parent[loc[u]]
      BY <1>3, <1>6, <2>2, <3>2 DEF TypeOK, LocTyped, UsesLoc, Forking
    <3>5. children[self[u]] \subseteq children'[self[u]] BY <1>6, <3>2
    <3> QED BY <1>9, <3>1, <3>2, <3>3, <3>4, <3>5 DEF CallInv
  <2> QED BY <2>1, <2>2
<1> QED BY <1>11, <1>12, <1>13, <1>14, <1>15, <1>16 DEF TreeInv

\* fork_crt_thread hands the new process from the thread that forked to one
\* that was nobody's.
LEMMA ForkSchedTree ==
  ASSUME TypeOK, TreeInv, NEW t \in UserThreads, ForkSched(t)
  PROVE  TreeInv'
<1> USE DEF procVars, cleanVars, At
<1> DEFINE free == {v \in Threads : pc[v] = "none"}
<1>1. CASE free = {} BY <1>1, CrashTree DEF ForkSched
<1>2. CASE free # {}
  <2> DEFINE p == loc[t]
  <2>1. PICK n \in Threads :
          /\ pc[n] = "none" /\ pc[t] = "f_sched"
          /\ process' = [process EXCEPT ![n] = p]
          /\ self' = [self EXCEPT ![n] = p]
          /\ loc' = [loc EXCEPT ![t] = NULL]
          /\ pc' = [pc EXCEPT ![t] = "user", ![n] = "user"]
          /\ UNCHANGED <<pcb, parent, children, exited, dead_processes,
                         clearing_procs>>
    BY <1>2 DEF ForkSched, First
  <2>2. pc[t] \in Forking /\ pc[t] \notin Gone BY <2>1 DEF Forking, Gone
  <2>3. /\ p \in Procs /\ pcb[p] = "normal" /\ p # KernelProc /\ p # InitProc
        /\ \A u \in UserThreads :
             /\ pc[u] \notin Gone => self[u] # p
             /\ pc[u] \in Forking /\ loc[u] = p => u = t
             /\ pc[u] \in Leaving => self[u] # p
        /\ Carries(t, p)
    BY <2>2, Carrier
  <2>4. Filed(p) BY <2>1 DEF TreeInv, CallInv
  <2>5. n \in UserThreads /\ n # t /\ n # InitThread
    <3>1. pc[Main] # "none" /\ pc[Clean] # "none" /\ pc[InitThread] # "none"
      BY DEF TreeInv, KindInv, Cleaning, Gone
    <3> QED BY <2>1, <3>1, Users
  <2> HIDE DEF p
  <2>6. /\ pc'[t] = "user" /\ pc'[n] = "user" /\ loc'[t] = NULL
        /\ loc'[n] = loc[n] /\ self'[t] = self[t] /\ process'[t] = process[t]
        /\ self'[n] = p /\ process'[n] = p
        /\ \A u \in Threads : u \notin {t, n} =>
             /\ pc'[u] = pc[u] /\ loc'[u] = loc[u] /\ self'[u] = self[u]
             /\ process'[u] = process[u]
    <3>1. pc \in [Threads -> Labels] /\ t \in Threads BY Users DEF TypeOK
    <3>2. /\ pc'[t] = "user" /\ pc'[n] = "user"
          /\ \A u \in Threads : u \notin {t, n} => pc'[u] = pc[u]
      BY <2>1, <2>5, <3>1
    <3>3. /\ loc \in [Threads -> Procs \cup {NULL}] /\ self \in [Threads -> Procs]
          /\ process \in [Threads -> Procs \cup {NULL}]
      BY DEF TypeOK, SchedTypeOK
    <3> QED BY <2>1, <2>5, <3>1, <3>2, <3>3
  <2>7. /\ "user" \notin Forking /\ "user" \notin Gone /\ "user" \notin Leaving
        /\ "user" \notin Reaping /\ "user" \notin Exiting
        /\ "user" \notin Cleaning /\ "user" \notin Looking
        /\ pc[t] \notin Leaving /\ pc[n] \notin Leaving
        /\ pc[t] \notin Reaping /\ pc[n] \notin Reaping
        /\ pc[n] \notin Forking /\ pc[n] \in Gone
    BY <2>1 DEF Gone, Forking, Leaving, Reaping, Exiting, Cleaning, Looking
  <2>8. \A c : Filed(c)' <=> Filed(c) BY <2>1 DEF Filed
  <2>9. ASSUME NEW u \in UserThreads, NEW q \in Procs
        PROVE  Carries(u, q)' <=> \/ u = n /\ q = p
                                  \/ Carries(u, q) /\ ~(u = t /\ q = p)
    <3>1. CASE u = n BY <2>5, <2>6, <2>7, <3>1 DEF Carries
    <3>2. CASE u = t
      <4>1. self[t] # p BY <2>2, <2>3
      <4> QED BY <2>2, <2>5, <2>6, <2>7, <3>2, <4>1 DEF Carries, p
    <3>3. CASE u # n /\ u # t BY <2>6, <3>3, Users DEF Carries
    <3> QED BY <3>1, <3>2, <3>3
  <2>10. KindInv'
    <3>1. self[t] = InitProc <=> t = InitThread BY DEF TreeInv, KindInv
    <3>2. ASSUME NEW u \in UserThreads
          PROVE  /\ pc'[u] \notin Cleaning /\ pc'[u] # "idle"
                 /\ self'[u] = InitProc <=> u = InitThread
                 /\ process'[u] = IF pc'[u] \in Gone THEN NULL ELSE self'[u]
      <4>1. CASE u = t
        BY <2>2, <2>6, <2>7, <3>1, <4>1 DEF TreeInv, KindInv
      <4>2. CASE u = n BY <2>3, <2>5, <2>6, <2>7, <4>2
      <4>3. CASE u # t /\ u # n BY <2>6, <4>3, Users DEF TreeInv, KindInv
      <4> QED BY <4>1, <4>2, <4>3
    <3>3. pc'[InitThread] \notin Exiting /\ pc'[InitThread] \notin Gone
      BY <2>5, <2>6, <2>7, Users DEF TreeInv, KindInv
    <3>4. /\ pc'[Main] = pc[Main] /\ pc'[Clean] = pc[Clean]
          /\ process'[Main] = process[Main] /\ process'[Clean] = process[Clean]
      BY <2>5, <2>6, Users, Constants
    <3> QED BY <3>2, <3>3, <3>4 DEF TreeInv, KindInv
  <2>11. CarrierInv'
    <3>1. \A u \in UserThreads : Carries(u, p) => u = t
      BY <2>3 DEF TreeInv, CarrierInv
    <3>2. \A v, u \in UserThreads, q \in Procs :
            Carries(v, q)' /\ Carries(u, q)' => v = u
      BY <2>9, <3>1 DEF TreeInv, CarrierInv
    <3>3. \A u \in UserThreads, q \in Procs :
            Carries(u, q)' => pcb'[q] = "normal" /\ q # KernelProc
      BY <2>1, <2>3, <2>9 DEF TreeInv, CarrierInv
    <3>4. ASSUME NEW q \in Procs, pcb[q] = "normal", q # KernelProc
          PROVE  \E u \in UserThreads : Carries(u, q)'
      <4>1. CASE q = p BY <2>5, <2>9, <4>1
      <4>2. CASE q # p
        <5>1. PICK u \in UserThreads : Carries(u, q)
          BY <3>4 DEF TreeInv, CarrierInv
        <5> QED BY <2>9, <4>2, <5>1
      <4> QED BY <4>1, <4>2
    <3> QED BY <2>1, <3>2, <3>3, <3>4 DEF TreeInv, CarrierInv
  <2>12. ChildInv' BY <2>1 DEF TreeInv, ChildInv
  <2>13. \A u \in UserThreads :
           /\ pc'[u] \in Leaving <=> pc[u] \in Leaving
           /\ pc'[u] \in Reaping <=> pc[u] \in Reaping
           /\ pc[u] \in Leaving => self'[u] = self[u]
           /\ pc[u] \in Reaping => loc'[u] = loc[u]
    BY <2>6, <2>7, Users
  <2>14. ZombieInv'
    <3>1. \A v, u \in UserThreads :
            pc'[v] \in Leaving /\ pc'[u] \in Leaving /\ self'[v] = self'[u] => v = u
      BY <2>13 DEF TreeInv, ZombieInv
    <3>2. \A q \in Procs : \A c \in exited[q] : pcb[q] # "free" =>
            \A u \in UserThreads : pc'[u] \in Leaving => self'[u] # c
      BY <2>13 DEF TreeInv, ZombieInv
    <3>3. UNCHANGED <<pcb, parent, exited>> BY <2>1
    <3>4. \A q \in Procs : \A c \in exited[q] : pcb[q] # "free" =>
            pcb[c] = "exit" /\ Filed(c)' /\ parent[c] \in {q, InitProc}
      BY <2>8 DEF TreeInv, ZombieInv
    <3>5. \A q, r \in Procs : \A c \in exited[q] :
            pcb[q] # "free" /\ pcb[r] # "free" /\ c \in exited[r] => q = r
      BY DEF TreeInv, ZombieInv
    <3> QED BY <3>1, <3>2, <3>3, <3>4, <3>5 DEF ZombieInv
  <2>15. ReapInv'
    <3>1. \A u \in UserThreads : pc'[u] \in Reaping =>
            pc[u] \in Reaping /\ loc'[u] = loc[u]
      BY <2>13
    <3> QED BY <2>1, <2>8, <3>1, ZenonT(40) DEF TreeInv, ReapInv
  <2>16. ASSUME NEW u \in UserThreads PROVE CallInv(u)'
    <3>1. CASE u = t
      BY <2>2, <2>6, <2>7, <2>8, <3>1 DEF TreeInv, CallInv, Forking
    <3>2. CASE u = n
      BY <2>4, <2>5, <2>6, <2>7, <2>8, <3>2 DEF TreeInv, CallInv, Forking
    <3>3. CASE u # t /\ u # n
      <4>1. /\ pc'[u] = pc[u] /\ loc'[u] = loc[u] /\ self'[u] = self[u]
            /\ UNCHANGED <<pcb, parent, children>>
        BY <2>1, <2>6, <3>3, Users
      <4>2. CallInv(u) BY DEF TreeInv
      <4> QED BY <2>8, <4>1, <4>2 DEF CallInv
    <3> QED BY <3>1, <3>2, <3>3
  <2> QED BY <2>10, <2>11, <2>12, <2>14, <2>15, <2>16 DEF TreeInv
<1> QED BY <1>1, <1>2

-----------------------------------------------------------------------------
(* process_wait *)

\* The child that wait takes was filed as exited and not reaped before.
LEMMA WaitTakeTree ==
  ASSUME TypeOK, TreeInv, NEW t \in UserThreads, WaitTake(t)
  PROVE  TreeInv'
<1> USE DEF schedVars, cleanVars, At, Goto
<1> DEFINE s == self[t]
<1>1. CASE Crash("not_a_child") BY <1>1, CrashTree
<1>2. CASE ~Crash("not_a_child")
  <2>1. PICK c : /\ c \in exited[s] /\ c \in children[s]
                 /\ exited' = [exited EXCEPT ![s] = @ \ {c}]
                 /\ children' = [children EXCEPT ![s] = @ \ {c}]
                 /\ loc' = [loc EXCEPT ![t] = c]
                 /\ pc[t] = "w_scan" /\ pc' = [pc EXCEPT ![t] = "w_reap"]
                 /\ UNCHANGED <<self, process, pcb, parent, dead_processes,
                                clearing_procs>>
    BY <1>2 DEF WaitTake, Takable
  <2>2. /\ "w_reap" \notin Forking /\ "w_reap" \notin Gone
        /\ "w_reap" \notin Leaving /\ "w_reap" \in Reaping
        /\ "w_reap" \notin Exiting /\ "w_reap" \notin Cleaning
        /\ "w_reap" \notin Looking
        /\ pc[t] \notin Gone /\ pc[t] \notin Forking /\ pc[t] \notin Leaving
        /\ pc[t] \notin Reaping
    BY <2>1 DEF Gone, Forking, Leaving, Reaping, Exiting, Cleaning, Looking
  <2>3. /\ s \in Procs /\ pcb[s] = "normal"
        /\ \A u \in UserThreads : pc[u] \notin Gone /\ self[u] = s => u = t
    BY <2>2, Carrier
  <2>4. c \in Procs BY <2>1, <2>3 DEF TypeOK
  <2>5. /\ pcb[c] = "exit" /\ Filed(c) /\ parent[c] = s
        /\ \A u \in UserThreads : pc[u] \in Leaving => self[u] # c
        /\ \A r \in Procs : pcb[r] # "free" /\ c \in exited[r] => r = s
    BY <2>1, <2>3 DEF TreeInv, ZombieInv, ChildInv
  <2> HIDE DEF s
  <2>6. /\ pc'[t] = "w_reap" /\ loc'[t] = c
        /\ \A u \in Threads : u # t => pc'[u] = pc[u] /\ loc'[u] = loc[u]
        /\ children'[s] = children[s] \ {c} /\ exited'[s] = exited[s] \ {c}
        /\ \A q \in Procs : q # s => /\ children'[q] = children[q]
                                     /\ exited'[q] = exited[q]
    BY <2>1, <2>3, Users DEF TypeOK
  <2>7. \A d : Filed(d)' <=> Filed(d) /\ d # c
    <3>1. \A q \in Procs : c \in children[q] => q = s
      BY <2>5 DEF TreeInv, ChildInv
    <3> QED BY <2>3, <2>6, <3>1 DEF Filed
  <2>8. \A u \in UserThreads, q \in Procs : Carries(u, q)' <=> Carries(u, q)
    BY <2>1, <2>2, <2>6, Users DEF Carries
  <2>9. KindInv'
    BY <2>1, <2>2, <2>6, Users DEF TreeInv, KindInv
  <2>10. CarrierInv' BY <2>1, <2>8 DEF TreeInv, CarrierInv
  <2>11. ChildInv' BY <2>1, <2>6 DEF TreeInv, ChildInv
  <2>12. \A u \in UserThreads : pc'[u] \in Leaving <=> pc[u] \in Leaving
    BY <2>2, <2>6, Users
  <2>13. ZombieInv'
    <3>1. ASSUME NEW q \in Procs, NEW d \in exited'[q], pcb[q] # "free"
          PROVE  d \in exited[q] /\ d # c
      BY <2>5, <2>6, <3>1
    <3>2. \A q, r \in Procs : \A d \in exited'[q] :
            pcb'[q] # "free" /\ pcb'[r] # "free" /\ d \in exited'[r] => q = r
      BY <2>1, <3>1 DEF TreeInv, ZombieInv
    <3>3. \A q \in Procs : \A d \in exited'[q] : pcb'[q] # "free" =>
            /\ pcb'[d] = "exit" /\ Filed(d)' /\ parent'[d] \in {q, InitProc}
            /\ \A u \in UserThreads : pc'[u] \in Leaving => self'[u] # d
      BY <2>1, <2>7, <2>12, <3>1 DEF TreeInv, ZombieInv
    <3> QED BY <2>1, <2>12, <3>2, <3>3 DEF TreeInv, ZombieInv
  <2>14. ReapInv'
    <3>1. ~In(dead_processes, c) /\ ~In(clearing_procs, c)
      BY <2>4, <2>5 DEF TreeInv, ReapInv
    <3>2. \A u \in UserThreads : pc[u] \in Reaping => loc[u] # c /\ u # t
      BY <2>2, <2>5 DEF TreeInv, ReapInv
    <3>3. \A u \in UserThreads : pc'[u] \in Reaping <=> pc[u] \in Reaping \/ u = t
      BY <2>2, <2>6, Users
    <3> QED BY <2>1, <2>5, <2>6, <2>7, <3>1, <3>2, <3>3, Users
            DEF TreeInv, ReapInv
  <2>15. ASSUME NEW u \in UserThreads PROVE CallInv(u)'
    <3>1. CallInv(u) BY DEF TreeInv
    <3>2. pc[u] \notin Gone => self[u] # c BY <2>5, Carrier
    <3>3. CASE u = t
      BY <2>1, <2>2, <2>6, <2>7, <3>1, <3>2, <3>3 DEF CallInv, Forking
    <3>4. CASE u # t
      <4>1. /\ pc'[u] = pc[u] /\ loc'[u] = loc[u] /\ self'[u] = self[u]
            /\ self[u] \in Procs /\ pcb' = pcb /\ parent' = parent
        BY <2>1, <2>6, <3>4, Users DEF TypeOK
      <4>2. pc[u] = "f_sched" => loc[u] # c BY <2>5, Carrier DEF Forking
      <4>3. pc[u] \in Leaving => self[u] # c BY <2>5
      <4>4. pc[u] \in Looking => children'[self[u]] = children[self[u]]
        BY <2>3, <2>6, <3>4, <4>1 DEF Looking, Gone
      <4> QED BY <2>7, <3>1, <3>2, <4>1, <4>2, <4>3, <4>4 DEF CallInv
    <3> QED BY <3>3, <3>4
  <2> QED BY <2>9, <2>10, <2>11, <2>13, <2>14, <2>15 DEF TreeInv
<1> QED BY <1>1, <1>2

\* add_dead_process puts it on a list that it was not on.
LEMMA DeadProcPutTree ==
  ASSUME TypeOK, TreeInv, NEW t \in UserThreads, DeadProcPut(t)
  PROVE  TreeInv'
<1> USE DEF procVars, At, Goto
<1> DEFINE c == loc[t]
<1>1. /\ dead_processes' = Append(dead_processes, c)
      /\ loc' = [loc EXCEPT ![t] = NULL]
      /\ pc[t] = "ap_put" /\ pc' = [pc EXCEPT ![t] = "user"]
      /\ UNCHANGED <<self, process, pcb, parent, children, exited,
                     clearing_procs>>
  BY DEF DeadProcPut
<1>2. /\ "user" \notin Forking /\ "user" \notin Gone /\ "user" \notin Leaving
      /\ "user" \notin Reaping /\ "user" \notin Exiting
      /\ "user" \notin Cleaning /\ "user" \notin Looking
      /\ pc[t] \notin Gone /\ pc[t] \notin Forking /\ pc[t] \notin Leaving
      /\ pc[t] \in Reaping /\ pc[t] \in UsesLoc
  BY <1>1 DEF Gone, Forking, Leaving, Reaping, Exiting, Cleaning, Looking, UsesLoc
<1>3. c \in Procs /\ dead_processes \in Seq(Procs)
  BY <1>2, Users DEF TypeOK, LocTyped
<1>4. /\ pcb[c] = "exit" /\ ~Filed(c)
      /\ ~In(dead_processes, c) /\ ~In(clearing_procs, c)
      /\ \A u \in UserThreads : pc[u] \in Reaping /\ loc[u] = c => u = t
  BY <1>2 DEF TreeInv, ReapInv
<1> HIDE DEF c
<1>5. /\ pc'[t] = "user" /\ loc'[t] = NULL
      /\ \A u \in Threads : u # t => pc'[u] = pc[u] /\ loc'[u] = loc[u]
  BY <1>1, Users DEF TypeOK
<1>6. /\ \A x : In(dead_processes', x) <=> In(dead_processes, x) \/ x = c
      /\ Distinct(dead_processes')
  BY <1>1, <1>3, <1>4, AppendQueue DEF TreeInv, ReapInv
<1>7. \A d : Filed(d)' <=> Filed(d) BY <1>1 DEF Filed
<1>8. \A u \in UserThreads, q \in Procs : Carries(u, q)' <=> Carries(u, q)
  BY <1>1, <1>2, <1>5, Users DEF Carries
<1>9. KindInv' BY <1>1, <1>2, <1>5, Users DEF TreeInv, KindInv
<1>10. CarrierInv' BY <1>1, <1>8 DEF TreeInv, CarrierInv
<1>11. ChildInv' BY <1>1 DEF TreeInv, ChildInv
<1>12. /\ \A u \in UserThreads : pc'[u] \in Leaving <=> pc[u] \in Leaving
       /\ \A u \in UserThreads : pc'[u] \in Reaping <=> pc[u] \in Reaping /\ u # t
  BY <1>2, <1>5, Users
<1>13. ZombieInv' BY <1>1, <1>7, <1>12 DEF TreeInv, ZombieInv
<1>14. ReapInv'
  <2>1. \A u \in UserThreads : pc'[u] \in Reaping =>
          pc[u] \in Reaping /\ loc'[u] = loc[u] /\ loc[u] # c
    BY <1>4, <1>5, <1>12, Users
  <2>2. /\ \A u \in UserThreads : pc'[u] \in Reaping =>
             /\ pcb'[loc'[u]] = "exit" /\ ~Filed(loc[u])'
             /\ ~In(dead_processes', loc'[u]) /\ ~In(clearing_procs', loc'[u])
             /\ \A v \in UserThreads :
                  pc'[v] \in Reaping /\ loc'[v] = loc'[u] => v = u
    BY <1>1, <1>6, <1>7, <2>1 DEF TreeInv, ReapInv
  <2> QED BY <1>1, <1>4, <1>6, <1>7, <2>2 DEF TreeInv, ReapInv
<1>15. ASSUME NEW u \in UserThreads PROVE CallInv(u)'
  <2>1. CASE u = t
    BY <1>1, <1>2, <1>5, <1>7, <2>1 DEF TreeInv, CallInv, Forking
  <2>2. CASE u # t
    BY <1>1, <1>5, <1>7, <2>2, Users DEF TreeInv, CallInv
  <2> QED BY <2>1, <2>2
<1> QED BY <1>9, <1>10, <1>11, <1>13, <1>14, <1>15 DEF TreeInv

-----------------------------------------------------------------------------
(* process_exit *)

\* The children of an exiting process become init's, the exited ones too, and
\* the process becomes a zombie that its parent still has as a child.
LEMMA ExitOrphansTree ==
  ASSUME TypeOK, TreeInv, NEW t \in UserThreads, ExitOrphans(t)
  PROVE  TreeInv'
<1> USE DEF cleanVars, At, Goto
<1> DEFINE p == self[t]  orphans == children[p] \cup exited[p]
<1>1. CASE Spin BY <1>1, SpinTree
<1>2. CASE ~Spin
  <2>1. /\ parent' = [q \in Procs |-> IF q \in orphans THEN InitProc
                                      ELSE parent[q]]
        /\ children' = [children EXCEPT ![p] = {},
                                        ![InitProc] = @ \cup orphans]
        /\ exited' = [exited EXCEPT ![p] = {},
                                    ![InitProc] = @ \cup exited[p]]
        /\ pcb' = [pcb EXCEPT ![p] = "exit"]
        /\ process' = [process EXCEPT ![t] = NULL]
        /\ pc[t] = "e_init2" /\ pc' = [pc EXCEPT ![t] = "e_par"]
        /\ UNCHANGED <<self, loc, dead_processes, clearing_procs>>
    BY <1>2 DEF ExitOrphans
  <2>2. /\ "e_par" \notin Forking /\ "e_par" \in Gone /\ "e_par" \in Leaving
        /\ "e_par" \notin Reaping /\ "e_par" \in Exiting
        /\ "e_par" \notin Cleaning /\ "e_par" \notin Looking
        /\ pc[t] \notin Gone /\ pc[t] \notin Forking /\ pc[t] \notin Leaving
        /\ pc[t] \notin Reaping /\ pc[t] \in Exiting
    BY <2>1 DEF Gone, Forking, Leaving, Reaping, Exiting, Cleaning, Looking
  <2>3. t # InitThread /\ p # InitProc
    BY <2>2 DEF TreeInv, KindInv
  <2>4. /\ p \in Procs /\ pcb[p] = "normal" /\ p # KernelProc
        /\ \A u \in UserThreads : pc[u] \notin Gone /\ self[u] = p => u = t
        /\ \A u \in UserThreads : pc[u] \in Leaving => self[u] # p
    BY <2>2, Carrier
  <2>5. CallInv(t) BY DEF TreeInv
  <2>6. /\ \A c \in children[p] : parent[c] = p
        /\ \A c \in exited[p] : Filed(c) /\ parent[c] \in {p, InitProc}
                                 /\ pcb[c] = "exit"
    BY <2>4 DEF TreeInv, ChildInv, ZombieInv
  <2>7. /\ \A q \in Procs : children[q] \subseteq Procs /\ exited[q] \subseteq Procs
        /\ InitProc \in Procs /\ KernelProc \in Procs
        /\ NULL \notin Procs
    <3>1. \A q \in Procs : children[q] \subseteq Procs /\ exited[q] \subseteq Procs
      BY DEF TypeOK
    <3>2. NULL \notin Procs BY DEF NULL, Procs
    <3> QED BY <3>1, <3>2, Constants
  <2>8. /\ children'[p] = {} /\ exited'[p] = {}
        /\ children'[InitProc] = children[InitProc] \cup orphans
        /\ exited'[InitProc] = exited[InitProc] \cup exited[p]
        /\ \A q \in Procs : q \notin {p, InitProc} =>
             children'[q] = children[q] /\ exited'[q] = exited[q]
    <3>1. children \in [Procs -> SUBSET Procs] /\ exited \in [Procs -> SUBSET Procs]
      BY DEF TypeOK
    <3> HIDE DEF orphans, p
    <3> QED BY <2>1, <2>3, <2>4, <2>7, <3>1
  <2>9. /\ pc'[t] = "e_par" /\ process'[t] = NULL
        /\ \A u \in Threads : u # t => pc'[u] = pc[u] /\ process'[u] = process[u]
        /\ pcb'[p] = "exit" /\ \A q \in Procs : q # p => pcb'[q] = pcb[q]
    BY <2>1, <2>4, Users DEF TypeOK, SchedTypeOK
  <2>10. \A c \in Procs : /\ c \in orphans => parent'[c] = InitProc
                          /\ c \notin orphans => parent'[c] = parent[c]
    BY <2>1
  <2>11. orphans \subseteq Procs /\ orphans = children[p] \cup exited[p]
    BY <2>4, <2>7
  <2>12. UNCHANGED <<self, loc, dead_processes, clearing_procs>> BY <2>1
  <2> HIDE DEF p, orphans
  <2>13. \A c : Filed(c)' <=> Filed(c)
    <3>1. ASSUME NEW c, Filed(c) PROVE Filed(c)'
      <4>1. PICK q \in Procs : c \in children[q] BY <3>1 DEF Filed
      <4>2. CASE q = p BY <2>7, <2>8, <2>11, <4>1, <4>2 DEF Filed
      <4>3. CASE q # p
        <5>1. c \in children'[q] BY <2>8, <4>1, <4>3
        <5> QED BY <5>1 DEF Filed
      <4> QED BY <4>2, <4>3
    <3>2. ASSUME NEW c, Filed(c)' PROVE Filed(c)
      <4>1. PICK q \in Procs : c \in children'[q] BY <3>2 DEF Filed
      <4>2. CASE q = InitProc
        BY <2>4, <2>6, <2>7, <2>8, <2>11, <4>1, <4>2 DEF Filed
      <4>3. CASE q # InitProc BY <2>8, <4>1, <4>3 DEF Filed
      <4> QED BY <4>2, <4>3
    <3> QED BY <3>1, <3>2
  <2>14. \A u \in UserThreads, q \in Procs :
           Carries(u, q)' <=> Carries(u, q) /\ u # t
    BY <2>2, <2>9, <2>12, Users DEF Carries
  <2>15. KindInv'
    BY <2>2, <2>3, <2>9, <2>12, Users, Constants DEF TreeInv, KindInv
  <2>16. CarrierInv'
    <3>1. \A q \in Procs : Carries(t, q) => q = p
      BY <2>2 DEF Carries, p
    <3>2. Carries(t, p) BY <2>2 DEF Carries, p
    <3>3. \A v, u \in UserThreads, q \in Procs :
            Carries(v, q)' /\ Carries(u, q)' => v = u
      BY <2>14 DEF TreeInv, CarrierInv
    <3>4. \A u \in UserThreads, q \in Procs : Carries(u, q) /\ u # t => q # p
      BY <3>2 DEF TreeInv, CarrierInv
    <3>5. \A u \in UserThreads, q \in Procs :
            Carries(u, q)' => pcb'[q] = "normal" /\ q # KernelProc
      BY <2>9, <2>14, <3>4 DEF TreeInv, CarrierInv
    <3>6. ASSUME NEW q \in Procs, pcb'[q] = "normal", q # KernelProc
          PROVE  \E u \in UserThreads : Carries(u, q)'
      <4>1. q # p /\ pcb[q] = "normal" BY <2>9, <3>6
      <4>2. PICK u \in UserThreads : Carries(u, q)
        BY <3>6, <4>1 DEF TreeInv, CarrierInv
      <4> QED BY <2>14, <3>1, <4>1, <4>2
    <3> QED BY <2>3, <2>4, <2>7, <2>9, <3>3, <3>5, <3>6 DEF TreeInv, CarrierInv
  <2>17. ChildInv'
    <3>1. ASSUME NEW q \in Procs, NEW c \in children'[q]
          PROVE  /\ pcb'[q] = "normal" /\ pcb'[c] # "free" /\ parent'[c] = q
                 /\ c \notin {q, KernelProc, InitProc}
      <4>1. q # p BY <2>8, <3>1
      <4>2. PICK r \in Procs : c \in children[r]
        BY <2>13, <3>1 DEF Filed
      <4>3. /\ c \in Procs /\ pcb[c] # "free" /\ c \notin {r, KernelProc, InitProc}
            /\ parent[c] = r
        BY <2>7, <4>2 DEF TreeInv, ChildInv
      <4>4. pcb'[c] # "free" BY <2>9, <4>3
      <4>5. CASE q = InitProc
        <5>1. c \in children[InitProc] \/ c \in orphans BY <2>8, <3>1, <4>5
        <5>2. parent'[c] = InitProc
          BY <2>7, <2>10, <4>3, <5>1 DEF TreeInv, ChildInv
        <5>3. pcb'[InitProc] = "normal"
          BY <2>3, <2>7, <2>9 DEF TreeInv, CarrierInv
        <5> QED BY <4>3, <4>4, <4>5, <5>2, <5>3
      <4>6. CASE q # InitProc
        <5>1. c \in children[q] BY <2>8, <3>1, <4>1, <4>6
        <5>2. /\ pcb[q] = "normal" /\ parent[c] = q /\ c # q
          BY <5>1 DEF TreeInv, ChildInv
        <5>3. c \notin orphans BY <2>6, <2>11, <4>1, <4>6, <5>2
        <5> QED BY <2>9, <2>10, <4>1, <4>3, <4>4, <5>2, <5>3
      <4> QED BY <4>5, <4>6
    <3> QED BY <3>1 DEF ChildInv
  <2>18. \A u \in UserThreads : pc'[u] \in Leaving <=> pc[u] \in Leaving \/ u = t
    BY <2>2, <2>9, Users
  <2>19. ZombieInv'
    <3>1. \A v, u \in UserThreads :
            pc'[v] \in Leaving /\ pc'[u] \in Leaving /\ self[v] = self[u] => v = u
      BY <2>4, <2>18 DEF TreeInv, ZombieInv, p
    <3>2. ASSUME NEW q \in Procs, NEW c \in exited'[q]
          PROVE  \E r \in Procs : /\ c \in exited[r]
                                  /\ r = q \/ (r = p /\ q = InitProc)
      BY <2>4, <2>8, <3>2
    <3>3. \A q \in Procs : pcb'[q] # "free" <=> pcb[q] # "free" BY <2>4, <2>9
    <3>4. ASSUME NEW q \in Procs, NEW c \in exited'[q], pcb'[q] # "free"
          PROVE  /\ pcb'[c] = "exit" /\ Filed(c)' /\ parent'[c] \in {q, InitProc}
                 /\ \A u \in UserThreads : pc'[u] \in Leaving => self[u] # c
      <4>1. PICK r \in Procs : c \in exited[r] /\ (r = q \/ (r = p /\ q = InitProc))
        BY <3>2
      <4>2. pcb[r] # "free" BY <2>4, <3>3, <3>4, <4>1
      <4>3. /\ pcb[c] = "exit" /\ Filed(c) /\ parent[c] \in {r, InitProc}
            /\ \A u \in UserThreads : pc[u] \in Leaving => self[u] # c
            /\ c \in Procs
        BY <2>7, <4>1, <4>2 DEF TreeInv, ZombieInv
      <4>4. c # p BY <2>4, <4>3
      <4>5. r = p => c \in orphans BY <2>11, <4>1
      <4> QED BY <2>9, <2>10, <2>13, <2>18, <4>1, <4>3, <4>4, <4>5 DEF p
    <3>5. ASSUME NEW q \in Procs, NEW r \in Procs, NEW c \in exited'[q],
                 pcb'[q] # "free", pcb'[r] # "free", c \in exited'[r]
          PROVE  q = r
      <4>1. PICK a \in Procs : c \in exited[a] /\ (a = q \/ (a = p /\ q = InitProc))
        BY <3>2, <3>5
      <4>2. PICK b \in Procs : c \in exited[b] /\ (b = r \/ (b = p /\ r = InitProc))
        BY <3>2, <3>5
      <4>3. pcb[a] # "free" /\ pcb[b] # "free" BY <2>4, <3>3, <3>5, <4>1, <4>2
      <4>4. a = b BY <4>1, <4>2, <4>3 DEF TreeInv, ZombieInv
      <4>5. q # p /\ r # p BY <2>8, <3>5
      <4> QED BY <4>1, <4>2, <4>4, <4>5
    <3> QED BY <2>12, <3>1, <3>4, <3>5 DEF ZombieInv
  <2>20. ReapInv'
    <3>1. \A u \in UserThreads : pc'[u] \in Reaping <=> pc[u] \in Reaping
      BY <2>2, <2>9, Users
    <3>2. \A c \in Procs : pcb[c] = "exit" => pcb'[c] = "exit" BY <2>9
    <3>3. \A u \in UserThreads : pc[u] \in Reaping => loc[u] \in Procs
      BY Users DEF TypeOK, LocTyped, Reaping, UsesLoc
    <3> QED BY <2>12, <2>13, <3>1, <3>2, <3>3 DEF TreeInv, ReapInv
  <2>21. ASSUME NEW u \in UserThreads PROVE CallInv(u)'
    <3>1. CASE u = t
      <4>1. Filed(p) BY <2>2, <2>3, <2>5 DEF CallInv, p
      <4>2. \/ loc[t] = parent'[p] \/ parent'[p] = InitProc
        BY <2>2, <2>4, <2>5, <2>10 DEF CallInv, p
      <4> QED BY <2>2, <2>3, <2>5, <2>9, <2>12, <2>13, <3>1, <4>1, <4>2
              DEF CallInv, Forking, p
    <3>2. CASE u # t
      <4>1. CallInv(u) BY DEF TreeInv
      <4>2. pc'[u] = pc[u] /\ self[u] \in Procs /\ u \in Threads
        BY <2>9, <3>2, Users DEF TypeOK
      <4>3. pc[u] \in {"f_lock", "f_add"} => parent'[loc[u]] = NULL
        <5> SUFFICES ASSUME pc[u] \in {"f_lock", "f_add"}
                     PROVE  parent'[loc[u]] = NULL
          OBVIOUS
        <5>1. loc[u] \in Procs /\ parent[loc[u]] = NULL
          BY <4>1, <4>2 DEF CallInv, TypeOK, LocTyped, UsesLoc
        <5>2. \A c \in orphans : parent[c] \in Procs
          BY <2>4, <2>6, <2>7, <2>11
        <5> QED BY <2>7, <2>10, <5>1, <5>2
      <4>4. pc[u] \in Leaving => pcb'[self[u]] = "exit"
        BY <2>9, <4>1, <4>2 DEF CallInv
      <4>5. \/ parent'[self[u]] = parent[self[u]]
            \/ parent'[self[u]] = InitProc
        BY <2>10, <4>2
      <4>6. pc[u] \in Looking => children[self[u]] \subseteq children'[self[u]]
        <5>1. pc[u] \in Looking => self[u] # p
          BY <2>4, <3>2 DEF Looking, Gone
        <5> QED BY <2>8, <4>2, <5>1
      <4> QED BY <2>12, <2>13, <4>1, <4>2, <4>3, <4>4, <4>5, <4>6 DEF CallInv
    <3> QED BY <3>1, <3>2
  <2> QED BY <2>15, <2>16, <2>17, <2>19, <2>20, <2>21 DEF TreeInv
<1> QED BY <1>1, <1>2

\* The process is filed as exited with the pcb that the pointer names: its
\* parent's, or one that init has meanwhile taken the place of.
LEMMA ExitNotifyTree ==
  ASSUME TypeOK, TreeInv, NEW t \in UserThreads, ExitNotify(t)
  PROVE  TreeInv'
<1> USE DEF cleanVars, At, Goto
<1> DEFINE p == self[t]  q == loc[t]
<1>1. CASE Spin BY <1>1, SpinTree
<1>c. CASE Crash("freed_table") BY <1>c, CrashTree
<1>2. CASE ~Spin /\ ~Crash("freed_table")
  <2>1. /\ exited' = [exited EXCEPT ![q] = @ \cup {p}]
        /\ pc[t] = "e_par2" /\ pc' = [pc EXCEPT ![t] = "x_dead"]
        /\ UNCHANGED <<self, process, loc, pcb, parent, children,
                       dead_processes, clearing_procs>>
    BY <1>2 DEF ExitNotify
  <2>2. /\ "x_dead" \notin Forking /\ "x_dead" \in Gone /\ "x_dead" \notin Leaving
        /\ "x_dead" \notin Reaping /\ "x_dead" \notin Exiting
        /\ "x_dead" \notin Cleaning /\ "x_dead" \notin Looking
        /\ pc[t] \in Gone /\ pc[t] \notin Forking /\ pc[t] \in Leaving
        /\ pc[t] \notin Reaping /\ pc[t] \in Exiting /\ pc[t] \in UsesLoc
    BY <2>1 DEF Gone, Forking, Leaving, Reaping, Exiting, Cleaning, Looking, UsesLoc
  <2>3. CallInv(t) BY DEF TreeInv
  <2>4. /\ p \in Procs /\ q \in Procs
        /\ pcb[p] = "exit" /\ Filed(p) /\ parent[p] \in {q, InitProc}
    BY <2>2, <2>3, Users DEF CallInv, TypeOK, LocTyped
  <2>5. \A u \in UserThreads : pc[u] \in Leaving /\ self[u] = p => u = t
    BY <2>2 DEF TreeInv, ZombieInv
  <2>6. \A r \in Procs : pcb[r] # "free" => p \notin exited[r]
    BY <2>2 DEF TreeInv, ZombieInv
  <2> HIDE DEF p, q
  <2>7. /\ pc'[t] = "x_dead" /\ \A u \in Threads : u # t => pc'[u] = pc[u]
        /\ exited'[q] = exited[q] \cup {p}
        /\ \A r \in Procs : r # q => exited'[r] = exited[r]
    BY <2>1, <2>4, Users DEF TypeOK
  <2>8. UNCHANGED <<self, process, loc, pcb, parent, children,
                    dead_processes, clearing_procs>>
    BY <2>1
  <2>9. \A c : Filed(c)' <=> Filed(c) BY <2>8 DEF Filed
  <2>10. \A u \in UserThreads, r \in Procs : Carries(u, r)' <=> Carries(u, r)
    BY <2>2, <2>7, <2>8, Users DEF Carries
  <2>11. KindInv'
    <3>1. t # InitThread BY <2>2 DEF TreeInv, KindInv
    <3> QED BY <2>2, <2>7, <2>8, <3>1, Users, Constants DEF TreeInv, KindInv
  <2>12. CarrierInv' BY <2>8, <2>10 DEF TreeInv, CarrierInv
  <2>13. ChildInv' BY <2>8 DEF TreeInv, ChildInv
  <2>14. \A u \in UserThreads : pc'[u] \in Leaving <=> pc[u] \in Leaving /\ u # t
    BY <2>2, <2>7, Users
  <2>15. ZombieInv'
    <3>1. \A v, u \in UserThreads :
            pc'[v] \in Leaving /\ pc'[u] \in Leaving /\ self[v] = self[u] => v = u
      BY <2>14 DEF TreeInv, ZombieInv
    <3>2. ASSUME NEW r \in Procs, NEW c \in exited'[r], pcb[r] # "free"
          PROVE  /\ pcb[c] = "exit" /\ Filed(c) /\ parent[c] \in {r, InitProc}
                 /\ \A u \in UserThreads : pc'[u] \in Leaving => self[u] # c
      <4>1. CASE c = p /\ r = q BY <2>4, <2>5, <2>14, <4>1
      <4>2. CASE c \in exited[r]
        BY <2>14, <3>2, <4>2 DEF TreeInv, ZombieInv
      <4> QED BY <2>7, <3>2, <4>1, <4>2
    <3>3. ASSUME NEW r \in Procs, NEW s \in Procs, NEW c \in exited'[r],
                 pcb[r] # "free", pcb[s] # "free", c \in exited'[s]
          PROVE  r = s
      <4>1. CASE c = p BY <2>6, <2>7, <3>3, <4>1
      <4>2. CASE c # p
        <5>1. c \in exited[r] /\ c \in exited[s] BY <2>7, <3>3, <4>2
        <5> QED BY <3>3, <5>1 DEF TreeInv, ZombieInv
      <4> QED BY <4>1, <4>2
    <3> QED BY <2>8, <2>9, <3>1, <3>2, <3>3 DEF ZombieInv
  <2>16. ReapInv'
    <3>1. \A u \in UserThreads : pc'[u] \in Reaping <=> pc[u] \in Reaping
      BY <2>2, <2>7, Users
    <3> QED BY <2>8, <2>9, <3>1 DEF TreeInv, ReapInv
  <2>17. ASSUME NEW u \in UserThreads PROVE CallInv(u)'
    <3>1. CASE u = t
      BY <2>2, <2>3, <2>7, <2>8, <2>9, <3>1 DEF CallInv, Forking
    <3>2. CASE u # t
      BY <2>7, <2>8, <2>9, <3>2, Users DEF TreeInv, CallInv
    <3> QED BY <3>1, <3>2
  <2> QED BY <2>11, <2>12, <2>13, <2>15, <2>16, <2>17 DEF TreeInv
<1> QED BY <1>1, <1>c, <1>2

-----------------------------------------------------------------------------
(* kernel_clean_thread *)

\* destroy_thread is about a thread that has ended, and destroy_process about a
\* process that was reaped, which nobody has as a child.
LEMMA CleanTree ==
  ASSUME TypeOK, TreeInv, DeadInv, CleanStep
  PROVE  TreeInv'
<1> USE DEF schedVars, procVars, cleanVars, At, Goto
<1>a. ASSUME NEW l \in Cleaning, pc' = [pc EXCEPT ![Clean] = l],
             UNCHANGED loc, UNCHANGED treeVars
      PROVE  TreeInv'
  BY <1>a, KernelStepQuiet, Constants DEF TypeOK
<1>1. CASE CleanLock
  <2>1. CASE Spin BY <2>1, SpinTree
  <2>2. CASE ~Spin
    BY <1>1, <1>a, <2>2 DEF CleanLock, LockDead, treeVars, Cleaning
  <2> QED BY <2>1, <2>2
<1>2. CASE CleanBlock BY <1>2, <1>a DEF CleanBlock, treeVars, Cleaning
<1>3. CASE CleanUnlock BY <1>3, <1>a DEF CleanUnlock, treeVars, Cleaning
<1>4. CASE CleanYield BY <1>4, <1>a DEF CleanYield, treeVars, Cleaning
<1>5. CASE CleanThreadsDone
  BY <1>5, <1>a DEF CleanThreadsDone, treeVars, Cleaning
<1>6. CASE CleanProcsDone BY <1>6, <1>a DEF CleanProcsDone, treeVars, Cleaning
<1>7. CASE CleanTake
  <2>1. /\ clearing_procs' = dead_processes /\ dead_processes' = <<>>
        /\ pc' = [pc EXCEPT ![Clean] = "c_tasks"]
        /\ UNCHANGED <<self, loc, process, pcb, parent, children, exited>>
    BY <1>7 DEF CleanTake
  <2>2. /\ \A u \in UserThreads : pc'[u] = pc[u] /\ loc'[u] = loc[u]
        /\ pc'[Main] = pc[Main] /\ pc'[Clean] \in Cleaning
    BY <2>1, Users, Constants DEF TypeOK, Cleaning
  <2>3. \A c : Filed(c)' <=> Filed(c) BY <2>1 DEF Filed
  <2>4. \A u \in UserThreads, q \in Procs : Carries(u, q)' <=> Carries(u, q)
    BY <2>1, <2>2 DEF Carries
  <2>5. KindInv' BY <2>1, <2>2, Users DEF TreeInv, KindInv
  <2>6. CarrierInv' BY <2>1, <2>4 DEF TreeInv, CarrierInv
  <2>7. ChildInv' BY <2>1 DEF TreeInv, ChildInv
  <2>8. ZombieInv' BY <2>1, <2>2, <2>3 DEF TreeInv, ZombieInv
  <2>9. ReapInv'
    <3>1. Distinct(dead_processes') /\ \A c : ~In(dead_processes', c)
      BY <2>1, ShortQueues
    <3> QED BY <2>1, <2>2, <2>3, <3>1 DEF TreeInv, ReapInv
  <2>10. \A u \in UserThreads : CallInv(u)'
    BY <2>1, <2>2, <2>3 DEF TreeInv, CallInv
  <2> QED BY <2>5, <2>6, <2>7, <2>8, <2>9, <2>10 DEF TreeInv
<1>8. CASE CleanThread
  <2> DEFINE n == Head(clearing_tasks)
  <2>1. /\ clearing_tasks # <<>>
        /\ process' = [process EXCEPT ![n] = NULL]
        /\ self' = [self EXCEPT ![n] = KernelProc]
        /\ loc' = [loc EXCEPT ![n] = NULL]
        /\ pc' = [pc EXCEPT ![n] = "none"]
        /\ UNCHANGED <<pcb, parent, children, exited, dead_processes,
                       clearing_procs>>
    BY <1>8 DEF CleanThread
  <2>2. n \in Threads /\ pc[n] = "dead"
    <3>1. clearing_tasks \in Seq(Threads) BY DEF TypeOK
    <3>2. n = clearing_tasks[1] /\ 1 \in 1 .. Len(clearing_tasks) /\ n \in Threads
      BY <2>1, <3>1
    <3> QED BY <3>2 DEF DeadInv, EndedThreadListedOnce
  <2>3. n \in UserThreads /\ n # InitThread
    <3>1. pc[Main] # "dead" /\ pc[Clean] # "dead" /\ pc[InitThread] # "dead"
      BY DEF TreeInv, KindInv, Cleaning, Gone
    <3> QED BY <2>2, <3>1, Users
  <2> HIDE DEF n
  <2>4. /\ pc'[n] = "none" /\ process'[n] = NULL /\ self'[n] = KernelProc
        /\ \A u \in Threads : u # n =>
             /\ pc'[u] = pc[u] /\ loc'[u] = loc[u] /\ self'[u] = self[u]
             /\ process'[u] = process[u]
    BY <2>1, <2>2 DEF TypeOK, SchedTypeOK
  <2>5. /\ "none" \in Gone /\ "none" \notin Forking /\ "none" \notin Leaving
        /\ "none" \notin Reaping /\ "none" \notin Exiting
        /\ "none" \notin Cleaning /\ "none" \notin Looking
        /\ pc[n] \in Gone /\ pc[n] \notin Forking /\ pc[n] \notin Leaving
        /\ pc[n] \notin Reaping
    BY <2>2 DEF Gone, Forking, Leaving, Reaping, Exiting, Cleaning, Looking
  <2>6. UNCHANGED <<pcb, parent, children, exited, dead_processes,
                    clearing_procs>>
    BY <2>1
  <2>7. \A c : Filed(c)' <=> Filed(c) BY <2>6 DEF Filed
  <2>8. \A u \in UserThreads, q \in Procs : Carries(u, q)' <=> Carries(u, q)
    BY <2>4, <2>5, Users DEF Carries
  <2>9. KindInv'
    <3>1. \A u \in UserThreads :
            /\ pc'[u] \notin Cleaning /\ pc'[u] # "idle"
            /\ self'[u] = InitProc <=> u = InitThread
            /\ process'[u] = IF pc'[u] \in Gone THEN NULL ELSE self'[u]
      <4>1. KernelProc # InitProc BY DEF KernelProc, InitProc
      <4> QED BY <2>3, <2>4, <2>5, <4>1, Users DEF TreeInv, KindInv
    <3>2. /\ pc'[Main] = pc[Main] /\ pc'[Clean] = pc[Clean]
          /\ process'[Main] = process[Main] /\ process'[Clean] = process[Clean]
          /\ pc'[InitThread] = pc[InitThread]
      BY <2>3, <2>4, Users, Constants
    <3> QED BY <3>1, <3>2 DEF TreeInv, KindInv
  <2>10. CarrierInv' BY <2>6, <2>8 DEF TreeInv, CarrierInv
  <2>11. ChildInv' BY <2>6 DEF TreeInv, ChildInv
  <2>12. \A u \in UserThreads :
           /\ pc'[u] \in Leaving => pc[u] \in Leaving /\ self'[u] = self[u]
           /\ pc'[u] \in Reaping => pc[u] \in Reaping /\ loc'[u] = loc[u]
    BY <2>4, <2>5, Users
  <2>13. ZombieInv' BY <2>6, <2>7, <2>12 DEF TreeInv, ZombieInv
  <2>14. ReapInv' BY <2>6, <2>7, <2>12 DEF TreeInv, ReapInv
  <2>15. ASSUME NEW u \in UserThreads PROVE CallInv(u)'
    <3>1. CASE u = n BY <2>3, <2>4, <2>5, <3>1 DEF CallInv, Forking
    <3>2. CASE u # n
      BY <2>4, <2>6, <2>7, <3>2, Users DEF TreeInv, CallInv
    <3> QED BY <3>1, <3>2
  <2> QED BY <2>9, <2>10, <2>11, <2>13, <2>14, <2>15 DEF TreeInv
<1>9. CASE CleanProc
  <2> DEFINE h == Head(clearing_procs)
  <2>1. /\ clearing_procs # <<>> /\ pcb' = [pcb EXCEPT ![h] = "free"]
        /\ clearing_procs' = Tail(clearing_procs)
        /\ UNCHANGED <<pc, self, process, loc, parent, children, exited,
                       dead_processes>>
    BY <1>9 DEF CleanProc
  <2>2. clearing_procs \in Seq(Procs) BY DEF TypeOK
  <2>3. /\ h \in Procs /\ In(clearing_procs, h)
        /\ \A x : In(clearing_procs, x) <=> In(clearing_procs', x) \/ x = h
        /\ Distinct(clearing_procs') /\ ~In(clearing_procs', h)
    BY <2>1, <2>2, TailQueue DEF TreeInv, ReapInv
  <2>4. /\ pcb[h] = "exit" /\ ~Filed(h) /\ ~In(dead_processes, h)
        /\ \A u \in UserThreads : pc[u] \in Reaping => loc[u] # h
    BY <2>3 DEF TreeInv, ReapInv
  <2> HIDE DEF h
  <2>5. pcb'[h] = "free" /\ \A q \in Procs : q # h => pcb'[q] = pcb[q]
    BY <2>1, <2>3 DEF TypeOK
  <2>6. UNCHANGED <<pc, self, process, loc, parent, children, exited,
                    dead_processes>>
    BY <2>1
  <2>7. \A c : Filed(c)' <=> Filed(c) BY <2>6 DEF Filed
  <2>8. \A u \in UserThreads, q \in Procs : Carries(u, q)' <=> Carries(u, q)
    BY <2>6 DEF Carries
  <2>9. KindInv' BY <2>6 DEF TreeInv, KindInv
  <2>10. CarrierInv'
    <3>1. \A q \in Procs : pcb'[q] = "normal" <=> pcb[q] = "normal"
      BY <2>4, <2>5
    <3> QED BY <2>8, <3>1, Constants DEF TreeInv, CarrierInv
  <2>11. \A c \in Procs : Filed(c) => pcb'[c] = pcb[c] BY <2>4, <2>5
  <2>12. \A q \in Procs : children[q] \subseteq Procs /\ exited[q] \subseteq Procs
    BY DEF TypeOK
  <2>13. ChildInv'
    <3>1. \A q \in Procs : \A c \in children[q] :
            /\ pcb'[q] = pcb[q] /\ pcb'[c] = pcb[c]
      BY <2>4, <2>5, <2>11, <2>12 DEF Filed, TreeInv, ChildInv
    <3> QED BY <2>6, <3>1 DEF TreeInv, ChildInv
  <2>14. ZombieInv'
    <3>1. \A q \in Procs : pcb'[q] # "free" => pcb[q] # "free" BY <2>4, <2>5
    <3>2. \A q \in Procs : \A c \in exited[q] : pcb'[q] # "free" =>
            pcb'[c] = "exit" /\ Filed(c) /\ parent[c] \in {q, InitProc}
      BY <2>11, <2>12, <3>1 DEF TreeInv, ZombieInv
    <3> QED BY <2>6, <2>7, <3>1, <3>2 DEF TreeInv, ZombieInv
  <2>15. ReapInv'
    <3>1. \A u \in UserThreads : pc[u] \in Reaping =>
            loc[u] \in Procs /\ pcb'[loc[u]] = "exit"
      BY <2>4, <2>5, Users
         DEF TypeOK, LocTyped, Reaping, UsesLoc, TreeInv, ReapInv
    <3>2. \A c \in Procs : In(dead_processes, c) \/ In(clearing_procs', c) =>
            pcb'[c] = "exit" /\ ~Filed(c)
      BY <2>3, <2>4, <2>5 DEF TreeInv, ReapInv
    <3> QED BY <2>3, <2>6, <2>7, <3>1, <3>2 DEF TreeInv, ReapInv
  <2>16. ASSUME NEW u \in UserThreads PROVE CallInv(u)'
    <3>1. self[u] \in Procs BY Users DEF TypeOK
    <3> QED BY <2>6, <2>7, <2>11, <3>1 DEF TreeInv, CallInv
  <2> QED BY <2>9, <2>10, <2>13, <2>14, <2>15, <2>16 DEF TreeInv
<1> QED BY <1>1, <1>2, <1>3, <1>4, <1>5, <1>6, <1>7, <1>8, <1>9 DEF CleanStep

-----------------------------------------------------------------------------
\* Boot leaves two processes, of which init has a thread.
LEMMA TreeInit == Init => TreeInv
<1> SUFFICES ASSUME Init PROVE TreeInv OBVIOUS
<1>1. /\ \A t \in UserThreads : /\ t # InitThread => pc[t] = "none"
                                /\ t # InitThread => self[t] = KernelProc
                                /\ t # InitThread => process[t] = NULL
      /\ pc[InitThread] = "init" /\ self[InitThread] = InitProc
      /\ process[InitThread] = InitProc
      /\ pc[Main] = "idle" /\ pc[Clean] = "c_lock"
      /\ process[Main] = KernelProc /\ process[Clean] = KernelProc
  BY Users, Constants DEF Init, SchedInit, Main, Clean, InitThread
<1>2. /\ "none" \in Gone /\ "none" \notin Forking /\ "none" \notin Leaving
      /\ "none" \notin Reaping /\ "none" \notin Exiting
      /\ "none" \notin Cleaning /\ "none" \notin Looking
      /\ "init" \notin Gone /\ "init" \notin Forking /\ "init" \notin Leaving
      /\ "init" \notin Reaping /\ "init" \notin Exiting
      /\ "init" \notin Cleaning /\ "init" \notin Looking
      /\ "c_lock" \in Cleaning
  BY DEF Gone, Forking, Leaving, Reaping, Exiting, Cleaning, Looking
<1>3. KernelProc # InitProc BY DEF KernelProc, InitProc
<1>4. \A t \in UserThreads, p \in Procs :
        Carries(t, p) <=> t = InitThread /\ p = InitProc
  BY <1>1, <1>2 DEF Carries
<1>5. /\ \A p \in Procs : pcb[p] = "normal" <=> p \in {KernelProc, InitProc}
      /\ \A p \in Procs : children[p] = {} /\ exited[p] = {}
      /\ dead_processes = <<>> /\ clearing_procs = <<>>
  BY DEF Init
<1>6. KindInv BY <1>1, <1>2, <1>3, Users DEF KindInv
<1>7. CarrierInv BY <1>3, <1>4, <1>5, Users, Constants DEF CarrierInv
<1>8. ChildInv BY <1>5 DEF ChildInv
<1>9. ZombieInv BY <1>1, <1>2, <1>5 DEF ZombieInv
<1>10. ReapInv BY <1>1, <1>2, <1>5, ShortQueues DEF ReapInv
<1>11. \A t \in UserThreads : CallInv(t)
  BY <1>1, <1>2 DEF CallInv, Forking
<1> QED BY <1>6, <1>7, <1>8, <1>9, <1>10, <1>11 DEF TreeInv

\* Every step of the kernel keeps the tree.
LEMMA TreeStep ==
  ASSUME TypeOK, DeadInv, TreeInv, [Next]_vars
  PROVE  TreeInv'
<1>1. ASSUME NEW t \in UserThreads, UserCall(t) \/ Fork(t) \/ Wait(t) \/ Exit(t)
      PROVE  TreeInv'
  BY <1>1, QuietTree, ForkCreateTree, ForkAddTree, ForkSchedTree, WaitTakeTree,
     DeadProcPutTree, ExitOrphansTree, ExitNotifyTree
     DEF UserCall, Fork, Wait, Exit
<1>2. CASE CleanStep BY <1>2, CleanTree
<1>3. CASE Preempt
  <2>1. Spin BY <1>3 DEF Preempt, Spin, schedule, schedule_thread_yield
  <2> QED BY <2>1, SpinTree
<1>4. CASE Idle \/ Halted \/ UNCHANGED vars
  BY <1>4, KernelStepQuiet DEF Idle, Halted, vars, schedVars, procVars, cleanVars,
     treeVars, TreeInv, KindInv
<1> QED BY <1>1, <1>2, <1>3, <1>4 DEF Next

\* The inductive invariant of process_fork, process_wait, process_exit and
\* kernel_clean_thread.
THEOREM TreeInvariant == Spec => []TreeInv
<1>1. Init => TreeInv BY TreeInit
<1>2. TypeOK /\ DeadInv /\ TreeInv /\ [Next]_vars => TreeInv' BY TreeStep
<1> QED BY <1>1, <1>2, TypeCorrect, DeadInvariant, PTL DEF Spec

\* A set of at most one element, counted.
LEMMA AtMostOne ==
  ASSUME NEW S, \A x, y \in S : x = y
  PROVE  Cardinality(S) = IF S = {} THEN 0 ELSE 1
<1>1. CASE S = {} BY <1>1, FS_EmptySet
<1>2. CASE S # {}
  <2>1. PICK x : S = {x} BY <1>2
  <2>2. Cardinality({x}) = 1 BY FS_Singleton
  <2> QED BY <1>2, <2>1, <2>2
<1> QED BY <1>1, <1>2

\* A process that has exited and is filed is in at most one place.
LEMMA ZombieCount ==
  ASSUME TypeOK, TreeInv, NEW p \in Procs
  PROVE  /\ ZombiePlaces(p) \in {0, 1}
         /\ ZombiePlaces(p) = 1 => pcb[p] = "exit"
         /\ ZombiePlaces(p) = 1 <=>
              \/ \E q \in Procs : pcb[q] # "free" /\ p \in exited[q]
              \/ \E t \in UserThreads : pc[t] \in Reaping /\ loc[t] = p
              \/ In(dead_processes, p) \/ In(clearing_procs, p)
<1> DEFINE E == {q \in Procs : pcb[q] # "free" /\ p \in exited[q]}
           R == {t \in Threads : pc[t] \in {"w_reap", "ap_lock", "ap_put"}
                                 /\ loc[t] = p}
           d == Count(dead_processes, p)
           c == Count(clearing_procs, p)
<1>1. R = {t \in UserThreads : pc[t] \in Reaping /\ loc[t] = p}
  <2>1. pc[Main] \notin Reaping /\ pc[Clean] \notin Reaping
    BY DEF TreeInv, KindInv, Cleaning, Reaping
  <2> QED BY <2>1, Users DEF Reaping
<1>2. /\ \A x, y \in E : x = y
      /\ \A x, y \in R : x = y
      /\ E # {} => pcb[p] = "exit" /\ Filed(p)
      /\ R # {} => pcb[p] = "exit" /\ ~Filed(p)
      /\ R # {} => ~In(dead_processes, p) /\ ~In(clearing_procs, p)
  BY <1>1 DEF TreeInv, ZombieInv, ReapInv
<1>3. /\ dead_processes \in Seq(Procs) /\ clearing_procs \in Seq(Procs)
      /\ Distinct(dead_processes) /\ Distinct(clearing_procs)
      /\ ~(In(dead_processes, p) /\ In(clearing_procs, p))
      /\ In(dead_processes, p) \/ In(clearing_procs, p) =>
           pcb[p] = "exit" /\ ~Filed(p)
  BY DEF TypeOK, TreeInv, ReapInv
<1>4. d = IF In(dead_processes, p) THEN 1 ELSE 0
  BY <1>3, TimesInQueue DEF Count
<1>5. c = IF In(clearing_procs, p) THEN 1 ELSE 0
  BY <1>3, TimesInQueue DEF Count
<1>6. ZombiePlaces(p) = Cardinality(E) + Cardinality(R) + d + c
  BY DEF ZombiePlaces
<1> HIDE DEF E, R, c, d
<1>7. /\ Cardinality(E) = IF E = {} THEN 0 ELSE 1
      /\ Cardinality(R) = IF R = {} THEN 0 ELSE 1
  BY <1>2, AtMostOne
<1>8. ZombiePlaces(p) = IF E # {} \/ R # {} \/ In(dead_processes, p)
                             \/ In(clearing_procs, p) THEN 1 ELSE 0
  <2>1. CASE E # {}
    <3>1. R = {} BY <1>2, <2>1
    <3>2. ~In(dead_processes, p) /\ ~In(clearing_procs, p) BY <1>2, <1>3, <2>1
    <3> QED BY <1>4, <1>5, <1>6, <1>7, <2>1, <3>1, <3>2
  <2>2. CASE E = {} /\ R # {}
    BY <1>2, <1>4, <1>5, <1>6, <1>7, <2>2
  <2>3. CASE E = {} /\ R = {}
    BY <1>3, <1>4, <1>5, <1>6, <1>7, <2>3
  <2> QED BY <2>1, <2>2, <2>3
<1>9. /\ E # {} <=> \E q \in Procs : pcb[q] # "free" /\ p \in exited[q]
      /\ R # {} <=> \E t \in UserThreads : pc[t] \in Reaping /\ loc[t] = p
  BY <1>1 DEF E
<1> QED BY <1>2, <1>3, <1>8, <1>9

\* destroy_process gets every pcb at most once, and only one whose process has
\* exited, also when a process files itself with the pcb of a parent that has
\* exited before it (process_wait, process_exit, kernel_clean_thread).
THEOREM ZombiesFreedOnce == Spec => []FreedOnce
<1>1. TypeOK /\ TreeInv => FreedOnce BY ZombieCount DEF FreedOnce
<1> QED BY <1>1, TypeCorrect, TreeInvariant, PTL

-----------------------------------------------------------------------------
(* Where the processes that have exited are *)

\* Somebody still has process p, which has exited: its own thread, the pcb it
\* is filed with, the thread that reaped it, or one of the clean lists.
Held(p) ==
  \/ \E t \in UserThreads : pc[t] \in Leaving /\ self[t] = p
  \/ \E q \in Procs : pcb[q] # "free" /\ p \in exited[q]
  \/ \E t \in UserThreads : pc[t] \in Reaping /\ loc[t] = p
  \/ In(dead_processes, p) \/ In(clearing_procs, p)

\* A process that has exited is held or lost, and never both; the clean
\* thread's own list is empty when it takes the next one.
LossInv ==
  /\ \A p \in Procs : pcb[p] = "exit" => Held(p) \/ p \in lost
  /\ \A p \in lost : pcb[p] = "exit" /\ ~Held(p)
  /\ pc[Clean] \notin {"c_tasks", "c_procs"} => clearing_procs = <<>>

\* A step after which the same processes have exited and are held.
LEMMA LossSame ==
  ASSUME LossInv, TypeOK, UNCHANGED lost,
         \A p \in Procs : pcb'[p] = "exit" <=> pcb[p] = "exit",
         \A p \in Procs : Held(p)' <=> Held(p),
         pc'[Clean] \notin {"c_tasks", "c_procs"} => clearing_procs' = <<>>
  PROVE  LossInv'
  BY DEF LossInv, TypeOK

\* A step of a user thread that is neither filing nor reaping a process.
LEMMA LossMove ==
  ASSUME TypeOK, LossInv, NEW t \in UserThreads, NEW l, NEW x,
         pc' = [pc EXCEPT ![t] = l], loc' = [loc EXCEPT ![t] = x],
         UNCHANGED <<self, exited, dead_processes, clearing_procs, lost, pcb>>,
         l \in Leaving <=> pc[t] \in Leaving,
         l \in Reaping <=> pc[t] \in Reaping,
         pc[t] \in Reaping => x = loc[t]
  PROVE  LossInv'
<1>1. /\ pc'[t] = l /\ loc'[t] = x
      /\ \A u \in Threads : u # t => pc'[u] = pc[u] /\ loc'[u] = loc[u]
  BY Users DEF TypeOK
<1>2. \A u \in UserThreads :
        /\ pc'[u] \in Leaving <=> pc[u] \in Leaving
        /\ \A p : pc'[u] \in Reaping /\ loc'[u] = p
                    <=> pc[u] \in Reaping /\ loc[u] = p
  BY <1>1, Users
<1>3. \A p : Held(p)' <=> Held(p) BY <1>2 DEF Held
<1>4. pc'[Clean] = pc[Clean] BY <1>1, Users, Constants
<1> QED BY <1>3, <1>4, LossSame DEF LossInv

\* The same when the local stays.
LEMMA LossMoves ==
  ASSUME TypeOK, LossInv, NEW t \in UserThreads, NEW l,
         pc' = [pc EXCEPT ![t] = l],
         UNCHANGED <<loc, self, exited, dead_processes, clearing_procs, lost,
                     pcb>>,
         l \in Leaving <=> pc[t] \in Leaving,
         l \in Reaping <=> pc[t] \in Reaping
  PROVE  LossInv'
<1> DEFINE x == loc[t]
<1>1. loc' = [loc EXCEPT ![t] = x] BY Users DEF TypeOK
<1>2. pc[t] \in Reaping => x = loc[t] OBVIOUS
<1> HIDE DEF x
<1> QED BY <1>1, <1>2, LossMove

\* A step that moves no user thread and no process.
LEMMA LossStill ==
  ASSUME TypeOK, LossInv,
         \A u \in UserThreads : pc'[u] = pc[u],
         UNCHANGED <<loc, self, exited, dead_processes, clearing_procs, lost,
                     pcb>>,
         pc'[Clean] \notin {"c_tasks", "c_procs"} => clearing_procs = <<>>
  PROVE  LossInv'
<1>1. \A p : Held(p)' <=> Held(p) BY DEF Held
<1> QED BY <1>1, LossSame

\* process_fork: the new process has not exited, and its tables are empty.
LEMMA ForkLoss ==
  ASSUME TypeOK, TreeInv, LossInv, NEW t \in UserThreads,
         ForkCreate(t) \/ Fork(t)
  PROVE  LossInv'
<1> USE DEF schedVars, cleanVars, procVars, At, Goto
<1>c. ASSUME NEW f, Crash(f) PROVE LossInv'
  BY <1>c, LossStill DEF Crash, LossInv
<1>s. CASE Spin BY <1>s, LossStill DEF Spin, LossInv
<1>1. CASE ForkCreate(t) /\ ~Crash("fork_null")
  <2>1. PICK p \in Procs :
          /\ pcb[p] = "free" /\ pcb' = [pcb EXCEPT ![p] = "normal"]
          /\ exited' = [exited EXCEPT ![p] = {}]
          /\ loc' = [loc EXCEPT ![t] = p] /\ pc' = [pc EXCEPT ![t] = "f_lock"]
          /\ pc[t] \in {"init", "user"}
          /\ UNCHANGED <<self, dead_processes, clearing_procs, lost>>
    BY <1>1 DEF ForkCreate, First, MayFork
  <2>2. /\ pc'[t] = "f_lock" /\ \A u \in Threads : u # t => pc'[u] = pc[u]
        /\ \A u \in Threads : u # t => loc'[u] = loc[u]
        /\ pcb'[p] = "normal" /\ \A q \in Procs : q # p => pcb'[q] = pcb[q]
        /\ exited'[p] = {} /\ \A q \in Procs : q # p => exited'[q] = exited[q]
    BY <2>1, Users DEF TypeOK
  <2>3. \A u \in UserThreads :
          /\ pc'[u] \in Leaving <=> pc[u] \in Leaving
          /\ \A q : pc'[u] \in Reaping /\ loc'[u] = q
                      <=> pc[u] \in Reaping /\ loc[u] = q
    BY <2>1, <2>2, Users DEF Leaving, Reaping
  <2>4. \A q \in Procs : \A r : pcb'[q] # "free" /\ r \in exited'[q]
                                  <=> pcb[q] # "free" /\ r \in exited[q]
    BY <2>1, <2>2
  <2>5. \A q : Held(q)' <=> Held(q) BY <2>1, <2>3, <2>4 DEF Held
  <2>6. pc'[Clean] = pc[Clean] BY <2>2, Users, Constants
  <2>7. \A q \in Procs : pcb'[q] = "exit" <=> pcb[q] = "exit" BY <2>1, <2>2
  <2> QED BY <2>1, <2>5, <2>6, <2>7, LossSame DEF LossInv
<1>2. CASE ForkLock(t) /\ ~Spin
  <2>1. /\ pc[t] = "f_lock" /\ pc' = [pc EXCEPT ![t] = "f_add"]
        /\ UNCHANGED <<loc, self, exited, dead_processes, clearing_procs, lost,
                       pcb>>
    BY <1>2 DEF ForkLock, LockProc
  <2> QED BY <2>1, LossMoves DEF Leaving, Reaping
<1>3. CASE ForkAdd(t)
  <2>1. /\ pc[t] = "f_add" /\ pc' = [pc EXCEPT ![t] = "f_sched"]
        /\ UNCHANGED <<loc, self, exited, dead_processes, clearing_procs, lost,
                       pcb>>
    BY <1>3 DEF ForkAdd
  <2> QED BY <2>1, LossMoves DEF Leaving, Reaping
<1>4. CASE ForkSched(t) /\ ~Crash("no_thread_id")
  <2>1. PICK u \in Threads :
          /\ pc[u] = "none" /\ pc[t] = "f_sched"
          /\ self' = [self EXCEPT ![u] = loc[t]]
          /\ loc' = [loc EXCEPT ![t] = NULL]
          /\ pc' = [pc EXCEPT ![t] = "user", ![u] = "user"]
          /\ UNCHANGED <<exited, dead_processes, clearing_procs, lost, pcb>>
    BY <1>4 DEF ForkSched, First
  <2>2. \A v \in Threads : v \notin {t, u} => /\ pc'[v] = pc[v]
                                              /\ self'[v] = self[v]
                                              /\ loc'[v] = loc[v]
    BY <2>1, Users DEF TypeOK
  <2>3. pc'[t] = "user" /\ pc'[u] = "user" BY <2>1, Users DEF TypeOK
  <2>4. \A v \in UserThreads, q \in Procs :
          /\ pc'[v] \in Leaving /\ self'[v] = q <=> pc[v] \in Leaving /\ self[v] = q
          /\ pc'[v] \in Reaping /\ loc'[v] = q <=> pc[v] \in Reaping /\ loc[v] = q
    BY <2>1, <2>2, <2>3, Users DEF Leaving, Reaping
  <2>5. ASSUME NEW q \in Procs PROVE Held(q)' <=> Held(q)
    <3>1. /\ (\E v \in UserThreads : pc'[v] \in Leaving /\ self'[v] = q)
               <=> (\E v \in UserThreads : pc[v] \in Leaving /\ self[v] = q)
          /\ (\E v \in UserThreads : pc'[v] \in Reaping /\ loc'[v] = q)
               <=> (\E v \in UserThreads : pc[v] \in Reaping /\ loc[v] = q)
      BY <2>4
    <3>2. In(dead_processes', q) <=> In(dead_processes, q) BY <2>1
    <3>3. In(clearing_procs', q) <=> In(clearing_procs, q) BY <2>1
    <3> QED BY <2>1, <3>1, <3>2, <3>3 DEF Held
  <2>6. pc'[Clean] = pc[Clean]
    BY <2>1, <2>2, Users, Constants DEF TreeInv, KindInv, Cleaning
  <2> QED BY <2>1, <2>5, <2>6, LossSame DEF LossInv
<1> QED BY <1>c, <1>s, <1>1, <1>2, <1>3, <1>4 DEF Fork

\* process_wait: who takes an exited child has it until add_dead_process.
LEMMA WaitLoss ==
  ASSUME TypeOK, TreeInv, LossInv, NEW t \in UserThreads,
         WaitCall(t) \/ Wait(t)
  PROVE  LossInv'
<1> USE DEF schedVars, cleanVars, procVars, At, Goto
<1> DEFINE Same == UNCHANGED <<self, exited, dead_processes, clearing_procs,
                               lost, pcb>>
<1>c. ASSUME NEW f, Crash(f) PROVE LossInv'
  BY <1>c, LossStill DEF Crash, LossInv
<1>s. CASE Spin BY <1>s, LossStill DEF Spin, LossInv
<1>m. ASSUME NEW l, pc' = [pc EXCEPT ![t] = l], UNCHANGED loc, Same,
             l \in Leaving <=> pc[t] \in Leaving,
             l \in Reaping <=> pc[t] \in Reaping
      PROVE  LossInv'
  BY <1>m, LossMoves
<1> USE DEF Leaving, Reaping
<1>1. CASE WaitCall(t)
  <2>1. PICK x \in Procs : loc' = [loc EXCEPT ![t] = x] BY <1>1 DEF WaitCall
  <2>2. pc' = [pc EXCEPT ![t] = "w_lock"] /\ Same /\ pc[t] = "user"
    BY <1>1 DEF WaitCall
  <2> QED BY <2>1, <2>2, LossMove
<1>2. CASE WaitLock(t) /\ ~Spin BY <1>2, <1>m DEF WaitLock, LockProc
<1>3. CASE WaitNone(t) BY <1>3, <1>m DEF WaitNone
<1>4. CASE WaitFail(t)
  <2>1. /\ loc' = [loc EXCEPT ![t] = NULL] /\ pc' = [pc EXCEPT ![t] = "user"]
        /\ Same /\ pc[t] = "w_fail"
    BY <1>4 DEF WaitFail
  <2> QED BY <2>1, LossMove
<1>5. CASE WaitTake(t) /\ ~Crash("not_a_child")
  <2>1. PICK c \in exited[self[t]] :
          /\ exited' = [exited EXCEPT ![self[t]] = @ \ {c}]
          /\ loc' = [loc EXCEPT ![t] = c] /\ pc' = [pc EXCEPT ![t] = "w_reap"]
          /\ pc[t] = "w_scan"
          /\ UNCHANGED <<self, dead_processes, clearing_procs, lost, pcb>>
    BY <1>5 DEF WaitTake, Takable
  <2> DEFINE s == self[t]
  <2>2. s \in Procs /\ pcb[s] = "normal" /\ c \in Procs
    BY <2>1, Carrier DEF Gone, TypeOK
  <2> HIDE DEF s
  <2>3. /\ pc'[t] = "w_reap" /\ loc'[t] = c
        /\ \A u \in Threads : u # t => pc'[u] = pc[u] /\ loc'[u] = loc[u]
        /\ exited'[s] = exited[s] \ {c}
        /\ \A q \in Procs : q # s => exited'[q] = exited[q]
    BY <2>1, <2>2, Users DEF TypeOK, s
  <2>4. Held(c)
    BY <2>1, <2>2 DEF Held, s
  <2>5. Held(c)' BY <2>3 DEF Held
  <2>6. ASSUME NEW p \in Procs, p # c PROVE Held(p)' <=> Held(p)
    <3>1. \A q \in Procs : p \in exited'[q] <=> p \in exited[q]
      BY <2>3, <2>6
    <3>2. \A u \in UserThreads :
            /\ pc'[u] \in Leaving <=> pc[u] \in Leaving
            /\ pc'[u] \in Reaping /\ loc'[u] = p
                 <=> pc[u] \in Reaping /\ loc[u] = p
      BY <2>1, <2>3, <2>6, Users
    <3> QED BY <2>1, <3>1, <3>2 DEF Held
  <2>7. pc'[Clean] = pc[Clean] BY <2>3, Users, Constants
  <2> QED BY <2>1, <2>4, <2>5, <2>6, <2>7, LossSame DEF LossInv
<1>6. CASE WaitQueueAny(t) BY <1>6, <1>m DEF WaitQueueAny
<1>7. CASE WaitChild(t) BY <1>7, <1>m DEF WaitChild
<1>8. CASE WaitChildLock(t) /\ ~Spin BY <1>8, <1>m DEF WaitChildLock, LockProc
<1>9. CASE WaitQueueChild(t) BY <1>9, <1>m DEF WaitQueueChild
<1>10. CASE WaitMark(t) BY <1>10, <1>m DEF WaitMark
<1>11. CASE WaitUnlock(t) BY <1>11, <1>m DEF WaitUnlock
<1>12. CASE WaitYield(t) BY <1>12, <1>m DEF WaitYield
<1>13. CASE WaitReap(t) BY <1>13, <1>m DEF WaitReap
<1>14. CASE DeadProcLock(t) /\ ~Spin BY <1>14, <1>m DEF DeadProcLock, LockDead
<1>15. CASE DeadProcPut(t)
  <2>1. /\ dead_processes' = Append(dead_processes, loc[t])
        /\ loc' = [loc EXCEPT ![t] = NULL] /\ pc' = [pc EXCEPT ![t] = "user"]
        /\ pc[t] = "ap_put"
        /\ UNCHANGED <<self, exited, clearing_procs, lost, pcb>>
    BY <1>15 DEF DeadProcPut
  <2>2. PICK c \in Procs : c = loc[t]
    BY <2>1, Users DEF TypeOK, LocTyped, UsesLoc
  <2>3. \A p : In(dead_processes', p) <=> In(dead_processes, p) \/ p = c
    BY <2>1, <2>2, AppendQueue DEF TypeOK
  <2>4. /\ pc'[t] = "user"
        /\ \A u \in Threads : u # t => pc'[u] = pc[u] /\ loc'[u] = loc[u]
    BY <2>1, Users DEF TypeOK
  <2>5. Held(c) BY <2>1, <2>2 DEF Held
  <2>6. Held(c)' BY <2>3 DEF Held
  <2>7. ASSUME NEW p \in Procs, p # c PROVE Held(p)' <=> Held(p)
    <3>1. \A u \in UserThreads :
            /\ pc'[u] \in Leaving <=> pc[u] \in Leaving
            /\ pc'[u] \in Reaping /\ loc'[u] = p
                 <=> pc[u] \in Reaping /\ loc[u] = p
      BY <2>1, <2>2, <2>4, <2>7, Users
    <3> QED BY <2>1, <2>3, <2>7, <3>1 DEF Held
  <2>8. pc'[Clean] = pc[Clean] BY <2>4, Users, Constants
  <2> QED BY <2>1, <2>5, <2>6, <2>7, <2>8, LossSame DEF LossInv
<1> HIDE DEF Same
<1> QED BY <1>c, <1>s, <1>1, <1>2, <1>3, <1>4, <1>5, <1>6, <1>7, <1>8, <1>9,
           <1>10, <1>11, <1>12, <1>13, <1>14, <1>15 DEF Wait

\* process_exit: the thread has its process until it has filed it, and it
\* files it with a pcb that is still there.
LEMMA ExitLoss ==
  ASSUME TypeOK, TreeInv, LossInv, NEW t \in UserThreads,
         ExitCall(t) \/ Exit(t)
  PROVE  LossInv'
<1> USE DEF schedVars, cleanVars, procVars, At, Goto
<1> DEFINE Same == UNCHANGED <<self, exited, dead_processes, clearing_procs,
                               lost, pcb>>
<1>c. ASSUME NEW f, Crash(f) PROVE LossInv'
  BY <1>c, LossStill DEF Crash, LossInv
<1>s. CASE Spin BY <1>s, LossStill DEF Spin, LossInv
<1>m. ASSUME NEW l, pc' = [pc EXCEPT ![t] = l], UNCHANGED loc, Same,
             l \in Leaving <=> pc[t] \in Leaving,
             l \in Reaping <=> pc[t] \in Reaping
      PROVE  LossInv'
  BY <1>m, LossMoves
<1> USE DEF Leaving, Reaping
<1>1. CASE ExitCall(t) /\ ~Crash("no_parent")
  <2> DEFINE x == parent[self[t]]
  <2>1. /\ loc' = [loc EXCEPT ![t] = x] /\ pc' = [pc EXCEPT ![t] = "e_cli"]
        /\ Same /\ pc[t] = "user"
    BY <1>1 DEF ExitCall
  <2> HIDE DEF x
  <2> QED BY <2>1, LossMove
<1>2. CASE ExitCli(t) BY <1>2, <1>m DEF ExitCli
<1>3. CASE ExitSelf(t) /\ ~Spin BY <1>3, <1>m DEF ExitSelf
<1>4. CASE ExitInitLock(t) /\ ~Spin BY <1>4, <1>m DEF ExitInitLock, LockProc
<1>5. CASE ExitOrphans(t) /\ ~Spin
  <2>3. PICK p \in Procs : p = self[t] BY Users DEF TypeOK
  <2>1. /\ exited' = [exited EXCEPT ![p] = {},
                                    ![InitProc] = @ \cup exited[p]]
        /\ pcb' = [pcb EXCEPT ![p] = "exit"]
        /\ pc[t] = "e_init2" /\ pc' = [pc EXCEPT ![t] = "e_par"]
        /\ UNCHANGED <<self, loc, dead_processes, clearing_procs, lost>>
    BY <1>5, <2>3 DEF ExitOrphans
  <2>2. /\ p \in Procs /\ pcb[p] = "normal" /\ p # InitProc
        /\ pcb[InitProc] = "normal" /\ InitProc \in Procs
    BY <2>1, <2>3, Carrier, Constants
       DEF Gone, TreeInv, KindInv, CarrierInv, Exiting
  <2>4. /\ pc'[t] = "e_par" /\ \A u \in Threads : u # t => pc'[u] = pc[u]
        /\ exited'[p] = {} /\ exited'[InitProc] = exited[InitProc] \cup exited[p]
        /\ \A q \in Procs : q \notin {p, InitProc} => exited'[q] = exited[q]
        /\ pcb'[p] = "exit" /\ \A q \in Procs : q # p => pcb'[q] = pcb[q]
    BY <2>1, <2>2, Users DEF TypeOK
  <2>5. p \notin lost /\ Held(p)'
    BY <2>1, <2>2, <2>3, <2>4 DEF LossInv, Held
  <2>6. ASSUME NEW x \in Procs, x # p PROVE Held(x)' <=> Held(x)
    <3>1. (\E q \in Procs : pcb'[q] # "free" /\ x \in exited'[q])
            <=> \E q \in Procs : pcb[q] # "free" /\ x \in exited[q]
      BY <2>2, <2>4
    <3>2. \A u \in UserThreads :
            /\ pc'[u] \in Leaving /\ self[u] = x
                 <=> pc[u] \in Leaving /\ self[u] = x
            /\ pc'[u] \in Reaping <=> pc[u] \in Reaping
      BY <2>1, <2>3, <2>4, <2>6, Users
    <3> QED BY <2>1, <3>1, <3>2 DEF Held
  <2>7. pc'[Clean] = pc[Clean] BY <2>4, Users, Constants
  <2>8. \A x \in Procs : pcb'[x] = "exit" => Held(x)' \/ x \in lost
    BY <2>4, <2>5, <2>6 DEF LossInv
  <2>9. \A x \in lost : pcb'[x] = "exit" /\ ~Held(x)'
    BY <2>4, <2>5, <2>6 DEF LossInv, TypeOK
  <2> QED BY <2>1, <2>7, <2>8, <2>9 DEF LossInv
<1>6. CASE ExitParentLock(t) /\ ~Spin
  BY <1>6, <1>m, <1>c DEF ExitParentLock, LockProc
<1>7. CASE ExitNotify(t) /\ ~Spin /\ ~Crash("freed_table")
  <2>3. PICK p \in Procs : p = self[t] BY Users DEF TypeOK
  <2>2. PICK q \in Procs : q = loc[t]
    BY <1>7, Users DEF ExitNotify, TypeOK, LocTyped, UsesLoc
  <2>1. /\ exited' = [exited EXCEPT ![q] = @ \cup {p}] /\ pcb[q] # "free"
        /\ pc[t] = "e_par2" /\ pc' = [pc EXCEPT ![t] = "x_dead"]
        /\ UNCHANGED <<self, loc, dead_processes, clearing_procs, lost, pcb>>
    BY <1>7, <2>2, <2>3 DEF ExitNotify
  <2>4. /\ pc'[t] = "x_dead" /\ \A u \in Threads : u # t => pc'[u] = pc[u]
        /\ exited'[q] = exited[q] \cup {p}
        /\ \A r \in Procs : r # q => exited'[r] = exited[r]
    BY <2>1, <2>2, Users DEF TypeOK
  <2>5. Held(p) BY <2>1, <2>3 DEF Held
  <2>6. Held(p)' BY <2>1, <2>2, <2>4 DEF Held
  <2>7. ASSUME NEW x \in Procs, x # p PROVE Held(x)' <=> Held(x)
    <3>1. \A r \in Procs : x \in exited'[r] <=> x \in exited[r]
      BY <2>4, <2>7
    <3>2. \A u \in UserThreads :
            /\ pc'[u] \in Leaving /\ self[u] = x
                 <=> pc[u] \in Leaving /\ self[u] = x
            /\ pc'[u] \in Reaping <=> pc[u] \in Reaping
      BY <2>1, <2>3, <2>4, <2>7, Users
    <3> QED BY <2>1, <3>1, <3>2 DEF Held
  <2>8. pc'[Clean] = pc[Clean] BY <2>4, Users, Constants
  <2> QED BY <2>1, <2>5, <2>6, <2>7, <2>8, LossSame DEF LossInv
<1>8. CASE ExitThread(t) /\ ~Spin BY <1>8, <1>m DEF ExitThread
<1> HIDE DEF Same
<1> QED BY <1>c, <1>s, <1>1, <1>2, <1>3, <1>4, <1>5, <1>6, <1>7, <1>8 DEF Exit

\* kernel_clean_thread: destroy_process loses what is filed with the pcb, and
\* nothing else.
LEMMA CleanLoss ==
  ASSUME TypeOK, DeadInv, TreeInv, LossInv, CleanStep
  PROVE  LossInv'
<1> USE DEF schedVars, cleanVars, procVars, At, Goto
<1>a. Clean \in Threads /\ pc \in [Threads -> Labels] BY Constants DEF TypeOK
<1>s. CASE Spin BY <1>s, LossStill DEF Spin, LossInv
<1>m. ASSUME NEW l, pc' = [pc EXCEPT ![Clean] = l],
             UNCHANGED <<loc, self, exited, dead_processes, clearing_procs,
                         lost, pcb>>,
             l \notin {"c_tasks", "c_procs"} => clearing_procs = <<>>
      PROVE  LossInv'
  <2>1. pc'[Clean] = l /\ \A u \in UserThreads : pc'[u] = pc[u]
    BY <1>a, <1>m, Users
  <2> QED BY <1>m, <2>1, LossStill
<1>1. CASE CleanLock /\ ~Spin BY <1>1, <1>m DEF CleanLock, LockDead, LossInv
<1>2. CASE CleanBlock BY <1>2, <1>m DEF CleanBlock, LossInv
<1>3. CASE CleanUnlock BY <1>3, <1>m DEF CleanUnlock, LossInv
<1>4. CASE CleanYield BY <1>4, <1>m DEF CleanYield, LossInv
<1>5. CASE CleanTake
  <2>1. /\ clearing_procs' = dead_processes /\ dead_processes' = <<>>
        /\ pc[Clean] = "c_test" /\ pc' = [pc EXCEPT ![Clean] = "c_tasks"]
        /\ UNCHANGED <<self, loc, exited, lost, pcb>>
    BY <1>5 DEF CleanTake
  <2>2. clearing_procs = <<>> BY <2>1 DEF LossInv
  <2>3. \A p : ~In(<<>>, p) BY ShortQueues
  <2>4. pc'[Clean] = "c_tasks" /\ \A u \in UserThreads : pc'[u] = pc[u]
    BY <1>a, <2>1, Users
  <2>5. \A p : Held(p)' <=> Held(p) BY <2>1, <2>2, <2>3, <2>4 DEF Held
  <2> QED BY <2>1, <2>4, <2>5, LossSame
<1>6. CASE CleanThread
  <2> DEFINE u == Head(clearing_tasks)
  <2>1. /\ self' = [self EXCEPT ![u] = KernelProc]
        /\ loc' = [loc EXCEPT ![u] = NULL] /\ pc' = [pc EXCEPT ![u] = "none"]
        /\ pc[Clean] = "c_tasks" /\ clearing_tasks # <<>>
        /\ UNCHANGED <<exited, dead_processes, clearing_procs, lost, pcb>>
    BY <1>6 DEF CleanThread
  <2>2. u \in Threads /\ pc[u] = "dead"
    <3>1. clearing_tasks \in Seq(Threads) BY DEF TypeOK
    <3>2. u = clearing_tasks[1] /\ 1 \in 1 .. Len(clearing_tasks)
          /\ u \in Threads
      BY <2>1, <3>1
    <3> QED BY <3>2 DEF DeadInv, EndedThreadListedOnce
  <2> HIDE DEF u
  <2>3. /\ pc'[u] = "none"
        /\ \A v \in Threads : v # u => /\ pc'[v] = pc[v] /\ loc'[v] = loc[v]
                                       /\ self'[v] = self[v]
    BY <2>1, <2>2 DEF TypeOK
  <2>4. \A v \in UserThreads, p \in Procs :
          /\ pc'[v] \in Leaving /\ self'[v] = p <=> pc[v] \in Leaving /\ self[v] = p
          /\ pc'[v] \in Reaping /\ loc'[v] = p <=> pc[v] \in Reaping /\ loc[v] = p
    BY <2>2, <2>3, Users DEF Leaving, Reaping
  <2>5. \A p \in Procs : Held(p)' <=> Held(p) BY <2>1, <2>4 DEF Held
  <2>6. pc'[Clean] = pc[Clean] BY <1>a, <2>1, <2>2, <2>3
  <2> QED BY <2>1, <2>5, <2>6, LossSame DEF LossInv
<1>7. CASE CleanThreadsDone BY <1>7, <1>m DEF CleanThreadsDone
<1>8. CASE CleanProc
  <2> DEFINE q == Head(clearing_procs)
  <2>1. /\ clearing_procs # <<>> /\ clearing_procs' = Tail(clearing_procs)
        /\ pcb' = [pcb EXCEPT ![q] = "free"] /\ lost' = lost \cup exited[q]
        /\ pc[Clean] = "c_procs"
        /\ UNCHANGED <<pc, self, loc, exited, dead_processes>>
    BY <1>8 DEF CleanProc
  <2>2. /\ clearing_procs \in Seq(Procs) /\ Distinct(clearing_procs)
    BY DEF TypeOK, TreeInv, ReapInv
  <2>3. /\ q \in Procs
        /\ \A p : In(clearing_procs', p) <=> In(clearing_procs, p) /\ p # q
        /\ In(clearing_procs, q)
    BY <2>1, <2>2, TailQueue
  <2> HIDE DEF q
  <2>4. /\ pcb[q] = "exit" /\ ~Filed(q) BY <2>3 DEF TreeInv, ReapInv
  <2>5. /\ pcb'[q] = "free" /\ \A p \in Procs : p # q => pcb'[p] = pcb[p]
    BY <2>1, <2>3 DEF TypeOK
  <2>6. q \notin lost /\ q \notin exited[q]
    <3>1. Held(q) BY <2>3 DEF Held
    <3>2. q \notin lost BY <3>1 DEF LossInv
    <3>3. q \notin exited[q] BY <2>3, <2>4 DEF TreeInv, ZombieInv
    <3> QED BY <3>2, <3>3
  <2>7. ASSUME NEW p \in Procs, p # q, p \notin exited[q]
        PROVE  Held(p)' <=> Held(p)
    <3>1. \A r \in Procs : pcb'[r] # "free" /\ p \in exited[r]
                             <=> pcb[r] # "free" /\ p \in exited[r]
      BY <2>3, <2>5, <2>7
    <3> QED BY <2>1, <2>3, <2>7, <3>1 DEF Held
  <2>8. ASSUME NEW p \in exited[q] PROVE p \in Procs /\ pcb'[p] = "exit" /\ ~Held(p)'
    <3>1. p \in Procs BY <2>3, <2>8 DEF TypeOK
    <3>2. /\ pcb[p] = "exit" /\ Filed(p)
          /\ \A u \in UserThreads : pc[u] \in Leaving => self[u] # p
          /\ \A r \in Procs : pcb[r] # "free" /\ p \in exited[r] => r = q
      BY <2>3, <2>4, <2>8 DEF TreeInv, ZombieInv
    <3>3. /\ ~In(dead_processes, p) /\ ~In(clearing_procs, p)
          /\ \A u \in UserThreads : pc[u] \in Reaping => loc[u] # p
      BY <3>1, <3>2 DEF TreeInv, ReapInv
    <3>4. pcb'[p] = "exit" BY <2>4, <2>5, <3>1, <3>2
    <3>5. \A r \in Procs : pcb'[r] # "free" => p \notin exited[r]
      BY <2>5, <3>2
    <3> QED BY <2>1, <2>3, <3>1, <3>2, <3>3, <3>4, <3>5 DEF Held
  <2>9. \A p \in Procs : pcb'[p] = "exit" => Held(p)' \/ p \in lost'
    BY <2>1, <2>5, <2>7 DEF LossInv
  <2>10. \A p \in lost' : pcb'[p] = "exit" /\ ~Held(p)'
    <3> SUFFICES ASSUME NEW p \in lost, p \notin exited[q]
                 PROVE  pcb'[p] = "exit" /\ ~Held(p)'
      BY <2>1, <2>8
    <3>1. p \in Procs /\ p # q BY <2>6 DEF TypeOK
    <3> QED BY <2>5, <2>7, <3>1 DEF LossInv
  <2> QED BY <2>1, <2>9, <2>10 DEF LossInv
<1>9. CASE CleanProcsDone BY <1>9, <1>m DEF CleanProcsDone
<1> QED BY <1>s, <1>1, <1>2, <1>3, <1>4, <1>5, <1>6, <1>7, <1>8, <1>9
        DEF CleanStep

\* Whatever the processes do, one that has exited is held or lost.
THEOREM LossInvariant == Spec => []LossInv
<1>1. Init => LossInv
  <2> SUFFICES ASSUME Init PROVE LossInv OBVIOUS
  <2>1. /\ \A p \in Procs : pcb[p] # "exit"
        /\ clearing_procs = <<>> /\ lost = {}
    BY DEF Init
  <2> QED BY <2>1 DEF LossInv
<1>2. TypeOK /\ DeadInv /\ TreeInv /\ LossInv /\ [Next]_vars => LossInv'
  <2> SUFFICES ASSUME TypeOK, DeadInv, TreeInv, LossInv, [Next]_vars
               PROVE  LossInv'
    OBVIOUS
  <2>1. ASSUME NEW t \in UserThreads, UserCall(t) \/ Fork(t) \/ Wait(t) \/ Exit(t)
        PROVE  LossInv'
    BY <2>1, ForkLoss, WaitLoss, ExitLoss DEF UserCall
  <2>2. CASE CleanStep BY <2>2, CleanLoss
  <2>3. CASE Preempt
    BY <2>3, LossStill DEF Preempt, procVars, cleanVars, LossInv
  <2>4. CASE Idle \/ Halted \/ UNCHANGED vars
    BY <2>4, LossStill DEF Idle, Halted, vars, schedVars, procVars, cleanVars,
       LossInv
  <2> QED BY <2>1, <2>2, <2>3, <2>4 DEF Next
<1> QED BY <1>1, <1>2, TypeCorrect, DeadInvariant, TreeInvariant, PTL DEF Spec

\* Every process id that is taken has one thread that acts as its process or
\* prepares it, and after the exit one place on the way to destroy_process,
\* unless the pcb it was filed with has been destroyed: whatever the order of
\* forks, waits, exits and cleaning, for a pool of any size.
THEOREM IdsInUse == Spec => []IdsAccounted
<1>1. ASSUME TypeOK, TreeInv, LossInv, NEW p \in Procs \ {KernelProc}
      PROVE  Cardinality(Carriers(p)) = IF pcb[p] = "normal" THEN 1 ELSE 0
  <2>1. Carriers(p) = {t \in UserThreads : Carries(t, p)}
    BY DEF Carriers, Carries, Gone, Forking
  <2>2. /\ \A x, y \in Carriers(p) : x = y
        /\ Carriers(p) = {} <=> pcb[p] # "normal"
    BY <1>1, <2>1 DEF TreeInv, CarrierInv
  <2> QED BY <2>2, AtMostOne
<1>2. ASSUME TypeOK, TreeInv, LossInv, NEW p \in Procs \ {KernelProc}
      PROVE  Cardinality(Leavers(p)) + ZombiePlaces(p)
               + (IF p \in lost THEN 1 ELSE 0)
             = IF pcb[p] = "exit" THEN 1 ELSE 0
  <2> DEFINE Z == ZombiePlaces(p)
             L == Leavers(p)
  <2>1. L = {t \in UserThreads : pc[t] \in Leaving /\ self[t] = p}
    BY DEF Leavers, Leaving
  <2>2. /\ \A x, y \in L : x = y
        /\ L # {} => pcb[p] = "exit" /\ Filed(p)
        /\ L # {} => \A q \in Procs : pcb[q] # "free" => p \notin exited[q]
    BY <1>2, <2>1 DEF TreeInv, ZombieInv, CallInv
  <2>3. Cardinality(L) = IF L = {} THEN 0 ELSE 1 BY <2>2, AtMostOne
  <2>4. /\ Z \in {0, 1}
        /\ Z = 1 <=> \/ \E q \in Procs : pcb[q] # "free" /\ p \in exited[q]
                     \/ \E t \in UserThreads : pc[t] \in Reaping /\ loc[t] = p
                     \/ In(dead_processes, p) \/ In(clearing_procs, p)
    BY <1>2, ZombieCount
  <2> HIDE DEF Z, L
  <2>5. L # {} => Z = 0
    <3> SUFFICES ASSUME L # {} PROVE Z # 1 BY <2>4
    <3>1. /\ ~In(dead_processes, p) /\ ~In(clearing_procs, p)
          /\ \A t \in UserThreads : pc[t] \in Reaping => loc[t] # p
      BY <1>2, <2>2 DEF TreeInv, ReapInv
    <3> QED BY <2>2, <2>4, <3>1
  <2>6. Held(p) <=> L # {} \/ Z = 1 BY <2>1, <2>4 DEF Held
  <2>7. /\ pcb[p] = "exit" => Held(p) \/ p \in lost
        /\ p \in lost => pcb[p] = "exit" /\ ~Held(p)
    BY <1>2 DEF LossInv
  <2>8. CASE p \in lost
    <3>1. L = {} /\ Z # 1 /\ pcb[p] = "exit" BY <2>6, <2>7, <2>8
    <3>2. Z = 0 BY <2>4, <3>1
    <3> QED BY <2>3, <2>8, <3>1, <3>2 DEF Z, L
  <2>9. CASE p \notin lost /\ L # {}
    <3>1. Z = 0 /\ pcb[p] = "exit" BY <2>2, <2>5, <2>9
    <3> QED BY <2>3, <2>9, <3>1 DEF Z, L
  <2>10. CASE p \notin lost /\ L = {}
    <3>1. Z = 1 <=> pcb[p] = "exit"
      BY <1>2, <2>6, <2>7, <2>10, ZombieCount DEF Z
    <3>2. Z = IF pcb[p] = "exit" THEN 1 ELSE 0 BY <2>4, <3>1
    <3> QED BY <2>3, <2>10, <3>2 DEF Z, L
  <2> QED BY <2>8, <2>9, <2>10
<1>3. TypeOK /\ TreeInv /\ LossInv => IdsAccounted
  BY <1>1, <1>2 DEF IdsAccounted
<1> QED BY <1>3, TypeCorrect, TreeInvariant, LossInvariant, PTL

-----------------------------------------------------------------------------
(* The page directory *)

\* CR3 is that of the running thread's process, or, when it has given its
\* process up, one that nobody can have freed since the last switch.
PageInv ==
  /\ process[cur] # NULL => cr3 = process[cur]
  /\ pcb[cr3] # "free"

\* A context switch loads the page directory of a process that is alive.
LEMMA SwitchPage ==
  ASSUME TypeOK, TreeInv, PageInv, NEW st \in [Threads -> Status],
         NEW rd \in Seq(Threads), do_context_switch(st, rd),
         UNCHANGED <<process, pcb>>
  PROVE  PageInv'
<1> DEFINE next == Head(RunQueue(rd))
<1>1. next \in Threads BY Constants DEF RunQueue
<1>2. CASE process[next] # process[cur] /\ process[next] = NULL
  BY <1>2 DEF do_context_switch, PageInv
<1>3. CASE ~(process[next] # process[cur] /\ process[next] = NULL)
  <2>1. /\ cur' = next
        /\ cr3' = IF process[next] # process[cur] THEN process[next] ELSE cr3
    BY <1>3 DEF do_context_switch, process_switch
  <2> HIDE DEF next
  <2>2. process[next] # NULL => pcb[process[next]] = "normal"
    <3>1. CASE next \in UserThreads
      BY <3>1, Carrier DEF TreeInv, KindInv
    <3>2. CASE next \notin UserThreads
      BY <1>1, <3>2, Users DEF TreeInv, KindInv, CarrierInv
    <3> QED BY <3>1, <3>2
  <2> QED BY <1>3, <2>1, <2>2 DEF PageInv
<1> QED BY <1>2, <1>3

\* So does a thread that waits for a lock, or whose slice ends.
LEMMA SpinPage ==
  ASSUME TypeOK, TreeInv, PageInv, Spin
  PROVE  PageInv'
  BY SwitchPage DEF Spin, schedule_thread_yield, procVars, TypeOK, SchedTypeOK

\* A step without a switch, after which no process is gone.
LEMMA SamePage ==
  ASSUME TypeOK, PageInv, UNCHANGED <<cur, cr3>>,
         process'[cur] \in {process[cur], NULL},
         \A p \in Procs : pcb[p] # "free" => pcb'[p] # "free"
  PROVE  PageInv'
  BY DEF TypeOK, SchedTypeOK, PageInv

\* Every step keeps it.
LEMMA PageStep ==
  ASSUME TypeOK, DeadInv, TreeInv, PageInv, [Next]_vars
  PROVE  PageInv'
<1> USE DEF schedVars, procVars, cleanVars
<1>a. ASSUME UNCHANGED <<cur, cr3, process, pcb>> PROVE PageInv'
  BY <1>a, SamePage
<1>b. CASE Spin BY <1>b, SpinPage
<1>c. ASSUME NEW f, Crash(f) PROVE PageInv' BY <1>a, <1>c DEF Crash
<1>d. ASSUME NEW t, NEW p, NEW l, LockProc(t, p, l) PROVE PageInv'
  BY <1>a, <1>b, <1>d DEF LockProc
<1>e. ASSUME NEW t, NEW l, LockDead(t, l) PROVE PageInv'
  BY <1>a, <1>b, <1>e DEF LockDead
<1>f. cur \in Threads /\ status \in [Threads -> Status] /\ ready \in Seq(Threads)
      /\ pcb \in [Procs -> {"free", "normal", "exit"}]
      /\ process \in [Threads -> Procs \cup {NULL}]
  BY DEF TypeOK, SchedTypeOK
<1>1. ASSUME NEW t \in UserThreads, UserCall(t) \/ Fork(t) PROVE PageInv'
  <2>1. CASE ForkCreate(t)
    <3>1. CASE Crash("fork_null") BY <1>c, <3>1
    <3>2. CASE ~Crash("fork_null")
      <4>1. /\ UNCHANGED <<cur, cr3, process>>
            /\ \E p \in Procs : pcb' = [pcb EXCEPT ![p] = "normal"]
        BY <2>1, <3>2 DEF ForkCreate, First
      <4>2. \A p \in Procs : pcb[p] # "free" => pcb'[p] # "free"
        BY <1>f, <4>1
      <4> QED BY <4>1, <4>2, SamePage
    <3> QED BY <3>1, <3>2
  <2>2. CASE WaitCall(t) BY <1>a, <2>2 DEF WaitCall
  <2>3. CASE ExitCall(t) BY <1>a, <1>c, <2>3 DEF ExitCall
  <2>4. CASE ForkLock(t) BY <1>d, <2>4 DEF ForkLock
  <2>5. CASE ForkAdd(t) BY <1>a, <2>5 DEF ForkAdd
  <2>6. CASE ForkSched(t)
    <3>1. CASE Crash("no_thread_id") BY <1>c, <3>1
    <3>2. CASE ~Crash("no_thread_id")
      <4>1. PICK u \in Threads :
              /\ pc[u] = "none" /\ pc[cur] = "f_sched"
              /\ process' = [process EXCEPT ![u] = loc[t]]
              /\ UNCHANGED <<cur, cr3, pcb>>
        BY <2>6, <3>2 DEF ForkSched, First, At
      <4>2. process'[cur] = process[cur] BY <1>f, <4>1
      <4> QED BY <4>1, <4>2, SamePage
    <3> QED BY <3>1, <3>2
  <2> QED BY <1>1, <2>1, <2>2, <2>3, <2>4, <2>5, <2>6 DEF UserCall, Fork
<1>2. ASSUME NEW t \in UserThreads, Wait(t) PROVE PageInv'
  <2>1. CASE WaitLock(t) \/ WaitChildLock(t)
    BY <1>d, <2>1 DEF WaitLock, WaitChildLock
  <2>2. CASE DeadProcLock(t) BY <1>e, <2>2 DEF DeadProcLock
  <2>3. CASE WaitYield(t)
    BY <1>f, <2>3, SwitchPage DEF WaitYield, schedule_thread_yield
  <2>4. CASE WaitTake(t) BY <1>a, <1>c, <2>4 DEF WaitTake
  <2>5. CASE \/ WaitNone(t) \/ WaitFail(t) \/ WaitQueueAny(t) \/ WaitChild(t)
             \/ WaitQueueChild(t) \/ WaitMark(t) \/ WaitUnlock(t)
             \/ WaitReap(t) \/ DeadProcPut(t)
    BY <1>a, <2>5 DEF WaitNone, WaitFail, WaitQueueAny, WaitChild,
       WaitQueueChild, WaitMark, WaitUnlock, WaitReap, DeadProcPut
  <2> QED BY <1>2, <2>1, <2>2, <2>3, <2>4, <2>5 DEF Wait
<1>3. ASSUME NEW t \in UserThreads, Exit(t), ~Spin PROVE PageInv'
  <2>1. CASE ExitCli(t) \/ ExitSelf(t) \/ ExitNotify(t)
    BY <1>3, <1>a, <1>c, <2>1 DEF ExitCli, ExitSelf, ExitNotify
  <2>2. CASE ExitInitLock(t) \/ ExitParentLock(t)
    BY <1>c, <1>d, <2>2 DEF ExitInitLock, ExitParentLock
  <2>3. CASE ExitOrphans(t)
    <3>1. /\ pcb' = [pcb EXCEPT ![self[t]] = "exit"] /\ cur = t
          /\ process' = [process EXCEPT ![t] = NULL] /\ UNCHANGED <<cur, cr3>>
      BY <1>3, <2>3 DEF ExitOrphans, At
    <3>2. process'[cur] = NULL /\ \A p \in Procs : pcb[p] # "free" => pcb'[p] # "free"
      BY <1>f, <3>1
    <3> QED BY <3>1, <3>2, SamePage
  <2>4. CASE ExitThread(t)
    <3> DEFINE st == [Woken(status, Notified) EXCEPT ![t] = "dead"]
               rd == ready \o Notified
    <3>1. do_context_switch(st, rd) /\ UNCHANGED <<process, pcb>>
      BY <1>3, <2>4 DEF ExitThread
    <3>2. rd \in Seq(Threads) /\ Notified \in Seq(Threads) BY <1>f, NotifyType
    <3>3. st \in [Threads -> Status] BY <1>f, <3>2, WakeType DEF Status
    <3> HIDE DEF st, rd
    <3> QED BY <3>1, <3>2, <3>3, SwitchPage
  <2> QED BY <1>3, <2>1, <2>2, <2>3, <2>4 DEF Exit
<1>4. CASE CleanStep
  <2>1. CASE CleanLock BY <1>e, <2>1 DEF CleanLock
  <2>2. CASE CleanYield
    BY <1>f, <2>2, SwitchPage DEF CleanYield, schedule_thread_yield
  <2>3. CASE CleanThread
    <3> DEFINE u == Head(clearing_tasks)
    <3>1. /\ clearing_tasks # <<>> /\ process' = [process EXCEPT ![u] = NULL]
          /\ UNCHANGED <<cur, cr3, pcb>>
      BY <2>3 DEF CleanThread
    <3>2. process'[cur] \in {process[cur], NULL} BY <1>f, <3>1
    <3> QED BY <3>1, <3>2, SamePage
  <2>4. CASE CleanProc
    <3> DEFINE h == Head(clearing_procs)
    <3>1. /\ clearing_procs # <<>> /\ pcb' = [pcb EXCEPT ![h] = "free"]
          /\ cur = Clean /\ UNCHANGED <<cur, cr3, process>>
      BY <2>4 DEF CleanProc, At
    <3>2. h \in Procs /\ In(clearing_procs, h)
      BY <3>1, TailQueue DEF TypeOK
    <3>3. pcb[h] = "exit" BY <3>2 DEF TreeInv, ReapInv
    <3>4. /\ process[cur] = KernelProc /\ KernelProc # NULL
          /\ pcb[KernelProc] = "normal"
      BY <3>1 DEF TreeInv, KindInv, CarrierInv, KernelProc, NULL
    <3>5. cr3 = KernelProc BY <3>4 DEF PageInv
    <3>6. pcb'[KernelProc] = "normal"
      <4> HIDE DEF h
      <4> QED BY <1>f, <3>1, <3>3, <3>4, Constants
    <3> QED BY <3>1, <3>4, <3>5, <3>6 DEF PageInv
  <2>5. CASE \/ CleanBlock \/ CleanUnlock \/ CleanTake \/ CleanThreadsDone
             \/ CleanProcsDone
    BY <1>a, <2>5 DEF CleanBlock, CleanUnlock, CleanTake, CleanThreadsDone,
       CleanProcsDone
  <2> QED BY <1>4, <2>1, <2>2, <2>3, <2>4, <2>5 DEF CleanStep
<1>5. CASE Preempt
  <2>1. Spin BY <1>5 DEF Preempt, Spin, schedule, schedule_thread_yield
  <2> QED BY <2>1, SpinPage
<1>6. CASE Idle \/ Halted \/ UNCHANGED vars
  BY <1>a, <1>6 DEF Idle, Halted, vars
<1> QED BY <1>b, <1>1, <1>2, <1>3, <1>4, <1>5, <1>6 DEF Next

\* The CPU never runs on the page directory of a process that was destroyed,
\* although a thread runs on without a process after it has told its parent
\* (do_context_switch, process_switch, process_exit).
THEOREM PageDirectoryLive == Spec => []LivePageDirectory
<1>1. Init => PageInv
  BY Constants DEF Init, SchedInit, PageInv, Main, Clean, KernelProc, InitProc
<1>2. TypeOK /\ DeadInv /\ TreeInv /\ PageInv /\ [Next]_vars => PageInv'
  BY PageStep
<1>3. PageInv => LivePageDirectory BY DEF PageInv, LivePageDirectory
<1> QED BY <1>1, <1>2, <1>3, TypeCorrect, DeadInvariant, TreeInvariant, PTL
        DEF Spec

-----------------------------------------------------------------------------
(* Part 3: the locks, the wait queues and the ready queue.  A lock has one *)
(* holder, a list node is where its thread's status says, and no wakeup is *)
(* lost.                                                                   *)

-----------------------------------------------------------------------------
(* The locks of the processes.  In process_exit a thread that has its      *)
(* parent's lock runs on to the unlock: whoever could make it wait for its *)
(* own lock would have to hold its parent's as well.                       *)

LockInv == /\ ProcLockExclusion
           /\ \A t \in UserThreads : pc[t] = "e_par2" => cur = t

\* The labels inside the section of some process lock.
Locked == {"f_add", "w_scan", "w_fail", "w_clock", "w_cenq", "w_mark",
           "w_unlock", "w_reap", "e_par2", "e_init2"}

\* The sections that thread t has at label k with the locals s and x.
SectionAt(k, s, x, p) ==
  \/ k \in Locked \ {"e_par2", "e_init2"} /\ s = p
  \/ k \in {"w_cenq", "e_par2"} /\ x = p
  \/ k = "e_init2" /\ p = InitProc

\* They depend on nothing else.
LEMMA Sections ==
  \A t \in Threads, p \in Procs :
    InProcSection(t, p) <=> SectionAt(pc[t], self[t], loc[t], p)
  BY DEF InProcSection, SectionAt, Locked

\* Steps that enter and leave no section.
LEMMA LockSame ==
  ASSUME ProcLockExclusion, UNCHANGED plock,
         \A u \in Threads, q \in Procs : InProcSection(u, q)' <=> InProcSection(u, q)
  PROVE  ProcLockExclusion'
  BY DEF ProcLockExclusion

\* yieldlock_lock on a free lock.
LEMMA LockTake ==
  ASSUME TypeOK, ProcLockExclusion, NEW t \in Threads, NEW p \in Procs,
         ~plock[p], plock' = [plock EXCEPT ![p] = TRUE],
         \A u \in Threads, q \in Procs :
           InProcSection(u, q)' <=> InProcSection(u, q) \/ (u = t /\ q = p)
  PROVE  ProcLockExclusion'
<1>1. plock'[p] = TRUE /\ \A q \in Procs : q # p => plock'[q] = plock[q]
  BY DEF TypeOK
<1>2. \A u \in Threads : ~InProcSection(u, p) BY DEF ProcLockExclusion
<1>3. ASSUME NEW q \in Procs
      PROVE  /\ plock'[q] <=> \E u \in Threads : InProcSection(u, q)'
             /\ \A u, v \in Threads :
                  InProcSection(u, q)' /\ InProcSection(v, q)' => u = v
  <2>1. CASE q = p BY <1>1, <1>2, <2>1
  <2>2. CASE q # p BY <1>1, <2>2 DEF ProcLockExclusion
  <2> QED BY <2>1, <2>2
<1> QED BY <1>3 DEF ProcLockExclusion

\* yieldlock_unlock by the holder; the holder may have other locks.
LEMMA LockDrop ==
  ASSUME TypeOK, ProcLockExclusion, NEW t \in Threads, NEW p \in Procs,
         InProcSection(t, p), UnlockProc(p),
         \A u \in Threads, q \in Procs :
           InProcSection(u, q)' <=> InProcSection(u, q) /\ ~(u = t /\ q = p)
  PROVE  ProcLockExclusion'
<1>1. plock'[p] = FALSE /\ \A q \in Procs : q # p => plock'[q] = plock[q]
  BY DEF TypeOK, UnlockProc
<1>2. \A u \in Threads : InProcSection(u, p) => u = t BY DEF ProcLockExclusion
<1>3. ASSUME NEW q \in Procs
      PROVE  /\ plock'[q] <=> \E u \in Threads : InProcSection(u, q)'
             /\ \A u, v \in Threads :
                  InProcSection(u, q)' /\ InProcSection(v, q)' => u = v
  <2>1. CASE q = p BY <1>1, <1>2, <2>1
  <2>2. CASE q # p BY <1>1, <2>2 DEF ProcLockExclusion
  <2> QED BY <2>1, <2>2
<1> QED BY <1>3 DEF ProcLockExclusion

\* What a step of thread t changes of the sections.
LEMMA SectionsOfMove ==
  ASSUME TypeOK, NEW t \in Threads, NEW l, NEW x, NEW p,
         pc' = [pc EXCEPT ![t] = l], loc' = [loc EXCEPT ![t] = x],
         UNCHANGED self
  PROVE  /\ \A u \in Threads, q \in Procs :
              u # t => (InProcSection(u, q)' <=> InProcSection(u, q))
         /\ \A q \in Procs : InProcSection(t, q)' <=> SectionAt(l, self[t], x, q)
<1>1. /\ pc'[t] = l /\ loc'[t] = x
      /\ \A u \in Threads : u # t => pc'[u] = pc[u] /\ loc'[u] = loc[u]
  BY DEF TypeOK
<1>2. \A u \in Threads, q \in Procs :
        u # t => (InProcSection(u, q)' <=> InProcSection(u, q))
  BY <1>1 DEF InProcSection
<1>3. \A q \in Procs : InProcSection(t, q)' <=> SectionAt(l, self[t], x, q)
  BY <1>1 DEF InProcSection, SectionAt, Locked
<1> QED BY <1>2, <1>3

\* The other threads are not in the middle of process_exit while t runs.
LEMMA ParentLockKept ==
  ASSUME TypeOK, LockInv, NEW t \in Threads, cur = t, UNCHANGED cur,
         \A u \in UserThreads : u # t /\ pc'[u] = "e_par2" => pc[u] = "e_par2"
  PROVE  \A u \in UserThreads : pc'[u] = "e_par2" => cur' = u
  BY DEF LockInv

\* A thread that exits does not wait for its own lock while it has its
\* parent's.
LEMMA ParentLockRuns ==
  ASSUME TypeOK, TreeInv, LockInv, NEW t \in UserThreads, pc[t] = "e_par2"
  PROVE  ~plock[self[t]]
<1> DEFINE p == self[t]  q == loc[t]
<1>1. /\ CallInv(t) /\ pc[t] \in Leaving /\ pc[t] \in Exiting /\ pc[t] \in UsesLoc
      /\ t \in Threads
  BY Users DEF TreeInv, Leaving, Exiting, UsesLoc
<1>2. p \in Procs /\ q \in Procs /\ pcb[p] = "exit" /\ q # p
      /\ (q = parent[p] \/ parent[p] = InitProc)
  BY <1>1 DEF CallInv, TypeOK, LocTyped
<1> SUFFICES ASSUME plock[p] PROVE FALSE OBVIOUS
<1>3. PICK u \in Threads : InProcSection(u, p)
  BY <1>2 DEF LockInv, ProcLockExclusion
<1>4. u \in UserThreads
  <2>1. pc[Main] \notin Locked /\ pc[Clean] \notin Locked
    BY DEF TreeInv, KindInv, Cleaning, Locked
  <2>2. pc[u] \in Locked BY <1>2, <1>3, Sections DEF SectionAt, Locked
  <2> QED BY <2>1, <2>2, Users
<1>5. CASE pc[u] = "e_par2" /\ loc[u] = p
  <2>1. u = t BY <1>4, <1>5 DEF LockInv
  <2> QED BY <1>2, <1>5, <2>1
<1>6. CASE pc[u] = "e_init2" /\ p = InitProc
  <2>1. t = InitThread BY <1>6 DEF TreeInv, KindInv
  <2> QED BY <1>1, <2>1 DEF TreeInv, KindInv
<1>7. CASE pc[u] \in Locked \ {"e_par2", "e_init2"} /\ self[u] = p
  <2>1. pc[u] \notin Gone BY <1>7 DEF Locked, Gone
  <2> QED BY <1>2, <1>4, <1>7, <2>1, Carrier
<1>8. CASE pc[u] = "w_cenq" /\ loc[u] = p
  <2>1. pc[u] \in Looking /\ pc[u] \notin Gone BY <1>8 DEF Looking, Gone
  <2>2. loc[u] # 0 /\ loc[u] \in children[self[u]] /\ self[u] \in Procs
    BY <1>4, <1>8, <2>1, Carrier DEF TreeInv, CallInv
  <2>3. parent[p] = self[u] BY <1>8, <2>2 DEF TreeInv, ChildInv
  <2>4. self[u] # InitProc
    BY <1>4, <1>8, <2>1, <2>2 DEF TreeInv, KindInv, CallInv
  <2>5. self[u] = q BY <1>2, <2>3, <2>4
  <2>6. InProcSection(u, q) BY <1>8, <2>5 DEF InProcSection
  <2>7. InProcSection(t, q) BY DEF InProcSection
  <2>8. u = t BY <1>1, <1>2, <2>6, <2>7 DEF LockInv, ProcLockExclusion
  <2> QED BY <1>8, <2>8
<1> QED BY <1>3, <1>5, <1>6, <1>7, <1>8 DEF InProcSection, Locked

\* Steps of one thread that enter and leave no section, that take a lock, and
\* that release one.
LEMMA LockMoves ==
  ASSUME TypeOK, LockInv, NEW t \in Threads, NEW l, NEW x, cur = t,
         pc' = [pc EXCEPT ![t] = l], loc' = [loc EXCEPT ![t] = x],
         UNCHANGED self,
         UNCHANGED cur \/ (pc[t] # "e_par2" /\ l # "e_par2"),
         \/ /\ UNCHANGED plock
            /\ \A q \in Procs : SectionAt(l, self[t], x, q)
                                  <=> SectionAt(pc[t], self[t], loc[t], q)
         \/ \E p \in Procs :
              /\ ~plock[p] /\ plock' = [plock EXCEPT ![p] = TRUE]
              /\ \A q \in Procs : SectionAt(l, self[t], x, q)
                   <=> SectionAt(pc[t], self[t], loc[t], q) \/ q = p
         \/ \E p \in Procs :
              /\ SectionAt(pc[t], self[t], loc[t], p) /\ UnlockProc(p)
              /\ \A q \in Procs : SectionAt(l, self[t], x, q)
                   <=> SectionAt(pc[t], self[t], loc[t], q) /\ q # p
  PROVE  LockInv'
<1>1. /\ \A u \in Threads, q \in Procs :
           u # t => (InProcSection(u, q)' <=> InProcSection(u, q))
      /\ \A q \in Procs : InProcSection(t, q)' <=> SectionAt(l, self[t], x, q)
      /\ \A q \in Procs :
           InProcSection(t, q) <=> SectionAt(pc[t], self[t], loc[t], q)
  BY SectionsOfMove, Sections
<1>2. \A u \in UserThreads : pc'[u] = "e_par2" => cur' = u
  <2>1. pc'[t] = l /\ \A u \in Threads : u # t => pc'[u] = pc[u]
    BY DEF TypeOK
  <2> QED BY <2>1, Users DEF LockInv
<1>3. ProcLockExclusion BY DEF LockInv
<1>4. CASE /\ UNCHANGED plock
           /\ \A q \in Procs : SectionAt(l, self[t], x, q)
                                 <=> SectionAt(pc[t], self[t], loc[t], q)
  <2>1. ProcLockExclusion' BY <1>1, <1>3, <1>4, LockSame
  <2> QED BY <1>2, <2>1 DEF LockInv
<1>5. ASSUME NEW p \in Procs, ~plock[p], plock' = [plock EXCEPT ![p] = TRUE],
             \A q \in Procs : SectionAt(l, self[t], x, q)
               <=> SectionAt(pc[t], self[t], loc[t], q) \/ q = p
      PROVE  LockInv'
  <2>1. \A u \in Threads, q \in Procs :
          InProcSection(u, q)' <=> InProcSection(u, q) \/ (u = t /\ q = p)
    BY <1>1, <1>5
  <2>2. ProcLockExclusion' BY <1>3, <1>5, <2>1, LockTake, ZenonT(40)
  <2> QED BY <1>2, <2>2 DEF LockInv
<1>6. ASSUME NEW p \in Procs, SectionAt(pc[t], self[t], loc[t], p), UnlockProc(p),
             \A q \in Procs : SectionAt(l, self[t], x, q)
               <=> SectionAt(pc[t], self[t], loc[t], q) /\ q # p
      PROVE  LockInv'
  <2>1. \A u \in Threads, q \in Procs :
          InProcSection(u, q)' <=> InProcSection(u, q) /\ ~(u = t /\ q = p)
    BY <1>1, <1>6
  <2>2. ProcLockExclusion' BY <1>1, <1>3, <1>6, <2>1, LockDrop
  <2> QED BY <1>2, <2>2 DEF LockInv
<1> QED BY <1>4, <1>5, <1>6

\* A step that moves nobody: a spin of a thread outside the last section of
\* process_exit, a slice that ends, a halt.
LEMMA LockStill ==
  ASSUME TypeOK, LockInv, UNCHANGED <<pc, self, loc, plock>>,
         pc[cur] # "e_par2" \/ UNCHANGED cur
  PROVE  LockInv'
<1>1. ProcLockExclusion'
  BY LockSame DEF LockInv, InProcSection
<1>2. \A u \in UserThreads : pc'[u] = "e_par2" => cur' = u BY DEF LockInv
<1> QED BY <1>1, <1>2 DEF LockInv

\* yieldlock_lock on the lock of a process.
LEMMA LockProcLock ==
  ASSUME TypeOK, LockInv, NEW t \in Threads, NEW p \in Procs, NEW l, cur = t,
         LockProc(t, p, l), pc[t] # "e_par2",
         \A q \in Procs : SectionAt(l, self[t], loc[t], q)
           <=> SectionAt(pc[t], self[t], loc[t], q) \/ q = p
  PROVE  LockInv'
<1>1. CASE Spin BY <1>1, LockStill DEF Spin, procVars
<1>2. CASE ~Spin
  <2> DEFINE x == loc[t]
  <2>1. /\ ~plock[p] /\ plock' = [plock EXCEPT ![p] = TRUE]
        /\ pc' = [pc EXCEPT ![t] = l] /\ UNCHANGED <<cur, self, loc>>
    BY <1>2 DEF LockProc, Goto, schedVars
  <2>2. loc' = [loc EXCEPT ![t] = x] BY <2>1 DEF TypeOK
  <2>3. \A q \in Procs : SectionAt(l, self[t], x, q)
           <=> SectionAt(pc[t], self[t], loc[t], q) \/ q = p
    OBVIOUS
  <2> HIDE DEF x
  <2> QED BY <2>1, <2>2, <2>3, LockMoves
<1> QED BY <1>1, <1>2

\* process_fork takes and releases its own lock, and the new one is free.
LEMMA ForkLocks ==
  ASSUME TypeOK, TreeInv, LockInv, NEW t \in UserThreads,
         ForkCreate(t) \/ Fork(t)
  PROVE  LockInv'
<1> USE DEF At, Goto
<1>a. t \in Threads /\ self[t] \in Procs BY Users DEF TypeOK
<1>c. ASSUME NEW f, Crash(f) PROVE LockInv'
  BY <1>c, LockStill DEF Crash, procVars
<1>1. CASE ForkCreate(t)
  <2>1. CASE Crash("fork_null") BY <1>c, <2>1
  <2>2. CASE ~Crash("fork_null")
    <3>1. PICK p \in Procs :
            /\ pcb[p] = "free"
            /\ loc' = [loc EXCEPT ![t] = p]
            /\ plock' = [plock EXCEPT ![p] = FALSE]
            /\ pc' = [pc EXCEPT ![t] = "f_lock"]
            /\ pc[t] \in {"init", "user"} /\ cur = t
            /\ UNCHANGED <<cur, self>>
      BY <1>1, <2>2 DEF ForkCreate, First, UnlockProc, MayFork, schedVars
    <3>2. ~plock[p]
      <4> SUFFICES ASSUME plock[p] PROVE FALSE OBVIOUS
      <4>1. PICK u \in Threads : InProcSection(u, p)
        BY DEF LockInv, ProcLockExclusion
      <4>2. u \in UserThreads
        <5>1. pc[Main] \notin Locked /\ pc[Clean] \notin Locked
          BY DEF TreeInv, KindInv, Cleaning, Locked
        <5>2. pc[u] \in Locked BY <4>1, Sections DEF SectionAt, Locked
        <5> QED BY <5>1, <5>2, Users
      <4>3. CASE pc[u] = "e_par2" BY <3>1, <4>2, <4>3 DEF LockInv
      <4>4. CASE p = InitProc BY <3>1, <4>4 DEF TreeInv, CarrierInv
      <4>5. CASE self[u] = p /\ pc[u] \in Locked \ {"e_par2", "e_init2"}
        <5>1. pc[u] \notin Gone BY <4>5 DEF Locked, Gone
        <5> QED BY <3>1, <4>2, <4>5, <5>1, Carrier
      <4>6. CASE pc[u] = "w_cenq" /\ loc[u] = p
        <5>1. pc[u] \in Looking BY <4>6 DEF Looking
        <5>2. p \in children[self[u]] /\ self[u] \in Procs
          BY <4>2, <4>6, <5>1, Carrier DEF TreeInv, CallInv
        <5> QED BY <3>1, <5>2 DEF TreeInv, ChildInv
      <4> QED BY <4>1, <4>3, <4>4, <4>5, <4>6 DEF InProcSection, Locked
    <3>3. UNCHANGED plock BY <3>1, <3>2 DEF TypeOK
    <3>4. \A q \in Procs : SectionAt("f_lock", self[t], p, q)
                             <=> SectionAt(pc[t], self[t], loc[t], q)
      BY <3>1 DEF SectionAt, Locked
    <3> QED BY <1>a, <3>1, <3>3, <3>4, LockMoves
  <2> QED BY <2>1, <2>2
<1>2. CASE ForkLock(t)
  <2>1. \A q \in Procs : SectionAt("f_add", self[t], loc[t], q)
          <=> SectionAt(pc[t], self[t], loc[t], q) \/ q = self[t]
    BY <1>2 DEF ForkLock, SectionAt, Locked
  <2> QED BY <1>2, <1>a, <2>1, LockProcLock DEF ForkLock
<1>3. CASE ForkAdd(t)
  <2> DEFINE x == loc[t]
  <2>1. /\ pc[t] = "f_add" /\ pc' = [pc EXCEPT ![t] = "f_sched"]
        /\ UnlockProc(self[t]) /\ cur = t /\ UNCHANGED <<cur, self, loc>>
    BY <1>3 DEF ForkAdd, schedVars
  <2>2. loc' = [loc EXCEPT ![t] = x] BY <2>1, <1>a DEF TypeOK
  <2>3. /\ SectionAt(pc[t], self[t], loc[t], self[t])
        /\ \A q \in Procs : SectionAt("f_sched", self[t], x, q)
                 <=> SectionAt(pc[t], self[t], loc[t], q) /\ q # self[t]
    BY <2>1 DEF SectionAt, Locked
  <2> HIDE DEF x
  <2> QED BY <1>a, <2>1, <2>2, <2>3, LockMoves
<1>4. CASE ForkSched(t)
  <2>1. CASE Crash("no_thread_id") BY <1>c, <2>1
  <2>2. CASE ~Crash("no_thread_id")
    <3>1. PICK n \in Threads :
            /\ pc[n] = "none" /\ pc[t] = "f_sched" /\ cur = t
            /\ self' = [self EXCEPT ![n] = loc[t]]
            /\ loc' = [loc EXCEPT ![t] = NULL]
            /\ pc' = [pc EXCEPT ![t] = "user", ![n] = "user"]
            /\ UNCHANGED <<cur, plock>>
      BY <1>4, <2>2 DEF ForkSched, First, procVars
    <3>2. pc \in [Threads -> Labels] BY DEF TypeOK
    <3>3. /\ pc'[t] = "user" /\ pc'[n] = "user"
          /\ \A u \in Threads : u \notin {t, n} => pc'[u] = pc[u]
      BY <1>a, <3>1, <3>2
    <3>4. \A u \in Threads : u \notin {t, n} =>
            self'[u] = self[u] /\ loc'[u] = loc[u]
      BY <1>a, <3>1 DEF TypeOK
    <3>5. \A q \in Procs : /\ ~InProcSection(t, q) /\ ~InProcSection(n, q)
                           /\ ~InProcSection(t, q)' /\ ~InProcSection(n, q)'
      BY <3>1, <3>3 DEF InProcSection
    <3>6. \A u \in Threads, q \in Procs :
            InProcSection(u, q)' <=> InProcSection(u, q)
      <4>1. ASSUME NEW u \in Threads, NEW q \in Procs, u \notin {t, n}
            PROVE  InProcSection(u, q)' <=> InProcSection(u, q)
        BY <3>3, <3>4, <4>1 DEF InProcSection
      <4> QED BY <3>5, <4>1
    <3>7. ProcLockExclusion' BY <3>1, <3>6, LockSame DEF LockInv
    <3>8. \A u \in UserThreads : pc'[u] = "e_par2" => cur' = u
      BY <3>1, <3>3, Users DEF LockInv
    <3> QED BY <3>7, <3>8 DEF LockInv
  <2> QED BY <2>1, <2>2
<1> QED BY <1>1, <1>2, <1>3, <1>4 DEF Fork

\* Steps that change no local: outside every lock or inside the same ones, and
\* the release of a lock.
LEMMA LockMove ==
  ASSUME TypeOK, LockInv, NEW t \in Threads, NEW l, cur = t,
         pc' = [pc EXCEPT ![t] = l], UNCHANGED <<self, loc>>,
         UNCHANGED cur \/ (pc[t] # "e_par2" /\ l # "e_par2"),
         \/ /\ UNCHANGED plock
            /\ \A q \in Procs : SectionAt(l, self[t], loc[t], q)
                                  <=> SectionAt(pc[t], self[t], loc[t], q)
         \/ \E p \in Procs :
              /\ SectionAt(pc[t], self[t], loc[t], p) /\ UnlockProc(p)
              /\ \A q \in Procs : SectionAt(l, self[t], loc[t], q)
                   <=> SectionAt(pc[t], self[t], loc[t], q) /\ q # p
  PROVE  LockInv'
<1> DEFINE x == loc[t]
<1>1. loc' = [loc EXCEPT ![t] = x] BY DEF TypeOK
<1>2. \/ /\ UNCHANGED plock
         /\ \A q \in Procs : SectionAt(l, self[t], x, q)
                               <=> SectionAt(pc[t], self[t], loc[t], q)
      \/ \E p \in Procs :
           /\ SectionAt(pc[t], self[t], loc[t], p) /\ UnlockProc(p)
           /\ \A q \in Procs : SectionAt(l, self[t], x, q)
                <=> SectionAt(pc[t], self[t], loc[t], q) /\ q # p
  OBVIOUS
<1> HIDE DEF x
<1> QED BY <1>1, <1>2, LockMoves

\* process_wait: its own lock, the child's inside it, and no lock in its sleep.
LEMMA WaitLocks ==
  ASSUME TypeOK, TreeInv, LockInv, NEW t \in UserThreads,
         WaitCall(t) \/ Wait(t)
  PROVE  LockInv'
<1> USE DEF At, Goto
<1> DEFINE s == self[t]
           At0(p) == SectionAt(pc[t], s, loc[t], p)
<1>a. t \in Threads /\ s \in Procs BY Users DEF TypeOK
<1>c. ASSUME NEW f, Crash(f) PROVE LockInv'
  BY <1>c, LockStill DEF Crash, procVars
<1>q. ASSUME NEW l, NEW x, pc' = [pc EXCEPT ![t] = l],
             loc' = [loc EXCEPT ![t] = x], UNCHANGED <<self, plock>>, cur = t,
             pc[t] # "e_par2", l # "e_par2",
             \A q \in Procs : SectionAt(l, s, x, q) <=> At0(q)
      PROVE  LockInv'
  BY <1>a, <1>q, LockMoves
<1>m. ASSUME NEW l, pc' = [pc EXCEPT ![t] = l], cur = t,
             UNCHANGED <<self, loc, plock>>, pc[t] # "e_par2", l # "e_par2",
             \A q \in Procs : SectionAt(l, s, loc[t], q) <=> At0(q)
      PROVE  LockInv'
  BY <1>a, <1>m, LockMove
<1>u. ASSUME NEW l, NEW p \in Procs, pc' = [pc EXCEPT ![t] = l], cur = t,
             UNCHANGED <<self, loc>>, pc[t] # "e_par2", l # "e_par2",
             At0(p), UnlockProc(p),
             \A q \in Procs : SectionAt(l, s, loc[t], q) <=> At0(q) /\ q # p
      PROVE  LockInv'
  BY <1>a, <1>u, LockMove
<1>1. CASE WaitCall(t)
  <2>1. PICK x \in Procs : loc' = [loc EXCEPT ![t] = x]
    BY <1>1 DEF WaitCall
  <2>2. /\ pc[t] = "user" /\ cur = t /\ pc' = [pc EXCEPT ![t] = "w_lock"]
        /\ UNCHANGED <<self, plock>>
    BY <1>1 DEF WaitCall, procVars
  <2>3. \A q \in Procs : SectionAt("w_lock", s, x, q) <=> At0(q)
    BY <2>2 DEF SectionAt, Locked
  <2> QED BY <1>q, <2>1, <2>2, <2>3
<1>2. CASE WaitLock(t)
  <2>1. \A q \in Procs : SectionAt("w_scan", s, loc[t], q) <=> At0(q) \/ q = s
    BY <1>2 DEF WaitLock, SectionAt, Locked
  <2> QED BY <1>2, <1>a, <2>1, LockProcLock DEF WaitLock
<1>3. CASE WaitNone(t)
  <2>1. \A q \in Procs : SectionAt("w_fail", s, loc[t], q) <=> At0(q)
    BY <1>3 DEF WaitNone, SectionAt, Locked
  <2> QED BY <1>3, <1>m, <2>1 DEF WaitNone, procVars
<1>4. CASE WaitFail(t)
  <2>1. /\ pc[t] = "w_fail" /\ pc' = [pc EXCEPT ![t] = "user"] /\ cur = t
        /\ loc' = [loc EXCEPT ![t] = NULL] /\ UNCHANGED <<self, cur>>
        /\ UnlockProc(s)
    BY <1>4 DEF WaitFail, schedVars
  <2>2. At0(s) /\ \A q \in Procs : SectionAt("user", s, NULL, q)
                                     <=> At0(q) /\ q # s
    BY <2>1 DEF SectionAt, Locked
  <2> QED BY <1>a, <2>1, <2>2, LockMoves
<1>5. CASE WaitTake(t)
  <2>1. CASE Crash("not_a_child") BY <1>c, <2>1
  <2>2. CASE ~Crash("not_a_child")
    <3>1. PICK x : loc' = [loc EXCEPT ![t] = x]
      BY <1>5, <2>2 DEF WaitTake
    <3>2. /\ pc[t] = "w_scan" /\ pc' = [pc EXCEPT ![t] = "w_reap"] /\ cur = t
          /\ UNCHANGED <<self, plock>>
      BY <1>5, <2>2 DEF WaitTake
    <3>3. \A q \in Procs : SectionAt("w_reap", s, x, q) <=> At0(q)
      BY <3>2 DEF SectionAt, Locked
    <3> QED BY <1>q, <3>1, <3>2, <3>3
  <2> QED BY <2>1, <2>2
<1>6. CASE WaitQueueAny(t)
  <2>1. \A q \in Procs : SectionAt("w_mark", s, loc[t], q) <=> At0(q)
    BY <1>6 DEF WaitQueueAny, SectionAt, Locked
  <2> QED BY <1>6, <1>m, <2>1 DEF WaitQueueAny
<1>7. CASE WaitChild(t)
  <2>1. \A q \in Procs : SectionAt("w_clock", s, loc[t], q) <=> At0(q)
    BY <1>7 DEF WaitChild, SectionAt, Locked
  <2> QED BY <1>7, <1>m, <2>1 DEF WaitChild, procVars
<1>8. CASE WaitChildLock(t)
  <2>1. loc[t] \in Procs
    BY <1>8, <1>a DEF WaitChildLock, TypeOK, LocTyped, UsesLoc
  <2>2. \A q \in Procs : SectionAt("w_cenq", s, loc[t], q)
                           <=> At0(q) \/ q = loc[t]
    BY <1>8 DEF WaitChildLock, SectionAt, Locked
  <2> QED BY <1>8, <1>a, <2>1, <2>2, LockProcLock DEF WaitChildLock
<1>9. CASE WaitQueueChild(t)
  <2>1. loc[t] \in Procs /\ pc[t] = "w_cenq"
    BY <1>9, <1>a DEF WaitQueueChild, TypeOK, LocTyped, UsesLoc
  <2>2. loc[t] \in children[s] BY <2>1 DEF TreeInv, CallInv, Looking
  <2>3. loc[t] # s BY <1>a, <2>2 DEF TreeInv, ChildInv
  <2>4. /\ At0(loc[t])
        /\ \A q \in Procs : SectionAt("w_mark", s, loc[t], q)
                              <=> At0(q) /\ q # loc[t]
    BY <2>1, <2>3 DEF SectionAt, Locked
  <2> QED BY <1>9, <1>u, <2>1, <2>4 DEF WaitQueueChild
<1>10. CASE WaitMark(t)
  <2>1. \A q \in Procs : SectionAt("w_unlock", s, loc[t], q) <=> At0(q)
    BY <1>10 DEF WaitMark, SectionAt, Locked
  <2> QED BY <1>10, <1>m, <2>1 DEF WaitMark, procVars
<1>11. CASE WaitUnlock(t)
  <2>1. /\ At0(s)
        /\ \A q \in Procs : SectionAt("w_yield", s, loc[t], q) <=> At0(q) /\ q # s
    BY <1>11 DEF WaitUnlock, SectionAt, Locked
  <2> QED BY <1>11, <1>a, <1>u, <2>1 DEF WaitUnlock
<1>12. CASE WaitYield(t)
  <2>1. \A q \in Procs : SectionAt("w_lock", s, loc[t], q) <=> At0(q)
    BY <1>12 DEF WaitYield, SectionAt, Locked
  <2> QED BY <1>12, <1>m, <2>1 DEF WaitYield, procVars
<1>13. CASE WaitReap(t)
  <2>1. /\ At0(s)
        /\ \A q \in Procs : SectionAt("ap_lock", s, loc[t], q) <=> At0(q) /\ q # s
    BY <1>13 DEF WaitReap, SectionAt, Locked
  <2> QED BY <1>13, <1>a, <1>u, <2>1 DEF WaitReap
<1>14. CASE DeadProcLock(t)
  <2>1. CASE Spin
    BY <1>14, <2>1, LockStill DEF DeadProcLock, Spin, procVars
  <2>2. CASE ~Spin
    <3>1. \A q \in Procs : SectionAt("ap_put", s, loc[t], q) <=> At0(q)
      BY <1>14 DEF DeadProcLock, SectionAt, Locked
    <3> QED BY <1>14, <1>m, <2>2, <3>1 DEF DeadProcLock, LockDead, procVars
  <2> QED BY <2>1, <2>2
<1>15. CASE DeadProcPut(t)
  <2>1. /\ pc[t] = "ap_put" /\ pc' = [pc EXCEPT ![t] = "user"] /\ cur = t
        /\ loc' = [loc EXCEPT ![t] = NULL] /\ UNCHANGED <<self, plock>>
    BY <1>15 DEF DeadProcPut, procVars
  <2>2. \A q \in Procs : SectionAt("user", s, NULL, q) <=> At0(q)
    BY <2>1 DEF SectionAt, Locked
  <2> QED BY <1>q, <2>1, <2>2
<1> QED BY <1>1, <1>2, <1>3, <1>4, <1>5, <1>6, <1>7, <1>8, <1>9, <1>10, <1>11,
           <1>12, <1>13, <1>14, <1>15 DEF Wait

\* process_exit: init's lock, then the parent's, each released by its holder.
LEMMA ExitLocks ==
  ASSUME TypeOK, TreeInv, LockInv, NEW t \in UserThreads,
         ExitCall(t) \/ Exit(t)
  PROVE  LockInv'
<1> USE DEF At, Goto
<1> DEFINE s == self[t]
           At0(p) == SectionAt(pc[t], s, loc[t], p)
<1>a. t \in Threads /\ s \in Procs BY Users DEF TypeOK
<1>c. ASSUME NEW f, Crash(f) PROVE LockInv'
  BY <1>c, LockStill DEF Crash, procVars
<1>s. ASSUME Spin, cur = t, pc[t] # "e_par2" PROVE LockInv'
  BY <1>s, LockStill DEF Spin, procVars
<1>m. ASSUME NEW l, pc' = [pc EXCEPT ![t] = l], cur = t,
             UNCHANGED <<self, loc, plock>>, pc[t] # "e_par2", l # "e_par2",
             \A q \in Procs : SectionAt(l, s, loc[t], q) <=> At0(q)
      PROVE  LockInv'
  BY <1>a, <1>m, LockMove
<1>1. CASE ExitCall(t)
  <2>1. CASE Crash("no_parent") BY <1>c, <2>1
  <2>2. CASE ~Crash("no_parent")
    <3> DEFINE x == parent[s]
    <3>1. /\ pc[t] = "user" /\ pc' = [pc EXCEPT ![t] = "e_cli"] /\ cur = t
          /\ loc' = [loc EXCEPT ![t] = x] /\ UNCHANGED <<self, plock>>
      BY <1>1, <2>2 DEF ExitCall, procVars
    <3> HIDE DEF x
    <3>2. \A q \in Procs : SectionAt("e_cli", s, x, q) <=> At0(q)
      BY <3>1 DEF SectionAt, Locked
    <3> QED BY <1>a, <3>1, <3>2, LockMoves
  <2> QED BY <2>1, <2>2
<1>2. CASE ExitCli(t)
  <2>1. \A q \in Procs : SectionAt("e_self", s, loc[t], q) <=> At0(q)
    BY <1>2 DEF ExitCli, SectionAt, Locked
  <2> QED BY <1>2, <1>m, <2>1 DEF ExitCli, procVars
<1>3. CASE ExitSelf(t)
  <2>1. CASE Spin BY <1>3, <1>s, <2>1 DEF ExitSelf
  <2>2. CASE ~Spin
    <3>1. \A q \in Procs : SectionAt("e_init", s, loc[t], q) <=> At0(q)
      BY <1>3 DEF ExitSelf, SectionAt, Locked
    <3> QED BY <1>3, <1>m, <2>2, <3>1 DEF ExitSelf, procVars
  <2> QED BY <2>1, <2>2
<1>4. CASE ExitInitLock(t)
  <2>1. \A q \in Procs : SectionAt("e_init2", s, loc[t], q)
                           <=> At0(q) \/ q = InitProc
    BY <1>4 DEF ExitInitLock, SectionAt, Locked
  <2> QED BY <1>4, <1>a, <2>1, Constants, LockProcLock DEF ExitInitLock
<1>5. CASE ExitOrphans(t)
  <2>1. CASE Spin BY <1>5, <1>s, <2>1 DEF ExitOrphans
  <2>2. CASE ~Spin
    <3>1. /\ pc[t] = "e_init2" /\ pc' = [pc EXCEPT ![t] = "e_par"] /\ cur = t
          /\ UnlockProc(InitProc) /\ UNCHANGED <<self, loc, cur>>
      BY <1>5, <2>2 DEF ExitOrphans
    <3>2. At0(InitProc) /\ \A q \in Procs : SectionAt("e_par", s, loc[t], q)
                                              <=> At0(q) /\ q # InitProc
      BY <3>1 DEF SectionAt, Locked
    <3> QED BY <1>a, <3>1, <3>2, Constants, LockMove
  <2> QED BY <2>1, <2>2
<1>6. CASE ExitParentLock(t)
  <2>1. CASE Crash("use_after_free") BY <1>c, <2>1
  <2>2. CASE ~Crash("use_after_free")
    <3>1. /\ pc[t] = "e_par" /\ cur = t /\ LockProc(t, loc[t], "e_par2")
          /\ loc[t] \in Procs
      BY <1>6, <2>2, <1>a DEF ExitParentLock, TypeOK, LocTyped, UsesLoc
    <3>2. \A q \in Procs : SectionAt("e_par2", s, loc[t], q)
                             <=> At0(q) \/ q = loc[t]
      BY <3>1 DEF SectionAt, Locked
    <3> QED BY <1>a, <3>1, <3>2, LockProcLock
  <2> QED BY <2>1, <2>2
<1>7. CASE ExitNotify(t)
  <2>1. pc[t] = "e_par2" /\ loc[t] \in Procs /\ ~plock[s]
    BY <1>7, <1>a, ParentLockRuns DEF ExitNotify, TypeOK, LocTyped, UsesLoc
  <2>c. CASE Crash("freed_table") BY <1>c, <2>c
  <2> SUFFICES ASSUME ~Crash("freed_table") PROVE LockInv' BY <2>c
  <2>2. /\ pc' = [pc EXCEPT ![t] = "x_dead"] /\ cur = t
        /\ UnlockProc(loc[t]) /\ UNCHANGED <<self, loc, cur>>
    BY <1>7, <2>1 DEF ExitNotify
  <2>3. At0(loc[t]) /\ \A q \in Procs : SectionAt("x_dead", s, loc[t], q)
                                          <=> At0(q) /\ q # loc[t]
    BY <2>1 DEF SectionAt, Locked
  <2> QED BY <1>a, <2>1, <2>2, <2>3, LockMove
<1>8. CASE ExitThread(t)
  <2>1. CASE Spin BY <1>8, <1>s, <2>1 DEF ExitThread
  <2>2. CASE ~Spin
    <3>1. \A q \in Procs : SectionAt("dead", s, loc[t], q) <=> At0(q)
      BY <1>8 DEF ExitThread, SectionAt, Locked
    <3> QED BY <1>8, <1>m, <2>2, <3>1 DEF ExitThread, procVars
  <2> QED BY <2>1, <2>2
<1> QED BY <1>1, <1>2, <1>3, <1>4, <1>5, <1>6, <1>7, <1>8 DEF Exit

\* The clean thread takes no process lock, and what it frees holds none.
LEMMA CleanLocks ==
  ASSUME TypeOK, TreeInv, DeadInv, LockInv, CleanStep
  PROVE  LockInv'
<1> USE DEF At, Goto
<1>a. Clean \in Threads /\ Clean \notin UserThreads BY Constants, Users
<1>m. ASSUME NEW l \in Cleaning, pc' = [pc EXCEPT ![Clean] = l],
             cur = Clean, UNCHANGED <<self, loc, plock>>
      PROVE  LockInv'
  <2>1. \A q \in Procs : SectionAt(l, self[Clean], loc[Clean], q)
          <=> SectionAt(pc[Clean], self[Clean], loc[Clean], q)
    BY <1>m DEF TreeInv, KindInv, SectionAt, Locked, Cleaning
  <2>2. pc[Clean] # "e_par2" /\ l # "e_par2"
    BY <1>m DEF TreeInv, KindInv, Cleaning
  <2> QED BY <1>a, <1>m, <2>1, <2>2, LockMove
<1>1. CASE CleanLock
  <2>1. CASE Spin
    BY <1>1, <2>1, LockStill DEF CleanLock, Spin, procVars
  <2>2. CASE ~Spin
    BY <1>1, <1>m, <2>2 DEF CleanLock, LockDead, procVars, Cleaning
  <2> QED BY <2>1, <2>2
<1>2. CASE CleanBlock BY <1>2, <1>m DEF CleanBlock, procVars, Cleaning
<1>3. CASE CleanUnlock BY <1>3, <1>m DEF CleanUnlock, procVars, Cleaning
<1>4. CASE CleanYield BY <1>4, <1>m DEF CleanYield, procVars, Cleaning
<1>5. CASE CleanTake BY <1>5, <1>m DEF CleanTake, procVars, Cleaning
<1>6. CASE CleanThread
  <2>0. PICK n : n = Head(clearing_tasks) OBVIOUS
  <2>1. /\ clearing_tasks # <<>>
        /\ pc' = [pc EXCEPT ![n] = "none"]
        /\ self' = [self EXCEPT ![n] = KernelProc]
        /\ loc' = [loc EXCEPT ![n] = NULL] /\ UNCHANGED <<cur, plock>>
    BY <1>6, <2>0 DEF CleanThread, procVars
  <2>2. n \in Threads /\ pc[n] = "dead"
    <3>1. clearing_tasks \in Seq(Threads) BY DEF TypeOK
    <3>2. 1 \in 1 .. Len(clearing_tasks) /\ n = clearing_tasks[1]
      BY <2>0, <2>1, <3>1
    <3>3. n \in Threads BY <3>1, <3>2
    <3> QED BY <3>2, <3>3 DEF DeadInv, EndedThreadListedOnce
  <2>3. /\ pc'[n] = "none"
        /\ \A u \in Threads : u # n =>
             pc'[u] = pc[u] /\ self'[u] = self[u] /\ loc'[u] = loc[u]
    BY <2>1, <2>2 DEF TypeOK
  <2>4. \A u \in Threads, q \in Procs :
          InProcSection(u, q)' <=> InProcSection(u, q)
    <3>1. \A q \in Procs : ~InProcSection(n, q) /\ ~InProcSection(n, q)'
      BY <2>2, <2>3 DEF InProcSection
    <3>2. ASSUME NEW u \in Threads, NEW q \in Procs, u # n
          PROVE  InProcSection(u, q)' <=> InProcSection(u, q)
      BY <2>3, <3>2 DEF InProcSection
    <3> QED BY <3>1, <3>2
  <2>5. ProcLockExclusion' BY <2>1, <2>4, LockSame DEF LockInv
  <2>6. \A u \in UserThreads : pc'[u] = "e_par2" => cur' = u
    BY <2>1, <2>3, Users DEF LockInv
  <2> QED BY <2>5, <2>6 DEF LockInv
<1>7. CASE CleanThreadsDone BY <1>7, <1>m DEF CleanThreadsDone, procVars, Cleaning
<1>8. CASE CleanProc BY <1>8, LockStill DEF CleanProc, schedVars
<1>9. CASE CleanProcsDone BY <1>9, <1>m DEF CleanProcsDone, procVars, Cleaning
<1> QED BY <1>1, <1>2, <1>3, <1>4, <1>5, <1>6, <1>7, <1>8, <1>9 DEF CleanStep

\* Every step keeps the locks right.
LEMMA LockStep ==
  ASSUME TypeOK, DeadInv, TreeInv, LockInv, [Next]_vars
  PROVE  LockInv'
<1>1. ASSUME NEW t \in UserThreads, UserCall(t) \/ Fork(t) \/ Wait(t) \/ Exit(t)
      PROVE  LockInv'
  BY <1>1, ForkLocks, WaitLocks, ExitLocks DEF UserCall
<1>2. CASE CleanStep BY <1>2, CleanLocks
<1>3. CASE Preempt
  BY <1>3, LockStill DEF Preempt, procVars, NoIntr
<1>4. CASE UNCHANGED vars
  BY <1>4, LockStill DEF vars, schedVars, procVars
<1> QED BY <1>1, <1>2, <1>3, <1>4 DEF Next, Idle, Halted

\* yieldlock.c: the invariant behind mutual exclusion on the process locks.
THEOREM LockInvariant == Spec => []LockInv
<1>1. Init => LockInv
  BY Users, Constants DEF Init, LockInv, ProcLockExclusion, InProcSection
<1>2. TypeOK /\ DeadInv /\ TreeInv /\ LockInv /\ [Next]_vars => LockInv'
  BY LockStep
<1> QED BY <1>1, <1>2, TypeCorrect, DeadInvariant, TreeInvariant, PTL DEF Spec

\* A process lock is held exactly when one thread is inside a section it
\* guards, also across exits, reaps and reuse of the pcb, although unlock is a
\* plain store that anyone could make.
THEOREM ProcLocksExclusive == Spec => []ProcLockExclusion
<1>1. LockInv => ProcLockExclusion BY DEF LockInv
<1> QED BY <1>1, LockInvariant, PTL

-----------------------------------------------------------------------------
(* The statuses, the ready queue and the dead lists *)

\* Where a thread may be that is TASK_WAITING, where it certainly is, and where
\* the running one may be it.
Sleeping == {"w_unlock", "w_yield", "w_lock", "c_unlock", "c_yield", "c_lock"}
Marked   == {"w_unlock", "c_unlock"}
Blocking == {"w_unlock", "w_yield", "c_unlock", "c_yield"}

\* The scheduler's own variables agree, for the running thread c.
RunInv(c, st, rd) ==
  /\ ReadyQueue(st, rd)
  /\ \A t \in Threads : st[t] = "running" => t \in {c, Main}
  /\ st[Main] = "running"

\* The status of a thread fits where it is.
LabelInv ==
  /\ \A t \in Threads :
       /\ pc[t] = "none" <=> status[t] = "none"
       /\ pc[t] = "dead" <=> status[t] = "dead"
       /\ status[t] = "waiting" => pc[t] \in Sleeping
       /\ pc[t] \in Marked => status[t] = "waiting"
  /\ status[cur] \in {"running", "waiting"}
  /\ fault = "none" /\ pc[cur] \notin Blocking => status[cur] = "running"

\* The DEAD threads are the ones the clean thread will find.
ListInv ==
  /\ \A t \in Threads :
       In(dead_tasks, t) \/ In(clearing_tasks, t) <=> status[t] = "dead"
  /\ pc[Clean] # "c_tasks" => clearing_tasks = <<>>

StatusInv == RunInv(cur, status, ready) /\ LabelInv /\ ListInv

\* do_context_switch: the next thread was READY or is the idle thread, and no
\* other status changes than that of the old thread, which is queued.
LEMMA SwitchFacts ==
  ASSUME TypeOK, fault = "none", NEW st \in [Threads -> Status],
         NEW rd \in Seq(Threads), RunInv(cur, st, rd), do_context_switch(st, rd)
  PROVE  \/ fault' = "null_process" /\ UNCHANGED <<cur, ready, status>>
         \/ /\ fault' = fault /\ cur' \in Threads
            /\ RunInv(cur', status', ready') /\ status'[cur'] = "running"
            /\ \A t \in Threads, k \in {"none", "dead", "waiting"} :
                 status'[t] = k <=> st[t] = k
<1>1. CASE fault' # fault
  BY <1>1 DEF do_context_switch
<1>2. CASE fault' = fault
  <2>1. cur \in Threads /\ Main \in Threads BY Constants DEF TypeOK, SchedTypeOK
  <2>2. /\ cur' \in Threads
        /\ ReadyQueue(status', ready')
        /\ status'[cur'] = "running"
        /\ \A t \in Threads :
             status'[t] = IF t = cur' THEN "running"
                          ELSE IF t = cur /\ Requeues(st) THEN "ready"
                          ELSE st[t]
        /\ cur' = Main \/ In(rd, cur')
    BY <1>2, <2>1, SwitchQueue DEF RunInv
  <2>3. st[cur'] \in {"running", "ready"} BY <2>2 DEF RunInv, ReadyQueue
  <2>4. Requeues(st) <=> st[cur] = "running" /\ cur # Main BY DEF Requeues
  <2>5. \A t \in Threads, k \in {"none", "dead", "waiting"} :
          status'[t] = k <=> st[t] = k
    BY <2>2, <2>3, <2>4
  <2>6. \A t \in Threads : status'[t] = "running" => t \in {cur', Main}
    BY <2>2, <2>4 DEF RunInv
  <2>7. status'[Main] = "running" BY <2>1, <2>2, <2>4 DEF RunInv
  <2> QED BY <1>2, <2>2, <2>5, <2>6, <2>7 DEF RunInv
<1> QED BY <1>1, <1>2

\* A step of the running thread that changes no status.
LEMMA StatusMove ==
  ASSUME TypeOK, StatusInv, NEW t \in Threads, NEW l,
         fault = "none", cur = t, pc' = [pc EXCEPT ![t] = l],
         UNCHANGED <<cur, ready, status, fault, dead_tasks>>,
         l \notin {"none", "dead"}, l \notin Marked,
         pc[t] \in Blocking <=> l \in {"w_yield", "c_yield"},
         pc'[Clean] # "c_tasks" => clearing_tasks = <<>>,
         UNCHANGED clearing_tasks
  PROVE  StatusInv'
<1>1. pc'[t] = l /\ \A u \in Threads : u # t => pc'[u] = pc[u]
  BY DEF TypeOK
<1>2. RunInv(cur, status, ready)'
  BY DEF StatusInv, RunInv, ReadyQueue
<1>3. ListInv' BY DEF StatusInv, ListInv
<1>4. LabelInv'
  <2>1. pc[t] \notin Blocking => status[t] = "running"
    BY DEF StatusInv, LabelInv
  <2>2. status[t] = "waiting" => l \in Sleeping
    BY <2>1 DEF Sleeping
  <2>3. ASSUME NEW u \in Threads
        PROVE  /\ pc'[u] = "none" <=> status[u] = "none"
               /\ pc'[u] = "dead" <=> status[u] = "dead"
               /\ status[u] = "waiting" => pc'[u] \in Sleeping
               /\ pc'[u] \in Marked => status[u] = "waiting"
    <3>1. CASE u = t BY <1>1, <2>2, <3>1 DEF StatusInv, LabelInv
    <3>2. CASE u # t BY <1>1, <3>2 DEF StatusInv, LabelInv
    <3> QED BY <3>1, <3>2
  <2>4. pc'[t] \notin Blocking => status[t] = "running"
    BY <1>1, <2>1 DEF Blocking
  <2> QED BY <2>3, <2>4 DEF StatusInv, LabelInv
<1> QED BY <1>2, <1>3, <1>4 DEF StatusInv

\* A switch to another thread: a spin, a yield, the end of a slice.
LEMMA StatusSwitch ==
  ASSUME TypeOK, StatusInv, fault = "none", do_context_switch(status, ready),
         \A u \in Threads : u # cur => pc'[u] = pc[u],
         \/ pc'[cur] = pc[cur]
         \/ pc[cur] = "w_yield" /\ pc'[cur] = "w_lock"
         \/ pc[cur] = "c_yield" /\ pc'[cur] = "c_lock",
         UNCHANGED <<dead_tasks, clearing_tasks>>
  PROVE  /\ StatusInv'
         /\ \A u \in Threads : status'[u] = "waiting" <=> status[u] = "waiting"
<1>1. status \in [Threads -> Status] /\ ready \in Seq(Threads) /\ cur \in Threads
  BY DEF TypeOK, SchedTypeOK
<1>2. RunInv(cur, status, ready) BY DEF StatusInv
<1>3. \/ fault' = "null_process" /\ UNCHANGED <<cur, ready, status>>
      \/ /\ fault' = fault /\ cur' \in Threads
         /\ RunInv(cur', status', ready') /\ status'[cur'] = "running"
         /\ \A t \in Threads, k \in {"none", "dead", "waiting"} :
              status'[t] = k <=> status[t] = k
  BY <1>1, <1>2, SwitchFacts
<1>4. \A t \in Threads, k \in {"none", "dead", "waiting"} :
        status'[t] = k <=> status[t] = k
  BY <1>3
<1>5. RunInv(cur, status, ready)' BY <1>2, <1>3 DEF RunInv, ReadyQueue
<1>6. ListInv'
  <2>1. pc'[Clean] # "c_tasks" => pc[Clean] # "c_tasks" BY Constants
  <2> QED BY <1>4, <2>1 DEF StatusInv, ListInv
<1>7. LabelInv'
  <2>1. \A u \in Threads : /\ pc'[u] = "none" <=> pc[u] = "none"
                           /\ pc'[u] = "dead" <=> pc[u] = "dead"
                           /\ pc'[u] \in Marked <=> pc[u] \in Marked
                           /\ pc[u] \in Sleeping => pc'[u] \in Sleeping
    BY DEF Marked, Sleeping
  <2>2. \A u \in Threads :
          /\ pc'[u] = "none" <=> status'[u] = "none"
          /\ pc'[u] = "dead" <=> status'[u] = "dead"
          /\ status'[u] = "waiting" => pc'[u] \in Sleeping
          /\ pc'[u] \in Marked => status'[u] = "waiting"
    BY <1>4, <2>1 DEF StatusInv, LabelInv
  <2> QED BY <1>3, <2>2 DEF StatusInv, LabelInv
<1> QED BY <1>4, <1>5, <1>6, <1>7 DEF StatusInv

\* schedule_mark_thread_block.
LEMMA StatusMark ==
  ASSUME TypeOK, StatusInv, NEW t \in Threads, NEW l \in Marked, t # Main,
         fault = "none", cur = t, pc[t] \notin Blocking, pc[t] # "c_tasks",
         pc' = [pc EXCEPT ![t] = l],
         status' = [status EXCEPT ![t] = "waiting"],
         UNCHANGED <<cur, ready, fault, dead_tasks, clearing_tasks>>
  PROVE  StatusInv'
<1>1. /\ pc'[t] = l /\ \A u \in Threads : u # t => pc'[u] = pc[u]
      /\ status'[t] = "waiting"
      /\ \A u \in Threads : u # t => status'[u] = status[u]
  BY DEF TypeOK, SchedTypeOK
<1>2. status[t] = "running" BY DEF StatusInv, LabelInv
<1>3. RunInv(cur, status, ready)'
  BY <1>1, <1>2, Constants DEF StatusInv, RunInv, ReadyQueue
<1>4. ListInv'
  <2>1. pc'[Clean] # "c_tasks" => pc[Clean] # "c_tasks" BY <1>1, Constants
  <2> QED BY <1>1, <1>2, <2>1 DEF StatusInv, ListInv
<1>5. LabelInv'
  <2>1. ASSUME NEW u \in Threads
        PROVE  /\ pc'[u] = "none" <=> status'[u] = "none"
               /\ pc'[u] = "dead" <=> status'[u] = "dead"
               /\ status'[u] = "waiting" => pc'[u] \in Sleeping
               /\ pc'[u] \in Marked => status'[u] = "waiting"
    <3>1. CASE u = t BY <1>1, <3>1 DEF Marked, Sleeping
    <3>2. CASE u # t BY <1>1, <3>2 DEF StatusInv, LabelInv
    <3> QED BY <3>1, <3>2
  <2>2. l \in Blocking BY DEF Marked, Blocking
  <2> QED BY <1>1, <2>1, <2>2 DEF LabelInv
<1> QED BY <1>3, <1>4, <1>5 DEF StatusInv

\* add_thread_node_to_schedule for each of a queue of sleepers.
LEMMA WakeQueue ==
  ASSUME TypeOK, RunInv(cur, status, ready), NEW ts \in Seq(Threads),
         Distinct(ts), \A u \in Threads : In(ts, u) => status[u] = "waiting"
  PROVE  /\ ready \o ts \in Seq(Threads)
         /\ Woken(status, ts) \in [Threads -> Status]
         /\ \A u \in Threads :
              Woken(status, ts)[u] = IF In(ts, u) THEN "ready" ELSE status[u]
         /\ RunInv(cur, Woken(status, ts), ready \o ts)
<1>1. status \in [Threads -> Status] /\ ready \in Seq(Threads)
  BY DEF TypeOK, SchedTypeOK
<1>2. Woken(status, ts) \in [Threads -> Status] BY <1>1, WakeType
<1>3. \A u \in Threads :
        Woken(status, ts)[u] = IF In(ts, u) THEN "ready" ELSE status[u]
  BY DEF Woken, In
<1>4. /\ ready \o ts \in Seq(Threads)
      /\ \A u : In(ready \o ts, u) <=> In(ready, u) \/ In(ts, u)
      /\ Distinct(ready \o ts)
  <2>1. \A u \in Threads : ~(In(ready, u) /\ In(ts, u))
    BY DEF RunInv, ReadyQueue
  <2>2. Distinct(ready) BY DEF RunInv, ReadyQueue
  <2> QED BY <1>1, <2>1, <2>2, ConcatQueue
<1>5. RunInv(cur, Woken(status, ts), ready \o ts)
  <2>1. \A u \in Threads :
          In(ready \o ts, u) <=> Woken(status, ts)[u] = "ready"
    BY <1>3, <1>4 DEF RunInv, ReadyQueue
  <2> QED BY <1>3, <1>4, <2>1, Constants DEF RunInv, ReadyQueue
<1> QED BY <1>2, <1>3, <1>4, <1>5

\* A step of the running thread that wakes a queue of sleepers.
LEMMA StatusWake ==
  ASSUME TypeOK, StatusInv, NEW t \in Threads, NEW l, NEW ts \in Seq(Threads),
         t # Clean, fault = "none", cur = t, pc' = [pc EXCEPT ![t] = l],
         pc[t] \notin Blocking, l \notin Blocking \cup {"none", "dead"},
         Distinct(ts),
         \A u \in Threads : In(ts, u) => status[u] = "waiting"
                                         /\ pc[u] \notin Marked,
         add_thread_nodes_to_schedule(ts),
         UNCHANGED <<cur, fault, dead_tasks, clearing_tasks>>
  PROVE  /\ StatusInv'
         /\ \A u \in Threads :
              status'[u] = IF In(ts, u) THEN "ready" ELSE status[u]
<1>1. pc'[t] = l /\ \A u \in Threads : u # t => pc'[u] = pc[u]
  BY DEF TypeOK
<1>2. RunInv(cur, status, ready) BY DEF StatusInv
<1>3. /\ \A u \in Threads : status'[u] = IF In(ts, u) THEN "ready" ELSE status[u]
      /\ RunInv(cur, status', ready')
  BY <1>2, WakeQueue DEF add_thread_nodes_to_schedule
<1>4. RunInv(cur, status, ready)' BY <1>3 DEF RunInv, ReadyQueue
<1>5. ListInv' BY <1>1, <1>3, Constants DEF StatusInv, ListInv
<1>6. status[t] = "running" /\ status'[t] = "running" /\ ~In(ts, t)
  BY <1>3 DEF StatusInv, LabelInv
<1>7. LabelInv'
  <2>1. ASSUME NEW u \in Threads
        PROVE  /\ pc'[u] = "none" <=> status'[u] = "none"
               /\ pc'[u] = "dead" <=> status'[u] = "dead"
               /\ status'[u] = "waiting" => pc'[u] \in Sleeping
               /\ pc'[u] \in Marked => status'[u] = "waiting"
    <3>1. CASE u = t BY <1>1, <1>6, <3>1 DEF Marked, Blocking
    <3>2. CASE u # t
      <4>1. pc'[u] = pc[u] BY <1>1, <3>2
      <4>2. CASE In(ts, u)
        <5>1. status[u] = "waiting" /\ pc[u] \notin Marked /\ status'[u] = "ready"
          BY <1>3, <4>2
        <5> QED BY <4>1, <5>1 DEF StatusInv, LabelInv
      <4>3. CASE ~In(ts, u) BY <1>3, <4>1, <4>3 DEF StatusInv, LabelInv
      <4> QED BY <4>2, <4>3
    <3> QED BY <3>1, <3>2
  <2> QED BY <1>6, <2>1 DEF LabelInv
<1> QED BY <1>3, <1>4, <1>5, <1>7 DEF StatusInv

-----------------------------------------------------------------------------
(* The wait queues and the condition variable *)

\* Thread t is in a wait queue: from the enqueue, before schedule_mark_thread_
\* block, until it is woken.
Asleep(t) == t \in UserThreads /\ (pc[t] = "w_mark" \/ status[t] = "waiting")

\* The event that thread t waits for has not happened.
Unheard(t) == IF loc[t] = 0 THEN exited[self[t]] = {}
              ELSE loc[t] \in children[self[t]] \ exited[self[t]]

\* The wait queues hold the threads that sleep, each in the queue that its
\* waker empties, and what was read under the lock is still true.
WaitInv ==
  /\ \A q \in Procs :
       /\ Distinct(wait_any[q]) /\ Distinct(exit_wait[q])
       /\ \A t \in Threads :
            /\ In(wait_any[q], t) <=> Asleep(t) /\ self[t] = q /\ loc[t] = 0
            /\ In(exit_wait[q], t) <=> Asleep(t) /\ loc[t] = q /\ q # 0
  /\ \A t \in UserThreads :
       /\ Asleep(t) => Unheard(t)
       /\ pc[t] \in {"w_clock", "w_cenq"} => loc[t] \notin exited[self[t]]

\* dead_cv has a waiter exactly while the clean thread sleeps.
CvInv ==
  /\ cv = IF status[Clean] = "waiting" THEN <<Clean>> ELSE <<>>
  /\ status[Clean] = "waiting" => dead_tasks = <<>> /\ dead_processes = <<>>

QueueInv == StatusInv /\ WaitInv /\ CvInv

\* Where a sleeper is.
LEMMA SleepLabels ==
  ASSUME TypeOK, TreeInv, StatusInv, NEW t \in Threads, Asleep(t)
  PROVE  /\ t \in UserThreads
         /\ pc[t] \in {"w_mark", "w_unlock", "w_yield", "w_lock"}
         /\ pc[t] \notin Gone /\ self[t] \in Procs /\ loc[t] \in Procs
<1>1. t \in UserThreads /\ pc[t] \notin Cleaning
  BY DEF Asleep, TreeInv, KindInv
<1>2. pc[t] \in {"w_mark", "w_unlock", "w_yield", "w_lock"}
  BY <1>1 DEF Asleep, StatusInv, LabelInv, Sleeping, Cleaning
<1>3. pc[t] \notin Gone /\ pc[t] \in UsesLoc BY <1>2 DEF Gone, UsesLoc
<1> QED BY <1>1, <1>2, <1>3 DEF TypeOK, LocTyped

\* The running thread sleeps only where it blocks.
LEMMA Awake ==
  ASSUME TypeOK, StatusInv, NEW t \in Threads, fault = "none", cur = t,
         pc[t] \notin Blocking
  PROVE  status[t] = "running" /\ (pc[t] # "w_mark" => ~Asleep(t))
  BY DEF StatusInv, LabelInv, Asleep

\* A step after which the same threads sleep on what they slept on.
LEMMA WaitSame ==
  ASSUME WaitInv, UNCHANGED <<wait_any, exit_wait>>,
         \A u \in Threads : Asleep(u)' <=> Asleep(u),
         \A u \in Threads : Asleep(u) => self'[u] = self[u] /\ loc'[u] = loc[u],
         \A u \in UserThreads : Asleep(u) => Unheard(u)',
         \A u \in UserThreads : pc'[u] \in {"w_clock", "w_cenq"}
                                  => loc'[u] \notin exited'[self'[u]]
  PROVE  WaitInv'
<1>1. \A u \in Threads, q \in Procs :
        /\ In(wait_any[q], u) <=> Asleep(u)' /\ self'[u] = q /\ loc'[u] = 0
        /\ In(exit_wait[q], u) <=> Asleep(u)' /\ loc'[u] = q /\ q # 0
  BY DEF WaitInv
<1> QED BY <1>1, Constants DEF WaitInv

\* The same if nobody's children change.
LEMMA WaitStill ==
  ASSUME WaitInv, UNCHANGED <<wait_any, exit_wait, exited, children>>,
         \A u \in Threads : Asleep(u)' <=> Asleep(u),
         \A u \in Threads : Asleep(u) \/ pc'[u] \in {"w_clock", "w_cenq"} =>
           self'[u] = self[u] /\ loc'[u] = loc[u],
         \A u \in UserThreads : pc'[u] \in {"w_clock", "w_cenq"} =>
           pc[u] \in {"w_clock", "w_cenq"} \/ loc[u] \notin exited[self[u]]
  PROVE  WaitInv'
<1>1. \A u \in UserThreads : Asleep(u) => Unheard(u)'
  BY Users DEF WaitInv, Unheard
<1>2. \A u \in UserThreads : pc'[u] \in {"w_clock", "w_cenq"}
                               => loc'[u] \notin exited'[self'[u]]
  BY Users DEF WaitInv
<1> QED BY <1>1, <1>2, WaitSame

\* A step of the running thread that concerns no queue.
LEMMA QuietQueue ==
  ASSUME TypeOK, QueueInv, NEW t \in Threads, NEW l, NEW x,
         fault = "none", cur = t,
         pc' = [pc EXCEPT ![t] = l], loc' = [loc EXCEPT ![t] = x],
         UNCHANGED <<cur, ready, status, fault>>,
         UNCHANGED <<self, wait_any, exit_wait, exited, children>>,
         UNCHANGED <<cv, dead_tasks, dead_processes, clearing_tasks>>,
         l \notin {"none", "dead", "w_mark"}, l \notin Marked, pc[t] # "w_mark",
         pc[t] \in Blocking <=> l \in {"w_yield", "c_yield"},
         pc[t] \in Blocking \/ l \in {"w_clock", "w_cenq"} => x = loc[t],
         l \in {"w_clock", "w_cenq"} =>
           pc[t] \in {"w_clock", "w_cenq"} \/ loc[t] \notin exited[self[t]],
         t = Clean /\ l # "c_tasks" => clearing_tasks = <<>>
  PROVE  QueueInv'
<1>1. /\ pc'[t] = l /\ \A u \in Threads : u # t => pc'[u] = pc[u]
      /\ loc'[t] = x /\ \A u \in Threads : u # t => loc'[u] = loc[u]
  BY DEF TypeOK
<1>2. StatusInv'
  <2>1. pc'[Clean] # "c_tasks" => clearing_tasks = <<>>
    BY <1>1, Constants DEF QueueInv, StatusInv, ListInv
  <2> QED BY <2>1, StatusMove DEF QueueInv
<1>3. \A u \in Threads : Asleep(u)' <=> Asleep(u) BY <1>1 DEF Asleep
<1>4. pc[t] \notin Blocking => ~Asleep(t) BY Awake DEF QueueInv
<1>5. WaitInv'
  <2>1. \A u \in Threads : Asleep(u) \/ pc'[u] \in {"w_clock", "w_cenq"} =>
          self'[u] = self[u] /\ loc'[u] = loc[u]
    BY <1>1, <1>4
  <2>2. \A u \in UserThreads : pc'[u] \in {"w_clock", "w_cenq"} =>
          pc[u] \in {"w_clock", "w_cenq"} \/ loc[u] \notin exited[self[u]]
    BY <1>1, Users
  <2> QED BY <1>3, <2>1, <2>2, WaitStill DEF QueueInv
<1>6. CvInv' BY DEF QueueInv, CvInv
<1> QED BY <1>2, <1>5, <1>6 DEF QueueInv

\* The same for a step that leaves the local alone.
LEMMA QuietQueueMove ==
  ASSUME TypeOK, QueueInv, NEW t \in Threads, NEW l,
         fault = "none", cur = t,
         pc' = [pc EXCEPT ![t] = l], UNCHANGED loc,
         UNCHANGED <<cur, ready, status, fault>>,
         UNCHANGED <<self, wait_any, exit_wait, exited, children>>,
         UNCHANGED <<cv, dead_tasks, dead_processes, clearing_tasks>>,
         l \notin {"none", "dead", "w_mark"}, l \notin Marked, pc[t] # "w_mark",
         pc[t] \in Blocking <=> l \in {"w_yield", "c_yield"},
         l \in {"w_clock", "w_cenq"} =>
           pc[t] \in {"w_clock", "w_cenq"} \/ loc[t] \notin exited[self[t]],
         t = Clean /\ l # "c_tasks" => clearing_tasks = <<>>
  PROVE  QueueInv'
<1> DEFINE x == loc[t]
<1>1. loc' = [loc EXCEPT ![t] = x] BY DEF TypeOK
<1>2. pc[t] \in Blocking \/ l \in {"w_clock", "w_cenq"} => x = loc[t] OBVIOUS
<1> HIDE DEF x
<1> QED BY <1>1, <1>2, QuietQueue

\* A switch to another thread.
LEMMA SwitchQueues ==
  ASSUME TypeOK, QueueInv, fault = "none", do_context_switch(status, ready),
         \A u \in Threads : u # cur => pc'[u] = pc[u],
         \/ pc'[cur] = pc[cur]
         \/ pc[cur] = "w_yield" /\ pc'[cur] = "w_lock"
         \/ pc[cur] = "c_yield" /\ pc'[cur] = "c_lock",
         UNCHANGED <<self, loc, wait_any, exit_wait, exited, children>>,
         UNCHANGED <<cv, dead_tasks, dead_processes, clearing_tasks>>
  PROVE  QueueInv'
<1>1. StatusInv' /\ \A u \in Threads : status'[u] = "waiting" <=> status[u] = "waiting"
  BY StatusSwitch DEF QueueInv
<1>2. \A u \in Threads : Asleep(u)' <=> Asleep(u) BY <1>1 DEF Asleep
<1>3. \A u \in Threads : pc'[u] \in {"w_clock", "w_cenq"} =>
                           pc[u] \in {"w_clock", "w_cenq"}
  OBVIOUS
<1>4. WaitInv' BY <1>2, <1>3, Users, WaitStill DEF QueueInv
<1>5. CvInv' BY <1>1, Constants DEF QueueInv, CvInv
<1> QED BY <1>1, <1>4, <1>5 DEF QueueInv

\* A thread that spins.
LEMMA SpinQueues ==
  ASSUME TypeOK, QueueInv, fault = "none", Spin
  PROVE  QueueInv'
  BY SwitchQueues DEF Spin, schedule_thread_yield, procVars, cleanVars

\* A step that concerns neither threads nor queues.
LEMMA StillQueues ==
  ASSUME TypeOK, QueueInv, fault' = "none" => fault = "none",
         UNCHANGED <<cur, ready, status, pc, self, loc>>,
         UNCHANGED <<wait_any, exit_wait, exited, children>>,
         UNCHANGED <<cv, dead_tasks, dead_processes, clearing_tasks>>
  PROVE  QueueInv'
<1>1. StatusInv'
  BY DEF QueueInv, StatusInv, RunInv, ReadyQueue, LabelInv, ListInv
<1>2. WaitInv' BY DEF QueueInv, WaitInv, Asleep, Unheard
<1>3. CvInv' BY DEF QueueInv, CvInv
<1> QED BY <1>1, <1>2, <1>3 DEF QueueInv

\* In particular a kernel that halts.
LEMMA CrashQueues ==
  ASSUME TypeOK, QueueInv, NEW f, f # "none", Crash(f)
  PROVE  QueueInv'
  BY StillQueues DEF Crash, procVars, cleanVars

\* The steps of fork, wait and exit that concern no queue.
LEMMA QuietQueues ==
  ASSUME TypeOK, QueueInv, NEW t \in UserThreads,
         \/ ForkLock(t) \/ WaitCall(t) \/ WaitLock(t) \/ WaitNone(t)
         \/ WaitFail(t) \/ WaitChild(t) \/ WaitChildLock(t) \/ WaitUnlock(t)
         \/ WaitYield(t) \/ WaitReap(t) \/ DeadProcLock(t)
         \/ ExitCall(t) \/ ExitCli(t) \/ ExitSelf(t) \/ ExitInitLock(t)
         \/ ExitParentLock(t)
  PROVE  QueueInv'
<1> USE DEF At, Goto, schedVars, procVars, cleanVars
<1>a. t \in Threads /\ t # Clean BY Users
<1>s. ASSUME fault = "none", Spin PROVE QueueInv' BY <1>s, SpinQueues
<1>k. ASSUME NEW f, f # "none", Crash(f) PROVE QueueInv' BY <1>k, CrashQueues
<1> DEFINE Still == /\ UNCHANGED <<cur, ready, status, fault>>
                    /\ UNCHANGED <<self, wait_any, exit_wait, exited, children>>
                    /\ UNCHANGED <<cv, dead_tasks, dead_processes, clearing_tasks>>
           Fits(l) == /\ l \notin {"none", "dead", "w_mark"} /\ l \notin Marked
                      /\ pc[t] # "w_mark"
                      /\ pc[t] \in Blocking <=> l \in {"w_yield", "c_yield"}
                      /\ l \in {"w_clock", "w_cenq"} =>
                           \/ pc[t] \in {"w_clock", "w_cenq"}
                           \/ loc[t] \notin exited[self[t]]
<1>m. ASSUME NEW l, Fits(l), fault = "none", cur = t, pc' = [pc EXCEPT ![t] = l],
             UNCHANGED loc, Still
      PROVE  QueueInv'
  BY <1>a, <1>m, QuietQueueMove
<1>l. ASSUME NEW l, Fits(l), fault = "none", cur = t, NEW p, LockProc(t, p, l)
      PROVE  QueueInv'
  BY <1>l, <1>m, <1>s DEF LockProc
<1>x. ASSUME NEW l, NEW x, Fits(l), fault = "none", cur = t,
             pc' = [pc EXCEPT ![t] = l], loc' = [loc EXCEPT ![t] = x], Still,
             pc[t] \notin Blocking, l \notin {"w_clock", "w_cenq"}
      PROVE  QueueInv'
  BY <1>a, <1>x, QuietQueue
<1> USE DEF Marked, Blocking
<1>1. CASE ForkLock(t) BY <1>1, <1>l DEF ForkLock
<1>2. CASE WaitCall(t)
  <2>1. PICK x : loc' = [loc EXCEPT ![t] = x] BY <1>2 DEF WaitCall
  <2>2. Fits("w_lock") /\ pc[t] \notin Blocking BY <1>2 DEF WaitCall
  <2>3. Still /\ pc' = [pc EXCEPT ![t] = "w_lock"] /\ fault = "none" /\ cur = t
    BY <1>2 DEF WaitCall
  <2> HIDE DEF Fits, Still
  <2> QED BY <1>x, <2>1, <2>2, <2>3
<1>3. CASE WaitLock(t) BY <1>3, <1>l DEF WaitLock
<1>4. CASE WaitNone(t) BY <1>4, <1>m DEF WaitNone
<1>5. CASE WaitFail(t)
  <2>1. loc' = [loc EXCEPT ![t] = NULL] BY <1>5 DEF WaitFail
  <2>2. Fits("user") /\ pc[t] \notin Blocking BY <1>5 DEF WaitFail
  <2>3. Still /\ pc' = [pc EXCEPT ![t] = "user"] /\ fault = "none" /\ cur = t
    BY <1>5 DEF WaitFail
  <2> HIDE DEF Fits, Still
  <2> QED BY <1>x, <2>1, <2>2, <2>3
<1>6. CASE WaitChild(t) BY <1>6, <1>m DEF WaitChild
<1>7. CASE WaitChildLock(t) BY <1>7, <1>l DEF WaitChildLock
<1>8. CASE WaitUnlock(t) BY <1>8, <1>m DEF WaitUnlock
<1>9. CASE WaitYield(t)
  <2>1. /\ pc[cur] = "w_yield" /\ pc'[cur] = "w_lock"
        /\ \A u \in Threads : u # cur => pc'[u] = pc[u]
    BY <1>9, <1>a DEF WaitYield, TypeOK
  <2> QED BY <1>9, <2>1, SwitchQueues DEF WaitYield, schedule_thread_yield
<1>10. CASE WaitReap(t) BY <1>10, <1>m DEF WaitReap
<1>11. CASE DeadProcLock(t) BY <1>11, <1>m, <1>s DEF DeadProcLock, LockDead
<1>12. CASE ExitCall(t)
  <2>1. CASE parent[self[t]] = NULL BY <1>12, <1>k, <2>1 DEF ExitCall
  <2>2. CASE parent[self[t]] # NULL
    <3>1. PICK x : x = parent[self[t]] OBVIOUS
    <3>2. loc' = [loc EXCEPT ![t] = x] BY <1>12, <2>2, <3>1 DEF ExitCall
    <3> QED BY <1>12, <1>x, <2>2, <3>2, ZenonT(40) DEF ExitCall
  <2> QED BY <2>1, <2>2
<1>13. CASE ExitCli(t) BY <1>13, <1>m DEF ExitCli
<1>14. CASE ExitSelf(t) BY <1>14, <1>m, <1>s DEF ExitSelf
<1>15. CASE ExitInitLock(t) BY <1>15, <1>l DEF ExitInitLock
<1>16. CASE ExitParentLock(t) BY <1>16, <1>l, <1>k DEF ExitParentLock
<1> QED BY <1>1, <1>2, <1>3, <1>4, <1>5, <1>6, <1>7, <1>8, <1>9, <1>10, <1>11,
           <1>12, <1>13, <1>14, <1>15, <1>16

\* create_process: nobody sleeps on the queues of a pcb that was free.
LEMMA ForkCreateQueues ==
  ASSUME TypeOK, TreeInv, QueueInv, NEW t \in UserThreads, ForkCreate(t)
  PROVE  QueueInv'
<1> USE DEF At, Goto
<1>a. t \in Threads /\ t # Clean BY Users
<1>1. CASE Crash("fork_null") BY <1>1, CrashQueues
<1>2. CASE ~Crash("fork_null")
  <2>1. PICK p \in Procs :
          /\ pcb[p] = "free"
          /\ loc' = [loc EXCEPT ![t] = p]
          /\ children' = [children EXCEPT ![p] = {}]
          /\ exited' = [exited EXCEPT ![p] = {}]
          /\ wait_any' = [wait_any EXCEPT ![p] = <<>>]
          /\ exit_wait' = [exit_wait EXCEPT ![p] = <<>>]
          /\ pc' = [pc EXCEPT ![t] = "f_lock"]
          /\ pc[t] \in {"init", "user"} /\ cur = t /\ fault = "none"
          /\ UNCHANGED <<cur, ready, status, fault, self>>
          /\ UNCHANGED <<cv, dead_tasks, dead_processes, clearing_tasks>>
    BY <1>2 DEF ForkCreate, First, MayFork, schedVars, cleanVars
  <2>2. /\ pc'[t] = "f_lock" /\ \A u \in Threads : u # t => pc'[u] = pc[u]
        /\ \A u \in Threads : u # t => loc'[u] = loc[u]
        /\ wait_any'[p] = <<>> /\ exit_wait'[p] = <<>> /\ exited'[p] = {}
        /\ \A q \in Procs : q # p => /\ wait_any'[q] = wait_any[q]
                                     /\ exit_wait'[q] = exit_wait[q]
                                     /\ exited'[q] = exited[q]
                                     /\ children'[q] = children[q]
    BY <1>a, <2>1 DEF TypeOK
  <2>3. pc[t] \notin Blocking /\ pc[t] \notin {"w_mark", "c_tasks"}
    BY <2>1 DEF Blocking
  <2>4. ~Asleep(t) BY <1>a, <2>1, <2>3, Awake DEF QueueInv
  <2>5. \A u \in Threads : Asleep(u)' <=> Asleep(u)
    BY <2>1, <2>2, <2>3 DEF Asleep
  <2>6. ASSUME NEW u \in Threads, Asleep(u)
        PROVE  /\ u \in UserThreads /\ u # t /\ self[u] \in Procs
               /\ self[u] # p /\ (loc[u] # 0 => loc[u] # p)
    <3>1. u \in UserThreads /\ pc[u] \notin Gone /\ self[u] \in Procs
      BY <2>6, SleepLabels DEF QueueInv
    <3>2. self[u] # p BY <2>1, <3>1, Carrier
    <3>3. loc[u] # 0 => loc[u] \in children[self[u]]
      BY <2>6, <3>1 DEF QueueInv, WaitInv, Unheard
    <3>4. loc[u] # 0 => loc[u] # p BY <2>1, <3>1, <3>3 DEF TreeInv, ChildInv
    <3> QED BY <2>4, <2>6, <3>1, <3>2, <3>4
  <2>7. StatusInv'
    <3>1. pc'[Clean] # "c_tasks" => clearing_tasks = <<>>
      BY <1>a, <2>2, Constants DEF QueueInv, StatusInv, ListInv
    <3> QED BY <1>a, <2>1, <2>3, <3>1, StatusMove, ZenonT(40) DEF QueueInv, Marked
  <2>8. WaitInv'
    <3>1. ASSUME NEW q \in Procs
          PROVE  /\ Distinct(wait_any'[q]) /\ Distinct(exit_wait'[q])
                 /\ \A u \in Threads :
                      /\ In(wait_any'[q], u)
                           <=> Asleep(u)' /\ self'[u] = q /\ loc'[u] = 0
                      /\ In(exit_wait'[q], u)
                           <=> Asleep(u)' /\ loc'[u] = q /\ q # 0
      <4>1. CASE q = p
        BY <2>1, <2>2, <2>5, <2>6, <4>1, ShortQueues
      <4>2. CASE q # p
        <5>1. /\ Distinct(wait_any[q]) /\ Distinct(exit_wait[q])
              /\ \A u \in Threads :
                      /\ In(wait_any[q], u)
                           <=> Asleep(u) /\ self[u] = q /\ loc[u] = 0
                      /\ In(exit_wait[q], u)
                           <=> Asleep(u) /\ loc[u] = q /\ q # 0
          BY DEF QueueInv, WaitInv
        <5> QED BY <2>1, <2>2, <2>4, <2>5, <4>2, <5>1
      <4> QED BY <4>1, <4>2
    <3>2. \A u \in UserThreads : Asleep(u)' => Unheard(u)'
      <4>1. ASSUME NEW u \in UserThreads, Asleep(u)
            PROVE Unheard(u)'
        <5>1. u \in Threads BY Users
        <5>2. /\ u # t /\ self[u] \in Procs /\ self[u] # p /\ Unheard(u)
          BY <2>6, <4>1, <5>1 DEF QueueInv, WaitInv
        <5> QED BY <2>1, <2>2, <5>1, <5>2 DEF Unheard
      <4> QED BY <2>5, <4>1, Users
    <3>3. ASSUME NEW u \in UserThreads, pc'[u] \in {"w_clock", "w_cenq"}
          PROVE  loc'[u] \notin exited'[self'[u]]
      <4>1. u # t /\ u \in Threads /\ pc[u] = pc'[u] BY <2>2, <3>3, Users
      <4>2. pc[u] \notin Gone BY <3>3, <4>1 DEF Gone
      <4>3. self[u] \in Procs /\ self[u] # p BY <2>1, <4>2, Carrier
      <4> QED BY <2>1, <2>2, <3>3, <4>1, <4>3 DEF QueueInv, WaitInv
    <3> QED BY <3>1, <3>2, <3>3 DEF WaitInv
  <2>9. CvInv' BY <2>1 DEF QueueInv, CvInv
  <2> QED BY <2>7, <2>8, <2>9 DEF QueueInv
<1> QED BY <1>1, <1>2

\* add_child_process: a process more to wait for.
LEMMA ForkAddQueues ==
  ASSUME TypeOK, TreeInv, QueueInv, NEW t \in UserThreads, ForkAdd(t)
  PROVE  QueueInv'
<1> USE DEF At, Goto
<1>a. t \in Threads /\ t # Clean BY Users
<1>1. /\ pc[t] = "f_add" /\ pc' = [pc EXCEPT ![t] = "f_sched"]
      /\ cur = t /\ fault = "none"
      /\ children' = [children EXCEPT ![self[t]] = @ \cup {loc[t]}]
      /\ UNCHANGED <<cur, ready, status, fault, self, loc, exited, wait_any,
                     exit_wait, cv, dead_tasks, dead_processes, clearing_tasks>>
  BY DEF ForkAdd, schedVars, cleanVars
<1>2. /\ pc'[t] = "f_sched" /\ \A u \in Threads : u # t => pc'[u] = pc[u]
      /\ \A q \in Procs : children[q] \subseteq children'[q]
  BY <1>a, <1>1 DEF TypeOK
<1>3. StatusInv'
  <2>1. pc'[Clean] # "c_tasks" => clearing_tasks = <<>>
    BY <1>a, <1>2, Constants DEF QueueInv, StatusInv, ListInv
  <2> QED BY <1>a, <1>1, <2>1, StatusMove DEF QueueInv, Marked, Blocking
<1>4. \A u \in Threads : Asleep(u)' <=> Asleep(u) BY <1>1, <1>2 DEF Asleep
<1>5. ASSUME NEW u \in UserThreads, Asleep(u) PROVE Unheard(u)'
  <2>1. u \in Threads /\ self[u] \in Procs /\ Unheard(u)
    BY <1>5, Users DEF QueueInv, WaitInv, TypeOK
  <2> QED BY <1>1, <1>2, <2>1 DEF Unheard
<1>6. ASSUME NEW u \in UserThreads, pc'[u] \in {"w_clock", "w_cenq"}
      PROVE  loc'[u] \notin exited'[self'[u]]
  BY <1>1, <1>2, <1>6, Users DEF QueueInv, WaitInv
<1>7. WaitInv' BY <1>1, <1>4, <1>5, <1>6, WaitSame DEF QueueInv
<1>8. CvInv' BY <1>1 DEF QueueInv, CvInv
<1> QED BY <1>3, <1>7, <1>8 DEF QueueInv

\* fork_crt_thread: the new thread is READY and in the ready queue.
LEMMA ForkSchedQueues ==
  ASSUME TypeOK, TreeInv, QueueInv, NEW t \in UserThreads, ForkSched(t)
  PROVE  QueueInv'
<1> USE DEF At, Goto
<1>a. t \in Threads /\ t # Clean BY Users
<1>1. CASE Crash("no_thread_id") BY <1>1, CrashQueues
<1>2. CASE ~Crash("no_thread_id")
  <2>1. PICK n \in Threads :
          /\ pc[n] = "none" /\ pc[t] = "f_sched" /\ cur = t /\ fault = "none"
          /\ status' = [status EXCEPT ![n] = "ready"]
          /\ ready' = Append(ready, n)
          /\ self' = [self EXCEPT ![n] = loc[t]]
          /\ loc' = [loc EXCEPT ![t] = NULL]
          /\ pc' = [pc EXCEPT ![t] = "user", ![n] = "user"]
          /\ UNCHANGED <<cur, fault, wait_any, exit_wait, exited, children, cv,
                         dead_tasks, dead_processes, clearing_tasks>>
    BY <1>2 DEF ForkSched, First, procVars, cleanVars
  <2>2. pc \in [Threads -> Labels] /\ status \in [Threads -> Status]
        /\ ready \in Seq(Threads)
    BY DEF TypeOK, SchedTypeOK
  <2>3. /\ pc'[t] = "user" /\ pc'[n] = "user" /\ n # t
        /\ \A u \in Threads : u \notin {t, n} => pc'[u] = pc[u]
        /\ status'[n] = "ready"
        /\ \A u \in Threads : u # n => status'[u] = status[u]
    BY <1>a, <2>1, <2>2
  <2>4. \A u \in Threads : u \notin {t, n} =>
          self'[u] = self[u] /\ loc'[u] = loc[u]
    BY <1>a, <2>1 DEF TypeOK
  <2>5. /\ UNCHANGED <<cur, fault, wait_any, exit_wait, exited, children>>
        /\ UNCHANGED <<cv, dead_tasks, dead_processes, clearing_tasks>>
        /\ cur = t /\ fault = "none" /\ pc[t] = "f_sched" /\ pc[n] = "none"
        /\ ready' = Append(ready, n)
    BY <2>1
  <2>6. /\ status[n] = "none" /\ status[t] = "running" /\ n # Main /\ n # Clean
        /\ status'[t] = "running"
    <3>1. pc[t] \notin Blocking BY <2>5 DEF Blocking
    <3>2. pc[Main] # "none" /\ pc[Clean] # "none"
      BY DEF TreeInv, KindInv, Cleaning
    <3> QED BY <1>a, <2>3, <2>5, <3>1, <3>2, Awake
            DEF QueueInv, StatusInv, LabelInv
  <2>7. RunInv(cur, status, ready)'
    <3>1. /\ Distinct(ready)
          /\ \A u \in Threads : In(ready, u) <=> status[u] = "ready"
      BY DEF QueueInv, StatusInv, RunInv, ReadyQueue
    <3>2. ~In(ready, n) BY <2>6, <3>1
    <3>3. Distinct(ready') /\ \A u : In(ready', u) <=> In(ready, u) \/ u = n
      BY <2>2, <2>5, <3>1, <3>2, AppendQueue
    <3>4. \A u \in Threads : In(ready', u) <=> status'[u] = "ready"
      BY <2>3, <3>1, <3>3
    <3>5. /\ \A u \in Threads : status'[u] = "running" => u \in {cur', Main}
          /\ status'[Main] = "running"
      BY <2>3, <2>5, <2>6, Constants DEF QueueInv, StatusInv, RunInv
    <3> QED BY <3>3, <3>4, <3>5 DEF RunInv, ReadyQueue
  <2>8. LabelInv'
    <3>1. ASSUME NEW u \in Threads
          PROVE  /\ pc'[u] = "none" <=> status'[u] = "none"
                 /\ pc'[u] = "dead" <=> status'[u] = "dead"
                 /\ status'[u] = "waiting" => pc'[u] \in Sleeping
                 /\ pc'[u] \in Marked => status'[u] = "waiting"
      <4>1. CASE u \in {t, n} BY <2>3, <2>6, <4>1 DEF Marked
      <4>2. CASE u \notin {t, n}
        BY <2>3, <4>2 DEF QueueInv, StatusInv, LabelInv
      <4> QED BY <4>1, <4>2
    <3> QED BY <2>5, <2>6, <3>1 DEF LabelInv
  <2>9. ListInv'
    <3>1. pc'[Clean] = pc[Clean] BY <1>a, <2>3, <2>6, Constants
    <3> QED BY <2>3, <2>5, <2>6, <3>1 DEF QueueInv, StatusInv, ListInv
  <2>10. \A u \in Threads : Asleep(u)' <=> Asleep(u)
    BY <2>3, <2>5, <2>6 DEF Asleep
  <2>11. ~Asleep(t) /\ ~Asleep(n) BY <2>5, <2>6 DEF Asleep
  <2>12. WaitInv'
    <3>1. \A u \in Threads : Asleep(u) \/ pc'[u] \in {"w_clock", "w_cenq"} =>
            self'[u] = self[u] /\ loc'[u] = loc[u]
      BY <2>3, <2>4, <2>11
    <3>2. \A u \in UserThreads : pc'[u] \in {"w_clock", "w_cenq"} =>
            pc[u] \in {"w_clock", "w_cenq"}
      BY <2>3, Users
    <3> QED BY <2>5, <2>10, <3>1, <3>2, WaitStill DEF QueueInv
  <2>13. CvInv' BY <2>3, <2>5, <2>6, Constants DEF QueueInv, CvInv
  <2> QED BY <2>7, <2>8, <2>9, <2>12, <2>13 DEF QueueInv, StatusInv
<1> QED BY <1>1, <1>2

\* process_wait reaps a child: nobody else looks at the tables of its process.
LEMMA WaitTakeQueues ==
  ASSUME TypeOK, TreeInv, QueueInv, NEW t \in UserThreads, WaitTake(t)
  PROVE  QueueInv'
<1> USE DEF At, Goto
<1>a. t \in Threads /\ t # Clean BY Users
<1>1. CASE Crash("not_a_child") BY <1>1, CrashQueues
<1>2. CASE ~Crash("not_a_child")
  <2>1. PICK c : /\ exited' = [exited EXCEPT ![self[t]] = @ \ {c}]
                 /\ children' = [children EXCEPT ![self[t]] = @ \ {c}]
                 /\ loc' = [loc EXCEPT ![t] = c]
    BY <1>2 DEF WaitTake
  <2>2. /\ pc[t] = "w_scan" /\ pc' = [pc EXCEPT ![t] = "w_reap"]
        /\ cur = t /\ fault = "none"
        /\ UNCHANGED <<cur, ready, status, fault, self, wait_any, exit_wait, cv,
                       dead_tasks, dead_processes, clearing_tasks>>
    BY <1>2 DEF WaitTake, schedVars, cleanVars
  <2>3. /\ pc'[t] = "w_reap" /\ \A u \in Threads : u # t => pc'[u] = pc[u]
        /\ \A u \in Threads : u # t => loc'[u] = loc[u]
        /\ \A q \in Procs : q # self[t] => exited'[q] = exited[q]
                                           /\ children'[q] = children[q]
    BY <1>a, <2>1, <2>2 DEF TypeOK
  <2>4. ASSUME NEW u \in UserThreads, u # t, pc[u] \notin Gone
        PROVE  self[u] \in Procs /\ self[u] # self[t]
    BY <2>2, <2>4, Carrier DEF Gone
  <2>5. StatusInv'
    <3>1. pc'[Clean] # "c_tasks" => clearing_tasks = <<>>
      BY <1>a, <2>3, Constants DEF QueueInv, StatusInv, ListInv
    <3> QED BY <1>a, <2>2, <3>1, StatusMove DEF QueueInv, Marked, Blocking
  <2>6. \A u \in Threads : Asleep(u)' <=> Asleep(u) BY <2>2, <2>3 DEF Asleep
  <2>7. ~Asleep(t) BY <1>a, <2>2, Awake DEF QueueInv, Blocking
  <2>8. ASSUME NEW u \in UserThreads, Asleep(u) PROVE Unheard(u)'
    <3>1. u \in Threads /\ u # t /\ pc[u] \notin Gone /\ Unheard(u)
      BY <2>7, <2>8, Users, SleepLabels DEF QueueInv, WaitInv
    <3> QED BY <2>2, <2>3, <2>4, <3>1 DEF Unheard
  <2>9. ASSUME NEW u \in UserThreads, pc'[u] \in {"w_clock", "w_cenq"}
        PROVE  loc'[u] \notin exited'[self'[u]]
    <3>1. u \in Threads /\ u # t /\ pc[u] = pc'[u] BY <2>3, <2>9, Users
    <3>2. pc[u] \notin Gone BY <2>9, <3>1 DEF Gone
    <3> QED BY <2>2, <2>3, <2>4, <2>9, <3>1, <3>2 DEF QueueInv, WaitInv
  <2>10. \A u \in Threads : Asleep(u) => self'[u] = self[u] /\ loc'[u] = loc[u]
    BY <2>2, <2>3, <2>7
  <2>11. WaitInv' BY <2>2, <2>6, <2>8, <2>9, <2>10, WaitSame DEF QueueInv
  <2>12. CvInv' BY <2>2 DEF QueueInv, CvInv
  <2> QED BY <2>5, <2>11, <2>12 DEF QueueInv
<1> QED BY <1>1, <1>2

\* The two enqueues of process_wait.
LEMMA WaitEnqueue ==
  ASSUME TypeOK, TreeInv, QueueInv, NEW t \in UserThreads,
         WaitQueueAny(t) \/ WaitQueueChild(t)
  PROVE  QueueInv'
<1> USE DEF At, Goto
<1>a. t \in Threads /\ t # Clean /\ self[t] \in Procs BY Users DEF TypeOK
<1>1. /\ pc[t] \in {"w_scan", "w_cenq"} /\ pc' = [pc EXCEPT ![t] = "w_mark"]
      /\ cur = t /\ fault = "none"
      /\ UNCHANGED <<cur, ready, status, fault, self, loc, exited, children, cv,
                     dead_tasks, dead_processes, clearing_tasks>>
  BY DEF WaitQueueAny, WaitQueueChild, schedVars, cleanVars
<1>2. pc'[t] = "w_mark" /\ \A u \in Threads : u # t => pc'[u] = pc[u]
  BY <1>a, <1>1 DEF TypeOK
<1>3. StatusInv'
  <2>1. pc'[Clean] # "c_tasks" => clearing_tasks = <<>>
    BY <1>a, <1>2, Constants DEF QueueInv, StatusInv, ListInv
  <2> QED BY <1>a, <1>1, <2>1, StatusMove DEF QueueInv, Marked, Blocking
<1>4. ~Asleep(t) BY <1>a, <1>1, Awake DEF QueueInv, Blocking
<1>5. \A u \in Threads : Asleep(u)' <=> Asleep(u) \/ u = t
  BY <1>1, <1>2 DEF Asleep
<1>6. ASSUME NEW s \in Seq(Threads), Distinct(s), ~In(s, t)
      PROVE  /\ Distinct(<<t>> \o s)
             /\ \A u \in Threads : In(<<t>> \o s, u) <=> In(s, u) \/ u = t
  <2>0. <<t>> \in Seq(Threads) BY <1>a
  <2>1. PICK r \in Seq(Threads) : r = <<t>> BY <2>0, Zenon
  <2>2. Distinct(r) /\ \A u : In(r, u) <=> u = t BY <2>1, ShortQueues
  <2>3. \A u \in Threads : ~(In(r, u) /\ In(s, u)) BY <1>6, <2>2
  <2>4. /\ Distinct(r \o s)
        /\ \A u : In(r \o s, u) <=> In(r, u) \/ In(s, u)
    BY <1>6, <2>2, <2>3, ConcatQueue
  <2> QED BY <2>1, <2>2, <2>4
<1>7. CvInv' BY <1>1 DEF QueueInv, CvInv
<1>8. \A q \in Procs :
        /\ Distinct(wait_any[q]) /\ Distinct(exit_wait[q])
        /\ wait_any[q] \in Seq(Threads) /\ exit_wait[q] \in Seq(Threads)
        /\ \A u \in Threads :
             /\ In(wait_any[q], u) <=> Asleep(u) /\ self[u] = q /\ loc[u] = 0
             /\ In(exit_wait[q], u) <=> Asleep(u) /\ loc[u] = q /\ q # 0
  BY DEF QueueInv, WaitInv, TypeOK
<1>9. ASSUME Unheard(t),
             \A q \in Procs :
               /\ Distinct(wait_any'[q]) /\ Distinct(exit_wait'[q])
               /\ \A u \in Threads :
                    /\ In(wait_any'[q], u)
                         <=> Asleep(u)' /\ self[u] = q /\ loc[u] = 0
                    /\ In(exit_wait'[q], u)
                         <=> Asleep(u)' /\ loc[u] = q /\ q # 0
      PROVE  QueueInv'
  <2>1. ASSUME NEW u \in UserThreads
        PROVE  /\ Asleep(u)' => Unheard(u)'
               /\ pc'[u] \in {"w_clock", "w_cenq"} => loc'[u] \notin exited'[self'[u]]
    <3>1. u \in Threads BY Users
    <3>2. Unheard(u)' <=> Unheard(u) BY <1>1 DEF Unheard
    <3> QED BY <1>1, <1>2, <1>5, <1>9, <3>1, <3>2 DEF QueueInv, WaitInv
  <2>2. WaitInv' BY <1>1, <1>9, <2>1 DEF WaitInv
  <2> QED BY <1>3, <1>7, <2>2 DEF QueueInv
<1>10. CASE WaitQueueAny(t)
  <2> DEFINE p == self[t]
  <2>1. /\ wait_any' = [wait_any EXCEPT ![p] = <<t>> \o @]
        /\ loc[t] = 0 /\ exited[p] = {} /\ UNCHANGED exit_wait
    BY <1>10 DEF WaitQueueAny
  <2>2. /\ wait_any'[p] = <<t>> \o wait_any[p]
        /\ \A q \in Procs : q # p => wait_any'[q] = wait_any[q]
    BY <1>a, <2>1 DEF TypeOK
  <2>3. Unheard(t) BY <2>1 DEF Unheard
  <2>4. ~In(wait_any[p], t) BY <1>a, <1>4, <1>8
  <2>5. /\ Distinct(wait_any'[p])
        /\ \A u \in Threads : In(wait_any'[p], u) <=> In(wait_any[p], u) \/ u = t
    BY <1>a, <1>6, <1>8, <2>2, <2>4
  <2>6. ASSUME NEW q \in Procs
        PROVE  /\ Distinct(wait_any'[q]) /\ Distinct(exit_wait'[q])
               /\ \A u \in Threads :
                    /\ In(wait_any'[q], u)
                         <=> Asleep(u)' /\ self[u] = q /\ loc[u] = 0
                    /\ In(exit_wait'[q], u)
                         <=> Asleep(u)' /\ loc[u] = q /\ q # 0
    <3>1. CASE q = p BY <1>5, <1>8, <2>1, <2>5, <3>1
    <3>2. CASE q # p BY <1>5, <1>8, <2>1, <2>2, <3>2
    <3> QED BY <3>1, <3>2
  <2> QED BY <1>9, <2>3, <2>6
<1>11. CASE WaitQueueChild(t)
  <2> DEFINE p == loc[t]
  <2>1. /\ exit_wait' = [exit_wait EXCEPT ![p] = <<t>> \o @]
        /\ pc[t] = "w_cenq" /\ UNCHANGED wait_any
    BY <1>11 DEF WaitQueueChild
  <2>2. p # 0 /\ p \in children[self[t]] /\ p \in Procs
    BY <1>a, <2>1 DEF TreeInv, CallInv, Looking, TypeOK, LocTyped, UsesLoc
  <2>3. /\ exit_wait'[p] = <<t>> \o exit_wait[p]
        /\ \A q \in Procs : q # p => exit_wait'[q] = exit_wait[q]
    BY <2>1, <2>2 DEF TypeOK
  <2>4. Unheard(t) BY <2>1, <2>2 DEF Unheard, QueueInv, WaitInv
  <2>5. ~In(exit_wait[p], t) BY <1>a, <1>4, <1>8, <2>2
  <2>6. /\ Distinct(exit_wait'[p])
        /\ \A u \in Threads : In(exit_wait'[p], u) <=> In(exit_wait[p], u) \/ u = t
    BY <1>6, <1>8, <2>2, <2>3, <2>5
  <2>7. ASSUME NEW q \in Procs
        PROVE  /\ Distinct(wait_any'[q]) /\ Distinct(exit_wait'[q])
               /\ \A u \in Threads :
                    /\ In(wait_any'[q], u)
                         <=> Asleep(u)' /\ self[u] = q /\ loc[u] = 0
                    /\ In(exit_wait'[q], u)
                         <=> Asleep(u)' /\ loc[u] = q /\ q # 0
    <3>1. CASE q = p BY <1>5, <1>8, <2>1, <2>2, <2>6, <3>1
    <3>2. CASE q # p BY <1>5, <1>8, <2>1, <2>2, <2>3, <3>2
    <3> QED BY <3>1, <3>2
  <2> QED BY <1>9, <2>4, <2>7
<1> QED BY <1>10, <1>11

\* schedule_mark_thread_block: the thread was in its queue already.
LEMMA WaitMarkQueues ==
  ASSUME TypeOK, QueueInv, NEW t \in UserThreads, WaitMark(t)
  PROVE  QueueInv'
<1> USE DEF At, Goto
<1>a. t \in Threads /\ t # Clean /\ t # Main BY Users
<1>1. /\ pc[t] = "w_mark" /\ pc' = [pc EXCEPT ![t] = "w_unlock"]
      /\ cur = t /\ fault = "none"
      /\ status' = [status EXCEPT ![t] = "waiting"]
      /\ UNCHANGED <<cur, ready, fault, self, loc, wait_any, exit_wait, exited,
                     children, cv, dead_tasks, dead_processes, clearing_tasks>>
  BY DEF WaitMark, procVars, cleanVars
<1>2. /\ pc'[t] = "w_unlock" /\ \A u \in Threads : u # t => pc'[u] = pc[u]
      /\ status'[t] = "waiting"
      /\ \A u \in Threads : u # t => status'[u] = status[u]
  BY <1>a, <1>1 DEF TypeOK, SchedTypeOK
<1>3. StatusInv'
  BY <1>a, <1>1, StatusMark DEF QueueInv, Marked, Blocking
<1>4. \A u \in Threads : Asleep(u)' <=> Asleep(u) BY <1>1, <1>2 DEF Asleep
<1>5. \A u \in UserThreads : pc'[u] \in {"w_clock", "w_cenq"} =>
        pc[u] \in {"w_clock", "w_cenq"}
  BY <1>2, Users
<1>6. WaitInv' BY <1>1, <1>4, <1>5, WaitStill DEF QueueInv
<1>7. CvInv' BY <1>1, <1>2, <1>a, Constants DEF QueueInv, CvInv
<1> QED BY <1>3, <1>6, <1>7 DEF QueueInv

\* cond_var_notify takes the clean thread off dead_cv if it sleeps there.
LEMMA NotifyQueue ==
  ASSUME TypeOK, CvInv
  PROVE  /\ Notified \in Seq(Threads) /\ Distinct(Notified)
         /\ \A u \in Threads : In(Notified, u)
              <=> u = Clean /\ status[Clean] = "waiting"
         /\ cond_var_notify => cv' = <<>>
<1>1. CASE status[Clean] = "waiting"
  <2>1. cv = <<Clean>> BY <1>1 DEF CvInv
  <2>2. cv # <<>> /\ Head(cv) = Clean /\ Tail(cv) = <<>> BY <2>1
  <2>3. Notified = <<Clean>> BY <2>2 DEF Notified
  <2>4. cond_var_notify => cv' = <<>> BY <2>2 DEF cond_var_notify
  <2>5. <<Clean>> \in Seq(Threads) BY Constants
  <2> QED BY <1>1, <2>3, <2>4, <2>5, ShortQueues
<1>2. CASE status[Clean] # "waiting"
  <2>1. cv = <<>> BY <1>2 DEF CvInv
  <2>2. Notified = <<>> /\ <<>> \in Seq(Threads) BY <2>1 DEF Notified
  <2>3. cond_var_notify => cv' = <<>> BY <2>1 DEF cond_var_notify
  <2> QED BY <1>2, <2>2, <2>3, ShortQueues
<1> QED BY <1>1, <1>2

\* add_dead_process: the clean thread is woken under dead_resource_lock, so it
\* is not between its own mark and unlock.
LEMMA DeadProcPutQueues ==
  ASSUME TypeOK, TreeInv, DeadInv, QueueInv, NEW t \in UserThreads,
         DeadProcPut(t)
  PROVE  QueueInv'
<1> USE DEF At, Goto
<1>a. t \in Threads /\ t # Clean /\ t # Main /\ Clean \notin UserThreads
  BY Users DEF UserThreads
<1>1. /\ pc[t] = "ap_put" /\ pc' = [pc EXCEPT ![t] = "user"]
      /\ loc' = [loc EXCEPT ![t] = NULL]
      /\ cur = t /\ fault = "none" /\ cond_var_notify
      /\ add_thread_nodes_to_schedule(Notified)
      /\ UNCHANGED <<cur, fault, self, wait_any, exit_wait, exited, children,
                     dead_tasks, clearing_tasks>>
  BY DEF DeadProcPut, procVars
<1>2. /\ pc'[t] = "user" /\ \A u \in Threads : u # t => pc'[u] = pc[u]
      /\ \A u \in Threads : u # t => loc'[u] = loc[u]
  BY <1>a, <1>1 DEF TypeOK
<1>3. /\ Notified \in Seq(Threads) /\ Distinct(Notified) /\ cv' = <<>>
      /\ \A u \in Threads : In(Notified, u)
           <=> u = Clean /\ status[Clean] = "waiting"
  BY <1>1, NotifyQueue DEF QueueInv
<1>4. pc[Clean] \notin Marked
  <2>1. InDeadSection(t) BY <1>1 DEF InDeadSection
  <2>2. ~InDeadSection(Clean)
    BY <1>a, <2>1, Constants DEF DeadInv, DeadLockExclusion
  <2>3. pc[Clean] # "w_unlock" BY DEF TreeInv, KindInv, Cleaning
  <2> QED BY <2>2, <2>3 DEF InDeadSection, Marked
<1>5. /\ StatusInv'
      /\ \A u \in Threads :
           status'[u] = IF In(Notified, u) THEN "ready" ELSE status[u]
  BY <1>a, <1>1, <1>3, <1>4, StatusWake DEF QueueInv, Blocking
<1>6. \A u \in Threads : Asleep(u)' <=> Asleep(u)
  BY <1>a, <1>1, <1>2, <1>3, <1>5 DEF Asleep
<1>7. ~Asleep(t) BY <1>a, <1>1, Awake DEF QueueInv, Blocking
<1>8. WaitInv'
  <2>1. \A u \in Threads : Asleep(u) \/ pc'[u] \in {"w_clock", "w_cenq"} =>
          self'[u] = self[u] /\ loc'[u] = loc[u]
    BY <1>1, <1>2, <1>7
  <2>2. \A u \in UserThreads : pc'[u] \in {"w_clock", "w_cenq"} =>
          pc[u] \in {"w_clock", "w_cenq"}
    BY <1>2, Users
  <2>3. UNCHANGED <<wait_any, exit_wait, exited, children>> BY <1>1
  <2> QED BY <1>6, <2>1, <2>2, <2>3, WaitStill DEF QueueInv
<1>9. CvInv'
  <2>1. status'[Clean] # "waiting" BY <1>3, <1>5, Constants
  <2> QED BY <1>3, <2>1 DEF CvInv
<1> QED BY <1>5, <1>8, <1>9 DEF QueueInv

\* process_exit gives its children to init: whoever sleeps in init's queue is
\* woken, and nobody else looks at the two tables.
LEMMA ExitOrphansQueues ==
  ASSUME TypeOK, TreeInv, LockInv, QueueInv, NEW t \in UserThreads,
         ExitOrphans(t)
  PROVE  QueueInv'
<1> USE DEF At, Goto
<1>a. t \in Threads /\ t # Clean /\ t # Main /\ self[t] \in Procs
  BY Users DEF TypeOK
<1>1. CASE Spin BY <1>1, SpinQueues DEF ExitOrphans
<1>2. CASE ~Spin
  <2> DEFINE p == self[t]
             ts == wait_any[InitProc]
  <2>1. /\ pc[t] = "e_init2" /\ pc' = [pc EXCEPT ![t] = "e_par"]
        /\ cur = t /\ fault = "none"
        /\ children' = [children EXCEPT ![p] = {},
                          ![InitProc] = @ \cup (children[p] \cup exited[p])]
        /\ exited' = [exited EXCEPT ![p] = {}, ![InitProc] = @ \cup exited[p]]
        /\ add_thread_nodes_to_schedule(ts)
        /\ wait_any' = [wait_any EXCEPT ![InitProc] = <<>>]
        /\ UNCHANGED <<cur, fault, self, loc, exit_wait>>
        /\ UNCHANGED <<cv, dead_tasks, dead_processes, clearing_tasks>>
    BY <1>2 DEF ExitOrphans, cleanVars
  <2>2. /\ pc'[t] = "e_par" /\ \A u \in Threads : u # t => pc'[u] = pc[u]
    BY <1>a, <2>1 DEF TypeOK
  <2>3. children \in [Procs -> SUBSET Procs] /\ exited \in [Procs -> SUBSET Procs]
    BY DEF TypeOK
  <2>4. \A q \in Procs : q \notin {p, InitProc} =>
          children'[q] = children[q] /\ exited'[q] = exited[q]
    BY <1>a, <2>1, <2>3, Constants
  <2>5. /\ wait_any'[InitProc] = <<>>
        /\ \A q \in Procs : q # InitProc => wait_any'[q] = wait_any[q]
    BY <2>1, Constants DEF TypeOK
  <2>6. /\ UNCHANGED <<cur, fault, self, loc, exit_wait>>
        /\ UNCHANGED <<cv, dead_tasks, dead_processes, clearing_tasks>>
        /\ add_thread_nodes_to_schedule(ts) /\ cur = t /\ fault = "none"
        /\ pc[t] = "e_init2" /\ pc' = [pc EXCEPT ![t] = "e_par"]
    BY <2>1
  <2>7. /\ ts \in Seq(Threads) /\ Distinct(ts)
        /\ \A u \in Threads :
             In(ts, u) <=> Asleep(u) /\ self[u] = InitProc /\ loc[u] = 0
    BY Constants DEF QueueInv, WaitInv, TypeOK
  <2> HIDE DEF ts
  <2>8. InProcSection(t, InitProc) BY <2>6 DEF InProcSection
  <2>9. ASSUME NEW u \in Threads, In(ts, u)
        PROVE  status[u] = "waiting" /\ pc[u] \notin Marked /\ pc[u] # "w_mark"
    <3>1. Asleep(u) /\ self[u] = InitProc BY <2>7, <2>9
    <3>2. pc[u] \in {"w_mark", "w_unlock", "w_yield", "w_lock"}
      BY <3>1, SleepLabels DEF QueueInv
    <3>3. ~InProcSection(u, InitProc)
      BY <1>a, <2>6, <2>8, <3>2, Constants DEF LockInv, ProcLockExclusion
    <3>4. pc[u] \notin {"w_mark", "w_unlock"} BY <3>1, <3>3 DEF InProcSection
    <3> QED BY <3>1, <3>2, <3>4 DEF Asleep, Marked
  <2>10. /\ StatusInv'
         /\ \A u \in Threads : status'[u] = IF In(ts, u) THEN "ready" ELSE status[u]
    <3>1. /\ pc[t] \notin Blocking
          /\ "e_par" \notin Blocking \cup {"none", "dead"}
      BY <2>6 DEF Blocking
    <3> QED BY <1>a, <2>6, <2>7, <2>9, <3>1, StatusWake DEF QueueInv
  <2>11. ~Asleep(t) BY <1>a, <2>6, Awake DEF QueueInv, Blocking
  <2>12. \A u \in Threads : Asleep(u)' <=> Asleep(u) /\ ~In(ts, u)
    BY <2>2, <2>6, <2>9, <2>10 DEF Asleep
  <2>13. ASSUME NEW u \in UserThreads, u # t, pc[u] \notin Gone
         PROVE  self[u] \in Procs /\ self[u] # p
    BY <2>6, <2>13, Carrier DEF Gone
  <2>14. ASSUME NEW u \in UserThreads, self[u] = InitProc, Asleep(u)
         PROVE  In(ts, u)
    <3>1. u = InitThread BY <2>14 DEF TreeInv, KindInv
    <3>2. u \in Threads BY Users
    <3>3. pc[u] \in Looking \cup {"w_lock", "w_scan"}
      BY <2>14, <3>2, SleepLabels DEF QueueInv, Looking
    <3>4. loc[u] = 0 BY <3>1, <3>3 DEF TreeInv, CallInv
    <3> QED BY <2>7, <2>14, <3>2, <3>4
  <2>15. ASSUME NEW q \in Procs
         PROVE  /\ Distinct(wait_any'[q]) /\ Distinct(exit_wait'[q])
                /\ \A u \in Threads :
                     /\ In(wait_any'[q], u)
                          <=> Asleep(u)' /\ self'[u] = q /\ loc'[u] = 0
                     /\ In(exit_wait'[q], u)
                          <=> Asleep(u)' /\ loc'[u] = q /\ q # 0
    <3>1. /\ Distinct(wait_any[q]) /\ Distinct(exit_wait[q])
          /\ \A u \in Threads :
               /\ In(wait_any[q], u) <=> Asleep(u) /\ self[u] = q /\ loc[u] = 0
               /\ In(exit_wait[q], u) <=> Asleep(u) /\ loc[u] = q /\ q # 0
      BY DEF QueueInv, WaitInv
    <3>2. Distinct(wait_any'[q]) /\ Distinct(exit_wait'[q])
      BY <2>5, <2>6, <3>1, ShortQueues
    <3>3. \A u \in Threads : In(wait_any'[q], u)
                               <=> Asleep(u)' /\ self'[u] = q /\ loc'[u] = 0
      <4>1. CASE q = InitProc BY <2>5, <2>6, <2>7, <2>12, <4>1, ShortQueues
      <4>2. CASE q # InitProc BY <2>5, <2>6, <2>7, <2>12, <3>1, <4>2
      <4> QED BY <4>1, <4>2
    <3>4. \A u \in Threads : In(exit_wait'[q], u)
                               <=> Asleep(u)' /\ loc'[u] = q /\ q # 0
      BY <2>6, <2>7, <2>12, <3>1
    <3> QED BY <3>2, <3>3, <3>4
  <2>16. ASSUME NEW u \in UserThreads, Asleep(u)' PROVE Unheard(u)'
    <3>1. u \in Threads /\ Asleep(u) /\ ~In(ts, u) BY <2>12, <2>16, Users
    <3>2. u # t /\ pc[u] \notin Gone /\ Unheard(u)
      BY <2>11, <3>1, SleepLabels DEF QueueInv, WaitInv
    <3>3. self[u] \in Procs /\ self[u] \notin {p, InitProc}
      BY <2>13, <2>14, <3>1, <3>2
    <3>4. children'[self[u]] = children[self[u]] /\ exited'[self[u]] = exited[self[u]]
      BY <2>4, <3>3
    <3> QED BY <2>6, <3>2, <3>4 DEF Unheard
  <2>17. ASSUME NEW u \in UserThreads, pc'[u] \in {"w_clock", "w_cenq"}
         PROVE  loc'[u] \notin exited'[self'[u]]
    <3>1. u \in Threads /\ u # t /\ pc[u] = pc'[u] BY <2>2, <2>17, Users
    <3>2. pc[u] \notin Gone /\ pc[u] \in Looking
      BY <2>17, <3>1 DEF Gone, Looking
    <3>3. self[u] # InitProc
      BY <2>17, <3>1, <3>2 DEF TreeInv, KindInv, CallInv
    <3>4. self[u] \in Procs /\ self[u] \notin {p, InitProc}
      BY <2>13, <3>1, <3>2, <3>3
    <3>5. exited'[self[u]] = exited[self[u]] BY <2>4, <3>4
    <3> QED BY <2>6, <2>17, <3>1, <3>5 DEF QueueInv, WaitInv
  <2>18. WaitInv' BY <2>15, <2>16, <2>17 DEF WaitInv
  <2>19. CvInv'
    <3>1. ~In(ts, Clean)
      BY <2>7, <1>a, Constants DEF Asleep, UserThreads
    <3> QED BY <2>6, <2>10, <3>1, Constants DEF QueueInv, CvInv
  <2> QED BY <2>10, <2>18, <2>19 DEF QueueInv
<1> QED BY <1>1, <1>2

\* process_exit tells the parent: the threads that wait for this child or for
\* any child are asleep and outside the parent's lock, whichever process was
\* the parent when the pointer was read.
LEMMA ExitNotifyQueues ==
  ASSUME TypeOK, TreeInv, LockInv, QueueInv, NEW t \in UserThreads,
         ExitNotify(t)
  PROVE  QueueInv'
<1> USE DEF At, Goto
<1>a. t \in Threads /\ t # Clean /\ t # Main /\ self[t] \in Procs
      /\ Clean \notin UserThreads
  BY Users DEF TypeOK, UserThreads
<1>1. CASE Spin BY <1>1, SpinQueues DEF ExitNotify
<1>c. CASE Crash("freed_table") BY <1>c, CrashQueues
<1>2. CASE ~Spin /\ ~Crash("freed_table")
  <2>p. PICK p \in Procs : p = self[t] BY <1>a
  <2>q. PICK q \in Procs : q = loc[t]
    BY <1>a DEF ExitNotify, TypeOK, LocTyped, UsesLoc
  <2>t. PICK ts : ts = exit_wait[p] \o wait_any[q] OBVIOUS
  <2>1. /\ pc[t] = "e_par2" /\ pc' = [pc EXCEPT ![t] = "x_dead"]
        /\ cur = t /\ fault = "none"
        /\ exited' = [exited EXCEPT ![q] = @ \cup {p}]
        /\ add_thread_nodes_to_schedule(ts)
        /\ exit_wait' = [exit_wait EXCEPT ![p] = <<>>]
        /\ wait_any' = [wait_any EXCEPT ![q] = <<>>]
        /\ UNCHANGED <<cur, fault, self, loc, children>>
        /\ UNCHANGED <<cv, dead_tasks, dead_processes, clearing_tasks>>
    BY <1>2, <2>p, <2>q, <2>t DEF ExitNotify, cleanVars
  <2>2. /\ pc'[t] = "x_dead" /\ \A u \in Threads : u # t => pc'[u] = pc[u]
    BY <1>a, <2>1 DEF TypeOK
  <2>3. /\ exited'[q] = exited[q] \cup {p}
        /\ \A r \in Procs : r # q => exited'[r] = exited[r]
        /\ exit_wait'[p] = <<>>
        /\ \A r \in Procs : r # p => exit_wait'[r] = exit_wait[r]
        /\ wait_any'[q] = <<>>
        /\ \A r \in Procs : r # q => wait_any'[r] = wait_any[r]
    BY <2>1 DEF TypeOK
  <2>4. \A r \in Procs :
          /\ Distinct(wait_any[r]) /\ Distinct(exit_wait[r])
          /\ wait_any[r] \in Seq(Threads) /\ exit_wait[r] \in Seq(Threads)
          /\ \A u \in Threads :
               /\ In(wait_any[r], u) <=> Asleep(u) /\ self[u] = r /\ loc[u] = 0
               /\ In(exit_wait[r], u) <=> Asleep(u) /\ loc[u] = r /\ r # 0
    BY DEF QueueInv, WaitInv, TypeOK
  <2>5. /\ ts \in Seq(Threads) /\ Distinct(ts)
        /\ \A u \in Threads : In(ts, u)
             <=> Asleep(u) /\ ((loc[u] = p /\ p # 0) \/ (self[u] = q /\ loc[u] = 0))
    <3>1. \A u \in Threads : ~(In(exit_wait[p], u) /\ In(wait_any[q], u))
      BY <2>4
    <3>2. /\ ts \in Seq(Threads) /\ Distinct(ts)
          /\ \A u : In(ts, u) <=> In(exit_wait[p], u) \/ In(wait_any[q], u)
      BY <2>4, <2>t, <3>1, ConcatQueue
    <3> QED BY <2>4, <3>2
  <2>6. InProcSection(t, q) BY <2>1, <2>q DEF InProcSection
  <2>7. q = parent[p] \/ parent[p] = InitProc
    BY <2>1, <2>p, <2>q DEF TreeInv, CallInv, Exiting
  <2>8. ASSUME NEW u \in Threads, In(ts, u)
        PROVE  self[u] = q
    <3>1. Asleep(u) /\ u \in UserThreads /\ self[u] \in Procs
          /\ pc[u] \in {"w_mark", "w_unlock", "w_yield", "w_lock"}
      BY <2>5, <2>8, SleepLabels DEF QueueInv
    <3>2. CASE loc[u] = p /\ p # 0
      <4>1. p \in children[self[u]]
        BY <3>1, <3>2 DEF QueueInv, WaitInv, Unheard
      <4>2. parent[p] = self[u] BY <3>1, <4>1 DEF TreeInv, ChildInv
      <4>3. pc[u] \in Looking \cup {"w_lock", "w_scan"} BY <3>1 DEF Looking
      <4>4. u # InitThread BY <3>1, <3>2, <4>3 DEF TreeInv, CallInv
      <4>5. self[u] # InitProc BY <3>1, <4>4 DEF TreeInv, KindInv
      <4> QED BY <2>7, <4>2, <4>5
    <3> QED BY <2>5, <2>8, <3>2
  <2>9. ASSUME NEW u \in Threads, In(ts, u)
        PROVE  status[u] = "waiting" /\ pc[u] \notin Marked /\ pc[u] # "w_mark"
    <3>1. /\ Asleep(u) /\ self[u] = q
          /\ pc[u] \in {"w_mark", "w_unlock", "w_yield", "w_lock"}
      BY <2>5, <2>8, <2>9, SleepLabels DEF QueueInv
    <3>2. ~InProcSection(u, q)
      BY <1>a, <2>1, <2>6, <3>1 DEF LockInv, ProcLockExclusion
    <3>3. pc[u] \notin {"w_mark", "w_unlock"} BY <3>1, <3>2 DEF InProcSection
    <3> QED BY <3>1, <3>3 DEF Asleep, Marked
  <2>10. /\ StatusInv'
         /\ \A u \in Threads : status'[u] = IF In(ts, u) THEN "ready" ELSE status[u]
    <3>1. /\ pc[t] \notin Blocking
          /\ "x_dead" \notin Blocking \cup {"none", "dead"}
      BY <2>1 DEF Blocking
    <3>2. /\ UNCHANGED <<cur, fault, dead_tasks, clearing_tasks>>
          /\ pc' = [pc EXCEPT ![t] = "x_dead"]
          /\ add_thread_nodes_to_schedule(ts) /\ cur = t /\ fault = "none"
      BY <2>1
    <3> QED BY <1>a, <2>5, <2>9, <3>1, <3>2, StatusWake DEF QueueInv
  <2>11. ~Asleep(t) BY <1>a, <2>1, Awake DEF QueueInv, Blocking
  <2>12. \A u \in Threads : Asleep(u)' <=> Asleep(u) /\ ~In(ts, u)
    BY <2>1, <2>2, <2>9, <2>10 DEF Asleep
  <2>13. UNCHANGED <<self, loc, children, cv, dead_tasks, dead_processes>>
    BY <2>1
  <2>14. ASSUME NEW r \in Procs
         PROVE  /\ Distinct(wait_any'[r]) /\ Distinct(exit_wait'[r])
                /\ \A u \in Threads :
                     /\ In(wait_any'[r], u)
                          <=> Asleep(u)' /\ self'[u] = r /\ loc'[u] = 0
                     /\ In(exit_wait'[r], u)
                          <=> Asleep(u)' /\ loc'[u] = r /\ r # 0
    <3>1. Distinct(wait_any'[r]) /\ Distinct(exit_wait'[r])
      BY <2>3, <2>4, ShortQueues
    <3>2. \A u \in Threads : In(wait_any'[r], u)
                               <=> Asleep(u)' /\ self'[u] = r /\ loc'[u] = 0
      <4>1. CASE r = q BY <2>3, <2>5, <2>12, <2>13, <4>1, ShortQueues
      <4>2. CASE r # q BY <2>3, <2>4, <2>8, <2>12, <2>13, <4>2
      <4> QED BY <4>1, <4>2
    <3>3. \A u \in Threads : In(exit_wait'[r], u)
                               <=> Asleep(u)' /\ loc'[u] = r /\ r # 0
      <4>1. CASE r = p BY <2>3, <2>5, <2>12, <2>13, <4>1, ShortQueues
      <4>2. CASE r # p BY <2>3, <2>4, <2>5, <2>12, <2>13, <4>2
      <4> QED BY <4>1, <4>2
    <3> QED BY <3>1, <3>2, <3>3
  <2>15. ASSUME NEW u \in UserThreads, Asleep(u)' PROVE Unheard(u)'
    <3>1. u \in Threads /\ Asleep(u) /\ ~In(ts, u) BY <2>12, <2>15, Users
    <3>2. Unheard(u) /\ self[u] \in Procs
      BY <3>1, SleepLabels DEF QueueInv, WaitInv
    <3>3. CASE self[u] # q BY <2>3, <2>13, <3>2, <3>3 DEF Unheard
    <3>4. CASE self[u] = q
      <4>1. loc[u] # 0 BY <2>5, <3>1, <3>4
      <4>2. loc[u] # p BY <2>5, <3>1, <4>1
      <4> QED BY <2>3, <2>13, <3>2, <3>4, <4>1, <4>2 DEF Unheard
    <3> QED BY <3>3, <3>4
  <2>16. ASSUME NEW u \in UserThreads, pc'[u] \in {"w_clock", "w_cenq"}
         PROVE  loc'[u] \notin exited'[self'[u]]
    <3>1. u \in Threads /\ u # t /\ pc[u] = pc'[u] BY <2>2, <2>16, Users
    <3>2. InProcSection(u, self[u]) /\ self[u] \in Procs
      BY <2>16, <3>1 DEF InProcSection, TypeOK
    <3>3. self[u] # q
      BY <1>a, <2>6, <3>1, <3>2 DEF LockInv, ProcLockExclusion
    <3> QED BY <2>3, <2>13, <2>16, <3>1, <3>2, <3>3 DEF QueueInv, WaitInv
  <2>17. WaitInv' BY <2>14, <2>15, <2>16 DEF WaitInv
  <2>18. CvInv'
    <3>1. ~In(ts, Clean) BY <1>a, <2>5, Constants DEF Asleep
    <3> QED BY <2>10, <2>13, <3>1, Constants DEF QueueInv, CvInv
  <2> QED BY <2>10, <2>17, <2>18 DEF QueueInv
<1> QED BY <1>1, <1>c, <1>2

\* schedule_thread_exit: the thread enters the dead list, wakes the clean
\* thread, and leaves the CPU for good.  Its process pointer is NULL, so this
\* last switch cannot fail.
LEMMA ExitThreadQueues ==
  ASSUME TypeOK, TreeInv, DeadInv, QueueInv, NEW t \in UserThreads,
         ExitThread(t)
  PROVE  QueueInv'
<1> USE DEF At, Goto
<1>a. t \in Threads /\ t # Clean /\ t # Main /\ Clean \notin UserThreads
  BY Users DEF UserThreads
<1>1. CASE Spin BY <1>1, SpinQueues DEF ExitThread
<1>2. CASE ~Spin
  <2>w. PICK w : w = Woken(status, Notified) OBVIOUS
  <2>s. PICK st : st = [w EXCEPT ![t] = "dead"] OBVIOUS
  <2>r. PICK rd : rd = ready \o Notified OBVIOUS
  <2>1. /\ pc[t] = "x_dead" /\ pc' = [pc EXCEPT ![t] = "dead"]
        /\ cur = t /\ fault = "none" /\ ~dead_lock
        /\ dead_tasks' = Append(dead_tasks, t)
        /\ cond_var_notify /\ do_context_switch(st, rd)
        /\ UNCHANGED <<self, loc, wait_any, exit_wait, exited, children,
                       dead_processes, clearing_tasks>>
    BY <1>2, <2>w, <2>s, <2>r DEF ExitThread, procVars
  <2>2. pc'[t] = "dead" /\ \A u \in Threads : u # t => pc'[u] = pc[u]
    BY <1>a, <2>1 DEF TypeOK
  <2>3. /\ Notified \in Seq(Threads) /\ Distinct(Notified) /\ cv' = <<>>
        /\ \A u \in Threads : In(Notified, u)
             <=> u = Clean /\ status[Clean] = "waiting"
    BY <2>1, NotifyQueue DEF QueueInv
  <2>4. pc[Clean] \notin Marked
    <3>1. ~InDeadSection(Clean)
      BY <2>1, Constants DEF DeadInv, DeadLockExclusion
    <3>2. pc[Clean] # "w_unlock" BY DEF TreeInv, KindInv, Cleaning
    <3> QED BY <3>1, <3>2 DEF InDeadSection, Marked
  <2>5. /\ rd \in Seq(Threads) /\ w \in [Threads -> Status]
        /\ \A u \in Threads : w[u] = IF In(Notified, u) THEN "ready" ELSE status[u]
        /\ RunInv(cur, w, rd)
    <3>1. RunInv(cur, status, ready) BY DEF QueueInv, StatusInv
    <3>2. \A u \in Threads : In(Notified, u) => status[u] = "waiting" BY <2>3
    <3> QED BY <2>3, <2>w, <2>r, <3>1, <3>2, WakeQueue
  <2>6. status[t] = "running" /\ w[t] = "running"
    <3>1. status[t] = "running" BY <1>a, <2>1, Awake DEF QueueInv, Blocking
    <3> QED BY <1>a, <2>3, <2>5, <3>1
  <2>7. /\ st \in [Threads -> Status] /\ st[t] = "dead"
        /\ \A u \in Threads : u # t => st[u] = w[u]
    BY <1>a, <2>5, <2>s DEF Status
  <2>8. RunInv(cur, st, rd)
    <3>1. \A u \in Threads : st[u] = "ready" <=> w[u] = "ready" BY <2>6, <2>7
    <3>2. ReadyQueue(st, rd) BY <2>5, <3>1 DEF RunInv, ReadyQueue
    <3>3. st[Main] = "running" BY <1>a, <2>5, <2>7, Constants DEF RunInv
    <3>4. \A u \in Threads : st[u] = "running" => u \in {cur, Main}
      BY <2>5, <2>7 DEF RunInv
    <3> QED BY <3>2, <3>3, <3>4 DEF RunInv
  <2>9. fault' = fault
    <3>1. process[cur] = NULL BY <2>1 DEF TreeInv, KindInv, Gone
    <3> QED BY <2>1, <3>1 DEF do_context_switch
  <2>10. /\ cur' \in Threads /\ RunInv(cur', status', ready')
         /\ status'[cur'] = "running"
         /\ \A u \in Threads, k \in {"none", "dead", "waiting"} :
              status'[u] = k <=> st[u] = k
    BY <2>1, <2>5, <2>7, <2>8, <2>9, SwitchFacts
  <2>11. /\ \A u \in Threads : u # t =>
              /\ status'[u] = "none" <=> status[u] = "none"
              /\ status'[u] = "dead" <=> status[u] = "dead"
              /\ status'[u] = "waiting" <=> status[u] = "waiting" /\ u # Clean
         /\ status'[t] = "dead" /\ status'[Clean] # "waiting"
    BY <1>a, <2>3, <2>5, <2>7, <2>10, Constants
  <2>12. RunInv(cur, status, ready)' BY <2>10 DEF RunInv, ReadyQueue
  <2>13. LabelInv'
    <3>1. ASSUME NEW u \in Threads
          PROVE  /\ pc'[u] = "none" <=> status'[u] = "none"
                 /\ pc'[u] = "dead" <=> status'[u] = "dead"
                 /\ status'[u] = "waiting" => pc'[u] \in Sleeping
                 /\ pc'[u] \in Marked => status'[u] = "waiting"
      <4>1. CASE u = t BY <2>2, <2>11, <4>1 DEF Marked
      <4>2. CASE u # t
        <5>1. pc'[u] = pc[u] BY <2>2, <4>2
        <5>2. /\ pc[u] = "none" <=> status[u] = "none"
              /\ pc[u] = "dead" <=> status[u] = "dead"
              /\ status[u] = "waiting" => pc[u] \in Sleeping
              /\ pc[u] \in Marked => status[u] = "waiting"
          BY DEF QueueInv, StatusInv, LabelInv
        <5> QED BY <2>4, <2>11, <4>2, <5>1, <5>2
      <4> QED BY <4>1, <4>2
    <3> QED BY <2>10, <3>1 DEF LabelInv
  <2>14. ListInv'
    <3>1. \A u : In(dead_tasks', u) <=> In(dead_tasks, u) \/ u = t
      <4>1. dead_tasks \in Seq(Threads) BY DEF TypeOK
      <4> QED BY <1>a, <2>1, <4>1, AppendQueue
    <3>2. clearing_tasks' = clearing_tasks /\ pc'[Clean] = pc[Clean]
      BY <1>a, <2>1, <2>2, Constants
    <3>3. \A u \in Threads :
            In(dead_tasks, u) \/ In(clearing_tasks, u) <=> status[u] = "dead"
      BY DEF QueueInv, StatusInv, ListInv
    <3>4. \A u \in Threads :
            In(dead_tasks', u) \/ In(clearing_tasks', u) <=> status'[u] = "dead"
      BY <2>11, <3>1, <3>2, <3>3
    <3> QED BY <3>2, <3>4 DEF QueueInv, StatusInv, ListInv
  <2>15. \A u \in Threads : Asleep(u)' <=> Asleep(u)
    BY <1>a, <2>1, <2>2, <2>6, <2>11 DEF Asleep
  <2>16. WaitInv'
    <3>1. \A u \in UserThreads : pc'[u] \in {"w_clock", "w_cenq"} =>
            pc[u] \in {"w_clock", "w_cenq"}
      BY <2>2, Users
    <3>2. UNCHANGED <<self, loc, wait_any, exit_wait, exited, children>> BY <2>1
    <3> QED BY <2>15, <3>1, <3>2, WaitStill DEF QueueInv
  <2>17. CvInv' BY <2>3, <2>11 DEF CvInv
  <2> QED BY <2>12, <2>13, <2>14, <2>16, <2>17 DEF QueueInv, StatusInv
<1> QED BY <1>1, <1>2

\* The clean thread: its sleep, the lists it takes, and what it frees.
LEMMA CleanQueues ==
  ASSUME TypeOK, TreeInv, DeadInv, QueueInv, CleanStep
  PROVE  QueueInv'
<1> USE DEF At, Goto
<1>a. Clean \in Threads /\ Clean # Main /\ Clean \notin UserThreads
  BY Constants, Users DEF UserThreads
<1> DEFINE Still == /\ UNCHANGED <<cur, ready, status, fault>>
                    /\ UNCHANGED <<self, wait_any, exit_wait, exited, children>>
                    /\ UNCHANGED <<cv, dead_tasks, dead_processes, clearing_tasks>>
<1>m. ASSUME NEW l, fault = "none", cur = Clean, UNCHANGED loc, Still,
             pc' = [pc EXCEPT ![Clean] = l],
             l \in {"c_lock", "c_test", "c_yield", "c_procs"},
             pc[Clean] # "w_mark",
             pc[Clean] \in Blocking <=> l = "c_yield", clearing_tasks = <<>>
      PROVE  QueueInv'
  <2>1. l \notin {"none", "dead", "w_mark"} /\ l \notin Marked
        /\ l \notin {"w_clock", "w_cenq"} /\ l # "w_yield"
    BY <1>m DEF Marked
  <2> QED BY <1>a, <1>m, <2>1, QuietQueueMove
<1>n. pc[Clean] # "c_tasks" => clearing_tasks = <<>>
  BY DEF QueueInv, StatusInv, ListInv
<1>1. CASE CleanLock
  <2>1. CASE Spin BY <1>1, <2>1, SpinQueues DEF CleanLock
  <2>2. CASE ~Spin
    BY <1>1, <1>m, <1>n, <2>2
       DEF CleanLock, LockDead, schedVars, procVars, Blocking
  <2> QED BY <2>1, <2>2
<1>2. CASE CleanBlock
  <2>1. /\ pc[Clean] = "c_test" /\ pc' = [pc EXCEPT ![Clean] = "c_unlock"]
        /\ cur = Clean /\ fault = "none" /\ cv' = Append(cv, Clean)
        /\ dead_tasks = <<>> /\ dead_processes = <<>>
        /\ status' = [status EXCEPT ![Clean] = "waiting"]
        /\ UNCHANGED <<cur, ready, fault, self, loc, wait_any, exit_wait,
                       exited, children, dead_tasks, dead_processes,
                       clearing_tasks>>
    BY <1>2 DEF CleanBlock, procVars
  <2>2. /\ pc'[Clean] = "c_unlock"
        /\ \A u \in Threads : u # Clean => pc'[u] = pc[u]
        /\ status'[Clean] = "waiting"
        /\ \A u \in Threads : u # Clean => status'[u] = status[u]
    BY <1>a, <2>1 DEF TypeOK, SchedTypeOK
  <2>3. StatusInv'
    BY <1>a, <2>1, StatusMark DEF QueueInv, Marked, Blocking
  <2>4. \A u \in Threads : Asleep(u)' <=> Asleep(u)
    BY <1>a, <2>2 DEF Asleep
  <2>5. \A u \in UserThreads : pc'[u] \in {"w_clock", "w_cenq"} =>
          pc[u] \in {"w_clock", "w_cenq"}
    BY <2>2, Users
  <2>6. WaitInv' BY <2>1, <2>4, <2>5, WaitStill DEF QueueInv
  <2>7. CvInv'
    <3>1. status[Clean] = "running"
      BY <1>a, <2>1, Awake DEF QueueInv, Blocking
    <3>2. cv = <<>> BY <3>1 DEF QueueInv, CvInv
    <3>3. cv' = <<Clean>> BY <2>1, <3>2
    <3> QED BY <2>1, <2>2, <3>3 DEF CvInv
  <2> QED BY <2>3, <2>6, <2>7 DEF QueueInv
<1>3. CASE CleanUnlock
  BY <1>3, <1>m, <1>n DEF CleanUnlock, schedVars, procVars, Blocking
<1>4. CASE CleanYield
  <2>1. /\ pc[cur] = "c_yield" /\ pc'[cur] = "c_lock"
        /\ \A u \in Threads : u # cur => pc'[u] = pc[u]
    BY <1>4, <1>a DEF CleanYield, TypeOK
  <2> QED BY <1>4, <2>1, SwitchQueues
          DEF CleanYield, schedule_thread_yield, procVars, cleanVars
<1>5. CASE CleanTake
  <2>1. /\ pc[Clean] = "c_test" /\ pc' = [pc EXCEPT ![Clean] = "c_tasks"]
        /\ cur = Clean /\ fault = "none"
        /\ clearing_tasks' = dead_tasks /\ dead_tasks' = <<>>
        /\ UNCHANGED <<cur, ready, status, fault, self, loc, wait_any,
                       exit_wait, exited, children, cv>>
    BY <1>5 DEF CleanTake, schedVars, procVars
  <2>2. /\ pc'[Clean] = "c_tasks"
        /\ \A u \in Threads : u # Clean => pc'[u] = pc[u]
    BY <1>a, <2>1 DEF TypeOK
  <2>3. status[Clean] = "running"
    BY <1>a, <2>1, Awake DEF QueueInv, Blocking
  <2>4. RunInv(cur, status, ready)'
    BY <2>1 DEF QueueInv, StatusInv, RunInv, ReadyQueue
  <2>5. ListInv'
    <3>1. clearing_tasks = <<>> BY <1>n, <2>1
    <3>2. \A u \in Threads : In(dead_tasks, u) \/ In(clearing_tasks, u)
                               <=> status[u] = "dead"
      BY DEF QueueInv, StatusInv, ListInv
    <3> QED BY <2>1, <2>2, <3>1, <3>2, ShortQueues DEF ListInv
  <2>6. LabelInv'
    <3>1. ASSUME NEW u \in Threads
          PROVE  /\ pc'[u] = "none" <=> status'[u] = "none"
                 /\ pc'[u] = "dead" <=> status'[u] = "dead"
                 /\ status'[u] = "waiting" => pc'[u] \in Sleeping
                 /\ pc'[u] \in Marked => status'[u] = "waiting"
      <4>1. CASE u = Clean BY <2>1, <2>2, <2>3, <4>1 DEF Marked
      <4>2. CASE u # Clean BY <2>1, <2>2, <4>2 DEF QueueInv, StatusInv, LabelInv
      <4> QED BY <4>1, <4>2
    <3> QED BY <2>1, <2>3, <3>1 DEF LabelInv
  <2>7. \A u \in Threads : Asleep(u)' <=> Asleep(u)
    BY <1>a, <2>1, <2>2 DEF Asleep
  <2>8. \A u \in UserThreads : pc'[u] \in {"w_clock", "w_cenq"} =>
          pc[u] \in {"w_clock", "w_cenq"}
    BY <2>2, Users
  <2>9. WaitInv' BY <2>1, <2>7, <2>8, WaitStill DEF QueueInv
  <2>10. CvInv' BY <2>1, <2>3 DEF QueueInv, CvInv
  <2> QED BY <2>4, <2>5, <2>6, <2>9, <2>10 DEF QueueInv, StatusInv
<1>6. CASE CleanThread
  <2>0. PICK n : n = Head(clearing_tasks) OBVIOUS
  <2>1. /\ clearing_tasks # <<>> /\ cur = Clean /\ pc[Clean] = "c_tasks"
        /\ fault = "none"
        /\ pc' = [pc EXCEPT ![n] = "none"]
        /\ status' = [status EXCEPT ![n] = "none"]
        /\ self' = [self EXCEPT ![n] = KernelProc]
        /\ loc' = [loc EXCEPT ![n] = NULL]
        /\ clearing_tasks' = Tail(clearing_tasks)
        /\ UNCHANGED <<cur, ready, fault, wait_any, exit_wait, exited,
                       children, cv, dead_tasks, dead_processes>>
    BY <1>6, <2>0 DEF CleanThread, procVars
  <2>2. /\ n \in Threads /\ In(clearing_tasks, n)
        /\ \A u : In(clearing_tasks, u) <=> In(clearing_tasks', u) \/ u = n
        /\ ~In(clearing_tasks', n)
    <3>1. clearing_tasks \in Seq(Threads) BY DEF TypeOK
    <3>2. Distinct(clearing_tasks)
      BY DEF DeadInv, EndedThreadListedOnce, Distinct
    <3> QED BY <2>0, <2>1, <3>1, <3>2, TailQueue
  <2>3. pc[n] = "dead" /\ ~In(dead_tasks, n)
    BY <2>2 DEF DeadInv, EndedThreadListedOnce, In
  <2>4. /\ pc'[n] = "none" /\ status'[n] = "none"
        /\ \A u \in Threads : u # n =>
             /\ pc'[u] = pc[u] /\ status'[u] = status[u]
             /\ self'[u] = self[u] /\ loc'[u] = loc[u]
    BY <2>1, <2>2 DEF TypeOK, SchedTypeOK
  <2>5. /\ UNCHANGED <<cur, ready, fault, wait_any, exit_wait>>
        /\ UNCHANGED <<exited, children, cv, dead_tasks, dead_processes>>
        /\ cur = Clean /\ pc[Clean] = "c_tasks" /\ fault = "none"
    BY <2>1
  <2>6. status[n] = "dead" /\ n # Clean /\ n # Main
    BY <2>2, <2>3, <2>5 DEF QueueInv, StatusInv, LabelInv, TreeInv, KindInv
  <2>7. RunInv(cur, status, ready)'
    BY <2>2, <2>4, <2>5, <2>6, Constants
       DEF QueueInv, StatusInv, RunInv, ReadyQueue
  <2>8. ListInv'
    <3>1. pc'[Clean] = "c_tasks" BY <1>a, <2>4, <2>5, <2>6
    <3>2. \A u \in Threads : In(dead_tasks, u) \/ In(clearing_tasks, u)
                               <=> status[u] = "dead"
      BY DEF QueueInv, StatusInv, ListInv
    <3>3. \A u \in Threads : In(dead_tasks, u) \/ In(clearing_tasks', u)
                               <=> status'[u] = "dead"
      BY <2>2, <2>3, <2>4, <3>2
    <3> QED BY <2>5, <3>1, <3>3 DEF ListInv
  <2>9. LabelInv'
    <3>1. ASSUME NEW u \in Threads
          PROVE  /\ pc'[u] = "none" <=> status'[u] = "none"
                 /\ pc'[u] = "dead" <=> status'[u] = "dead"
                 /\ status'[u] = "waiting" => pc'[u] \in Sleeping
                 /\ pc'[u] \in Marked => status'[u] = "waiting"
      <4>1. CASE u = n BY <2>4, <4>1 DEF Marked
      <4>2. CASE u # n BY <2>4, <4>2 DEF QueueInv, StatusInv, LabelInv
      <4> QED BY <4>1, <4>2
    <3>2. status[Clean] = "running"
      BY <1>a, <2>5, Awake DEF QueueInv, Blocking
    <3> QED BY <1>a, <2>4, <2>5, <2>6, <3>1, <3>2 DEF LabelInv
  <2>10. ~Asleep(n) BY <2>3, <2>6 DEF Asleep
  <2>11. \A u \in Threads : Asleep(u)' <=> Asleep(u)
    BY <2>4, <2>10 DEF Asleep
  <2>12. WaitInv'
    <3>1. \A u \in Threads : Asleep(u) \/ pc'[u] \in {"w_clock", "w_cenq"} =>
            self'[u] = self[u] /\ loc'[u] = loc[u]
      BY <2>4, <2>10
    <3>2. \A u \in UserThreads : pc'[u] \in {"w_clock", "w_cenq"} =>
            pc[u] \in {"w_clock", "w_cenq"}
      BY <2>4, Users
    <3> QED BY <2>5, <2>11, <3>1, <3>2, WaitStill DEF QueueInv
  <2>13. CvInv' BY <1>a, <2>4, <2>5, <2>6 DEF QueueInv, CvInv
  <2> QED BY <2>7, <2>8, <2>9, <2>12, <2>13 DEF QueueInv, StatusInv
<1>7. CASE CleanThreadsDone
  BY <1>7, <1>m DEF CleanThreadsDone, schedVars, procVars, cleanVars, Blocking
<1>8. CASE CleanProc
  BY <1>8, StillQueues DEF CleanProc, schedVars
<1>9. CASE CleanProcsDone
  BY <1>9, <1>m, <1>n DEF CleanProcsDone, schedVars, procVars, cleanVars, Blocking
<1> QED BY <1>1, <1>2, <1>3, <1>4, <1>5, <1>6, <1>7, <1>8, <1>9 DEF CleanStep

\* What boot leaves behind.
LEMMA InitQueues == Init => QueueInv
<1> SUFFICES ASSUME Init PROVE QueueInv OBVIOUS
<1>1. /\ status[Main] = "running" /\ status[Clean] = "ready"
      /\ status[InitThread] = "ready"
      /\ \A t \in Threads : t \notin {Main, Clean, InitThread} =>
           status[t] = "none" /\ pc[t] = "none"
      /\ pc[Main] = "idle" /\ pc[Clean] = "c_lock" /\ pc[InitThread] = "init"
      /\ cur = Main
  BY Constants DEF Init, SchedInit, Main, Clean, InitThread
<1>2. RunInv(cur, status, ready)
  <2>1. ready = <<Clean, InitThread>> BY DEF Init, SchedInit
  <2>2. Len(ready) = 2 /\ ready[1] = Clean /\ ready[2] = InitThread BY <2>1
  <2>3. Distinct(ready) BY <2>2 DEF Distinct, Clean, InitThread
  <2>4. \A t : In(ready, t) <=> t \in {Clean, InitThread}
    BY <2>2 DEF In, Clean, InitThread
  <2>5. \A t \in Threads : In(ready, t) <=> status[t] = "ready"
    BY <1>1, <2>4
  <2> QED BY <1>1, <2>3, <2>5 DEF RunInv, ReadyQueue
<1>3. LabelInv BY <1>1 DEF LabelInv, Marked, Sleeping
<1>4. ListInv
  <2>1. \A t \in Threads : status[t] # "dead" BY <1>1
  <2> QED BY <2>1, ShortQueues DEF Init, ListInv
<1>5. \A t \in Threads : ~Asleep(t) BY <1>1, Users DEF Asleep
<1>6. WaitInv
  <2>1. \A q \in Procs : wait_any[q] = <<>> /\ exit_wait[q] = <<>>
    BY DEF Init
  <2>2. \A t \in UserThreads : pc[t] \notin {"w_clock", "w_cenq"}
    BY <1>1, Users
  <2> QED BY <1>5, <2>1, <2>2, ShortQueues, Users DEF WaitInv
<1>7. CvInv BY <1>1 DEF Init, CvInv
<1> QED BY <1>2, <1>3, <1>4, <1>6, <1>7 DEF QueueInv, StatusInv

\* Every step keeps the queues right.
LEMMA QueueStep ==
  ASSUME TypeOK, DeadInv, TreeInv, LockInv, QueueInv, [Next]_vars
  PROVE  QueueInv'
<1>1. ASSUME NEW t \in UserThreads, UserCall(t) \/ Fork(t) \/ Wait(t) \/ Exit(t)
      PROVE  QueueInv'
  BY <1>1, QuietQueues, ForkCreateQueues, ForkAddQueues, ForkSchedQueues,
     WaitTakeQueues, WaitEnqueue, WaitMarkQueues, DeadProcPutQueues,
     ExitOrphansQueues, ExitNotifyQueues, ExitThreadQueues
     DEF UserCall, Fork, Wait, Exit
<1>2. CASE CleanStep BY <1>2, CleanQueues
<1>3. CASE Preempt
  BY <1>3, SwitchQueues DEF Preempt, schedule, procVars, cleanVars
<1>4. CASE UNCHANGED vars
  BY <1>4, StillQueues DEF vars, schedVars, procVars, cleanVars
<1> QED BY <1>1, <1>2, <1>3, <1>4 DEF Next, Idle, Halted

\* The invariant behind the next three theorems.
THEOREM QueueInvariant == Spec => []QueueInv
<1>1. TypeOK /\ DeadInv /\ TreeInv /\ LockInv /\ QueueInv /\ [Next]_vars
        => QueueInv'
  BY QueueStep
<1> QED BY <1>1, InitQueues, TypeCorrect, DeadInvariant, TreeInvariant,
           LockInvariant, PTL DEF Spec

\* Every schedule_node is linked where its thread's status says and nowhere
\* else: a READY thread once in ready_tasks, a DEAD one once in one of the dead
\* lists, and only the current thread and the idle thread are RUNNING.
THEOREM NodesInOneQueue == Spec => []QueueIntegrity
<1>1. TypeOK /\ DeadInv /\ QueueInv => QueueIntegrity
  <2> SUFFICES ASSUME TypeOK, DeadInv, QueueInv, NEW t \in Threads
               PROVE  /\ Count(ready, t) = IF status[t] = "ready" THEN 1 ELSE 0
                      /\ Count(dead_tasks, t) + Count(clearing_tasks, t)
                           = IF status[t] = "dead" THEN 1 ELSE 0
                      /\ status[t] = "running" => t \in {cur, Main}
                      /\ t = cur => status[t] \in {"running", "waiting"}
    BY DEF QueueIntegrity
  <2>1. /\ ready \in Seq(Threads) /\ dead_tasks \in Seq(Threads)
        /\ clearing_tasks \in Seq(Threads)
    BY DEF TypeOK, SchedTypeOK
  <2>2. ASSUME NEW s \in Seq(Threads), Distinct(s)
        PROVE  Count(s, t) = IF In(s, t) THEN 1 ELSE 0
    BY <2>2, TimesInQueue DEF Count
  <2>3. /\ Distinct(ready) /\ (In(ready, t) <=> status[t] = "ready")
    BY DEF QueueInv, StatusInv, RunInv, ReadyQueue
  <2>4. /\ Distinct(dead_tasks) /\ Distinct(clearing_tasks)
        /\ ~(In(dead_tasks, t) /\ In(clearing_tasks, t))
    BY DEF DeadInv, EndedThreadListedOnce, Distinct, In
  <2>5. In(dead_tasks, t) \/ In(clearing_tasks, t) <=> status[t] = "dead"
    BY DEF QueueInv, StatusInv, ListInv
  <2>6. Count(ready, t) = IF status[t] = "ready" THEN 1 ELSE 0
    BY <2>1, <2>2, <2>3
  <2>7. /\ Count(dead_tasks, t) = IF In(dead_tasks, t) THEN 1 ELSE 0
        /\ Count(clearing_tasks, t) = IF In(clearing_tasks, t) THEN 1 ELSE 0
    BY <2>1, <2>2, <2>4
  <2>8. Count(dead_tasks, t) + Count(clearing_tasks, t)
          = IF status[t] = "dead" THEN 1 ELSE 0
    BY <2>4, <2>5, <2>7
  <2>9. /\ status[t] = "running" => t \in {cur, Main}
        /\ t = cur => status[t] \in {"running", "waiting"}
    BY DEF QueueInv, StatusInv, RunInv, LabelInv
  <2> QED BY <2>6, <2>8, <2>9
<1> QED BY <1>1, TypeCorrect, DeadInvariant, QueueInvariant, PTL

\* A thread that sleeps in process_wait is once in the queue its waker will
\* empty, and what it waits for has not happened: no exit slips between the
\* scan of the exited children and the sleep.
THEOREM NoWakeupLost == Spec => []NoLostWakeup
<1>1. TypeOK /\ TreeInv /\ QueueInv => NoLostWakeup
  <2> SUFFICES ASSUME TypeOK, TreeInv, QueueInv, NEW t \in UserThreads,
                      status[t] = "waiting"
               PROVE  IF loc[t] = 0
                      THEN /\ Count(wait_any[self[t]], t) = 1
                           /\ exited[self[t]] = {}
                      ELSE /\ Count(exit_wait[loc[t]], t) = 1
                           /\ loc[t] \in children[self[t]] \ exited[self[t]]
    BY DEF NoLostWakeup
  <2>1. t \in Threads /\ Asleep(t) BY Users DEF Asleep
  <2>2. self[t] \in Procs /\ loc[t] \in Procs
    BY <2>1, SleepLabels DEF QueueInv
  <2>3. ASSUME NEW s \in Seq(Threads), Distinct(s), In(s, t)
        PROVE  Count(s, t) = 1
    BY <2>3, TimesInQueue DEF Count
  <2>4. Unheard(t) BY <2>1 DEF QueueInv, WaitInv
  <2>5. CASE loc[t] = 0
    <3>1. /\ wait_any[self[t]] \in Seq(Threads) /\ Distinct(wait_any[self[t]])
          /\ In(wait_any[self[t]], t)
      BY <2>1, <2>2, <2>5 DEF QueueInv, WaitInv, TypeOK
    <3> QED BY <2>3, <2>4, <2>5, <3>1 DEF Unheard
  <2>6. CASE loc[t] # 0
    <3>1. /\ exit_wait[loc[t]] \in Seq(Threads) /\ Distinct(exit_wait[loc[t]])
          /\ In(exit_wait[loc[t]], t)
      BY <2>1, <2>2, <2>6 DEF QueueInv, WaitInv, TypeOK
    <3> QED BY <2>3, <2>4, <2>6, <3>1 DEF Unheard
  <2> QED BY <2>5, <2>6
<1> QED BY <1>1, TypeCorrect, TreeInvariant, QueueInvariant, PTL

\* The clean thread does not sleep on dead_cv while something is to be freed.
THEOREM NoNotifyLost == Spec => []NoLostNotify
<1>1. QueueInv => NoLostNotify BY DEF QueueInv, CvInv, NoLostNotify
<1> QED BY <1>1, QueueInvariant, PTL

=============================================================================
