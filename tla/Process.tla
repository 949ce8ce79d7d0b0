------------------------------ MODULE Process ------------------------------
(***************************************************************************)
(* The life of a process: process_fork, process_wait and process_exit      *)
(* (src/src/task/process.c), the clean thread that frees what they leave   *)
(* behind (scheduler.c), and the yield locks and the condition variable    *)
(* they synchronise with (src/src/sync), under timer preemption.           *)
(*                                                                         *)
(* Every user process has one thread.  A step is the code between two      *)
(* points where another thread can run: in the sections that run with      *)
(* interrupts on that is any instruction, cut here at each access to state *)
(* that some other thread can see; in the sections after a cli it is only  *)
(* a yield on a busy lock.  The leaf locks (heap, id pools, frames,        *)
(* process map) protect a few instructions each and are not represented.   *)
(***************************************************************************)
EXTENDS Scheduler

CONSTANT Program  \* the system calls that the program of a process makes

ASSUME ProgramAssumption ==
  Program \in [Procs \ {KernelProc, InitProc} -> SUBSET {"fork", "wait", "exit"}]

VARIABLES
  pc,         \* where each thread is
  self,       \* the local "process" of fork, wait and exit
  loc,        \* the other pcb or the pid the thread works on, see pc
  plock,      \* pcb_t.lock.hold
  dead_lock,  \* dead_resource_lock.hold
  pcb,        \* the pcb: not allocated, PROCESS_NORMAL, PROCESS_EXIT
  parent,     \* pcb_t.parent
  children,   \* pcb_t.children_processes
  exited,     \* pcb_t.exit_children_processes
  wait_any,   \* pcb_t.wait_any_exit_queue
  exit_wait,  \* pcb_t.exit_wait_queue
  cv,         \* dead_cv.waiting_queue
  dead_tasks, dead_processes,      \* handed to the clean thread
  clearing_tasks, clearing_procs,  \* taken by the clean thread
  lost        \* history: processes filed with a pcb that has been destroyed

procVars  == <<plock, pcb, parent, children, exited, wait_any, exit_wait>>
cleanVars == <<dead_lock, cv, dead_tasks, dead_processes, clearing_tasks,
               clearing_procs, lost>>
vars == <<schedVars, pc, self, loc, procVars, cleanVars>>

\* Interrupts are off from the cli of process_exit to the thread's end.
NoIntr == {"e_self", "e_init", "e_init2", "e_par", "e_par2", "x_dead",
           "dead"}

Labels == NoIntr \cup
  {"none", "idle", "init", "user",
   "f_lock", "f_add", "f_sched",
   "w_lock", "w_scan", "w_fail", "w_clock", "w_cenq", "w_mark", "w_unlock",
   "w_yield", "w_reap", "ap_lock", "ap_put", "e_cli",
   "c_lock", "c_test", "c_unlock", "c_yield", "c_tasks", "c_procs"}

\* The labels at which loc is a pid or a pcb.
UsesLoc == {"f_lock", "f_add", "f_sched", "w_lock", "w_scan", "w_fail",
            "w_clock", "w_cenq", "w_mark", "w_unlock", "w_yield", "w_reap",
            "ap_lock", "ap_put", "e_cli", "e_self", "e_init", "e_init2",
            "e_par", "e_par2", "x_dead"}

LocTyped == \A t \in Threads : pc[t] \in UsesLoc => loc[t] # NULL

TypeOK ==
  /\ SchedTypeOK
  /\ pc \in [Threads -> Labels]
  /\ self \in [Threads -> Procs]
  /\ loc \in [Threads -> Procs \cup {NULL}]
  /\ LocTyped
  /\ plock \in [Procs -> BOOLEAN]
  /\ dead_lock \in BOOLEAN
  /\ pcb \in [Procs -> {"free", "normal", "exit"}]
  /\ parent \in [Procs -> Procs \cup {NULL}]
  /\ children \in [Procs -> SUBSET Procs]
  /\ exited \in [Procs -> SUBSET Procs]
  /\ wait_any \in [Procs -> Seq(Threads)]
  /\ exit_wait \in [Procs -> Seq(Threads)]
  /\ cv \in Seq(Threads)
  /\ dead_tasks \in Seq(Threads)
  /\ clearing_tasks \in Seq(Threads)
  /\ dead_processes \in Seq(Procs)
  /\ clearing_procs \in Seq(Procs)
  /\ lost \in SUBSET Procs

Init ==
  /\ SchedInit
  /\ pc = [t \in Threads |-> CASE t = Main -> "idle"
                               [] t = Clean -> "c_lock"
                               [] t = InitThread -> "init"
                               [] OTHER -> "none"]
  /\ self = [t \in Threads |-> IF t = InitThread THEN InitProc ELSE KernelProc]
  /\ loc = [t \in Threads |-> NULL]
  /\ plock = [p \in Procs |-> FALSE]
  /\ dead_lock = FALSE
  /\ pcb = [p \in Procs |-> IF p \in {KernelProc, InitProc} THEN "normal"
                            ELSE "free"]
  /\ parent = [p \in Procs |-> NULL]
  /\ children = [p \in Procs |-> {}]
  /\ exited = [p \in Procs |-> {}]
  /\ wait_any = [p \in Procs |-> <<>>]
  /\ exit_wait = [p \in Procs |-> <<>>]
  /\ cv = <<>>
  /\ dead_tasks = <<>> /\ dead_processes = <<>>
  /\ clearing_tasks = <<>> /\ clearing_procs = <<>>
  /\ lost = {}

-----------------------------------------------------------------------------
(* Steps and locks *)

At(t, l) == fault = "none" /\ cur = t /\ pc[t] = l

Goto(t, l) == pc' = [pc EXCEPT ![t] = l]

\* Mutant: the search runs one bit past the last free id.
FirstPastEnd(S) == {x + 1 : x \in {y \in S : \A z \in S : y >= z}}

\* id_pool_allocate_id gives the first free id of the pool.
First(S) == {x \in S : \A y \in S : x <= y}

\* A kernel crash: nothing else changes, and no thread runs afterwards.
Crash(f) ==
  /\ fault' = f
  /\ UNCHANGED <<cur, ready, status, process, cr3, pc, self, loc, procVars,
                 cleanVars>>

\* yieldlock_lock found the lock taken: give the CPU away and try again.
Spin ==
  /\ schedule_thread_yield
  /\ UNCHANGED <<process, pc, self, loc, procVars, cleanVars>>

\* yieldlock_lock(&pcb[p].lock) of a thread that goes on at l.
LockProc(t, p, l) ==
  \/ /\ ~plock[p]
     /\ plock' = [plock EXCEPT ![p] = TRUE]
     /\ Goto(t, l)
     /\ UNCHANGED <<schedVars, self, loc, pcb, parent, children, exited,
                    wait_any, exit_wait, cleanVars>>
  \/ plock[p] /\ Spin

\* Mutant: the lock is taken without a look at who has it.
LockDeadBlindly(t, l) ==
  /\ dead_lock' = TRUE
  /\ Goto(t, l)
  /\ UNCHANGED <<schedVars, self, loc, procVars, cv, dead_tasks,
                 dead_processes, clearing_tasks, clearing_procs, lost>>

\* yieldlock_lock(&dead_resource_lock).
LockDead(t, l) ==
  \/ /\ ~dead_lock
     /\ dead_lock' = TRUE
     /\ Goto(t, l)
     /\ UNCHANGED <<schedVars, self, loc, procVars, cv, dead_tasks,
                    dead_processes, clearing_tasks, clearing_procs, lost>>
  \/ dead_lock /\ Spin

\* Mutant: a path that forgets to unlock.
UnlockProcForgotten(p) == plock' = plock

\* yieldlock_unlock: an unconditional store.
UnlockProc(p) == plock' = [plock EXCEPT ![p] = FALSE]

\* Mutant: the waiter is taken off the queue and not made ready.
NotifiedNone == <<>>

\* cond_var_notify(&dead_cv): the first waiter, if any, becomes ready.
Notified == IF cv = <<>> THEN <<>> ELSE <<Head(cv)>>
cond_var_notify == cv' = IF cv = <<>> THEN cv ELSE Tail(cv)

\* A timer or keyboard interrupt ends a slice: schedule() at interrupt_exit.
Preempt ==
  /\ fault = "none"
  /\ pc[cur] \notin NoIntr
  /\ schedule
  /\ UNCHANGED <<process, pc, self, loc, procVars, cleanVars>>

-----------------------------------------------------------------------------
(* process_fork *)

\* init.c forks once and then only waits.
MayFork(t) == \/ t = InitThread /\ At(t, "init")
              \/ t # InitThread /\ At(t, "user") /\ "fork" \in Program[self[t]]

\* create_process: the id, the pcb and its empty tables; without a free id it
\* returns NULL, which process_fork hands to add_child_process.
ForkCreate(t) ==
  /\ MayFork(t)
  /\ LET free == {p \in Procs : pcb[p] = "free"} IN
     IF free = {}
     THEN Crash("fork_null")
     ELSE \E p \in First(free) :
          /\ loc' = [loc EXCEPT ![t] = p]
          /\ pcb' = [pcb EXCEPT ![p] = "normal"]
          /\ parent' = [parent EXCEPT ![p] = NULL]
          /\ children' = [children EXCEPT ![p] = {}]
          /\ exited' = [exited EXCEPT ![p] = {}]
          /\ wait_any' = [wait_any EXCEPT ![p] = <<>>]
          /\ exit_wait' = [exit_wait EXCEPT ![p] = <<>>]
          /\ UnlockProc(p)
          /\ Goto(t, "f_lock")
          /\ UNCHANGED <<schedVars, self, cleanVars>>

ForkLock(t) == At(t, "f_lock") /\ LockProc(t, self[t], "f_add")

\* add_child_process, its unlock, and the new process's parent pointer.
ForkAdd(t) ==
  /\ At(t, "f_add")
  /\ children' = [children EXCEPT ![self[t]] = @ \cup {loc[t]}]
  /\ UnlockProc(self[t])
  /\ parent' = [parent EXCEPT ![loc[t]] = self[t]]
  /\ Goto(t, "f_sched")
  /\ UNCHANGED <<schedVars, self, loc, pcb, exited, wait_any, exit_wait,
                 cleanVars>>

\* fork_crt_thread (a failed id allocation is an Assert), add_process_thread
\* and, last, the new thread's place in the ready queue.
ForkSched(t) ==
  /\ At(t, "f_sched")
  /\ LET free == {u \in Threads : pc[u] = "none"} IN
     IF free = {}
     THEN Crash("no_thread_id")
     ELSE \E u \in First(free) :
          /\ status' = [status EXCEPT ![u] = "ready"]
          /\ ready' = Append(ready, u)
          /\ process' = [process EXCEPT ![u] = loc[t]]
          /\ self' = [self EXCEPT ![u] = loc[t]]
          /\ loc' = [loc EXCEPT ![t] = NULL]
          /\ pc' = [pc EXCEPT ![t] = "user", ![u] = "user"]
          /\ UNCHANGED <<cur, cr3, fault, procVars, cleanVars>>

-----------------------------------------------------------------------------
(* process_wait: loc is the pid waited for (0 is any child), then the      *)
(* child that was found.                                                   *)

\* init.c only ever waits for any child.
WaitCall(t) ==
  /\ At(t, "user")
  /\ t # InitThread => "wait" \in Program[self[t]]
  /\ \E pid \in Procs :
       /\ t = InitThread => pid = 0
       /\ loc' = [loc EXCEPT ![t] = pid]
  /\ Goto(t, "w_lock")
  /\ UNCHANGED <<schedVars, self, procVars, cleanVars>>

WaitLock(t) == At(t, "w_lock") /\ LockProc(t, self[t], "w_scan")

\* Mutant: a process with children may wait for anybody.
HasAnyChild(p, pid) == children[p] # {}

\* The children a wait for pid may take, and whether it has any to wait for.
Takable(p, pid) == IF pid = 0 THEN exited[p] ELSE exited[p] \cap {pid}
HasChild(p, pid) == children[p] # {} /\ (pid > 0 => pid \in children[p])

\* No child to wait for: unlock and return -1 (at w_fail).
WaitNone(t) ==
  /\ At(t, "w_scan")
  /\ ~HasChild(self[t], loc[t])
  /\ Goto(t, "w_fail")
  /\ UNCHANGED <<schedVars, self, loc, procVars, cleanVars>>

WaitFail(t) ==
  /\ At(t, "w_fail")
  /\ UnlockProc(self[t])
  /\ loc' = [loc EXCEPT ![t] = NULL]
  /\ Goto(t, "user")
  /\ UNCHANGED <<schedVars, self, pcb, parent, children, exited, wait_any,
                 exit_wait, cleanVars>>

\* An exited child leaves both tables; Assert(removed == child).
WaitTake(t) ==
  /\ At(t, "w_scan")
  /\ HasChild(self[t], loc[t])
  /\ \E c \in Takable(self[t], loc[t]) :
       IF c \notin children[self[t]]
       THEN Crash("not_a_child")
       ELSE /\ exited' = [exited EXCEPT ![self[t]] = @ \ {c}]
            /\ children' = [children EXCEPT ![self[t]] = @ \ {c}]
            /\ loc' = [loc EXCEPT ![t] = c]
            /\ Goto(t, "w_reap")
            /\ UNCHANGED <<schedVars, self, plock, pcb, parent, wait_any,
                           exit_wait, cleanVars>>

\* Nothing has exited: a wait for any child queues on the process itself.
WaitQueueAny(t) ==
  /\ At(t, "w_scan")
  /\ HasChild(self[t], loc[t])
  /\ loc[t] = 0 /\ exited[self[t]] = {}
  /\ wait_any' = [wait_any EXCEPT ![self[t]] = <<t>> \o @]
  /\ Goto(t, "w_mark")
  /\ UNCHANGED <<schedVars, self, loc, plock, pcb, parent, children, exited,
                 exit_wait, cleanVars>>

\* A wait for one child queues on that child, under the child's lock.
WaitChild(t) ==
  /\ At(t, "w_scan")
  /\ HasChild(self[t], loc[t])
  /\ loc[t] > 0 /\ loc[t] \notin exited[self[t]]
  /\ Goto(t, "w_clock")
  /\ UNCHANGED <<schedVars, self, loc, procVars, cleanVars>>

WaitChildLock(t) == At(t, "w_clock") /\ LockProc(t, loc[t], "w_cenq")

WaitQueueChild(t) ==
  /\ At(t, "w_cenq")
  /\ exit_wait' = [exit_wait EXCEPT ![loc[t]] = <<t>> \o @]
  /\ UnlockProc(loc[t])
  /\ Goto(t, "w_mark")
  /\ UNCHANGED <<schedVars, self, loc, pcb, parent, children, exited,
                 wait_any, cleanVars>>

\* schedule_mark_thread_block, with the lock still held and interrupts on.
WaitMark(t) ==
  /\ At(t, "w_mark")
  /\ status' = [status EXCEPT ![t] = "waiting"]
  /\ Goto(t, "w_unlock")
  /\ UNCHANGED <<cur, ready, process, cr3, fault, self, loc, procVars,
                 cleanVars>>

WaitUnlock(t) ==
  /\ At(t, "w_unlock")
  /\ UnlockProc(self[t])
  /\ Goto(t, "w_yield")
  /\ UNCHANGED <<schedVars, self, loc, pcb, parent, children, exited,
                 wait_any, exit_wait, cleanVars>>

\* schedule_thread_yield; once resumed, the loop takes the lock again.
WaitYield(t) ==
  /\ At(t, "w_yield")
  /\ schedule_thread_yield
  /\ Goto(t, "w_lock")
  /\ UNCHANGED <<process, self, loc, procVars, cleanVars>>

\* The child was found: unlock, then add_dead_process.
WaitReap(t) ==
  /\ At(t, "w_reap")
  /\ UnlockProc(self[t])
  /\ Goto(t, "ap_lock")
  /\ UNCHANGED <<schedVars, self, loc, pcb, parent, children, exited,
                 wait_any, exit_wait, cleanVars>>

DeadProcLock(t) == At(t, "ap_lock") /\ LockDead(t, "ap_put")

\* add_dead_process: append, notify, unlock, and wait returns.
DeadProcPut(t) ==
  /\ At(t, "ap_put")
  /\ dead_processes' = Append(dead_processes, loc[t])
  /\ add_thread_nodes_to_schedule(Notified)
  /\ cond_var_notify
  /\ dead_lock' = FALSE
  /\ loc' = [loc EXCEPT ![t] = NULL]
  /\ Goto(t, "user")
  /\ UNCHANGED <<cur, process, cr3, fault, self, procVars, dead_tasks,
                 clearing_tasks, clearing_procs, lost>>

-----------------------------------------------------------------------------
(* process_exit: loc is the parent, read (and asserted not to be NULL)     *)
(* before interrupts go off.                                               *)

ExitCall(t) ==
  /\ At(t, "user")
  /\ t # InitThread /\ "exit" \in Program[self[t]]
  /\ IF parent[self[t]] = NULL
     THEN Crash("no_parent")
     ELSE /\ loc' = [loc EXCEPT ![t] = parent[self[t]]]
          /\ Goto(t, "e_cli")
          /\ UNCHANGED <<schedVars, self, procVars, cleanVars>>

ExitCli(t) ==
  /\ At(t, "e_cli")
  /\ Goto(t, "e_self")
  /\ UNCHANGED <<schedVars, self, loc, procVars, cleanVars>>

\* Lock, find no other thread, unlock.
ExitSelf(t) ==
  /\ At(t, "e_self")
  /\ \/ /\ ~plock[self[t]]
        /\ Goto(t, "e_init")
        /\ UNCHANGED <<schedVars, self, loc, procVars, cleanVars>>
     \/ plock[self[t]] /\ Spin

ExitInitLock(t) == At(t, "e_init") /\ LockProc(t, InitProc, "e_init2")

\* The children go to init and init is woken; both locks are released, the
\* process gives up its resources, and the thread its process pointer.
ExitOrphans(t) ==
  /\ At(t, "e_init2")
  /\ LET p == self[t]
         orphans == children[p] \cup exited[p]
     IN \/ /\ ~plock[p]
           /\ parent' = [q \in Procs |-> IF q \in orphans THEN InitProc
                                         ELSE parent[q]]
           /\ children' = [children EXCEPT ![p] = {},
                                           ![InitProc] = @ \cup orphans]
           /\ exited' = [exited EXCEPT ![p] = {},
                                       ![InitProc] = @ \cup exited[p]]
           /\ add_thread_nodes_to_schedule(wait_any[InitProc])
           /\ wait_any' = [wait_any EXCEPT ![InitProc] = <<>>]
           /\ UnlockProc(InitProc)
           /\ pcb' = [pcb EXCEPT ![p] = "exit"]
           /\ process' = [process EXCEPT ![t] = NULL]
           /\ Goto(t, "e_par")
           /\ UNCHANGED <<cur, cr3, fault, self, loc, exit_wait, cleanVars>>
        \/ plock[p] /\ Spin

\* The parent's lock, through the pointer read at the start.
ExitParentLock(t) ==
  /\ At(t, "e_par")
  /\ IF pcb[loc[t]] = "free" THEN Crash("use_after_free")
     ELSE LockProc(t, loc[t], "e_par2")

\* The process joins its parent's exited children; whoever waits for it, or
\* for any child of the parent, is woken; both locks are released.  A parent
\* that has exited in the meantime has destroyed its tables and not set them up
\* again: the put then writes to the freed buckets, which works as long as the
\* heap has not given the memory to somebody else and corrupts it otherwise.
ExitNotify(t) ==
  /\ At(t, "e_par2")
  /\ LET p == self[t]
         q == loc[t]
     IN \/ /\ ~plock[p] /\ pcb[q] # "free"
           /\ exited' = [exited EXCEPT ![q] = @ \cup {p}]
           /\ add_thread_nodes_to_schedule(exit_wait[p] \o wait_any[q])
           /\ exit_wait' = [exit_wait EXCEPT ![p] = <<>>]
           /\ wait_any' = [wait_any EXCEPT ![q] = <<>>]
           /\ UnlockProc(q)
           /\ Goto(t, "x_dead")
           /\ UNCHANGED <<cur, process, cr3, fault, self, loc, pcb, parent,
                          children, cleanVars>>
        \/ ~plock[p] /\ pcb[q] # "normal" /\ Crash("freed_table")
        \/ plock[p] /\ Spin

\* schedule_thread_exit: add_dead_tasks, TASK_DEAD, and the last switch.
ExitThread(t) ==
  /\ At(t, "x_dead")
  /\ \/ /\ ~dead_lock
        /\ dead_tasks' = Append(dead_tasks, t)
        /\ cond_var_notify
        /\ do_context_switch([Woken(status, Notified) EXCEPT ![t] = "dead"],
                             ready \o Notified)
        /\ Goto(t, "dead")
        /\ UNCHANGED <<process, self, loc, procVars, dead_lock,
                       dead_processes, clearing_tasks, clearing_procs, lost>>
     \/ dead_lock /\ Spin

-----------------------------------------------------------------------------
(* kernel_clean_thread *)

CleanLock == At(Clean, "c_lock") /\ LockDead(Clean, "c_test")

\* cond_var_wait: nothing to clean, so queue and block, the lock still held.
CleanBlock ==
  /\ At(Clean, "c_test")
  /\ dead_tasks = <<>> /\ dead_processes = <<>>
  /\ cv' = Append(cv, Clean)
  /\ status' = [status EXCEPT ![Clean] = "waiting"]
  /\ Goto(Clean, "c_unlock")
  /\ UNCHANGED <<cur, ready, process, cr3, fault, self, loc, procVars,
                 dead_lock, dead_tasks, dead_processes, clearing_tasks,
                 clearing_procs, lost>>

CleanUnlock ==
  /\ At(Clean, "c_unlock")
  /\ dead_lock' = FALSE
  /\ Goto(Clean, "c_yield")
  /\ UNCHANGED <<schedVars, self, loc, procVars, cv, dead_tasks,
                 dead_processes, clearing_tasks, clearing_procs, lost>>

CleanYield ==
  /\ At(Clean, "c_yield")
  /\ schedule_thread_yield
  /\ Goto(Clean, "c_lock")
  /\ UNCHANGED <<process, self, loc, procVars, cleanVars>>

\* Mutants: one of the lists is copied and not emptied.
CleanTakeKeepsTasks ==
  /\ At(Clean, "c_test")
  /\ dead_tasks # <<>> \/ dead_processes # <<>>
  /\ clearing_tasks' = dead_tasks
  /\ clearing_procs' = dead_processes /\ dead_processes' = <<>>
  /\ dead_lock' = FALSE
  /\ Goto(Clean, "c_tasks")
  /\ UNCHANGED <<schedVars, self, loc, procVars, cv, dead_tasks, lost>>

CleanTakeKeepsProcs ==
  /\ At(Clean, "c_test")
  /\ dead_tasks # <<>> \/ dead_processes # <<>>
  /\ clearing_tasks' = dead_tasks /\ dead_tasks' = <<>>
  /\ clearing_procs' = dead_processes
  /\ dead_lock' = FALSE
  /\ Goto(Clean, "c_tasks")
  /\ UNCHANGED <<schedVars, self, loc, procVars, cv, dead_processes, lost>>

\* Both lists are moved to the thread's own and the lock is released.
CleanTake ==
  /\ At(Clean, "c_test")
  /\ dead_tasks # <<>> \/ dead_processes # <<>>
  /\ clearing_tasks' = dead_tasks /\ dead_tasks' = <<>>
  /\ clearing_procs' = dead_processes /\ dead_processes' = <<>>
  /\ dead_lock' = FALSE
  /\ Goto(Clean, "c_tasks")
  /\ UNCHANGED <<schedVars, self, loc, procVars, cv, lost>>

\* destroy_thread: the id, the kernel stack and the tcb are free again.
CleanThread ==
  /\ At(Clean, "c_tasks")
  /\ clearing_tasks # <<>>
  /\ LET u == Head(clearing_tasks) IN
     /\ status' = [status EXCEPT ![u] = "none"]
     /\ process' = [process EXCEPT ![u] = NULL]
     /\ self' = [self EXCEPT ![u] = KernelProc]
     /\ loc' = [loc EXCEPT ![u] = NULL]
     /\ Goto(u, "none")
  /\ clearing_tasks' = Tail(clearing_tasks)
  /\ UNCHANGED <<cur, ready, cr3, fault, procVars, dead_lock, cv, dead_tasks,
                 dead_processes, clearing_procs, lost>>

CleanThreadsDone ==
  /\ At(Clean, "c_tasks")
  /\ clearing_tasks = <<>>
  /\ Goto(Clean, "c_procs")
  /\ UNCHANGED <<schedVars, self, loc, procVars, cleanVars>>

\* Mutant: the pcb is freed and its process id is not.
CleanProcKeepsId ==
  /\ At(Clean, "c_procs")
  /\ clearing_procs # <<>>
  /\ clearing_procs' = Tail(clearing_procs)
  /\ UNCHANGED <<schedVars, pc, self, loc, procVars, dead_lock, cv, dead_tasks,
                 dead_processes, clearing_tasks, lost>>

\* destroy_process: the page directory's frame, the id and the pcb.  Whoever is
\* still filed with the pcb is out of everybody's reach.
CleanProc ==
  /\ At(Clean, "c_procs")
  /\ clearing_procs # <<>>
  /\ pcb' = [pcb EXCEPT ![Head(clearing_procs)] = "free"]
  /\ clearing_procs' = Tail(clearing_procs)
  /\ lost' = lost \cup exited[Head(clearing_procs)]
  /\ UNCHANGED <<schedVars, pc, self, loc, plock, parent, children, exited,
                 wait_any, exit_wait, dead_lock, cv, dead_tasks,
                 dead_processes, clearing_tasks>>

CleanProcsDone ==
  /\ At(Clean, "c_procs")
  /\ clearing_procs = <<>>
  /\ Goto(Clean, "c_lock")
  /\ UNCHANGED <<schedVars, self, loc, procVars, cleanVars>>

-----------------------------------------------------------------------------
\* What the program of a process chooses to do.
UserCall(t) == ForkCreate(t) \/ WaitCall(t) \/ ExitCall(t)

Fork(t) == ForkLock(t) \/ ForkAdd(t) \/ ForkSched(t)

Wait(t) == \/ WaitLock(t) \/ WaitNone(t) \/ WaitFail(t) \/ WaitTake(t)
           \/ WaitQueueAny(t) \/ WaitChild(t) \/ WaitChildLock(t)
           \/ WaitQueueChild(t) \/ WaitMark(t) \/ WaitUnlock(t)
           \/ WaitYield(t) \/ WaitReap(t) \/ DeadProcLock(t)
           \/ DeadProcPut(t)

Exit(t) == \/ ExitCli(t) \/ ExitSelf(t) \/ ExitInitLock(t) \/ ExitOrphans(t)
           \/ ExitParentLock(t) \/ ExitNotify(t) \/ ExitThread(t)

CleanStep == \/ CleanLock \/ CleanBlock \/ CleanUnlock \/ CleanYield
             \/ CleanTake \/ CleanThread \/ CleanThreadsDone \/ CleanProc
             \/ CleanProcsDone

UserThreads == Threads \ {Main, Clean}

\* cpu_idle: the idle thread halts until the next interrupt.
Idle == At(Main, "idle") /\ UNCHANGED vars

\* Panic halts the machine.
Halted == fault # "none" /\ UNCHANGED vars

Next ==
  \/ \E t \in UserThreads : UserCall(t) \/ Fork(t) \/ Wait(t) \/ Exit(t)
  \/ CleanStep
  \/ Preempt
  \/ Idle
  \/ Halted

Spec == Init /\ [][Next]_vars

-----------------------------------------------------------------------------
(* Safety *)

\* Thread t is between the lock and the unlock of process p's lock.
InProcSection(t, p) ==
  \/ /\ pc[t] \in {"f_add", "w_scan", "w_fail", "w_clock", "w_cenq", "w_mark",
                   "w_unlock", "w_reap"}
     /\ self[t] = p
  \/ pc[t] \in {"w_cenq", "e_par2"} /\ loc[t] = p
  \/ pc[t] = "e_init2" /\ p = InitProc

\* Thread t is between the lock and the unlock of dead_resource_lock.
InDeadSection(t) == pc[t] \in {"ap_put", "c_test", "c_unlock"}

\* yieldlock.c gives mutual exclusion although unlock is a plain store that
\* anyone could make: a process lock is held exactly when one thread is inside
\* a section it guards, also across exits, reaps and reuse of the pcb.
ProcLockExclusion ==
  \A p \in Procs :
    /\ plock[p] <=> \E t \in Threads : InProcSection(t, p)
    /\ \A t, u \in Threads :
         InProcSection(t, p) /\ InProcSection(u, p) => t = u

\* The same for dead_resource_lock, which guards the two dead lists and is
\* taken with interrupts on (add_dead_process, cond_var_wait) and off
\* (add_dead_tasks).
DeadLockExclusion ==
  /\ dead_lock <=> \E t \in Threads : InDeadSection(t)
  /\ \A t, u \in Threads : InDeadSection(t) /\ InDeadSection(u) => t = u

\* An ended thread reaches the clean thread at most once and is not touched by
\* anyone else on the way, so destroy_thread never frees a tcb twice, nor one
\* whose code still runs.
EndedThreadListedOnce ==
  /\ \A i \in 1 .. Len(dead_tasks) : pc[dead_tasks[i]] = "dead"
  /\ \A i \in 1 .. Len(clearing_tasks) : pc[clearing_tasks[i]] = "dead"
  /\ \A i, j \in 1 .. Len(dead_tasks) :
       dead_tasks[i] = dead_tasks[j] => i = j
  /\ \A i, j \in 1 .. Len(clearing_tasks) :
       clearing_tasks[i] = clearing_tasks[j] => i = j
  /\ \A i \in 1 .. Len(dead_tasks), j \in 1 .. Len(clearing_tasks) :
       dead_tasks[i] # clearing_tasks[j]

\* The queue a wait_node or a schedule_node of thread t is linked in, counted.
Count(seq, x) == Cardinality({i \in DOMAIN seq : seq[i] = x})

\* Every node is linked where its status says and nowhere else: a READY thread
\* exactly once in ready_tasks, a DEAD one exactly once in a dead list, and no
\* thread that is running, waiting, dead or freed is in ready_tasks.  A node in
\* two lists, or twice in one, corrupts linked_list.c's prev and next links.
QueueIntegrity ==
  \A t \in Threads :
    /\ Count(ready, t) = IF status[t] = "ready" THEN 1 ELSE 0
    /\ Count(dead_tasks, t) + Count(clearing_tasks, t)
         = IF status[t] = "dead" THEN 1 ELSE 0
    /\ status[t] = "running" => t \in {cur, Main}
    /\ t = cur => status[t] \in {"running", "waiting"}

\* A thread asleep in process_wait is on exactly the one queue its waker will
\* look at, and the event it waits for has not happened yet: no wakeup is lost
\* between the scan of exit_children_processes and the sleep.
NoLostWakeup ==
  \A t \in UserThreads :
    status[t] = "waiting" =>
      IF loc[t] = 0
      THEN /\ Count(wait_any[self[t]], t) = 1
           /\ exited[self[t]] = {}
      ELSE /\ Count(exit_wait[loc[t]], t) = 1
           /\ loc[t] \in children[self[t]] \ exited[self[t]]

\* The clean thread never sleeps on dead_cv while there is something to free,
\* once the lock it slept with is released.
NoLostNotify ==
  status[Clean] = "waiting" /\ ~dead_lock =>
    cv = <<Clean>> /\ dead_tasks = <<>> /\ dead_processes = <<>>

\* Where a process that has exited can be: in a parent's exited children, in
\* the hands of the thread that reaped it, or on one of the clean lists.
ZombiePlaces(p) ==
    Cardinality({q \in Procs : pcb[q] # "free" /\ p \in exited[q]})
  + Cardinality({t \in Threads : /\ pc[t] \in {"w_reap", "ap_lock", "ap_put"}
                                 /\ loc[t] = p})
  + Count(dead_processes, p) + Count(clearing_procs, p)

\* A pcb reaches the clean thread at most once and only after its process has
\* exited, so destroy_process never frees a pcb twice, nor a running one, also
\* where a process files itself with a parent that has exited before it and
\* that another wait reaps.
FreedOnce ==
  \A p \in Procs : /\ ZombiePlaces(p) <= 1
                   /\ ZombiePlaces(p) = 1 => pcb[p] = "exit"

\* The threads that act as process p: its own, until it has given up its
\* process pointer, and the one whose fork is still preparing it.
Carriers(p) ==
  {t \in UserThreads :
     \/ /\ self[t] = p
        /\ pc[t] \notin {"none", "e_par", "e_par2", "x_dead", "dead"}
     \/ loc[t] = p /\ pc[t] \in {"f_lock", "f_add", "f_sched"}}

\* The threads that have exited as process p and have not filed it yet.
Leavers(p) ==
  {t \in UserThreads : self[t] = p /\ pc[t] \in {"e_par", "e_par2"}}

\* Every process id that is taken is accounted for.  While the process is alive
\* one thread acts as it, or a fork prepares it.  After that, and until
\* destroy_process gives the id back (process.c:299), it is in one place: with
\* its thread, which has not filed it yet, with one of those who lead it to the
\* clean thread, or lost for good, and lost only when the pcb it was filed with
\* has been destroyed.  So the pool runs dry (create_process returns NULL) only
\* for processes that live, wait to be reaped, or were lost that way.
IdsAccounted ==
  \A p \in Procs \ {KernelProc} :
    /\ Cardinality(Carriers(p)) = IF pcb[p] = "normal" THEN 1 ELSE 0
    /\ Cardinality(Leavers(p)) + ZombiePlaces(p) + (IF p \in lost THEN 1 ELSE 0)
         = IF pcb[p] = "exit" THEN 1 ELSE 0

\* The page directory in CR3 belongs to a process whose frames have not been
\* given back, although an exited thread runs on after its parent may have
\* had its process destroyed.
LivePageDirectory == pcb[cr3] # "free"

-----------------------------------------------------------------------------
(* Liveness *)

KernelStep(t) == Fork(t) \/ Wait(t) \/ Exit(t)

(***************************************************************************)
(* A thread that gets the CPU again and again executes instructions in     *)
(* its slices (a slice is at least ten ticks, time.c), so it cannot be     *)
(* preempted for ever without a step; the timer never stops; and init.c    *)
(* calls wait(0) in an endless loop.  No program is forced to make any     *)
(* other system call.                                                      *)
(***************************************************************************)
Fairness ==
  /\ WF_vars(Preempt)
  /\ SF_vars(CleanStep)
  /\ \A t \in UserThreads : SF_vars(KernelStep(t))
  /\ SF_vars(WaitCall(InitThread))

FairSpec == Spec /\ Fairness

\* A thread that is off the CPU until somebody wakes it holds no lock.
NoBlockedHolder ==
  \A t \in Threads :
    status[t] = "waiting" /\ cur # t =>
      ~InDeadSection(t) /\ \A p \in Procs : ~InProcSection(t, p)

\* Once an exited process is filed with init (its own child, or an orphan it
\* inherited), init wakes, reaps it, and the clean thread frees it, unless the
\* kernel halts or a thread is switched out between marking itself blocked and
\* releasing its lock: nothing else can stop the chain exit, wait, clean.
InitReaps ==
  [](fault = "none" /\ NoBlockedHolder) =>
    \A p \in Procs : p \in exited[InitProc] ~> pcb[p] = "free"

-----------------------------------------------------------------------------
(* What the comments of the code promise and the code does not keep *)

\* process.c:417 wants the whole of process_exit not to be cut by interrupts;
\* the thread's process pointer is NULL in its second half, so no switch may
\* come back to it there.
NoNullProcessSwitch == fault # "null_process"

\* process.c:483: a parent that waits for the exiting process, or for any
\* child, is woken.
WaitingParentWoken ==
  [](fault = "none") =>
    \A t, u \in UserThreads :
      /\ status[t] = "waiting" /\ self[u] \in children[self[t]]
      /\ pc[u] = "e_self" /\ loc[t] \in {0, self[u]}
      ~> status[t] # "waiting"

\* init.c:13: init is there to reap the zombies, so a process that has told its
\* parent that it exited is in the hands of somebody who can still reap it.
EveryZombieReapable ==
  \A p \in Procs :
    pcb[p] = "exit" =>
      \/ \E t \in Threads : self[t] = p /\ pc[t] \in {"e_par", "e_par2"}
      \/ \E q \in Procs : pcb[q] = "normal" /\ p \in exited[q]
      \/ \E t \in Threads : /\ pc[t] \in {"w_reap", "ap_lock", "ap_put"}
                            /\ loc[t] = p
      \/ Count(dead_processes \o clearing_procs, p) > 0

\* process.c:483: the process is added to the exited children of its parent;
\* the table it is put in is one that its owner still has.
NoFreedTable == fault # "freed_table"
=============================================================================
