-------------------------------- MODULE Exec --------------------------------
(***************************************************************************)
(* process_exec (src/src/task/process.c) under the scheduler, and the page *)
(* faults it takes in kernel mode.  After the program file is read, exec   *)
(* turns interrupts off and replaces the address space of its process; the *)
(* kernel heap and the user pages it touches meanwhile are mapped on first *)
(* use, and pagefault_handler (src/src/mem/page.c) turns interrupts on.    *)
(*                                                                         *)
(* Every thread runs a process of its own that executes programs over and  *)
(* over.  A step is the code between two points where another thread can   *)
(* run: any instruction with interrupts on, a yield on the busy            *)
(* phy_frames_map_lock with interrupts off.  page_dir_lock and the lock of *)
(* the process have no second user here and are left out, and so is the    *)
(* panic on a file that is no ELF program.                                 *)
(***************************************************************************)
EXTENDS Scheduler

VARIABLES
  pc,               \* where each thread is in process_exec
  infault,          \* where it is in pagefault_handler, "no" outside
  need_reschedule,  \* tcb_t.need_reschedule
  phy_lock,         \* phy_frames_map_lock.hold
  space             \* what the user space of each process holds

execVars == <<pc, infault, phy_lock, space>>
vars == <<schedVars, need_reschedule, execVars>>

Users == Threads \ {Main}

Labels == {"idle", "user", "read", "args", "drop", "stack", "load", "jump"}

TypeOK ==
  /\ SchedTypeOK
  /\ pc \in [Threads -> Labels]
  /\ infault \in [Threads -> {"no", "lock", "alloc", "exit"}]
  /\ need_reschedule \in [Threads -> BOOLEAN]
  /\ phy_lock \in BOOLEAN
  /\ space \in [Procs -> {"program", "empty", "stack"}]

\* Thread t runs process t, so NProcs is at least NThreads.
Init ==
  /\ cur = Main
  /\ ready = [i \in 1 .. NThreads - 1 |-> i]
  /\ status = [t \in Threads |-> IF t = Main THEN "running" ELSE "ready"]
  /\ process = [t \in Threads |-> t]
  /\ cr3 = KernelProc
  /\ fault = "none"
  /\ pc = [t \in Threads |-> IF t = Main THEN "idle" ELSE "user"]
  /\ infault = [t \in Threads |-> "no"]
  /\ need_reschedule = [t \in Threads |-> FALSE]
  /\ phy_lock = FALSE
  /\ space = [p \in Procs |-> "program"]

-----------------------------------------------------------------------------
At(t, l) == cur = t /\ pc[t] = l /\ infault[t] = "no"

Goto(t, l) == pc' = [pc EXCEPT ![t] = l]

\* EFLAGS.IF of thread t: user mode and the reading of the file run with
\* interrupts on, the rest of exec with interrupts off, and a fault turns them
\* on until its iret.
InterruptsOn(t) == pc[t] \in {"idle", "user", "read"} \/ infault[t] # "no"

\* A switch; do_context_switch resets the old thread's need_reschedule.
Switch ==
  /\ schedule_thread_yield
  /\ need_reschedule' = [need_reschedule EXCEPT ![cur] = FALSE]
  /\ UNCHANGED process

\* schedule, at interrupt_exit, when the thread's flag is need.
Schedule(need) ==
  IF need /\ ready # <<>>
  THEN Switch
  ELSE /\ need_reschedule' = [need_reschedule EXCEPT ![cur] = need]
       /\ UNCHANGED schedVars

\* yieldlock_lock found phy_frames_map_lock taken.
Spin == phy_lock /\ Switch /\ UNCHANGED execVars

\* A timer interrupt that ends the slice of the current thread.
timer_callback ==
  /\ InterruptsOn(cur)
  /\ Schedule(TRUE)
  /\ UNCHANGED execVars

-----------------------------------------------------------------------------
(* pagefault_handler on a page that is not present *)

\* The first touch of a user page, or of a heap page that kmalloc handed out:
\* enable_interrupt.
PageFault(t) ==
  /\ \E l \in {"user", "read", "args", "load"} : At(t, l)
  /\ infault' = [infault EXCEPT ![t] = "lock"]
  /\ UNCHANGED <<schedVars, need_reschedule, pc, phy_lock, space>>

\* map_page: alloc_phy_frame takes phy_frames_map_lock ...
FaultLock(t) ==
  /\ cur = t /\ infault[t] = "lock"
  /\ \/ /\ ~phy_lock
        /\ phy_lock' = TRUE
        /\ infault' = [infault EXCEPT ![t] = "alloc"]
        /\ UNCHANGED <<schedVars, need_reschedule, pc, space>>
     \/ Spin

\* ... and releases it with a frame.
FaultUnlock(t) ==
  /\ cur = t /\ infault[t] = "alloc"
  /\ phy_lock' = FALSE
  /\ infault' = [infault EXCEPT ![t] = "exit"]
  /\ UNCHANGED <<schedVars, need_reschedule, pc, space>>

\* interrupt_exit: schedule, and an iret to the code that faulted.
FaultReturn(t) ==
  /\ cur = t /\ infault[t] = "exit"
  /\ infault' = [infault EXCEPT ![t] = "no"]
  /\ Schedule(need_reschedule[t])
  /\ UNCHANGED <<pc, phy_lock, space>>

-----------------------------------------------------------------------------
(* process_exec *)

\* stat_file and read_file into a new buffer, with interrupts on.
ExecCall(t) ==
  /\ At(t, "user")
  /\ Goto(t, "read")
  /\ UNCHANGED <<schedVars, need_reschedule, infault, phy_lock, space>>

\* The file is not there, or could not be read: -1.
ExecFail(t) ==
  /\ At(t, "read")
  /\ Goto(t, "user")
  /\ UNCHANGED <<schedVars, need_reschedule, infault, phy_lock, space>>

\* disable_interrupt
ExecCli(t) ==
  /\ At(t, "read")
  /\ Goto(t, "args")
  /\ UNCHANGED <<schedVars, need_reschedule, infault, phy_lock, space>>

\* copy_str_array and the copy of the path, to the kernel heap.
ExecArgs(t) ==
  /\ At(t, "args")
  /\ Goto(t, "drop")
  /\ UNCHANGED <<schedVars, need_reschedule, infault, phy_lock, space>>

\* release_user_space_pages: a release_phy_frame for every page.
ExecDrop(t) ==
  /\ At(t, "drop")
  /\ \/ /\ ~phy_lock
        /\ space' = [space EXCEPT ![process[t]] = "empty"]
        /\ Goto(t, "stack")
        /\ UNCHANGED <<schedVars, need_reschedule, infault, phy_lock>>
     \/ Spin

\* map_page for the first page of the new stack.
ExecStack(t) ==
  /\ At(t, "stack")
  /\ \/ /\ ~phy_lock
        /\ space' = [space EXCEPT ![process[t]] = "stack"]
        /\ Goto(t, "load")
        /\ UNCHANGED <<schedVars, need_reschedule, infault, phy_lock>>
     \/ Spin

\* prepare_user_stack and load_elf.
ExecLoad(t) ==
  /\ At(t, "load")
  /\ space' = [space EXCEPT ![process[t]] = "program"]
  /\ Goto(t, "jump")
  /\ UNCHANGED <<schedVars, need_reschedule, infault, phy_lock>>

\* The jump to interrupt_exit, which schedules and returns to user mode.
ExecJump(t) ==
  /\ At(t, "jump")
  /\ Goto(t, "user")
  /\ Schedule(need_reschedule[t])
  /\ UNCHANGED <<infault, phy_lock, space>>

-----------------------------------------------------------------------------
Idle == At(Main, "idle") /\ UNCHANGED vars

Next ==
  \/ \E t \in Users :
       \/ PageFault(t) \/ FaultLock(t) \/ FaultUnlock(t) \/ FaultReturn(t)
       \/ ExecCall(t) \/ ExecFail(t) \/ ExecCli(t) \/ ExecArgs(t)
       \/ ExecDrop(t) \/ ExecStack(t) \/ ExecLoad(t) \/ ExecJump(t)
  \/ timer_callback
  \/ Idle

Spec == Init /\ [][Next]_vars

-----------------------------------------------------------------------------
\* process.c:121: interrupts are off so that the scheduler does not intervene
\* while the user page tables are cleared: a thread whose process has no
\* complete address space is the one that runs.
ExecUncut ==
  \A t \in Users : space[process[t]] # "program" => t = cur
=============================================================================
