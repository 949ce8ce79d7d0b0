----------------------------- MODULE Scheduler -----------------------------
(***************************************************************************)
(* The round-robin scheduler of src/src/task/scheduler.c: one CPU, one     *)
(* FIFO ready queue, an idle thread that is queued only when nothing else  *)
(* is, and the page-directory switch that goes with a context switch.      *)
(*                                                                         *)
(* The module holds the scheduler's state and its operations.  The         *)
(* operations are action operators: they say what happens to the           *)
(* scheduler's variables, and the module that calls them (Process) adds    *)
(* what happens to the caller's.                                           *)
(***************************************************************************)
EXTENDS Naturals, Integers, Sequences, FiniteSets

CONSTANTS NThreads,   \* size of the thread id pool (2048 in thread.c)
          NProcs      \* size of the process id pool (PROCESS_NUM in process.c)

ASSUME SizeAssumption == /\ NThreads \in Nat /\ NThreads >= 3
                         /\ NProcs \in Nat /\ NProcs >= 2

Threads == 0 .. NThreads - 1
Procs   == 0 .. NProcs - 1

\* Boot allocates the ids in this order, so they are the same on every run.
Main       == 0     \* the idle thread, kernel_main_thread
Clean      == 1     \* kernel_clean_thread
InitThread == 2     \* the thread of the init process
KernelProc == 0     \* main_process, which owns Main and Clean
InitProc   == 1     \* init_process

NULL == -1

Status == {"none", "ready", "running", "waiting", "dead"}

\* What ends a run: Panic, a failed Assert, a use of freed memory, or a count
\* that has run below zero.
Faults == {"none", "null_process", "fork_null", "no_thread_id",
           "use_after_free", "freed_table", "not_a_child", "no_parent",
           "ring_underflow"}

VARIABLES
  cur,        \* crt_thread_node
  ready,      \* ready_tasks
  status,     \* tcb_t.status; "none" is a tcb that is not allocated
  process,    \* tcb_t.process
  cr3,        \* the process whose page directory the CPU uses
  fault       \* why the kernel halted

schedVars == <<cur, ready, status, process, cr3, fault>>

SchedTypeOK ==
  /\ cur \in Threads
  /\ ready \in Seq(Threads)
  /\ status \in [Threads -> Status]
  /\ process \in [Threads -> Procs \cup {NULL}]
  /\ cr3 \in Procs
  /\ fault \in Faults

-----------------------------------------------------------------------------
(* init_scheduler and kernel_main_thread, at the moment interrupts are     *)
(* enabled: Main runs, the clean thread and init are queued.               *)

SchedInit ==
  /\ cur = Main
  /\ ready = <<Clean, InitThread>>
  /\ status = [t \in Threads |-> CASE t = Main -> "running"
                                   [] t \in {Clean, InitThread} -> "ready"
                                   [] OTHER -> "none"]
  /\ process = [t \in Threads |-> CASE t \in {Main, Clean} -> KernelProc
                                    [] t = InitThread -> InitProc
                                    [] OTHER -> NULL]
  /\ cr3 = KernelProc
  /\ fault = "none"

(***************************************************************************)
(* do_context_switch, from the statuses st and the queue rd.  The idle     *)
(* thread is queued when nobody is; the old thread is requeued only if it  *)
(* is still RUNNING and is not the idle thread; the head of the queue runs *)
(* next.  A next thread of another process has its page directory loaded,  *)
(* and process_switch reads it through tcb->process: a NULL there is a     *)
(* page fault below 0x1000, which panics.  Nothing runs after that, so the *)
(* half-made switch is not represented.                                    *)
(***************************************************************************)
RunQueue(rd) == IF rd = <<>> THEN <<Main>> ELSE rd

\* Mutant: the status of the old thread is not looked at.
RequeuesAlways(st) == cur # Main

Requeues(st) == st[cur] = "running" /\ cur # Main

NextQueue(st, rd) ==
  IF Requeues(st) THEN Append(RunQueue(rd), cur) ELSE RunQueue(rd)

SwitchStatus(st, next) ==
  [t \in Threads |-> CASE t = next -> "running"
                       [] t = cur /\ t # next /\ Requeues(st) -> "ready"
                       [] OTHER -> st[t]]

\* Mutant: no page directory is loaded after a thread without a process.
process_switch_guarded(next) ==
  IF process[cur] \in {process[next], NULL} THEN cr3 ELSE process[next]

\* The page directory after the switch.
process_switch(next) ==
  IF process[next] # process[cur] THEN process[next] ELSE cr3

do_context_switch(st, rd) ==
  LET next == Head(RunQueue(rd)) IN
  IF process[next] # process[cur] /\ process[next] = NULL
  THEN /\ fault' = "null_process"
       /\ UNCHANGED <<cur, ready, status, cr3>>
  ELSE /\ cur' = next
       /\ ready' = Tail(NextQueue(st, rd))
       /\ status' = SwitchStatus(st, next)
       /\ cr3' = process_switch(next)
       /\ UNCHANGED fault

\* schedule_thread_yield: the switch, by a thread that keeps its status.
schedule_thread_yield == do_context_switch(status, ready)

\* schedule, called when an interrupt returns: a switch only if someone waits.
schedule ==
  /\ ready # <<>>
  /\ do_context_switch(status, ready)

\* add_thread_node_to_schedule for each thread of the queue ts, in order.
Woken(st, ts) ==
  [t \in Threads |-> IF \E i \in 1 .. Len(ts) : ts[i] = t /\ st[t] # "dead"
                     THEN "ready" ELSE st[t]]

add_thread_nodes_to_schedule(ts) ==
  /\ status' = Woken(status, ts)
  /\ ready' = ready \o ts
=============================================================================
