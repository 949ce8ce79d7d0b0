------------------------------ MODULE Keyboard ------------------------------
(***************************************************************************)
(* The keyboard driver of src/src/driver/kerboard.c on top of the          *)
(* scheduler: the interrupt handler puts decoded events in a ring buffer   *)
(* and wakes the readers; a reader takes events under a spinlock that      *)
(* turns interrupts off (src/src/sync/spinlock.c) and sleeps when there is *)
(* nothing for it.                                                         *)
(*                                                                         *)
(* With interrupts off a section is one step, and the lock itself needs no *)
(* variable: SINGLE_PROCESSOR (Makefile:27) compiles its flag away.  What  *)
(* can be cut is the code around the section, where the thread's           *)
(* preempt_count and status decide what an interrupt may do, and one       *)
(* section inside: read_keyboard_char_right_now stores the event through   *)
(* the user's pointer, which may be a page not present; the page-fault     *)
(* handler turns interrupts on and yields while the page locks are busy.   *)
(***************************************************************************)
EXTENDS Scheduler, SequencesExt

CONSTANTS
  Keys,        \* raw key codes
  BufSize,     \* KEYBOARD_BUF_SIZE
  MaxEvents    \* bound: events the keyboard sends in a run

ASSUME KeyboardAssumption ==
  /\ Keys # {}
  /\ BufSize \in Nat \ {0}
  /\ MaxEvents \in Nat

Events == [key : Keys, make : BOOLEAN]

VARIABLES
  pc,                        \* where each reader is
  preempt_count,
  wait_tasks,                \* threads blocked for input
  buffer, head, tail, size,  \* keyboard_queue
  key_state,
  loaded,                    \* the number of the event a cut poll has in hand
  accepted, consumed,        \* history: events enqueued, how many are read
  yielded                    \* history: readers that yielded in their section

ringVars == <<buffer, head, tail, size, consumed>>
pollVars == <<loaded, yielded>>
kbdVars  == <<pc, preempt_count, wait_tasks, ringVars, pollVars, key_state,
              accepted>>
vars == <<schedVars, kbdVars>>

Readers == Threads \ {Main}

Labels == {"idle", "user", "r_cli", "r_wait", "r_yield", "r_lock", "r_ret",
           "p_cli", "p_fault"}

TypeOK ==
  /\ SchedTypeOK
  /\ pc \in [Threads -> Labels]
  /\ preempt_count \in [Threads -> 0 .. 1]
  /\ wait_tasks \in Seq(Readers)
  /\ buffer \in [0 .. BufSize - 1 -> Events]
  /\ head \in 0 .. BufSize - 1 /\ tail \in 0 .. BufSize - 1
  /\ size \in 0 .. BufSize
  /\ key_state \in [Keys -> BOOLEAN]
  /\ accepted \in Seq(Events)
  /\ consumed \in 0 .. Len(accepted)
  /\ loaded \in [Threads -> Nat]
  /\ yielded \in SUBSET Readers

\* The readers are user threads, ready to run; whose they are does not matter.
Init ==
  /\ cur = Main
  /\ ready = [i \in 1 .. NThreads - 1 |-> i]
  /\ status = [t \in Threads |-> IF t = Main THEN "running" ELSE "ready"]
  /\ process = [t \in Threads |-> IF t = Main THEN KernelProc ELSE InitProc]
  /\ cr3 = KernelProc
  /\ fault = "none"
  /\ pc = [t \in Threads |-> IF t = Main THEN "idle" ELSE "user"]
  /\ preempt_count = [t \in Threads |-> 0]
  /\ wait_tasks = <<>>
  /\ buffer = [i \in 0 .. BufSize - 1 |->
                [key |-> CHOOSE k \in Keys : TRUE, make |-> FALSE]]
  /\ head = 0 /\ tail = 0 /\ size = 0
  /\ key_state = [k \in Keys |-> FALSE]
  /\ accepted = <<>> /\ consumed = 0
  /\ loaded = [t \in Threads |-> 0] /\ yielded = {}

-----------------------------------------------------------------------------
(* The ring buffer *)

\* Mutant: a wrap that is off by one.
next_queue_short(i) == (i + 1) % (BufSize - 1)

next_queue(i) == (i + 1) % BufSize

Full == size = BufSize

\* A full ring drops the event.
enqueue(e) ==
  IF Full
  THEN UNCHANGED <<buffer, head, tail, size, accepted, consumed>>
  ELSE /\ buffer' = [buffer EXCEPT ![tail] = e]
       /\ tail' = next_queue(tail)
       /\ size' = size + 1
       /\ accepted' = Append(accepted, e)
       /\ UNCHANGED <<head, consumed>>

\* n calls of dequeue.
dequeue(n) ==
  /\ size' = size - n
  /\ head' = (head + n) % BufSize
  /\ consumed' = consumed + n
  /\ UNCHANGED <<buffer, tail>>

\* The i-th event in the ring, from 0.
Slot(i) == buffer[(head + i) % BufSize]

\* read_keyboard_char_impl drops releases up to the first key press: how many
\* events it takes to return a character.
Presses == {i \in 0 .. size - 1 : Slot(i).make}
ToPress == (CHOOSE i \in Presses : \A j \in Presses : i <= j) + 1

-----------------------------------------------------------------------------
(* read_keyboard_char_wait *)

At(t, l) == fault = "none" /\ cur = t /\ pc[t] = l

Goto(t, l) == pc' = [pc EXCEPT ![t] = l]

\* spin_lock_irqsave: disable_preempt, before the cli.
ReadLock(t) ==
  /\ At(t, "user") \/ At(t, "r_lock")
  /\ preempt_count' = [preempt_count EXCEPT ![t] = 1]
  /\ Goto(t, "r_cli")
  /\ UNCHANGED <<schedVars, wait_tasks, ringVars, pollVars, key_state, accepted>>

\* The section, up to the sti of spin_unlock_irqrestore: a character, ...
ReadChar(t) ==
  /\ At(t, "r_cli")
  /\ Presses # {}
  /\ dequeue(ToPress)
  /\ Goto(t, "r_ret")
  /\ UNCHANGED <<schedVars, preempt_count, wait_tasks, pollVars, key_state,
                 accepted>>

\* ... or nothing but releases: queue and block.
ReadBlock(t) ==
  /\ At(t, "r_cli")
  /\ Presses = {}
  /\ dequeue(size)
  /\ wait_tasks' = Append(wait_tasks, t)
  /\ status' = [status EXCEPT ![t] = "waiting"]
  /\ Goto(t, "r_wait")
  /\ UNCHANGED <<cur, ready, process, cr3, fault, preempt_count, pollVars,
                 key_state, accepted>>

\* enable_preempt, the last thing spin_unlock_irqrestore does.
ReadUnlock(t) ==
  /\ \/ At(t, "r_ret") /\ Goto(t, "user")
     \/ At(t, "r_wait") /\ Goto(t, "r_yield")
  /\ preempt_count' = [preempt_count EXCEPT ![t] = 0]
  /\ UNCHANGED <<schedVars, wait_tasks, ringVars, pollVars, key_state, accepted>>

\* schedule_thread_yield; on its return the thread locks again.
ReadYield(t) ==
  /\ At(t, "r_yield")
  /\ schedule_thread_yield
  /\ Goto(t, "r_lock")
  /\ UNCHANGED <<process, preempt_count, wait_tasks, ringVars, pollVars,
                 key_state, accepted>>

-----------------------------------------------------------------------------
(* read_keyboard_char_right_now: one event of any kind, if there is one *)

\* spin_lock_irqsave, as in ReadLock.
PollLock(t) ==
  /\ At(t, "user")
  /\ preempt_count' = [preempt_count EXCEPT ![t] = 1]
  /\ Goto(t, "p_cli")
  /\ UNCHANGED <<schedVars, wait_tasks, ringVars, pollVars, key_state, accepted>>

\* The section when the user's page is present, or there is nothing to store.
PollTake(t) ==
  /\ At(t, "p_cli")
  /\ dequeue(IF size = 0 THEN 0 ELSE 1)
  /\ Goto(t, "r_ret")
  /\ UNCHANGED <<schedVars, preempt_count, wait_tasks, pollVars, key_state,
                 accepted>>

\* The page is not present: the event is loaded, and the store faults before
\* size and head are touched.  The handler turns interrupts on.
PollFault(t) ==
  /\ At(t, "p_cli")
  /\ size > 0
  /\ loaded' = [loaded EXCEPT ![t] = consumed + 1]
  /\ Goto(t, "p_fault")
  /\ UNCHANGED <<schedVars, preempt_count, wait_tasks, ringVars, yielded,
                 key_state, accepted>>

\* map_page finds a page lock held by a thread that was preempted in its own
\* page fault, and yields: schedule_thread_yield looks at no preempt_count.
PollSpin(t) ==
  /\ At(t, "p_fault")
  /\ \E u \in Readers \ {t} : pc[u] \in {"user", "p_fault"}
  /\ schedule_thread_yield
  /\ yielded' = yielded \cup {t}
  /\ UNCHANGED <<process, pc, preempt_count, wait_tasks, ringVars, loaded,
                 key_state, accepted>>

\* The page is mapped; the return from the fault turns interrupts off again,
\* the loaded event is stored and the ring as it is now loses its head.
PollStored(t) ==
  /\ At(t, "p_fault")
  /\ size > 0
  /\ dequeue(1)
  /\ loaded' = [loaded EXCEPT ![t] = 0]
  /\ yielded' = yielded \ {t}
  /\ Goto(t, "r_ret")
  /\ UNCHANGED <<schedVars, preempt_count, wait_tasks, key_state, accepted>>

\* As PollStored, from a ring that others have emptied in the meantime: size
\* becomes -1, and what the ring then holds is not represented.
PollUnderflow(t) ==
  /\ At(t, "p_fault")
  /\ size = 0
  /\ fault' = "ring_underflow"
  /\ UNCHANGED <<cur, ready, status, process, cr3, kbdVars>>

-----------------------------------------------------------------------------
(* Interrupts: they find preempt_count > 0 or may switch *)

\* Mutant: preempt_count is not looked at.
RescheduleAlways(st, rd) ==
  IF rd = <<>>
  THEN status' = st /\ ready' = rd /\ UNCHANGED <<cur, cr3, fault>>
  ELSE do_context_switch(st, rd)

\* schedule at interrupt_exit, from the statuses and the queue of the handler.
Reschedule(st, rd) ==
  IF preempt_count[cur] > 0 \/ rd = <<>>
  THEN status' = st /\ ready' = rd /\ UNCHANGED <<cur, cr3, fault>>
  ELSE do_context_switch(st, rd)

\* Mutants: the handler wakes one reader, or none.
WakesOne == SubSeq(wait_tasks, 1, IF wait_tasks = <<>> THEN 0 ELSE 1)
WakesNone == <<>>

\* linked_list_move(&get_wait_tasks, &wait_tasks)
Wakes == wait_tasks

\* keyboard_interrupt_handler with a decoded event: the key's state, the ring,
\* and every blocked reader to the head of the ready queue, one by one.
keyboard_interrupt_handler(e) ==
  /\ fault = "none"
  /\ Len(accepted) < MaxEvents
  /\ key_state' = [key_state EXCEPT ![e.key] = e.make]
  /\ enqueue(e)
  /\ wait_tasks' = SubSeq(wait_tasks, Len(Wakes) + 1, Len(wait_tasks))
  /\ Reschedule(Woken(status, Wakes), Reverse(Wakes) \o ready)
  /\ UNCHANGED <<process, pc, preempt_count, pollVars>>

\* The timer, or a scancode that completes no event.
Preempt ==
  /\ fault = "none"
  /\ preempt_count[cur] = 0
  /\ schedule
  /\ UNCHANGED <<process, kbdVars>>

\* The idle loop; and nothing after an underflow.
Idle == (At(Main, "idle") \/ fault # "none") /\ UNCHANGED vars

-----------------------------------------------------------------------------
\* The steps of a call that has begun.
ReadStep(t) == \/ At(t, "r_lock") /\ ReadLock(t)
               \/ ReadChar(t) \/ ReadBlock(t) \/ ReadUnlock(t) \/ ReadYield(t)
               \/ PollTake(t) \/ PollFault(t) \/ PollStored(t)
               \/ PollUnderflow(t)

ReadCall(t) == At(t, "user") /\ ReadLock(t)

Next ==
  \/ \E t \in Readers :
       ReadCall(t) \/ PollLock(t) \/ ReadStep(t) \/ PollSpin(t)
  \/ \E e \in Events : keyboard_interrupt_handler(e)
  \/ Preempt
  \/ Idle

Spec == Init /\ [][Next]_vars

\* Slices are long enough for a step, the timer does not stop, and a page lock
\* does not stay busy: its holder was preempted, and runs again.
Fairness == WF_vars(Preempt) /\ \A t \in Readers : SF_vars(ReadStep(t))

FairSpec == Spec /\ Fairness

-----------------------------------------------------------------------------
\* The ring holds exactly the accepted events that nobody has taken off it, in
\* the order they were typed, across wrap-around, full and empty rings, readers
\* that take several at once (read_keyboard_char_impl) and polls that are cut
\* between their look at the ring and its update.
RingIsFifo ==
  [i \in 1 .. size |-> Slot(i - 1)]
    = SubSeq(accepted, consumed + 1, Len(accepted))

\* A reader asleep for input is queued for the handler once, and there is no
\* key press it should have returned: the interrupt cannot slip in between its
\* look at the ring and its sleep.
NoMissedKey ==
  \A t \in Readers :
    status[t] = "waiting" =>
      /\ Cardinality({i \in DOMAIN wait_tasks : wait_tasks[i] = t}) = 1
      /\ Presses = {}

\* A reader's node is in one list only, also when the handler wakes the reader
\* before it has given the CPU away: a second link would corrupt both lists.
OneQueue ==
  \A t \in Readers :
    Cardinality({i \in DOMAIN ready : ready[i] = t})
      + Cardinality({i \in DOMAIN wait_tasks : wait_tasks[i] = t})
      = CASE status[t] \in {"ready", "waiting"} -> 1
          [] OTHER -> 0

\* A thread leaves the CPU with preemption off only by the yield of a page fault
\* inside its poll; and a poll that did not yield hands out the event it takes
\* off the ring, whatever interrupts came while the page was mapped.
SectionKept ==
  \A t \in Threads :
    /\ t # cur /\ preempt_count[t] > 0 => t \in yielded
    /\ pc[t] = "p_fault" /\ t \notin yielded => loaded[t] = consumed + 1

\* Refuted by PollSpin: every poll hands out the event it takes off the ring.
\* When the poll yields in its page fault another reader takes the same event,
\* and the poll then drops one that nobody has seen, or takes size below 0.
PollExact ==
  \A t \in Readers : pc[t] = "p_fault" => loaded[t] = consumed + 1

\* A reader in the call gets a character, or somebody else took what there was.
ReaderServed ==
  \A t \in Readers :
    pc[t] \in {"r_lock", "r_cli", "r_wait", "r_yield"} /\ Presses # {}
      ~> pc[t] = "r_ret" \/ Presses = {}
=============================================================================
