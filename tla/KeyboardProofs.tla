--------------------------- MODULE KeyboardProofs ---------------------------
(***************************************************************************)
(* Theorems about Keyboard, for every number of readers, every set of keys *)
(* and every size of the ring.                                             *)
(***************************************************************************)
EXTENDS Keyboard, SchedulerProofs, WellFoundedInduction

\* The ring, in the order of its history: event k, counted from 0, is at
\* k modulo the size of the ring.
RingInv ==
  /\ size = Len(accepted) - consumed
  /\ head = consumed % BufSize
  /\ tail = Len(accepted) % BufSize
  /\ \A k \in consumed .. Len(accepted) - 1 :
       buffer[k % BufSize] = accepted[k + 1]

\* Every thread is where its status says, and a switch never meets a thread
\* without a process.
QueueInv ==
  /\ fault # "null_process"
  /\ \A t \in Threads : process[t] # NULL
  /\ status[Main] = "running"
  /\ ReadyQueue(status, ready)
  /\ Distinct(wait_tasks)
  /\ \A t \in Threads : In(wait_tasks, t) <=> status[t] = "waiting"

\* Preemption is off exactly around the sections; a thread that is on the CPU
\* and no longer RUNNING is between its section and its yield.
Section == {"r_cli", "r_wait", "r_ret", "p_cli", "p_fault"}

PreemptInv ==
  /\ \A t \in Threads : preempt_count[t] = IF pc[t] \in Section THEN 1 ELSE 0
  /\ \A t \in Threads : t # cur /\ preempt_count[t] > 0 => t \in yielded
  /\ status[cur] # "running" => pc[cur] \in {"r_wait", "r_yield"}
  /\ pc[Main] = "idle"

\* A reader yields in its section only while its page is mapped, and one that
\* did not yield has the head of the ring in hand.
PollInv ==
  /\ \A t \in yielded : pc[t] = "p_fault"
  /\ \A t \in Threads :
       pc[t] = "p_fault" /\ t \notin yielded => loaded[t] = consumed + 1

\* Nobody sleeps while a key press is unread.
SleepInv ==
  \A t \in Threads : status[t] = "waiting" =>
    \A k \in consumed .. Len(accepted) - 1 : ~accepted[k + 1].make

KbdInv == TypeOK /\ RingInv /\ QueueInv /\ PreemptInv /\ PollInv /\ SleepInv

-----------------------------------------------------------------------------
(* The arithmetic of the ring *)

\* A nonempty set of numbers has a least one.
LEMMA LeastNat ==
  ASSUME NEW S \in SUBSET Nat, S # {}
  PROVE  \E m \in S : \A k \in S : m <= k
<1> DEFINE R == OpToRel(<, Nat)
<1>1. IsWellFoundedOn(R, Nat) BY NatLessThanWellFounded, Zenon
<1>2. \A x, y \in Nat : x < y => <<x, y>> \in R BY DEF OpToRel
<1> HIDE DEF R
<1>3. \E x \in S : \A y \in S : ~ (<<y, x>> \in R) BY <1>1, WFMin, Zenon
<1>4. PICK x \in S : \A y \in S : ~ (<<y, x>> \in R) BY <1>3
<1>5. ASSUME NEW k \in S, k < x PROVE FALSE
  <2>1. k \in Nat /\ x \in Nat OBVIOUS
  <2>2. <<k, x>> \in R BY <1>2, <1>5, <2>1, Zenon
  <2> QED BY <1>4, <2>2, Zenon
<1>6. \A k \in S : x <= k BY <1>5
<1> QED BY <1>6

\* A number is one quotient and one remainder.
LEMMA Remainder ==
  ASSUME NEW b \in Nat \ {0}, NEW q \in Int, NEW r \in 0 .. b - 1,
         NEW a \in Nat, a = b * q + r
  PROVE  a % b = r
<1> DEFINE p == a \div b  m == a % b
<1>1. p \in Nat /\ m \in 0 .. b - 1 /\ a = b * p + m OBVIOUS
<1> HIDE DEF p, m
<1> DEFINE d == q - p
<1>2. d \in Int /\ b * d = m - r
  <2>1. b * (q - p) = b * q - b * p BY <1>1
  <2>2. b * q \in Int /\ b * p \in Int BY <1>1
  <2> QED BY <1>1, <2>1, <2>2
<1>3. d = 0
  <2> HIDE DEF d
  <2>1. CASE d >= 1
    <3>1. PICK e \in Nat : d = e + 1 BY <1>2, <2>1
    <3>2. b * d = b * e + b /\ b * e \in Nat BY <3>1
    <3> QED BY <1>1, <1>2, <3>2
  <2>2. CASE d <= -1
    <3>1. PICK e \in Nat : d = -(e + 1) BY <1>2, <2>2
    <3>2. b * d = -(b * e) - b /\ b * e \in Nat BY <3>1
    <3> QED BY <1>1, <1>2, <3>2
  <2> QED BY <1>2, <2>1, <2>2
<1>4. b * d = 0 BY <1>3
<1>5. m = r
  <2> HIDE DEF d
  <2> QED BY <1>1, <1>2, <1>4
<1> QED BY <1>5 DEF m

\* next_queue, n times.
LEMMA ModStep ==
  ASSUME NEW a \in Nat, NEW n \in Nat, NEW b \in Nat \ {0}
  PROVE  ((a % b) + n) % b = (a + n) % b
<1> DEFINE q == a \div b  r == a % b  c == r + n  p == c \div b  m == c % b
<1>1. q \in Nat /\ r \in 0 .. b - 1 /\ a = b * q + r OBVIOUS
<1>2. c \in Nat BY <1>1
<1>3. p \in Nat /\ m \in 0 .. b - 1 /\ c = b * p + m
  <2> HIDE DEF c
  <2> QED BY <1>2
<1>4. a + n = b * (q + p) + m
  <2>1. c = r + n OBVIOUS
  <2> HIDE DEF q, r, c, p, m
  <2>2. b * (q + p) = b * q + b * p BY <1>1, <1>3
  <2>3. b * q \in Nat /\ b * p \in Nat BY <1>1, <1>3
  <2> QED BY <1>1, <1>3, <2>1, <2>2, <2>3
<1>5. (a + n) % b = m
  <2> HIDE DEF q, m, p, r, c
  <2> DEFINE d == q + p  e == a + n
  <2>1. d \in Int /\ e \in Nat /\ e = b * d + m BY <1>1, <1>3, <1>4
  <2>2. e % b = m
    <3> HIDE DEF d, e
    <3> QED BY <1>3, <2>1, Remainder
  <2> QED BY <2>2
<1> QED BY <1>5

\* Slots of different events that are less than a ring apart are different.
LEMMA ModApart ==
  ASSUME NEW a \in Nat, NEW c \in Nat, NEW b \in Nat \ {0},
         a < c, c - a < b
  PROVE  a % b # c % b
<1> SUFFICES ASSUME a % b = c % b PROVE FALSE OBVIOUS
<1> DEFINE r == a % b  q == a \div b  p == c \div b
<1>1. q \in Nat /\ r \in 0 .. b - 1 /\ a = b * q + r OBVIOUS
<1>2. p \in Nat /\ c = b * p + r OBVIOUS
<1> HIDE DEF r, q, p
<1>3. b * (p - q) = c - a
  <2>1. b * (p - q) = b * p - b * q BY <1>1, <1>2
  <2>2. b * p \in Nat /\ b * q \in Nat BY <1>1, <1>2
  <2> QED BY <1>1, <1>2, <2>1, <2>2
<1>4. CASE p - q >= 1
  <2>1. PICK e \in Nat : p - q = e + 1 BY <1>1, <1>2, <1>4
  <2>2. b * (p - q) = b * e + b /\ b * e \in Nat BY <2>1
  <2> QED BY <1>3, <2>2
<1>5. CASE p - q <= 0
  <2>1. PICK e \in Nat : p - q = -e BY <1>1, <1>2, <1>5
  <2>2. b * (p - q) = -(b * e) /\ b * e \in Nat BY <2>1
  <2> QED BY <1>3, <2>2
<1> QED BY <1>1, <1>2, <1>4, <1>5

-----------------------------------------------------------------------------
(* The ring *)

RingTypeOK ==
  /\ buffer \in [0 .. BufSize - 1 -> Events]
  /\ head \in 0 .. BufSize - 1 /\ tail \in 0 .. BufSize - 1
  /\ size \in 0 .. BufSize
  /\ accepted \in Seq(Events)
  /\ consumed \in 0 .. Len(accepted)

\* Slot i of the ring holds the event that was accepted i after the last one
\* read.
LEMMA SlotIsEvent ==
  ASSUME RingTypeOK, RingInv, NEW i \in 0 .. size - 1
  PROVE  Slot(i) = accepted[consumed + i + 1]
<1>1. BufSize \in Nat \ {0} BY KeyboardAssumption
<1>2. /\ consumed \in Nat /\ i \in Nat /\ Len(accepted) \in Nat
      /\ consumed + i \in consumed .. Len(accepted) - 1
  BY <1>1 DEF RingTypeOK, RingInv
<1>3. (head + i) % BufSize = (consumed + i) % BufSize
  BY <1>1, <1>2, ModStep DEF RingInv
<1>4. \A k \in consumed .. Len(accepted) - 1 :
        buffer[k % BufSize] = accepted[k + 1]
  BY DEF RingInv
<1> QED BY <1>2, <1>3, <1>4 DEF Slot

\* The presses in the ring are those of the events not yet read.
LEMMA PressesUnread ==
  ASSUME RingTypeOK, RingInv
  PROVE  Presses = {} <=>
           \A k \in consumed .. Len(accepted) - 1 : ~accepted[k + 1].make
<1>1. /\ consumed \in Nat /\ Len(accepted) \in Nat /\ size \in Nat
      /\ size = Len(accepted) - consumed
  BY KeyboardAssumption DEF RingTypeOK, RingInv
<1>2. ASSUME Presses = {}, NEW k \in consumed .. Len(accepted) - 1
      PROVE  ~accepted[k + 1].make
  <2>1. k - consumed \in 0 .. size - 1 /\ consumed + (k - consumed) + 1 = k + 1
    BY <1>1
  <2>2. ~Slot(k - consumed).make BY <1>2, <2>1 DEF Presses
  <2>3. Slot(k - consumed) = accepted[consumed + (k - consumed) + 1]
    BY <2>1, SlotIsEvent
  <2> QED BY <2>1, <2>2, <2>3
<1>3. ASSUME \A k \in consumed .. Len(accepted) - 1 : ~accepted[k + 1].make,
             NEW i \in Presses
      PROVE  FALSE
  <2>1. i \in 0 .. size - 1 /\ Slot(i).make BY DEF Presses
  <2>2. Slot(i) = accepted[consumed + i + 1] BY <2>1, SlotIsEvent
  <2>3. consumed + i \in consumed .. Len(accepted) - 1 BY <1>1, <2>1
  <2> QED BY <1>3, <2>1, <2>2, <2>3
<1> QED BY <1>2, <1>3

\* What read_keyboard_char_impl takes is in the ring.
LEMMA ToPressBound ==
  ASSUME RingTypeOK, Presses # {}
  PROVE  ToPress \in 1 .. size
<1> DEFINE Least(i) == \A j \in Presses : i <= j
           c == CHOOSE i \in Presses : Least(i)
<1>1. Presses \in SUBSET Nat BY KeyboardAssumption DEF Presses, RingTypeOK
<1>2. \E i \in Presses : Least(i) BY <1>1, LeastNat
<1>3. c \in Presses BY <1>2
<1>4. c \in 0 .. size - 1 BY <1>3 DEF Presses
<1>5. size \in Nat BY KeyboardAssumption DEF RingTypeOK
<1>6. ToPress = c + 1 BY DEF ToPress
<1> HIDE DEF c
<1> QED BY <1>4, <1>5, <1>6

\* n events read.
LEMMA DequeueStep ==
  ASSUME RingTypeOK, RingInv, NEW n \in 0 .. size, dequeue(n),
         accepted' = accepted
  PROVE  /\ RingTypeOK' /\ RingInv'
         /\ consumed' = consumed + n /\ consumed' >= consumed
<1>1. BufSize \in Nat \ {0} BY KeyboardAssumption
<1>2. /\ consumed \in Nat /\ Len(accepted) \in Nat /\ n \in Nat
      /\ size = Len(accepted) - consumed /\ size \in Nat
  BY <1>1 DEF RingTypeOK, RingInv
<1>3. /\ size' = size - n /\ head' = (head + n) % BufSize
      /\ consumed' = consumed + n /\ UNCHANGED <<buffer, tail>>
  BY DEF dequeue
<1>4. head' = (consumed + n) % BufSize
  BY <1>1, <1>2, <1>3, ModStep DEF RingInv
<1>5. head' \in 0 .. BufSize - 1
  <2>1. consumed + n \in Nat BY <1>2
  <2> QED BY <1>1, <1>4, <2>1
<1>6. RingTypeOK' BY <1>1, <1>2, <1>3, <1>5 DEF RingTypeOK
<1>7. consumed' .. Len(accepted) - 1 \subseteq consumed .. Len(accepted) - 1
  BY <1>2, <1>3
<1>8. RingInv' BY <1>2, <1>3, <1>4, <1>7 DEF RingInv
<1> QED BY <1>2, <1>3, <1>6, <1>8

\* One event stored, or dropped by a full ring.
LEMMA EnqueueStep ==
  ASSUME RingTypeOK, RingInv, NEW e \in Events, enqueue(e)
  PROVE  RingTypeOK' /\ RingInv'
<1>1. BufSize \in Nat \ {0} BY KeyboardAssumption
<1>2. /\ consumed \in Nat /\ Len(accepted) \in Nat
      /\ size = Len(accepted) - consumed /\ size \in Nat
  BY <1>1 DEF RingTypeOK, RingInv
<1>3. CASE Full BY <1>3 DEF enqueue, RingTypeOK, RingInv
<1>4. CASE ~Full
  <2>1. /\ buffer' = [buffer EXCEPT ![tail] = e]
        /\ tail' = (tail + 1) % BufSize /\ size' = size + 1
        /\ accepted' = Append(accepted, e) /\ UNCHANGED <<head, consumed>>
    BY <1>4 DEF enqueue, next_queue
  <2>2. /\ accepted' \in Seq(Events) /\ Len(accepted') = Len(accepted) + 1
        /\ accepted'[Len(accepted) + 1] = e
        /\ \A i \in 1 .. Len(accepted) : accepted'[i] = accepted[i]
    BY <2>1 DEF RingTypeOK
  <2>3. size < BufSize BY <1>1, <1>4 DEF Full, RingTypeOK
  <2>4. tail' = Len(accepted') % BufSize
    <3>1. ((Len(accepted) % BufSize) + 1) % BufSize = (Len(accepted) + 1) % BufSize
      BY <1>1, <1>2, ModStep
    <3>2. tail = Len(accepted) % BufSize BY DEF RingInv
    <3> QED BY <2>1, <2>2, <3>1, <3>2
  <2>5. tail' \in 0 .. BufSize - 1
    <3>1. Len(accepted) + 1 \in Nat BY <1>2
    <3> QED BY <1>1, <2>2, <2>4, <3>1
  <2>6. RingTypeOK'
    BY <1>1, <1>2, <2>1, <2>2, <2>3, <2>5 DEF RingTypeOK
  <2>7. ASSUME NEW k \in consumed .. Len(accepted)
        PROVE  buffer'[k % BufSize] = accepted'[k + 1]
    <3>1. k % BufSize \in 0 .. BufSize - 1 BY <1>1, <1>2
    <3>2. CASE k = Len(accepted)
      BY <2>1, <2>2, <3>1, <3>2 DEF RingInv, RingTypeOK
    <3>3. CASE k # Len(accepted)
      <4>1. k < Len(accepted) /\ Len(accepted) - k < BufSize /\ k \in Nat
        BY <1>1, <1>2, <2>3, <3>3
      <4>2. k % BufSize # tail
        BY <1>1, <1>2, <4>1, ModApart DEF RingInv
      <4>3. buffer'[k % BufSize] = buffer[k % BufSize]
        BY <2>1, <3>1, <4>2 DEF RingTypeOK
      <4>4. k \in consumed .. Len(accepted) - 1 BY <1>2, <4>1
      <4>5. buffer[k % BufSize] = accepted[k + 1] BY <4>4 DEF RingInv
      <4>6. accepted'[k + 1] = accepted[k + 1] BY <1>2, <2>2, <4>1
      <4> QED BY <4>3, <4>5, <4>6
    <3> QED BY <3>2, <3>3
  <2>8. consumed' .. Len(accepted') - 1 = consumed .. Len(accepted)
    BY <1>2, <2>1, <2>2
  <2>9. RingInv'
    <3>1. size' = Len(accepted') - consumed' /\ head' = consumed' % BufSize
      BY <1>2, <2>1, <2>2 DEF RingInv
    <3>2. \A k \in consumed' .. Len(accepted') - 1 :
            buffer'[k % BufSize] = accepted'[k + 1]
      BY <2>7, <2>8
    <3> QED BY <2>4, <3>1, <3>2 DEF RingInv
  <2> QED BY <2>6, <2>9
<1> QED BY <1>3, <1>4

-----------------------------------------------------------------------------
(* The steps *)

\* The idle thread and the readers are threads.
LEMMA MainThread == Main \in Threads /\ Readers \subseteq Threads
  BY SizeAssumption DEF Main, Threads, Readers

\* A switch from statuses st and queue rd that differ from the present ones
\* only in who is READY.
LEMMA KbdSwitch ==
  ASSUME TypeOK, fault # "null_process", \A t \in Threads : process[t] # NULL,
         NEW st \in [Threads -> Status], NEW rd \in Seq(Threads),
         ReadyQueue(st, rd), st[Main] = "running", do_context_switch(st, rd),
         UNCHANGED process
  PROVE  /\ SchedTypeOK' /\ fault' # "null_process"
         /\ ReadyQueue(status', ready')
         /\ status'[cur'] = "running" /\ status'[Main] = "running"
         /\ \A t \in Threads : status'[t] = "waiting" <=> st[t] = "waiting"
<1> DEFINE next == Head(RunQueue(rd))
<1>1. next \in Threads
  <2>1. CASE rd = <<>> BY <2>1, MainThread DEF RunQueue
  <2>2. CASE rd # <<>> BY <2>2, TailQueue DEF RunQueue
  <2> QED BY <2>1, <2>2
<1>2. process[next] # NULL BY <1>1
<1>3. fault' = fault /\ cr3' = process_switch(next)
  BY <1>2 DEF do_context_switch
<1>4. cr3' \in Procs
  <2>1. process[next] \in Procs
    BY <1>1, <1>2 DEF TypeOK, SchedTypeOK
  <2> QED BY <1>3, <2>1 DEF process_switch, TypeOK, SchedTypeOK
<1>5. cur \in Threads BY DEF TypeOK, SchedTypeOK
<1> HIDE DEF next
<1>6. /\ cur' \in Threads /\ ready' \in Seq(Threads)
      /\ status' \in [Threads -> Status]
      /\ ReadyQueue(status', ready')
      /\ status'[cur'] = "running"
      /\ \A t \in Threads :
           status'[t] = IF t = cur' THEN "running"
                        ELSE IF t = cur /\ Requeues(st) THEN "ready"
                        ELSE st[t]
      /\ cur' = Main \/ In(rd, cur')
  BY <1>3, <1>5, MainThread, SwitchQueue
<1>7. SchedTypeOK' BY <1>3, <1>4, <1>6 DEF TypeOK, SchedTypeOK
<1>8. status'[Main] = "running" BY <1>6, MainThread DEF Requeues
<1>9. st[cur'] # "waiting" BY <1>6, MainThread DEF ReadyQueue
<1>10. \A t \in Threads : status'[t] = "waiting" <=> st[t] = "waiting"
  BY <1>6, <1>9 DEF Requeues
<1> QED BY <1>3, <1>6, <1>7, <1>8, <1>10

\* A switch keeps the invariant when preemption is on, or when it is the yield
\* of a poll's page fault.
LEMMA SwitchStep ==
  ASSUME KbdInv, do_context_switch(status, ready),
         NEW l \in Labels, l \notin Section,
         \/ /\ preempt_count[cur] = 0 /\ yielded' = yielded
            /\ pc' = pc \/ (cur # Main /\ pc' = [pc EXCEPT ![cur] = l])
         \/ /\ cur \in Readers /\ pc[cur] = "p_fault" /\ pc' = pc
            /\ yielded' = yielded \cup {cur},
         UNCHANGED <<process, preempt_count, wait_tasks, ringVars, loaded,
                     key_state, accepted>>
  PROVE  KbdInv'
<1> USE DEF KbdInv
<1>1. /\ SchedTypeOK' /\ fault' # "null_process"
      /\ ReadyQueue(status', ready')
      /\ status'[cur'] = "running" /\ status'[Main] = "running"
      /\ \A t \in Threads : status'[t] = "waiting" <=> status[t] = "waiting"
  <2>1. status \in [Threads -> Status] /\ ready \in Seq(Threads)
    BY DEF TypeOK, SchedTypeOK
  <2> QED BY <2>1, KbdSwitch DEF QueueInv
<1>2. /\ cur \in Threads /\ pc \in [Threads -> Labels]
      /\ yielded \in SUBSET Readers
  BY DEF TypeOK, SchedTypeOK
<1>3. TypeOK' BY <1>1, <1>2 DEF TypeOK, ringVars
<1>4. RingInv' BY DEF RingInv, ringVars
<1>5. QueueInv' BY <1>1 DEF QueueInv
<1>6. \A t \in Threads :
        /\ (pc'[t] \in Section) <=> (pc[t] \in Section)
        /\ (pc'[t] = "p_fault") <=> (pc[t] = "p_fault")
  <2>1. "p_fault" \in Section BY DEF Section
  <2>2. preempt_count[cur] = 0 => pc[cur] \notin Section
    BY <1>2 DEF PreemptInv
  <2> QED BY <1>2, <2>1, <2>2
<1>7. PreemptInv'
  <2>1. pc'[Main] = "idle" BY <1>2, MainThread DEF PreemptInv
  <2>2. \A t \in Threads : t # cur' /\ preempt_count[t] > 0 => t \in yielded'
    BY DEF PreemptInv
  <2> QED BY <1>1, <1>6, <2>1, <2>2 DEF PreemptInv
<1>8. PollInv'
  <2>1. \A t \in yielded' : t \in Threads BY <1>2, MainThread
  <2>2. consumed' = consumed /\ loaded' = loaded BY DEF ringVars
  <2> QED BY <1>6, <2>1, <2>2 DEF PollInv
<1>9. SleepInv' BY <1>1 DEF SleepInv, ringVars
<1> QED BY <1>3, <1>4, <1>5, <1>7, <1>8, <1>9

\* A step of the reader that is on the CPU and changes no queue.
LEMMA QuietStep ==
  ASSUME KbdInv, NEW t \in Readers, cur = t,
         UNCHANGED <<schedVars, wait_tasks>>,
         NEW l \in Labels, pc' = [pc EXCEPT ![t] = l],
         preempt_count' = [preempt_count EXCEPT ![t] =
                             IF l \in Section THEN 1 ELSE 0],
         status[t] # "running" => l \in {"r_wait", "r_yield"},
         RingTypeOK', RingInv', UNCHANGED <<key_state, accepted>>,
         consumed' >= consumed,
         loaded' \in [Threads -> Nat],
         \A u \in Threads \ {t} : loaded'[u] = loaded[u],
         yielded' = yielded \ {t},
         l = "p_fault" => loaded'[t] = consumed' + 1
  PROVE  KbdInv'
<1> USE DEF KbdInv
<1>0. t \in Threads /\ t # Main /\ yielded \in SUBSET Readers
  BY MainThread DEF Readers, TypeOK
<1>a. \A u \in Threads : pc'[u] = IF u = t THEN l ELSE pc[u]
  BY <1>0 DEF TypeOK
<1>b. \A u \in Threads : preempt_count'[u] =
        IF u = t THEN IF l \in Section THEN 1 ELSE 0 ELSE preempt_count[u]
  BY <1>0 DEF TypeOK
<1>s. UNCHANGED <<cur, ready, status, process, cr3, fault, wait_tasks>>
  BY DEF schedVars
<1>1. TypeOK'
  <2>1. SchedTypeOK' BY <1>s DEF TypeOK, SchedTypeOK
  <2>2. /\ pc' \in [Threads -> Labels]
        /\ preempt_count' \in [Threads -> 0 .. 1]
    <3>1. (IF l \in Section THEN 1 ELSE 0) \in 0 .. 1 OBVIOUS
    <3>2. pc' \in [Threads -> Labels] BY DEF TypeOK
    <3>3. preempt_count' \in [Threads -> 0 .. 1] BY <3>1 DEF TypeOK
    <3> QED BY <3>2, <3>3
  <2>3. yielded' \in SUBSET Readers BY <1>0
  <2> QED BY <1>s, <2>1, <2>2, <2>3 DEF TypeOK, RingTypeOK
<1>2. QueueInv' BY <1>s DEF QueueInv
<1>3. PreemptInv'
  <2>1. \A u \in Threads : preempt_count'[u] = IF pc'[u] \in Section THEN 1 ELSE 0
    BY <1>a, <1>b DEF PreemptInv
  <2>2. \A u \in Threads : u # cur' /\ preempt_count'[u] > 0 => u \in yielded'
    BY <1>b, <1>s DEF PreemptInv
  <2>3. status'[cur'] # "running" => pc'[cur'] \in {"r_wait", "r_yield"}
    BY <1>0, <1>a, <1>s
  <2>4. pc'[Main] = "idle" BY <1>0, <1>a, MainThread DEF PreemptInv
  <2> QED BY <2>1, <2>2, <2>3, <2>4 DEF PreemptInv
<1>4. PollInv'
  <2>1. \A u \in yielded' : pc'[u] = "p_fault"
    BY <1>0, <1>a, MainThread DEF PollInv
  <2>2. ASSUME NEW u \in Threads, pc'[u] = "p_fault", u \notin yielded'
        PROVE  loaded'[u] = consumed' + 1
    <3>1. CASE u = t BY <1>a, <2>2, <3>1
    <3>2. CASE u # t
      <4>1. preempt_count[u] = 1
        BY <1>a, <2>2, <3>2 DEF PreemptInv, Section
      <4> QED BY <2>2, <3>2, <4>1 DEF PreemptInv
    <3> QED BY <3>1, <3>2
  <2> QED BY <2>1, <2>2 DEF PollInv
<1>5. SleepInv'
  <2>1. consumed' .. Len(accepted') - 1 \subseteq consumed .. Len(accepted) - 1
    BY DEF RingTypeOK, TypeOK
  <2> QED BY <1>s, <2>1 DEF SleepInv
<1> QED BY <1>1, <1>2, <1>3, <1>4, <1>5

\* The readers that the handler wakes are READY and at the head of the queue.
LEMMA WakeQueue ==
  ASSUME TypeOK, QueueInv
  PROVE  LET st == Woken(status, wait_tasks)
             rd == Reverse(wait_tasks) \o ready
         IN  /\ st \in [Threads -> Status] /\ rd \in Seq(Threads)
             /\ ReadyQueue(st, rd)
             /\ \A t \in Threads :
                  st[t] = IF status[t] = "waiting" THEN "ready" ELSE status[t]
<1> DEFINE st == Woken(status, wait_tasks)
           w == Reverse(wait_tasks)
           rd == w \o ready
<1>1. /\ wait_tasks \in Seq(Threads) /\ ready \in Seq(Threads)
      /\ status \in [Threads -> Status]
  BY MainThread DEF TypeOK, SchedTypeOK
<1>2. /\ w \in Seq(Threads) /\ Len(w) = Len(wait_tasks)
      /\ Len(w) \in Nat
      /\ \A i \in 1 .. Len(w) : w[i] = wait_tasks[(Len(w) - i) + 1]
      /\ \A i \in 1 .. Len(w) : (Len(w) - i) + 1 \in 1 .. Len(w)
  BY <1>1 DEF Reverse
<1>3. \A x : In(w, x) <=> In(wait_tasks, x)
  <2> HIDE DEF w
  <2>1. ASSUME NEW x, In(w, x) PROVE In(wait_tasks, x)
    BY <1>2, <2>1 DEF In
  <2>2. ASSUME NEW x, In(wait_tasks, x) PROVE In(w, x)
    <3>1. PICK i \in 1 .. Len(wait_tasks) : wait_tasks[i] = x BY <2>2 DEF In
    <3>2. /\ (Len(w) - i) + 1 \in 1 .. Len(w)
          /\ (Len(w) - ((Len(w) - i) + 1)) + 1 = i
      BY <1>2
    <3>3. w[(Len(w) - i) + 1] = wait_tasks[i] BY <1>2, <3>2
    <3> QED BY <3>1, <3>2, <3>3 DEF In
  <2> QED BY <2>1, <2>2
<1>4. Distinct(w)
  <2> HIDE DEF w
  <2>1. Distinct(wait_tasks) BY DEF QueueInv
  <2> SUFFICES ASSUME NEW i \in 1 .. Len(w), NEW j \in 1 .. Len(w), w[i] = w[j]
               PROVE  i = j
    BY DEF Distinct
  <2>2. (Len(w) - i) + 1 = (Len(w) - j) + 1 BY <1>2, <2>1 DEF Distinct
  <2> QED BY <1>2, <2>2
<1>5. \A t \in Threads :
        st[t] = IF status[t] = "waiting" THEN "ready" ELSE status[t]
  <2>1. \A t \in Threads : In(wait_tasks, t) <=> status[t] = "waiting"
    BY DEF QueueInv
  <2> QED BY <2>1 DEF Woken, In
<1>6. st \in [Threads -> Status] BY <1>1 DEF Woken, Status
<1>7. /\ rd \in Seq(Threads)
      /\ \A x : In(rd, x) <=> In(wait_tasks, x) \/ In(ready, x)
      /\ Distinct(rd)
  <2> HIDE DEF w
  <2>1. \A x \in Threads : ~(In(w, x) /\ In(ready, x))
    BY <1>3 DEF QueueInv, ReadyQueue
  <2>2. Distinct(ready) BY DEF QueueInv, ReadyQueue
  <2> QED BY <1>1, <1>2, <1>3, <1>4, <2>1, <2>2, ConcatQueue
<1> HIDE DEF st, rd
<1>8. ReadyQueue(st, rd)
  BY <1>5, <1>7 DEF ReadyQueue, QueueInv
<1> QED BY <1>5, <1>6, <1>7, <1>8 DEF st, rd

\* The interrupt handler: the ring gets the event, nobody sleeps any more.
LEMMA HandlerStep ==
  ASSUME KbdInv, NEW e \in Events, keyboard_interrupt_handler(e)
  PROVE  KbdInv'
<1> USE DEF KbdInv
<1> DEFINE st == Woken(status, wait_tasks)
           rd == Reverse(wait_tasks) \o ready
<1>1. /\ key_state' = [key_state EXCEPT ![e.key] = e.make]
      /\ enqueue(e) /\ Reschedule(st, rd)
      /\ UNCHANGED <<process, pc, preempt_count, pollVars>>
  BY DEF keyboard_interrupt_handler, Wakes
<1>2. wait_tasks' = <<>>
  <2>1. wait_tasks' = SubSeq(wait_tasks, Len(wait_tasks) + 1, Len(wait_tasks))
    BY DEF keyboard_interrupt_handler, Wakes
  <2>2. wait_tasks \in Seq(Readers) BY DEF TypeOK
  <2> QED BY <2>1, <2>2
<1>3. RingTypeOK' /\ RingInv'
  BY <1>1, EnqueueStep DEF TypeOK, RingTypeOK
<1>4. /\ st \in [Threads -> Status] /\ rd \in Seq(Threads)
      /\ ReadyQueue(st, rd)
      /\ \A t \in Threads :
           st[t] = IF status[t] = "waiting" THEN "ready" ELSE status[t]
  BY WakeQueue
<1> HIDE DEF st, rd
<1>5. /\ SchedTypeOK' /\ fault' # "null_process"
      /\ ReadyQueue(status', ready') /\ status'[Main] = "running"
      /\ \A t \in Threads : status'[t] # "waiting"
      /\ \/ cur' = cur /\ (status'[cur] # "running" => status[cur] # "running")
         \/ preempt_count[cur] = 0 /\ status'[cur'] = "running"
  <2>1. st[Main] = "running" BY <1>4, MainThread DEF QueueInv
  <2>2. CASE preempt_count[cur] > 0 \/ rd = <<>>
    <3>1. status' = st /\ ready' = rd /\ UNCHANGED <<cur, cr3, fault>>
      BY <1>1, <2>2 DEF Reschedule
    <3>2. cur \in Threads BY DEF TypeOK, SchedTypeOK
    <3> QED BY <1>1, <1>4, <2>1, <3>1, <3>2 DEF TypeOK, SchedTypeOK, QueueInv
  <2>3. CASE ~(preempt_count[cur] > 0 \/ rd = <<>>)
    <3>1. do_context_switch(st, rd) BY <1>1, <2>3 DEF Reschedule
    <3>2. preempt_count[cur] = 0 BY <2>3 DEF TypeOK, SchedTypeOK
    <3>3. /\ SchedTypeOK' /\ fault' # "null_process"
          /\ ReadyQueue(status', ready')
          /\ status'[cur'] = "running" /\ status'[Main] = "running"
          /\ \A t \in Threads : status'[t] = "waiting" <=> st[t] = "waiting"
      BY <1>1, <1>4, <2>1, <3>1, KbdSwitch DEF QueueInv
    <3> QED BY <1>4, <3>2, <3>3
  <2> QED BY <2>2, <2>3
<1>6. key_state' \in [Keys -> BOOLEAN]
  <2>1. e.key \in Keys /\ e.make \in BOOLEAN BY DEF Events
  <2> QED BY <1>1, <2>1 DEF TypeOK
<1>7. TypeOK'
  <2>1. /\ pc' \in [Threads -> Labels] /\ preempt_count' \in [Threads -> 0 .. 1]
        /\ loaded' \in [Threads -> Nat] /\ yielded' \in SUBSET Readers
    BY <1>1 DEF TypeOK, pollVars
  <2>2. wait_tasks' \in Seq(Readers) BY <1>2
  <2> QED BY <1>3, <1>5, <1>6, <2>1, <2>2 DEF TypeOK, RingTypeOK
<1>8. QueueInv' BY <1>1, <1>2, <1>5, ShortQueues DEF QueueInv
<1>9. PreemptInv' BY <1>1, <1>5 DEF PreemptInv, pollVars
<1>10. SleepInv' BY <1>5 DEF SleepInv
<1>11. PollInv'
  <2>1. consumed' = consumed BY <1>1 DEF enqueue
  <2> QED BY <1>1, <2>1 DEF PollInv, pollVars
<1> QED BY <1>3, <1>7, <1>8, <1>9, <1>10, <1>11

\* A reader that found nothing queues itself and blocks, in one section.
LEMMA BlockStep ==
  ASSUME KbdInv, NEW t \in Readers, ReadBlock(t)
  PROVE  KbdInv'
<1> USE DEF KbdInv
<1>1. /\ cur = t /\ pc[t] = "r_cli" /\ Presses = {} /\ dequeue(size)
      /\ wait_tasks' = Append(wait_tasks, t)
      /\ status' = [status EXCEPT ![t] = "waiting"]
      /\ pc' = [pc EXCEPT ![t] = "r_wait"]
      /\ UNCHANGED <<cur, ready, process, cr3, fault, preempt_count, pollVars,
                     key_state, accepted>>
  BY DEF ReadBlock, At, Goto
<1>2. t \in Threads /\ t # Main BY MainThread DEF Readers
<1>3. status[t] = "running" BY <1>1 DEF PreemptInv
<1>4. RingTypeOK /\ size \in 0 .. size
  BY KeyboardAssumption DEF TypeOK, RingTypeOK
<1>5. RingTypeOK' /\ RingInv' /\ consumed' = consumed + size
  BY <1>1, <1>4, DequeueStep
<1>6. /\ Append(wait_tasks, t) \in Seq(Readers)
      /\ \A x : In(Append(wait_tasks, t), x) <=> In(wait_tasks, x) \/ x = t
      /\ Distinct(Append(wait_tasks, t))
  <2>1. wait_tasks \in Seq(Readers) /\ Distinct(wait_tasks) BY DEF TypeOK, QueueInv
  <2>2. ~In(wait_tasks, t) BY <1>2, <1>3 DEF QueueInv
  <2> QED BY <2>1, <2>2, AppendQueue
<1>7. \A u \in Threads : status'[u] = IF u = t THEN "waiting" ELSE status[u]
  BY <1>1 DEF TypeOK, SchedTypeOK
<1>8. TypeOK'
  BY <1>1, <1>2, <1>5, <1>6
     DEF TypeOK, SchedTypeOK, RingTypeOK, Status, Labels, pollVars
<1>9. QueueInv'
  <2>1. ReadyQueue(status', ready')
    BY <1>1, <1>3, <1>7 DEF QueueInv, ReadyQueue
  <2>2. status'[Main] = "running" BY <1>2, <1>7, MainThread DEF QueueInv
  <2> QED BY <1>1, <1>6, <1>7, <2>1, <2>2 DEF QueueInv
<1>10. PreemptInv'
  BY <1>1, <1>2, MainThread
     DEF PreemptInv, TypeOK, SchedTypeOK, Section, pollVars
<1>12. PollInv'
  <2>1. \A u \in Threads : (pc'[u] = "p_fault") <=> (pc[u] = "p_fault")
    BY <1>1, <1>2 DEF TypeOK
  <2>2. \A u \in Threads : pc[u] = "p_fault" => u \in yielded
    BY <1>1 DEF PreemptInv, Section
  <2>3. yielded' = yielded /\ yielded \subseteq Threads
    BY <1>1, MainThread DEF pollVars, TypeOK
  <2> QED BY <2>1, <2>2, <2>3 DEF PollInv
<1>11. SleepInv'
  <2>1. consumed' = Len(accepted) /\ Len(accepted) \in Nat
    BY <1>4, <1>5 DEF RingInv, RingTypeOK
  <2>2. consumed' .. Len(accepted') - 1 = {} BY <1>1, <2>1
  <2> QED BY <2>2 DEF SleepInv
<1> QED BY <1>5, <1>8, <1>9, <1>10, <1>11, <1>12

\* The other steps of a reader.
LEMMA ReaderStep ==
  ASSUME KbdInv, NEW t \in Readers,
         ReadCall(t) \/ PollLock(t) \/ ReadStep(t) \/ PollSpin(t)
  PROVE  KbdInv'
<1> USE DEF KbdInv, At, Goto
<1>a. t \in Threads /\ t # Main BY MainThread DEF Readers
<1>b. RingTypeOK /\ RingInv /\ size \in Nat
  BY KeyboardAssumption DEF TypeOK, RingTypeOK
<1>c. t \in yielded => pc[t] = "p_fault" BY DEF PollInv
<1>d. loaded \in [Threads -> Nat] BY DEF TypeOK
<1>1. CASE ReadLock(t) \/ PollLock(t)
  <2>1. PICK l \in {"r_cli", "p_cli"} :
          /\ cur = t /\ pc[t] \in {"user", "r_lock"}
          /\ preempt_count' = [preempt_count EXCEPT ![t] = 1]
          /\ pc' = [pc EXCEPT ![t] = l]
          /\ UNCHANGED <<schedVars, wait_tasks, ringVars, pollVars, key_state,
                         accepted>>
    BY <1>1 DEF ReadLock, PollLock
  <2>2. status[t] = "running" /\ yielded' = yielded \ {t}
    BY <1>c, <2>1 DEF PreemptInv, pollVars
  <2>3. RingTypeOK' /\ RingInv' /\ consumed' >= consumed
    BY <1>b, <2>1 DEF RingTypeOK, RingInv, ringVars
  <2>4. l \in Labels /\ l \in Section /\ l # "p_fault" BY DEF Labels, Section
  <2> HIDE DEF KbdInv
  <2> QED BY <1>d, <2>1, <2>2, <2>3, <2>4, QuietStep DEF pollVars
<1>2. CASE ReadChar(t) \/ PollTake(t)
  <2>1. PICK n \in 0 .. size :
          /\ cur = t /\ pc[t] \in {"r_cli", "p_cli"} /\ dequeue(n)
          /\ pc' = [pc EXCEPT ![t] = "r_ret"]
          /\ UNCHANGED <<schedVars, preempt_count, wait_tasks, pollVars,
                         key_state, accepted>>
    <3>1. CASE ReadChar(t)
      <4>1. ToPress \in 1 .. size BY <1>b, <3>1, ToPressBound DEF ReadChar
      <4>2. ToPress \in 0 .. size BY <1>b, <4>1
      <4> QED BY <3>1, <4>2 DEF ReadChar
    <3>2. CASE PollTake(t)
      <4>1. (IF size = 0 THEN 0 ELSE 1) \in 0 .. size BY <1>b
      <4> QED BY <3>2, <4>1 DEF PollTake
    <3> QED BY <1>2, <3>1, <3>2
  <2>2. status[t] = "running" /\ preempt_count[t] = 1
    BY <1>a, <2>1 DEF PreemptInv, Section
  <2>3. /\ preempt_count' = [preempt_count EXCEPT ![t] = 1]
        /\ yielded' = yielded \ {t}
    BY <1>a, <1>c, <2>1, <2>2 DEF TypeOK, pollVars
  <2>4. RingTypeOK' /\ RingInv' /\ consumed' >= consumed
    BY <1>b, <2>1, DequeueStep
  <2>5. "r_ret" \in Labels /\ "r_ret" \in Section BY DEF Labels, Section
  <2> HIDE DEF KbdInv
  <2> QED
    BY <1>d, <2>1, <2>2, <2>3, <2>4, <2>5, QuietStep DEF pollVars
<1>3. CASE ReadBlock(t) BY <1>3, BlockStep
<1>4. CASE ReadUnlock(t)
  <2>1. PICK l \in {"user", "r_yield"} :
          /\ cur = t /\ pc' = [pc EXCEPT ![t] = l]
          /\ \/ pc[t] = "r_ret" /\ l = "user"
             \/ pc[t] = "r_wait" /\ l = "r_yield"
          /\ preempt_count' = [preempt_count EXCEPT ![t] = 0]
          /\ UNCHANGED <<schedVars, wait_tasks, ringVars, pollVars, key_state,
                         accepted>>
    BY <1>4 DEF ReadUnlock
  <2>2. status[t] # "running" => l = "r_yield" BY <2>1 DEF PreemptInv
  <2>3. RingTypeOK' /\ RingInv' /\ consumed' >= consumed
    BY <1>b, <2>1 DEF RingTypeOK, RingInv, ringVars
  <2>4. l \in Labels /\ l \notin Section BY DEF Labels, Section
  <2>5. yielded' = yielded \ {t} /\ l # "p_fault" BY <1>c, <2>1 DEF pollVars
  <2> HIDE DEF KbdInv
  <2> QED
    BY <1>d, <2>1, <2>2, <2>3, <2>4, <2>5, QuietStep DEF pollVars
<1>5. CASE ReadYield(t)
  <2>1. /\ cur = t /\ pc[t] = "r_yield" /\ do_context_switch(status, ready)
        /\ pc' = [pc EXCEPT ![cur] = "r_lock"]
        /\ UNCHANGED <<process, preempt_count, wait_tasks, ringVars, pollVars,
                       key_state, accepted>>
    BY <1>5 DEF ReadYield, schedule_thread_yield
  <2>2. preempt_count[cur] = 0 BY <1>a, <2>1 DEF PreemptInv, Section
  <2>3. "r_lock" \in Labels /\ "r_lock" \notin Section BY DEF Labels, Section
  <2> HIDE DEF KbdInv
  <2> QED BY <1>a, <2>1, <2>2, <2>3, SwitchStep DEF pollVars
<1>6. CASE PollFault(t)
  <2>1. /\ cur = t /\ pc[t] = "p_cli" /\ pc' = [pc EXCEPT ![t] = "p_fault"]
        /\ loaded' = [loaded EXCEPT ![t] = consumed + 1]
        /\ UNCHANGED <<schedVars, preempt_count, wait_tasks, ringVars, yielded,
                       key_state, accepted>>
    BY <1>6 DEF PollFault
  <2>2. status[t] = "running" /\ preempt_count[t] = 1
    BY <1>a, <2>1 DEF PreemptInv, Section
  <2>3. /\ preempt_count' = [preempt_count EXCEPT ![t] = 1]
        /\ yielded' = yielded \ {t}
    BY <1>a, <1>c, <2>1, <2>2 DEF TypeOK
  <2>4. RingTypeOK' /\ RingInv' /\ consumed' >= consumed
    BY <1>b, <2>1 DEF RingTypeOK, RingInv, ringVars
  <2>5. "p_fault" \in Labels /\ "p_fault" \in Section BY DEF Labels, Section
  <2>6. /\ loaded' \in [Threads -> Nat] /\ loaded'[t] = consumed' + 1
        /\ \A u \in Threads \ {t} : loaded'[u] = loaded[u]
    <3>1. consumed + 1 \in Nat BY <1>b DEF RingTypeOK
    <3> QED BY <1>a, <1>d, <2>1, <3>1 DEF ringVars
  <2> HIDE DEF KbdInv
  <2> QED BY <2>1, <2>2, <2>3, <2>4, <2>5, <2>6, QuietStep
<1>7. CASE PollStored(t)
  <2>1. /\ cur = t /\ pc[t] = "p_fault" /\ pc' = [pc EXCEPT ![t] = "r_ret"]
        /\ size > 0 /\ dequeue(1)
        /\ loaded' = [loaded EXCEPT ![t] = 0] /\ yielded' = yielded \ {t}
        /\ UNCHANGED <<schedVars, preempt_count, wait_tasks, key_state, accepted>>
    BY <1>7 DEF PollStored
  <2>2. status[t] = "running" /\ preempt_count[t] = 1
    BY <1>a, <2>1 DEF PreemptInv, Section
  <2>3. preempt_count' = [preempt_count EXCEPT ![t] = 1]
    BY <1>a, <2>1, <2>2 DEF TypeOK
  <2>4. RingTypeOK' /\ RingInv' /\ consumed' >= consumed
    BY <1>b, <2>1, DequeueStep
  <2>5. "r_ret" \in Labels /\ "r_ret" \in Section BY DEF Labels, Section
  <2>6. /\ loaded' \in [Threads -> Nat]
        /\ \A u \in Threads \ {t} : loaded'[u] = loaded[u]
    BY <1>a, <1>d, <2>1
  <2> HIDE DEF KbdInv
  <2> QED BY <2>1, <2>2, <2>3, <2>4, <2>5, <2>6, QuietStep
<1>8. CASE PollUnderflow(t)
  <2>1. /\ fault' \in Faults /\ fault' # "null_process"
        /\ UNCHANGED <<cur, ready, status, process, cr3, kbdVars>>
    BY <1>8 DEF PollUnderflow, Faults
  <2> QED BY <2>1 DEF kbdVars, ringVars, pollVars, TypeOK, SchedTypeOK, RingInv,
             QueueInv, PreemptInv, PollInv, SleepInv
<1>9. CASE PollSpin(t)
  <2>1. /\ cur = t /\ pc[t] = "p_fault" /\ do_context_switch(status, ready)
        /\ yielded' = yielded \cup {t}
        /\ UNCHANGED <<process, pc, preempt_count, wait_tasks, ringVars, loaded,
                       key_state, accepted>>
    BY <1>9 DEF PollSpin, schedule_thread_yield
  <2>2. "user" \in Labels /\ "user" \notin Section BY DEF Labels, Section
  <2> HIDE DEF KbdInv
  <2> QED BY <2>1, <2>2, SwitchStep
<1> QED BY <1>1, <1>2, <1>3, <1>4, <1>5, <1>6, <1>7, <1>8, <1>9
        DEF ReadCall, ReadStep

-----------------------------------------------------------------------------
\* The state in which boot leaves the readers.
LEMMA InitStep == Init => KbdInv
<1> SUFFICES ASSUME Init PROVE KbdInv OBVIOUS
<1> DEFINE n == NThreads - 1
<1>0. n \in Nat /\ BufSize \in Nat \ {0} BY SizeAssumption, KeyboardAssumption
<1>1. ready = [i \in 1 .. n |-> i] BY DEF Init
<1>2. ready \in Seq(Threads) /\ Len(ready) = n
  <2>1. ready \in [1 .. n -> Threads] BY <1>1, <1>0 DEF Threads
  <2>2. ready \in Seq(Threads) BY <1>0, <2>1
  <2> QED BY <1>0, <1>1, <2>2
<1>3. \A t \in Threads : In(ready, t) <=> t # Main
  <2>1. \A i \in 1 .. n : ready[i] = i BY <1>1
  <2> HIDE DEF n
  <2>2. Threads = 0 .. n BY DEF Threads, n
  <2> QED BY <1>0, <1>2, <2>1, <2>2 DEF In, Main
<1>4. Distinct(ready) BY <1>1, <1>2 DEF Distinct
<1>5. SchedTypeOK
  <2>1. cur \in Threads /\ cr3 \in Procs /\ InitProc \in Procs
    BY SizeAssumption DEF Init, Main, Threads, Procs, KernelProc, InitProc
  <2> QED BY <1>2, <2>1 DEF Init, SchedTypeOK, Status, Faults
<1>6. RingTypeOK
  <2>1. [key |-> CHOOSE k \in Keys : TRUE, make |-> FALSE] \in Events
    BY KeyboardAssumption DEF Events
  <2>2. buffer \in [0 .. BufSize - 1 -> Events] BY <2>1 DEF Init
  <2>3. accepted \in Seq(Events) /\ Len(accepted) = 0 BY DEF Init
  <2>4. head = 0 /\ tail = 0 /\ size = 0 /\ consumed = 0 BY DEF Init
  <2> QED BY <1>0, <2>2, <2>3, <2>4 DEF RingTypeOK
<1>7. TypeOK BY <1>5, <1>6 DEF Init, TypeOK, RingTypeOK, Labels
<1>8. RingInv
  <2>1. 0 % BufSize = 0 /\ 0 .. 0 - 1 = {} BY <1>0
  <2> QED BY <2>1 DEF Init, RingInv
<1>9. QueueInv
  <2>1. ReadyQueue(status, ready) BY <1>3, <1>4 DEF Init, ReadyQueue
  <2>2. \A t \in Threads : process[t] # NULL
    BY DEF Init, KernelProc, InitProc, NULL
  <2> QED BY <2>1, <2>2, MainThread, ShortQueues DEF Init, QueueInv
<1>10. PreemptInv BY MainThread DEF Init, PreemptInv, Section
<1>11. SleepInv BY DEF Init, SleepInv
<1>12. PollInv BY DEF Init, PollInv
<1> QED BY <1>7, <1>8, <1>9, <1>10, <1>11, <1>12 DEF KbdInv

\* The inductive invariant of the driver: every interleaving of readers,
\* keyboard interrupts and the timer keeps it (kerboard.c, spinlock.c).
THEOREM KbdInvariant == Spec => []KbdInv
<1>1. KbdInv /\ [Next]_vars => KbdInv'
  <2> SUFFICES ASSUME KbdInv, [Next]_vars PROVE KbdInv' OBVIOUS
  <2>1. ASSUME NEW t \in Readers,
               ReadCall(t) \/ PollLock(t) \/ ReadStep(t) \/ PollSpin(t)
        PROVE  KbdInv'
    BY <2>1, ReaderStep
  <2>2. ASSUME NEW e \in Events, keyboard_interrupt_handler(e) PROVE KbdInv'
    BY <2>2, HandlerStep
  <2>3. CASE Preempt
    <3>1. "user" \in Labels /\ "user" \notin Section BY DEF Labels, Section
    <3>2. /\ preempt_count[cur] = 0 /\ do_context_switch(status, ready)
          /\ UNCHANGED <<process, kbdVars>>
      BY <2>3 DEF Preempt, schedule
    <3>3. UNCHANGED <<pc, preempt_count, wait_tasks, ringVars, loaded, yielded,
                      key_state, accepted>>
      BY <3>2 DEF kbdVars, pollVars
    <3> QED BY <3>1, <3>2, <3>3, SwitchStep
  <2>4. CASE Idle \/ UNCHANGED vars
    <3>1. UNCHANGED vars BY <2>4 DEF Idle
    <3> QED BY <3>1 DEF vars, kbdVars, ringVars, pollVars, schedVars, KbdInv,
             TypeOK, SchedTypeOK, RingInv, QueueInv, PreemptInv, PollInv, SleepInv
  <2> QED BY <2>1, <2>2, <2>3, <2>4 DEF Next
<1> QED BY <1>1, InitStep, PTL DEF Spec

\* The ring holds the accepted events that nobody took off it, in order, for
\* every size of the ring and however reads, interrupts and polls that yield
\* inside their section interleave (kerboard.c).
THEOREM RingCorrect == Spec => []RingIsFifo
<1>1. KbdInv => RingIsFifo
  <2> SUFFICES ASSUME KbdInv PROVE RingIsFifo OBVIOUS
  <2>1. RingTypeOK /\ RingInv BY DEF KbdInv, TypeOK, RingTypeOK
  <2>2. /\ consumed \in Nat /\ Len(accepted) \in Nat /\ size \in Nat
        /\ accepted \in Seq(Events)
        /\ size = Len(accepted) - consumed
    BY <2>1, KeyboardAssumption DEF RingTypeOK, RingInv
  <2>3. ASSUME NEW i \in 1 .. size PROVE Slot(i - 1) = accepted[i + consumed]
    <3>1. i - 1 \in 0 .. size - 1 /\ consumed + (i - 1) + 1 = i + consumed
      BY <2>2
    <3>2. Slot(i - 1) = accepted[consumed + (i - 1) + 1]
      BY <2>1, <3>1, SlotIsEvent
    <3> QED BY <3>1, <3>2
  <2>4. SubSeq(accepted, consumed + 1, Len(accepted))
          = [i \in 1 .. size |-> accepted[i + consumed]]
    BY <2>2
  <2> QED BY <2>3, <2>4 DEF RingIsFifo
<1> QED BY <1>1, KbdInvariant, PTL

\* A sleeping reader is queued once and there is no key press to return: the
\* interrupt cannot slip in between the look at the ring and the sleep.
THEOREM NoKeyMissed == Spec => []NoMissedKey
<1>1. KbdInv => NoMissedKey
  <2> SUFFICES ASSUME KbdInv, NEW t \in Readers, status[t] = "waiting"
               PROVE  /\ Cardinality({i \in DOMAIN wait_tasks : wait_tasks[i] = t}) = 1
                      /\ Presses = {}
    BY DEF NoMissedKey
  <2>1. t \in Threads BY MainThread
  <2>2. wait_tasks \in Seq(Readers) BY DEF KbdInv, TypeOK
  <2>3. Distinct(wait_tasks) /\ In(wait_tasks, t) BY <2>1 DEF KbdInv, QueueInv
  <2>4. RingTypeOK /\ RingInv BY DEF KbdInv, TypeOK, RingTypeOK
  <2>5. Presses = {} BY <2>1, <2>4, PressesUnread DEF KbdInv, SleepInv
  <2> QED BY <2>2, <2>3, <2>5, TimesInQueue
<1> QED BY <1>1, KbdInvariant, PTL

\* A reader's node is in one list at most, also when it is woken before it has
\* yielded.
THEOREM OneQueueOnly == Spec => []OneQueue
<1>1. KbdInv => OneQueue
  <2> SUFFICES ASSUME KbdInv, NEW t \in Readers
               PROVE  Cardinality({i \in DOMAIN ready : ready[i] = t})
                        + Cardinality({i \in DOMAIN wait_tasks : wait_tasks[i] = t})
                        = CASE status[t] \in {"ready", "waiting"} -> 1
                            [] OTHER -> 0
    BY DEF OneQueue
  <2> DEFINE a == Cardinality({i \in DOMAIN ready : ready[i] = t})
             b == Cardinality({i \in DOMAIN wait_tasks : wait_tasks[i] = t})
  <2>1. t \in Threads BY MainThread
  <2>2. wait_tasks \in Seq(Readers) /\ ready \in Seq(Threads)
    BY DEF KbdInv, TypeOK, SchedTypeOK
  <2>3. /\ ~In(ready, t) => a = 0
        /\ Distinct(ready) /\ In(ready, t) => a = 1
        /\ ~In(wait_tasks, t) => b = 0
        /\ Distinct(wait_tasks) /\ In(wait_tasks, t) => b = 1
    BY <2>2, TimesInQueue
  <2>4. /\ Distinct(ready) /\ Distinct(wait_tasks)
        /\ In(ready, t) <=> status[t] = "ready"
        /\ In(wait_tasks, t) <=> status[t] = "waiting"
    BY <2>1 DEF KbdInv, QueueInv, ReadyQueue
  <2> HIDE DEF a, b
  <2>5. a + b = CASE status[t] \in {"ready", "waiting"} -> 1 [] OTHER -> 0
    BY <2>3, <2>4
  <2> QED BY <2>5 DEF a, b
<1> QED BY <1>1, KbdInvariant, PTL

\* A thread leaves the CPU with preemption off only by the yield of a page fault
\* inside its poll, and a poll that did not yield hands out the event it takes.
THEOREM SectionsKept == Spec => []SectionKept
<1>1. KbdInv => SectionKept
  BY DEF KbdInv, PreemptInv, PollInv, SectionKept
<1> QED BY <1>1, KbdInvariant, PTL
=============================================================================
