-------------------------- MODULE SchedulerProofs --------------------------
(***************************************************************************)
(* Lemmas about queues of threads and about the context switch, for the    *)
(* theorems of the modules that are built on Scheduler.                    *)
(***************************************************************************)
EXTENDS Scheduler, FiniteSetTheorems, TLAPS

\* The element x is in the queue s.
In(s, x) == \E i \in 1 .. Len(s) : s[i] = x

\* No element is in the queue twice.
Distinct(s) == \A i, j \in 1 .. Len(s) : s[i] = s[j] => i = j

-----------------------------------------------------------------------------
(* Queues: linked_list_push_back, pop_front, concat *)

\* An element added at the end of a queue.
LEMMA AppendQueue ==
  ASSUME NEW S, NEW s \in Seq(S), NEW e \in S
  PROVE  /\ Append(s, e) \in Seq(S)
         /\ \A x : In(Append(s, e), x) <=> In(s, x) \/ x = e
         /\ Distinct(s) /\ ~In(s, e) => Distinct(Append(s, e))
<1> DEFINE r == Append(s, e)
<1>1. /\ r \in Seq(S) /\ Len(r) = Len(s) + 1 /\ Len(s) \in Nat
      /\ r[Len(s) + 1] = e
      /\ \A i \in 1 .. Len(s) : r[i] = s[i]
  OBVIOUS
<1> HIDE DEF r
<1>2. \A x : In(r, x) <=> In(s, x) \/ x = e BY <1>1 DEF In
<1>3. Distinct(s) /\ ~In(s, e) => Distinct(r) BY <1>1 DEF In, Distinct
<1> QED BY <1>1, <1>2, <1>3 DEF r

\* The first element taken from a queue.
LEMMA TailQueue ==
  ASSUME NEW S, NEW s \in Seq(S), s # <<>>
  PROVE  /\ Head(s) \in S /\ Tail(s) \in Seq(S)
         /\ In(s, Head(s))
         /\ \A x : In(s, x) <=> In(Tail(s), x) \/ x = Head(s)
         /\ Distinct(s) => Distinct(Tail(s)) /\ ~In(Tail(s), Head(s))
<1> DEFINE r == Tail(s)
<1>1. /\ r \in Seq(S) /\ Len(r) = Len(s) - 1 /\ Len(s) \in Nat \ {0}
      /\ Head(s) = s[1] /\ s[1] \in S
      /\ \A i \in 1 .. Len(r) : r[i] = s[i + 1]
  OBVIOUS
<1>2. \A x : In(r, x) => In(s, x) BY <1>1 DEF In
<1>3. ASSUME NEW x, In(s, x), x # s[1] PROVE In(r, x)
  <2>1. PICK i \in 1 .. Len(s) : s[i] = x BY <1>3 DEF In
  <2>2. i - 1 \in 1 .. Len(r) /\ r[i - 1] = s[(i - 1) + 1] BY <1>1, <1>3, <2>1
  <2> QED BY <2>1, <2>2 DEF In
<1> HIDE DEF r
<1>4. In(s, s[1]) BY <1>1 DEF In
<1>5. ASSUME Distinct(s) PROVE Distinct(r) /\ ~In(r, s[1])
  <2>1. ASSUME NEW i \in 1 .. Len(r), NEW j \in 1 .. Len(r), r[i] = r[j] PROVE i = j
    <3>1. s[i + 1] = s[j + 1] /\ i + 1 \in 1 .. Len(s) /\ j + 1 \in 1 .. Len(s)
      BY <1>1, <2>1
    <3>2. i + 1 = j + 1 BY <1>5, <3>1 DEF Distinct
    <3> QED BY <3>2
  <2>2. ASSUME NEW i \in 1 .. Len(r), r[i] = s[1] PROVE FALSE
    <3>1. s[i + 1] = s[1] /\ i + 1 \in 1 .. Len(s) /\ 1 \in 1 .. Len(s) BY <1>1, <2>2
    <3>2. i + 1 = 1 BY <1>5, <3>1 DEF Distinct
    <3> QED BY <3>2
  <2> QED BY <2>1, <2>2 DEF In, Distinct
<1> QED BY <1>1, <1>2, <1>3, <1>4, <1>5 DEF r

\* One queue behind another.
LEMMA ConcatQueue ==
  ASSUME NEW S, NEW s \in Seq(S), NEW r \in Seq(S)
  PROVE  /\ s \o r \in Seq(S)
         /\ \A x : In(s \o r, x) <=> In(s, x) \/ In(r, x)
         /\ Distinct(s) /\ Distinct(r) /\ (\A x \in S : ~(In(s, x) /\ In(r, x)))
              => Distinct(s \o r)
<1> DEFINE q == s \o r
<1>1. /\ q \in Seq(S) /\ Len(q) = Len(s) + Len(r)
      /\ Len(s) \in Nat /\ Len(r) \in Nat
      /\ \A i \in 1 .. Len(s) : q[i] = s[i]
      /\ \A i \in Len(s) + 1 .. Len(q) : q[i] = r[i - Len(s)]
  OBVIOUS
<1>2. \A i \in 1 .. Len(r) : q[i + Len(s)] = r[i] BY <1>1
<1> HIDE DEF q
<1>3. ASSUME NEW x, In(q, x) PROVE In(s, x) \/ In(r, x)
  <2>1. PICK i \in 1 .. Len(q) : q[i] = x BY <1>3 DEF In
  <2>2. CASE i <= Len(s) BY <1>1, <2>1, <2>2 DEF In
  <2>3. CASE i > Len(s)
    <3>1. i - Len(s) \in 1 .. Len(r) /\ r[i - Len(s)] = x BY <1>1, <2>1, <2>3
    <3> QED BY <3>1 DEF In
  <2> QED BY <2>2, <2>3, <1>1
<1>4. \A x : In(s, x) \/ In(r, x) => In(q, x)
  <2>1. \A x : In(s, x) => In(q, x) BY <1>1 DEF In
  <2>2. ASSUME NEW x, In(r, x) PROVE In(q, x)
    <3>1. PICK i \in 1 .. Len(r) : r[i] = x BY <2>2 DEF In
    <3>2. i + Len(s) \in 1 .. Len(q) BY <1>1
    <3> QED BY <1>2, <3>1, <3>2 DEF In
  <2> QED BY <2>1, <2>2
<1>5. ASSUME Distinct(s), Distinct(r), \A x \in S : ~(In(s, x) /\ In(r, x)),
             NEW i \in 1 .. Len(q), NEW j \in 1 .. Len(q), q[i] = q[j]
      PROVE  i = j
  <2>1. CASE i <= Len(s) /\ j <= Len(s) BY <1>1, <1>5, <2>1 DEF Distinct
  <2>2. CASE i > Len(s) /\ j > Len(s)
    <3>1. /\ i - Len(s) \in 1 .. Len(r) /\ j - Len(s) \in 1 .. Len(r)
          /\ r[i - Len(s)] = r[j - Len(s)]
      BY <1>1, <1>5, <2>2
    <3>2. i - Len(s) = j - Len(s) BY <1>5, <3>1 DEF Distinct
    <3> QED BY <1>1, <3>2
  <2>3. ASSUME NEW k \in 1 .. Len(s), NEW l \in Len(s) + 1 .. Len(q), q[k] = q[l]
        PROVE  FALSE
    <3>1. l - Len(s) \in 1 .. Len(r) /\ r[l - Len(s)] = s[k] BY <1>1, <2>3
    <3>2. In(s, s[k]) /\ In(r, s[k]) BY <3>1 DEF In
    <3>3. s[k] \in S OBVIOUS
    <3> QED BY <1>5, <3>2, <3>3
  <2> QED BY <2>1, <2>2, <2>3, <1>1, <1>5
<1>6. Distinct(s) /\ Distinct(r) /\ (\A x \in S : ~(In(s, x) /\ In(r, x)))
        => Distinct(q)
  BY <1>5 DEF Distinct
<1> QED BY <1>1, <1>3, <1>4, <1>6 DEF q

\* Queues of no and of one element.
LEMMA ShortQueues ==
  /\ \A x : ~In(<<>>, x)
  /\ Distinct(<<>>)
  /\ \A x, y : In(<<x>>, y) <=> y = x
  /\ \A x : Distinct(<<x>>)
  BY DEF In, Distinct

\* How often an element is in a queue without repetitions.
LEMMA TimesInQueue ==
  ASSUME NEW S, NEW s \in Seq(S), NEW x
  PROVE  LET n == Cardinality({i \in DOMAIN s : s[i] = x})
         IN  /\ ~In(s, x) => n = 0
             /\ Distinct(s) /\ In(s, x) => n = 1
<1> DEFINE P == {i \in DOMAIN s : s[i] = x}
<1>1. DOMAIN s = 1 .. Len(s) OBVIOUS
<1>2. ASSUME ~In(s, x) PROVE P = {} BY <1>1, <1>2 DEF In
<1>3. ASSUME Distinct(s), In(s, x) PROVE \E i : P = {i}
  <2>1. PICK i \in 1 .. Len(s) : s[i] = x BY <1>3 DEF In
  <2>2. \A j \in 1 .. Len(s) : s[j] = x => j = i BY <1>3, <2>1 DEF Distinct
  <2>3. P = {i} BY <1>1, <2>1, <2>2
  <2> QED BY <2>3
<1> HIDE DEF P
<1>4. P = {} => Cardinality(P) = 0 BY FS_EmptySet
<1>5. (\E i : P = {i}) => Cardinality(P) = 1 BY FS_Singleton
<1> QED BY <1>2, <1>3, <1>4, <1>5 DEF P

-----------------------------------------------------------------------------
(* The ready queue *)

\* The queue rd holds the threads that are READY in st, each once.
ReadyQueue(st, rd) ==
  /\ Distinct(rd)
  /\ \A t \in Threads : In(rd, t) <=> st[t] = "ready"

\* do_context_switch keeps the ready queue and the statuses in step: the old
\* thread goes to the end of the queue if it can still run, the head of the
\* queue leaves it and runs.
LEMMA SwitchQueue ==
  ASSUME cur \in Threads, Main \in Threads,
         NEW st \in [Threads -> Status], NEW rd \in Seq(Threads),
         ReadyQueue(st, rd), do_context_switch(st, rd), fault' = fault,
         fault # "null_process"
  PROVE  /\ cur' \in Threads /\ ready' \in Seq(Threads)
         /\ status' \in [Threads -> Status]
         /\ ReadyQueue(status', ready')
         /\ status'[cur'] = "running"
         /\ \A t \in Threads :
              status'[t] = IF t = cur' THEN "running"
                           ELSE IF t = cur /\ Requeues(st) THEN "ready"
                           ELSE st[t]
         /\ cur' = Main \/ In(rd, cur')
<1> DEFINE next == Head(RunQueue(rd))
<1>1. /\ cur' = next /\ ready' = Tail(NextQueue(st, rd))
      /\ status' = SwitchStatus(st, next)
  BY DEF do_context_switch
<1>2. /\ RunQueue(rd) \in Seq(Threads) /\ RunQueue(rd) # <<>>
      /\ next \in Threads
      /\ Distinct(RunQueue(rd)) /\ In(RunQueue(rd), next)
      /\ \A t : In(RunQueue(rd), t) <=> In(rd, t) \/ (rd = <<>> /\ t = Main)
  <2>1. CASE rd = <<>>
    <3>1. RunQueue(rd) = <<Main>> BY <2>1 DEF RunQueue
    <3> QED BY <3>1, <2>1, ShortQueues
  <2>2. CASE rd # <<>>
    <3>1. RunQueue(rd) = rd BY <2>2 DEF RunQueue
    <3>2. Head(rd) \in Threads /\ In(rd, Head(rd)) BY <2>2, TailQueue
    <3>3. Distinct(rd) BY DEF ReadyQueue
    <3> QED BY <3>1, <3>2, <3>3, <2>2
  <2> QED BY <2>1, <2>2
<1>3. CASE Requeues(st)
  <2> DEFINE q == Append(RunQueue(rd), cur)
  <2>1. NextQueue(st, rd) = q BY <1>3 DEF NextQueue
  <2>2. ~In(RunQueue(rd), cur)
    BY <1>2, <1>3 DEF Requeues, ReadyQueue
  <2>3. /\ q \in Seq(Threads) /\ Distinct(q) /\ q # <<>> /\ Head(q) = next
        /\ \A t : In(q, t) <=> In(RunQueue(rd), t) \/ t = cur
    <3>1. q # <<>> /\ Head(q) = next BY <1>2
    <3> QED BY <1>2, <2>2, <3>1, AppendQueue
  <2> HIDE DEF q, next
  <2>4. /\ Tail(q) \in Seq(Threads) /\ Distinct(Tail(q)) /\ ~In(Tail(q), next)
        /\ \A t : In(q, t) <=> In(Tail(q), t) \/ t = next
    BY <2>3, TailQueue
  <2>5. next # cur BY <1>2, <2>2
  <2>6. \A t \in Threads :
          SwitchStatus(st, next)[t] = IF t = next THEN "running"
                                      ELSE IF t = cur THEN "ready" ELSE st[t]
    BY <1>3 DEF SwitchStatus
  <2>7. SwitchStatus(st, next) \in [Threads -> Status]
    BY DEF SwitchStatus, Status
  <2>8. \A t \in Threads : In(rd, t) <=> st[t] = "ready" BY DEF ReadyQueue
  <2>9. rd = <<>> => next = Main BY DEF next, RunQueue
  <2>10. ASSUME NEW t \in Threads
         PROVE  In(Tail(q), t) <=> status'[t] = "ready"
    <3>1. CASE t = next BY <1>1, <2>4, <2>6, <3>1
    <3>2. CASE t # next /\ t = cur BY <1>1, <2>3, <2>4, <2>6, <3>2
    <3>3. CASE t # next /\ t # cur
      <4>1. In(Tail(q), t) <=> In(rd, t) BY <1>2, <2>3, <2>4, <2>9, <3>3
      <4> QED BY <1>1, <2>6, <2>8, <3>3, <4>1
    <3> QED BY <3>1, <3>2, <3>3
  <2>11. next = Main \/ In(rd, next) BY <1>2
  <2> QED BY <1>1, <1>2, <1>3, <2>1, <2>4, <2>6, <2>7, <2>10, <2>11
          DEF ReadyQueue
<1>4. CASE ~Requeues(st)
  <2> DEFINE q == RunQueue(rd)
  <2>1. NextQueue(st, rd) = q BY <1>4 DEF NextQueue
  <2>2. /\ Tail(q) \in Seq(Threads) /\ Distinct(Tail(q)) /\ ~In(Tail(q), next)
        /\ \A t : In(q, t) <=> In(Tail(q), t) \/ t = next
    BY <1>2, TailQueue
  <2>9. rd = <<>> => next = Main BY DEF RunQueue
  <2> HIDE DEF q, next
  <2>6. \A t \in Threads :
          SwitchStatus(st, next)[t] = IF t = next THEN "running" ELSE st[t]
    BY <1>4 DEF SwitchStatus
  <2>7. SwitchStatus(st, next) \in [Threads -> Status]
    BY DEF SwitchStatus, Status
  <2>8. \A t \in Threads : In(rd, t) <=> st[t] = "ready" BY DEF ReadyQueue
  <2>10. ASSUME NEW t \in Threads
         PROVE  In(Tail(q), t) <=> status'[t] = "ready"
    <3>1. CASE t = next BY <1>1, <2>2, <2>6, <3>1
    <3>2. CASE t # next
      <4>1. In(Tail(q), t) <=> In(rd, t) BY <1>2, <2>2, <2>9, <3>2 DEF q
      <4> QED BY <1>1, <2>6, <2>8, <3>2, <4>1
    <3> QED BY <3>1, <3>2
  <2>11. next = Main \/ In(rd, next) BY <1>2
  <2> QED BY <1>1, <1>2, <1>4, <2>1, <2>2, <2>6, <2>7, <2>10, <2>11
          DEF ReadyQueue
<1> QED BY <1>3, <1>4
=============================================================================
