---------------------------- MODULE IdPoolProofs ----------------------------
(***************************************************************************)
(* Theorems about IdPool when freeing locks, as release_kernel_stack_slot  *)
(* does, for every set of threads and every size of the bitmap and of its  *)
(* words.                                                                  *)
(***************************************************************************)
EXTENDS IdPool, TLAPS

\* The bit of an id is set.
Taken(i) == BitOf(i) \in bitarray[WordOf(i)]

\* The threads between yieldlock_lock and yieldlock_unlock.
Section == {"a_find", "a_load", "a_store", "a_done", "a_fail",
            "f_load", "f_store", "f_done"}

\* The thread has given its id up, and the bit is still set.
Freeing(t) == pc[t] \in {"f_lock", "f_load", "f_store"}

\* The lock is held by the thread in the section, and there is one at most.
LockInv ==
  /\ \A t \in Threads : pc[t] \in Section => lock
  /\ \A t, u \in Threads : pc[t] \in Section /\ pc[u] \in Section => t = u

\* A set bit has one reason: one user, or one thread that frees the id.
OwnerInv ==
  /\ \A i \in Ids : users[i] <= 1
  /\ \A i \in Ids :
       Taken(i) <=> users[i] > 0 \/ \E t \in Threads : Freeing(t) /\ id[t] = i
  /\ \A t \in Threads : Freeing(t) => users[id[t]] = 0
  /\ \A t, u \in Threads : Freeing(t) /\ Freeing(u) /\ id[t] = id[u] => t = u

\* What the thread in the section knows: its copy of the word is up to date,
\* the id it has found is free, and if it has found none there is none.
SectionInv ==
  \A t \in Threads :
    /\ pc[t] \in {"a_store", "f_store"} => word[t] = bitarray[WordOf(id[t])]
    /\ pc[t] \in {"a_load", "a_store"} => ~Taken(id[t])
    /\ pc[t] = "a_fail" => FreeIds = {}

PoolInv == TypeOK /\ LockInv /\ OwnerInv /\ SectionInv

-----------------------------------------------------------------------------
(* The arithmetic of bit_map.c *)

\* What a quotient and a remainder are.
LEMMA Division ==
  ASSUME NEW a \in Nat, NEW b \in Nat \ {0}
  PROVE  /\ a \div b \in Nat /\ a % b \in 0 .. b - 1
         /\ a = b * (a \div b) + (a % b)
  OBVIOUS

\* A common factor can be dropped.
LEMMA FactorOrder ==
  ASSUME NEW b \in Nat, NEW x \in Nat, NEW y \in Nat, b * x < b * y
  PROVE  x < y
<1> SUFFICES ASSUME y <= x PROVE FALSE OBVIOUS
<1>1. PICK d \in Nat : x = y + d OBVIOUS
<1>2. b * x = b * y + b * d BY <1>1
<1>3. b * d \in Nat /\ b * y \in Nat BY <1>1
<1> QED BY <1>2, <1>3

\* The order of two quotients with the same divisor.
LEMMA QuotientOrder ==
  ASSUME NEW a \in Nat, NEW c \in Nat, NEW b \in Nat \ {0}, a + b <= c
  PROVE  a \div b < c \div b
<1> DEFINE qa == a \div b  qc == c \div b
<1>1. /\ qa \in Nat /\ a % b \in 0 .. b - 1 /\ a = b * qa + (a % b)
  BY Division
<1>2. /\ qc \in Nat /\ c % b \in 0 .. b - 1 /\ c = b * qc + (c % b)
  BY Division
<1> HIDE DEF qa, qc
<1>3. b * qa < b * qc
  <2>1. b * qa \in Nat /\ b * qc \in Nat BY <1>1, <1>2
  <2> QED BY <1>1, <1>2, <2>1
<1> QED BY <1>1, <1>2, <1>3, FactorOrder DEF qa, qc

\* The word and the bit of an id are inside the array (index / 32, index % 32).
LEMMA IdInArray ==
  ASSUME NEW i \in Ids
  PROVE  WordOf(i) \in Words /\ BitOf(i) \in 0 .. WordBits - 1
<1>1. i \in Nat /\ i < TotalBits /\ TotalBits \in Nat /\ WordBits \in Nat \ {0}
  BY IdPoolAssumption DEF Ids
<1>2. TotalBits + WordBits - 1 \in Nat /\ i + WordBits <= TotalBits + WordBits - 1
  BY <1>1
<1>3. i \div WordBits < arraysize
  BY <1>1, <1>2, QuotientOrder DEF arraysize
<1>4. arraysize \in Nat
  BY <1>1, <1>2, Division DEF arraysize
<1>5. i \div WordBits \in Nat /\ i % WordBits \in 0 .. WordBits - 1
  BY <1>1, Division
<1> QED BY <1>3, <1>4, <1>5 DEF WordOf, BitOf, Words

\* Two ids never share a bit.
LEMMA BitsDistinct ==
  ASSUME NEW i \in Ids, NEW j \in Ids,
         WordOf(i) = WordOf(j), BitOf(i) = BitOf(j)
  PROVE  i = j
<1>1. i \in Nat /\ j \in Nat /\ WordBits \in Nat \ {0}
  BY IdPoolAssumption DEF Ids
<1>2. i = WordBits * WordOf(i) + BitOf(i) /\ j = WordBits * WordOf(j) + BitOf(j)
  BY <1>1, Division DEF WordOf, BitOf
<1> QED BY <1>2

\* bitmap_set_bit and bitmap_clear_bit on a word that nobody else changes
\* change the bit they are for.
LEMMA OneBit ==
  ASSUME TypeOK, NEW i \in Ids, NEW W, NEW j \in Ids,
         bitarray' = [bitarray EXCEPT ![WordOf(i)] = W]
  PROVE  /\ W = bitarray[WordOf(i)] \cup {BitOf(i)} =>
              (Taken(j)' <=> Taken(j) \/ j = i)
         /\ W = bitarray[WordOf(i)] \ {BitOf(i)} =>
              (Taken(j)' <=> Taken(j) /\ j # i)
<1>1. bitarray \in [Words -> SUBSET (0 .. WordBits - 1)] BY DEF TypeOK
<1>2. WordOf(i) \in Words /\ WordOf(j) \in Words BY IdInArray
<1>3. CASE WordOf(i) # WordOf(j) BY <1>1, <1>2, <1>3 DEF Taken
<1>4. CASE WordOf(i) = WordOf(j)
  <2>1. BitOf(i) = BitOf(j) <=> i = j BY <1>4, BitsDistinct
  <2>2. bitarray'[WordOf(j)] = W BY <1>1, <1>2, <1>4
  <2> QED BY <1>4, <2>1, <2>2 DEF Taken
<1> QED BY <1>3, <1>4

-----------------------------------------------------------------------------
(* The steps *)

\* A step that changes neither bits nor owners keeps OwnerInv.
LEMMA SameOwners ==
  ASSUME TypeOK, OwnerInv, NEW t \in Threads, NEW l,
         pc' = [pc EXCEPT ![t] = l], UNCHANGED <<bitarray, id, users>>,
         Freeing(t)' <=> Freeing(t)
  PROVE  OwnerInv'
<1>1. \A u \in Threads : Freeing(u)' <=> Freeing(u)
  BY DEF TypeOK, Freeing
<1>2. \A i \in Ids : Taken(i)' <=> Taken(i) BY DEF Taken
<1> QED BY <1>1, <1>2 DEF OwnerInv

\* A step inside the section, or outside, keeps the lock with who has it.
LEMMA SameSection ==
  ASSUME TypeOK, LockInv, NEW t \in Threads, NEW l,
         pc' = [pc EXCEPT ![t] = l], l \in Section <=> pc[t] \in Section,
         lock' = lock
  PROVE  LockInv'
  BY DEF TypeOK, LockInv

\* yieldlock_lock
LEMMA LockStep ==
  ASSUME PoolInv, NEW t \in Threads, NEW from, NEW to, Lock(t, from, to),
         \/ from = "a_lock" /\ to = "a_find"
         \/ from = "f_lock" /\ to = "f_load"
  PROVE  PoolInv'
<1>1. /\ pc[t] = from /\ pc' = [pc EXCEPT ![t] = to] /\ ~lock /\ lock' = TRUE
      /\ UNCHANGED <<bitarray, id, word, users>>
  BY DEF Lock, Step
<1>2. TypeOK' BY <1>1 DEF PoolInv, TypeOK
<1>3. LockInv' BY <1>1 DEF PoolInv, TypeOK, LockInv, Section
<1>4. Freeing(t)' <=> Freeing(t) BY <1>1 DEF PoolInv, TypeOK, Freeing
<1>5. OwnerInv' BY <1>1, <1>4, SameOwners DEF PoolInv
<1>6. SectionInv'
  BY <1>1 DEF PoolInv, TypeOK, SectionInv, Taken, FreeIds
<1> QED BY <1>2, <1>3, <1>5, <1>6 DEF PoolInv

\* yieldlock_unlock
LEMMA UnlockStep ==
  ASSUME PoolInv, NEW t \in Threads, NEW from, Unlock(t, from),
         from \in {"a_done", "a_fail", "f_done"}
  PROVE  PoolInv'
<1>1. /\ pc[t] = from /\ pc' = [pc EXCEPT ![t] = "idle"] /\ lock' = FALSE
      /\ UNCHANGED <<bitarray, id, word, users>>
  BY DEF Unlock, Step
<1>2. TypeOK' BY <1>1 DEF PoolInv, TypeOK
<1>3. LockInv' BY <1>1 DEF PoolInv, TypeOK, LockInv, Section
<1>4. Freeing(t)' <=> Freeing(t) BY <1>1 DEF PoolInv, TypeOK, Freeing
<1>5. OwnerInv' BY <1>1, <1>4, SameOwners DEF PoolInv
<1>6. SectionInv'
  BY <1>1 DEF PoolInv, TypeOK, SectionInv, Taken, FreeIds
<1> QED BY <1>2, <1>3, <1>5, <1>6 DEF PoolInv

\* The load of |= and &=.
LEMMA LoadStep ==
  ASSUME PoolInv, NEW t \in Threads, NEW from, NEW to, Load(t, from, to),
         \/ from = "a_load" /\ to = "a_store"
         \/ from = "f_load" /\ to = "f_store"
  PROVE  PoolInv'
<1>1. /\ pc[t] = from /\ pc' = [pc EXCEPT ![t] = to]
      /\ word' = [word EXCEPT ![t] = bitarray[WordOf(id[t])]]
      /\ UNCHANGED <<bitarray, lock, id, users>>
  BY DEF Load, Step
<1>2. TypeOK'
  <2>1. WordOf(id[t]) \in Words BY IdInArray DEF PoolInv, TypeOK
  <2> QED BY <1>1, <2>1 DEF PoolInv, TypeOK
<1>3. LockInv' BY <1>1, SameSection DEF PoolInv, Section
<1>4. Freeing(t)' <=> Freeing(t) BY <1>1 DEF PoolInv, TypeOK, Freeing
<1>5. OwnerInv' BY <1>1, <1>4, SameOwners DEF PoolInv
<1>6. SectionInv'
  BY <1>1 DEF PoolInv, TypeOK, SectionInv, Taken, FreeIds
<1> QED BY <1>2, <1>3, <1>5, <1>6 DEF PoolInv

\* bitmap_find_first_free
LEMMA FindStep ==
  ASSUME PoolInv, NEW t \in Threads, FindFree(t) \/ FindNone(t)
  PROVE  PoolInv'
<1>1. CASE FindFree(t)
  <2>1. PICK i \in FreeIds :
          /\ id' = [id EXCEPT ![t] = i]
          /\ pc[t] = "a_find" /\ pc' = [pc EXCEPT ![t] = "a_load"]
          /\ UNCHANGED <<bitarray, lock, word, users>>
    BY <1>1 DEF FindFree, Step
  <2>2. i \in Ids /\ ~Taken(i) BY DEF FreeIds, Scanned, Taken
  <2>3. TypeOK' BY <2>1, <2>2 DEF PoolInv, TypeOK
  <2>4. LockInv' BY <2>1, SameSection DEF PoolInv, Section
  <2>5. /\ \A u \in Threads : Freeing(u)' <=> Freeing(u)
        /\ \A u \in Threads : Freeing(u) => id'[u] = id[u]
        /\ \A j \in Ids : Taken(j)' <=> Taken(j)
    BY <2>1 DEF PoolInv, TypeOK, Freeing, Taken
  <2>6. OwnerInv' BY <2>1, <2>5 DEF PoolInv, OwnerInv
  <2>7. SectionInv'
    BY <2>1, <2>2 DEF PoolInv, TypeOK, SectionInv, Taken, FreeIds
  <2> QED BY <2>3, <2>4, <2>6, <2>7 DEF PoolInv
<1>2. CASE FindNone(t)
  <2>1. /\ pc[t] = "a_find" /\ pc' = [pc EXCEPT ![t] = "a_fail"]
        /\ FreeIds = {} /\ UNCHANGED <<bitarray, lock, id, word, users>>
    BY <1>2 DEF FindNone, Step
  <2>2. TypeOK' BY <2>1 DEF PoolInv, TypeOK
  <2>3. LockInv' BY <2>1, SameSection DEF PoolInv, Section
  <2>4. Freeing(t)' <=> Freeing(t) BY <2>1 DEF PoolInv, TypeOK, Freeing
  <2>5. OwnerInv' BY <2>1, <2>4, SameOwners DEF PoolInv
  <2>6. SectionInv'
    BY <2>1 DEF PoolInv, TypeOK, SectionInv, Taken, FreeIds
  <2> QED BY <2>2, <2>3, <2>5, <2>6 DEF PoolInv
<1> QED BY <1>1, <1>2

\* The store of |=: the id was free, so it gets its only user.
LEMMA SetStep ==
  ASSUME PoolInv, NEW t \in Threads, SetStore(t)
  PROVE  PoolInv'
<1> DEFINE i == id[t]
<1>1. /\ pc[t] = "a_store" /\ pc' = [pc EXCEPT ![t] = "a_done"]
      /\ bitarray' = [bitarray EXCEPT ![WordOf(i)] = word[t] \cup {BitOf(i)}]
      /\ users' = [users EXCEPT ![i] = @ + 1]
      /\ UNCHANGED <<lock, id, word>>
  BY DEF SetStore, Step
<1>2. /\ i \in Ids /\ word[t] = bitarray[WordOf(i)] /\ ~Taken(i)
  BY <1>1 DEF PoolInv, TypeOK, SectionInv
<1>3. WordOf(i) \in Words /\ BitOf(i) \in 0 .. WordBits - 1 BY <1>2, IdInArray
<1>4. \A j \in Ids : Taken(j)' <=> Taken(j) \/ j = i
  <2>1. TypeOK BY DEF PoolInv
  <2> HIDE DEF i
  <2> QED BY <1>1, <1>2, <2>1, OneBit
<1> HIDE DEF i
<1>5. TypeOK' BY <1>1, <1>2, <1>3 DEF PoolInv, TypeOK
<1>6. LockInv' BY <1>1, SameSection DEF PoolInv, Section
<1>7. \A u \in Threads : Freeing(u)' <=> Freeing(u)
  BY <1>1 DEF PoolInv, TypeOK, Freeing
<1>8. /\ users[i] = 0 /\ \A u \in Threads : Freeing(u) => id[u] # i
      /\ users \in [Ids -> Nat]
  BY <1>2 DEF PoolInv, TypeOK, OwnerInv
<1>9. OwnerInv' BY <1>1, <1>2, <1>4, <1>7, <1>8 DEF PoolInv, OwnerInv, TypeOK
<1>10. SectionInv'
  BY <1>1 DEF PoolInv, TypeOK, SectionInv, LockInv, Section
<1> QED BY <1>5, <1>6, <1>9, <1>10 DEF PoolInv

\* The user of an id gives it up.
LEMMA FreeCallStep ==
  ASSUME FreeLocks, PoolInv, NEW t \in Threads, FreeCall(t)
  PROVE  PoolInv'
<1>1. PICK i \in Ids :
        /\ users[i] > 0 /\ users' = [users EXCEPT ![i] = @ - 1]
        /\ id' = [id EXCEPT ![t] = i]
        /\ pc[t] = "idle" /\ pc' = [pc EXCEPT ![t] = "f_lock"]
        /\ UNCHANGED <<bitarray, lock, word>>
  BY DEF FreeCall, Step
<1>2. users[i] = 1 /\ users'[i] = 0 /\ users' \in [Ids -> Nat]
  BY <1>1 DEF PoolInv, TypeOK, OwnerInv
<1>3. TypeOK' BY <1>1, <1>2 DEF PoolInv, TypeOK
<1>4. LockInv' BY <1>1, SameSection DEF PoolInv, Section
<1>5. /\ \A u \in Threads : Freeing(u)' <=> Freeing(u) \/ u = t
      /\ \A u \in Threads \ {t} : id'[u] = id[u]
      /\ id'[t] = i
      /\ \A u \in Threads : Freeing(u) => id[u] # i
      /\ ~Freeing(t)
      /\ \A j \in Ids : Taken(j)' <=> Taken(j)
  BY <1>1 DEF PoolInv, TypeOK, Freeing, OwnerInv, Taken
<1>6. OwnerInv' BY <1>1, <1>2, <1>5 DEF PoolInv, OwnerInv, TypeOK
<1>7. SectionInv'
  BY <1>1 DEF PoolInv, TypeOK, SectionInv, Taken, FreeIds
<1> QED BY <1>3, <1>4, <1>6, <1>7 DEF PoolInv

\* The store of &=: the id has no user and nobody else frees it.
LEMMA ClearStep ==
  ASSUME FreeLocks, PoolInv, NEW t \in Threads, ClearStore(t)
  PROVE  PoolInv'
<1> DEFINE i == id[t]
<1>1. /\ pc[t] = "f_store" /\ pc' = [pc EXCEPT ![t] = "f_done"]
      /\ bitarray' = [bitarray EXCEPT ![WordOf(i)] = word[t] \ {BitOf(i)}]
      /\ UNCHANGED <<lock, id, word, users>>
  BY DEF ClearStore, Step
<1>2. i \in Ids /\ word[t] = bitarray[WordOf(i)]
  BY <1>1 DEF PoolInv, TypeOK, SectionInv
<1>3. WordOf(i) \in Words /\ BitOf(i) \in 0 .. WordBits - 1 BY <1>2, IdInArray
<1>4. \A j \in Ids : Taken(j)' <=> Taken(j) /\ j # i
  <2>1. TypeOK BY DEF PoolInv
  <2> HIDE DEF i
  <2> QED BY <1>1, <1>2, <2>1, OneBit
<1> HIDE DEF i
<1>5. TypeOK' BY <1>1, <1>2, <1>3 DEF PoolInv, TypeOK
<1>6. LockInv' BY <1>1, SameSection DEF PoolInv, Section
<1>7. /\ \A u \in Threads : Freeing(u)' <=> Freeing(u) /\ u # t
      /\ \A u \in Threads : u # t /\ Freeing(u) => id[u] # i
      /\ users[i] = 0 /\ id[t] = i
  BY <1>1 DEF PoolInv, TypeOK, Freeing, OwnerInv, i
<1>8. OwnerInv' BY <1>1, <1>2, <1>4, <1>7 DEF PoolInv, OwnerInv, TypeOK
<1>9. SectionInv'
  BY <1>1 DEF PoolInv, TypeOK, SectionInv, LockInv, Section
<1> QED BY <1>5, <1>6, <1>8, <1>9 DEF PoolInv

-----------------------------------------------------------------------------
\* The inductive invariant: under the lock a bit changes for one reason only.
THEOREM PoolInvariant ==
  ASSUME FreeLocks
  PROVE  Spec => []PoolInv
<1>1. Init => PoolInv
  <2> SUFFICES ASSUME Init PROVE PoolInv OBVIOUS
  <2>1. 0 \in Ids BY IdPoolAssumption DEF Ids
  <2>2. TypeOK BY <2>1 DEF Init, TypeOK
  <2>3. LockInv BY DEF Init, LockInv, Section
  <2>4. \A i \in Ids : ~Taken(i) BY IdInArray DEF Init, Taken
  <2>5. OwnerInv BY <2>4 DEF Init, OwnerInv, Freeing
  <2>6. SectionInv BY DEF Init, SectionInv
  <2> QED BY <2>2, <2>3, <2>5, <2>6 DEF PoolInv
<1>2. PoolInv /\ [Next]_vars => PoolInv'
  <2> SUFFICES ASSUME PoolInv, [Next]_vars PROVE PoolInv' OBVIOUS
  <2>1. ASSUME NEW t \in Threads, AllocCall(t) PROVE PoolInv'
    <3>1. /\ pc[t] = "idle" /\ pc' = [pc EXCEPT ![t] = "a_lock"]
          /\ UNCHANGED <<bitarray, lock, id, word, users>>
      BY <2>1 DEF AllocCall, Step
    <3>2. TypeOK' BY <3>1 DEF PoolInv, TypeOK
    <3>3. LockInv' BY <3>1, SameSection DEF PoolInv, Section
    <3>4. Freeing(t)' <=> Freeing(t) BY <3>1 DEF PoolInv, TypeOK, Freeing
    <3>5. OwnerInv' BY <3>1, <3>4, SameOwners DEF PoolInv
    <3>6. SectionInv'
      BY <3>1 DEF PoolInv, TypeOK, SectionInv, Taken, FreeIds
    <3> QED BY <3>2, <3>3, <3>5, <3>6 DEF PoolInv
  <2>2. ASSUME NEW t \in Threads, AllocLock(t) \/ FreeLock(t) PROVE PoolInv'
    BY <2>2, LockStep DEF AllocLock, FreeLock
  <2>3. ASSUME NEW t \in Threads, FindFree(t) \/ FindNone(t) PROVE PoolInv'
    BY <2>3, FindStep
  <2>4. ASSUME NEW t \in Threads, SetLoad(t) \/ ClearLoad(t) PROVE PoolInv'
    BY <2>4, LoadStep DEF SetLoad, ClearLoad
  <2>5. ASSUME NEW t \in Threads, SetStore(t) PROVE PoolInv'
    BY <2>5, SetStep
  <2>6. ASSUME NEW t \in Threads, AllocUnlock(t) \/ FreeUnlock(t) PROVE PoolInv'
    BY <2>6, UnlockStep DEF AllocUnlock, FreeUnlock
  <2>7. ASSUME NEW t \in Threads, FreeCall(t) PROVE PoolInv'
    BY <2>7, FreeCallStep
  <2>8. ASSUME NEW t \in Threads, ClearStore(t) PROVE PoolInv'
    BY <2>8, ClearStep
  <2>9. CASE UNCHANGED vars
    BY <2>9 DEF vars, PoolInv, TypeOK, LockInv, OwnerInv, SectionInv,
                Freeing, Taken, FreeIds
  <2> QED BY <2>1, <2>2, <2>3, <2>4, <2>5, <2>6, <2>7, <2>8, <2>9 DEF Next
<1> QED BY <1>1, <1>2, PTL DEF Spec

\* No kernel stack slot is ever given to two threads (thread.c:36, :66).
THEOREM SlotsUnique ==
  ASSUME FreeLocks
  PROVE  Spec => []UniqueIds
<1>1. PoolInv => UniqueIds BY DEF PoolInv, OwnerInv, UniqueIds
<1> QED BY <1>1, PoolInvariant, PTL

\* A slot that no call is about has its bit set exactly when it is in use, so
\* none is lost and none is offered while a thread runs on it.
THEOREM SlotsExact ==
  ASSUME FreeLocks
  PROVE  Spec => []BitsExact
<1>1. PoolInv => BitsExact
  BY DEF PoolInv, TypeOK, OwnerInv, BitsExact, Taken, Freeing
<1> QED BY <1>1, PoolInvariant, PTL

\* "No free kernel stack slots" (thread.c:40) is true when it is said, in a
\* bitmap whose last word is partly used, as that of the 21845 slots is.
THEOREM SlotsExhausted ==
  ASSUME FreeLocks, TotalBits % WordBits # 0
  PROVE  Spec => []FailsOnlyWhenFull
<1>1. Scanned = Ids
  <2> DEFINE q == TotalBits \div WordBits  r == TotalBits % WordBits
             A == arraysize  c == TotalBits + WordBits - 1
  <2>1. /\ WordBits \in Nat \ {0} /\ TotalBits \in Nat /\ c \in Nat
    BY IdPoolAssumption
  <2>2. /\ q \in Nat /\ r \in 0 .. WordBits - 1 /\ TotalBits = WordBits * q + r
    BY <2>1, Division
  <2>3. /\ A \in Nat /\ c % WordBits \in 0 .. WordBits - 1
        /\ c = WordBits * A + (c % WordBits)
    BY <2>1, Division DEF arraysize
  <2>4. q < A
    <3> HIDE DEF q, A, r
    <3>1. WordBits * q \in Nat /\ WordBits * A \in Nat BY <2>1, <2>2, <2>3
    <3>2. r # 0 BY DEF r
    <3>3. WordBits * q < WordBits * A BY <2>1, <2>2, <2>3, <3>1, <3>2
    <3> QED BY <2>1, <2>2, <2>3, <3>3, FactorOrder
  <2>5. ASSUME NEW i \in Ids, ~(WordOf(i) < A - 1) PROVE BitOf(i) < r
    <3>1. i \in Nat /\ i < TotalBits BY <2>1 DEF Ids
    <3>2. /\ WordOf(i) \in Nat /\ BitOf(i) \in Nat
          /\ i = WordBits * WordOf(i) + BitOf(i)
      <4>1. /\ i \div WordBits \in Nat /\ i % WordBits \in 0 .. WordBits - 1
            /\ i = WordBits * (i \div WordBits) + (i % WordBits)
        BY <2>1, <3>1, Division
      <4> QED BY <4>1, <2>1 DEF WordOf, BitOf
    <3> HIDE DEF q, A, r
    <3>3. PICK d \in Nat : WordOf(i) = q + d BY <2>2, <2>3, <2>4, <2>5, <3>2
    <3>4. WordBits * WordOf(i) = WordBits * q + WordBits * d
      BY <2>1, <2>2, <3>3
    <3>5. WordBits * q \in Nat /\ WordBits * d \in Nat BY <2>1, <2>2, <3>3
    <3> QED BY <2>2, <3>1, <3>2, <3>4, <3>5
  <2> QED BY <2>5 DEF Scanned
<1>2. PoolInv => FailsOnlyWhenFull
  BY <1>1 DEF PoolInv, SectionInv, FailsOnlyWhenFull, FreeIds
<1> QED BY <1>1, <1>2, PoolInvariant, PTL
=============================================================================
