------------------------------- MODULE IdPool -------------------------------
(***************************************************************************)
(* The bitmap of src/src/utils/bit_map.c as its two shared users work on   *)
(* it: the id pools (src/src/utils/id_pool.c), which lock to allocate and  *)
(* do not lock to free, and the kernel stack slots (src/src/task/thread.c),*)
(* which lock for both.                                                    *)
(*                                                                         *)
(* The kernel is compiled without optimisation, so a change of a bit is a  *)
(* load of its word, a change of the copy and a store, and a thread can be *)
(* preempted between the load and the store.                               *)
(***************************************************************************)
EXTENDS Naturals, FiniteSets

CONSTANTS
  Threads,
  TotalBits,     \* totalbits
  WordBits,      \* bits of an array element (32)
  FreeLocks      \* does freeing take the lock?

ASSUME IdPoolAssumption ==
  /\ TotalBits \in Nat \ {0} /\ WordBits \in Nat \ {0}
  /\ FreeLocks \in BOOLEAN

arraysize == (TotalBits + WordBits - 1) \div WordBits
Words == 0 .. arraysize - 1
Ids == 0 .. TotalBits - 1
WordOf(id) == id \div WordBits
BitOf(id) == id % WordBits

VARIABLES
  bitarray,  \* the set bits of each word
  lock,      \* the pool's lock
  pc,
  id,        \* the id a thread allocates or frees
  word,      \* its copy of the id's word
  users      \* history: how many users each id has

vars == <<bitarray, lock, pc, id, word, users>>

TypeOK ==
  /\ bitarray \in [Words -> SUBSET (0 .. WordBits - 1)]
  /\ lock \in BOOLEAN
  /\ pc \in [Threads -> {"idle", "a_lock", "a_find", "a_load", "a_store",
                         "a_done", "a_fail", "f_lock", "f_load", "f_store",
                         "f_done"}]
  /\ id \in [Threads -> Ids]
  /\ word \in [Threads -> SUBSET (0 .. WordBits - 1)]
  /\ users \in [Ids -> Nat]

\* bitmap_init
Init ==
  /\ bitarray = [w \in Words |-> {}]
  /\ lock = FALSE
  /\ pc = [t \in Threads |-> "idle"]
  /\ id = [t \in Threads |-> 0]
  /\ word = [t \in Threads |-> {}]
  /\ users = [i \in Ids |-> 0]

Step(t, from, to) == pc[t] = from /\ pc' = [pc EXCEPT ![t] = to]

\* Mutant: the lock is taken without a look at who has it.
LockBlindly(t, from, to) ==
  /\ Step(t, from, to)
  /\ lock' = TRUE
  /\ UNCHANGED <<bitarray, id, word, users>>

Lock(t, from, to) ==
  /\ Step(t, from, to)
  /\ ~lock /\ lock' = TRUE
  /\ UNCHANGED <<bitarray, id, word, users>>

Unlock(t, from) ==
  /\ Step(t, from, "idle")
  /\ lock' = FALSE
  /\ UNCHANGED <<bitarray, id, word, users>>

\* Mutant: an old copy of the word is changed.
LoadNothing(t, from, to) ==
  /\ Step(t, from, to)
  /\ UNCHANGED <<bitarray, lock, id, word, users>>

\* The first half of a |= or &= on the word of the id.
Load(t, from, to) ==
  /\ Step(t, from, to)
  /\ word' = [word EXCEPT ![t] = bitarray[WordOf(id[t])]]
  /\ UNCHANGED <<bitarray, lock, id, users>>

-----------------------------------------------------------------------------
(* Allocation: id_pool_allocate_id, bitmap_alloc_first_free *)

AllocCall(t) ==
  /\ Step(t, "idle", "a_lock")
  /\ UNCHANGED <<bitarray, lock, id, word, users>>

AllocLock(t) == Lock(t, "a_lock", "a_find")

\* Mutant: the last word is not scanned.
ScannedTooLittle == {i \in Ids : WordOf(i) < arraysize - 1}

\* What bitmap_find_first_free looks at: all bits of the words but the last,
\* and of the last as many as TotalBits has beyond a multiple of WordBits.
Scanned == {i \in Ids : \/ WordOf(i) < arraysize - 1
                        \/ BitOf(i) < TotalBits % WordBits}

FreeIds == {i \in Scanned : BitOf(i) \notin bitarray[WordOf(i)]}

FindFree(t) ==
  \E i \in FreeIds :
    /\ \A j \in FreeIds : i <= j
    /\ id' = [id EXCEPT ![t] = i]
    /\ Step(t, "a_find", "a_load")
    /\ UNCHANGED <<bitarray, lock, word, users>>

FindNone(t) ==
  /\ FreeIds = {}
  /\ Step(t, "a_find", "a_fail")
  /\ UNCHANGED <<bitarray, lock, id, word, users>>

SetLoad(t) == Load(t, "a_load", "a_store")

\* bitmap_set_bit's store; the id is the caller's.
SetStore(t) ==
  /\ Step(t, "a_store", "a_done")
  /\ bitarray' = [bitarray EXCEPT ![WordOf(id[t])] = word[t] \cup {BitOf(id[t])}]
  /\ users' = [users EXCEPT ![id[t]] = @ + 1]
  /\ UNCHANGED <<lock, id, word>>

AllocUnlock(t) == Unlock(t, "a_done") \/ Unlock(t, "a_fail")

-----------------------------------------------------------------------------
(* Release: id_pool_free_id without the lock, release_kernel_stack_slot with *)

\* The caller gives up an id in use; the clean thread frees what others used.
FreeCall(t) ==
  \E i \in Ids :
    /\ users[i] > 0
    /\ users' = [users EXCEPT ![i] = @ - 1]
    /\ id' = [id EXCEPT ![t] = i]
    /\ Step(t, "idle", IF FreeLocks THEN "f_lock" ELSE "f_load")
    /\ UNCHANGED <<bitarray, lock, word>>

FreeLock(t) == Lock(t, "f_lock", "f_load")

ClearLoad(t) == Load(t, "f_load", "f_store")

\* bitmap_clear_bit's store.
ClearStore(t) ==
  /\ Step(t, "f_store", IF FreeLocks THEN "f_done" ELSE "idle")
  /\ bitarray' = [bitarray EXCEPT ![WordOf(id[t])] = word[t] \ {BitOf(id[t])}]
  /\ UNCHANGED <<lock, id, word, users>>

FreeUnlock(t) == Unlock(t, "f_done")

-----------------------------------------------------------------------------
Next == \E t \in Threads :
          \/ AllocCall(t) \/ AllocLock(t) \/ FindFree(t) \/ FindNone(t)
          \/ SetLoad(t) \/ SetStore(t) \/ AllocUnlock(t)
          \/ FreeCall(t) \/ FreeLock(t) \/ ClearLoad(t) \/ ClearStore(t)
          \/ FreeUnlock(t)

Spec == Init /\ [][Next]_vars

-----------------------------------------------------------------------------
\* No id is given to two users: two threads would share a thread id or a
\* kernel stack.  id_pool.h:8 promises it for the id pools ("a thread-safe
\* pool"); the kernel stack slots keep it because they lock both ways.
UniqueIds == \A i \in Ids : users[i] <= 1

\* Nothing is lost either: an id that nobody uses, allocates or frees can be
\* found again, and an id in use cannot.
BitsExact ==
  \A i \in Ids :
    (\A t \in Threads : pc[t] = "idle" \/ id[t] # i) =>
      (users[i] > 0 <=> BitOf(i) \in bitarray[WordOf(i)])

\* An allocation fails only when every id is taken: bit_map.c:45 calls all bits
\* of a new bitmap unallocated, and thread.c:40 panics with "No free kernel
\* stack slots".
FailsOnlyWhenFull ==
  \A t \in Threads :
    pc[t] = "a_fail" => \A i \in Ids : BitOf(i) \in bitarray[WordOf(i)]
=============================================================================
