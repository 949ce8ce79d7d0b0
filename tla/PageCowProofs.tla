--------------------------- MODULE PageCowProofs ---------------------------
(***************************************************************************)
(* Theorems about PageCow, for every set of processes, pages, frames and   *)
(* values.                                                                 *)
(***************************************************************************)
EXTENDS PageCow, FiniteSetTheorems, TLAPS

\* Where handle_cow_fault has the shared frame, a private copy, the private
\* copy still to install, the private copy installed.
Faulting(p)  == pc[p] \in {"c_ref", "c_alloc", "c_lock", "c_map", "c_copy",
                           "c_unlock", "c_set", "c_unmap", "c_release"}
Pending(p)   == pc[p] \in {"c_lock", "c_map", "c_copy", "c_unlock", "c_set"}

Forking(p) == pc[p] \in {"f_lock", "f_table", "f_entry"}

\* Where page_copy_lock is held, and where COPIED_PAGE_VADDR is mapped.
Locked(p) == pc[p] \in {"c_map", "c_copy", "c_unlock", "f_table", "f_entry"}
Mapped(p) == pc[p] \in {"c_copy", "c_unlock", "c_set", "c_unmap"}

\* The local variables of a process are those of the function it is in.
LocalInv ==
  \A p \in Procs :
    /\ life[p] # "live" => pc[p] = "run"
    /\ pc[p] = "d_page" => va[p] \in Pages /\ ~Present(p, va[p])
    /\ IF Faulting(p) THEN va[p] \in Pages /\ frame[p] \in Frames
       ELSE frame[p] = None
    /\ IF Pending(p) \/ Installed(p) THEN cow_frame[p] \in Frames
       ELSE cow_frame[p] = None
    /\ Faulting(p) =>
         pte[p][va[p]].frame = IF Installed(p) THEN cow_frame[p] ELSE frame[p]

\* A child under construction has one parent, and is nobody's parent itself.
ChildInv ==
  /\ \A p \in Procs : IF Forking(p) THEN child[p] \in Procs /\ life[child[p]] = "new"
                      ELSE child[p] = None
  /\ \A p, q \in Procs : Forking(p) /\ Forking(q) /\ child[p] = child[q] => p = q

\* It has a copy of the entries that are done, and a process that is not there
\* maps nothing.
TableInv ==
  \A p \in Procs, v \in Pages :
    /\ life[p] \in {"none", "exit"} => pte[p][v] = NotPresent
    /\ pc[p] \in {"f_lock", "f_table"} => pte[child[p]][v] = NotPresent
    /\ pc[p] = "f_entry" /\ v \in todo[p] =>
         Present(p, v) /\ pte[child[p]][v] = NotPresent
    /\ pc[p] = "f_entry" /\ v \notin todo[p] =>
         pte[child[p]][v] = pte[p][v] /\ ~pte[p][v].rw

\* page_copy_lock has one holder, and one process uses COPIED_PAGE_VADDR.
CopyInv ==
  /\ \A p \in Procs : Locked(p) => copy_lock
  /\ \A p, q \in Procs : Locked(p) /\ Locked(q) => p = q
  /\ \A p \in Procs : Mapped(p) => copied = cow_frame[p]
  /\ \A p, q \in Procs : Mapped(p) /\ Mapped(q) => p = q

\* A frame is shared only at one address, and a private copy with nobody.
ShareInv ==
  /\ \A p, q \in Procs, v, w \in Pages :
       Present(p, v) /\ pte[p][v].frame = pte[q][w].frame => v = w
  /\ \A p, q \in Procs, v \in Pages : Pending(p) => pte[q][v].frame # cow_frame[p]
  /\ \A p, q \in Procs :
       Pending(p) /\ Pending(q) /\ cow_frame[p] = cow_frame[q] => p = q

\* The copy is a copy until it is installed.
ContentInv ==
  \A p \in Procs :
    pc[p] \in {"c_unlock", "c_set"} /\ va[p] \in UserPages =>
      content[cow_frame[p]] = content[frame[p]]

CowInv == /\ TypeOK /\ LocalInv /\ ChildInv /\ TableInv /\ CopyInv /\ ShareInv
          /\ ContentInv /\ RefCounts /\ WritableIsPrivate

-----------------------------------------------------------------------------
(* Page table entries, and counting the users of a frame *)

\* What a page table entry is: set_page_entry writes a frame and a flag.
LEMMA EntryFacts ==
  /\ NotPresent \in Entry /\ NotPresent.frame = None /\ NotPresent.rw = FALSE
  /\ \A e \in Entry : e.frame \in Frames \cup {None} /\ e.rw \in BOOLEAN
  /\ \A e \in Entry : e.frame = None /\ ~e.rw => e = NotPresent
  /\ \A f \in Frames \cup {None}, b \in BOOLEAN :
       LET e == [frame |-> f, rw |-> b] IN e \in Entry /\ e.frame = f /\ e.rw = b
  /\ EmptyTable \in [Pages -> Entry] /\ \A v \in Pages : EmptyTable[v] = NotPresent
BY DEF NotPresent, Entry, EmptyTable

\* One entry of one page table is written.
LEMMA TableUpdate ==
  ASSUME NEW t \in [Procs -> [Pages -> Entry]], NEW p \in Procs, NEW v \in Pages,
         NEW e \in Entry
  PROVE  LET u == [t EXCEPT ![p][v] = e]
         IN  /\ u \in [Procs -> [Pages -> Entry]]
             /\ \A q \in Procs, w \in Pages :
                  u[q][w] = IF q = p /\ w = v THEN e ELSE t[q][w]
OBVIOUS

\* What counts on a frame is finite.
LEMMA FiniteUsers ==
  /\ \A S \in SUBSET (Procs \X Pages) : IsFiniteSet(S) /\ Cardinality(S) \in Nat
  /\ \A S \in SUBSET Procs : IsFiniteSet(S) /\ Cardinality(S) \in Nat
<1>1. IsFiniteSet(Procs \X Pages) /\ IsFiniteSet(Procs)
  BY PageCowAssumption, FS_Product
<1> QED BY <1>1, FS_Subset, FS_CardinalityType

\* Counts that fit are natural numbers: release_phy_frame never goes below zero.
LEMMA RefsTyped ==
  ASSUME RefCounts', DOMAIN refs' = Frames, refs' = [f \in Frames |-> refs'[f]]
  PROVE  refs' \in [Frames -> Nat]
<1> SUFFICES ASSUME NEW f \in Frames PROVE refs'[f] \in Nat BY Zenon
<1>1. /\ Mappings(f)' \subseteq Procs \X Pages
      /\ Copiers(f)' \subseteq Procs /\ Leavers(f)' \subseteq Procs
  BY DEF Mappings, Copiers, Leavers
<1>2. /\ Cardinality(Mappings(f)') \in Nat /\ Cardinality(Copiers(f)') \in Nat
      /\ Cardinality(Leavers(f)') \in Nat
  BY <1>1, FiniteUsers
<1> QED BY <1>2 DEF RefCounts, Users

\* A step that changes nobody's use of a frame.
LEMMA UsersKept ==
  ASSUME RefCounts, UNCHANGED refs,
         \A q \in Procs, v \in Pages : pte'[q][v].frame = pte[q][v].frame,
         \A q \in Procs, f \in Frames :
           /\ cow_frame'[q] = f /\ ~Installed(q)' <=> cow_frame[q] = f /\ ~Installed(q)
           /\ frame'[q] = f /\ Installed(q)' <=> frame[q] = f /\ Installed(q)
  PROVE  RefCounts'
<1>1. ASSUME NEW f \in Frames
      PROVE  /\ Mappings(f)' = Mappings(f) /\ Copiers(f)' = Copiers(f)
             /\ Leavers(f)' = Leavers(f)
  BY DEF Mappings, Copiers, Leavers
<1> QED BY <1>1 DEF RefCounts, Users

\* A free frame has no user.
LEMMA FreeUnused ==
  ASSUME RefCounts, NEW f \in Free
  PROVE  /\ f \in Frames /\ refs[f] = 0
         /\ Mappings(f) = {} /\ Copiers(f) = {} /\ Leavers(f) = {}
         /\ \A q \in Procs, v \in Pages : pte[q][v].frame # f
<1>1. f \in Frames /\ refs[f] = 0 BY DEF Free
<1>2. /\ Mappings(f) \in SUBSET (Procs \X Pages)
      /\ Copiers(f) \in SUBSET Procs /\ Leavers(f) \in SUBSET Procs
  BY DEF Mappings, Copiers, Leavers
<1>3. /\ Cardinality(Mappings(f)) \in Nat /\ Cardinality(Copiers(f)) \in Nat
      /\ Cardinality(Leavers(f)) \in Nat
  BY <1>2, FiniteUsers
<1>4. /\ Cardinality(Mappings(f)) = 0 /\ Cardinality(Copiers(f)) = 0
      /\ Cardinality(Leavers(f)) = 0
  BY <1>1, <1>3 DEF RefCounts, Users
<1>5. Mappings(f) = {} /\ Copiers(f) = {} /\ Leavers(f) = {}
  BY <1>2, <1>4, FiniteUsers, FS_EmptySet
<1>6. ASSUME NEW q \in Procs, NEW v \in Pages PROVE pte[q][v].frame # f
  <2>1. <<q, v>> \notin Mappings(f) BY <1>5
  <2> QED BY <2>1 DEF Mappings
<1> QED BY <1>1, <1>5, <1>6

\* get_phy_frame_ref() == 1 on a mapped page: nobody else maps its frame.
LEMMA OnlyUser ==
  ASSUME RefCounts, NEW p \in Procs, NEW v \in Pages, NEW f \in Frames,
         pte[p][v].frame = f, refs[f] = 1, NEW q \in Procs, NEW w \in Pages,
         pte[q][w].frame = f
  PROVE  q = p /\ w = v
<1>1. /\ Mappings(f) \in SUBSET (Procs \X Pages)
      /\ Copiers(f) \in SUBSET Procs /\ Leavers(f) \in SUBSET Procs
  BY DEF Mappings, Copiers, Leavers
<1>2. /\ Cardinality(Mappings(f)) \in Nat /\ Cardinality(Copiers(f)) \in Nat
      /\ Cardinality(Leavers(f)) \in Nat /\ IsFiniteSet(Mappings(f))
  BY <1>1, FiniteUsers
<1>3. <<p, v>> \in Mappings(f) /\ <<q, w>> \in Mappings(f) BY DEF Mappings
<1>4. Cardinality(Mappings(f)) <= 1 BY <1>2 DEF RefCounts, Users
<1>5. Cardinality(Mappings(f)) # 0 BY <1>2, <1>3, FS_EmptySet
<1>6. Cardinality(Mappings(f)) = 1 BY <1>2, <1>4, <1>5
<1>7. \E x : Mappings(f) = {x} BY <1>2, <1>6, FS_Singleton
<1> QED BY <1>3, <1>7
\* The move of one user of frame a to frame b, and of one to those that are to
\* release a, leaves both counts as they are.
LEMMA CountsMoved ==
  ASSUME RefCounts, UNCHANGED refs, NEW a \in Frames, NEW b \in Frames, a # b,
         NEW m \in Procs \X Pages, NEW p \in Procs,
         \A f \in Frames :
           /\ Mappings(f)' = IF f = a THEN Mappings(f) \ {m}
                             ELSE IF f = b THEN Mappings(f) \cup {m} ELSE Mappings(f)
           /\ Copiers(f)' = IF f = b THEN Copiers(f) \ {p} ELSE Copiers(f)
           /\ Leavers(f)' = IF f = a THEN Leavers(f) \cup {p} ELSE Leavers(f),
         m \in Mappings(a), m \notin Mappings(b), p \in Copiers(b), p \notin Leavers(a)
  PROVE  RefCounts'
<1>1. ASSUME NEW f \in Frames
      PROVE  /\ IsFiniteSet(Mappings(f)) /\ Cardinality(Mappings(f)) \in Nat
             /\ IsFiniteSet(Copiers(f)) /\ Cardinality(Copiers(f)) \in Nat
             /\ IsFiniteSet(Leavers(f)) /\ Cardinality(Leavers(f)) \in Nat
  BY FiniteUsers DEF Mappings, Copiers, Leavers
<1>2. /\ Cardinality(Mappings(a) \ {m}) = Cardinality(Mappings(a)) - 1
      /\ Cardinality(Mappings(b) \cup {m}) = Cardinality(Mappings(b)) + 1
      /\ Cardinality(Copiers(b) \ {p}) = Cardinality(Copiers(b)) - 1
      /\ Cardinality(Leavers(a) \cup {p}) = Cardinality(Leavers(a)) + 1
  BY <1>1, FS_AddElement, FS_RemoveElement
<1>3. ASSUME NEW f \in Frames PROVE refs[f] = Users(f)'
  <2>1. CASE f = a
    <3>1. /\ Mappings(f)' = Mappings(f) \ {m} /\ Copiers(f)' = Copiers(f)
          /\ Leavers(f)' = Leavers(f) \cup {p}
      BY <2>1
    <3>2. /\ Cardinality(Mappings(f) \ {m}) = Cardinality(Mappings(f)) - 1
          /\ Cardinality(Leavers(f) \cup {p}) = Cardinality(Leavers(f)) + 1
      BY <1>2, <2>1
    <3> QED BY <1>1, <3>1, <3>2 DEF RefCounts, Users
  <2>2. CASE f = b
    <3>1. /\ Mappings(f)' = Mappings(f) \cup {m} /\ Copiers(f)' = Copiers(f) \ {p}
          /\ Leavers(f)' = Leavers(f)
      BY <2>2
    <3>2. /\ Cardinality(Mappings(f) \cup {m}) = Cardinality(Mappings(f)) + 1
          /\ Cardinality(Copiers(f) \ {p}) = Cardinality(Copiers(f)) - 1
      BY <1>2, <2>2
    <3> QED BY <1>1, <3>1, <3>2 DEF RefCounts, Users
  <2>3. CASE f # a /\ f # b BY <2>3 DEF RefCounts, Users
  <2> QED BY <2>1, <2>2, <2>3
<1> QED BY <1>3 DEF RefCounts

\* release_pages over a whole user space: every frame loses as many users as
\* the space maps it times.
LEMMA SpaceReleased ==
  ASSUME TypeOK, RefCounts, NEW p \in Procs,
         pte' = [pte EXCEPT ![p] = EmptyTable], refs' = PagesReleased(p),
         UNCHANGED <<frame, cow_frame>>,
         \A q \in Procs : Installed(q)' <=> Installed(q)
  PROVE  RefCounts'
<1> SUFFICES ASSUME NEW f \in Frames PROVE refs'[f] = Users(f)' BY DEF RefCounts
<1> DEFINE V == {v \in Pages : pte[p][v].frame = f}
<1>1. Copiers(f)' = Copiers(f) /\ Leavers(f)' = Leavers(f) BY DEF Copiers, Leavers
<1>2. Mappings(f)' = Mappings(f) \ ({p} \X V)
  <2>1. \A q \in Procs, v \in Pages :
          pte'[q][v].frame = IF q = p THEN None ELSE pte[q][v].frame
    BY EntryFacts DEF TypeOK
  <2> QED BY <2>1, PageCowAssumption DEF Mappings
<1>3. Mappings(f) \cap ({p} \X V) = {p} \X V BY DEF Mappings
<1>4. IsFiniteSet(V) /\ Cardinality(V) \in Nat
  BY PageCowAssumption, FS_Subset, FS_CardinalityType
<1>5. refs'[f] = refs[f] - Cardinality(V) BY DEF PagesReleased
<1> HIDE DEF V
<1>6. Cardinality({p} \X V) = Cardinality(V)
  <2>1. Cardinality({p} \X V) = Cardinality({p}) * Cardinality(V)
    BY <1>4, FS_Singleton, FS_Product
  <2>2. Cardinality({p}) = 1 BY FS_Singleton
  <2> QED BY <1>4, <2>1, <2>2
<1>7. /\ IsFiniteSet(Mappings(f)) /\ Cardinality(Mappings(f)) \in Nat
      /\ Cardinality(Copiers(f)) \in Nat /\ Cardinality(Leavers(f)) \in Nat
  BY FiniteUsers DEF Mappings, Copiers, Leavers
<1>8. Cardinality(Mappings(f)') = Cardinality(Mappings(f)) - Cardinality(V)
  <2> DEFINE M == Mappings(f)
             T == {p} \X V
  <2>1. IsFiniteSet(M) /\ Mappings(f)' = M \ T /\ M \cap T = T BY <1>2, <1>3, <1>7
  <2> HIDE DEF M, T
  <2>2. Cardinality(M \ T) = Cardinality(M) - Cardinality(T)
    BY <2>1, FS_Difference
  <2> QED BY <1>6, <2>1, <2>2 DEF M, T
<1> QED BY <1>1, <1>4, <1>5, <1>7, <1>8 DEF RefCounts, Users

-----------------------------------------------------------------------------
(* The steps *)

\* pagefault_handler on a page that is not present.
LEMMA PageFaultStep ==
  ASSUME CowInv, NEW p \in Procs, NEW v \in Pages, PageFault(p, v)
  PROVE  CowInv'
<1> USE PageCowAssumption, EntryFacts DEF CowInv, PageFault, At, Goto, memVars, cowVars, forkVars, copyVars
<1>1. RefCounts' BY UsersKept DEF TypeOK, LocalInv, Faulting, Pending, Installed
<1>2. TypeOK' BY DEF TypeOK, Labels
<1>3. LocalInv' BY DEF TypeOK, LocalInv, Present, Faulting, Pending, Installed
<1>4. ChildInv' BY DEF TypeOK, LocalInv, ChildInv, Forking
<1>5. TableInv' BY DEF TypeOK, LocalInv, ChildInv, TableInv, Forking, Present
<1>6. CopyInv'
  BY DEF TypeOK, LocalInv, CopyInv, Locked, Mapped, Faulting, Pending, Installed
<1>7. ShareInv'
  BY DEF TypeOK, LocalInv, ShareInv, Present, Faulting, Pending, Installed
<1>8. ContentInv'
  BY DEF TypeOK, LocalInv, ContentInv, Faulting, Pending, Installed
<1>9. WritableIsPrivate' BY DEF TypeOK, WritableIsPrivate, Present
<1> QED BY <1>1, <1>2, <1>3, <1>4, <1>5, <1>6, <1>7, <1>8, <1>9

\* pagefault_handler on a page that is read-only.
LEMMA WriteFaultStep ==
  ASSUME CowInv, NEW p \in Procs, NEW v \in Pages, WriteFault(p, v)
  PROVE  CowInv'
<1> USE PageCowAssumption, EntryFacts DEF CowInv, WriteFault, At, Goto, memVars, cowVars, forkVars, copyVars
<1>1. RefCounts' BY UsersKept DEF TypeOK, LocalInv, Faulting, Pending, Installed
<1>2. TypeOK' BY DEF TypeOK, Labels
<1>3. LocalInv' BY DEF TypeOK, LocalInv, Present, Faulting, Pending, Installed
<1>4. ChildInv' BY DEF TypeOK, LocalInv, ChildInv, Forking
<1>5. TableInv' BY DEF TypeOK, LocalInv, ChildInv, TableInv, Forking, Present
<1>6. CopyInv'
  BY DEF TypeOK, LocalInv, CopyInv, Locked, Mapped, Faulting, Pending, Installed
<1>7. ShareInv'
  BY DEF TypeOK, LocalInv, ShareInv, Present, Faulting, Pending, Installed
<1>8. ContentInv'
  BY DEF TypeOK, LocalInv, ContentInv, Faulting, Pending, Installed
<1>9. WritableIsPrivate' BY DEF TypeOK, WritableIsPrivate, Present
<1> QED BY <1>1, <1>2, <1>3, <1>4, <1>5, <1>6, <1>7, <1>8, <1>9

\* The last user of a frame takes it over: nobody else maps it by then.
LEMMA CowOwnerStep ==
  ASSUME CowInv, NEW p \in Procs, CowOwner(p)
  PROVE  CowInv'
<1> USE PageCowAssumption, EntryFacts DEF CowInv, CowOwner, LastUser, At, Goto, memVars, cowVars, forkVars, copyVars
<1> DEFINE e == [frame |-> frame[p], rw |-> TRUE]
<1>a. /\ va[p] \in Pages /\ frame[p] \in Frames /\ pte[p][va[p]] \in Entry
      /\ pte[p][va[p]].frame = frame[p]
  BY DEF TypeOK, LocalInv, Faulting, Installed
<1>b. UNCHANGED <<refs, content, life, cow_frame, child, todo, copy_lock, copied, panic>>
  OBVIOUS
<1>c. pte' = [pte EXCEPT ![p][va[p]] = e] BY <1>a
<1>d. e \in Entry /\ e.frame = frame[p] /\ e.rw = TRUE BY <1>a
<1> HIDE DEF e
<1>e. pte' \in [Procs -> [Pages -> Entry]]
  <2> HIDE DEF CowOwner
  <2> QED BY <1>a, <1>c, <1>d DEF TypeOK
<1>1. RefCounts' BY UsersKept DEF TypeOK, LocalInv, Faulting, Pending, Installed
<1>2. TypeOK' BY <1>e DEF TypeOK, Labels
<1>3. LocalInv' BY DEF TypeOK, LocalInv, Present, Faulting, Pending, Installed
<1>4. ChildInv' BY DEF TypeOK, LocalInv, ChildInv, Forking
<1>5. TableInv' BY DEF TypeOK, LocalInv, ChildInv, TableInv, Forking, Present
<1>6. CopyInv'
  BY DEF TypeOK, LocalInv, CopyInv, Locked, Mapped, Faulting, Pending, Installed
<1>7. ShareInv'
  BY DEF TypeOK, LocalInv, ShareInv, Present, Faulting, Pending, Installed
<1>8. ContentInv'
  BY DEF TypeOK, LocalInv, ContentInv, Faulting, Pending, Installed
<1>9. WritableIsPrivate'
  <2>1. \A q \in Procs, w \in Pages :
          /\ pte'[q][w].frame = pte[q][w].frame
          /\ pte'[q][w].rw => pte[q][w].rw \/ (q = p /\ w = va[p])
    BY <1>a, <1>c, <1>d DEF TypeOK
  <2>2. \A q \in Procs, w \in Pages :
          pte[q][w].frame = frame[p] => q = p /\ w = va[p]
    BY <1>a, OnlyUser
  <2> QED BY <1>a, <2>1, <2>2 DEF WritableIsPrivate, Present
<1> QED BY <1>1, <1>2, <1>3, <1>4, <1>5, <1>6, <1>7, <1>8, <1>9

\* A frame with other users is to be copied.
LEMMA CowSharedStep ==
  ASSUME CowInv, NEW p \in Procs, CowShared(p)
  PROVE  CowInv'
<1> USE PageCowAssumption, EntryFacts DEF CowInv, CowShared, At, Goto, memVars, cowVars, forkVars, copyVars
<1>1. RefCounts' BY UsersKept DEF TypeOK, LocalInv, Faulting, Pending, Installed
<1>2. TypeOK' BY DEF TypeOK, Labels
<1>3. LocalInv' BY DEF TypeOK, LocalInv, Present, Faulting, Pending, Installed
<1>4. ChildInv' BY DEF TypeOK, LocalInv, ChildInv, Forking
<1>5. TableInv' BY DEF TypeOK, LocalInv, ChildInv, TableInv, Forking, Present
<1>6. CopyInv'
  BY DEF TypeOK, LocalInv, CopyInv, Locked, Mapped, Faulting, Pending, Installed
<1>7. ShareInv'
  BY DEF TypeOK, LocalInv, ShareInv, Present, Faulting, Pending, Installed
<1>8. ContentInv'
  BY DEF TypeOK, LocalInv, ContentInv, Faulting, Pending, Installed
<1>9. WritableIsPrivate' BY DEF TypeOK, WritableIsPrivate, Present
<1> QED BY <1>1, <1>2, <1>3, <1>4, <1>5, <1>6, <1>7, <1>8, <1>9

\* page_copy_lock is free when a copy starts.
LEMMA CowLockStep ==
  ASSUME CowInv, NEW p \in Procs, CowLock(p)
  PROVE  CowInv'
<1> USE PageCowAssumption, EntryFacts DEF CowInv, CowLock, LockCopy, At, Goto, memVars, cowVars, forkVars, copyVars
<1>1. RefCounts' BY UsersKept DEF TypeOK, LocalInv, Faulting, Pending, Installed
<1>2. TypeOK' BY DEF TypeOK, Labels
<1>3. LocalInv' BY DEF TypeOK, LocalInv, Present, Faulting, Pending, Installed
<1>4. ChildInv' BY DEF TypeOK, LocalInv, ChildInv, Forking
<1>5. TableInv' BY DEF TypeOK, LocalInv, ChildInv, TableInv, Forking, Present
<1>6. CopyInv'
  BY DEF TypeOK, LocalInv, CopyInv, Locked, Mapped, Faulting, Pending, Installed
<1>7. ShareInv'
  BY DEF TypeOK, LocalInv, ShareInv, Present, Faulting, Pending, Installed
<1>8. ContentInv'
  BY DEF TypeOK, LocalInv, ContentInv, Faulting, Pending, Installed
<1>9. WritableIsPrivate' BY DEF TypeOK, WritableIsPrivate, Present
<1> QED BY <1>1, <1>2, <1>3, <1>4, <1>5, <1>6, <1>7, <1>8, <1>9

\* The copy goes into the frame of the process that makes it.
LEMMA CowCopyStep ==
  ASSUME CowInv, NEW p \in Procs, CowCopy(p)
  PROVE  CowInv'
<1> USE PageCowAssumption, EntryFacts DEF CowInv, CowCopy, At, Goto, memVars, cowVars, forkVars, copyVars
<1>a. /\ va[p] \in Pages /\ frame[p] \in Frames /\ cow_frame[p] \in Frames
      /\ pte[p][va[p]].frame = frame[p] /\ copied = cow_frame[p]
      /\ frame[p] # cow_frame[p]
  <2>1. pc[p] = "c_copy" /\ Mapped(p) /\ Pending(p) BY DEF Mapped, Pending
  <2>2. /\ va[p] \in Pages /\ frame[p] \in Frames /\ cow_frame[p] \in Frames
        /\ pte[p][va[p]].frame = frame[p]
    BY <2>1 DEF LocalInv, Faulting, Pending, Installed
  <2> QED BY <2>1, <2>2 DEF CopyInv, ShareInv
<1>b. content' = [content EXCEPT ![cow_frame[p]] = content[frame[p]]] BY <1>a
<1>1. RefCounts' BY UsersKept DEF TypeOK, LocalInv, Faulting, Pending, Installed
<1>2. TypeOK' BY <1>a, <1>b DEF TypeOK, Labels
<1>3. LocalInv' BY DEF TypeOK, LocalInv, Present, Faulting, Pending, Installed
<1>4. ChildInv' BY DEF TypeOK, LocalInv, ChildInv, Forking
<1>5. TableInv' BY DEF TypeOK, LocalInv, ChildInv, TableInv, Forking, Present
<1>6. CopyInv'
  BY DEF TypeOK, LocalInv, CopyInv, Locked, Mapped, Faulting, Pending, Installed
<1>7. ShareInv'
  BY DEF TypeOK, LocalInv, ShareInv, Present, Faulting, Pending, Installed
<1>8. ContentInv'
  <2> SUFFICES ASSUME NEW q \in Procs, pc'[q] \in {"c_unlock", "c_set"}
               PROVE  content'[cow_frame[q]] = content'[frame[q]]
    BY DEF ContentInv
  <2>1. q = p BY DEF TypeOK, CopyInv, Mapped
  <2> QED BY <1>a, <1>b, <2>1 DEF TypeOK
<1>9. WritableIsPrivate' BY DEF TypeOK, WritableIsPrivate, Present
<1> QED BY <1>1, <1>2, <1>3, <1>4, <1>5, <1>6, <1>7, <1>8, <1>9

\* page_copy_lock is released while COPIED_PAGE_VADDR is still mapped.
LEMMA CowUnlockStep ==
  ASSUME CowInv, NEW p \in Procs, CowUnlock(p)
  PROVE  CowInv'
<1> USE PageCowAssumption, EntryFacts DEF CowInv, CowUnlock, At, Goto, memVars, cowVars, forkVars, copyVars
<1>1. RefCounts' BY UsersKept DEF TypeOK, LocalInv, Faulting, Pending, Installed
<1>2. TypeOK' BY DEF TypeOK, Labels
<1>3. LocalInv' BY DEF TypeOK, LocalInv, Present, Faulting, Pending, Installed
<1>4. ChildInv' BY DEF TypeOK, LocalInv, ChildInv, Forking
<1>5. TableInv' BY DEF TypeOK, LocalInv, ChildInv, TableInv, Forking, Present
<1>6. CopyInv'
  BY DEF TypeOK, LocalInv, CopyInv, Locked, Mapped, Faulting, Pending, Installed
<1>7. ShareInv'
  BY DEF TypeOK, LocalInv, ShareInv, Present, Faulting, Pending, Installed
<1>8. ContentInv'
  BY DEF TypeOK, LocalInv, ContentInv, Faulting, Pending, Installed
<1>9. WritableIsPrivate' BY DEF TypeOK, WritableIsPrivate, Present
<1> QED BY <1>1, <1>2, <1>3, <1>4, <1>5, <1>6, <1>7, <1>8, <1>9

\* The copy is installed: a frame that nobody else has.
LEMMA CowSetStep ==
  ASSUME CowInv, NEW p \in Procs, CowSet(p)
  PROVE  CowInv'
<1> USE PageCowAssumption, EntryFacts DEF CowInv, CowSet, At, Goto, memVars, cowVars, forkVars, copyVars
<1> DEFINE a == frame[p]
           b == cow_frame[p]
<1>a. /\ pc[p] = "c_set" /\ va[p] \in Pages /\ a \in Frames /\ b \in Frames
      /\ pte[p][va[p]].frame = a /\ a # b
      /\ \A q \in Procs, w \in Pages : pte[q][w].frame # b
      /\ pte' = [pte EXCEPT ![p][va[p]] = [frame |-> b, rw |-> TRUE]]
  BY DEF LocalInv, ShareInv, Faulting, Pending, Installed
<1>1. RefCounts'
  <2>1. /\ \A q \in Procs : q # p => (Installed(q)' <=> Installed(q))
        /\ ~Installed(p) /\ Installed(p)'
    BY <1>a DEF TypeOK, Installed
  <2>2. \A q \in Procs, w \in Pages :
          pte'[q][w].frame = IF q = p /\ w = va[p] THEN b ELSE pte[q][w].frame
    BY <1>a DEF TypeOK
  <2>3. ASSUME NEW f \in Frames
        PROVE  /\ Mappings(f)' = IF f = a THEN Mappings(f) \ {<<p, va[p]>>}
                                 ELSE IF f = b THEN Mappings(f) \cup {<<p, va[p]>>}
                                 ELSE Mappings(f)
               /\ Copiers(f)' = IF f = b THEN Copiers(f) \ {p} ELSE Copiers(f)
               /\ Leavers(f)' = IF f = a THEN Leavers(f) \cup {p} ELSE Leavers(f)
    <3>1. Copiers(f)' = IF f = b THEN Copiers(f) \ {p} ELSE Copiers(f)
      BY <2>1 DEF Copiers
    <3>2. Leavers(f)' = IF f = a THEN Leavers(f) \cup {p} ELSE Leavers(f)
      BY <2>1 DEF Leavers
    <3>3. Mappings(f)' = IF f = a THEN Mappings(f) \ {<<p, va[p]>>}
                         ELSE IF f = b THEN Mappings(f) \cup {<<p, va[p]>>}
                         ELSE Mappings(f)
      BY <1>a, <2>2 DEF Mappings
    <3> QED BY <3>1, <3>2, <3>3
  <2>4. /\ <<p, va[p]>> \in Mappings(a) /\ <<p, va[p]>> \notin Mappings(b)
        /\ p \in Copiers(b) /\ p \notin Leavers(a) /\ <<p, va[p]>> \in Procs \X Pages
    BY <1>a, <2>1 DEF Mappings, Copiers, Leavers
  <2> HIDE DEF a, b
  <2> QED BY <1>a, <2>3, <2>4, CountsMoved
<1>2. TypeOK' BY DEF TypeOK, Labels
<1>3. LocalInv' BY DEF TypeOK, LocalInv, Present, Faulting, Pending, Installed
<1>4. ChildInv' BY DEF TypeOK, LocalInv, ChildInv, Forking
<1>5. TableInv' BY DEF TypeOK, LocalInv, ChildInv, TableInv, Forking, Present
<1>6. CopyInv'
  BY DEF TypeOK, LocalInv, CopyInv, Locked, Mapped, Faulting, Pending, Installed
<1>7. ShareInv'
  BY DEF TypeOK, LocalInv, ShareInv, Present, Faulting, Pending, Installed
<1>8. ContentInv'
  BY DEF TypeOK, LocalInv, ContentInv, Faulting, Pending, Installed
<1>9. WritableIsPrivate'
  <2>1. \A q \in Procs, w \in Pages :
          /\ ~(q = p /\ w = va[p]) => pte'[q][w] = pte[q][w]
          /\ q = p /\ w = va[p] => pte'[q][w].frame = b
    BY <1>a DEF TypeOK
  <2> QED BY <1>a, <2>1 DEF WritableIsPrivate, Present
<1> QED BY <1>1, <1>2, <1>3, <1>4, <1>5, <1>6, <1>7, <1>8, <1>9

\* release_pages of COPIED_PAGE_VADDR.
LEMMA CowUnmapStep ==
  ASSUME CowInv, NEW p \in Procs, CowUnmap(p)
  PROVE  CowInv'
<1> USE PageCowAssumption, EntryFacts DEF CowInv, CowUnmap, At, Goto, memVars, cowVars, forkVars, copyVars
<1>1. RefCounts' BY UsersKept DEF TypeOK, LocalInv, Faulting, Pending, Installed
<1>2. TypeOK' BY DEF TypeOK, Labels
<1>3. LocalInv' BY DEF TypeOK, LocalInv, Present, Faulting, Pending, Installed
<1>4. ChildInv' BY DEF TypeOK, LocalInv, ChildInv, Forking
<1>5. TableInv' BY DEF TypeOK, LocalInv, ChildInv, TableInv, Forking, Present
<1>6. CopyInv'
  BY DEF TypeOK, LocalInv, CopyInv, Locked, Mapped, Faulting, Pending, Installed
<1>7. ShareInv'
  BY DEF TypeOK, LocalInv, ShareInv, Present, Faulting, Pending, Installed
<1>8. ContentInv'
  BY DEF TypeOK, LocalInv, ContentInv, Faulting, Pending, Installed
<1>9. WritableIsPrivate' BY DEF TypeOK, WritableIsPrivate, Present
<1> QED BY <1>1, <1>2, <1>3, <1>4, <1>5, <1>6, <1>7, <1>8, <1>9

\* The shared frame loses one user.
LEMMA CowReleaseStep ==
  ASSUME CowInv, NEW p \in Procs, CowRelease(p)
  PROVE  CowInv'
<1> USE PageCowAssumption, EntryFacts DEF CowInv, CowRelease, Released, At, Goto, memVars, cowVars, forkVars, copyVars
<1> DEFINE a == frame[p]
<1>a. /\ pc[p] = "c_release" /\ a \in Frames /\ refs \in [Frames -> Nat]
      /\ refs' = [refs EXCEPT ![a] = @ - 1]
  BY DEF TypeOK, LocalInv, Faulting
<1>1. RefCounts'
  <2>1. /\ \A q \in Procs : q # p => (Installed(q)' <=> Installed(q))
        /\ Installed(p) /\ ~Installed(p)' /\ cow_frame'[p] = None /\ frame'[p] = None
        /\ \A q \in Procs : q # p => cow_frame'[q] = cow_frame[q] /\ frame'[q] = frame[q]
    BY <1>a DEF TypeOK, Installed
  <2>2. ASSUME NEW f \in Frames
        PROVE  /\ Mappings(f)' = Mappings(f) /\ Copiers(f)' = Copiers(f)
               /\ Leavers(f)' = IF f = a THEN Leavers(f) \ {p} ELSE Leavers(f)
    BY <2>1 DEF Mappings, Copiers, Leavers
  <2>3. p \in Leavers(a) BY <1>a, <2>1 DEF Leavers
  <2> HIDE DEF a
  <2>4. Cardinality(Leavers(a) \ {p}) = Cardinality(Leavers(a)) - 1
    BY <2>3, FiniteUsers, FS_RemoveElement DEF Leavers
  <2>5. ASSUME NEW f \in Frames
        PROVE  /\ Cardinality(Mappings(f)) \in Nat /\ Cardinality(Copiers(f)) \in Nat
               /\ Cardinality(Leavers(f)) \in Nat
    BY FiniteUsers DEF Mappings, Copiers, Leavers
  <2>6. ASSUME NEW f \in Frames PROVE refs'[f] = Users(f)'
    <3>1. CASE f = a
      <4>1. Cardinality(Leavers(f) \ {p}) = Cardinality(Leavers(f)) - 1 BY <2>4, <3>1
      <4>2. refs'[f] = refs[f] - 1 /\ refs[f] = Users(f) BY <1>a, <3>1 DEF RefCounts
      <4>3. /\ Mappings(f)' = Mappings(f) /\ Copiers(f)' = Copiers(f)
            /\ Leavers(f)' = Leavers(f) \ {p}
        BY <2>2, <3>1
      <4> QED BY <2>5, <4>1, <4>2, <4>3 DEF Users
    <3>2. CASE f # a BY <1>a, <2>2, <3>2 DEF RefCounts, Users
    <3> QED BY <3>1, <3>2
  <2> QED BY <2>6 DEF RefCounts
<1>2. TypeOK'
  <2>1. refs' \in [Frames -> Nat] BY <1>1, <1>a, RefsTyped
  <2> QED BY <2>1 DEF TypeOK, Labels
<1>3. LocalInv' BY DEF TypeOK, LocalInv, Present, Faulting, Pending, Installed
<1>4. ChildInv' BY DEF TypeOK, LocalInv, ChildInv, Forking
<1>5. TableInv' BY DEF TypeOK, LocalInv, ChildInv, TableInv, Forking, Present
<1>6. CopyInv'
  BY DEF TypeOK, LocalInv, CopyInv, Locked, Mapped, Faulting, Pending, Installed
<1>7. ShareInv'
  BY DEF TypeOK, LocalInv, ShareInv, Present, Faulting, Pending, Installed
<1>8. ContentInv'
  BY DEF TypeOK, LocalInv, ContentInv, Faulting, Pending, Installed
<1>9. WritableIsPrivate' BY DEF TypeOK, WritableIsPrivate, Present
<1> QED BY <1>1, <1>2, <1>3, <1>4, <1>5, <1>6, <1>7, <1>8, <1>9

\* page_copy_lock is free when a page directory is cloned.
LEMMA ForkLockStep ==
  ASSUME CowInv, NEW p \in Procs, ForkLock(p)
  PROVE  CowInv'
<1> USE PageCowAssumption, EntryFacts DEF CowInv, ForkLock, LockCopy, At, Goto, memVars, cowVars, forkVars, copyVars
<1>1. RefCounts' BY UsersKept DEF TypeOK, LocalInv, Faulting, Pending, Installed
<1>2. TypeOK' BY DEF TypeOK, Labels
<1>3. LocalInv' BY DEF TypeOK, LocalInv, Present, Faulting, Pending, Installed
<1>4. ChildInv' BY DEF TypeOK, LocalInv, ChildInv, Forking
<1>5. TableInv' BY DEF TypeOK, LocalInv, ChildInv, TableInv, Forking, Present
<1>6. CopyInv'
  BY DEF TypeOK, LocalInv, CopyInv, Locked, Mapped, Faulting, Pending, Installed
<1>7. ShareInv'
  BY DEF TypeOK, LocalInv, ShareInv, Present, Faulting, Pending, Installed
<1>8. ContentInv'
  BY DEF TypeOK, LocalInv, ContentInv, Faulting, Pending, Installed
<1>9. WritableIsPrivate' BY DEF TypeOK, WritableIsPrivate, Present
<1> QED BY <1>1, <1>2, <1>3, <1>4, <1>5, <1>6, <1>7, <1>8, <1>9

\* One entry of the parent becomes one of the child, read-only in both.
LEMMA ForkEntryStep ==
  ASSUME CowInv, NEW p \in Procs, ForkEntry(p)
  PROVE  CowInv'
<1> USE PageCowAssumption, EntryFacts DEF CowInv, ForkEntry, At, Goto, memVars, cowVars, forkVars, copyVars
<1> DEFINE c == child[p]
<1>a. PICK v \in todo[p] :
        LET e == [frame |-> pte[p][v].frame, rw |-> FALSE] IN
        /\ pte' = [pte EXCEPT ![p][v] = e, ![child[p]][v] = e]
        /\ refs' = [refs EXCEPT ![e.frame] = @ + 1]
        /\ todo' = [todo EXCEPT ![p] = @ \ {v}]
  OBVIOUS
<1> DEFINE a == pte[p][v].frame
           e == [frame |-> a, rw |-> FALSE]
<1>b. /\ pc[p] = "f_entry" /\ c \in Procs /\ life[c] = "new" /\ c # p /\ pc[c] = "run"
      /\ v \in Pages /\ a \in Frames /\ pte[c][v] = NotPresent
  <2>1. pc[p] = "f_entry" /\ c \in Procs /\ life[c] = "new"
    BY DEF ChildInv, Forking
  <2>2. v \in Pages BY <1>a DEF TypeOK
  <2> QED BY <1>a, <2>1, <2>2 DEF TypeOK, TableInv, LocalInv, Present
<1>c. e \in Entry /\ e.frame = a /\ e.rw = FALSE BY <1>b
<1>d. pte' = [pte EXCEPT ![p][v] = e, ![c][v] = e] /\ refs' = [refs EXCEPT ![a] = @ + 1]
  BY <1>a, <1>c
<1>h. /\ UNCHANGED <<content, life, pc, va, frame, cow_frame, child, copy_lock, copied>>
      /\ UNCHANGED panic /\ todo' = [todo EXCEPT ![p] = @ \ {v}]
  BY <1>a
<1> HIDE DEF e, a, c, ForkEntry
<1>e. /\ pte' \in [Procs -> [Pages -> Entry]]
      /\ \A q \in Procs, w \in Pages :
           pte'[q][w] = IF q \in {p, c} /\ w = v THEN e ELSE pte[q][w]
  <2> DEFINE g == [pte EXCEPT ![p][v] = e]
  <2>1. pte' = [g EXCEPT ![c][v] = e] BY <1>d
  <2>2. /\ g \in [Procs -> [Pages -> Entry]]
        /\ \A q \in Procs, w \in Pages :
             g[q][w] = IF q = p /\ w = v THEN e ELSE pte[q][w]
    BY <1>b, <1>c, TableUpdate DEF TypeOK
  <2> HIDE DEF g
  <2> QED BY <1>b, <1>c, <2>1, <2>2, TableUpdate
<1>g. \A q \in Procs, w \in Pages :
        pte'[q][w].frame = IF q = c /\ w = v THEN a ELSE pte[q][w].frame
  BY <1>b, <1>c, <1>e DEF a
<1>1. RefCounts'
  <2>1. ASSUME NEW f \in Frames
        PROVE  /\ Mappings(f)' = IF f = a THEN Mappings(f) \cup {<<c, v>>} ELSE Mappings(f)
               /\ Copiers(f)' = Copiers(f) /\ Leavers(f)' = Leavers(f)
    <3>1. Mappings(f)' = IF f = a THEN Mappings(f) \cup {<<c, v>>} ELSE Mappings(f)
      BY <1>b, <1>g DEF Mappings
    <3> QED BY <1>h, <3>1 DEF Copiers, Leavers, Installed
  <2>2. <<c, v>> \notin Mappings(a) BY <1>b DEF Mappings
  <2>3. Cardinality(Mappings(a) \cup {<<c, v>>}) = Cardinality(Mappings(a)) + 1
    <3>1. IsFiniteSet(Mappings(a)) BY FiniteUsers DEF Mappings
    <3> QED BY <2>2, <3>1, FS_AddElement
  <2>4. ASSUME NEW f \in Frames
        PROVE  /\ Cardinality(Mappings(f)) \in Nat /\ Cardinality(Copiers(f)) \in Nat
               /\ Cardinality(Leavers(f)) \in Nat
    BY FiniteUsers DEF Mappings, Copiers, Leavers
  <2>5. ASSUME NEW f \in Frames PROVE refs'[f] = Users(f)'
    <3>1. CASE f = a
      <4>1. Cardinality(Mappings(f) \cup {<<c, v>>}) = Cardinality(Mappings(f)) + 1
        BY <2>3, <3>1
      <4>2. refs'[f] = refs[f] + 1 BY <1>d, <3>1 DEF TypeOK
      <4>3. /\ Mappings(f)' = Mappings(f) \cup {<<c, v>>} /\ Copiers(f)' = Copiers(f)
            /\ Leavers(f)' = Leavers(f) /\ refs[f] = Users(f)
        BY <2>1, <3>1 DEF RefCounts
      <4> QED BY <2>4, <4>1, <4>2, <4>3 DEF Users
    <3>2. CASE f # a BY <1>d, <2>1, <3>2 DEF TypeOK, RefCounts, Users
    <3> QED BY <3>1, <3>2
  <2> QED BY <2>5 DEF RefCounts
<1>2. TypeOK'
  <2>1. refs' \in [Frames -> Nat] BY <1>b, <1>d DEF TypeOK
  <2>2. todo' \in [Procs -> SUBSET Pages] BY <1>h DEF TypeOK
  <2> QED BY <1>e, <1>h, <2>1, <2>2 DEF TypeOK
<1>3. LocalInv' BY <1>b, <1>g, <1>h DEF LocalInv, Present, Faulting, Pending, Installed
<1>4. ChildInv' BY <1>h DEF ChildInv, Forking
<1>5. TableInv'
  <2> SUFFICES ASSUME NEW q \in Procs, NEW w \in Pages
               PROVE  /\ life[q] \in {"none", "exit"} => pte'[q][w] = NotPresent
                      /\ pc[q] \in {"f_lock", "f_table"} => pte'[child[q]][w] = NotPresent
                      /\ pc[q] = "f_entry" /\ w \in todo'[q] =>
                           pte'[q][w].frame # None /\ pte'[child[q]][w] = NotPresent
                      /\ pc[q] = "f_entry" /\ w \notin todo'[q] =>
                           pte'[child[q]][w] = pte'[q][w] /\ ~pte'[q][w].rw
    BY <1>h DEF TableInv, Present
  <2>1. CASE q = p
    BY <1>b, <1>c, <1>e, <1>g, <1>h, <2>1 DEF TypeOK, TableInv, Present, c
  <2>2. CASE q # p
    <3>1. life[q] \in {"none", "exit"} => q # c BY <1>b
    <3>2. Forking(q) => child[q] \in Procs /\ child[q] \notin {p, c} /\ q # c
      <4>1. Forking(p) /\ life[p] # "new" BY <1>b DEF Forking, ForkEntry
      <4> QED BY <1>b, <2>2, <4>1 DEF ChildInv, Forking, c
    <3> QED BY <1>e, <1>h, <2>2, <3>1, <3>2 DEF TypeOK, TableInv, Present, Forking
  <2> QED BY <2>1, <2>2
<1>6. CopyInv' BY <1>h DEF CopyInv, Locked, Mapped
<1>7. ShareInv'
  <2>1. Present(p, v) BY <1>b DEF Present, a
  <2>2. \A q \in Procs, w \in Pages : Present(q, w)' => pte'[q][w].frame # None
    BY DEF Present
  <2>3. \A q \in Procs, w \in Pages :
          pte'[q][w].frame # None =>
            \E r \in Procs : Present(r, w) /\ pte[r][w].frame = pte'[q][w].frame
    BY <1>b, <1>g, <2>1 DEF Present, a
  <2>4. \A q \in Procs : Pending(q)' <=> Pending(q) BY <1>h DEF Pending
  <2>5. \A q \in Procs : Pending(q) => cow_frame[q] # None
    BY DEF LocalInv
  <2>6. ASSUME NEW q \in Procs, NEW r \in Procs, NEW w \in Pages, NEW x \in Pages,
               Present(q, w)', pte'[q][w].frame = pte'[r][x].frame
        PROVE  w = x
    BY <2>2, <2>3, <2>6 DEF ShareInv
  <2>7. ASSUME NEW q \in Procs, NEW r \in Procs, NEW w \in Pages, Pending(q)
        PROVE  pte'[r][w].frame # cow_frame[q]
    BY <2>3, <2>5, <2>7 DEF ShareInv
  <2> QED BY <1>h, <2>4, <2>6, <2>7 DEF ShareInv
<1>8. ContentInv' BY <1>h DEF ContentInv
<1>9. WritableIsPrivate'
  <2>1. \A q \in Procs, w \in Pages : pte'[q][w].rw =>
          pte[q][w].rw /\ ~(w = v /\ q \in {p, c}) /\ pte'[q][w].frame = pte[q][w].frame
    BY <1>b, <1>c, <1>e
  <2>2. \A q \in Procs, w \in Pages : pte[q][w].rw /\ pte[q][w].frame = a => q = p /\ w = v
    BY <1>b DEF WritableIsPrivate, a
  <2> QED BY <1>b, <1>g, <2>1, <2>2 DEF WritableIsPrivate, Present
<1> QED BY <1>1, <1>2, <1>3, <1>4, <1>5, <1>6, <1>7, <1>8, <1>9

\* The child starts.
LEMMA ForkDoneStep ==
  ASSUME CowInv, NEW p \in Procs, ForkDone(p)
  PROVE  CowInv'
<1> USE PageCowAssumption, EntryFacts DEF CowInv, ForkDone, At, Goto, memVars, cowVars, forkVars, copyVars
<1>1. RefCounts' BY UsersKept DEF TypeOK, LocalInv, Faulting, Pending, Installed
<1>2. TypeOK' BY DEF TypeOK, Labels
<1>3. LocalInv' BY DEF TypeOK, LocalInv, Present, Faulting, Pending, Installed
<1>4. ChildInv' BY DEF TypeOK, LocalInv, ChildInv, Forking
<1>5. TableInv' BY DEF TypeOK, LocalInv, ChildInv, TableInv, Forking, Present
<1>6. CopyInv'
  BY DEF TypeOK, LocalInv, CopyInv, Locked, Mapped, Faulting, Pending, Installed
<1>7. ShareInv'
  BY DEF TypeOK, LocalInv, ShareInv, Present, Faulting, Pending, Installed
<1>8. ContentInv'
  BY DEF TypeOK, LocalInv, ContentInv, Faulting, Pending, Installed
<1>9. WritableIsPrivate' BY DEF TypeOK, WritableIsPrivate, Present
<1> QED BY <1>1, <1>2, <1>3, <1>4, <1>5, <1>6, <1>7, <1>8, <1>9

\* process_exit releases the user space.
LEMMA ExitSpaceStep ==
  ASSUME CowInv, NEW p \in Procs, ExitSpace(p)
  PROVE  CowInv'
<1> USE PageCowAssumption, EntryFacts DEF CowInv, ExitSpace, At, Goto, memVars, cowVars, forkVars, copyVars
<1>a. /\ pte' = [pte EXCEPT ![p] = EmptyTable] /\ refs' = PagesReleased(p)
      /\ pc[p] = "run" /\ UNCHANGED <<frame, cow_frame>>
  OBVIOUS
<1>b. \A q \in Procs : Installed(q)' <=> Installed(q) BY <1>a DEF TypeOK, Installed
<1>1. RefCounts' BY <1>a, <1>b, SpaceReleased
<1>2. TypeOK'
  <2>1. refs' \in [Frames -> Nat] BY <1>1, <1>a, RefsTyped DEF PagesReleased
  <2> QED BY <1>a, <2>1 DEF TypeOK, Labels
<1>3. LocalInv' BY DEF TypeOK, LocalInv, Present, Faulting, Pending, Installed
<1>4. ChildInv' BY DEF TypeOK, LocalInv, ChildInv, Forking
<1>5. TableInv' BY DEF TypeOK, LocalInv, ChildInv, TableInv, Forking, Present
<1>6. CopyInv'
  BY DEF TypeOK, LocalInv, CopyInv, Locked, Mapped, Faulting, Pending, Installed
<1>7. ShareInv'
  BY DEF TypeOK, LocalInv, ShareInv, Present, Faulting, Pending, Installed
<1>8. ContentInv'
  BY DEF TypeOK, LocalInv, ContentInv, Faulting, Pending, Installed
<1>9. WritableIsPrivate' BY DEF TypeOK, WritableIsPrivate, Present
<1> QED BY <1>1, <1>2, <1>3, <1>4, <1>5, <1>6, <1>7, <1>8, <1>9

\* process_exec empties the user space.
LEMMA ExecStep ==
  ASSUME CowInv, NEW p \in Procs, Exec(p)
  PROVE  CowInv'
<1> USE PageCowAssumption, EntryFacts DEF CowInv, Exec, At, Goto, memVars, cowVars, forkVars, copyVars
<1>a. /\ pte' = [pte EXCEPT ![p] = EmptyTable] /\ refs' = PagesReleased(p)
      /\ pc[p] = "run" /\ UNCHANGED <<frame, cow_frame>>
  OBVIOUS
<1>b. \A q \in Procs : Installed(q)' <=> Installed(q) BY <1>a DEF TypeOK, Installed
<1>1. RefCounts' BY <1>a, <1>b, SpaceReleased
<1>2. TypeOK'
  <2>1. refs' \in [Frames -> Nat] BY <1>1, <1>a, RefsTyped DEF PagesReleased
  <2> QED BY <1>a, <2>1 DEF TypeOK, Labels
<1>3. LocalInv' BY DEF TypeOK, LocalInv, Present, Faulting, Pending, Installed
<1>4. ChildInv' BY DEF TypeOK, LocalInv, ChildInv, Forking
<1>5. TableInv' BY DEF TypeOK, LocalInv, ChildInv, TableInv, Forking, Present
<1>6. CopyInv'
  BY DEF TypeOK, LocalInv, CopyInv, Locked, Mapped, Faulting, Pending, Installed
<1>7. ShareInv'
  BY DEF TypeOK, LocalInv, ShareInv, Present, Faulting, Pending, Installed
<1>8. ContentInv'
  BY DEF TypeOK, LocalInv, ContentInv, Faulting, Pending, Installed
<1>9. WritableIsPrivate' BY DEF TypeOK, WritableIsPrivate, Present
<1> QED BY <1>1, <1>2, <1>3, <1>4, <1>5, <1>6, <1>7, <1>8, <1>9

\* destroy_process frees the slot of a process that maps nothing.
LEMMA DestroyStep ==
  ASSUME CowInv, NEW p \in Procs, destroy_process(p)
  PROVE  CowInv'
<1> USE PageCowAssumption, EntryFacts DEF CowInv, destroy_process, At, Goto, memVars, cowVars, forkVars, copyVars
<1>1. RefCounts' BY UsersKept DEF TypeOK, LocalInv, Faulting, Pending, Installed
<1>2. TypeOK' BY DEF TypeOK, Labels
<1>3. LocalInv' BY DEF TypeOK, LocalInv, Present, Faulting, Pending, Installed
<1>4. ChildInv' BY DEF TypeOK, LocalInv, ChildInv, Forking
<1>5. TableInv' BY DEF TypeOK, LocalInv, ChildInv, TableInv, Forking, Present
<1>6. CopyInv'
  BY DEF TypeOK, LocalInv, CopyInv, Locked, Mapped, Faulting, Pending, Installed
<1>7. ShareInv'
  BY DEF TypeOK, LocalInv, ShareInv, Present, Faulting, Pending, Installed
<1>8. ContentInv'
  BY DEF TypeOK, LocalInv, ContentInv, Faulting, Pending, Installed
<1>9. WritableIsPrivate' BY DEF TypeOK, WritableIsPrivate, Present
<1> QED BY <1>1, <1>2, <1>3, <1>4, <1>5, <1>6, <1>7, <1>8, <1>9

\* A store into a writable page: nobody else's page.
LEMMA UserWriteStep ==
  ASSUME CowInv, NEW p \in Procs, NEW v \in Pages, NEW x \in Values, UserWrite(p, v, x)
  PROVE  CowInv'
<1> USE PageCowAssumption, EntryFacts DEF CowInv, UserWrite, Store, At, Goto, memVars, cowVars, forkVars, copyVars
<1>1. RefCounts' BY UsersKept DEF TypeOK, LocalInv, Faulting, Pending, Installed
<1>2. TypeOK' BY DEF TypeOK, Labels
<1>3. LocalInv' BY DEF TypeOK, LocalInv, Present, Faulting, Pending, Installed
<1>4. ChildInv' BY DEF TypeOK, LocalInv, ChildInv, Forking
<1>5. TableInv' BY DEF TypeOK, LocalInv, ChildInv, TableInv, Forking, Present
<1>6. CopyInv'
  BY DEF TypeOK, LocalInv, CopyInv, Locked, Mapped, Faulting, Pending, Installed
<1>7. ShareInv'
  BY DEF TypeOK, LocalInv, ShareInv, Present, Faulting, Pending, Installed
<1>8. ContentInv'
  <2> SUFFICES ASSUME NEW q \in Procs, pc[q] \in {"c_unlock", "c_set"},
                      va[q] \in UserPages
               PROVE  content'[cow_frame[q]] = content'[frame[q]]
    BY DEF ContentInv
  <2>1. /\ cow_frame[q] \in Frames /\ frame[q] \in Frames /\ va[q] \in Pages
        /\ pte[q][va[q]].frame = frame[q] /\ cow_frame[q] # pte[p][v].frame
    BY DEF LocalInv, ShareInv, Faulting, Pending, Installed
  <2>2. frame[q] # pte[p][v].frame
    BY <2>1 DEF WritableIsPrivate, Present
  <2> QED BY <2>1, <2>2 DEF TypeOK, ContentInv
<1>9. WritableIsPrivate' BY DEF TypeOK, WritableIsPrivate, Present
<1> QED BY <1>1, <1>2, <1>3, <1>4, <1>5, <1>6, <1>7, <1>8, <1>9

\* A store of the kernel, into a page that may be shared.
LEMMA KernelWriteStep ==
  ASSUME CowInv, NEW p \in Procs, NEW v \in Pages, NEW x \in Values, KernelWrite(p, v, x)
  PROVE  CowInv'
<1> USE PageCowAssumption, EntryFacts DEF CowInv, KernelWrite, Store, At, Goto, memVars, cowVars, forkVars, copyVars
<1>1. RefCounts' BY UsersKept DEF TypeOK, LocalInv, Faulting, Pending, Installed
<1>2. TypeOK' BY DEF TypeOK, Labels
<1>3. LocalInv' BY DEF TypeOK, LocalInv, Present, Faulting, Pending, Installed
<1>4. ChildInv' BY DEF TypeOK, LocalInv, ChildInv, Forking
<1>5. TableInv' BY DEF TypeOK, LocalInv, ChildInv, TableInv, Forking, Present
<1>6. CopyInv'
  BY DEF TypeOK, LocalInv, CopyInv, Locked, Mapped, Faulting, Pending, Installed
<1>7. ShareInv'
  BY DEF TypeOK, LocalInv, ShareInv, Present, Faulting, Pending, Installed
<1>8. ContentInv'
  <2> SUFFICES ASSUME NEW q \in Procs, pc[q] \in {"c_unlock", "c_set"},
                      va[q] \in UserPages
               PROVE  content'[cow_frame[q]] = content'[frame[q]]
    BY DEF ContentInv
  <2>1. /\ cow_frame[q] \in Frames /\ frame[q] \in Frames /\ va[q] \in Pages
        /\ pte[q][va[q]].frame = frame[q] /\ cow_frame[q] # pte[p][v].frame
    BY DEF LocalInv, ShareInv, Faulting, Pending, Installed
  <2>2. frame[q] # pte[p][v].frame
    BY <2>1 DEF ShareInv, Present, UserPages
  <2> QED BY <2>1, <2>2 DEF TypeOK, ContentInv
<1>9. WritableIsPrivate' BY DEF TypeOK, WritableIsPrivate, Present
<1> QED BY <1>1, <1>2, <1>3, <1>4, <1>5, <1>6, <1>7, <1>8, <1>9

\* A kernel that halts leaves its memory as it is.
LEMMA HaltStep ==
  ASSUME CowInv, UNCHANGED <<memVars, pc, cowVars, forkVars, copyVars>>,
         panic' \in {"none", "copied_page_mapped", "no_frame"}
  PROVE  CowInv'
<1> USE DEF memVars, cowVars, forkVars, copyVars
<1>1. TypeOK' BY DEF CowInv, TypeOK
<1>2. LocalInv' /\ ContentInv' /\ CopyInv' /\ ShareInv'
  BY DEF CowInv, LocalInv, ContentInv, CopyInv, ShareInv, Present, Faulting, Pending,
         Installed, Locked, Mapped
<1>3. ChildInv' /\ TableInv' BY DEF CowInv, ChildInv, TableInv, Forking, Present
<1>4. RefCounts' BY UsersKept DEF CowInv, Installed
<1>5. WritableIsPrivate' BY DEF CowInv, WritableIsPrivate, Present
<1> QED BY <1>1, <1>2, <1>3, <1>4, <1>5 DEF CowInv

\* A frame for a page that is not present: a free frame has no other user.
LEMMA MapFrame ==
  ASSUME CowInv, NEW p \in Procs, NEW f \in Free, At(p, "d_page"),
         refs' = Taken(f), content' = [content EXCEPT ![f] = Zero],
         NEW e \in Entry, e.frame = f, e.rw = TRUE,
         pte' = [pte EXCEPT ![p][va[p]] = e],
         va' = [va EXCEPT ![p] = None], Goto(p, "run"),
         UNCHANGED <<life, frame, cow_frame, forkVars, copyVars, panic>>
  PROVE  CowInv'
<1> USE PageCowAssumption, EntryFacts DEF CowInv, At, Goto, forkVars, copyVars, Taken
<1>a. /\ f \in Frames /\ refs[f] = 0 /\ Mappings(f) = {} /\ Copiers(f) = {}
      /\ Leavers(f) = {} /\ \A q \in Procs, w \in Pages : pte[q][w].frame # f
  BY FreeUnused
<1>b. pc[p] = "d_page" /\ va[p] \in Pages /\ pte[p][va[p]].frame = None
  BY DEF LocalInv, Present
<1>e. /\ pte' \in [Procs -> [Pages -> Entry]]
      /\ \A q \in Procs, w \in Pages :
           pte'[q][w] = IF q = p /\ w = va[p] THEN e ELSE pte[q][w]
  BY <1>b, TableUpdate DEF TypeOK
<1>f. \A q \in Procs : Pending(q) => cow_frame[q] # f
  BY <1>a DEF Copiers, Pending, Installed
<1>1. RefCounts'
  <2>1. \A q \in Procs : Installed(q)' <=> Installed(q) BY <1>b DEF TypeOK, Installed
  <2>2. ASSUME NEW h \in Frames, h # f
        PROVE  /\ Mappings(h)' = Mappings(h) /\ Copiers(h)' = Copiers(h)
               /\ Leavers(h)' = Leavers(h)
    BY <1>b, <1>e, <2>1, <2>2 DEF Mappings, Copiers, Leavers
  <2>3. /\ Mappings(f)' = {<<p, va[p]>>} /\ Copiers(f)' = {} /\ Leavers(f)' = {}
    <3>1. Copiers(f)' = {} /\ Leavers(f)' = {}
      BY <1>a, <2>1 DEF Copiers, Leavers
    <3>2. Mappings(f)' = {<<p, va[p]>>}
      BY <1>a, <1>b, <1>e DEF Mappings
    <3> QED BY <3>1, <3>2
  <2>4. Cardinality({<<p, va[p]>>}) = 1 /\ Cardinality({}) = 0
    BY FS_Singleton, FS_EmptySet
  <2>5. refs'[f] = Users(f)' BY <1>a, <2>3, <2>4 DEF TypeOK, Users
  <2>6. ASSUME NEW h \in Frames, h # f PROVE refs'[h] = Users(h)'
    BY <2>2, <2>6 DEF TypeOK, RefCounts, Users
  <2> QED BY <2>5, <2>6 DEF RefCounts
<1>2. TypeOK' BY <1>a, <1>e DEF TypeOK, Labels
<1>3. LocalInv'
  BY <1>a, <1>b, <1>e DEF TypeOK, LocalInv, Present, Faulting, Pending, Installed
<1>4. ChildInv' BY DEF TypeOK, LocalInv, ChildInv, Forking
<1>5. TableInv'
  <2>1. life[p] = "live" /\ ~Forking(p) BY <1>b DEF Forking
  <2>2. \A q \in Procs : Forking(q) => child[q] \in Procs /\ child[q] # p /\ q # p
    BY <2>1 DEF ChildInv
  <2> QED BY <1>b, <1>e, <2>1, <2>2 DEF TypeOK, TableInv, Forking, Present
<1>6. CopyInv'
  BY DEF TypeOK, LocalInv, CopyInv, Locked, Mapped, Faulting, Pending, Installed
<1>7. ShareInv'
  <2>1. \A q \in Procs : (Pending(q)' <=> Pending(q)) /\ cow_frame'[q] = cow_frame[q]
    BY <1>b DEF TypeOK, Pending
  <2>2. \A q \in Procs, w \in Pages :
          pte'[q][w].frame = IF q = p /\ w = va[p] THEN f ELSE pte[q][w].frame
    BY <1>e
  <2> QED BY <1>a, <1>f, <2>1, <2>2 DEF ShareInv, Present
<1>8. ContentInv'
  <2>1. ASSUME NEW q \in Procs, pc'[q] \in {"c_unlock", "c_set"}
        PROVE  /\ q # p /\ pc[q] = pc'[q] /\ cow_frame[q] \in Frames /\ cow_frame[q] # f
               /\ frame[q] \in Frames /\ frame[q] # f /\ va'[q] = va[q]
    <3>1. q # p /\ pc[q] = pc'[q] BY <2>1 DEF TypeOK
    <3>2. Pending(q) /\ Faulting(q) /\ ~Installed(q)
      BY <2>1, <3>1 DEF Pending, Faulting, Installed
    <3>3. /\ cow_frame[q] \in Frames /\ frame[q] \in Frames /\ va[q] \in Pages
          /\ pte[q][va[q]].frame = frame[q]
      BY <3>2 DEF LocalInv
    <3>4. va'[q] = va[q] BY <3>1 DEF TypeOK
    <3> QED BY <1>a, <1>f, <3>1, <3>2, <3>3, <3>4
  <2> QED BY <1>a, <2>1 DEF TypeOK, ContentInv
<1>9. WritableIsPrivate' BY <1>a, <1>e DEF WritableIsPrivate, Present
<1> QED BY <1>1, <1>2, <1>3, <1>4, <1>5, <1>6, <1>7, <1>8, <1>9

\* alloc_phy_frame for the private copy.
LEMMA CopyFrame ==
  ASSUME CowInv, NEW p \in Procs, NEW f \in Free, At(p, "c_alloc"),
         refs' = Taken(f), cow_frame' = [cow_frame EXCEPT ![p] = f],
         Goto(p, "c_lock"),
         UNCHANGED <<content, pte, life, va, frame, forkVars, copyVars, panic>>
  PROVE  CowInv'
<1> USE PageCowAssumption DEF CowInv, At, Goto, forkVars, copyVars, Taken
<1>a. /\ f \in Frames /\ refs[f] = 0 /\ Mappings(f) = {} /\ Copiers(f) = {}
      /\ Leavers(f) = {} /\ \A q \in Procs, w \in Pages : pte[q][w].frame # f
  BY FreeUnused
<1>b. pc[p] = "c_alloc" /\ cow_frame[p] = None
  BY DEF LocalInv, Pending, Installed
<1>f. \A q \in Procs : Pending(q) => cow_frame[q] # f
  BY <1>a DEF Copiers, Pending, Installed
<1>1. RefCounts'
  <2>1. \A q \in Procs : Installed(q)' <=> Installed(q) BY <1>b DEF TypeOK, Installed
  <2>2. ASSUME NEW h \in Frames, h # f
        PROVE  /\ Mappings(h)' = Mappings(h) /\ Copiers(h)' = Copiers(h)
               /\ Leavers(h)' = Leavers(h)
    BY <1>b, <2>1, <2>2 DEF TypeOK, Mappings, Copiers, Leavers
  <2>3. Mappings(f)' = {} /\ Copiers(f)' = {p} /\ Leavers(f)' = {}
    <3>1. Mappings(f)' = {} /\ Leavers(f)' = {}
      BY <1>a, <2>1 DEF Mappings, Leavers
    <3>2. Copiers(f)' = {p}
      BY <1>a, <1>b, <2>1 DEF TypeOK, Copiers, Installed
    <3> QED BY <3>1, <3>2
  <2>4. Cardinality({p}) = 1 /\ Cardinality({}) = 0 BY FS_Singleton, FS_EmptySet
  <2>5. refs'[f] = Users(f)' BY <1>a, <2>3, <2>4 DEF TypeOK, Users
  <2>6. ASSUME NEW h \in Frames, h # f PROVE refs'[h] = Users(h)'
    BY <2>2, <2>6 DEF TypeOK, RefCounts, Users
  <2> QED BY <2>5, <2>6 DEF RefCounts
<1>2. TypeOK' BY <1>a DEF TypeOK, Labels
<1>3. LocalInv'
  BY <1>a, <1>b DEF TypeOK, LocalInv, Present, Faulting, Pending, Installed
<1>4. ChildInv' BY DEF TypeOK, LocalInv, ChildInv, Forking
<1>5. TableInv' BY DEF TypeOK, LocalInv, ChildInv, TableInv, Forking, Present
<1>6. CopyInv'
  BY DEF TypeOK, LocalInv, CopyInv, Locked, Mapped, Faulting, Pending, Installed
<1>7. ShareInv'
  BY <1>a, <1>b, <1>f DEF TypeOK, LocalInv, ShareInv, Present, Faulting, Pending, Installed
<1>8. ContentInv'
  BY DEF TypeOK, LocalInv, ContentInv, Faulting, Pending, Installed
<1>9. WritableIsPrivate' BY DEF TypeOK, WritableIsPrivate, Present
<1> QED BY <1>1, <1>2, <1>3, <1>4, <1>5, <1>6, <1>7, <1>8, <1>9

\* The private copy is mapped where no other copy is.
LEMMA CopyMap ==
  ASSUME CowInv, NEW p \in Procs, At(p, "c_map"), copied = None,
         copied' = cow_frame[p], Goto(p, "c_copy"),
         UNCHANGED <<memVars, cowVars, forkVars, copy_lock, panic>>
  PROVE  CowInv'
<1> USE PageCowAssumption, EntryFacts DEF CowInv, At, Goto, memVars, cowVars, forkVars
<1>1. RefCounts' BY UsersKept DEF TypeOK, LocalInv, Faulting, Pending, Installed
<1>2. TypeOK' BY DEF TypeOK, Labels
<1>3. LocalInv' BY DEF TypeOK, LocalInv, Present, Faulting, Pending, Installed
<1>4. ChildInv' BY DEF TypeOK, LocalInv, ChildInv, Forking
<1>5. TableInv' BY DEF TypeOK, LocalInv, ChildInv, TableInv, Forking, Present
<1>6. CopyInv'
  BY DEF TypeOK, LocalInv, CopyInv, Locked, Mapped, Faulting, Pending, Installed
<1>7. ShareInv'
  BY DEF TypeOK, LocalInv, ShareInv, Present, Faulting, Pending, Installed
<1>8. ContentInv'
  BY DEF TypeOK, LocalInv, ContentInv, Faulting, Pending, Installed
<1>9. WritableIsPrivate' BY DEF TypeOK, WritableIsPrivate, Present
<1> QED BY <1>1, <1>2, <1>3, <1>4, <1>5, <1>6, <1>7, <1>8, <1>9

\* A slot that is not used becomes the child of fork.
LEMMA NewChild ==
  ASSUME CowInv, NEW p \in Procs, NEW q \in Procs, At(p, "run"), life[q] = "none",
         life' = [life EXCEPT ![q] = "new"], child' = [child EXCEPT ![p] = q],
         Goto(p, "f_lock"),
         UNCHANGED <<refs, content, pte, cowVars, todo, copyVars, panic>>
  PROVE  CowInv'
<1> USE PageCowAssumption DEF CowInv, At, Goto, cowVars, copyVars
<1>1. RefCounts' BY UsersKept DEF TypeOK, LocalInv, Faulting, Pending, Installed
<1>2. TypeOK' BY DEF TypeOK, Labels
<1>3. LocalInv' BY DEF TypeOK, LocalInv, Present, Faulting, Pending, Installed
<1>4. ChildInv' BY DEF TypeOK, LocalInv, ChildInv, Forking
<1>5. TableInv' BY DEF TypeOK, LocalInv, ChildInv, TableInv, Forking, Present
<1>6. CopyInv'
  BY DEF TypeOK, LocalInv, CopyInv, Locked, Mapped, Faulting, Pending, Installed
<1>7. ShareInv'
  BY DEF TypeOK, LocalInv, ShareInv, Present, Faulting, Pending, Installed
<1>8. ContentInv'
  BY DEF TypeOK, LocalInv, ContentInv, Faulting, Pending, Installed
<1>9. WritableIsPrivate' BY DEF TypeOK, WritableIsPrivate, Present
<1> QED BY <1>1, <1>2, <1>3, <1>4, <1>5, <1>6, <1>7, <1>8, <1>9

\* The parent's page table is copied with all of its entries to do.
LEMMA NewTable ==
  ASSUME CowInv, NEW p \in Procs, At(p, "f_table"),
         todo' = [todo EXCEPT ![p] = {v \in Pages : Present(p, v)}],
         Goto(p, "f_entry"),
         UNCHANGED <<memVars, cowVars, child, copyVars, panic>>
  PROVE  CowInv'
<1> USE PageCowAssumption, EntryFacts DEF CowInv, At, Goto, memVars, cowVars, copyVars
<1>1. RefCounts' BY UsersKept DEF TypeOK, LocalInv, Faulting, Pending, Installed
<1>2. TypeOK' BY DEF TypeOK, Labels
<1>3. LocalInv' BY DEF TypeOK, LocalInv, Present, Faulting, Pending, Installed
<1>4. ChildInv' BY DEF TypeOK, LocalInv, ChildInv, Forking
<1>5. TableInv'
  <2>1. \A v \in Pages : ~Present(p, v) => pte[p][v] = NotPresent /\ ~pte[p][v].rw
    BY DEF TypeOK, WritableIsPrivate, Present
  <2>2. \A q \in Procs : q # p => todo'[q] = todo[q] /\ pc'[q] = pc[q] BY DEF TypeOK
  <2>3. todo'[p] = {v \in Pages : Present(p, v)} /\ pc'[p] = "f_entry" BY DEF TypeOK
  <2> QED BY <2>1, <2>2, <2>3 DEF TableInv, Present
<1>6. CopyInv'
  BY DEF TypeOK, LocalInv, CopyInv, Locked, Mapped, Faulting, Pending, Installed
<1>7. ShareInv'
  BY DEF TypeOK, LocalInv, ShareInv, Present, Faulting, Pending, Installed
<1>8. ContentInv'
  BY DEF TypeOK, LocalInv, ContentInv, Faulting, Pending, Installed
<1>9. WritableIsPrivate' BY DEF TypeOK, WritableIsPrivate, Present
<1> QED BY <1>1, <1>2, <1>3, <1>4, <1>5, <1>6, <1>7, <1>8, <1>9
-----------------------------------------------------------------------------
(* The theorems *)

\* The exec of init starts with no frame in use.
LEMMA CowInit ==
  ASSUME Init
  PROVE  CowInv
<1> USE PageCowAssumption, EntryFacts DEF Init
<1>1. TypeOK
  <2>1. va \in [Procs -> Pages \cup {None}] OBVIOUS
  <2>2. pte \in [Procs -> [Pages -> Entry]] OBVIOUS
  <2>3. life \in [Procs -> {"none", "new", "live", "exit"}] /\ pc \in [Procs -> Labels]
    BY DEF Labels
  <2> QED BY <2>1, <2>2, <2>3 DEF TypeOK
<1>2. \A p \in Procs, v \in Pages : pte[p][v] = NotPresent /\ ~Present(p, v)
  BY DEF Present
<1>3. LocalInv BY <1>2 DEF LocalInv, Faulting, Pending, Installed
<1>4. ChildInv /\ TableInv BY <1>2 DEF ChildInv, TableInv, Forking
<1>5. CopyInv /\ ShareInv /\ ContentInv
  BY <1>2 DEF CopyInv, ShareInv, ContentInv, Locked, Mapped, Pending
<1>6. WritableIsPrivate BY <1>2 DEF WritableIsPrivate
<1>7. RefCounts
  <2> SUFFICES ASSUME NEW f \in Frames PROVE refs[f] = Users(f) BY DEF RefCounts
  <2>1. Mappings(f) = {} /\ Copiers(f) = {} /\ Leavers(f) = {}
    BY <1>2 DEF Mappings, Copiers, Leavers
  <2> QED BY <2>1, FS_EmptySet DEF Users
<1> QED BY <1>1, <1>3, <1>4, <1>5, <1>6, <1>7 DEF CowInv

\* alloc_phy_frame fails: the kernel halts.
LEMMA NoFrameStep ==
  ASSUME CowInv, OutOfFrames
  PROVE  CowInv'
BY HaltStep DEF OutOfFrames

\* Every step of every process keeps the invariant.
LEMMA CowStep ==
  ASSUME CowInv, [Next]_vars
  PROVE  CowInv'
<1> HIDE DEF CowInv
<1>1. CASE UNCHANGED vars
  <2>1. panic \in {"none", "copied_page_mapped", "no_frame"} BY DEF CowInv, TypeOK
  <2> QED BY <1>1, <2>1, HaltStep DEF vars
<1>2. ASSUME NEW p \in Procs, Access(p) PROVE CowInv'
  BY <1>2, PageFaultStep, WriteFaultStep, UserWriteStep, KernelWriteStep DEF Access
<1>3. ASSUME NEW p \in Procs, MapPage(p) PROVE CowInv'
  <2>1. ASSUME NEW f \in Free, refs' = Taken(f), content' = [content EXCEPT ![f] = Zero],
               pte' = [pte EXCEPT ![p][va[p]] = [frame |-> f, rw |-> TRUE]],
               va' = [va EXCEPT ![p] = None], Goto(p, "run"),
               UNCHANGED <<life, frame, cow_frame, forkVars, copyVars, panic>>
        PROVE  CowInv'
    <3> DEFINE e == [frame |-> f, rw |-> TRUE]
    <3>1. e \in Entry /\ e.frame = f /\ e.rw = TRUE BY EntryFacts DEF Free
    <3>2. pte' = [pte EXCEPT ![p][va[p]] = e] BY <2>1
    <3>3. At(p, "d_page") BY <1>3 DEF MapPage
    <3> HIDE DEF e
    <3> QED BY <2>1, <3>1, <3>2, <3>3, MapFrame
  <2> QED BY <1>3, <2>1, NoFrameStep DEF MapPage, NoFrame
<1>4. ASSUME NEW p \in Procs, CowAlloc(p) PROVE CowInv'
  BY <1>4, CopyFrame, NoFrameStep DEF CowAlloc, NoFrame
<1>5. ASSUME NEW p \in Procs, CowMap(p) PROVE CowInv'
  BY <1>5, CopyMap, HaltStep DEF CowMap
<1>6. ASSUME NEW p \in Procs, Fault(p) PROVE CowInv'
  BY <1>3, <1>4, <1>5, <1>6, CowOwnerStep, CowSharedStep, CowLockStep, CowCopyStep,
     CowUnlockStep, CowSetStep, CowUnmapStep, CowReleaseStep DEF Fault
<1>7. ASSUME NEW p \in Procs, Fork(p) PROVE CowInv'
  <2>1. CASE ForkDir(p) BY <2>1, NewChild, NoFrameStep DEF ForkDir
  <2>2. CASE ForkTable(p) BY <2>2, NewTable, NoFrameStep DEF ForkTable
  <2> QED BY <1>7, <2>1, <2>2, ForkLockStep, ForkEntryStep, ForkDoneStep DEF Fork
<1> QED
  BY <1>1, <1>2, <1>6, <1>7, ExecStep, ExitSpaceStep, DestroyStep DEF Next, Halted

\* The invariant: what every function of page.c that a process can be in has
\* and holds, and what of it others can see.
THEOREM CowInvariant == Spec => []CowInv
<1>1. Init => CowInv BY CowInit
<1>2. CowInv /\ [Next]_vars => CowInv' BY CowStep
<1> QED BY <1>1, <1>2, PTL DEF Spec

\* phy_frames_array counts the users of every frame exactly, in any
\* interleaving of faults, forks, execs and exits.
THEOREM CountsExact == Spec => []RefCounts
<1>1. CowInv => RefCounts BY DEF CowInv
<1> QED BY <1>1, CowInvariant, PTL

\* No page that a process may write is mapped by another process, or twice.
THEOREM WritersAlone == Spec => []WritableIsPrivate
<1>1. CowInv => WritableIsPrivate BY DEF CowInv
<1> QED BY <1>1, CowInvariant, PTL

-----------------------------------------------------------------------------
(* Copy-on-write implements private memory *)

\* What process p reads in page v.
Reads(p, v) ==
  IF life[p] = "live" /\ Present(p, v) THEN content[pte[p][v].frame] ELSE Zero

\* A step after which everybody reads what it read before.
LEMMA MemoryKept ==
  ASSUME \A q \in Procs, v \in UserPages : Reads(q, v)' = Reads(q, v)
  PROVE  Memory' = Memory
BY DEF Memory, Reads

\* A step that leaves frames and page tables alone.
LEMMA MemoryAlone ==
  ASSUME UNCHANGED <<content, pte, life>>
  PROVE  Memory' = Memory
BY DEF Memory, Present

\* The first access to a page finds zeros there.
LEMMA MemoryMapped ==
  ASSUME CowInv, NEW p \in Procs, MapPage(p)
  PROVE  Memory' = Memory
<1>1. CASE OutOfFrames BY <1>1, MemoryAlone DEF OutOfFrames, memVars
<1>2. ASSUME NEW f \in Free, content' = [content EXCEPT ![f] = Zero],
             pte' = [pte EXCEPT ![p][va[p]] = [frame |-> f, rw |-> TRUE]],
             UNCHANGED life
      PROVE  Memory' = Memory
  <2>1. f \in Frames /\ \A q \in Procs, v \in Pages : pte[q][v].frame # f
    BY FreeUnused DEF CowInv
  <2>2. va[p] \in Pages /\ ~Present(p, va[p])
    BY DEF CowInv, LocalInv, MapPage, At
  <2> SUFFICES ASSUME NEW q \in Procs, NEW v \in UserPages
               PROVE  Reads(q, v)' = Reads(q, v)
    BY MemoryKept
  <2>3. v \in Pages BY DEF UserPages
  <2>4. pte'[q][v].frame = IF q = p /\ v = va[p] THEN f ELSE pte[q][v].frame
    BY <1>2, <2>2, <2>3 DEF CowInv, TypeOK
  <2>5. content'[f] = Zero /\ \A g \in Frames : g # f => content'[g] = content[g]
    BY <1>2, <2>1 DEF CowInv, TypeOK
  <2>6. CASE q = p /\ v = va[p]
    BY <1>2, <2>1, <2>2, <2>4, <2>5, <2>6 DEF Reads, Present
  <2>7. CASE ~(q = p /\ v = va[p])
    <3>1. pte[q][v].frame # None => pte[q][v].frame \in Frames
      BY <2>3, EntryFacts DEF CowInv, TypeOK
    <3> QED BY <1>2, <2>1, <2>3, <2>4, <2>5, <2>7, <3>1 DEF Reads, Present
  <2> QED BY <2>6, <2>7
<1> QED BY <1>1, <1>2 DEF MapPage, NoFrame

\* A store is seen in the page that was stored into and nowhere else.
LEMMA MemoryWritten ==
  ASSUME CowInv, NEW p \in Procs, NEW v \in Pages, NEW x \in Values, UserWrite(p, v, x)
  PROVE  IF v \in UserPages THEN Memory' = [Memory EXCEPT ![p][v] = x]
         ELSE Memory' = Memory
<1>1. /\ life[p] = "live" /\ pte[p][v].frame \in Frames /\ pte[p][v].rw
      /\ content' = [content EXCEPT ![pte[p][v].frame] = x]
      /\ UNCHANGED <<pte, life>>
  BY EntryFacts DEF UserWrite, At, Present, Store, CowInv, TypeOK
<1>2. \A q \in Procs, w \in UserPages :
        Reads(q, w)' = IF q = p /\ w = v THEN x ELSE Reads(q, w)
  BY <1>1, PageCowAssumption DEF UserPages, Reads, Present, CowInv, TypeOK,
                                 WritableIsPrivate
<1> QED BY <1>2 DEF Memory, Reads

\* A store of the kernel is seen only in pages that system calls store into.
LEMMA MemoryKernel ==
  ASSUME CowInv, NEW p \in Procs, NEW v \in Pages, NEW x \in Values,
         KernelWrite(p, v, x)
  PROVE  Memory' = Memory
<1>1. /\ v \notin UserPages /\ Present(p, v)
      /\ content' = [content EXCEPT ![pte[p][v].frame] = x]
      /\ UNCHANGED <<pte, life>>
  BY DEF KernelWrite, Store, UserPages
<1>2. ASSUME NEW q \in Procs, NEW w \in UserPages PROVE Reads(q, w)' = Reads(q, w)
  <2>1. w \in Pages /\ w # v BY <1>1 DEF UserPages
  <2>2. Present(q, w) => pte[q][w].frame # pte[p][v].frame
    BY <2>1 DEF CowInv, ShareInv
  <2> QED BY <1>1, <2>1, <2>2 DEF Reads, Present, CowInv, TypeOK
<1> QED BY <1>2, MemoryKept

\* handle_cow_fault changes what nobody reads, and then what nobody can tell.
LEMMA MemoryCow ==
  ASSUME CowInv, NEW p \in Procs, CowOwner(p) \/ CowCopy(p) \/ CowSet(p)
  PROVE  Memory' = Memory
<1> SUFFICES ASSUME NEW q \in Procs, NEW v \in UserPages
             PROVE  Reads(q, v)' = Reads(q, v)
  BY MemoryKept
<1>0. v \in Pages /\ UNCHANGED life
  BY DEF UserPages, CowOwner, CowCopy, CowSet
<1>1. CASE CowOwner(p)
  <2>1. va[p] \in Pages /\ UNCHANGED content
    BY <1>1 DEF CowOwner, At, CowInv, LocalInv, Faulting
  <2>2. pte'[q][v].frame = pte[q][v].frame
    BY <1>0, <1>1, <2>1 DEF CowOwner, CowInv, TypeOK
  <2> QED BY <1>0, <2>1, <2>2 DEF Reads, Present
<1>2. CASE CowCopy(p)
  <2>1. pc[p] = "c_copy" /\ Pending(p) /\ Mapped(p)
    BY <1>2 DEF CowCopy, At, Pending, Mapped
  <2>2. copied = cow_frame[p] /\ pte[q][v].frame # cow_frame[p]
    BY <1>0, <2>1 DEF CowInv, CopyInv, ShareInv
  <2>3. \E y : content' = [content EXCEPT ![cow_frame[p]] = y]
    BY <1>2, <2>2 DEF CowCopy
  <2>4. UNCHANGED pte BY <1>2 DEF CowCopy
  <2>5. pte[q][v].frame # None => pte[q][v].frame \in Frames
    BY <1>0, EntryFacts DEF CowInv, TypeOK
  <2> QED BY <1>0, <2>2, <2>3, <2>4, <2>5 DEF Reads, Present, CowInv, TypeOK
<1>3. CASE CowSet(p)
  <2>1. /\ pc[p] = "c_set" /\ va[p] \in Pages /\ cow_frame[p] \in Frames
        /\ frame[p] \in Frames /\ pte[p][va[p]].frame = frame[p] /\ UNCHANGED content
    BY <1>3 DEF CowSet, At, CowInv, LocalInv, Faulting, Pending, Installed
  <2>2. va[p] \in UserPages => content[cow_frame[p]] = content[frame[p]]
    BY <2>1 DEF CowInv, ContentInv
  <2>3. pte'[q][v].frame = IF q = p /\ v = va[p] THEN cow_frame[p] ELSE pte[q][v].frame
    BY <1>0, <1>3, <2>1 DEF CowSet, CowInv, TypeOK
  <2> QED BY <1>0, <2>1, <2>2, <2>3, PageCowAssumption DEF Reads, Present
<1> QED BY <1>1, <1>2, <1>3

\* Fork copies: the child reads what the parent reads when it starts.
LEMMA MemoryForked ==
  ASSUME CowInv, NEW p \in Procs, ForkDone(p)
  PROVE  \E q \in Procs \ {p} : Private!Copy(p, q)
<1> DEFINE c == child[p]
<1>1. /\ pc[p] = "f_entry" /\ life[p] = "live" /\ c \in Procs /\ life[c] = "new"
      /\ todo[p] = {} /\ life' = [life EXCEPT ![c] = "live"] /\ UNCHANGED <<content, pte>>
  BY DEF ForkDone, At, CowInv, ChildInv, Forking
<1>2. \A v \in Pages : pte[c][v] = pte[p][v] BY <1>1 DEF CowInv, TableInv
<1>3. \A q \in Procs, v \in UserPages :
        Reads(q, v)' = IF q = c THEN Reads(p, v) ELSE Reads(q, v)
  BY <1>1, <1>2 DEF UserPages, Reads, Present, CowInv, TypeOK
<1>4. \A v \in UserPages : Reads(c, v) = Zero BY <1>1 DEF Reads
<1> HIDE DEF c
<1>5. Memory' = [Memory EXCEPT ![c] = Memory[p]]
  BY <1>1, <1>3 DEF Memory, Reads
<1>6. Memory[c] = Private!Blank BY <1>1, <1>4 DEF Memory, Reads, Private!Blank
<1> QED BY <1>1, <1>5, <1>6 DEF Private!Copy

\* The entries of a child are not read before it starts.
LEMMA MemoryForking ==
  ASSUME CowInv, NEW p \in Procs, ForkEntry(p)
  PROVE  Memory' = Memory
<1> DEFINE c == child[p]
<1>1. c \in Procs /\ life[c] = "new" /\ UNCHANGED <<content, life>>
  BY DEF ForkEntry, At, CowInv, ChildInv, Forking
<1>2. ASSUME NEW q \in Procs \ {c}, NEW w \in Pages
      PROVE  pte'[q][w].frame = pte[q][w].frame
  <2>1. PICK v \in todo[p] :
          \E e : /\ e.frame = pte[p][v].frame
                 /\ pte' = [pte EXCEPT ![p][v] = e, ![c][v] = e]
    BY DEF ForkEntry
  <2> HIDE DEF c
  <2>2. v \in Pages BY DEF CowInv, TypeOK
  <2>3. PICK e : /\ e.frame = pte[p][v].frame
                 /\ pte' = [pte EXCEPT ![p][v] = e, ![c][v] = e]
    BY <2>1
  <2> QED BY <1>1, <2>2, <2>3 DEF CowInv, TypeOK
<1> SUFFICES ASSUME NEW q \in Procs, NEW w \in UserPages
             PROVE  Reads(q, w)' = Reads(q, w)
  BY MemoryKept
<1>3. w \in Pages BY DEF UserPages
<1> HIDE DEF c
<1> QED BY <1>1, <1>2, <1>3 DEF Reads, Present

\* exec and exit drop the memory of the process and nobody else's.
LEMMA MemoryDropped ==
  ASSUME CowInv, NEW p \in Procs, Exec(p) \/ ExitSpace(p)
  PROVE  Private!Drop(p)
<1>1. /\ pte' = [pte EXCEPT ![p] = EmptyTable] /\ UNCHANGED content
      /\ \A q \in Procs : q # p => life'[q] = life[q]
  BY DEF Exec, ExitSpace, CowInv, TypeOK
<1>2. \A q \in Procs, v \in UserPages :
        Reads(q, v)' = IF q = p THEN Zero ELSE Reads(q, v)
  BY <1>1, EntryFacts DEF UserPages, Reads, Present, CowInv, TypeOK
<1> QED BY <1>2 DEF Memory, Reads, Private!Drop, Private!Blank

\* A process that is not live reads nothing, whatever becomes of its slot.
LEMMA MemorySlots ==
  ASSUME CowInv, NEW p \in Procs, ForkDir(p) \/ destroy_process(p)
  PROVE  Memory' = Memory
<1>1. CASE OutOfFrames BY <1>1, MemoryAlone DEF OutOfFrames, memVars
<1>2. ASSUME NEW q \in Procs, life[q] # "live", UNCHANGED <<content, pte>>,
             \E l \in {"none", "new"} : life' = [life EXCEPT ![q] = l]
      PROVE  Memory' = Memory
  <2>1. \A r \in Procs : life'[r] = "live" <=> life[r] = "live"
    BY <1>2 DEF CowInv, TypeOK
  <2> QED BY <1>2, <2>1, MemoryKept DEF Reads, Present
<1> QED BY <1>1, <1>2 DEF ForkDir, destroy_process

\* Every step of page.c is a step of the abstract memory or leaves it alone.
LEMMA MemoryStep ==
  ASSUME CowInv, [Next]_vars
  PROVE  [Private!Next]_Memory
<1> HIDE DEF CowInv
<1>1. CASE UNCHANGED vars BY <1>1, MemoryAlone DEF vars, memVars
<1>2. ASSUME NEW p \in Procs, Access(p) PROVE [Private!Next]_Memory
  <2>1. PICK v \in Pages : \/ PageFault(p, v) \/ WriteFault(p, v)
                           \/ \E x \in Values : UserWrite(p, v, x) \/ KernelWrite(p, v, x)
    BY <1>2 DEF Access
  <2>2. CASE PageFault(p, v) \/ WriteFault(p, v)
    BY <2>2, MemoryAlone DEF PageFault, WriteFault, memVars
  <2>3. ASSUME NEW x \in Values, UserWrite(p, v, x) PROVE [Private!Next]_Memory
    <3>1. CASE v \in UserPages
      <4>1. Private!Write(p, v, x) BY <2>3, <3>1, MemoryWritten DEF Private!Write
      <4> QED BY <3>1, <4>1 DEF Private!Next
    <3>2. CASE v \notin UserPages BY <2>3, <3>2, MemoryWritten
    <3> QED BY <3>1, <3>2
  <2>4. ASSUME NEW x \in Values, KernelWrite(p, v, x) PROVE [Private!Next]_Memory
    BY <2>4, MemoryKernel
  <2> QED BY <2>1, <2>2, <2>3, <2>4
<1>3. ASSUME NEW p \in Procs, Fault(p) PROVE [Private!Next]_Memory
  <2>1. CASE MapPage(p) BY <2>1, MemoryMapped
  <2>2. CASE CowOwner(p) \/ CowCopy(p) \/ CowSet(p) BY <2>2, MemoryCow
  <2>3. CASE \/ CowShared(p) \/ CowAlloc(p) \/ CowLock(p) \/ CowMap(p) \/ CowUnlock(p)
             \/ CowUnmap(p) \/ CowRelease(p)
    <3>1. UNCHANGED <<content, pte, life>>
      BY <2>3 DEF CowShared, CowAlloc, CowLock, CowMap, CowUnlock, CowUnmap, CowRelease,
                  LockCopy, NoFrame, OutOfFrames, memVars
    <3> QED BY <3>1, MemoryAlone
  <2> QED BY <1>3, <2>1, <2>2, <2>3 DEF Fault
<1>4. ASSUME NEW p \in Procs, Fork(p) PROVE [Private!Next]_Memory
  <2>1. CASE ForkDir(p) BY <2>1, MemorySlots
  <2>2. CASE ForkLock(p) \/ ForkTable(p)
    BY <2>2, MemoryAlone DEF ForkLock, ForkTable, LockCopy, OutOfFrames, memVars
  <2>3. CASE ForkEntry(p) BY <2>3, MemoryForking
  <2>4. CASE ForkDone(p) BY <2>4, MemoryForked DEF Private!Next
  <2> QED BY <1>4, <2>1, <2>2, <2>3, <2>4 DEF Fork
<1>5. ASSUME NEW p \in Procs, Exec(p) \/ ExitSpace(p) PROVE [Private!Next]_Memory
  BY <1>5, MemoryDropped DEF Private!Next
<1>6. ASSUME NEW p \in Procs, destroy_process(p) PROVE [Private!Next]_Memory
  BY <1>6, MemorySlots
<1> QED BY <1>1, <1>2, <1>3, <1>4, <1>5, <1>6 DEF Next, Halted

\* Copy-on-write, demand-zero pages, fork and exit give every process a memory
\* of its own: page.c implements PrivateMemory.
THEOREM CowImplementsPrivate == Spec => MemoryIsPrivate
<1>1. Init => Private!Init
  <2> SUFFICES ASSUME Init PROVE Private!Init OBVIOUS
  <2>1. \A p \in Procs, v \in UserPages : ~Present(p, v)
    BY EntryFacts DEF Init, UserPages, Present
  <2> QED BY <2>1 DEF Memory, Private!Init, Private!Blank
<1>2. CowInv /\ [Next]_vars => [Private!Next]_Memory BY MemoryStep
<1> QED BY <1>1, <1>2, CowInvariant, PTL DEF Spec, MemoryIsPrivate, Private!Spec
=============================================================================
