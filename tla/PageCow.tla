------------------------------ MODULE PageCow ------------------------------
(***************************************************************************)
(* User memory in src/src/mem/page.c: physical frames with reference       *)
(* counts, page tables cloned copy-on-write by fork, demand-zero pages,    *)
(* the copy-on-write fault handler and the release of an address space.    *)
(*                                                                         *)
(* Processes interleave at every step: the page-fault handler enables      *)
(* interrupts before it does its work.  A frame is free when its count is  *)
(* zero; the search order of alloc_phy_frame is left open.  The frames of  *)
(* page directories and page tables have one user each and are not         *)
(* represented, except that their allocation may fail.  TLB entries are    *)
(* not represented: there is one CPU, every change of a mapping is         *)
(* followed by its flush, and a switch to another process reloads CR3.     *)
(* COPIED_PAGE_DIR_VADDR and COPIED_PAGE_TABLE_VADDR are mapped and        *)
(* unmapped under page_copy_lock; COPIED_PAGE_VADDR is not.                *)
(***************************************************************************)
EXTENDS Naturals, FiniteSets

CONSTANTS
  Procs,         \* processes
  First,         \* the process that exists at the start
  Pages,         \* user pages of an address space
  Frames,        \* physical frames
  Values,        \* contents of a page
  Zero,          \* the contents after clear_page
  None,          \* no frame, no process, no page
  KernelPages    \* user pages that system calls store into

ASSUME PageCowAssumption ==
  /\ First \in Procs /\ Zero \in Values
  /\ None \notin Frames \cup Procs \cup Pages
  /\ KernelPages \subseteq Pages
  /\ IsFiniteSet(Procs) /\ IsFiniteSet(Pages) /\ IsFiniteSet(Frames)

VARIABLES
  refs,       \* phy_frames_array
  content,    \* what each frame holds
  pte,        \* pte[p][v].frame (None: not present) and .rw
  life,       \* "none", "new" (being forked), "live", "exit" (until destroyed)
  pc,         \* where a process is in the kernel, "run" in user mode
  va,         \* the page that faulted, or exec's first stack page
  frame,      \* handle_cow_fault's frame: the shared one
  cow_frame,  \* handle_cow_fault's cow_frame: the private copy
  child,      \* the process clone_crt_page_dir fills
  todo,       \* the page table entries it has still to copy
  copy_lock,  \* page_copy_lock
  copied,     \* the frame mapped at COPIED_PAGE_VADDR, None if not present
  panic       \* why the kernel halted

memVars  == <<refs, content, pte, life>>
cowVars  == <<va, frame, cow_frame>>
forkVars == <<child, todo>>
copyVars == <<copy_lock, copied>>
vars == <<memVars, pc, cowVars, forkVars, copyVars, panic>>

NotPresent == [frame |-> None, rw |-> FALSE]
EmptyTable == [v \in Pages |-> NotPresent]

Entry == [frame : Frames \cup {None}, rw : BOOLEAN]

Labels == {"run", "c_ref", "c_alloc", "c_lock", "c_map", "c_copy", "c_unlock",
           "c_set", "c_unmap", "c_release", "f_lock", "f_table", "f_entry",
           "d_page"}

TypeOK ==
  /\ refs \in [Frames -> Nat]
  /\ content \in [Frames -> Values]
  /\ pte \in [Procs -> [Pages -> Entry]]
  /\ life \in [Procs -> {"none", "new", "live", "exit"}]
  /\ pc \in [Procs -> Labels]
  /\ va \in [Procs -> Pages \cup {None}]
  /\ frame \in [Procs -> Frames \cup {None}]
  /\ cow_frame \in [Procs -> Frames \cup {None}]
  /\ child \in [Procs -> Procs \cup {None}]
  /\ todo \in [Procs -> SUBSET Pages]
  /\ copy_lock \in BOOLEAN
  /\ copied \in Frames \cup {None}
  /\ panic \in {"none", "copied_page_mapped", "no_frame"}

\* The exec of init: the space is empty and the first stack page is mapped next.
Init ==
  /\ refs = [f \in Frames |-> 0]
  /\ content = [f \in Frames |-> Zero]
  /\ pte = [p \in Procs |-> EmptyTable]
  /\ life = [p \in Procs |-> IF p = First THEN "live" ELSE "none"]
  /\ pc = [p \in Procs |-> IF p = First THEN "d_page" ELSE "run"]
  /\ \E v \in Pages : va = [p \in Procs |-> IF p = First THEN v ELSE None]
  /\ frame = [p \in Procs |-> None]
  /\ cow_frame = [p \in Procs |-> None]
  /\ child = [p \in Procs |-> None]
  /\ todo = [p \in Procs |-> {}]
  /\ copy_lock = FALSE
  /\ copied = None
  /\ panic = "none"

-----------------------------------------------------------------------------
(* Frames *)

Free == {f \in Frames : refs[f] = 0}

Taken(f) == [refs EXCEPT ![f] = 1]            \* alloc_phy_frame
\* Mutant: the count is not lowered.
ReleasedNever(f) == refs

Released(f) == [refs EXCEPT ![f] = @ - 1]     \* release_phy_frame

\* alloc_phy_frame returned -1: every caller panics.
OutOfFrames ==
  /\ panic' = "no_frame"
  /\ UNCHANGED <<memVars, pc, cowVars, forkVars, copyVars>>

NoFrame == Free = {} /\ OutOfFrames

At(p, l) == panic = "none" /\ life[p] = "live" /\ pc[p] = l

Goto(p, l) == pc' = [pc EXCEPT ![p] = l]

\* page_copy_lock; a process that finds it taken tries again later.
LockCopy(p, l) ==
  /\ ~copy_lock
  /\ copy_lock' = TRUE
  /\ Goto(p, l)
  /\ UNCHANGED <<memVars, cowVars, forkVars, copied, panic>>

-----------------------------------------------------------------------------
(* Memory accesses of a process in user mode *)

Present(p, v) == pte[p][v].frame # None

\* A first access: pagefault_handler.
PageFault(p, v) ==
  /\ At(p, "run")
  /\ ~Present(p, v)
  /\ va' = [va EXCEPT ![p] = v]
  /\ Goto(p, "d_page")
  /\ UNCHANGED <<memVars, frame, cow_frame, forkVars, copyVars, panic>>

\* map_page_with_frame_impl without a frame: the page table if there is none,
\* then a frame for the page, and clear_page.
MapPage(p) ==
  /\ At(p, "d_page")
  /\ \/ \E f \in Free :
          /\ refs' = Taken(f)
          /\ content' = [content EXCEPT ![f] = Zero]
          /\ pte' = [pte EXCEPT ![p][va[p]] = [frame |-> f, rw |-> TRUE]]
          /\ va' = [va EXCEPT ![p] = None]
          /\ Goto(p, "run")
          /\ UNCHANGED <<life, frame, cow_frame, forkVars, copyVars, panic>>
     \/ NoFrame
     \/ pte[p] = EmptyTable /\ OutOfFrames

Store(p, v, x) ==
  /\ content' = [content EXCEPT ![pte[p][v].frame] = x]
  /\ UNCHANGED <<refs, pte, life, pc, cowVars, forkVars, copyVars,
                 panic>>

UserWrite(p, v, x) ==
  /\ At(p, "run")
  /\ Present(p, v) /\ pte[p][v].rw
  /\ Store(p, v, x)

\* The same store made by the kernel on the process's behalf (the status of
\* process_wait): boot never sets CR0.WP, so rw is not looked at.
KernelWrite(p, v, x) ==
  /\ v \in KernelPages
  /\ At(p, "run")
  /\ Present(p, v)
  /\ Store(p, v, x)

\* A user write to a read-only page: pagefault_handler, handle_cow_fault.
WriteFault(p, v) ==
  /\ At(p, "run")
  /\ Present(p, v) /\ ~pte[p][v].rw
  /\ va' = [va EXCEPT ![p] = v]
  /\ frame' = [frame EXCEPT ![p] = pte[p][v].frame]
  /\ Goto(p, "c_ref")
  /\ UNCHANGED <<memVars, cow_frame, forkVars, copyVars, panic>>

-----------------------------------------------------------------------------
(* handle_cow_fault *)

\* Mutant: the process that faults does not count itself.
LastOther(p) == refs[frame[p]] <= 2

\* get_phy_frame_ref(frame) == 1
LastUser(p) == refs[frame[p]] = 1

\* The only user of the frame just gets it writable.
CowOwner(p) ==
  /\ At(p, "c_ref")
  /\ LastUser(p)
  /\ pte' = [pte EXCEPT ![p][va[p]] = [frame |-> @.frame, rw |-> TRUE]]
  /\ va' = [va EXCEPT ![p] = None]
  /\ frame' = [frame EXCEPT ![p] = None]
  /\ Goto(p, "run")
  /\ UNCHANGED <<refs, content, life, cow_frame, forkVars, copyVars,
                 panic>>

CowShared(p) ==
  /\ At(p, "c_ref")
  /\ ~LastUser(p)
  /\ Goto(p, "c_alloc")
  /\ UNCHANGED <<memVars, cowVars, forkVars, copyVars, panic>>

CowAlloc(p) ==
  /\ At(p, "c_alloc")
  /\ \/ \E f \in Free :
          /\ refs' = Taken(f)
          /\ cow_frame' = [cow_frame EXCEPT ![p] = f]
          /\ Goto(p, "c_lock")
          /\ UNCHANGED <<content, pte, life, va, frame, forkVars,
                         copyVars, panic>>
     \/ NoFrame

CowLock(p) == At(p, "c_lock") /\ LockCopy(p, "c_map")

\* map_page_with_frame_impl: Assert(pte->present == 0) on the shared kernel
\* address, then the mapping.
CowMap(p) ==
  /\ At(p, "c_map")
  /\ IF copied # None
     THEN /\ panic' = "copied_page_mapped"
          /\ UNCHANGED <<memVars, pc, cowVars, forkVars, copyVars>>
     ELSE /\ copied' = cow_frame[p]
          /\ Goto(p, "c_copy")
          /\ UNCHANGED <<memVars, cowVars, forkVars, copy_lock, panic>>

\* The copy goes through the mapping, to whichever frame is there.
CowCopy(p) ==
  /\ At(p, "c_copy")
  /\ content' = [content EXCEPT ![copied] = content[pte[p][va[p]].frame]]
  /\ Goto(p, "c_unlock")
  /\ UNCHANGED <<refs, pte, life, cowVars, forkVars, copyVars, panic>>

CowUnlock(p) ==
  /\ At(p, "c_unlock")
  /\ copy_lock' = FALSE
  /\ Goto(p, "c_set")
  /\ UNCHANGED <<memVars, cowVars, forkVars, copied, panic>>

CowSet(p) ==
  /\ At(p, "c_set")
  /\ pte' = [pte EXCEPT ![p][va[p]] = [frame |-> cow_frame[p], rw |-> TRUE]]
  /\ Goto(p, "c_unmap")
  /\ UNCHANGED <<refs, content, life, cowVars, forkVars, copyVars,
                 panic>>

\* release_pages(copy_page, 1, false), after the lock was released.
CowUnmap(p) ==
  /\ At(p, "c_unmap")
  /\ copied' = None
  /\ Goto(p, "c_release")
  /\ UNCHANGED <<memVars, cowVars, forkVars, copy_lock, panic>>

CowRelease(p) ==
  /\ At(p, "c_release")
  /\ refs' = Released(frame[p])
  /\ va' = [va EXCEPT ![p] = None]
  /\ frame' = [frame EXCEPT ![p] = None]
  /\ cow_frame' = [cow_frame EXCEPT ![p] = None]
  /\ Goto(p, "run")
  /\ UNCHANGED <<content, pte, life, forkVars, copyVars, panic>>

-----------------------------------------------------------------------------
(* Fork: clone_crt_page_dir *)

\* A frame for the new page directory.
ForkDir(p) ==
  /\ At(p, "run")
  /\ \/ \E q \in Procs :
          /\ life[q] = "none"
          /\ life' = [life EXCEPT ![q] = "new"]
          /\ child' = [child EXCEPT ![p] = q]
          /\ Goto(p, "f_lock")
          /\ UNCHANGED <<refs, content, pte, cowVars, todo, copyVars, panic>>
     \/ OutOfFrames

ForkLock(p) == At(p, "f_lock") /\ LockCopy(p, "f_table")

\* A frame for the new page table, and the copy of the parent's.
ForkTable(p) ==
  /\ At(p, "f_table")
  /\ \/ /\ todo' = [todo EXCEPT ![p] = {v \in Pages : Present(p, v)}]
        /\ Goto(p, "f_entry")
        /\ UNCHANGED <<memVars, cowVars, child, copyVars, panic>>
     \/ OutOfFrames

\* One present entry: read-only in both tables, and inc_cow_ref.
ForkEntry(p) ==
  /\ At(p, "f_entry")
  /\ \E v \in todo[p] :
       LET e == [frame |-> pte[p][v].frame, rw |-> FALSE] IN
       /\ pte' = [pte EXCEPT ![p][v] = e, ![child[p]][v] = e]
       /\ refs' = [refs EXCEPT ![e.frame] = @ + 1]
       /\ todo' = [todo EXCEPT ![p] = @ \ {v}]
       /\ UNCHANGED <<content, life, pc, cowVars, child, copyVars,
                      panic>>

\* The copy is complete; the lock is released and the child is scheduled.
ForkDone(p) ==
  /\ At(p, "f_entry")
  /\ todo[p] = {}
  /\ copy_lock' = FALSE
  /\ life' = [life EXCEPT ![child[p]] = "live"]
  /\ child' = [child EXCEPT ![p] = None]
  /\ Goto(p, "run")
  /\ UNCHANGED <<refs, content, pte, cowVars, todo, copied, panic>>

-----------------------------------------------------------------------------
(* Release of an address space *)

\* release_pages over the whole user space: every present page loses one user.
PagesReleased(p) ==
  [f \in Frames |->
     refs[f] - Cardinality({v \in Pages : pte[p][v].frame = f})]

\* process_exec: an empty user space, then map_page for the first stack page.
Exec(p) ==
  /\ At(p, "run")
  /\ refs' = PagesReleased(p)
  /\ pte' = [pte EXCEPT ![p] = EmptyTable]
  /\ \E v \in Pages : va' = [va EXCEPT ![p] = v]
  /\ Goto(p, "d_page")
  /\ UNCHANGED <<content, life, frame, cow_frame, forkVars, copyVars, panic>>

\* release_crt_process_resources_locked, in process_exit.
ExitSpace(p) ==
  /\ At(p, "run")
  /\ p # First
  /\ refs' = PagesReleased(p)
  /\ pte' = [pte EXCEPT ![p] = EmptyTable]
  /\ life' = [life EXCEPT ![p] = "exit"]
  /\ UNCHANGED <<content, pc, cowVars, forkVars, copyVars, panic>>

\* The clean thread gives back the directory and the process id.
destroy_process(p) ==
  /\ panic = "none"
  /\ life[p] = "exit"
  /\ life' = [life EXCEPT ![p] = "none"]
  /\ UNCHANGED <<refs, content, pte, pc, cowVars, forkVars, copyVars, panic>>

-----------------------------------------------------------------------------
Access(p) == \E v \in Pages :
               \/ PageFault(p, v)
               \/ WriteFault(p, v)
               \/ \E x \in Values : UserWrite(p, v, x) \/ KernelWrite(p, v, x)

Fault(p) == \/ MapPage(p) \/ CowOwner(p) \/ CowShared(p) \/ CowAlloc(p)
            \/ CowLock(p) \/ CowMap(p) \/ CowCopy(p) \/ CowUnlock(p) \/ CowSet(p)
            \/ CowUnmap(p) \/ CowRelease(p)

Fork(p) == \/ ForkDir(p) \/ ForkLock(p) \/ ForkTable(p) \/ ForkEntry(p)
           \/ ForkDone(p)

Halted == panic # "none" /\ UNCHANGED vars

Next == \/ \E p \in Procs : \/ Access(p) \/ Fault(p) \/ Fork(p)
                            \/ Exec(p) \/ ExitSpace(p) \/ destroy_process(p)
        \/ Halted

Spec == Init /\ [][Next]_vars

-----------------------------------------------------------------------------
\* Everything that counts on a frame: page table entries,
\* the private copy a fault handler has not installed yet, and the shared frame
\* that a fault handler has replaced but not released.
Installed(p) == pc[p] \in {"c_unmap", "c_release"}

Mappings(f) == {e \in Procs \X Pages : pte[e[1]][e[2]].frame = f}
Copiers(f)  == {p \in Procs : cow_frame[p] = f /\ ~Installed(p)}
Leavers(f)  == {p \in Procs : frame[p] = f /\ Installed(p)}

Users(f) ==
  Cardinality(Mappings(f)) + Cardinality(Copiers(f)) + Cardinality(Leavers(f))

\* A frame's count is the number of its users, in every interleaving of faults,
\* forks and exits: no frame is freed while it is mapped (it would be given to
\* somebody else) and none is lost.
RefCounts == \A f \in Frames : refs[f] = Users(f)

\* A writable page is nobody else's page.
WritableIsPrivate ==
  \A p \in Procs, v \in Pages :
    pte[p][v].rw => /\ Present(p, v)
                    /\ \A q \in Procs, w \in Pages :
                         pte[q][w].frame = pte[p][v].frame => q = p /\ w = v

\* Copy-on-write gives every process a memory of its own: the frames and page
\* tables implement PrivateMemory, for the pages that only user code stores into.
UserPages == Pages \ KernelPages

Memory ==
  [p \in Procs |-> [v \in UserPages |->
     IF life[p] = "live" /\ Present(p, v) THEN content[pte[p][v].frame]
     ELSE Zero]]

Private == INSTANCE PrivateMemory WITH Pages <- UserPages, mem <- Memory

MemoryIsPrivate == Private!Spec

\* page.c:369 asserts it and page.c:553 spells it out: the temporary mapping
\* that a copy uses is free when the next copy starts.
CopiedPageFree == panic # "copied_page_mapped"
=============================================================================
