# A verification of os_scroll in TLA+

os_scroll is a 32-bit x86 teaching kernel: one CPU, a preemptive round-robin
scheduler, processes with fork, exec, wait and exit, copy-on-write memory, a
kernel heap, a keyboard driver, a file system that the kernel reads and host
tools write, a text console and a shell. This
directory models its concurrent and stateful core, checks the models with TLC
on small instances, and proves with TLAPS, for instances of every size, what
the runs check of the scheduler, processes, memory, heap, keyboard, decoder, id
pools and console. Paths below are relative to the repository root;
`PROJECT.json` maps every definition to its lines.

## The system

| Component | State | Operations | Talks to |
|---|---|---|---|
| scheduler (`src/task/scheduler.c`) | current thread, ready queue, dead lists, clean thread | context switch, yield, preempt at interrupt exit, wake, thread exit, clean loop | everything that blocks or wakes |
| processes (`src/task/process.c`) | pcb: parent, children, exited children, two wait queues, lock | fork, wait, exit, exec, destroy | scheduler, memory, id pools |
| threads (`src/task/thread.c`) | tcb, kernel stack slots | create, fork, destroy | id pool, bitmap, memory |
| sync (`src/sync`) | lock words, condition variable queue, preempt count | yield lock, condition variable, irq spinlock | scheduler |
| memory (`src/mem/page.c`) | page tables, frame reference counts, one temporary mapping per purpose | demand-zero fault, copy-on-write fault, clone, release | processes |
| kernel heap (`src/mem/kheap.c`, `src/utils/ordered_array.c`) | blocks with headers and footers, ordered index | kmalloc, kmalloc_align, kfree, growth | all kernel data |
| id pools (`src/utils/id_pool.c`, `bit_map.c`) | bitmap | allocate, free | processes, threads |
| keyboard (`src/driver/kerboard.c`) | event ring, blocked readers | interrupt handler, blocking read, poll | scheduler |
| scancode decoder (`src/driver/keyboard_read.c`) | modifiers and locks, flags and position in a multi-byte sequence | process_scancode, one byte at a time | keyboard |
| lists and hash tables (`src/utils`) | nodes, links, buckets, sizes | append, insert, remove, move; put, remove, expand, destroy, get_first | scheduler, processes, keyboard |
| file system (`src/fs`, `src/driver/hard_disk.c`, `user/fs`) | superblock, bitmaps, inodes, one directory | mkfs and inject on the host; stat, list and read in the kernel | exec, system calls |
| console (`src/monitor/monitor.c`, `src/common/secure.c`) | video memory, cursor, lock | print, clear, panic | everyone |
| ELF, video modes, boot, descriptor tables | device state | set-up and copies | exec, system calls |

What is hard in it:

* *Interleaving.* Kernel code is preempted wherever interrupts are on, which
  includes most of fork, wait, the clean thread and the page fault handler.
  Locks yield when they are busy, so "interrupts off" does not mean "nobody
  else runs".
* *Sleep and wake.* A thread marks itself blocked, releases a lock and yields,
  in three steps; wakers look at queues in between.
* *Lifetimes.* A process outlives its last thread, a thread runs on after its
  process has given up its memory, and a third thread frees both.
* *Sharing.* Frames are shared by reference count and split on write, through a
  kernel mapping that all processes share.
* *Limits.* Full rings, full index arrays, exhausted id pools and frames, full
  directories and bitmaps, the last line of the screen.
* *Two programs, one format.* The image is written by host tools at byte
  offsets and read by the kernel in sectors.

## Modules

**Scheduler** is a library of action operators over the scheduler's variables
(`cur`, `ready`, `status`, `process`, `cr3`): `do_context_switch`,
`schedule_thread_yield`, `schedule`, `add_thread_nodes_to_schedule`. Process,
Exec and Keyboard extend it and add their own state.

**Process** composes the scheduler, the yield locks, the condition variable,
fork, wait, exit and the clean thread. Each thread has a program counter `pc`;
a step is the code between two points where another thread can run. In code
that runs with interrupts on the cuts are at each access to shared state and
`Preempt` may come at any of them; after the `cli` of process_exit (`NoIntr`)
only a busy lock gives the CPU away. `self` is the local variable `process` of
the three functions and `loc` the other pcb (or the pid) they work on, so
stale pointers are represented. A panic, a failed assertion, a read of a
freed pcb or a write that hits memory somebody else has sets `fault` and halts
the model. process_exit destroys the tables of its process and does not set them
up again (`process.c:285-288`); when a child then files itself with this process
(`process.c:484`) it writes to freed buckets, which either still are as they were
left or belong to somebody else, and `ExitNotify` has both. `lost` records the
zombies that were filed with a pcb when it was destroyed. The pool of process ids
is taken as exact: an id is that of the lowest free pcb. `Program` says which system calls
the program of each process may make; init's program is `init.c`.

**Exec** is process_exec under the same scheduler. Every thread executes programs
over and over; the kernel-mode page faults that exec takes while it runs with
interrupts off are actions, and so is the lock of the frame allocator, on which
a fault yields. `space` says how much of an address space a process has.

**PageCow** models user memory: a page table entry is a frame and a write bit,
a frame has a count and contents. Faults, fork and exit interleave at every
step, because the fault handler turns interrupts on. Frames of page tables and
directories have one user and are left out, except that their allocation may
fail. The kernel stores into pages of `KernelPages` without regard to the write
bit. **PrivateMemory** is its abstract specification: every process has a
memory of its own, fork copies it, exec and exit drop it.

**Keyboard** puts the driver on top of the scheduler: the interrupt handler may
run at every step where interrupts are on, and switches threads unless the
current one holds preemption off. A section of the spinlock is one step, but for
that of a poll: read_keyboard_char_right_now stores the event through the user's
pointer (`kerboard.c:41`), the page may not be present, and the fault handler turns
interrupts on (`page.c:125`) and yields when a page lock is busy. `loaded` is the
event that such a poll has read from the ring and not yet stored, `yielded` the
readers that gave the CPU away inside their section.

**ScanCode** is what comes before: a keyboard whose keys are pressed, repeat and
are released in any order, the bytes on their way (one of which may be lost),
the decoder, and the table `key_state` of the driver. `dec` holds the decoder's
three static variables. A character is a key and a level (plain, shift, ctl);
the keys that share a character share it in the model too. Keyboard takes
decoded events as input, so the two together cover the path from key to reader.

**KHeap** is the allocator over the ordered array, with addresses as small
numbers; a request is served in rounds, because alloc calls itself after the
heap has grown. A block is an address with the magic number of a header.

**IdPool** is the bitmap under two locking disciplines: kernel stack slots,
which lock to allocate and to release (`FreeLocks = TRUE`), and id pools, which
lock to allocate only. A change of a bit is a load and a store: the Makefile
compiles without optimisation, and the timer can come between the two.

**LinkedList** has the list functions as operators on a header and the links of
all nodes, pointer by pointer. **HashTable** puts tables (whose buckets are such
lists, with nodes and key-value pairs from kmalloc) and the scheduler's queues
(whose nodes are part of a tcb) into one memory, and makes the calls the kernel
makes: init, put, remove, destroy, the loops of process_exit that hand children
to one table of init and exited children to two; append, push, unlink, take the
first, move a whole list. Nodes, key-value pairs and arrays of buckets come from
kmalloc and go back to kfree. A destroyed table keeps its pointer to the freed
array until it is set up again (`live` says which are); the one call that the
code makes on a table that may be destroyed is the put of process_exit, which is
in Process. `queue` and `map` are the sequence and the map that each stands for.

**FileSystem** is the disk between its two programs. A cell of the disk holds
what the code treats as one value; an inode crosses sectors as the real 62-byte
one does. The actions are those of the image writer; the kernel only reads, so
its functions are operators on the disk, down to read_sector. `injected` records
what was written.

**Monitor** is the console: each character is put, wrapped, scrolled row by row
and followed by the hardware cursor in steps between which a thread may be
preempted; a panic may come at each of them, turns interrupts off and prints its
message without the lock, any characters, new lines included. `paper` is the same
text on an endless sheet, `output` the order in which threads printed. At a panic
the sheet begins anew, as the screen is after the first character of the message,
which goes wherever the cursor was left.

**MCProcess, MCExec, MCPageCow, MCKeyboard, MCScanCode, MCKHeap, MCIdPool,
MCHashTable, MCFileSystem, MCMonitor** instantiate these for TLC;
**ProcessProofs** holds the theorems about Process (types and dead lists, the
process tree, locks and queues), **SchedulerProofs** the lemmas about queues and
context switches that it and **KeyboardProofs** use; **IdPoolProofs**,
**KHeapProofs**, **MonitorProofs**, **PageCowProofs** and **ScanCodeProofs** are
about the module each is named after.

Leaf locks that guard a few instructions and are never held across a call that
blocks (kheap_lock, phy_frames_map_lock, page_dir_lock, processes_map_lock) are
not represented: what they guard is one step. So is code that calls kmalloc and
kfree, such as the loops of process_exit over its children (`process.c:435-462`),
although a busy kheap_lock makes the caller yield. Where a lock is what is in
question (pcb locks, dead_resource_lock, page_copy_lock, the bitmap locks,
monitor_lock, and phy_frames_map_lock in Exec) it is a variable.

## Runs

Runs that pass:

| Run | Instance | Shows |
|---|---|---|
| MCProcess | 5 threads (idle, clean, init, 2 more), 4 processes; the first user process may fork, wait for any pid and exit, the others fork and exit; fairness | locks exclude (`ProcLockExclusion`, `DeadLockExclusion`), nodes are in the queue their status says (`QueueIntegrity`), a sleeping parent's child has not exited yet (`NoLostWakeup`), the clean thread does not sleep on work (`NoLostNotify`), threads and pcbs are freed once and not in use (`EndedThreadListedOnce`, `FreedOnce`), every process id that is taken belongs to a process that lives, or to one that has exited and is in one known place until destroy_process (`IdsAccounted`), CR3 is never a freed directory (`LivePageDirectory`), a zombie that reached init is reaped and freed (`InitReaps`) |
| MCPageCow | 3 processes, a page of user stores and one of user and kernel stores, 3 frames, 2 values | `RefCounts`, `WritableIsPrivate`; `MemoryIsPrivate`: for user stores PageCow implements PrivateMemory |
| MCKeyboard | idle and 3 readers that wait or poll, ring of 2, 3 events; fairness | `RingIsFifo`, `NoMissedKey`, `OneQueue`; `SectionKept`: only the yield of a page fault in a poll takes a thread off the CPU in its section, and without it a poll takes off the ring what it hands out; `ReaderServed` |
| MCScanCode | 11 keys (shift, both controls, both locks, a letter, both 8s, an arrow, Pause, Print Screen), 2 held at once, 1 byte lost | `ModifiersTrack`, `OneEventPerKey`; `SingleKeyDelivered`: a lost byte costs at most its own key and the next; `KeyStateRight`, of the keys that give a character |
| MCKHeap | 3 pages growing to 5, sizes 1, 2 and 5, index of 8 | `Tiled`, `OwnedSafe`, `IndexExact`, `Coalesced`, `PlainExpansionServes` |
| MCStackSlots | 3 threads, 3 slots in words of 2 bits, locks both ways | `UniqueIds`, `BitsExact`, `FailsOnlyWhenFull` |
| MCHashTable | 2 queues, 3 tables of 2 buckets, 4 arrays, 4 nodes, 2 pairs | `QueuesAreSequences`, `TablesAreMaps`, `NothingLeaks`: every node, pair and array of buckets is in one place or free |
| MCFileSystem | 5 files, two of which have the same name once it is cut, of any of the sizes, into 6 blocks, 6 inodes and 2 free directory entries | `ReadBack`: what was injected is what stat_file and read_file give, also in part; `ListingExact`; `BitmapsExact`: no block or inode has two owners |
| MCMonitor | 2 threads, 4 calls, 4 texts with every control character, 2 panic messages of several lines, a screen of 3 rows of 4 | `ScreenIsPaper`, `PrintsWhole`, and `PanicShown`: a panic that strikes a print, scroll or clear anywhere is seen, but for its first character |

Runs that find a disagreement between the code and what its comments say:

| Run | Property | What happens |
|---|---|---|
| MCNullSwitch | `NoNullProcessSwitch` | process_exit clears the thread's process pointer and then takes locks that yield; the switch back reads NULL |
| MCExecCut | `ExecUncut` | exec turns interrupts off while the process has no program, a page fault of the loader turns them on, and the timer switches away |
| MCCopiedPage | `CopiedPageFree` | the temporary mapping of a copy is removed after its lock is released |

### Bounds and why they are enough

* MCProcess: a parent, its child and init are the most that one exit involves
  (own lock, init's, the parent's); with the clean thread and the idle thread
  that is five threads. Four process ids leave one pcb beyond kernel, init and
  one parent, so ids run out and are reused.
* MCPageCow: a frame shared by three processes is the smallest that has a
  "shared by others too" case after one leaves; with two pages a fork is more
  than one entry long; three frames are shared, copied and run out. Processes
  other than the first, frames and values are interchangeable.
* MCKeyboard: a ring of two wraps within three events, fills and is emptied under
  a poll that waits for its page; each key has a press and a release, so order is
  visible with one key. `MaxEvents` bounds what the keyboard sends, nothing else.
* MCScanCode: one key of every class that the decoder tells apart by state; a
  held modifier and another key are the two that are down at once, the locks
  stay on after release. One lost byte can cut every multi-byte sequence at
  every place. The bytes are those of scan code set 1; a key is not used where
  a real keyboard would send other bytes (Pause with control held, an arrow
  with shift held, Print Screen with a modifier held).
* MCKHeap: header and footer of size 1 and pages of 4 keep the arithmetic of
  splitting, rests that are too small, alignment gaps and growth, in a heap
  that can hold several blocks. A request the heap cannot grow for ends in the
  assertion of kheap_expand.
* MCStackSlots: two words, the last one partly used, as in the 21845 slots of
  the kernel.
* MCHashTable: a table of two buckets grows with its second object, so grown
  and small tables, buckets of two, and tables handed to a grown one occur; three
  tables are what the hand-over to two tables of init needs, and the fourth array
  is the new one of a table that grows. Two thread nodes and one process node are
  in queues of up to three. Tables are interchangeable, and so are queues; the
  `VIEW` leaves out what a destroyed table holds, which nothing reads before
  hash_table_init sets it.
* MCFileSystem: sizes of nothing, less than a block, a block, a block and a
  part, all direct blocks, and one more; ranges that start and end inside
  blocks and beyond the file. Directory entries, inodes and blocks all run out.
* MCMonitor: the texts wrap at the end of a line, tab to it, go back to its
  start and beyond, and scroll; four calls fill the screen twice. Of the panic
  messages one wraps and ends a line, the other begins with two new lines, as that
  of a failed assertion does, and scrolls.
* MCExecCut: idle and two threads are enough for one to be cut by the other.

### Fairness

A thread that gets the CPU again and again executes instructions in its slices
(ten ticks at least, `time.c`), so steps of system calls and of the clean
thread are strongly fair: they may be disabled while another thread runs, but
not for ever passed over. The timer does not stop, so Preempt is weakly fair. A poll
that waits for a page lock gets it: its holder was preempted and runs again.
init waits in an endless loop. No program is assumed to make any other call,
and no key is assumed to be pressed.

`InitReaps` is conditional on what MCNullSwitch and `MCWaitWake.cfg` (below) show
to be possible: a halt, or a thread asleep with a lock. Without these nothing stops
the chain from exit to destroy_process.

## Proofs

Every theorem has the form `Spec => []Inv`, except the refinement and three about
the heap that say under what else they hold. It holds for
every value of the constants that the named assumptions of the modules allow;
those are sizes and types, unless something else is said below. The argument is
the same everywhere: an inductive invariant holds initially, each action keeps
each of its parts (one step per action), and it implies the property.

**Process**, for all `NThreads >= 3`, `NProcs >= 2` and every `Program`. All
safety invariants that MCProcess checks are theorems:

| Theorem | Property | Rests on |
|---|---|---|
| `TypeCorrect` | `TypeOK` | itself; `LocTyped` is the part that needs an argument, since `loc` is overwritten and cleared at many places |
| `DeadLockCorrect`, `EndedThreadsSafe` | `DeadLockExclusion`, `EndedThreadListedOnce` | `DeadInv` |
| `ZombiesFreedOnce` | `FreedOnce` | `TreeInv` |
| `IdsInUse` | `IdsAccounted` | `TreeInv`, `LossInv` |
| `PageDirectoryLive` | `LivePageDirectory` | `TreeInv`, `PageInv` |
| `ProcLocksExclusive` | `ProcLockExclusion` | `TreeInv`, `LockInv` |
| `NodesInOneQueue`, `NoWakeupLost`, `NoNotifyLost` | `QueueIntegrity`, `NoLostWakeup`, `NoLostNotify` | all of these and `QueueInv` |

* `DeadInv`: dead_resource_lock is held exactly by the one thread in a section,
  threads on the dead lists have finished, and the two lists have no common or
  repeated member. An ended thread is appended once because it was not at its
  end before; the lists are moved under the lock.
* `TreeInv` describes the process tree. `KindInv` says what the idle, clean and
  init threads execute, `CarrierInv` that a live process has one thread that
  acts as it, `ChildInv` that `children` and `parent` agree, `CallInv` what the
  local variables of a thread inside fork, wait or exit point to, `ZombieInv` and
  `ReapInv` where a process that has exited is. The hard part is that
  process_exit reads its parent early: the invariant says that this pointer is
  out of date only if the child was given to init since, so that even a child
  that files itself with its old parent is filed with one pcb only.
* `LossInv`: a process that has exited is held by its thread, a parent's table, a
  reaper or a clean list, or it is lost, and never both; it is lost at one place,
  when destroy_process frees the pcb it is filed with.
* `PageInv`: CR3 is the directory of the running thread's process as long as
  the thread has one; the thread that frees processes has one, so it never
  frees the directory it runs on.
* `LockInv`: besides exclusion, a thread that has its parent's lock in
  process_exit does not leave the CPU before the unlock. Interrupts are off, and
  the only lock it could wait for is its own; whoever holds that one (a parent
  that looks at this child) would have to hold the parent's lock as well.
* `QueueInv`: `StatusInv` relates a thread's status to its place in the code
  (`RunInv`, `LabelInv`, `ListInv`); `WaitInv` says that the wait queues hold
  exactly the sleepers, those that are queued and not yet marked blocked
  included, and that what they read under the lock is still true (`Unheard`);
  `CvInv` says the same of the clean thread. A waker holds the lock that a
  sleeper has until its unlock, so it never meets a thread between mark and
  unlock; the thread it wakes is not the running one, so no node gets into
  ready_tasks twice.

**IdPool** with `FreeLocks`, the discipline of kernel stack slots: `SlotsUnique`
(`UniqueIds`), `SlotsExact` (`BitsExact`) and `SlotsExhausted`
(`FailsOnlyWhenFull`, where `TotalBits % WordBits # 0`, as for the 21845 slots;
without that it is false, see the limits below). `PoolInv`: the lock has one
holder (`LockInv`), a set bit has one reason, a user or a thread that is about
to clear it (`OwnerInv`), and the word that a thread has loaded is still the
one in memory when it stores (`SectionInv`).

**Keyboard**, for every ring size, number of readers and non-empty set of keys:
`RingCorrect` (`RingIsFifo`), `NoKeyMissed` (`NoMissedKey`), `OneQueueOnly`
(`OneQueue`), `SectionsKept` (`SectionKept`). `KbdInv`: the ring holds
the accepted events that were not taken off it yet, at their index modulo the size
(`RingInv`); every thread is in the queue its status says (`QueueInv`); preemption
is off exactly in the sections, a thread that left the CPU in one has yielded in
its page fault, and one that runs without being RUNNING is between its section and
its yield (`PreemptInv`); a poll that did not yield has the head of the ring in
hand (`PollInv`); nobody sleeps while a key press is unread (`SleepInv`). The order of the ring rests on a lemma that
two numbers less than the size apart differ modulo the size.

**Monitor**, for every size of the screen, any number of threads and any texts:
`TextsWhole` (`PrintsWhole`), `ScreenAlways` (`ScreenIsPaper`) and `PanicAlways`
(`PanicShown`).

* `PrintInv`: monitor_lock has one holder (`LockInv`), a thread outside a call has
  no text left (`TextInv`), and if the last character printed is not the last of
  its text, its thread has the lock and exactly the rest still to print
  (`LastInv`).
* `ScreenInv` relates the screen to the paper at every label of a call: at rest it
  shows the last lines; after a character the paper is one wrap ahead
  (`Unwrapped`), and a line that has no row yet is empty; in a scroll the first
  `row` rows have moved (`Scrolling`); in a clear they are blank (`Clearing`). The
  cursor leaves the screen by at most one column or one row (`CursorInv`), which
  rests on tabs dividing the width.
* A panic starts at any of these labels. Its first character brings the cursor back
  onto the screen, wherever it was (`FirstChar`), and the screen that results is the
  sheet that the rest of the message is told on (`SheetBegins`). Each later
  character is one step that takes a screen at rest on its sheet to one at rest
  (`CharKept`), through the put, the wrap and all rows of the scroll; the message may
  hold any characters. The lemmas on a character are about a screen and a sheet as
  values, so that the steps of a print and those of a panic share them.

**KHeap**, for every size of header, footer, page, heap and index and every set of
request sizes:

| Theorem | Property | Under |
|---|---|---|
| `TilesAlways` | `Tiled` | nothing else |
| `OwnedAlways` | `OwnedSafe` | nothing else |
| `CoalescedAlways` | `Coalesced` | nothing else |
| `IndexAlways` | `IndexExact` | `[]Roomy` |
| `ExpansionServes` | `PlainExpansionServes` | `[]Roomy` |
| `IndexNeverMissed` | `panic # "not_in_index"` | `[]Roomy` |

`Roomy` says that the index array has a free entry. ordered_array_insert returns false on a
full index (4096 entries, `KHEAP_INDEX_NUM`), which kheap.c ignores, and the free block is
not found again: the last three are false without it; the first three show that even then no
block is lost from the heap's structure or given out twice. `HeapInv` is about runs of
blocks side by side (`Tiles`): a run can be parted where a block starts and joined where two
meet, so that a split, a merge or an expansion changes one run and leaves those on its sides
alone. `Coalesced` is not inductive: kheap_expand adds a block that is free without being a
hole (`Spare`), and a hole next to one would become a pair of holes later. `Rounds` says why
that does not happen: all spare blocks were made for the request that waits, are of one size
and start on a page, so that if one does not do none does; the request takes the last one
that was made, and none is left when it is served. The order of the index rests on lemmas on
inserting into and removing from an ordered sequence.

**ScanCode**, for every set of keys, every number of keys held at once and every
number of bytes lost: `ModifiersAlways` (`ModifiersTrack`), `EventsAlways`
(`OneEventPerKey`), `KeyStateAlways` (`KeyStateRight`) and `SinglesAlways`
(`SingleKeyDelivered`). `DecoderInv` says, as long as nothing is lost, how far the
decoder is with the key whose bytes are on the line: the flags in `internal` and the
position `seq` are those of the bytes received, modifiers, events and `key_state`
are still those from before the key until its last byte, and are those of the key
after it (`Exact`). There is a case for keys of one byte, for those with the prefix
E0, for Print Screen and for Pause. The other two parts hold also after losses. No
key's last byte is a prefix, and every other byte clears the flag of the prefix, on
every path of process_scancode, so the flag is down once a key came whole
(`NoPrefix`); a key of one byte that comes then is taken for itself (`Single`).

**PageCow**, for any sets of processes, pages, frames and values: `CountsExact`
(`RefCounts`), `WritersAlone` (`WritableIsPrivate`) and `CowImplementsPrivate`
(`MemoryIsPrivate`). `CowInv` adds to the two what the locals of a fault
are (`LocalInv`), that a child under construction has one parent (`ChildInv`)
and exactly the entries that are done (`TableInv`), that page_copy_lock has one
holder and COPIED_PAGE_VADDR one user (`CopyInv`), that a frame is shared at one
address only and a copy not yet installed with nobody (`ShareInv`), and that the
copy has the contents of the shared frame until it is installed
(`ContentInv`). The
refinement maps initial states to initial states and every step to a step of
PrivateMemory or to a stutter: a store is a store of one process because its
frame is private, a fork takes effect when the child becomes a process, and
faults change nothing.

The library's theorems on finite sets, sequences and well-founded relations are
cited by name (the last for the least element of a set of numbers).

Model-checked only:

* `InitReaps` and `ReaderServed`: the prover has no reasoning about fairness.
* HashTable (`QueuesAreSequences`, `TablesAreMaps`, `NothingLeaks`) and FileSystem
  (`ReadBack`, `ListingExact`, `BitmapsExact`): their operators walk links and
  sectors in loops over loops, each of which needs an induction of its own.
* Exec has a run that finds a disagreement and no property that holds.

## What is not modelled

* Several threads in one user process: create_new_user_thread has no caller, so
  the loop of clear_crt_process_other_thread_locked never finds one.
* exec inside Process: it replaces the program and leaves the process as it is.
* Number formatting in monitor_printf, which no other part depends on; graphics
  modes (register tables, palette, font); the ELF format.
* The registers of the disk and the VGA controller. read_sector is one read of
  512 bytes; the hazards at `hard_disk.c:22` and `video.c:115` are therefore
  without a property.
* Boot code, descriptor tables, the layout of initial stacks: straight-line
  set-up whose results are initial states here. The user library and the string
  functions, which have no state. simple_fs.c, which is never mounted.
  print_files_in_root of the image writer, which only prints.

## Known limits of the code that no run is about

* process_wait can be preempted between marking itself blocked and unlocking;
  the child that should wake it (`process.c:483`) needs the lock and spins for
  ever. `WaitingParentWoken` states it, and TLC refutes it under
  `MCWaitWake.cfg` (module MCProcess).
* process_exit reads its parent at `process.c:413`, before interrupts are off.
  If the parent exits in between, its children go to init but this child files
  itself with the old parent, where nobody reaps it. `EveryZombieReapable`
  states it, and TLC refutes it under `MCZombie.cfg` (module MCProcess). The table
  it is put in is one that the old parent has destroyed (`process.c:285-288`), so
  the put of `process.c:484` writes to memory that kmalloc may have given to
  somebody else, where `process.c:483` says "把当前进程加入父母的退出进程队列"
  (add the process to its parent's queue of exited ones) and `process.c:430`
  "若当前进程还有子进程，扔给init进程" (remaining children go to init).
  `NoFreedTable` states it, and TLC refutes it under `MCFreedTable.cfg`.
* read_keyboard_char_right_now stores through a user pointer before it updates
  the ring (`kerboard.c:41-43`), under a lock that is to keep others out. If the
  store faults and the fault handler yields, another reader takes the same event;
  the poll then drops an event that nobody has seen, or takes `size` from 0 to -1.
  `PollExact` states it, and TLC refutes it under `MCPollCut.cfg` (module
  MCKeyboard). Whoever spins on a page lock there has preemption off, which
  schedule_thread_yield does not look at; `hard_disk.c:20-22` has the same form.
* id_pool_free_id does not lock (`id_pool.h:8` calls the pool thread-safe):
  with `FreeLocks = FALSE` IdPool violates `UniqueIds`. Process does not have this
  race: `IdsAccounted` is about who holds ids, given a pool that is exact.
* bitmap_find_first_free never looks at the last word of a bitmap whose size is
  a multiple of 32, as both id pools' are.
* CR0.WP is never set (`loader.asm:341-343`), so the kernel's stores into user
  memory, such as the status that process_wait returns (`process.c:396`),
  ignore copy-on-write: PageCow implements PrivateMemory for the pages outside
  `KernelPages` only, and TLC refutes it for the others.
* The event of Pause is a break event, because its last byte is a break code,
  so readers, who skip breaks, never get it. `keyboard_read.c:18` calls the bytes
  "Currently processing a PAUSE/BREAK (MAKE) sequence", and `keyboard_read.h:128`
  says of the bit that it is asserted for make events. `PauseIsMake` states it, and
  TLC refutes it under `MCPause.cfg` (module MCScanCode).
* `key_state` never has a modifier or a lock, held or not: they give no data, and
  the driver records data only. The two keys of one character share a flag in it.
  Caps Lock and Num Lock switch on every repeat while they are held.
* A lost byte can leave a modifier stuck until that key is used again. When the
  byte after a prefix E0 is lost, the next key is taken for the rest of it and
  swallowed (`keyboard_read.c:589-590`).
* cond_var_wait has the window of process_wait too: the clean thread can sleep
  with dead_resource_lock held.
* A fork without a free process id halts the kernel (`fault = "fork_null"`).
* An expansion for an aligned request may not serve it, and the heap grows
  again; a hole that does not fit in the index fails the assertion in free.
* A file name of more than 27 characters is cut, and can then hide behind
  another with the same beginning; a file that finds the directory full keeps
  its inode and blocks. The bitmaps have 32768 bits for 25497 data blocks and
  6606 inodes, so an image that is really full would be overrun.
* ext2_fs_read_data adds start and length in 32 bits (`ext2_fs.c:100`): a range
  that wraps around is not cut at the end of the file. process_exec, its one
  caller, reads from 0; `ReadBack` is stated for ranges that do not wrap.
* A backspace in column 0 prints a character. A panic between a cursor step and
  its scroll loses the first character of its message.

## Plan

1. HashTable: `QueuesAreSequences` for the list operations, one
   property of the links at a time; then the tables on top of it.
2. FileSystem: `BitmapsExact`, which does not depend on the contents of blocks.
3. The disk's registers under Exec, for the torn sector.
