----------------------------- MODULE HashTable -----------------------------
(***************************************************************************)
(* The hash tables of src/src/utils/hash_table.c and the queues of the     *)
(* scheduler, over the linked lists of LinkedList, in one memory: the      *)
(* operations that the kernel makes on them, one call (or one loop of      *)
(* calls) a step, since each is made under a lock.                         *)
(*                                                                         *)
(* An address has no meaning beyond its identity, so kmalloc takes the     *)
(* lowest free one.  What free memory holds is not specified; here it is   *)
(* always the same.  Reads, such as hash_table_get, change nothing and are *)
(* no actions.                                                             *)
(*                                                                         *)
(* The tables are those of pcbs: hash_table_init sets one up when a pcb is *)
(* made, hash_table_destroy gives its memory back at exit and leaves the   *)
(* pointer to it in place.  The calls here are made on tables that are set *)
(* up.  The code makes one call on a table that may have been destroyed,   *)
(* the put of process.c:484; Process has it, as the fault "freed_table".   *)
(***************************************************************************)
EXTENDS LinkedList

CONSTANTS
  ThreadNodes,          \* the nodes inside tcbs: not from kmalloc
  Kvs,                  \* addresses of hash_table_kv_t
  Arrays,               \* addresses of arrays of buckets
  Queues,               \* ready_tasks, dead_tasks, ...
  Processes,            \* what a node from linked_list_append_ele points to
  Tables,               \* the tables inside pcbs
  Objects,              \* what tables hold: pairs of an id and anything else
  INITIAL_BUCKETS_NUM

ASSUME HashTableAssumption ==
  /\ Nodes \subseteq Nat /\ Kvs \subseteq Nat /\ Arrays \subseteq Nat
  /\ Cardinality(Arrays) > Cardinality(Tables)
  /\ \A o \in Objects : o[1] \in Nat
  /\ ThreadNodes \subseteq Nodes /\ ThreadNodes \cap Processes = {}
  /\ INITIAL_BUCKETS_NUM \in Nat \ {0}

KeyOf(o) == o[1]
Keys == {KeyOf(o) : o \in Objects}
NoMap == [k \in Keys |-> NULL]

VARIABLES
  lists,   \* the queues
  tables,  \* hash_table_t: buckets (an address), buckets_num, size
  arrays,  \* the lists in every array of buckets
  links,   \* next and prev of every node
  ptr,     \* ptr of every node
  kv,      \* key and v_ptr of every hash_table_kv_t
  used,    \* what kmalloc has given out: nodes, kvs and arrays
  live,    \* history: the tables that are set up and not destroyed
  queue,   \* history: the sequence of objects each queue stands for
  map      \* history: the map from ids to objects each table stands for

vars == <<lists, tables, arrays, links, ptr, kv, used, live, queue, map>>
mem == [arrays |-> arrays, links |-> links, ptr |-> ptr, kv |-> kv,
        used |-> used]

\* The memory as an operation leaves it.
Memory(m) ==
  /\ arrays' = m.arrays /\ links' = m.links /\ ptr' = m.ptr /\ kv' = m.kv
  /\ used' = m.used

FreedKv == [key |-> 0, v_ptr |-> NULL]

Lowest(S) == CHOOSE x \in S : \A y \in S : x <= y
FreshNode(m) == Lowest(Nodes \ m.used.nodes)
FreshKv(m) == Lowest(Kvs \ m.used.kvs)
FreshArray(m) == Lowest(Arrays \ m.used.arrays)

FreedArray == <<>>
EmptyBuckets(num) == [i \in 0 .. num - 1 |-> EmptyList]

Init ==
  /\ lists = [q \in Queues |-> EmptyList]
  /\ tables = [t \in Tables |-> [buckets |-> NULL, buckets_num |-> 0, size |-> 0]]
  /\ arrays = [a \in Arrays |-> FreedArray]
  /\ links = NoLinks
  /\ ptr = [n \in Nodes |-> n]
  /\ kv = [e \in Kvs |-> FreedKv]
  /\ used = [nodes |-> ThreadNodes, kvs |-> {}, arrays |-> {}]
  /\ live = {}
  /\ queue = [q \in Queues |-> <<>>]
  /\ map = [t \in Tables |-> NoMap]

-----------------------------------------------------------------------------
(* hash_table.c, as functions of a table t and the memory m *)

\* A new array of num empty lists.
AllocArray(m, num) ==
  [m EXCEPT !.arrays[FreshArray(m)] = EmptyBuckets(num),
            !.used.arrays = @ \cup {FreshArray(m)}]

\* Mutant: the array of buckets is not given back.
FreeArrayForgotten(m, a) == m

\* kfree(this->buckets)
FreeArray(m, a) ==
  [m EXCEPT !.arrays[a] = FreedArray, !.used.arrays = @ \ {a}]

hash_table_init(m) ==
  [t |-> [buckets |-> FreshArray(m), buckets_num |-> INITIAL_BUCKETS_NUM,
          size |-> 0],
   m |-> AllocArray(m, INITIAL_BUCKETS_NUM)]

hash_table_bucket_lookup(m, bucket, key) ==
  LET hits == SelectSeq(Walk(bucket, m.links),
                        LAMBDA n : m.kv[m.ptr[n]].key = key)
  IN IF hits = <<>> THEN NULL ELSE Head(hits)

BucketOf(t, key) == key % t.buckets_num

Lookup(t, m, key) ==
  hash_table_bucket_lookup(m, m.arrays[t.buckets][BucketOf(t, key)], key)

hash_table_get(t, m, key) ==
  LET kv_node == Lookup(t, m, key) IN
  IF kv_node = NULL THEN NULL ELSE m.kv[m.ptr[kv_node]].v_ptr

\* The nodes of a table with their bucket, in the order of the loops that walk
\* over all of them.
AllNodes(t, m) ==
  FlattenSeq([i \in 1 .. t.buckets_num |->
    LET s == Walk(m.arrays[t.buckets][i - 1], m.links)
    IN [j \in DOMAIN s |-> [bucket |-> i - 1, node |-> s[j]]]])

\* Mutant: a node keeps the number of its bucket.
ExpandInPlace(t, m) ==
  [t |-> [t EXCEPT !.buckets_num = 2 * @],
   m |-> [m EXCEPT !.arrays[t.buckets] = @ @@ EmptyBuckets(2 * t.buckets_num)]]

\* Every node goes from its old list to one of twice as many, and the old array
\* is freed.
hash_table_expand(t, m) ==
  LET new_buckets_num == 2 * t.buckets_num
      new_buckets == FreshArray(m)
      Move(s, x) ==
        LET removed == linked_list_remove(s.arrays[t.buckets][x.bucket], s.links,
                                          x.node)
            i == m.kv[m.ptr[x.node]].key % new_buckets_num
            added == linked_list_append(s.arrays[new_buckets][i], removed.h,
                                        x.node)
        IN [s EXCEPT !.arrays[t.buckets][x.bucket] = removed.l,
                     !.arrays[new_buckets][i] = added.l,
                     !.links = added.h]
      moved == FoldLeft(Move, AllocArray(m, new_buckets_num), AllNodes(t, m))
  IN [t |-> [t EXCEPT !.buckets = new_buckets, !.buckets_num = new_buckets_num],
      m |-> FreeArray(moved, t.buckets)]

\* LOAD_FACTOR is 0.75.
Overloaded(t) == 4 * t.size > 3 * t.buckets_num

hash_table_put(t, m, key, v_ptr) ==
  LET kv_node == Lookup(t, m, key)
      node == FreshNode(m)
      new_kv == FreshKv(m)
      i == BucketOf(t, key)
      added == linked_list_append(m.arrays[t.buckets][i], m.links, node)
      s == [t |-> [t EXCEPT !.size = @ + 1],
            m |-> [m EXCEPT !.arrays[t.buckets][i] = added.l,
                            !.links = added.h,
                            !.ptr[node] = new_kv,
                            !.kv[new_kv] = [key |-> key, v_ptr |-> v_ptr],
                            !.used.nodes = @ \cup {node},
                            !.used.kvs = @ \cup {new_kv}]]
  IN IF kv_node # NULL
     THEN [t |-> t, m |-> [m EXCEPT !.kv[m.ptr[kv_node]].v_ptr = v_ptr]]
     ELSE IF Overloaded(s.t) THEN hash_table_expand(s.t, s.m) ELSE s

\* kfree(kv); kfree(kv_node)
FreeEntry(m, node) ==
  [m EXCEPT !.used.nodes = @ \ {node}, !.used.kvs = @ \ {m.ptr[node]},
            !.kv[m.ptr[node]] = FreedKv, !.ptr[node] = node]

\* Bucket i loses the node, and the memory of its entry is given back.
DropEntry(t, m, i, node) ==
  LET removed == linked_list_remove(m.arrays[t.buckets][i], m.links, node)
  IN FreeEntry([m EXCEPT !.arrays[t.buckets][i] = removed.l,
                         !.links = removed.h], node)

hash_table_remove(t, m, key) ==
  LET kv_node == Lookup(t, m, key)
  IN IF kv_node = NULL THEN [t |-> t, m |-> m]
     ELSE [t |-> [t EXCEPT !.size = @ - 1],
           m |-> DropEntry(t, m, BucketOf(t, key), kv_node)]

\* Every entry and the array are freed.  The pointer to the array and the
\* number of buckets stay as they were.
hash_table_destroy(t, m) ==
  LET Drop(s, x) == DropEntry(t, s, x.bucket, x.node)
  IN [t |-> [t EXCEPT !.size = 0],
      m |-> FreeArray(FoldLeft(Drop, m, AllNodes(t, m)), t.buckets)]

hash_table_get_first(t, m) ==
  LET full == {i \in 0 .. t.buckets_num - 1 : m.arrays[t.buckets][i].head # NULL}
  IN IF t.size = 0 \/ full = {} THEN NULL
     ELSE m.kv[m.ptr[m.arrays[t.buckets][Lowest(full)].head]].v_ptr

-----------------------------------------------------------------------------
(* The calls on tables *)

RoomFor(n) == /\ Cardinality(Nodes \ used.nodes) >= n
              /\ Cardinality(Kvs \ used.kvs) >= n

\* One table and the memory change as in s.
Update(t, s) ==
  /\ tables' = [tables EXCEPT ![t] = s.t]
  /\ Memory(s.m)
  /\ UNCHANGED <<lists, queue>>

\* create_process, and clear_crt_process_other_thread_locked after its destroy.
InitTable(t) ==
  /\ t \notin live
  /\ Update(t, hash_table_init(mem))
  /\ live' = live \cup {t}
  /\ map' = [map EXCEPT ![t] = NoMap]

\* release_crt_process_resources_locked, which leaves the tables destroyed, and
\* clear_crt_process_other_thread_locked.
Destroy(t) ==
  /\ t \in live
  /\ Update(t, hash_table_destroy(tables[t], mem))
  /\ live' = live \ {t}
  /\ map' = [map EXCEPT ![t] = NoMap]

Put(t, o) ==
  /\ t \in live
  /\ RoomFor(1)
  /\ Update(t, hash_table_put(tables[t], mem, KeyOf(o), o))
  /\ map' = [map EXCEPT ![t][KeyOf(o)] = o]
  /\ UNCHANGED live

RemoveKey(t, key) ==
  /\ t \in live
  /\ Update(t, hash_table_remove(tables[t], mem, key))
  /\ map' = [map EXCEPT ![t][key] = NULL]
  /\ UNCHANGED live

\* A turn of a loop of process_exit: the first child of the table s.t[1] is
\* looked up, removed by its id, and put into the other tables of s.t.
HandOverOne(s, i) ==
  LET child == hash_table_get_first(s.t[1], s.m)
      removed == hash_table_remove(s.t[1], s.m, KeyOf(child))
      PutChild(x, j) ==
        LET put == hash_table_put(x.t[j], x.m, KeyOf(child), child)
        IN [t |-> [x.t EXCEPT ![j] = put.t], m |-> put.m]
  IN IF s.t[1].size = 0 THEN s
     ELSE FoldLeft(PutChild, [t |-> [s.t EXCEPT ![1] = removed.t], m |-> removed.m],
                   [j \in 1 .. Len(s.t) - 1 |-> j + 1])

\* Such a loop, from the table ts[1] to all the others: the children go to one
\* table of init, the exited children to both.
HandOver(ts) ==
  LET s == FoldLeft(HandOverOne, [t |-> [j \in DOMAIN ts |-> tables[ts[j]]],
                                  m |-> mem],
                    [i \in 1 .. tables[ts[1]].size |-> i])
      to == ToSet(Tail(ts))
  IN /\ ToSet(ts) \subseteq live
     /\ RoomFor(tables[ts[1]].size * (Len(ts) - 2))
     /\ tables' = [t \in Tables |->
                     IF t \in ToSet(ts)
                     THEN s.t[CHOOSE j \in DOMAIN ts : ts[j] = t]
                     ELSE tables[t]]
     /\ Memory(s.m)
     /\ map' = [t \in Tables |->
                  IF t = ts[1] THEN NoMap
                  ELSE IF t \in to
                  THEN [k \in Keys |-> IF map[ts[1]][k] # NULL THEN map[ts[1]][k]
                                       ELSE map[t][k]]
                  ELSE map[t]]
     /\ UNCHANGED <<lists, queue, live>>

-----------------------------------------------------------------------------
(* The calls on queues *)

Chain(q) == Walk(lists[q], links)
InQueue(n) == \E q \in Queues : n \in ToSet(Chain(q))

\* One list and the links change as in s, and the queue becomes seq.
Relink(q, s, seq) ==
  /\ lists' = [lists EXCEPT ![q] = s.l]
  /\ links' = s.h
  /\ queue' = [queue EXCEPT ![q] = seq]
  /\ UNCHANGED <<tables, arrays, kv, live, map>>

\* add_thread_node_to_schedule, add_dead_tasks
AppendThread(q, n) ==
  /\ ~InQueue(n)
  /\ Relink(q, linked_list_append(lists[q], links, n), Append(queue[q], n))
  /\ UNCHANGED <<ptr, used>>

\* add_thread_node_to_schedule_head
PushThread(q, n) ==
  /\ ~InQueue(n)
  /\ Relink(q, linked_list_insert_to_head(lists[q], links, n), <<n>> \o queue[q])
  /\ UNCHANGED <<ptr, used>>

\* remove_thread_from_current_queue
UnlinkThread(q, n) ==
  /\ n \in ToSet(Chain(q))
  /\ Relink(q, linked_list_remove(lists[q], links, n), Remove(queue[q], n))
  /\ UNCHANGED <<ptr, used>>

\* add_dead_process: linked_list_append_ele
AppendProcess(q, p) ==
  LET node == FreshNode(mem) IN
  /\ RoomFor(1)
  /\ \A n \in Nodes : InQueue(n) => ptr[n] # p
  /\ ptr' = [ptr EXCEPT ![node] = p]
  /\ used' = [used EXCEPT !.nodes = @ \cup {node}]
  /\ Relink(q, linked_list_append(lists[q], links, node), Append(queue[q], p))

\* The clean thread takes the first node, and frees it if it came from kmalloc.
TakeFirst(q) ==
  LET head == lists[q].head IN
  /\ lists[q].size > 0
  /\ used' = [used EXCEPT !.nodes = @ \ ({head} \ ThreadNodes)]
  /\ ptr' = [ptr EXCEPT ![head] = head]
  /\ Relink(q, linked_list_remove(lists[q], links, head), Tail(queue[q]))

\* The clean thread and the keyboard interrupt take a whole list.
MoveQueue(q, r) ==
  LET moved == linked_list_move(lists[q]) IN
  /\ lists[r] = EmptyList
  /\ lists' = [lists EXCEPT ![r] = moved.dst, ![q] = moved.src]
  /\ queue' = [queue EXCEPT ![r] = queue[q], ![q] = <<>>]
  /\ UNCHANGED <<tables, arrays, links, ptr, kv, used, live, map>>

-----------------------------------------------------------------------------
Next ==
  \/ \E t \in Tables :
       \/ \E o \in Objects : Put(t, o)
       \/ \E k \in Keys : RemoveKey(t, k)
       \/ InitTable(t) \/ Destroy(t)
       \/ \E u \in Tables \ {t} :
            \/ HandOver(<<t, u>>)
            \/ \E v \in Tables \ {t, u} : HandOver(<<t, u, v>>)
  \/ \E q \in Queues :
       \/ \E n \in ThreadNodes :
            AppendThread(q, n) \/ PushThread(q, n) \/ UnlinkThread(q, n)
       \/ \E p \in Processes : AppendProcess(q, p)
       \/ TakeFirst(q)
       \/ \E r \in Queues \ {q} : MoveQueue(q, r)

Spec == Init /\ [][Next]_vars

-----------------------------------------------------------------------------
\* Every list of the memory: the queues and all buckets.
AllLists == {lists[q] : q \in Queues} \cup
            UNION {{arrays[a][i] : i \in DOMAIN arrays[a]} : a \in used.arrays}

\* linked_list_append, _insert_to_head, _remove and _move keep header, size and
\* both directions of the links of every list right, in whatever order they are
\* called and with nodes that move from list to list; and a list holds, in
\* order, what the calls say it should.
QueuesAreSequences ==
  /\ \A l \in AllLists : IsList(l, links)
  /\ \A q \in Queues : queue[q] = [i \in DOMAIN Chain(q) |-> ptr[Chain(q)[i]]]

\* hash_table_get finds what was put under a key last, before and after the
\* table has grown, and handing a table over, which asks for the first object
\* again and again, moves all of them; hash_table_get_first finds an object
\* whenever there is one.
TablesAreMaps ==
  \A t \in live :
    /\ \A k \in Keys : hash_table_get(tables[t], mem, k) = map[t][k]
    /\ hash_table_get_first(tables[t], mem) \in
         (IF map[t] = NoMap THEN {NULL} ELSE {map[t][k] : k \in Keys} \ {NULL})

\* The nodes, kvs and arrays in use are the ones that can be reached from a
\* queue or from a table that is set up, and each is in one place: nothing that
\* was freed is still linked, and nothing leaks when a table grows, loses a
\* key, is handed over, or is destroyed and perhaps set up again.
NothingLeaks ==
  LET InTables == [t \in live |->
                     LET s == AllNodes(tables[t], mem)
                     IN [i \in DOMAIN s |-> s[i].node]]
      TableNodes == UNION {ToSet(InTables[t]) : t \in live}
      QueueNodes == UNION {ToSet(Chain(q)) : q \in Queues}
  IN /\ used.nodes = ThreadNodes \cup QueueNodes \cup TableNodes
     /\ used.kvs = {ptr[n] : n \in TableNodes}
     /\ Cardinality(used.kvs) = Cardinality(TableNodes)
     /\ used.arrays = {tables[t].buckets : t \in live}
     /\ Cardinality(used.arrays) = Cardinality(live)
     /\ QueueNodes \cap TableNodes = {}
     /\ \A q, r \in Queues :
          q # r => ToSet(Chain(q)) \cap ToSet(Chain(r)) = {}
     /\ \A t \in live :
          /\ IsInjective(InTables[t])
          /\ tables[t].size = Len(InTables[t])
          /\ \A u \in live \ {t} :
               ToSet(InTables[t]) \cap ToSet(InTables[u]) = {}
=============================================================================
