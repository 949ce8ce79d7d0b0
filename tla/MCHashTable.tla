---------------------------- MODULE MCHashTable ----------------------------
(***************************************************************************)
(* An instance of HashTable for TLC.  The ids 0, 2 and 4 meet in one of    *)
(* two buckets; of four, 0 and 4 share one.  Two objects have the id 0.    *)
(* Queues are interchangeable, and so are tables.                          *)
(***************************************************************************)
EXTENDS HashTable

MCObjects == {<<0, 1>>, <<0, 2>>, <<2, 1>>, <<4, 1>>}

\* What a destroyed table holds is not read before hash_table_init sets it.
View == <<lists, [t \in live |-> tables[t]], arrays, links, ptr, kv, used, live,
          queue, map>>

Symmetry == Permutations(Queues) \cup Permutations(Tables)
=============================================================================
