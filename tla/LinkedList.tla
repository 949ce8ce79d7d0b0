----------------------------- MODULE LinkedList -----------------------------
(***************************************************************************)
(* The doubly linked lists of src/src/utils/linked_list.c, as operators on *)
(* a list header l and the links h of all nodes.  An operator that changes *)
(* both returns [l, h].  Like the code, none of them checks that a node is *)
(* in the list it is said to be in.                                        *)
(***************************************************************************)
EXTENDS Naturals, SequencesExt

CONSTANTS
  Nodes,   \* addresses of linked_list_node_t
  NULL     \* the null pointer

ASSUME NullIsNoNode == NULL \notin Nodes

Pointer == Nodes \cup {NULL}
List == [head : Pointer, tail : Pointer, size : Nat]
Links == [next : [Nodes -> Pointer], prev : [Nodes -> Pointer]]

\* linked_list_create, linked_list_init
EmptyList == [head |-> NULL, tail |-> NULL, size |-> 0]
NoLinks == [next |-> [n \in Nodes |-> NULL], prev |-> [n \in Nodes |-> NULL]]

\* p->next = q, p->prev = q, for a p that may be NULL
SetNext(h, p, q) == IF p = NULL THEN h ELSE [h EXCEPT !.next[p] = q]
SetPrev(h, p, q) == IF p = NULL THEN h ELSE [h EXCEPT !.prev[p] = q]

linked_list_append(l, h, new_node) ==
  LET last == IF l.size = 0 THEN NULL ELSE l.tail IN
  [l |-> [head |-> IF l.size = 0 THEN new_node ELSE l.head,
          tail |-> new_node, size |-> l.size + 1],
   h |-> SetPrev(SetNext(SetNext(h, new_node, NULL), last, new_node),
                 new_node, last)]

\* new_node goes behind node, or to the front if node is NULL.
linked_list_insert(l, h, node, new_node) ==
  LET next_node == IF node # NULL THEN h.next[node] ELSE l.head
      linked == SetNext(SetPrev(h, new_node, node), node, new_node)
  IN [l |-> [head |-> IF node # NULL THEN l.head ELSE new_node,
             tail |-> IF next_node # NULL THEN l.tail ELSE new_node,
             size |-> l.size + 1],
      h |-> SetPrev(SetNext(linked, new_node, next_node), next_node, new_node)]

linked_list_insert_to_head(l, h, new_node) ==
  linked_list_insert(l, h, NULL, new_node)

\* Mutant: the tail is not moved back when the last node goes.
RemoveKeepsTail(l, h, node) ==
  LET prev_node == h.prev[node]
      next_node == h.next[node]
      unlinked == SetPrev(SetNext(h, prev_node, next_node), next_node, prev_node)
  IN [l |-> [l EXCEPT !.head = IF prev_node # NULL THEN @ ELSE next_node,
                      !.size = @ - 1],
      h |-> SetPrev(SetNext(unlinked, node, NULL), node, NULL)]

linked_list_remove(l, h, node) ==
  LET prev_node == h.prev[node]
      next_node == h.next[node]
      unlinked == SetPrev(SetNext(h, prev_node, next_node), next_node, prev_node)
  IN IF l.size = 0 THEN [l |-> l, h |-> h]
     ELSE [l |-> [head |-> IF prev_node # NULL THEN l.head ELSE next_node,
                  tail |-> IF next_node # NULL THEN l.tail ELSE prev_node,
                  size |-> l.size - 1],
           h |-> SetPrev(SetNext(unlinked, node, NULL), node, NULL)]

\* The header moves as it is; the nodes keep their links.
linked_list_move(src) == [dst |-> src, src |-> EmptyList]

\* The nodes that a walk from the head along next meets; in a broken list it
\* meets a node twice and is cut off.
Walk(l, h) ==
  LET after == [p \in Pointer |-> IF p = NULL THEN NULL ELSE h.next[p]]
      at[i \in 1 .. Cardinality(Nodes) + 1] ==
        IF i = 1 THEN l.head ELSE after[at[i - 1]]
  IN IF l.head = NULL THEN <<>> ELSE SelectSeq(at, LAMBDA p : p # NULL)

\* A list is what its header and the links of both directions say it is.
IsList(l, h) ==
  LET s == Walk(l, h) IN
  /\ IsInjective(s)
  /\ l.size = Len(s)
  /\ l.head = (IF s = <<>> THEN NULL ELSE Head(s))
  /\ l.tail = (IF s = <<>> THEN NULL ELSE Last(s))
  /\ \A i \in DOMAIN s :
       h.prev[s[i]] = (IF i = 1 THEN NULL ELSE s[i - 1])
=============================================================================
