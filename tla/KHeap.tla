------------------------------- MODULE KHeap -------------------------------
(***************************************************************************)
(* The kernel heap of src/src/mem/kheap.c over the ordered array of        *)
(* src/src/utils/ordered_array.c.  The heap is a run of blocks, each with  *)
(* a header (size, is_hole) before its payload and a footer (pointer to    *)
(* the header) after it; the index lists the blocks that may be given out, *)
(* ordered by size.                                                        *)
(*                                                                         *)
(* Addresses are offsets from start_address, which is page aligned.        *)
(* The bytes of a payload are not represented: a header or footer that a   *)
(* merge leaves inside one is forgotten, and a read of it finds no magic.  *)
(* kheap_lock is held for a whole request, so a request is in progress or  *)
(* none is; alloc calls itself after an expansion, and each of its rounds  *)
(* is a step.                                                              *)
(***************************************************************************)
EXTENDS Naturals, FiniteSets, SequencesExt

CONSTANTS
  HeaderSize, FooterSize,  \* sizeof of the two structs
  PageSize,
  MinEnd, MaxEnd,          \* end_address at the start, and max_size
  IndexNum,                \* KHEAP_INDEX_NUM
  Sizes                    \* the sizes callers ask for

MetaSize == HeaderSize + FooterSize    \* BLOCK_META_SIZE

ASSUME KHeapAssumption ==
  /\ {HeaderSize, FooterSize, PageSize, IndexNum} \subseteq Nat \ {0}
  /\ MinEnd \in Nat /\ MinEnd > MetaSize /\ MinEnd % PageSize = 0
  /\ MaxEnd \in Nat /\ MaxEnd >= MinEnd
  /\ Sizes \subseteq Nat

Addr == 0 .. MaxEnd

None == [size |-> 0, align |-> FALSE]   \* no request; a size of 0 is no request

VARIABLES
  mem,       \* mem.hdr and mem.ftr: the structs in memory; mem.index
  end,       \* end_address
  req,       \* the request being served
  grown,     \* history: how often the heap grew for it
  owned,     \* payload address -> size asked for, of blocks in use
  panic      \* the Assert that failed

vars == <<mem, end, req, grown, owned, panic>>

Header == [magic : BOOLEAN, size : Nat, is_hole : BOOLEAN]
Footer == [magic : BOOLEAN, header : Addr]

TypeOK ==
  /\ mem \in [hdr : [Addr -> Header], ftr : [Addr -> Footer], index : Seq(Addr)]
  /\ Len(mem.index) <= IndexNum
  /\ end \in Addr /\ end % PageSize = 0
  /\ req \in [size : Sizes \cup {0}, align : BOOLEAN]
  /\ grown \in Nat
  /\ DOMAIN owned \subseteq Addr /\ \A a \in DOMAIN owned : owned[a] \in Sizes
  /\ panic \in {"none", "max_size", "not_in_index"}

-----------------------------------------------------------------------------
(* Blocks and the index *)

align_to_page(a) == ((a + PageSize - 1) \div PageSize) * PageSize

NoHeader == [magic |-> FALSE, size |-> 0, is_hole |-> FALSE]
NoFooter == [magic |-> FALSE, header |-> 0]

make_block(m, start, size, is_hole) ==
  LET payload == start + 1 .. start + HeaderSize + size - 1
      footer == start + HeaderSize + size
      hdr == [magic |-> TRUE, size |-> size, is_hole |-> is_hole]
      ftr == [magic |-> TRUE, header |-> start]
  IN [hdr |-> [a \in Addr |-> IF a = start THEN hdr
                              ELSE IF a \in payload THEN NoHeader ELSE m.hdr[a]],
      ftr |-> [a \in Addr |-> IF a = footer THEN ftr
                              ELSE IF a \in payload THEN NoFooter ELSE m.ftr[a]],
      index |-> m.index]

\* Mutant: an unordered array.
ordered_array_append(m, h) ==
  IF Len(m.index) >= IndexNum THEN m ELSE [m EXCEPT !.index = Append(@, h)]

\* Behind the last one that is not larger; a full array stays as it is, and no
\* caller looks at the result.
ordered_array_insert(m, h) ==
  LET larger == {i \in 1 .. Len(m.index) :
                   m.hdr[m.index[i]].size > m.hdr[h].size}
      pos == IF larger = {} THEN Len(m.index) + 1
             ELSE CHOOSE i \in larger : \A j \in larger : i <= j
  IN IF Len(m.index) >= IndexNum THEN m
     ELSE [m EXCEPT !.index = InsertAt(@, pos, h)]

Indexed(m, h) == \E i \in 1 .. Len(m.index) : m.index[i] = h

\* Its callers assert that the element was there.
ordered_array_remove_element(m, h) ==
  [m EXCEPT !.index =
     RemoveAt(@, CHOOSE i \in 1 .. Len(@) :
                   @[i] = h /\ \A j \in 1 .. i - 1 : @[j] # h)]

Blank == [hdr |-> [a \in Addr |-> NoHeader], ftr |-> [a \in Addr |-> NoFooter],
          index |-> <<>>]

\* create_kheap
Init ==
  /\ mem = ordered_array_insert(make_block(Blank, 0, MinEnd - MetaSize, TRUE), 0)
  /\ end = MinEnd
  /\ req = None /\ grown = 0
  /\ owned = <<>>
  /\ panic = "none"

-----------------------------------------------------------------------------
(* Allocation *)

\* Where in block h a payload of the request r may start.
Places(m, h, r) ==
  LET start == h + HeaderSize
      size == m.hdr[h].size
  IN IF ~r.align THEN {start : x \in {s \in {size} : s >= r.size}}
     ELSE {p \in Addr : /\ p % PageSize = 0 /\ p >= start
                        /\ p + r.size <= start + size
                        /\ p = start \/ p - start > MetaSize}

\* kheap_find_hole: the positions in the index that would do.
Fits(m, r) == {i \in 1 .. Len(m.index) : Places(m, m.index[i], r) # {}}

\* kmalloc and kmalloc_align take kheap_lock.
kmalloc(n, align) ==
  /\ panic = "none" /\ req = None
  /\ n > 0
  /\ req' = [size |-> n, align |-> align]
  /\ grown' = 0
  /\ UNCHANGED <<mem, end, owned, panic>>

Serving == panic = "none" /\ req # None

AssertFails(name) == panic' = name /\ UNCHANGED <<mem, end, req, grown, owned>>

\* Mutant: rounded down to whole pages.
ExtensionRoundedDown(n) == ((n + MetaSize) \div PageSize) * PageSize

\* kheap_expand: how much the heap grows for a request of n bytes.
Extension(n) == align_to_page(n + MetaSize)

\* No block will do: kheap_expand, and the last block grows or a new one is
\* made behind it, which is not a hole but is in the index.
Expand ==
  /\ Serving /\ Fits(mem, req) = {}
  /\ LET ext == Extension(req.size)
         last == mem.ftr[end - FooterSize].header
         bigger == make_block(mem, last, mem.hdr[last].size + ext, TRUE)
         added == make_block(mem, end, ext - MetaSize, FALSE)
     IN IF end + ext > MaxEnd THEN AssertFails("max_size")
        ELSE IF ~mem.hdr[last].is_hole
        THEN /\ mem' = ordered_array_insert(added, end)
             /\ end' = end + ext /\ grown' = grown + 1
             /\ UNCHANGED <<req, owned, panic>>
        ELSE IF ~Indexed(mem, last) THEN AssertFails("not_in_index")
        ELSE /\ mem' = ordered_array_insert(
                         ordered_array_remove_element(bigger, last), last)
             /\ end' = end + ext /\ grown' = grown + 1
             /\ UNCHANGED <<req, owned, panic>>

\* The free block in front of an aligned payload at pos, if pos is not the
\* start of block h.
CutFront(m, h, pos) ==
  LET cut == pos - HeaderSize - h
  IN IF cut = 0 THEN m
     ELSE ordered_array_insert(make_block(m, h, cut - MetaSize, TRUE), h)

\* Mutants: the allocated block is cut, the rest is forgotten; the rest starts
\* one byte too early, and the block is one byte short.
CutBackLoses(m, h, size, n) == make_block(m, h, n, FALSE)

CutBackShort(m, h, size, n) ==
  LET rest == h + MetaSize + n - 1
  IN IF size - n <= MetaSize THEN make_block(m, h, size, FALSE)
     ELSE ordered_array_insert(
            make_block(make_block(m, h, n - 1, FALSE), rest,
                       size - n + 1 - MetaSize, TRUE), rest)

\* The block at h with room for size bytes keeps n and the rest becomes a free
\* block, unless the rest is too small for one.
CutBack(m, h, size, n) ==
  LET rest == h + MetaSize + n
  IN IF size - n <= MetaSize THEN make_block(m, h, size, FALSE)
     ELSE ordered_array_insert(
            make_block(make_block(m, h, n, FALSE), rest,
                       size - n - MetaSize, TRUE), rest)

\* The smallest block that will do, and the first place in it.
Carve ==
  /\ Serving /\ Fits(mem, req) # {}
  /\ LET i == CHOOSE x \in Fits(mem, req) : \A y \in Fits(mem, req) : x <= y
         h == mem.index[i]
         pos == CHOOSE p \in Places(mem, h, req) :
                  \A q \in Places(mem, h, req) : p <= q
         front == CutFront([mem EXCEPT !.index = RemoveAt(@, i)], h, pos)
         room == mem.hdr[h].size - (pos - HeaderSize - h)
     IN /\ mem' = CutBack(front, pos - HeaderSize, room, req.size)
        /\ owned' = [a \in DOMAIN owned \cup {pos} |->
                       IF a = pos THEN req.size ELSE owned[a]]
  /\ req' = None
  /\ UNCHANGED <<end, grown, panic>>

-----------------------------------------------------------------------------
(* kfree: merge with the next block, then with the one before. *)

\* Mutants: free merges with the block before it only, or does not take the
\* block it merged with off the index.
NextNever(m, h) == FALSE

MergeNextKeepsIndex(m, h) ==
  LET n == h + MetaSize + m.hdr[h].size
  IN IF n < end /\ m.hdr[n].magic /\ m.hdr[n].is_hole
     THEN make_block(m, h, m.hdr[h].size + m.hdr[n].size + MetaSize, TRUE)
     ELSE [m EXCEPT !.hdr[h].is_hole = TRUE]

NextHole(m, h) ==
  LET n == h + MetaSize + m.hdr[h].size
  IN n < end /\ m.hdr[n].magic /\ m.hdr[n].is_hole

\* Reads the footer below the block.
PrevHole(m, h) ==
  /\ h >= FooterSize
  /\ m.ftr[h - FooterSize].magic
  /\ m.hdr[m.ftr[h - FooterSize].header].is_hole

MergeNext(m, h) ==
  LET n == h + MetaSize + m.hdr[h].size
  IN IF NextHole(m, h)
     THEN ordered_array_remove_element(
            make_block(m, h, m.hdr[h].size + m.hdr[n].size + MetaSize, TRUE), n)
     ELSE [m EXCEPT !.hdr[h].is_hole = TRUE]

MergePrev(m, h) ==
  LET l == m.ftr[h - FooterSize].header
  IN ordered_array_insert(
       IF PrevHole(m, h)
       THEN ordered_array_remove_element(
              make_block(m, l, m.hdr[l].size + m.hdr[h].size + MetaSize, TRUE),
              l)
       ELSE m,
       IF PrevHole(m, h) THEN l ELSE h)

\* The neighbours that free takes out of the index, and must find there.
Merged(m, h) ==
  {n \in {h + MetaSize + m.hdr[h].size} : NextHole(m, h)}
    \cup {m.ftr[x - FooterSize].header : x \in {y \in {h} : PrevHole(m, y)}}

kfree(a) ==
  /\ panic = "none" /\ req = None
  /\ a \in DOMAIN owned
  /\ LET h == a - HeaderSize
     IN IF \E n \in Merged(mem, h) : ~Indexed(mem, n)
        THEN AssertFails("not_in_index")
        ELSE /\ mem' = MergePrev(MergeNext(mem, h), h)
             /\ owned' = [b \in DOMAIN owned \ {a} |-> owned[b]]
             /\ UNCHANGED <<end, req, grown, panic>>

Halted == panic # "none" /\ UNCHANGED vars

Next ==
  \/ \E n \in Sizes, align \in BOOLEAN : kmalloc(n, align)
  \/ Expand
  \/ Carve
  \/ \E a \in Addr : kfree(a)
  \/ Halted

Spec == Init /\ [][Next]_vars

-----------------------------------------------------------------------------
\* Where a block starts: make_block wrote a header there, and nothing has
\* covered it since.
Blocks == {a \in Addr : mem.hdr[a].magic}

After(h) == h + MetaSize + mem.hdr[h].size

\* The blocks tile the heap: the first one starts at start_address, each ends
\* where another one starts or at end_address, none reaches into another, and
\* every footer points back to its own header, which is what free and the
\* expansion trust when they look at their neighbours.
Tiled ==
  /\ 0 \in Blocks
  /\ \A h \in Blocks : h < end /\ After(h) \in Blocks \cup {end}
  /\ \A h, g \in Blocks : h < g => After(h) <= g
  /\ \A h \in Blocks :
       mem.ftr[h + HeaderSize + mem.hdr[h].size] = [magic |-> TRUE, header |-> h]

\* Memory in use is the payload of one block that is large enough, is not a
\* hole, and cannot be given out again.
OwnedSafe ==
  \A a \in DOMAIN owned :
    /\ a - HeaderSize \in Blocks
    /\ ~mem.hdr[a - HeaderSize].is_hole
    /\ mem.hdr[a - HeaderSize].size >= owned[a]
    /\ ~Indexed(mem, a - HeaderSize)

\* Nothing leaks, and the first block that fits is the smallest: the index holds
\* every block that is not in use, once, ordered by size although sizes change
\* under it.
IndexExact ==
  /\ {h \in Blocks : h + HeaderSize \notin DOMAIN owned} = ToSet(mem.index)
  /\ IsInjective(mem.index)
  /\ \A i, j \in 1 .. Len(mem.index) :
       i < j => mem.hdr[mem.index[i]].size <= mem.hdr[mem.index[j]].size

\* Two holes are never side by side: free merges with both neighbours.
Coalesced ==
  \A h \in Blocks :
    mem.hdr[h].is_hole /\ After(h) < end => ~mem.hdr[After(h)].is_hole

\* kheap.c:148: an expansion made a block that is large enough, so the second
\* round of alloc succeeds, if the request needs no alignment.
PlainExpansionServes ==
  Serving /\ grown > 0 /\ ~req.align => Fits(mem, req) # {}
=============================================================================
