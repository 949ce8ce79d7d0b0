---------------------------- MODULE KHeapProofs ----------------------------
(***************************************************************************)
(* Theorems about KHeap, for every size of headers, pages, heap and index  *)
(* and every set of request sizes.                                         *)
(***************************************************************************)
EXTENDS KHeap, WellFoundedInduction, SequenceTheorems, TLAPS

-----------------------------------------------------------------------------
(* The arithmetic of addresses *)

\* The sizes are numbers, and a block has room for its header and footer.
LEMMA Sized ==
  /\ HeaderSize \in Nat /\ HeaderSize > 0 /\ FooterSize \in Nat /\ FooterSize > 0
  /\ PageSize \in Nat /\ PageSize > 0 /\ IndexNum \in Nat /\ IndexNum > 0
  /\ MetaSize \in Nat /\ MetaSize = HeaderSize + FooterSize
  /\ MinEnd \in Nat /\ MinEnd > MetaSize /\ MinEnd % PageSize = 0
  /\ MaxEnd \in Nat /\ MinEnd <= MaxEnd /\ Addr = 0 .. MaxEnd
  BY KHeapAssumption DEF MetaSize, Addr

\* A nonempty set of numbers has a least one.
LEMMA LeastNat ==
  ASSUME NEW S \in SUBSET Nat, S # {}
  PROVE  \E m \in S : \A k \in S : m <= k
<1> DEFINE R == OpToRel(<, Nat)
<1>1. IsWellFoundedOn(R, Nat) BY NatLessThanWellFounded, Zenon
<1>2. \A x, y \in Nat : x < y => <<x, y>> \in R BY DEF OpToRel
<1> HIDE DEF R
<1>3. \E x \in S : \A y \in S : ~ (<<y, x>> \in R) BY <1>1, WFMin, Zenon
<1>4. PICK x \in S : \A y \in S : ~ (<<y, x>> \in R) BY <1>3
<1>5. ASSUME NEW k \in S, k < x PROVE FALSE
  <2>1. k \in Nat /\ x \in Nat OBVIOUS
  <2>2. <<k, x>> \in R BY <1>2, <1>5, <2>1, Zenon
  <2> QED BY <1>4, <2>2, Zenon
<1> QED BY <1>5

\* A number is one quotient and one remainder.
LEMMA Remainder ==
  ASSUME NEW b \in Nat \ {0}, NEW q \in Int, NEW r \in 0 .. b - 1,
         NEW a \in Nat, a = b * q + r
  PROVE  a % b = r
<1> DEFINE p == a \div b  m == a % b
<1>1. p \in Nat /\ m \in 0 .. b - 1 /\ a = b * p + m OBVIOUS
<1> HIDE DEF p, m
<1> DEFINE d == q - p
<1>2. d \in Int /\ b * d = m - r
  <2>1. b * (q - p) = b * q - b * p BY <1>1
  <2>2. b * q \in Int /\ b * p \in Int BY <1>1
  <2> QED BY <1>1, <2>1, <2>2
<1>3. d = 0
  <2> HIDE DEF d
  <2>1. CASE d >= 1
    <3>1. PICK e \in Nat : d = e + 1 BY <1>2, <2>1
    <3>2. b * d = b * e + b /\ b * e \in Nat BY <3>1
    <3> QED BY <1>1, <1>2, <3>2
  <2>2. CASE d <= -1
    <3>1. PICK e \in Nat : d = -(e + 1) BY <1>2, <2>2
    <3>2. b * d = -(b * e) - b /\ b * e \in Nat BY <3>1
    <3> QED BY <1>1, <1>2, <3>2
  <2> QED BY <1>2, <2>1, <2>2
<1>4. b * d = 0 BY <1>3
<1>5. m = r
  <2> HIDE DEF d
  <2> QED BY <1>1, <1>2, <1>4
<1> QED BY <1>5 DEF m

\* Whole pages added to an address or taken from it do not move it in its page.
LEMMA PageShift ==
  ASSUME NEW a \in Nat, NEW c \in Int, NEW d \in Nat, d = a + c,
         \E k \in Int : c = PageSize * k
  PROVE  d % PageSize = a % PageSize
<1>0. PageSize \in Nat \ {0} BY Sized
<1> DEFINE q == a \div PageSize  r == a % PageSize
<1>1. q \in Nat /\ r \in 0 .. PageSize - 1 /\ a = PageSize * q + r BY <1>0
<1>2. PICK k \in Int : c = PageSize * k OBVIOUS
<1> HIDE DEF q, r
<1> DEFINE n == q + k
<1>3. PageSize * (q + k) = PageSize * q + PageSize * k BY <1>0, <1>1
<1>4. PageSize * q \in Int /\ PageSize * k \in Int BY <1>0, <1>1
<1>5. n \in Int /\ d = PageSize * n + r BY <1>0, <1>1, <1>2, <1>3, <1>4
<1>6. d % PageSize = r
  <2> HIDE DEF n
  <2> QED BY <1>0, <1>1, <1>5, Remainder, SMTT(30)
<1> QED BY <1>6 DEF r

\* A multiple of the page size is so many pages.
LEMMA PageMultiple ==
  ASSUME NEW a \in Nat
  PROVE  a % PageSize = 0 <=> \E k \in Int : a = PageSize * k
<1>0. PageSize \in Nat \ {0} BY Sized
<1>1. ASSUME a % PageSize = 0 PROVE \E k \in Int : a = PageSize * k
  <2> DEFINE q == a \div PageSize
  <2>1. q \in Int /\ a = PageSize * q + (a % PageSize) BY <1>0
  <2> HIDE DEF q
  <2>2. PageSize * q \in Int BY <1>0, <2>1
  <2> QED BY <1>1, <2>1, <2>2
<1>2. ASSUME NEW k \in Int, a = PageSize * k PROVE a % PageSize = 0
  <2>1. a = PageSize * k + 0 /\ 0 \in 0 .. PageSize - 1 BY <1>0, <1>2
  <2> QED BY <1>0, <2>1, Remainder
<1> QED BY <1>1, <1>2

\* align_to_page rounds up to whole pages, so an extension is large enough for
\* the request it is made for and leaves the end of the heap page aligned.
LEMMA ExtensionRoom ==
  ASSUME NEW n \in Nat
  PROVE  /\ Extension(n) \in Nat /\ Extension(n) >= n + MetaSize
         /\ Extension(n) % PageSize = 0
<1>0. PageSize \in Nat \ {0} /\ MetaSize \in Nat BY Sized
<1> DEFINE a == n + MetaSize + PageSize - 1  q == a \div PageSize
           r == a % PageSize  e == q * PageSize
<1>1. a \in Nat BY <1>0
<1>2. q \in Nat /\ r \in 0 .. PageSize - 1 /\ a = PageSize * q + r
  <2> HIDE DEF a
  <2> QED BY <1>0, <1>1
<1>3. Extension(n) = e
  BY DEF Extension, align_to_page
<1>4. e = PageSize * q /\ e \in Nat
  <2> HIDE DEF q
  <2> QED BY <1>0, <1>2
<1>5. e >= n + MetaSize
  <2>1. a = n + MetaSize + PageSize - 1 OBVIOUS
  <2> HIDE DEF a, q, r, e
  <2> QED BY <1>0, <1>2, <1>4, <2>1
<1>6. e % PageSize = 0
  <2>1. e = PageSize * q BY <1>4
  <2>2. q \in Int BY <1>2
  <2> HIDE DEF e, q
  <2> QED BY <1>4, <2>1, <2>2, PageMultiple
<1> HIDE DEF e
<1> QED BY <1>3, <1>4, <1>5, <1>6

-----------------------------------------------------------------------------
(* Blocks side by side *)

Headers == [Addr -> Header]
Footers == [Addr -> Footer]

\* The first address behind block h, and where its footer is.
Behind(hd, h) == h + MetaSize + hd[h].size
FooterAt(hd, h) == h + HeaderSize + hd[h].size

\* What a block is: it ends at hi or where the next one starts, nothing starts
\* inside it, and its footer points back.
BlockAt(hd, ft, h, hi) ==
  /\ hd[h].size > 0
  /\ Behind(hd, h) <= hi
  /\ Behind(hd, h) < hi => hd[Behind(hd, h)].magic
  /\ \A g \in h + 1 .. Behind(hd, h) - 1 : ~hd[g].magic
  /\ ft[FooterAt(hd, h)] = [magic |-> TRUE, header |-> h]

\* The addresses from lo to hi, hi not included, are blocks side by side.
Tiles(hd, ft, lo, hi) ==
  /\ lo <= hi
  /\ lo < hi => hd[lo].magic
  /\ \A h \in lo .. hi - 1 : hd[h].magic => BlockAt(hd, ft, h, hi)
  /\ \A x \in lo + 1 .. hi :
       x = hi \/ hd[x].magic => \E g \in lo .. x - 1 : hd[g].magic /\ Behind(hd, g) = x

\* The header of an address has its three fields.
LEMMA HeaderTyped ==
  ASSUME NEW hd \in Headers, NEW a \in Addr
  PROVE  hd[a] \in Header /\ hd[a].size \in Nat /\ hd[a].magic \in BOOLEAN
         /\ hd[a].is_hole \in BOOLEAN
  BY DEF Headers, Header

\* Runs of blocks that meet are one run.
LEMMA TilesJoin ==
  ASSUME NEW hd \in Headers, NEW ft, NEW lo \in Nat, NEW mid \in Nat,
         NEW hi \in Nat, hi <= MaxEnd + 1,
         Tiles(hd, ft, lo, mid), Tiles(hd, ft, mid, hi)
  PROVE  Tiles(hd, ft, lo, hi)
<1>1. lo <= mid /\ mid <= hi BY DEF Tiles
<1>2. \A h \in lo .. hi - 1 : h \in Addr /\ hd[h].size \in Nat
  BY <1>1, Sized, HeaderTyped
<1>3. ASSUME NEW h \in lo .. hi - 1, hd[h].magic PROVE BlockAt(hd, ft, h, hi)
  <2>1. CASE h < mid
    <3>1. BlockAt(hd, ft, h, mid) BY <1>1, <1>3, <2>1 DEF Tiles
    <3>2. Behind(hd, h) = mid /\ mid < hi => hd[mid].magic BY DEF Tiles
    <3>3. Behind(hd, h) \in Nat BY <1>2, Sized, SMTT(30) DEF Behind
    <3> QED BY <1>1, <3>1, <3>2, <3>3 DEF BlockAt
  <2>2. CASE h >= mid BY <1>1, <1>3, <2>2 DEF Tiles
  <2> QED BY <1>1, <2>1, <2>2
<1>4. ASSUME NEW x \in lo + 1 .. hi, x = hi \/ hd[x].magic
      PROVE  \E g \in lo .. x - 1 : hd[g].magic /\ Behind(hd, g) = x
  <2>1. CASE x < mid BY <1>1, <1>4, <2>1 DEF Tiles
  <2>2. CASE x = mid BY <1>1, <1>4, <2>2 DEF Tiles
  <2>3. CASE x > mid
    <3>1. PICK g \in mid .. x - 1 : hd[g].magic /\ Behind(hd, g) = x
      BY <1>1, <1>4, <2>3 DEF Tiles
    <3> QED BY <1>1, <3>1
  <2> QED BY <1>1, <2>1, <2>2, <2>3
<1>5. lo < hi => hd[lo].magic BY <1>1 DEF Tiles
<1> QED BY <1>1, <1>3, <1>4, <1>5 DEF Tiles

\* A run can be parted where a block starts, or at its end.
LEMMA TilesPart ==
  ASSUME NEW hd \in Headers, NEW ft, NEW lo \in Nat, NEW mid \in Nat,
         NEW hi \in Nat, hi <= MaxEnd + 1,
         Tiles(hd, ft, lo, hi), lo <= mid, mid <= hi,
         mid = hi \/ hd[mid].magic
  PROVE  Tiles(hd, ft, lo, mid) /\ Tiles(hd, ft, mid, hi)
<1>2. \A h \in lo .. hi - 1 : h \in Addr /\ hd[h].size \in Nat
  BY Sized, HeaderTyped
<1>3. ASSUME NEW h \in lo .. mid - 1, hd[h].magic PROVE BlockAt(hd, ft, h, mid)
  <2>1. BlockAt(hd, ft, h, hi) BY <1>3 DEF Tiles
  <2>2. Behind(hd, h) \in Nat BY <1>2, Sized DEF Behind
  <2>3. Behind(hd, h) <= mid
    BY <2>1, <2>2 DEF BlockAt
  <2> QED BY <1>2, <2>1, <2>2, <2>3 DEF BlockAt
<1>4. ASSUME NEW x \in mid + 1 .. hi, x = hi \/ hd[x].magic
      PROVE  \E g \in mid .. x - 1 : hd[g].magic /\ Behind(hd, g) = x
  <2>1. PICK g \in lo .. x - 1 : hd[g].magic /\ Behind(hd, g) = x
    BY <1>4 DEF Tiles
  <2>2. CASE g < mid
    <3>1. BlockAt(hd, ft, g, mid) BY <1>3, <2>1, <2>2
    <3> QED BY <2>1, <3>1 DEF BlockAt
  <2> QED BY <2>1, <2>2
<1>5. Tiles(hd, ft, lo, mid)
  <2>1. lo < mid => hd[lo].magic BY DEF Tiles
  <2>2. ASSUME NEW x \in lo + 1 .. mid, x = mid \/ hd[x].magic
        PROVE  \E g \in lo .. x - 1 : hd[g].magic /\ Behind(hd, g) = x
    BY <2>2 DEF Tiles
  <2> QED BY <1>3, <2>1, <2>2 DEF Tiles
<1>6. Tiles(hd, ft, mid, hi)
  <2>1. mid < hi => hd[mid].magic OBVIOUS
  <2>2. \A h \in mid .. hi - 1 : hd[h].magic => BlockAt(hd, ft, h, hi)
    BY DEF Tiles
  <2> QED BY <1>4, <2>1, <2>2 DEF Tiles
<1> QED BY <1>5, <1>6

\* Only the headers and footers in it make a run.
LEMMA TilesKept ==
  ASSUME NEW hd \in Headers, NEW ft, NEW hd2 \in Headers, NEW ft2,
         NEW lo \in Nat, NEW hi \in Nat, hi <= MaxEnd + 1,
         Tiles(hd, ft, lo, hi),
         \A a \in lo .. hi - 1 : hd2[a].magic = hd[a].magic /\ hd2[a].size = hd[a].size
                                   /\ ft2[a] = ft[a]
  PROVE  Tiles(hd2, ft2, lo, hi)
<1>2. \A h \in lo .. hi - 1 : h \in Addr /\ hd[h].size \in Nat
  BY Sized, HeaderTyped
<1>3. ASSUME NEW h \in lo .. hi - 1, hd[h].magic PROVE BlockAt(hd2, ft2, h, hi)
  <2>1. BlockAt(hd, ft, h, hi) BY <1>3 DEF Tiles
  <2>2. Behind(hd2, h) = Behind(hd, h) /\ FooterAt(hd2, h) = FooterAt(hd, h)
    BY DEF Behind, FooterAt
  <2>3. Behind(hd, h) \in h + 1 .. hi /\ FooterAt(hd, h) \in lo .. hi - 1
    BY <1>2, <2>1, Sized DEF Behind, FooterAt, BlockAt
  <2> QED BY <2>1, <2>2, <2>3 DEF BlockAt
<1>4. ASSUME NEW x \in lo + 1 .. hi, x = hi \/ hd2[x].magic
      PROVE  \E g \in lo .. x - 1 : hd2[g].magic /\ Behind(hd2, g) = x
  <2>1. PICK g \in lo .. x - 1 : hd[g].magic /\ Behind(hd, g) = x
    BY <1>4 DEF Tiles
  <2> QED BY <2>1 DEF Behind
<1> QED BY <1>3, <1>4 DEF Tiles

-----------------------------------------------------------------------------
(* make_block *)

Mems == [hdr : Headers, ftr : Footers, index : Seq(Addr)]

\* What make_block writes: the header and the footer, and what they cover is
\* forgotten.
Made(m, n, start, size, hole, footer) ==
  /\ n \in Mems /\ n.index = m.index
  /\ n.hdr[start] = [magic |-> TRUE, size |-> size, is_hole |-> hole]
  /\ \A a \in start + 1 .. footer - 1 : ~n.hdr[a].magic
  /\ \A a \in Addr : a \notin start .. footer - 1 => n.hdr[a] = m.hdr[a]
  /\ n.ftr[footer] = [magic |-> TRUE, header |-> start]
  /\ \A a \in Addr : a \notin start .. footer => n.ftr[a] = m.ftr[a]

\* It does so wherever there is room.
LEMMA MadeBlock ==
  ASSUME NEW m \in Mems, NEW start \in Nat, NEW size \in Nat,
         NEW hole \in BOOLEAN, start + MetaSize + size <= MaxEnd + 1
  PROVE  Made(m, make_block(m, start, size, hole), start, size, hole,
              start + HeaderSize + size)
<1> PICK footer : footer = start + HeaderSize + size OBVIOUS
<1> PICK n : n = make_block(m, start, size, hole) OBVIOUS
<1> DEFINE h == [magic |-> TRUE, size |-> size, is_hole |-> hole]
           f == [magic |-> TRUE, header |-> start]
<1>0. footer \in Nat BY Sized
<1>1. /\ m.index \in Seq(Addr) /\ start \in Addr /\ footer \in Addr /\ start < footer
      /\ \A a \in Addr : m.hdr[a] \in Header /\ m.ftr[a] \in Footer
  BY Sized DEF Mems, Headers, Footers
<1>2. h \in Header /\ f \in Footer /\ NoHeader \in Header /\ NoFooter \in Footer
  BY <1>1, Sized DEF Header, Footer, NoHeader, NoFooter
<1>3. /\ n = [hdr |-> n.hdr, ftr |-> n.ftr, index |-> m.index]
      /\ n.hdr = [a \in Addr |-> n.hdr[a]] /\ n.ftr = [a \in Addr |-> n.ftr[a]]
  BY DEF make_block
<1>4. \A a \in Addr :
        n.hdr[a] = IF a = start THEN h
                   ELSE IF a \in start + 1 .. footer - 1 THEN NoHeader ELSE m.hdr[a]
  BY <1>0, Sized DEF make_block
<1>5. \A a \in Addr :
        n.ftr[a] = IF a = footer THEN f
                   ELSE IF a \in start + 1 .. footer - 1 THEN NoFooter ELSE m.ftr[a]
  BY <1>0, Sized DEF make_block
<1> HIDE DEF h, f
<1>6. n.hdr \in Headers
  <2>1. \A a \in Addr : n.hdr[a] \in Header BY <1>1, <1>2, <1>4
  <2> QED BY <1>3, <2>1 DEF Headers
<1>7. n.ftr \in Footers
  <2>1. \A a \in Addr : n.ftr[a] \in Footer BY <1>1, <1>2, <1>5
  <2> QED BY <1>3, <2>1 DEF Footers
<1>8. n \in Mems /\ n.index = m.index BY <1>1, <1>3, <1>6, <1>7 DEF Mems
<1>9. /\ n.hdr[start] = h /\ n.ftr[footer] = f BY <1>1, <1>4, <1>5
<1>10. ASSUME NEW a \in start + 1 .. footer - 1 PROVE ~n.hdr[a].magic
  <2>1. a \in Addr /\ a # start BY <1>0, <1>1, Sized
  <2> QED BY <1>4, <2>1 DEF NoHeader
<1>11. ASSUME NEW a \in Addr, a \notin start .. footer - 1
       PROVE  n.hdr[a] = m.hdr[a]
  <2>1. a # start /\ a \notin start + 1 .. footer - 1 BY <1>0, <1>1, <1>11, Sized
  <2> QED BY <1>4, <2>1
<1>12. ASSUME NEW a \in Addr, a \notin start .. footer
       PROVE  n.ftr[a] = m.ftr[a]
  <2>1. a # footer /\ a \notin start + 1 .. footer - 1
    BY <1>0, <1>1, <1>12, Sized
  <2> QED BY <1>5, <2>1
<1>13. Made(m, n, start, size, hole, footer)
  BY <1>8, <1>9, <1>10, <1>11, <1>12 DEF h, f, Made
<1> QED BY <1>13

\* It is one block, if no header was where its footer is now.
LEMMA MadeTile ==
  ASSUME NEW m \in Mems, NEW start \in Nat, NEW size \in Nat, size > 0,
         NEW hole \in BOOLEAN, start + MetaSize + size <= MaxEnd + 1,
         \A a \in start + HeaderSize + size .. start + MetaSize + size - 1 :
            ~m.hdr[a].magic,
         NEW n, n = make_block(m, start, size, hole)
  PROVE  Tiles(n.hdr, n.ftr, start, start + MetaSize + size)
<1> DEFINE hi == start + MetaSize + size
<1> PICK footer : footer = start + HeaderSize + size OBVIOUS
<1>0. /\ n.hdr[start] = [magic |-> TRUE, size |-> size, is_hole |-> hole]
      /\ \A a \in start + 1 .. footer - 1 : ~n.hdr[a].magic
      /\ \A a \in Addr : a \notin start .. footer - 1 => n.hdr[a] = m.hdr[a]
      /\ n.ftr[footer] = [magic |-> TRUE, header |-> start]
  <2>1. Made(m, n, start, size, hole, footer) BY MadeBlock
  <2> QED BY <2>1 DEF Made
<1>1. n.hdr[start].magic /\ n.hdr[start].size = size BY <1>0
<1>2. /\ footer \in Nat /\ hi \in Nat /\ footer < hi /\ start < footer
      /\ \A a \in start .. hi - 1 : a \in Addr
  BY Sized
<1>3. \A a \in start + 1 .. hi - 1 : ~n.hdr[a].magic
  <2> SUFFICES ASSUME NEW a \in start + 1 .. hi - 1 PROVE ~n.hdr[a].magic OBVIOUS
  <2>1. CASE a <= footer - 1 BY <1>0, <1>2, <2>1
  <2>2. CASE a >= footer
    <3>1. n.hdr[a] = m.hdr[a] BY <1>0, <1>2, <2>2
    <3>2. a \in footer .. hi - 1 BY <1>2, <2>2
    <3> QED BY <3>1, <3>2, Sized
  <2> QED BY <1>2, <2>1, <2>2
<1>4. Behind(n.hdr, start) = hi /\ FooterAt(n.hdr, start) = footer
  BY <1>1 DEF Behind, FooterAt
<1> HIDE DEF hi
<1>5. BlockAt(n.hdr, n.ftr, start, hi)
  BY <1>0, <1>1, <1>2, <1>3, <1>4 DEF BlockAt
<1>6. Tiles(n.hdr, n.ftr, start, hi)
  BY <1>1, <1>2, <1>3, <1>4, <1>5 DEF Tiles
<1> QED BY <1>6 DEF hi

-----------------------------------------------------------------------------
(* The ordered array *)

Once(idx) == \A i, j \in 1 .. Len(idx) : idx[i] = idx[j] => i = j

\* The sizes do not fall along the array, the block b left aside.
OrderedBut(hd, idx, b) ==
  \A i, j \in 1 .. Len(idx) :
    i < j /\ idx[i] # b /\ idx[j] # b => hd[idx[i]].size <= hd[idx[j]].size

Ordered(hd, idx) ==
  \A i, j \in 1 .. Len(idx) : i < j => hd[idx[i]].size <= hd[idx[j]].size

\* The loop of ordered_array_remove that closes the gap.
LEMMA RemovedAt ==
  ASSUME NEW idx \in Seq(Addr), NEW i \in 1 .. Len(idx), NEW r, r = RemoveAt(idx, i)
  PROVE  /\ r \in Seq(Addr) /\ Len(r) = Len(idx) - 1
         /\ \A j \in 1 .. Len(r) : r[j] = IF j < i THEN idx[j] ELSE idx[j + 1]
<1> DEFINE s == SubSeq(idx, 1, i - 1)  t == SubSeq(idx, i + 1, Len(idx))
<1>1. Len(idx) \in Nat /\ \A j \in 1 .. Len(idx) : idx[j] \in Addr OBVIOUS
<1>2. /\ s \in Seq(Addr) /\ Len(s) = i - 1
      /\ \A j \in 1 .. i - 1 : s[j] = idx[j]
  BY <1>1
<1>3. /\ t \in Seq(Addr) /\ Len(t) = Len(idx) - i
      /\ \A j \in 1 .. Len(idx) - i : t[j] = idx[i + j]
  BY <1>1
<1>4. r = s \o t BY DEF RemoveAt
<1> HIDE DEF s, t
<1>5. r \in Seq(Addr) /\ Len(r) = Len(idx) - 1 BY <1>1, <1>2, <1>3, <1>4
<1>6. ASSUME NEW j \in 1 .. Len(r)
      PROVE  r[j] = IF j < i THEN idx[j] ELSE idx[j + 1]
  <2>1. r[j] = IF j <= Len(s) THEN s[j] ELSE t[j - Len(s)]
    BY <1>2, <1>3, <1>4
  <2> QED BY <1>1, <1>2, <1>3, <1>5, <2>1
<1> QED BY <1>5, <1>6

\* The array r is idx with h at position p.
WithAt(idx, p, h, r) ==
  /\ r \in Seq(Addr) /\ Len(r) = Len(idx) + 1
  /\ \A j \in 1 .. Len(r) : /\ j < p => r[j] = idx[j]
                            /\ j = p => r[j] = h
                            /\ j > p => r[j] = idx[j - 1]

\* The loop of ordered_array_insert that makes room.
LEMMA InsertedAt ==
  ASSUME NEW idx \in Seq(Addr), NEW p \in 1 .. Len(idx) + 1, NEW h \in Addr
  PROVE  WithAt(idx, p, h, InsertAt(idx, p, h))
<1> PICK r : r = InsertAt(idx, p, h) OBVIOUS
<1> DEFINE s == SubSeq(idx, 1, p - 1)  t == SubSeq(idx, p, Len(idx))
           e == <<h>>  u == s \o e
<1>1. Len(idx) \in Nat /\ \A j \in 1 .. Len(idx) : idx[j] \in Addr OBVIOUS
<1>2. /\ s \in Seq(Addr) /\ Len(s) = p - 1
      /\ \A j \in 1 .. p - 1 : s[j] = idx[j]
  BY <1>1
<1>3. /\ t \in Seq(Addr) /\ Len(t) = Len(idx) - p + 1
      /\ \A j \in 1 .. Len(idx) - p + 1 : t[j] = idx[p + j - 1]
  BY <1>1
<1>4. e \in Seq(Addr) /\ Len(e) = 1 /\ e[1] = h OBVIOUS
<1>5. r = u \o t BY DEF InsertAt
<1>6. /\ u \in Seq(Addr) /\ Len(u) = p
      /\ \A j \in 1 .. p : u[j] = IF j < p THEN idx[j] ELSE h
  <2> HIDE DEF s, e
  <2>0. p \in Nat /\ p > 0 BY <1>1
  <2>1. u \in Seq(Addr) /\ Len(u) = p
    <3>1. u \in Seq(Addr) /\ Len(u) = Len(s) + Len(e) BY <1>2, <1>4, ConcatProperties
    <3> QED BY <1>2, <1>4, <2>0, <3>1
  <2>2. ASSUME NEW j \in 1 .. p PROVE u[j] = IF j < p THEN idx[j] ELSE h
    <3>1. j \in 1 .. Len(s) + Len(e) BY <1>2, <1>4, <2>0
    <3>2. u[j] = IF j <= Len(s) THEN s[j] ELSE e[j - Len(s)]
      BY <1>2, <1>4, <3>1, ConcatProperties
    <3> QED BY <1>2, <1>4, <2>0, <3>2
  <2> QED BY <2>1, <2>2
<1> HIDE DEF s, t, e, u
<1>7. r \in Seq(Addr) /\ Len(r) = Len(idx) + 1
  <2>1. r \in Seq(Addr) /\ Len(r) = Len(u) + Len(t) BY <1>3, <1>5, <1>6, ConcatProperties
  <2> QED BY <1>1, <1>3, <1>6, <2>1
<1>8. ASSUME NEW j \in 1 .. Len(r)
      PROVE  /\ j < p => r[j] = idx[j]
             /\ j = p => r[j] = h
             /\ j > p => r[j] = idx[j - 1]
  <2>1. r[j] = IF j <= Len(u) THEN u[j] ELSE t[j - Len(u)]
    BY <1>3, <1>5, <1>6
  <2>2. CASE j <= p BY <1>6, <2>1, <2>2
  <2>3. CASE j > p
    <3>1. j - p \in 1 .. Len(idx) - p + 1 BY <1>1, <1>7, <2>3
    <3>2. r[j] = t[j - p] BY <1>6, <2>1, <2>3
    <3> QED BY <1>3, <2>3, <3>1, <3>2
  <2> QED BY <1>7, <2>2, <2>3
<1> QED BY <1>7, <1>8 DEF WithAt

\* The index of n is that of m without x; the memory is that of k.
Without(m, k, n, x) ==
  /\ n \in Mems /\ n.hdr = k.hdr /\ n.ftr = k.ftr
  /\ Once(n.index) /\ Len(n.index) = Len(m.index) - 1
  /\ \A a : Indexed(n, a) <=> Indexed(m, a) /\ a # x

\* Without the element at position i the array holds the others, in order.
LEMMA IndexDrop ==
  ASSUME NEW m \in Mems, Once(m.index), NEW i \in 1 .. Len(m.index),
         NEW n, n = [hdr |-> m.hdr, ftr |-> m.ftr, index |-> RemoveAt(m.index, i)]
  PROVE  /\ Without(m, m, n, m.index[i])
         /\ OrderedBut(m.hdr, m.index, m.index[i]) => Ordered(m.hdr, n.index)
<1> PICK h : h = m.index[i] OBVIOUS
<1> DEFINE idx == m.index  r == RemoveAt(idx, i)
<1>1. idx \in Seq(Addr) /\ m.hdr \in Headers /\ m.ftr \in Footers /\ Len(idx) \in Nat
  BY DEF Mems
<1>2. /\ r \in Seq(Addr) /\ Len(r) = Len(idx) - 1
      /\ \A j \in 1 .. Len(r) : r[j] = IF j < i THEN idx[j] ELSE idx[j + 1]
  BY <1>1, RemovedAt
<1>3. n = [hdr |-> m.hdr, ftr |-> m.ftr, index |-> r] OBVIOUS
<1> HIDE DEF r
<1>4. n \in Mems /\ n.hdr = m.hdr /\ n.ftr = m.ftr /\ n.index = r
  BY <1>1, <1>2, <1>3 DEF Mems
<1> DEFINE Old(j) == IF j < i THEN j ELSE j + 1
<1>5. \A j \in 1 .. Len(r) : Old(j) \in 1 .. Len(idx) /\ Old(j) # i /\ r[j] = idx[Old(j)]
  BY <1>1, <1>2, SMTT(30)
<1>6. \A j \in 1 .. Len(idx) : j # i => \E k \in 1 .. Len(r) : Old(k) = j
  <2> SUFFICES ASSUME NEW j \in 1 .. Len(idx), j # i
               PROVE  \E k \in 1 .. Len(r) : Old(k) = j
    OBVIOUS
  <2> DEFINE k == IF j < i THEN j ELSE j - 1
  <2>1. k \in 1 .. Len(r) /\ Old(k) = j BY <1>1, <1>2
  <2> QED BY <2>1
<1>7. \A j, k \in 1 .. Len(r) : /\ Old(j) = Old(k) => j = k
                                /\ j < k => Old(j) < Old(k)
  BY <1>1, <1>2
<1>8. \A j \in 1 .. Len(idx) : idx[j] = h => j = i BY DEF Once
<1> HIDE DEF Old, idx
<1>9. Once(r) BY <1>5, <1>7 DEF Once, idx
<1>10. ASSUME NEW a PROVE Indexed(n, a) <=> Indexed(m, a) /\ a # h
  <2>1. ASSUME NEW j \in 1 .. Len(r), r[j] = a PROVE Indexed(m, a) /\ a # h
    BY <1>5, <1>8, <2>1 DEF Indexed, idx
  <2>2. ASSUME NEW j \in 1 .. Len(idx), idx[j] = a, a # h PROVE Indexed(n, a)
    <3>1. j # i BY <2>2 DEF idx
    <3>2. PICK k \in 1 .. Len(r) : Old(k) = j BY <1>6, <3>1
    <3> QED BY <1>4, <1>5, <2>2, <3>2 DEF Indexed
  <2> QED BY <1>4, <2>1, <2>2 DEF Indexed, idx
<1>11. ASSUME OrderedBut(m.hdr, idx, h) PROVE Ordered(m.hdr, r)
  BY <1>5, <1>7, <1>8, <1>11 DEF OrderedBut, Ordered
<1>12. Without(m, m, n, h) BY <1>2, <1>4, <1>9, <1>10 DEF idx, Without
<1>13. OrderedBut(m.hdr, m.index, h) => Ordered(m.hdr, n.index)
  BY <1>4, <1>11 DEF idx
<1> QED BY <1>12, <1>13

-----------------------------------------------------------------------------
(* The index as a whole *)

\* The index lists blocks, each once, ordered by size, and is never too long.
IndexOK(m) ==
  /\ Once(m.index) /\ Ordered(m.hdr, m.index) /\ Len(m.index) <= IndexNum
  /\ \A a : Indexed(m, a) => a \in Addr /\ m.hdr[a].magic

\* It does not change while the blocks it lists keep their sizes.
LEMMA IndexSame ==
  ASSUME NEW m \in Mems, IndexOK(m), NEW n \in Mems, n.index = m.index,
         \A a : Indexed(m, a) => n.hdr[a] = m.hdr[a]
  PROVE  IndexOK(n) /\ \A a : Indexed(n, a) <=> Indexed(m, a)
<1>1. \A a : Indexed(n, a) <=> Indexed(m, a) BY DEF Indexed
<1>2. \A i \in 1 .. Len(m.index) : n.hdr[m.index[i]] = m.hdr[m.index[i]]
  BY DEF Indexed
<1>3. Ordered(n.hdr, n.index) BY <1>2 DEF IndexOK, Ordered
<1> QED BY <1>1, <1>3 DEF IndexOK

\* A block whose header has just changed is taken out, and the rest is an index.
LEMMA IndexTake ==
  ASSUME NEW m \in Mems, IndexOK(m), NEW x, Indexed(m, x),
         NEW k \in Mems, k.index = m.index,
         \A a : Indexed(m, a) /\ a # x => k.hdr[a] = m.hdr[a],
         NEW n, n = ordered_array_remove_element(k, x)
  PROVE  Without(m, k, n, x) /\ IndexOK(n)
<1> DEFINE P(i) == i \in 1 .. Len(k.index) /\ k.index[i] = x
                   /\ \A j \in 1 .. i - 1 : k.index[j] # x
<1>1. Once(k.index) /\ k.index \in Seq(Addr) /\ Len(k.index) \in Nat
  BY DEF IndexOK, Mems
<1>2. PICK i0 \in 1 .. Len(k.index) : k.index[i0] = x BY DEF Indexed
<1>3. P(i0) BY <1>1, <1>2 DEF Once
<1> DEFINE c == CHOOSE z \in 1 .. Len(k.index) :
                  k.index[z] = x /\ \A j \in 1 .. z - 1 : k.index[j] # x
<1>31. c \in 1 .. Len(k.index) /\ k.index[c] = x BY <1>3
<1>32. n = [k EXCEPT !.index = RemoveAt(@, c)]
  BY DEF ordered_array_remove_element
<1> HIDE DEF c
<1>4. PICK i \in 1 .. Len(k.index) :
        /\ x = k.index[i]
        /\ n = [hdr |-> k.hdr, ftr |-> k.ftr, index |-> RemoveAt(k.index, i)]
  BY <1>31, <1>32 DEF Mems
<1>6. /\ n \in Mems /\ n.hdr = k.hdr /\ n.ftr = k.ftr
      /\ Once(n.index) /\ Len(n.index) = Len(k.index) - 1
      /\ \A a : Indexed(n, a) <=> Indexed(k, a) /\ a # x
      /\ OrderedBut(k.hdr, k.index, x) => Ordered(k.hdr, n.index)
  <2>1. /\ Without(k, k, n, x)
        /\ OrderedBut(k.hdr, k.index, x) => Ordered(k.hdr, n.index)
    BY <1>1, <1>4, IndexDrop
  <2> QED BY <2>1 DEF Without
<1>7. \A a : Indexed(k, a) <=> Indexed(m, a) BY DEF Indexed
<1>8. \A j \in 1 .. Len(m.index) :
        m.index[j] # x => k.hdr[m.index[j]] = m.hdr[m.index[j]]
  BY DEF Indexed
<1>9. OrderedBut(k.hdr, k.index, x) BY <1>8, SMTT(30) DEF OrderedBut, Ordered, IndexOK
<1>10. IndexOK(n)
  <2>1. Ordered(n.hdr, n.index) BY <1>6, <1>9
  <2>2. Len(n.index) <= IndexNum
    <3>1. Len(m.index) \in Nat /\ Len(m.index) <= IndexNum BY <1>1 DEF IndexOK
    <3> QED BY <1>6, <3>1, Sized
  <2>3. \A a : Indexed(n, a) => a \in Addr /\ n.hdr[a].magic
    BY <1>6, <1>7 DEF IndexOK
  <2> QED BY <1>6, <2>1, <2>2, <2>3 DEF IndexOK
<1>11. Without(m, k, n, x) BY <1>6, <1>7 DEF Without
<1> QED BY <1>10, <1>11

\* The index of n is that of m with h, if there was room.
With(m, n, h) ==
  /\ n \in Mems /\ n.hdr = m.hdr /\ n.ftr = m.ftr
  /\ Len(m.index) < IndexNum => Len(n.index) = Len(m.index) + 1
  /\ Len(m.index) >= IndexNum => Len(n.index) = Len(m.index)
  /\ \A a : Indexed(n, a) <=> Indexed(m, a) \/ (a = h /\ Len(m.index) < IndexNum)

\* A block that was not in the index is put in its place, if there is room.
LEMMA IndexInsert ==
  ASSUME NEW m \in Mems, IndexOK(m), NEW h \in Addr, m.hdr[h].magic,
         ~Indexed(m, h), NEW n, n = ordered_array_insert(m, h)
  PROVE  With(m, n, h) /\ IndexOK(n)
<1> DEFINE idx == m.index
           larger == {i \in 1 .. Len(idx) : m.hdr[idx[i]].size > m.hdr[h].size}
           pos == IF larger = {} THEN Len(idx) + 1
                  ELSE CHOOSE i \in larger : \A j \in larger : i <= j
<1>1. /\ idx \in Seq(Addr) /\ Len(idx) \in Nat /\ IndexNum \in Nat
      /\ m.hdr \in Headers /\ m.ftr \in Footers
      /\ \A i \in 1 .. Len(idx) : idx[i] \in Addr
  BY Sized DEF Mems
<1>2. CASE Len(idx) >= IndexNum
  <2>1. n = m BY <1>2 DEF ordered_array_insert
  <2> QED BY <1>1, <1>2, <2>1 DEF With
<1>3. CASE Len(idx) < IndexNum
  <2> DEFINE r == InsertAt(idx, pos, h)
  <2>1. n = [m EXCEPT !.index = InsertAt(@, pos, h)]
    BY <1>1, <1>3 DEF ordered_array_insert
  <2>2. n = [hdr |-> m.hdr, ftr |-> m.ftr, index |-> r]
    <3> HIDE DEF pos
    <3> QED BY <2>1 DEF Mems
  <2>3. /\ pos \in 1 .. Len(idx) + 1
        /\ \A i \in 1 .. Len(idx) :
             /\ i < pos => m.hdr[idx[i]].size <= m.hdr[h].size
             /\ i = pos => m.hdr[idx[i]].size >= m.hdr[h].size
    <3>0. \A i \in 1 .. Len(idx) : m.hdr[idx[i]].size \in Nat BY <1>1, HeaderTyped
    <3>00. m.hdr[h].size \in Nat BY <1>1, HeaderTyped
    <3>1. CASE larger = {} BY <1>1, <3>0, <3>00, <3>1
    <3>2. CASE larger # {}
      <4>1. larger \in SUBSET Nat BY <1>1
      <4>2. \E i \in larger : \A j \in larger : i <= j BY <3>2, <4>1, LeastNat
      <4>3. pos \in larger /\ \A j \in larger : pos <= j BY <3>2, <4>2
      <4> HIDE DEF pos
      <4>4. /\ pos \in 1 .. Len(idx) /\ m.hdr[idx[pos]].size > m.hdr[h].size BY <4>3
      <4>5. ASSUME NEW i \in 1 .. Len(idx), i < pos PROVE i \notin larger
        BY <1>1, <4>3, <4>4, <4>5
      <4>6. ASSUME NEW i \in 1 .. Len(idx), i < pos
            PROVE  m.hdr[idx[i]].size <= m.hdr[h].size
        <5>1. ~(m.hdr[idx[i]].size > m.hdr[h].size) BY <4>5, <4>6
        <5> QED BY <3>0, <3>00, <5>1
      <4>7. m.hdr[idx[pos]].size >= m.hdr[h].size BY <3>0, <3>00, <4>4
      <4>8. pos \in 1 .. Len(idx) + 1 BY <1>1, <4>4
      <4> HIDE DEF larger
      <4> QED BY <4>6, <4>7, <4>8
    <3> QED BY <3>1, <3>2
  <2> HIDE DEF pos, larger
  <2>4. /\ r \in Seq(Addr) /\ Len(r) = Len(idx) + 1
        /\ \A j \in 1 .. Len(r) : /\ j < pos => r[j] = idx[j]
                                  /\ j = pos => r[j] = h
                                  /\ j > pos => r[j] = idx[j - 1]
    <3>1. WithAt(idx, pos, h, r)
      <4>1. idx \in Seq(Addr) /\ pos \in 1 .. Len(idx) + 1 BY <1>1, <2>3
      <4> HIDE DEF idx
      <4> QED BY <4>1, InsertedAt
    <3> HIDE DEF r
    <3> QED BY <3>1 DEF WithAt
  <2> HIDE DEF r
  <2>5. n \in Mems /\ n.hdr = m.hdr /\ n.ftr = m.ftr /\ n.index = r
    BY <1>1, <2>2, <2>4 DEF Mems
  <2>6. \A j \in 1 .. Len(idx) : idx[j] # h BY DEF Indexed
  <2>7. Once(r)
    <3> SUFFICES ASSUME NEW i \in 1 .. Len(r), NEW j \in 1 .. Len(r), r[i] = r[j]
                 PROVE  i = j
      BY DEF Once
    <3>1. \A k1, k2 \in 1 .. Len(idx) : idx[k1] = idx[k2] => k1 = k2
      BY DEF IndexOK, Once
    <3> HIDE DEF idx
    <3>2. ASSUME NEW k1 \in 1 .. Len(r), k1 # pos
          PROVE \E q \in 1 .. Len(idx) : /\ r[k1] = idx[q] /\ r[k1] # h
                                         /\ q = IF k1 < pos THEN k1 ELSE k1 - 1
      <4>1. CASE k1 < pos BY <1>1, <2>3, <2>4, <2>6, <4>1
      <4>2. CASE k1 > pos
        <5>1. k1 - 1 \in 1 .. Len(idx) BY <1>1, <2>3, <2>4, <4>2
        <5>2. r[k1] = idx[k1 - 1] BY <1>1, <2>3, <2>4, <4>2
        <5> QED BY <1>1, <2>3, <2>6, <4>2, <5>1, <5>2
      <4> QED BY <1>1, <2>3, <2>4, <3>2, <4>1, <4>2
    <3>3. r[pos] = h BY <1>1, <2>3, <2>4
    <3>4. CASE i # pos /\ j # pos BY <1>1, <2>3, <2>4, <3>1, <3>2, <3>4
    <3>5. CASE i = pos \/ j = pos BY <3>2, <3>3, <3>5
    <3> QED BY <3>4, <3>5
  <2>8. Ordered(m.hdr, r)
    <3> SUFFICES ASSUME NEW i \in 1 .. Len(r), NEW j \in 1 .. Len(r), i < j
                 PROVE  m.hdr[r[i]].size <= m.hdr[r[j]].size
      BY DEF Ordered
    <3>1. \A k1, k2 \in 1 .. Len(idx) :
            k1 < k2 => m.hdr[idx[k1]].size <= m.hdr[idx[k2]].size
      BY DEF IndexOK, Ordered
    <3> DEFINE S(k) == m.hdr[idx[k]].size  s == m.hdr[h].size
    <3>2. s \in Nat /\ \A k \in 1 .. Len(idx) : S(k) \in Nat
      BY <1>1, HeaderTyped
    <3>3. ASSUME NEW k \in 1 .. Len(idx), k >= pos PROVE s <= S(k)
      <4>1. pos \in 1 .. Len(idx) BY <1>1, <2>3, <3>3
      <4>2. S(pos) >= s BY <2>3, <4>1
      <4>3. CASE k = pos BY <3>2, <4>2, <4>3
      <4>4. CASE k > pos
        <5>1. S(pos) <= S(k) BY <3>1, <4>1, <4>4
        <5> QED BY <3>2, <4>1, <4>2, <5>1, SMTT(30)
      <4> QED BY <3>3, <1>1, <2>3, <4>3, <4>4
    <3>4. CASE j < pos
      <4>1. r[i] = idx[i] /\ r[j] = idx[j] /\ i \in 1 .. Len(idx) /\ j \in 1 .. Len(idx)
        BY <1>1, <2>3, <2>4, <3>4
      <4> QED BY <3>1, <4>1
    <3>5. CASE j = pos
      <4>1. r[i] = idx[i] /\ r[j] = h /\ i \in 1 .. Len(idx) /\ i < pos
        BY <1>1, <2>3, <2>4, <3>5
      <4> QED BY <2>3, <4>1
    <3>6. CASE j > pos
      <4>0. r[j] = idx[j - 1] /\ j - 1 \in 1 .. Len(idx) /\ j - 1 >= pos
        BY <1>1, <2>3, <2>4, <3>6
      <4>1. CASE i < pos
        <5>1. r[i] = idx[i] /\ i \in 1 .. Len(idx) /\ i < j - 1
          BY <1>1, <2>3, <2>4, <4>0, <4>1
        <5> QED BY <3>1, <4>0, <5>1
      <4>2. CASE i = pos
        <5>1. r[i] = h BY <2>4, <4>2
        <5> QED BY <3>3, <4>0, <5>1
      <4>3. CASE i > pos
        <5>1. r[i] = idx[i - 1] /\ i - 1 \in 1 .. Len(idx) /\ i - 1 < j - 1
          BY <1>1, <2>3, <2>4, <4>0, <4>3, SMTT(30)
        <5> QED BY <3>1, <4>0, <5>1
      <4> QED BY <1>1, <2>3, <4>1, <4>2, <4>3
    <3> QED BY <1>1, <2>3, <2>4, <3>4, <3>5, <3>6
  <2>9. ASSUME NEW a PROVE Indexed(n, a) <=> Indexed(m, a) \/ a = h
    <3>1. ASSUME NEW j \in 1 .. Len(r), r[j] = a PROVE Indexed(m, a) \/ a = h
      <4>1. CASE j < pos
        <5>1. j \in 1 .. Len(idx) /\ r[j] = idx[j] BY <1>1, <2>3, <2>4, <4>1
        <5> QED BY <3>1, <5>1 DEF Indexed
      <4>2. CASE j = pos BY <1>1, <2>3, <2>4, <3>1, <4>2
      <4>3. CASE j > pos
        <5>1. j - 1 \in 1 .. Len(idx) /\ r[j] = idx[j - 1]
          BY <1>1, <2>3, <2>4, <4>3
        <5> QED BY <3>1, <5>1 DEF Indexed
      <4> QED BY <1>1, <2>3, <2>4, <4>1, <4>2, <4>3
    <3>2. \E j \in 1 .. Len(r) : r[j] = h
      <4>1. pos \in 1 .. Len(r) /\ r[pos] = h BY <1>1, <2>3, <2>4
      <4> QED BY <4>1
    <3>3. ASSUME NEW j \in 1 .. Len(idx), idx[j] = a
          PROVE  \E q \in 1 .. Len(r) : r[q] = a
      <4>1. CASE j < pos
        <5>1. j \in 1 .. Len(r) /\ r[j] = idx[j] BY <1>1, <2>3, <2>4, <4>1
        <5> QED BY <3>3, <5>1
      <4>2. CASE j >= pos
        <5>0. PICK q \in 1 .. Len(r) : q = j + 1 BY <1>1, <2>4
        <5>1. q > pos /\ q - 1 = j BY <1>1, <2>3, <4>2, <5>0
        <5>2. r[q] = idx[q - 1] BY <1>1, <2>3, <2>4, <5>1
        <5>3. r[q] = idx[j] BY <5>1, <5>2
        <5> QED BY <3>3, <5>3
      <4> QED BY <1>1, <2>3, <4>1, <4>2
    <3> QED BY <2>5, <3>1, <3>2, <3>3 DEF Indexed
  <2>10. IndexOK(n)
    <3>1. Len(n.index) <= IndexNum BY <1>1, <1>3, <2>4, <2>5
    <3>2. \A a : Indexed(n, a) => a \in Addr /\ n.hdr[a].magic
      BY <2>5, <2>9 DEF IndexOK
    <3> QED BY <2>5, <2>7, <2>8, <3>1, <3>2 DEF IndexOK
  <2>11. With(m, n, h) BY <1>1, <1>3, <2>4, <2>5, <2>9 DEF With
  <2> QED BY <2>10, <2>11
<1> QED BY <1>1, <1>2, <1>3

-----------------------------------------------------------------------------
(* The whole heap, and a heap with a gap *)

\* The heap up to e is blocks, and no header is behind it.
Shape(hd, ft, e) ==
  /\ Tiles(hd, ft, 0, e)
  /\ \A a \in e .. MaxEnd : ~hd[a].magic

\* The same, but for what is between lo and hi.
Gap(hd, ft, lo, hi, e) ==
  /\ Tiles(hd, ft, 0, lo) /\ Tiles(hd, ft, hi, e) /\ lo <= hi
  /\ \A a \in e .. MaxEnd : ~hd[a].magic

\* What the header of a block says of the heap around it.
LEMMA BlockFacts ==
  ASSUME NEW m \in Mems, NEW e \in Addr, Shape(m.hdr, m.ftr, e),
         NEW h \in Addr, m.hdr[h].magic
  PROVE  /\ h < e /\ m.hdr[h].size \in Nat /\ m.hdr[h].size > 0
         /\ m.hdr[h].is_hole \in BOOLEAN
         /\ Behind(m.hdr, h) = h + MetaSize + m.hdr[h].size
         /\ Behind(m.hdr, h) \in Addr /\ h < Behind(m.hdr, h)
         /\ Behind(m.hdr, h) <= e
         /\ Behind(m.hdr, h) < e => m.hdr[Behind(m.hdr, h)].magic
         /\ \A g \in h + 1 .. Behind(m.hdr, h) - 1 : ~m.hdr[g].magic
         /\ m.ftr[h + HeaderSize + m.hdr[h].size] = [magic |-> TRUE, header |-> h]
<1>1. m.hdr \in Headers BY DEF Mems
<1>2. h < e BY Sized DEF Shape
<1>3. BlockAt(m.hdr, m.ftr, h, e) BY <1>2, Sized DEF Shape, Tiles
<1>4. m.hdr[h].size \in Nat /\ m.hdr[h].is_hole \in BOOLEAN BY <1>1, HeaderTyped
<1>5. Behind(m.hdr, h) = h + MetaSize + m.hdr[h].size BY DEF Behind
<1>6. Behind(m.hdr, h) \in Addr /\ h < Behind(m.hdr, h)
  BY <1>3, <1>4, <1>5, Sized DEF BlockAt
<1>7. FooterAt(m.hdr, h) = h + HeaderSize + m.hdr[h].size BY DEF FooterAt
<1> QED BY <1>2, <1>3, <1>4, <1>5, <1>6, <1>7 DEF BlockAt

\* Before a block that is not the first, and before the end, is another block,
\* and the footer below says which.
LEMMA BeforeFacts ==
  ASSUME NEW m \in Mems, NEW e \in Addr, Shape(m.hdr, m.ftr, e),
         NEW x \in Addr, x > 0, x = e \/ m.hdr[x].magic
  PROVE  \E g \in Addr :
           /\ m.hdr[g].magic /\ g < x /\ Behind(m.hdr, g) = x
           /\ m.ftr[x - FooterSize] = [magic |-> TRUE, header |-> g]
<1>1. x <= e BY Sized DEF Shape
<1>2. PICK g \in 0 .. x - 1 : m.hdr[g].magic /\ Behind(m.hdr, g) = x
  BY <1>1, Sized DEF Shape, Tiles
<1>3. g \in Addr BY Sized
<1>4. /\ x = g + MetaSize + m.hdr[g].size /\ m.hdr[g].size \in Nat
      /\ m.ftr[g + HeaderSize + m.hdr[g].size] = [magic |-> TRUE, header |-> g]
  BY <1>2, <1>3, BlockFacts
<1>5. x - FooterSize = g + HeaderSize + m.hdr[g].size BY <1>3, <1>4, Sized
<1>6. m.ftr[x - FooterSize] = [magic |-> TRUE, header |-> g] BY <1>4, <1>5
<1>7. g < x BY Sized
<1> QED BY <1>2, <1>3, <1>6, <1>7

\* Two blocks are apart.
LEMMA Apart ==
  ASSUME NEW m \in Mems, NEW e \in Addr, Shape(m.hdr, m.ftr, e),
         NEW h \in Addr, m.hdr[h].magic, NEW g \in Addr, m.hdr[g].magic, h < g
  PROVE  Behind(m.hdr, h) <= g
<1>1. Behind(m.hdr, h) \in Addr
      /\ \A x \in h + 1 .. Behind(m.hdr, h) - 1 : ~m.hdr[x].magic
  BY BlockFacts
<1> QED BY <1>1, Sized

\* What is between two boundaries may be replaced.
LEMMA GapOpen ==
  ASSUME NEW m \in Mems, NEW e \in Addr, Shape(m.hdr, m.ftr, e),
         NEW lo \in Addr, lo = e \/ m.hdr[lo].magic,
         NEW hi \in Addr, hi = e \/ m.hdr[hi].magic, lo <= hi
  PROVE  Gap(m.hdr, m.ftr, lo, hi, e)
<1>1. m.hdr \in Headers BY DEF Mems
<1>2. lo <= e /\ hi <= e BY Sized DEF Shape
<1>3. e <= MaxEnd + 1 /\ 0 \in Nat /\ lo \in Nat /\ hi \in Nat /\ e \in Nat BY Sized
<1>4. Tiles(m.hdr, m.ftr, 0, lo)
  BY <1>1, <1>2, <1>3, TilesPart DEF Shape
<1>5. Tiles(m.hdr, m.ftr, hi, e)
  BY <1>1, <1>2, <1>3, TilesPart DEF Shape
<1> QED BY <1>4, <1>5 DEF Gap, Shape

\* And so may what is between a boundary and a new end of the heap.
LEMMA GapEnd ==
  ASSUME NEW m \in Mems, NEW e \in Addr, Shape(m.hdr, m.ftr, e),
         NEW lo \in Addr, lo = e \/ m.hdr[lo].magic,
         NEW hi \in Addr, e <= hi
  PROVE  Gap(m.hdr, m.ftr, lo, hi, hi)
<1>1. Gap(m.hdr, m.ftr, lo, e, e)
  <2>1. lo <= e BY Sized DEF Shape
  <2> QED BY <2>1, GapOpen
<1>2. Tiles(m.hdr, m.ftr, hi, hi) BY Sized DEF Tiles
<1> QED BY <1>1, <1>2, Sized DEF Gap

\* No header is between lo and hi.
Clear(hd, lo, hi) == \A a \in lo .. hi - 1 : ~hd[a].magic

\* From lo to c there is one block in n, and the rest is as in m.
Filled(m, n, lo, c, size, hole) ==
  /\ n \in Mems
  /\ n.hdr[lo].magic /\ n.hdr[lo].size = size /\ n.hdr[lo].is_hole = hole
  /\ \A a \in lo + 1 .. c - 1 : ~n.hdr[a].magic
  /\ \A a \in Addr : a \notin lo .. c - 1 => n.hdr[a] = m.hdr[a]

\* The index is left alone, and the gap is narrower.
Narrowed(m, n, lo, c, size, hole, hi, e) ==
  /\ Filled(m, n, lo, c, size, hole) /\ n.index = m.index
  /\ Gap(n.hdr, n.ftr, c, hi, e)

\* A block made at the low end of the gap narrows it.
LEMMA GapFill ==
  ASSUME NEW m \in Mems, NEW e \in Addr, NEW lo \in Nat, NEW hi \in Nat, hi <= e,
         Gap(m.hdr, m.ftr, lo, hi, e),
         NEW size \in Nat, size > 0, NEW hole \in BOOLEAN,
         NEW c \in Nat, c = lo + MetaSize + size, c <= hi,
         Clear(m.hdr, c - FooterSize, c)
  PROVE  Narrowed(m, make_block(m, lo, size, hole), lo, c, size, hole, hi, e)
<1> PICK n : n = make_block(m, lo, size, hole) OBVIOUS
<1>1. PICK footer : footer = lo + HeaderSize + size OBVIOUS
<1>2. footer \in Nat /\ footer = c - FooterSize /\ lo < footer /\ footer < c
      /\ lo + MetaSize + size <= MaxEnd + 1 /\ lo \in Nat
  BY <1>1, Sized
<1>3. Made(m, n, lo, size, hole, footer)
  <2>1. lo + MetaSize + size <= MaxEnd + 1 BY <1>2
  <2> QED BY <1>1, <2>1, MadeBlock
<1>4. \A a \in lo + 1 .. footer - 1 : ~n.hdr[a].magic BY <1>3 DEF Made
<1>5. \A a \in Addr : a \notin lo .. footer - 1 => n.hdr[a] = m.hdr[a]
  BY <1>3 DEF Made
<1>6. \A a \in Addr : a \notin lo .. footer => n.ftr[a] = m.ftr[a] BY <1>3 DEF Made
<1>7. \A a \in lo + HeaderSize + size .. lo + MetaSize + size - 1 : ~m.hdr[a].magic
  <2>1. /\ lo + HeaderSize + size = c - FooterSize /\ lo + MetaSize + size = c
    BY <1>1, <1>2
  <2>2. \A a \in c - FooterSize .. c - 1 : ~m.hdr[a].magic BY DEF Clear
  <2> QED BY <2>1, <2>2, Sized, SMTT(30)
<1>8. Tiles(n.hdr, n.ftr, lo, c) BY <1>2, <1>7, MadeTile
<1>9. \A a \in lo + 1 .. c - 1 : ~n.hdr[a].magic
  <2> SUFFICES ASSUME NEW a \in lo + 1 .. c - 1 PROVE ~n.hdr[a].magic OBVIOUS
  <2>1. CASE a <= footer - 1
    <3>1. a \in lo + 1 .. footer - 1 BY <1>2, <2>1
    <3> QED BY <1>4, <3>1
  <2>2. CASE a >= footer
    <3>1. a \in Addr /\ a \notin lo .. footer - 1 /\ a \in c - FooterSize .. c - 1
      BY <1>2, <2>2, Sized
    <3> QED BY <1>5, <3>1 DEF Clear
  <2>3. a \in Int /\ footer \in Nat BY <1>2
  <2>4. a <= footer - 1 \/ a >= footer BY <2>3
  <2> QED BY <2>1, <2>2, <2>4
<1>10. \A a \in Addr : a \notin lo .. c - 1 => n.hdr[a] = m.hdr[a] /\ n.ftr[a] = m.ftr[a]
  BY <1>2, <1>5, <1>6, Sized
<1>11. m.hdr \in Headers /\ n.hdr \in Headers BY <1>3 DEF Mems, Made
<1>12. Tiles(n.hdr, n.ftr, 0, lo)
  <2>1. Tiles(m.hdr, m.ftr, 0, lo) BY DEF Gap
  <2>2. \A a \in 0 .. lo - 1 : n.hdr[a] = m.hdr[a] /\ n.ftr[a] = m.ftr[a]
    BY <1>10, Sized
  <2>3. lo <= MaxEnd + 1 BY Sized
  <2> QED BY <1>2, <1>11, <2>1, <2>2, <2>3, TilesKept
<1>13. Tiles(n.hdr, n.ftr, hi, e)
  <2>1. Tiles(m.hdr, m.ftr, hi, e) BY DEF Gap
  <2>2. \A a \in hi .. e - 1 : n.hdr[a] = m.hdr[a] /\ n.ftr[a] = m.ftr[a]
    BY <1>10, Sized
  <2>3. e <= MaxEnd + 1 /\ hi \in Nat /\ e \in Nat BY Sized
  <2> QED BY <1>2, <1>11, <2>1, <2>2, <2>3, TilesKept
<1>14. Tiles(n.hdr, n.ftr, 0, c)
  <2>1. c \in Nat /\ c <= MaxEnd + 1 BY Sized
  <2> QED BY <1>2, <1>8, <1>11, <1>12, <2>1, TilesJoin
<1>15. \A a \in e .. MaxEnd : ~n.hdr[a].magic
  <2> SUFFICES ASSUME NEW a \in e .. MaxEnd PROVE ~n.hdr[a].magic OBVIOUS
  <2>1. a \in Addr /\ a \notin lo .. c - 1 BY Sized
  <2> QED BY <1>10, <2>1 DEF Gap
<1>16. Gap(n.hdr, n.ftr, c, hi, e) BY <1>13, <1>14, <1>15 DEF Gap
<1> QED BY <1>3, <1>9, <1>10, <1>16 DEF Made, Filled, Narrowed

\* A gap that is filled is none.
LEMMA GapClose ==
  ASSUME NEW m \in Mems, NEW e \in Addr, NEW lo \in Addr,
         Gap(m.hdr, m.ftr, lo, lo, e)
  PROVE  Shape(m.hdr, m.ftr, e)
<1>1. m.hdr \in Headers BY DEF Mems
<1>2. e <= MaxEnd + 1 /\ 0 \in Nat /\ lo \in Nat /\ e \in Nat BY Sized
<1>3. Tiles(m.hdr, m.ftr, 0, e) BY <1>1, <1>2, TilesJoin DEF Gap
<1> QED BY <1>3 DEF Gap, Shape

\* There is no header where the last footer before a boundary is.
LEMMA FooterRoom ==
  ASSUME NEW m \in Mems, NEW e \in Addr, Shape(m.hdr, m.ftr, e),
         NEW x \in Addr, x >= FooterSize, x = e \/ m.hdr[x].magic,
         NEW a \in x - FooterSize .. x - 1
  PROVE  ~m.hdr[a].magic
<1>0. x > 0 BY Sized
<1>1. PICK g \in Addr : m.hdr[g].magic /\ Behind(m.hdr, g) = x
  BY <1>0, BeforeFacts
<1>2. /\ x = g + MetaSize + m.hdr[g].size /\ m.hdr[g].size \in Nat
      /\ \A y \in g + 1 .. x - 1 : ~m.hdr[y].magic
  BY <1>1, BlockFacts
<1>3. a \in g + 1 .. x - 1
  <2>1. PICK s \in Nat : s = m.hdr[g].size BY <1>2
  <2>2. g \in Nat /\ x \in Nat /\ x = g + MetaSize + s /\ a \in Int BY <1>2, <2>1, Sized
  <2>3. PICK h \in Nat, f \in Nat : h = HeaderSize /\ f = FooterSize /\ h > 0 /\ MetaSize = h + f
    BY Sized
  <2>4. x = g + (h + f) + s BY <2>2, <2>3
  <2>5. x - f <= a /\ a <= x - 1 BY <2>2, <2>3
  <2>6. g + 1 <= a BY <2>2, <2>3, <2>4, <2>5
  <2> QED BY <2>2, <2>5, <2>6
<1> QED BY <1>2, <1>3

-----------------------------------------------------------------------------
(* What a step does to the heap *)

\* There is a new last block from e to c, in the index if there is room.
Added(m, n, e, c, size, hole) ==
  /\ Filled(m, n, e, c, size, hole) /\ Shape(n.hdr, n.ftr, c) /\ IndexOK(n)
  /\ Len(m.index) < IndexNum => Len(n.index) = Len(m.index) + 1
  /\ Len(m.index) >= IndexNum => Len(n.index) = Len(m.index)
  /\ \A a : Indexed(n, a) <=> Indexed(m, a) \/ (a = e /\ Len(m.index) < IndexNum)

\* create_kheap makes the first block, and kheap_expand a new last one.
LEMMA AddedBlock ==
  ASSUME NEW m \in Mems, NEW e \in Addr, Shape(m.hdr, m.ftr, e), IndexOK(m),
         NEW c \in Addr, NEW size \in Nat, size > 0, c = e + MetaSize + size,
         NEW hole \in BOOLEAN,
         NEW n, n = ordered_array_insert(make_block(m, e, size, hole), e)
  PROVE  Added(m, n, e, c, size, hole)
<1>1. PICK k : k = make_block(m, e, size, hole) OBVIOUS
<1>2. e \in Nat /\ c \in Nat /\ e < c /\ Len(m.index) \in Nat /\ IndexNum \in Nat
  BY Sized DEF Mems
<1>3. \A a \in e .. MaxEnd : ~m.hdr[a].magic BY DEF Shape
<1>4. \A a \in c - FooterSize .. c - 1 : ~m.hdr[a].magic
  <2> SUFFICES ASSUME NEW a \in c - FooterSize .. c - 1 PROVE ~m.hdr[a].magic OBVIOUS
  <2>1. a \in e .. MaxEnd BY <1>2, Sized
  <2> QED BY <1>3, <2>1
<1>5. Gap(m.hdr, m.ftr, e, c, c) BY <1>2, GapEnd
<1>6. Filled(m, k, e, c, size, hole) /\ k.index = m.index /\ Gap(k.hdr, k.ftr, c, c, c)
  <2>1. Clear(m.hdr, c - FooterSize, c) BY <1>4 DEF Clear
  <2>2. c <= c BY <1>2
  <2>3. Narrowed(m, k, e, c, size, hole, c, c) BY <1>1, <1>2, <1>5, <2>1, <2>2, GapFill
  <2> QED BY <2>3 DEF Narrowed
<1>7. k \in Mems /\ k.hdr[e].magic BY <1>6 DEF Filled
<1>8. Shape(k.hdr, k.ftr, c) BY <1>6, <1>7, GapClose
<1>9. ~Indexed(m, e)
  <2>1. ~m.hdr[e].magic BY <1>3, Sized
  <2> QED BY <2>1 DEF IndexOK
<1>10. \A a : Indexed(m, a) => k.hdr[a] = m.hdr[a]
  <2> SUFFICES ASSUME NEW a, Indexed(m, a) PROVE k.hdr[a] = m.hdr[a] OBVIOUS
  <2>1. a \in Addr /\ m.hdr[a].magic BY DEF IndexOK
  <2>2. a < e BY <2>1, BlockFacts
  <2>3. a \notin e .. c - 1 BY <1>2, <2>1, <2>2, Sized
  <2> QED BY <1>6, <2>1, <2>3 DEF Filled
<1>11. IndexOK(k) /\ \A a : Indexed(k, a) <=> Indexed(m, a)
  BY <1>6, <1>7, <1>10, IndexSame
<1>12. With(k, n, e) /\ IndexOK(n)
  <2>1. n = ordered_array_insert(k, e) BY <1>1
  <2> QED BY <1>7, <1>9, <1>11, <2>1, IndexInsert
<1>13. n.hdr = k.hdr /\ n.ftr = k.ftr /\ n \in Mems BY <1>12 DEF With
<1>14. Filled(m, n, e, c, size, hole) BY <1>6, <1>13 DEF Filled
<1>15. /\ Len(m.index) < IndexNum => Len(n.index) = Len(m.index) + 1
       /\ Len(m.index) >= IndexNum => Len(n.index) = Len(m.index)
  BY <1>2, <1>6, <1>12 DEF With
<1>16. \A a : Indexed(n, a) <=> Indexed(m, a) \/ (a = e /\ Len(m.index) < IndexNum)
  BY <1>6, <1>11, <1>12 DEF With
<1> QED BY <1>8, <1>12, <1>13, <1>14, <1>15, <1>16 DEF Added

\* The memory is that of k, the index lists what that of m does.
Reindexed(m, k, n) ==
  /\ n \in Mems /\ n.hdr = k.hdr /\ n.ftr = k.ftr /\ IndexOK(n)
  /\ Len(n.index) = Len(m.index)
  /\ \A a : Indexed(n, a) <=> Indexed(m, a)

\* kheap_expand and free make a block out of a run of blocks that is led by one
\* in the index, and put it back in the index.
LEMMA Widened ==
  ASSUME NEW m \in Mems, NEW lo \in Addr, m.hdr[lo].magic, IndexOK(m),
         Indexed(m, lo), NEW k \in Mems, k.index = m.index, k.hdr[lo].magic,
         \A a : Indexed(m, a) /\ a # lo => k.hdr[a] = m.hdr[a],
         NEW n, n = ordered_array_insert(ordered_array_remove_element(k, lo), lo)
  PROVE  Reindexed(m, k, n)
<1>1. PICK t : t = ordered_array_remove_element(k, lo) OBVIOUS
<1>2. Without(m, k, t, lo) /\ IndexOK(t) BY <1>1, IndexTake
<1>3. t \in Mems /\ t.hdr[lo].magic /\ ~Indexed(t, lo) BY <1>2 DEF Without
<1>4. With(t, n, lo) /\ IndexOK(n) BY <1>1, <1>2, <1>3, IndexInsert
<1>5. Len(m.index) \in Nat /\ Len(m.index) <= IndexNum /\ IndexNum \in Nat
  BY Sized DEF Mems, IndexOK
<1>6. Len(t.index) < IndexNum /\ Len(t.index) = Len(m.index) - 1
  BY <1>2, <1>5 DEF Without
<1>7. Len(n.index) = Len(m.index) BY <1>4, <1>5, <1>6 DEF With
<1>8. \A a : Indexed(n, a) <=> Indexed(m, a)
  BY <1>2, <1>4, <1>6 DEF With, Without
<1>9. n \in Mems /\ n.hdr = k.hdr /\ n.ftr = k.ftr BY <1>2, <1>4 DEF With, Without
<1> QED BY <1>4, <1>7, <1>8, <1>9 DEF Reindexed

\* The last block reaches from last to c, and the index lists what it did.
Grown(m, n, last, c, size) ==
  /\ Filled(m, n, last, c, size, TRUE) /\ Shape(n.hdr, n.ftr, c) /\ IndexOK(n)
  /\ Len(n.index) = Len(m.index)
  /\ \A a : Indexed(n, a) <=> Indexed(m, a)

\* kheap_expand makes the last block larger.
LEMMA GrownBlock ==
  ASSUME NEW m \in Mems, NEW e \in Addr, Shape(m.hdr, m.ftr, e), IndexOK(m),
         NEW last \in Addr, m.hdr[last].magic, Behind(m.hdr, last) = e,
         Indexed(m, last),
         NEW c \in Addr, NEW ext \in Nat, c = e + ext,
         NEW n, n = ordered_array_insert(
                      ordered_array_remove_element(
                        make_block(m, last, m.hdr[last].size + ext, TRUE), last), last)
  PROVE  Grown(m, n, last, c, m.hdr[last].size + ext)
<1>1. PICK size : size = m.hdr[last].size + ext OBVIOUS
<1>2. PICK k : k = make_block(m, last, size, TRUE) OBVIOUS
<1>3. /\ m.hdr[last].size \in Nat /\ m.hdr[last].size > 0
      /\ e = last + MetaSize + m.hdr[last].size
      /\ \A g \in last + 1 .. e - 1 : ~m.hdr[g].magic
  BY BlockFacts
<1>4. size \in Nat /\ size > 0 /\ c = last + MetaSize + size /\ e <= c
      /\ last \in Nat /\ c \in Nat
  <2>1. PICK s \in Nat : s = m.hdr[last].size BY <1>3
  <2>2. s > 0 /\ e = last + MetaSize + s /\ size = s + ext BY <1>1, <1>3, <2>1
  <2> QED BY <2>2, Sized
<1>5. \A a \in c - FooterSize .. c - 1 : ~m.hdr[a].magic
  <2> SUFFICES ASSUME NEW a \in c - FooterSize .. c - 1 PROVE ~m.hdr[a].magic OBVIOUS
  <2>1. a \in last + 1 .. MaxEnd BY <1>4, Sized
  <2>2. \A g \in e .. MaxEnd : ~m.hdr[g].magic BY DEF Shape
  <2>3. a \in last + 1 .. e - 1 \/ a \in e .. MaxEnd BY <2>1, Sized
  <2> QED BY <1>3, <2>2, <2>3
<1>6. Gap(m.hdr, m.ftr, last, c, c) BY <1>4, GapEnd
<1>7. Filled(m, k, last, c, size, TRUE) /\ k.index = m.index /\ Gap(k.hdr, k.ftr, c, c, c)
  <2>1. Clear(m.hdr, c - FooterSize, c) BY <1>5 DEF Clear
  <2>2. c <= c BY <1>4
  <2>3. Narrowed(m, k, last, c, size, TRUE, c, c)
    BY <1>2, <1>4, <1>6, <2>1, <2>2, GapFill
  <2> QED BY <2>3 DEF Narrowed
<1>8. k \in Mems /\ k.hdr[last].magic BY <1>7 DEF Filled
<1>9. Shape(k.hdr, k.ftr, c) BY <1>7, <1>8, GapClose
<1>10. \A a : Indexed(m, a) /\ a # last => k.hdr[a] = m.hdr[a]
  <2> SUFFICES ASSUME NEW a, Indexed(m, a), a # last PROVE k.hdr[a] = m.hdr[a] OBVIOUS
  <2>1. a \in Addr /\ m.hdr[a].magic BY DEF IndexOK
  <2>2. a < e BY <2>1, BlockFacts
  <2>3. a < last BY <1>3, <2>1, <2>2, Sized, SMTT(30)
  <2>4. a \notin last .. c - 1 BY <1>4, <2>1, <2>3, Sized
  <2> QED BY <1>7, <2>1, <2>4 DEF Filled
<1>11. n = ordered_array_insert(ordered_array_remove_element(k, last), last)
  BY <1>1, <1>2
<1>12. /\ n \in Mems /\ n.hdr = k.hdr /\ n.ftr = k.ftr /\ IndexOK(n)
       /\ Len(n.index) = Len(m.index)
       /\ \A a : Indexed(n, a) <=> Indexed(m, a)
  <2>1. Reindexed(m, k, n) BY <1>7, <1>8, <1>10, <1>11, Widened
  <2> QED BY <2>1 DEF Reindexed
<1>13. Filled(m, n, last, c, m.hdr[last].size + ext, TRUE)
  BY <1>1, <1>7, <1>12 DEF Filled
<1> QED BY <1>9, <1>12, <1>13 DEF Grown

\* Block h, which ended at hi, is off the index; if the payload does not start
\* in it at once, a hole reaches from h to b.
Fronted(m, f, h, hi, b, e) ==
  /\ f \in Mems /\ IndexOK(f) /\ Gap(f.hdr, f.ftr, b, hi, e)
  /\ \A a : Indexed(f, a) <=> (Indexed(m, a) /\ a # h) \/ (a = h /\ h # b)
  /\ \A a \in Addr : a \notin h .. hi - 1 => f.hdr[a] = m.hdr[a]
  /\ \A a \in h + 1 .. hi - 1 : ~f.hdr[a].magic
  /\ h # b => f.hdr[h].magic /\ f.hdr[h].is_hole /\ Behind(f.hdr, h) = b

\* That is what alloc does first.
LEMMA FrontCut ==
  ASSUME NEW m \in Mems, NEW e \in Addr, Shape(m.hdr, m.ftr, e), IndexOK(m),
         NEW h \in Addr, m.hdr[h].magic,
         NEW i \in 1 .. Len(m.index), m.index[i] = h,
         NEW hi \in Addr, hi = Behind(m.hdr, h),
         NEW b \in Addr, b = h \/ b - h > MetaSize, b + MetaSize < hi,
         NEW k, k = [hdr |-> m.hdr, ftr |-> m.ftr, index |-> RemoveAt(m.index, i)],
         NEW f, f = CutFront(k, h, b + HeaderSize)
  PROVE  Fronted(m, f, h, hi, b, e)
<1>1. /\ h < e /\ hi <= e /\ h < hi
      /\ hi < e => m.hdr[hi].magic
      /\ \A g \in h + 1 .. hi - 1 : ~m.hdr[g].magic
  BY BlockFacts
<1>2. /\ h \in Nat /\ hi \in Nat /\ b \in Nat /\ e \in Nat
      /\ Len(m.index) \in Nat /\ Len(m.index) <= IndexNum /\ IndexNum \in Nat
  BY Sized DEF Mems, IndexOK
<1>3. Without(m, m, k, h) /\ IndexOK(k)
  <2>1. Once(m.index) /\ OrderedBut(m.hdr, m.index, h)
    BY DEF IndexOK, Ordered, OrderedBut
  <2>2. Without(m, m, k, h) /\ (OrderedBut(m.hdr, m.index, h) => Ordered(m.hdr, k.index))
    BY <2>1, IndexDrop
  <2>3. Len(k.index) <= IndexNum BY <1>2, <2>2 DEF Without
  <2> QED BY <2>1, <2>2, <2>3 DEF Without, IndexOK
<1>4. k \in Mems /\ k.hdr = m.hdr /\ k.ftr = m.ftr BY <1>3 DEF Without
<1>5. ~Indexed(k, h) /\ Len(k.index) < IndexNum BY <1>2, <1>3 DEF Without
<1>6. PICK cut : cut = b - h OBVIOUS
<1>7. cut \in Int /\ cut = (b + HeaderSize) - HeaderSize - h BY <1>2, <1>6, Sized
<1>8. CASE b = h
  <2>1. cut = 0 BY <1>2, <1>6, <1>8
  <2>2. f = k BY <1>7, <2>1 DEF CutFront
  <2>3. hi = e \/ m.hdr[hi].magic BY <1>1, <1>2
  <2>4. Gap(m.hdr, m.ftr, h, hi, e) BY <1>1, <1>2, <2>3, GapOpen
  <2> QED BY <1>1, <1>3, <1>4, <1>8, <2>2, <2>4 DEF Fronted, Without
<1>9. CASE b # h
  <2>1. PICK size : size = cut - MetaSize OBVIOUS
  <2>2. size \in Nat /\ size > 0 /\ cut # 0 /\ b = h + MetaSize + size /\ b <= hi /\ h < b
    BY <1>2, <1>6, <1>7, <1>9, <2>1, Sized
  <2>3. PICK q : q = make_block(k, h, size, TRUE) OBVIOUS
  <2>4. f = ordered_array_insert(q, h) BY <1>7, <2>1, <2>2, <2>3 DEF CutFront
  <2>5. hi = e \/ m.hdr[hi].magic BY <1>1, <1>2
  <2>6. Gap(k.hdr, k.ftr, h, hi, e) BY <1>1, <1>2, <1>4, <2>5, GapOpen
  <2>7. Clear(k.hdr, b - FooterSize, b)
    <3>1. \A a \in b - FooterSize .. b - 1 : a \in h + 1 .. hi - 1
      BY <1>2, <2>2, Sized
    <3> QED BY <1>1, <1>4, <3>1 DEF Clear
  <2>8. Narrowed(k, q, h, b, size, TRUE, hi, e)
    BY <1>1, <1>2, <1>4, <2>2, <2>3, <2>6, <2>7, GapFill
  <2>9. q \in Mems /\ q.hdr[h].magic /\ q.index = k.index
    BY <2>8 DEF Narrowed, Filled
  <2>10. \A a \in Addr : a \notin h .. b - 1 => q.hdr[a] = m.hdr[a]
    BY <1>4, <2>8 DEF Narrowed, Filled
  <2>11. \A a : Indexed(k, a) => q.hdr[a] = k.hdr[a]
    <3> SUFFICES ASSUME NEW a, Indexed(k, a) PROVE q.hdr[a] = k.hdr[a] OBVIOUS
    <3>1. a \in Addr /\ m.hdr[a].magic /\ a # h BY <1>3, <1>4, <1>5 DEF IndexOK
    <3>2. a \notin h + 1 .. hi - 1 BY <1>1, <3>1
    <3>3. a \notin h .. b - 1 BY <1>2, <2>2, <3>1, <3>2, Sized
    <3> QED BY <1>4, <2>10, <3>1, <3>3
  <2>12. IndexOK(q) /\ \A a : Indexed(q, a) <=> Indexed(k, a)
    BY <1>3, <1>4, <2>9, <2>11, IndexSame
  <2>13. With(q, f, h) /\ IndexOK(f)
    BY <1>5, <2>4, <2>9, <2>12, IndexInsert
  <2>14. f \in Mems /\ f.hdr = q.hdr /\ f.ftr = q.ftr BY <2>13 DEF With
  <2>15. Gap(f.hdr, f.ftr, b, hi, e) BY <2>8, <2>14 DEF Narrowed
  <2>16. ASSUME NEW a
         PROVE Indexed(f, a) <=> (Indexed(m, a) /\ a # h) \/ (a = h /\ h # b)
    <3>1. Len(q.index) < IndexNum BY <1>5, <2>9
    <3>2. Indexed(f, a) <=> Indexed(q, a) \/ a = h BY <2>13, <3>1 DEF With
    <3>3. Indexed(k, a) <=> Indexed(m, a) /\ a # h BY <1>3 DEF Without
    <3> QED BY <1>9, <2>12, <3>2, <3>3
  <2>17. \A a \in Addr : a \notin h .. hi - 1 => f.hdr[a] = m.hdr[a]
    <3> SUFFICES ASSUME NEW a \in Addr, a \notin h .. hi - 1 PROVE f.hdr[a] = m.hdr[a]
      OBVIOUS
    <3>1. a \notin h .. b - 1 BY <1>2, <2>2, Sized
    <3> QED BY <2>10, <2>14, <3>1
  <2>18. \A a \in h + 1 .. hi - 1 : ~f.hdr[a].magic
    <3> SUFFICES ASSUME NEW a \in h + 1 .. hi - 1 PROVE ~f.hdr[a].magic OBVIOUS
    <3>1. CASE a <= b - 1
      <4>1. a \in h + 1 .. b - 1 BY <1>2, <3>1
      <4> QED BY <2>8, <2>14, <4>1 DEF Narrowed, Filled
    <3>2. CASE a >= b
      <4>1. a \in Addr /\ a \notin h .. b - 1 BY <1>2, <3>2, Sized
      <4> QED BY <1>1, <2>10, <2>14, <4>1
    <3> QED BY <1>2, <3>1, <3>2
  <2>19. f.hdr[h].magic /\ f.hdr[h].is_hole /\ f.hdr[h].size = size
    BY <2>8, <2>14 DEF Narrowed, Filled
  <2>20. Behind(f.hdr, h) = b BY <2>2, <2>19 DEF Behind
  <2> QED BY <2>13, <2>14, <2>15, <2>16, <2>17, <2>18, <2>19, <2>20 DEF Fronted
<1> QED BY <1>8, <1>9

\* Block h, which ended at hi, became a block in use at b with room for want
\* bytes, and around it holes, which are in the index if that is not full.
Carved(m, n, h, hi, b, want) ==
  /\ n \in Mems
  /\ n.hdr[b].magic /\ ~n.hdr[b].is_hole /\ n.hdr[b].size >= want /\ ~Indexed(n, b)
  /\ \A a \in Addr : a \notin h .. hi - 1 =>
       n.hdr[a] = m.hdr[a] /\ (Indexed(n, a) <=> Indexed(m, a))
  /\ \A a \in h .. hi - 1 : n.hdr[a].magic /\ a # b =>
       /\ n.hdr[a].is_hole
       /\ (a = h /\ Behind(n.hdr, a) = b) \/ (a > b /\ Behind(n.hdr, a) = hi)
       /\ Len(n.index) < IndexNum => Indexed(n, a)

\* That is what alloc does then.
LEMMA BackCut ==
  ASSUME NEW m \in Mems, NEW e \in Addr, NEW h \in Addr, NEW hi \in Addr,
         NEW b \in Addr, h <= b, hi <= e,
         NEW f, Fronted(m, f, h, hi, b, e),
         NEW room \in Nat, hi = b + MetaSize + room,
         NEW want \in Nat, want > 0, want <= room,
         NEW n, n = CutBack(f, b, room, want)
  PROVE  Carved(m, n, h, hi, b, want) /\ Shape(n.hdr, n.ftr, e) /\ IndexOK(n)
<1>1. /\ h \in Nat /\ hi \in Nat /\ b \in Nat /\ e \in Nat /\ IndexNum \in Nat
      /\ b < hi /\ h < hi /\ MetaSize \in Nat /\ MetaSize > 0
  BY Sized
<1>2. /\ f \in Mems /\ IndexOK(f) /\ Gap(f.hdr, f.ftr, b, hi, e)
      /\ \A a : Indexed(f, a) <=> (Indexed(m, a) /\ a # h) \/ (a = h /\ h # b)
  BY DEF Fronted
<1>3. /\ \A a \in Addr : a \notin h .. hi - 1 => f.hdr[a] = m.hdr[a]
      /\ \A a \in h + 1 .. hi - 1 : ~f.hdr[a].magic
      /\ h # b => f.hdr[h].magic /\ f.hdr[h].is_hole /\ Behind(f.hdr, h) = b
  BY DEF Fronted
<1>4. \A a : Indexed(f, a) => a \in Addr /\ ((a = h /\ h # b) \/ a \notin h .. hi - 1)
  <2> SUFFICES ASSUME NEW a, Indexed(f, a)
               PROVE a \in Addr /\ ((a = h /\ h # b) \/ a \notin h .. hi - 1)
    OBVIOUS
  <2>1. a \in Addr /\ f.hdr[a].magic BY <1>2 DEF IndexOK
  <2>2. a \notin h + 1 .. hi - 1 BY <1>3, <2>1
  <2>3. a = h => h # b BY <1>2
  <2> QED BY <1>1, <2>1, <2>2, <2>3, Sized
<1>5. ~Indexed(f, b) BY <1>1, <1>4
<1>6. \A a \in b + 1 .. hi - 1 : ~f.hdr[a].magic BY <1>1, <1>3
<1>7. CASE room - want <= MetaSize
  <2>1. n = make_block(f, b, room, FALSE) BY <1>7 DEF CutBack
  <2>2. Clear(f.hdr, hi - FooterSize, hi)
    <3>1. \A a \in hi - FooterSize .. hi - 1 : a \in b + 1 .. hi - 1 BY <1>1, Sized
    <3> QED BY <1>6, <3>1 DEF Clear
  <2>3. room > 0 /\ hi <= hi BY <1>1
  <2>31. f \in Mems /\ Gap(f.hdr, f.ftr, b, hi, e) /\ b \in Nat /\ hi \in Nat
    BY <1>1, <1>2
  <2>4. Narrowed(f, n, b, hi, room, FALSE, hi, e)
    <3>1. hi = b + MetaSize + room OBVIOUS
    <3>2. FALSE \in BOOLEAN OBVIOUS
    <3>3. Narrowed(f, make_block(f, b, room, FALSE), b, hi, room, FALSE, hi, e)
      BY <2>2, <2>3, <2>31, <3>1, <3>2, GapFill, Zenon
    <3> QED BY <2>1, <3>3
  <2>5. /\ n \in Mems /\ n.index = f.index /\ Gap(n.hdr, n.ftr, hi, hi, e)
        /\ n.hdr[b].magic /\ n.hdr[b].size = room /\ ~n.hdr[b].is_hole
        /\ \A a \in b + 1 .. hi - 1 : ~n.hdr[a].magic
        /\ \A a \in Addr : a \notin b .. hi - 1 => n.hdr[a] = f.hdr[a]
    BY <2>4 DEF Narrowed, Filled
  <2>6. Shape(n.hdr, n.ftr, e) BY <2>5, GapClose
  <2>7. \A a : Indexed(f, a) => n.hdr[a] = f.hdr[a]
    <3> SUFFICES ASSUME NEW a, Indexed(f, a) PROVE n.hdr[a] = f.hdr[a] OBVIOUS
    <3>1. a \in Addr /\ a \notin b .. hi - 1 BY <1>1, <1>4, Sized
    <3> QED BY <2>5, <3>1
  <2>8. IndexOK(n) /\ \A a : Indexed(n, a) <=> Indexed(f, a)
    BY <1>2, <2>5, <2>7, IndexSame
  <2>9. ~Indexed(n, b) /\ n.hdr[b].size >= want BY <1>1, <1>5, <2>5, <2>8
  <2>10. ASSUME NEW a \in Addr, a \notin h .. hi - 1
         PROVE  n.hdr[a] = m.hdr[a] /\ (Indexed(n, a) <=> Indexed(m, a))
    <3>1. a \notin b .. hi - 1 /\ a # h BY <1>1, <2>10, Sized
    <3> QED BY <1>2, <1>3, <2>5, <2>8, <2>10, <3>1
  <2>11. ASSUME NEW a \in h .. hi - 1, n.hdr[a].magic, a # b
         PROVE  /\ n.hdr[a].is_hole /\ a = h /\ Behind(n.hdr, a) = b
                /\ Indexed(n, a)
    <3>1. a \notin b + 1 .. hi - 1 BY <2>5, <2>11
    <3>2. a \in Addr /\ a \notin b .. hi - 1 BY <1>1, <2>11, <3>1, Sized
    <3>3. n.hdr[a] = f.hdr[a] BY <2>5, <3>2
    <3>4. a \notin h + 1 .. hi - 1 BY <1>3, <2>11, <3>3
    <3>5. a = h BY <1>1, <3>4
    <3> QED BY <1>2, <1>3, <2>8, <2>11, <3>3, <3>5 DEF Behind
  <2> QED BY <2>5, <2>6, <2>8, <2>9, <2>10, <2>11 DEF Carved
<1>8. CASE room - want > MetaSize
  <2>1. PICK rest : rest = b + MetaSize + want OBVIOUS
  <2>2. PICK left : left = room - want - MetaSize OBVIOUS
  <2>3. /\ rest \in Nat /\ left \in Nat /\ left > 0 /\ b < rest /\ rest < hi
        /\ hi = rest + MetaSize + left /\ rest <= hi /\ rest \in Addr
    BY <1>1, <1>8, <2>1, <2>2, Sized
  <2>4. PICK p : p = make_block(f, b, want, FALSE) OBVIOUS
  <2>5. PICK q : q = make_block(p, rest, left, TRUE) OBVIOUS
  <2>6. n = ordered_array_insert(q, rest)
    <3>1. ~(room - want <= MetaSize) BY <1>1, <1>8
    <3> QED BY <2>1, <2>2, <2>4, <2>5, <3>1 DEF CutBack
  <2>7. Clear(f.hdr, rest - FooterSize, rest)
    <3>1. \A a \in rest - FooterSize .. rest - 1 : a \in b + 1 .. hi - 1
      BY <1>1, <2>1, <2>3, Sized
    <3> QED BY <1>6, <3>1 DEF Clear
  <2>8. Narrowed(f, p, b, rest, want, FALSE, hi, e)
    BY <1>1, <1>2, <2>1, <2>3, <2>4, <2>7, GapFill
  <2>9. /\ p \in Mems /\ p.index = f.index /\ Gap(p.hdr, p.ftr, rest, hi, e)
        /\ p.hdr[b].magic /\ p.hdr[b].size = want /\ ~p.hdr[b].is_hole
        /\ \A a \in b + 1 .. rest - 1 : ~p.hdr[a].magic
        /\ \A a \in Addr : a \notin b .. rest - 1 => p.hdr[a] = f.hdr[a]
    BY <2>8 DEF Narrowed, Filled
  <2>10. Clear(p.hdr, hi - FooterSize, hi)
    <3>1. \A a \in hi - FooterSize .. hi - 1 :
            a \in b + 1 .. hi - 1 /\ a \in Addr /\ a \notin b .. rest - 1
      BY <1>1, <2>3, Sized
    <3> QED BY <1>6, <2>9, <3>1 DEF Clear
  <2>11. hi <= hi BY <1>1
  <2>12. Narrowed(p, q, rest, hi, left, TRUE, hi, e)
    BY <1>1, <2>3, <2>5, <2>9, <2>10, <2>11, GapFill
  <2>13. /\ q \in Mems /\ q.index = p.index /\ Gap(q.hdr, q.ftr, hi, hi, e)
         /\ q.hdr[rest].magic /\ q.hdr[rest].size = left /\ q.hdr[rest].is_hole
         /\ \A a \in rest + 1 .. hi - 1 : ~q.hdr[a].magic
         /\ \A a \in Addr : a \notin rest .. hi - 1 => q.hdr[a] = p.hdr[a]
    BY <2>12 DEF Narrowed, Filled
  <2>14. Shape(q.hdr, q.ftr, e) BY <2>13, GapClose
  <2>15. ASSUME NEW a \in Addr, a \notin b .. hi - 1 PROVE q.hdr[a] = f.hdr[a]
    <3>1. a \notin b .. rest - 1 /\ a \notin rest .. hi - 1 BY <1>1, <2>3, <2>15, Sized
    <3> QED BY <2>9, <2>13, <3>1
  <2>16. \A a : Indexed(f, a) => q.hdr[a] = f.hdr[a]
    <3> SUFFICES ASSUME NEW a, Indexed(f, a) PROVE q.hdr[a] = f.hdr[a] OBVIOUS
    <3>1. a \in Addr /\ a \notin b .. hi - 1 BY <1>1, <1>4, Sized
    <3> QED BY <2>15, <3>1
  <2>17. q.index = f.index BY <2>9, <2>13
  <2>18. IndexOK(q) /\ \A a : Indexed(q, a) <=> Indexed(f, a)
    BY <1>2, <2>13, <2>16, <2>17, IndexSame
  <2>19. ~Indexed(q, rest)
    <3>1. rest \in h .. hi - 1 /\ rest # h BY <1>1, <2>3
    <3> QED BY <1>4, <2>18, <3>1
  <2>20. With(q, n, rest) /\ IndexOK(n)
    BY <2>3, <2>6, <2>13, <2>18, <2>19, IndexInsert
  <2>21. n \in Mems /\ n.hdr = q.hdr /\ n.ftr = q.ftr BY <2>20 DEF With
  <2>22. \A a : Indexed(n, a) <=> Indexed(f, a) \/ (a = rest /\ Len(f.index) < IndexNum)
    BY <2>17, <2>18, <2>20 DEF With
  <2>23. Len(n.index) < IndexNum => Len(f.index) < IndexNum
    <3>1. Len(f.index) \in Nat BY <1>2 DEF Mems
    <3> QED BY <1>1, <2>17, <2>20, <3>1 DEF With
  <2>24. n.hdr[b] = p.hdr[b]
    <3>1. b \notin rest .. hi - 1 BY <1>1, <2>3
    <3> QED BY <2>13, <2>21, <3>1
  <2>25. /\ n.hdr[b].magic /\ ~n.hdr[b].is_hole /\ n.hdr[b].size >= want
         /\ ~Indexed(n, b)
    <3>1. b # rest BY <1>1, <2>3
    <3> QED BY <1>5, <2>9, <2>22, <2>24, <3>1
  <2>26. ASSUME NEW a \in Addr, a \notin h .. hi - 1
         PROVE  n.hdr[a] = m.hdr[a] /\ (Indexed(n, a) <=> Indexed(m, a))
    <3>1. a \notin b .. hi - 1 /\ a # h /\ a # rest BY <1>1, <2>3, <2>26, Sized
    <3> QED BY <1>2, <1>3, <2>15, <2>21, <2>22, <2>26, <3>1
  <2>27. ASSUME NEW a \in h .. hi - 1, n.hdr[a].magic, a # b
         PROVE  /\ n.hdr[a].is_hole
                /\ (a = h /\ Behind(n.hdr, a) = b) \/ (a > b /\ Behind(n.hdr, a) = hi)
                /\ Len(n.index) < IndexNum => Indexed(n, a)
    <3>1. CASE a = rest
      <4>1. n.hdr[a].is_hole /\ n.hdr[a].size = left BY <2>13, <2>21, <3>1
      <4>2. Behind(n.hdr, a) = hi BY <2>3, <3>1, <4>1 DEF Behind
      <4>3. a > b BY <1>1, <2>3, <3>1
      <4> QED BY <2>22, <2>23, <3>1, <4>1, <4>2, <4>3
    <3>2. CASE a # rest
      <4>1. a \notin rest + 1 .. hi - 1 BY <2>13, <2>21, <2>27
      <4>2. a \in Addr /\ a \notin rest .. hi - 1 BY <1>1, <2>3, <3>2, <4>1, Sized
      <4>3. n.hdr[a] = p.hdr[a] BY <2>13, <2>21, <4>2
      <4>4. a \notin b + 1 .. rest - 1 BY <2>9, <2>27, <4>3
      <4>5. a \notin b .. hi - 1 BY <1>1, <2>3, <2>27, <4>2, <4>4, Sized
      <4>6. n.hdr[a] = f.hdr[a] BY <2>15, <2>21, <4>2, <4>5
      <4>7. a \notin h + 1 .. hi - 1 BY <1>3, <2>27, <4>6
      <4>8. a = h BY <1>1, <4>7
      <4> QED BY <1>2, <1>3, <2>22, <2>27, <4>6, <4>8 DEF Behind
    <3> QED BY <3>1, <3>2
  <2>28. Carved(m, n, h, hi, b, want) BY <2>21, <2>25, <2>26, <2>27 DEF Carved
  <2> QED BY <2>14, <2>20, <2>21, <2>28
<1> QED BY <1>1, <1>7, <1>8

\* No two holes are side by side.
Coal(hd, e) ==
  \A h \in Addr : hd[h].magic /\ hd[h].is_hole /\ Behind(hd, h) < e
                    => ~hd[Behind(hd, h)].is_hole

\* The blocks of m between lo and hi are one hole in n, and the next block is none.
Merges(m, n, lo, hi, e) ==
  /\ n \in Mems /\ Shape(n.hdr, n.ftr, e) /\ IndexOK(n)
  /\ lo \in Addr /\ hi \in Addr /\ lo < hi /\ m.hdr[lo].magic
  /\ hi = e \/ (hi < e /\ m.hdr[hi].magic /\ ~m.hdr[hi].is_hole)
  /\ n.hdr[lo].magic /\ n.hdr[lo].is_hole /\ Behind(n.hdr, lo) = hi
  /\ \A a \in lo + 1 .. hi - 1 : ~n.hdr[a].magic
  /\ \A a \in Addr : a \notin lo .. hi - 1 => n.hdr[a] = m.hdr[a]

\* Only the mark of block h changes.
Marked(m, n, h) ==
  /\ n \in Mems /\ n.index = m.index /\ n.ftr = m.ftr
  /\ n.hdr[h].magic = m.hdr[h].magic /\ n.hdr[h].size = m.hdr[h].size
  /\ n.hdr[h].is_hole
  /\ \A a \in Addr : a # h => n.hdr[a] = m.hdr[a]

\* free marks the block as a hole.
LEMMA HoleMark ==
  ASSUME NEW m \in Mems, NEW h \in Addr
  PROVE  Marked(m, [m EXCEPT !.hdr[h].is_hole = TRUE], h)
<1>1. /\ m.hdr \in Headers /\ m.hdr[h] \in Header
      /\ m = [hdr |-> m.hdr, ftr |-> m.ftr, index |-> m.index]
      /\ m.ftr \in Footers /\ m.index \in Seq(Addr)
  BY HeaderTyped DEF Mems
<1>2. PICK x : x = [m.hdr[h] EXCEPT !.is_hole = TRUE] OBVIOUS
<1>3. x \in Header /\ x.magic = m.hdr[h].magic /\ x.size = m.hdr[h].size /\ x.is_hole
  BY <1>1, <1>2 DEF Header
<1>4. PICK hd : hd = [m.hdr EXCEPT ![h] = x] OBVIOUS
<1>5. hd \in Headers /\ hd[h] = x /\ \A a \in Addr : a # h => hd[a] = m.hdr[a]
  BY <1>1, <1>3, <1>4 DEF Headers
<1>6. [m EXCEPT !.hdr[h].is_hole = TRUE] = [m EXCEPT !.hdr = hd]
  BY <1>1, <1>2, <1>4
<1>7. [m EXCEPT !.hdr = hd] = [hdr |-> hd, ftr |-> m.ftr, index |-> m.index]
  BY <1>1
<1>8. PICK n : n = [hdr |-> hd, ftr |-> m.ftr, index |-> m.index] OBVIOUS
<1>9. n \in Mems /\ n.index = m.index /\ n.ftr = m.ftr /\ n.hdr = hd
  BY <1>1, <1>5, <1>8 DEF Mems
<1>10. Marked(m, n, h) BY <1>3, <1>5, <1>9 DEF Marked
<1> QED BY <1>6, <1>7, <1>8, <1>10

\* The block h and the hole behind it, if there is one, are one hole.
NextMerged(m, p, h, hi, e) ==
  /\ Merges(m, p, h, hi, e)
  /\ \A a \in h + 1 .. hi - 1 : m.hdr[a].magic => m.hdr[a].is_hole
  /\ \A a : Indexed(p, a) <=> Indexed(m, a) /\ a \notin h .. hi - 1

\* free looks at the next block first.
LEMMA FreeNext ==
  ASSUME end \in Addr, NEW m \in Mems, Shape(m.hdr, m.ftr, end), IndexOK(m),
         Coal(m.hdr, end), NEW h \in Addr, m.hdr[h].magic, ~Indexed(m, h),
         NextHole(m, h) => Indexed(m, h + MetaSize + m.hdr[h].size)
  PROVE  \E hi : NextMerged(m, MergeNext(m, h), h, hi, end)
<1>1. PICK p : p = MergeNext(m, h) OBVIOUS
<1>2. PICK x : x = h + MetaSize + m.hdr[h].size OBVIOUS
<1>21. x = Behind(m.hdr, h) BY <1>2 DEF Behind
<1>3. /\ h < end /\ x = Behind(m.hdr, h) /\ x \in Addr /\ h < x /\ x <= end
      /\ x < end => m.hdr[x].magic
  BY <1>21, BlockFacts
<1>4. \A g \in h + 1 .. x - 1 : ~m.hdr[g].magic BY <1>2, <1>3, BlockFacts
<1>5. h \in Nat /\ x \in Nat /\ end \in Nat BY <1>3, Sized
<1>6. \A a : Indexed(m, a) => a \in Addr /\ a \notin h .. x - 1
  <2> SUFFICES ASSUME NEW a, Indexed(m, a) PROVE a \in Addr /\ a \notin h .. x - 1
    OBVIOUS
  <2>1. a \in Addr /\ m.hdr[a].magic /\ a # h BY DEF IndexOK
  <2>2. a \notin h + 1 .. x - 1 BY <1>4, <2>1
  <2> QED BY <1>5, <2>1, <2>2, Sized
<1>7. CASE ~NextHole(m, h)
  <2>1. p = [m EXCEPT !.hdr[h].is_hole = TRUE] BY <1>1, <1>7 DEF MergeNext
  <2>2. Marked(m, p, h) BY <2>1, HoleMark
  <2>3. /\ p \in Mems /\ p.index = m.index /\ p.ftr = m.ftr
        /\ p.hdr[h].magic /\ p.hdr[h].size = m.hdr[h].size /\ p.hdr[h].is_hole
        /\ \A a \in Addr : a # h => p.hdr[a] = m.hdr[a]
    BY <2>2 DEF Marked
  <2>4. Shape(p.hdr, p.ftr, end)
    <3>1. m.hdr \in Headers /\ p.hdr \in Headers BY <2>3 DEF Mems
    <3>2. \A a \in Addr : /\ p.hdr[a].magic = m.hdr[a].magic
                          /\ p.hdr[a].size = m.hdr[a].size /\ p.ftr[a] = m.ftr[a]
      BY <2>3, <3>1, HeaderTyped
    <3>3. end <= MaxEnd + 1 /\ 0 \in Nat /\ \A a \in 0 .. end - 1 : a \in Addr BY Sized
    <3>4. Tiles(p.hdr, p.ftr, 0, end)
      BY <1>5, <3>1, <3>2, <3>3, TilesKept, ZenonT(60) DEF Shape
    <3>5. \A a \in end .. MaxEnd : ~p.hdr[a].magic BY <3>2, Sized DEF Shape
    <3> QED BY <3>4, <3>5 DEF Shape
  <2>5. IndexOK(p) /\ \A a : Indexed(p, a) <=> Indexed(m, a)
    <3>1. \A a : Indexed(m, a) => p.hdr[a] = m.hdr[a] BY <2>3 DEF IndexOK
    <3> QED BY <2>3, <3>1, IndexSame
  <2>6. x = end \/ (x < end /\ m.hdr[x].magic /\ ~m.hdr[x].is_hole)
    BY <1>2, <1>3, <1>5, <1>7 DEF NextHole
  <2>7. Behind(p.hdr, h) = x BY <1>2, <2>3 DEF Behind
  <2>8. \A a \in h + 1 .. x - 1 : ~p.hdr[a].magic
    <3> SUFFICES ASSUME NEW a \in h + 1 .. x - 1 PROVE ~p.hdr[a].magic OBVIOUS
    <3>1. a \in Addr /\ a # h BY <1>3, <1>5, Sized
    <3> QED BY <1>4, <2>3, <3>1
  <2>9. \A a \in Addr : a \notin h .. x - 1 => p.hdr[a] = m.hdr[a]
    BY <1>3, <1>5, <2>3
  <2>10. Merges(m, p, h, x, end)
    BY <1>3, <2>3, <2>4, <2>5, <2>6, <2>7, <2>8, <2>9 DEF Merges
  <2>11. NextMerged(m, p, h, x, end) BY <1>4, <1>6, <2>5, <2>10 DEF NextMerged
  <2> QED BY <1>1, <2>11
<1>8. CASE NextHole(m, h)
  <2>1. x < end /\ m.hdr[x].magic /\ m.hdr[x].is_hole /\ Indexed(m, x)
    BY <1>2, <1>8 DEF NextHole
  <2>2. PICK hi : hi = Behind(m.hdr, x) OBVIOUS
  <2>3. /\ hi \in Addr /\ x < hi /\ hi <= end /\ hi = x + MetaSize + m.hdr[x].size
        /\ hi < end => m.hdr[hi].magic
        /\ m.hdr[x].size \in Nat /\ m.hdr[x].size > 0
    BY <1>3, <2>1, <2>2, BlockFacts
  <2>4. \A g \in x + 1 .. hi - 1 : ~m.hdr[g].magic BY <1>3, <2>1, <2>2, BlockFacts
  <2>5. m.hdr[h].size \in Nat /\ m.hdr[h].size > 0 BY BlockFacts
  <2>6. hi = end \/ (hi < end /\ m.hdr[hi].magic /\ ~m.hdr[hi].is_hole)
    <3>1. hi < end => ~m.hdr[hi].is_hole BY <1>3, <2>1, <2>2 DEF Coal
    <3>2. hi \in Nat BY <2>3, Sized
    <3> QED BY <1>5, <2>3, <3>1, <3>2
  <2>7. PICK size : size = m.hdr[h].size + m.hdr[x].size + MetaSize OBVIOUS
  <2>8. /\ size \in Nat /\ size > 0 /\ hi \in Nat /\ hi = h + MetaSize + size /\ h < hi
        /\ x > h + MetaSize
    <3>1. PICK s \in Nat : s = m.hdr[h].size BY <2>5
    <3>2. PICK t \in Nat : t = m.hdr[x].size BY <2>3
    <3>3. /\ s > 0 /\ size = s + t + MetaSize /\ x = h + MetaSize + s
          /\ hi = x + MetaSize + t
      BY <1>2, <2>3, <2>5, <2>7, <3>1, <3>2
    <3> QED BY <1>5, <3>3, Sized
  <2>9. PICK q : q = make_block(m, h, size, TRUE) OBVIOUS
  <2>10. p = ordered_array_remove_element(q, x)
    BY <1>1, <1>2, <1>8, <2>7, <2>9 DEF MergeNext
  <2>11. Gap(m.hdr, m.ftr, h, hi, end) BY <2>6, <2>3, <2>8, GapOpen
  <2>12. Clear(m.hdr, hi - FooterSize, hi)
    <3>1. hi >= FooterSize BY <1>5, <2>8, Sized
    <3>2. hi = end \/ m.hdr[hi].magic BY <2>6
    <3> QED BY <2>3, <3>1, <3>2, FooterRoom DEF Clear
  <2>13. Narrowed(m, q, h, hi, size, TRUE, hi, end)
    <3>1. hi <= hi /\ TRUE \in BOOLEAN BY <2>8
    <3> QED BY <1>5, <2>3, <2>8, <2>9, <2>11, <2>12, <3>1, GapFill, Zenon
  <2>14. /\ q \in Mems /\ q.index = m.index /\ Gap(q.hdr, q.ftr, hi, hi, end)
         /\ q.hdr[h].magic /\ q.hdr[h].size = size /\ q.hdr[h].is_hole
         /\ \A a \in h + 1 .. hi - 1 : ~q.hdr[a].magic
         /\ \A a \in Addr : a \notin h .. hi - 1 => q.hdr[a] = m.hdr[a]
    BY <2>13 DEF Narrowed, Filled
  <2>15. Shape(q.hdr, q.ftr, end) BY <2>3, <2>14, GapClose
  <2>16. \A a : Indexed(m, a) /\ a # x => a \in Addr /\ a \notin h .. hi - 1
    <3> SUFFICES ASSUME NEW a, Indexed(m, a), a # x
                 PROVE  a \in Addr /\ a \notin h .. hi - 1
      OBVIOUS
    <3>1. a \in Addr /\ m.hdr[a].magic /\ a \notin h .. x - 1 BY <1>6 DEF IndexOK
    <3>2. a \notin x + 1 .. hi - 1 BY <2>4, <3>1
    <3> QED BY <1>5, <2>8, <3>1, <3>2, Sized
  <2>17. \A a : Indexed(m, a) /\ a # x => q.hdr[a] = m.hdr[a] BY <2>14, <2>16
  <2>18. Without(m, q, p, x) /\ IndexOK(p)
    BY <2>1, <2>10, <2>14, <2>17, IndexTake
  <2>19. p \in Mems /\ p.hdr = q.hdr /\ p.ftr = q.ftr BY <2>18 DEF Without
  <2>20. \A a : Indexed(p, a) <=> Indexed(m, a) /\ a \notin h .. hi - 1
    <3>1. x \in h .. hi - 1 BY <1>3, <1>5, <2>3, <2>8
    <3> QED BY <2>16, <2>18, <3>1 DEF Without
  <2>21. Behind(p.hdr, h) = hi BY <2>8, <2>14, <2>19 DEF Behind
  <2>22. Merges(m, p, h, hi, end)
    BY <2>3, <2>6, <2>8, <2>14, <2>15, <2>18, <2>19, <2>21 DEF Merges
  <2>23. \A a \in h + 1 .. hi - 1 : m.hdr[a].magic => m.hdr[a].is_hole
    <3> SUFFICES ASSUME NEW a \in h + 1 .. hi - 1, m.hdr[a].magic
                 PROVE  m.hdr[a].is_hole
      OBVIOUS
    <3>1. a \notin h + 1 .. x - 1 /\ a \notin x + 1 .. hi - 1 BY <1>4, <2>4
    <3>2. a = x BY <1>5, <2>8, <3>1
    <3> QED BY <2>1, <3>2
  <2>24. NextMerged(m, p, h, hi, end) BY <2>20, <2>22, <2>23 DEF NextMerged
  <2> QED BY <1>1, <2>24
<1> QED BY <1>7, <1>8

\* The block h and the holes at its sides are one hole, which is in the index if
\* that is not full, and no hole is beside it.
Freed(m, n, h, lo, hi, e) ==
  /\ Merges(m, n, lo, hi, e) /\ lo <= h /\ h < hi
  /\ \A a \in lo .. hi - 1 : m.hdr[a].magic /\ a # h => m.hdr[a].is_hole
  /\ \A g \in Addr : m.hdr[g].magic /\ Behind(m.hdr, g) = lo => ~m.hdr[g].is_hole
  /\ \A a : a \notin lo .. hi - 1 => (Indexed(n, a) <=> Indexed(m, a))
  /\ Len(n.index) < IndexNum => Indexed(n, lo)

\* free looks at the block before, too.
LEMMA FreePrev ==
  ASSUME end \in Addr, NEW m \in Mems, Shape(m.hdr, m.ftr, end), IndexOK(m),
         Coal(m.hdr, end), NEW h \in Addr, m.hdr[h].magic, ~Indexed(m, h),
         NEW hi, NEW p, NextMerged(m, p, h, hi, end),
         \A x \in Merged(m, h) : Indexed(m, x)
  PROVE  \E lo : Freed(m, MergePrev(p, h), h, lo, hi, end)
<1>1. PICK n : n = MergePrev(p, h) OBVIOUS
<1>2. /\ p \in Mems /\ Shape(p.hdr, p.ftr, end) /\ IndexOK(p)
      /\ hi \in Addr /\ h < hi
      /\ hi = end \/ (hi < end /\ m.hdr[hi].magic /\ ~m.hdr[hi].is_hole)
      /\ p.hdr[h].magic /\ p.hdr[h].is_hole /\ Behind(p.hdr, h) = hi
  BY DEF NextMerged, Merges
<1>3. /\ \A a \in h + 1 .. hi - 1 : ~p.hdr[a].magic
      /\ \A a \in Addr : a \notin h .. hi - 1 => p.hdr[a] = m.hdr[a]
      /\ \A a \in h + 1 .. hi - 1 : m.hdr[a].magic => m.hdr[a].is_hole
      /\ \A a : Indexed(p, a) <=> Indexed(m, a) /\ a \notin h .. hi - 1
  BY DEF NextMerged, Merges
<1>4. h \in Nat /\ hi \in Nat /\ end \in Nat /\ hi <= end BY <1>2, Sized
<1>5. \A g \in Addr : g < h => p.hdr[g] = m.hdr[g] BY <1>3, <1>4, Sized
<1>6. ASSUME NEW g \in Addr, m.hdr[g].magic, Behind(m.hdr, g) = h
      PROVE  /\ g < h /\ h >= FooterSize /\ p.hdr[g] = m.hdr[g]
             /\ m.ftr[h - FooterSize] = [magic |-> TRUE, header |-> g]
             /\ p.ftr[h - FooterSize] = [magic |-> TRUE, header |-> g]
  <2>1. /\ g < h /\ m.hdr[g].size \in Nat /\ h = g + MetaSize + m.hdr[g].size
        /\ m.ftr[g + HeaderSize + m.hdr[g].size] = [magic |-> TRUE, header |-> g]
    BY <1>6, BlockFacts
  <2>2. p.hdr[g] = m.hdr[g] BY <1>5, <2>1
  <2>3. p.ftr[g + HeaderSize + p.hdr[g].size] = [magic |-> TRUE, header |-> g]
    BY <1>2, <1>6, <2>2, BlockFacts
  <2>4. h - FooterSize = g + HeaderSize + m.hdr[g].size /\ h >= FooterSize
    <3>1. PICK s \in Nat : s = m.hdr[g].size BY <2>1
    <3>2. h = g + MetaSize + s BY <2>1, <3>1
    <3>3. h - FooterSize = g + HeaderSize + s /\ h >= FooterSize BY <3>2, Sized
    <3> QED BY <3>1, <3>3
  <2> QED BY <2>1, <2>2, <2>3, <2>4
<1>7. CASE ~PrevHole(p, h)
  <2>1. n = ordered_array_insert(p, h) BY <1>1, <1>7 DEF MergePrev
  <2>2. ~Indexed(p, h) BY <1>3, <1>4
  <2>3. With(p, n, h) /\ IndexOK(n) BY <1>2, <2>1, <2>2, IndexInsert
  <2>4. n \in Mems /\ n.hdr = p.hdr /\ n.ftr = p.ftr BY <2>3 DEF With
  <2>5. Merges(m, n, h, hi, end) BY <1>2, <1>3, <2>3, <2>4 DEF Merges
  <2>6. ASSUME NEW g \in Addr, m.hdr[g].magic, Behind(m.hdr, g) = h
        PROVE  ~m.hdr[g].is_hole
    <3>1. /\ h >= FooterSize /\ p.hdr[g] = m.hdr[g]
          /\ p.ftr[h - FooterSize] = [magic |-> TRUE, header |-> g]
      BY <1>6, <2>6
    <3> QED BY <1>7, <3>1 DEF PrevHole
  <2>7. \A a \in h .. hi - 1 : m.hdr[a].magic /\ a # h => m.hdr[a].is_hole
    <3> SUFFICES ASSUME NEW a \in h .. hi - 1, m.hdr[a].magic, a # h
                 PROVE  m.hdr[a].is_hole
      OBVIOUS
    <3>1. a \in h + 1 .. hi - 1 BY <1>4
    <3> QED BY <1>3, <3>1
  <2>8. \A a : a \notin h .. hi - 1 => (Indexed(n, a) <=> Indexed(m, a))
    <3>1. h \in h .. hi - 1 BY <1>2, <1>4
    <3> QED BY <1>3, <2>3, <3>1 DEF With
  <2>9. Len(n.index) < IndexNum => Indexed(n, h)
    <3>1. Len(p.index) \in Nat /\ IndexNum \in Nat BY <1>2, Sized DEF Mems
    <3> QED BY <2>3, <3>1 DEF With
  <2>10. h <= h BY <1>4
  <2>11. Freed(m, n, h, h, hi, end)
    BY <1>2, <2>5, <2>6, <2>7, <2>8, <2>9, <2>10 DEF Freed
  <2> QED BY <1>1, <2>11
<1>8. CASE PrevHole(p, h)
  <2>1. h > 0 BY <1>4, <1>8, Sized DEF PrevHole
  <2>2. PICK l \in Addr : m.hdr[l].magic /\ l < h /\ Behind(m.hdr, l) = h
    BY <2>1, BeforeFacts
  <2>3. /\ h >= FooterSize /\ p.hdr[l] = m.hdr[l]
        /\ m.ftr[h - FooterSize] = [magic |-> TRUE, header |-> l]
        /\ p.ftr[h - FooterSize] = [magic |-> TRUE, header |-> l]
    BY <1>6, <2>2
  <2>4. m.hdr[l].is_hole BY <1>8, <2>3 DEF PrevHole
  <2>5. PrevHole(m, h) BY <2>3, <2>4 DEF PrevHole
  <2>6. Indexed(m, l)
    <3>1. l \in Merged(m, h) BY <2>3, <2>5 DEF Merged
    <3> QED BY <3>1
  <2>7. l \notin h .. hi - 1 /\ l \in Nat BY <1>4, <2>2, Sized
  <2>8. Indexed(p, l) /\ p.hdr[l].magic BY <1>3, <2>2, <2>3, <2>6, <2>7
  <2>9. PICK size : size = p.hdr[l].size + p.hdr[h].size + MetaSize OBVIOUS
  <2>10. PICK k : k = make_block(p, l, size, TRUE) OBVIOUS
  <2>11. n = ordered_array_insert(ordered_array_remove_element(k, l), l)
    <3>1. p.ftr[h - FooterSize].header = l BY <2>3
    <3> QED BY <1>1, <1>8, <2>9, <2>10, <3>1 DEF MergePrev
  <2>12. /\ m.hdr[l].size \in Nat /\ m.hdr[l].size > 0
         /\ h = l + MetaSize + m.hdr[l].size
         /\ \A g \in l + 1 .. h - 1 : ~m.hdr[g].magic
    BY <2>2, BlockFacts
  <2>13. p.hdr[h].size \in Nat /\ p.hdr[h].size > 0 /\ hi = h + MetaSize + p.hdr[h].size
    BY <1>2, BlockFacts
  <2>14. /\ size \in Nat /\ size > 0 /\ hi = l + MetaSize + size /\ l < hi
    <3>1. PICK s \in Nat : s = m.hdr[l].size BY <2>12
    <3>2. PICK t \in Nat : t = p.hdr[h].size BY <2>13
    <3>3. /\ size = s + t + MetaSize /\ h = l + MetaSize + s /\ hi = h + MetaSize + t
          /\ s > 0
      BY <2>3, <2>9, <2>12, <2>13, <3>1, <3>2
    <3> QED BY <1>4, <2>7, <3>3, Sized, SMTT(30)
  <2>15. hi = end \/ p.hdr[hi].magic
    <3>1. hi \notin h .. hi - 1 BY <1>4
    <3> QED BY <1>2, <1>3, <3>1
  <2>16. Gap(p.hdr, p.ftr, l, hi, end)
    <3>1. l <= hi BY <1>4, <2>7, <2>14
    <3> QED BY <1>2, <2>8, <2>15, <3>1, GapOpen
  <2>17. Clear(p.hdr, hi - FooterSize, hi)
    <3>1. hi >= FooterSize BY <1>4, <2>7, <2>14, Sized
    <3> QED BY <1>2, <2>15, <3>1, FooterRoom DEF Clear
  <2>18. Narrowed(p, k, l, hi, size, TRUE, hi, end)
    <3>1. hi <= hi /\ TRUE \in BOOLEAN BY <1>4
    <3> QED BY <1>2, <1>4, <2>7, <2>10, <2>14, <2>16, <2>17, <3>1, GapFill, Zenon
  <2>19. /\ k \in Mems /\ k.index = p.index /\ Gap(k.hdr, k.ftr, hi, hi, end)
         /\ k.hdr[l].magic /\ k.hdr[l].size = size /\ k.hdr[l].is_hole
         /\ \A a \in l + 1 .. hi - 1 : ~k.hdr[a].magic
         /\ \A a \in Addr : a \notin l .. hi - 1 => k.hdr[a] = p.hdr[a]
    BY <2>18 DEF Narrowed, Filled
  <2>20. Shape(k.hdr, k.ftr, end) BY <1>2, <2>19, GapClose
  <2>21. \A a : Indexed(p, a) /\ a # l => a \in Addr /\ a \notin l .. hi - 1
    <3> SUFFICES ASSUME NEW a, Indexed(p, a), a # l
                 PROVE  a \in Addr /\ a \notin l .. hi - 1
      OBVIOUS
    <3>1. a \in Addr /\ a \notin h .. hi - 1 /\ Indexed(m, a)
      BY <1>2, <1>3 DEF IndexOK
    <3>2. m.hdr[a].magic BY <3>1 DEF IndexOK
    <3>3. a \notin l + 1 .. h - 1 BY <2>12, <3>2
    <3> QED BY <1>4, <2>7, <3>1, <3>3, Sized
  <2>22. \A a : Indexed(p, a) /\ a # l => k.hdr[a] = p.hdr[a] BY <2>19, <2>21
  <2>23. Reindexed(p, k, n)
    BY <1>2, <2>8, <2>11, <2>19, <2>22, Widened
  <2>24. n \in Mems /\ n.hdr = k.hdr /\ n.ftr = k.ftr /\ IndexOK(n)
    BY <2>23 DEF Reindexed
  <2>25. \A a : Indexed(n, a) <=> Indexed(p, a) BY <2>23 DEF Reindexed
  <2>26. \A a \in Addr : a \notin l .. hi - 1 => n.hdr[a] = m.hdr[a]
    <3> SUFFICES ASSUME NEW a \in Addr, a \notin l .. hi - 1 PROVE n.hdr[a] = m.hdr[a]
      OBVIOUS
    <3>1. a \notin h .. hi - 1 BY <1>4, <2>2, <2>7
    <3> QED BY <1>3, <2>19, <2>24, <3>1
  <2>27. Behind(n.hdr, l) = hi BY <2>14, <2>19, <2>24 DEF Behind
  <2>28. Merges(m, n, l, hi, end)
    BY <1>2, <2>2, <2>14, <2>19, <2>20, <2>24, <2>26, <2>27 DEF Merges
  <2>29. ASSUME NEW g \in Addr, m.hdr[g].magic, Behind(m.hdr, g) = l
         PROVE  ~m.hdr[g].is_hole
    <3>1. l < end BY <2>2, BlockFacts
    <3> QED BY <2>4, <2>29, <3>1 DEF Coal
  <2>30. \A a \in l .. hi - 1 : m.hdr[a].magic /\ a # h => m.hdr[a].is_hole
    <3> SUFFICES ASSUME NEW a \in l .. hi - 1, m.hdr[a].magic, a # h
                 PROVE  m.hdr[a].is_hole
      OBVIOUS
    <3>1. a \notin l + 1 .. h - 1 BY <2>12
    <3>2. a = l \/ a \in h + 1 .. hi - 1 BY <1>4, <2>7, <3>1
    <3> QED BY <1>3, <2>4, <3>2
  <2>31. \A a : a \notin l .. hi - 1 => (Indexed(n, a) <=> Indexed(m, a))
    <3> SUFFICES ASSUME NEW a, a \notin l .. hi - 1
                 PROVE  Indexed(n, a) <=> Indexed(m, a)
      OBVIOUS
    <3>1. a \notin h .. hi - 1 BY <1>4, <2>2, <2>7
    <3> QED BY <1>3, <2>25, <3>1
  <2>32. Indexed(n, l) /\ l <= h BY <1>4, <2>2, <2>7, <2>8, <2>25
  <2>33. Freed(m, n, h, l, hi, end)
    BY <1>2, <2>28, <2>29, <2>30, <2>31, <2>32 DEF Freed
  <2> QED BY <1>1, <2>33
<1> QED BY <1>7, <1>8

\* The footer below the end names the last block, and there is only one.
LEMMA LastBlock ==
  ASSUME NEW m \in Mems, NEW e \in Addr, e > 0, Shape(m.hdr, m.ftr, e),
         NEW last, last = m.ftr[e - FooterSize].header
  PROVE  /\ last \in Addr /\ m.hdr[last].magic /\ Behind(m.hdr, last) = e
         /\ \A g \in Addr : m.hdr[g].magic /\ Behind(m.hdr, g) = e => g = last
<1>1. PICK l \in Addr : /\ m.hdr[l].magic /\ Behind(m.hdr, l) = e
                        /\ m.ftr[e - FooterSize] = [magic |-> TRUE, header |-> l]
  BY BeforeFacts
<1>2. last = l BY <1>1
<1>3. ASSUME NEW g \in Addr, m.hdr[g].magic, Behind(m.hdr, g) = e PROVE g = l
  <2>1. CASE g < l
    <3>1. e <= l BY <1>1, <1>3, <2>1, Apart
    <3>2. l < e BY <1>1, BlockFacts
    <3> QED BY <3>1, <3>2, Sized
  <2>2. CASE l < g
    <3>1. e <= g BY <1>1, <1>3, <2>2, Apart
    <3>2. g < e BY <1>3, BlockFacts
    <3> QED BY <3>1, <3>2, Sized
  <2> QED BY <2>1, <2>2, Sized
<1> QED BY <1>1, <1>2, <1>3

-----------------------------------------------------------------------------
(* Where a request fits *)

\* kheap_find_hole finds something if some block of the index will do.
Served(m, r) == \E a : Indexed(m, a) /\ Places(m, a, r) # {}

\* The positions in the index and the blocks there come to the same.
LEMMA FitsServed ==
  ASSUME NEW m, NEW r
  PROVE  Fits(m, r) # {} <=> Served(m, r)
<1>1. ASSUME NEW i \in Fits(m, r) PROVE Served(m, r)
  <2>1. i \in 1 .. Len(m.index) /\ Places(m, m.index[i], r) # {} BY DEF Fits
  <2> QED BY <2>1 DEF Served, Indexed
<1>2. ASSUME NEW a, Indexed(m, a), Places(m, a, r) # {} PROVE Fits(m, r) # {}
  <2>1. PICK i \in 1 .. Len(m.index) : m.index[i] = a BY <1>2 DEF Indexed
  <2>2. i \in Fits(m, r) BY <1>2, <2>1 DEF Fits
  <2> QED BY <2>2
<1> QED BY <1>1, <1>2 DEF Served

\* Where a payload fits depends on the size of the block alone.
LEMMA PlacesSame ==
  ASSUME NEW m, NEW n, NEW a, NEW r, n.hdr[a] = m.hdr[a]
  PROVE  Places(n, a, r) = Places(m, a, r)
  BY DEF Places

\* A payload starts in the block, far enough from its start for a block in front
\* of it, and ends in it.
LEMMA PlaceRoom ==
  ASSUME NEW m \in Mems, NEW h \in Addr, NEW r, r.size \in Nat, r.align \in BOOLEAN,
         NEW p \in Places(m, h, r), h + MetaSize + m.hdr[h].size <= MaxEnd
  PROVE  /\ p \in Addr /\ p >= h + HeaderSize
         /\ p + r.size <= h + HeaderSize + m.hdr[h].size
         /\ p = h + HeaderSize \/ p - (h + HeaderSize) > MetaSize
<1>1. m.hdr[h].size \in Nat BY HeaderTyped DEF Mems
<1>2. PICK s \in Nat : s = m.hdr[h].size BY <1>1
<1>3. CASE ~r.align
  <2>1. p = h + HeaderSize /\ s >= r.size BY <1>2, <1>3 DEF Places
  <2>2. h + MetaSize + s <= MaxEnd /\ h \in Nat BY <1>2, Sized
  <2>3. p \in Addr /\ p >= h + HeaderSize /\ p + r.size <= h + HeaderSize + s
    BY <2>1, <2>2, Sized
  <2> QED BY <1>2, <2>1, <2>3
<1>4. CASE r.align
  <2>1. /\ p \in Addr /\ p >= h + HeaderSize /\ p + r.size <= h + HeaderSize + s
        /\ p = h + HeaderSize \/ p - (h + HeaderSize) > MetaSize
    BY <1>2, <1>4 DEF Places
  <2> QED BY <1>2, <2>1
<1> QED BY <1>3, <1>4

\* There is a first place.
LEMMA FirstPlace ==
  ASSUME NEW m \in Mems, NEW h \in Addr, NEW r, r.size \in Nat, r.align \in BOOLEAN,
         Places(m, h, r) # {}, h + MetaSize + m.hdr[h].size <= MaxEnd
  PROVE  \E p \in Places(m, h, r) : \A q \in Places(m, h, r) : p <= q
<1>1. Places(m, h, r) \in SUBSET Nat
  <2>1. \A p \in Places(m, h, r) : p \in Addr BY PlaceRoom
  <2> QED BY <2>1, Sized
<1> QED BY <1>1, LeastNat

\* Two blocks of one size that both start on a page offer the same places.
LEMMA PlacesShift ==
  ASSUME NEW m \in Mems, NEW n \in Mems, NEW x \in Addr, NEW y \in Addr, x <= y,
         x % PageSize = 0, y % PageSize = 0, m.hdr[x].size = n.hdr[y].size,
         NEW r, r.size \in Nat, r.align \in BOOLEAN, Places(n, y, r) # {},
         y + MetaSize + n.hdr[y].size <= MaxEnd
  PROVE  Places(m, x, r) # {}
<1>1. m.hdr[x].size \in Nat BY HeaderTyped DEF Mems
<1>2. PICK s \in Nat : s = m.hdr[x].size /\ s = n.hdr[y].size BY <1>1
<1>3. PICK p \in Places(n, y, r) : TRUE OBVIOUS
<1>4. CASE ~r.align
  <2>1. s >= r.size BY <1>2, <1>3, <1>4 DEF Places
  <2>2. x + HeaderSize \in Places(m, x, r) BY <1>2, <1>4, <2>1 DEF Places
  <2> QED BY <2>2
<1>5. CASE r.align
  <2>1. /\ p \in Addr /\ p % PageSize = 0 /\ p >= y + HeaderSize
        /\ p + r.size <= y + HeaderSize + s
        /\ p = y + HeaderSize \/ p - (y + HeaderSize) > MetaSize
    BY <1>2, <1>3, <1>5 DEF Places
  <2>2. PICK d \in Nat : d = y - x BY Sized
  <2>3. PICK q \in Nat : q = p - d BY <2>1, <2>2, Sized
  <2>4. /\ q \in Addr /\ q >= x + HeaderSize /\ q + r.size <= x + HeaderSize + s
        /\ q = x + HeaderSize \/ q - (x + HeaderSize) > MetaSize
    BY <2>1, <2>2, <2>3, Sized
  <2>5. \E k \in Int : d = PageSize * k
    <3>1. x \in Nat /\ y \in Nat /\ PageSize \in Nat BY Sized
    <3>2. PICK i \in Int : x = PageSize * i BY <3>1, PageMultiple
    <3>3. PICK j \in Int : y = PageSize * j BY <3>1, PageMultiple
    <3>4. PageSize * (j - i) = PageSize * j - PageSize * i BY <3>1
    <3>5. j - i \in Int /\ d = PageSize * (j - i) BY <2>2, <3>2, <3>3, <3>4
    <3> QED BY <3>5
  <2>6. q % PageSize = 0
    <3>1. p \in Nat /\ p = q + d BY <2>1, <2>2, <2>3, Sized
    <3>2. p % PageSize = q % PageSize BY <2>5, <3>1, PageShift
    <3> QED BY <2>1, <3>2
  <2>7. q \in Places(m, x, r) BY <1>2, <1>5, <2>4, <2>6 DEF Places
  <2> QED BY <2>7
<1> QED BY <1>4, <1>5

-----------------------------------------------------------------------------
(* The invariant *)

\* Blocks an expansion has added and no request has taken: not holes, not in use.
Spare == {h \in Addr : /\ mem.hdr[h].magic /\ ~mem.hdr[h].is_hole
                       /\ h + HeaderSize \notin DOMAIN owned}

\* What the rounds of one request leave behind.  Every spare block was made for
\* this request, is as large as the others and starts on a page: if one will not
\* do none will.  So the request is served out of the only spare block or there
\* is none, it is the last block, and no hole is before it.
Rounds ==
  /\ req # None => req.size > 0
  /\ req = None => Spare = {}
  /\ \A x \in Spare : /\ x % PageSize = 0
                      /\ mem.hdr[x].size = Extension(req.size) - MetaSize
                      /\ Indexed(mem, x) \/ Len(mem.index) >= IndexNum
  /\ Spare # {} => \E x \in Spare : Behind(mem.hdr, x) = end
  /\ \A a : Indexed(mem, a) /\ Places(mem, a, req) # {} => \A x \in Spare : x = a
  /\ \A g \in Addr : mem.hdr[g].magic /\ mem.hdr[g].is_hole
                       => Behind(mem.hdr, g) \notin Spare

\* Memory in use is in a block of its own, which is off the index.
InUse ==
  \A a \in DOMAIN owned :
    /\ a - HeaderSize \in Addr /\ mem.hdr[a - HeaderSize].magic
    /\ ~mem.hdr[a - HeaderSize].is_hole
    /\ mem.hdr[a - HeaderSize].size >= owned[a]
    /\ ~Indexed(mem, a - HeaderSize)

HeapInv ==
  /\ TypeOK /\ end > 0
  /\ Shape(mem.hdr, mem.ftr, end)
  /\ IndexOK(mem)
  /\ InUse
  /\ Coal(mem.hdr, end)
  /\ Rounds

\* Every block that is not in use is in the index.
Covered ==
  \A h \in Addr : mem.hdr[h].magic /\ h + HeaderSize \notin DOMAIN owned
                    => Indexed(mem, h)

Roomy == Len(mem.index) < IndexNum

\* The types of the parts of the state.
LEMMA Typed ==
  ASSUME TypeOK
  PROVE  /\ mem \in Mems /\ Len(mem.index) \in Nat /\ end \in Addr /\ end \in Nat
         /\ end % PageSize = 0 /\ req.size \in Nat /\ req.align \in BOOLEAN
         /\ \A a \in DOMAIN owned : a \in Addr /\ owned[a] \in Nat
<1>1. mem \in Mems BY DEF TypeOK, Mems, Headers, Footers
<1>2. Sizes \subseteq Nat BY KHeapAssumption
<1>3. Len(mem.index) \in Nat BY <1>1 DEF Mems
<1>4. end \in Addr /\ end \in Nat /\ end % PageSize = 0 BY Sized DEF TypeOK
<1>5. req.size \in Nat /\ req.align \in BOOLEAN
  <2>1. req \in [size : Sizes \cup {0}, align : BOOLEAN] BY DEF TypeOK
  <2>2. req.size \in Sizes \cup {0} /\ req.align \in BOOLEAN BY <2>1
  <2>3. Sizes \cup {0} \subseteq Nat BY <1>2
  <2> QED BY <2>2, <2>3
<1>6. \A a \in DOMAIN owned : a \in Addr /\ owned[a] \in Nat BY <1>2 DEF TypeOK
<1> QED BY <1>1, <1>3, <1>4, <1>5, <1>6

\* create_kheap makes one hole of the whole heap.
LEMMA HeapInit == Init => HeapInv /\ (Roomy => Covered)
<1> SUFFICES ASSUME Init PROVE HeapInv /\ (Roomy => Covered) OBVIOUS
<1>1. Blank \in Mems /\ \A a \in Addr : ~Blank.hdr[a].magic
  <2>1. NoHeader \in Header /\ NoFooter \in Footer /\ ~NoHeader.magic
    BY Sized DEF Header, Footer, NoHeader, NoFooter
  <2> QED BY <2>1 DEF Blank, Mems, Headers, Footers
<1>2. Blank.index = <<>> /\ Len(Blank.index) = 0 BY DEF Blank
<1>3. 0 \in Addr /\ MinEnd \in Addr /\ MinEnd \in Nat BY Sized
<1>4. Shape(Blank.hdr, Blank.ftr, 0)
  <2>1. Tiles(Blank.hdr, Blank.ftr, 0, 0) BY DEF Tiles
  <2> QED BY <1>1, <2>1, Sized DEF Shape
<1>5. \A a : ~Indexed(Blank, a) BY <1>2 DEF Indexed
<1>6. IndexOK(Blank) BY <1>2, <1>5, Sized DEF IndexOK, Once, Ordered
<1>7. PICK size : size = MinEnd - MetaSize OBVIOUS
<1>8. size \in Nat /\ size > 0 /\ MinEnd = 0 + MetaSize + size BY <1>7, Sized
<1>9. mem = ordered_array_insert(make_block(Blank, 0, size, TRUE), 0)
  BY <1>7 DEF Init
<1>10. Added(Blank, mem, 0, MinEnd, size, TRUE)
  BY <1>1, <1>3, <1>4, <1>6, <1>8, <1>9, AddedBlock
<1>11. end = MinEnd /\ req = None /\ grown = 0 /\ owned = <<>> /\ panic = "none"
  BY DEF Init
<1>12. DOMAIN owned = {} BY <1>11
<1>13. /\ mem \in Mems /\ mem.hdr[0].magic /\ mem.hdr[0].is_hole
       /\ mem.hdr[0].size = size /\ Shape(mem.hdr, mem.ftr, MinEnd) /\ IndexOK(mem)
       /\ \A a \in 1 .. MinEnd - 1 : ~mem.hdr[a].magic
       /\ \A a \in Addr : a \notin 0 .. MinEnd - 1 => mem.hdr[a] = Blank.hdr[a]
       /\ \A a : Indexed(mem, a) <=> a = 0 /\ Len(Blank.index) < IndexNum
  BY <1>5, <1>10 DEF Added, Filled
<1>14. Indexed(mem, 0) BY <1>2, <1>13, Sized
<1>15. \A a \in Addr : mem.hdr[a].magic => a = 0
  <2> SUFFICES ASSUME NEW a \in Addr, a # 0 PROVE ~mem.hdr[a].magic OBVIOUS
  <2>1. CASE a \in 1 .. MinEnd - 1 BY <1>13, <2>1
  <2>2. CASE a \notin 1 .. MinEnd - 1
    <3>1. a \notin 0 .. MinEnd - 1 BY <1>3, <2>2, Sized
    <3> QED BY <1>1, <1>13, <3>1
  <2> QED BY <2>1, <2>2
<1>16. Behind(mem.hdr, 0) = MinEnd BY <1>8, <1>13 DEF Behind
<1>17. TypeOK
  <2>1. /\ mem \in [hdr : [Addr -> Header], ftr : [Addr -> Footer], index : Seq(Addr)]
        /\ Len(mem.index) <= IndexNum
    BY <1>13 DEF Mems, Headers, Footers, IndexOK
  <2>2. None \in [size : Sizes \cup {0}, align : BOOLEAN] BY DEF None
  <2> QED BY <1>3, <1>11, <1>12, <2>1, <2>2, Sized DEF TypeOK
<1>18. Coal(mem.hdr, MinEnd) BY <1>3, <1>15, <1>16 DEF Coal
<1>19. Spare = {} BY <1>13, <1>15 DEF Spare
<1>20. Rounds BY <1>11, <1>19 DEF Rounds
<1>21. InUse BY <1>12 DEF InUse
<1>22. end > 0 BY <1>11, Sized
<1>23. Covered BY <1>14, <1>15 DEF Covered
<1> QED BY <1>11, <1>13, <1>17, <1>18, <1>20, <1>21, <1>22, <1>23 DEF HeapInv

\* The first round of a request finds nothing spare.
LEMMA HeapMalloc ==
  ASSUME HeapInv, NEW n \in Sizes, NEW align \in BOOLEAN, kmalloc(n, align)
  PROVE  HeapInv'
<1>1. n \in Nat /\ n > 0 /\ req = None BY KHeapAssumption DEF kmalloc
<1>2. mem' = mem /\ end' = end /\ owned' = owned /\ panic' = panic
      /\ req' = [size |-> n, align |-> align] /\ grown' = 0
  BY DEF kmalloc
<1>3. TypeOK' BY <1>2 DEF HeapInv, TypeOK
<1>4. Spare = {} BY <1>1 DEF HeapInv, Rounds
<1>5. Spare' = {} BY <1>2, <1>4 DEF Spare
<1>6. req' # None /\ req'.size > 0 BY <1>1, <1>2 DEF None
<1>7. Rounds' BY <1>5, <1>6 DEF Rounds
<1>8. InUse' BY <1>2 DEF HeapInv, InUse, Indexed
<1>9. end' > 0 /\ Shape(mem.hdr, mem.ftr, end)' /\ IndexOK(mem)' /\ Coal(mem.hdr, end)'
  BY <1>2 DEF HeapInv
<1> QED BY <1>3, <1>7, <1>8, <1>9 DEF HeapInv

\* The branch of Expand that makes a new block.
Adding(ext, last) ==
  /\ Serving /\ Fits(mem, req) = {}
  /\ ext = Extension(req.size) /\ end + ext <= MaxEnd
  /\ last = mem.ftr[end - FooterSize].header /\ ~mem.hdr[last].is_hole
  /\ mem' = ordered_array_insert(make_block(mem, end, ext - MetaSize, FALSE), end)
  /\ end' = end + ext /\ grown' = grown + 1 /\ UNCHANGED <<req, owned, panic>>

\* kheap_expand with a last block in use, or a spare one: another spare block.
LEMMA HeapAdd ==
  ASSUME HeapInv, NEW ext, NEW last, Adding(ext, last)
  PROVE  /\ HeapInv'
         /\ Roomy' => (Covered => Covered') /\ (~req.align => Served(mem, req)')
<1>0. /\ Len(mem.index) \in Nat /\ end \in Nat /\ req.size \in Nat
      /\ end > 0 /\ IndexNum \in Nat /\ Addr = 0 .. MaxEnd /\ MaxEnd \in Nat
      /\ MetaSize \in Nat /\ MetaSize > 0
  BY Typed, Sized DEF HeapInv
<1>1. /\ mem \in Mems /\ end \in Addr /\ end \in Nat /\ end > 0
      /\ Shape(mem.hdr, mem.ftr, end) /\ IndexOK(mem)
  BY Typed DEF HeapInv
<1>01. end % PageSize = 0 /\ req.size \in Nat /\ req.align \in BOOLEAN
  BY Typed DEF HeapInv
<1>2. req # None /\ req.size > 0 BY DEF Adding, Serving, HeapInv, Rounds
<1>3. ext \in Nat /\ ext >= req.size + MetaSize /\ ext % PageSize = 0
  <2>1. ext = Extension(req.size) BY DEF Adding
  <2> QED BY <1>01, <2>1, ExtensionRoom
<1>4. PICK size : size = ext - MetaSize OBVIOUS
<1>5. PICK c : c = end + ext OBVIOUS
<1>6. /\ size \in Nat /\ size > 0 /\ c = end + MetaSize + size /\ c \in Addr
      /\ c \in Nat /\ end < c /\ size >= req.size /\ c <= MaxEnd
  <2>1. end + ext <= MaxEnd BY DEF Adding
  <2> QED BY <1>0, <1>2, <1>3, <1>4, <1>5, <2>1
<1>7. Added(mem, mem', end, c, size, FALSE)
  <2>1. mem' = ordered_array_insert(make_block(mem, end, size, FALSE), end)
    BY <1>4 DEF Adding
  <2>2. FALSE \in BOOLEAN OBVIOUS
  <2> QED BY <1>1, <1>6, <2>1, <2>2, AddedBlock
<1>8. /\ mem' \in Mems /\ Shape(mem'.hdr, mem'.ftr, c) /\ IndexOK(mem')
      /\ mem'.hdr[end].magic /\ mem'.hdr[end].size = size /\ ~mem'.hdr[end].is_hole
      /\ \A a \in end + 1 .. c - 1 : ~mem'.hdr[a].magic
      /\ \A a \in Addr : a \notin end .. c - 1 => mem'.hdr[a] = mem.hdr[a]
  BY <1>7 DEF Added, Filled
<1>9. /\ Len(mem.index) < IndexNum => Len(mem'.index) = Len(mem.index) + 1
      /\ Len(mem.index) >= IndexNum => Len(mem'.index) = Len(mem.index)
      /\ \A a : Indexed(mem', a) <=>
           Indexed(mem, a) \/ (a = end /\ Len(mem.index) < IndexNum)
  BY <1>7 DEF Added
<1>10. end' = c /\ req' = req /\ owned' = owned /\ panic' = panic
  BY <1>5 DEF Adding
<1>11. \A a \in Addr : a < end => mem'.hdr[a] = mem.hdr[a]
  <2>1. \A a \in Addr : a < end => a \notin end .. c - 1 BY <1>0, <1>6
  <2> QED BY <1>8, <2>1
<1>12. \A a \in Addr : mem.hdr[a].magic => a < end /\ mem'.hdr[a] = mem.hdr[a]
  BY <1>1, <1>11, BlockFacts
<1>13. \A a \in Addr : mem'.hdr[a].magic => a = end \/ (a < end /\ mem.hdr[a].magic)
  <2> SUFFICES ASSUME NEW a \in Addr, mem'.hdr[a].magic, a # end
               PROVE  a < end /\ mem.hdr[a].magic
    OBVIOUS
  <2>1. a \notin end + 1 .. c - 1 BY <1>8
  <2>2. a \notin end .. c - 1 BY <1>1, <1>6, <2>1, Sized
  <2>3. mem.hdr[a].magic BY <1>8, <2>2
  <2> QED BY <1>12, <2>3
<1>14. ~mem.hdr[end].magic /\ ~Indexed(mem, end)
  <2>1. ~mem.hdr[end].magic BY <1>1, Sized DEF Shape
  <2> QED BY <1>1, <2>1 DEF IndexOK
<1>15. end + HeaderSize \notin DOMAIN owned
  <2> SUFFICES ASSUME end + HeaderSize \in DOMAIN owned PROVE FALSE OBVIOUS
  <2>1. (end + HeaderSize) - HeaderSize = end BY <1>1, Sized
  <2>2. mem.hdr[(end + HeaderSize) - HeaderSize].magic BY DEF HeapInv, InUse
  <2> QED BY <1>14, <2>1, <2>2
<1>16. \A x \in Addr : x \in Spare' <=> x = end \/ x \in Spare
  BY <1>1, <1>8, <1>10, <1>12, <1>13, <1>14, <1>15 DEF Spare
<1>17. ASSUME NEW a \in Addr, mem.hdr[a].magic
       PROVE  /\ Behind(mem'.hdr, a) = Behind(mem.hdr, a) /\ Behind(mem.hdr, a) \in Addr
              /\ Behind(mem.hdr, a) <= end
  BY <1>1, <1>12, <1>17, BlockFacts DEF Behind
<1>18. ASSUME NEW a \in Addr, mem.hdr[a].magic, mem.hdr[a].is_hole
       PROVE  Behind(mem.hdr, a) < end
  <2>0. last = mem.ftr[end - FooterSize].header /\ ~mem.hdr[last].is_hole
    BY DEF Adding
  <2>1. Behind(mem.hdr, a) = end => a = last BY <1>1, <1>18, <2>0, LastBlock
  <2>2. PICK y \in Addr : y = Behind(mem.hdr, a) /\ y <= end BY <1>17, <1>18
  <2>3. y # end BY <1>18, <2>0, <2>1, <2>2
  <2> QED BY <1>0, <2>2, <2>3
<1>19. TypeOK'
  <2>1. mem' \in [hdr : [Addr -> Header], ftr : [Addr -> Footer], index : Seq(Addr)]
        /\ Len(mem'.index) <= IndexNum
    BY <1>8 DEF Mems, Headers, Footers, IndexOK
  <2>2. c % PageSize = 0
    <3>1. \E k \in Int : end = PageSize * k BY <1>0, <1>01, PageMultiple
    <3>2. c = ext + end BY <1>0, <1>3, <1>5
    <3>3. c % PageSize = ext % PageSize BY <1>0, <1>3, <1>6, <3>1, <3>2, PageShift
    <3> QED BY <1>3, <3>3
  <2>3. req \in [size : Sizes \cup {0}, align : BOOLEAN] /\ grown \in Nat
        /\ DOMAIN owned \subseteq Addr /\ (\A a \in DOMAIN owned : owned[a] \in Sizes)
        /\ panic \in {"none", "max_size", "not_in_index"}
    BY DEF HeapInv, TypeOK
  <2>4. grown' \in Nat BY <2>3 DEF Adding
  <2> QED BY <1>6, <1>10, <2>1, <2>2, <2>3, <2>4 DEF TypeOK
<1>20. InUse'
  <2> SUFFICES ASSUME NEW a \in DOMAIN owned
               PROVE  /\ a - HeaderSize \in Addr /\ mem'.hdr[a - HeaderSize].magic
                      /\ ~mem'.hdr[a - HeaderSize].is_hole
                      /\ mem'.hdr[a - HeaderSize].size >= owned[a]
                      /\ ~Indexed(mem', a - HeaderSize)
    BY <1>10 DEF InUse
  <2>1. PICK x : x = a - HeaderSize OBVIOUS
  <2>2. x \in Addr /\ mem.hdr[x].magic /\ ~mem.hdr[x].is_hole
        /\ mem.hdr[x].size >= owned[a] /\ ~Indexed(mem, x)
    BY <2>1 DEF HeapInv, InUse
  <2>3. x # end /\ mem'.hdr[x] = mem.hdr[x] BY <1>12, <1>14, <2>2
  <2>4. ~Indexed(mem', x) BY <1>9, <2>2, <2>3
  <2> QED BY <2>1, <2>2, <2>3, <2>4
<1>21. Coal(mem'.hdr, c)
  <2> SUFFICES ASSUME NEW a \in Addr, mem'.hdr[a].magic, mem'.hdr[a].is_hole
               PROVE  ~mem'.hdr[Behind(mem'.hdr, a)].is_hole
    BY DEF Coal
  <2>1. a # end /\ mem.hdr[a].magic /\ mem.hdr[a].is_hole BY <1>8, <1>12, <1>13
  <2>2. PICK y \in Addr : y = Behind(mem.hdr, a) /\ y = Behind(mem'.hdr, a) /\ y < end
    BY <1>17, <1>18, <2>1
  <2>3. ~mem.hdr[y].is_hole BY <2>1, <2>2 DEF Coal, HeapInv
  <2> QED BY <1>11, <2>2, <2>3
<1>22. ASSUME NEW a, Indexed(mem', a), Places(mem', a, req) # {}
       PROVE  /\ a = end /\ \A x \in Spare' : x = end
  <2>1. ~Served(mem, req) BY FitsServed DEF Adding
  <2>2. a = end /\ Len(mem.index) < IndexNum
    <3> SUFFICES ASSUME Indexed(mem, a) PROVE FALSE BY <1>9, <1>22
    <3>1. a \in Addr /\ mem.hdr[a].magic BY <1>1 DEF IndexOK
    <3>2. mem'.hdr[a] = mem.hdr[a] BY <1>12, <3>1
    <3>3. Places(mem', a, req) = Places(mem, a, req) BY <3>2 DEF Places
    <3>4. Places(mem, a, req) # {} BY <1>22, <3>3
    <3> QED BY <2>1, <3>4 DEF Served
  <2>3. ASSUME NEW x \in Spare' PROVE x = end
    <3> SUFFICES ASSUME x \in Spare PROVE FALSE BY <1>16 DEF Spare
    <3>1. /\ x \in Addr /\ mem.hdr[x].magic /\ x % PageSize = 0
          /\ mem.hdr[x].size = size /\ Indexed(mem, x)
      <4>1. size = Extension(req.size) - MetaSize BY <1>4 DEF Adding
      <4>2. ~(Len(mem.index) >= IndexNum) BY <1>0, <2>2
      <4> QED BY <4>1, <4>2 DEF HeapInv, Rounds, Spare
    <3>2. x <= end BY <1>0, <1>12, <3>1
    <3>3. end + MetaSize + mem'.hdr[end].size <= MaxEnd BY <1>6, <1>8
    <3>4. Places(mem, x, req) # {}
      <4>1. mem \in Mems /\ mem' \in Mems /\ mem'.hdr[end].size = size BY <1>1, <1>8
      <4>2. mem.hdr[x].size = mem'.hdr[end].size BY <3>1, <4>1
      <4>3. Places(mem', end, req) # {} BY <1>22, <2>2
      <4> QED BY <1>1, <1>01, <3>1, <3>2, <3>3, <4>1, <4>2, <4>3, PlacesShift
    <3> QED BY <2>1, <3>1, <3>4 DEF Served
  <2> QED BY <2>2, <2>3
<1>23. Rounds'
  <2>1. req' # None /\ req'.size > 0 BY <1>2, <1>10
  <2>2. ASSUME NEW x \in Spare'
        PROVE  /\ x % PageSize = 0 /\ mem'.hdr[x].size = Extension(req'.size) - MetaSize
               /\ Indexed(mem', x) \/ Len(mem'.index) >= IndexNum
    <3>1. x \in Addr BY DEF Spare
    <3>2. CASE x = end
      <4>1. mem'.hdr[end].size = Extension(req'.size) - MetaSize
        BY <1>4, <1>8, <1>10 DEF Adding
      <4>2. Indexed(mem', end) \/ Len(mem'.index) >= IndexNum BY <1>0, <1>9
      <4> QED BY <1>01, <3>2, <4>1, <4>2
    <3>3. CASE x \in Spare
      <4>1. /\ x % PageSize = 0 /\ mem.hdr[x].size = Extension(req.size) - MetaSize
            /\ Indexed(mem, x) \/ Len(mem.index) >= IndexNum
        BY <3>3 DEF HeapInv, Rounds, Spare
      <4>2. mem'.hdr[x] = mem.hdr[x] BY <1>12, <3>1, <3>3 DEF Spare
      <4>3. Indexed(mem', x) \/ Len(mem'.index) >= IndexNum BY <1>0, <1>9, <4>1
      <4> QED BY <1>10, <4>1, <4>2, <4>3
    <3> QED BY <1>16, <3>1, <3>2, <3>3
  <2>3. \E x \in Spare' : Behind(mem'.hdr, x) = end'
    <3>1. Behind(mem'.hdr, end) = c BY <1>6, <1>8 DEF Behind
    <3>2. end \in Spare' BY <1>1, <1>16
    <3> QED BY <1>10, <3>1, <3>2
  <2>4. \A a : Indexed(mem', a) /\ Places(mem', a, req') # {} => \A x \in Spare' : x = a
    BY <1>10, <1>22
  <2>5. ASSUME NEW g \in Addr, mem'.hdr[g].magic, mem'.hdr[g].is_hole
        PROVE  Behind(mem'.hdr, g) \notin Spare'
    <3>1. g # end /\ mem.hdr[g].magic /\ mem.hdr[g].is_hole BY <1>8, <1>12, <1>13, <2>5
    <3>2. PICK y \in Addr : y = Behind(mem.hdr, g) /\ y = Behind(mem'.hdr, g) /\ y < end
      BY <1>17, <1>18, <3>1
    <3>3. y \notin Spare BY <3>1, <3>2 DEF HeapInv, Rounds
    <3>4. y # end BY <1>0, <3>2
    <3> QED BY <1>16, <3>2, <3>3, <3>4
  <2> QED BY <2>1, <2>2, <2>3, <2>4, <2>5 DEF Rounds
<1>24. ASSUME Roomy', Covered PROVE Covered'
  <2>1. Len(mem.index) < IndexNum BY <1>0, <1>9, <1>24 DEF Roomy
  <2> SUFFICES ASSUME NEW h \in Addr, mem'.hdr[h].magic, h + HeaderSize \notin DOMAIN owned
               PROVE  Indexed(mem', h)
    BY <1>10 DEF Covered
  <2>2. CASE h = end BY <1>9, <2>1, <2>2
  <2>3. CASE h # end
    <3>1. mem.hdr[h].magic BY <1>13, <2>3
    <3> QED BY <1>9, <1>24, <3>1 DEF Covered
  <2> QED BY <2>2, <2>3
<1>25. ASSUME Roomy', ~req.align PROVE Served(mem, req)'
  <2>1. Len(mem.index) < IndexNum BY <1>0, <1>9, <1>25 DEF Roomy
  <2>2. Indexed(mem', end) BY <1>9, <2>1
  <2>3. end + HeaderSize \in Places(mem', end, req) BY <1>6, <1>8, <1>25 DEF Places
  <2> QED BY <1>10, <2>2, <2>3 DEF Served
<1>26. HeapInv'
  <2>1. end' > 0 BY <1>0, <1>6, <1>10
  <2> QED BY <1>8, <1>10, <1>19, <1>20, <1>21, <1>23, <2>1 DEF HeapInv
<1> QED BY <1>24, <1>25, <1>26

\* The branch of Expand that makes the last block larger.
Growing(ext, last) ==
  /\ Serving /\ Fits(mem, req) = {}
  /\ ext = Extension(req.size) /\ end + ext <= MaxEnd
  /\ last = mem.ftr[end - FooterSize].header /\ mem.hdr[last].is_hole
  /\ Indexed(mem, last)
  /\ mem' = ordered_array_insert(
              ordered_array_remove_element(
                make_block(mem, last, mem.hdr[last].size + ext, TRUE), last), last)
  /\ end' = end + ext /\ grown' = grown + 1 /\ UNCHANGED <<req, owned, panic>>

\* kheap_expand with a hole as the last block: there is no spare block.
LEMMA HeapGrow ==
  ASSUME HeapInv, NEW ext, NEW last, Growing(ext, last)
  PROVE  /\ HeapInv'
         /\ Roomy' => (Covered => Covered') /\ (~req.align => Served(mem, req)')
<1>0. /\ end \in Nat /\ req.size \in Nat /\ req.align \in BOOLEAN /\ end > 0
      /\ Addr = 0 .. MaxEnd /\ MaxEnd \in Nat /\ MetaSize \in Nat /\ MetaSize > 0
  BY Typed, Sized DEF HeapInv
<1>1. /\ mem \in Mems /\ end \in Addr /\ end > 0
      /\ Shape(mem.hdr, mem.ftr, end) /\ IndexOK(mem) /\ end % PageSize = 0
  BY Typed DEF HeapInv
<1>2. req # None /\ req.size > 0 BY DEF Growing, Serving, HeapInv, Rounds
<1>3. ext \in Nat /\ ext >= req.size + MetaSize /\ ext % PageSize = 0
  <2>1. ext = Extension(req.size) BY DEF Growing
  <2> QED BY <1>0, <2>1, ExtensionRoom
<1>4. PICK c : c = end + ext OBVIOUS
<1>5. c \in Addr /\ c \in Nat /\ end <= c /\ c = end + ext
  <2>1. end + ext <= MaxEnd BY DEF Growing
  <2> QED BY <1>0, <1>3, <1>4, <2>1
<1>6. last = mem.ftr[end - FooterSize].header BY DEF Growing
<1>7. last \in Addr /\ mem.hdr[last].magic /\ Behind(mem.hdr, last) = end
      /\ \A g \in Addr : mem.hdr[g].magic /\ Behind(mem.hdr, g) = end => g = last
  BY <1>1, <1>6, LastBlock
<1>8. mem.hdr[last].is_hole /\ Indexed(mem, last) BY DEF Growing
<1>9. PICK size : size = mem.hdr[last].size + ext OBVIOUS
<1>10. Grown(mem, mem', last, c, size)
  <2>1. mem' = ordered_array_insert(
                 ordered_array_remove_element(
                   make_block(mem, last, mem.hdr[last].size + ext, TRUE), last), last)
    BY DEF Growing
  <2> QED BY <1>1, <1>3, <1>5, <1>7, <1>8, <1>9, <2>1, GrownBlock
<1>11. /\ mem' \in Mems /\ Shape(mem'.hdr, mem'.ftr, c) /\ IndexOK(mem')
       /\ mem'.hdr[last].magic /\ mem'.hdr[last].size = size /\ mem'.hdr[last].is_hole
       /\ \A a \in last + 1 .. c - 1 : ~mem'.hdr[a].magic
       /\ \A a \in Addr : a \notin last .. c - 1 => mem'.hdr[a] = mem.hdr[a]
  BY <1>10 DEF Grown, Filled
<1>12. \A a : Indexed(mem', a) <=> Indexed(mem, a) BY <1>10 DEF Grown
<1>13. end' = c /\ req' = req /\ owned' = owned /\ panic' = panic
  BY <1>4 DEF Growing
<1>14. /\ mem.hdr[last].size \in Nat /\ end = last + MetaSize + mem.hdr[last].size
       /\ last < end /\ \A g \in last + 1 .. end - 1 : ~mem.hdr[g].magic
  BY <1>1, <1>7, BlockFacts, ZenonT(60)
<1>15. last \in Nat /\ size \in Nat /\ c = last + MetaSize + size /\ size >= req.size
  <2>1. PICK s \in Nat : s = mem.hdr[last].size BY <1>14
  <2>2. end = last + MetaSize + s /\ size = s + ext BY <1>9, <1>14, <2>1
  <2>3. last \in Nat BY <1>0, <1>7
  <2> QED BY <1>0, <1>3, <1>5, <2>2, <2>3
<1>16. \A a \in Addr : mem.hdr[a].magic /\ a # last => a < last
  <2> SUFFICES ASSUME NEW a \in Addr, mem.hdr[a].magic, a # last PROVE a < last
    OBVIOUS
  <2>1. a < end BY <1>1, BlockFacts
  <2>2. a \notin last + 1 .. end - 1 BY <1>14
  <2> QED BY <1>0, <1>15, <2>1, <2>2
<1>17. \A a \in Addr : a < last => mem'.hdr[a] = mem.hdr[a]
  <2>1. \A a \in Addr : a < last => a \notin last .. c - 1 BY <1>0, <1>5, <1>15
  <2> QED BY <1>11, <2>1
<1>18. \A a \in Addr : mem'.hdr[a].magic =>
         a = last \/ (a < last /\ mem.hdr[a].magic /\ mem'.hdr[a] = mem.hdr[a])
  <2> SUFFICES ASSUME NEW a \in Addr, mem'.hdr[a].magic, a # last
               PROVE  a < last /\ mem.hdr[a].magic /\ mem'.hdr[a] = mem.hdr[a]
    OBVIOUS
  <2>1. a \notin last + 1 .. c - 1 BY <1>11
  <2>2. a \notin last .. c - 1 BY <1>0, <1>5, <1>15, <2>1
  <2>3. mem.hdr[a].magic BY <1>11, <2>2
  <2> QED BY <1>16, <1>17, <2>3
<1>19. Spare = {}
  <2>1. last \notin Spare BY <1>8 DEF Spare
  <2>2. \A x \in Spare : Behind(mem.hdr, x) = end => x = last BY <1>7 DEF Spare
  <2> QED BY <2>1, <2>2 DEF HeapInv, Rounds
<1>20. Spare' = {}
  <2> SUFFICES ASSUME NEW x \in Spare' PROVE FALSE OBVIOUS
  <2>1. /\ x \in Addr /\ mem'.hdr[x].magic /\ ~mem'.hdr[x].is_hole
        /\ x + HeaderSize \notin DOMAIN owned
    BY <1>13 DEF Spare
  <2>2. x # last BY <1>11, <2>1
  <2>3. mem.hdr[x].magic /\ mem'.hdr[x] = mem.hdr[x] BY <1>18, <2>1, <2>2
  <2>4. x \in Spare BY <2>1, <2>3 DEF Spare
  <2> QED BY <1>19, <2>4
<1>21. TypeOK'
  <2>1. mem' \in [hdr : [Addr -> Header], ftr : [Addr -> Footer], index : Seq(Addr)]
        /\ Len(mem'.index) <= IndexNum
    BY <1>11 DEF Mems, Headers, Footers, IndexOK
  <2>2. c % PageSize = 0
    <3>1. \E k \in Int : end = PageSize * k BY <1>0, <1>1, PageMultiple
    <3>2. c = ext + end BY <1>0, <1>3, <1>5
    <3>3. c % PageSize = ext % PageSize BY <1>0, <1>3, <1>5, <3>1, <3>2, PageShift
    <3> QED BY <1>3, <3>3
  <2>3. req \in [size : Sizes \cup {0}, align : BOOLEAN] /\ grown \in Nat
        /\ DOMAIN owned \subseteq Addr /\ (\A a \in DOMAIN owned : owned[a] \in Sizes)
        /\ panic \in {"none", "max_size", "not_in_index"}
    BY DEF HeapInv, TypeOK
  <2>4. grown' \in Nat BY <2>3 DEF Growing
  <2> QED BY <1>5, <1>13, <2>1, <2>2, <2>3, <2>4 DEF TypeOK
<1>22. InUse'
  <2> SUFFICES ASSUME NEW a \in DOMAIN owned
               PROVE  /\ a - HeaderSize \in Addr /\ mem'.hdr[a - HeaderSize].magic
                      /\ ~mem'.hdr[a - HeaderSize].is_hole
                      /\ mem'.hdr[a - HeaderSize].size >= owned[a]
                      /\ ~Indexed(mem', a - HeaderSize)
    BY <1>13 DEF InUse
  <2>1. PICK x : x = a - HeaderSize OBVIOUS
  <2>2. x \in Addr /\ mem.hdr[x].magic /\ ~mem.hdr[x].is_hole
        /\ mem.hdr[x].size >= owned[a] /\ ~Indexed(mem, x)
    BY <2>1 DEF HeapInv, InUse
  <2>3. x # last BY <1>8, <2>2
  <2>4. mem'.hdr[x] = mem.hdr[x] BY <1>16, <1>17, <2>2, <2>3
  <2>5. ~Indexed(mem', x) BY <1>12, <2>2
  <2> QED BY <2>1, <2>2, <2>4, <2>5
<1>23. Coal(mem'.hdr, c)
  <2> SUFFICES ASSUME NEW a \in Addr, mem'.hdr[a].magic, mem'.hdr[a].is_hole,
                      Behind(mem'.hdr, a) < c
               PROVE  ~mem'.hdr[Behind(mem'.hdr, a)].is_hole
    BY DEF Coal
  <2>1. a # last
    <3>1. Behind(mem'.hdr, last) = c BY <1>11, <1>15 DEF Behind
    <3> QED BY <1>5, <3>1
  <2>2. a < last /\ mem.hdr[a].magic /\ mem'.hdr[a] = mem.hdr[a] BY <1>18, <2>1
  <2>3. PICK y \in Addr : y = Behind(mem.hdr, a) BY <1>1, <2>2, BlockFacts
  <2>4. y = Behind(mem'.hdr, a) BY <2>2, <2>3 DEF Behind
  <2>5. y <= last BY <1>1, <1>7, <2>2, <2>3, Apart
  <2>6. y < end BY <1>0, <1>14, <1>15, <2>5
  <2>7. ~mem.hdr[y].is_hole BY <2>2, <2>3, <2>6 DEF HeapInv, Coal
  <2>8. y < last BY <1>0, <1>8, <1>15, <2>5, <2>7
  <2> QED BY <1>17, <2>4, <2>7, <2>8
<1>24. Rounds' BY <1>2, <1>13, <1>20 DEF Rounds
<1>25. ASSUME Covered PROVE Covered'
  <2> SUFFICES ASSUME NEW h \in Addr, mem'.hdr[h].magic, h + HeaderSize \notin DOMAIN owned
               PROVE  Indexed(mem', h)
    BY <1>13 DEF Covered
  <2>1. CASE h = last BY <1>8, <1>12, <2>1
  <2>2. CASE h # last
    <3>1. mem.hdr[h].magic BY <1>18, <2>2
    <3> QED BY <1>12, <1>25, <3>1 DEF Covered
  <2> QED BY <2>1, <2>2
<1>26. ASSUME ~req.align PROVE Served(mem, req)'
  <2>1. Indexed(mem', last) BY <1>8, <1>12
  <2>2. last + HeaderSize \in Places(mem', last, req) BY <1>11, <1>15, <1>26 DEF Places
  <2> QED BY <1>13, <2>1, <2>2 DEF Served
<1>27. HeapInv'
  <2>1. end' > 0 BY <1>0, <1>5, <1>13
  <2> QED BY <1>11, <1>13, <1>21, <1>22, <1>23, <1>24, <2>1 DEF HeapInv
<1> QED BY <1>25, <1>26, <1>27

\* Block h at position i of the index serves the request at pos.
Carving(i, h, pos) ==
  /\ i \in 1 .. Len(mem.index) /\ h = mem.index[i]
  /\ pos \in Places(mem, h, req)
  /\ req # None /\ req' = None
  /\ mem' = CutBack(CutFront([mem EXCEPT !.index = RemoveAt(@, i)], h, pos),
                    pos - HeaderSize, mem.hdr[h].size - (pos - HeaderSize - h), req.size)
  /\ owned' = [a \in DOMAIN owned \cup {pos} |-> IF a = pos THEN req.size ELSE owned[a]]
  /\ UNCHANGED <<end, grown, panic>>

\* Carve takes some block that will do, and some place in it.
LEMMA CarvePicks ==
  ASSUME HeapInv, Carve
  PROVE  \E i, h, pos : Carving(i, h, pos)
<1>1. /\ mem \in Mems /\ end \in Addr /\ Shape(mem.hdr, mem.ftr, end) /\ IndexOK(mem)
      /\ req.size \in Nat /\ req.align \in BOOLEAN
  BY Typed DEF HeapInv
<1>2. Fits(mem, req) # {} /\ Fits(mem, req) \in SUBSET Nat
  <2>1. Fits(mem, req) # {} BY DEF Carve
  <2>2. Fits(mem, req) \subseteq 1 .. Len(mem.index) BY DEF Fits
  <2>3. 1 .. Len(mem.index) \subseteq Nat OBVIOUS
  <2> QED BY <2>1, <2>2, <2>3
<1>3. \E x \in Fits(mem, req) : \A y \in Fits(mem, req) : x <= y BY <1>2, LeastNat
<1>4. PICK i : i = CHOOSE x \in Fits(mem, req) : \A y \in Fits(mem, req) : x <= y
  OBVIOUS
<1>5. i \in Fits(mem, req) BY <1>3, <1>4
<1>6. PICK h : h = mem.index[i] OBVIOUS
<1>7. i \in 1 .. Len(mem.index) /\ Places(mem, h, req) # {} BY <1>5, <1>6 DEF Fits
<1>8. Indexed(mem, h) BY <1>6, <1>7 DEF Indexed
<1>9. h \in Addr /\ mem.hdr[h].magic BY <1>1, <1>8 DEF IndexOK
<1>10. h + MetaSize + mem.hdr[h].size <= MaxEnd
  <2>1. Behind(mem.hdr, h) \in Addr /\ Behind(mem.hdr, h) = h + MetaSize + mem.hdr[h].size
    BY <1>1, <1>9, BlockFacts
  <2> QED BY <2>1, Sized
<1>11. \E p \in Places(mem, h, req) : \A q \in Places(mem, h, req) : p <= q
  BY <1>1, <1>7, <1>9, <1>10, FirstPlace
<1>12. PICK pos : pos = CHOOSE p \in Places(mem, h, req) :
                          \A q \in Places(mem, h, req) : p <= q
  OBVIOUS
<1>13. pos \in Places(mem, h, req) BY <1>11, <1>12
<1>14. Carving(i, h, pos) BY <1>4, <1>6, <1>7, <1>12, <1>13 DEF Carve, Serving, Carving
<1> QED BY <1>14

\* The block is cut in up to three.
LEMMA CarveCuts ==
  ASSUME HeapInv, NEW i, NEW h, NEW pos, Carving(i, h, pos)
  PROVE  /\ h \in Addr /\ mem.hdr[h].magic /\ Indexed(mem, h)
         /\ pos - HeaderSize \in Addr /\ h <= pos - HeaderSize
         /\ pos - HeaderSize < Behind(mem.hdr, h)
         /\ Carved(mem, mem', h, Behind(mem.hdr, h), pos - HeaderSize, req.size)
         /\ Shape(mem'.hdr, mem'.ftr, end) /\ IndexOK(mem')
<1>1. /\ mem \in Mems /\ end \in Addr /\ Shape(mem.hdr, mem.ftr, end) /\ IndexOK(mem)
      /\ req.size \in Nat /\ req.align \in BOOLEAN
  BY Typed DEF HeapInv
<1>2. /\ i \in 1 .. Len(mem.index) /\ h = mem.index[i] /\ pos \in Places(mem, h, req)
  BY DEF Carving
<1>3. req.size > 0 BY DEF Carving, HeapInv, Rounds
<1>4. Indexed(mem, h) BY <1>2 DEF Indexed
<1>5. h \in Addr /\ mem.hdr[h].magic BY <1>1, <1>4 DEF IndexOK
<1>6. PICK hi : hi = Behind(mem.hdr, h) OBVIOUS
<1>7. PICK s : s = mem.hdr[h].size OBVIOUS
<1>8. s \in Nat /\ hi = h + MetaSize + s /\ hi \in Addr /\ hi <= end
  BY <1>1, <1>5, <1>6, <1>7, BlockFacts
<1>9. /\ pos \in Addr /\ pos >= h + HeaderSize /\ pos + req.size <= h + HeaderSize + s
      /\ pos = h + HeaderSize \/ pos - (h + HeaderSize) > MetaSize
  <2>1. h + MetaSize + mem.hdr[h].size <= MaxEnd BY <1>7, <1>8, Sized
  <2> QED BY <1>1, <1>2, <1>5, <1>7, <2>1, PlaceRoom
<1>10. PICK b : b = pos - HeaderSize OBVIOUS
<1>11. PICK room : room = s - (b - h) OBVIOUS
<1>12. /\ b \in Addr /\ h <= b /\ (b = h \/ b - h > MetaSize)
       /\ pos = b + HeaderSize /\ room \in Nat /\ hi = b + MetaSize + room
       /\ req.size <= room /\ b + MetaSize < hi /\ b < hi
  BY <1>1, <1>3, <1>5, <1>8, <1>9, <1>10, <1>11, Sized
<1>13. PICK k : k = [hdr |-> mem.hdr, ftr |-> mem.ftr, index |-> RemoveAt(mem.index, i)]
  OBVIOUS
<1>14. [mem EXCEPT !.index = RemoveAt(@, i)] = k BY <1>1, <1>13 DEF Mems
<1>15. PICK f : f = CutFront(k, h, b + HeaderSize) OBVIOUS
<1>16. mem' = CutBack(f, b, room, req.size)
  BY <1>7, <1>10, <1>11, <1>12, <1>14, <1>15 DEF Carving
<1>17. Fronted(mem, f, h, hi, b, end)
  <2>1. mem.index[i] = h BY <1>2
  <2> QED BY <1>1, <1>2, <1>5, <1>6, <1>8, <1>12, <1>13, <1>15, <2>1, FrontCut
<1>18. /\ Carved(mem, mem', h, hi, b, req.size)
       /\ Shape(mem'.hdr, mem'.ftr, end) /\ IndexOK(mem')
  BY <1>1, <1>3, <1>5, <1>8, <1>12, <1>16, <1>17, BackCut
<1> QED BY <1>4, <1>5, <1>6, <1>10, <1>12, <1>18

\* alloc serves the request out of a hole or out of the one spare block.
LEMMA HeapCarve ==
  ASSUME HeapInv, Carve
  PROVE  HeapInv' /\ (Roomy' => (Covered => Covered'))
<1>0. PICK i, h, pos : Carving(i, h, pos) BY CarvePicks
<1>1. /\ mem \in Mems /\ end \in Addr /\ Shape(mem.hdr, mem.ftr, end) /\ IndexOK(mem)
      /\ end > 0
  BY Typed DEF HeapInv
<1>2. PICK hi : hi = Behind(mem.hdr, h) OBVIOUS
<1>3. PICK b : b = pos - HeaderSize OBVIOUS
<1>4. /\ h \in Addr /\ mem.hdr[h].magic /\ Indexed(mem, h)
      /\ b \in Addr /\ h <= b /\ b < hi
      /\ Carved(mem, mem', h, hi, b, req.size)
      /\ Shape(mem'.hdr, mem'.ftr, end) /\ IndexOK(mem')
  BY <1>0, <1>2, <1>3, CarveCuts
<1>5. /\ h < end /\ hi \in Addr /\ h < hi /\ hi <= end
      /\ hi < end => mem.hdr[hi].magic
  BY <1>1, <1>2, <1>4, BlockFacts
<1>51. \A g \in h + 1 .. hi - 1 : ~mem.hdr[g].magic BY <1>1, <1>2, <1>4, BlockFacts
<1>6. /\ h \in Nat /\ hi \in Nat /\ b \in Nat /\ end \in Nat /\ Addr = 0 .. MaxEnd
      /\ MaxEnd \in Nat
  BY <1>1, <1>4, <1>5, Sized
<1>7. /\ mem' \in Mems
      /\ mem'.hdr[b].magic /\ ~mem'.hdr[b].is_hole /\ mem'.hdr[b].size >= req.size
      /\ ~Indexed(mem', b)
      /\ \A a \in Addr : a \notin h .. hi - 1 =>
           mem'.hdr[a] = mem.hdr[a] /\ (Indexed(mem', a) <=> Indexed(mem, a))
  BY <1>4 DEF Carved
<1>8. \A a \in h .. hi - 1 : mem'.hdr[a].magic /\ a # b =>
        /\ mem'.hdr[a].is_hole
        /\ (a = h /\ Behind(mem'.hdr, a) = b) \/ (a > b /\ Behind(mem'.hdr, a) = hi)
        /\ Len(mem'.index) < IndexNum => Indexed(mem', a)
  BY <1>4 DEF Carved
<1>9. /\ DOMAIN owned' = DOMAIN owned \cup {pos}
      /\ \A a \in DOMAIN owned' : owned'[a] = IF a = pos THEN req.size ELSE owned[a]
  BY <1>0 DEF Carving
<1>10. end' = end /\ req' = None /\ panic' = panic /\ grown' = grown
  BY <1>0 DEF Carving
<1>11. pos \in Addr /\ pos = b + HeaderSize /\ req.size \in Sizes
  <2>1. pos \in Places(mem, h, req) BY <1>0 DEF Carving
  <2>2. h + MetaSize + mem.hdr[h].size <= MaxEnd
    <3>1. hi = h + MetaSize + mem.hdr[h].size BY <1>1, <1>2, <1>4, BlockFacts
    <3>2. hi <= MaxEnd BY <1>5, <1>6
    <3> QED BY <3>1, <3>2
  <2>3. pos \in Addr
    BY <1>1, <1>4, <2>1, <2>2, PlaceRoom, Typed DEF HeapInv
  <2>4. req.size > 0 BY <1>0 DEF Carving, HeapInv, Rounds
  <2>5. req \in [size : Sizes \cup {0}, align : BOOLEAN] BY DEF HeapInv, TypeOK
  <2>6. req.size \in Sizes \cup {0} BY <2>5
  <2> QED BY <1>3, <2>3, <2>4, <2>6, Sized
<1>12. \A x \in Addr : mem.hdr[x].magic /\ x # h => x \notin h .. hi - 1
  <2> SUFFICES ASSUME NEW x \in Addr, mem.hdr[x].magic, x # h PROVE x \notin h .. hi - 1
    OBVIOUS
  <2>1. x \notin h + 1 .. hi - 1 BY <1>51
  <2> QED BY <1>6, <2>1
<1>13. \A x \in Spare : x = h
  <2>1. Served(mem, req) /\ Places(mem, h, req) # {}
    BY <1>0, <1>4 DEF Carving, Served
  <2> QED BY <1>4, <2>1 DEF HeapInv, Rounds
<1>14. h + HeaderSize \notin DOMAIN owned
  <2> SUFFICES ASSUME h + HeaderSize \in DOMAIN owned PROVE FALSE OBVIOUS
  <2>1. (h + HeaderSize) - HeaderSize = h BY <1>6, Sized
  <2>2. ~Indexed(mem, (h + HeaderSize) - HeaderSize) BY DEF HeapInv, InUse
  <2> QED BY <1>4, <2>1, <2>2
<1>15. h \in Spare \/ mem.hdr[h].is_hole BY <1>4, <1>14 DEF Spare
<1>16. ASSUME NEW a \in DOMAIN owned, NEW x, x = a - HeaderSize
       PROVE  /\ x \in Addr /\ mem'.hdr[x].magic /\ ~mem'.hdr[x].is_hole
              /\ mem'.hdr[x].size >= owned[a] /\ ~Indexed(mem', x)
  <2>1. x \in Addr /\ mem.hdr[x].magic /\ ~mem.hdr[x].is_hole
        /\ mem.hdr[x].size >= owned[a] /\ ~Indexed(mem, x)
    BY <1>16 DEF HeapInv, InUse
  <2>2. x # h BY <1>4, <2>1
  <2>3. x \notin h .. hi - 1 BY <1>12, <2>1, <2>2
  <2> QED BY <1>7, <2>1, <2>3
<1>17. InUse'
  <2> SUFFICES ASSUME NEW a \in DOMAIN owned'
               PROVE  /\ a - HeaderSize \in Addr /\ mem'.hdr[a - HeaderSize].magic
                      /\ ~mem'.hdr[a - HeaderSize].is_hole
                      /\ mem'.hdr[a - HeaderSize].size >= owned'[a]
                      /\ ~Indexed(mem', a - HeaderSize)
    BY DEF InUse
  <2>1. CASE a = pos BY <1>3, <1>4, <1>7, <1>9, <2>1
  <2>2. CASE a # pos
    <3>1. a \in DOMAIN owned /\ owned'[a] = owned[a] BY <1>9, <2>2
    <3> QED BY <1>16, <3>1
  <2> QED BY <2>1, <2>2
<1>18. Spare' = {}
  <2> SUFFICES ASSUME NEW x \in Spare' PROVE FALSE OBVIOUS
  <2>1. /\ x \in Addr /\ mem'.hdr[x].magic /\ ~mem'.hdr[x].is_hole
        /\ x + HeaderSize \notin DOMAIN owned /\ x + HeaderSize # pos
    BY <1>9 DEF Spare
  <2>2. x # b BY <1>11, <2>1
  <2>3. x \notin h .. hi - 1 BY <1>8, <2>1, <2>2
  <2>4. x \in Spare BY <1>7, <2>1, <2>3 DEF Spare
  <2>5. h \in h .. hi - 1 BY <1>5, <1>6
  <2> QED BY <1>13, <2>3, <2>4, <2>5
<1>19. Coal(mem'.hdr, end)
  <2> SUFFICES ASSUME NEW x \in Addr, mem'.hdr[x].magic, mem'.hdr[x].is_hole,
                      Behind(mem'.hdr, x) < end
               PROVE  ~mem'.hdr[Behind(mem'.hdr, x)].is_hole
    BY DEF Coal
  <2>1. PICK y : y = Behind(mem'.hdr, x) OBVIOUS
  <2>2. y \in Addr /\ y < end /\ mem'.hdr[y].magic
    BY <1>1, <1>4, <1>7, <2>1, BlockFacts
  <2>3. hi \notin h .. hi - 1 BY <1>6
  <2>4. CASE x \in h .. hi - 1
    <3>1. x # b BY <1>7
    <3>2. (x = h /\ y = b) \/ (x > b /\ y = hi) BY <1>8, <2>1, <2>4, <3>1
    <3>3. CASE y = b BY <1>7, <2>1, <3>3
    <3>4. CASE y = hi
      <4>1. hi < end BY <2>2, <3>4
      <4>2. h \notin Spare
        <5>1. ASSUME h \in Spare PROVE Behind(mem.hdr, h) = end
          BY <1>13, <5>1 DEF HeapInv, Rounds
        <5> QED BY <1>2, <1>6, <4>1, <5>1
      <4>3. mem.hdr[h].is_hole BY <1>15, <4>2
      <4>4. ~mem.hdr[hi].is_hole BY <1>2, <1>4, <4>1, <4>3 DEF HeapInv, Coal
      <4> QED BY <1>5, <1>7, <2>1, <2>3, <3>4, <4>4
    <3> QED BY <3>2, <3>3, <3>4
  <2>5. CASE x \notin h .. hi - 1
    <3>1. mem'.hdr[x] = mem.hdr[x] BY <1>7, <2>5
    <3>2. mem.hdr[x].magic /\ mem.hdr[x].is_hole /\ y = Behind(mem.hdr, x)
      BY <2>1, <3>1 DEF Behind
    <3>3. mem.hdr[y].magic BY <1>1, <2>2, <3>2, BlockFacts
    <3>4. ~mem.hdr[y].is_hole BY <2>2, <3>2 DEF HeapInv, Coal
    <3>5. y \notin Spare BY <3>2 DEF HeapInv, Rounds
    <3>6. y # h BY <1>15, <3>4, <3>5
    <3>7. y \notin h .. hi - 1 BY <1>12, <2>2, <3>3, <3>6
    <3>8. mem'.hdr[y] = mem.hdr[y] BY <1>7, <2>2, <3>7
    <3> QED BY <2>1, <3>4, <3>8
  <2> QED BY <2>4, <2>5
<1>20. TypeOK'
  <2>1. mem' \in [hdr : [Addr -> Header], ftr : [Addr -> Footer], index : Seq(Addr)]
        /\ Len(mem'.index) <= IndexNum
    BY <1>4, <1>7 DEF Mems, Headers, Footers, IndexOK
  <2>2. /\ end \in Addr /\ end % PageSize = 0 /\ grown \in Nat
        /\ DOMAIN owned \subseteq Addr /\ (\A a \in DOMAIN owned : owned[a] \in Sizes)
        /\ panic \in {"none", "max_size", "not_in_index"}
    BY DEF HeapInv, TypeOK
  <2>3. None \in [size : Sizes \cup {0}, align : BOOLEAN] BY DEF None
  <2>4. DOMAIN owned' \subseteq Addr /\ \A a \in DOMAIN owned' : owned'[a] \in Sizes
    BY <1>9, <1>11, <2>2
  <2> QED BY <1>10, <2>1, <2>2, <2>3, <2>4 DEF TypeOK
<1>21. Rounds' BY <1>10, <1>18 DEF Rounds
<1>22. HeapInv'
  BY <1>1, <1>4, <1>10, <1>17, <1>19, <1>20, <1>21 DEF HeapInv
<1>23. ASSUME Roomy', Covered PROVE Covered'
  <2> SUFFICES ASSUME NEW x \in Addr, mem'.hdr[x].magic, x + HeaderSize \notin DOMAIN owned'
               PROVE  Indexed(mem', x)
    BY DEF Covered
  <2>1. x # b /\ x + HeaderSize \notin DOMAIN owned BY <1>9, <1>11
  <2>2. CASE x \in h .. hi - 1 BY <1>8, <1>23, <2>1, <2>2 DEF Roomy
  <2>3. CASE x \notin h .. hi - 1 BY <1>7, <1>23, <2>1, <2>3 DEF Covered
  <2> QED BY <2>2, <2>3
<1> QED BY <1>22, <1>23

\* The branch of kfree that does not stop.
Freeing(a, h) ==
  /\ req = None /\ a \in DOMAIN owned /\ h = a - HeaderSize
  /\ \A n \in Merged(mem, h) : Indexed(mem, n)
  /\ mem' = MergePrev(MergeNext(mem, h), h)
  /\ owned' = [b \in DOMAIN owned \ {a} |-> owned[b]]
  /\ UNCHANGED <<end, req, grown, panic>>

\* free makes one hole of the block and its neighbours.
LEMMA HeapFree ==
  ASSUME HeapInv, NEW a \in Addr, NEW h, Freeing(a, h)
  PROVE  HeapInv' /\ (Roomy' => (Covered => Covered'))
<1>1. /\ mem \in Mems /\ end \in Addr /\ Shape(mem.hdr, mem.ftr, end) /\ IndexOK(mem)
      /\ end > 0 /\ Coal(mem.hdr, end)
  BY Typed DEF HeapInv
<1>2. a \in DOMAIN owned /\ h = a - HeaderSize /\ req = None BY DEF Freeing
<1>3. h \in Addr /\ mem.hdr[h].magic /\ ~mem.hdr[h].is_hole /\ ~Indexed(mem, h)
  BY <1>2 DEF HeapInv, InUse
<1>4. \A n \in Merged(mem, h) : Indexed(mem, n) BY DEF Freeing
<1>5. NextHole(mem, h) => Indexed(mem, h + MetaSize + mem.hdr[h].size)
  BY <1>4 DEF Merged
<1>6. PICK p : p = MergeNext(mem, h) OBVIOUS
<1>7. PICK hi : NextMerged(mem, p, h, hi, end) BY <1>1, <1>3, <1>5, <1>6, FreeNext
<1>8. mem' = MergePrev(p, h) BY <1>6 DEF Freeing
<1>9. PICK lo : Freed(mem, mem', h, lo, hi, end)
  BY <1>1, <1>3, <1>4, <1>7, <1>8, FreePrev
<1>10. /\ mem' \in Mems /\ Shape(mem'.hdr, mem'.ftr, end) /\ IndexOK(mem')
       /\ lo \in Addr /\ hi \in Addr /\ lo < hi /\ lo <= h /\ h < hi
       /\ hi = end \/ (hi < end /\ mem.hdr[hi].magic /\ ~mem.hdr[hi].is_hole)
       /\ mem'.hdr[lo].magic /\ mem'.hdr[lo].is_hole /\ Behind(mem'.hdr, lo) = hi
  BY <1>9 DEF Freed, Merges
<1>11. /\ \A x \in lo + 1 .. hi - 1 : ~mem'.hdr[x].magic
       /\ \A x \in Addr : x \notin lo .. hi - 1 => mem'.hdr[x] = mem.hdr[x]
  BY <1>9 DEF Freed, Merges
<1>12. /\ \A x \in lo .. hi - 1 : mem.hdr[x].magic /\ x # h => mem.hdr[x].is_hole
       /\ \A g \in Addr : mem.hdr[g].magic /\ Behind(mem.hdr, g) = lo => ~mem.hdr[g].is_hole
       /\ \A x : x \notin lo .. hi - 1 => (Indexed(mem', x) <=> Indexed(mem, x))
       /\ Len(mem'.index) < IndexNum => Indexed(mem', lo)
  BY <1>9 DEF Freed
<1>13. /\ lo \in Nat /\ hi \in Nat /\ h \in Nat /\ end \in Nat /\ Addr = 0 .. MaxEnd
       /\ MaxEnd \in Nat
  BY <1>1, <1>3, <1>10, Sized
<1>14. /\ end' = end /\ req' = None /\ grown' = grown /\ panic' = panic
       /\ DOMAIN owned' = DOMAIN owned \ {a}
       /\ \A b \in DOMAIN owned' : owned'[b] = owned[b]
  BY <1>2 DEF Freeing
<1>15. a = h + HeaderSize BY <1>2, Sized
<1>16. Spare = {} BY <1>2 DEF HeapInv, Rounds
<1>17. \A x \in Addr : mem'.hdr[x].magic =>
         x = lo \/ (x \notin lo .. hi - 1 /\ mem.hdr[x].magic /\ mem'.hdr[x] = mem.hdr[x])
  <2> SUFFICES ASSUME NEW x \in Addr, mem'.hdr[x].magic, x # lo
               PROVE  x \notin lo .. hi - 1 /\ mem.hdr[x].magic /\ mem'.hdr[x] = mem.hdr[x]
    OBVIOUS
  <2>1. x \notin lo + 1 .. hi - 1 BY <1>11
  <2>2. x \notin lo .. hi - 1 BY <1>13, <2>1
  <2> QED BY <1>11, <2>2
<1>18. h \in lo .. hi - 1 BY <1>10, <1>13
<1>19. InUse'
  <2> SUFFICES ASSUME NEW b \in DOMAIN owned'
               PROVE  /\ b - HeaderSize \in Addr /\ mem'.hdr[b - HeaderSize].magic
                      /\ ~mem'.hdr[b - HeaderSize].is_hole
                      /\ mem'.hdr[b - HeaderSize].size >= owned'[b]
                      /\ ~Indexed(mem', b - HeaderSize)
    BY DEF InUse
  <2>1. PICK x : x = b - HeaderSize OBVIOUS
  <2>2. b \in DOMAIN owned /\ b # a /\ owned'[b] = owned[b] BY <1>14
  <2>3. x \in Addr /\ mem.hdr[x].magic /\ ~mem.hdr[x].is_hole
        /\ mem.hdr[x].size >= owned[b] /\ ~Indexed(mem, x)
    BY <2>1, <2>2 DEF HeapInv, InUse
  <2>4. b \in Addr BY <2>2 DEF HeapInv, TypeOK
  <2>5. x # h BY <1>2, <1>13, <2>1, <2>2, <2>4, Sized
  <2>6. x \notin lo .. hi - 1 BY <1>12, <2>3, <2>5
  <2>7. mem'.hdr[x] = mem.hdr[x] /\ ~Indexed(mem', x) BY <1>11, <1>12, <2>3, <2>6
  <2> QED BY <2>1, <2>2, <2>3, <2>7
<1>20. Spare' = {}
  <2> SUFFICES ASSUME NEW x \in Spare' PROVE FALSE OBVIOUS
  <2>1. /\ x \in Addr /\ mem'.hdr[x].magic /\ ~mem'.hdr[x].is_hole
        /\ x + HeaderSize \notin DOMAIN owned'
    BY DEF Spare
  <2>2. x # lo BY <1>10, <2>1
  <2>3. x \notin lo .. hi - 1 /\ mem.hdr[x].magic /\ ~mem.hdr[x].is_hole
    BY <1>17, <2>1, <2>2
  <2>4. x + HeaderSize # a BY <1>13, <1>15, <1>18, <2>1, <2>3, Sized
  <2>5. x \in Spare BY <1>14, <2>1, <2>3, <2>4 DEF Spare
  <2> QED BY <1>16, <2>5
<1>21. Coal(mem'.hdr, end)
  <2> SUFFICES ASSUME NEW x \in Addr, mem'.hdr[x].magic, mem'.hdr[x].is_hole,
                      Behind(mem'.hdr, x) < end
               PROVE  ~mem'.hdr[Behind(mem'.hdr, x)].is_hole
    BY DEF Coal
  <2>1. PICK y : y = Behind(mem'.hdr, x) OBVIOUS
  <2>2. y \in Addr /\ y < end /\ mem'.hdr[y].magic
    BY <1>1, <1>10, <2>1, BlockFacts
  <2>3. CASE x = lo
    <3>1. y = hi /\ hi \notin lo .. hi - 1 BY <1>10, <1>13, <2>1, <2>3
    <3>2. ~mem.hdr[hi].is_hole BY <1>10, <1>13, <2>2, <3>1
    <3> QED BY <1>10, <1>11, <2>1, <3>1, <3>2
  <2>4. CASE x # lo
    <3>1. mem.hdr[x].magic /\ mem.hdr[x].is_hole /\ y = Behind(mem.hdr, x)
      BY <1>17, <2>1, <2>4 DEF Behind
    <3>2. y # lo BY <1>12, <3>1
    <3>3. mem'.hdr[y] = mem.hdr[y] BY <1>17, <2>2, <3>2
    <3>4. ~mem.hdr[y].is_hole BY <1>1, <2>2, <3>1 DEF Coal
    <3> QED BY <2>1, <3>3, <3>4
  <2> QED BY <2>3, <2>4
<1>22. TypeOK'
  <2>1. mem' \in [hdr : [Addr -> Header], ftr : [Addr -> Footer], index : Seq(Addr)]
        /\ Len(mem'.index) <= IndexNum
    BY <1>10 DEF Mems, Headers, Footers, IndexOK
  <2>2. /\ end \in Addr /\ end % PageSize = 0 /\ grown \in Nat
        /\ DOMAIN owned \subseteq Addr /\ (\A b \in DOMAIN owned : owned[b] \in Sizes)
        /\ panic \in {"none", "max_size", "not_in_index"}
    BY DEF HeapInv, TypeOK
  <2>3. None \in [size : Sizes \cup {0}, align : BOOLEAN] BY DEF None
  <2>4. DOMAIN owned' \subseteq Addr /\ \A b \in DOMAIN owned' : owned'[b] \in Sizes
    BY <1>14, <2>2
  <2> QED BY <1>14, <2>1, <2>2, <2>3, <2>4 DEF TypeOK
<1>23. Rounds' BY <1>14, <1>20 DEF Rounds
<1>24. HeapInv'
  BY <1>1, <1>10, <1>14, <1>19, <1>21, <1>22, <1>23 DEF HeapInv
<1>25. ASSUME Roomy', Covered PROVE Covered'
  <2> SUFFICES ASSUME NEW x \in Addr, mem'.hdr[x].magic, x + HeaderSize \notin DOMAIN owned'
               PROVE  Indexed(mem', x)
    BY DEF Covered
  <2>1. CASE x = lo BY <1>12, <1>25, <2>1 DEF Roomy
  <2>2. CASE x # lo
    <3>1. x \notin lo .. hi - 1 /\ mem.hdr[x].magic BY <1>17, <2>2
    <3>2. x + HeaderSize # a BY <1>13, <1>15, <1>18, <3>1, Sized
    <3>3. x + HeaderSize \notin DOMAIN owned BY <1>14, <3>2
    <3> QED BY <1>12, <1>25, <3>1, <3>3 DEF Covered
  <2> QED BY <2>1, <2>2
<1> QED BY <1>24, <1>25

\* What the invariant says does not depend on the assertion that failed.
LEMMA HeapHalt ==
  ASSUME HeapInv, mem' = mem, end' = end, req' = req, grown' = grown, owned' = owned,
         panic' \in {"none", "max_size", "not_in_index"}
  PROVE  HeapInv' /\ (Covered => Covered')
<1>1. TypeOK' BY DEF HeapInv, TypeOK
<1>2. Spare' = Spare BY DEF Spare
<1>3. Rounds'
  <2>1. Rounds BY DEF HeapInv
  <2> QED BY <1>2, <2>1 DEF Rounds
<1>4. InUse' BY DEF HeapInv, InUse, Indexed
<1>5. end' > 0 /\ Shape(mem.hdr, mem.ftr, end)' /\ IndexOK(mem)' /\ Coal(mem.hdr, end)'
  BY DEF HeapInv
<1>6. Covered => Covered' BY DEF Covered
<1> QED BY <1>1, <1>3, <1>4, <1>5, <1>6 DEF HeapInv

-----------------------------------------------------------------------------
(* Every step *)

\* An assertion in kheap_expand or free that the block to merge with was indexed.
Unindexed(last) ==
  /\ last \in Addr /\ mem.hdr[last].magic /\ mem.hdr[last].is_hole
  /\ ~Indexed(mem, last)
  /\ AssertFails("not_in_index")

\* The four ways through kheap_expand.
LEMMA ExpandCases ==
  ASSUME HeapInv, Expand
  PROVE  \E ext, last : \/ AssertFails("max_size") \/ Unindexed(last)
                        \/ Adding(ext, last) \/ Growing(ext, last)
<1>1. PICK ext : ext = Extension(req.size) OBVIOUS
<1>2. PICK last : last = mem.ftr[end - FooterSize].header OBVIOUS
<1>3. /\ mem \in Mems /\ end \in Addr /\ end > 0 /\ Shape(mem.hdr, mem.ftr, end)
      /\ req.size \in Nat /\ end \in Nat
  BY Typed DEF HeapInv
<1>4. ext \in Nat BY <1>1, <1>3, ExtensionRoom
<1>5. last \in Addr /\ mem.hdr[last].magic BY <1>2, <1>3, LastBlock
<1>6. Serving /\ Fits(mem, req) = {} BY DEF Expand
<1>7. CASE end + ext > MaxEnd
  <2>1. AssertFails("max_size") BY <1>1, <1>7 DEF Expand
  <2> QED BY <2>1
<1>8. CASE ~(end + ext > MaxEnd) /\ ~mem.hdr[last].is_hole
  <2>1. end + ext <= MaxEnd BY <1>3, <1>4, <1>8, Sized
  <2>2. Adding(ext, last) BY <1>1, <1>2, <1>6, <1>8, <2>1 DEF Expand, Adding
  <2> QED BY <2>2
<1>9. CASE ~(end + ext > MaxEnd) /\ mem.hdr[last].is_hole /\ ~Indexed(mem, last)
  <2>1. AssertFails("not_in_index") BY <1>1, <1>2, <1>9 DEF Expand
  <2>2. Unindexed(last) BY <1>5, <1>9, <2>1 DEF Unindexed
  <2> QED BY <2>2
<1>10. CASE ~(end + ext > MaxEnd) /\ mem.hdr[last].is_hole /\ Indexed(mem, last)
  <2>1. end + ext <= MaxEnd BY <1>3, <1>4, <1>10, Sized
  <2>2. Growing(ext, last) BY <1>1, <1>2, <1>6, <1>10, <2>1 DEF Expand, Growing
  <2> QED BY <2>2
<1> QED BY <1>7, <1>8, <1>9, <1>10

\* The two ways through free.  The neighbours it merges with are holes.
LEMMA FreeCases ==
  ASSUME HeapInv, NEW a \in Addr, kfree(a)
  PROVE  \E h : Unindexed(h) \/ Freeing(a, h)
<1>1. PICK h : h = a - HeaderSize OBVIOUS
<1>2. /\ mem \in Mems /\ end \in Addr /\ end > 0 /\ Shape(mem.hdr, mem.ftr, end)
  BY Typed DEF HeapInv
<1>3. a \in DOMAIN owned /\ req = None BY DEF kfree
<1>4. h \in Addr /\ mem.hdr[h].magic BY <1>1, <1>3 DEF HeapInv, InUse
<1>5. ASSUME NEW n \in Merged(mem, h), ~Indexed(mem, n) PROVE Unindexed(n)
  <2>1. AssertFails("not_in_index") BY <1>1, <1>5 DEF kfree
  <2>2. n \in Addr /\ mem.hdr[n].magic /\ mem.hdr[n].is_hole
    <3>1. CASE n = h + MetaSize + mem.hdr[h].size /\ NextHole(mem, h)
      <4>1. /\ Behind(mem.hdr, h) = h + MetaSize + mem.hdr[h].size
            /\ Behind(mem.hdr, h) \in Addr
        BY <1>2, <1>4, BlockFacts
      <4>2. n \in Addr BY <3>1, <4>1, Zenon
      <4> QED BY <3>1, <4>2 DEF NextHole
    <3>2. CASE n = mem.ftr[h - FooterSize].header /\ PrevHole(mem, h)
      <4>1. h > 0 BY <1>4, <3>2, Sized DEF PrevHole
      <4>2. PICK g \in Addr : /\ mem.hdr[g].magic
              /\ mem.ftr[h - FooterSize] = [magic |-> TRUE, header |-> g]
        BY <1>2, <1>4, <4>1, BeforeFacts
      <4>3. n = g BY <3>2, <4>2
      <4> QED BY <3>2, <4>2, <4>3 DEF PrevHole
    <3> QED BY <1>5, <3>1, <3>2 DEF Merged
  <2> QED BY <1>5, <2>1, <2>2 DEF Unindexed
<1>6. CASE \E n \in Merged(mem, h) : ~Indexed(mem, n) BY <1>5, <1>6
<1>7. CASE \A n \in Merged(mem, h) : Indexed(mem, n)
  <2>1. Freeing(a, h) BY <1>1, <1>3, <1>7 DEF kfree, Freeing
  <2> QED BY <2>1
<1> QED BY <1>6, <1>7

\* A failed assertion changes nothing but the halt, and afterwards nothing is served.
LEMMA HeapAssert ==
  ASSUME HeapInv, NEW name \in {"max_size", "not_in_index"}, AssertFails(name)
  PROVE  HeapInv' /\ (Covered => Covered') /\ PlainExpansionServes'
<1>1. /\ mem' = mem /\ end' = end /\ req' = req /\ grown' = grown /\ owned' = owned
      /\ panic' = name
  BY DEF AssertFails
<1>2. HeapInv' /\ (Covered => Covered') BY <1>1, HeapHalt
<1>3. ~Serving' BY <1>1 DEF Serving
<1> QED BY <1>2, <1>3 DEF PlainExpansionServes

\* After an expansion that the index had room for, a plain request is served.
LEMMA ServesNow ==
  ASSUME UNCHANGED req, ~req.align => Served(mem, req)'
  PROVE  PlainExpansionServes'
<1>1. req'.align = req.align OBVIOUS
<1>2. CASE req'.align BY <1>2 DEF PlainExpansionServes
<1>3. CASE ~req'.align
  <2>1. Served(mem', req') BY <1>1, <1>3
  <2>2. Fits(mem', req') # {} BY <2>1, FitsServed
  <2> QED BY <2>2 DEF PlainExpansionServes
<1> QED BY <1>2, <1>3

\* While every free block is indexed no hole is missing from the index.
LEMMA NoneUnindexed ==
  ASSUME HeapInv, Covered, NEW l, Unindexed(l)
  PROVE  FALSE
<1>1. l \in Addr /\ mem.hdr[l].magic /\ mem.hdr[l].is_hole /\ ~Indexed(mem, l)
  BY DEF Unindexed
<1>2. l + HeaderSize \in DOMAIN owned BY <1>1 DEF Covered
<1>3. PICK b : b = l + HeaderSize OBVIOUS
<1>4. b - HeaderSize = l BY <1>1, <1>3, Sized
<1>5. ~mem.hdr[b - HeaderSize].is_hole BY <1>2, <1>3 DEF HeapInv, InUse
<1> QED BY <1>1, <1>4, <1>5

\* Where the free blocks are all indexed, the expansion serves, and no assertion
\* about the index has failed.
Sound == Covered /\ PlainExpansionServes /\ panic # "not_in_index"

\* Every step keeps the invariant, and keeps the index complete while it has room.
LEMMA HeapStep ==
  ASSUME HeapInv, [Next]_vars
  PROVE  HeapInv' /\ (Roomy' /\ Sound => Sound')
<1>1. ASSUME NEW n \in Sizes, NEW align \in BOOLEAN, kmalloc(n, align)
      PROVE  HeapInv' /\ (Roomy' /\ Sound => Sound')
  <2>1. HeapInv' BY <1>1, HeapMalloc
  <2>2. mem' = mem /\ owned' = owned /\ panic' = panic /\ grown' = 0
    BY <1>1 DEF kmalloc
  <2>3. Covered => Covered' BY <2>2 DEF Covered
  <2>4. PlainExpansionServes' BY <2>2 DEF PlainExpansionServes
  <2> QED BY <2>1, <2>2, <2>3, <2>4 DEF Sound
<1>2. ASSUME Expand PROVE HeapInv' /\ (Roomy' /\ Sound => Sound')
  <2>1. PICK ext, last : \/ AssertFails("max_size") \/ Unindexed(last)
                         \/ Adding(ext, last) \/ Growing(ext, last)
    BY <1>2, ExpandCases
  <2>2. CASE AssertFails("max_size")
    <3>1. panic' = "max_size" BY <2>2 DEF AssertFails
    <3>2. HeapInv' /\ (Covered => Covered') /\ PlainExpansionServes' BY <2>2, HeapAssert
    <3> QED BY <3>1, <3>2 DEF Sound
  <2>3. CASE Unindexed(last)
    <3>1. HeapInv' BY <2>3, HeapAssert DEF Unindexed
    <3>2. Covered => FALSE BY <2>3, NoneUnindexed
    <3> QED BY <3>1, <3>2 DEF Sound
  <2>4. CASE Adding(ext, last)
    <3>1. /\ HeapInv'
          /\ Roomy' => (Covered => Covered') /\ (~req.align => Served(mem, req)')
      BY <2>4, HeapAdd
    <3>2. panic' = panic /\ UNCHANGED req BY <2>4 DEF Adding
    <3>3. Roomy' => PlainExpansionServes' BY <3>1, <3>2, ServesNow
    <3> QED BY <3>1, <3>2, <3>3 DEF Sound
  <2>5. CASE Growing(ext, last)
    <3>1. /\ HeapInv'
          /\ Roomy' => (Covered => Covered') /\ (~req.align => Served(mem, req)')
      BY <2>5, HeapGrow
    <3>2. panic' = panic /\ UNCHANGED req BY <2>5 DEF Growing
    <3>3. Roomy' => PlainExpansionServes' BY <3>1, <3>2, ServesNow
    <3> QED BY <3>1, <3>2, <3>3 DEF Sound
  <2> QED BY <2>1, <2>2, <2>3, <2>4, <2>5
<1>3. ASSUME Carve PROVE HeapInv' /\ (Roomy' /\ Sound => Sound')
  <2>1. HeapInv' /\ (Roomy' => (Covered => Covered')) BY <1>3, HeapCarve
  <2>2. req' = None /\ panic' = panic BY <1>3 DEF Carve
  <2>3. PlainExpansionServes' BY <2>2 DEF PlainExpansionServes, Serving
  <2> QED BY <2>1, <2>2, <2>3 DEF Sound
<1>4. ASSUME NEW a \in Addr, kfree(a) PROVE HeapInv' /\ (Roomy' /\ Sound => Sound')
  <2>1. PICK h : Unindexed(h) \/ Freeing(a, h) BY <1>4, FreeCases
  <2>2. CASE Unindexed(h)
    <3>1. HeapInv' BY <2>2, HeapAssert DEF Unindexed
    <3>2. Covered => FALSE BY <2>2, NoneUnindexed
    <3> QED BY <3>1, <3>2 DEF Sound
  <2>3. CASE Freeing(a, h)
    <3>1. HeapInv' /\ (Roomy' => (Covered => Covered')) BY <2>3, HeapFree
    <3>2. req' = None /\ panic' = panic BY <2>3 DEF Freeing
    <3>3. PlainExpansionServes' BY <3>2 DEF PlainExpansionServes, Serving
    <3> QED BY <3>1, <3>2, <3>3 DEF Sound
  <2> QED BY <2>1, <2>2, <2>3
<1>5. ASSUME UNCHANGED vars PROVE HeapInv' /\ (Roomy' /\ Sound => Sound')
  <2>1. /\ mem' = mem /\ end' = end /\ req' = req /\ grown' = grown /\ owned' = owned
        /\ panic' = panic
    BY <1>5 DEF vars
  <2>2. panic \in {"none", "max_size", "not_in_index"} BY DEF HeapInv, TypeOK
  <2>3. HeapInv' /\ (Covered => Covered') BY <2>1, <2>2, HeapHalt
  <2>4. PlainExpansionServes => PlainExpansionServes'
    BY <2>1 DEF PlainExpansionServes, Serving
  <2> QED BY <2>1, <2>3, <2>4 DEF Sound
<1>6. CASE Halted BY <1>5, <1>6 DEF Halted
<1> QED BY <1>1, <1>2, <1>3, <1>4, <1>5, <1>6 DEF Next

-----------------------------------------------------------------------------
(* What the invariant says *)

\* The blocks from create_kheap on tile the heap.
LEMMA HeapTiled == HeapInv => Tiled
<1> SUFFICES ASSUME HeapInv PROVE Tiled OBVIOUS
<1>1. /\ mem \in Mems /\ end \in Addr /\ end > 0 /\ Shape(mem.hdr, mem.ftr, end)
      /\ end \in Nat
  BY Typed DEF HeapInv
<1>2. 0 \in Blocks
  <2>1. mem.hdr[0].magic BY <1>1 DEF Shape, Tiles
  <2> QED BY <2>1, Sized DEF Blocks
<1>3. \A h \in Blocks : h \in Addr /\ mem.hdr[h].magic BY DEF Blocks
<1>4. \A h : After(h) = Behind(mem.hdr, h) BY DEF After, Behind
<1>5. ASSUME NEW h \in Blocks
      PROVE  /\ h < end /\ After(h) \in Blocks \cup {end}
             /\ mem.ftr[h + HeaderSize + mem.hdr[h].size] = [magic |-> TRUE, header |-> h]
  <2>1. /\ h < end /\ Behind(mem.hdr, h) \in Addr /\ Behind(mem.hdr, h) <= end
        /\ Behind(mem.hdr, h) < end => mem.hdr[Behind(mem.hdr, h)].magic
        /\ mem.ftr[h + HeaderSize + mem.hdr[h].size] = [magic |-> TRUE, header |-> h]
    BY <1>1, <1>3, BlockFacts, ZenonT(60)
  <2>2. Behind(mem.hdr, h) < end \/ Behind(mem.hdr, h) = end BY <1>1, <2>1, Sized
  <2>3. Behind(mem.hdr, h) \in Blocks \cup {end} BY <2>1, <2>2 DEF Blocks
  <2> QED BY <1>4, <2>1, <2>3
<1>6. ASSUME NEW h \in Blocks, NEW g \in Blocks, h < g PROVE After(h) <= g
  <2>1. Behind(mem.hdr, h) <= g BY <1>1, <1>3, <1>6, Apart
  <2> QED BY <1>4, <2>1
<1> QED BY <1>2, <1>5, <1>6 DEF Tiled

\* Memory in use is safe, and holes are apart.
LEMMA HeapSafe == HeapInv => OwnedSafe /\ Coalesced
<1> SUFFICES ASSUME HeapInv PROVE OwnedSafe /\ Coalesced OBVIOUS
<1>1. OwnedSafe BY DEF HeapInv, InUse, OwnedSafe, Blocks
<1>2. \A h : After(h) = Behind(mem.hdr, h) BY DEF After, Behind
<1>3. Coal(mem.hdr, end) BY DEF HeapInv
<1>4. Coalesced BY <1>2, <1>3 DEF Coal, Coalesced, Blocks
<1> QED BY <1>1, <1>4

\* A complete index is exact.
LEMMA HeapIndexed == HeapInv /\ Covered => IndexExact
<1> SUFFICES ASSUME HeapInv, Covered PROVE IndexExact OBVIOUS
<1>1. IndexOK(mem) /\ mem \in Mems BY Typed DEF HeapInv
<1>2. mem.index \in Seq(Addr) BY <1>1 DEF Mems
<1>3. \A h : h \in ToSet(mem.index) <=> Indexed(mem, h) BY <1>2 DEF ToSet, Indexed
<1>4. ASSUME NEW h \in Blocks, h + HeaderSize \notin DOMAIN owned
      PROVE  h \in ToSet(mem.index)
  <2>1. Indexed(mem, h) BY <1>4 DEF Blocks, Covered
  <2> QED BY <1>3, <2>1
<1>5. ASSUME NEW h \in ToSet(mem.index)
      PROVE  h \in Blocks /\ h + HeaderSize \notin DOMAIN owned
  <2>1. Indexed(mem, h) BY <1>3
  <2>2. h \in Addr /\ mem.hdr[h].magic BY <1>1, <2>1 DEF IndexOK
  <2>3. PICK b : b = h + HeaderSize OBVIOUS
  <2>4. b - HeaderSize = h BY <2>2, <2>3, Sized
  <2>5. b \notin DOMAIN owned BY <2>1, <2>4 DEF HeapInv, InUse
  <2> QED BY <2>2, <2>3, <2>5 DEF Blocks
<1>6. {h \in Blocks : h + HeaderSize \notin DOMAIN owned} = ToSet(mem.index)
  BY <1>4, <1>5
<1>7. IsInjective(mem.index) BY <1>1, <1>2 DEF IndexOK, Once, IsInjective
<1>8. \A i, j \in 1 .. Len(mem.index) :
        i < j => mem.hdr[mem.index[i]].size <= mem.hdr[mem.index[j]].size
  BY <1>1 DEF IndexOK, Ordered
<1> QED BY <1>6, <1>7, <1>8 DEF IndexExact

-----------------------------------------------------------------------------
(* The theorems *)

\* The heap and its index keep their shape whatever is asked for and freed.
THEOREM HeapCorrect == Spec => []HeapInv
<1>1. Init => HeapInv BY HeapInit
<1>2. HeapInv /\ [Next]_vars => HeapInv' BY HeapStep
<1> QED BY <1>1, <1>2, PTL DEF Spec

\* The state of kheap.c is well formed: the index never exceeds KHEAP_INDEX_NUM
\* and end_address stays on a page.
THEOREM HeapTyped == Spec => []TypeOK
<1>1. HeapInv => TypeOK BY DEF HeapInv
<1> QED BY <1>1, HeapCorrect, PTL

\* The blocks tile the heap and every footer points back to its header, through
\* the splits of alloc, the expansions and the merges of free.
THEOREM TilesAlways == Spec => []Tiled
BY HeapTiled, HeapCorrect, PTL

\* What kmalloc gave out is the payload of a block that is large enough and that
\* alloc cannot give out again before kfree.
THEOREM OwnedAlways == Spec => []OwnedSafe
BY HeapSafe, HeapCorrect, PTL

\* free leaves no two holes side by side, although the blocks that kheap_expand
\* adds while a request waits are free without being holes.
THEOREM CoalescedAlways == Spec => []Coalesced
BY HeapSafe, HeapCorrect, PTL

\* As long as the index never fills up, a free block is never missing from it, a
\* plain request is served after one expansion, and no assertion about it fails.
THEOREM HeapSound == Spec /\ []Roomy => []Sound
<1>1. Init /\ Roomy => Sound
  <2> SUFFICES ASSUME Init, Roomy PROVE Sound OBVIOUS
  <2>1. Covered BY HeapInit
  <2>2. panic = "none" /\ req = None BY DEF Init
  <2> QED BY <2>1, <2>2 DEF Sound, PlainExpansionServes, Serving
<1>2. HeapInv /\ Roomy' /\ Sound /\ [Next]_vars => Sound' BY HeapStep
<1> QED BY <1>1, <1>2, HeapCorrect, PTL DEF Spec

\* As long as the index has room it is exact: every block that is not in use is
\* in it once, and best fit finds the smallest first.
THEOREM IndexAlways == Spec /\ []Roomy => []IndexExact
<1>1. HeapInv /\ Sound => IndexExact BY HeapIndexed DEF Sound
<1> QED BY <1>1, HeapCorrect, HeapSound, PTL

\* As long as the index has room the second round of alloc serves a request that
\* needs no alignment: kheap_expand made a block that is large enough.
THEOREM ExpansionServes == Spec /\ []Roomy => []PlainExpansionServes
<1>1. Sound => PlainExpansionServes BY DEF Sound
<1> QED BY <1>1, HeapSound, PTL

\* As long as the index has room the assertions of kheap_expand and free that a
\* neighbour was found in it never fail.
THEOREM IndexNeverMissed == Spec /\ []Roomy => [](panic # "not_in_index")
<1>1. Sound => panic # "not_in_index" BY DEF Sound
<1> QED BY <1>1, HeapSound, PTL

=============================================================================
