--------------------------- MODULE MonitorProofs ---------------------------
(***************************************************************************)
(* Theorems about Monitor, for every size of the screen, every set of      *)
(* threads and every set of texts.                                         *)
(***************************************************************************)
EXTENDS Monitor, SequenceTheorems, TLAPS

Chars == UNION {ToSet(str) : str \in Texts}

\* The thread is between yieldlock_lock and yieldlock_unlock of monitor_lock.
Printing(t) == pc[t] \in {"put", "wrap", "scroll", "clear", "cursor"}

\* A thread outside has nothing left over from an earlier call.
TextInv ==
  /\ pc \in [Threads -> {"idle", "lock", "lockclear", "put", "wrap", "scroll",
                         "clear", "cursor"}]
  /\ text \in [Threads -> Seq(Chars)]
  /\ \A t \in Threads : pc[t] \in {"idle", "lockclear", "clear"} => text[t] = <<>>

\* monitor_lock is held by the thread that prints, and there is one at most.
LockInv ==
  /\ \A t \in Threads : Printing(t) => monitor_lock
  /\ \A t, u \in Threads : Printing(t) /\ Printing(u) => t = u

\* The last character says who has the lock and what it has still to print.
LastInv ==
  /\ output \in Seq([who : Threads, more : Nat])
  /\ output # <<>> =>
       LET last == output[Len(output)]
       IN  last.more > 0 => Printing(last.who) /\ Len(text[last.who]) = last.more

PrintInv == TextInv /\ LockInv /\ LastInv /\ PrintsWhole

-----------------------------------------------------------------------------
\* The characters printed so far are what LastInv says.
LEMMA LastTyped ==
  ASSUME LastInv, output # <<>>
  PROVE  /\ Len(output) \in Nat \ {0}
         /\ output[Len(output)] \in [who : Threads, more : Nat]
         /\ output[Len(output)].who \in Threads
         /\ output[Len(output)].more \in Nat
<1> DEFINE R == [who : Threads, more : Nat]
<1>1. output \in Seq(R) BY DEF LastInv
<1>2. \A r \in R : r.who \in Threads /\ r.more \in Nat OBVIOUS
<1> HIDE DEF R
<1>3. Len(output) \in Nat \ {0} /\ output[Len(output)] \in R BY <1>1
<1> QED BY <1>2, <1>3 DEF R

\* A step that prints nothing and leaves what is to be printed alone.
LEMMA SilentStep ==
  ASSUME PrintInv, NEW t \in Threads,
         NEW l \in {"put", "wrap", "scroll", "clear", "cursor"},
         Printing(t), pc' = [pc EXCEPT ![t] = l], l = "clear" => pc[t] = "clear",
         UNCHANGED <<text, output, monitor_lock>>
  PROVE  PrintInv'
<1>1. \A u \in Threads : Printing(u)' <=> Printing(u)
  BY DEF PrintInv, TextInv, Printing
<1>2. TextInv' BY DEF PrintInv, TextInv
<1>3. LockInv' BY <1>1 DEF PrintInv, LockInv
<1>4. LastInv'
  <2>2. output # <<>> => output[Len(output)].who \in Threads
    BY LastTyped DEF PrintInv
  <2> QED BY <1>1, <2>2 DEF PrintInv, LastInv
<1> QED BY <1>2, <1>3, <1>4 DEF PrintInv, PrintsWhole

\* A character printed by the thread that has the lock.
LEMMA PutWhole ==
  ASSUME PrintInv, NEW t \in Threads, PutStep(t)
  PROVE  PrintInv'
<1> DEFINE n == Len(output)
           e == [who |-> t, more |-> Len(text[t]) - 1]
<1>1. /\ pc[t] = "put" /\ text[t] # <<>> /\ output' = Append(output, e)
      /\ text' = [text EXCEPT ![t] = Tail(@)]
      /\ pc' = [pc EXCEPT ![t] = "wrap"] /\ UNCHANGED monitor_lock
  BY DEF PutStep, At, Goto
<1>2. /\ text[t] \in Seq(Chars) /\ Tail(text[t]) \in Seq(Chars)
      /\ Len(text[t]) \in Nat \ {0} /\ Len(Tail(text[t])) = Len(text[t]) - 1
  BY <1>1 DEF PrintInv, TextInv
<1>3. \A u \in Threads : Printing(u)' <=> Printing(u)
  BY <1>1 DEF PrintInv, TextInv, Printing
<1>4. TextInv' BY <1>1, <1>2 DEF PrintInv, TextInv
<1>5. LockInv' BY <1>1, <1>3 DEF PrintInv, LockInv
<1>6. output \in Seq([who : Threads, more : Nat]) BY DEF PrintInv, LastInv
<1>7. e \in [who : Threads, more : Nat] /\ e.who = t /\ e.more = Len(text[t]) - 1
  BY <1>2
<1>8. /\ output' \in Seq([who : Threads, more : Nat])
      /\ Len(output') = n + 1 /\ n \in Nat /\ output'[n + 1] = e
      /\ \A i \in 1 .. n : output'[i] = output[i]
  <2> HIDE DEF e
  <2> QED BY <1>1, <1>6, <1>7
<1>9. Printing(t) /\ Printing(t)' BY <1>1, <1>3 DEF Printing
<1>10. LastInv'
  <2>1. text'[t] = Tail(text[t]) BY <1>1 DEF PrintInv, TextInv
  <2> QED BY <1>2, <1>7, <1>8, <1>9, <2>1 DEF LastInv
<1>11. ASSUME n > 0, output[n].more > 0
       PROVE  e = [output[n] EXCEPT !.more = @ - 1]
  <2>0. output # <<>> BY <1>6, <1>11
  <2>1. /\ output[n] \in [who : Threads, more : Nat] /\ output # <<>>
        /\ output[n].who \in Threads
    BY <2>0, LastTyped DEF PrintInv
  <2>2. Printing(output[n].who) /\ Len(text[output[n].who]) = output[n].more
    BY <1>11, <2>1 DEF PrintInv, LastInv
  <2>3. output[n].who = t BY <1>9, <2>1, <2>2 DEF PrintInv, LockInv
  <2> QED BY <2>1, <2>2, <2>3
<1>12. PrintsWhole'
  <2> HIDE DEF e, n
  <2> SUFFICES ASSUME NEW i \in 1 .. n, output'[i].more > 0
               PROVE  output'[i + 1] = [output'[i] EXCEPT !.more = @ - 1]
    BY <1>8 DEF PrintsWhole
  <2>1. CASE i = n BY <1>8, <1>11, <2>1
  <2>2. CASE i # n
    <3>1. i \in 1 .. n - 1 /\ i + 1 \in 1 .. n BY <1>8, <2>2
    <3>2. output[i + 1] = [output[i] EXCEPT !.more = @ - 1]
      BY <1>8, <3>1 DEF PrintInv, PrintsWhole, n
    <3> QED BY <1>8, <3>1, <3>2
  <2> QED BY <2>1, <2>2
<1> QED BY <1>4, <1>5, <1>10, <1>12 DEF PrintInv

\* A step of a thread outside the section, or into it, or out of it.
LEMMA EdgeStep ==
  ASSUME PrintInv, NEW t \in Threads, UNCHANGED output,
         \/ /\ pc[t] = "idle" /\ UNCHANGED monitor_lock
            /\ \/ /\ pc' = [pc EXCEPT ![t] = "lock"]
                  /\ \E str \in Texts : text' = [text EXCEPT ![t] = str]
               \/ pc' = [pc EXCEPT ![t] = "lockclear"] /\ UNCHANGED text
         \/ /\ ~monitor_lock /\ monitor_lock' = TRUE /\ UNCHANGED text
            /\ \/ pc[t] = "lock" /\ pc' = [pc EXCEPT ![t] = "put"]
               \/ pc[t] = "lockclear" /\ pc' = [pc EXCEPT ![t] = "clear"]
         \/ /\ pc[t] = "put" /\ text[t] = <<>> /\ monitor_lock' = FALSE
            /\ pc' = [pc EXCEPT ![t] = "idle"] /\ UNCHANGED text
  PROVE  PrintInv'
<1>1. text' \in [Threads -> Seq(Chars)]
  <2>1. \A str \in Texts : str \in Seq(Chars)
    <3> SUFFICES ASSUME NEW str \in Texts PROVE str \in Seq(Chars) OBVIOUS
    <3>1. str \in Seq(ToSet(str)) BY MonitorAssumption
    <3>2. ToSet(str) \subseteq Chars BY DEF Chars
    <3> QED BY <3>1, <3>2, SeqMonotonic
  <2> QED BY <2>1 DEF PrintInv, TextInv
<1>2. TextInv' BY <1>1 DEF PrintInv, TextInv
<1>3. LockInv'
  <2>1. \A u \in Threads : u # t => (Printing(u)' <=> Printing(u))
    BY DEF PrintInv, TextInv, Printing
  <2>2. CASE ~monitor_lock /\ monitor_lock' = TRUE
    <3>1. \A u \in Threads : ~Printing(u) BY <2>2 DEF PrintInv, LockInv
    <3> QED BY <2>1, <2>2, <3>1 DEF LockInv
  <2>3. CASE pc[t] \in {"idle", "put"} /\ pc' = [pc EXCEPT ![t] = "idle"]
    <3>1. ~Printing(t)' BY <2>3 DEF PrintInv, TextInv, Printing
    <3>2. CASE UNCHANGED monitor_lock
      BY <2>1, <3>1, <3>2 DEF PrintInv, LockInv
    <3>3. CASE pc[t] = "put"
      <4>1. Printing(t) BY <3>3 DEF Printing
      <4>2. \A u \in Threads : ~Printing(u)' BY <2>1, <3>1, <4>1 DEF PrintInv, LockInv
      <4> QED BY <4>2 DEF LockInv
    <3> QED BY <2>3, <3>2, <3>3
  <2>4. CASE /\ UNCHANGED monitor_lock
             /\ \E l \in {"lock", "lockclear"} : pc' = [pc EXCEPT ![t] = l]
    <3>1. ~Printing(t)' BY <2>4 DEF PrintInv, TextInv, Printing
    <3> QED BY <2>1, <2>4, <3>1 DEF PrintInv, LockInv
  <2> QED BY <2>2, <2>3, <2>4
<1>4. LastInv'
  <2>1. output \in Seq([who : Threads, more : Nat]) BY DEF PrintInv, LastInv
  <2>2. ASSUME output # <<>>, output[Len(output)].more > 0
        PROVE  LET w == output[Len(output)].who
               IN  Printing(w)' /\ Len(text'[w]) = output[Len(output)].more
    <3> DEFINE w == output[Len(output)].who
    <3>1. w \in Threads /\ Printing(w) /\ Len(text[w]) = output[Len(output)].more
      <4>1. w \in Threads BY <2>2, LastTyped DEF PrintInv
      <4> QED BY <2>2, <4>1 DEF PrintInv, LastInv
    <3>2. w # t
      BY <2>2, <3>1 DEF PrintInv, TextInv, LockInv, Printing
    <3> HIDE DEF w
    <3>3. pc'[w] = pc[w] /\ text'[w] = text[w]
      BY <3>1, <3>2 DEF PrintInv, TextInv
    <3> QED BY <3>1, <3>3 DEF Printing, w
  <2> QED BY <2>1, <2>2 DEF LastInv
<1> QED BY <1>2, <1>3, <1>4 DEF PrintInv, PrintsWhole

-----------------------------------------------------------------------------
\* Nothing is printed when the kernel starts.
LEMMA PrintInit ==
  ASSUME Init
  PROVE  PrintInv
<1>1. /\ pc = [t \in Threads |-> "idle"] /\ text = [t \in Threads |-> <<>>]
      /\ output = <<>>
  BY DEF Init
<1>2. TextInv BY <1>1 DEF TextInv
<1>3. LockInv BY <1>1 DEF LockInv, Printing
<1>4. LastInv /\ PrintsWhole BY <1>1 DEF LastInv, PrintsWhole
<1> QED BY <1>2, <1>3, <1>4 DEF PrintInv

\* Every step of every thread, and a panic, keeps the invariant.
LEMMA PrintStep ==
  ASSUME PrintInv, [Next]_vars
  PROVE  PrintInv'
<1> DEFINE Same == UNCHANGED <<pc, text, output, monitor_lock>>
<1>1. CASE Same
  BY <1>1 DEF PrintInv, TextInv, LockInv, LastInv, PrintsWhole, Printing
<1>2. CASE PanicPut \/ \E str \in PanicTexts : Panic(str)
  BY <1>1, <1>2 DEF Panic, PanicPut
<1>3. CASE UNCHANGED vars BY <1>1, <1>3 DEF vars, history
<1>4. ASSUME NEW t \in Threads,
             Step(t) \/ ClearCall(t) \/ \E str \in Texts : PrintCall(t, str)
      PROVE  PrintInv'
  <2>1. CASE ClearCall(t)
    BY <2>1, EdgeStep DEF ClearCall, At, Goto
  <2>2. CASE \E str \in Texts : PrintCall(t, str)
    BY <2>2, EdgeStep DEF PrintCall, At, Goto
  <2>3. CASE Lock(t)
    BY <2>3, EdgeStep DEF Lock, LockFree, At, Goto, history
  <2>4. CASE PutStep(t) BY <2>4, PutWhole
  <2>5. CASE WrapStep(t)
    <3>1. PICK l \in {"scroll", "cursor"} : pc' = [pc EXCEPT ![t] = l]
      BY <2>5 DEF WrapStep, Goto
    <3>2. Printing(t) /\ UNCHANGED <<text, output, monitor_lock>>
      BY <2>5 DEF WrapStep, At, Printing, history
    <3> QED BY <3>1, <3>2, SilentStep
  <2>6. CASE ScrollStep(t) \/ ClearStep(t)
    BY <1>1, <2>6 DEF ScrollStep, ClearStep, history
  <2>7. CASE ScrollDone(t) \/ ClearDone(t)
    <3>1. Printing(t) /\ UNCHANGED <<text, output, monitor_lock>>
      BY <2>7 DEF ScrollDone, ClearDone, At, Printing, history
    <3>2. pc' = [pc EXCEPT ![t] = "cursor"]
      BY <2>7 DEF ScrollDone, ClearDone, Goto
    <3> QED BY <3>1, <3>2, SilentStep
  <2>8. CASE mov_cursor(t)
    <3>1. Printing(t) /\ UNCHANGED <<text, output, monitor_lock>>
      BY <2>8 DEF mov_cursor, At, Printing, history
    <3>2. pc' = [pc EXCEPT ![t] = "put"] BY <2>8 DEF mov_cursor, Goto
    <3> QED BY <3>1, <3>2, SilentStep
  <2>9. CASE Unlock(t)
    BY <2>9, EdgeStep DEF Unlock, At, Goto, history
  <2> QED
    BY <1>4, <2>1, <2>2, <2>3, <2>4, <2>5, <2>6, <2>7, <2>8, <2>9 DEF Step
<1> QED BY <1>2, <1>3, <1>4 DEF Next, Halted

\* monitor_lock is held by exactly the thread that prints, and the last
\* character printed says how much of its text that thread still has.
THEOREM PrintInvariant == Spec => []PrintInv
<1>1. Init => PrintInv BY PrintInit
<1>2. PrintInv /\ [Next]_vars => PrintInv' BY PrintStep
<1> QED BY <1>1, <1>2, PTL DEF Spec

\* No text that one call of monitor_print prints is cut by another's, however
\* many threads print and wherever they are preempted.
THEOREM TextsWhole == Spec => []PrintsWhole
<1>1. PrintInv => PrintsWhole BY DEF PrintInv
<1> QED BY <1>1, PrintInvariant, PTL

-----------------------------------------------------------------------------
(* What the screen shows in the middle of a call *)

\* What paper has at column x of line l; no line from n on has any ink.
InkAt(ink, l, x) == IF <<l, x>> \in DOMAIN ink THEN ink[<<l, x>>] ELSE Blank
InkAbove(ink, n) == \A a \in DOMAIN ink : a[1] \in 0 .. n - 1

Rows == 0 .. VGA_HEIGHT - 1
Columns == 0 .. VGA_WIDTH - 1
Place(y, x) == y * VGA_WIDTH + x

\* The screen shows the lines of the paper from top on.
Shows(v, ink, top) ==
  \A y \in Rows, x \in Columns : v[Place(y, x)] = InkAt(ink, top + y, x)

\* Before the first line that scrolls the top line is line 0.
Aligned(p, y) == p.line >= y /\ (y >= VGA_HEIGHT - 1 \/ p.line = y)

\* Between two characters.
Rests(v, x, y, p) ==
  /\ x = p.x /\ y < VGA_HEIGHT
  /\ Aligned(p, y) /\ Shows(v, p.ink, p.line - y)

\* The paper is one wrap ahead of the cursor; a line that is not on the screen yet
\* is empty.
Unwrapped(v, x, y, p) ==
  LET ny == IF x >= VGA_WIDTH THEN y + 1 ELSE y
  IN  /\ p.x = (IF x >= VGA_WIDTH THEN 0 ELSE x) /\ ny <= VGA_HEIGHT
      /\ ny = VGA_HEIGHT => p.x = 0 /\ InkAbove(p.ink, p.line)
      /\ Aligned(p, ny) /\ Shows(v, p.ink, p.line - ny)

\* The first r rows have been moved up.
Scrolling(v, x, y, p, r) ==
  /\ x = 0 /\ p.x = 0 /\ y = VGA_HEIGHT /\ r \in 0 .. VGA_HEIGHT
  /\ p.line >= VGA_HEIGHT /\ InkAbove(p.ink, p.line)
  /\ \A i \in Rows, j \in Columns :
       v[Place(i, j)] =
         InkAt(p.ink, (p.line - VGA_HEIGHT) + (IF i < r THEN i + 1 ELSE i), j)

\* The first r rows are blank.
Clearing(v, r) ==
  /\ r \in 0 .. VGA_HEIGHT
  /\ \A i \in Rows, j \in Columns : i < r => v[Place(i, j)] = Blank

\* A sheet.  One that began as the screen may have ink on all of its rows.
Bottom(p) == IF p.line < VGA_HEIGHT THEN VGA_HEIGHT ELSE p.line + 1

SheetOK(p) ==
  /\ p = [line |-> p.line, x |-> p.x, ink |-> p.ink]
  /\ p.line \in Nat /\ p.x \in Columns
  /\ InkAbove(p.ink, Bottom(p))

PaperInv == SheetOK(paper)

\* The cursor leaves the screen by one column or one row at most.
CursorOK(v, x, y) ==
  /\ v = [i \in Cells |-> v[i]]
  /\ x \in 0 .. VGA_WIDTH /\ y \in 0 .. VGA_HEIGHT
  /\ y = VGA_HEIGHT => x = 0

CursorInv == CursorOK(video_memory, cursor_x, cursor_y)

LabelInv ==
  /\ \A t \in Threads :
       /\ pc[t] = "wrap" => Unwrapped(video_memory, cursor_x, cursor_y, paper)
       /\ pc[t] = "scroll" => Scrolling(video_memory, cursor_x, cursor_y, paper, row)
       /\ pc[t] = "clear" => Clearing(video_memory, row)
  /\ (\A t \in Threads : pc[t] \notin {"wrap", "scroll", "clear"}) =>
       Rests(video_memory, cursor_x, cursor_y, paper)
  /\ (\A t \in Threads : pc[t] \notin {"wrap", "scroll", "clear", "cursor"}) =>
       hw_cursor = Place(cursor_y, cursor_x)

\* A panic is between two characters.
ScreenInv ==
  /\ PaperInv /\ CursorInv
  /\ ~panicked => LabelInv
  /\ panicked => /\ Rests(video_memory, cursor_x, cursor_y, paper)
                 /\ hw_cursor = Place(cursor_y, cursor_x)

-----------------------------------------------------------------------------
(* The cells of the screen *)

\* The sizes are numbers.
LEMMA Sizes ==
  /\ VGA_WIDTH \in Nat /\ VGA_WIDTH > 0 /\ VGA_HEIGHT \in Nat /\ VGA_HEIGHT > 0
  /\ TabStop \in Nat /\ TabStop > 0 /\ VGA_WIDTH % TabStop = 0
  BY MonitorAssumption

\* A number has one quotient.
LEMMA Quotient ==
  ASSUME NEW b \in Nat \ {0}, NEW q \in Nat, NEW r \in 0 .. b - 1,
         NEW a \in Nat, a = q * b + r
  PROVE  a \div b = q
<1> DEFINE p == a \div b  m == a % b
<1>1. p \in Nat /\ m \in 0 .. b - 1 /\ a = b * p + m OBVIOUS
<1> HIDE DEF p, m
<1> DEFINE d == q - p
<1>2. d \in Int /\ b * d = m - r
  <2>1. b * (q - p) = b * q - b * p /\ b * q = q * b BY <1>1
  <2>2. b * q \in Int /\ b * p \in Int BY <1>1
  <2> QED BY <1>1, <2>1, <2>2
<1>3. d = 0
  <2> HIDE DEF d
  <2>1. CASE d >= 1
    <3>1. PICK e \in Nat : d = e + 1 BY <1>2, <2>1
    <3>2. b * d = b * e + b /\ b * e \in Nat BY <3>1
    <3> QED BY <1>1, <1>2, <3>2
  <2>2. CASE d <= -1
    <3>1. PICK e \in Nat : d = -(e + 1) BY <1>2, <2>2
    <3>2. b * d = -(b * e) - b /\ b * e \in Nat BY <3>1
    <3> QED BY <1>1, <1>2, <3>2
  <2> QED BY <1>2, <2>1, <2>2
<1> QED BY <1>1, <1>3 DEF p

\* A later row starts behind an earlier one.
LEMMA RowsApart ==
  ASSUME NEW y \in Nat, NEW z \in Nat, y < z
  PROVE  /\ y * VGA_WIDTH \in Nat /\ z * VGA_WIDTH \in Nat
         /\ y * VGA_WIDTH + VGA_WIDTH <= z * VGA_WIDTH
<1>1. PICK d \in Nat : z = y + 1 + d
  <2>1. z - y - 1 \in Nat /\ z = y + 1 + (z - y - 1) OBVIOUS
  <2> QED BY <2>1
<1>2. z * VGA_WIDTH = y * VGA_WIDTH + VGA_WIDTH + d * VGA_WIDTH BY <1>1, Sizes
<1>3. y * VGA_WIDTH \in Nat /\ z * VGA_WIDTH \in Nat /\ d * VGA_WIDTH \in Nat
  BY Sizes
<1> QED BY <1>2, <1>3, Sizes

\* Where a row and a column are in video_memory.
LEMMA Places ==
  ASSUME NEW y \in Rows, NEW x \in Columns
  PROVE  /\ Place(y, x) \in Nat /\ Place(y, x) < Screen /\ Place(y, x) \in Cells
         /\ Place(y, x) \div VGA_WIDTH = y
         /\ Place(y + 1, x) = Place(y, x) + VGA_WIDTH
         /\ y = VGA_HEIGHT - 1 <=> Place(y, x) >= Screen - VGA_WIDTH
<1>1. y \in Nat /\ x \in Nat /\ y < VGA_HEIGHT /\ x < VGA_WIDTH
  BY Sizes DEF Rows, Columns
<1>2. /\ y * VGA_WIDTH \in Nat /\ VGA_HEIGHT * VGA_WIDTH \in Nat
      /\ y * VGA_WIDTH + VGA_WIDTH <= VGA_HEIGHT * VGA_WIDTH
  BY <1>1, RowsApart, Sizes
<1>3. Screen = VGA_HEIGHT * VGA_WIDTH /\ Screen \in Nat
  BY <1>2, Sizes DEF Screen
<1>4. Place(y, x) \in Nat /\ Place(y, x) < Screen BY <1>1, <1>2, <1>3, Sizes DEF Place
<1>5. Place(y, x) \in Cells BY <1>3, <1>4, Sizes DEF Cells
<1>6. Place(y, x) \div VGA_WIDTH = y
  <2>1. VGA_WIDTH \in Nat \ {0} /\ x \in 0 .. VGA_WIDTH - 1 BY <1>1, Sizes
  <2> QED BY <1>1, <1>4, <2>1, Quotient DEF Place
<1>7. Place(y + 1, x) = Place(y, x) + VGA_WIDTH
  <2>1. (y + 1) * VGA_WIDTH = y * VGA_WIDTH + VGA_WIDTH BY <1>1, Sizes
  <2> QED BY <1>1, <1>2, <2>1, Sizes DEF Place
<1>8. ASSUME y = VGA_HEIGHT - 1 PROVE Place(y, x) >= Screen - VGA_WIDTH
  <2>1. y * VGA_WIDTH + VGA_WIDTH = VGA_HEIGHT * VGA_WIDTH BY <1>1, <1>8, Sizes
  <2> QED BY <1>1, <1>2, <1>3, <2>1, Sizes DEF Place
<1>9. ASSUME y # VGA_HEIGHT - 1 PROVE Place(y, x) < Screen - VGA_WIDTH
  <2>1. y + 1 \in Nat /\ y + 1 < VGA_HEIGHT BY <1>1, <1>9, Sizes
  <2>2. (y + 1) * VGA_WIDTH + VGA_WIDTH <= VGA_HEIGHT * VGA_WIDTH
    BY <2>1, RowsApart, Sizes
  <2>3. (y + 1) * VGA_WIDTH = y * VGA_WIDTH + VGA_WIDTH BY <1>1, Sizes
  <2> QED BY <1>1, <1>2, <1>3, <2>2, <2>3, Sizes DEF Place
<1>10. y = VGA_HEIGHT - 1 <=> Place(y, x) >= Screen - VGA_WIDTH
  BY <1>3, <1>4, <1>8, <1>9, Sizes
<1> QED BY <1>4, <1>5, <1>6, <1>7, <1>10

\* Two places are different cells.
LEMMA PlacesDiffer ==
  ASSUME NEW y \in Rows, NEW x \in Columns, NEW z \in Rows, NEW w \in Columns,
         Place(y, x) = Place(z, w)
  PROVE  y = z /\ x = w
<1>1. y = z BY Places
<1>2. y * VGA_WIDTH \in Nat /\ x \in Nat /\ w \in Nat BY Sizes DEF Rows, Columns
<1> QED BY <1>1, <1>2 DEF Place

\* The cells of one row.
LEMMA RowCells ==
  ASSUME NEW y \in Rows, NEW x \in Columns, NEW r
  PROVE  Place(y, x) \in Row(r) <=> y = r
  BY Places DEF Row

\* BlankRow touches one row, and so does ScrollRow.
LEMMA BlankRowShows ==
  ASSUME NEW r, CursorInv
  PROVE  /\ BlankRow(screen, r).x = cursor_x /\ BlankRow(screen, r).y = cursor_y
         /\ LET v == BlankRow(screen, r).video
            IN  /\ v = [i \in Cells |-> v[i]]
                /\ \A y \in Rows, x \in Columns :
                     v[Place(y, x)] = IF y = r THEN Blank ELSE video_memory[Place(y, x)]
<1> DEFINE v == [i \in Cells |-> IF i \in Row(r) THEN Blank ELSE video_memory[i]]
<1>1. /\ BlankRow(screen, r).x = cursor_x /\ BlankRow(screen, r).y = cursor_y
      /\ BlankRow(screen, r).video = v
  BY DEF BlankRow, screen
<1>2. \A y \in Rows, x \in Columns :
        v[Place(y, x)] = IF y = r THEN Blank ELSE video_memory[Place(y, x)]
  BY Places, RowCells
<1>3. v = [i \in Cells |-> v[i]] OBVIOUS
<1> HIDE DEF v
<1> QED BY <1>1, <1>2, <1>3

\* A row of scroll_screen is the row below, or blank at the bottom.
LEMMA ScrollRowShows ==
  ASSUME NEW r \in Rows, CursorInv
  PROVE  /\ ScrollRow(screen, r).x = cursor_x /\ ScrollRow(screen, r).y = cursor_y
         /\ LET v == ScrollRow(screen, r).video
            IN  /\ v = [i \in Cells |-> v[i]]
                /\ \A y \in Rows, x \in Columns :
                     v[Place(y, x)] = IF y # r THEN video_memory[Place(y, x)]
                                      ELSE IF y = VGA_HEIGHT - 1 THEN Blank
                                      ELSE video_memory[Place(y + 1, x)]
<1>1. CASE r = VGA_HEIGHT - 1
  <2>1. ScrollRow(screen, r) = BlankRow(screen, r) BY <1>1 DEF ScrollRow
  <2> QED BY <1>1, <2>1, BlankRowShows
<1>2. CASE r # VGA_HEIGHT - 1
  <2> DEFINE v == [i \in Cells |-> IF i \in Row(r) THEN video_memory[i + VGA_WIDTH]
                                   ELSE video_memory[i]]
  <2>1. /\ ScrollRow(screen, r).x = cursor_x /\ ScrollRow(screen, r).y = cursor_y
        /\ ScrollRow(screen, r).video = v
    BY <1>2 DEF ScrollRow, screen
  <2>2. \A y \in Rows, x \in Columns :
          v[Place(y, x)] = IF y # r THEN video_memory[Place(y, x)]
                           ELSE video_memory[Place(y + 1, x)]
    BY Places, RowCells
  <2>3. v = [i \in Cells |-> v[i]] OBVIOUS
  <2> HIDE DEF v
  <2> QED BY <1>2, <2>1, <2>2, <2>3
<1> QED BY <1>1, <1>2

-----------------------------------------------------------------------------
(* One character *)

\* Lines further down have no ink either.
LEMMA InkRaised ==
  ASSUME NEW ink, NEW n \in Nat, InkAbove(ink, n), NEW m \in Nat, m >= n
  PROVE  InkAbove(ink, m)
  BY DEF InkAbove

\* Cursor and paper are where the property of the rest state says.
LEMMA RestTyped ==
  ASSUME NEW v, NEW x, NEW y, NEW p, SheetOK(p), CursorOK(v, x, y), Rests(v, x, y, p)
  PROVE  /\ x \in Columns /\ y \in Rows /\ p.x = x
         /\ x \in Nat /\ y \in Nat /\ p.line \in Nat
         /\ x < VGA_WIDTH /\ y < VGA_HEIGHT /\ p.line >= y
         /\ y = VGA_HEIGHT - 1 => Bottom(p) = p.line + 1
         /\ Bottom(p) \in Nat /\ p.line < Bottom(p)
  BY Sizes DEF SheetOK, CursorOK, Rests, Aligned, Rows, Columns, Bottom

\* A tab goes to the end of the line at most, since the width is so many tabs.
LEMMA TabRoom ==
  ASSUME NEW x \in Columns
  PROVE  ((x + TabStop) \div TabStop) * TabStop \in 0 .. VGA_WIDTH
<1> DEFINE q == (x + TabStop) \div TabStop  r == (x + TabStop) % TabStop
           k == VGA_WIDTH \div TabStop
<1>0. x \in Nat /\ x < VGA_WIDTH BY Sizes DEF Columns
<1>1. q \in Nat /\ r \in Nat /\ x + TabStop = TabStop * q + r BY <1>0, Sizes
<1>2. k \in Nat /\ VGA_WIDTH = TabStop * k
  <2>1. k \in Nat /\ VGA_WIDTH = TabStop * k + (VGA_WIDTH % TabStop) BY Sizes
  <2> HIDE DEF k
  <2>2. TabStop * k \in Nat BY <2>1, Sizes
  <2> QED BY <2>1, <2>2, Sizes
<1> HIDE DEF q, r, k
<1>3. q <= k
  <2> SUFFICES ASSUME q >= k + 1 PROVE FALSE BY <1>1, <1>2
  <2>1. PICK d \in Nat : q = k + 1 + d
    <3>1. q - k - 1 \in Nat /\ q = k + 1 + (q - k - 1) BY <1>1, <1>2
    <3> QED BY <3>1
  <2>2. TabStop * q = TabStop * k + TabStop + TabStop * d BY <1>2, <2>1, Sizes
  <2>3. TabStop * d \in Nat /\ TabStop * k \in Nat /\ TabStop * q \in Nat
    BY <1>1, <1>2, Sizes
  <2> QED BY <1>0, <1>1, <1>2, <2>2, <2>3, Sizes
<1>4. q * TabStop \in Nat /\ q * TabStop <= VGA_WIDTH
  <2>1. PICK d \in Nat : k = q + d
    <3>1. k - q \in Nat /\ k = q + (k - q) BY <1>1, <1>2, <1>3
    <3> QED BY <3>1
  <2>2. TabStop * k = q * TabStop + TabStop * d BY <1>1, <2>1, Sizes
  <2>3. TabStop * d \in Nat /\ q * TabStop \in Nat BY <1>1, Sizes
  <2> QED BY <1>2, <2>2, <2>3
<1> QED BY <1>4, Sizes DEF q

\* The cursor moves and nothing is written; the paper follows with its wrap.
LEMMA MovedPut ==
  ASSUME NEW v, NEW x, NEW y, NEW p, SheetOK(p), CursorOK(v, x, y), Rests(v, x, y, p),
         NEW mx \in 0 .. VGA_WIDTH, NEW dy \in {0, 1}, dy = 1 => mx = 0, NEW q,
         q = [line |-> IF mx < VGA_WIDTH THEN p.line + dy ELSE p.line + 1,
              x |-> IF mx < VGA_WIDTH THEN mx ELSE 0, ink |-> p.ink]
  PROVE  SheetOK(q) /\ CursorOK(v, mx, y + dy) /\ Unwrapped(v, mx, y + dy, q)
<1>1. /\ y \in Nat /\ p.line \in Nat /\ y < VGA_HEIGHT /\ p.line >= y
      /\ y = VGA_HEIGHT - 1 => Bottom(p) = p.line + 1
      /\ Bottom(p) \in Nat
  BY RestTyped
<1>2. /\ q.line = (IF mx < VGA_WIDTH THEN p.line + dy ELSE p.line + 1)
      /\ q.x = (IF mx < VGA_WIDTH THEN mx ELSE 0) /\ q.ink = p.ink
      /\ q = [line |-> q.line, x |-> q.x, ink |-> q.ink]
  OBVIOUS
<1>3. mx \in Nat /\ mx <= VGA_WIDTH BY Sizes
<1>4. InkAbove(p.ink, Bottom(p)) BY DEF SheetOK
<1>5. SheetOK(q)
  <2>1. q.line \in Nat /\ q.line >= p.line BY <1>1, <1>2
  <2>2. q.x \in Columns BY <1>2, <1>3, Sizes DEF Columns
  <2>3. Bottom(q) \in Nat /\ Bottom(q) >= Bottom(p) BY <1>1, <2>1, Sizes DEF Bottom
  <2>4. InkAbove(q.ink, Bottom(q)) BY <1>1, <1>2, <1>4, <2>3, InkRaised
  <2> QED BY <1>2, <2>1, <2>2, <2>4 DEF SheetOK
<1>6. CursorOK(v, mx, y + dy) BY <1>1, <1>3, Sizes DEF CursorOK
<1>7. PICK ny \in Nat : ny = IF mx >= VGA_WIDTH THEN (y + dy) + 1 ELSE y + dy
  BY <1>1, <1>3
<1>8. /\ ny <= VGA_HEIGHT /\ q.line - ny = p.line - y
      /\ ny # y => ny = y + 1 /\ q.line = p.line + 1 /\ q.x = 0
      /\ ny >= y
  BY <1>1, <1>2, <1>3, <1>7, Sizes
<1>9. Aligned(q, ny)
  BY <1>1, <1>8, Sizes, <1>2 DEF Rests, Aligned
<1>10. ny = VGA_HEIGHT => q.x = 0 /\ InkAbove(q.ink, q.line)
  BY <1>1, <1>2, <1>4, <1>8, Sizes
<1>11. Shows(v, q.ink, q.line - ny)
  BY <1>2, <1>8 DEF Rests
<1>12. q.x = IF mx >= VGA_WIDTH THEN 0 ELSE mx
  BY <1>2, <1>3, Sizes
<1> QED BY <1>5, <1>6, <1>7, <1>8, <1>9, <1>10, <1>11, <1>12 DEF Unwrapped

\* The sheet once c is printed at column x of its line.
Written(p, x, c) ==
  [line |-> IF x + 1 < VGA_WIDTH THEN p.line ELSE p.line + 1,
   x |-> IF x + 1 < VGA_WIDTH THEN x + 1 ELSE 0,
   ink |-> [a \in (DOMAIN p.ink) \cup {<<p.line, p.x>>} |->
              IF a = <<p.line, p.x>> THEN c ELSE p.ink[a]]]

\* A character is written on the screen and on the paper at the same place.
LEMMA WrittenPut ==
  ASSUME NEW v, NEW x, NEW y, NEW p, SheetOK(p), CursorOK(v, x, y), Rests(v, x, y, p),
         NEW c, NEW w, w = [v EXCEPT ![Place(y, x)] = c], NEW q,
         q = Written(p, x, c)
  PROVE  SheetOK(q) /\ CursorOK(w, x + 1, y) /\ Unwrapped(w, x + 1, y, q)
<1>1. /\ x \in Columns /\ y \in Rows /\ p.x = x
      /\ x \in Nat /\ y \in Nat /\ p.line \in Nat
      /\ x < VGA_WIDTH /\ y < VGA_HEIGHT /\ p.line >= y
      /\ y = VGA_HEIGHT - 1 => Bottom(p) = p.line + 1
      /\ Bottom(p) \in Nat /\ p.line < Bottom(p)
  BY RestTyped
<1> DEFINE here == <<p.line, p.x>>
           ink == [a \in (DOMAIN p.ink) \cup {here} |-> IF a = here THEN c ELSE p.ink[a]]
<1>2. /\ q.line = (IF x + 1 < VGA_WIDTH THEN p.line ELSE p.line + 1)
      /\ q.x = (IF x + 1 < VGA_WIDTH THEN x + 1 ELSE 0)
      /\ q.ink = ink
      /\ q = [line |-> q.line, x |-> q.x, ink |-> q.ink]
  BY DEF Written
<1>4. DOMAIN ink = (DOMAIN p.ink) \cup {here} /\ ink[here] = c
      /\ \A a \in DOMAIN p.ink : a # here => ink[a] = p.ink[a]
  OBVIOUS
<1>3. InkAbove(ink, Bottom(p))
  <2>1. here[1] \in 0 .. Bottom(p) - 1 BY <1>1
  <2>2. \A a \in DOMAIN p.ink : a[1] \in 0 .. Bottom(p) - 1 BY DEF SheetOK, InkAbove
  <2> HIDE DEF here, ink
  <2> QED BY <1>4, <2>1, <2>2 DEF InkAbove
<1> HIDE DEF ink
<1>5. SheetOK(q)
  <2>1. q.line \in Nat /\ q.line >= p.line BY <1>1, <1>2
  <2>2. q.x \in Columns BY <1>1, <1>2, Sizes DEF Columns
  <2>3. Bottom(q) \in Nat /\ Bottom(q) >= Bottom(p) BY <1>1, <2>1, Sizes DEF Bottom
  <2>4. InkAbove(q.ink, Bottom(q)) BY <1>1, <1>2, <1>3, <2>3, InkRaised
  <2> QED BY <1>2, <2>1, <2>2, <2>4 DEF SheetOK
<1>6. CursorOK(w, x + 1, y)
  <2>1. w = [i \in Cells |-> w[i]] BY DEF CursorOK
  <2> QED BY <1>1, <2>1, Sizes DEF CursorOK
<1>7. Shows(w, ink, p.line - y)
  <2>1. SUFFICES ASSUME NEW i \in Rows, NEW j \in Columns
                 PROVE  w[Place(i, j)] = InkAt(ink, (p.line - y) + i, j)
    BY DEF Shows
  <2>2. i \in Nat /\ Place(i, j) \in Cells BY Places, Sizes DEF Rows
  <2>3. PICK l \in Nat : l = (p.line - y) + i BY <1>1, <2>2
  <2>4. v[Place(i, j)] = InkAt(p.ink, l, j) BY <2>3 DEF Rests, Shows
  <2>5. CASE i = y /\ j = x
    <3>1. <<l, j>> = here BY <1>1, <2>3, <2>5
    <3>2. w[Place(i, j)] = c BY <2>2, <2>5 DEF CursorOK
    <3>3. InkAt(ink, l, j) = c
      <4> HIDE DEF here
      <4> QED BY <1>4, <3>1 DEF InkAt
    <3> QED BY <2>3, <3>2, <3>3
  <2>6. CASE ~(i = y /\ j = x)
    <3>1. l = p.line => i = y BY <1>1, <2>2, <2>3
    <3>2. <<l, j>> # here BY <1>1, <2>6, <3>1
    <3>3. Place(i, j) # Place(y, x) BY <1>1, <2>6, PlacesDiffer
    <3>4. w[Place(i, j)] = v[Place(i, j)]
      BY <2>2, <3>3 DEF CursorOK
    <3>5. InkAt(ink, l, j) = InkAt(p.ink, l, j)
      <4> HIDE DEF here
      <4> QED BY <1>4, <3>2 DEF InkAt
    <3> QED BY <2>3, <2>4, <3>4, <3>5
  <2> QED BY <2>5, <2>6
<1>8. PICK ny \in Nat : ny = IF x + 1 >= VGA_WIDTH THEN y + 1 ELSE y
  BY <1>1
<1>9. /\ ny <= VGA_HEIGHT /\ q.line - ny = p.line - y
      /\ ny # y => ny = y + 1 /\ q.line = p.line + 1 /\ q.x = 0
      /\ ny >= y
  BY <1>1, <1>2, <1>8, Sizes
<1>10. Aligned(q, ny) BY <1>1, <1>2, <1>9, Sizes DEF Rests, Aligned
<1>11. ny = VGA_HEIGHT => q.x = 0 /\ InkAbove(q.ink, q.line)
  BY <1>1, <1>2, <1>3, <1>9, Sizes
<1>12. Shows(w, q.ink, q.line - ny) BY <1>2, <1>7, <1>9
<1>13. q.x = IF x + 1 >= VGA_WIDTH THEN 0 ELSE x + 1 BY <1>1, <1>2, Sizes
<1> QED BY <1>5, <1>6, <1>8, <1>9, <1>10, <1>11, <1>12, <1>13 DEF Unwrapped

\* A screen as a record.
View(v, x, y) == [video |-> v, x |-> x, y |-> y]

\* Every character that monitor_print_char tells apart.
LEMMA PutUnwrapped ==
  ASSUME NEW v, NEW x, NEW y, NEW p, SheetOK(p), CursorOK(v, x, y), Rests(v, x, y, p),
         NEW c, NEW s, s = Put(View(v, x, y), c), NEW q, q = OnPaper(p, c)
  PROVE  /\ s = View(s.video, s.x, s.y) /\ SheetOK(q)
         /\ CursorOK(s.video, s.x, s.y) /\ Unwrapped(s.video, s.x, s.y, q)
<1>0. BS # TAB /\ BS # NL /\ BS # CR /\ TAB # NL /\ TAB # CR /\ NL # CR
  BY DEF BS, TAB, NL, CR
<1>1. /\ x \in Columns /\ y \in Rows /\ p.x = x
      /\ x \in Nat /\ y \in Nat /\ p.line \in Nat
      /\ x < VGA_WIDTH /\ y < VGA_HEIGHT /\ p.line >= y
  BY RestTyped
<1>2. PICK l, i : p = [line |-> l, x |-> x, ink |-> i] /\ p.line = l /\ p.ink = i
  BY <1>1 DEF SheetOK
<1>s. \A a, b, d : s = View(a, b, d) => s.video = a /\ s.x = b /\ s.y = d
  BY DEF View
<1>m. ASSUME NEW mx \in 0 .. VGA_WIDTH, NEW dy \in {0, 1}, dy = 1 => mx = 0,
             s = View(v, mx, y + dy),
             q = [line |-> IF mx < VGA_WIDTH THEN p.line + dy ELSE p.line + 1,
                  x |-> IF mx < VGA_WIDTH THEN mx ELSE 0, ink |-> p.ink]
      PROVE  /\ s = View(s.video, s.x, s.y) /\ SheetOK(q)
             /\ CursorOK(s.video, s.x, s.y) /\ Unwrapped(s.video, s.x, s.y, q)
  <2>1. s.video = v /\ s.x = mx /\ s.y = y + dy BY <1>m, <1>s
  <2>2. SheetOK(q) /\ CursorOK(v, mx, y + dy) /\ Unwrapped(v, mx, y + dy, q)
    BY <1>m, MovedPut
  <2> QED BY <1>m, <2>1, <2>2
<1>3. CASE c = BS /\ x > 0
  <2>1. s = View(v, x - 1, y) BY <1>3, <1>0 DEF Put, View
  <2>2. q = [line |-> l, x |-> x - 1, ink |-> i]
    BY <1>1, <1>2, <1>3, <1>0 DEF OnPaper
  <2>3. PICK mx \in 0 .. VGA_WIDTH : mx = x - 1 /\ mx < VGA_WIDTH
    BY <1>1, <1>3, Sizes
  <2>d. PICK dy \in {0, 1} : dy = 0 OBVIOUS
  <2>4. s = View(v, mx, y + dy) BY <1>1, <2>1, <2>3, <2>d
  <2>5. q = [line |-> IF mx < VGA_WIDTH THEN p.line + dy ELSE p.line + 1,
             x |-> IF mx < VGA_WIDTH THEN mx ELSE 0, ink |-> p.ink]
    BY <1>1, <1>2, <2>2, <2>3, <2>d
  <2>6. dy = 1 => mx = 0 BY <2>d
  <2> QED BY <2>4, <2>5, <2>6, <1>m, Zenon
<1>4. CASE c = TAB
  <2> DEFINE mx == ((x + TabStop) \div TabStop) * TabStop
  <2>1. s = View(v, mx, y) BY <1>4, <1>0 DEF Put, View
  <2>2. q = [line |-> IF mx < VGA_WIDTH THEN l ELSE l + 1,
             x |-> IF mx < VGA_WIDTH THEN mx ELSE 0, ink |-> i]
    BY <1>1, <1>2, <1>4, <1>0 DEF OnPaper
  <2>3. mx \in 0 .. VGA_WIDTH BY <1>1, TabRoom
  <2> HIDE DEF mx
  <2>d. PICK dy \in {0, 1} : dy = 0 OBVIOUS
  <2>4. s = View(v, mx, y + dy) BY <1>1, <2>1, <2>d
  <2>5. q = [line |-> IF mx < VGA_WIDTH THEN p.line + dy ELSE p.line + 1,
             x |-> IF mx < VGA_WIDTH THEN mx ELSE 0, ink |-> p.ink]
    <3>1. l = l + 0 BY <1>1, <1>2
    <3> QED BY <1>2, <2>2, <2>d, <3>1
  <2>6. dy = 1 => mx = 0 BY <2>d
  <2> QED BY <2>3, <2>4, <2>5, <2>6, <1>m, Zenon
<1>5. CASE c = NL
  <2>1. s = View(v, 0, y + 1) BY <1>5, <1>0 DEF Put, View
  <2>2. q = [line |-> l + 1, x |-> 0, ink |-> i]
    BY <1>1, <1>2, <1>5, <1>0 DEF OnPaper
  <2>3. 0 \in 0 .. VGA_WIDTH /\ 0 < VGA_WIDTH BY Sizes
  <2>4. q = [line |-> IF 0 < VGA_WIDTH THEN p.line + 1 ELSE p.line + 1,
             x |-> IF 0 < VGA_WIDTH THEN 0 ELSE 0, ink |-> p.ink]
    BY <1>2, <2>2
  <2> QED BY <2>1, <2>3, <2>4, <1>m
<1>6. CASE c = CR
  <2>1. s = View(v, 0, y) BY <1>6, <1>0 DEF Put, View
  <2>2. q = [line |-> l, x |-> 0, ink |-> i]
    BY <1>1, <1>2, <1>6, <1>0 DEF OnPaper
  <2>3. 0 \in 0 .. VGA_WIDTH /\ 0 < VGA_WIDTH BY Sizes
  <2>4. s = View(v, 0, y + 0) BY <1>1, <2>1
  <2>5. l = l + 0 BY <1>1, <1>2
  <2>6. q = [line |-> IF 0 < VGA_WIDTH THEN p.line + 0 ELSE p.line + 1,
             x |-> IF 0 < VGA_WIDTH THEN 0 ELSE 0, ink |-> p.ink]
    BY <1>2, <2>2, <2>3, <2>5
  <2> QED BY <2>3, <2>4, <2>6, <1>m
<1>7. CASE ~(c = BS /\ x > 0) /\ c \notin {TAB, NL, CR}
  <2>0. PICK w : w = [v EXCEPT ![Place(y, x)] = c] OBVIOUS
  <2>1. s = View(w, x + 1, y)
    BY <1>7, <1>0, <2>0 DEF Put, View, Place
  <2>2. s.video = w /\ s.x = x + 1 /\ s.y = y BY <1>s, <2>1
  <2>3. q = Written(p, x, c) BY <1>1, <1>2, <1>7, <1>0 DEF OnPaper, Written
  <2>4. SheetOK(q) /\ CursorOK(w, x + 1, y) /\ Unwrapped(w, x + 1, y, q)
    BY <2>0, <2>3, WrittenPut
  <2> QED BY <2>1, <2>2, <2>4
<1> QED BY <1>3, <1>4, <1>5, <1>6, <1>7

\* A line that is full is left; the screen scrolls when the last row is.
LEMMA WrapKeeps ==
  ASSUME NEW v, NEW x, NEW y, NEW p, SheetOK(p), CursorOK(v, x, y), Unwrapped(v, x, y, p),
         NEW w, w = Wrap(View(v, x, y))
  PROVE  /\ w = View(v, w.x, w.y) /\ w.video = v /\ CursorOK(v, w.x, w.y)
         /\ MustScroll(w) => Scrolling(v, w.x, w.y, p, 0)
         /\ ~MustScroll(w) => Rests(v, w.x, w.y, p)
<1>1. x \in Nat /\ x <= VGA_WIDTH /\ y \in Nat
  BY Sizes DEF CursorOK
<1>2. PICK ny \in Nat : ny = IF x >= VGA_WIDTH THEN y + 1 ELSE y
  BY <1>1
<1>3. w = View(v, IF x >= VGA_WIDTH THEN 0 ELSE x, ny)
  BY <1>2 DEF Wrap, View
<1>4. w.video = v /\ w.y = ny /\ w.x = p.x /\ w = View(v, p.x, ny)
  <2>1. p.x = IF x >= VGA_WIDTH THEN 0 ELSE x BY DEF Unwrapped
  <2>2. w = View(v, p.x, ny) BY <1>3, <2>1
  <2> QED BY <2>2 DEF View
<1>5. /\ ny <= VGA_HEIGHT /\ Aligned(p, ny)
      /\ ny = VGA_HEIGHT => p.x = 0 /\ InkAbove(p.ink, p.line)
      /\ Shows(v, p.ink, p.line - ny)
  BY <1>2 DEF Unwrapped
<1>7. p.x \in 0 .. VGA_WIDTH /\ p.x < VGA_WIDTH BY Sizes DEF SheetOK, Columns
<1>8. CursorOK(v, p.x, ny) BY <1>5, <1>7, Sizes DEF CursorOK
<1>9. ASSUME MustScroll(w) PROVE Scrolling(v, p.x, ny, p, 0)
  <2>1. ny = VGA_HEIGHT BY <1>4, <1>5, <1>9, Sizes DEF MustScroll
  <2>2. 0 \in 0 .. VGA_HEIGHT BY Sizes
  <2>3. p.line >= VGA_HEIGHT BY <1>5, <2>1 DEF Aligned
  <2>4. \A i \in Rows, j \in Columns :
          v[Place(i, j)] = InkAt(p.ink, (p.line - VGA_HEIGHT) + (IF i < 0 THEN i + 1 ELSE i), j)
    <3>1. \A i \in Rows : ~(i < 0) BY Sizes DEF Rows
    <3> QED BY <1>5, <2>1, <3>1 DEF Shows
  <2> QED BY <1>5, <2>1, <2>2, <2>3, <2>4 DEF Scrolling
<1>10. ASSUME ~MustScroll(w) PROVE Rests(v, p.x, ny, p)
  <2>1. ny < VGA_HEIGHT BY <1>4, <1>10, Sizes DEF MustScroll
  <2> QED BY <1>5, <2>1 DEF Rests
<1> QED BY <1>4, <1>8, <1>9, <1>10

-----------------------------------------------------------------------------
(* Every step of a call *)

\* While one thread is inside the section, the others are not.
LEMMA Alone ==
  ASSUME PrintInv, NEW t \in Threads, Printing(t), NEW u \in Threads, u # t
  PROVE  pc[u] \notin {"put", "wrap", "scroll", "clear", "cursor"}
  BY DEF PrintInv, LockInv, Printing

\* What LabelInv asks for when the thread that prints has come to label l.
LEMMA LabelNext ==
  ASSUME PrintInv, NEW t \in Threads, Printing(t),
         NEW l \in {"put", "wrap", "scroll", "clear", "cursor"},
         pc' = [pc EXCEPT ![t] = l],
         l = "wrap" => Unwrapped(video_memory, cursor_x, cursor_y, paper)',
         l = "scroll" => Scrolling(video_memory, cursor_x, cursor_y, paper, row)',
         l = "clear" => Clearing(video_memory, row)',
         l \in {"put", "cursor"} => Rests(video_memory, cursor_x, cursor_y, paper)',
         l = "put" => hw_cursor' = Place(cursor_y, cursor_x)'
  PROVE  LabelInv'
<1>1. pc'[t] = l BY DEF PrintInv, TextInv
<1>2. \A u \in Threads : pc'[u] \in {"put", "wrap", "scroll", "clear", "cursor"} => u = t
  BY Alone DEF PrintInv, TextInv
<1> QED BY <1>1, <1>2 DEF LabelInv

\* What LabelInv says while a thread is between two characters, or nobody prints.
LEMMA LabelRest ==
  ASSUME PrintInv, LabelInv, NEW t \in Threads,
         pc[t] \in {"put", "cursor"} \/ ~monitor_lock
  PROVE  /\ Rests(video_memory, cursor_x, cursor_y, paper)
         /\ pc[t] = "put" \/ ~monitor_lock => hw_cursor = Place(cursor_y, cursor_x)
<1>1. CASE ~monitor_lock
  <2>1. \A u \in Threads : ~Printing(u) BY <1>1 DEF PrintInv, LockInv
  <2> QED BY <2>1 DEF LabelInv, Printing
<1>2. CASE pc[t] \in {"put", "cursor"}
  <2>1. Printing(t) BY <1>2 DEF Printing
  <2>2. \A u \in Threads : u # t => pc[u] \notin {"put", "wrap", "scroll", "clear", "cursor"}
    BY <2>1, Alone
  <2> QED BY <1>1, <1>2, <2>2 DEF LabelInv
<1> QED BY <1>1, <1>2

\* One more row is moved up.
LEMMA ScrollKeeps ==
  ASSUME PaperInv, CursorInv, Scrolling(video_memory, cursor_x, cursor_y, paper, row),
         row < VGA_HEIGHT, Show(ScrollRow(screen, row)), row' = row + 1, UNCHANGED paper
  PROVE  /\ PaperInv' /\ CursorInv'
         /\ Scrolling(video_memory, cursor_x, cursor_y, paper, row)'
<1>1. row \in Rows /\ row \in Nat BY Sizes DEF Scrolling, Rows
<1>2. /\ cursor_x' = cursor_x /\ cursor_y' = cursor_y
      /\ video_memory' = [i \in Cells |-> video_memory'[i]]
      /\ \A y \in Rows, x \in Columns :
           video_memory'[Place(y, x)] = IF y # row THEN video_memory[Place(y, x)]
                                        ELSE IF y = VGA_HEIGHT - 1 THEN Blank
                                        ELSE video_memory[Place(y + 1, x)]
  BY <1>1, ScrollRowShows DEF Show
<1>3. PaperInv' BY DEF PaperInv, SheetOK
<1>4. CursorInv' BY <1>2 DEF CursorInv, CursorOK
<1>5. PICK top \in Nat : top = paper.line - VGA_HEIGHT
  BY Sizes DEF Scrolling, PaperInv, SheetOK
<1>6. ASSUME NEW i \in Rows, NEW j \in Columns
      PROVE  video_memory'[Place(i, j)] =
               InkAt(paper.ink, top + (IF i < row + 1 THEN i + 1 ELSE i), j)
  <2>0. i \in Nat /\ i < VGA_HEIGHT BY Sizes DEF Rows
  <2>1. CASE i # row
    <3>1. i < row <=> i < row + 1 BY <1>1, <2>0, <2>1
    <3>2. video_memory'[Place(i, j)] = video_memory[Place(i, j)] BY <1>2, <2>1
    <3> QED BY <1>5, <3>1, <3>2 DEF Scrolling
  <2>2. CASE i = row /\ i = VGA_HEIGHT - 1
    <3>1. top + (i + 1) = paper.line /\ i < row + 1
      BY <1>5, <2>0, <2>2, Sizes DEF PaperInv, SheetOK
    <3>2. <<paper.line, j>> \notin DOMAIN paper.ink
      <4>1. \A a \in DOMAIN paper.ink : a[1] \in 0 .. paper.line - 1
        BY DEF Scrolling, InkAbove
      <4>2. <<paper.line, j>>[1] = paper.line OBVIOUS
      <4>3. paper.line \notin 0 .. paper.line - 1 BY DEF PaperInv, SheetOK
      <4> QED BY <4>1, <4>2, <4>3, Zenon
    <3>3. InkAt(paper.ink, paper.line, j) = Blank BY <3>2 DEF InkAt
    <3>4. video_memory'[Place(i, j)] = Blank BY <1>2, <2>2
    <3> QED BY <3>1, <3>3, <3>4
  <2>3. CASE i = row /\ i # VGA_HEIGHT - 1
    <3>1. i + 1 \in Rows /\ ~(i + 1 < row) /\ i < row + 1
      BY <2>0, <2>3, Sizes DEF Rows
    <3>2. video_memory[Place(i + 1, j)] = InkAt(paper.ink, top + (i + 1), j)
      BY <1>5, <3>1 DEF Scrolling
    <3>3. video_memory'[Place(i, j)] = video_memory[Place(i + 1, j)]
      BY <1>2, <2>3
    <3> QED BY <3>1, <3>2, <3>3
  <2> QED BY <2>1, <2>2, <2>3
<1>7. row + 1 \in 0 .. VGA_HEIGHT BY <1>1, Sizes
<1> QED BY <1>2, <1>3, <1>4, <1>5, <1>6, <1>7 DEF Scrolling

\* After the last row the cursor comes back to the screen.
LEMMA ScrollEnds ==
  ASSUME PaperInv, CursorInv, Scrolling(video_memory, cursor_x, cursor_y, paper, row),
         row = VGA_HEIGHT, Show(Home(screen)), UNCHANGED paper
  PROVE  /\ PaperInv' /\ CursorInv'
         /\ Rests(video_memory, cursor_x, cursor_y, paper)'
<1>1. video_memory' = video_memory /\ cursor_x' = 0 /\ cursor_y' = VGA_HEIGHT - 1
  BY DEF Show, Home, screen
<1>2. PaperInv' BY DEF PaperInv, SheetOK
<1>3. CursorInv' BY <1>1, Sizes DEF CursorInv, CursorOK
<1>4. Shows(video_memory, paper.ink, paper.line - (VGA_HEIGHT - 1))
  <2> SUFFICES ASSUME NEW i \in Rows, NEW j \in Columns
               PROVE  video_memory[Place(i, j)] =
                        InkAt(paper.ink, (paper.line - (VGA_HEIGHT - 1)) + i, j)
    BY DEF Shows
  <2>1. i \in Nat /\ i < row BY Sizes DEF Rows
  <2>2. (paper.line - VGA_HEIGHT) + (i + 1) = (paper.line - (VGA_HEIGHT - 1)) + i
    BY <2>1, Sizes DEF PaperInv, SheetOK
  <2>3. video_memory[Place(i, j)] =
          InkAt(paper.ink, (paper.line - VGA_HEIGHT) + (i + 1), j)
    BY <2>1 DEF Scrolling
  <2> QED BY <2>2, <2>3
<1>5. Aligned(paper, VGA_HEIGHT - 1) BY Sizes DEF Aligned, Scrolling, PaperInv, SheetOK
<1>6. paper.x = 0 BY DEF Scrolling
<1>7. VGA_HEIGHT - 1 < VGA_HEIGHT BY Sizes
<1> QED BY <1>1, <1>2, <1>3, <1>4, <1>5, <1>6, <1>7 DEF Rests

\* One more row is blank.
LEMMA ClearKeeps ==
  ASSUME CursorInv, Clearing(video_memory, row), row < VGA_HEIGHT,
         Show(BlankRow(screen, row)), row' = row + 1
  PROVE  CursorInv' /\ Clearing(video_memory, row)'
<1>1. row \in Nat BY Sizes DEF Clearing
<1>2. /\ cursor_x' = cursor_x /\ cursor_y' = cursor_y
      /\ video_memory' = [i \in Cells |-> video_memory'[i]]
      /\ \A y \in Rows, x \in Columns :
           video_memory'[Place(y, x)] = IF y = row THEN Blank
                                        ELSE video_memory[Place(y, x)]
  BY BlankRowShows DEF Show
<1>3. CursorInv' BY <1>2 DEF CursorInv, CursorOK
<1>4. ASSUME NEW i \in Rows, NEW j \in Columns, i < row + 1
      PROVE  video_memory'[Place(i, j)] = Blank
  <2>1. i \in Nat BY Sizes DEF Rows
  <2>2. i = row \/ i < row BY <1>1, <1>4, <2>1
  <2> QED BY <1>2, <2>2 DEF Clearing
<1>5. row + 1 \in 0 .. VGA_HEIGHT BY <1>1, Sizes
<1> QED BY <1>3, <1>4, <1>5 DEF Clearing

\* A blank screen is a blank sheet.
LEMMA ClearEnds ==
  ASSUME NEW v, NEW r, Clearing(v, r), r = VGA_HEIGHT
  PROVE  Rests(v, 0, 0, BlankPaper)
<1>1. DOMAIN <<>> = {} OBVIOUS
<1>2. BlankPaper.x = 0 /\ BlankPaper.line = 0 /\ BlankPaper.ink = <<>> BY DEF BlankPaper
<1>3. \A l, x : InkAt(<<>>, l, x) = Blank BY <1>1 DEF InkAt
<1>4. Shows(v, <<>>, 0 - 0)
  <2>1. \A i \in Rows : i < r BY Sizes DEF Rows
  <2> QED BY <1>3, <2>1 DEF Shows, Clearing
<1>5. Aligned(BlankPaper, 0) BY <1>2, Sizes DEF Aligned
<1> QED BY <1>2, <1>4, <1>5, Sizes DEF Rests

\* A blank sheet is a sheet.
LEMMA BlankPaperOK ==
  ASSUME NEW p, p = BlankPaper
  PROVE  /\ p = [line |-> p.line, x |-> p.x, ink |-> p.ink]
         /\ p.line \in Nat /\ p.x \in Columns /\ InkAbove(p.ink, Bottom(p))
<1>1. DOMAIN <<>> = {} OBVIOUS
<1>2. /\ p.x = 0 /\ p.line = 0 /\ p.ink = <<>>
      /\ p = [line |-> 0, x |-> 0, ink |-> <<>>]
  BY DEF BlankPaper
<1>3. InkAbove(<<>>, Bottom(p)) BY <1>1 DEF InkAbove
<1> QED BY <1>2, <1>3, Sizes DEF Columns

\* A step outside the section, or between its labels that LabelInv does not name.
LEMMA LabelSame ==
  ASSUME LabelInv, PaperInv, CursorInv,
         \A u \in Threads : \A l \in {"wrap", "scroll", "clear", "cursor"} :
           pc'[u] = l <=> pc[u] = l,
         UNCHANGED <<video_memory, cursor_x, cursor_y, hw_cursor, row, paper>>
  PROVE  LabelInv' /\ PaperInv' /\ CursorInv'
<1>1. LabelInv'
  <2>1. \A u \in Threads :
          pc[u] \notin {"wrap", "scroll", "clear"} <=> pc'[u] \notin {"wrap", "scroll", "clear"}
    OBVIOUS
  <2>2. \A u \in Threads : pc[u] \notin {"wrap", "scroll", "clear", "cursor"} <=>
                           pc'[u] \notin {"wrap", "scroll", "clear", "cursor"}
    OBVIOUS
  <2>3. \A u \in Threads : /\ pc'[u] = "wrap" => pc[u] = "wrap"
                           /\ pc'[u] = "scroll" => pc[u] = "scroll"
                           /\ pc'[u] = "clear" => pc[u] = "clear"
    OBVIOUS
  <2>4. /\ Unwrapped(video_memory, cursor_x, cursor_y, paper)' <=>
             Unwrapped(video_memory, cursor_x, cursor_y, paper)
        /\ Scrolling(video_memory, cursor_x, cursor_y, paper, row)' <=>
             Scrolling(video_memory, cursor_x, cursor_y, paper, row)
        /\ Clearing(video_memory, row)' <=> Clearing(video_memory, row)
        /\ Rests(video_memory, cursor_x, cursor_y, paper)' <=>
             Rests(video_memory, cursor_x, cursor_y, paper)
        /\ hw_cursor' = Place(cursor_y, cursor_x)' <=> hw_cursor = Place(cursor_y, cursor_x)
    OBVIOUS
  <2> QED BY <2>1, <2>2, <2>3, <2>4 DEF LabelInv
<1> QED BY <1>1 DEF PaperInv, SheetOK, CursorInv, CursorOK

\* The console when the kernel starts.
LEMMA ScreenInit ==
  ASSUME Init
  PROVE  ScreenInv
<1>1. /\ video_memory = [i \in Cells |-> Blank] /\ cursor_x = 0 /\ cursor_y = 0
      /\ hw_cursor = 0 /\ pc = [t \in Threads |-> "idle"] /\ paper = BlankPaper
  BY DEF Init
<1>2. PaperInv BY <1>1, BlankPaperOK DEF PaperInv, SheetOK
<1>3. CursorInv BY <1>1, Sizes DEF CursorInv, CursorOK
<1>4. Rests(video_memory, cursor_x, cursor_y, paper)
  <2>1. Clearing(video_memory, VGA_HEIGHT) BY <1>1, Places, Sizes DEF Clearing
  <2> QED BY <1>1, <2>1, ClearEnds
<1>5. hw_cursor = Place(cursor_y, cursor_x) BY <1>1, Sizes DEF Place
<1>6. \A t \in Threads : pc[t] = "idle" BY <1>1
<1> QED BY <1>2, <1>3, <1>4, <1>5, <1>6 DEF ScreenInv, LabelInv

\* A thread enters a call, its section, or leaves it.
LEMMA EdgeScreen ==
  ASSUME PrintInv, PaperInv, CursorInv, LabelInv, NEW t \in Threads,
         \/ ClearCall(t) \/ Lock(t) \/ Unlock(t)
         \/ \E str \in Texts : PrintCall(t, str)
  PROVE  PaperInv' /\ CursorInv' /\ LabelInv'
<1>0. pc \in [Threads -> {"idle", "lock", "lockclear", "put", "wrap", "scroll",
                          "clear", "cursor"}]
  BY DEF PrintInv, TextInv
<1>1. CASE /\ pc[t] \in {"idle", "lock", "put"}
           /\ \E l \in {"idle", "lock", "lockclear", "put"} : pc' = [pc EXCEPT ![t] = l]
           /\ UNCHANGED <<video_memory, cursor_x, cursor_y, hw_cursor, row, paper>>
  <2>1. \A u \in Threads : \A l \in {"wrap", "scroll", "clear", "cursor"} :
          pc'[u] = l <=> pc[u] = l
    BY <1>0, <1>1
  <2> QED BY <1>1, <2>1, LabelSame
<1>2. CASE /\ pc[t] = "lockclear" /\ pc' = [pc EXCEPT ![t] = "clear"] /\ row' = 0
           /\ ~monitor_lock
           /\ UNCHANGED <<video_memory, cursor_x, cursor_y, hw_cursor, paper>>
  <2>1. \A u \in Threads : ~Printing(u) BY <1>2 DEF PrintInv, LockInv
  <2>2. \A u \in Threads : u # t => pc'[u] = pc[u] BY <1>0, <1>2
  <2>3. pc'[t] = "clear" BY <1>0, <1>2
  <2>4. \A u \in Threads : pc'[u] \notin {"wrap", "scroll"}
    BY <2>1, <2>2, <2>3 DEF Printing
  <2>5. Clearing(video_memory, row)'
    <3>1. \A i \in Rows : ~(i < 0) BY Sizes DEF Rows
    <3> QED BY <1>2, <3>1, Sizes DEF Clearing
  <2>6. LabelInv' BY <2>3, <2>4, <2>5 DEF LabelInv
  <2> QED BY <1>2, <2>6 DEF PaperInv, SheetOK, CursorInv, CursorOK
<1>3. CASE ClearCall(t)
  BY <1>1, <1>3 DEF ClearCall, At, Goto, screenVars
<1>4. CASE \E str \in Texts : PrintCall(t, str)
  BY <1>1, <1>4 DEF PrintCall, At, Goto, screenVars
<1>5. CASE Unlock(t)
  BY <1>1, <1>5 DEF Unlock, At, Goto, screenVars, history
<1>6. CASE Lock(t)
  BY <1>1, <1>2, <1>6 DEF Lock, LockFree, At, Goto, screenVars, history
<1> QED BY <1>3, <1>4, <1>5, <1>6

\* A step inside the section.
LEMMA SectionScreen ==
  ASSUME PrintInv, PaperInv, CursorInv, LabelInv, NEW t \in Threads,
         \/ PutStep(t) \/ WrapStep(t) \/ ScrollStep(t) \/ ScrollDone(t)
         \/ ClearStep(t) \/ ClearDone(t) \/ mov_cursor(t)
  PROVE  PaperInv' /\ CursorInv' /\ LabelInv'
<1>0. Printing(t)
  BY DEF Printing, PutStep, WrapStep, ScrollStep, ScrollDone, ClearStep, ClearDone,
         mov_cursor, At
<1>1. CASE PutStep(t)
  <2>1. PICK c : Show(Put(screen, c)) /\ paper' = OnPaper(paper, c) BY <1>1 DEF PutStep
  <2>2. pc[t] = "put" /\ pc' = [pc EXCEPT ![t] = "wrap"] BY <1>1 DEF PutStep, At, Goto
  <2>3. Rests(video_memory, cursor_x, cursor_y, paper) BY <2>2, LabelRest
  <2>4. PICK s : s = Put(screen, c) OBVIOUS
  <2>5. screen = View(video_memory, cursor_x, cursor_y) BY DEF screen, View
  <2>6. /\ SheetOK(OnPaper(paper, c)) /\ CursorOK(s.video, s.x, s.y)
        /\ Unwrapped(s.video, s.x, s.y, OnPaper(paper, c))
    BY <2>3, <2>4, <2>5, PutUnwrapped DEF PaperInv, CursorInv
  <2>7. /\ PaperInv' /\ CursorInv'
        /\ Unwrapped(video_memory, cursor_x, cursor_y, paper)'
    BY <2>1, <2>4, <2>6 DEF PaperInv, CursorInv, Show
  <2>8. LabelInv' BY <1>0, <2>2, <2>7, LabelNext
  <2> QED BY <2>7, <2>8
<1>2. CASE WrapStep(t)
  <2>1. /\ pc[t] = "wrap" /\ Show(Wrap(screen)) /\ row' = 0 /\ UNCHANGED paper
        /\ pc' = [pc EXCEPT ![t] = IF MustScroll(Wrap(screen)) THEN "scroll" ELSE "cursor"]
    BY <1>2 DEF WrapStep, At, Goto, history
  <2>2. Unwrapped(video_memory, cursor_x, cursor_y, paper) BY <2>1 DEF LabelInv
  <2>5. PICK w : w = Wrap(screen) OBVIOUS
  <2>6. screen = View(video_memory, cursor_x, cursor_y) BY DEF screen, View
  <2>7. /\ w.video = video_memory /\ CursorOK(video_memory, w.x, w.y)
        /\ MustScroll(w) => Scrolling(video_memory, w.x, w.y, paper, 0)
        /\ ~MustScroll(w) => Rests(video_memory, w.x, w.y, paper)
    BY <2>2, <2>5, <2>6, WrapKeeps DEF PaperInv, CursorInv
  <2>8. video_memory' = video_memory /\ cursor_x' = w.x /\ cursor_y' = w.y
    BY <2>1, <2>5, <2>7 DEF Show
  <2>3. /\ PaperInv' /\ CursorInv'
        /\ MustScroll(Wrap(screen)) =>
             Scrolling(video_memory, cursor_x, cursor_y, paper, row)'
        /\ ~MustScroll(Wrap(screen)) =>
             Rests(video_memory, cursor_x, cursor_y, paper)'
    BY <2>1, <2>5, <2>7, <2>8 DEF PaperInv, CursorInv
  <2>4. LabelInv'
    <3>1. CASE MustScroll(Wrap(screen)) BY <1>0, <2>1, <2>3, <3>1, LabelNext
    <3>2. CASE ~MustScroll(Wrap(screen)) BY <1>0, <2>1, <2>3, <3>2, LabelNext
    <3> QED BY <3>1, <3>2
  <2> QED BY <2>3, <2>4
<1>3. CASE ScrollStep(t)
  <2>1. /\ pc[t] = "scroll" /\ row < VGA_HEIGHT /\ Show(ScrollRow(screen, row))
        /\ row' = row + 1 /\ UNCHANGED paper /\ pc' = pc
    BY <1>3 DEF ScrollStep, At, history
  <2>2. Scrolling(video_memory, cursor_x, cursor_y, paper, row) BY <2>1 DEF LabelInv
  <2>3. /\ PaperInv' /\ CursorInv'
        /\ Scrolling(video_memory, cursor_x, cursor_y, paper, row)'
    BY <2>1, <2>2, ScrollKeeps
  <2>4. pc' = [pc EXCEPT ![t] = "scroll"] BY <2>1 DEF PrintInv, TextInv
  <2>5. LabelInv' BY <1>0, <2>3, <2>4, LabelNext
  <2> QED BY <2>3, <2>5
<1>4. CASE ScrollDone(t)
  <2>1. /\ pc[t] = "scroll" /\ row = VGA_HEIGHT /\ Show(Home(screen)) /\ UNCHANGED paper
        /\ pc' = [pc EXCEPT ![t] = "cursor"]
    BY <1>4 DEF ScrollDone, At, Goto, history
  <2>2. Scrolling(video_memory, cursor_x, cursor_y, paper, row) BY <2>1 DEF LabelInv
  <2>3. PaperInv' /\ CursorInv' /\ Rests(video_memory, cursor_x, cursor_y, paper)'
    BY <2>1, <2>2, ScrollEnds
  <2>4. LabelInv' BY <1>0, <2>1, <2>3, LabelNext
  <2> QED BY <2>3, <2>4
<1>5. CASE ClearStep(t)
  <2>1. /\ pc[t] = "clear" /\ row < VGA_HEIGHT /\ Show(BlankRow(screen, row))
        /\ row' = row + 1 /\ UNCHANGED paper /\ pc' = pc
    BY <1>5 DEF ClearStep, At, history
  <2>2. Clearing(video_memory, row) BY <2>1 DEF LabelInv
  <2>3. CursorInv' /\ Clearing(video_memory, row)' BY <2>1, <2>2, ClearKeeps
  <2>4. pc' = [pc EXCEPT ![t] = "clear"] BY <2>1 DEF PrintInv, TextInv
  <2>5. LabelInv' BY <1>0, <2>3, <2>4, LabelNext
  <2>6. PaperInv' BY <2>1 DEF PaperInv
  <2> QED BY <2>3, <2>5, <2>6
<1>6. CASE ClearDone(t)
  <2>1. /\ pc[t] = "clear" /\ row = VGA_HEIGHT /\ Show([screen EXCEPT !.x = 0, !.y = 0])
        /\ paper' = BlankPaper /\ pc' = [pc EXCEPT ![t] = "cursor"]
    BY <1>6 DEF ClearDone, At, Goto
  <2>2. video_memory' = video_memory /\ cursor_x' = 0 /\ cursor_y' = 0
    BY <2>1 DEF Show, screen
  <2>3. Clearing(video_memory, row) BY <2>1 DEF LabelInv
  <2>4. Rests(video_memory, cursor_x, cursor_y, paper)' BY <2>1, <2>2, <2>3, ClearEnds
  <2>5. PaperInv' BY <2>1, BlankPaperOK DEF PaperInv, SheetOK
  <2>6. CursorInv' BY <2>2, Sizes DEF CursorInv, CursorOK
  <2>7. LabelInv' BY <1>0, <2>1, <2>4, LabelNext
  <2> QED BY <2>5, <2>6, <2>7
<1>7. CASE mov_cursor(t)
  <2>1. /\ pc[t] = "cursor" /\ hw_cursor' = Position(screen)
        /\ pc' = [pc EXCEPT ![t] = "put"]
        /\ UNCHANGED <<video_memory, cursor_x, cursor_y, row, paper>>
    BY <1>7 DEF mov_cursor, At, Goto, screenVars, history
  <2>2. Rests(video_memory, cursor_x, cursor_y, paper) BY <2>1, LabelRest
  <2>3. Rests(video_memory, cursor_x, cursor_y, paper)' BY <2>1, <2>2
  <2>4. hw_cursor' = Place(cursor_y, cursor_x)' BY <2>1 DEF Place, Position, screen
  <2>5. LabelInv' BY <1>0, <2>1, <2>3, <2>4, LabelNext
  <2> QED BY <2>1, <2>5 DEF PaperInv, CursorInv
<1> QED BY <1>1, <1>2, <1>3, <1>4, <1>5, <1>6, <1>7

-----------------------------------------------------------------------------
(* A panic: whole characters, from wherever the cursor was left *)

\* A scroll brings the cursor to the start of the last row.
LEMMA ScrollHome ==
  ASSUME NEW w, w = [video |-> w.video, x |-> w.x, y |-> w.y]
  PROVE  LET s == Home(ScrollRows(w))
         IN  /\ s = [video |-> s.video, x |-> s.x, y |-> s.y]
             /\ s.x = 0 /\ s.y = VGA_HEIGHT - 1
             /\ s.video = [i \in Cells |-> s.video[i]]
             /\ \A i \in Cells : i < Screen - VGA_WIDTH =>
                                   s.video[i] = w.video[i + VGA_WIDTH]
             /\ \A i \in Cells : i >= Screen - VGA_WIDTH /\ i < Screen => s.video[i] = Blank
<1> DEFINE e(i) == CASE i < Screen - VGA_WIDTH -> w.video[i + VGA_WIDTH]
                     [] i >= Screen - VGA_WIDTH /\ i < Screen -> Blank
                     [] i >= Screen -> w.video[i]
           v == [i \in Cells |-> e(i)]
<1>1. ScrollRows(w) = [video |-> v, x |-> w.x, y |-> w.y]
  <2>1. PICK a, x, y : w = [video |-> a, x |-> x, y |-> y] OBVIOUS
  <2>2. w.video = a /\ w.x = x /\ w.y = y BY <2>1
  <2>3. \A z : [w EXCEPT !.video = z] = [video |-> z, x |-> x, y |-> y] BY <2>1
  <2> QED BY <2>2, <2>3, Zenon DEF ScrollRows
<1>2. /\ v = [i \in Cells |-> v[i]]
      /\ \A i \in Cells : i < Screen - VGA_WIDTH => v[i] = w.video[i + VGA_WIDTH]
      /\ \A i \in Cells : i >= Screen - VGA_WIDTH /\ i < Screen => v[i] = Blank
  <2>1. Screen \in Nat /\ VGA_WIDTH \in Nat BY Sizes DEF Screen
  <2>2. \A i \in Cells : i \in Nat BY <2>1 DEF Cells
  <2>3. ASSUME NEW i \in Cells, i < Screen - VGA_WIDTH PROVE v[i] = w.video[i + VGA_WIDTH]
    <3>1. ~(i >= Screen - VGA_WIDTH) /\ ~(i >= Screen) BY <2>1, <2>2, <2>3, Sizes
    <3> QED BY <2>3, <3>1
  <2>5. ASSUME NEW i \in Cells, i >= Screen - VGA_WIDTH, i < Screen PROVE v[i] = Blank
    <3>1. ~(i < Screen - VGA_WIDTH) /\ ~(i >= Screen) BY <2>1, <2>2, <2>5, Sizes
    <3> QED BY <2>5, <3>1
  <2>4. v = [i \in Cells |-> v[i]]
    <3> HIDE DEF e
    <3> QED OBVIOUS
  <2> HIDE DEF v
  <2> QED BY <2>3, <2>4, <2>5
<1> HIDE DEF v
<1>3. Home(ScrollRows(w)) = [video |-> v, x |-> 0, y |-> VGA_HEIGHT - 1]
  <2>1. PICK a, b : a = w.x /\ b = w.y OBVIOUS
  <2>2. PICK r : r = [video |-> v, x |-> a, y |-> b] OBVIOUS
  <2>3. [r EXCEPT !.x = 0, !.y = VGA_HEIGHT - 1] = [video |-> v, x |-> 0, y |-> VGA_HEIGHT - 1]
    <3>1. PICK z : z = VGA_HEIGHT - 1 OBVIOUS
    <3>2. [r EXCEPT !.x = 0, !.y = z] = [[r EXCEPT !.x = 0] EXCEPT !.y = z] OBVIOUS
    <3>3. [r EXCEPT !.x = 0] = [video |-> v, x |-> 0, y |-> b] BY <2>2
    <3>4. \A q : q = [video |-> v, x |-> 0, y |-> b] =>
                   [q EXCEPT !.y = z] = [video |-> v, x |-> 0, y |-> z]
      OBVIOUS
    <3>5. [r EXCEPT !.x = 0, !.y = z] = [video |-> v, x |-> 0, y |-> z]
      BY <3>2, <3>3, <3>4
    <3> QED BY <3>1, <3>5
  <2> QED BY <1>1, <2>1, <2>2, <2>3 DEF Home
<1> QED BY <1>2, <1>3

\* All rows of a scroll at once.
LEMMA ScrollWhole ==
  ASSUME NEW v, NEW p, SheetOK(p), Scrolling(v, 0, VGA_HEIGHT, p, 0),
         NEW h, h = Home(ScrollRows(View(v, 0, VGA_HEIGHT)))
  PROVE  /\ h = View(h.video, h.x, h.y) /\ CursorOK(h.video, h.x, h.y)
         /\ Rests(h.video, h.x, h.y, p)
<1>1. PICK w : w = View(v, 0, VGA_HEIGHT) OBVIOUS
<1>2. w = [video |-> w.video, x |-> w.x, y |-> w.y] /\ w.video = v BY <1>1 DEF View
<1>3. /\ h = [video |-> h.video, x |-> h.x, y |-> h.y]
      /\ h.x = 0 /\ h.y = VGA_HEIGHT - 1 /\ h.video = [i \in Cells |-> h.video[i]]
      /\ \A i \in Cells : i < Screen - VGA_WIDTH => h.video[i] = w.video[i + VGA_WIDTH]
      /\ \A i \in Cells : i >= Screen - VGA_WIDTH /\ i < Screen => h.video[i] = Blank
  BY <1>1, <1>2, ScrollHome
<1>4. CursorOK(h.video, h.x, h.y) BY <1>3, Sizes DEF CursorOK
<1>5. p.line \in Nat /\ p.line >= VGA_HEIGHT /\ p.x = 0 BY DEF Scrolling, SheetOK
<1>6. Shows(h.video, p.ink, p.line - (VGA_HEIGHT - 1))
  <2> SUFFICES ASSUME NEW i \in Rows, NEW j \in Columns
               PROVE  h.video[Place(i, j)] =
                        InkAt(p.ink, (p.line - (VGA_HEIGHT - 1)) + i, j)
    BY DEF Shows
  <2>1. i \in Nat /\ i < VGA_HEIGHT BY Sizes DEF Rows
  <2>2. /\ Place(i, j) \in Nat /\ Place(i, j) < Screen /\ Place(i, j) \in Cells
        /\ Place(i + 1, j) = Place(i, j) + VGA_WIDTH
        /\ i = VGA_HEIGHT - 1 <=> Place(i, j) >= Screen - VGA_WIDTH
    BY Places
  <2>3. PICK l \in Nat : l = (p.line - (VGA_HEIGHT - 1)) + i BY <1>5, <2>1, Sizes
  <2>4. CASE i = VGA_HEIGHT - 1
    <3>1. l = p.line BY <1>5, <2>1, <2>3, <2>4, Sizes
    <3>2. \A a \in DOMAIN p.ink : a[1] \in 0 .. p.line - 1 BY DEF Scrolling, InkAbove
    <3>3. <<p.line, j>>[1] = p.line /\ p.line \notin 0 .. p.line - 1 BY <1>5
    <3>4. <<p.line, j>> \notin DOMAIN p.ink BY <3>2, <3>3, Zenon
    <3>5. InkAt(p.ink, l, j) = Blank BY <3>1, <3>4 DEF InkAt
    <3>6. h.video[Place(i, j)] = Blank BY <1>3, <2>2, <2>4
    <3> QED BY <2>3, <3>5, <3>6
  <2>5. CASE i # VGA_HEIGHT - 1
    <3>1. i + 1 \in Rows /\ ~(i + 1 < 0) BY <2>1, <2>5, Sizes DEF Rows
    <3>2. v[Place(i + 1, j)] = InkAt(p.ink, (p.line - VGA_HEIGHT) + (i + 1), j)
      BY <3>1 DEF Scrolling
    <3>3. (p.line - VGA_HEIGHT) + (i + 1) = l BY <1>5, <2>1, <2>3, Sizes
    <3>4. Place(i, j) < Screen - VGA_WIDTH
      <4>1. Screen \in Int /\ VGA_WIDTH \in Int BY Sizes DEF Screen
      <4> QED BY <2>2, <2>5, <4>1
    <3>5. h.video[Place(i, j)] = v[Place(i + 1, j)] BY <1>2, <1>3, <2>2, <3>4
    <3> QED BY <2>3, <3>2, <3>3, <3>5
  <2> QED BY <2>4, <2>5
<1>7. Aligned(p, VGA_HEIGHT - 1) BY <1>5, Sizes DEF Aligned
<1>8. VGA_HEIGHT - 1 < VGA_HEIGHT BY Sizes
<1>9. Rests(h.video, h.x, h.y, p) BY <1>3, <1>5, <1>6, <1>7, <1>8 DEF Rests
<1> QED BY <1>3, <1>4, <1>9 DEF View

\* A whole character, from one rest to the next.
LEMMA CharKept ==
  ASSUME NEW v, NEW x, NEW y, NEW p, SheetOK(p), CursorOK(v, x, y), Rests(v, x, y, p),
         NEW c, NEW h, h = monitor_print_char(View(v, x, y), c)
  PROVE  /\ SheetOK(OnPaper(p, c)) /\ CursorOK(h.video, h.x, h.y)
         /\ Rests(h.video, h.x, h.y, OnPaper(p, c))
<1>1. PICK q : q = OnPaper(p, c) OBVIOUS
<1>2. PICK s : s = Put(View(v, x, y), c) OBVIOUS
<1>3. /\ s = View(s.video, s.x, s.y) /\ SheetOK(q)
      /\ CursorOK(s.video, s.x, s.y) /\ Unwrapped(s.video, s.x, s.y, q)
  BY <1>1, <1>2, PutUnwrapped
<1>4. PICK w : w = Wrap(s) OBVIOUS
<1>5. /\ w = View(s.video, w.x, w.y) /\ w.video = s.video /\ CursorOK(s.video, w.x, w.y)
      /\ MustScroll(w) => Scrolling(s.video, w.x, w.y, q, 0)
      /\ ~MustScroll(w) => Rests(s.video, w.x, w.y, q)
  BY <1>3, <1>4, WrapKeeps
<1>6. h = IF MustScroll(w) THEN Home(ScrollRows(w)) ELSE w
  BY <1>2, <1>4 DEF monitor_print_char, scroll_screen
<1>7. CASE MustScroll(w)
  <2>1. Scrolling(s.video, w.x, w.y, q, 0) BY <1>5, <1>7
  <2>2. w.x = 0 /\ w.y = VGA_HEIGHT BY <2>1 DEF Scrolling
  <2>3. h = Home(ScrollRows(View(s.video, 0, VGA_HEIGHT))) BY <1>5, <1>6, <1>7, <2>2
  <2>4. Scrolling(s.video, 0, VGA_HEIGHT, q, 0) BY <2>1, <2>2
  <2>5. CursorOK(h.video, h.x, h.y) /\ Rests(h.video, h.x, h.y, q)
    BY <1>3, <2>3, <2>4, ScrollWhole
  <2> QED BY <1>1, <1>3, <2>5
<1>8. CASE ~MustScroll(w)
  <2>1. h = w BY <1>6, <1>8
  <2>2. Rests(s.video, w.x, w.y, q) BY <1>5, <1>8
  <2>3. CursorOK(h.video, h.x, h.y) /\ Rests(h.video, h.x, h.y, q) BY <1>5, <2>1, <2>2
  <2> QED BY <1>1, <1>3, <2>3
<1> QED BY <1>7, <1>8

\* Any character brings the cursor back to the screen, wherever it was left.
LEMMA FirstChar ==
  ASSUME NEW v, NEW x, NEW y, CursorOK(v, x, y), NEW c,
         NEW h, h = monitor_print_char(View(v, x, y), c)
  PROVE  /\ h = View(h.video, h.x, h.y) /\ CursorOK(h.video, h.x, h.y)
         /\ h.x \in Columns /\ h.y \in Rows
<1>0. BS # TAB /\ BS # NL /\ BS # CR /\ TAB # NL /\ TAB # CR /\ NL # CR
  BY DEF BS, TAB, NL, CR
<1>1. x \in Nat /\ y \in Nat /\ v = [i \in Cells |-> v[i]] BY Sizes DEF CursorOK
<1>2. PICK a, b, d : /\ Put(View(v, x, y), c) = View(a, b, d)
                     /\ a = [i \in Cells |-> a[i]] /\ b \in Nat /\ d \in Nat
  <2>1. CASE c = BS /\ x > 0
    <3>1. Put(View(v, x, y), c) = View(v, x - 1, y) BY <1>0, <2>1 DEF Put, View
    <3>2. x - 1 \in Nat BY <1>1, <2>1
    <3> QED BY <1>1, <3>1, <3>2
  <2>2. CASE c = TAB
    <3>1. Put(View(v, x, y), c) = View(v, ((x + TabStop) \div TabStop) * TabStop, y)
      BY <1>0, <2>2 DEF Put, View
    <3>2. PICK q \in Nat : q = (x + TabStop) \div TabStop BY <1>1, Sizes
    <3>3. q * TabStop \in Nat BY <3>2, Sizes
    <3> QED BY <1>1, <3>1, <3>2, <3>3
  <2>3. CASE c = NL
    <3>1. Put(View(v, x, y), c) = View(v, 0, y + 1) BY <1>0, <2>3 DEF Put, View
    <3> QED BY <1>1, <3>1
  <2>4. CASE c = CR
    <3>1. Put(View(v, x, y), c) = View(v, 0, y) BY <1>0, <2>4 DEF Put, View
    <3> QED BY <1>1, <3>1
  <2>5. CASE ~(c = BS /\ x > 0) /\ c \notin {TAB, NL, CR}
    <3>1. PICK w : w = [v EXCEPT ![y * VGA_WIDTH + x] = c] OBVIOUS
    <3>2. Put(View(v, x, y), c) = View(w, x + 1, y) BY <1>0, <2>5, <3>1 DEF Put, View
    <3>3. w = [i \in Cells |-> w[i]] BY <1>1, <3>1
    <3> QED BY <1>1, <3>2, <3>3
  <2> QED BY <2>1, <2>2, <2>3, <2>4, <2>5
<1>3. PICK w : w = Wrap(View(a, b, d)) OBVIOUS
<1>4. /\ w = View(a, w.x, w.y) /\ w.video = a
      /\ w.x \in Nat /\ w.x < VGA_WIDTH /\ w.y \in Nat
  <2>1. CASE b >= VGA_WIDTH
    <3>1. w = View(a, 0, d + 1) BY <1>3, <2>1 DEF Wrap, View
    <3>2. w.video = a /\ w.x = 0 /\ w.y = d + 1 BY <3>1 DEF View
    <3> QED BY <1>2, <3>1, <3>2, Sizes
  <2>2. CASE ~(b >= VGA_WIDTH)
    <3>1. w = View(a, b, d) BY <1>3, <2>2 DEF Wrap, View
    <3>2. w.video = a /\ w.x = b /\ w.y = d BY <3>1 DEF View
    <3> QED BY <1>2, <2>2, <3>1, <3>2, Sizes
  <2> QED BY <2>1, <2>2
<1>5. h = IF MustScroll(w) THEN Home(ScrollRows(w)) ELSE w
  BY <1>2, <1>3 DEF monitor_print_char, scroll_screen
<1>6. CASE MustScroll(w)
  <2>0. h = Home(ScrollRows(w)) BY <1>5, <1>6
  <2>1. w = [video |-> w.video, x |-> w.x, y |-> w.y] BY <1>4 DEF View
  <2>2. /\ h = [video |-> h.video, x |-> h.x, y |-> h.y]
        /\ h.x = 0 /\ h.y = VGA_HEIGHT - 1 /\ h.video = [i \in Cells |-> h.video[i]]
    BY <2>0, <2>1, ScrollHome
  <2> QED BY <2>2, Sizes DEF View, CursorOK, Columns, Rows
<1>7. CASE ~MustScroll(w)
  <2>1. h = w /\ w.y < VGA_HEIGHT BY <1>4, <1>5, <1>7, Sizes DEF MustScroll
  <2>2. w.video = [i \in Cells |-> w.video[i]] BY <1>2, <1>4
  <2>3. h = View(h.video, h.x, h.y) BY <1>4, <2>1
  <2>4. h.x \in Columns /\ h.y \in Rows BY <1>4, <2>1, Sizes DEF Columns, Rows
  <2>5. CursorOK(w.video, w.x, w.y) BY <1>4, <2>1, <2>2, Sizes DEF CursorOK
  <2> QED BY <2>1, <2>3, <2>4, <2>5
<1> QED BY <1>6, <1>7

\* The sheet of the rest of the message begins as the screen is.
LEMMA SheetBegins ==
  ASSUME NEW h, h.x \in Columns, h.y \in Rows
  PROVE  SheetOK(PaperOf(h)) /\ Rests(h.video, h.x, h.y, PaperOf(h))
<1>1. PICK ink : ink = [a \in Rows \X Columns |-> h.video[a[1] * VGA_WIDTH + a[2]]] OBVIOUS
<1>2. PICK p : p = [line |-> h.y, x |-> h.x, ink |-> ink] OBVIOUS
<1>3. PaperOf(h) = p BY <1>1, <1>2 DEF PaperOf, Rows, Columns
<1>4. p.line = h.y /\ p.x = h.x /\ p.ink = ink BY <1>2
<1>5. h.y \in Nat /\ h.y < VGA_HEIGHT BY Sizes DEF Rows
<1>6. Bottom(p) = VGA_HEIGHT BY <1>4, <1>5, Sizes DEF Bottom
<1>7. InkAbove(ink, VGA_HEIGHT)
  <2>1. \A a \in Rows \X Columns : a[1] \in Rows OBVIOUS
  <2>2. DOMAIN ink = Rows \X Columns BY <1>1
  <2> QED BY <2>1, <2>2 DEF InkAbove, Rows
<1>8. SheetOK(p) BY <1>2, <1>4, <1>5, <1>6, <1>7 DEF SheetOK
<1>9. Shows(h.video, ink, h.y - h.y)
  <2> SUFFICES ASSUME NEW i \in Rows, NEW j \in Columns
               PROVE  h.video[Place(i, j)] = InkAt(ink, (h.y - h.y) + i, j)
    BY DEF Shows
  <2>1. (h.y - h.y) + i = i BY <1>5, Sizes DEF Rows
  <2>2. <<i, j>> \in Rows \X Columns /\ <<i, j>>[1] = i /\ <<i, j>>[2] = j OBVIOUS
  <2>3. ink[<<i, j>>] = h.video[i * VGA_WIDTH + j] /\ <<i, j>> \in DOMAIN ink
    BY <1>1, <2>2
  <2> QED BY <2>1, <2>3 DEF InkAt, Place
<1>10. Aligned(p, h.y) BY <1>4, <1>5 DEF Aligned
<1>11. Rests(h.video, h.x, h.y, p) BY <1>4, <1>5, <1>9, <1>10 DEF Rests
<1> QED BY <1>3, <1>8, <1>11

\* The characters of a panic.
LEMMA PanicScreen ==
  ASSUME ScreenInv, NEW c, NEW s, s = monitor_print_char(screen, c),
         Show(s), hw_cursor' = Position(s), panicked',
         \/ ~panicked /\ paper' = PaperOf(s)
         \/ panicked /\ paper' = OnPaper(paper, c)
  PROVE  ScreenInv'
<1>1. screen = View(video_memory, cursor_x, cursor_y) BY DEF screen, View
<1>2. PaperInv /\ CursorInv BY DEF ScreenInv
<1>3. video_memory' = s.video /\ cursor_x' = s.x /\ cursor_y' = s.y BY DEF Show
<1>4. SheetOK(paper') /\ CursorOK(s.video, s.x, s.y) /\ Rests(s.video, s.x, s.y, paper')
  <2>1. CASE ~panicked /\ paper' = PaperOf(s)
    <3>1. CursorOK(s.video, s.x, s.y) /\ s.x \in Columns /\ s.y \in Rows
      BY <1>1, <1>2, FirstChar DEF CursorInv
    <3> QED BY <2>1, <3>1, SheetBegins
  <2>2. CASE panicked /\ paper' = OnPaper(paper, c)
    <3>1. Rests(video_memory, cursor_x, cursor_y, paper) BY <2>2 DEF ScreenInv
    <3> QED BY <1>1, <1>2, <2>2, <3>1, CharKept DEF PaperInv, CursorInv
  <2> QED BY <2>1, <2>2
<1>5. hw_cursor' = Place(cursor_y', cursor_x') BY <1>3 DEF Position, Place
<1> QED BY <1>3, <1>4, <1>5 DEF ScreenInv, PaperInv, CursorInv

\* Every step of every thread, and of a panic.
LEMMA ScreenStep ==
  ASSUME PrintInv, ScreenInv, [Next]_vars
  PROVE  ScreenInv'
<1>1. PaperInv /\ CursorInv BY DEF ScreenInv
<1>2. CASE UNCHANGED vars
  <2>1. /\ UNCHANGED <<video_memory, cursor_x, cursor_y, hw_cursor, row, paper>>
        /\ pc' = pc /\ panicked' = panicked
    BY <1>2 DEF vars, screenVars, history
  <2>2. CASE panicked BY <1>1, <2>1, <2>2 DEF ScreenInv, PaperInv, CursorInv
  <2>3. CASE ~panicked
    <3>1. LabelInv BY <2>3 DEF ScreenInv
    <3>2. PaperInv' /\ CursorInv' /\ LabelInv' BY <1>1, <2>1, <3>1, LabelSame
    <3> QED BY <2>1, <2>3, <3>2 DEF ScreenInv
  <2> QED BY <2>2, <2>3
<1>3. ASSUME NEW t \in Threads,
             Step(t) \/ ClearCall(t) \/ \E str \in Texts : PrintCall(t, str)
      PROVE  ScreenInv'
  <2>1. ~panicked /\ ~panicked'
    BY <1>3 DEF Step, ClearCall, PrintCall, Lock, PutStep, WrapStep, ScrollStep,
       ScrollDone, ClearStep, ClearDone, mov_cursor, Unlock, At
  <2>2. LabelInv BY <2>1 DEF ScreenInv
  <2>3. PaperInv' /\ CursorInv' /\ LabelInv'
    BY <1>1, <1>3, <2>2, EdgeScreen, SectionScreen DEF Step
  <2> QED BY <2>1, <2>3 DEF ScreenInv
<1>4. ASSUME NEW str \in PanicTexts, Panic(str) PROVE ScreenInv'
  <2>1. PICK s : s = monitor_print_char(screen, Head(str)) OBVIOUS
  <2>2. /\ ~panicked /\ panicked' /\ Show(s) /\ hw_cursor' = Position(s)
        /\ paper' = PaperOf(s)
    BY <1>4, <2>1 DEF Panic
  <2> QED BY <2>1, <2>2, PanicScreen
<1>5. CASE PanicPut
  <2>1. PICK s : s = monitor_print_char(screen, Head(message)) OBVIOUS
  <2>2. /\ panicked /\ panicked' /\ Show(s) /\ hw_cursor' = Position(s)
        /\ paper' = OnPaper(paper, Head(message))
    BY <1>5, <2>1 DEF PanicPut
  <2> QED BY <2>1, <2>2, PanicScreen
<1> QED BY <1>2, <1>3, <1>4, <1>5 DEF Next, Halted

\* While nobody prints, and after every character of a panic, the screen is at rest.
LEMMA ScreenAtRest ==
  ASSUME PrintInv, ScreenInv, ~monitor_lock \/ panicked
  PROVE  ShowsPaper
<1>1. ~monitor_lock => \A t \in Threads : ~Printing(t) BY DEF PrintInv, LockInv
<1>2. PaperInv /\ CursorInv BY DEF ScreenInv
<1>3. /\ Rests(video_memory, cursor_x, cursor_y, paper)
      /\ hw_cursor = Place(cursor_y, cursor_x)
  <2>1. CASE panicked BY <2>1 DEF ScreenInv
  <2>2. CASE ~panicked
    <3>1. LabelInv /\ \A t \in Threads : ~Printing(t) BY <1>1, <2>2 DEF ScreenInv
    <3> QED BY <3>1 DEF LabelInv, Printing
  <2> QED BY <2>1, <2>2
<1>4. cursor_y = IF paper.line < VGA_HEIGHT THEN paper.line ELSE VGA_HEIGHT - 1
  BY <1>2, <1>3, Sizes DEF Rests, Aligned, PaperInv, SheetOK, CursorInv, CursorOK
<1>5. hw_cursor = Position(screen) BY <1>3 DEF Position, screen, Place
<1>6. cursor_x = paper.x BY <1>3 DEF Rests
<1>7. \A y \in 0 .. VGA_HEIGHT - 1, x \in 0 .. VGA_WIDTH - 1 :
        video_memory[y * VGA_WIDTH + x] = InkAt(paper.ink, (paper.line - cursor_y) + y, x)
  BY <1>3 DEF Rests, Shows, Place, Rows, Columns
<1> QED BY <1>4, <1>5, <1>6, <1>7 DEF InkAt, ShowsPaper

\* In the middle of every call the screen shows as much as has been done of it.
THEOREM ScreenInvariant == Spec => []ScreenInv
<1>1. Init => ScreenInv BY ScreenInit
<1>2. PrintInv /\ ScreenInv /\ [Next]_vars => ScreenInv' BY ScreenStep
<1> QED BY <1>1, <1>2, PrintInvariant, PTL DEF Spec

\* The screen of monitor.c is the end of an endless sheet whenever nobody prints:
\* no order of wraps, tabs, backspaces, scrolls and clears moves a character.
THEOREM ScreenAlways == Spec => []ScreenIsPaper
<1>1. PrintInv /\ ScreenInv => ScreenIsPaper BY ScreenAtRest DEF ScreenIsPaper
<1> QED BY <1>1, PrintInvariant, ScreenInvariant, PTL

\* The message of a panic is on the screen, but for its first character at most, with
\* its new lines, and nothing else is disturbed, wherever in a print, a scroll or a
\* clear it strikes and however long it is.
THEOREM PanicAlways == Spec => []PanicShown
<1>1. PrintInv /\ ScreenInv => PanicShown BY ScreenAtRest DEF PanicShown
<1> QED BY <1>1, PrintInvariant, ScreenInvariant, PTL
=============================================================================
