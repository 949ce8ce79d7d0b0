------------------------------ MODULE Monitor ------------------------------
(***************************************************************************)
(* The text console of src/src/monitor/monitor.c: a cursor, the video      *)
(* memory, wrapping, scrolling, and monitor_lock around the text of one    *)
(* call.  Threads print under the lock and can be preempted anywhere in    *)
(* it; Panic and a failed Assert (src/src/common/secure.c) turn interrupts *)
(* off and print without the lock, into whatever another thread has left   *)
(* half done: their messages have new lines in them, and that of a failed  *)
(* Assert begins with two.                                                 *)
(*                                                                         *)
(* A text is the sequence of characters that a call prints: what           *)
(* monitor_printf makes of its format and arguments is left out, and so is *)
(* the color.                                                              *)
(***************************************************************************)
EXTENDS Naturals, Sequences, SequencesExt

CONSTANTS
  VGA_WIDTH, VGA_HEIGHT,
  TabStop,      \* 8
  Threads,
  Texts,        \* what threads print
  PanicTexts,   \* what panics print
  MaxPrints     \* bound: calls in a run

Blank == " "
BS == "BS"
TAB == "TAB"
NL == "NL"
CR == "CR"

ASSUME MonitorAssumption ==
  /\ VGA_WIDTH \in Nat \ {0} /\ VGA_HEIGHT \in Nat \ {0}
  /\ TabStop \in Nat \ {0} /\ VGA_WIDTH % TabStop = 0
  /\ MaxPrints \in Nat
  /\ \A str \in Texts \cup PanicTexts : str \in Seq(ToSet(str))
  /\ <<>> \notin PanicTexts

VARIABLES
  video_memory,         \* the text page, of which the screen is the first part
  cursor_x, cursor_y,
  hw_cursor,            \* the cursor register of the VGA controller
  monitor_lock,
  pc,                   \* where each thread is
  text,                 \* what it has still to print
  row,                  \* the next row scroll_screen moves
  panicked,
  message,              \* what a panic has still to print
  calls,                \* how many prints have begun
  output,               \* history: who printed each character, and had how many more
  paper                 \* history: the same text on paper of endless length

screenVars == <<video_memory, cursor_x, cursor_y>>
history == <<calls, output, paper>>
vars == <<screenVars, hw_cursor, monitor_lock, pc, text, row, panicked, message, history>>

Screen == VGA_WIDTH * VGA_HEIGHT

\* The page goes on behind the screen.
Cells == 0 .. Screen + 2 * VGA_WIDTH - 1

\* An endless sheet: the line and column to print at, and what is where.
BlankPaper == [line |-> 0, x |-> 0, ink |-> <<>>]

\* monitor_clear, which boot calls; nothing is printed yet.
Init ==
  /\ video_memory = [i \in Cells |-> Blank]
  /\ cursor_x = 0 /\ cursor_y = 0 /\ hw_cursor = 0
  /\ monitor_lock = FALSE
  /\ pc = [t \in Threads |-> "idle"]
  /\ text = [t \in Threads |-> <<>>]
  /\ row = 0
  /\ panicked = FALSE /\ message = <<>>
  /\ calls = 0 /\ output = <<>>
  /\ paper = BlankPaper

-----------------------------------------------------------------------------
(* The parts of monitor_print_char, as functions of the screen             *)
(* s = [video, x, y]                                                       *)

screen == [video |-> video_memory, x |-> cursor_x, y |-> cursor_y]

\* The screen becomes s.
Show(s) == video_memory' = s.video /\ cursor_x' = s.x /\ cursor_y' = s.y

\* The character itself.  A backspace in column 0 is printed like a letter.
Put(s, c) ==
  CASE c = BS /\ s.x > 0 -> [s EXCEPT !.x = @ - 1]
    [] c = TAB -> [s EXCEPT !.x = ((@ + TabStop) \div TabStop) * TabStop]
    [] c = NL -> [s EXCEPT !.x = 0, !.y = @ + 1]
    [] c = CR -> [s EXCEPT !.x = 0]
    [] OTHER -> [s EXCEPT !.video[s.y * VGA_WIDTH + s.x] = c, !.x = @ + 1]

\* Mutant: a line is one column too long.
WrapLate(s) ==
  IF s.x > VGA_WIDTH THEN [s EXCEPT !.x = 0, !.y = @ + 1] ELSE s

Wrap(s) == IF s.x >= VGA_WIDTH THEN [s EXCEPT !.x = 0, !.y = @ + 1] ELSE s

MustScroll(s) == s.y >= VGA_HEIGHT

Row(r) == {i \in Cells : i \div VGA_WIDTH = r}

BlankRow(s, r) ==
  [s EXCEPT !.video = [i \in Cells |-> IF i \in Row(r) THEN Blank ELSE @[i]]]

\* One row of scroll_screen: a copy of the row below, or blanks in the last.
ScrollRow(s, r) ==
  IF r = VGA_HEIGHT - 1 THEN BlankRow(s, r)
  ELSE [s EXCEPT !.video =
          [i \in Cells |-> IF i \in Row(r) THEN @[i + VGA_WIDTH] ELSE @[i]]]

\* Mutant: the cursor stays behind the screen.
HomeKept(s) == s

Home(s) == [s EXCEPT !.x = 0, !.y = VGA_HEIGHT - 1]

\* All rows at once: each one is copied before it is overwritten.
ScrollRows(s) ==
  [s EXCEPT !.video =
     [i \in Cells |-> CASE i < Screen - VGA_WIDTH -> @[i + VGA_WIDTH]
                       [] i >= Screen - VGA_WIDTH /\ i < Screen -> Blank
                       [] i >= Screen -> @[i]]]

scroll_screen(s) == IF MustScroll(s) THEN Home(ScrollRows(s)) ELSE s

monitor_print_char(s, c) == scroll_screen(Wrap(Put(s, c)))

\* mov_cursor
Position(s) == s.y * VGA_WIDTH + s.x

-----------------------------------------------------------------------------
(* Paper: the same character where lines only ever go up *)

OnPaper(p, c) ==
  LET here == <<p.line, p.x>>
      ink == [a \in (DOMAIN p.ink) \cup {here} |-> IF a = here THEN c ELSE p.ink[a]]
      Down(q) == IF q.x < VGA_WIDTH THEN q
                 ELSE [q EXCEPT !.x = 0, !.line = @ + 1]
  IN CASE c = BS /\ p.x > 0 -> [p EXCEPT !.x = @ - 1]
       [] c = TAB -> Down([p EXCEPT !.x = ((@ + TabStop) \div TabStop) * TabStop])
       [] c = NL -> [p EXCEPT !.x = 0, !.line = @ + 1]
       [] c = CR -> [p EXCEPT !.x = 0]
       [] OTHER -> Down([p EXCEPT !.x = @ + 1, !.ink = ink])

\* A sheet that begins as the screen s is.
PaperOf(s) ==
  [line |-> s.y, x |-> s.x,
   ink |-> [a \in (0 .. VGA_HEIGHT - 1) \X (0 .. VGA_WIDTH - 1) |->
              s.video[a[1] * VGA_WIDTH + a[2]]]]

-----------------------------------------------------------------------------
(* monitor_print and monitor_printf *)

At(t, l) == ~panicked /\ pc[t] = l

Goto(t, l) == pc' = [pc EXCEPT ![t] = l]

PrintCall(t, str) ==
  /\ At(t, "idle")
  /\ calls < MaxPrints
  /\ calls' = calls + 1
  /\ text' = [text EXCEPT ![t] = str]
  /\ Goto(t, "lock")
  /\ UNCHANGED <<screenVars, hw_cursor, monitor_lock, row, panicked, message, output, paper>>

\* monitor_clear, called when a program leaves graphics mode.
ClearCall(t) ==
  /\ At(t, "idle")
  /\ calls < MaxPrints
  /\ calls' = calls + 1
  /\ Goto(t, "lockclear")
  /\ UNCHANGED <<screenVars, hw_cursor, monitor_lock, text, row, panicked, message, output, paper>>

\* Mutant: the lock is taken without a look at who has it.
LockBlindly == monitor_lock' = TRUE

\* yieldlock_lock; a thread that finds it taken yields and tries again.
LockFree == ~monitor_lock /\ monitor_lock' = TRUE

Lock(t) ==
  /\ LockFree
  /\ \/ At(t, "lock") /\ Goto(t, "put") /\ UNCHANGED row
     \/ At(t, "lockclear") /\ Goto(t, "clear") /\ row' = 0
  /\ UNCHANGED <<screenVars, hw_cursor, text, panicked, message, history>>

PutStep(t) ==
  /\ At(t, "put")
  /\ text[t] # <<>>
  /\ Show(Put(screen, Head(text[t])))
  /\ paper' = OnPaper(paper, Head(text[t]))
  /\ output' = Append(output, [who |-> t, more |-> Len(text[t]) - 1])
  /\ text' = [text EXCEPT ![t] = Tail(@)]
  /\ Goto(t, "wrap")
  /\ UNCHANGED <<hw_cursor, monitor_lock, row, panicked, message, calls>>

WrapStep(t) ==
  /\ At(t, "wrap")
  /\ Show(Wrap(screen))
  /\ row' = 0
  /\ Goto(t, IF MustScroll(Wrap(screen)) THEN "scroll" ELSE "cursor")
  /\ UNCHANGED <<hw_cursor, monitor_lock, text, panicked, message, history>>

ScrollStep(t) ==
  /\ At(t, "scroll")
  /\ row < VGA_HEIGHT
  /\ Show(ScrollRow(screen, row))
  /\ row' = row + 1
  /\ UNCHANGED <<hw_cursor, monitor_lock, pc, text, panicked, message, history>>

ScrollDone(t) ==
  /\ At(t, "scroll")
  /\ row = VGA_HEIGHT
  /\ Show(Home(screen)) /\ hw_cursor' = Position(Home(screen))
  /\ Goto(t, "cursor")
  /\ UNCHANGED <<monitor_lock, text, row, panicked, message, history>>

ClearStep(t) ==
  /\ At(t, "clear")
  /\ row < VGA_HEIGHT
  /\ Show(BlankRow(screen, row))
  /\ row' = row + 1
  /\ UNCHANGED <<hw_cursor, monitor_lock, pc, text, panicked, message, history>>

ClearDone(t) ==
  /\ At(t, "clear")
  /\ row = VGA_HEIGHT
  /\ Show([screen EXCEPT !.x = 0, !.y = 0])
  /\ paper' = BlankPaper
  /\ Goto(t, "cursor")
  /\ UNCHANGED <<hw_cursor, monitor_lock, text, row, panicked, message, calls, output>>

mov_cursor(t) ==
  /\ At(t, "cursor")
  /\ hw_cursor' = Position(screen)
  /\ Goto(t, "put")
  /\ UNCHANGED <<screenVars, monitor_lock, text, row, panicked, message, history>>

Unlock(t) ==
  /\ At(t, "put")
  /\ text[t] = <<>>
  /\ monitor_lock' = FALSE
  /\ Goto(t, "idle")
  /\ UNCHANGED <<screenVars, hw_cursor, text, row, panicked, message, history>>

\* Panic, panic_spin: after the cli nobody else runs.  The first character of the
\* message goes wherever the cursor was left; the sheet for the others begins as
\* the screen it leaves.
Panic(str) ==
  /\ ~panicked /\ panicked' = TRUE
  /\ LET s == monitor_print_char(screen, Head(str))
     IN Show(s) /\ hw_cursor' = Position(s) /\ paper' = PaperOf(s)
  /\ message' = Tail(str)
  /\ UNCHANGED <<monitor_lock, pc, text, row, calls, output>>

PanicPut ==
  /\ panicked /\ message # <<>>
  /\ LET s == monitor_print_char(screen, Head(message))
     IN Show(s) /\ hw_cursor' = Position(s)
  /\ paper' = OnPaper(paper, Head(message))
  /\ message' = Tail(message)
  /\ UNCHANGED <<monitor_lock, pc, text, row, panicked, calls, output>>

Halted == panicked /\ message = <<>> /\ UNCHANGED vars

Step(t) ==
  \/ Lock(t) \/ PutStep(t) \/ WrapStep(t) \/ ScrollStep(t) \/ ScrollDone(t)
  \/ ClearStep(t) \/ ClearDone(t) \/ mov_cursor(t) \/ Unlock(t)

Next ==
  \/ \E t \in Threads :
       Step(t) \/ ClearCall(t) \/ \E str \in Texts : PrintCall(t, str)
  \/ \E str \in PanicTexts : Panic(str)
  \/ PanicPut
  \/ Halted

Spec == Init /\ [][Next]_vars

-----------------------------------------------------------------------------
\* The screen shows the last lines of the paper, the cursor stands where the
\* paper's does, and the hardware knows it.
ShowsPaper ==
  /\ cursor_x = paper.x
  /\ cursor_y = IF paper.line < VGA_HEIGHT THEN paper.line ELSE VGA_HEIGHT - 1
  /\ hw_cursor = Position(screen)
  /\ \A y \in 0 .. VGA_HEIGHT - 1, x \in 0 .. VGA_WIDTH - 1 :
       LET a == <<paper.line - cursor_y + y, x>>
       IN video_memory[y * VGA_WIDTH + x] =
            IF a \in DOMAIN paper.ink THEN paper.ink[a] ELSE Blank

\* Whenever nobody is printing, the screen shows the last lines of what was ever
\* printed: no order of wraps, tabs, backspaces and scrolls loses or moves a
\* character.
ScreenIsPaper == ~monitor_lock /\ ~panicked => ShowsPaper

\* The text of one call is not cut by the text of another: a thread that has
\* more to print is the one that prints next.
PrintsWhole ==
  \A i \in 1 .. Len(output) - 1 :
    output[i].more > 0 => output[i + 1] = [output[i] EXCEPT !.more = @ - 1]

\* A panic that strikes a print anywhere, also between a step of the cursor and
\* the scroll it calls for, or in the middle of a scroll or a clear, still gets its
\* message on the screen, new lines included, and disturbs nothing else there: at
\* most the first character is lost.
PanicShown == panicked => ShowsPaper
=============================================================================
