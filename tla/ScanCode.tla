------------------------------ MODULE ScanCode ------------------------------
(***************************************************************************)
(* From keys to events: the scan code decoder of                           *)
(* src/src/driver/keyboard_read.c and the part of                          *)
(* keyboard_interrupt_handler (kerboard.c) that takes its results.         *)
(*                                                                         *)
(* Bytes are those of scan code set 1: a key sends its code when it goes   *)
(* down and the code plus 128 when it comes up; some keys send several     *)
(* bytes.  A character is the code of the key it is printed on and the     *)
(* level (plain, shift, ctl) at which it is printed there; the keys that   *)
(* are sent with the prefix E0 have codes from 128 on.                     *)
(***************************************************************************)
EXTENDS Naturals, Sequences, FiniteSets

CONSTANTS
  Keys,      \* the keys that are used
  MaxDown,   \* bound on the keys held at once
  MaxLost    \* bound on the bytes that are lost on the way

Names == {"lshift", "rshift", "lctl", "rctl", "lalt", "ralt", "caps", "num",
          "a", "8", "np8", "up", "pause", "prtsc"}

ASSUME ScanCodeAssumption ==
  Keys \subseteq Names /\ MaxDown \in Nat /\ MaxLost \in Nat

Held  == {"lshift", "rshift", "lctl", "rctl", "lalt", "ralt"}
Locks == {"caps", "num"}

E0 == 224

VARIABLES
  dec,        \* key_state, key_internal_state and key_sequence of the decoder
  key_state,  \* key_state[256] of kerboard.c: the characters that are down
  down,       \* the keys that are down
  locks,      \* the locks that an odd number of make codes has switched
  line,       \* bytes on their way
  last,       \* history: the key that was used last, and how many keys have
              \* sent their bytes since one was lost (2 stands for more)
  events,     \* history: the events it gave
  lost        \* bytes lost so far

vars == <<dec, key_state, down, locks, line, last, events, lost>>

Chars == [code : 0 .. 255, level : {"plain", "shift", "ctl"}]

TypeOK ==
  /\ dec.mods \subseteq Held \cup Locks
  /\ dec.internal \subseteq {"ext", "pause", "prscr_down", "prscr_up"}
  /\ dec.seq \in 0 .. 4
  /\ key_state \subseteq Chars
  /\ down \subseteq Keys /\ locks \subseteq Locks
  /\ line \in Seq(0 .. 255)
  /\ events \in Seq([char : Chars, raw : Chars, make : BOOLEAN])
  /\ lost \in 0 .. MaxLost

-----------------------------------------------------------------------------
(* The layout *)

Letters  == 16 .. 27 \cup 30 .. 38 \cup 44 .. 50   \* KHS_SHIFTCAPSCTL
ShiftCtl == {3, 7, 12, 43}                         \* KHS_SHIFTCTL
Shifts   == {2, 4, 5, 6} \cup 8 .. 11 \cup {13} \cup 39 .. 41 \cup 51 .. 53
Plain    == {1, 14, 15, 28, 57} \cup 59 .. 68 \cup {87, 88}

Char(code, level) == [code |-> code, level |-> level]

\* The keys of the numeric pad give characters of the main keys.
NumpadOf ==
  <<71, 72, 73, 74, 75, 76, 77, 79, 80, 81, 82, 83, 55, 78>>
NumpadChars ==
  <<Char(8, "plain"), Char(9, "plain"), Char(10, "plain"), Char(12, "plain"),
    Char(5, "plain"), Char(6, "plain"), Char(7, "plain"), Char(2, "plain"),
    Char(3, "plain"), Char(4, "plain"), Char(11, "plain"), Char(52, "plain"),
    Char(9, "shift"), Char(13, "shift")>>

Numpad == {NumpadOf[i] : i \in 1 .. Len(NumpadOf)}
NumpadChar(code) ==
  NumpadChars[CHOOSE i \in 1 .. Len(NumpadOf) : NumpadOf[i] = code]

Pause       == Char(225, "plain")   \* KHE_PAUSE
PrintScreen == Char(183, "plain")   \* KHE_PRINT_SCREEN

-----------------------------------------------------------------------------
(* The decoder.  A step gives the decoder's next state and its data, if    *)
(* any: the character and the raw character.                               *)

Result(d, data) == [dec |-> d, data |-> data]
Data(char, raw) == <<[char |-> char, raw |-> raw]>>

\* Mutant: caps lock and shift do not cancel each other.
LevelNoXor(mods, code) ==
  LET shift == {"lshift", "rshift"} \cap mods # {}
      ctl == {"lctl", "rctl"} \cap mods # {}
  IN IF ctl /\ code \in Letters \cup ShiftCtl THEN "ctl"
     ELSE IF shift \/ (code \in Letters /\ "caps" \in mods) THEN "shift"
     ELSE "plain"

\* KHS_SHIFT, KHS_SHIFTCTL and KHS_SHIFTCAPSCTL
Level(mods, code) ==
  LET shift == {"lshift", "rshift"} \cap mods # {}
      ctl == {"lctl", "rctl"} \cap mods # {}
      caps == code \in Letters /\ "caps" \in mods
  IN IF ctl /\ code \in Letters \cup ShiftCtl THEN "ctl"
     ELSE IF (shift \/ caps) /\ ~(shift /\ caps) THEN "shift" ELSE "plain"

\* Mutant: the bytes of Pause are taken for what they are elsewhere.
NoStage(d, n) == FALSE

\* The decoder has seen the first n + 1 bytes of Pause.
Stage(d, n) == "pause" \in d.internal /\ d.seq = n

Advance(d) == Result([d EXCEPT !.seq = @ + 1], <<>>)
Abandon(d) == [d EXCEPT !.internal = @ \ {"pause"}, !.seq = 0]

\* A modifier has a raw code and no character, so it gives no data.
Hold(d, key, pressed) ==
  Result([d EXCEPT !.mods = IF pressed THEN @ \cup {key} ELSE @ \ {key}], <<>>)
Switch(d, key, pressed) ==
  Result([d EXCEPT !.mods = IF ~pressed THEN @
                            ELSE IF key \in @ THEN @ \ {key} ELSE @ \cup {key}],
         <<>>)

Start(d) == Result([d EXCEPT !.internal = @ \cup {"pause"}, !.seq = 0], <<>>)

process_simple_scan(d, code, pressed) ==
  CASE code \in Letters \cup ShiftCtl \cup Shifts ->
         Result(d, Data(Char(code, Level(d.mods, code)), Char(code, "plain")))
    [] code \in Plain -> Result(d, Data(Char(code, "plain"), Char(code, "plain")))
    [] code \in Numpad -> Result(d, Data(NumpadChar(code), NumpadChar(code)))
    [] code = 42 -> Hold(d, "lshift", pressed)
    [] code = 54 -> Hold(d, "rshift", pressed)
    [] code = 56 -> Hold(d, "lalt", pressed)
    [] code = 58 -> Switch(d, "caps", pressed)
    [] code = 29 -> IF Stage(d, 0) THEN Advance(d)
                    ELSE Hold(Abandon(d), "lctl", pressed)
    [] code = 69 -> IF Stage(d, 1) THEN Advance(d)
                    ELSE Switch(Abandon(d), "num", pressed)
    [] code = 97 -> IF "pause" \notin d.internal THEN Start(d)
                    ELSE IF Stage(d, 2) THEN Advance(d)
                    ELSE Result(Abandon(d), <<>>)
    [] OTHER -> Result(d, <<>>)

\* The flag of the prefix is cleared on every path.
PrefixDone(d, code) == [d EXCEPT !.internal = @ \ {"ext"}]

process_extended_scan(d, code, pressed) ==
  LET e == PrefixDone(d, code)
      With(f) == [e EXCEPT !.internal = @ \cup {f}]
      Without(f) == [e EXCEPT !.internal = @ \ {f}]
  IN CASE code = 29 -> Hold(e, "rctl", pressed)
       [] code = 56 -> Hold(e, "ralt", pressed)
       [] code \in {28, 53} -> Result(e, Data(Char(code, "plain"),
                                              Char(code, "plain")))
       [] code \in {72, 75, 77, 80, 83} ->
            Result(e, Data(Char(code + 128, "plain"), Char(code + 128, "plain")))
       [] code = 42 ->
            IF "prscr_up" \in e.internal
            THEN Result(Without("prscr_up"), Data(PrintScreen, PrintScreen))
            ELSE Result(With("prscr_down"), <<>>)
       [] code = 55 ->
            IF "prscr_down" \in e.internal
            THEN Result(Without("prscr_down"), Data(PrintScreen, PrintScreen))
            ELSE Result(With("prscr_up"), <<>>)
       [] OTHER -> Result(e, <<>>)

\* Mutant: the test of the prefix has the bit of Pause in its mask.
ExtendedOrPause(d) == d.internal \cap {"ext", "pause"} # {}

\* key_internal_state & KH_EXTENDED_SCAN
Extended(d) == "ext" \in d.internal

process_scancode(d, byte) ==
  LET pressed == byte < 128
      s == [(IF byte \in {157, 197} THEN Abandon(d) ELSE d)
              EXCEPT !.internal = @ \ {"prscr_up", "prscr_down"}]
  IN IF Extended(d)
     THEN process_extended_scan(d, byte % 128, pressed)
     ELSE CASE byte = 157 /\ Stage(d, 3) -> Advance(d)
            [] byte = 197 /\ Stage(d, 4) ->
                 Result([d EXCEPT !.internal = @ \ {"pause"}],
                        Data(Pause, Pause))
            [] byte = E0 ->
                 Result([d EXCEPT !.internal = @ \cup {"ext"}], <<>>)
            [] OTHER -> process_simple_scan(s, byte % 128, pressed)

Init ==
  /\ dec = [mods |-> {}, internal |-> {}, seq |-> 0]
  /\ key_state = {} /\ down = {} /\ locks = {}
  /\ line = <<>>
  /\ last = [key |-> "none", make |-> FALSE, since |-> 2]
  /\ events = <<>> /\ lost = 0

\* Mutant: only the key that goes down is recorded.
RecordedMakes(ks, raw, make) == IF make THEN ks \cup {raw} ELSE ks

\* key_state[event.key] = event.is_make
Recorded(ks, raw, make) == IF make THEN ks \cup {raw} ELSE ks \ {raw}

\* keyboard_interrupt_handler: one byte; data becomes an event.
Receive ==
  /\ line # <<>>
  /\ LET byte == Head(line)
         make == byte < 128
         r == process_scancode(dec, byte)
     IN /\ dec' = r.dec
        /\ IF r.data = <<>> THEN UNCHANGED <<events, key_state>>
           ELSE LET e == Head(r.data) IN
                /\ events' = Append(events, [char |-> e.char, raw |-> e.raw,
                                             make |-> make])
                /\ key_state' = Recorded(key_state, e.raw, make)
  /\ line' = Tail(line)
  /\ UNCHANGED <<down, locks, last, lost>>

-----------------------------------------------------------------------------
(* The keyboard: the sequences are the ones the decoder's comments name.   *)

Code == [lshift |-> 42, rshift |-> 54, lctl |-> 29, lalt |-> 56, caps |-> 58,
         num |-> 69, a |-> 30]

\* With control held Pause sends something else, and so do the arrow keys with
\* shift held and Print Screen with any modifier held.
Usable(k) == CASE k = "pause" -> {"lctl", "rctl"} \cap down = {}
               [] k = "up" -> {"lshift", "rshift"} \cap down = {}
               [] k = "prtsc" -> Held \cap down = {}
               [] OTHER -> TRUE

MakeBytes(k) == CASE k = "rctl" -> <<E0, 29>>
                  [] k = "ralt" -> <<E0, 56>>
                  [] k = "up" -> <<E0, 72>>
                  [] k = "8" -> <<9>>
                  [] k = "np8" -> <<72>>
                  [] k = "prtsc" -> <<E0, 42, E0, 55>>
                  [] k = "pause" -> <<225, 29, 69, 225, 157, 197>>
                  [] OTHER -> <<Code[k]>>

BreakBytes(k) == CASE k = "prtsc" -> <<E0, 183, E0, 170>>
                   [] k = "pause" -> <<>>
                   [] k \in {"rctl", "ralt", "up"} ->
                        <<E0, MakeBytes(k)[2] + 128>>
                   [] OTHER -> <<MakeBytes(k)[1] + 128>>

Send(k, make, bytes) ==
  /\ line = <<>>
  /\ line' = bytes
  /\ events' = <<>>
  /\ last' = [key |-> k, make |-> make,
              since |-> IF bytes = <<>> \/ last.since = 2 THEN last.since
                        ELSE last.since + 1]
  /\ locks' = IF make /\ k \in Locks
              THEN (locks \cup {k}) \ (locks \cap {k}) ELSE locks
  /\ UNCHANGED <<dec, key_state, lost>>

Press(k) ==
  /\ k \notin down /\ Usable(k)
  /\ Cardinality(down) < MaxDown
  /\ down' = down \cup {k}
  /\ Send(k, TRUE, MakeBytes(k))

Release(k) ==
  /\ k \in down
  /\ k \in {"up", "prtsc"} => Usable(k)
  /\ down' = down \ {k}
  /\ Send(k, FALSE, BreakBytes(k))

\* A key that is held down sends its make code again and again; Pause does not.
Repeat(k) ==
  /\ k \in down \ {"pause"} /\ Usable(k)
  /\ Send(k, TRUE, MakeBytes(k))
  /\ UNCHANGED down

\* A byte is overwritten before the interrupt handler has read it.
Lose ==
  /\ line # <<>> /\ lost < MaxLost
  /\ line' = Tail(line)
  /\ lost' = lost + 1
  /\ last' = [last EXCEPT !.since = 0]
  /\ UNCHANGED <<dec, key_state, down, locks, events>>

Next == \/ \E k \in Keys : Press(k) \/ Release(k) \/ Repeat(k)
        \/ Receive
        \/ Lose

Spec == Init /\ [][Next]_vars

-----------------------------------------------------------------------------
Settled == line = <<>> /\ lost = 0

\* Between keys the decoder's modifiers are the keys that are really held and
\* the locks that are really on, although Pause and Print Screen contain the
\* codes of Control, Num Lock and Shift.
ModifiersTrack == Settled => dec.mods = (down \cap Held) \cup locks

\* The character that key k gives in the present state of the keyboard, if the
\* decoder is right about it.
CharOf(k) ==
  LET shift == down \cap {"lshift", "rshift"} # {}
      ctl == down \cap {"lctl", "rctl"} # {}
  IN CASE k = "a" -> Char(30, IF ctl THEN "ctl"
                              ELSE IF shift = ("caps" \in locks) THEN "plain"
                              ELSE "shift")
       [] k = "8" -> Char(9, IF shift THEN "shift" ELSE "plain")
       [] k = "np8" -> Char(9, "plain")
       [] k = "up" -> Char(200, "plain")
       [] k = "prtsc" -> PrintScreen
       [] k = "pause" -> Pause

RawOf(k) == Char(CharOf(k).code, "plain")

\* Every key gives one event when it goes down and one when it comes up, with
\* its own character and the right direction, however many bytes it sends; a
\* modifier gives none.  Pause sends everything when it goes down; which
\* direction its one event has is left to PauseIsMake.
OneEventPerKey ==
  Settled /\ last.key # "none" =>
    IF \/ last.key \in Held \cup Locks
       \/ last.key = "pause" /\ ~last.make
    THEN events = <<>>
    ELSE /\ Len(events) = 1
         /\ events[1].char = CharOf(last.key)
         /\ events[1].raw = RawOf(last.key)
         /\ last.key # "pause" => events[1].make = last.make

\* The event of Pause is a make event: keyboard_read.c:18 calls the bytes a
\* "PAUSE/BREAK (MAKE) sequence", and keyboard_read.h:128 says of the bit that
\* it is asserted for make events.  It is not so: the event is given at the last
\* byte, C5, which is a break code.
PauseIsMake ==
  Settled /\ last.key = "pause" /\ last.make => events[1].make

\* A byte that is lost costs at most its own key and the next one: a prefix whose
\* second byte is lost swallows the key that follows it, and nothing after that.
\* A key that sends one byte is delivered when it and the key before it came
\* whole, whatever the decoder was left in before them.
SingleKeyDelivered ==
  line = <<>> /\ last.since = 2 /\ last.key \in {"a", "8", "np8"} =>
    Len(events) = 1 /\ events[1].raw = RawOf(last.key)
                    /\ events[1].make = last.make

\* key_state, of the keys that give a character: it never has a character none
\* of whose keys is down, and has that of every key that is down, but for the
\* two 8 keys, which share one (the first to come up clears it), and Pause, whose
\* event is a break.  Modifiers and locks give no data, so key_state never has
\* them, held or not.
KeyStateRight ==
  Settled =>
    /\ \A c \in key_state : \E k \in down \ (Held \cup Locks) : RawOf(k) = c
    /\ \A k \in down \ (Held \cup Locks \cup {"pause", "8", "np8"}) :
         RawOf(k) \in key_state
=============================================================================
