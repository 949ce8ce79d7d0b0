--------------------------- MODULE ScanCodeProofs ---------------------------
(***************************************************************************)
(* Theorems about ScanCode, for every set of keys, every number of keys    *)
(* held at once and every number of bytes lost.                            *)
(***************************************************************************)
EXTENDS ScanCode, TLAPS

-----------------------------------------------------------------------------
(* The invariant *)

Decs == [mods : SUBSET (Held \cup Locks),
         internal : SUBSET {"ext", "pause", "prscr_down", "prscr_up"}, seq : 0 .. 4]

Typed ==
  /\ dec \in Decs
  /\ down \subseteq Keys /\ locks \subseteq Locks
  /\ line \in Seq(0 .. 255)
  /\ last \in [key : Names \cup {"none"}, make : BOOLEAN, since : 0 .. 2]
  /\ lost \in Nat

\* The modifiers as they really are.
Truth == (down \cap Held) \cup locks

\* What the bytes of key k do to the modifiers m.
Applied(m, k, make) ==
  IF k \in Held THEN (IF make THEN m \cup {k} ELSE m \ {k})
  ELSE IF k \in Locks /\ make THEN (IF k \in m THEN m \ {k} ELSE m \cup {k})
  ELSE m

\* RawOf, which does not depend on the state.
RawChar(k) ==
  Char(IF k = "a" THEN 30 ELSE IF k \in {"8", "np8"} THEN 9 ELSE IF k = "up" THEN 200
       ELSE IF k = "prtsc" THEN 183 ELSE 225, "plain")

\* What the bytes of key k do to the characters that are down.
Marked(ks, k, make) ==
  IF k \in Held \cup Locks \/ (k = "pause" /\ ~make) THEN ks
  ELSE Recorded(ks, RawChar(k), make /\ k # "pause")

\* What KeyStateRight asks for of the keys dn that are down; and Pause, which is
\* recorded as a break, is not there.
Right(ks, dn) ==
  /\ RawChar("pause") \notin ks
  /\ \A c \in ks : \E k \in dn \ (Held \cup Locks) : RawChar(k) = c
  /\ \A k \in dn \ (Held \cup Locks \cup {"pause", "8", "np8"}) : RawChar(k) \in ks

Bytes(k, make) == IF make THEN MakeBytes(k) ELSE BreakBytes(k)

At(bytes, flags) == line = bytes /\ dec.internal = flags

\* How far the decoder is with a key: no byte has been received, or some have and
\* the flags and the count of key_sequence say which.
Begun(k, make) == At(Bytes(k, make), {})

Prefixed(k, make) ==
  k \in {"rctl", "ralt", "up"} /\ At(<<Bytes(k, make)[2]>>, {"ext"})

Printing(k, make) ==
  /\ k = "prtsc"
  /\ IF make THEN \/ At(<<42, E0, 55>>, {"ext"})
                  \/ At(<<E0, 55>>, {"prscr_down"})
                  \/ At(<<55>>, {"ext", "prscr_down"})
     ELSE \/ At(<<183, E0, 170>>, {"ext"})
          \/ At(<<E0, 170>>, {"prscr_up"})
          \/ At(<<170>>, {"ext", "prscr_up"})

Pausing(k, make) ==
  /\ k = "pause" /\ make
  /\ \/ At(<<29, 69, 225, 157, 197>>, {"pause"}) /\ dec.seq = 0
     \/ At(<<69, 225, 157, 197>>, {"pause"}) /\ dec.seq = 1
     \/ At(<<225, 157, 197>>, {"pause"}) /\ dec.seq = 2
     \/ At(<<157, 197>>, {"pause"}) /\ dec.seq = 3
     \/ At(<<197>>, {"pause"}) /\ dec.seq = 4

\* Only the last byte of a key changes the modifiers and gives the event.
Pending ==
  /\ last.key # "none"
  /\ \/ Begun(last.key, last.make) \/ Prefixed(last.key, last.make)
     \/ Printing(last.key, last.make) \/ Pausing(last.key, last.make)
  /\ events = <<>>
  /\ Applied(dec.mods, last.key, last.make) = Truth
  /\ Right(Marked(key_state, last.key, last.make), down)

\* What OneEventPerKey says, and the direction of the event of Pause.
EventsExact ==
  Settled /\ last.key # "none" =>
    IF \/ last.key \in Held \cup Locks
       \/ last.key = "pause" /\ ~last.make
    THEN events = <<>>
    ELSE events = <<[char |-> CharOf(last.key), raw |-> RawOf(last.key),
                     make |-> last.make /\ last.key # "pause"]>>

Rested ==
  /\ dec.internal = {} /\ dec.mods = Truth /\ Right(key_state, down)
  /\ EventsExact

\* With no byte lost the decoder is in the middle of a key or done with it.
Exact == lost = 0 => IF line = <<>> THEN Rested ELSE Pending

\* No key ends with the prefix, so the bytes of a key that is not cut short leave
\* none behind, whatever was lost before it.
NoPrefix ==
  IF line # <<>> THEN line[Len(line)] # E0
  ELSE last.since # 0 => "ext" \notin dec.internal

\* The key after that is not eaten.
Single ==
  last.since = 2 /\ last.key \in {"a", "8", "np8"} =>
    IF line = <<>>
    THEN Len(events) = 1 /\ events[1].raw = RawOf(last.key)
                         /\ events[1].make = last.make
    ELSE /\ line = Bytes(last.key, last.make) /\ events = <<>>
         /\ "ext" \notin dec.internal

DecoderInv == Typed /\ Exact /\ NoPrefix /\ Single

-----------------------------------------------------------------------------
(* The layout *)

\* The one key of the numeric pad that is used, and codes that are not on it.
LEMMA NumpadCodes ==
  /\ \A c \in {30, 9, 42, 54, 56, 58, 29, 69, 97} : c \notin Numpad
  /\ 72 \in Numpad /\ NumpadChar(72) = Char(9, "plain")
<1>1. Len(NumpadOf) = 14 /\ 1 .. 14 = 1 .. Len(NumpadOf) BY DEF NumpadOf
<1>2. /\ NumpadOf[1] = 71 /\ NumpadOf[2] = 72 /\ NumpadOf[3] = 73 /\ NumpadOf[4] = 74
      /\ NumpadOf[5] = 75 /\ NumpadOf[6] = 76 /\ NumpadOf[7] = 77 /\ NumpadOf[8] = 79
      /\ NumpadOf[9] = 80 /\ NumpadOf[10] = 81 /\ NumpadOf[11] = 82
      /\ NumpadOf[12] = 83 /\ NumpadOf[13] = 55 /\ NumpadOf[14] = 78
  BY DEF NumpadOf
<1>3. \A i \in 1 .. 14 : \/ i = 1 \/ i = 2 \/ i = 3 \/ i = 4 \/ i = 5 \/ i = 6 \/ i = 7
                         \/ i = 8 \/ i = 9 \/ i = 10 \/ i = 11 \/ i = 12 \/ i = 13
                         \/ i = 14
  OBVIOUS
<1>4. \A i \in 1 .. 14 : NumpadOf[i] \in 71 .. 83 \cup {55} BY <1>2, <1>3
<1>5. \A i \in 1 .. 14 : NumpadOf[i] = 72 => i = 2 BY <1>2, <1>3
<1>6. \A c \in {30, 9, 42, 54, 56, 58, 29, 69, 97} : c \notin Numpad
  BY <1>1, <1>4 DEF Numpad
<1>7. 72 \in Numpad
  <2>1. 2 \in 1 .. Len(NumpadOf) BY <1>1
  <2> QED BY <1>2, <2>1 DEF Numpad
<1>8. NumpadChar(72) = Char(9, "plain")
  <2>1. PICK i : i = CHOOSE j \in 1 .. Len(NumpadOf) : NumpadOf[j] = 72 OBVIOUS
  <2>2. 2 \in 1 .. Len(NumpadOf) /\ NumpadOf[2] = 72 BY <1>1, <1>2
  <2>3. i \in 1 .. Len(NumpadOf) /\ NumpadOf[i] = 72 BY <2>1, <2>2
  <2>4. i = 2 BY <1>1, <1>5, <2>3
  <2>5. NumpadChars[2] = Char(9, "plain") BY DEF NumpadChars
  <2>6. NumpadChar(72) = NumpadChars[i] BY <2>1 DEF NumpadChar
  <2> QED BY <2>4, <2>5, <2>6
<1> QED BY <1>6, <1>7, <1>8

\* The keys that have a character.
Printed == {"a", "8", "np8", "up", "prtsc", "pause"}

\* The names are the modifiers, the locks and the keys that have a character.
LEMMA NamesSplit == Names = Held \cup Locks \cup Printed
  BY DEF Names, Held, Locks, Printed

\* The character that key_state records is that of the key, whatever is held.
LEMMA RawCodes == \A k \in Printed : RawOf(k) = RawChar(k)
<1>1. /\ CharOf("a").code = 30 /\ CharOf("8").code = 9 /\ CharOf("np8").code = 9
      /\ CharOf("up").code = 200 /\ CharOf("prtsc").code = 183
      /\ CharOf("pause").code = 225
  BY DEF CharOf, Char, PrintScreen, Pause
<1> QED BY <1>1 DEF RawOf, RawChar, Printed

\* The same in the next state.
LEMMA RawCodesNext == \A k \in Printed : RawOf(k)' = RawChar(k)
<1>1. /\ CharOf("a")'.code = 30 /\ CharOf("8")'.code = 9 /\ CharOf("np8")'.code = 9
      /\ CharOf("up")'.code = 200 /\ CharOf("prtsc")'.code = 183
      /\ CharOf("pause")'.code = 225
  BY DEF CharOf, Char, PrintScreen, Pause
<1> QED BY <1>1 DEF RawOf, RawChar, Printed

\* Two keys that are not the 8 keys have different characters.
LEMMA RawApart ==
  ASSUME NEW j \in Printed, NEW k \in Printed, RawChar(j) = RawChar(k)
  PROVE  j = k \/ {j, k} \subseteq {"8", "np8"}
<1>1. \A b, c : Char(b, "plain") = Char(c, "plain") => b = c BY DEF Char
<1> QED BY <1>1 DEF Printed, RawChar

-----------------------------------------------------------------------------
(* What the decoder does with a byte *)

\* process_simple_scan, code by code.
LEMMA SimpleScan ==
  ASSUME NEW d, NEW pressed
  PROVE  /\ \A c \in {30, 9} : process_simple_scan(d, c, pressed) =
              Result(d, Data(Char(c, Level(d.mods, c)), Char(c, "plain")))
         /\ process_simple_scan(d, 72, pressed) =
              Result(d, Data(Char(9, "plain"), Char(9, "plain")))
         /\ process_simple_scan(d, 42, pressed) = Hold(d, "lshift", pressed)
         /\ process_simple_scan(d, 54, pressed) = Hold(d, "rshift", pressed)
         /\ process_simple_scan(d, 56, pressed) = Hold(d, "lalt", pressed)
         /\ process_simple_scan(d, 58, pressed) = Switch(d, "caps", pressed)
         /\ process_simple_scan(d, 29, pressed) =
              IF Stage(d, 0) THEN Advance(d) ELSE Hold(Abandon(d), "lctl", pressed)
         /\ process_simple_scan(d, 69, pressed) =
              IF Stage(d, 1) THEN Advance(d) ELSE Switch(Abandon(d), "num", pressed)
         /\ process_simple_scan(d, 97, pressed) =
              IF "pause" \notin d.internal THEN Start(d)
              ELSE IF Stage(d, 2) THEN Advance(d) ELSE Result(Abandon(d), <<>>)
<1> DEFINE Writes == Letters \cup ShiftCtl \cup Shifts
<1>1. /\ 30 \in Writes /\ 9 \in Writes
      /\ \A c \in {72, 42, 54, 56, 58, 29, 69, 97} : c \notin Writes
  BY DEF Letters, ShiftCtl, Shifts
<1>2. \A c \in {72, 42, 54, 56, 58, 29, 69, 97} : c \notin Plain BY DEF Plain
<1> HIDE DEF Writes
<1>3. \A c \in {30, 9} : process_simple_scan(d, c, pressed) =
        Result(d, Data(Char(c, Level(d.mods, c)), Char(c, "plain")))
  <2> SUFFICES ASSUME NEW c \in {30, 9}
               PROVE  process_simple_scan(d, c, pressed) =
                        Result(d, Data(Char(c, Level(d.mods, c)), Char(c, "plain")))
    OBVIOUS
  <2>1. c \notin Plain /\ c \notin Numpad /\ c \notin {42, 54, 56, 58, 29, 69, 97}
    BY NumpadCodes DEF Plain
  <2>2. c \in Writes BY <1>1
  <2> QED BY <2>1, <2>2 DEF process_simple_scan, Writes
<1>4. process_simple_scan(d, 72, pressed) =
        Result(d, Data(Char(9, "plain"), Char(9, "plain")))
  BY <1>1, <1>2, NumpadCodes DEF process_simple_scan, Writes
<1>5. /\ process_simple_scan(d, 42, pressed) = Hold(d, "lshift", pressed)
      /\ process_simple_scan(d, 54, pressed) = Hold(d, "rshift", pressed)
      /\ process_simple_scan(d, 56, pressed) = Hold(d, "lalt", pressed)
  BY <1>1, <1>2, NumpadCodes DEF process_simple_scan, Writes
<1>6. process_simple_scan(d, 58, pressed) = Switch(d, "caps", pressed)
  BY <1>1, <1>2, NumpadCodes DEF process_simple_scan, Writes
<1>7. process_simple_scan(d, 29, pressed) =
        IF Stage(d, 0) THEN Advance(d) ELSE Hold(Abandon(d), "lctl", pressed)
  BY <1>1, <1>2, NumpadCodes DEF process_simple_scan, Writes
<1>8. process_simple_scan(d, 69, pressed) =
        IF Stage(d, 1) THEN Advance(d) ELSE Switch(Abandon(d), "num", pressed)
  BY <1>1, <1>2, NumpadCodes DEF process_simple_scan, Writes
<1>9. process_simple_scan(d, 97, pressed) =
        IF "pause" \notin d.internal THEN Start(d)
        ELSE IF Stage(d, 2) THEN Advance(d) ELSE Result(Abandon(d), <<>>)
  BY <1>1, <1>2, NumpadCodes DEF process_simple_scan, Writes
<1> QED BY <1>3, <1>4, <1>5, <1>6, <1>7, <1>8, <1>9

\* process_scancode leaves every byte but the prefix and the two last ones of
\* Pause to process_simple_scan, and forgets Print Screen.
Cleared(d) == [d EXCEPT !.internal = @ \ {"prscr_up", "prscr_down"}]

\* The code of a byte, and whether it is a make code.
IsByte(byte, c, make) ==
  byte \in 0 .. 255 /\ byte # E0 /\ byte % 128 = c /\ (byte < 128) = make

\* A byte without a prefix that no stage of Pause waits for.
LEMMA PlainByte ==
  ASSUME NEW d, "ext" \notin d.internal, NEW c, NEW make \in BOOLEAN,
         NEW byte, IsByte(byte, c, make)
  PROVE  /\ byte \notin {157, 197} =>
              process_scancode(d, byte) = process_simple_scan(Cleared(d), c, make)
         /\ (byte = 157 /\ ~Stage(d, 3)) \/ (byte = 197 /\ ~Stage(d, 4)) =>
              process_scancode(d, byte) = process_simple_scan(Cleared(Abandon(d)), c, make)
<1>1. ~Extended(d) BY DEF Extended
<1>2. byte # E0 /\ byte % 128 = c /\ (byte < 128) = make BY DEF IsByte
<1>3. ASSUME byte \notin {157, 197}
      PROVE  process_scancode(d, byte) = process_simple_scan(Cleared(d), c, make)
  BY <1>1, <1>2, <1>3, Zenon DEF process_scancode, Cleared
<1>4. ASSUME (byte = 157 /\ ~Stage(d, 3)) \/ (byte = 197 /\ ~Stage(d, 4))
      PROVE  process_scancode(d, byte) = process_simple_scan(Cleared(Abandon(d)), c, make)
  <2>1. byte \in {157, 197} /\ ~(byte = 157 /\ Stage(d, 3))
        /\ ~(byte = 197 /\ Stage(d, 4))
    BY <1>4
  <2> QED BY <1>1, <1>2, <2>1, Zenon DEF process_scancode, Cleared
<1> QED BY <1>3, <1>4, Zenon

\* The last two bytes of Pause.
LEMMA PauseByte ==
  ASSUME NEW d, "ext" \notin d.internal
  PROVE  /\ Stage(d, 3) => process_scancode(d, 157) = Advance(d)
         /\ Stage(d, 4) => process_scancode(d, 197) =
              Result([d EXCEPT !.internal = @ \ {"pause"}], Data(Pause, Pause))
<1>1. ~Extended(d) /\ E0 # 157 /\ E0 # 197 /\ 157 # 197 BY DEF Extended, E0
<1>2. ASSUME Stage(d, 3) PROVE process_scancode(d, 157) = Advance(d)
  BY <1>1, <1>2, ZenonT(60) DEF process_scancode
<1>3. ASSUME Stage(d, 4)
      PROVE  process_scancode(d, 197) =
               Result([d EXCEPT !.internal = @ \ {"pause"}], Data(Pause, Pause))
  BY <1>1, <1>3, ZenonT(60) DEF process_scancode
<1> QED BY <1>2, <1>3, Zenon

-----------------------------------------------------------------------------
(* The bytes of the keys *)

\* MakeBytes and BreakBytes, key by key.
Table(make) ==
  /\ Bytes("lshift", make) = <<IF make THEN 42 ELSE 170>>
  /\ Bytes("rshift", make) = <<IF make THEN 54 ELSE 182>>
  /\ Bytes("lctl", make) = <<IF make THEN 29 ELSE 157>>
  /\ Bytes("lalt", make) = <<IF make THEN 56 ELSE 184>>
  /\ Bytes("caps", make) = <<IF make THEN 58 ELSE 186>>
  /\ Bytes("num", make) = <<IF make THEN 69 ELSE 197>>
  /\ Bytes("a", make) = <<IF make THEN 30 ELSE 158>>
  /\ Bytes("8", make) = <<IF make THEN 9 ELSE 137>>
  /\ Bytes("np8", make) = <<IF make THEN 72 ELSE 200>>
  /\ Bytes("rctl", make) = <<E0, IF make THEN 29 ELSE 157>>
  /\ Bytes("ralt", make) = <<E0, IF make THEN 56 ELSE 184>>
  /\ Bytes("up", make) = <<E0, IF make THEN 72 ELSE 200>>
  /\ Bytes("prtsc", TRUE) = <<E0, 42, E0, 55>>
  /\ Bytes("prtsc", FALSE) = <<E0, 183, E0, 170>>
  /\ Bytes("pause", TRUE) = <<225, 29, 69, 225, 157, 197>>
  /\ Bytes("pause", FALSE) = <<>>

\* They are what the decoder's comments say.
LEMMA ByteTable ==
  ASSUME NEW make \in BOOLEAN PROVE Table(make)
<1>1. /\ Code["lshift"] = 42 /\ Code["rshift"] = 54 /\ Code["lctl"] = 29
      /\ Code["lalt"] = 56 /\ Code["caps"] = 58 /\ Code["num"] = 69 /\ Code["a"] = 30
  BY DEF Code
<1>2. /\ MakeBytes("lshift") = <<Code["lshift"]>>
      /\ MakeBytes("rshift") = <<Code["rshift"]>>
      /\ MakeBytes("lctl") = <<Code["lctl"]>> /\ MakeBytes("lalt") = <<Code["lalt"]>>
      /\ MakeBytes("caps") = <<Code["caps"]>> /\ MakeBytes("num") = <<Code["num"]>>
      /\ MakeBytes("a") = <<Code["a"]>>
  BY Zenon DEF MakeBytes
<1>3. /\ MakeBytes("8") = <<9>> /\ MakeBytes("np8") = <<72>>
      /\ MakeBytes("rctl") = <<E0, 29>> /\ MakeBytes("ralt") = <<E0, 56>>
      /\ MakeBytes("up") = <<E0, 72>> /\ MakeBytes("prtsc") = <<E0, 42, E0, 55>>
      /\ MakeBytes("pause") = <<225, 29, 69, 225, 157, 197>>
  BY ZenonT(60) DEF MakeBytes
<1>4. \A k \in {"lshift", "rshift", "lctl", "lalt", "caps", "num", "a", "8", "np8"} :
        BreakBytes(k) = <<MakeBytes(k)[1] + 128>>
  BY Zenon DEF BreakBytes
<1>5. \A k \in {"rctl", "ralt", "up"} : BreakBytes(k) = <<E0, MakeBytes(k)[2] + 128>>
  BY Zenon DEF BreakBytes
<1>6. BreakBytes("prtsc") = <<E0, 183, E0, 170>> /\ BreakBytes("pause") = <<>>
  BY Zenon DEF BreakBytes
<1>7. Bytes("lshift", make) = <<IF make THEN 42 ELSE 170>>
  <2>1. MakeBytes("lshift") = <<42>> BY <1>1, <1>2
  <2>2. BreakBytes("lshift") = <<170>>
    <3>1. BreakBytes("lshift") = <<MakeBytes("lshift")[1] + 128>> BY <1>4, Zenon
    <3>2. MakeBytes("lshift")[1] + 128 = 170 BY <2>1
    <3> QED BY <3>1, <3>2
  <2> QED BY <2>1, <2>2 DEF Bytes
<1>8. Bytes("rshift", make) = <<IF make THEN 54 ELSE 182>>
  <2>1. MakeBytes("rshift") = <<54>> BY <1>1, <1>2
  <2>2. BreakBytes("rshift") = <<182>>
    <3>1. BreakBytes("rshift") = <<MakeBytes("rshift")[1] + 128>> BY <1>4, Zenon
    <3>2. MakeBytes("rshift")[1] + 128 = 182 BY <2>1
    <3> QED BY <3>1, <3>2
  <2> QED BY <2>1, <2>2 DEF Bytes
<1>9. Bytes("lctl", make) = <<IF make THEN 29 ELSE 157>>
  <2>1. MakeBytes("lctl") = <<29>> BY <1>1, <1>2
  <2>2. BreakBytes("lctl") = <<157>>
    <3>1. BreakBytes("lctl") = <<MakeBytes("lctl")[1] + 128>> BY <1>4, Zenon
    <3>2. MakeBytes("lctl")[1] + 128 = 157 BY <2>1
    <3> QED BY <3>1, <3>2
  <2> QED BY <2>1, <2>2 DEF Bytes
<1>10. Bytes("lalt", make) = <<IF make THEN 56 ELSE 184>>
  <2>1. MakeBytes("lalt") = <<56>> BY <1>1, <1>2
  <2>2. BreakBytes("lalt") = <<184>>
    <3>1. BreakBytes("lalt") = <<MakeBytes("lalt")[1] + 128>> BY <1>4, Zenon
    <3>2. MakeBytes("lalt")[1] + 128 = 184 BY <2>1
    <3> QED BY <3>1, <3>2
  <2> QED BY <2>1, <2>2 DEF Bytes
<1>11. Bytes("caps", make) = <<IF make THEN 58 ELSE 186>>
  <2>1. MakeBytes("caps") = <<58>> BY <1>1, <1>2
  <2>2. BreakBytes("caps") = <<186>>
    <3>1. BreakBytes("caps") = <<MakeBytes("caps")[1] + 128>> BY <1>4, Zenon
    <3>2. MakeBytes("caps")[1] + 128 = 186 BY <2>1
    <3> QED BY <3>1, <3>2
  <2> QED BY <2>1, <2>2 DEF Bytes
<1>12. Bytes("num", make) = <<IF make THEN 69 ELSE 197>>
  <2>1. MakeBytes("num") = <<69>> BY <1>1, <1>2
  <2>2. BreakBytes("num") = <<197>>
    <3>1. BreakBytes("num") = <<MakeBytes("num")[1] + 128>> BY <1>4, Zenon
    <3>2. MakeBytes("num")[1] + 128 = 197 BY <2>1
    <3> QED BY <3>1, <3>2
  <2> QED BY <2>1, <2>2 DEF Bytes
<1>13. Bytes("a", make) = <<IF make THEN 30 ELSE 158>>
  <2>1. MakeBytes("a") = <<30>> BY <1>1, <1>2
  <2>2. BreakBytes("a") = <<158>>
    <3>1. BreakBytes("a") = <<MakeBytes("a")[1] + 128>> BY <1>4, Zenon
    <3>2. MakeBytes("a")[1] + 128 = 158 BY <2>1
    <3> QED BY <3>1, <3>2
  <2> QED BY <2>1, <2>2 DEF Bytes
<1>14. Bytes("8", make) = <<IF make THEN 9 ELSE 137>>
  <2>1. MakeBytes("8") = <<9>> BY <1>3
  <2>2. BreakBytes("8") = <<137>>
    <3>1. BreakBytes("8") = <<MakeBytes("8")[1] + 128>> BY <1>4, Zenon
    <3>2. MakeBytes("8")[1] + 128 = 137 BY <2>1
    <3> QED BY <3>1, <3>2
  <2> QED BY <2>1, <2>2 DEF Bytes
<1>15. Bytes("np8", make) = <<IF make THEN 72 ELSE 200>>
  <2>1. MakeBytes("np8") = <<72>> BY <1>3
  <2>2. BreakBytes("np8") = <<200>>
    <3>1. BreakBytes("np8") = <<MakeBytes("np8")[1] + 128>> BY <1>4, Zenon
    <3>2. MakeBytes("np8")[1] + 128 = 200 BY <2>1
    <3> QED BY <3>1, <3>2
  <2> QED BY <2>1, <2>2 DEF Bytes
<1>16. Bytes("rctl", make) = <<E0, IF make THEN 29 ELSE 157>>
  <2>1. MakeBytes("rctl") = <<E0, 29>> BY <1>3
  <2>2. BreakBytes("rctl") = <<E0, 157>>
    <3>1. BreakBytes("rctl") = <<E0, MakeBytes("rctl")[2] + 128>> BY <1>5, Zenon
    <3>2. MakeBytes("rctl")[2] + 128 = 157 BY <2>1
    <3> QED BY <3>1, <3>2
  <2> QED BY <2>1, <2>2 DEF Bytes
<1>17. Bytes("ralt", make) = <<E0, IF make THEN 56 ELSE 184>>
  <2>1. MakeBytes("ralt") = <<E0, 56>> BY <1>3
  <2>2. BreakBytes("ralt") = <<E0, 184>>
    <3>1. BreakBytes("ralt") = <<E0, MakeBytes("ralt")[2] + 128>> BY <1>5, Zenon
    <3>2. MakeBytes("ralt")[2] + 128 = 184 BY <2>1
    <3> QED BY <3>1, <3>2
  <2> QED BY <2>1, <2>2 DEF Bytes
<1>18. Bytes("up", make) = <<E0, IF make THEN 72 ELSE 200>>
  <2>1. MakeBytes("up") = <<E0, 72>> BY <1>3
  <2>2. BreakBytes("up") = <<E0, 200>>
    <3>1. BreakBytes("up") = <<E0, MakeBytes("up")[2] + 128>> BY <1>5, Zenon
    <3>2. MakeBytes("up")[2] + 128 = 200 BY <2>1
    <3> QED BY <3>1, <3>2
  <2> QED BY <2>1, <2>2 DEF Bytes
<1>19. /\ Bytes("prtsc", TRUE) = <<E0, 42, E0, 55>>
       /\ Bytes("prtsc", FALSE) = <<E0, 183, E0, 170>>
       /\ Bytes("pause", TRUE) = <<225, 29, 69, 225, 157, 197>>
       /\ Bytes("pause", FALSE) = <<>>
  BY <1>3, <1>6 DEF Bytes
<1> QED BY <1>7, <1>8, <1>9, <1>10, <1>11, <1>12, <1>13, <1>14, <1>15, <1>16, <1>17,
         <1>18, <1>19
        DEF Table

\* How many bytes a key sends, that they are bytes, and that the last is no prefix.
LEMMA ByteShapes ==
  ASSUME NEW make \in BOOLEAN
  PROVE  /\ \A k \in {"lshift", "rshift", "lctl", "lalt", "caps", "num", "a", "8", "np8"} :
              \E b \in 0 .. 255 : b # E0 /\ Bytes(k, make) = <<b>>
         /\ \A k \in {"rctl", "ralt", "up"} :
              \E b \in 0 .. 255 : b # E0 /\ Bytes(k, make) = <<E0, b>>
<1>0. Table(make) BY ByteTable
<1>1. \E b \in 0 .. 255 : b # E0 /\ Bytes("lshift", make) = <<b>>
  <2>1. Bytes("lshift", make) = <<IF make THEN 42 ELSE 170>> BY <1>0 DEF Table
  <2>2. PICK b : b = IF make THEN 42 ELSE 170 OBVIOUS
  <2> QED BY <2>1, <2>2 DEF E0
<1>2. \E b \in 0 .. 255 : b # E0 /\ Bytes("rshift", make) = <<b>>
  <2>1. Bytes("rshift", make) = <<IF make THEN 54 ELSE 182>> BY <1>0 DEF Table
  <2>2. PICK b : b = IF make THEN 54 ELSE 182 OBVIOUS
  <2> QED BY <2>1, <2>2 DEF E0
<1>3. \E b \in 0 .. 255 : b # E0 /\ Bytes("lctl", make) = <<b>>
  <2>1. Bytes("lctl", make) = <<IF make THEN 29 ELSE 157>> BY <1>0 DEF Table
  <2>2. PICK b : b = IF make THEN 29 ELSE 157 OBVIOUS
  <2> QED BY <2>1, <2>2 DEF E0
<1>4. \E b \in 0 .. 255 : b # E0 /\ Bytes("lalt", make) = <<b>>
  <2>1. Bytes("lalt", make) = <<IF make THEN 56 ELSE 184>> BY <1>0 DEF Table
  <2>2. PICK b : b = IF make THEN 56 ELSE 184 OBVIOUS
  <2> QED BY <2>1, <2>2 DEF E0
<1>5. \E b \in 0 .. 255 : b # E0 /\ Bytes("caps", make) = <<b>>
  <2>1. Bytes("caps", make) = <<IF make THEN 58 ELSE 186>> BY <1>0 DEF Table
  <2>2. PICK b : b = IF make THEN 58 ELSE 186 OBVIOUS
  <2> QED BY <2>1, <2>2 DEF E0
<1>6. \E b \in 0 .. 255 : b # E0 /\ Bytes("num", make) = <<b>>
  <2>1. Bytes("num", make) = <<IF make THEN 69 ELSE 197>> BY <1>0 DEF Table
  <2>2. PICK b : b = IF make THEN 69 ELSE 197 OBVIOUS
  <2> QED BY <2>1, <2>2 DEF E0
<1>7. \E b \in 0 .. 255 : b # E0 /\ Bytes("a", make) = <<b>>
  <2>1. Bytes("a", make) = <<IF make THEN 30 ELSE 158>> BY <1>0 DEF Table
  <2>2. PICK b : b = IF make THEN 30 ELSE 158 OBVIOUS
  <2> QED BY <2>1, <2>2 DEF E0
<1>8. \E b \in 0 .. 255 : b # E0 /\ Bytes("8", make) = <<b>>
  <2>1. Bytes("8", make) = <<IF make THEN 9 ELSE 137>> BY <1>0 DEF Table
  <2>2. PICK b : b = IF make THEN 9 ELSE 137 OBVIOUS
  <2> QED BY <2>1, <2>2 DEF E0
<1>9. \E b \in 0 .. 255 : b # E0 /\ Bytes("np8", make) = <<b>>
  <2>1. Bytes("np8", make) = <<IF make THEN 72 ELSE 200>> BY <1>0 DEF Table
  <2>2. PICK b : b = IF make THEN 72 ELSE 200 OBVIOUS
  <2> QED BY <2>1, <2>2 DEF E0
<1>10. \E b \in 0 .. 255 : b # E0 /\ Bytes("rctl", make) = <<E0, b>>
  <2>1. Bytes("rctl", make) = <<E0, IF make THEN 29 ELSE 157>> BY <1>0 DEF Table
  <2>2. PICK b : b = IF make THEN 29 ELSE 157 OBVIOUS
  <2> QED BY <2>1, <2>2 DEF E0
<1>11. \E b \in 0 .. 255 : b # E0 /\ Bytes("ralt", make) = <<E0, b>>
  <2>1. Bytes("ralt", make) = <<E0, IF make THEN 56 ELSE 184>> BY <1>0 DEF Table
  <2>2. PICK b : b = IF make THEN 56 ELSE 184 OBVIOUS
  <2> QED BY <2>1, <2>2 DEF E0
<1>12. \E b \in 0 .. 255 : b # E0 /\ Bytes("up", make) = <<E0, b>>
  <2>1. Bytes("up", make) = <<E0, IF make THEN 72 ELSE 200>> BY <1>0 DEF Table
  <2>2. PICK b : b = IF make THEN 72 ELSE 200 OBVIOUS
  <2> QED BY <2>1, <2>2 DEF E0
<1> DEFINE One(k) == \E b \in 0 .. 255 : b # E0 /\ Bytes(k, make) = <<b>>
           Two(k) == \E b \in 0 .. 255 : b # E0 /\ Bytes(k, make) = <<E0, b>>
<1>13. /\ One("lshift") /\ One("rshift") /\ One("lctl") /\ One("lalt") /\ One("caps")
       /\ One("num") /\ One("a") /\ One("8") /\ One("np8")
       /\ Two("rctl") /\ Two("ralt") /\ Two("up")
  BY <1>1, <1>2, <1>3, <1>4, <1>5, <1>6, <1>7, <1>8, <1>9, <1>10, <1>11, <1>12, Zenon
<1> HIDE DEF One, Two
<1>14. /\ \A k \in {"lshift", "rshift", "lctl", "lalt", "caps", "num", "a", "8", "np8"} : One(k)
       /\ \A k \in {"rctl", "ralt", "up"} : Two(k)
  BY <1>13
<1> QED BY <1>14, Zenon DEF One, Two

-----------------------------------------------------------------------------
(* What a byte of a key does *)

\* The result r has these modifiers, flags and data.
Gives(r, mods, internal, data) ==
  r.dec \in Decs /\ r.dec.mods = mods /\ r.dec.internal = internal /\ r.data = data

\* The byte takes the decoder d to these modifiers and flags and gives data.
Turns(d, byte, mods, internal, data) ==
  Gives(process_scancode(d, byte), mods, internal, data)

\* The keys that send one byte, and the keys that send a prefix and one byte.
SingleKeys == {"lshift", "rshift", "lctl", "lalt", "caps", "num", "a", "8", "np8"}
PairKeys == {"rctl", "ralt", "up"}

\* A key of one byte, from the table of all keys.
LEMMA OneByte ==
  ASSUME NEW k \in SingleKeys, NEW make \in BOOLEAN
  PROVE  \E b \in 0 .. 255 : b # E0 /\ Bytes(k, make) = <<b>>
<1>1. \A j \in SingleKeys : \E b \in 0 .. 255 : b # E0 /\ Bytes(j, make) = <<b>>
  BY ByteShapes, ZenonT(30) DEF SingleKeys
<1> QED BY <1>1, Zenon

\* A key of a prefix and a byte, from the table of all keys.
LEMMA TwoBytes ==
  ASSUME NEW k \in PairKeys, NEW make \in BOOLEAN
  PROVE  \E b \in 0 .. 255 : b # E0 /\ Bytes(k, make) = <<E0, b>>
<1>1. \A j \in PairKeys : \E b \in 0 .. 255 : b # E0 /\ Bytes(j, make) = <<E0, b>>
  BY ByteShapes, ZenonT(30) DEF PairKeys
<1> QED BY <1>1, Zenon

\* A decoder between two keys has nothing to clear.
LEMMA IdleDecoder ==
  ASSUME NEW d \in Decs, d.internal = {}
  PROVE  /\ Cleared(d) = d /\ Cleared(Abandon(d)) = Abandon(d)
         /\ Abandon(d) \in Decs /\ Abandon(d).mods = d.mods /\ Abandon(d).internal = {}
         /\ \A n : ~Stage(d, n) /\ ~Stage(Abandon(d), n)
<1>1. d.internal \ {"prscr_up", "prscr_down"} = {} /\ d.internal \ {"pause"} = {}
  OBVIOUS
<1>2. Cleared(d) = d BY <1>1 DEF Cleared, Decs
<1>3. Abandon(d) = [mods |-> d.mods, internal |-> {}, seq |-> 0]
  <2>1. PICK e : e = [d EXCEPT !.internal = @ \ {"pause"}] OBVIOUS
  <2>2. Abandon(d) = [e EXCEPT !.seq = 0] BY <2>1 DEF Abandon
  <2>3. e = [mods |-> d.mods, internal |-> {}, seq |-> d.seq]
    BY <1>1, <2>1 DEF Decs
  <2>4. e \in Decs BY <2>3 DEF Decs
  <2>5. Abandon(d) = [mods |-> e.mods, internal |-> e.internal, seq |-> 0]
    BY <2>2, <2>4 DEF Decs
  <2> QED BY <2>3, <2>5
<1>4. Cleared(Abandon(d)) = Abandon(d) BY <1>3 DEF Cleared
<1>6. Abandon(d) \in Decs BY <1>3 DEF Decs
<1> QED BY <1>2, <1>3, <1>4, <1>6 DEF Stage

\* Holding or switching a modifier changes nothing else.
LEMMA HoldGives ==
  ASSUME NEW d \in Decs, NEW k \in Held, NEW make \in BOOLEAN
  PROVE  Gives(Hold(d, k, make), Applied(d.mods, k, make), d.internal, <<>>)
<1>1. PICK m : m = Applied(d.mods, k, make) OBVIOUS
<1>2. m \in SUBSET (Held \cup Locks) BY <1>1 DEF Decs, Applied
<1>3. Hold(d, k, make) = [dec |-> [d EXCEPT !.mods = m], data |-> <<>>]
  BY <1>1 DEF Hold, Result, Applied
<1> QED BY <1>1, <1>2, <1>3 DEF Decs, Gives

\* A lock changes with its make code alone.
LEMMA SwitchGives ==
  ASSUME NEW d \in Decs, NEW l \in Locks, NEW make \in BOOLEAN
  PROVE  Gives(Switch(d, l, make), Applied(d.mods, l, make), d.internal, <<>>)
<1>0. l \notin Held BY DEF Held, Locks
<1>1. PICK n : n = Applied(d.mods, l, make) OBVIOUS
<1>2. n \in SUBSET (Held \cup Locks) BY <1>1 DEF Decs, Applied
<1>3. Switch(d, l, make) = [dec |-> [d EXCEPT !.mods = n], data |-> <<>>]
  BY <1>0, <1>1 DEF Switch, Result, Applied
<1> QED BY <1>1, <1>2, <1>3 DEF Decs, Gives

\* A make code is the code itself.
LEMMA MakeByte ==
  ASSUME NEW c \in 0 .. 127 PROVE IsByte(c, c, TRUE)
<1>1. c \in 0 .. 255 /\ c # E0 /\ c % 128 = c /\ c < 128 BY DEF E0
<1>2. (c < 128) = TRUE BY <1>1, Zenon
<1> QED BY <1>1, <1>2, Zenon DEF IsByte

\* A break code is 128 more.
LEMMA BreakByte ==
  ASSUME NEW c \in 0 .. 127 \ {96}, NEW byte, byte = c + 128
  PROVE  IsByte(byte, c, FALSE)
<1>1. byte \in 0 .. 255 /\ byte # E0 /\ byte % 128 = c /\ ~(byte < 128) BY DEF E0
<1>2. (byte < 128) \in BOOLEAN BY <1>1
<1>3. (byte < 128) = FALSE BY <1>1, <1>2, Zenon
<1> QED BY <1>1, <1>3, Zenon DEF IsByte

\* The byte of a key that is pressed or released.
LEMMA ByteParts ==
  ASSUME NEW c \in 0 .. 127 \ {96}, NEW make \in BOOLEAN, NEW byte,
         byte = IF make THEN c ELSE c + 128
  PROVE  IsByte(byte, c, make)
<1>1. CASE make = TRUE
  <2>1. byte = c /\ c \in 0 .. 127 BY <1>1
  <2>2. IsByte(c, c, TRUE) BY <2>1, MakeByte
  <2> QED BY <1>1, <2>1, <2>2, Zenon
<1>2. CASE make = FALSE
  <2>1. byte = c + 128 BY <1>2
  <2>2. IsByte(byte, c, FALSE) BY <2>1, BreakByte
  <2> QED BY <1>2, <2>2, Zenon
<1> QED BY <1>1, <1>2

\* A modifier of one byte does to the decoder what it should.
LEMMA ModifierByte ==
  ASSUME NEW d \in Decs, d.internal = {}, NEW make \in BOOLEAN, NEW byte,
         NEW k \in {"lshift", "rshift", "lctl", "lalt", "caps", "num"},
         Bytes(k, make) = <<byte>>
  PROVE  Turns(d, byte, Applied(d.mods, k, make), {}, <<>>)
<1>0. "ext" \notin d.internal OBVIOUS
<1>1. /\ Cleared(d) = d /\ Cleared(Abandon(d)) = Abandon(d)
      /\ Abandon(d) \in Decs /\ Abandon(d).mods = d.mods /\ Abandon(d).internal = {}
      /\ \A n : ~Stage(d, n) /\ ~Stage(Abandon(d), n)
  BY IdleDecoder
<1>2. PICK e \in Decs : e = Abandon(d) BY <1>1
<1>3. /\ e.internal = {} /\ e.mods = d.mods /\ Abandon(e) \in Decs
      /\ Abandon(e).mods = d.mods /\ Abandon(e).internal = {}
      /\ \A n : ~Stage(e, n)
  BY <1>1, <1>2, IdleDecoder
<1>t. Table(make) BY ByteTable
<1>4. CASE k = "lshift"
  <2>1. <<byte>> = <<IF make THEN 42 ELSE 170>> BY <1>4, <1>t DEF Table
  <2>2. PICK b : b = IF make THEN 42 ELSE 170 OBVIOUS
  <2>3. byte = b BY <2>1, <2>2
  <2>4. IsByte(byte, 42, make)
    <3>1. 42 \in 0 .. 127 \ {96} /\ byte = IF make THEN 42 ELSE 42 + 128
      BY <2>2, <2>3
    <3> QED BY <3>1, ByteParts
  <2>5. byte \notin {157, 197} BY <2>2, <2>3
  <2>6. process_scancode(d, byte) = process_simple_scan(d, 42, make)
    BY <1>0, <1>1, <2>4, <2>5, PlainByte
  <2>7. process_scancode(d, byte) = Hold(d, "lshift", make) BY <2>6, SimpleScan
  <2>8. "lshift" \in Held BY DEF Held
  <2>9. Gives(Hold(d, k, make), Applied(d.mods, k, make), d.internal, <<>>)
    BY <1>4, <2>8, HoldGives
  <2> QED BY <1>4, <2>7, <2>9 DEF Turns
<1>5. CASE k = "rshift"
  <2>1. <<byte>> = <<IF make THEN 54 ELSE 182>> BY <1>5, <1>t DEF Table
  <2>2. PICK b : b = IF make THEN 54 ELSE 182 OBVIOUS
  <2>3. byte = b BY <2>1, <2>2
  <2>4. IsByte(byte, 54, make)
    <3>1. 54 \in 0 .. 127 \ {96} /\ byte = IF make THEN 54 ELSE 54 + 128
      BY <2>2, <2>3
    <3> QED BY <3>1, ByteParts
  <2>5. byte \notin {157, 197} BY <2>2, <2>3
  <2>6. process_scancode(d, byte) = process_simple_scan(d, 54, make)
    BY <1>0, <1>1, <2>4, <2>5, PlainByte
  <2>7. process_scancode(d, byte) = Hold(d, "rshift", make) BY <2>6, SimpleScan
  <2>8. "rshift" \in Held BY DEF Held
  <2>9. Gives(Hold(d, k, make), Applied(d.mods, k, make), d.internal, <<>>)
    BY <1>5, <2>8, HoldGives
  <2> QED BY <1>5, <2>7, <2>9 DEF Turns
<1>6. CASE k = "lalt"
  <2>1. <<byte>> = <<IF make THEN 56 ELSE 184>> BY <1>6, <1>t DEF Table
  <2>2. PICK b : b = IF make THEN 56 ELSE 184 OBVIOUS
  <2>3. byte = b BY <2>1, <2>2
  <2>4. IsByte(byte, 56, make)
    <3>1. 56 \in 0 .. 127 \ {96} /\ byte = IF make THEN 56 ELSE 56 + 128
      BY <2>2, <2>3
    <3> QED BY <3>1, ByteParts
  <2>5. byte \notin {157, 197} BY <2>2, <2>3
  <2>6. process_scancode(d, byte) = process_simple_scan(d, 56, make)
    BY <1>0, <1>1, <2>4, <2>5, PlainByte
  <2>7. process_scancode(d, byte) = Hold(d, "lalt", make) BY <2>6, SimpleScan
  <2>8. "lalt" \in Held BY DEF Held
  <2>9. Gives(Hold(d, k, make), Applied(d.mods, k, make), d.internal, <<>>)
    BY <1>6, <2>8, HoldGives
  <2> QED BY <1>6, <2>7, <2>9 DEF Turns
<1>7. CASE k = "caps"
  <2>1. <<byte>> = <<IF make THEN 58 ELSE 186>> BY <1>7, <1>t DEF Table
  <2>2. PICK b : b = IF make THEN 58 ELSE 186 OBVIOUS
  <2>3. byte = b BY <2>1, <2>2
  <2>4. IsByte(byte, 58, make)
    <3>1. 58 \in 0 .. 127 \ {96} /\ byte = IF make THEN 58 ELSE 58 + 128
      BY <2>2, <2>3
    <3> QED BY <3>1, ByteParts
  <2>5. byte \notin {157, 197} BY <2>2, <2>3
  <2>6. process_scancode(d, byte) = process_simple_scan(d, 58, make)
    BY <1>0, <1>1, <2>4, <2>5, PlainByte
  <2>7. process_scancode(d, byte) = Switch(d, "caps", make) BY <2>6, SimpleScan
  <2>8. "caps" \in Locks BY DEF Locks
  <2>9. Gives(Switch(d, k, make), Applied(d.mods, k, make), d.internal, <<>>)
    BY <1>7, <2>8, SwitchGives
  <2> QED BY <1>7, <2>7, <2>9 DEF Turns
<1>8. CASE k = "lctl"
  <2>1. <<byte>> = <<IF make THEN 29 ELSE 157>> BY <1>8, <1>t DEF Table
  <2>2. PICK b : b = IF make THEN 29 ELSE 157 OBVIOUS
  <2>3. byte = b BY <2>1, <2>2
  <2>4. IsByte(byte, 29, make)
    <3>1. 29 \in 0 .. 127 \ {96} /\ byte = IF make THEN 29 ELSE 29 + 128
      BY <2>2, <2>3
    <3> QED BY <3>1, ByteParts
  <2>6. "lctl" \in Held BY DEF Held
  <2>7. CASE make
    <3>1. byte \notin {157, 197} BY <2>2, <2>3, <2>7
    <3>2. process_scancode(d, byte) = process_simple_scan(d, 29, make)
      BY <1>0, <1>1, <2>4, <3>1, PlainByte
    <3>3. process_scancode(d, byte) = Hold(e, "lctl", make)
      BY <1>1, <1>2, <3>2, SimpleScan
    <3>4. Gives(Hold(e, k, make), Applied(e.mods, k, make), e.internal, <<>>)
      BY <1>8, <2>6, HoldGives
    <3> QED BY <1>3, <1>8, <3>3, <3>4 DEF Turns
  <2>8. CASE ~make
    <3>1. byte = 157 BY <2>2, <2>3, <2>8
    <3>2. process_scancode(d, byte) = process_simple_scan(e, 29, make)
      BY <1>0, <1>1, <1>2, <2>4, <3>1, PlainByte
    <3>3. process_scancode(d, byte) = Hold(Abandon(e), "lctl", make)
      BY <1>3, <3>2, SimpleScan
    <3>4. PICK f \in Decs : f = Abandon(e) BY <1>3
    <3>5. Gives(Hold(f, k, make), Applied(f.mods, k, make), f.internal, <<>>)
      BY <1>8, <2>6, HoldGives
    <3> QED BY <1>3, <1>8, <3>3, <3>4, <3>5 DEF Turns
  <2> QED BY <2>7, <2>8
<1>9. CASE k = "num"
  <2>1. <<byte>> = <<IF make THEN 69 ELSE 197>> BY <1>9, <1>t DEF Table
  <2>2. PICK b : b = IF make THEN 69 ELSE 197 OBVIOUS
  <2>3. byte = b BY <2>1, <2>2
  <2>4. IsByte(byte, 69, make)
    <3>1. 69 \in 0 .. 127 \ {96} /\ byte = IF make THEN 69 ELSE 69 + 128
      BY <2>2, <2>3
    <3> QED BY <3>1, ByteParts
  <2>6. "num" \in Locks BY DEF Locks
  <2>7. CASE make
    <3>1. byte \notin {157, 197} BY <2>2, <2>3, <2>7
    <3>2. process_scancode(d, byte) = process_simple_scan(d, 69, make)
      BY <1>0, <1>1, <2>4, <3>1, PlainByte
    <3>3. process_scancode(d, byte) = Switch(e, "num", make)
      BY <1>1, <1>2, <3>2, SimpleScan
    <3>4. Gives(Switch(e, k, make), Applied(e.mods, k, make), e.internal, <<>>)
      BY <1>9, <2>6, SwitchGives
    <3> QED BY <1>3, <1>9, <3>3, <3>4 DEF Turns
  <2>8. CASE ~make
    <3>1. byte = 197 BY <2>2, <2>3, <2>8
    <3>2. process_scancode(d, byte) = process_simple_scan(e, 69, make)
      BY <1>0, <1>1, <1>2, <2>4, <3>1, PlainByte
    <3>3. process_scancode(d, byte) = Switch(Abandon(e), "num", make)
      BY <1>3, <3>2, SimpleScan
    <3>4. PICK f \in Decs : f = Abandon(e) BY <1>3
    <3>5. Gives(Switch(f, k, make), Applied(f.mods, k, make), f.internal, <<>>)
      BY <1>9, <2>6, SwitchGives
    <3> QED BY <1>3, <1>9, <3>3, <3>4, <3>5 DEF Turns
  <2> QED BY <2>7, <2>8
<1> QED BY <1>4, <1>5, <1>6, <1>7, <1>8, <1>9

\* The character of a key of one byte, as the decoder sees the modifiers.
Seen(mods, k) ==
  IF k = "a" THEN Char(30, Level(mods, 30))
  ELSE IF k = "8" THEN Char(9, Level(mods, 9)) ELSE Char(9, "plain")

\* A key of one byte gives its character unless the byte before was a prefix.
LEMMA PrintedByte ==
  ASSUME NEW d \in Decs, "ext" \notin d.internal, NEW make \in BOOLEAN, NEW byte,
         NEW k \in {"a", "8", "np8"}, Bytes(k, make) = <<byte>>
  PROVE  /\ process_scancode(d, byte) =
              Result(Cleared(d), Data(Seen(d.mods, k), RawChar(k)))
         /\ (byte < 128) = make
<1>0. Cleared(d).mods = d.mods BY DEF Cleared, Decs
<1>t. Table(make) BY ByteTable
<1>1. CASE k = "a"
  <2>1. <<byte>> = <<IF make THEN 30 ELSE 158>> BY <1>1, <1>t DEF Table
  <2>2. PICK b : b = IF make THEN 30 ELSE 158 OBVIOUS
  <2>3. byte = b BY <2>1, <2>2
  <2>4. IsByte(byte, 30, make)
    <3>1. 30 \in 0 .. 127 \ {96} /\ byte = IF make THEN 30 ELSE 30 + 128
      BY <2>2, <2>3
    <3> QED BY <3>1, ByteParts
  <2>5. byte \notin {157, 197} BY <2>2, <2>3
  <2>6. process_scancode(d, byte) = process_simple_scan(Cleared(d), 30, make)
    BY <2>4, <2>5, PlainByte
  <2>7. process_simple_scan(Cleared(d), 30, make) =
          Result(Cleared(d), Data(Seen(d.mods, k), RawChar(k)))
    BY <1>0, <1>1, SimpleScan DEF Seen, RawChar
  <2>8. (byte < 128) = make BY <2>4 DEF IsByte
  <2> QED BY <2>6, <2>7, <2>8
<1>2. CASE k = "8"
  <2>1. <<byte>> = <<IF make THEN 9 ELSE 137>> BY <1>2, <1>t DEF Table
  <2>2. PICK b : b = IF make THEN 9 ELSE 137 OBVIOUS
  <2>3. byte = b BY <2>1, <2>2
  <2>4. IsByte(byte, 9, make)
    <3>1. 9 \in 0 .. 127 \ {96} /\ byte = IF make THEN 9 ELSE 9 + 128
      BY <2>2, <2>3
    <3> QED BY <3>1, ByteParts
  <2>5. byte \notin {157, 197} BY <2>2, <2>3
  <2>6. process_scancode(d, byte) = process_simple_scan(Cleared(d), 9, make)
    BY <2>4, <2>5, PlainByte
  <2>7. process_simple_scan(Cleared(d), 9, make) =
          Result(Cleared(d), Data(Seen(d.mods, k), RawChar(k)))
    BY <1>0, <1>2, SimpleScan DEF Seen, RawChar
  <2>8. (byte < 128) = make BY <2>4 DEF IsByte
  <2> QED BY <2>6, <2>7, <2>8
<1>3. CASE k = "np8"
  <2>1. <<byte>> = <<IF make THEN 72 ELSE 200>> BY <1>3, <1>t DEF Table
  <2>2. PICK b : b = IF make THEN 72 ELSE 200 OBVIOUS
  <2>3. byte = b BY <2>1, <2>2
  <2>4. IsByte(byte, 72, make)
    <3>1. 72 \in 0 .. 127 \ {96} /\ byte = IF make THEN 72 ELSE 72 + 128
      BY <2>2, <2>3
    <3> QED BY <3>1, ByteParts
  <2>5. byte \notin {157, 197} BY <2>2, <2>3
  <2>6. process_scancode(d, byte) = process_simple_scan(Cleared(d), 72, make)
    BY <2>4, <2>5, PlainByte
  <2>7. process_simple_scan(Cleared(d), 72, make) =
          Result(Cleared(d), Data(Seen(d.mods, k), RawChar(k)))
    BY <1>0, <1>3, SimpleScan DEF Seen, RawChar
  <2>8. (byte < 128) = make BY <2>4 DEF IsByte
  <2> QED BY <2>6, <2>7, <2>8
<1> QED BY <1>1, <1>2, <1>3
\* The prefix only sets its flag.
LEMMA PrefixByte ==
  ASSUME NEW d \in Decs, "ext" \notin d.internal
  PROVE  Turns(d, E0, d.mods, d.internal \cup {"ext"}, <<>>)
<1>1. ~Extended(d) /\ E0 # 157 /\ E0 # 197 BY DEF Extended, E0
<1>2. process_scancode(d, E0) = Result([d EXCEPT !.internal = @ \cup {"ext"}], <<>>)
  BY <1>1, Zenon DEF process_scancode
<1>3. PICK e : e = [d EXCEPT !.internal = @ \cup {"ext"}] OBVIOUS
<1>4. e \in Decs /\ e.mods = d.mods /\ e.internal = d.internal \cup {"ext"}
  BY <1>3 DEF Decs
<1>5. process_scancode(d, E0) = [dec |-> e, data |-> <<>>] BY <1>2, <1>3 DEF Result
<1> QED BY <1>4, <1>5 DEF Turns, Gives

\* A byte behind the prefix goes to process_extended_scan.
LEMMA ExtendedByte ==
  ASSUME NEW d, "ext" \in d.internal, NEW c, NEW make \in BOOLEAN,
         NEW byte, IsByte(byte, c, make)
  PROVE  process_scancode(d, byte) = process_extended_scan(d, c, make)
<1>1. Extended(d) BY DEF Extended
<1>2. byte % 128 = c /\ (byte < 128) = make BY DEF IsByte
<1> QED BY <1>1, <1>2, Zenon DEF process_scancode

\* The flag of the prefix is gone and nothing else.
LEMMA PrefixGone ==
  ASSUME NEW d \in Decs, NEW c
  PROVE  /\ PrefixDone(d, c) \in Decs /\ PrefixDone(d, c).mods = d.mods
         /\ PrefixDone(d, c).internal = d.internal \ {"ext"}
  BY DEF PrefixDone, Decs

\* process_extended_scan, code by code, where e is d without the flag of the prefix.
Scans(d, e, pressed) ==
  /\ process_extended_scan(d, 29, pressed) = Hold(e, "rctl", pressed)
  /\ process_extended_scan(d, 56, pressed) = Hold(e, "ralt", pressed)
  /\ process_extended_scan(d, 72, pressed) =
       Result(e, Data(Char(72 + 128, "plain"), Char(72 + 128, "plain")))
  /\ process_extended_scan(d, 42, pressed) =
       IF "prscr_up" \in e.internal
       THEN Result([e EXCEPT !.internal = @ \ {"prscr_up"}],
                   Data(PrintScreen, PrintScreen))
       ELSE Result([e EXCEPT !.internal = @ \cup {"prscr_down"}], <<>>)
  /\ process_extended_scan(d, 55, pressed) =
       IF "prscr_down" \in e.internal
       THEN Result([e EXCEPT !.internal = @ \ {"prscr_down"}],
                   Data(PrintScreen, PrintScreen))
       ELSE Result([e EXCEPT !.internal = @ \cup {"prscr_up"}], <<>>)

\* It is what the source says.
LEMMA ExtendedScan ==
  ASSUME NEW d, NEW pressed, NEW e, e = PrefixDone(d, 0)
  PROVE  Scans(d, e, pressed)
<1>1. \A c : PrefixDone(d, c) = e BY DEF PrefixDone
<1>2. process_extended_scan(d, 29, pressed) = Hold(e, "rctl", pressed)
  <2>1. /\ 29 # 56 /\ 29 \notin {28, 53}
        /\ 29 \notin {72, 75, 77, 80, 83} /\ 29 # 42 /\ 29 # 55
    OBVIOUS
  <2> QED BY <1>1, <2>1, Zenon DEF process_extended_scan
<1>3. process_extended_scan(d, 56, pressed) = Hold(e, "ralt", pressed)
  <2>1. /\ 56 # 29 /\ 56 \notin {28, 53}
        /\ 56 \notin {72, 75, 77, 80, 83} /\ 56 # 42 /\ 56 # 55
    OBVIOUS
  <2> QED BY <1>1, <2>1, Zenon DEF process_extended_scan
<1>4. process_extended_scan(d, 72, pressed) =
        Result(e, Data(Char(72 + 128, "plain"), Char(72 + 128, "plain")))
  <2>1. /\ 72 # 29 /\ 72 # 56 /\ 72 \notin {28, 53}
        /\ 72 \in {72, 75, 77, 80, 83} /\ 72 # 42 /\ 72 # 55
    OBVIOUS
  <2> QED BY <1>1, <2>1, Zenon DEF process_extended_scan
<1>5. process_extended_scan(d, 42, pressed) =
        IF "prscr_up" \in e.internal
        THEN Result([e EXCEPT !.internal = @ \ {"prscr_up"}],
                    Data(PrintScreen, PrintScreen))
        ELSE Result([e EXCEPT !.internal = @ \cup {"prscr_down"}], <<>>)
  <2>1. /\ 42 # 29 /\ 42 # 56 /\ 42 \notin {28, 53}
        /\ 42 \notin {72, 75, 77, 80, 83} /\ 42 # 55
    OBVIOUS
  <2> QED BY <1>1, <2>1, Zenon DEF process_extended_scan
<1>6. process_extended_scan(d, 55, pressed) =
        IF "prscr_down" \in e.internal
        THEN Result([e EXCEPT !.internal = @ \ {"prscr_down"}],
                    Data(PrintScreen, PrintScreen))
        ELSE Result([e EXCEPT !.internal = @ \cup {"prscr_up"}], <<>>)
  <2>1. /\ 55 # 29 /\ 55 # 56 /\ 55 \notin {28, 53}
        /\ 55 \notin {72, 75, 77, 80, 83} /\ 55 # 42
    OBVIOUS
  <2> QED BY <1>1, <2>1, ZenonT(60) DEF process_extended_scan
<1> QED BY <1>2, <1>3, <1>4, <1>5, <1>6, Zenon DEF Scans

\* The right control and alt keys, and the arrow.
LEMMA PrefixedByte ==
  ASSUME NEW d \in Decs, d.internal = {"ext"}, NEW make \in BOOLEAN, NEW byte
  PROVE  /\ byte = (IF make THEN 29 ELSE 157) =>
              Turns(d, byte, Applied(d.mods, "rctl", make), {}, <<>>)
         /\ byte = (IF make THEN 56 ELSE 184) =>
              Turns(d, byte, Applied(d.mods, "ralt", make), {}, <<>>)
         /\ byte = (IF make THEN 72 ELSE 200) =>
              Turns(d, byte, d.mods, {}, Data(Char(200, "plain"), Char(200, "plain")))
<1>0. "ext" \in d.internal OBVIOUS
<1>1. PICK e : e = PrefixDone(d, 0) OBVIOUS
<1>2. e \in Decs /\ e.mods = d.mods /\ e.internal = {}
  <2>1. d.internal \ {"ext"} = {} OBVIOUS
  <2> QED BY <1>1, <2>1, PrefixGone
<1>3. ASSUME byte = (IF make THEN 29 ELSE 157)
      PROVE  Turns(d, byte, Applied(d.mods, "rctl", make), {}, <<>>)
  <2>1. 29 \in 0 .. 127 \ {96} /\ byte = IF make THEN 29 ELSE 29 + 128 BY <1>3
  <2>2. IsByte(byte, 29, make) BY <2>1, ByteParts
  <2>3. process_scancode(d, byte) = Hold(e, "rctl", make)
    <3>1. process_scancode(d, byte) = process_extended_scan(d, 29, make)
      BY <1>0, <2>2, ExtendedByte
    <3>2. Scans(d, e, make) BY <1>1, ExtendedScan
    <3> QED BY <3>1, <3>2, Zenon DEF Scans
  <2>4. "rctl" \in Held BY DEF Held
  <2>5. Gives(Hold(e, "rctl", make), Applied(e.mods, "rctl", make), e.internal, <<>>)
    BY <1>2, <2>4, HoldGives
  <2> QED BY <1>2, <2>3, <2>5 DEF Turns
<1>4. ASSUME byte = (IF make THEN 56 ELSE 184)
      PROVE  Turns(d, byte, Applied(d.mods, "ralt", make), {}, <<>>)
  <2>1. 56 \in 0 .. 127 \ {96} /\ byte = IF make THEN 56 ELSE 56 + 128 BY <1>4
  <2>2. IsByte(byte, 56, make) BY <2>1, ByteParts
  <2>3. process_scancode(d, byte) = Hold(e, "ralt", make)
    <3>1. process_scancode(d, byte) = process_extended_scan(d, 56, make)
      BY <1>0, <2>2, ExtendedByte
    <3>2. Scans(d, e, make) BY <1>1, ExtendedScan
    <3> QED BY <3>1, <3>2, Zenon DEF Scans
  <2>4. "ralt" \in Held BY DEF Held
  <2>5. Gives(Hold(e, "ralt", make), Applied(e.mods, "ralt", make), e.internal, <<>>)
    BY <1>2, <2>4, HoldGives
  <2> QED BY <1>2, <2>3, <2>5 DEF Turns
<1>5. ASSUME byte = (IF make THEN 72 ELSE 200)
      PROVE  Turns(d, byte, d.mods, {}, Data(Char(200, "plain"), Char(200, "plain")))
  <2>1. 72 \in 0 .. 127 \ {96} /\ byte = IF make THEN 72 ELSE 72 + 128 BY <1>5
  <2>2. IsByte(byte, 72, make) BY <2>1, ByteParts
  <2>3. process_scancode(d, byte) =
          Result(e, Data(Char(72 + 128, "plain"), Char(72 + 128, "plain")))
    <3>1. process_scancode(d, byte) = process_extended_scan(d, 72, make)
      BY <1>0, <2>2, ExtendedByte
    <3>2. Scans(d, e, make) BY <1>1, ExtendedScan
    <3> QED BY <3>1, <3>2, Zenon DEF Scans
  <2>4. Char(72 + 128, "plain") = Char(200, "plain") OBVIOUS
  <2>5. PICK x : x = Data(Char(200, "plain"), Char(200, "plain")) OBVIOUS
  <2>6. process_scancode(d, byte) = [dec |-> e, data |-> x]
    BY <2>3, <2>4, <2>5 DEF Result
  <2> QED BY <1>2, <2>5, <2>6 DEF Turns, Gives
<1> QED BY <1>3, <1>4, <1>5

\* The bytes of Print Screen behind its prefixes.
LEMMA PrintByte ==
  ASSUME NEW d \in Decs
  PROVE  /\ d.internal = {"ext"} => Turns(d, 42, d.mods, {"prscr_down"}, <<>>)
         /\ d.internal = {"ext"} => Turns(d, 183, d.mods, {"prscr_up"}, <<>>)
         /\ d.internal = {"ext", "prscr_down"} =>
              Turns(d, 55, d.mods, {}, Data(PrintScreen, PrintScreen))
         /\ d.internal = {"ext", "prscr_up"} =>
              Turns(d, 170, d.mods, {}, Data(PrintScreen, PrintScreen))
<1>1. PICK e : e = PrefixDone(d, 0) OBVIOUS
<1>2. e \in Decs /\ e.mods = d.mods /\ e.internal = d.internal \ {"ext"}
  BY <1>1, PrefixGone
<1>3. /\ IsByte(42, 42, TRUE) /\ IsByte(183, 55, FALSE) /\ IsByte(55, 55, TRUE)
      /\ IsByte(170, 42, FALSE)
  <2>1. /\ 42 \in 0 .. 127 /\ 55 \in 0 .. 127 /\ 42 \in 0 .. 127 \ {96}
        /\ 55 \in 0 .. 127 \ {96} /\ 183 = 55 + 128 /\ 170 = 42 + 128
    OBVIOUS
  <2>2. IsByte(42, 42, TRUE) /\ IsByte(55, 55, TRUE) BY <2>1, MakeByte, ZenonT(60)
  <2>3. IsByte(183, 55, FALSE) /\ IsByte(170, 42, FALSE) BY <2>1, BreakByte, ZenonT(60)
  <2> QED BY <2>2, <2>3
<1>4. \A f, x : f \in Decs => Gives(Result(f, x), f.mods, f.internal, x)
  BY DEF Gives, Result
<1>5. ASSUME d.internal = {"ext"}
      PROVE  Turns(d, 42, d.mods, {"prscr_down"}, <<>>)
  <2>1. "prscr_up" \notin e.internal /\ "ext" \in d.internal BY <1>2, <1>5
  <2>2. PICK f : f = [e EXCEPT !.internal = @ \cup {"prscr_down"}] OBVIOUS
  <2>3. process_scancode(d, 42) = process_extended_scan(d, 42, TRUE)
    BY <1>3, <2>1, ExtendedByte
  <2>4. process_scancode(d, 42) = Result(f, <<>>)
    <3>1. Scans(d, e, TRUE) BY <1>1, ExtendedScan
    <3> QED BY <2>1, <2>2, <2>3, <3>1, Zenon DEF Scans
  <2>5. f \in Decs /\ f.mods = d.mods /\ f.internal = e.internal \cup {"prscr_down"}
    BY <1>2, <2>2 DEF Decs
  <2>6. f.internal = {"prscr_down"} BY <1>2, <1>5, <2>5
  <2>7. Gives(Result(f, <<>>), f.mods, f.internal, <<>>) BY <1>4, <2>5
  <2> QED BY <2>4, <2>5, <2>6, <2>7 DEF Turns
<1>6. ASSUME d.internal = {"ext"}
      PROVE  Turns(d, 183, d.mods, {"prscr_up"}, <<>>)
  <2>1. "prscr_down" \notin e.internal /\ "ext" \in d.internal BY <1>2, <1>6
  <2>2. PICK f : f = [e EXCEPT !.internal = @ \cup {"prscr_up"}] OBVIOUS
  <2>3. process_scancode(d, 183) = process_extended_scan(d, 55, FALSE)
    BY <1>3, <2>1, ExtendedByte
  <2>4. process_scancode(d, 183) = Result(f, <<>>)
    <3>1. Scans(d, e, FALSE) BY <1>1, ExtendedScan
    <3> QED BY <2>1, <2>2, <2>3, <3>1, Zenon DEF Scans
  <2>5. f \in Decs /\ f.mods = d.mods /\ f.internal = e.internal \cup {"prscr_up"}
    BY <1>2, <2>2 DEF Decs
  <2>6. f.internal = {"prscr_up"} BY <1>2, <1>6, <2>5
  <2>7. Gives(Result(f, <<>>), f.mods, f.internal, <<>>) BY <1>4, <2>5
  <2> QED BY <2>4, <2>5, <2>6, <2>7 DEF Turns
<1>7. ASSUME d.internal = {"ext", "prscr_down"}
      PROVE  Turns(d, 55, d.mods, {}, Data(PrintScreen, PrintScreen))
  <2>1. "prscr_down" \in e.internal /\ "ext" \in d.internal BY <1>2, <1>7
  <2>2. PICK f : f = [e EXCEPT !.internal = @ \ {"prscr_down"}] OBVIOUS
  <2>3. process_scancode(d, 55) = process_extended_scan(d, 55, TRUE)
    BY <1>3, <2>1, ExtendedByte
  <2>4. process_scancode(d, 55) = Result(f, Data(PrintScreen, PrintScreen))
    <3>1. Scans(d, e, TRUE) BY <1>1, ExtendedScan
    <3> QED BY <2>1, <2>2, <2>3, <3>1, Zenon DEF Scans
  <2>5. f \in Decs /\ f.mods = d.mods /\ f.internal = e.internal \ {"prscr_down"}
    BY <1>2, <2>2 DEF Decs
  <2>6. f.internal = {} BY <1>2, <1>7, <2>5
  <2>7. Gives(Result(f, Data(PrintScreen, PrintScreen)), f.mods, f.internal,
              Data(PrintScreen, PrintScreen))
    BY <1>4, <2>5
  <2> QED BY <2>4, <2>5, <2>6, <2>7 DEF Turns
<1>8. ASSUME d.internal = {"ext", "prscr_up"}
      PROVE  Turns(d, 170, d.mods, {}, Data(PrintScreen, PrintScreen))
  <2>1. "prscr_up" \in e.internal /\ "ext" \in d.internal BY <1>2, <1>8
  <2>2. PICK f : f = [e EXCEPT !.internal = @ \ {"prscr_up"}] OBVIOUS
  <2>3. process_scancode(d, 170) = process_extended_scan(d, 42, FALSE)
    BY <1>3, <2>1, ExtendedByte
  <2>4. process_scancode(d, 170) = Result(f, Data(PrintScreen, PrintScreen))
    <3>1. Scans(d, e, FALSE) BY <1>1, ExtendedScan
    <3> QED BY <2>1, <2>2, <2>3, <3>1, Zenon DEF Scans
  <2>5. f \in Decs /\ f.mods = d.mods /\ f.internal = e.internal \ {"prscr_up"}
    BY <1>2, <2>2 DEF Decs
  <2>6. f.internal = {} BY <1>2, <1>8, <2>5
  <2>7. Gives(Result(f, Data(PrintScreen, PrintScreen)), f.mods, f.internal,
              Data(PrintScreen, PrintScreen))
    BY <1>4, <2>5
  <2> QED BY <2>4, <2>5, <2>6, <2>7 DEF Turns
<1> QED BY <1>5, <1>6, <1>7, <1>8

\* A byte of Pause that is not the last one.
Staged(d, byte, n) ==
  /\ Turns(d, byte, d.mods, {"pause"}, <<>>)
  /\ process_scancode(d, byte).dec.seq = n

\* The bytes of Pause.
LEMMA PauseBytes ==
  ASSUME NEW d \in Decs
  PROVE  /\ d.internal = {} => Staged(d, 225, 0)
         /\ d.internal = {"pause"} /\ d.seq = 0 => Staged(d, 29, 1)
         /\ d.internal = {"pause"} /\ d.seq = 1 => Staged(d, 69, 2)
         /\ d.internal = {"pause"} /\ d.seq = 2 => Staged(d, 225, 3)
         /\ d.internal = {"pause"} /\ d.seq = 3 => Staged(d, 157, 4)
         /\ d.internal = {"pause"} /\ d.seq = 4 =>
              Turns(d, 197, d.mods, {}, Data(Pause, Pause))
<1>1. IsByte(29, 29, TRUE) /\ IsByte(69, 69, TRUE) /\ IsByte(225, 97, FALSE)
  <2>1. 29 \in 0 .. 127 /\ 69 \in 0 .. 127 /\ 97 \in 0 .. 127 \ {96} /\ 225 = 97 + 128
    OBVIOUS
  <2>2. IsByte(29, 29, TRUE) /\ IsByte(69, 69, TRUE) BY <2>1, MakeByte, ZenonT(60)
  <2> QED BY <2>1, <2>2, BreakByte, ZenonT(40)
<1>2. /\ 29 \notin {157, 197} /\ 69 \notin {157, 197} /\ 225 \notin {157, 197}
  OBVIOUS
<1>3. d.internal = {} \/ d.internal = {"pause"} => Cleared(d) = d /\ "ext" \notin d.internal
  BY DEF Cleared, Decs
<1>plain. ASSUME Cleared(d) = d, "ext" \notin d.internal
          PROVE  /\ process_scancode(d, 29) = process_simple_scan(d, 29, TRUE)
                 /\ process_scancode(d, 69) = process_simple_scan(d, 69, TRUE)
                 /\ process_scancode(d, 225) = process_simple_scan(d, 97, FALSE)
  <2>1. PICK yes, no \in BOOLEAN : yes = TRUE /\ no = FALSE OBVIOUS
  <2>2. IsByte(29, 29, yes) /\ IsByte(69, 69, yes) /\ IsByte(225, 97, no) BY <1>1, <2>1
  <2>3. process_scancode(d, 29) = process_simple_scan(d, 29, yes)
    BY <1>2, <1>plain, <2>2, PlainByte
  <2>4. process_scancode(d, 69) = process_simple_scan(d, 69, yes)
    BY <1>2, <1>plain, <2>2, PlainByte
  <2>5. process_scancode(d, 225) = process_simple_scan(d, 97, no)
    BY <1>2, <1>plain, <2>2, PlainByte
  <2> QED BY <2>1, <2>3, <2>4, <2>5
<1>4. ASSUME NEW byte, NEW n \in 0 .. 3, d.internal = {"pause"}, d.seq = n,
             process_scancode(d, byte) = Advance(d)
      PROVE  Staged(d, byte, n + 1)
  <2>1. PICK e : e = [d EXCEPT !.seq = @ + 1] OBVIOUS
  <2>2. e \in Decs /\ e.mods = d.mods /\ e.internal = {"pause"} /\ e.seq = n + 1
    BY <1>4, <2>1 DEF Decs
  <2>3. process_scancode(d, byte) = [dec |-> e, data |-> <<>>]
    BY <1>4, <2>1 DEF Advance, Result
  <2> QED BY <2>2, <2>3 DEF Staged, Turns, Gives
<1>5. ASSUME d.internal = {} PROVE Staged(d, 225, 0)
  <2>1. process_scancode(d, 225) = process_simple_scan(d, 97, FALSE)
    <3>1. Cleared(d) = d /\ "ext" \notin d.internal BY <1>3, <1>5
    <3> QED BY <1>plain, <3>1
  <2>2. process_scancode(d, 225) = Start(d) BY <1>5, <2>1, SimpleScan
  <2>3. PICK e : e = [d EXCEPT !.internal = @ \cup {"pause"}] OBVIOUS
  <2>4. e \in Decs /\ e.mods = d.mods /\ e.internal = {"pause"} BY <1>5, <2>3 DEF Decs
  <2>5. PICK f : f = [e EXCEPT !.seq = 0] OBVIOUS
  <2>6. f \in Decs /\ f.mods = d.mods /\ f.internal = {"pause"} /\ f.seq = 0
    BY <2>4, <2>5 DEF Decs
  <2>7. Start(d) = Result(f, <<>>) BY <2>3, <2>5, Zenon DEF Start
  <2>8. process_scancode(d, 225) = [dec |-> f, data |-> <<>>] BY <2>2, <2>7 DEF Result
  <2> QED BY <2>6, <2>8 DEF Staged, Turns, Gives
<1>6. ASSUME d.internal = {"pause"}, d.seq = 0 PROVE Staged(d, 29, 1)
  <2>1. process_scancode(d, 29) = process_simple_scan(d, 29, TRUE)
    <3>1. Cleared(d) = d /\ "ext" \notin d.internal BY <1>3, <1>6
    <3> QED BY <1>plain, <3>1
  <2>2. Stage(d, 0) /\ "pause" \in d.internal BY <1>6 DEF Stage
  <2>3. process_scancode(d, 29) = Advance(d) BY <2>1, <2>2, SimpleScan
  <2>4. Staged(d, 29, 0 + 1) BY <1>4, <1>6, <2>3
  <2> QED BY <2>4
<1>7. ASSUME d.internal = {"pause"}, d.seq = 1 PROVE Staged(d, 69, 2)
  <2>1. process_scancode(d, 69) = process_simple_scan(d, 69, TRUE)
    <3>1. Cleared(d) = d /\ "ext" \notin d.internal BY <1>3, <1>7
    <3> QED BY <1>plain, <3>1
  <2>2. Stage(d, 1) /\ "pause" \in d.internal BY <1>7 DEF Stage
  <2>3. process_scancode(d, 69) = Advance(d) BY <2>1, <2>2, SimpleScan
  <2>4. Staged(d, 69, 1 + 1) BY <1>4, <1>7, <2>3
  <2> QED BY <2>4
<1>8. ASSUME d.internal = {"pause"}, d.seq = 2 PROVE Staged(d, 225, 3)
  <2>1. process_scancode(d, 225) = process_simple_scan(d, 97, FALSE)
    <3>1. Cleared(d) = d /\ "ext" \notin d.internal BY <1>3, <1>8
    <3> QED BY <1>plain, <3>1
  <2>2. Stage(d, 2) /\ "pause" \in d.internal BY <1>8 DEF Stage
  <2>3. process_scancode(d, 225) = Advance(d) BY <2>1, <2>2, SimpleScan
  <2>4. Staged(d, 225, 2 + 1) BY <1>4, <1>8, <2>3
  <2> QED BY <2>4
<1>9. ASSUME d.internal = {"pause"}, d.seq = 3 PROVE Staged(d, 157, 4)
  <2>1. process_scancode(d, 157) = Advance(d) BY <1>3, <1>9, PauseByte DEF Stage
  <2>2. Staged(d, 157, 3 + 1) BY <1>4, <1>9, <2>1
  <2> QED BY <2>2
<1>10. ASSUME d.internal = {"pause"}, d.seq = 4
       PROVE  Turns(d, 197, d.mods, {}, Data(Pause, Pause))
  <2>1. PICK e : e = [d EXCEPT !.internal = @ \ {"pause"}] OBVIOUS
  <2>2. PICK x : x = Data(Pause, Pause) OBVIOUS
  <2>3. Stage(d, 4) /\ "ext" \notin d.internal BY <1>3, <1>10 DEF Stage
  <2>4. process_scancode(d, 197) = Result(e, x) BY <2>1, <2>2, <2>3, PauseByte
  <2>5. process_scancode(d, 197) = [dec |-> e, data |-> x] BY <2>4 DEF Result
  <2>6. e \in Decs /\ e.mods = d.mods /\ e.internal = {} BY <1>10, <2>1 DEF Decs
  <2> QED BY <2>2, <2>5, <2>6 DEF Turns, Gives
<1> QED BY <1>5, <1>6, <1>7, <1>8, <1>9, <1>10

-----------------------------------------------------------------------------
(* A byte at any time *)

\* Abandon resets the count.
LEMMA AbandonTyped ==
  ASSUME NEW d \in Decs PROVE Abandon(d) \in Decs
<1>1. PICK e : e = [d EXCEPT !.internal = @ \ {"pause"}] OBVIOUS
<1>2. e \in Decs BY <1>1 DEF Decs
<1>3. Abandon(d) = [e EXCEPT !.seq = 0] BY <1>1 DEF Abandon
<1> QED BY <1>2, <1>3 DEF Decs

\* process_simple_scan leaves a decoder.
LEMMA SimpleTyped ==
  ASSUME NEW d \in Decs, NEW c, NEW pressed \in BOOLEAN
  PROVE  process_simple_scan(d, c, pressed).dec \in Decs
<1>1. Abandon(d) \in Decs BY AbandonTyped
<1>2. \A f \in Decs, k \in Held : Hold(f, k, pressed).dec \in Decs
  BY HoldGives DEF Gives
<1>3. \A f \in Decs, k \in Locks : Switch(f, k, pressed).dec \in Decs
  BY SwitchGives DEF Gives
<1>4. /\ Hold(d, "lshift", pressed).dec \in Decs /\ Hold(d, "rshift", pressed).dec \in Decs
      /\ Hold(d, "lalt", pressed).dec \in Decs
      /\ Hold(Abandon(d), "lctl", pressed).dec \in Decs
  BY <1>1, <1>2 DEF Held
<1>5. /\ Switch(d, "caps", pressed).dec \in Decs
      /\ Switch(Abandon(d), "num", pressed).dec \in Decs
  BY <1>1, <1>3 DEF Locks
<1>6. \A x : Result(d, x).dec \in Decs /\ Result(Abandon(d), x).dec \in Decs
  BY <1>1 DEF Result
<1>7. Start(d).dec \in Decs
  <2>1. PICK f : f = [d EXCEPT !.internal = @ \cup {"pause"}] OBVIOUS
  <2>2. f \in Decs BY <2>1 DEF Decs
  <2>3. PICK g : g = [f EXCEPT !.seq = 0] OBVIOUS
  <2>4. g \in Decs BY <2>2, <2>3 DEF Decs
  <2>5. Start(d) = Result(g, <<>>) BY <2>1, <2>3, Zenon DEF Start
  <2> QED BY <2>4, <2>5 DEF Result
<1>8. Stage(d, 0) \/ Stage(d, 1) \/ Stage(d, 2) => Advance(d).dec \in Decs
  <2> SUFFICES ASSUME Stage(d, 0) \/ Stage(d, 1) \/ Stage(d, 2)
               PROVE  Advance(d).dec \in Decs
    OBVIOUS
  <2>1. d.seq \in 0 .. 2 BY DEF Stage
  <2>2. Advance(d).dec = [d EXCEPT !.seq = @ + 1] BY DEF Advance, Result
  <2> QED BY <2>1, <2>2 DEF Decs
<1> QED BY <1>4, <1>5, <1>6, <1>7, <1>8, Zenon DEF process_simple_scan

\* process_extended_scan leaves a decoder.
LEMMA ExtendedTyped ==
  ASSUME NEW d \in Decs, NEW c, NEW pressed \in BOOLEAN
  PROVE  process_extended_scan(d, c, pressed).dec \in Decs
<1>1. PICK e : e = PrefixDone(d, c) OBVIOUS
<1>2. e \in Decs BY <1>1, PrefixGone
<1>3. \A k \in Held : Hold(e, k, pressed).dec \in Decs BY <1>2, HoldGives DEF Gives
<1>4. Hold(e, "rctl", pressed).dec \in Decs /\ Hold(e, "ralt", pressed).dec \in Decs
  BY <1>3 DEF Held
<1>5. /\ [e EXCEPT !.internal = @ \ {"prscr_up"}] \in Decs
      /\ [e EXCEPT !.internal = @ \ {"prscr_down"}] \in Decs
      /\ [e EXCEPT !.internal = @ \cup {"prscr_up"}] \in Decs
      /\ [e EXCEPT !.internal = @ \cup {"prscr_down"}] \in Decs
  BY <1>2 DEF Decs
<1>6. \A f, x : f \in Decs => Result(f, x).dec \in Decs BY DEF Result
<1> QED BY <1>1, <1>2, <1>4, <1>5, <1>6, ZenonT(60) DEF process_extended_scan

\* Every byte leaves a decoder, whatever was lost before it.
LEMMA DecoderTyped ==
  ASSUME NEW d \in Decs, NEW byte \in Nat
  PROVE  process_scancode(d, byte).dec \in Decs
<1>1. (byte < 128) \in BOOLEAN OBVIOUS
<1>2. Abandon(d) \in Decs BY AbandonTyped
<1>3. Cleared(d) \in Decs /\ Cleared(Abandon(d)) \in Decs BY <1>2 DEF Cleared, Decs
<1>4. Result([d EXCEPT !.internal = @ \ {"pause"}], Data(Pause, Pause)).dec \in Decs
  BY DEF Decs, Result
<1>5. Result([d EXCEPT !.internal = @ \cup {"ext"}], <<>>).dec \in Decs
  BY DEF Decs, Result
<1>6. Stage(d, 3) => Advance(d).dec \in Decs
  <2> SUFFICES ASSUME Stage(d, 3) PROVE Advance(d).dec \in Decs OBVIOUS
  <2>1. d.seq = 3 BY DEF Stage
  <2>2. Advance(d).dec = [d EXCEPT !.seq = @ + 1] BY DEF Advance, Result
  <2> QED BY <2>1, <2>2 DEF Decs
<1>7. /\ process_simple_scan(Cleared(d), byte % 128, byte < 128).dec \in Decs
      /\ process_simple_scan(Cleared(Abandon(d)), byte % 128, byte < 128).dec \in Decs
  BY <1>1, <1>3, SimpleTyped, ZenonT(60)
<1>8. process_extended_scan(d, byte % 128, byte < 128).dec \in Decs
  BY <1>1, ExtendedTyped, Zenon
<1> QED BY <1>4, <1>5, <1>6, <1>7, <1>8, ZenonT(60) DEF process_scancode, Cleared

\* A decoder that is not waiting for the byte after a prefix.
Bare == {d \in Decs : "ext" \notin d.internal}

\* process_simple_scan sets no prefix.
LEMMA SimpleBare ==
  ASSUME NEW d \in Bare, NEW c, NEW pressed \in BOOLEAN
  PROVE  "ext" \notin process_simple_scan(d, c, pressed).dec.internal
<1>0. d \in Decs /\ "ext" \notin d.internal BY DEF Bare
<1>1. Abandon(d) \in Decs /\ Abandon(d).internal = d.internal \ {"pause"}
  <2>1. Abandon(d).internal = d.internal \ {"pause"} BY <1>0 DEF Abandon, Decs
  <2> QED BY <1>0, <2>1, AbandonTyped
<1>2. \A f \in Decs, k \in Held : Hold(f, k, pressed).dec.internal = f.internal
  BY HoldGives DEF Gives
<1>3. \A f \in Decs, k \in Locks : Switch(f, k, pressed).dec.internal = f.internal
  BY SwitchGives DEF Gives
<1>4. /\ "ext" \notin Hold(d, "lshift", pressed).dec.internal
      /\ "ext" \notin Hold(d, "rshift", pressed).dec.internal
      /\ "ext" \notin Hold(d, "lalt", pressed).dec.internal
      /\ "ext" \notin Hold(Abandon(d), "lctl", pressed).dec.internal
  BY <1>0, <1>1, <1>2 DEF Held
<1>5. /\ "ext" \notin Switch(d, "caps", pressed).dec.internal
      /\ "ext" \notin Switch(Abandon(d), "num", pressed).dec.internal
  BY <1>0, <1>1, <1>3 DEF Locks
<1>6. \A x : /\ "ext" \notin Result(d, x).dec.internal
             /\ "ext" \notin Result(Abandon(d), x).dec.internal
  BY <1>0, <1>1 DEF Result
<1>7. "ext" \notin Start(d).dec.internal
  <2>1. PICK f : f = [d EXCEPT !.internal = @ \cup {"pause"}, !.seq = 0] OBVIOUS
  <2>2. f.internal = d.internal \cup {"pause"} BY <1>0, <2>1 DEF Decs
  <2>3. Start(d) = Result(f, <<>>) BY <2>1, Zenon DEF Start
  <2> QED BY <1>0, <2>2, <2>3 DEF Result
<1>8. "ext" \notin Advance(d).dec.internal
  <2>1. Advance(d).dec = [d EXCEPT !.seq = @ + 1] BY DEF Advance, Result
  <2> QED BY <1>0, <2>1 DEF Decs
<1> QED BY <1>4, <1>5, <1>6, <1>7, <1>8, Zenon DEF process_simple_scan

\* process_extended_scan clears the prefix on every path.
LEMMA ExtendedBare ==
  ASSUME NEW d \in Decs, NEW c, NEW pressed \in BOOLEAN
  PROVE  "ext" \notin process_extended_scan(d, c, pressed).dec.internal
<1>1. PICK e : e = PrefixDone(d, c) OBVIOUS
<1>2. e \in Decs /\ "ext" \notin e.internal BY <1>1 DEF PrefixDone, Decs
<1>3. \A k \in Held : Hold(e, k, pressed).dec.internal = e.internal
  BY <1>2, HoldGives DEF Gives
<1>4. /\ "ext" \notin Hold(e, "rctl", pressed).dec.internal
      /\ "ext" \notin Hold(e, "ralt", pressed).dec.internal
  BY <1>2, <1>3 DEF Held
<1>5. /\ "ext" \notin [e EXCEPT !.internal = @ \ {"prscr_up"}].internal
      /\ "ext" \notin [e EXCEPT !.internal = @ \ {"prscr_down"}].internal
      /\ "ext" \notin [e EXCEPT !.internal = @ \cup {"prscr_up"}].internal
      /\ "ext" \notin [e EXCEPT !.internal = @ \cup {"prscr_down"}].internal
  BY <1>2 DEF Decs
<1>6. \A f, x : "ext" \notin f.internal => "ext" \notin Result(f, x).dec.internal
  BY DEF Result
<1> QED BY <1>1, <1>2, <1>4, <1>5, <1>6, ZenonT(60) DEF process_extended_scan

\* Only the prefix itself leaves the flag of the prefix set.
LEMMA PrefixSpent ==
  ASSUME NEW d \in Decs, NEW byte \in Nat, byte # E0
  PROVE  "ext" \notin process_scancode(d, byte).dec.internal
<1>1. (byte < 128) \in BOOLEAN OBVIOUS
<1>2. CASE Extended(d)
  <2>1. process_scancode(d, byte) = process_extended_scan(d, byte % 128, byte < 128)
    BY <1>2, Zenon DEF process_scancode
  <2>2. "ext" \notin process_extended_scan(d, byte % 128, byte < 128).dec.internal
    BY <1>1, ExtendedBare, Zenon
  <2> QED BY <2>1, <2>2, Zenon
<1>3. CASE ~Extended(d)
  <2>1. "ext" \notin d.internal BY <1>3 DEF Extended
  <2>2. Cleared(d) \in Bare
    <3>1. Cleared(d) \in Decs /\ "ext" \notin Cleared(d).internal
      BY <2>1 DEF Cleared, Decs
    <3> QED BY <3>1 DEF Bare
  <2>3. Cleared(Abandon(d)) \in Bare
    <3>1. Abandon(d) \in Decs /\ "ext" \notin Abandon(d).internal
      <4>1. Abandon(d).internal = d.internal \ {"pause"} BY DEF Abandon, Decs
      <4> QED BY <2>1, <4>1, AbandonTyped
    <3>2. Cleared(Abandon(d)) \in Decs /\ "ext" \notin Cleared(Abandon(d)).internal
      BY <3>1 DEF Cleared, Decs
    <3> QED BY <3>2 DEF Bare
  <2>4. "ext" \notin Advance(d).dec.internal
    <3>1. Advance(d).dec = [d EXCEPT !.seq = @ + 1] BY DEF Advance, Result
    <3> QED BY <2>1, <3>1 DEF Decs
  <2>5. "ext" \notin Result([d EXCEPT !.internal = @ \ {"pause"}], Data(Pause, Pause)).dec.internal
    BY <2>1 DEF Decs, Result
  <2>6. /\ "ext" \notin process_simple_scan(Cleared(d), byte % 128, byte < 128).dec.internal
        /\ "ext" \notin process_simple_scan(Cleared(Abandon(d)), byte % 128, byte < 128).dec.internal
    BY <1>1, <2>2, <2>3, SimpleBare, ZenonT(60)
  <2> QED BY <1>3, <2>4, <2>5, <2>6, ZenonT(60) DEF process_scancode, Cleared
<1> QED BY <1>2, <1>3

-----------------------------------------------------------------------------
(* The interrupt handler *)

\* A byte that gives no data.
LEMMA Received ==
  ASSUME Receive, NEW m, NEW i, Turns(dec, Head(line), m, i, <<>>)
  PROVE  /\ dec' \in Decs /\ dec' = process_scancode(dec, Head(line)).dec
         /\ dec'.mods = m /\ dec'.internal = i
         /\ events' = events /\ key_state' = key_state /\ line' = Tail(line)
         /\ down' = down /\ locks' = locks /\ last' = last /\ lost' = lost
<1>1. PICK r : r = process_scancode(dec, Head(line)) OBVIOUS
<1>2. dec' = r.dec /\ line' = Tail(line) BY <1>1 DEF Receive
<1>3. r.dec \in Decs /\ r.dec.mods = m /\ r.dec.internal = i /\ r.data = <<>>
  BY <1>1 DEF Turns, Gives
<1>4. events' = events /\ key_state' = key_state BY <1>1, <1>3 DEF Receive
<1>5. down' = down /\ locks' = locks /\ last' = last /\ lost' = lost BY DEF Receive
<1> QED BY <1>1, <1>2, <1>3, <1>4, <1>5

\* A byte that gives data.
LEMMA ReceivedData ==
  ASSUME Receive, NEW m, NEW i, NEW c, NEW raw,
         Turns(dec, Head(line), m, i, Data(c, raw)),
         NEW make, (Head(line) < 128) = make
  PROVE  /\ dec' \in Decs /\ dec'.mods = m /\ dec'.internal = i
         /\ events' = Append(events, [char |-> c, raw |-> raw, make |-> make])
         /\ key_state' = Recorded(key_state, raw, make)
         /\ line' = Tail(line)
         /\ down' = down /\ locks' = locks /\ last' = last /\ lost' = lost
<1>1. PICK r : r = process_scancode(dec, Head(line)) OBVIOUS
<1>2. dec' = r.dec /\ line' = Tail(line) BY <1>1 DEF Receive
<1>3. r.dec \in Decs /\ r.dec.mods = m /\ r.dec.internal = i /\ r.data = Data(c, raw)
  BY <1>1 DEF Turns, Gives
<1>4. /\ Data(c, raw) # <<>> /\ Head(Data(c, raw)).char = c
      /\ Head(Data(c, raw)).raw = raw
  BY DEF Data
<1>5. /\ events' = Append(events, [char |-> Head(r.data).char, raw |-> Head(r.data).raw,
                                   make |-> Head(line) < 128])
      /\ key_state' = Recorded(key_state, Head(r.data).raw, Head(line) < 128)
  <2>1. process_scancode(dec, Head(line)).data # <<>> BY <1>1, <1>3, <1>4
  <2> QED BY <1>1, <2>1, Zenon DEF Receive
<1>6. /\ events' = Append(events, [char |-> c, raw |-> raw, make |-> make])
      /\ key_state' = Recorded(key_state, raw, make)
  BY <1>3, <1>4, <1>5, Zenon
<1>7. down' = down /\ locks' = locks /\ last' = last /\ lost' = lost BY DEF Receive
<1> QED BY <1>2, <1>3, <1>6, <1>7

\* The character is the one that is printed on the key at this level.
LEMMA SeenRight ==
  ASSUME NEW k \in {"a", "8", "np8"}, locks \subseteq Locks, NEW m, m = Truth
  PROVE  Seen(m, k) = CharOf(k)
<1>1. /\ m \cap {"lshift", "rshift"} = down \cap {"lshift", "rshift"}
      /\ m \cap {"lctl", "rctl"} = down \cap {"lctl", "rctl"}
      /\ "caps" \in m <=> "caps" \in locks
  BY DEF Truth, Held, Locks
<1>2. PICK shift \in BOOLEAN : shift <=> down \cap {"lshift", "rshift"} # {} OBVIOUS
<1>3. PICK ctl \in BOOLEAN : ctl <=> down \cap {"lctl", "rctl"} # {} OBVIOUS
<1>4. 30 \in Letters /\ 9 \notin Letters /\ 9 \notin ShiftCtl BY DEF Letters, ShiftCtl
<1>5. {"lshift", "rshift"} \cap m # {} <=> shift BY <1>1, <1>2
<1>6. {"lctl", "rctl"} \cap m # {} <=> ctl BY <1>1, <1>3
<1>7. CASE k = "a"
  <2>1. Level(m, 30) = IF ctl THEN "ctl" ELSE IF shift <=> "caps" \in locks THEN "plain"
                       ELSE "shift"
    BY <1>1, <1>4, <1>5, <1>6 DEF Level
  <2>2. (down \cap {"lshift", "rshift"} # {}) = ("caps" \in locks)
          <=> (shift <=> "caps" \in locks)
    BY <1>2
  <2>3. CharOf("a") = Char(30, IF ctl THEN "ctl"
                               ELSE IF shift <=> "caps" \in locks THEN "plain"
                               ELSE "shift")
    BY <1>3, <2>2, Zenon DEF CharOf
  <2> QED BY <1>7, <2>1, <2>3 DEF Seen
<1>8. CASE k = "8"
  <2>1. Level(m, 9) = IF shift THEN "shift" ELSE "plain"
    BY <1>4, <1>5 DEF Level
  <2>2. CharOf("8") = Char(9, IF shift THEN "shift" ELSE "plain")
    BY <1>2, Zenon DEF CharOf
  <2> QED BY <1>8, <2>1, <2>2 DEF Seen
<1>9. CASE k = "np8"
  <2>1. CharOf("np8") = Char(9, "plain") BY Zenon DEF CharOf
  <2> QED BY <1>9, <2>1 DEF Seen
<1> QED BY <1>7, <1>8, <1>9

\* A byte in the middle of a key.
Middle(i) == Turns(dec, Head(line), dec.mods, i, <<>>)

\* What does not change in the middle of a key.
LEMMA StillPending ==
  ASSUME Pending, Receive, NEW i, Middle(i), NEW k, k = last.key,
         NEW make, make = last.make,
         (Prefixed(k, make) \/ Printing(k, make) \/ Pausing(k, make))'
  PROVE  Pending'
<1>1. /\ dec'.mods = dec.mods /\ events' = events /\ key_state' = key_state
      /\ down' = down /\ locks' = locks /\ last' = last
  BY Received DEF Middle
<1>2. Truth' = Truth BY <1>1 DEF Truth
<1>3. Prefixed(last.key, last.make)' \/ Printing(last.key, last.make)'
      \/ Pausing(last.key, last.make)'
  BY <1>1
<1>4. /\ last'.key # "none" /\ events' = <<>>
      /\ Applied(dec'.mods, last'.key, last'.make) = Truth'
      /\ Right(Marked(key_state', last'.key, last'.make), down')
  BY <1>1, <1>2 DEF Pending
<1> QED BY <1>3, <1>4 DEF Pending

\* The last byte of a modifier.
LEMMA ModifierDone ==
  ASSUME Pending, Receive, NEW k \in Held \cup Locks, k = last.key,
         Turns(dec, Head(line), Applied(dec.mods, k, last.make), {}, <<>>)
  PROVE  Rested'
<1>1. /\ dec'.mods = Applied(dec.mods, k, last.make) /\ dec'.internal = {}
      /\ events' = events /\ key_state' = key_state
      /\ down' = down /\ locks' = locks /\ last' = last
  BY Received
<1>2. Truth' = Truth BY <1>1 DEF Truth
<1>3. dec'.mods = Truth' BY <1>1, <1>2 DEF Pending
<1>4. Right(key_state', down')
  <2>1. Marked(key_state, last.key, last.make) = key_state BY DEF Marked
  <2> QED BY <1>1, <2>1 DEF Pending
<1>5. EventsExact' BY <1>1 DEF Pending, EventsExact
<1> QED BY <1>1, <1>3, <1>4, <1>5 DEF Rested

\* The last byte of a key that has a character.
LEMMA PrintedDone ==
  ASSUME Pending, Receive, NEW k \in Printed, k = last.key,
         last.make \in BOOLEAN, k = "pause" => last.make,
         Turns(dec, Head(line), dec.mods, {}, Data(CharOf(k), RawChar(k))),
         (Head(line) < 128) = (last.make /\ k # "pause")
  PROVE  Rested'
<1>0. k \notin Held \cup Locks BY DEF Printed, Held, Locks
<1>1. PICK make : make = (last.make /\ k # "pause") OBVIOUS
<1>2. /\ dec'.mods = dec.mods /\ dec'.internal = {}
      /\ events' = Append(events, [char |-> CharOf(k), raw |-> RawChar(k), make |-> make])
      /\ key_state' = Recorded(key_state, RawChar(k), make)
      /\ down' = down /\ locks' = locks /\ last' = last
  BY <1>1, ReceivedData
<1>3. Truth' = Truth BY <1>2 DEF Truth
<1>4. dec'.mods = Truth'
  <2>1. Applied(dec.mods, last.key, last.make) = dec.mods BY <1>0 DEF Applied
  <2> QED BY <1>2, <1>3, <2>1 DEF Pending
<1>5. Right(key_state', down')
  <2>1. Marked(key_state, last.key, last.make) = key_state' BY <1>0, <1>1, <1>2 DEF Marked
  <2> QED BY <1>2, <2>1 DEF Pending
<1>6. CharOf(k)' = CharOf(k) BY <1>2 DEF CharOf
<1>7. RawOf(k)' = RawChar(k) BY RawCodesNext
<1>8. events' = <<[char |-> CharOf(k)', raw |-> RawOf(k)', make |-> make]>>
  <2>1. events = <<>> BY DEF Pending
  <2> QED BY <1>2, <1>6, <1>7, <2>1
<1>9. EventsExact'
  <2>1. ~(k = "pause" /\ ~last.make) OBVIOUS
  <2> QED BY <1>0, <1>1, <1>2, <1>8, <2>1, Zenon DEF EventsExact
<1> QED BY <1>2, <1>4, <1>5, <1>9 DEF Rested
\* Where a byte leaves the key.
Outcome == IF line = <<>> THEN Rested ELSE Pending

\* A byte in the middle and a last byte.
LEMMA OutcomeCases ==
  /\ line' # <<>> /\ Pending' => Outcome'
  /\ line' = <<>> /\ Rested' => Outcome'
  BY DEF Outcome

\* The first byte of a key.
LEMMA BegunReceived ==
  ASSUME Typed, Pending, Receive, Begun(last.key, last.make)
  PROVE  Outcome'
<1>1. PICK k : k = last.key OBVIOUS
<1>2. PICK make : make = last.make OBVIOUS
<1>3. k \in Names /\ make \in BOOLEAN
  BY <1>1, <1>2 DEF Typed, Pending
<1>t. Table(make) BY <1>3, ByteTable
<1>4. line = Bytes(k, make) /\ dec.internal = {} /\ dec \in Decs
  BY <1>1, <1>2 DEF Begun, At, Typed
<1>5. "ext" \notin dec.internal BY <1>4
<1>6. line' = Tail(line) /\ line # <<>> BY DEF Receive
<1>7. CASE k \in {"lshift", "rshift", "lctl", "lalt", "caps", "num"}
  <2>0. k \in SingleKeys BY <1>7 DEF SingleKeys
  <2>1. \E b : Bytes(k, make) = <<b>> BY <1>3, <2>0, OneByte, Zenon
  <2>2. PICK b : Bytes(k, make) = <<b>> BY <2>1
  <2>3. Head(line) = b /\ line' = <<>> BY <1>4, <1>6, <2>2
  <2>4. Turns(dec, b, Applied(dec.mods, k, make), {}, <<>>)
    BY <1>3, <1>4, <1>7, <2>2, ModifierByte
  <2>5. k \in Held \cup Locks BY <1>7 DEF Held, Locks
  <2>6. Rested' BY <1>1, <1>2, <2>3, <2>4, <2>5, ModifierDone
  <2> QED BY <2>3, <2>6, OutcomeCases
<1>8. CASE k \in {"a", "8", "np8"}
  <2>0. k \in SingleKeys BY <1>8 DEF SingleKeys
  <2>1. \E b : Bytes(k, make) = <<b>> BY <1>3, <2>0, OneByte, Zenon
  <2>2. PICK b : Bytes(k, make) = <<b>> BY <2>1
  <2>3. Head(line) = b /\ line' = <<>> BY <1>4, <1>6, <2>2
  <2>4. /\ process_scancode(dec, b) =
             Result(Cleared(dec), Data(Seen(dec.mods, k), RawChar(k)))
        /\ (b < 128) = make
    BY <1>3, <1>4, <1>5, <1>8, <2>2, PrintedByte
  <2>5. k \in Printed /\ k \notin Held \cup Locks /\ k # "pause"
    BY <1>8 DEF Printed, Held, Locks
  <2>6. dec.mods = Truth
    BY <1>1, <2>5 DEF Pending, Applied
  <2>7. Seen(dec.mods, k) = CharOf(k) BY <1>8, <2>6, SeenRight DEF Typed
  <2>8. Cleared(dec) = dec BY <1>4, IdleDecoder
  <2>9. PICK x : x = Data(CharOf(k), RawChar(k)) OBVIOUS
  <2>10. process_scancode(dec, b) = [dec |-> dec, data |-> x]
    BY <2>4, <2>7, <2>8, <2>9 DEF Result
  <2>11. Turns(dec, b, dec.mods, {}, x) BY <1>4, <2>10 DEF Turns, Gives
  <2>12. (b < 128) = (make /\ k # "pause") BY <1>3, <2>4, <2>5, Zenon
  <2>13. /\ Turns(dec, Head(line), dec.mods, {}, Data(CharOf(k), RawChar(k)))
         /\ (Head(line) < 128) = (last.make /\ k # "pause")
    BY <1>2, <2>3, <2>9, <2>11, <2>12
  <2>14. Rested' BY <1>1, <1>2, <1>3, <2>5, <2>13, PrintedDone
  <2> QED BY <2>3, <2>14, OutcomeCases
<1>9. CASE k \in {"rctl", "ralt", "up"}
  <2>0. k \in PairKeys BY <1>9 DEF PairKeys
  <2>1. \E x : Bytes(k, make) = <<E0, x>> BY <1>3, <2>0, TwoBytes, Zenon
  <2>2. PICK x : Bytes(k, make) = <<E0, x>> BY <2>1
  <2>3. Head(line) = E0 /\ line' = <<x>> /\ line' # <<>> /\ Bytes(k, make)[2] = x
    BY <1>4, <1>6, <2>2
  <2>4. dec.internal \cup {"ext"} = {"ext"} BY <1>4
  <2>5. Middle({"ext"}) BY <1>4, <1>5, <2>3, <2>4, PrefixByte DEF Middle
  <2>6. dec'.internal = {"ext"} BY <2>5, Received DEF Middle
  <2>7. Prefixed(k, make)' BY <1>9, <2>3, <2>6 DEF Prefixed, At, Bytes
  <2>8. Pending' BY <1>1, <1>2, <2>5, <2>7, StillPending
  <2> QED BY <2>3, <2>8, OutcomeCases
<1>10. CASE k = "prtsc"
  <2>1. dec.internal \cup {"ext"} = {"ext"} BY <1>4
  <2>2. Head(line) = E0 /\ line' # <<>>
        /\ line' = IF make THEN <<42, E0, 55>> ELSE <<183, E0, 170>>
    <3>1. CASE make = TRUE
      <4>1. line = <<E0, 42, E0, 55>> BY <1>3, <1>4, <1>10, <3>1, <1>t DEF Table
      <4> QED BY <1>6, <3>1, <4>1
    <3>2. CASE make = FALSE
      <4>1. line = <<E0, 183, E0, 170>> BY <1>3, <1>4, <1>10, <3>2, <1>t DEF Table
      <4> QED BY <1>6, <3>2, <4>1
    <3> QED BY <1>3, <3>1, <3>2
  <2>3. Middle({"ext"}) BY <1>4, <1>5, <2>1, <2>2, PrefixByte DEF Middle
  <2>4. dec'.internal = {"ext"} BY <2>3, Received DEF Middle
  <2>5. Printing(k, make)' BY <1>10, <2>2, <2>4 DEF Printing, At
  <2>6. Pending' BY <1>1, <1>2, <2>3, <2>5, StillPending
  <2> QED BY <2>2, <2>6, OutcomeCases
<1>11. CASE k = "pause"
  <2>1. make = TRUE
    <3>1. Bytes("pause", FALSE) = <<>> BY <1>t DEF Table
    <3> QED BY <1>3, <1>4, <1>6, <1>11, <3>1
  <2>2. line = <<225, 29, 69, 225, 157, 197>> BY <1>3, <1>4, <1>11, <2>1, <1>t DEF Table
  <2>3. Head(line) = 225 /\ line' = <<29, 69, 225, 157, 197>> /\ line' # <<>>
    BY <1>6, <2>2
  <2>4. Staged(dec, 225, 0) BY <1>4, PauseBytes
  <2>5. Middle({"pause"}) BY <2>3, <2>4 DEF Middle, Staged
  <2>6. dec'.internal = {"pause"} /\ dec' = process_scancode(dec, Head(line)).dec
    BY <2>5, Received DEF Middle
  <2>7. dec'.seq = 0 BY <2>3, <2>4, <2>6 DEF Staged
  <2>8. Pausing(k, make)' BY <1>11, <2>1, <2>3, <2>6, <2>7 DEF Pausing, At
  <2>9. Pending' BY <1>1, <1>2, <2>5, <2>8, StillPending
  <2> QED BY <2>3, <2>9, OutcomeCases
<1> QED BY <1>3, <1>7, <1>8, <1>9, <1>10, <1>11 DEF Names

\* The byte behind the prefix.
LEMMA PrefixedReceived ==
  ASSUME Typed, Pending, Receive, Prefixed(last.key, last.make)
  PROVE  Outcome'
<1>1. PICK k : k = last.key OBVIOUS
<1>2. PICK make : make = last.make OBVIOUS
<1>3. k \in {"rctl", "ralt", "up"} /\ make \in BOOLEAN
  BY <1>1, <1>2 DEF Typed, Pending, Prefixed
<1>t. Table(make) BY <1>3, ByteTable
<1>4. line = <<Bytes(k, make)[2]>> /\ dec.internal = {"ext"} /\ dec \in Decs
  BY <1>1, <1>2 DEF Prefixed, At, Typed
<1>5. line' = Tail(line) BY DEF Receive
<1>6. Head(line) = Bytes(k, make)[2] /\ line' = <<>> BY <1>4, <1>5
<1>7. CASE k = "rctl"
  <2>1. PICK b : b = IF make THEN 29 ELSE 157 OBVIOUS
  <2>2. Bytes(k, make) = <<E0, b>>
    <3>1. Bytes("rctl", make) = <<E0, IF make THEN 29 ELSE 157>> BY <1>3, <1>t DEF Table
    <3> QED BY <1>7, <2>1, <3>1
  <2>3. Head(line) = b BY <1>6, <2>2
  <2>4. Turns(dec, b, Applied(dec.mods, k, make), {}, <<>>)
    BY <1>3, <1>4, <1>7, <2>1, PrefixedByte
  <2>5. k \in Held \cup Locks BY <1>7 DEF Held
  <2>6. Rested' BY <1>1, <1>2, <2>3, <2>4, <2>5, ModifierDone
  <2> QED BY <1>6, <2>6, OutcomeCases
<1>8. CASE k = "ralt"
  <2>1. PICK b : b = IF make THEN 56 ELSE 184 OBVIOUS
  <2>2. Bytes(k, make) = <<E0, b>>
    <3>1. Bytes("ralt", make) = <<E0, IF make THEN 56 ELSE 184>> BY <1>3, <1>t DEF Table
    <3> QED BY <1>8, <2>1, <3>1
  <2>3. Head(line) = b BY <1>6, <2>2
  <2>4. Turns(dec, b, Applied(dec.mods, k, make), {}, <<>>)
    BY <1>3, <1>4, <1>8, <2>1, PrefixedByte
  <2>5. k \in Held \cup Locks BY <1>8 DEF Held
  <2>6. Rested' BY <1>1, <1>2, <2>3, <2>4, <2>5, ModifierDone
  <2> QED BY <1>6, <2>6, OutcomeCases
<1>9. CASE k = "up"
  <2>1. PICK b : b = IF make THEN 72 ELSE 200 OBVIOUS
  <2>2. Bytes(k, make) = <<E0, b>>
    <3>1. Bytes("up", make) = <<E0, IF make THEN 72 ELSE 200>> BY <1>3, <1>t DEF Table
    <3> QED BY <1>9, <2>1, <3>1
  <2>3. Head(line) = b BY <1>6, <2>2
  <2>4. Turns(dec, b, dec.mods, {}, Data(Char(200, "plain"), Char(200, "plain")))
    BY <1>3, <1>4, <2>1, PrefixedByte
  <2>5. CharOf(k) = Char(200, "plain") BY <1>9, Zenon DEF CharOf
  <2>6. RawChar(k) = Char(200, "plain") BY <1>9 DEF RawChar
  <2>7. (b < 128) = (make /\ k # "pause")
    <3>1. CASE make = TRUE
      <4>1. b < 128 BY <2>1, <3>1
      <4> QED BY <1>9, <3>1, <4>1, Zenon
    <3>2. CASE make = FALSE
      <4>1. ~(b < 128) /\ (b < 128) \in BOOLEAN BY <2>1, <3>2
      <4> QED BY <3>2, <4>1, Zenon
    <3> QED BY <1>3, <3>1, <3>2
  <2>8. /\ Turns(dec, Head(line), dec.mods, {}, Data(CharOf(k), RawChar(k)))
        /\ (Head(line) < 128) = (last.make /\ k # "pause")
    BY <1>2, <2>3, <2>4, <2>5, <2>6, <2>7
  <2>9. k \in Printed BY <1>9 DEF Printed
  <2>10. Rested' BY <1>1, <1>2, <1>3, <1>9, <2>8, <2>9, PrintedDone
  <2> QED BY <1>6, <2>10, OutcomeCases
<1> QED BY <1>3, <1>7, <1>8, <1>9

\* The bytes of Print Screen.
LEMMA PrintingReceived ==
  ASSUME Typed, Pending, Receive, Printing(last.key, last.make)
  PROVE  Outcome'
<1>1. PICK k : k = last.key OBVIOUS
<1>2. PICK make : make = last.make OBVIOUS
<1>3. k = "prtsc" /\ make \in BOOLEAN /\ dec \in Decs
  BY <1>1, <1>2 DEF Typed, Pending, Printing
<1>4. line' = Tail(line) BY DEF Receive
<1>5. \/ make /\ (\/ At(<<42, E0, 55>>, {"ext"}) \/ At(<<E0, 55>>, {"prscr_down"})
                  \/ At(<<55>>, {"ext", "prscr_down"}))
      \/ ~make /\ (\/ At(<<183, E0, 170>>, {"ext"}) \/ At(<<E0, 170>>, {"prscr_up"})
                   \/ At(<<170>>, {"ext", "prscr_up"}))
  <2>1. Printing(k, make) BY <1>1, <1>2
  <2> QED BY <1>3, <2>1, Zenon DEF Printing
<1>6. /\ CharOf(k) = PrintScreen /\ RawChar(k) = PrintScreen /\ k \in Printed
      /\ k # "pause"
  <2>1. CharOf("prtsc") = PrintScreen BY Zenon DEF CharOf
  <2> QED BY <1>3, <2>1 DEF RawChar, PrintScreen, Printed
<1>7. CASE make /\ At(<<42, E0, 55>>, {"ext"})
  <2>1. Head(line) = 42 /\ line' = <<E0, 55>> /\ line' # <<>> /\ dec.internal = {"ext"}
    BY <1>4, <1>7 DEF At
  <2>2. Middle({"prscr_down"}) BY <1>3, <2>1, PrintByte DEF Middle
  <2>3. dec'.internal = {"prscr_down"} BY <2>2, Received DEF Middle
  <2>4. Printing(k, make)' BY <1>3, <1>7, <2>1, <2>3 DEF Printing, At
  <2>5. Pending' BY <1>1, <1>2, <2>2, <2>4, StillPending
  <2> QED BY <2>1, <2>5, OutcomeCases
<1>8. CASE make /\ At(<<E0, 55>>, {"prscr_down"})
  <2>1. Head(line) = E0 /\ line' = <<55>> /\ line' # <<>> /\ "ext" \notin dec.internal
        /\ dec.internal \cup {"ext"} = {"ext", "prscr_down"}
    BY <1>4, <1>8 DEF At
  <2>2. Middle({"ext", "prscr_down"}) BY <1>3, <2>1, PrefixByte DEF Middle
  <2>3. dec'.internal = {"ext", "prscr_down"} BY <2>2, Received DEF Middle
  <2>4. Printing(k, make)' BY <1>3, <1>8, <2>1, <2>3 DEF Printing, At
  <2>5. Pending' BY <1>1, <1>2, <2>2, <2>4, StillPending
  <2> QED BY <2>1, <2>5, OutcomeCases
<1>9. CASE make /\ At(<<55>>, {"ext", "prscr_down"})
  <2>1. Head(line) = 55 /\ line' = <<>> /\ dec.internal = {"ext", "prscr_down"}
    BY <1>4, <1>9 DEF At
  <2>2. Turns(dec, Head(line), dec.mods, {}, Data(CharOf(k), RawChar(k)))
    BY <1>3, <1>6, <2>1, PrintByte
  <2>3. (Head(line) < 128) = (last.make /\ k # "pause")
    <3>1. (Head(line) < 128) /\ (Head(line) < 128) \in BOOLEAN BY <2>1
    <3> QED BY <1>2, <1>3, <1>6, <1>9, <3>1, Zenon
  <2>4. Rested' BY <1>1, <1>2, <1>3, <1>6, <2>2, <2>3, PrintedDone
  <2> QED BY <2>1, <2>4, OutcomeCases
<1>10. CASE ~make /\ At(<<183, E0, 170>>, {"ext"})
  <2>1. Head(line) = 183 /\ line' = <<E0, 170>> /\ line' # <<>> /\ dec.internal = {"ext"}
    BY <1>4, <1>10 DEF At
  <2>2. Middle({"prscr_up"}) BY <1>3, <2>1, PrintByte DEF Middle
  <2>3. dec'.internal = {"prscr_up"} BY <2>2, Received DEF Middle
  <2>4. Printing(k, make)' BY <1>3, <1>10, <2>1, <2>3 DEF Printing, At
  <2>5. Pending' BY <1>1, <1>2, <2>2, <2>4, StillPending
  <2> QED BY <2>1, <2>5, OutcomeCases
<1>11. CASE ~make /\ At(<<E0, 170>>, {"prscr_up"})
  <2>1. Head(line) = E0 /\ line' = <<170>> /\ line' # <<>> /\ "ext" \notin dec.internal
        /\ dec.internal \cup {"ext"} = {"ext", "prscr_up"}
    BY <1>4, <1>11 DEF At
  <2>2. Middle({"ext", "prscr_up"}) BY <1>3, <2>1, PrefixByte DEF Middle
  <2>3. dec'.internal = {"ext", "prscr_up"} BY <2>2, Received DEF Middle
  <2>4. Printing(k, make)' BY <1>3, <1>11, <2>1, <2>3 DEF Printing, At
  <2>5. Pending' BY <1>1, <1>2, <2>2, <2>4, StillPending
  <2> QED BY <2>1, <2>5, OutcomeCases
<1>12. CASE ~make /\ At(<<170>>, {"ext", "prscr_up"})
  <2>1. Head(line) = 170 /\ line' = <<>> /\ dec.internal = {"ext", "prscr_up"}
    BY <1>4, <1>12 DEF At
  <2>2. Turns(dec, Head(line), dec.mods, {}, Data(CharOf(k), RawChar(k)))
    BY <1>3, <1>6, <2>1, PrintByte
  <2>3. (Head(line) < 128) = (last.make /\ k # "pause")
    <3>1. ~(Head(line) < 128) /\ (Head(line) < 128) \in BOOLEAN BY <2>1
    <3> QED BY <1>2, <1>3, <1>6, <1>12, <3>1, Zenon
  <2>4. Rested' BY <1>1, <1>2, <1>3, <1>6, <2>2, <2>3, PrintedDone
  <2> QED BY <2>1, <2>4, OutcomeCases
<1> QED BY <1>5, <1>7, <1>8, <1>9, <1>10, <1>11, <1>12

\* The bytes of Pause.
LEMMA PausingReceived ==
  ASSUME Typed, Pending, Receive, Pausing(last.key, last.make)
  PROVE  Outcome'
<1>1. PICK k : k = last.key OBVIOUS
<1>2. PICK make : make = last.make OBVIOUS
<1>3. k = "pause" /\ make /\ make \in BOOLEAN /\ dec \in Decs
  BY <1>1, <1>2 DEF Typed, Pending, Pausing
<1>4. line' = Tail(line) BY DEF Receive
<1>5. \/ At(<<29, 69, 225, 157, 197>>, {"pause"}) /\ dec.seq = 0
      \/ At(<<69, 225, 157, 197>>, {"pause"}) /\ dec.seq = 1
      \/ At(<<225, 157, 197>>, {"pause"}) /\ dec.seq = 2
      \/ At(<<157, 197>>, {"pause"}) /\ dec.seq = 3
      \/ At(<<197>>, {"pause"}) /\ dec.seq = 4
  BY DEF Pausing
<1>6. CASE At(<<29, 69, 225, 157, 197>>, {"pause"}) /\ dec.seq = 0
  <2>1. Head(line) = 29 /\ line' = <<69, 225, 157, 197>> /\ line' # <<>> BY <1>4, <1>6 DEF At
  <2>2. Staged(dec, 29, 1) BY <1>3, <1>6, PauseBytes DEF At
  <2>3. Middle({"pause"}) BY <2>1, <2>2 DEF Middle, Staged
  <2>4. dec'.internal = {"pause"} /\ dec' = process_scancode(dec, Head(line)).dec
    BY <2>3, Received DEF Middle
  <2>5. dec'.seq = 1 BY <2>1, <2>2, <2>4 DEF Staged
  <2>6. Pausing(k, make)' BY <1>3, <2>1, <2>4, <2>5 DEF Pausing, At
  <2>7. Pending' BY <1>1, <1>2, <2>3, <2>6, StillPending
  <2> QED BY <2>1, <2>7, OutcomeCases
<1>7. CASE At(<<69, 225, 157, 197>>, {"pause"}) /\ dec.seq = 1
  <2>1. Head(line) = 69 /\ line' = <<225, 157, 197>> /\ line' # <<>> BY <1>4, <1>7 DEF At
  <2>2. Staged(dec, 69, 2) BY <1>3, <1>7, PauseBytes DEF At
  <2>3. Middle({"pause"}) BY <2>1, <2>2 DEF Middle, Staged
  <2>4. dec'.internal = {"pause"} /\ dec' = process_scancode(dec, Head(line)).dec
    BY <2>3, Received DEF Middle
  <2>5. dec'.seq = 2 BY <2>1, <2>2, <2>4 DEF Staged
  <2>6. Pausing(k, make)' BY <1>3, <2>1, <2>4, <2>5 DEF Pausing, At
  <2>7. Pending' BY <1>1, <1>2, <2>3, <2>6, StillPending
  <2> QED BY <2>1, <2>7, OutcomeCases
<1>8. CASE At(<<225, 157, 197>>, {"pause"}) /\ dec.seq = 2
  <2>1. Head(line) = 225 /\ line' = <<157, 197>> /\ line' # <<>> BY <1>4, <1>8 DEF At
  <2>2. Staged(dec, 225, 3) BY <1>3, <1>8, PauseBytes DEF At
  <2>3. Middle({"pause"}) BY <2>1, <2>2 DEF Middle, Staged
  <2>4. dec'.internal = {"pause"} /\ dec' = process_scancode(dec, Head(line)).dec
    BY <2>3, Received DEF Middle
  <2>5. dec'.seq = 3 BY <2>1, <2>2, <2>4 DEF Staged
  <2>6. Pausing(k, make)' BY <1>3, <2>1, <2>4, <2>5 DEF Pausing, At
  <2>7. Pending' BY <1>1, <1>2, <2>3, <2>6, StillPending
  <2> QED BY <2>1, <2>7, OutcomeCases
<1>9. CASE At(<<157, 197>>, {"pause"}) /\ dec.seq = 3
  <2>1. Head(line) = 157 /\ line' = <<197>> /\ line' # <<>> BY <1>4, <1>9 DEF At
  <2>2. Staged(dec, 157, 4) BY <1>3, <1>9, PauseBytes DEF At
  <2>3. Middle({"pause"}) BY <2>1, <2>2 DEF Middle, Staged
  <2>4. dec'.internal = {"pause"} /\ dec' = process_scancode(dec, Head(line)).dec
    BY <2>3, Received DEF Middle
  <2>5. dec'.seq = 4 BY <2>1, <2>2, <2>4 DEF Staged
  <2>6. Pausing(k, make)' BY <1>3, <2>1, <2>4, <2>5 DEF Pausing, At
  <2>7. Pending' BY <1>1, <1>2, <2>3, <2>6, StillPending
  <2> QED BY <2>1, <2>7, OutcomeCases
<1>10. CASE At(<<197>>, {"pause"}) /\ dec.seq = 4
  <2>1. Head(line) = 197 /\ line' = <<>> BY <1>4, <1>10 DEF At
  <2>2. CharOf(k) = Pause /\ RawChar(k) = Pause /\ k \in Printed
    <3>1. CharOf("pause") = Pause BY Zenon DEF CharOf
    <3> QED BY <1>3, <3>1 DEF RawChar, Pause, Printed
  <2>3. Turns(dec, Head(line), dec.mods, {}, Data(CharOf(k), RawChar(k)))
    BY <1>3, <1>10, <2>1, <2>2, PauseBytes DEF At
  <2>4. (Head(line) < 128) = (last.make /\ k # "pause")
    <3>1. ~(Head(line) < 128) /\ (Head(line) < 128) \in BOOLEAN BY <2>1
    <3> QED BY <1>3, <3>1, Zenon
  <2>5. Rested' BY <1>1, <1>2, <1>3, <2>2, <2>3, <2>4, PrintedDone
  <2> QED BY <2>1, <2>5, OutcomeCases
<1> QED BY <1>5, <1>6, <1>7, <1>8, <1>9, <1>10
-----------------------------------------------------------------------------
(* The keyboard *)

\* Every key sends bytes, and Pause sends none when it comes up.
LEMMA BytesTyped ==
  ASSUME NEW k \in Names, NEW make \in BOOLEAN
  PROVE  /\ Bytes(k, make) \in Seq(0 .. 255)
         /\ Bytes(k, make) = <<>> <=> k = "pause" /\ ~make
<1>1. Table(make) BY ByteTable
<1>2. CASE k \in SingleKeys
  <2>1. PICK b \in 0 .. 255 : Bytes(k, make) = <<b>> BY <1>2, OneByte, Zenon
  <2>2. k # "pause" BY <1>2 DEF SingleKeys
  <2> QED BY <2>1, <2>2
<1>3. CASE k \in PairKeys
  <2>1. PICK b \in 0 .. 255 : Bytes(k, make) = <<E0, b>> BY <1>3, TwoBytes, Zenon
  <2>2. k # "pause" BY <1>3 DEF PairKeys
  <2> QED BY <2>1, <2>2 DEF E0
<1>4. CASE k = "prtsc"
  <2>1. Bytes("prtsc", TRUE) = <<224, 42, 224, 55>> BY <1>1 DEF Table, E0
  <2>2. Bytes("prtsc", FALSE) = <<224, 183, 224, 170>> BY <1>1 DEF Table, E0
  <2>3. CASE make = TRUE
    <3>1. Bytes(k, make) = <<224, 42, 224, 55>> BY <1>4, <2>1, <2>3, Zenon
    <3>2. <<224, 42, 224, 55>> \in Seq(0 .. 255) /\ <<224, 42, 224, 55>> # <<>> OBVIOUS
    <3>3. ~(k = "pause" /\ ~make) BY <1>4, <2>3
    <3> QED BY <3>1, <3>2, <3>3
  <2>4. CASE make = FALSE
    <3>1. Bytes(k, make) = <<224, 183, 224, 170>> BY <1>4, <2>2, <2>4, Zenon
    <3>2. <<224, 183, 224, 170>> \in Seq(0 .. 255) /\ <<224, 183, 224, 170>> # <<>> OBVIOUS
    <3>3. ~(k = "pause" /\ ~make) BY <1>4, <2>4
    <3> QED BY <3>1, <3>2, <3>3
  <2> QED BY <2>3, <2>4
<1>5. CASE k = "pause"
  <2>1. Bytes("pause", TRUE) = <<225, 29, 69, 225, 157, 197>> BY <1>1 DEF Table
  <2>2. Bytes("pause", FALSE) = <<>> BY <1>1 DEF Table
  <2>3. CASE make = TRUE
    <3>1. Bytes(k, make) = <<225, 29, 69, 225, 157, 197>> BY <1>5, <2>1, <2>3, Zenon
    <3>2. /\ <<225, 29, 69, 225, 157, 197>> \in Seq(0 .. 255)
          /\ <<225, 29, 69, 225, 157, 197>> # <<>>
      OBVIOUS
    <3>3. ~(k = "pause" /\ ~make) BY <1>5, <2>3
    <3> QED BY <3>1, <3>2, <3>3
  <2>4. CASE make = FALSE
    <3>1. Bytes(k, make) = <<>> BY <1>5, <2>2, <2>4, Zenon
    <3>2. <<>> \in Seq(0 .. 255) OBVIOUS
    <3>3. (k = "pause" /\ ~make) BY <1>5, <2>4
    <3> QED BY <3>1, <3>2, <3>3
  <2> QED BY <2>3, <2>4
<1> QED BY <1>2, <1>3, <1>4, <1>5 DEF Names, SingleKeys, PairKeys

\* No key ends with the prefix.
LEMMA LastByte ==
  ASSUME NEW k \in Names, NEW make \in BOOLEAN, Bytes(k, make) # <<>>
  PROVE  Bytes(k, make)[Len(Bytes(k, make))] # E0
<1>1. Table(make) BY ByteTable
<1>2. CASE k \in SingleKeys
  <2>1. PICK b \in 0 .. 255 : b # E0 /\ Bytes(k, make) = <<b>> BY <1>2, OneByte, Zenon
  <2> QED BY <2>1
<1>3. CASE k \in PairKeys
  <2>1. PICK b \in 0 .. 255 : b # E0 /\ Bytes(k, make) = <<E0, b>> BY <1>3, TwoBytes, Zenon
  <2>2. PICK x : x = E0 OBVIOUS
  <2>3. Bytes(k, make) = <<x, b>> BY <2>1, <2>2
  <2>4. <<x, b>>[Len(<<x, b>>)] = b OBVIOUS
  <2> QED BY <2>1, <2>3, <2>4
<1>4. CASE k = "prtsc"
  <2>1. Bytes("prtsc", TRUE) = <<224, 42, 224, 55>> BY <1>1 DEF Table, E0
  <2>2. Bytes("prtsc", FALSE) = <<224, 183, 224, 170>> BY <1>1 DEF Table, E0
  <2>3. CASE make = TRUE
    <3>1. Bytes(k, make) = <<224, 42, 224, 55>> BY <1>4, <2>1, <2>3, Zenon
    <3>2. <<224, 42, 224, 55>>[Len(<<224, 42, 224, 55>>)] = 55 OBVIOUS
    <3> QED BY <3>1, <3>2 DEF E0
  <2>4. CASE make = FALSE
    <3>1. Bytes(k, make) = <<224, 183, 224, 170>> BY <1>4, <2>2, <2>4, Zenon
    <3>2. <<224, 183, 224, 170>>[Len(<<224, 183, 224, 170>>)] = 170 OBVIOUS
    <3> QED BY <3>1, <3>2 DEF E0
  <2> QED BY <2>3, <2>4
<1>5. CASE k = "pause"
  <2>1. Bytes("pause", TRUE) = <<225, 29, 69, 225, 157, 197>> BY <1>1 DEF Table
  <2>2. make = TRUE BY <1>5, BytesTyped
  <2>3. Bytes(k, make) = <<225, 29, 69, 225, 157, 197>> BY <1>5, <2>1, <2>2, Zenon
  <2>4. PICK b : b = Bytes(k, make) OBVIOUS
  <2>5. b[Len(b)] = 197 BY <2>3, <2>4
  <2> QED BY <2>4, <2>5 DEF E0
<1> QED BY <1>2, <1>3, <1>4, <1>5 DEF Names, SingleKeys, PairKeys

\* What a key does when it goes down, comes up or repeats.
Sending(k, make) ==
  /\ k \in Names /\ make \in BOOLEAN
  /\ Send(k, make, Bytes(k, make))
  /\ down' = IF make THEN down \cup {k} ELSE down \ {k}
  /\ down' \subseteq Keys

\* The three actions of a key.
LEMMA KeySends ==
  ASSUME Typed, NEW k \in Keys, Press(k) \/ Release(k) \/ Repeat(k)
  PROVE  \E make : Sending(k, make)
<1>1. k \in Names /\ down \subseteq Keys BY ScanCodeAssumption DEF Typed
<1>2. CASE Press(k) \/ Repeat(k)
  <2>1. Send(k, TRUE, MakeBytes(k)) BY <1>2 DEF Press, Repeat
  <2>2. Bytes(k, TRUE) = MakeBytes(k) BY DEF Bytes
  <2>3. down' = down \cup {k} BY <1>2 DEF Press, Repeat
  <2>4. Sending(k, TRUE) BY <1>1, <2>1, <2>2, <2>3 DEF Sending
  <2> QED BY <2>4
<1>3. CASE Release(k)
  <2>1. Send(k, FALSE, BreakBytes(k)) /\ down' = down \ {k} BY <1>3 DEF Release
  <2>2. Bytes(k, FALSE) = BreakBytes(k) BY DEF Bytes
  <2>3. Sending(k, FALSE) BY <1>1, <2>1, <2>2 DEF Sending
  <2> QED BY <2>3
<1> QED BY <1>2, <1>3

\* The bytes that a key sends set the modifiers right.
LEMMA SendMods ==
  ASSUME Typed, dec.mods = Truth, NEW k, NEW make, Sending(k, make)
  PROVE  Applied(dec.mods, k, make) = Truth'
<1>1. k \in Names /\ make \in BOOLEAN /\ down' = IF make THEN down \cup {k} ELSE down \ {k}
  BY DEF Sending
<1>2. locks' = IF make /\ k \in Locks THEN (locks \cup {k}) \ (locks \cap {k}) ELSE locks
  BY DEF Sending, Send
<1>3. locks \subseteq Locks BY DEF Typed
<1>4. \A x \in Held : x \notin Locks BY DEF Held, Locks
<1>5. CASE k \in Held
  <2>1. locks' = locks BY <1>2, <1>4, <1>5
  <2> QED BY <1>1, <1>3, <1>4, <1>5, <2>1 DEF Applied, Truth
<1>6. CASE k \in Locks
  <2>1. k \notin Held BY <1>4, <1>6
  <2>2. down' \cap Held = down \cap Held BY <1>1, <2>1
  <2>3. k \in dec.mods <=> k \in locks BY <2>1 DEF Truth
  <2> QED BY <1>2, <1>3, <1>6, <2>1, <2>2, <2>3 DEF Applied, Truth
<1>7. CASE k \notin Held /\ k \notin Locks
  <2>1. locks' = locks /\ down' \cap Held = down \cap Held BY <1>1, <1>2, <1>7
  <2> QED BY <1>7, <2>1 DEF Applied, Truth
<1> QED BY <1>5, <1>6, <1>7

\* They set the characters that are down right.
LEMMA SendState ==
  ASSUME Typed, NEW ks, Right(ks, down), NEW k, NEW make, Sending(k, make)
  PROVE  Right(Marked(ks, k, make), down')
<1>1. k \in Names /\ make \in BOOLEAN /\ down' = IF make THEN down \cup {k} ELSE down \ {k}
  BY DEF Sending
<1>2. \A j \in down : j \in Names BY ScanCodeAssumption DEF Typed
<1>3. PICK P : P = Held \cup Locks OBVIOUS
<1>4. \A j \in Names \ P : j \in Printed BY <1>3, NamesSplit
<1>5. \A j, l \in Printed : RawChar(j) = RawChar(l) => j = l \/ {j, l} \subseteq {"8", "np8"}
  BY RawApart
<1>6. /\ RawChar("pause") \notin ks
      /\ \A c \in ks : \E j \in down \ P : RawChar(j) = c
      /\ \A j \in down \ (P \cup {"pause", "8", "np8"}) : RawChar(j) \in ks
  BY <1>3 DEF Right
<1>7. "pause" \in Printed /\ "pause" \notin P BY <1>3 DEF Printed, Held, Locks
<1>8. PICK n : n = Marked(ks, k, make) OBVIOUS
<1>9. /\ RawChar("pause") \notin n
      /\ \A c \in n : \E j \in down' \ P : RawChar(j) = c
      /\ \A j \in down' \ (P \cup {"pause", "8", "np8"}) : RawChar(j) \in n
  <2>1. CASE k \in P
    <3>1. n = ks /\ down' \ P = down \ P BY <1>1, <1>3, <1>8, <2>1 DEF Marked
    <3>2. down' \ (P \cup {"pause", "8", "np8"}) = down \ (P \cup {"pause", "8", "np8"})
      BY <3>1
    <3> QED BY <1>6, <3>1, <3>2
  <2>2. CASE k = "pause" /\ ~make
    <3>1. n = ks /\ down' = down \ {"pause"} BY <1>1, <1>8, <2>2 DEF Marked
    <3>2. ASSUME NEW c \in n PROVE \E j \in down' \ P : RawChar(j) = c
      <4>1. PICK j \in down \ P : RawChar(j) = c BY <1>6, <3>1
      <4>2. j # "pause" BY <1>6, <3>1, <4>1
      <4> QED BY <3>1, <4>1, <4>2
    <3> QED BY <1>6, <3>1, <3>2
  <2>3. CASE k \notin P /\ make /\ k # "pause"
    <3>1. n = ks \cup {RawChar(k)} /\ down' = down \cup {k}
      BY <1>1, <1>3, <1>8, <2>3 DEF Marked, Recorded
    <3>2. RawChar(k) # RawChar("pause") BY <1>1, <1>4, <1>5, <1>7, <2>3
    <3> QED BY <1>6, <2>3, <3>1, <3>2
  <2>4. CASE k \notin P /\ (k = "pause" <=> make)
    <3>1. n = ks \ {RawChar(k)}
      BY <1>1, <1>3, <1>8, <2>4 DEF Marked, Recorded
    <3>2. ASSUME NEW c \in n PROVE \E j \in down' \ P : RawChar(j) = c
      <4>1. PICK j \in down \ P : RawChar(j) = c BY <1>6, <3>1
      <4>2. j # k BY <3>1, <4>1
      <4> QED BY <1>1, <4>1, <4>2
    <3>3. ASSUME NEW j \in down' \ (P \cup {"pause", "8", "np8"}) PROVE RawChar(j) \in n
      <4>1. j # k /\ j \in down BY <1>1, <2>4
      <4>2. RawChar(j) # RawChar(k) BY <1>1, <1>2, <1>4, <1>5, <2>4, <4>1
      <4> QED BY <1>6, <3>1, <4>1, <4>2
    <3> QED BY <1>6, <3>1, <3>2, <3>3
  <2> QED BY <1>1, <2>1, <2>2, <2>3, <2>4
<1> QED BY <1>3, <1>8, <1>9 DEF Right

\* A key that is pressed or released between keys.
LEMMA ExactSend ==
  ASSUME Typed, Rested, NEW k, NEW make, Sending(k, make)
  PROVE  Outcome'
<1>1. /\ k \in Names /\ make \in BOOLEAN /\ line' = Bytes(k, make) /\ events' = <<>>
      /\ last'.key = k /\ last'.make = make /\ dec' = dec /\ key_state' = key_state
  BY DEF Sending, Send
<1>2. dec.internal = {} /\ dec.mods = Truth /\ Right(key_state, down) BY DEF Rested
<1>3. Applied(dec.mods, k, make) = Truth' BY <1>2, SendMods
<1>4. Right(Marked(key_state, k, make), down') BY <1>2, SendState
<1>5. CASE k = "pause" /\ ~make
  <2>1. line' = <<>> BY <1>1, <1>5, BytesTyped
  <2>2. k \notin Held \cup Locks BY <1>5 DEF Held, Locks
  <2>3. dec'.mods = Truth' BY <1>1, <1>3, <2>2 DEF Applied
  <2>4. Right(key_state', down') BY <1>1, <1>4, <1>5 DEF Marked
  <2>5. EventsExact' BY <1>1, <1>5 DEF EventsExact
  <2>6. Rested' BY <1>1, <1>2, <2>3, <2>4, <2>5 DEF Rested
  <2> QED BY <2>1, <2>6, OutcomeCases
<1>6. CASE ~(k = "pause" /\ ~make)
  <2>1. line' # <<>> BY <1>1, <1>6, BytesTyped
  <2>2. Begun(last.key, last.make)'
    <3>1. line' = Bytes(last'.key, last'.make) /\ dec'.internal = {} BY <1>1, <1>2
    <3> QED BY <3>1 DEF Begun, At, Bytes
  <2>3. k # "none" BY <1>1 DEF Names
  <2>4. Pending' BY <1>1, <1>3, <1>4, <2>2, <2>3 DEF Pending
  <2> QED BY <2>1, <2>4, OutcomeCases
<1> QED BY <1>5, <1>6
-----------------------------------------------------------------------------
(* Every step *)

\* The handler takes one byte.
LEMMA ExactReceive ==
  ASSUME Typed, Pending, Receive
  PROVE  Outcome'
<1>1. \/ Begun(last.key, last.make) \/ Prefixed(last.key, last.make)
      \/ Printing(last.key, last.make) \/ Pausing(last.key, last.make)
  BY DEF Pending
<1> QED BY <1>1, BegunReceived, PrefixedReceived, PrintingReceived, PausingReceived

\* What the interrupt handler leaves alone.
LEMMA ReceiveKeeps ==
  ASSUME Typed, Receive
  PROVE  Typed' /\ line # <<>> /\ line' = Tail(line) /\ last' = last /\ lost' = lost
         /\ down' = down /\ locks' = locks
<1>1. /\ line # <<>> /\ line' = Tail(line) /\ last' = last /\ lost' = lost
      /\ down' = down /\ locks' = locks
      /\ dec' = process_scancode(dec, Head(line)).dec
  BY DEF Receive
<1>2. line \in Seq(0 .. 255) /\ dec \in Decs BY DEF Typed
<1>3. Head(line) \in 0 .. 255 /\ Tail(line) \in Seq(0 .. 255)
  <2>1. PICK S : S = 0 .. 255 OBVIOUS
  <2>2. line \in Seq(S) /\ line # <<>> BY <1>1, <1>2, <2>1
  <2>3. Head(line) \in S /\ Tail(line) \in Seq(S) BY ONLY <2>2
  <2> QED BY <2>1, <2>3
<1>4. Head(line) \in Nat
  <2>1. \A b \in 0 .. 255 : b \in Nat OBVIOUS
  <2> QED BY <1>3, <2>1
<1>5. dec' \in Decs BY <1>1, <1>2, <1>4, DecoderTyped
<1> QED BY <1>1, <1>3, <1>5 DEF Typed

\* The last byte of a line stays its last.
LEMMA LastOfTail ==
  ASSUME NEW S, NEW l \in Seq(S), l # <<>>
  PROVE  /\ Tail(l) # <<>> => Tail(l)[Len(Tail(l))] = l[Len(l)]
         /\ Tail(l) = <<>> => Head(l) = l[Len(l)]
<1>1. Len(l) \in Nat \ {0} /\ Len(Tail(l)) = Len(l) - 1 OBVIOUS
<1>2. \A i \in 1 .. Len(l) - 1 : Tail(l)[i] = l[i + 1] OBVIOUS
<1>3. ASSUME Tail(l) # <<>> PROVE Tail(l)[Len(Tail(l))] = l[Len(l)]
  <2>1. Len(l) - 1 # 0 BY <1>1, <1>3
  <2> QED BY <1>1, <1>2, <2>1
<1>4. ASSUME Tail(l) = <<>> PROVE Head(l) = l[Len(l)]
  <2>1. Len(l) = 1 BY <1>1, <1>4
  <2> QED BY <2>1
<1> QED BY <1>3, <1>4

\* When the last byte of a line is done no prefix is left.
LEMMA PrefixReceive ==
  ASSUME Typed, NoPrefix, Receive
  PROVE  NoPrefix'
<1>1. /\ line # <<>> /\ line' = Tail(line) /\ last' = last
  BY ReceiveKeeps
<1>2. dec' = process_scancode(dec, Head(line)).dec BY DEF Receive
<1>3. line \in Seq(0 .. 255) /\ dec \in Decs BY DEF Typed
<1>4. line[Len(line)] # E0 BY <1>1 DEF NoPrefix
<1>5. ASSUME line' = <<>> PROVE "ext" \notin dec'.internal
  <2>1. Head(line) = line[Len(line)] BY <1>1, <1>3, <1>5, LastOfTail
  <2>2. Head(line) \in Nat
    <3>1. PICK S : S = 0 .. 255 OBVIOUS
    <3>2. line \in Seq(S) /\ line # <<>> BY <1>1, <1>3, <3>1
    <3>3. Head(line) \in S BY ONLY <3>2
    <3> QED BY <3>1, <3>3
  <2> QED BY <1>2, <1>3, <1>4, <2>1, <2>2, PrefixSpent
<1>6. line' # <<>> => line'[Len(line')] = line[Len(line)] BY <1>1, <1>3, LastOfTail
<1> QED BY <1>1, <1>4, <1>5, <1>6 DEF NoPrefix

\* A key of one byte is delivered when no prefix is left from before.
LEMMA SingleReceive ==
  ASSUME Typed, Single, Receive
  PROVE  Single'
<1>1. /\ line # <<>> /\ line' = Tail(line) /\ last' = last /\ down' = down
      /\ locks' = locks
  BY ReceiveKeeps
<1> SUFFICES ASSUME last.since = 2, last.key \in {"a", "8", "np8"}
             PROVE  /\ line' = <<>> /\ Len(events') = 1
                    /\ events'[1].raw = RawOf(last.key)'
                    /\ events'[1].make = last.make
  BY <1>1 DEF Single
<1>2. PICK k \in {"a", "8", "np8"} : k = last.key OBVIOUS
<1>3. PICK make \in BOOLEAN : make = last.make BY DEF Typed
<1>4. line = Bytes(k, make) /\ events = <<>> /\ "ext" \notin dec.internal /\ dec \in Decs
  BY <1>1, <1>2, <1>3 DEF Single, Typed
<1>5. PICK b \in 0 .. 255 : Bytes(k, make) = <<b>>
  <2>1. k \in SingleKeys BY <1>2 DEF SingleKeys
  <2> QED BY <2>1, OneByte, Zenon
<1>6. Head(line) = b /\ line' = <<>> BY <1>1, <1>4, <1>5
<1>7. /\ process_scancode(dec, b) =
           Result(Cleared(dec), Data(Seen(dec.mods, k), RawChar(k)))
      /\ (b < 128) = make
  BY <1>2, <1>3, <1>4, <1>5, PrintedByte
<1>8. PICK c : c = Seen(dec.mods, k) OBVIOUS
<1>9. PICK x : x = Data(c, RawChar(k)) OBVIOUS
<1>10. Cleared(dec) \in Decs BY <1>4 DEF Cleared, Decs
<1>11. PICK e : e = Cleared(dec) OBVIOUS
<1>12. process_scancode(dec, b) = [dec |-> e, data |-> x]
  BY <1>7, <1>8, <1>9, <1>11 DEF Result
<1>13. Turns(dec, Head(line), e.mods, e.internal, Data(c, RawChar(k)))
  BY <1>6, <1>9, <1>10, <1>11, <1>12 DEF Turns, Gives
<1>14. events' = Append(events, [char |-> c, raw |-> RawChar(k), make |-> make])
  BY <1>6, <1>7, <1>13, ReceivedData
<1>15. events' = <<[char |-> c, raw |-> RawChar(k), make |-> make]>> BY <1>4, <1>14
<1>16. RawOf(k)' = RawChar(k) BY <1>2, RawCodesNext DEF Printed
<1>17. RawOf(last.key)' = RawChar(k) BY <1>1, <1>2, <1>16
<1> QED BY <1>3, <1>6, <1>15, <1>17

\* Before the first key.
LEMMA DecoderInit == Init => DecoderInv
<1> SUFFICES ASSUME Init PROVE DecoderInv OBVIOUS
<1>1. /\ dec = [mods |-> {}, internal |-> {}, seq |-> 0] /\ key_state = {} /\ down = {}
      /\ locks = {} /\ line = <<>> /\ events = <<>> /\ lost = 0
      /\ last = [key |-> "none", make |-> FALSE, since |-> 2]
  BY DEF Init
<1>2. dec \in Decs BY <1>1 DEF Decs
<1>3. Typed BY <1>1, <1>2 DEF Typed
<1>4. Right(key_state, down) BY <1>1 DEF Right
<1>5. EventsExact BY <1>1 DEF EventsExact
<1>6. dec.internal = {} /\ dec.mods = Truth BY <1>1 DEF Truth
<1>7. Exact BY <1>1, <1>4, <1>5, <1>6 DEF Exact, Rested
<1>8. NoPrefix /\ Single BY <1>1 DEF NoPrefix, Single
<1> QED BY <1>3, <1>7, <1>8 DEF DecoderInv

\* The invariant survives every key, every byte and every loss.
LEMMA DecoderStep ==
  ASSUME DecoderInv, [Next]_vars
  PROVE  DecoderInv'
<1>0. Typed /\ Exact /\ NoPrefix /\ Single BY DEF DecoderInv
<1>1. ASSUME NEW k \in Keys, Press(k) \/ Release(k) \/ Repeat(k) PROVE DecoderInv'
  <2>1. PICK make : Sending(k, make) BY <1>0, <1>1, KeySends
  <2>2. /\ k \in Names /\ make \in BOOLEAN /\ line = <<>> /\ line' = Bytes(k, make)
        /\ last' = [key |-> k, make |-> make,
                    since |-> IF Bytes(k, make) = <<>> \/ last.since = 2 THEN last.since
                              ELSE last.since + 1]
        /\ dec' = dec /\ key_state' = key_state /\ lost' = lost /\ events' = <<>>
        /\ down' \subseteq Keys
    BY <2>1 DEF Sending, Send
  <2>3. locks' \subseteq Locks
    <3>1. locks' = IF make /\ k \in Locks
                   THEN (locks \cup {k}) \ (locks \cap {k}) ELSE locks
      BY <2>1 DEF Sending, Send
    <3> QED BY <1>0, <3>1 DEF Typed
  <2>4. Bytes(k, make) \in Seq(0 .. 255) BY <2>2, BytesTyped
  <2>9. /\ last.since \in 0 .. 2 /\ last'.since \in 0 .. 2
        /\ last' \in [key : Names \cup {"none"}, make : BOOLEAN, since : 0 .. 2]
    <3>1. PICK n : n = last.since OBVIOUS
    <3>2. n \in 0 .. 2 BY <1>0, <3>1 DEF Typed
    <3>3. PICK o : o = IF Bytes(k, make) = <<>> \/ n = 2 THEN n ELSE n + 1 OBVIOUS
    <3>4. o \in 0 .. 2 BY <3>2, <3>3
    <3>5. last' = [key |-> k, make |-> make, since |-> o] BY <2>2, <3>1, <3>3, Zenon
    <3> QED BY <2>2, <3>1, <3>2, <3>4, <3>5
  <2>5. Typed' BY <1>0, <2>2, <2>3, <2>4, <2>9 DEF Typed
  <2>6. Exact'
    <3>1. lost = 0 => Rested BY <1>0, <2>2 DEF Exact
    <3>2. lost = 0 => Outcome' BY <1>0, <2>1, <3>1, ExactSend
    <3> QED BY <2>2, <3>2 DEF Exact, Outcome
  <2>7. Single'
    <3>1. ASSUME k \in {"a", "8", "np8"} PROVE Bytes(k, make) # <<>> BY <2>2, <3>1, BytesTyped
    <3>2. last'.key = k /\ last'.make = make BY <2>2
    <3>3. line' = Bytes(last.key, last.make)' BY <2>2, <3>2 DEF Bytes
    <3>4. ASSUME k \in {"a", "8", "np8"}, last'.since = 2 PROVE "ext" \notin dec.internal
      <4>1. last'.since = IF last.since = 2 THEN last.since ELSE last.since + 1
        BY <2>2, <3>1, <3>4
      <4>2. last.since # 0 BY <2>9, <3>4, <4>1
      <4> QED BY <1>0, <2>2, <4>2 DEF NoPrefix
    <3> QED BY <2>2, <3>1, <3>2, <3>3, <3>4 DEF Single
  <2>8. NoPrefix'
    <3>1. CASE Bytes(k, make) = <<>>
      <4>1. line' = <<>> /\ last'.since = last.since BY <2>2, <3>1
      <4> QED BY <1>0, <2>2, <4>1 DEF NoPrefix
    <3>2. CASE Bytes(k, make) # <<>>
      <4>1. Bytes(k, make)[Len(Bytes(k, make))] # E0 BY <2>2, <3>2, LastByte
      <4> QED BY <2>2, <3>2, <4>1 DEF NoPrefix
    <3> QED BY <3>1, <3>2
  <2> QED BY <2>5, <2>6, <2>7, <2>8 DEF DecoderInv
<1>2. ASSUME Receive PROVE DecoderInv'
  <2>1. Typed' /\ line # <<>> /\ lost' = lost BY <1>0, <1>2, ReceiveKeeps
  <2>2. Exact'
    <3>1. lost = 0 => Pending BY <1>0, <2>1 DEF Exact
    <3>2. lost = 0 => Outcome' BY <1>0, <1>2, <3>1, ExactReceive
    <3> QED BY <2>1, <3>2 DEF Exact, Outcome
  <2>3. Single' BY <1>0, <1>2, SingleReceive
  <2>4. NoPrefix' BY <1>0, <1>2, PrefixReceive
  <2> QED BY <2>1, <2>2, <2>3, <2>4 DEF DecoderInv
<1>3. ASSUME Lose PROVE DecoderInv'
  <2>1. /\ line # <<>> /\ line' = Tail(line) /\ lost' = lost + 1
        /\ last' = [last EXCEPT !.since = 0]
        /\ dec' = dec /\ down' = down /\ locks' = locks
    BY <1>3 DEF Lose
  <2>2. line \in Seq(0 .. 255) /\ lost \in Nat
        /\ last \in [key : Names \cup {"none"}, make : BOOLEAN, since : 0 .. 2]
    BY <1>0 DEF Typed
  <2>3. line' \in Seq(0 .. 255) /\ lost' \in Nat /\ lost' # 0 BY <2>1, <2>2
  <2>4. last' \in [key : Names \cup {"none"}, make : BOOLEAN, since : 0 .. 2]
        /\ last'.since = 0
    <3>1. PICK S : S = Names \cup {"none"} OBVIOUS
    <3>2. last \in [key : S, make : BOOLEAN, since : 0 .. 2] BY <2>2, <3>1
    <3>3. last' \in [key : S, make : BOOLEAN, since : 0 .. 2] /\ last'.since = 0
      BY ONLY <2>1, <3>2
    <3> QED BY <3>1, <3>3
  <2>5. Typed' BY <1>0, <2>1, <2>3, <2>4 DEF Typed
  <2>6. Exact' BY <2>3 DEF Exact
  <2>7. Single' BY <2>4 DEF Single
  <2>8. NoPrefix'
    <3>1. line # <<>> => line[Len(line)] # E0 BY <1>0 DEF NoPrefix
    <3>2. line' # <<>> => line'[Len(line')] = line[Len(line)] BY <2>1, <2>2, LastOfTail
    <3> QED BY <2>1, <2>4, <3>1, <3>2 DEF NoPrefix
  <2> QED BY <2>5, <2>6, <2>7, <2>8 DEF DecoderInv
<1>4. CASE UNCHANGED vars
  <2>1. /\ dec' = dec /\ key_state' = key_state /\ down' = down /\ locks' = locks
        /\ line' = line /\ last' = last /\ events' = events /\ lost' = lost
    BY <1>4 DEF vars
  <2>2. Typed' BY <1>0, <2>1 DEF Typed
  <2>3. EventsExact' <=> EventsExact
    BY <2>1 DEF EventsExact, Settled, RawOf, CharOf
  <2>4. Rested' <=> Rested BY <2>1, <2>3 DEF Rested, Truth
  <2>5. Pending' <=> Pending
    BY <2>1 DEF Pending, Begun, Prefixed, Printing, Pausing, At, Bytes, Truth
  <2>6. Exact' BY <1>0, <2>1, <2>4, <2>5 DEF Exact
  <2>7. RawOf(last.key)' = RawOf(last.key) BY <2>1 DEF RawOf, CharOf
  <2>8. Single' BY <1>0, <2>1, <2>7 DEF Single, Bytes
  <2>9. NoPrefix' BY <1>0, <2>1 DEF NoPrefix
  <2> QED BY <2>2, <2>6, <2>8, <2>9 DEF DecoderInv
<1> QED BY <1>1, <1>2, <1>3, <1>4 DEF Next

-----------------------------------------------------------------------------
(* The theorems *)

\* The decoder is always where the keyboard is, as long as nothing is lost, and
\* never takes the byte of a single key for the end of something else.
THEOREM DecoderCorrect == Spec => []DecoderInv
<1>1. Init => DecoderInv BY DecoderInit
<1>2. DecoderInv /\ [Next]_vars => DecoderInv' BY DecoderStep
<1> QED BY <1>1, <1>2, PTL DEF Spec

\* Between keys the modifiers of keyboard_read.c are the keys that are held and
\* the locks that are on, whatever keys were pressed, repeated and released.
THEOREM ModifiersAlways == Spec => []ModifiersTrack
<1>1. DecoderInv => ModifiersTrack
  BY DEF DecoderInv, Exact, Rested, ModifiersTrack, Settled, Truth
<1> QED BY <1>1, DecoderCorrect, PTL

\* keyboard_interrupt_handler makes exactly one event of the bytes of a key, with
\* the character at the right level and, but for Pause, the direction of the key,
\* and none of a modifier.
THEOREM EventsAlways == Spec => []OneEventPerKey
<1>1. DecoderInv => OneEventPerKey
  <2> SUFFICES ASSUME DecoderInv, Settled PROVE OneEventPerKey BY DEF OneEventPerKey
  <2>1. EventsExact BY DEF DecoderInv, Exact, Rested, Settled
  <2>2. ASSUME NEW c, NEW x, NEW m, events = <<[char |-> c, raw |-> x, make |-> m]>>
        PROVE  Len(events) = 1 /\ events[1].char = c /\ events[1].raw = x
               /\ events[1].make = m
    BY <2>2
  <2>3. last.make \in BOOLEAN BY DEF DecoderInv, Typed
  <2>4. last.key # "pause" => (last.make /\ last.key # "pause") = last.make BY <2>3
  <2> QED BY <2>1, <2>2, <2>4 DEF EventsExact, OneEventPerKey
<1> QED BY <1>1, DecoderCorrect, PTL

\* Bytes that were lost, however many, cost at most the key they were lost from and
\* the one after it: the flag of the prefix is cleared on every path and no key
\* ends with the prefix, so the key that follows a whole one is delivered.
THEOREM SinglesAlways == Spec => []SingleKeyDelivered
<1>1. DecoderInv => SingleKeyDelivered BY DEF DecoderInv, Single, SingleKeyDelivered
<1> QED BY <1>1, DecoderCorrect, PTL

\* Of the keys that give a character, the array that get_key_state reads has no
\* character that is not down and every one that is, but for Pause, which is
\* recorded as a break, and the two keys that share the character 8.  Modifiers and
\* locks give no data and are never in it.
THEOREM KeyStateAlways == Spec => []KeyStateRight
<1>1. DecoderInv => KeyStateRight
  <2> SUFFICES ASSUME DecoderInv, Settled
               PROVE  /\ \A c \in key_state :
                           \E k \in down \ (Held \cup Locks) : RawOf(k) = c
                      /\ \A k \in down \ (Held \cup Locks \cup {"pause", "8", "np8"}) :
                           RawOf(k) \in key_state
    BY DEF KeyStateRight
  <2>1. Right(key_state, down) BY DEF DecoderInv, Exact, Rested, Settled
  <2>2. \A k \in down : k \in Names BY ScanCodeAssumption DEF DecoderInv, Typed
  <2>3. \A k \in down \ (Held \cup Locks) : k \in Printed BY <2>2, NamesSplit
  <2>4. \A k \in down \ (Held \cup Locks) : RawOf(k) = RawChar(k) BY <2>3, RawCodes
  <2> QED BY <2>1, <2>4 DEF Right
<1> QED BY <1>1, DecoderCorrect, PTL

=============================================================================
