------------------------------ MODULE KeyInput ------------------------------
(***************************************************************************)
(* Keys from a terminal (ffsys/std.h): ffstd_key_read() until there is no  *)
(* more, and ffstd_key_parse() of what was read.  A read never cuts a key: *)
(* the buffer has room for all that was typed.                             *)
(***************************************************************************)
EXTENDS KernelQueue

CONSTANTS
  Followers, \* the keys that may be typed when others are waiting
  MaxTyped   \* how many keys may wait, and how many are typed

ASSUME KeysAssumption == MaxTyped \in Nat

VARIABLES
  tty,     \* what was typed and is not read: bytes, or INPUT_RECORDs
  pressed, \* the keys that tty consists of
  data,    \* what the user has read and not parsed
  due,     \* the keys that data consists of
  typed    \* how many keys have been typed

keyVars == <<tty, pressed, data, due, typed>>

KeyInit == tty = <<>> /\ pressed = <<>> /\ data = <<>> /\ due = <<>> /\ typed = 0

-----------------------------------------------------------------------------
\* A key has a name and modifiers.  Escape alone, and Alt with "O" or "[", which begin
\* longer sequences, are left out.
Plain == {"a", "ya"}
Letters == [UP |-> "A", DOWN |-> "B", RIGHT |-> "C", LEFT |-> "D", END |-> "F", HOME |-> "H"]
Finals == [F1 |-> "P", F2 |-> "Q", F3 |-> "R", F4 |-> "S"]
Numbers ==
  [F5 |-> <<"1", "5">>, F6 |-> <<"1", "7">>, F7 |-> <<"1", "8">>, F8 |-> <<"1", "9">>,
   F9 |-> <<"2", "0">>, F10 |-> <<"2", "1">>, F11 |-> <<"2", "3">>, F12 |-> <<"2", "4">>,
   INS |-> <<"2">>, DEL |-> <<"3">>, PGUP |-> <<"5">>, PGDN |-> <<"6">>]
Virtual == DOMAIN Letters \cup DOMAIN Finals \cup DOMAIN Numbers

\* Keys of Windows that ffstd_key_parse_win() has no name for
Unhandled == {"SELECT", "CAPS"}

Key(name, mods) == [name |-> name, mods |-> mods]
Keys ==
  {Key(v, m) : v \in Virtual, m \in SUBSET {"shift", "alt", "ctrl"}}
    \cup {Key(c, m) : c \in Plain, m \in SUBSET {"alt"}}
    \cup (IF sys = "windows" THEN {Key(v, {}) : v \in Unhandled} ELSE {Key("PASTE", {})})

\* What terminals send, as the comment before ffstd_key_parse_unix() lists it.
Utf8(c) == IF c = "ya" THEN <<"d0", "af">> ELSE <<c>>
Digit(m) ==
  CHOOSE d \in {"2", "3", "4", "5", "6", "7", "8"} :
    m = CASE d = "2" -> {"shift"} [] d = "3" -> {"alt"} [] d = "4" -> {"shift", "alt"}
          [] d = "5" -> {"ctrl"} [] d = "6" -> {"ctrl", "shift"} [] d = "7" -> {"ctrl", "alt"}
          [] d = "8" -> {"ctrl", "shift", "alt"}
Sequence(k) ==
  LET m == IF k.mods = {} THEN <<>> ELSE <<Digit(k.mods)>>
      semi == IF k.mods = {} THEN <<>> ELSE <<";">> \o m
  IN CASE k.name \in Plain -> (IF k.mods = {} THEN <<>> ELSE <<"esc">>) \o Utf8(k.name)
       [] k.name \in DOMAIN Finals -> <<"esc", "O">> \o m \o <<Finals[k.name]>>
       [] k.name \in DOMAIN Numbers -> <<"esc", "[">> \o Numbers[k.name] \o semi \o <<"~">>
       [] k.name \in DOMAIN Letters ->
            <<"esc", "[">> \o (IF m = <<>> THEN m ELSE <<"1">> \o semi) \o <<Letters[k.name]>>
       [] OTHER -> <<"esc", "[", "2", "0", "0", "~", "t", "esc", "[", "2", "0", "1", "~">>

\* Windows: the virtual-key codes of winuser.h
VkCode ==
  [PGUP |-> 33, PGDN |-> 34, END |-> 35, HOME |-> 36, LEFT |-> 37, UP |-> 38, RIGHT |-> 39, DOWN |-> 40,
   SELECT |-> 41, INS |-> 45, DEL |-> 46, CAPS |-> 20, a |-> 65, ya |-> 90,
   F1 |-> 112, F2 |-> 113, F3 |-> 114, F4 |-> 115, F5 |-> 116, F6 |-> 117,
   F7 |-> 118, F8 |-> 119, F9 |-> 120, F10 |-> 121, F11 |-> 122, F12 |-> 123]

\* Windows: AsciiChar is 0, or a character as one signed byte: negative ("neg") for one
\* that is not ASCII.  The key goes down and up.
Char(name) == IF name = "a" THEN "a" ELSE IF name = "ya" THEN "neg" ELSE ""
Record(k, down) == [down |-> down, char |-> Char(k.name), vk |-> VkCode[k.name], ctl |-> k.mods]
Bytes(k) == IF sys = "windows" THEN <<Record(k, TRUE), Record(k, FALSE)>> ELSE Sequence(k)

KeyTypeOK ==
  /\ pressed \in Seq(Keys) /\ due \in Seq(Keys) /\ typed \in 0..MaxTyped
  /\ Len(pressed) + Len(due) <= typed

-----------------------------------------------------------------------------
\* ffstd_key_parse_unix(): the key and the bytes it has; "none": the tables' zeros.
Got(name, mods, read) == [name |-> name, mods |-> mods, read |-> read]
Error == Got("error", {}, 0)
More == Got("more", {}, 0)

\* d[]: the first 8 bytes, then zeros.
D(i) == IF i < Len(data) /\ i < 8 THEN data[i + 1] ELSE "nul"

KeysMod ==
  [d \in {"2", "3", "4", "5", "6", "7", "8"} |->
     CASE d = "2" -> {"shift"} [] d = "3" -> {"alt"} [] d = "4" -> {"shift", "alt"} [] d = "5" -> {"ctrl"}
       [] d = "6" -> {"ctrl", "shift"} [] d = "7" -> {"ctrl", "alt"} [] d = "8" -> {"ctrl", "shift", "alt"}]
KeysF5F8 ==
  [d \in {"5", "6", "7", "8", "9"} |->
     CASE d = "5" -> "F5" [] d = "6" -> "none" [] d = "7" -> "F6" [] d = "8" -> "F7" [] d = "9" -> "F8"]
KeysF9F12 ==
  [d \in {"0", "1", "2", "3", "4"} |->
     CASE d = "0" -> "F9" [] d = "1" -> "F10" [] d = "2" -> "none" [] d = "3" -> "F11" [] d = "4" -> "F12"]
Keys3x ==
  [d \in {"2", "3", "4", "5", "6"} |->
     CASE d = "2" -> "INS" [] d = "3" -> "DEL" [] d = "4" -> "none" [] d = "5" -> "PGUP" [] d = "6" -> "PGDN"]
Keys4x ==
  [A |-> "UP", B |-> "DOWN", C |-> "RIGHT", D |-> "LEFT", E |-> "none", F |-> "END", G |-> "none", H |-> "HOME"]
KeysF1F4 == [P |-> "F1", Q |-> "F2", R |-> "F3", S |-> "F4"]

\* fin: i is the last byte of the key; the mutant counts one less.
FinShort(name, mods, i) == Got(name, mods, i)
Fin(name, mods, i) == IF name = "none" /\ mods = {} THEN Error ELSE Got(name, mods, i + 1)

\* I_3b_or_7e: the end of a key with a number
NumberEnd(name, i) ==
  IF D(i) = ";" /\ D(i + 1) \in DOMAIN KeysMod /\ D(i + 2) = "~" THEN Fin(name, KeysMod[D(i + 1)], i + 2)
  ELSE IF D(i) = "~" THEN Fin(name, {}, i)
  ELSE Error

\* I_41_48: the end of a key with a letter
LetterEnd(mods, i) == IF D(i) \in DOMAIN Keys4x THEN Fin(Keys4x[D(i)], mods, i) ELSE Error

\* 1b 4f
ParseO ==
  LET i == IF D(2) \in DOMAIN KeysMod THEN 3 ELSE 2
      mods == IF i = 3 THEN KeysMod[D(2)] ELSE {}
  IN IF D(i) \in DOMAIN KeysF1F4 THEN Fin(KeysF1F4[D(i)], mods, i) ELSE Error

\* 1b 5b
ParseBracket ==
  IF D(2) = "1" THEN
    IF D(3) \in DOMAIN KeysF5F8 THEN NumberEnd(KeysF5F8[D(3)], 4)
    ELSE IF D(3) = ";" /\ D(4) \in DOMAIN KeysMod THEN LetterEnd(KeysMod[D(4)], 5)
    ELSE Error
  ELSE IF D(2) = "2" /\ D(3) = "0" /\ D(4) \in {"0", "1"} /\ D(5) = "~" THEN Got("PASTE", {}, 6)
  ELSE IF D(2) = "2" /\ D(3) \in DOMAIN KeysF9F12 THEN NumberEnd(KeysF9F12[D(3)], 4)
  ELSE IF D(2) \in DOMAIN Keys3x THEN NumberEnd(Keys3x[D(2)], 3)
  ELSE LetterEnd({}, 2)

\* ffutf8_decode() of the bytes from i on, with the modifiers of the sequence before.
Decode(i, mods) ==
  IF i >= Len(data) THEN More
  ELSE IF D(i) = "d0" THEN (IF D(i + 1) = "af" THEN Got("ya", mods, i + 2) ELSE More)
  ELSE Got(D(i), mods, i + 1)

ParseUnix ==
  IF D(0) # "esc" THEN Decode(0, {})
  ELSE IF D(1) = "O" THEN ParseO
  ELSE IF D(1) = "[" THEN ParseBracket
  ELSE Decode(1, {"alt"})

\* keys_vk[], from VK_PRIOR to VK_DELETE, whose zeros give FFKEY_VIRT alone ("skip"); and
\* the keys from FFKEY_F1 on.  The mutant's table begins with VK_NEXT.
KeysVk == <<"PGUP", "PGDN", "END", "HOME", "LEFT", "UP", "RIGHT", "DOWN", "skip", "skip", "skip", "skip", "INS", "DEL">>
KeysF == <<"F1", "F2", "F3", "F4", "F5", "F6", "F7", "F8", "F9", "F10", "F11", "F12">>
VirtualKeyShifted(vk) == IF vk \in 34..46 THEN KeysVk[vk - 33] ELSE "error"
VirtualKey(vk) ==
  IF vk \in 33..46 THEN KeysVk[vk - 32] ELSE IF vk \in 112..123 THEN KeysF[vk - 111] ELSE "error"

\* ffstd_key_parse_win(): Shift is told of virtual keys only.  Any negative result, -1 of
\* another virtual key or a negative character, is an error, though the record is taken.
ParseWin ==
  LET r == Head(data)
      name == IF r.char = "" THEN VirtualKey(r.vk) ELSE r.char
  IN IF ~r.down THEN Got("skip", {}, 1)
     ELSE IF name \in {"error", "neg"} THEN Got("error", {}, 1)
     ELSE Got(name, IF r.char = "" THEN r.ctl ELSE r.ctl \ {"shift"}, 1)

\* ffstd_paste_read(): the bytes up to the end of the pasted text, its mark included.
PasteEnd(i) == \A j \in 1..6 : data[i + j] = <<"esc", "[", "2", "0", "1", "~">>[j]
PasteRead == Min({i \in 6..(Len(data) - 6) : PasteEnd(i)}) + 6

\* ffstd_key_parse(), and ffstd_paste_read() after FFKEY_TEXT_PASTED
Parsed ==
  LET r == IF sys = "windows" THEN ParseWin ELSE ParseUnix
  IN IF r.name = "PASTE" THEN [r EXCEPT !.read = PasteRead] ELSE r

-----------------------------------------------------------------------------
Stdin == Handle("stdin")

KeyType(k) ==
  /\ typed < MaxTyped /\ (tty # <<>> \/ data # <<>> => k \in Followers)
  /\ typed' = typed + 1
  /\ tty' = tty \o Bytes(k) /\ pressed' = Append(pressed, k)
  /\ ready' = ReadyWith({Stdin})
  /\ UNCHANGED <<sys, made, cur, live, held, full, batch, at, data, due>>

KeyRead ==
  /\ at = "stdin" /\ data = <<>> /\ tty # <<>>
  /\ data' = tty /\ due' = pressed
  /\ tty' = <<>> /\ pressed' = <<>>
  /\ Stay /\ UNCHANGED typed

\* Windows: the record of a key that goes up
Released == sys = "windows" /\ ~Head(data).down

\* The user takes one key after another; he drops what he cannot parse.
KeyParse ==
  /\ at = "stdin" /\ data # <<>>
  /\ data' = IF Parsed.read = 0 THEN <<>> ELSE SubSeq(data, Parsed.read + 1, Len(data))
  /\ due' = IF Parsed.read = 0 THEN <<>> ELSE IF Released THEN due ELSE Tail(due)
  /\ Stay /\ UNCHANGED <<tty, pressed, typed>>

\* ffstd_key_read() returns 0: the user waits.
KeyEmpty == data = <<>> /\ tty = <<>>

KeyReturn == at = "stdin" /\ KeyEmpty /\ Return /\ UNCHANGED keyVars

KeyHandling == KeyRead \/ KeyParse \/ KeyReturn
=============================================================================
