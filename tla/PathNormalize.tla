---------------------------- MODULE PathNormalize ----------------------------
(***************************************************************************)
(* ffpath_normalize() (ffsys/path.h): one step per component of the path.  *)
(* A path is a sequence of characters.                                     *)
(***************************************************************************)
EXTENDS Naturals, Sequences, SequencesExt, FiniteSetsExt

CONSTANTS
  Chars,    \* the characters of paths
  Paths,    \* the paths to be normalised
  FlagSets, \* the sets of flags it is called with
  Caps      \* the sizes of the output buffer

VARIABLES
  src,      \* the path
  flags,    \* FFPATH_SIMPLE, FFPATH_DISK_LETTER, ...
  cap,      \* size of the output buffer
  s,        \* what is left to read
  dst,      \* the output; its length is k
  simplify, \* not at a leading component that is kept as it is
  skipDisk, \* a drive letter is still to be skipped
  pc        \* "start", "loop", "ok", "error"

vars == <<src, flags, cap, s, dst, simplify, skipDisk, pc>>
input == <<src, flags, cap>>

Flags == {"simple", "disk", "backslash", "force_slash", "force_backslash"}

ASSUME FlagsAssumption == FlagSets \subseteq SUBSET Flags
ASSUME PathsAssumption == Paths \subseteq Seq(Chars) /\ {"/", "\\"} \subseteq Chars /\ Caps \subseteq Nat

Init ==
  /\ src \in Paths /\ flags \in FlagSets /\ cap \in Caps
  /\ s = src /\ dst = <<>>
  /\ simplify = ("simple" \in flags)
  /\ skipDisk = ({"simple", "disk"} \subseteq flags)
  /\ pc = "start"

-----------------------------------------------------------------------------
Slashes == IF "backslash" \in flags THEN {"/", "\\"} ELSE {"/"}

\* The first and the last separator of a sequence, 0 if there is none.
SlashesOf(q) == {i \in 1..Len(q) : q[i] \in Slashes}
FirstSlash(q) == IF SlashesOf(q) = {} THEN 0 ELSE Min(SlashesOf(q))
LastSlash(q) == IF SlashesOf(q) = {} THEN 0 ELSE Max(SlashesOf(q))

\* ffstr_splitbyany(): the next component and what follows it.
Pos == FirstSlash(s)
Part == IF Pos = 0 THEN s ELSE SubSeq(s, 1, Pos - 1)
Rest == IF Pos = 0 THEN <<>> ELSE SubSeq(s, Pos + 1, Len(s))

Dot == <<".">>
DotDot == <<".", ".">>
EndsDrive(q) == q # <<>> /\ q[Len(q)] = ":"

\* The separator that is written after a component; the mutant writes one even
\* if there was none.
SepOf(ch) ==
  IF "force_slash" \in flags THEN "/"
  ELSE IF "force_backslash" \in flags THEN "\\" ELSE ch
SeparatorAlways == <<SepOf("/")>>
Separator == IF Pos = 0 THEN <<>> ELSE <<SepOf(s[Pos])>>

-----------------------------------------------------------------------------
\* "\\.\", "\\?\", "\\host\": the path is copied.
Device == "disk" \in flags /\ Len(src) > 2 /\ src[1] = "\\" /\ src[2] = "\\"

Copy ==
  /\ pc = "start" /\ Device
  /\ IF Len(s) > cap THEN pc' = "error" /\ UNCHANGED <<s, dst>>
     ELSE pc' = "ok" /\ dst' = s /\ s' = <<>>
  /\ UNCHANGED <<input, simplify, skipDisk>>

Start ==
  /\ pc = "start" /\ ~Device
  /\ pc' = "loop"
  /\ UNCHANGED <<input, s, dst, simplify, skipDisk>>

\* Slashes are merged and dots are skipped, unless leading.
Nothing == simplify /\ Part \in {<<>>, Dot}

Skip ==
  /\ pc = "loop" /\ s # <<>> /\ Nothing
  /\ s' = Rest
  /\ UNCHANGED <<input, dst, simplify, skipDisk, pc>>

\* FFPATH_SIMPLE with FFPATH_DISK_LETTER: "c:/" is skipped.
Drive == simplify /\ skipDisk /\ EndsDrive(Part)

SkipDrive ==
  /\ pc = "loop" /\ s # <<>> /\ ~Nothing /\ Drive
  /\ s' = Rest /\ skipDisk' = FALSE
  /\ UNCHANGED <<input, dst, simplify, pc>>

Component ==
  /\ pc = "loop" /\ s # <<>> /\ ~Nothing /\ ~Drive
  /\ s' = Rest
  /\ simplify' = TRUE
  /\ skipDisk' = (skipDisk /\ ~simplify)
  /\ UNCHANGED input

\* The last component of the output, without its separator, and where it
\* begins; the mutant takes the separator for the component's first.
PrevSlashLate(d) == LastSlash(d)
PrevSlash(d) == LastSlash(Front(d))
Prev(d) == SubSeq(d, PrevSlash(d) + 1, Len(d) - 1)

\* "..": the parent cannot be named, and ".." is written.
WritesParent ==
  IF dst = <<>> THEN "simple" \notin flags
  ELSE Prev(dst) = DotDot \/ (PrevSlash(dst) = 0 /\ Prev(dst) = Dot)

\* "..": what is left of the output otherwise.
Parent ==
  IF dst = <<>> THEN <<>>
  ELSE IF PrevSlash(dst) # 0 THEN SubSeq(dst, 1, PrevSlash(dst))
  ELSE IF Len(dst) = 1 \/ ("disk" \in flags /\ EndsDrive(Prev(dst))) THEN dst
  ELSE <<>>

Up ==
  /\ Component /\ Part = DotDot /\ ~WritesParent
  /\ dst' = Parent
  /\ UNCHANGED pc

\* "./" is replaced by "../".
Kept ==
  IF Part = DotDot /\ dst # <<>> /\ Prev(dst) = Dot THEN <<>> ELSE dst

\* The component and its separator fit; the mutant forgets the separator.
FitsPart == Len(Kept) + Len(Part) <= cap
Fits == Len(Kept) + Len(Part) + Len(Separator) <= cap

Write ==
  /\ Component /\ (Part = DotDot => WritesParent)
  /\ IF Fits THEN dst' = Kept \o Part \o Separator /\ UNCHANGED pc
     ELSE pc' = "error" /\ UNCHANGED dst

Finish ==
  /\ pc = "loop" /\ s = <<>>
  /\ pc' = "ok"
  /\ UNCHANGED <<input, s, dst, simplify, skipDisk>>

Done == pc \in {"ok", "error"} /\ UNCHANGED vars

Next == Copy \/ Start \/ Skip \/ SkipDrive \/ Up \/ Write \/ Finish \/ Done

Spec == Init /\ [][Next]_vars

-----------------------------------------------------------------------------
(* What the function promises (path.h:246-280), on a list of components. *)

\* A component ends at p: there is a separator, or the path ends with a name.  Its text is
\* what comes after the last separator before p.
Ends(p) ==
  IF p <= Len(src) THEN src[p] \in Slashes ELSE src # <<>> /\ src[Len(src)] \notin Slashes
From(p) == Max({0} \cup {k \in SlashesOf(src) : k < p}) + 1
Text(p) == SubSeq(src, From(p), p - 1)
Sep(p) == IF p > Len(src) THEN <<>> ELSE <<SepOf(src[p])>>

\* The drive letter that FFPATH_SIMPLE removes.
Removed(p) ==
  /\ {"simple", "disk"} \subseteq flags /\ EndsDrive(Text(p))
  /\ \A k \in 1..(p - 1) : Ends(k) => Text(k) \in {<<>>, Dot}

\* Each component on the list has the path that ends with it.
PathOf(list) == IF list = <<>> THEN <<>> ELSE Last(list).path
Push(list, p) == Append(list, [text |-> Text(p), path |-> PathOf(list) \o Text(p) \o Sep(p)])

\* ".." takes the last component off, unless it is the root, a drive or has no parent.
Above(list, p) ==
  IF list = <<>> THEN IF "simple" \in flags THEN list ELSE Push(list, p)
  ELSE LET top == Last(list).text IN
       IF top = DotDot THEN Push(list, p)
       ELSE IF top = Dot THEN Push(<<>>, p)
       ELSE IF top = <<>> \/ (Len(list) = 1 /\ "disk" \in flags /\ EndsDrive(top)) THEN list
       ELSE Front(list)

\* One more component: "" and "." count only if leading.
Add(list, p) ==
  IF Text(p) \in {<<>>, Dot} THEN IF From(p) = 1 /\ "simple" \notin flags THEN Push(<<>>, p) ELSE list
  ELSE IF Removed(p) THEN list
  ELSE IF Text(p) = DotDot THEN Above(list, p) ELSE Push(list, p)

Listed[p \in 0..(Len(src) + 1)] ==
  IF p = 0 THEN <<>> ELSE IF Ends(p) THEN Add(Listed[p - 1], p) ELSE Listed[p - 1]
Normal == PathOf(Listed[Len(src) + 1])

-----------------------------------------------------------------------------
\* It fails only when the buffer is smaller than the path.
FailsWhenShort == pc = "error" => cap < Len(src)

\* The path is split by the separators that are written.  Without FFPATH_SLASH_BACKSLASH it
\* is not by those of FFPATH_FORCE_BACKSLASH.
SplitsOwn == \A c \in Slashes : SepOf(c) \in Slashes

\* ffpath_normalize(), which edits a buffer and finds the parent by searching
\* it backwards, returns the path that the rules on components give, or fails for want of room.
NormalizeIsNormal == (pc = "ok" /\ ~Device => dst = Normal) /\ FailsWhenShort

\* The output never overtakes the input, so that a path can be normalised in
\* place (ffmem_move, path.h:364), and fits the buffer (path.h:362).
NeverOvertakes == Len(dst) <= Len(src) - Len(s) /\ Len(dst) <= cap
=============================================================================
