----------------------------- MODULE EnvExpand -----------------------------
(***************************************************************************)
(* ffenv_expand() on UNIX (ffsys/environ.h): "$NAME" in a text is replaced *)
(* by the variable's value, into the user's buffer or a new one.  A text   *)
(* is a sequence of characters: "$", name characters, others.              *)
(***************************************************************************)
EXTENDS Integers, Sequences

Ext == INSTANCE SequencesExt

CONSTANTS
  Texts,     \* what is expanded
  Environ,   \* _ff_environ: a sequence of texts "NAME=VALUE"
  NameChars, \* the characters of names
  OutCaps    \* capacities of the buffer; NewBuffer

NewBuffer == -1
Chars == STRING
ASSUME TextsAssumption ==
  /\ Texts \subseteq Seq(Chars) /\ Environ \in Seq(Seq(Chars)) /\ OutCaps \subseteq Nat \cup {NewBuffer}
  /\ "$" \notin NameChars

VARIABLES
  text,    \* src
  in,      \* what is left of it
  out,     \* what was written
  outcap,  \* dst_cap
  expanded \* "no", "ok", "null"

envVars == <<text, in, out, outcap, expanded>>

EnvInit ==
  /\ text \in Texts /\ in = text /\ out = <<>> /\ outcap \in OutCaps /\ expanded = "no"

EnvTypeOK ==
  /\ outcap # NewBuffer => Len(out) <= outcap
  /\ expanded \in {"no", "ok", "null"}

-----------------------------------------------------------------------------
\* _ffsvar_next(): how long the next chunk is, a name with its "$" or what comes before one.
Ends(s) ==
  IF s[1] = "$" THEN {k \in 2..Len(s) : s[k] \notin NameChars} ELSE {k \in DOMAIN s : s[k] = "$"}
NextLen(s) ==
  IF Ends(s) = {} THEN Len(s) ELSE (CHOOSE k \in Ends(s) : \A j \in Ends(s) : k <= j) - 1

\* _ffenv_val(): the first variable whose name is the key.
Matches(e, key) == Ext!IsPrefix(key \o <<"=">>, e)
Value(key) ==
  LET found == {i \in DOMAIN Environ : Matches(Environ[i], key)} IN
  IF found = {} THEN <<>>
  ELSE LET e == Environ[CHOOSE i \in found : \A j \in found : i <= j] IN SubSeq(e, Len(key) + 2, Len(e))

\* A chunk is added, as far as the buffer has room.
Room(s) == IF outcap # NewBuffer /\ Len(s) > outcap THEN SubSeq(s, 1, outcap) ELSE s
Chunk(s) == IF s[1] # "$" THEN s ELSE IF Len(s) = 1 THEN <<>> ELSE Value(Tail(s))
Expand ==
  /\ expanded = "no" /\ in # <<>>
  /\ LET n == NextLen(in) IN
       /\ out' = Room(out \o Chunk(SubSeq(in, 1, n)))
       /\ in' = SubSeq(in, n + 1, Len(in))
  /\ UNCHANGED <<text, outcap, expanded>>

\* The terminating zero must have room, too (not so in the mutant).
TerminatedAny == TRUE
Terminated == outcap = NewBuffer \/ Len(out) < outcap
ExpandEnd ==
  /\ expanded = "no" /\ in = <<>>
  /\ expanded' = IF Terminated THEN "ok" ELSE "null"
  /\ UNCHANGED <<text, in, out, outcap>>
ExpandFails ==
  /\ expanded = "no" /\ outcap = NewBuffer /\ expanded' = "null"
  /\ UNCHANGED <<text, in, out, outcap>>

EnvStep == Expand \/ ExpandEnd \/ ExpandFails

-----------------------------------------------------------------------------
\* What becomes of each character: a "$" turns into the value of the longest name that
\* follows, the name's characters go.
NameAfter(i) ==
  CHOOSE j \in i..Len(text) :
    /\ \A k \in (i + 1)..j : text[k] \in NameChars
    /\ j = Len(text) \/ text[j + 1] \notin NameChars
InName(i) == \E j \in 1..(i - 1) : text[j] = "$" /\ NameAfter(j) >= i
Replacement(i) ==
  IF text[i] = "$" THEN IF NameAfter(i) = i THEN <<>> ELSE Value(SubSeq(text, i + 1, NameAfter(i)))
  ELSE IF InName(i) THEN <<>> ELSE <<text[i]>>
Replaced[i \in 0..Len(text)] == IF i = 0 THEN <<>> ELSE Replaced[i - 1] \o Replacement(i)

\* ffenv_expand() returns the whole expansion or fails: it never cuts it short to fit the
\* buffer, wherever the buffer ends.
ExpandsWhole == expanded = "ok" => out = Replaced[Len(text)] /\ (outcap # NewBuffer => Len(out) < outcap)
=============================================================================
