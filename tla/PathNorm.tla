------------------------------ MODULE PathNorm ------------------------------
(***************************************************************************)
(* ffpath_norm() (ffsys/path.h): the path is split into an array of parts, *)
(* then the output is written part by part.  For ".." the length of the    *)
(* parent is taken from the array, at the index cur.  A path is shorter    *)
(* than 4096 characters (path.h:488): offsets are not cut to 12 bits.      *)
(***************************************************************************)
EXTENDS Naturals, Sequences, SequencesExt, FiniteSetsExt

CONSTANTS
  Paths,   \* the paths to be normalised
  Caps,    \* the sizes of the output buffer
  MaxParts \* elements of the array (255 in the program)

VARIABLES
  src,    \* the path
  win,    \* FFPATH_NORM_WINDOWS, else FFPATH_NORM_UNIX
  strict, \* FFPATH_NORM_STRICT
  cap,    \* size of the output buffer
  parts,  \* the array: where a part ends and what it is
  root,   \* length of the root in the output
  dst,    \* the output; its length is k
  i, cur, \* indices of parts, from 0
  pc      \* "root", "parts", "out", "ok", "error", "undefined"

vars == <<src, win, strict, cap, parts, root, dst, i, cur, pc>>
input == <<src, win, strict, cap>>

Init ==
  /\ src \in Paths /\ win \in BOOLEAN /\ strict \in BOOLEAN /\ cap \in Caps
  /\ parts = <<>> /\ root = 0 /\ dst = <<>> /\ i = 1 /\ cur = 0
  /\ pc = "root"

-----------------------------------------------------------------------------
Slash == IF win THEN "\\" ELSE "/"
IsSlash(ch) == ch = "/" \/ (win /\ ch = "\\")
Upper(ch) == IF ch = "c" THEN "C" ELSE ch
Letters == {"a", "b", "c", "C"}

\* "\\.\", "\\?\", "\\host\"
Device == win /\ Len(src) > 2 /\ src[1] = "\\" /\ src[2] = "\\"

\* "c:"
Dos == win /\ ~Device /\ Len(src) >= 2 /\ src[1] \in Letters /\ src[2] = ":"

Rooted == ~Device /\ ~Dos /\ Len(src) > 0 /\ IsSlash(src[1])

\* How many characters the root takes in the path.
RootLen ==
  IF Dos THEN 2 + (IF Len(src) >= 3 /\ IsSlash(src[3]) THEN 1 ELSE 0)
  ELSE IF Rooted THEN 1 ELSE 0

\* The root as it is written.
RootText ==
  IF Dos THEN <<Upper(src[1]), ":", "\\">> ELSE IF Rooted THEN <<Slash>> ELSE <<>>

Copy ==
  /\ pc = "root" /\ Device
  /\ IF Len(src) > cap THEN pc' = "error" /\ UNCHANGED dst
     ELSE pc' = "ok" /\ dst' = src
  /\ UNCHANGED <<input, parts, root, i, cur>>

Root ==
  /\ pc = "root" /\ ~Device
  /\ IF Dos /\ cap < 3 THEN pc' = "error" /\ UNCHANGED <<dst, parts, root>>
     ELSE /\ dst' = RootText
          /\ root' = Len(dst')
          /\ parts' = <<[end |-> RootLen, kind |-> "name"]>>
          /\ pc' = "parts"
  /\ UNCHANGED <<input, i, cur>>

Kind(t) ==
  CASE t = <<".">> -> "dot" [] t = <<".", ".">> -> "dotdot" [] OTHER -> "name"

\* The next part; the one that ends at the end of the path is the last.
Split ==
  /\ pc = "parts"
  /\ LET from == IF Len(parts) = 1 THEN RootLen ELSE Last(parts).end + 1
         ends == {e \in from..Len(src) : e = Len(src) \/ IsSlash(src[e + 1])}
         end == Min(ends)
     IN /\ IF Len(parts) = MaxParts THEN pc' = "error" /\ UNCHANGED parts
           ELSE /\ parts' = Append(parts, [end |-> end,
                                           kind |-> Kind(SubSeq(src, from + 1, end))])
                /\ pc' = IF end = Len(src) THEN "out" ELSE "parts"
  /\ UNCHANGED <<input, root, dst, i, cur>>

-----------------------------------------------------------------------------
End(j) == parts[j + 1].end
KindOf(j) == parts[j + 1].kind

Off == IF i = 1 THEN End(0) ELSE End(i - 1) + 1
Part == SubSeq(src, Off + 1, End(i))
k == Len(dst)

Outputs == pc = "out" /\ i < Len(parts)
Continues(c) == i' = i + 1 /\ cur' = c + 1 /\ UNCHANGED <<input, parts, root>>

\* Nothing is written: an empty part, a dot that does not lead, or ".." in a root.
Skip ==
  /\ Outputs
  /\ \/ Part = <<>>
     \/ KindOf(i) = "dot" /\ k # 0
     \/ KindOf(i) = "dotdot" /\ k = root /\ ~strict /\ root # 0
  /\ Continues(cur) /\ UNCHANGED <<dst, pc>>

Refuse ==
  /\ Outputs /\ KindOf(i) = "dotdot" /\ k = root /\ strict
  /\ pc' = "error"
  /\ UNCHANGED <<input, parts, root, dst, i, cur>>

\* ".." after something: the entry at cur is taken for the last part written.
HasParent == KindOf(i) = "dotdot" /\ k # root
ParentKnown == cur \in 1..(Len(parts) - 1)
ParentLen == End(cur) - End(cur - 1)

\* The entry, or the position in the output, lies outside of its array.
Outside ==
  /\ Outputs /\ HasParent
  /\ IF ParentKnown THEN KindOf(cur) # "dotdot" /\ ParentLen > k ELSE TRUE
  /\ pc' = "undefined"
  /\ UNCHANGED <<input, parts, root, dst, i, cur>>

Up ==
  /\ Outputs /\ HasParent /\ ParentKnown
  /\ KindOf(cur) = "name" /\ ParentLen <= k
  /\ dst' = SubSeq(dst, 1, k - ParentLen)
  /\ IF cur >= 2 THEN Continues(cur - 2)
     ELSE i' = i + 1 /\ cur' = 0 /\ UNCHANGED <<input, parts, root>>
  /\ UNCHANGED pc

\* The output to which the part is added: a "." before ".." is removed.
Kept ==
  IF HasParent /\ KindOf(cur) = "dot" THEN SubSeq(dst, 1, k - ParentLen) ELSE dst

Writes ==
  /\ Part # <<>>
  /\ KindOf(i) = "dot" => k = 0
  /\ KindOf(i) = "dotdot" /\ k = root => ~strict /\ root = 0
  /\ HasParent => /\ ParentKnown
                  /\ \/ KindOf(cur) = "dotdot"
                     \/ KindOf(cur) = "dot" /\ ParentLen <= k

Write ==
  /\ Outputs /\ Writes
  /\ LET sep == IF Len(Kept) # root THEN <<Slash>> ELSE <<>> IN
       IF Len(Kept) + Len(sep) + Len(Part) > cap
       THEN pc' = "error" /\ UNCHANGED <<input, parts, root, dst, i, cur>>
       ELSE dst' = Kept \o sep \o Part /\ Continues(cur) /\ UNCHANGED pc

Finish ==
  /\ pc = "out" /\ i >= Len(parts)
  /\ pc' = "ok"
  /\ UNCHANGED <<input, parts, root, dst, i, cur>>

Done == pc \in {"ok", "error", "undefined"} /\ UNCHANGED vars

Next ==
  Copy \/ Root \/ Split \/ Skip \/ Refuse \/ Outside \/ Up \/ Write \/ Finish \/ Done

Spec == Init /\ [][Next]_vars

-----------------------------------------------------------------------------
(* What the function promises (path.h:415-425), on a list of components. *)

Texts ==
  LET q == SubSeq(src, RootLen + 1, Len(src))
      ends == SetToSortSeq({j \in 1..Len(q) : IsSlash(q[j])} \cup {Len(q) + 1}, <)
      from(j) == IF j = 1 THEN 1 ELSE ends[j - 1] + 1
  IN [j \in 1..Len(ends) |-> SubSeq(q, from(j), ends[j] - 1)]

Add(st, t) ==
  LET kind == Kind(t)
      top == IF st = <<>> THEN "none" ELSE Kind(Last(st))
  IN CASE t = <<>> -> st
       [] kind = "dot" -> IF st = <<>> /\ root = 0 THEN <<t>> ELSE st
       [] kind = "dotdot" /\ st = <<>> -> IF root = 0 THEN <<t>> ELSE st
       [] kind = "dotdot" /\ top = "dot" -> <<t>>
       [] kind = "dotdot" /\ top = "name" -> Front(st)
       [] OTHER -> Append(st, t)

Normal ==
  LET st == FoldLeft(Add, <<>>, Texts)
  IN RootText \o
     FlattenSeq([j \in 1..Len(st) |-> (IF j = 1 THEN <<>> ELSE <<Slash>>) \o st[j]])

\* "Skip "." components unless leading" and "Handle ".." components: a/../b -> b,
\* /../a -> /a" (path.h:417-423): what ffpath_norm() returns is the path that these
\* rules give.
NormIsNormal == pc = "ok" /\ ~Device => dst = Normal
=============================================================================
