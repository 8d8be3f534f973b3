------------------------------ MODULE DirMake ------------------------------
(***************************************************************************)
(* Creation of directories (ffsys/dir.h): ffdir_make_all() calls mkdir()   *)
(* for each prefix of a path, and others may do the same at that time.  A  *)
(* path is a sequence of names and slashes.                                *)
(***************************************************************************)
EXTENDS Sequences, Integers, FiniteSets

CONSTANTS
  Makers,  \* processes
  Paths,   \* the paths that they give
  DirsNow, \* the directories that exist at first, as sequences of names
  FilesNow \* the plain files

VARIABLES
  dirs,  \* the directories, as sequences of names
  path,  \* of each process
  off,   \* how far it has gone
  maker  \* "idle", "makes", "ok", "error"

mkVars == <<dirs, path, off, maker>>

Slash == "/"
Drive == "c:"
HasDrive(s) == \E k \in DOMAIN s : s[k] = Drive

\* Slashes stand between names, and a drive comes first.
Parts == STRING \* names, slashes, drives
IsPath(s) ==
  /\ \A k \in 1..(Len(s) - 1) : Slash \in {s[k], s[k + 1]}
  /\ \A k \in DOMAIN s : s[k] = Drive => k = 1
ASSUME PathsAssumption == Paths \subseteq Seq(Parts) /\ \A s \in Paths : IsPath(s)

ASSUME NowAssumption == FilesNow \cap ({<<>>, <<Drive>>} \cup DirsNow) = {}

\* The names in a path, which tell what it leads to.
Depth(s, k) == Cardinality({j \in 1..k : s[j] # Slash})
Names(s) ==
  [d \in 1..Depth(s, Len(s)) |-> s[CHOOSE k \in DOMAIN s : s[k] # Slash /\ Depth(s, k) = d]]

MkInit ==
  /\ dirs = {<<>>, <<Drive>>} \cup DirsNow /\ path \in [Makers -> Paths]
  /\ off = [m \in Makers |-> 0] /\ maker = [m \in Makers |-> "idle"]

MkTypeOK ==
  /\ <<>> \in dirs /\ path \in [Makers -> Seq(Parts)]
  /\ \A m \in Makers : off[m] \in 0..Len(path[m])
  /\ maker \in [Makers -> {"idle", "makes", "ok", "error"}]

-----------------------------------------------------------------------------
\* mkdir(), CreateDirectory(): a name is taken by a directory or by a plain file, and the
\* parent has to be a directory.
Mkdir(s) ==
  LET c == Names(s) taken == c \in dirs \cup FilesNow IN
  CASE s = <<>>                           -> "noent"
    [] s # <<>> /\ c = <<Drive>>          -> "denied"
    [] s # <<>> /\ c # <<Drive>> /\ taken -> "exist"
    [] OTHER -> IF SubSeq(c, 1, Len(c) - 1) \in dirs THEN "ok" ELSE "noent"

\* ffdir_make_path(): the path without its last name; nothing to do if that is empty.
Slashes(s) == {k \in 1..Len(s) : s[k] = Slash}
Parent(s) ==
  LET k == CHOOSE k \in 0..Len(s) : (k = 0 \/ s[k] = Slash) /\ \A j \in Slashes(s) : j <= k IN
  SubSeq(s, 1, k - 1)

\* Where to begin: not with the drive and not with "/".
Skip(s, o) == IF o < Len(s) /\ s[o + 1] = Slash THEN o + 1 ELSE o
Begin(s, o) == IF o = 0 /\ s # <<>> /\ s[1] = Drive THEN Skip(s, 1) ELSE Skip(s, o)

\* The user may know a prefix that exists.
Known(s) == {0} \cup {o \in 1..Len(s) : Names(SubSeq(s, 1, o)) \in dirs /\ (o = Len(s) \/ s[o + 1] = Slash)}

MakeAll(m, o) ==
  /\ maker[m] = "idle" /\ o \in Known(path[m])
  /\ off' = [off EXCEPT ![m] = Begin(path[m], o)]
  /\ maker' = [maker EXCEPT ![m] = "makes"]
  /\ UNCHANGED <<dirs, path>>
MakePath(m) ==
  LET s == Parent(path[m]) IN
  /\ maker[m] = "idle"
  /\ path' = [path EXCEPT ![m] = s]
  /\ off' = [off EXCEPT ![m] = Begin(s, 0)]
  /\ maker' = [maker EXCEPT ![m] = IF s = <<>> THEN "ok" ELSE "makes"]
  /\ UNCHANGED dirs

\* One mkdir(): what exists already is not an error (it is in the mutant).
FailedAny(r) == r # "ok"
Failed(r) == r \notin {"ok", "exist"}

MakeOne(m) ==
  LET s == path[m]
      k == CHOOSE k \in off[m]..Len(s) :
             /\ k = Len(s) \/ s[k + 1] = Slash
             /\ \A j \in off[m]..(k - 1) : s[j + 1] # Slash
      r == Mkdir(SubSeq(s, 1, k))
  IN
  /\ maker[m] = "makes"
  /\ dirs' = IF r = "ok" THEN dirs \cup {Names(SubSeq(s, 1, k))} ELSE dirs
  /\ maker' = [maker EXCEPT ![m] = IF Failed(r) THEN "error" ELSE IF k = Len(s) THEN "ok" ELSE "makes"]
  /\ off' = [off EXCEPT ![m] = IF k < Len(s) THEN k + 1 ELSE k]
  /\ UNCHANGED path

\* ffdir_make_all() of UNIX works on the path itself, that of Windows on a copy.
MakeOneUnix(m) == MakeOne(m)
MakeOneWindows(m) == MakeOne(m)

MakeStep(m, unix) ==
  \/ MakePath(m) \/ (unix /\ MakeOneUnix(m)) \/ (~unix /\ MakeOneWindows(m))
  \/ \E o \in Known(path[m]) : MakeAll(m, o)

-----------------------------------------------------------------------------
\* The root of a drive cannot be made, and two slashes after the drive ask for that.
AsksForRoot(s) == HasDrive(s) /\ (Len(s) <= 2 \/ s[3] = Slash)

\* A plain file has the name of a directory that the path goes through.
InTheWay(s) ==
  \E k, j \in DOMAIN s : k < j /\ s[j] # Slash /\ Names(SubSeq(s, 1, k)) \in FilesNow

\* Processes that make overlapping paths at the same time all succeed, and each directory
\* that one asked for exists then, or its name is a plain file's: ffdir_make_all() takes
\* EEXIST for success and does not ask what exists.  Only an empty path, a drive's root and a
\* path through a plain file are refused.
MakersSucceed ==
  \A m \in Makers :
    /\ maker[m] = "ok" => Names(path[m]) \in dirs \cup FilesNow
    /\ maker[m] = "error" => path[m] = <<>> \/ AsksForRoot(path[m]) \/ InTheWay(path[m])
=============================================================================
