------------------------------- MODULE Files -------------------------------
(***************************************************************************)
(* What processes share by name.  They work on files in one directory, and *)
(* a user keeps a view of it: he watches the directory, scans it, then     *)
(* reads events.  Or they scan a directory, make directories, take turns   *)
(* by a semaphore, use one descriptor in several threads, expand a name.   *)
(***************************************************************************)
EXTENDS File, DirScan, FileMon, DirMake, NamedSem, SharedFile, EnvExpand

ASSUME FileNamesAssumption == FileNames \subseteq Elements(Collation)

VARIABLE mode \* what goes on: one of Modes

vars == <<fileVars, scanVars, monVars, mkVars, nsVars, fdVars, envVars, mode>>

Modes == {"work", "watch", "scan", "make", "turns", "share", "expand"}

Init ==
  /\ mode \in Modes
  /\ FileInit /\ (mode # "work" => kinds = Changing)
  /\ ScanInit /\ (icase <=> sys = "windows") /\ (mode # "scan" => flags = {})
  /\ MonInit
  /\ MkInit /\ (IF mode = "make" THEN sys = "unix" => \A m \in Makers : ~HasDrive(path[m])
                 ELSE path = [m \in Makers |-> <<>>])
  /\ NsInit /\ (sys = "windows" <=> platform = "windows")
  /\ (mode # "turns" => platform # "macos" /\ asks = [u \in SemUsers |-> "open"])
  /\ FdInit /\ fdsys = sys /\ (mode # "share" => ~many)
  /\ EnvInit
  /\ IF mode = "expand" THEN sys = "unix" ELSE text = <<>> /\ outcap = NewBuffer

Linux == sys = "unix"
Present == {n \in FileNames : ino[n] # None}

\* What the directory's monitor is told of a step.
Changes(n, old, new) ==
  IF old = new THEN <<>>
  ELSE (IF old # None THEN <<Event("deleted", n)>> ELSE <<>>)
    \o (IF new # None THEN <<Event("created", n)>> ELSE <<>>)
Told == Changes("tmp", ino["tmp"], ino'["tmp"]) \o Changes("file", ino["file"], ino'["file"])

\* One process works while the user watches.
Works(p) ==
  /\ mode \in {"work", "watch"} /\ FileStep(p)
  /\ mode = "watch" => \A q \in Procs \ {p} : calls[q] = 0
  /\ Note(Told, Linux)
  /\ steady' = steady \cap {n \in FileNames : ino'[n] # None}
  /\ UNCHANGED <<scan, icase, flags, entries, list, subdirs, cur>>
  /\ UNCHANGED <<watch, target, filter, op, active, mem, input, view>>
  /\ UNCHANGED <<mkVars, nsVars, fdVars, envVars, mode>>

Watch ==
  /\ scan = "none" /\ UNCHANGED scanVars
  /\ \/ Linux /\ MonAdd(FileNames)
     \/ ~Linux /\ (MonAddDir(FileNames) \/ MonAddFile("file", FileNames))
Scanning ==
  \/ watch /\ ScanOpen(Present)
  \/ \E n \in Present \cup steady : ScanRead(n)
  \/ ScanEnd \/ ScanFails \/ ScanDone
Scan == Scanning /\ UNCHANGED monVars
Walk == ScanNext /\ MonSee(list[cur + 1])
Monitor ==
  /\ scan = "walked" /\ UNCHANGED scanVars
  /\ \/ Linux /\ (MonRead \/ MonNext \/ MonNextEnds)
     \/ ~Linux /\ (MonBegin \/ MonResult \/ MonNextWindows)
     \/ MonClose
System == MonComplete /\ UNCHANGED scanVars

Watcher ==
  /\ mode = "watch" /\ (Watch \/ Scan \/ Walk \/ Monitor \/ System)
  /\ UNCHANGED <<fileVars, mkVars, nsVars, fdVars, envVars, mode>>

\* A directory of some other names, which may be files or directories at any time.
Others == Elements(Collation) \ (Dots \cup FileNames)
Scanner ==
  /\ mode = "scan"
  /\ \/ (\E names \in SUBSET Others : ScanOpen(names \cup Dots)) \/ (\E n \in steady : ScanRead(n)) \/ ScanEnd \/ ScanFails
     \/ (\E isdir \in BOOLEAN : ScanInfo(isdir)) \/ ScanInfoEnd
     \/ ScanNext \/ ScanDone \/ ScanReset \/ ScanClose
  /\ UNCHANGED <<fileVars, monVars, mkVars, nsVars, fdVars, envVars, mode>>

Makes(m) ==
  /\ mode = "make" /\ MakeStep(m, Linux)
  /\ UNCHANGED <<fileVars, scanVars, monVars, nsVars, fdVars, envVars, mode>>
TakesTurns(u) ==
  /\ mode = "turns" /\ NsStep(u)
  /\ UNCHANGED <<fileVars, scanVars, monVars, mkVars, fdVars, envVars, mode>>
Shares(t) ==
  /\ mode = "share" /\ FdStep(t)
  /\ UNCHANGED <<fileVars, scanVars, monVars, mkVars, nsVars, envVars, mode>>
Expands ==
  /\ mode = "expand" /\ EnvStep
  /\ UNCHANGED <<fileVars, scanVars, monVars, mkVars, nsVars, fdVars, mode>>

Next ==
  \/ Watcher \/ Scanner \/ \E p \in Procs : Works(p)
  \/ \E m \in Makers : Makes(m)
  \/ \E u \in SemUsers : TakesTurns(u)
  \/ \E t \in FdUsers : Shares(t)
  \/ Expands

Spec == Init /\ [][Next]_vars
FairSpec == Spec /\ WF_vars(Watcher)

-----------------------------------------------------------------------------
TypeOK ==
  /\ FileTypeOK /\ ScanTypeOK /\ MonTypeOK /\ MkTypeOK
  /\ NsTypeOK /\ FdTypeOK /\ EnvTypeOK

\* Files are found whole or not at all: saved ones, read ones, failed ones, temporary ones.
FilesAreSound == WholeOrNothing /\ ReadFits /\ FailureIsClean /\ TempIsPrivate

\* A semaphore excludes those who share it, and only those.
SemaphoresExclude == OneOwner /\ UnnamedIsPrivate

\* Watching first and scanning then misses nothing: when no events are left, the view is
\* the directory, unless the system had to drop events.
ViewIsRight ==
  watch /\ scan = "walked" /\ queue = <<>> /\ input = <<>> /\ op # "done" /\ ~lost =>
    view = Present \cap target

\* The user catches up with a directory that no longer changes, if he could scan it.
CatchesUp ==
  mode = "watch" => <>[](scan = "failed" \/ (scan = "walked" /\ queue = <<>> /\ input = <<>> /\ op # "done"))
=============================================================================
