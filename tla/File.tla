-------------------------------- MODULE File --------------------------------
(***************************************************************************)
(* Operations of ffsys/file.h that take several system calls, made by      *)
(* processes that share files: a file is written whole in place ("put"),   *)
(* or under a temporary name and then renamed ("save"), read whole,        *)
(* removed, or created as a temporary file without a name ("temp").        *)
(***************************************************************************)
EXTENDS Integers, Sequences, FiniteSets

CONSTANTS
  Procs,
  MaxCalls, \* how many calls a process makes
  Mixes,    \* of which kinds they may be
  Limits,   \* that fffile_readwhole() is given
  MaxSize   \* the largest value of a size's type

ASSUME SizeAssumption == MaxSize \in Nat /\ 3 < MaxSize /\ Limits \subseteq 0..MaxSize
ASSUME ProcsAssumption == IsFiniteSet(Procs) /\ MaxCalls \in Nat

VARIABLES
  sys,   \* "unix", "windows"
  kinds, \* the calls that the processes make
  ino,   \* the file of a name, or None
  data,  \* the contents of each file: who wrote each byte
  used,  \* how many files there have been
  pc,    \* what a process does next
  call,  \* its call
  calls, \* how many it has made
  obj,   \* the file that it has open, or had until the call ended
  limit, \* of its fffile_readwhole(), where -1 is MaxSize
  size,  \* fffile_size(), where -1 is MaxSize
  got,   \* what it has read
  ret    \* "none", "ok", "error"

fileVars == <<sys, kinds, ino, data, used, pc, call, calls, obj, limit, size, got, ret>>

FileNames == {"file", "tmp"}
None == 0
Inodes == 1..(1 + MaxCalls * Cardinality(Procs))
Kinds == {"put", "save", "read", "remove", "temp"}
Safe == {"save", "read", "temp"}
Changing == {"put", "save", "remove"}
ASSUME MixesAssumption == Mixes \subseteq SUBSET Kinds /\ Changing \in Mixes
Old == "old"

FileInit ==
  /\ sys \in {"unix", "windows"} /\ kinds \in Mixes
  /\ ino = [n \in FileNames |-> IF n = "file" THEN 1 ELSE None]
  /\ data = [i \in Inodes |-> IF i = 1 THEN <<Old, Old>> ELSE <<>>] /\ used = 1
  /\ pc = [p \in Procs |-> "idle"] /\ call = [p \in Procs |-> "none"]
  /\ calls = [p \in Procs |-> 0] /\ obj = [p \in Procs |-> None]
  /\ limit = [p \in Procs |-> 0] /\ size = [p \in Procs |-> 0] /\ got = [p \in Procs |-> <<>>]
  /\ ret = [p \in Procs |-> "none"]

FileTypeOK ==
  /\ ino \in [FileNames -> Inodes \cup {None}] /\ used \in Inodes
  /\ \A i \in Inodes : Len(data[i]) <= 3
  /\ pc \in [Procs -> {"idle", "open", "open2", "write", "close", "rename", "remove", "size",
                       "read", "unlink", "use", "dead"}]
  /\ call \in [Procs -> Kinds \cup {"none"}] /\ calls \in [Procs -> 0..MaxCalls]
  /\ obj \in [Procs -> Inodes \cup {None}]
  /\ limit \in [Procs -> 0..MaxSize] /\ size \in [Procs -> 0..MaxSize]
  /\ ret \in [Procs -> {"none", "ok", "error"}]

Goto(p, s) == pc' = [pc EXCEPT ![p] = s]
Result(p, r) == ret' = [ret EXCEPT ![p] = r]
NameOf(p) == IF call[p] \in {"save", "temp"} THEN "tmp" ELSE "file"

-----------------------------------------------------------------------------
Call(p, k) ==
  /\ pc[p] = "idle" /\ calls[p] < MaxCalls /\ k \in kinds
  /\ Goto(p, IF k = "remove" THEN "remove" ELSE "open") /\ Result(p, "none")
  /\ call' = [call EXCEPT ![p] = k] /\ calls' = [calls EXCEPT ![p] = @ + 1]
  /\ obj' = [obj EXCEPT ![p] = None] /\ got' = [got EXCEPT ![p] = <<>>]
  /\ \E l \in IF k = "read" THEN Limits ELSE {0} : limit' = [limit EXCEPT ![p] = l]
  /\ size' = [size EXCEPT ![p] = 0]
  /\ UNCHANGED <<sys, kinds, ino, data, used>>

\* The flags each call gives to fffile_open().  In the mutant a file that has to be new may
\* exist.
CreationAny(k) == IF k = "read" THEN "open" ELSE "create"
Creation(k) ==
  CASE k \in {"save", "temp"} -> "new" [] k = "put" -> "create" [] OTHER -> "open"
Truncates(k) == k = "put"

Found(p, creation) == ino[NameOf(p)] # None /\ creation # "new"
MakesNew(p, creation) == ino[NameOf(p)] = None /\ creation \in {"new", "create"}

\* One open() or CreateFile() that succeeds.
Opens(p, creation, trunc) ==
  /\ Found(p, creation) \/ MakesNew(p, creation)
  /\ LET i == IF Found(p, creation) THEN ino[NameOf(p)] ELSE used + 1 IN
       /\ ino' = [ino EXCEPT ![NameOf(p)] = i]
       /\ used' = IF Found(p, creation) THEN used ELSE i
       /\ data' = IF trunc THEN [data EXCEPT ![i] = <<>>] ELSE data
       /\ obj' = [obj EXCEPT ![p] = i]
  /\ Goto(p, CASE call[p] = "read" -> "size"
               [] call[p] = "temp" -> IF sys = "unix" THEN "unlink" ELSE "use"
               [] OTHER -> "write")
  /\ UNCHANGED <<sys, kinds, call, calls, limit, size, got, ret>>

\* ... and one that fails.
OpenFails(p, creation, next) ==
  /\ ~Found(p, creation) /\ ~MakesNew(p, creation)
  /\ Goto(p, next) /\ Result(p, IF next = "idle" THEN "error" ELSE "none")
  /\ UNCHANGED <<sys, kinds, ino, data, used, call, calls, obj, limit, size, got>>

OpenUnix(p) ==
  /\ sys = "unix" /\ pc[p] = "open"
  /\ \/ Opens(p, Creation(call[p]), Truncates(call[p]))
     \/ OpenFails(p, Creation(call[p]), "idle")

\* Windows: FFFILE_TRUNCATE makes the creation mode TRUNCATE_EXISTING; a file that is not
\* found is then created by a second call, which must find none.  No caller here combines
\* FFFILE_TRUNCATE with FFFILE_CREATENEW, which the code does not tell from other modes
\* (file.h:269), or gives FFFILE_NODOSNAME.
OpenWindows(p) ==
  /\ sys = "windows" /\ pc[p] = "open"
  /\ LET k == call[p] creation == IF Truncates(k) THEN "open" ELSE Creation(k) IN
       \/ Opens(p, creation, Truncates(k))
       \/ OpenFails(p, creation, IF Truncates(k) /\ Creation(k) = "create" THEN "open2" ELSE "idle")
OpenAgain(p) ==
  /\ pc[p] = "open2"
  /\ Opens(p, "new", FALSE) \/ OpenFails(p, "new", "idle")

-----------------------------------------------------------------------------
\* fffile_writewhole(): two bytes at the beginning of the file, or a part of them when the
\* disk is full (which the mutant takes for success).
Overlay(i, s) == s \o SubSeq(data[i], Len(s) + 1, Len(data[i]))
WrittenAny(s) == "ok"
Written(s) == IF Len(s) = 2 THEN "ok" ELSE "error"

Write(p, s) ==
  /\ pc[p] = "write" /\ Goto(p, "close") /\ Result(p, Written(s))
  /\ data' = [data EXCEPT ![obj[p]] = Overlay(obj[p], s)]
  /\ UNCHANGED <<sys, kinds, ino, used, call, calls, obj, limit, size, got>>

\* fffile_close(), which may fail; a file that was not written is removed (not so in the
\* mutant).
AfterCloseStays(p, r) == IF r = "ok" /\ call[p] = "save" THEN "rename" ELSE "idle"
AfterClose(p, r) ==
  CASE call[p] # "read" /\ r = "error" -> "remove"
    [] call[p] = "save" /\ r # "error" -> "rename"
    [] OTHER                            -> "idle"

Close(p) ==
  /\ pc[p] = "close"
  /\ \E r \in {ret[p]} \cup (IF call[p] = "read" THEN {} ELSE {"error"}) :
       Result(p, r) /\ Goto(p, AfterClose(p, r))
  /\ UNCHANGED <<sys, kinds, ino, data, used, call, calls, obj, limit, size, got>>

\* fffile_remove(), also of what fffile_writewhole() could not write: the result is the
\* write's, then.
Remove(p) ==
  /\ pc[p] = "remove" /\ Goto(p, "idle")
  /\ ino' = [ino EXCEPT ![NameOf(p)] = None]
  /\ Result(p, IF call[p] = "remove" /\ ino[NameOf(p)] # None THEN "ok" ELSE "error")
  /\ UNCHANGED <<sys, kinds, data, used, call, calls, obj, limit, size, got>>

\* fffile_rename() over the existing file.  It may fail, on Windows because someone has that
\* one open; the caller removes the temporary file then.
Rename(p) ==
  /\ pc[p] = "rename"
  /\ \/ /\ ino["tmp"] # None /\ Goto(p, "idle") /\ Result(p, "ok")
        /\ ino' = [n \in FileNames |-> IF n = "file" THEN ino["tmp"] ELSE None]
     \/ Goto(p, "remove") /\ Result(p, "error") /\ UNCHANGED ino
  /\ UNCHANGED <<sys, kinds, data, used, call, calls, obj, limit, size, got>>

\* fffile_createtemp(): the name goes at once (UNIX), or when the file is closed.
Unlink(p) ==
  /\ pc[p] = "unlink" /\ Goto(p, "use")
  /\ ino' = [ino EXCEPT !["tmp"] = None]
  /\ UNCHANGED <<sys, kinds, data, used, call, calls, obj, limit, size, got, ret>>
UseTemp(p) ==
  /\ pc[p] = "use" /\ Goto(p, "idle") /\ Result(p, "ok")
  /\ data' = [data EXCEPT ![obj[p]] = Append(@, p)]
  /\ ino' = [n \in FileNames |-> IF ino[n] = obj[p] THEN None ELSE ino[n]]
  /\ UNCHANGED <<sys, kinds, used, call, calls, obj, limit, size, got>>

-----------------------------------------------------------------------------
\* fffile_readwhole(): the size, which may fail with -1, is compared with the limit (not in
\* the mutant).
TooLargeNot(s, l) == FALSE
TooLarge(s, l) == s > l

Size(p) ==
  /\ pc[p] = "size"
  /\ \E s \in {Len(data[obj[p]]), MaxSize} :
       /\ size' = [size EXCEPT ![p] = s]
       /\ IF TooLarge(s, limit[p]) THEN Goto(p, "close") /\ Result(p, "error")
          ELSE Goto(p, "read") /\ UNCHANGED ret
  /\ UNCHANGED <<sys, kinds, ino, data, used, call, calls, obj, limit, got>>

Prefix(s, n) == SubSeq(s, 1, IF n < Len(s) THEN n ELSE Len(s))

\* fffile_read() of that many bytes; -1 on failure, compared as an unsigned number.
ReadAll(p) ==
  /\ pc[p] = "read" /\ Goto(p, "close")
  /\ \/ LET s == Prefix(data[obj[p]], size[p]) IN
          got' = [got EXCEPT ![p] = s] /\ Result(p, IF Len(s) = size[p] THEN "ok" ELSE "error")
     \/ UNCHANGED got /\ Result(p, IF size[p] = MaxSize THEN "ok" ELSE "error")
  /\ UNCHANGED <<sys, kinds, ino, data, used, call, calls, obj, limit, size>>

\* A process dies with all that it had in memory, and Windows removes its temporary file.
Crash(p) ==
  /\ pc[p] \notin {"idle", "dead"} /\ Goto(p, "dead")
  /\ ino' = [n \in FileNames |-> IF sys = "windows" /\ pc[p] = "use" /\ ino[n] = obj[p]
                                 THEN None ELSE ino[n]]
  /\ call' = [call EXCEPT ![p] = "none"] /\ obj' = [obj EXCEPT ![p] = None]
  /\ limit' = [limit EXCEPT ![p] = 0] /\ size' = [size EXCEPT ![p] = 0]
  /\ got' = [got EXCEPT ![p] = <<>>] /\ Result(p, "none")
  /\ UNCHANGED <<sys, kinds, data, used, calls>>

FileStep(p) ==
  \/ \E k \in Kinds : Call(p, k)
  \/ OpenUnix(p) \/ OpenWindows(p) \/ OpenAgain(p)
  \/ \E s \in {<<>>, <<p>>, <<p, p>>} : Write(p, s)
  \/ Close(p) \/ Remove(p) \/ Rename(p) \/ Unlink(p) \/ UseTemp(p)
  \/ Size(p) \/ ReadAll(p) \/ Crash(p)

-----------------------------------------------------------------------------
Returned(p, k, r) == pc[p] = "idle" /\ call[p] = k /\ ret[p] = r
Whole == {<<w, w>> : w \in Procs \cup {Old}}

\* Without a limit (-1, as test/file.c gives it) fffile_readwhole() does not notice that
\* fffile_size() has failed, and a read that fails then, too, returns just that "size": 0 is
\* returned, with nothing read.
Unnoticed(p) == limit[p] = MaxSize /\ size[p] = MaxSize

\* When files are saved with FFFILE_CREATENEW and renamed, everyone finds the file at any
\* time, and finds it whole, though savers race, fail half-way or die.
WholeOrNothing ==
  kinds = Safe =>
    /\ ino["file"] # None /\ data[ino["file"]] \in Whole
    /\ \A p \in Procs : Returned(p, "read", "ok") /\ ~Unnoticed(p) => got[p] \in Whole

\* "Delete file on I/O error": a fffile_writewhole() that fails leaves no name for what it
\* has written, also when others have replaced the file meanwhile.
FailureIsClean ==
  \A p \in Procs : \A n \in FileNames :
    (Returned(p, "put", "error") \/ Returned(p, "save", "error")) /\ obj[p] # None => ino[n] # obj[p]

\* A temporary file is its creator's alone.
TempIsPrivate ==
  \A p \in Procs : call[p] = "temp" /\ obj[p] # None => \A k \in DOMAIN data[obj[p]] : data[obj[p]][k] = p

\* "Limit: maximum allowed file size", "Return 0 on success": with any limit that can be
\* exceeded fffile_readwhole() succeeds only with as many bytes as the file had when it asked,
\* no more than the limit, although the file changes while it reads and -1 is compared
\* unsigned.  Without a limit this needs a fffile_size() that does not fail.
ReadFits ==
  \A p \in Procs : Returned(p, "read", "ok") =>
    Unnoticed(p) \/ (Len(got[p]) = size[p] /\ size[p] <= limit[p])
=============================================================================
