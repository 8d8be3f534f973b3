----------------------------- MODULE SharedFile -----------------------------
(***************************************************************************)
(* Threads that read and write a file through one descriptor               *)
(* (ffsys/file.h): calls that use and move the descriptor's position, and  *)
(* calls that are given an offset.  A byte is written or read at a time.   *)
(***************************************************************************)
EXTENDS Sequences, Integers, FiniteSets

CONSTANTS
  FdUsers, \* threads
  MaxOps   \* how many calls each makes

ASSUME FdAssumption == IsFiniteSet(FdUsers) /\ MaxOps \in Nat

VARIABLES
  fdsys, \* "unix", "windows"
  many,  \* whether there is more than one thread
  pos,   \* the descriptor's position
  len,   \* how long the file is
  fdpc,  \* what a thread does next: "idle", "seek", "end", "restore"
  saved, \* the position and length in fffile_trunc()
  ops,   \* how many calls it has made
  wrote, \* where fffile_write() has written, and how often
  moved  \* a call with an offset has moved the position

fdVars == <<fdsys, many, pos, len, fdpc, saved, ops, wrote, moved>>

MaxLen == MaxOps * Cardinality(FdUsers) + 2

FdInit ==
  /\ fdsys \in {"unix", "windows"} /\ many \in BOOLEAN
  /\ pos = 0 /\ len = 0 /\ fdpc = [t \in FdUsers |-> "idle"]
  /\ saved = [t \in FdUsers |-> <<0, 0>>] /\ ops = [t \in FdUsers |-> 0]
  /\ wrote = <<{}, 0>> /\ moved = FALSE

FdTypeOK ==
  /\ pos \in 0..MaxLen /\ len \in 0..MaxLen /\ moved \in BOOLEAN
  /\ fdpc \in [FdUsers -> {"idle", "seek", "end", "restore"}] /\ ops \in [FdUsers -> 0..MaxOps]

\* How long the file is with a byte at an offset.
Put(off) == IF off < len THEN len ELSE off + 1

Calls(t) ==
  /\ fdpc[t] = "idle" /\ ops[t] < MaxOps
  /\ many \/ \A u \in FdUsers \ {t} : ops[u] = 0
  /\ ops' = [ops EXCEPT ![t] = @ + 1]

-----------------------------------------------------------------------------
\* fffile_write(), fffile_read()
FdWrite(t) ==
  /\ Calls(t) /\ len' = Put(pos) /\ pos' = pos + 1
  /\ wrote' = <<wrote[1] \cup {pos}, wrote[2] + 1>>
  /\ UNCHANGED <<fdsys, many, fdpc, saved, moved>>
FdRead(t) ==
  /\ Calls(t) /\ pos < len /\ pos' = pos + 1
  /\ UNCHANGED <<fdsys, many, len, fdpc, saved, wrote, moved>>

\* fffile_writeat(), fffile_readat(): Windows moves the position behind the byte.
MovedTo(off) ==
  /\ pos' = IF fdsys = "windows" THEN off + 1 ELSE pos
  /\ moved' = (moved \/ fdsys = "windows")
FdWriteat(t, off) ==
  /\ Calls(t) /\ len' = Put(off) /\ MovedTo(off)
  /\ UNCHANGED <<fdsys, many, fdpc, saved, wrote>>
FdReadat(t, off) ==
  /\ Calls(t)
  /\ IF off < len THEN MovedTo(off) ELSE UNCHANGED <<pos, moved>>
  /\ UNCHANGED <<fdsys, many, len, fdpc, saved, wrote>>

\* fffile_trunc(): ftruncate(), or a seek there, SetEndOfFile() and a seek back (which the
\* mutant leaves out).
FdTruncUnix(t, n) ==
  /\ fdsys = "unix" /\ Calls(t) /\ len' = n
  /\ UNCHANGED <<fdsys, many, pos, fdpc, saved, wrote, moved>>
FdTruncWindows(t, n) ==
  /\ fdsys = "windows" /\ Calls(t)
  /\ fdpc' = [fdpc EXCEPT ![t] = "seek"] /\ saved' = [saved EXCEPT ![t] = <<pos, n>>]
  /\ UNCHANGED <<fdsys, many, pos, len, wrote, moved>>
FdTruncSeek(t) ==
  /\ fdpc[t] = "seek" /\ fdpc' = [fdpc EXCEPT ![t] = "end"]
  /\ pos' = saved[t][2]
  /\ UNCHANGED <<fdsys, many, len, saved, ops, wrote, moved>>
FdTruncEnd(t) ==
  /\ fdpc[t] = "end" /\ fdpc' = [fdpc EXCEPT ![t] = "restore"]
  /\ len' = pos
  /\ UNCHANGED <<fdsys, many, pos, saved, ops, wrote, moved>>
RestoredNot(t) == pos
Restored(t) == saved[t][1]
FdTruncRestore(t) ==
  /\ fdpc[t] = "restore" /\ fdpc' = [fdpc EXCEPT ![t] = "idle"]
  /\ pos' = Restored(t) /\ saved' = [saved EXCEPT ![t] = <<0, 0>>]
  /\ UNCHANGED <<fdsys, many, len, ops, wrote, moved>>

FdStep(t) ==
  \/ FdWrite(t) \/ FdRead(t)
  \/ \E n \in {0, 2} : FdTruncUnix(t, n) \/ FdTruncWindows(t, n) \/ FdWriteat(t, n) \/ FdReadat(t, n)
  \/ FdTruncSeek(t) \/ FdTruncEnd(t) \/ FdTruncRestore(t)

-----------------------------------------------------------------------------
\* fffile_write() never overwrites what an earlier one wrote, whoever truncates the file or
\* writes at an offset meanwhile.  On Windows a thread is safe only alone, and until it
\* gives an offset.
WritesDontOverlap ==
  fdsys = "unix" \/ (~many /\ ~moved) => Cardinality(wrote[1]) = wrote[2]
=============================================================================
