---------------------------- MODULE FilesProofs ----------------------------
(***************************************************************************)
(* Theorems about what processes share by name: semaphores, a descriptor,  *)
(* files that are saved, read, removed or temporary, directories that are  *)
(* made, scanned or watched, and the expansion of a text; for every number *)
(* of processes and of their calls, on Windows and UNIX.                   *)
(***************************************************************************)
EXTENDS Files, TLAPS, FiniteSetTheorems, SequenceTheorems, WellFoundedInduction

-----------------------------------------------------------------------------
(* Semaphores. *)

\* A user's state and his handle.
NsUserInv(u) ==
  /\ asks[u] \in {"open", "create", "new", "unnamed"} /\ hold[u] \in 0..SemCount
  /\ hold[u] = 0 <=> user[u] \in {"closed", "creating", "gone"}
  /\ user[u] = "creating" => asks[u] # "unnamed"
  /\ user[u] = "unlinking" => asks[u] = "unnamed"

\* Who has a handle of the semaphore that has the name: until the name is unlinked, all who
\* have opened it by the name, and never one who has opened an unnamed semaphore.
NsNameInv ==
  /\ ~unlinked => \A u \in SemUsers :
       asks[u] # "unnamed" /\ hold[u] # 0 => hold[u] = named["name"]
  /\ \A u \in SemUsers : asks[u] = "unnamed" /\ hold[u] # 0 => hold[u] # named["name"]

\* A semaphore's unit is there or has one owner, or its owner has died with it.
NsOwnerInv ==
  /\ \A u \in SemUsers : user[u] = "owner" => units[hold[u]] = 0
  /\ \A u, v \in SemUsers :
       user[u] = "owner" /\ user[v] = "owner" /\ hold[u] = hold[v] => u = v

NsInv ==
  /\ NsTypeOK /\ SemCount \in Nat
  /\ asks \in [SemUsers -> {"open", "create", "new", "unnamed"}]
  /\ hold \in [SemUsers -> 0..SemCount] /\ unlinked \in BOOLEAN
  /\ \A u \in SemUsers : NsUserInv(u)
  /\ NsNameInv /\ NsOwnerInv /\ UnnamedIsPrivate

\* The semaphores are numbered from 1 on.
LEMMA SemNumbers ==
  ASSUME NsInv
  PROVE  units \in [1..SemCount -> 0..1] /\ named \in [SemNames -> 0..SemCount]
BY DEF NsInv, NsTypeOK

\* A handle of the semaphore that has the name.
LEMMA UseSemInv ==
  ASSUME NsInv, NEW u \in SemUsers, user[u] \in {"closed", "creating"}, asks[u] # "unnamed",
         named["name"] # 0, UseSem(u, "name", "open")
  PROVE  NsInv'
<1>1. units' = units /\ named' = named /\ asks' = asks /\ unlinked' = unlinked /\ SemCount' = SemCount
  BY DEF UseSem, SemCount
<1>2. /\ user' = [user EXCEPT ![u] = "open"] /\ hold' = [hold EXCEPT ![u] = named["name"]]
      /\ named["name"] \in 1..SemCount
  BY SemNumbers DEF UseSem, UserIs, SemNames, NsInv
<1>3. NsTypeOK' /\ hold' \in [SemUsers -> 0..SemCount]
  BY <1>1, <1>2 DEF NsInv, NsTypeOK
<1>4. \A v \in SemUsers : NsUserInv(v)'
  BY <1>1, <1>2 DEF NsInv, NsTypeOK, NsUserInv
<1>5. NsNameInv'
  BY <1>1, <1>2 DEF NsInv, NsNameInv
<1>6. NsOwnerInv'
  BY <1>1, <1>2 DEF NsInv, NsTypeOK, NsOwnerInv
<1>7. UnnamedIsPrivate'
  BY <1>1, <1>2 DEF NsInv, NsNameInv, UnnamedIsPrivate
<1> QED BY <1>1, <1>3, <1>4, <1>5, <1>6, <1>7 DEF NsInv

\* A new semaphore, which no one has a handle of.
LEMMA NewSemInv ==
  ASSUME NsInv, NEW u \in SemUsers, user[u] \in {"closed", "creating"},
         NEW n, NEW next, NewSem(u, n, next),
         \/ asks[u] = "unnamed" /\ n # "name" /\ next \in {"open", "unlinking"}
         \/ asks[u] # "unnamed" /\ n = "name" /\ next = "open" /\ named["name"] = 0
  PROVE  NsInv'
<1> DEFINE o == SemCount + 1
<1>1. /\ asks' = asks /\ unlinked' = unlinked
      /\ user' = [user EXCEPT ![u] = next] /\ hold' = [hold EXCEPT ![u] = o]
      /\ units' = [k \in 1..o |-> IF k = o THEN 1 ELSE units[k]]
      /\ named' = [m \in SemNames |-> IF m = n THEN o ELSE named[m]]
  BY DEF NewSem, UserIs
<1>2. SemCount \in Nat /\ o \in Nat /\ o = SemCount + 1
  BY DEF NsInv
<1> HIDE DEF o
<1>3. SemCount' = o
  <2>1. DOMAIN units' = 1..o
    BY <1>1
  <2>2. Cardinality(1..o) = o
    BY <1>2, FS_Interval
  <2>3. SemCount' = Cardinality(DOMAIN units')
    BY DEF SemCount
  <2> QED BY <2>1, <2>2, <2>3, Zenon
<1>4. NsTypeOK' /\ hold' \in [SemUsers -> 0..o]
  <2>1. units' \in [1..o -> 0..1] /\ named' \in [SemNames -> 0..o]
    BY <1>1, <1>2, SemNumbers
  <2> QED BY <1>1, <1>2, <1>3, <2>1 DEF NsInv, NsTypeOK
<1>5. \A v \in SemUsers : NsUserInv(v)'
  BY <1>1, <1>2, <1>3 DEF NsInv, NsTypeOK, NsUserInv
<1>6. NsNameInv'
  BY <1>1, <1>2, SemNumbers DEF NsInv, NsNameInv, SemNames
<1>7. NsOwnerInv'
  <2>1. ASSUME NEW v \in SemUsers, user'[v] = "owner"
        PROVE  user[v] = "owner" /\ hold'[v] = hold[v] /\ hold[v] \in 1..SemCount
               /\ units'[hold[v]] = units[hold[v]]
    <3>1. next # "owner" /\ user[v] = "owner" /\ v # u
      BY <2>1, <1>1 DEF NsInv, NsTypeOK
    <3>2. hold'[v] = hold[v] /\ hold[v] \in 1..SemCount
      BY <3>1, <1>1, <1>2 DEF NsInv, NsUserInv
    <3> QED BY <3>1, <3>2, <1>1, <1>2
  <2> QED BY <2>1 DEF NsInv, NsOwnerInv
<1>8. UnnamedIsPrivate'
  BY <1>1, <1>2 DEF NsInv, UnnamedIsPrivate
<1> QED BY <1>1, <1>2, <1>3, <1>4, <1>5, <1>6, <1>7, <1>8 DEF NsInv

\* ffsem_open() fails.
LEMMA OpenGivesNullInv ==
  ASSUME NsInv, NEW u \in SemUsers, user[u] \in {"closed", "creating"}, OpenGivesNull(u)
  PROVE  NsInv'
<1>1. /\ user' = [user EXCEPT ![u] = "gone"]
      /\ UNCHANGED <<named, units, asks, hold, unlinked>> /\ SemCount' = SemCount
  BY DEF OpenGivesNull, UserIs, SemCount
<1> QED
  BY <1>1 DEF NsInv, NsTypeOK, NsUserInv, NsNameInv, NsOwnerInv, UnnamedIsPrivate

\* ffsem_open(): no two users share what is unnamed, all share what has the name.
LEMMA SemOpenInv ==
  ASSUME NsInv, NEW u \in SemUsers,
         SemOpenLinux(u) \/ SemOpenMac(u) \/ SemOpenWindows(u) \/ SemCreateWindows(u)
  PROVE  NsInv'
<1>1. CASE SemOpenLinux(u)
  BY <1>1, UseSemInv, NewSemInv, OpenGivesNullInv DEF SemOpenLinux, PosixOpen
<1>2. CASE SemOpenMac(u)
  BY <1>2, UseSemInv, NewSemInv, OpenGivesNullInv DEF SemOpenMac, PosixOpen, Unnamed, Temporary
<1>3. CASE SemOpenWindows(u)
  <2>1. CASE UserIs(u, "creating") /\ UNCHANGED <<platform, named, units, asks, hold, unlinked>>
             /\ asks[u] # "unnamed"
    <3>1. SemCount' = SemCount
      BY <2>1 DEF SemCount
    <3> QED
      BY <1>3, <2>1, <3>1 DEF SemOpenWindows, UserIs, NsInv, NsTypeOK, NsUserInv, NsNameInv,
         NsOwnerInv, UnnamedIsPrivate
  <2> QED BY <1>3, <2>1, UseSemInv, NewSemInv, OpenGivesNullInv DEF SemOpenWindows
<1>4. CASE SemCreateWindows(u)
  <2>1. asks[u] # "unnamed" /\ user[u] = "creating"
    BY <1>4 DEF SemCreateWindows, NsInv, NsUserInv
  <2> QED BY <1>4, <2>1, UseSemInv, NewSemInv DEF SemCreateWindows
<1> QED BY <1>1, <1>2, <1>3, <1>4

\* macOS: only an unnamed semaphore's own name is unlinked.
LEMMA SemUnlinkMacInv ==
  ASSUME NsInv, NEW u \in SemUsers, SemUnlinkMac(u)
  PROVE  NsInv'
<1>1. /\ user[u] = "unlinking" /\ asks[u] = "unnamed" /\ user' = [user EXCEPT ![u] = "open"]
      /\ named' = [named EXCEPT !["pid"] = 0]
      /\ UNCHANGED <<units, asks, hold, unlinked>> /\ SemCount' = SemCount
  BY DEF SemUnlinkMac, UserIs, SemCount, NsInv, NsUserInv
<1>2. named'["name"] = named["name"] /\ NsTypeOK'
  BY <1>1 DEF NsInv, NsTypeOK, SemNames
<1> QED
  BY <1>1, <1>2 DEF NsInv, NsTypeOK, NsUserInv, NsNameInv, NsOwnerInv, UnnamedIsPrivate

\* ffsem_wait(), ffsem_post()
LEMMA SemTurnInv ==
  ASSUME NsInv, NEW u \in SemUsers, SemTake(u) \/ SemGive(u)
  PROVE  NsInv'
<1>1. /\ UNCHANGED <<named, asks, hold, unlinked>>
      /\ user[u] \in {"open", "owner"} /\ hold[u] \in 1..SemCount
      /\ units[hold[u]] \in 0..1
  BY SemNumbers DEF SemTake, SemGive, NsInv, NsUserInv
<1>2. SemCount' = SemCount
  BY DEF SemTake, SemGive, SemCount
<1>3. NsTypeOK'
  <2>1. units' \in [1..SemCount -> 0..1]
    <3>1. CASE SemTake(u)
      BY <1>1, <3>1, SemNumbers DEF SemTake
    <3>2. CASE SemGive(u)
      BY <1>1, <3>2, SemNumbers DEF SemGive, NsInv, NsOwnerInv
    <3> QED BY <3>1, <3>2
  <2> QED BY <1>1, <1>2, <2>1 DEF SemTake, SemGive, UserIs, NsInv, NsTypeOK
<1>4. NsOwnerInv'
  <2>1. CASE SemTake(u)
    BY <1>1, <2>1, SemNumbers DEF SemTake, UserIs, NsInv, NsTypeOK, NsOwnerInv
  <2>2. CASE SemGive(u)
    BY <1>1, <2>2, SemNumbers DEF SemGive, UserIs, NsInv, NsTypeOK, NsOwnerInv
  <2> QED BY <2>1, <2>2
<1>5. \A v \in SemUsers : NsUserInv(v)'
  BY <1>1, <1>2 DEF SemTake, SemGive, UserIs, NsInv, NsTypeOK, NsUserInv
<1> QED BY <1>1, <1>2, <1>3, <1>4, <1>5 DEF NsInv, NsNameInv, UnnamedIsPrivate

\* ffsem_close(), or the process dies.  Windows: the name goes with the last handle.
LEMMA SemLeaveInv ==
  ASSUME NsInv, NEW u \in SemUsers, SemLeave(u)
  PROVE  NsInv'
<1>1. /\ user' = [user EXCEPT ![u] = "gone"] /\ hold' = [hold EXCEPT ![u] = 0]
      /\ UNCHANGED <<units, asks, unlinked>> /\ SemCount' = SemCount
  BY DEF SemLeave, UserIs, SemCount
<1>2. \/ named' = named
      \/ /\ named' = [named EXCEPT !["name"] = 0]
         /\ \A v \in SemUsers \ {u} : hold[v] # named["name"]
  BY DEF SemLeave
<1>3. NsTypeOK'
  BY <1>1, <1>2 DEF NsInv, NsTypeOK, SemNames
<1>4. NsNameInv'
  BY <1>1, <1>2, SemNumbers DEF NsInv, NsNameInv, SemNames
<1> QED
  BY <1>1, <1>3, <1>4 DEF NsInv, NsTypeOK, NsUserInv, NsOwnerInv, UnnamedIsPrivate

\* ffsem_unlink()
LEMMA SemUnlinkInv ==
  ASSUME NsInv, NEW u \in SemUsers, SemUnlink(u)
  PROVE  NsInv'
<1>1. /\ named' = [named EXCEPT !["name"] = 0] /\ unlinked' = TRUE
      /\ UNCHANGED <<units, asks, user, hold>> /\ SemCount' = SemCount
  BY DEF SemUnlink, SemCount
<1>2. NsTypeOK'
  BY <1>1 DEF NsInv, NsTypeOK, SemNames
<1>3. NsNameInv'
  BY <1>1, SemNumbers DEF NsInv, NsNameInv, SemNames
<1> QED BY <1>1, <1>2, <1>3 DEF NsInv, NsUserInv, NsOwnerInv, UnnamedIsPrivate

LEMMA NsStepInv ==
  ASSUME NsInv, NEW u \in SemUsers, NsStep(u)
  PROVE  NsInv'
BY SemOpenInv, SemUnlinkMacInv, SemTurnInv, SemLeaveInv, SemUnlinkInv DEF NsStep

LEMMA NsUnchanged == ASSUME NsInv, UNCHANGED nsVars PROVE NsInv'
BY DEF NsInv, nsVars, NsTypeOK, SemCount, NsUserInv, NsNameInv, NsOwnerInv, UnnamedIsPrivate

LEMMA NsInitInv == NsInit => NsInv
<1> SUFFICES ASSUME NsInit PROVE NsInv
  OBVIOUS
<1>1. DOMAIN units = {} /\ SemCount = 0
  <2>1. DOMAIN units = {}
    <3>1. units = <<>> /\ <<>> \in Seq({}) /\ Len(<<>>) = 0
      BY DEF NsInit
    <3>2. DOMAIN units = 1..0
      BY <3>1
    <3>3. 1..0 = {}
      OBVIOUS
    <3> QED BY <3>2, <3>3, Zenon
  <2>2. Cardinality({}) = 0
    BY FS_EmptySet
  <2> QED BY <2>1, <2>2, Zenon DEF SemCount
<1>2. NsTypeOK
  <2>1. units \in [1..0 -> 0..1]
    <3>1. units = <<>> /\ <<>> \in Seq(0..1) /\ Len(<<>>) = 0
      BY DEF NsInit
    <3>2. units \in [1..Len(units) -> 0..1]
      BY <3>1
    <3> QED BY <3>1, <3>2
  <2>2. 1..SemCount = 1..0 /\ named \in [SemNames -> 0..SemCount]
    BY <1>1 DEF NsInit
  <2>3. units \in [1..SemCount -> 0..1]
    BY <2>1, <2>2, Zenon
  <2>4. user \in [SemUsers -> {"closed", "creating", "unlinking", "open", "owner", "gone"}]
    BY DEF NsInit
  <2> QED BY <2>2, <2>3, <2>4 DEF NsTypeOK
<1>3. /\ asks \in [SemUsers -> {"open", "create", "new", "unnamed"}]
      /\ hold \in [SemUsers -> 0..SemCount] /\ \A u \in SemUsers : NsUserInv(u)
  BY <1>1 DEF NsInit, NsUserInv
<1>4. NsNameInv /\ NsOwnerInv /\ UnnamedIsPrivate
  BY DEF NsInit, NsNameInv, NsOwnerInv, UnnamedIsPrivate
<1>5. SemCount \in Nat /\ unlinked \in BOOLEAN
  BY <1>1 DEF NsInit
<1> QED BY <1>2, <1>3, <1>4, <1>5 DEF NsInv

\* What the invariant says of owners, counted.
LEMMA NsExclusion == NsInv => SemaphoresExclude
<1> SUFFICES ASSUME NsInv PROVE SemaphoresExclude
  OBVIOUS
<1> DEFINE Owners == {u \in SemUsers : user[u] = "owner" /\ asks[u] # "unnamed"}
<1>1. ASSUME ~unlinked PROVE Cardinality(Owners) <= 1
  <2>1. \A u, v \in Owners : u = v
    BY <1>1 DEF NsInv, NsUserInv, NsNameInv, NsOwnerInv
  <2> HIDE DEF Owners
  <2>2. CASE Owners = {}
    BY <2>2, FS_EmptySet
  <2>3. ASSUME NEW u \in Owners PROVE Cardinality(Owners) <= 1
    <3>1. Owners = {u}
      BY <2>1
    <3>2. Cardinality({u}) = 1
      BY FS_Singleton
    <3> QED BY <3>1, <3>2
  <2>4. Owners # {} => \E u \in Owners : TRUE
    BY Zenon
  <2> QED BY <2>2, <2>3, <2>4
<1>2. OneOwner
  BY <1>1, Zenon DEF OneOwner
<1> QED BY <1>2 DEF SemaphoresExclude, NsInv

-----------------------------------------------------------------------------
(* Threads that use one descriptor. *)

\* The calls that were made: how far the position and the length can have come.
CallsMade == {c \in FdUsers \X (1..MaxOps) : c[2] <= ops[c[1]]}

FdShapeInv ==
  /\ fdsys \in {"unix", "windows"} /\ many \in BOOLEAN /\ moved \in BOOLEAN
  /\ pos \in Nat /\ len \in Nat /\ ops \in [FdUsers -> 0..MaxOps]
  /\ fdpc \in [FdUsers -> {"idle", "seek", "end", "restore"}]
  /\ saved \in [FdUsers -> Nat \X Nat]
  /\ wrote \in (SUBSET Nat) \X Nat /\ IsFiniteSet(wrote[1])

FdBoundInv ==
  /\ pos <= Cardinality(CallsMade) + 2 /\ len <= Cardinality(CallsMade) + 2
  /\ \A t \in FdUsers : saved[t][1] <= Cardinality(CallsMade) + 2 /\ saved[t][2] <= 2

\* Only Windows truncates in steps, and a thread that is alone is not disturbed.
FdAloneInv ==
  /\ \A t \in FdUsers : fdpc[t] # "idle" => fdsys = "windows" /\ ops[t] > 0
  /\ ~many => \A t, u \in FdUsers : ops[t] > 0 /\ ops[u] > 0 => t = u

Undisturbed == fdsys = "unix" \/ (~many /\ ~moved)

\* All that was written is before the position, or before the one that a thread in
\* fffile_trunc() will come back to.
FdWroteInv ==
  Undisturbed =>
    /\ Cardinality(wrote[1]) = wrote[2]
    /\ \A t \in FdUsers : fdpc[t] = "seek" => saved[t][1] = pos
    /\ \A t \in FdUsers : fdpc[t] \in {"end", "restore"} => \A x \in wrote[1] : x < saved[t][1]
    /\ (\A t \in FdUsers : fdpc[t] \in {"idle", "seek"}) => \A x \in wrote[1] : x < pos

FdInv == FdShapeInv /\ FdBoundInv /\ FdAloneInv /\ FdWroteInv

\* There are finitely many calls.
LEMMA CallsMadeFinite ==
  /\ IsFiniteSet(CallsMade) /\ Cardinality(CallsMade) \in Nat /\ MaxLen \in Nat
  /\ Cardinality(CallsMade) + 2 <= MaxLen
<1>1. IsFiniteSet(1..MaxOps) /\ Cardinality(1..MaxOps) = MaxOps
  BY FdAssumption, FS_Interval
<1>2. IsFiniteSet(FdUsers) /\ Cardinality(FdUsers) \in Nat
  BY FdAssumption, FS_CardinalityType
<1>3. /\ IsFiniteSet(FdUsers \X (1..MaxOps))
      /\ Cardinality(FdUsers \X (1..MaxOps)) = Cardinality(FdUsers) * Cardinality(1..MaxOps)
  BY <1>1, <1>2, FS_Product
<1>4. CallsMade \in SUBSET (FdUsers \X (1..MaxOps))
  BY DEF CallsMade
<1>5. /\ IsFiniteSet(CallsMade) /\ Cardinality(CallsMade) \in Nat
      /\ Cardinality(CallsMade) <= Cardinality(FdUsers \X (1..MaxOps))
  BY <1>3, <1>4, FS_Subset, FS_CardinalityType
<1>6. Cardinality(FdUsers) * MaxOps = MaxOps * Cardinality(FdUsers)
      /\ MaxOps * Cardinality(FdUsers) \in Nat
  BY <1>2, FdAssumption, Z3
<1> QED BY <1>1, <1>3, <1>5, <1>6 DEF MaxLen

\* A call is one more call, and finds all other threads idle when it must not be disturbed.
LEMMA CallsOne ==
  ASSUME FdInv, NEW t \in FdUsers, Calls(t)
  PROVE  /\ Cardinality(CallsMade)' = Cardinality(CallsMade) + 1
         /\ ops' \in [FdUsers -> 0..MaxOps] /\ ops'[t] > 0 /\ fdpc[t] = "idle"
         /\ \A u \in FdUsers : u # t => ops'[u] = ops[u]
         /\ ~many => \A u, v \in FdUsers : ops'[u] > 0 /\ ops'[v] > 0 => u = v
         /\ Undisturbed => \A u \in FdUsers : fdpc[u] = "idle"
<1> DEFINE c == <<t, ops[t] + 1>>
<1>1. ops[t] \in 0..MaxOps /\ ops[t] < MaxOps /\ ops' = [ops EXCEPT ![t] = @ + 1]
      /\ MaxOps \in Nat
  BY FdAssumption DEF Calls, FdInv, FdShapeInv
<1>2. c \notin CallsMade
  BY <1>1 DEF CallsMade
<1>3. CallsMade' = CallsMade \cup {c}
  <2>1. ASSUME NEW x \in FdUsers \X (1..MaxOps)
        PROVE  x[2] <= ops'[x[1]] <=> x[2] <= ops[x[1]] \/ x = c
    <3>1. x[1] \in FdUsers /\ x[2] \in 1..MaxOps /\ x = <<x[1], x[2]>> /\ ops[x[1]] \in 0..MaxOps
      BY DEF FdInv, FdShapeInv
    <3>2. CASE x[1] = t
      <4>1. ops'[t] = ops[t] + 1
        BY <1>1 DEF FdInv, FdShapeInv
      <4>2. x = c <=> x[2] = ops[t] + 1
        BY <3>1, <3>2
      <4> HIDE DEF c
      <4> QED BY <1>1, <3>1, <3>2, <4>1, <4>2
    <3>3. CASE x[1] # t
      BY <1>1, <3>1, <3>3 DEF FdInv, FdShapeInv
    <3> QED BY <3>2, <3>3
  <2>2. c \in FdUsers \X (1..MaxOps)
    BY <1>1
  <2> HIDE DEF c
  <2> QED BY <2>1, <2>2 DEF CallsMade
<1> HIDE DEF c
<1>4. Cardinality(CallsMade') = Cardinality(CallsMade) + 1
  BY <1>2, <1>3, CallsMadeFinite, FS_AddElement
<1>5. /\ ops' \in [FdUsers -> 0..MaxOps] /\ ops'[t] > 0
      /\ \A u \in FdUsers : u # t => ops'[u] = ops[u]
  BY <1>1 DEF FdInv, FdShapeInv
<1>6. ~many => \A u \in FdUsers : u # t => ops[u] = 0
  BY DEF Calls
<1>7. ~many => \A u, v \in FdUsers : ops'[u] > 0 /\ ops'[v] > 0 => u = v
  BY <1>5, <1>6
<1>8. Undisturbed => \A u \in FdUsers : fdpc[u] = "idle"
  BY <1>6 DEF Undisturbed, FdInv, FdAloneInv, Calls
<1> QED BY <1>4, <1>5, <1>7, <1>8 DEF Calls

\* fffile_write(): at the position, where nothing was written before.
LEMMA FdWriteInv == ASSUME FdInv, NEW t \in FdUsers, FdWrite(t) PROVE FdInv'
<1>1. /\ len' = Put(pos) /\ pos' = pos + 1 /\ wrote' = <<wrote[1] \cup {pos}, wrote[2] + 1>>
      /\ UNCHANGED <<fdsys, many, fdpc, saved, moved>> /\ Calls(t)
  BY DEF FdWrite
<1>2. FdShapeInv'
  <2>1. wrote[1] \in SUBSET Nat /\ wrote[2] \in Nat /\ IsFiniteSet(wrote[1])
    BY DEF FdInv, FdShapeInv
  <2>2. IsFiniteSet(wrote[1] \cup {pos})
    BY <2>1, FS_AddElement
  <2>3. wrote' \in (SUBSET Nat) \X Nat /\ IsFiniteSet(wrote'[1])
    BY <1>1, <2>1, <2>2 DEF FdInv, FdShapeInv
  <2> QED BY <1>1, <2>3, CallsOne DEF FdInv, FdShapeInv, Put
<1>3. FdBoundInv'
  BY <1>1, CallsOne, CallsMadeFinite DEF FdInv, FdShapeInv, FdBoundInv, Put
<1>4. FdAloneInv'
  BY <1>1, CallsOne DEF FdInv, FdAloneInv
<1>5. FdWroteInv'
  <2> SUFFICES ASSUME Undisturbed' PROVE
        /\ Cardinality(wrote'[1]) = wrote'[2]
        /\ \A u \in FdUsers : fdpc'[u] = "idle"
        /\ \A x \in wrote'[1] : x < pos'
    BY DEF FdWroteInv
  <2>1. Undisturbed
    BY <1>1 DEF Undisturbed
  <2>2. \A u \in FdUsers : fdpc[u] = "idle"
    BY <1>1, <2>1, CallsOne
  <2>3. Cardinality(wrote[1]) = wrote[2] /\ \A x \in wrote[1] : x < pos
    BY <2>1, <2>2 DEF FdInv, FdWroteInv
  <2>4. wrote[1] \in SUBSET Nat /\ wrote[2] \in Nat /\ IsFiniteSet(wrote[1]) /\ pos \in Nat
    BY DEF FdInv, FdShapeInv
  <2>5. pos \notin wrote[1]
    BY <2>3, <2>4
  <2>6. Cardinality(wrote[1] \cup {pos}) = wrote[2] + 1
    BY <2>3, <2>4, <2>5, FS_AddElement
  <2>7. wrote'[1] = wrote[1] \cup {pos} /\ wrote'[2] = wrote[2] + 1
    BY <1>1
  <2>8. \A x \in wrote'[1] : x < pos'
    BY <1>1, <2>3, <2>4, <2>7
  <2> QED BY <1>1, <2>2, <2>6, <2>7, <2>8
<1> QED BY <1>2, <1>3, <1>4, <1>5 DEF FdInv

\* fffile_read(), and the calls with an offset: on UNIX they leave the position alone.
LEMMA FdCallInv ==
  ASSUME FdInv, NEW t \in FdUsers,
         FdRead(t) \/ \E n \in {0, 2} : FdWriteat(t, n) \/ FdReadat(t, n) \/ FdTruncUnix(t, n)
  PROVE  FdInv'
<1>1. Calls(t) /\ UNCHANGED <<fdsys, many, fdpc, saved, wrote>>
  BY DEF FdRead, FdWriteat, FdReadat, FdTruncUnix
<1>2. /\ pos' \in Nat /\ len' \in Nat /\ moved' \in BOOLEAN
      /\ pos' <= pos + 1 \/ pos' <= 3
      /\ len' <= len \/ len' <= 3
      /\ (fdsys = "unix" \/ ~moved') => pos' \in {pos, pos + 1}
      /\ ~moved' => ~moved
  <2>1. pos \in Nat /\ len \in Nat /\ moved \in BOOLEAN /\ fdsys \in {"unix", "windows"}
    BY DEF FdInv, FdShapeInv
  <2>2. CASE FdRead(t)
    BY <2>1, <2>2 DEF FdRead
  <2>3. ASSUME NEW n \in {0, 2}, FdWriteat(t, n) PROVE <1>2!:
    <3>1. moved' \in BOOLEAN /\ (~moved' => ~moved /\ fdsys # "windows")
      BY <2>1, <2>3, Zenon DEF FdWriteat, MovedTo
    <3>2. pos' = IF fdsys = "windows" THEN n + 1 ELSE pos
      BY <2>3 DEF FdWriteat, MovedTo
    <3>3. len' \in Nat /\ (len' <= len \/ len' <= 3)
      BY <2>1, <2>3 DEF FdWriteat, Put
    <3> QED BY <2>1, <3>1, <3>2, <3>3
  <2>4. ASSUME NEW n \in {0, 2}, FdReadat(t, n) PROVE <1>2!:
    <3>1. moved' \in BOOLEAN /\ (~moved' => ~moved)
      BY <2>1, <2>4, Zenon DEF FdReadat, MovedTo
    <3>2. CASE n < len
      <4>1. ~moved' => fdsys # "windows"
        BY <2>4, <3>2, Zenon DEF FdReadat, MovedTo
      <4>2. pos' = (IF fdsys = "windows" THEN n + 1 ELSE pos) /\ len' = len
        BY <2>4, <3>2 DEF FdReadat, MovedTo
      <4> QED BY <2>1, <3>1, <4>1, <4>2
    <3>3. CASE ~(n < len)
      BY <2>1, <2>4, <3>1, <3>3 DEF FdReadat
    <3> QED BY <3>2, <3>3
  <2>5. ASSUME NEW n \in {0, 2}, FdTruncUnix(t, n) PROVE <1>2!:
    BY <2>1, <2>5 DEF FdTruncUnix
  <2> QED BY <2>2, <2>3, <2>4, <2>5
<1>3. FdShapeInv'
  BY <1>1, <1>2, CallsOne DEF FdInv, FdShapeInv
<1>4. FdBoundInv'
  BY <1>1, <1>2, CallsOne, CallsMadeFinite DEF FdInv, FdShapeInv, FdBoundInv
<1>5. FdAloneInv'
  BY <1>1, CallsOne DEF FdInv, FdAloneInv
<1>6. FdWroteInv'
  <2> SUFFICES ASSUME Undisturbed' PROVE
        /\ Cardinality(wrote'[1]) = wrote'[2]
        /\ \A u \in FdUsers : fdpc'[u] = "idle"
        /\ \A x \in wrote'[1] : x < pos'
    BY DEF FdWroteInv
  <2>1. Undisturbed /\ pos' \in {pos, pos + 1}
    BY <1>1, <1>2 DEF Undisturbed
  <2>2. \A u \in FdUsers : fdpc[u] = "idle"
    BY <1>1, <2>1, CallsOne
  <2>3. Cardinality(wrote[1]) = wrote[2] /\ \A x \in wrote[1] : x < pos
    BY <2>1, <2>2 DEF FdInv, FdWroteInv
  <2> QED BY <1>1, <2>1, <2>2, <2>3 DEF FdInv, FdShapeInv
<1> QED BY <1>3, <1>4, <1>5, <1>6 DEF FdInv

\* fffile_trunc() on Windows: the position is saved,
LEMMA FdTruncWindowsInv ==
  ASSUME FdInv, NEW t \in FdUsers, NEW n \in {0, 2}, FdTruncWindows(t, n)
  PROVE  FdInv'
<1>1. /\ Calls(t) /\ UNCHANGED <<fdsys, many, pos, len, wrote, moved>> /\ fdsys = "windows"
      /\ fdpc' = [fdpc EXCEPT ![t] = "seek"] /\ saved' = [saved EXCEPT ![t] = <<pos, n>>]
  BY DEF FdTruncWindows
<1>2. FdShapeInv'
  BY <1>1, CallsOne DEF FdInv, FdShapeInv
<1>3. FdBoundInv'
  BY <1>1, CallsOne, CallsMadeFinite DEF FdInv, FdShapeInv, FdBoundInv
<1>4. FdAloneInv'
  BY <1>1, CallsOne DEF FdInv, FdShapeInv, FdAloneInv
<1>5. FdWroteInv'
  BY <1>1, CallsOne DEF FdInv, FdShapeInv, FdWroteInv, Undisturbed
<1> QED BY <1>2, <1>3, <1>4, <1>5 DEF FdInv

\* moved, the end of the file set there, and moved back.
LEMMA FdTruncStepsInv ==
  ASSUME FdInv, NEW t \in FdUsers, FdTruncSeek(t) \/ FdTruncEnd(t) \/ FdTruncRestore(t)
  PROVE  FdInv'
<1>1. /\ UNCHANGED <<fdsys, many, ops, wrote, moved>> /\ fdpc[t] # "idle"
      /\ CallsMade' = CallsMade /\ saved[t] \in Nat \X Nat
  BY DEF FdTruncSeek, FdTruncEnd, FdTruncRestore, CallsMade, FdInv, FdShapeInv
<1>2. FdShapeInv'
  BY <1>1, SMTT(30) DEF FdInv, FdShapeInv, FdTruncSeek, FdTruncEnd, FdTruncRestore, Restored
<1>3. FdBoundInv'
  BY <1>1, CallsMadeFinite
  DEF FdInv, FdShapeInv, FdBoundInv, FdTruncSeek, FdTruncEnd, FdTruncRestore, Restored
<1>4. FdAloneInv'
  BY <1>1 DEF FdInv, FdShapeInv, FdAloneInv, FdTruncSeek, FdTruncEnd, FdTruncRestore
<1>5. FdWroteInv'
  <2> SUFFICES ASSUME Undisturbed' PROVE FdWroteInv'
    BY DEF FdWroteInv
  <2>1. Undisturbed /\ \A u \in FdUsers : u # t => fdpc[u] = "idle"
    BY <1>1 DEF Undisturbed, FdInv, FdAloneInv
  <2>2. CASE FdTruncSeek(t)
    BY <1>1, <2>1, <2>2 DEF FdTruncSeek, FdInv, FdShapeInv, FdWroteInv
  <2>3. CASE FdTruncEnd(t)
    BY <1>1, <2>1, <2>3 DEF FdTruncEnd, FdInv, FdShapeInv, FdWroteInv
  <2>4. CASE FdTruncRestore(t)
    BY <1>1, <2>1, <2>4 DEF FdTruncRestore, Restored, FdInv, FdShapeInv, FdWroteInv
  <2> QED BY <2>2, <2>3, <2>4
<1> QED BY <1>2, <1>3, <1>4, <1>5 DEF FdInv

LEMMA FdStepInv ==
  ASSUME FdInv, NEW t \in FdUsers, FdStep(t)
  PROVE  FdInv'
BY FdWriteInv, FdCallInv, FdTruncWindowsInv, FdTruncStepsInv DEF FdStep

LEMMA FdUnchanged == ASSUME FdInv, UNCHANGED fdVars PROVE FdInv'
BY DEF FdInv, fdVars, FdShapeInv, FdBoundInv, CallsMade, FdAloneInv, FdWroteInv, Undisturbed

LEMMA FdInitInv == FdInit => FdInv
<1> SUFFICES ASSUME FdInit PROVE FdInv
  OBVIOUS
<1>1. wrote[1] = {} /\ wrote[2] = 0 /\ IsFiniteSet({}) /\ Cardinality({}) = 0
  BY FS_EmptySet DEF FdInit
<1>2. FdShapeInv
  <2>1. wrote \in (SUBSET Nat) \X Nat /\ IsFiniteSet(wrote[1])
    BY <1>1 DEF FdInit
  <2>2. saved \in [FdUsers -> Nat \X Nat] /\ ops \in [FdUsers -> 0..MaxOps]
    BY FdAssumption DEF FdInit
  <2> QED BY <2>1, <2>2 DEF FdInit, FdShapeInv
<1>3. FdBoundInv
  BY CallsMadeFinite DEF FdInit, FdBoundInv
<1>4. FdAloneInv
  BY DEF FdInit, FdAloneInv
<1>5. FdWroteInv
  BY <1>1 DEF FdInit, FdWroteInv
<1> QED BY <1>2, <1>3, <1>4, <1>5 DEF FdInv

-----------------------------------------------------------------------------
(* Files.  The inductive invariant in parts. *)

\* The calls that have come past fffile_open(): no more files than these were created.
OpensDone ==
  {c \in Procs \X (1..MaxCalls) :
     /\ c[2] <= calls[c[1]]
     /\ c[2] = calls[c[1]] => pc[c[1]] \notin {"open", "open2"}}

Writers == Procs \cup {Old}

\* Types; files that are not created yet are empty.
FileShapeInv ==
  /\ FileTypeOK /\ sys \in {"unix", "windows"} /\ kinds \subseteq Kinds
  /\ data \in [Inodes -> Seq(Writers)] /\ got \in [Procs -> Seq(Writers)]
  /\ \A i \in Inodes : Len(data[i]) <= 2 /\ (i > used => data[i] = <<>>)
  /\ \A n \in FileNames : ino[n] <= used
  /\ \A p \in Procs : obj[p] <= used

\* Which calls are at which step, and when they have a file open.
PcInv(p) ==
  /\ call[p] \in kinds \cup {"none"}
  /\ pc[p] # "idle" => calls[p] > 0
  /\ pc[p] \in {"open", "open2"} => call[p] \in {"put", "save", "read", "temp"} /\ obj[p] = None
  /\ pc[p] = "open2" => call[p] = "put"
  /\ pc[p] = "write" => call[p] \in {"put", "save"}
  /\ pc[p] = "close" => call[p] \in {"put", "save", "read"} /\ ret[p] # "none"
  /\ pc[p] = "rename" => call[p] = "save"
  /\ pc[p] = "remove" => call[p] \in {"put", "save", "remove"}
  /\ pc[p] \in {"size", "read"} => call[p] = "read"
  /\ pc[p] \in {"unlink", "use"} => call[p] = "temp"
  /\ pc[p] = "unlink" => sys = "unix"
  /\ pc[p] \in {"write", "close", "rename", "size", "read", "unlink", "use"} => obj[p] # None
  /\ pc[p] = "remove" /\ call[p] # "remove" => obj[p] # None

\* The process whose file has the temporary name.
TmpOwner(p) ==
  /\ call[p] \in {"save", "temp"}
  /\ pc[p] \in {"write", "close", "rename", "remove", "unlink"} \/ (pc[p] = "use" /\ sys = "windows")

\* The temporary name is its owner's until he gives it up, because FFFILE_CREATENEW fails
\* for others; whoever has the file by its other name has another one.
TmpInv ==
  /\ ino["tmp"] # None => ino["tmp"] # ino["file"]
  /\ \A p \in Procs : TmpOwner(p) => ino["tmp"] = obj[p]
  /\ \A p, q \in Procs : TmpOwner(p) /\ TmpOwner(q) => p = q
  /\ \A p \in Procs : call[p] \in {"put", "read"} /\ obj[p] # None => obj[p] # ino["tmp"]

\* A temporary file is never renamed or opened by others.
TempInv(p) ==
  call[p] = "temp" /\ obj[p] # None =>
    /\ ino["file"] # obj[p]
    /\ \A q \in Procs : q # p => obj[q] # obj[p]
    /\ data[obj[p]] \in {<<>>, <<p>>}
    /\ pc[p] \in {"unlink", "use"} => data[obj[p]] = <<>>

\* When only "save" gives the file its contents: what is renamed is whole.
SaveInv(p) ==
  kinds = Safe /\ call[p] = "save" =>
    /\ pc[p] = "write" => data[obj[p]] = <<>>
    /\ pc[p] = "close" /\ ret[p] = "ok" => data[obj[p]] = <<p, p>>
    /\ pc[p] = "rename" => data[obj[p]] = <<p, p>>
NameInv == kinds = Safe => ino["file"] # None /\ data[ino["file"]] \in Whole

\* The reader's size is within the limit, and what he has is as long as that; unless there is
\* no limit and no size.
ReadInv(p) ==
  call[p] = "read" =>
    /\ kinds = Safe /\ obj[p] # None => data[obj[p]] \in Whole
    /\ pc[p] = "read" => Unnoticed(p) \/ (size[p] <= limit[p] /\ size[p] < MaxSize /\ (kinds = Safe => size[p] = 2))
    /\ pc[p] \in {"close", "idle"} /\ ret[p] = "ok" =>
         Unnoticed(p) \/ (Len(got[p]) = size[p] /\ size[p] <= limit[p] /\ (kinds = Safe => got[p] \in Whole))

\* What could not be written has lost its name.
CleanInv(p) ==
  call[p] \in {"put", "save"} /\ pc[p] = "idle" /\ ret[p] = "error" /\ obj[p] # None =>
    \A n \in FileNames : ino[n] # obj[p]

FileInv ==
  /\ FileShapeInv /\ used <= 1 + Cardinality(OpensDone) /\ TmpInv /\ NameInv
  /\ \A p \in Procs : PcInv(p) /\ TempInv(p) /\ SaveInv(p) /\ ReadInv(p) /\ CleanInv(p)

\* Files are numbered.
LEMMA FileNumbers ==
  ASSUME FileInv
  PROVE  /\ used \in Nat /\ used > 0 /\ used \in Inodes
         /\ \A i \in Inodes : i \in Nat /\ i > 0
         /\ \A p \in Procs : obj[p] \in Nat
         /\ \A n \in FileNames : ino[n] \in Nat
<1>1. \A i \in Inodes : i \in Nat /\ i > 0
  BY DEF Inodes
<1> QED BY <1>1 DEF FileInv, FileShapeInv, FileTypeOK, None

\* There are enough files for all calls.
LEMMA OpensFinite ==
  /\ IsFiniteSet(OpensDone) /\ Cardinality(OpensDone) \in Nat
  /\ Cardinality(OpensDone) <= MaxCalls * Cardinality(Procs)
  /\ MaxCalls * Cardinality(Procs) \in Nat
  /\ IsFiniteSet(Procs \X (1..MaxCalls))
  /\ Cardinality(Procs \X (1..MaxCalls)) = MaxCalls * Cardinality(Procs)
<1>1. IsFiniteSet(1..MaxCalls) /\ Cardinality(1..MaxCalls) = MaxCalls
  BY ProcsAssumption, FS_Interval
<1>2. IsFiniteSet(Procs) /\ Cardinality(Procs) \in Nat
  BY ProcsAssumption, FS_CardinalityType
<1>3. /\ IsFiniteSet(Procs \X (1..MaxCalls))
      /\ Cardinality(Procs \X (1..MaxCalls)) = Cardinality(Procs) * Cardinality(1..MaxCalls)
  BY <1>1, <1>2, FS_Product
<1>4. OpensDone \in SUBSET (Procs \X (1..MaxCalls))
  BY DEF OpensDone
<1>5. /\ IsFiniteSet(OpensDone) /\ Cardinality(OpensDone) \in Nat
      /\ Cardinality(OpensDone) <= Cardinality(Procs \X (1..MaxCalls))
  BY <1>3, <1>4, FS_Subset, FS_CardinalityType
<1>6. Cardinality(Procs) * MaxCalls = MaxCalls * Cardinality(Procs)
      /\ MaxCalls * Cardinality(Procs) \in Nat
  BY <1>2, ProcsAssumption, Z3
<1> QED BY <1>1, <1>3, <1>5, <1>6

\* A call that is made, or that goes on, takes no file away from the others.
LEMMA OpensGrow ==
  ASSUME FileInv, NEW p \in Procs,
         \A q \in Procs : q # p => pc'[q] = pc[q] /\ calls'[q] = calls[q],
         \/ calls'[p] = calls[p] /\ (pc'[p] \in {"open", "open2"} => pc[p] \in {"open", "open2"})
         \/ calls'[p] = calls[p] + 1 /\ pc[p] \notin {"open", "open2"}
  PROVE  used <= 1 + Cardinality(OpensDone)'
<1>1. \A q \in Procs : calls[q] \in Nat
  BY ProcsAssumption DEF FileInv, FileShapeInv, FileTypeOK
<1>2. OpensDone \in SUBSET OpensDone'
  BY <1>1 DEF OpensDone
<1>3. IsFiniteSet(OpensDone')
  <2>1. OpensDone' \in SUBSET (Procs \X (1..MaxCalls))
    BY DEF OpensDone
  <2> QED BY <2>1, OpensFinite, FS_Subset
<1>4. Cardinality(OpensDone) <= Cardinality(OpensDone') /\ Cardinality(OpensDone') \in Nat
  BY <1>2, <1>3, FS_Subset, FS_CardinalityType
<1> QED BY <1>4, OpensFinite, FileNumbers DEF FileInv

\* A process past fffile_open() that was not: one file more.
LEMMA OpensOne ==
  ASSUME FileInv, NEW p \in Procs, pc[p] \in {"open", "open2"}, calls' = calls,
         pc'[p] \notin {"open", "open2"}, \A q \in Procs : q # p => pc'[q] = pc[q]
  PROVE  /\ Cardinality(OpensDone') = Cardinality(OpensDone) + 1
         /\ Cardinality(OpensDone) + 1 <= MaxCalls * Cardinality(Procs)
<1> DEFINE c == <<p, calls[p]>>
<1>1. calls[p] \in 1..MaxCalls /\ \A q \in Procs : calls[q] \in 0..MaxCalls
  <2>1. \A q \in Procs : calls[q] \in 0..MaxCalls
    BY DEF FileInv, FileShapeInv, FileTypeOK
  <2>2. calls[p] > 0
    BY DEF FileInv, PcInv
  <2> QED BY <2>1, <2>2, ProcsAssumption
<1>2. c \notin OpensDone
  BY <1>1 DEF OpensDone
<1>3. c \in Procs \X (1..MaxCalls)
  BY <1>1
<1>4. OpensDone' = OpensDone \cup {c}
  <2>1. ASSUME NEW x \in Procs \X (1..MaxCalls)
        PROVE  x \in OpensDone' <=> x \in OpensDone \/ x = c
    <3>1. x[1] \in Procs /\ x[2] \in 1..MaxCalls /\ x = <<x[1], x[2]>>
      OBVIOUS
    <3>2. x = c <=> x[1] = p /\ x[2] = calls[p]
      BY <3>1
    <3> HIDE DEF c
    <3> QED BY <1>1, <3>1, <3>2 DEF OpensDone
  <2> HIDE DEF c
  <2> QED BY <1>3, <2>1 DEF OpensDone
<1> HIDE DEF c
<1>5. Cardinality(OpensDone') = Cardinality(OpensDone) + 1
  BY <1>2, <1>4, OpensFinite, FS_AddElement
<1>6. OpensDone' \in SUBSET (Procs \X (1..MaxCalls))
  BY DEF OpensDone
<1>7. Cardinality(OpensDone') <= MaxCalls * Cardinality(Procs)
  BY <1>6, OpensFinite, FS_Subset
<1> QED BY <1>5, <1>7

\* The processes whose file others must leave alone.
Guarded(q) ==
  obj[q] # None /\ (call[q] = "temp" \/ (kinds = Safe /\ (call[q] = "read" \/ TmpOwner(q))))

\* A process is not disturbed by another one's step that does not write to such a file, and
\* gives a name only to files that have one, or to new ones.
LEMMA OthersKeep ==
  ASSUME FileInv, NEW p \in Procs, NEW q \in Procs, q # p, UNCHANGED <<sys, kinds>>,
         /\ pc'[q] = pc[q] /\ call'[q] = call[q] /\ calls'[q] = calls[q] /\ obj'[q] = obj[q]
         /\ limit'[q] = limit[q] /\ size'[q] = size[q] /\ got'[q] = got[q] /\ ret'[q] = ret[q],
         \A r \in Procs : r # p => obj'[r] = obj[r],
         Guarded(q) => data'[obj[q]] = data[obj[q]],
         call[q] = "temp" /\ obj[q] # None => ino'["file"] # obj[q] /\ obj'[p] # obj[q],
         \A n \in FileNames : ino'[n] = None \/ ino'[n] > used \/ \E m \in FileNames : ino'[n] = ino[m]
  PROVE  PcInv(q)' /\ TempInv(q)' /\ SaveInv(q)' /\ ReadInv(q)' /\ CleanInv(q)'
<1>1. PcInv(q) /\ TempInv(q) /\ SaveInv(q) /\ ReadInv(q) /\ CleanInv(q)
  BY DEF FileInv
<1>2. PcInv(q)'
  BY <1>1 DEF PcInv
<1>3. TempInv(q)'
  BY <1>1 DEF TempInv, Guarded
<1>4. SaveInv(q)'
  BY <1>1 DEF SaveInv, PcInv, Guarded, TmpOwner
<1>5. ReadInv(q)'
  BY <1>1 DEF ReadInv, Unnoticed, Guarded, Whole
<1>6. CleanInv(q)'
  <2>1. used \in Nat /\ obj[q] \in Nat /\ obj[q] <= used
    BY DEF FileInv, FileShapeInv, FileTypeOK, Inodes, None
  <2> QED BY <1>1, <2>1 DEF CleanInv, None
<1> QED BY <1>2, <1>3, <1>4, <1>5, <1>6

\* A step that only concerns the process itself.
LEMMA LocalStep ==
  ASSUME FileInv, NEW p \in Procs, UNCHANGED <<sys, kinds, ino, data, used>>,
         \A q \in Procs : q # p =>
           /\ pc'[q] = pc[q] /\ call'[q] = call[q] /\ calls'[q] = calls[q] /\ obj'[q] = obj[q]
           /\ limit'[q] = limit[q] /\ size'[q] = size[q] /\ got'[q] = got[q] /\ ret'[q] = ret[q],
         obj'[p] \in {obj[p], None}
  PROVE  /\ \A q \in Procs : q # p => PcInv(q)' /\ TempInv(q)' /\ SaveInv(q)' /\ ReadInv(q)' /\ CleanInv(q)'
         /\ NameInv'
<1>1. ASSUME NEW q \in Procs, q # p
      PROVE  PcInv(q)' /\ TempInv(q)' /\ SaveInv(q)' /\ ReadInv(q)' /\ CleanInv(q)'
  <2>1. call[q] = "temp" /\ obj[q] # None => ino'["file"] # obj[q] /\ obj'[p] # obj[q]
    <3>1. TempInv(q)
      BY DEF FileInv
    <3> QED BY <1>1, <3>1 DEF TempInv
  <2> QED BY <1>1, <2>1, OthersKeep
<1>2. NameInv'
  BY DEF FileInv, NameInv, Whole
<1> QED BY <1>1, <1>2

\* A call begins.
LEMMA CallInv == ASSUME FileInv, NEW p \in Procs, NEW k \in Kinds, Call(p, k) PROVE FileInv'
<1>1. FileShapeInv'
  BY FileNumbers, ProcsAssumption, SizeAssumption, SMTT(30)
  DEF FileInv, FileShapeInv, FileTypeOK, Call, Goto, Result, None
<1>2. used' <= 1 + Cardinality(OpensDone)'
  <2>1. used' = used /\ pc[p] = "idle" /\ calls'[p] = calls[p] + 1
        /\ \A q \in Procs : q # p => pc'[q] = pc[q] /\ calls'[q] = calls[q]
    BY DEF FileInv, FileShapeInv, FileTypeOK, Call, Goto
  <2> QED BY <2>1, OpensGrow
<1>3. TmpInv'
  BY SMTT(30) DEF FileInv, FileShapeInv, FileTypeOK, TmpInv, TmpOwner, Call, Goto
<1>4. PcInv(p)' /\ TempInv(p)' /\ SaveInv(p)' /\ ReadInv(p)' /\ CleanInv(p)'
  BY ProcsAssumption DEF FileInv, FileShapeInv, FileTypeOK, PcInv, TempInv, SaveInv, ReadInv,
     CleanInv, Call, Goto, Result, Kinds
<1>5. /\ \A q \in Procs : q # p => PcInv(q)' /\ TempInv(q)' /\ SaveInv(q)' /\ ReadInv(q)' /\ CleanInv(q)'
      /\ NameInv'
  BY LocalStep DEF FileInv, FileShapeInv, FileTypeOK, Call, Goto, Result
<1> QED BY <1>1, <1>2, <1>3, <1>4, <1>5 DEF FileInv

\* What a step of p leaves of the others.
OthersInv(p) ==
  \A q \in Procs : q # p => PcInv(q) /\ TempInv(q) /\ SaveInv(q) /\ ReadInv(q) /\ CleanInv(q)

\* fffile_open() fails.
LEMMA OpenFailsInv ==
  ASSUME FileInv, NEW p \in Procs, pc[p] \in {"open", "open2"}, NEW creation, NEW next,
         next = "idle" \/ (next = "open2" /\ call[p] = "put"), OpenFails(p, creation, next)
  PROVE  FileInv'
<1>1. /\ UNCHANGED <<sys, kinds, ino, data, used, call, calls, obj, limit, size, got>>
      /\ pc' = [pc EXCEPT ![p] = next]
      /\ ret' = [ret EXCEPT ![p] = IF next = "idle" THEN "error" ELSE "none"]
  BY DEF OpenFails, Goto, Result
<1>2. PcInv(p) /\ TempInv(p)
  BY DEF FileInv
<1>3. FileShapeInv'
  BY <1>1 DEF FileInv, FileShapeInv, FileTypeOK
<1>4. used' <= 1 + Cardinality(OpensDone)'
  BY <1>1, OpensGrow DEF FileInv, FileShapeInv, FileTypeOK
<1>5. TmpInv'
  BY <1>1, <1>2, SMTT(30) DEF FileInv, FileShapeInv, FileTypeOK, TmpInv, TmpOwner, PcInv
<1>6. PcInv(p)' /\ TempInv(p)' /\ SaveInv(p)' /\ ReadInv(p)' /\ CleanInv(p)'
  BY <1>1, <1>2 DEF FileInv, FileShapeInv, FileTypeOK, PcInv, TempInv, SaveInv, ReadInv, CleanInv
<1>7. OthersInv(p)' /\ NameInv'
  BY <1>1, LocalStep DEF FileInv, FileShapeInv, FileTypeOK, OthersInv
<1> QED BY <1>3, <1>4, <1>5, <1>6, <1>7 DEF FileInv, OthersInv

\* fffile_open() of the file that has the name; only "put" empties it.
LEMMA OpenFoundInv ==
  ASSUME FileInv, NEW p \in Procs, pc[p] \in {"open", "open2"}, call[p] \in {"put", "read"},
         ino["file"] # None, ino' = ino, used' = used,
         data' = data \/ (call[p] = "put" /\ data' = [data EXCEPT ![ino["file"]] = <<>>]),
         obj' = [obj EXCEPT ![p] = ino["file"]],
         pc' = [pc EXCEPT ![p] = IF call[p] = "read" THEN "size" ELSE "write"],
         pc[p] = "open2" => call[p] = "put",
         UNCHANGED <<sys, kinds, call, calls, limit, size, got, ret>>
  PROVE  FileInv'
<1>1. PcInv(p) /\ call[p] \in kinds
  BY DEF FileInv, PcInv
<1>2. ino["file"] \in Inodes /\ ino["file"] <= used
  BY DEF FileInv, FileShapeInv, FileTypeOK, FileNames
<1>3. FileShapeInv'
  <2>1. /\ data' \in [Inodes -> Seq(Writers)]
        /\ \A i \in Inodes : Len(data'[i]) <= 2 /\ (i > used => data'[i] = <<>>)
    <3>1. /\ data \in [Inodes -> Seq(Writers)]
          /\ \A i \in Inodes : Len(data[i]) <= 2 /\ (i > used => data[i] = <<>>)
      BY DEF FileInv, FileShapeInv
    <3>2. <<>> \in Seq(Writers) /\ Len(<<>>) = 0
      OBVIOUS
    <3>3. \A i \in Inodes : i > used => i # ino["file"]
      BY <1>2, FileNumbers
    <3>4. CASE data' = data
      BY <3>1, <3>4
    <3>5. CASE data' = [data EXCEPT ![ino["file"]] = <<>>]
      <4>1. \A i \in Inodes : data'[i] = IF i = ino["file"] THEN <<>> ELSE data[i]
        BY <3>1, <3>5
      <4>2. data' \in [Inodes -> Seq(Writers)]
        BY <3>1, <3>2, <3>5
      <4> QED BY <3>1, <3>2, <3>3, <4>1, <4>2
    <3> QED BY <3>4, <3>5
  <2>2. \A i \in Inodes : Len(data'[i]) <= 3
    BY <2>1
  <2> QED BY <1>2, <2>1, <2>2 DEF FileInv, FileShapeInv, FileTypeOK
<1>4. used' <= 1 + Cardinality(OpensDone)'
  BY OpensGrow DEF FileInv, FileShapeInv, FileTypeOK
<1>5. TmpInv'
  BY <1>2, SMTT(30) DEF FileInv, FileShapeInv, FileTypeOK, TmpInv, TmpOwner
<1>6. kinds = Safe => call[p] # "put"
  BY <1>1 DEF Safe
<1>7. PcInv(p)' /\ TempInv(p)' /\ SaveInv(p)' /\ ReadInv(p)' /\ CleanInv(p)'
  BY <1>1, <1>6 DEF FileInv, FileShapeInv, FileTypeOK, PcInv, TempInv, SaveInv, ReadInv, CleanInv,
     NameInv, Whole
<1>8. OthersInv(p)'
  <2>1. ASSUME NEW q \in Procs, q # p
        PROVE  /\ Guarded(q) => data'[obj[q]] = data[obj[q]]
               /\ call[q] = "temp" /\ obj[q] # None => ino'["file"] # obj[q] /\ obj'[p] # obj[q]
    <3>1. TempInv(q) /\ obj[q] \in Inodes \cup {None}
      BY DEF FileInv, FileShapeInv, FileTypeOK
    <3> QED BY <1>2, <1>6, <2>1, <3>1 DEF TempInv, Guarded, FileInv, FileShapeInv, FileTypeOK
  <2> QED BY <2>1, OthersKeep DEF OthersInv, FileInv, FileShapeInv, FileTypeOK
<1>9. NameInv'
  BY <1>6 DEF FileInv, NameInv, Whole
<1> QED BY <1>3, <1>4, <1>5, <1>7, <1>8, <1>9 DEF FileInv, OthersInv

\* fffile_open() that creates a file: no one else has it.
LEMMA OpenNewInv ==
  ASSUME FileInv, NEW p \in Procs, pc[p] \in {"open", "open2"}, call[p] \in {"put", "save", "temp"},
         ino[NameOf(p)] = None, ino' = [ino EXCEPT ![NameOf(p)] = used + 1], used' = used + 1,
         data' = data, obj' = [obj EXCEPT ![p] = used + 1],
         pc' = [pc EXCEPT ![p] = IF call[p] # "temp" THEN "write"
                                 ELSE IF sys = "unix" THEN "unlink" ELSE "use"],
         UNCHANGED <<sys, kinds, call, calls, limit, size, got, ret>>
  PROVE  FileInv'
<1>1. PcInv(p) /\ call[p] \in kinds
  BY DEF FileInv, PcInv
<1>2. /\ Cardinality(OpensDone') = Cardinality(OpensDone) + 1
      /\ Cardinality(OpensDone) + 1 <= MaxCalls * Cardinality(Procs)
  BY OpensOne DEF FileInv, FileShapeInv, FileTypeOK
<1>3. used + 1 \in Inodes
  BY <1>2, FileNumbers, OpensFinite DEF Inodes, FileInv
<1>4. /\ used \in Nat /\ \A q \in Procs : obj[q] \in Nat /\ obj[q] <= used /\ obj[q] # used + 1
      /\ \A n \in FileNames : ino[n] \in Nat /\ ino[n] <= used /\ ino[n] # used + 1
      /\ data[used + 1] = <<>>
  BY <1>3, FileNumbers DEF FileInv, FileShapeInv
<1>5. NameOf(p) \in FileNames /\ NameOf(p) = IF call[p] = "put" THEN "file" ELSE "tmp"
  BY DEF NameOf, FileNames
<1>6. FileShapeInv'
  <2>1. /\ ino' \in [FileNames -> Inodes \cup {None}] /\ \A n \in FileNames : ino'[n] <= used + 1
        /\ obj' \in [Procs -> Inodes \cup {None}] /\ \A q \in Procs : obj'[q] <= used + 1
    BY <1>3, <1>4, <1>5 DEF FileInv, FileShapeInv, FileTypeOK
  <2>2. \A i \in Inodes : Len(data'[i]) <= 2 /\ (i > used + 1 => data'[i] = <<>>)
    BY <1>4, FileNumbers DEF FileInv, FileShapeInv
  <2> QED BY <1>3, <2>1, <2>2 DEF FileInv, FileShapeInv, FileTypeOK
<1>7. used' <= 1 + Cardinality(OpensDone)'
  BY <1>2, <1>4, OpensFinite DEF FileInv
<1>8. ino'["file"] # ino'["tmp"] \/ ino'["tmp"] = None
  BY <1>4, <1>5 DEF FileInv, FileShapeInv, FileTypeOK, FileNames, TmpInv
<1>9. TmpInv'
  <2>1. \A q \in Procs : q # p => TmpOwner(q)' = TmpOwner(q) /\ obj'[q] = obj[q]
    BY DEF TmpOwner, FileInv, FileShapeInv, FileTypeOK
  <2>2. obj'[p] = used + 1
    BY DEF FileInv, FileShapeInv, FileTypeOK
  <2>3. \A q \in Procs : TmpOwner(q) => obj[q] # None /\ ino["tmp"] = obj[q]
    BY DEF TmpOwner, FileInv, PcInv, TmpInv
  <2>4. CASE call[p] = "put"
    <3>1. ~TmpOwner(p)' /\ ~TmpOwner(p) /\ ino'["tmp"] = ino["tmp"]
      BY <2>4, <1>5 DEF TmpOwner, FileInv, FileShapeInv, FileTypeOK
    <3>2. \A q \in Procs : TmpOwner(q)' => ino'["tmp"] = obj'[q]
      BY <2>1, <2>3, <3>1
    <3>3. \A q, r \in Procs : TmpOwner(q)' /\ TmpOwner(r)' => q = r
      BY <2>1, <3>1 DEF FileInv, TmpInv
    <3>4. \A q \in Procs : call'[q] \in {"put", "read"} /\ obj'[q] # None => obj'[q] # ino'["tmp"]
      BY <1>4, <2>1, <2>2, <3>1 DEF FileInv, TmpInv, FileNames
    <3> QED BY <1>8, <3>2, <3>3, <3>4 DEF TmpInv
  <2>5. CASE call[p] # "put"
    <3>1. ino'["tmp"] = used + 1 /\ ino["tmp"] = None
      BY <2>5, <1>5 DEF FileInv, FileShapeInv, FileTypeOK, FileNames
    <3>2. \A q \in Procs : q # p => ~TmpOwner(q)'
      BY <2>1, <2>3, <3>1
    <3>3. \A q \in Procs : TmpOwner(q)' => ino'["tmp"] = obj'[q]
      BY <2>2, <3>1, <3>2
    <3>4. \A q \in Procs : call'[q] \in {"put", "read"} /\ obj'[q] # None => obj'[q] # ino'["tmp"]
      BY <1>4, <2>1, <2>5, <3>1
    <3> QED BY <1>8, <3>2, <3>3, <3>4 DEF TmpInv
  <2> QED BY <2>4, <2>5
<1>10. kinds = Safe => call[p] # "put" /\ ino'["file"] = ino["file"]
  BY <1>1, <1>5 DEF Safe, FileInv, FileShapeInv, FileTypeOK, FileNames
<1>11. PcInv(p)' /\ SaveInv(p)' /\ ReadInv(p)' /\ CleanInv(p)'
  BY <1>1, <1>4 DEF FileInv, FileShapeInv, FileTypeOK, PcInv, SaveInv, ReadInv, CleanInv, None
<1>12. TempInv(p)'
  <2>1. CASE call[p] = "temp"
    <3>1. obj'[p] = used + 1 /\ ino'["file"] = ino["file"] /\ \A q \in Procs : q # p => obj'[q] = obj[q]
      BY <2>1, <1>5 DEF FileInv, FileShapeInv, FileTypeOK, FileNames
    <3> QED BY <1>4, <3>1 DEF TempInv, FileNames
  <2> QED BY <2>1 DEF TempInv
<1>13. OthersInv(p)'
  <2>1. ASSUME NEW q \in Procs, q # p
        PROVE  call[q] = "temp" /\ obj[q] # None => ino'["file"] # obj[q] /\ obj'[p] # obj[q]
    <3>1. TempInv(q)
      BY DEF FileInv
    <3> QED BY <1>4, <1>5, <2>1, <3>1 DEF TempInv, FileNames, FileInv, FileShapeInv, FileTypeOK
  <2>2. \A n \in FileNames : ino'[n] > used \/ ino'[n] = ino[n]
    BY <1>4, <1>5 DEF FileInv, FileShapeInv, FileTypeOK
  <2> QED BY <2>1, <2>2, OthersKeep DEF OthersInv, FileInv, FileShapeInv, FileTypeOK
<1>14. NameInv'
  BY <1>10 DEF FileInv, NameInv, Whole
<1> QED BY <1>6, <1>7, <1>9, <1>11, <1>12, <1>13, <1>14 DEF FileInv, OthersInv

\* One open() or CreateFile() that succeeds.
LEMMA OpensInv ==
  ASSUME FileInv, NEW p \in Procs, pc[p] \in {"open", "open2"}, NEW creation, NEW trunc \in BOOLEAN,
         creation # "new" => call[p] \in {"put", "read"}, trunc => call[p] = "put",
         call[p] = "read" => creation = "open", Opens(p, creation, trunc)
  PROVE  FileInv'
<1>1. call[p] \in {"put", "save", "read", "temp"} /\ (pc[p] = "open2" => call[p] = "put")
  BY DEF FileInv, PcInv
<1>2. CASE Found(p, creation)
  <2>1. call[p] \in {"put", "read"} /\ NameOf(p) = "file" /\ ino["file"] # None
    BY <1>2 DEF Found, NameOf
  <2>2. /\ ino' = ino /\ used' = used /\ obj' = [obj EXCEPT ![p] = ino["file"]]
        /\ data' = IF trunc THEN [data EXCEPT ![ino["file"]] = <<>>] ELSE data
    BY <1>2, <2>1 DEF Opens, FileInv, FileShapeInv, FileTypeOK
  <2>3. /\ pc' = [pc EXCEPT ![p] = IF call[p] = "read" THEN "size" ELSE "write"]
        /\ UNCHANGED <<sys, kinds, call, calls, limit, size, got, ret>>
    BY <2>1 DEF Opens, Goto
  <2> QED BY <1>1, <2>1, <2>2, <2>3, OpenFoundInv
<1>3. CASE ~Found(p, creation)
  <2>1. MakesNew(p, creation) /\ ino[NameOf(p)] = None /\ call[p] \in {"put", "save", "temp"}
    BY <1>1, <1>3 DEF Opens, MakesNew
  <2>2. /\ ino' = [ino EXCEPT ![NameOf(p)] = used + 1] /\ used' = used + 1
        /\ obj' = [obj EXCEPT ![p] = used + 1]
        /\ data' = IF trunc THEN [data EXCEPT ![used + 1] = <<>>] ELSE data
    BY <1>3 DEF Opens
  <2>3. data' = data
    BY <2>2, FileNumbers DEF FileInv, FileShapeInv
  <2>4. /\ pc' = [pc EXCEPT ![p] = IF call[p] # "temp" THEN "write"
                                   ELSE IF sys = "unix" THEN "unlink" ELSE "use"]
        /\ UNCHANGED <<sys, kinds, call, calls, limit, size, got, ret>>
    BY <2>1 DEF Opens, Goto
  <2> QED BY <2>1, <2>2, <2>3, <2>4, OpenNewInv
<1> QED BY <1>2, <1>3

\* fffile_open() on UNIX and Windows.
LEMMA OpenInv ==
  ASSUME FileInv, NEW p \in Procs, OpenUnix(p) \/ OpenWindows(p) \/ OpenAgain(p)
  PROVE  FileInv'
<1>1. PcInv(p)
  BY DEF FileInv
<1>2. CASE OpenUnix(p)
  BY <1>1, <1>2, OpensInv, OpenFailsInv DEF OpenUnix, PcInv, Creation, Truncates
<1>3. CASE OpenWindows(p)
  BY <1>1, <1>3, OpensInv, OpenFailsInv DEF OpenWindows, PcInv, Creation, Truncates
<1>4. CASE OpenAgain(p)
  BY <1>1, <1>4, OpensInv, OpenFailsInv DEF OpenAgain, PcInv
<1> QED BY <1>2, <1>3, <1>4

\* Bytes that are written over a file of at most two bytes.
LEMMA OverlaySeq ==
  ASSUME NEW W, NEW d \in Seq(W), Len(d) <= 2, NEW s \in Seq(W), Len(s) <= 2
  PROVE  /\ s \o SubSeq(d, Len(s) + 1, Len(d)) \in Seq(W)
         /\ Len(s \o SubSeq(d, Len(s) + 1, Len(d))) <= 2
         /\ d = <<>> => s \o SubSeq(d, Len(s) + 1, Len(d)) = s
<1> DEFINE t == SubSeq(d, Len(s) + 1, Len(d))
<1>1. Len(d) \in Nat /\ Len(s) \in Nat
  OBVIOUS
<1>2. t \in Seq(W) /\ Len(t) = IF Len(s) + 1 <= Len(d) THEN Len(d) - Len(s) ELSE 0
  BY <1>1
<1> HIDE DEF t
<1>3. s \o t \in Seq(W) /\ Len(s \o t) = Len(s) + Len(t)
  BY <1>2
<1>4. Len(s) + Len(t) <= 2
  BY <1>1, <1>2
<1>5. ASSUME d = <<>> PROVE s \o t = s
  <2>1. Len(t) = 0
    BY <1>1, <1>2, <1>5
  <2>2. t = <<>>
    BY <1>2, <2>1
  <2> QED BY <2>2
<1> QED BY <1>3, <1>4, <1>5 DEF t

\* What is left after a write: no more than two bytes; all are the writer's when there were none.
LEMMA OverlayFits ==
  ASSUME FileInv, NEW p \in Procs, NEW i \in Inodes, NEW s \in {<<>>, <<p>>, <<p, p>>}
  PROVE  /\ Overlay(i, s) \in Seq(Writers) /\ Len(Overlay(i, s)) <= 2
         /\ Len(s) = 2 /\ data[i] = <<>> => Overlay(i, s) = <<p, p>>
<1>1. data[i] \in Seq(Writers) /\ Len(data[i]) <= 2
  BY DEF FileInv, FileShapeInv
<1>2. s \in Seq(Writers) /\ Len(s) <= 2 /\ (Len(s) = 2 => s = <<p, p>>)
  <2>1. p \in Writers
    BY DEF Writers
  <2>2. CASE s = <<>>
    BY <2>2
  <2>3. CASE s = <<p>>
    BY <2>1, <2>3
  <2>4. CASE s = <<p, p>>
    BY <2>1, <2>4
  <2> QED BY <2>2, <2>3, <2>4
<1> QED BY <1>1, <1>2, OverlaySeq DEF Overlay

\* fffile_write() of the whole data or of a part.
LEMMA WriteInv ==
  ASSUME FileInv, NEW p \in Procs, NEW s \in {<<>>, <<p>>, <<p, p>>}, Write(p, s)
  PROVE  FileInv'
<1>1. /\ UNCHANGED <<sys, kinds, ino, used, call, calls, obj, limit, size, got>> /\ pc[p] = "write"
      /\ pc' = [pc EXCEPT ![p] = "close"] /\ ret' = [ret EXCEPT ![p] = Written(s)]
      /\ data' = [data EXCEPT ![obj[p]] = Overlay(obj[p], s)]
  BY DEF Write, Goto, Result
<1>2. PcInv(p) /\ TempInv(p) /\ SaveInv(p) /\ ReadInv(p) /\ CleanInv(p)
  BY DEF FileInv
<1>3. obj[p] \in Inodes /\ obj[p] <= used /\ call[p] \in {"put", "save"} /\ call[p] \in kinds
  BY <1>1, <1>2 DEF PcInv, FileInv, FileShapeInv, FileTypeOK
<1>4. Written(s) \in {"ok", "error"} /\ (Written(s) = "ok" => Len(s) = 2)
  BY DEF Written
<1>5. /\ data' \in [Inodes -> Seq(Writers)]
      /\ \A i \in Inodes : data'[i] = IF i = obj[p] THEN Overlay(obj[p], s) ELSE data[i]
  BY <1>1, <1>3, OverlayFits DEF FileInv, FileShapeInv
<1>6. \A i \in Inodes : Len(data'[i]) <= 2 /\ (i > used => data'[i] = <<>>)
  <2>1. \A i \in Inodes : Len(data[i]) <= 2 /\ (i > used => data[i] = <<>>)
    BY DEF FileInv, FileShapeInv
  <2>2. Len(Overlay(obj[p], s)) <= 2
    BY <1>3, OverlayFits
  <2>3. \A i \in Inodes : i > used => i # obj[p]
    BY <1>3, FileNumbers
  <2> QED BY <1>5, <2>1, <2>2, <2>3
<1>7. FileShapeInv'
  <2>1. \A i \in Inodes : Len(data'[i]) <= 3
    BY <1>5, <1>6
  <2> QED BY <1>1, <1>4, <1>5, <1>6, <2>1 DEF FileInv, FileShapeInv, FileTypeOK
<1>8. used' <= 1 + Cardinality(OpensDone)'
  BY <1>1, OpensGrow DEF FileInv, FileShapeInv, FileTypeOK
<1>9. TmpInv'
  BY <1>1, <1>3 DEF FileInv, FileShapeInv, FileTypeOK, TmpInv, TmpOwner
<1>10. kinds = Safe => TmpOwner(p) /\ ino["tmp"] = obj[p] /\ ino["file"] # obj[p]
  <2>1. kinds = Safe => TmpOwner(p)
    BY <1>1, <1>3 DEF Safe, TmpOwner
  <2> QED BY <1>2, <1>1, <2>1 DEF FileInv, TmpInv, PcInv
<1>11. PcInv(p)' /\ TempInv(p)' /\ ReadInv(p)' /\ CleanInv(p)'
  BY <1>1, <1>2, <1>3, <1>4
  DEF FileInv, FileShapeInv, FileTypeOK, PcInv, TempInv, ReadInv, CleanInv
<1>12. SaveInv(p)'
  <2>1. ASSUME kinds = Safe, call[p] = "save", Written(s) = "ok" PROVE data'[obj[p]] = <<p, p>>
    BY <1>1, <1>2, <1>3, <1>4, <1>5, <2>1, OverlayFits, ZenonT(60) DEF SaveInv
  <2> QED BY <1>1, <2>1 DEF SaveInv, FileInv, FileShapeInv, FileTypeOK
<1>13. OthersInv(p)'
  <2>1. ASSUME NEW q \in Procs, q # p
        PROVE  /\ Guarded(q) => data'[obj[q]] = data[obj[q]]
               /\ call[q] = "temp" /\ obj[q] # None => ino'["file"] # obj[q] /\ obj'[p] # obj[q]
    <3>1. TempInv(q) /\ obj[q] \in Inodes \cup {None}
      BY DEF FileInv, FileShapeInv, FileTypeOK
    <3>2. call[q] = "temp" /\ obj[q] # None => ino["file"] # obj[q] /\ obj[p] # obj[q]
      BY <2>1, <3>1 DEF TempInv
    <3>3. Guarded(q) => obj[q] # obj[p]
      BY <1>10, <2>1, <3>2 DEF Guarded, FileInv, TmpInv
    <3> QED BY <1>1, <1>5, <3>1, <3>2, <3>3 DEF Guarded
  <2> QED BY <1>1, <2>1, OthersKeep DEF OthersInv, FileInv, FileShapeInv, FileTypeOK
<1>14. NameInv'
  <2>1. kinds = Safe => ino["file"] \in Inodes
    BY DEF FileInv, NameInv, FileShapeInv, FileTypeOK, FileNames
  <2> QED BY <1>1, <1>5, <1>10, <2>1 DEF FileInv, NameInv, Whole
<1> QED BY <1>7, <1>8, <1>9, <1>11, <1>12, <1>13, <1>14 DEF FileInv, OthersInv

\* fffile_close() leads on to rename, remove or the end.
LEMMA CloseInv == ASSUME FileInv, NEW p \in Procs, Close(p) PROVE FileInv'
<1>1. PICK r \in {ret[p]} \cup (IF call[p] = "read" THEN {} ELSE {"error"}) :
        ret' = [ret EXCEPT ![p] = r] /\ pc' = [pc EXCEPT ![p] = AfterClose(p, r)]
  BY DEF Close, Goto, Result
<1>2. /\ UNCHANGED <<sys, kinds, ino, data, used, call, calls, obj, limit, size, got>> /\ pc[p] = "close"
  BY DEF Close
<1>3. PcInv(p) /\ TempInv(p) /\ SaveInv(p) /\ ReadInv(p) /\ CleanInv(p)
  BY DEF FileInv
<1>4. /\ call[p] \in {"put", "save", "read"} /\ r \in {"ok", "error"} /\ obj[p] # None
      /\ r = "ok" => ret[p] = "ok"
  BY <1>2, <1>3 DEF PcInv, FileInv, FileShapeInv, FileTypeOK
<1>5. /\ AfterClose(p, r) \in {"idle", "remove", "rename"}
      /\ AfterClose(p, r) = "rename" => call[p] = "save" /\ r = "ok"
      /\ AfterClose(p, r) = "remove" => call[p] # "read"
      /\ AfterClose(p, r) = "idle" => call[p] = "read" \/ (call[p] = "put" /\ r = "ok")
  <2>1. AfterClose(p, r) = IF call[p] = "read" THEN "idle" ELSE IF r = "error" THEN "remove"
                           ELSE IF call[p] = "save" THEN "rename" ELSE "idle"
    BY DEF AfterClose
  <2> QED BY <1>4, <2>1
<1>6. FileShapeInv'
  BY <1>1, <1>2, <1>4, <1>5 DEF FileInv, FileShapeInv, FileTypeOK
<1>7. used' <= 1 + Cardinality(OpensDone)'
  BY <1>1, <1>2, <1>5, OpensGrow DEF FileInv, FileShapeInv, FileTypeOK
<1>8. TmpInv'
  BY <1>1, <1>2, <1>4, <1>5, SMTT(30) DEF FileInv, FileShapeInv, FileTypeOK, TmpInv, TmpOwner
<1>9. PcInv(p)' /\ TempInv(p)' /\ SaveInv(p)'
  BY <1>1, <1>2, <1>3, <1>4, <1>5 DEF FileInv, FileShapeInv, FileTypeOK, PcInv, TempInv, SaveInv
<1>10. ReadInv(p)' /\ CleanInv(p)'
  BY <1>1, <1>2, <1>3, <1>4, <1>5 DEF FileInv, FileShapeInv, FileTypeOK, ReadInv, Unnoticed, CleanInv, Whole
<1>11. OthersInv(p)' /\ NameInv'
  BY <1>1, <1>2, LocalStep DEF FileInv, FileShapeInv, FileTypeOK, OthersInv
<1> QED BY <1>6, <1>7, <1>8, <1>9, <1>10, <1>11 DEF FileInv, OthersInv

\* A step of p that changes names, not contents, and takes names away or keeps them.
LEMMA NameStep ==
  ASSUME FileInv, NEW p \in Procs, NEW s \in {"idle", "use", "dead"},
         NEW r \in {"none", "ok", "error"},
         UNCHANGED <<sys, kinds, data, used, call, calls, obj, limit, size, got>>,
         pc' = [pc EXCEPT ![p] = s], ret' = [ret EXCEPT ![p] = r],
         ino' \in [FileNames -> Inodes \cup {None}],
         \A n \in FileNames : ino'[n] \in {ino[n], None}
  PROVE  /\ FileShapeInv' /\ used' <= 1 + Cardinality(OpensDone)' /\ OthersInv(p)'
<1>1. FileShapeInv'
  <2>1. \A n \in FileNames : ino'[n] <= used
    <3> SUFFICES ASSUME NEW n \in FileNames PROVE ino'[n] <= used
      OBVIOUS
    <3>1. ino[n] <= used /\ ino'[n] \in {ino[n], None}
      BY DEF FileInv, FileShapeInv
    <3> QED BY <3>1, FileNumbers DEF None
  <2>2. pc' \in [Procs -> {"idle", "open", "open2", "write", "close", "rename", "remove", "size",
                         "read", "unlink", "use", "dead"}]
    BY DEF FileInv, FileShapeInv, FileTypeOK
  <2>3. ret' \in [Procs -> {"none", "ok", "error"}]
    BY DEF FileInv, FileShapeInv, FileTypeOK
  <2> QED BY <2>1, <2>2, <2>3 DEF FileInv, FileShapeInv, FileTypeOK
<1>2. used' <= 1 + Cardinality(OpensDone)'
  BY OpensGrow DEF FileInv, FileShapeInv, FileTypeOK
<1>3. OthersInv(p)'
  <2>1. ASSUME NEW q \in Procs, q # p
        PROVE  call[q] = "temp" /\ obj[q] # None => ino'["file"] # obj[q] /\ obj'[p] # obj[q]
    <3>1. TempInv(q)
      BY DEF FileInv
    <3> QED BY <2>1, <3>1 DEF TempInv, FileNames
  <2>2. \A n \in FileNames : ino'[n] = None \/ ino'[n] = ino[n]
    OBVIOUS
  <2> QED BY <2>1, <2>2, OthersKeep DEF OthersInv, FileInv, FileShapeInv, FileTypeOK
<1> QED BY <1>1, <1>2, <1>3

\* fffile_remove()
LEMMA RemoveInv == ASSUME FileInv, NEW p \in Procs, Remove(p) PROVE FileInv'
<1> DEFINE r == IF call[p] = "remove" /\ ino[NameOf(p)] # None THEN "ok" ELSE "error"
<1>1. /\ UNCHANGED <<sys, kinds, data, used, call, calls, obj, limit, size, got>> /\ pc[p] = "remove"
      /\ pc' = [pc EXCEPT ![p] = "idle"] /\ ret' = [ret EXCEPT ![p] = r]
      /\ ino' = [ino EXCEPT ![NameOf(p)] = None]
  BY DEF Remove, Goto, Result
<1>2. PcInv(p) /\ TempInv(p) /\ SaveInv(p) /\ ReadInv(p) /\ CleanInv(p)
  BY DEF FileInv
<1>3. r \in {"none", "ok", "error"}
  OBVIOUS
<1> HIDE DEF r
<1>4. /\ call[p] \in {"put", "save", "remove"} /\ call[p] \in kinds
      /\ NameOf(p) = IF call[p] = "save" THEN "tmp" ELSE "file"
      /\ call[p] # "remove" => obj[p] # None
  BY <1>1, <1>2 DEF PcInv, NameOf
<1>5. /\ ino' \in [FileNames -> Inodes \cup {None}]
      /\ \A n \in FileNames : ino'[n] = IF n = NameOf(p) THEN None ELSE ino[n]
      /\ ino'["tmp"] = IF call[p] = "save" THEN None ELSE ino["tmp"]
      /\ ino'["file"] = IF call[p] = "save" THEN ino["file"] ELSE None
  BY <1>1, <1>4 DEF FileInv, FileShapeInv, FileTypeOK, FileNames
<1>6. FileShapeInv' /\ used' <= 1 + Cardinality(OpensDone)' /\ OthersInv(p)'
  BY <1>1, <1>3, <1>5, NameStep
<1>7. TmpOwner(p) <=> call[p] = "save"
  BY <1>1, <1>4 DEF TmpOwner
<1>8. TmpInv'
  <2>1. ~TmpOwner(p)' /\ \A q \in Procs : q # p => TmpOwner(q)' = TmpOwner(q)
    BY <1>1 DEF TmpOwner, FileInv, FileShapeInv, FileTypeOK
  <2> QED BY <1>1, <1>5, <1>7, <2>1 DEF FileInv, TmpInv
<1>9. PcInv(p)' /\ TempInv(p)' /\ SaveInv(p)' /\ ReadInv(p)'
  BY <1>1, <1>2, <1>4 DEF FileInv, FileShapeInv, FileTypeOK, PcInv, TempInv, SaveInv, ReadInv
<1>10. CleanInv(p)'
  BY <1>1, <1>4, <1>5, <1>7 DEF CleanInv, FileInv, TmpInv, FileNames
<1>11. NameInv'
  <2>1. kinds = Safe => call[p] = "save"
    BY <1>4 DEF Safe
  <2> QED BY <1>1, <1>5, <2>1 DEF FileInv, NameInv, Whole
<1> QED BY <1>6, <1>8, <1>9, <1>10, <1>11 DEF FileInv, OthersInv
\* fffile_rename(): the file that has the temporary name is the saver's.
LEMMA RenameInv ==
  ASSUME FileInv, NEW p \in Procs, Rename(p), ret'[p] # "error" PROVE FileInv'
<1>1. PcInv(p) /\ SaveInv(p) /\ pc[p] = "rename"
  BY DEF FileInv, Rename
<1>2. call[p] = "save" /\ call[p] \in kinds /\ TmpOwner(p) /\ obj[p] # None /\ obj[p] \in Inodes
  BY <1>1 DEF PcInv, TmpOwner, FileInv, FileShapeInv, FileTypeOK
<1>3. ino["tmp"] = obj[p] /\ ino["file"] # obj[p] /\ \A q \in Procs : q # p => ~TmpOwner(q)
  BY <1>2 DEF FileInv, TmpInv
<1>4. /\ UNCHANGED <<sys, kinds, data, used, call, calls, obj, limit, size, got>>
      /\ pc' = [pc EXCEPT ![p] = "idle"] /\ ret' = [ret EXCEPT ![p] = "ok"]
      /\ ino' = [n \in FileNames |-> IF n = "file" THEN obj[p] ELSE None]
  <2>1. \/ /\ pc' = [pc EXCEPT ![p] = "idle"] /\ ret' = [ret EXCEPT ![p] = "ok"]
           /\ ino' = [n \in FileNames |-> IF n = "file" THEN ino["tmp"] ELSE None]
        \/ ret' = [ret EXCEPT ![p] = "error"]
    BY DEF Rename, Goto, Result
  <2>2. ret \in [Procs -> {"none", "ok", "error"}]
    BY DEF FileInv, FileShapeInv, FileTypeOK
  <2> QED BY <1>3, <2>1, <2>2 DEF Rename
<1>5. ino'["file"] = obj[p] /\ ino'["tmp"] = None
  BY <1>4 DEF FileNames
<1>6. FileShapeInv'
  <2>1. \A n \in FileNames : ino'[n] <= used
    BY <1>4, FileNumbers DEF FileInv, FileShapeInv, None
  <2> QED BY <1>2, <1>4, <2>1 DEF FileInv, FileShapeInv, FileTypeOK
<1>7. used' <= 1 + Cardinality(OpensDone)'
  BY <1>1, <1>4, OpensGrow DEF FileInv, FileShapeInv, FileTypeOK
<1>8. TmpInv'
  <2>1. \A q \in Procs : ~TmpOwner(q)'
    BY <1>3, <1>4 DEF TmpOwner, FileInv, FileShapeInv, FileTypeOK
  <2> QED BY <1>4, <1>5, <2>1 DEF TmpInv
<1>9. PcInv(p)' /\ TempInv(p)' /\ SaveInv(p)' /\ ReadInv(p)' /\ CleanInv(p)'
  BY <1>1, <1>2, <1>4 DEF FileInv, FileShapeInv, FileTypeOK, PcInv, TempInv, SaveInv, ReadInv, CleanInv
<1>10. OthersInv(p)'
  <2>1. ASSUME NEW q \in Procs, q # p
        PROVE  call[q] = "temp" /\ obj[q] # None => ino'["file"] # obj[q] /\ obj'[p] # obj[q]
    <3>1. TempInv(q)
      BY DEF FileInv
    <3> QED BY <1>4, <1>5, <2>1, <3>1 DEF TempInv
  <2>2. \A n \in FileNames : ino'[n] = None \/ ino'[n] = ino["tmp"]
    BY <1>3, <1>4
  <2>3. "tmp" \in FileNames
    BY DEF FileNames
  <2> QED BY <1>4, <2>1, <2>2, <2>3, OthersKeep DEF OthersInv, FileInv, FileShapeInv, FileTypeOK
<1>11. NameInv'
  <2>1. kinds = Safe => data[obj[p]] = <<p, p>>
    BY <1>1, <1>2 DEF SaveInv
  <2>2. <<p, p>> \in Whole
    BY DEF Whole
  <2> QED BY <1>2, <1>4, <1>5, <2>1, <2>2 DEF NameInv, Whole
<1> QED BY <1>6, <1>7, <1>8, <1>9, <1>10, <1>11 DEF FileInv, OthersInv

\* ... and when it fails the temporary file is removed next.
LEMMA RenameFailsInv ==
  ASSUME FileInv, NEW p \in Procs, Rename(p), ret'[p] = "error" PROVE FileInv'
<1>1. PcInv(p) /\ TempInv(p) /\ SaveInv(p) /\ ReadInv(p) /\ CleanInv(p) /\ pc[p] = "rename"
  BY DEF FileInv, Rename
<1>2. call[p] = "save" /\ call[p] \in kinds /\ obj[p] # None
  BY <1>1 DEF PcInv
<1>3. /\ UNCHANGED <<sys, kinds, ino, data, used, call, calls, obj, limit, size, got>>
      /\ pc' = [pc EXCEPT ![p] = "remove"] /\ ret' = [ret EXCEPT ![p] = "error"]
  <2>1. \/ ret' = [ret EXCEPT ![p] = "ok"]
        \/ ret' = [ret EXCEPT ![p] = "error"] /\ pc' = [pc EXCEPT ![p] = "remove"] /\ ino' = ino
    BY DEF Rename, Goto, Result
  <2>2. ret \in [Procs -> {"none", "ok", "error"}]
    BY DEF FileInv, FileShapeInv, FileTypeOK
  <2> QED BY <2>1, <2>2 DEF Rename
<1>4. FileShapeInv'
  BY <1>3 DEF FileInv, FileShapeInv, FileTypeOK
<1>5. used' <= 1 + Cardinality(OpensDone)'
  BY <1>1, <1>3, OpensGrow DEF FileInv, FileShapeInv, FileTypeOK
<1>6. TmpInv'
  <2>1. \A q \in Procs : TmpOwner(q)' = TmpOwner(q)
    BY <1>1, <1>2, <1>3 DEF TmpOwner, FileInv, FileShapeInv, FileTypeOK
  <2> QED BY <1>3, <2>1 DEF FileInv, TmpInv
<1>7. PcInv(p)' /\ TempInv(p)' /\ SaveInv(p)' /\ ReadInv(p)' /\ CleanInv(p)'
  BY <1>1, <1>2, <1>3 DEF FileInv, FileShapeInv, FileTypeOK, PcInv, TempInv, SaveInv, ReadInv, CleanInv
<1>8. OthersInv(p)' /\ NameInv'
  BY <1>3, LocalStep DEF FileInv, FileShapeInv, FileTypeOK, OthersInv
<1> QED BY <1>4, <1>5, <1>6, <1>7, <1>8 DEF FileInv, OthersInv

\* fffile_createtemp() takes the name away (UNIX).
LEMMA UnlinkInv == ASSUME FileInv, NEW p \in Procs, Unlink(p) PROVE FileInv'
<1>1. PcInv(p) /\ TempInv(p) /\ SaveInv(p) /\ ReadInv(p) /\ pc[p] = "unlink"
  BY DEF FileInv, Unlink
<1>2. call[p] = "temp" /\ sys = "unix" /\ TmpOwner(p) /\ obj[p] # None
  BY <1>1 DEF PcInv, TmpOwner
<1>3. \A q \in Procs : q # p => ~TmpOwner(q)
  BY <1>2 DEF FileInv, TmpInv
<1>4. /\ UNCHANGED <<sys, kinds, data, used, call, calls, obj, limit, size, got, ret>>
      /\ pc' = [pc EXCEPT ![p] = "use"] /\ ino' = [ino EXCEPT !["tmp"] = None]
  BY DEF Unlink, Goto
<1>5. /\ ino' \in [FileNames -> Inodes \cup {None}]
      /\ ino'["file"] = ino["file"] /\ ino'["tmp"] = None
      /\ \A n \in FileNames : ino'[n] \in {ino[n], None}
  BY <1>4 DEF FileInv, FileShapeInv, FileTypeOK, FileNames
<1>6. FileShapeInv' /\ used' <= 1 + Cardinality(OpensDone)' /\ OthersInv(p)'
  <2>1. ret' = [ret EXCEPT ![p] = ret[p]] /\ ret[p] \in {"none", "ok", "error"}
    BY <1>4 DEF FileInv, FileShapeInv, FileTypeOK
  <2> QED BY <1>4, <1>5, <2>1, NameStep
<1>7. TmpInv'
  <2>1. \A q \in Procs : ~TmpOwner(q)'
    BY <1>2, <1>3, <1>4 DEF TmpOwner, FileInv, FileShapeInv, FileTypeOK
  <2> QED BY <1>4, <1>5, <2>1 DEF TmpInv
<1>8. PcInv(p)' /\ TempInv(p)' /\ SaveInv(p)' /\ ReadInv(p)' /\ CleanInv(p)'
  BY <1>1, <1>2, <1>4, <1>5
  DEF FileInv, FileShapeInv, FileTypeOK, PcInv, TempInv, SaveInv, ReadInv, CleanInv
<1>9. NameInv'
  BY <1>4, <1>5 DEF FileInv, NameInv, Whole
<1> QED BY <1>6, <1>7, <1>8, <1>9 DEF FileInv, OthersInv

\* The temporary file is used and closed.
LEMMA UseTempInv == ASSUME FileInv, NEW p \in Procs, UseTemp(p) PROVE FileInv'
<1>1. PcInv(p) /\ TempInv(p) /\ pc[p] = "use"
  BY DEF FileInv, UseTemp
<1>2. call[p] = "temp" /\ obj[p] # None /\ obj[p] \in Inodes /\ obj[p] <= used
  BY <1>1 DEF PcInv, FileInv, FileShapeInv, FileTypeOK
<1>3. /\ ino["file"] # obj[p] /\ data[obj[p]] = <<>>
      /\ \A q \in Procs : q # p => obj[q] # obj[p]
  BY <1>1, <1>2 DEF TempInv
<1>4. Append(<<>>, p) = <<p>> /\ <<p>> \in Seq(Writers) /\ Len(<<p>>) = 1
  BY DEF Writers
<1>5. /\ UNCHANGED <<sys, kinds, used, call, calls, obj, limit, size, got>>
      /\ pc' = [pc EXCEPT ![p] = "idle"] /\ ret' = [ret EXCEPT ![p] = "ok"]
      /\ ino' = [n \in FileNames |-> IF ino[n] = obj[p] THEN None ELSE ino[n]]
      /\ data' = [data EXCEPT ![obj[p]] = <<p>>]
  BY <1>3, <1>4 DEF UseTemp, Goto, Result
<1>6. /\ ino' \in [FileNames -> Inodes \cup {None}] /\ ino'["file"] = ino["file"]
      /\ \A n \in FileNames : ino'[n] = IF ino[n] = obj[p] THEN None ELSE ino[n]
      /\ ino'["tmp"] = IF ino["tmp"] = obj[p] THEN None ELSE ino["tmp"]
  BY <1>3, <1>5 DEF FileInv, FileShapeInv, FileTypeOK, FileNames
<1>7. /\ data' \in [Inodes -> Seq(Writers)]
      /\ \A i \in Inodes : data'[i] = IF i = obj[p] THEN <<p>> ELSE data[i]
  BY <1>2, <1>4, <1>5 DEF FileInv, FileShapeInv
<1>8. FileShapeInv'
  <2>1. \A n \in FileNames : ino'[n] <= used
    <3> SUFFICES ASSUME NEW n \in FileNames PROVE ino'[n] <= used
      OBVIOUS
    <3>1. ino[n] <= used /\ ino'[n] \in {ino[n], None}
      BY <1>6 DEF FileInv, FileShapeInv
    <3> QED BY <3>1, FileNumbers DEF None
  <2>2. \A i \in Inodes : Len(data[i]) <= 2 /\ (i > used => data[i] = <<>>)
    BY DEF FileInv, FileShapeInv
  <2>3. \A i \in Inodes : i > used => i # obj[p]
    BY <1>2, FileNumbers
  <2>4. \A i \in Inodes : Len(data'[i]) <= 2 /\ (i > used => data'[i] = <<>>)
    <3> SUFFICES ASSUME NEW i \in Inodes
                 PROVE  Len(data'[i]) <= 2 /\ (i > used => data'[i] = <<>>)
      OBVIOUS
    <3>1. CASE i = obj[p]
      <4>1. data'[i] = <<p>> /\ ~(i > used)
        BY <1>7, <2>3, <3>1
      <4> QED BY <1>4, <4>1
    <3>2. CASE i # obj[p]
      BY <1>7, <2>2, <3>2
    <3> QED BY <3>1, <3>2
  <2>5. \A i \in Inodes : Len(data'[i]) <= 3
    BY <1>7, <2>4
  <2> QED BY <1>5, <1>6, <1>7, <2>1, <2>4, <2>5 DEF FileInv, FileShapeInv, FileTypeOK
<1>9. used' <= 1 + Cardinality(OpensDone)'
  BY <1>1, <1>5, OpensGrow DEF FileInv, FileShapeInv, FileTypeOK
<1>10. TmpInv'
  <2>1. ~TmpOwner(p)' /\ \A q \in Procs : q # p => TmpOwner(q)' = TmpOwner(q)
    BY <1>5 DEF TmpOwner, FileInv, FileShapeInv, FileTypeOK
  <2> QED BY <1>3, <1>5, <1>6, <2>1 DEF FileInv, TmpInv
<1>11. PcInv(p)' /\ TempInv(p)' /\ SaveInv(p)' /\ ReadInv(p)' /\ CleanInv(p)'
  BY <1>1, <1>2, <1>3, <1>5, <1>6, <1>7
  DEF FileInv, FileShapeInv, FileTypeOK, PcInv, TempInv, SaveInv, ReadInv, CleanInv
<1>12. OthersInv(p)'
  <2>1. ASSUME NEW q \in Procs, q # p
        PROVE  /\ Guarded(q) => data'[obj[q]] = data[obj[q]]
               /\ call[q] = "temp" /\ obj[q] # None => ino'["file"] # obj[q] /\ obj'[p] # obj[q]
    <3>1. TempInv(q) /\ obj[q] \in Inodes \cup {None}
      BY DEF FileInv, FileShapeInv, FileTypeOK
    <3> QED BY <1>3, <1>5, <1>6, <1>7, <2>1, <3>1 DEF Guarded, TempInv
  <2>2. \A n \in FileNames : ino'[n] = None \/ ino'[n] = ino[n]
    BY <1>6
  <2> QED BY <1>5, <2>1, <2>2, OthersKeep DEF OthersInv, FileInv, FileShapeInv, FileTypeOK
<1>13. NameInv'
  <2>1. kinds = Safe => ino["file"] \in Inodes
    BY DEF FileInv, NameInv, FileShapeInv, FileTypeOK, FileNames
  <2> QED BY <1>3, <1>5, <1>6, <1>7, <2>1 DEF FileInv, NameInv, Whole
<1> QED BY <1>8, <1>9, <1>10, <1>11, <1>12, <1>13 DEF FileInv, OthersInv

\* fffile_size() and the comparison with the limit, which -1 fails if there is a limit.
LEMMA SizeInv == ASSUME FileInv, NEW p \in Procs, Size(p) PROVE FileInv'
<1>1. PcInv(p) /\ TempInv(p) /\ ReadInv(p) /\ pc[p] = "size"
  BY DEF FileInv, Size
<1>2. call[p] = "read" /\ obj[p] # None /\ obj[p] \in Inodes
  BY <1>1 DEF PcInv, FileInv, FileShapeInv, FileTypeOK
<1>3. PICK s \in {Len(data[obj[p]]), MaxSize} :
        /\ size' = [size EXCEPT ![p] = s]
        /\ IF TooLarge(s, limit[p]) THEN Goto(p, "close") /\ Result(p, "error") ELSE Goto(p, "read") /\ UNCHANGED ret
  BY DEF Size
<1>4. UNCHANGED <<sys, kinds, ino, data, used, call, calls, obj, limit, got>>
  BY DEF Size
<1>5. s \in 0..MaxSize /\ limit[p] \in 0..MaxSize
      /\ (s <= limit[p] => (s = MaxSize /\ limit[p] = MaxSize) \/ (s = Len(data[obj[p]]) /\ s < MaxSize))
  <2>1. data[obj[p]] \in Seq(Writers) /\ Len(data[obj[p]]) <= 2
    BY <1>2 DEF FileInv, FileShapeInv
  <2>2. Len(data[obj[p]]) \in 0..MaxSize /\ Len(data[obj[p]]) < MaxSize
    BY <2>1, SizeAssumption
  <2>3. limit[p] \in 0..MaxSize
    BY DEF FileInv, FileShapeInv, FileTypeOK
  <2>4. MaxSize \in Nat
    BY SizeAssumption
  <2>5. CASE s = MaxSize
    BY <2>3, <2>4, <2>5
  <2>6. CASE s = Len(data[obj[p]])
    BY <2>2, <2>3, <2>4, <2>6
  <2> QED BY <2>5, <2>6
<1>6. \/ s > limit[p] /\ pc' = [pc EXCEPT ![p] = "close"] /\ ret' = [ret EXCEPT ![p] = "error"]
      \/ s <= limit[p] /\ pc' = [pc EXCEPT ![p] = "read"] /\ ret' = ret
  BY <1>3, <1>5, SizeAssumption DEF TooLarge, Goto, Result
<1>7. FileShapeInv'
  <2>1. size' \in [Procs -> 0..MaxSize]
    BY <1>3, <1>5 DEF FileInv, FileShapeInv, FileTypeOK
  <2> QED BY <1>4, <1>6, <2>1 DEF FileInv, FileShapeInv, FileTypeOK
<1>8. used' <= 1 + Cardinality(OpensDone)'
  BY <1>4, <1>6, OpensGrow DEF FileInv, FileShapeInv, FileTypeOK
<1>9. TmpInv'
  <2>1. \A q \in Procs : TmpOwner(q)' = TmpOwner(q)
    BY <1>2, <1>4, <1>6 DEF TmpOwner, FileInv, FileShapeInv, FileTypeOK
  <2> QED BY <1>4, <2>1 DEF FileInv, TmpInv
<1>10. PcInv(p)' /\ TempInv(p)' /\ SaveInv(p)' /\ CleanInv(p)'
  BY <1>1, <1>2, <1>4, <1>6 DEF FileInv, FileShapeInv, FileTypeOK, PcInv, TempInv, SaveInv, CleanInv
<1>11. ReadInv(p)'
  <2>1. kinds = Safe => data[obj[p]] \in Whole /\ Len(data[obj[p]]) = 2
    BY <1>1, <1>2 DEF ReadInv, Whole
  <2>2. size'[p] = s
    BY <1>3 DEF FileInv, FileShapeInv, FileTypeOK
  <2>3. Whole' = Whole
    BY DEF Whole
  <2> QED BY <1>2, <1>4, <1>5, <1>6, <2>1, <2>2, <2>3
          DEF ReadInv, Unnoticed, FileInv, FileShapeInv, FileTypeOK
<1>12. OthersInv(p)' /\ NameInv'
  BY <1>3, <1>4, <1>6, LocalStep DEF FileInv, FileShapeInv, FileTypeOK, OthersInv
<1> QED BY <1>7, <1>8, <1>9, <1>10, <1>11, <1>12 DEF FileInv, OthersInv

\* fffile_read() of as many bytes as there were.
LEMMA ReadAllInv == ASSUME FileInv, NEW p \in Procs, ReadAll(p) PROVE FileInv'
<1>1. PcInv(p) /\ TempInv(p) /\ ReadInv(p) /\ pc[p] = "read"
  BY DEF FileInv, ReadAll
<1>2. call[p] = "read" /\ obj[p] # None /\ obj[p] \in Inodes /\ size[p] \in 0..MaxSize /\ limit[p] \in 0..MaxSize
      /\ (Unnoticed(p) \/ (size[p] <= limit[p] /\ size[p] < MaxSize))
  BY <1>1 DEF PcInv, ReadInv, FileInv, FileShapeInv, FileTypeOK
<1> DEFINE s == Prefix(data[obj[p]], size[p])
<1>3. UNCHANGED <<sys, kinds, ino, data, used, call, calls, obj, limit, size>> /\ pc' = [pc EXCEPT ![p] = "close"]
  BY DEF ReadAll, Goto
<1>4. s \in Seq(Writers)
  <2>1. data[obj[p]] \in Seq(Writers)
    BY <1>2 DEF FileInv, FileShapeInv
  <2>2. Len(data[obj[p]]) \in Nat
    BY <2>1
  <2> QED BY <1>2, <2>1, <2>2, SizeAssumption DEF Prefix
<1>5. kinds = Safe /\ ~Unnoticed(p) => s \in Whole
  <2> SUFFICES ASSUME kinds = Safe, ~Unnoticed(p) PROVE s \in Whole
    OBVIOUS
  <2>1. data[obj[p]] \in Whole /\ size[p] = 2
    BY <1>1, <1>2 DEF ReadInv
  <2>2. PICK w \in Procs \cup {Old} : data[obj[p]] = <<w, w>>
    BY <2>1 DEF Whole
  <2>3. s = SubSeq(<<w, w>>, 1, 2)
    BY <2>1, <2>2 DEF Prefix
  <2>4. SubSeq(<<w, w>>, 1, 2) = <<w, w>>
    <3>1. <<w, w>> \in Seq({w}) /\ Len(<<w, w>>) = 2
      OBVIOUS
    <3> QED BY <3>1, SubSeqFull
  <2> QED BY <2>3, <2>4 DEF Whole
<1>6. /\ \/ got' = [got EXCEPT ![p] = s]
         \/ got' = got
      /\ \E r \in {"ok", "error"} :
           /\ ret' = [ret EXCEPT ![p] = r]
           /\ r = "ok" => Unnoticed(p) \/ (got' = [got EXCEPT ![p] = s] /\ Len(s) = size[p])
  <2>1. size[p] = MaxSize => Unnoticed(p)
    BY <1>2, SizeAssumption
  <2>2. ASSUME got' = [got EXCEPT ![p] = s], Result(p, IF Len(s) = size[p] THEN "ok" ELSE "error")
        PROVE  \E r \in {"ok", "error"} :
                 /\ ret' = [ret EXCEPT ![p] = r]
                 /\ r = "ok" => Unnoticed(p) \/ (got' = [got EXCEPT ![p] = s] /\ Len(s) = size[p])
    BY <2>2 DEF Result
  <2>3. ASSUME Result(p, IF size[p] = MaxSize THEN "ok" ELSE "error")
        PROVE  \E r \in {"ok", "error"} :
                 /\ ret' = [ret EXCEPT ![p] = r]
                 /\ r = "ok" => Unnoticed(p) \/ (got' = [got EXCEPT ![p] = s] /\ Len(s) = size[p])
    BY <2>1, <2>3 DEF Result
  <2> QED BY <2>2, <2>3 DEF ReadAll
<1> HIDE DEF s
<1>7. FileShapeInv'
  <2>0. PICK r \in {"ok", "error"} : ret' = [ret EXCEPT ![p] = r]
    BY <1>6
  <2>1. got' \in [Procs -> Seq(Writers)] /\ ret' \in [Procs -> {"none", "ok", "error"}]
    BY <1>4, <1>6, <2>0 DEF FileInv, FileShapeInv, FileTypeOK
  <2> QED BY <1>3, <2>1 DEF FileInv, FileShapeInv, FileTypeOK
<1>8. used' <= 1 + Cardinality(OpensDone)'
  BY <1>3, OpensGrow DEF FileInv, FileShapeInv, FileTypeOK
<1>9. TmpInv'
  <2>1. pc \in [Procs -> {"idle", "open", "open2", "write", "close", "rename", "remove", "size",
                          "read", "unlink", "use", "dead"}]
    BY DEF FileInv, FileShapeInv, FileTypeOK
  <2>2. \A q \in Procs : TmpOwner(q)' = TmpOwner(q)
    BY <1>2, <1>3, <2>1 DEF TmpOwner
  <2> QED BY <1>3, <2>2 DEF FileInv, TmpInv
<1>10. PcInv(p)' /\ TempInv(p)' /\ SaveInv(p)' /\ CleanInv(p)'
  BY <1>1, <1>2, <1>3, <1>6 DEF FileInv, FileShapeInv, FileTypeOK, PcInv, TempInv, SaveInv, CleanInv
<1>11. ReadInv(p)'
  <2>1. ret'[p] = "ok" => Unnoticed(p) \/ (got'[p] = s /\ Len(s) = size[p])
    BY <1>6 DEF FileInv, FileShapeInv, FileTypeOK
  <2>2. Whole' = Whole /\ (Unnoticed(p)' <=> Unnoticed(p))
    BY <1>3 DEF Whole, Unnoticed
  <2> QED BY <1>1, <1>2, <1>3, <1>5, <2>1, <2>2 DEF ReadInv, FileInv, FileShapeInv, FileTypeOK
<1>12. OthersInv(p)' /\ NameInv'
  <2>1. \A q \in Procs : q # p => got'[q] = got[q] /\ ret'[q] = ret[q] /\ pc'[q] = pc[q]
    BY <1>3, <1>6 DEF FileInv, FileShapeInv, FileTypeOK
  <2> QED BY <1>3, <2>1, LocalStep DEF OthersInv
<1> QED BY <1>7, <1>8, <1>9, <1>10, <1>11, <1>12 DEF FileInv, OthersInv

\* A process dies.
LEMMA CrashInv == ASSUME FileInv, NEW p \in Procs, Crash(p) PROVE FileInv'
<1>1. PcInv(p) /\ TempInv(p) /\ SaveInv(p) /\ ReadInv(p) /\ CleanInv(p)
  BY DEF FileInv
<1>2. /\ UNCHANGED <<sys, kinds, data, used, calls>> /\ call' = [call EXCEPT ![p] = "none"]
      /\ obj' = [obj EXCEPT ![p] = None] /\ limit' = [limit EXCEPT ![p] = 0]
      /\ size' = [size EXCEPT ![p] = 0] /\ got' = [got EXCEPT ![p] = <<>>]
      /\ ret' = [ret EXCEPT ![p] = "none"]
      /\ pc' = [pc EXCEPT ![p] = "dead"] /\ pc[p] \notin {"idle", "dead"}
      /\ ino' = [n \in FileNames |-> IF sys = "windows" /\ pc[p] = "use" /\ ino[n] = obj[p]
                                     THEN None ELSE ino[n]]
  BY DEF Crash, Goto, Result
<1>3. /\ ino' \in [FileNames -> Inodes \cup {None}]
      /\ \A n \in FileNames : ino'[n] \in {ino[n], None}
      /\ ino'["tmp"] = IF sys = "windows" /\ pc[p] = "use" /\ ino["tmp"] = obj[p] THEN None ELSE ino["tmp"]
  BY <1>2 DEF FileInv, FileShapeInv, FileTypeOK, FileNames
<1>4. pc[p] = "use" => call[p] = "temp" /\ obj[p] # None /\ ino["file"] # obj[p]
  BY <1>1 DEF PcInv, TempInv
<1>5. ino'["file"] = ino["file"]
  BY <1>2, <1>4 DEF FileInv, FileShapeInv, FileTypeOK, FileNames
<1>6. FileShapeInv' /\ used' <= 1 + Cardinality(OpensDone)' /\ OthersInv(p)'
  <2>1. /\ \A n \in FileNames : ino'[n] <= used
        /\ obj' \in [Procs -> Inodes \cup {None}] /\ \A q \in Procs : obj'[q] <= used
    <3>1. used \in Nat /\ \A n \in FileNames : ino[n] <= used
      BY FileNumbers DEF FileInv, FileShapeInv
    <3>2. obj \in [Procs -> Inodes \cup {None}] /\ \A q \in Procs : obj[q] <= used
      BY DEF FileInv, FileShapeInv, FileTypeOK
    <3>3. \A q \in Procs : obj'[q] = IF q = p THEN None ELSE obj[q]
      BY <1>2, <3>2
    <3>4. obj' \in [Procs -> Inodes \cup {None}]
      BY <1>2, <3>2
    <3> QED BY <1>3, <3>1, <3>2, <3>3, <3>4 DEF None
  <2>2. limit' \in [Procs -> 0..MaxSize] /\ size' \in [Procs -> 0..MaxSize]
        /\ got' \in [Procs -> Seq(Writers)] /\ ret' \in [Procs -> {"none", "ok", "error"}]
    BY <1>2, SizeAssumption DEF FileInv, FileShapeInv, FileTypeOK
  <2>3. FileShapeInv'
    BY <1>2, <1>3, <2>1, <2>2 DEF FileInv, FileShapeInv, FileTypeOK
  <2>4. used' <= 1 + Cardinality(OpensDone)'
    BY <1>2, OpensGrow DEF FileInv, FileShapeInv, FileTypeOK
  <2>5. ASSUME NEW q \in Procs, q # p
        PROVE  call[q] = "temp" /\ obj[q] # None => ino'["file"] # obj[q] /\ obj'[p] # obj[q]
    <3>1. TempInv(q)
      BY DEF FileInv
    <3> QED BY <1>2, <1>5, <2>5, <3>1 DEF TempInv, FileInv, FileShapeInv, FileTypeOK
  <2>6. OthersInv(p)'
    BY <1>2, <1>3, <2>5, OthersKeep DEF OthersInv, FileInv, FileShapeInv, FileTypeOK
  <2> QED BY <2>3, <2>4, <2>6
<1>7. TmpInv'
  <2>1. ~TmpOwner(p)' /\ \A q \in Procs : q # p => TmpOwner(q)' = TmpOwner(q)
    BY <1>2 DEF TmpOwner, FileInv, FileShapeInv, FileTypeOK
  <2>2. sys = "windows" /\ pc[p] = "use" => TmpOwner(p)
    BY <1>4 DEF TmpOwner
  <2> QED BY <1>2, <1>3, <1>5, <2>1, <2>2 DEF FileInv, TmpInv
<1>8. PcInv(p)' /\ TempInv(p)' /\ SaveInv(p)' /\ ReadInv(p)' /\ CleanInv(p)'
  BY <1>1, <1>2, <1>5
  DEF FileInv, FileShapeInv, FileTypeOK, PcInv, TempInv, SaveInv, ReadInv, CleanInv, Whole
<1>9. NameInv'
  BY <1>2, <1>5 DEF FileInv, NameInv, Whole
<1> QED BY <1>6, <1>7, <1>8, <1>9 DEF FileInv, OthersInv

LEMMA FileStepInv == ASSUME FileInv, NEW p \in Procs, FileStep(p) PROVE FileInv'
BY CallInv, OpenInv, WriteInv, CloseInv, RemoveInv, RenameInv, RenameFailsInv, UnlinkInv, UseTempInv, SizeInv,
   ReadAllInv, CrashInv DEF FileStep

\* The other components' steps do not touch files.
LEMMA FileUnchanged == ASSUME FileInv, UNCHANGED fileVars PROVE FileInv'
BY DEF fileVars, FileInv, FileShapeInv, FileTypeOK, OpensDone, TmpInv, TmpOwner, NameInv, PcInv,
   TempInv, SaveInv, ReadInv, Unnoticed, CleanInv, Whole

LEMMA FileInitInv == ASSUME FileInit PROVE FileInv
<1>1. 1 \in Inodes /\ \A i \in Inodes : i \in Nat /\ i > 0
  BY OpensFinite DEF Inodes
<1>2. Old \in Writers /\ <<Old, Old>> \in Seq(Writers) /\ Len(<<Old, Old>>) = 2
      /\ <<>> \in Seq(Writers) /\ Len(<<>>) = 0
  BY DEF Writers
<1>3. data \in [Inodes -> Seq(Writers)] /\ got \in [Procs -> Seq(Writers)]
      /\ \A i \in Inodes : Len(data[i]) <= 2 /\ (i > used => data[i] = <<>>)
  BY <1>1, <1>2 DEF FileInit
<1>4. FileShapeInv
  <2>1. \A i \in Inodes : Len(data[i]) <= 3
    BY <1>2 DEF FileInit
  <2>2. /\ ino \in [FileNames -> Inodes \cup {None}] /\ used \in Inodes /\ used = 1
        /\ \A n \in FileNames : ino[n] <= used
    BY <1>1 DEF FileInit, FileNames, None
  <2>3. obj \in [Procs -> Inodes \cup {None}] /\ \A p \in Procs : obj[p] <= used
    BY DEF FileInit, None
  <2>4. limit \in [Procs -> 0..MaxSize] /\ size \in [Procs -> 0..MaxSize] /\ calls \in [Procs -> 0..MaxCalls]
    BY SizeAssumption, ProcsAssumption DEF FileInit
  <2>5. kinds \subseteq Kinds /\ sys \in {"unix", "windows"}
    BY MixesAssumption DEF FileInit
  <2> QED BY <1>3, <2>1, <2>2, <2>3, <2>4, <2>5 DEF FileInit, FileShapeInv, FileTypeOK
<1>5. used <= 1 + Cardinality(OpensDone)
  BY OpensFinite DEF FileInit
<1>6. TmpInv
  BY DEF FileInit, TmpInv, TmpOwner, FileNames, None
<1>7. NameInv
  <2>1. ino["file"] = 1 /\ data[1] = <<Old, Old>>
    BY <1>1 DEF FileInit, FileNames
  <2> QED BY <2>1 DEF NameInv, Whole, None
<1>8. ASSUME NEW p \in Procs
      PROVE  PcInv(p) /\ TempInv(p) /\ SaveInv(p) /\ ReadInv(p) /\ CleanInv(p)
  BY DEF FileInit, PcInv, TempInv, SaveInv, ReadInv, CleanInv
<1> QED BY <1>4, <1>5, <1>6, <1>7, <1>8 DEF FileInv

LEMMA FileSound == FileInv => FilesAreSound
<1> SUFFICES ASSUME FileInv PROVE FilesAreSound
  OBVIOUS
<1>1. WholeOrNothing
  BY DEF FileInv, NameInv, ReadInv, WholeOrNothing, Returned
<1>2. ReadFits
  BY DEF FileInv, ReadInv, ReadFits, Returned
<1>3. FailureIsClean
  BY DEF FileInv, CleanInv, FailureIsClean, Returned
<1>4. TempIsPrivate
  <2> SUFFICES ASSUME NEW p \in Procs, call[p] = "temp", obj[p] # None,
                      NEW k \in DOMAIN data[obj[p]]
               PROVE  data[obj[p]][k] = p
    BY DEF TempIsPrivate
  <2>1. data[obj[p]] \in {<<>>, <<p>>}
    BY DEF FileInv, TempInv
  <2> QED BY <2>1
<1> QED BY <1>1, <1>2, <1>3, <1>4 DEF FilesAreSound

-----------------------------------------------------------------------------
(* Numbers: what the proofs use instead of induction. *)

\* A set of numbers has a least one, and a greatest one if it has a bound.
LEMMA Least ==
  ASSUME NEW T \in SUBSET Nat, T # {}
  PROVE  \E x \in T : \A y \in T : x <= y
<1> DEFINE R == OpToRel(<, Nat)
<1>1. IsWellFoundedOn(R, Nat)
  BY NatLessThanWellFounded
<1>2. \A x, y \in Nat : x < y => <<x, y>> \in R
  BY DEF OpToRel
<1> HIDE DEF R
<1>3. PICK x \in T : \A y \in T : ~(<<y, x>> \in R)
  BY <1>1, WFMin
<1>4. ASSUME NEW y \in T PROVE x <= y
  <2>1. x \in Nat /\ y \in Nat /\ ~(y < x)
    BY <1>2, <1>3
  <2> QED BY <2>1
<1> QED BY <1>4

LEMMA Most ==
  ASSUME NEW n \in Nat, NEW T \in SUBSET (0..n), T # {}
  PROVE  \E x \in T : \A y \in T : y <= x
<1> DEFINE U == {n - t : t \in T}
<1>0. \A t \in T : t \in 0..n /\ n - t \in Nat
  OBVIOUS
<1>1. U \in SUBSET Nat /\ U # {}
  BY <1>0
<1>2. PICK u \in U : \A v \in U : u <= v
  BY <1>1, Least
<1>3. PICK x \in T : u = n - x
  BY <1>2
<1>4. ASSUME NEW y \in T PROVE y <= x
  <2>1. x \in 0..n /\ y \in 0..n /\ n - x <= n - y
    BY <1>0, <1>2, <1>3
  <2> QED BY <2>1
<1> QED BY <1>4

-----------------------------------------------------------------------------
(* Directories. *)

\* How many names there are before a place in a path.
LEMMA DepthSteps ==
  ASSUME NEW s, NEW k \in Nat
  PROVE  /\ Depth(s, k) \in Nat /\ Depth(s, 0) = 0
         /\ Depth(s, k + 1) = IF s[k + 1] = Slash THEN Depth(s, k) ELSE Depth(s, k) + 1
<1> DEFINE J(n) == {j \in 1..n : s[j] # Slash}
<1>1. IsFiniteSet(J(k)) /\ Cardinality(J(k)) \in Nat
  <2>1. IsFiniteSet(1..k) /\ J(k) \in SUBSET (1..k)
    BY FS_Interval
  <2> QED BY <2>1, FS_Subset, FS_CardinalityType
<1>2. J(0) = {}
  OBVIOUS
<1>3. CASE s[k + 1] = Slash
  <2>1. J(k + 1) = J(k)
    BY <1>3
  <2> QED BY <1>1, <1>2, <1>3, <2>1, FS_EmptySet DEF Depth
<1>4. CASE s[k + 1] # Slash
  <2>1. J(k + 1) = J(k) \cup {k + 1} /\ k + 1 \notin J(k)
    BY <1>4
  <2> DEFINE S == J(k) x == k + 1
  <2> HIDE DEF S, x
  <2>2. Cardinality(S \cup {x}) = IF x \in S THEN Cardinality(S) ELSE Cardinality(S) + 1
    BY <1>1, FS_AddElement DEF S
  <2>3. Cardinality(J(k + 1)) = Cardinality(J(k)) + 1
    BY <2>1, <2>2 DEF S, x
  <2> QED BY <1>1, <1>2, <1>4, <2>3, FS_EmptySet DEF Depth
<1> QED BY <1>3, <1>4

LEMMA DepthGrows ==
  ASSUME NEW s, NEW i \in Nat, NEW j \in Nat, i <= j
  PROVE  Depth(s, i) <= Depth(s, j)
<1> DEFINE J(n) == {l \in 1..n : s[l] # Slash}
<1>1. IsFiniteSet(J(j)) /\ J(i) \in SUBSET J(j)
  <2>1. IsFiniteSet(1..j) /\ J(j) \in SUBSET (1..j)
    BY FS_Interval
  <2> QED BY <2>1, FS_Subset
<1>2. Cardinality(J(i)) <= Cardinality(J(j))
  BY <1>1, FS_Subset
<1> QED BY <1>2 DEF Depth

\* A name is the only one at its depth.
LEMMA DepthIsOwn ==
  ASSUME NEW s, NEW i \in Nat \ {0}, NEW j \in Nat \ {0}, s[i] # Slash, s[j] # Slash, Depth(s, i) = Depth(s, j)
  PROVE  i = j
<1>1. ASSUME NEW x \in Nat, NEW y \in Nat \ {0}, x < y, s[y] # Slash PROVE Depth(s, x) < Depth(s, y)
  <2> DEFINE z == y - 1
  <2>1. z \in Nat /\ y = z + 1 /\ x <= z
    BY <1>1
  <2> HIDE DEF z
  <2>2. Depth(s, x) <= Depth(s, z) /\ Depth(s, y) = Depth(s, z) + 1
    BY <1>1, <2>1, DepthGrows, DepthSteps
  <2>3. Depth(s, x) \in Nat /\ Depth(s, z) \in Nat
    BY <2>1, DepthSteps
  <2> QED BY <2>2, <2>3
<1>2. Depth(s, i) \in Nat
  BY DepthSteps
<1>3. ~(i < j) /\ ~(j < i)
  BY <1>1, <1>2
<1> QED BY <1>3

\* There is a name at each depth.
LEMMA DepthIsTaken ==
  ASSUME NEW s, NEW n \in Nat, NEW d \in 1..Depth(s, n)
  PROVE  \E k \in 1..n : s[k] # Slash /\ Depth(s, k) = d
<1> DEFINE T == {k \in 0..n : d <= Depth(s, k)}
<1>0. Depth(s, n) \in Nat
  BY DepthSteps
<1>1. n \in T /\ T \in SUBSET Nat
  BY <1>0
<1>2. PICK k \in T : \A y \in T : k <= y
  BY <1>1, Least
<1>3. k # 0 /\ k \in 1..n
  BY <1>2, DepthSteps, <1>0
<1> DEFINE z == k - 1
<1>4. z \in Nat /\ z \in 0..n /\ k = z + 1
  BY <1>3
<1>5. z \notin T
  BY <1>2, <1>4
<1> HIDE DEF z
<1>6. Depth(s, z) \in Nat /\ Depth(s, z) < d
  BY <1>4, <1>5, DepthSteps, <1>0
<1>7. d <= Depth(s, k)
  BY <1>2
<1>8. Depth(s, k) = IF s[k] = Slash THEN Depth(s, z) ELSE Depth(s, z) + 1
  BY <1>4, DepthSteps
<1> QED BY <1>0, <1>3, <1>6, <1>7, <1>8

\* The names in a prefix.
NamesTo(s, n) ==
  [d \in 1..Depth(s, n) |-> s[CHOOSE k \in 1..n : s[k] # Slash /\ Depth(s, k) = d]]

LEMMA NamesOfPrefix ==
  ASSUME NEW s \in Seq(Parts), NEW n \in 0..Len(s)
  PROVE  Names(SubSeq(s, 1, n)) = NamesTo(s, n)
<1> DEFINE t == SubSeq(s, 1, n)
<1>1. t \in Seq(Parts) /\ Len(t) = n /\ DOMAIN t = 1..n /\ \A i \in 1..n : t[i] = s[i]
  <2>1. \A i \in 1..n : s[i] \in Parts
    BY LenProperties
  <2>2. 1 \in Int /\ n \in Int
    OBVIOUS
  <2>3. t \in Seq(Parts) /\ Len(t) = (IF 1 <= n THEN n - 1 + 1 ELSE 0) /\ \A i \in 1..(n - 1 + 1) : t[i] = s[1 + i - 1]
    BY <2>1, <2>2, SubSeqProperties
  <2>4. Len(t) = n /\ \A i \in 1..n : t[i] = s[i]
    BY <2>3
  <2> QED BY <2>3, <2>4, LenProperties
<1> HIDE DEF t
<1>2. \A k \in 0..n : Depth(t, k) = Depth(s, k)
  <2>1. SUFFICES ASSUME NEW k \in 0..n PROVE Depth(t, k) = Depth(s, k)
    OBVIOUS
  <2>2. {j \in 1..k : t[j] # Slash} = {j \in 1..k : s[j] # Slash}
    BY <1>1
  <2> QED BY <2>2 DEF Depth
<1>3. Depth(t, Len(t)) = Depth(s, n)
  BY <1>1, <1>2
<1> DEFINE A(d) == CHOOSE k \in DOMAIN t : t[k] # Slash /\ Depth(t, k) = d
           B(d) == CHOOSE k \in 1..n : s[k] # Slash /\ Depth(s, k) = d
<1>4. ASSUME NEW d \in 1..Depth(s, n) PROVE t[A(d)] = s[B(d)]
  <2>1. \E k \in 1..n : s[k] # Slash /\ Depth(s, k) = d
    BY DepthIsTaken
  <2>2. \E k \in DOMAIN t : t[k] # Slash /\ Depth(t, k) = d
    BY <2>1, <1>1, <1>2
  <2> DEFINE a == A(d) b == B(d)
  <2>3. a \in DOMAIN t /\ t[a] # Slash /\ Depth(t, a) = d
    BY <2>2
  <2>4. b \in 1..n /\ s[b] # Slash /\ Depth(s, b) = d
    BY <2>1
  <2> HIDE DEF a, b
  <2>5. a \in 1..n /\ s[a] # Slash /\ Depth(s, a) = d /\ t[a] = s[a]
    BY <2>3, <1>1, <1>2
  <2>6. a \in Nat \ {0} /\ b \in Nat \ {0}
    BY <2>4, <2>5
  <2>7. a = b
    BY <2>4, <2>5, <2>6, DepthIsOwn
  <2>8. t[a] = s[b]
    BY <2>5, <2>7
  <2> QED BY <2>8 DEF a, b
<1>5. Names(t) = [d \in 1..Depth(t, Len(t)) |-> t[A(d)]] /\ NamesTo(s, n) = [d \in 1..Depth(s, n) |-> s[B(d)]]
  BY DEF Names, NamesTo
<1> HIDE DEF A, B
<1>6. Names(t) = NamesTo(s, n)
  BY <1>3, <1>4, <1>5
<1> QED BY <1>6 DEF t

\* A slash adds nothing to the names, and a name adds itself.
LEMMA NamesStep ==
  ASSUME NEW s \in Seq(Parts), NEW n \in Nat, n < Len(s)
  PROVE  /\ NamesTo(s, n) \in Seq(Parts)
         /\ NamesTo(s, n + 1) = IF s[n + 1] = Slash THEN NamesTo(s, n) ELSE Append(NamesTo(s, n), s[n + 1])
<1> DEFINE At(m, d) == CHOOSE k \in 1..m : s[k] # Slash /\ Depth(s, k) = d
<1>0. Len(s) \in Nat /\ n + 1 \in Nat
  BY LenProperties
<1>1. ASSUME NEW m \in Nat, NEW d \in 1..Depth(s, m)
      PROVE  At(m, d) \in 1..m /\ s[At(m, d)] # Slash /\ Depth(s, At(m, d)) = d
  BY DepthIsTaken
<1>2. Depth(s, n) \in Nat /\ Depth(s, n + 1) = IF s[n + 1] = Slash THEN Depth(s, n) ELSE Depth(s, n) + 1
  BY DepthSteps
<1>3. ASSUME NEW d \in 1..Depth(s, n) PROVE At(n, d) = At(n + 1, d)
  <2>1. d \in 1..Depth(s, n + 1)
    BY <1>2
  <2>2. At(n, d) \in 1..n /\ s[At(n, d)] # Slash /\ Depth(s, At(n, d)) = d
    BY <1>1
  <2>3. At(n + 1, d) \in 1..(n + 1) /\ s[At(n + 1, d)] # Slash /\ Depth(s, At(n + 1, d)) = d
    BY <1>0, <1>1, <2>1
  <2> DEFINE a == At(n, d) b == At(n + 1, d)
  <2>4. a \in Nat \ {0} /\ b \in Nat \ {0} /\ s[a] # Slash /\ s[b] # Slash /\ Depth(s, a) = Depth(s, b)
    BY <2>2, <2>3
  <2> HIDE DEF a, b
  <2>5. a = b
    BY <2>4, DepthIsOwn
  <2> QED BY <2>5 DEF a, b
<1>4. ASSUME NEW d \in 1..Depth(s, n) PROVE s[At(n, d)] \in Parts
  <2>1. At(n, d) \in 1..n
    BY <1>1
  <2>2. At(n, d) \in 1..Len(s)
    BY <2>1, <1>0
  <2> QED BY <2>2, LenProperties
<1>5. NamesTo(s, n) = [d \in 1..Depth(s, n) |-> s[At(n, d)]]
  BY DEF NamesTo
<1>6. NamesTo(s, n + 1) = [d \in 1..Depth(s, n + 1) |-> s[At(n + 1, d)]]
  BY DEF NamesTo
<1> HIDE DEF At
<1> DEFINE c == NamesTo(s, n)
<1>7. c \in [1..Depth(s, n) -> Parts]
  BY <1>4, <1>5
<1>8. c \in Seq(Parts) /\ Len(c) = Depth(s, n)
  <2>1. c \in Seq(Parts)
    BY <1>2, <1>7, SeqDef
  <2>2. DOMAIN c = 1..Depth(s, n) /\ DOMAIN c = 1..Len(c) /\ Len(c) \in Nat
    BY <1>7, <2>1, LenProperties
  <2> QED BY <1>2, <2>1, <2>2
<1>9. CASE s[n + 1] = Slash
  <2>1. Depth(s, n + 1) = Depth(s, n)
    BY <1>2, <1>9
  <2>2. NamesTo(s, n + 1) = c
    BY <1>3, <1>5, <1>6, <2>1
  <2> QED BY <1>8, <1>9, <2>2
<1>10. CASE s[n + 1] # Slash
  <2>1. Depth(s, n + 1) = Depth(s, n) + 1
    BY <1>2, <1>10
  <2> DEFINE e == s[n + 1] D == Depth(s, n)
  <2>2. e \in Parts
    BY <1>0, LenProperties
  <2>3. At(n + 1, D + 1) = n + 1
    <3>1. D + 1 \in 1..Depth(s, n + 1)
      BY <1>2, <2>1
    <3> DEFINE a == At(n + 1, D + 1) b == n + 1
    <3>2. a \in 1..(n + 1) /\ s[a] # Slash /\ Depth(s, a) = D + 1
      BY <1>0, <1>1, <3>1
    <3>3. a \in Nat \ {0} /\ b \in Nat \ {0} /\ s[b] # Slash /\ Depth(s, a) = Depth(s, b)
      BY <3>2, <2>1, <1>10
    <3> HIDE DEF a, b
    <3>4. a = b
      BY <3>2, <3>3, DepthIsOwn
    <3> QED BY <3>4 DEF a, b
  <2> DEFINE f == NamesTo(s, n + 1) g == Append(c, e)
  <2>4. g \in Seq(Parts) /\ Len(g) = D + 1 /\ (\A i \in 1..D : g[i] = c[i]) /\ g[D + 1] = e
    BY <1>8, <2>2, AppendProperties
  <2>5. g \in [1..(D + 1) -> Parts]
    BY <2>4, LenProperties
  <2>6. f = [d \in 1..(D + 1) |-> s[At(n + 1, d)]]
    BY <1>6, <2>1
  <2>7. ASSUME NEW d \in 1..(D + 1) PROVE s[At(n + 1, d)] = g[d]
    <3>1. CASE d = D + 1
      BY <3>1, <2>3, <2>4
    <3>2. CASE d # D + 1
      <4>1. d \in 1..D
        BY <1>2, <3>2
      <4>2. g[d] = c[d] /\ c[d] = s[At(n, d)] /\ At(n, d) = At(n + 1, d)
        BY <4>1, <2>4, <1>5, <1>3
      <4> QED BY <4>2
    <3> QED BY <3>1, <3>2
  <2> HIDE DEF f, g, e, D
  <2>8. f = g
    BY <2>5, <2>6, <2>7
  <2> QED BY <1>8, <1>10, <2>8 DEF f, g, e
<1> QED BY <1>9, <1>10

LEMMA NamesWhole ==
  ASSUME NEW s \in Seq(Parts)
  PROVE  Names(s) = NamesTo(s, Len(s)) /\ NamesTo(s, 0) = <<>>
<1>1. Len(s) \in 0..Len(s) /\ SubSeq(s, 1, Len(s)) = s
  BY LenProperties, SubSeqFull
<1>2. Names(SubSeq(s, 1, Len(s))) = NamesTo(s, Len(s))
  BY <1>1, NamesOfPrefix
<1>3. Depth(s, 0) = 0
  BY DepthSteps
<1> DEFINE B(d) == CHOOSE k \in 1..0 : s[k] # Slash /\ Depth(s, k) = d
<1>4. NamesTo(s, 0) = [d \in 1..0 |-> s[B(d)]]
  BY <1>3 DEF NamesTo
<1> HIDE DEF B
<1>5. NamesTo(s, 0) = <<>>
  BY <1>4
<1> QED BY <1>1, <1>2, <1>5

\* ffdir_make_all() has made all up to this place, which comes after a slash.
MadeTo(D, s, o) ==
  /\ NamesTo(s, o) \in D
  /\ o = 0 => s = <<>> \/ (s[1] # Slash /\ s[1] # Drive)
  /\ o = 0 \/ s[o] = Slash \/ o = Len(s)

MakerInv(m) ==
  /\ path[m] \in Seq(Parts) /\ IsPath(path[m]) /\ off[m] \in 0..Len(path[m])
  /\ maker[m] \in {"idle", "makes", "ok", "error"}
  /\ maker[m] = "makes" => MadeTo(dirs \cup FilesNow, path[m], off[m])
  /\ maker[m] = "ok" => Names(path[m]) \in dirs \cup FilesNow
  /\ maker[m] = "error" => path[m] = <<>> \/ AsksForRoot(path[m]) \/ InTheWay(path[m])

MkInv ==
  /\ <<>> \in dirs /\ <<Drive>> \in dirs
  /\ path \in [Makers -> Seq(Parts)] /\ off \in [Makers -> Nat]
  /\ maker \in [Makers -> {"idle", "makes", "ok", "error"}]
  /\ \A m \in Makers : MakerInv(m)

LEMMA SkipMade ==
  ASSUME NEW D, NEW s \in Seq(Parts), NEW k \in 0..Len(s), NamesTo(s, k) \in D,
         k = Len(s) \/ s[k + 1] = Slash \/ (k = 0 /\ s[1] # Drive)
  PROVE  Skip(s, k) \in 0..Len(s) /\ MadeTo(D, s, Skip(s, k))
<1>1. Len(s) \in Nat /\ k \in Nat /\ k <= Len(s) /\ (s # <<>> => Len(s) # 0)
  BY LenProperties, EmptySeq
<1>2. CASE k < Len(s) /\ s[k + 1] = Slash
  <2> DEFINE n == k + 1
  <2>1. n \in 0..Len(s) /\ n # 0
    BY <1>1, <1>2
  <2>2. Skip(s, k) = n
    BY <1>2 DEF Skip
  <2>3. NamesTo(s, n) = NamesTo(s, k) /\ s[n] = Slash
    BY <1>1, <1>2, NamesStep
  <2> HIDE DEF n
  <2>4. MadeTo(D, s, n)
    BY <2>1, <2>3 DEF MadeTo
  <2> QED BY <2>1, <2>2, <2>4
<1>3. CASE ~(k < Len(s) /\ s[k + 1] = Slash)
  <2>1. Skip(s, k) = k
    BY <1>3 DEF Skip
  <2>2. CASE k = Len(s)
    <3>1. k = 0 => s = <<>>
      BY <1>1, <2>2
    <3> QED BY <2>1, <2>2, <3>1 DEF MadeTo
  <2>3. CASE k # Len(s)
    <3>1. s[k + 1] # Slash
      BY <1>1, <1>3, <2>3
    <3>2. k = 0 /\ s[1] # Drive
      BY <3>1, <2>3
    <3>3. s[1] # Slash
      BY <3>1, <3>2
    <3> QED BY <2>1, <3>2, <3>3 DEF MadeTo
  <2> QED BY <2>2, <2>3
<1> QED BY <1>2, <1>3

\* An existing prefix of the path is where ffdir_make_all() may begin.
LEMMA BeginMade ==
  ASSUME NEW s \in Seq(Parts), IsPath(s), NEW o \in 0..Len(s), <<>> \in dirs, <<Drive>> \in dirs,
         o # 0 => NamesTo(s, o) \in dirs /\ (o = Len(s) \/ s[o + 1] = Slash)
  PROVE  Begin(s, o) \in 0..Len(s) /\ MadeTo(dirs, s, Begin(s, o))
<1>1. Len(s) \in Nat /\ DOMAIN s = 1..Len(s) /\ (s # <<>> => Len(s) # 0) /\ NamesTo(s, 0) = <<>>
  BY LenProperties, NamesWhole, EmptySeq
<1>2. ASSUME NEW k \in 0..Len(s), NamesTo(s, k) \in dirs, k = Len(s) \/ s[k + 1] = Slash \/ (k = 0 /\ s[1] # Drive)
      PROVE  Skip(s, k) \in 0..Len(s) /\ MadeTo(dirs, s, Skip(s, k))
  BY <1>2, SkipMade
<1>3. CASE o = 0 /\ s # <<>> /\ s[1] = Drive
  <2>1. Begin(s, o) = Skip(s, 1) /\ 1 \in 0..Len(s)
    BY <1>1, <1>3 DEF Begin
  <2>2. NamesTo(s, 0 + 1) = Append(NamesTo(s, 0), s[0 + 1])
    <3>1. 0 \in Nat /\ 0 < Len(s) /\ s[0 + 1] # Slash
      BY <1>1, <1>3 DEF Drive, Slash
    <3> QED BY <3>1, NamesStep
  <2>3. NamesTo(s, 1) \in dirs
    <3>1. NamesTo(s, 1) = <<Drive>>
      BY <1>1, <1>3, <2>2
    <3> QED BY <3>1
  <2>4. 1 = Len(s) \/ s[1 + 1] = Slash
    <3>1. CASE Len(s) = 1
      BY <3>1
    <3>2. CASE Len(s) # 1
      <4>1. 1 \in 1..(Len(s) - 1)
        BY <1>1, <1>3, <3>2
      <4> QED BY <1>3, <4>1 DEF IsPath, Drive, Slash
    <3> QED BY <3>1, <3>2
  <2> QED BY <1>2, <2>1, <2>3, <2>4
<1>4. CASE ~(o = 0 /\ s # <<>> /\ s[1] = Drive)
  <2>1. Begin(s, o) = Skip(s, o)
    BY <1>4, SMTT(30) DEF Begin
  <2>2. NamesTo(s, o) \in dirs
    BY <1>1, ZenonT(60)
  <2>3. o = Len(s) \/ s[o + 1] = Slash \/ (o = 0 /\ s[1] # Drive)
    BY <1>1, <1>4, EmptySeq
  <2> QED BY <1>2, <2>1, <2>2, <2>3
<1> QED BY <1>3, <1>4

\* One process goes on; the directories only grow, and so the others' are still there.
LEMMA MakerSteps ==
  ASSUME MkInv, NEW m \in Makers, dirs \subseteq dirs',
         NEW s \in Seq(Parts), NEW o \in Nat, NEW st \in {"idle", "makes", "ok", "error"},
         path' = [path EXCEPT ![m] = s], off' = [off EXCEPT ![m] = o], maker' = [maker EXCEPT ![m] = st],
         IsPath(s), o \in 0..Len(s),
         st = "makes" => MadeTo(dirs' \cup FilesNow, s, o),
         st = "ok" => Names(s) \in dirs' \cup FilesNow,
         st = "error" => s = <<>> \/ AsksForRoot(s) \/ InTheWay(s)
  PROVE  MkInv'
<1>1. path'[m] = s /\ off'[m] = o /\ maker'[m] = st
  BY DEF MkInv
<1>2. MakerInv(m)'
  BY <1>1 DEF MakerInv, MadeTo
<1>3. ASSUME NEW q \in Makers, q # m PROVE MakerInv(q)'
  <2>1. path'[q] = path[q] /\ off'[q] = off[q] /\ maker'[q] = maker[q] /\ MakerInv(q)
    BY <1>3 DEF MkInv
  <2> QED BY <2>1 DEF MakerInv, MadeTo
<1> QED BY <1>2, <1>3 DEF MkInv

LEMMA MakeAllInv ==
  ASSUME MkInv, NEW m \in Makers, NEW o \in Known(path[m]), MakeAll(m, o)
  PROVE  MkInv'
<1> DEFINE s == path[m] b == Begin(s, o)
<1>1. s \in Seq(Parts) /\ IsPath(s) /\ <<>> \in dirs /\ <<Drive>> \in dirs /\ Len(s) \in Nat
  BY LenProperties DEF MkInv, MakerInv
<1>2. o \in 0..Len(s) /\ (o # 0 => NamesTo(s, o) \in dirs /\ (o = Len(s) \/ s[o + 1] = Slash))
  BY <1>1, NamesOfPrefix DEF Known
<1> HIDE DEF s
<1>3. b \in 0..Len(s) /\ MadeTo(dirs, s, b)
  BY <1>1, <1>2, BeginMade
<1>4. b \in Nat
  BY <1>1, <1>3
<1>5. path' = [path EXCEPT ![m] = s] /\ off' = [off EXCEPT ![m] = b] /\ maker' = [maker EXCEPT ![m] = "makes"] /\ dirs' = dirs
  BY DEF MakeAll, s, MkInv
<1>6. MadeTo(dirs' \cup FilesNow, s, b)
  BY <1>3, <1>5 DEF MadeTo, s
<1> HIDE DEF b
<1> QED BY <1>1, <1>3, <1>4, <1>5, <1>6, MakerSteps

\* A prefix of a path is a path.
LEMMA PrefixIsPath ==
  ASSUME NEW s \in Seq(Parts), IsPath(s), NEW n \in 0..Len(s)
  PROVE  SubSeq(s, 1, n) \in Seq(Parts) /\ IsPath(SubSeq(s, 1, n)) /\ Len(SubSeq(s, 1, n)) = n
<1> DEFINE t == SubSeq(s, 1, n)
<1>1. Len(s) \in Nat /\ DOMAIN s = 1..Len(s) /\ \A i \in 1..n : s[i] \in Parts
  BY LenProperties
<1>2. t \in Seq(Parts) /\ Len(t) = (IF 1 <= n THEN n - 1 + 1 ELSE 0) /\ \A i \in 1..(n - 1 + 1) : t[i] = s[1 + i - 1]
  <2>1. 1 \in Int /\ n \in Int
    OBVIOUS
  <2> QED BY <1>1, <2>1, SubSeqProperties
<1>3. t \in Seq(Parts) /\ Len(t) = n /\ \A i \in 1..n : t[i] = s[i]
  BY <1>2
<1>4. DOMAIN t = 1..n
  BY <1>3, LenProperties
<1> HIDE DEF t
<1>5. IsPath(t)
  BY <1>1, <1>3, <1>4 DEF IsPath
<1> QED BY <1>3, <1>5 DEF t

LEMMA ParentIsPrefix ==
  ASSUME NEW s \in Seq(Parts)
  PROVE  \E n \in 0..Len(s) : Parent(s) = SubSeq(s, 1, n)
<1> DEFINE P(k) == (k = 0 \/ s[k] = Slash) /\ \A j \in Slashes(s) : j <= k
           T == {Len(s) - k : k \in {k \in 0..Len(s) : k = 0 \/ s[k] = Slash}}
<1>1. Len(s) \in Nat
  BY LenProperties
<1>2. T \in SUBSET Nat /\ Len(s) - 0 \in T
  BY <1>1
<1>3. PICK x \in T : \A y \in T : x <= y
  BY <1>2, Least
<1>4. PICK k \in 0..Len(s) : (k = 0 \/ s[k] = Slash) /\ x = Len(s) - k
  BY <1>3
<1>5. ASSUME NEW j \in Slashes(s) PROVE j <= k
  <2>1. j \in 1..Len(s) /\ s[j] = Slash
    BY DEF Slashes
  <2>2. Len(s) - j \in T
    BY <2>1, <1>1
  <2>3. x <= Len(s) - j
    BY <1>3, <2>2
  <2> QED BY <1>1, <1>4, <2>1, <2>3
<1>6. \E l \in 0..Len(s) : P(l)
  BY <1>4, <1>5
<1> DEFINE c == CHOOSE l \in 0..Len(s) : P(l)
<1>7. c \in 0..Len(s) /\ Parent(s) = SubSeq(s, 1, c - 1)
  BY <1>6 DEF Parent
<1> HIDE DEF c
<1>8. CASE c = 0
  <2>1. SubSeq(s, 1, c - 1) = <<>> /\ SubSeq(s, 1, 0) = <<>>
    BY <1>8, SubSeqEmpty
  <2> QED BY <1>1, <1>7, <2>1
<1>9. CASE c # 0
  <2>1. c - 1 \in 0..Len(s)
    BY <1>1, <1>7, <1>9
  <2> QED BY <1>7, <2>1
<1> QED BY <1>8, <1>9

LEMMA MakePathInv == ASSUME MkInv, NEW m \in Makers, MakePath(m) PROVE MkInv'
<1> DEFINE s == Parent(path[m]) b == Begin(s, 0) st == IF s = <<>> THEN "ok" ELSE "makes"
<1>1. path[m] \in Seq(Parts) /\ IsPath(path[m]) /\ <<>> \in dirs /\ <<Drive>> \in dirs
  BY DEF MkInv, MakerInv
<1>2. s \in Seq(Parts) /\ IsPath(s) /\ Len(s) \in Nat /\ 0 \in 0..Len(s)
  <2>1. PICK n \in 0..Len(path[m]) : s = SubSeq(path[m], 1, n)
    BY <1>1, ParentIsPrefix
  <2>2. s \in Seq(Parts) /\ IsPath(s)
    BY <1>1, <2>1, PrefixIsPath
  <2> QED BY <2>2, LenProperties
<1>3. path' = [path EXCEPT ![m] = s] /\ off' = [off EXCEPT ![m] = b] /\ maker' = [maker EXCEPT ![m] = st] /\ dirs' = dirs
  BY DEF MakePath
<1> HIDE DEF s
<1>4. b \in 0..Len(s) /\ MadeTo(dirs, s, b)
  BY <1>1, <1>2, BeginMade
<1>5. st = "ok" => Names(s) \in dirs
  <2>1. SUFFICES ASSUME s = <<>> PROVE Names(s) \in dirs
    OBVIOUS
  <2>2. Len(s) = 0
    BY <2>1
  <2> QED BY <1>1, <1>2, <2>2, NamesWhole
<1>6. st \in {"idle", "makes", "ok", "error"} /\ st # "error" /\ b \in Nat
  BY <1>2, <1>4
<1>7. st = "makes" => MadeTo(dirs' \cup FilesNow, s, b)
  BY <1>3, <1>4 DEF MadeTo, s
<1>8. st = "ok" => Names(s) \in dirs' \cup FilesNow
  BY <1>3, <1>5
<1> HIDE DEF b, st
<1> QED BY <1>2, <1>3, <1>4, <1>6, <1>7, <1>8, MakerSteps

\* A path that leads to the root of a drive.
LEMMA DriveAlone ==
  ASSUME NEW s, NEW k \in Nat, NamesTo(s, k) = <<Drive>>
  PROVE  Depth(s, k) = 1 /\ \E b \in 1..k : s[b] = Drive
<1> DEFINE B(d) == CHOOSE j \in 1..k : s[j] # Slash /\ Depth(s, j) = d
<1>1. NamesTo(s, k) = [d \in 1..Depth(s, k) |-> s[B(d)]]
  BY DEF NamesTo
<1>2. Depth(s, k) \in Nat
  BY DepthSteps
<1>3. 1 \in 1..Depth(s, k) => B(1) \in 1..k
  BY DepthIsTaken
<1> HIDE DEF B
<1>4. 1..Depth(s, k) = 1..1 /\ <<Drive>>[1] = Drive
  BY <1>1
<1>5. Depth(s, k) = 1
  BY <1>2, <1>4
<1>6. s[B(1)] = Drive
  BY <1>1, <1>4, <1>5
<1> QED BY <1>3, <1>5, <1>6

LEMMA RootNames ==
  ASSUME NEW D, NEW s \in Seq(Parts), IsPath(s), NEW o \in Nat, NEW k \in Nat, o <= k, k <= Len(s),
         MadeTo(D, s, o), k = Len(s) \/ s[k + 1] = Slash, Depth(s, k) = 1, \E b \in 1..k : s[b] = Drive
  PROVE  AsksForRoot(s)
<1>0. DOMAIN s = 1..Len(s)
  BY LenProperties
<1>1. Len(s) \in Nat
  BY LenProperties
<1>2. Depth(s, 0) = 0
  BY DepthSteps
<1>4. s[1] = Drive /\ 1 \in 1..Len(s) /\ k # 0
  <2>1. PICK b \in 1..k : s[b] = Drive
    OBVIOUS
  <2>2. b \in 1..Len(s)
    BY <1>1, SMTT(30)
  <2>3. b = 1
    <3>1. b \in DOMAIN s
      BY <1>0, <2>2, Zenon
    <3>2. \A j \in DOMAIN s : s[j] = Drive => j = 1
      BY Zenon DEF IsPath
    <3> QED BY <2>1, <3>1, <3>2, Zenon
  <2>4. k # 0
    BY <2>1, SMTT(30)
  <2> QED BY <2>1, <2>2, <2>3, <2>4
<1>5. HasDrive(s)
  <2>1. 1 \in DOMAIN s
    BY <1>0, <1>4, Zenon
  <2> QED BY <1>4, <2>1, Zenon DEF HasDrive
<1>6. ASSUME Len(s) > 2, s[3] # Slash PROVE FALSE
  <2>1. CASE k >= 3
    <3>1. Depth(s, 0 + 1) = Depth(s, 0) + 1
      <4>1. Slash # Drive
        BY DEF Slash, Drive
      <4>2. 0 \in Nat /\ s[0 + 1] # Slash
        BY <1>4, <4>1
      <4> QED BY <4>2, DepthSteps
    <3>2. Depth(s, 2 + 1) = Depth(s, 2) + 1
      <4>1. 2 \in Nat /\ s[2 + 1] # Slash
        BY <1>6
      <4> QED BY <4>1, DepthSteps
    <3>3. Depth(s, 1) <= Depth(s, 2) /\ Depth(s, 3) <= Depth(s, k) /\ Depth(s, 2) \in Nat
      BY <2>1, DepthGrows, DepthSteps
    <3> QED BY <1>2, <3>1, <3>2, <3>3
  <2>2. CASE k = 2
    BY <1>1, <1>6, <2>2
  <2>3. CASE k = 1
    <3>1. CASE o = 0
      BY <1>4, <3>1 DEF MadeTo
    <3>2. CASE o = 1
      <4>1. s[1] = Slash \/ 1 = Len(s)
        BY <3>2 DEF MadeTo
      <4>2. Slash # Drive
        BY DEF Slash, Drive
      <4>3. Len(s) = 1
        BY <1>4, <4>1, <4>2
      <4>4. ~(Len(s) > 2)
        BY <4>3
      <4> QED BY <1>6, <4>4
    <3> QED BY <2>3, <3>1, <3>2
  <2> QED BY <1>4, <2>1, <2>2, <2>3
<1> QED BY <1>1, <1>5, <1>6 DEF AsksForRoot

\* The next directory that ffdir_make_all() makes: its parent is what was made last.
LEMMA NextDir ==
  ASSUME NEW D, NEW s \in Seq(Parts), IsPath(s), NEW o \in Nat, NEW k \in Nat, o < k, k <= Len(s),
         MadeTo(D, s, o), \A j \in o..(k - 1) : s[j + 1] # Slash
  PROVE  LET c == NamesTo(s, k) IN
         k = o + 1 /\ s[k] # Slash /\ SubSeq(c, 1, Len(c) - 1) = NamesTo(s, o) /\ NamesTo(s, o) \in D
<1>1. Len(s) \in Nat
  BY LenProperties
<1>2. k = o + 1
  <2>1. CASE o + 1 < k
    <3> DEFINE n == o + 1
    <3>1. n \in 1..(Len(s) - 1) /\ o \in o..(k - 1) /\ n \in o..(k - 1)
      BY <1>1, <2>1
    <3>2. s[n] # Slash /\ s[n + 1] # Slash
      BY <3>1
    <3> HIDE DEF n
    <3> QED BY <3>1, <3>2 DEF IsPath
  <2> QED BY <2>1
<1>3. o \in o..(k - 1)
  BY <1>2
<1>4. s[o + 1] # Slash
  BY <1>3
<1> DEFINE b == NamesTo(s, o) e == s[o + 1] c == NamesTo(s, k)
<1>5. b \in Seq(Parts) /\ c = Append(b, e)
  <2>1. o < Len(s)
    BY <1>1, <1>2
  <2>2. b \in Seq(Parts) /\ NamesTo(s, o + 1) = Append(b, e)
    BY <1>4, <2>1, NamesStep
  <2> QED BY <1>2, <2>2
<1>6. e \in Parts
  BY <1>1, <1>2, LenProperties
<1>7. b \in D
  BY DEF MadeTo
<1> HIDE DEF b, e, c
<1>8. c \in Seq(Parts) /\ Len(c) = Len(b) + 1 /\ (\A i \in 1..Len(b) : c[i] = b[i]) /\ Len(b) \in Nat
  BY <1>5, <1>6, AppendProperties, LenProperties
<1>9. Len(c) - 1 = Len(b)
  BY <1>8
<1>10. SubSeq(c, 1, Len(b)) = b
  <2> DEFINE t == SubSeq(c, 1, Len(b)) n == Len(b)
  <2>1. \A i \in 1..n : c[i] \in Parts
    BY <1>8, LenProperties
  <2>2. 1 \in Int /\ n \in Int
    BY <1>8
  <2> HIDE DEF n
  <2>3. t \in Seq(Parts) /\ Len(t) = (IF 1 <= n THEN n - 1 + 1 ELSE 0) /\ \A i \in 1..(n - 1 + 1) : t[i] = c[1 + i - 1]
    BY <2>1, <2>2, SubSeqProperties DEF n
  <2>4. Len(t) = Len(b) /\ \A i \in 1..Len(t) : t[i] = b[i]
    BY <1>8, <2>3 DEF n
  <2> HIDE DEF t
  <2>5. t = b
    BY <1>5, <2>3, <2>4, SeqEqual
  <2> QED BY <2>5 DEF t
<1> QED BY <1>2, <1>4, <1>7, <1>9, <1>10 DEF b, c

LEMMA MakeOneInv == ASSUME MkInv, NEW m \in Makers, MakeOne(m) PROVE MkInv'
<1> DEFINE s == path[m] o == off[m]
           P(k) == (k = Len(s) \/ s[k + 1] = Slash) /\ \A j \in o..(k - 1) : s[j + 1] # Slash
           k == CHOOSE k \in o..Len(s) : P(k)
           c == NamesTo(s, k)
           r == Mkdir(SubSeq(s, 1, k))
           st == IF Failed(r) THEN "error" ELSE IF k = Len(s) THEN "ok" ELSE "makes"
           n == IF k < Len(s) THEN k + 1 ELSE k
<1>1. /\ s \in Seq(Parts) /\ IsPath(s) /\ o \in Nat /\ o <= Len(s) /\ Len(s) \in Nat
      /\ (s # <<>> => Len(s) # 0)
  BY LenProperties, EmptySeq DEF MkInv, MakerInv
<1>2. MadeTo(dirs \cup FilesNow, s, o)
  BY DEF MakeOne, MkInv, MakerInv
<1>3. /\ dirs' = IF r = "ok" THEN dirs \cup {Names(SubSeq(s, 1, k))} ELSE dirs
      /\ maker' = [maker EXCEPT ![m] = st] /\ off' = [off EXCEPT ![m] = n]
      /\ path' = [path EXCEPT ![m] = s]
  BY DEF MakeOne, MkInv
<1>4. \E x \in o..Len(s) : P(x)
  <2> DEFINE T == {x \in o..Len(s) : x = Len(s) \/ s[x + 1] = Slash}
  <2>1. T \in SUBSET Nat /\ Len(s) \in T
    BY <1>1
  <2>2. PICK x \in T : \A y \in T : x <= y
    BY <2>1, Least
  <2>3. ASSUME NEW j \in o..(x - 1), s[j + 1] = Slash PROVE FALSE
    <3>1. x \in o..Len(s) /\ x \in Nat
      BY <2>1, <2>2
    <3>2. j \in o..Len(s) /\ j < x
      BY <1>1, <3>1
    <3>3. x <= j
      BY <2>2, <2>3, <3>2
    <3>4. j \in Nat
      BY <1>1, <3>2
    <3> QED BY <3>1, <3>2, <3>3, <3>4
  <2> QED BY <2>2, <2>3
<1>5. k \in o..Len(s) /\ P(k)
  BY <1>4
<1> HIDE DEF s, o, k
<1>6. k \in Nat /\ o <= k /\ k <= Len(s) /\ k \in 0..Len(s)
  BY <1>1, <1>5
<1>7. Names(SubSeq(s, 1, k)) = c /\ (SubSeq(s, 1, k) = <<>> <=> k = 0)
  <2>1. Names(SubSeq(s, 1, k)) = c
    BY <1>1, <1>6, NamesOfPrefix
  <2>2. SubSeq(s, 1, k) \in Seq(Parts) /\ Len(SubSeq(s, 1, k)) = k
    BY <1>1, <1>6, PrefixIsPath
  <2> QED BY <2>1, <2>2, EmptySeq
<1>8. CASE k = 0
  <2>1. o = 0 /\ s = <<>>
    BY <1>1, <1>2, <1>5, <1>6, <1>8 DEF MadeTo
  <2>2. r = "noent"
    BY <1>7, <1>8 DEF Mkdir
  <2>3. st = "error" /\ dirs' = dirs
    BY <1>3, <2>2 DEF Failed
  <2>4. n = 0 /\ n \in 0..Len(s)
    BY <1>1, <1>8, <2>1
  <2> HIDE DEF st, n, r
  <2>5. st \in {"idle", "makes", "ok", "error"} /\ n \in Nat /\ dirs \subseteq dirs'
    BY <2>3, <2>4
  <2>6. (st = "makes" => MadeTo(dirs' \cup FilesNow, s, n)) /\ (st = "ok" => Names(s) \in dirs' \cup FilesNow)
    BY <2>3
  <2>7. path' = [path EXCEPT ![m] = s] /\ off' = [off EXCEPT ![m] = n] /\ maker' = [maker EXCEPT ![m] = st]
    BY <1>3
  <2> QED BY <1>1, <2>1, <2>4, <2>5, <2>6, <2>7, MakerSteps
<1>9. CASE k # 0
  <2>1. c = <<Drive>> => AsksForRoot(s)
    <3>1. SUFFICES ASSUME c = <<Drive>> PROVE AsksForRoot(s)
      OBVIOUS
    <3>2. Depth(s, k) = 1 /\ \E b \in 1..k : s[b] = Drive
      BY <1>6, <3>1, DriveAlone
    <3> QED BY <1>1, <1>2, <1>5, <1>6, <3>2, RootNames
  <2>2. c \notin dirs \cup FilesNow => SubSeq(c, 1, Len(c) - 1) \in dirs \/ InTheWay(s)
    <3>1. CASE o = k
      BY <1>2, <3>1 DEF MadeTo
    <3>2. CASE o # k
      <4>1. o < k
        BY <1>1, <1>6, <3>2
      <4> DEFINE D == dirs \cup FilesNow
      <4>2. MadeTo(D, s, o)
        BY <1>2
      <4> HIDE DEF D
      <4>3. k = o + 1 /\ s[k] # Slash /\ SubSeq(c, 1, Len(c) - 1) = NamesTo(s, o) /\ NamesTo(s, o) \in D
        BY <1>1, <1>5, <1>6, <4>1, <4>2, NextDir
      <4>4. CASE NamesTo(s, o) \in FilesNow
        <5>1. o # 0
          BY <1>1, <4>4, NamesWhole, NowAssumption
        <5>2. o \in 0..Len(s) /\ o \in DOMAIN s /\ k \in DOMAIN s /\ o < k
          BY <1>1, <1>6, <4>1, <5>1, LenProperties
        <5>3. Names(SubSeq(s, 1, o)) = NamesTo(s, o)
          BY <1>1, <5>2, NamesOfPrefix
        <5> QED BY <4>3, <4>4, <5>2, <5>3 DEF InTheWay
      <4> QED BY <4>3, <4>4 DEF D
    <3> QED BY <3>1, <3>2
  <2> HIDE DEF c
  <2>3. \/ r = "denied" /\ c = <<Drive>>
        \/ r = "exist" /\ c \in dirs \cup FilesNow
        \/ r = "ok"
        \/ r = "noent" /\ InTheWay(s)
    BY <1>7, <1>9, <2>2 DEF Mkdir
  <2>4. /\ dirs \subseteq dirs' /\ st \in {"idle", "makes", "ok", "error"}
        /\ (st # "error" => c \in dirs' \cup FilesNow) /\ (st = "error" => AsksForRoot(s) \/ InTheWay(s))
        /\ (st = "ok" <=> st # "error" /\ k = Len(s))
    <3>1. CASE r = "denied" /\ c = <<Drive>>
      <4>1. st = "error" /\ dirs' = dirs
        BY <1>3, <3>1 DEF Failed
      <4> QED BY <2>1, <3>1, <4>1
    <3>2. CASE r = "exist" /\ c \in dirs \cup FilesNow
      <4>1. st = (IF k = Len(s) THEN "ok" ELSE "makes") /\ dirs' = dirs
        BY <1>3, <3>2 DEF Failed
      <4> HIDE DEF st
      <4> QED BY <3>2, <4>1
    <3>3. CASE r = "ok"
      <4>1. st = (IF k = Len(s) THEN "ok" ELSE "makes") /\ dirs' = dirs \cup {c}
        BY <1>3, <1>7, <3>3 DEF Failed
      <4> HIDE DEF st
      <4> QED BY <4>1
    <3>4. CASE r = "noent" /\ InTheWay(s)
      <4>1. st = "error" /\ dirs' = dirs
        BY <1>3, <3>4 DEF Failed
      <4> QED BY <3>4, <4>1
    <3> QED BY <2>3, <3>1, <3>2, <3>3, <3>4
  <2> HIDE DEF r, st
  <2>5. n \in 0..Len(s) /\ n \in Nat
    BY <1>1, <1>6
  <2>6. st = "ok" => Names(s) \in dirs' \cup FilesNow
    BY <1>1, <2>4, NamesWhole DEF c
  <2>7. st = "makes" => MadeTo(dirs' \cup FilesNow, s, n)
    <3>1. SUFFICES ASSUME st = "makes" PROVE MadeTo(dirs' \cup FilesNow, s, n)
      OBVIOUS
    <3>2. c \in dirs' \cup FilesNow /\ k # Len(s)
      BY <2>4, <3>1
    <3>3. k < Len(s) /\ n = k + 1 /\ s[k + 1] = Slash /\ k + 1 # 0
      BY <1>1, <1>5, <1>6, <3>2
    <3>4. NamesTo(s, k + 1) = c
      BY <1>1, <1>6, <3>3, NamesStep DEF c
    <3> QED BY <3>2, <3>3, <3>4 DEF MadeTo
  <2> HIDE DEF n
  <2>8. path' = [path EXCEPT ![m] = s] /\ off' = [off EXCEPT ![m] = n] /\ maker' = [maker EXCEPT ![m] = st]
    BY <1>3 DEF st, n
  <2> QED BY <1>1, <2>4, <2>5, <2>6, <2>7, <2>8, MakerSteps
<1> QED BY <1>8, <1>9

LEMMA MakeStepInv == ASSUME MkInv, NEW m \in Makers, NEW unix, MakeStep(m, unix) PROVE MkInv'
BY MakeAllInv, MakePathInv, MakeOneInv DEF MakeStep, MakeOneUnix, MakeOneWindows

LEMMA MkUnchanged == ASSUME MkInv, UNCHANGED mkVars PROVE MkInv'
<1>1. dirs' = dirs /\ path' = path /\ off' = off /\ maker' = maker
  BY DEF mkVars
<1> QED BY <1>1 DEF MkInv, MakerInv, MadeTo

LEMMA MkInitInv == MkInit => MkInv
<1> SUFFICES ASSUME MkInit PROVE MkInv
  OBVIOUS
<1>1. ASSUME NEW m \in Makers PROVE MakerInv(m)
  <2>1. path[m] \in Seq(Parts) /\ IsPath(path[m]) /\ off[m] = 0 /\ maker[m] = "idle"
    BY PathsAssumption DEF MkInit
  <2>2. off[m] \in 0..Len(path[m])
    BY <2>1, LenProperties
  <2> QED BY <2>1, <2>2 DEF MakerInv
<1> QED BY <1>1, PathsAssumption DEF MkInit, MkInv

LEMMA MakersDone == MkInv => MkTypeOK /\ MakersSucceed
BY DEF MkInv, MakerInv, MkTypeOK, MakersSucceed

-----------------------------------------------------------------------------
(* Directory scans. *)

AllNames == Elements(Collation)

\* A name with its terminating zero.
Word(n) == Append(Spelling[n], 0)

\* The first place where two names differ in more than case, and the last where names that
\* are otherwise equal differ in case.
ApartAt(m, n, k) ==
  /\ k \in 1..Len(Word(m)) /\ k \in 1..Len(Word(n)) /\ Fold(Word(m)[k]) # Fold(Word(n)[k])
  /\ \A j \in 1..(k - 1) : Fold(Word(m)[j]) = Fold(Word(n)[j])
CasedAt(m, n, k) ==
  /\ Len(Word(m)) = Len(Word(n)) /\ k \in 1..Len(Word(n)) /\ Word(m)[k] # Word(n)[k]
  /\ \A j \in 1..Len(Word(n)) : Fold(Word(m)[j]) = Fold(Word(n)[j])
  /\ \A j \in (k + 1)..Len(Word(n)) : Word(m)[j] = Word(n)[j]

LEMMA WordType ==
  ASSUME NEW n \in AllNames
  PROVE  /\ Word(n) \in Seq(Nat) /\ Len(Word(n)) \in Nat \ {0}
         /\ \A k \in 1..Len(Word(n)) : Word(n)[k] \in Nat /\ (Word(n)[k] = 0 <=> k = Len(Word(n)))
<1> DEFINE w == Spelling[n]
<1>1. w \in Seq(1..255)
  BY NamesAssumption DEF AllNames
<1> HIDE DEF w
<1>2. Len(w) \in Nat /\ \A k \in 1..Len(w) : w[k] \in 1..255
  BY <1>1, LenProperties, ZenonT(60)
<1>3. w \in Seq(Nat)
  <2>1. 1..255 \subseteq Nat
    OBVIOUS
  <2> QED BY <1>1, <2>1, SeqMonotonic
<1> DEFINE a == Append(w, 0)
<1>4. 0 \in Nat
  OBVIOUS
<1>5. a \in Seq(Nat) /\ Len(a) = Len(w) + 1 /\ (\A i \in 1..Len(w) : a[i] = w[i]) /\ a[Len(w) + 1] = 0
  BY <1>3, <1>4, AppendProperties
<1> HIDE DEF a
<1>6. ASSUME NEW k \in 1..Len(a) PROVE a[k] \in Nat /\ (a[k] = 0 <=> k = Len(a))
  <2>1. CASE k = Len(a)
    BY <1>2, <1>5, <2>1
  <2>2. CASE k # Len(a)
    <3>1. k \in 1..Len(w)
      BY <1>2, <1>5, <2>2
    <3>2. a[k] = w[k] /\ w[k] \in 1..255
      BY <1>2, <1>5, <3>1
    <3>3. \A x \in 1..255 : x \in Nat /\ x # 0
      OBVIOUS
    <3>4. a[k] \in Nat /\ a[k] # 0
      BY <3>2, <3>3
    <3> QED BY <2>2, <3>4
  <2> QED BY <2>1, <2>2
<1>7. Len(a) \in Nat \ {0}
  BY <1>2, <1>5
<1> QED BY <1>5, <1>6, <1>7 DEF Word, w, a

LEMMA FoldType ==
  ASSUME NEW c \in Nat
  PROVE  Fold(c) \in Nat /\ (Fold(c) = 0 <=> c = 0)
BY DEF Fold

\* Two names are the same or there is such a place.
LEMMA Compared ==
  ASSUME NEW m \in AllNames, NEW n \in AllNames, m # n
  PROVE  (\E k \in Nat : ApartAt(m, n, k)) \/ (\E k \in Nat : CasedAt(m, n, k))
<1> DEFINE a == Word(m) b == Word(n)
<1>1. /\ a \in Seq(Nat) /\ Len(a) \in Nat \ {0} /\ b \in Seq(Nat) /\ Len(b) \in Nat \ {0}
      /\ \A k \in 1..Len(a) : a[k] \in Nat /\ (a[k] = 0 <=> k = Len(a))
      /\ \A k \in 1..Len(b) : b[k] \in Nat /\ (b[k] = 0 <=> k = Len(b))
  BY WordType
<1>2. a # b
  <2>1. Spelling[m] # Spelling[n] /\ Spelling[m] \in Seq(1..255) /\ Spelling[n] \in Seq(1..255)
    BY NamesAssumption DEF AllNames
  <2> DEFINE u == Spelling[m] v == Spelling[n]
  <2>2. u \in Seq(0..255) /\ v \in Seq(0..255) /\ 0 \in 0..255
    BY <2>1, SeqMonotonic
  <2> HIDE DEF u, v
  <2>3. Append(u, 0) = Append(v, 0) => u = v
    BY <2>2, AppendInjective
  <2> QED BY <2>1, <2>3 DEF Word, u, v
<1> HIDE DEF a, b
<1> DEFINE T == {k \in Nat : k \in 1..Len(a) /\ k \in 1..Len(b) /\ Fold(a[k]) # Fold(b[k])}
<1>3. CASE T # {}
  <2>1. PICK k \in T : \A y \in T : k <= y
    BY <1>3, Least
  <2>2. ASSUME NEW j \in 1..(k - 1) PROVE Fold(a[j]) = Fold(b[j])
    <3>1. j \in Nat /\ j \in 1..Len(a) /\ j \in 1..Len(b) /\ ~(k <= j)
      BY <1>1, <2>1
    <3> QED BY <2>1, <3>1
  <2> QED BY <2>1, <2>2 DEF ApartAt, a, b
<1>4. CASE T = {}
  <2>1. ASSUME NEW k \in Nat, k \in 1..Len(a), k \in 1..Len(b) PROVE Fold(a[k]) = Fold(b[k])
    BY <1>4, <2>1
  <2>2. Len(a) = Len(b)
    <3>1. CASE Len(a) < Len(b)
      <4> DEFINE k == Len(a)
      <4>1. k \in Nat /\ k \in 1..Len(a) /\ k \in 1..Len(b) /\ k # Len(b)
        BY <1>1, <3>1
      <4>2. a[k] = 0 /\ b[k] # 0 /\ a[k] \in Nat /\ b[k] \in Nat
        BY <1>1, <4>1
      <4> HIDE DEF k
      <4> QED BY <2>1, <4>1, <4>2, FoldType
    <3>2. CASE Len(b) < Len(a)
      <4> DEFINE k == Len(b)
      <4>1. k \in Nat /\ k \in 1..Len(a) /\ k \in 1..Len(b) /\ k # Len(a)
        BY <1>1, <3>2
      <4>2. b[k] = 0 /\ a[k] # 0 /\ a[k] \in Nat /\ b[k] \in Nat
        BY <1>1, <4>1
      <4> HIDE DEF k
      <4> QED BY <2>1, <4>1, <4>2, FoldType
    <3> QED BY <1>1, <3>1, <3>2
  <2> DEFINE U == {k \in 1..Len(b) : a[k] # b[k]}
  <2>3. U # {}
    <3>1. \E i \in 1..Len(a) : a[i] # b[i]
      BY <1>1, <1>2, <2>2, SeqEqual
    <3> QED BY <2>2, <3>1
  <2>4. U \in SUBSET (0..Len(b)) /\ Len(b) \in Nat
    BY <1>1
  <2> HIDE DEF U
  <2>5. PICK k \in U : \A y \in U : y <= k
    BY <2>3, <2>4, Most
  <2>6. k \in 1..Len(b) /\ k \in Nat /\ a[k] # b[k]
    BY <1>1, <2>5 DEF U
  <2>7. ASSUME NEW j \in (k + 1)..Len(b) PROVE a[j] = b[j]
    <3>1. j \in 1..Len(b) /\ ~(j <= k)
      BY <1>1, <2>6
    <3> QED BY <2>5, <3>1 DEF U
  <2>8. ASSUME NEW j \in 1..Len(b) PROVE Fold(a[j]) = Fold(b[j])
    BY <1>1, <2>1, <2>2
  <2> QED BY <2>2, <2>6, <2>7, <2>8 DEF CasedAt, a, b
<1> QED BY <1>3, <1>4

\* What _ffdirscan_filename_cmpz() makes of that place.
LEMMA LessApart ==
  ASSUME NEW m \in AllNames, NEW n \in AllNames, NEW k \in Nat, ApartAt(m, n, k)
  PROVE  /\ Apart(m, n) # {} /\ (Less(m, n) <=> Icmp(m, n))
         /\ Less(m, n) <=> Fold(Word(m)[k]) < Fold(Word(n)[k])
<1> DEFINE a == Word(m) b == Word(n)
           both == DOMAIN a \cap DOMAIN b
           apart == {i \in both : Fold(a[i]) # Fold(b[i])}
           f == CHOOSE i \in apart : \A j \in apart : i <= j
<1>1. a \in Seq(Nat) /\ b \in Seq(Nat)
  BY WordType
<1>2. DOMAIN a = 1..Len(a) /\ DOMAIN b = 1..Len(b)
  BY <1>1, LenProperties
<1>3. k \in apart
  BY <1>2 DEF ApartAt
<1>4. ASSUME NEW j \in apart PROVE k <= j
  <2>1. j \in 1..Len(a) /\ Fold(a[j]) # Fold(b[j])
    BY <1>2
  <2>2. j \notin 1..(k - 1)
    BY <2>1 DEF ApartAt
  <2>3. Len(a) \in Nat
    BY <1>1, LenProperties
  <2> QED BY <2>1, <2>2, <2>3
<1>5. f \in apart /\ \A j \in apart : f <= j
  BY <1>3, <1>4
<1>6. f <= k /\ k <= f /\ f \in Nat
  <2>1. f \in 1..Len(a) /\ Len(a) \in Nat
    BY <1>1, <1>2, <1>5, LenProperties
  <2> QED BY <1>3, <1>4, <1>5, <2>1
<1>7. f = k
  BY <1>6, SMTT(30)
<1>8. Apart(m, n) = apart /\ apart # {}
  BY <1>3 DEF Apart, Both, Word
<1>9. Icmp(m, n) <=> Fold(a[f]) < Fold(b[f])
  BY <1>8 DEF Icmp, Word
<1>10. Less(m, n) <=> Icmp(m, n)
  BY <1>8 DEF Less
<1> QED BY <1>7, <1>8, <1>9, <1>10

LEMMA LessCased ==
  ASSUME NEW m \in AllNames, NEW n \in AllNames, NEW k \in Nat, CasedAt(m, n, k)
  PROVE  Apart(m, n) = {} /\ (Less(m, n) <=> Word(m)[k] > Word(n)[k])
<1> DEFINE a == Word(m) b == Word(n)
           both == DOMAIN a \cap DOMAIN b
           apart == {i \in both : Fold(a[i]) # Fold(b[i])}
           cased == {i \in both : a[i] # b[i]}
           f == CHOOSE i \in cased : \A j \in cased : i >= j
<1>1. a \in Seq(Nat) /\ b \in Seq(Nat)
  BY WordType
<1>2. DOMAIN a = 1..Len(b) /\ DOMAIN b = 1..Len(b) /\ Len(b) \in Nat
  BY <1>1, LenProperties DEF CasedAt
<1>3. apart = {}
  BY <1>2 DEF CasedAt
<1>4. k \in cased
  BY <1>2 DEF CasedAt
<1>5. ASSUME NEW j \in cased PROVE k >= j
  <2>1. j \in 1..Len(b) /\ a[j] # b[j]
    BY <1>2
  <2>2. j \notin (k + 1)..Len(b)
    BY <2>1 DEF CasedAt
  <2>3. Len(b) \in Nat
    BY <1>1, LenProperties
  <2> QED BY <2>1, <2>2, <2>3
<1>6. f \in cased /\ \A j \in cased : f >= j
  BY <1>4, <1>5
<1>7. f >= k /\ k >= f /\ f \in Nat
  <2>1. f \in 1..Len(b) /\ Len(b) \in Nat
    BY <1>1, <1>2, <1>6, LenProperties
  <2> QED BY <1>4, <1>5, <1>6, <2>1
<1>8. f = k
  BY <1>7, SMTT(30)
<1>9. Apart(m, n) = {} /\ Differ(m, n) = cased /\ cased # {}
  BY <1>3, <1>4 DEF Apart, Differ, Both, Word
<1>10. Less(m, n) <=> a[f] > b[f]
  BY <1>9 DEF Less, Word
<1> QED BY <1>8, <1>9, <1>10

LEMMA LessIrreflexive ==
  ASSUME NEW n \in AllNames
  PROVE  ~Less(n, n) /\ ~Icmp(n, n)
<1>1. Apart(n, n) = {} /\ Differ(n, n) = {}
  BY DEF Apart, Differ
<1> QED BY <1>1 DEF Less, Icmp

\* Of two names one is less, and not the other.
LEMMA LessTotal ==
  ASSUME NEW m \in AllNames, NEW n \in AllNames, m # n
  PROVE  Less(m, n) <=> ~Less(n, m)
<1> DEFINE a == Word(m) b == Word(n)
<1>0. /\ \A k \in 1..Len(a) : a[k] \in Nat /\ Fold(a[k]) \in Nat
      /\ \A k \in 1..Len(b) : b[k] \in Nat /\ Fold(b[k]) \in Nat
  BY WordType, FoldType
<1> HIDE DEF a, b
<1>1. ASSUME NEW k \in Nat, ApartAt(m, n, k) PROVE Less(m, n) <=> ~Less(n, m)
  <2>1. ApartAt(n, m, k)
    BY <1>1 DEF ApartAt
  <2>2. (Less(m, n) <=> Fold(a[k]) < Fold(b[k])) /\ (Less(n, m) <=> Fold(b[k]) < Fold(a[k]))
    BY <1>1, <2>1, LessApart DEF a, b
  <2>3. Fold(a[k]) \in Nat /\ Fold(b[k]) \in Nat /\ Fold(a[k]) # Fold(b[k])
    BY <1>0, <1>1 DEF ApartAt, a, b
  <2>4. Fold(a[k]) < Fold(b[k]) <=> ~(Fold(b[k]) < Fold(a[k]))
    BY <2>3
  <2> QED BY <2>2, <2>4
<1>2. ASSUME NEW k \in Nat, CasedAt(m, n, k) PROVE Less(m, n) <=> ~Less(n, m)
  <2>1. CasedAt(n, m, k)
    BY <1>2 DEF CasedAt
  <2>2. (Less(m, n) <=> a[k] > b[k]) /\ (Less(n, m) <=> b[k] > a[k])
    BY <1>2, <2>1, LessCased DEF a, b
  <2>3. a[k] \in Nat /\ b[k] \in Nat /\ a[k] # b[k]
    BY <1>0, <1>2 DEF CasedAt, a, b
  <2>4. a[k] > b[k] <=> ~(b[k] > a[k])
    BY <2>3
  <2> QED BY <2>2, <2>4
<1> QED BY <1>1, <1>2, Compared

LEMMA LessTransitive ==
  ASSUME NEW l \in AllNames, NEW m \in AllNames, NEW n \in AllNames, Less(l, m), Less(m, n)
  PROVE  Less(l, n)
<1> DEFINE a == Word(l) b == Word(m) c == Word(n)
<1>0. /\ \A k \in 1..Len(a) : a[k] \in Nat /\ Fold(a[k]) \in Nat
      /\ \A k \in 1..Len(b) : b[k] \in Nat /\ Fold(b[k]) \in Nat
      /\ \A k \in 1..Len(c) : c[k] \in Nat /\ Fold(c[k]) \in Nat
      /\ Len(a) \in Nat /\ Len(b) \in Nat /\ Len(c) \in Nat
  BY WordType, FoldType
<1>1. l # m /\ m # n
  BY LessIrreflexive
<1>2. (\E i \in Nat : ApartAt(l, m, i)) \/ (\E i \in Nat : CasedAt(l, m, i))
  BY <1>1, Compared
<1>3. (\E j \in Nat : ApartAt(m, n, j)) \/ (\E j \in Nat : CasedAt(m, n, j))
  BY <1>1, Compared
<1> HIDE DEF a, b, c
<1>4. ASSUME NEW k \in Nat, k \in 1..Len(a), k \in 1..Len(c), Fold(a[k]) < Fold(c[k]),
             \A h \in 1..(k - 1) : Fold(a[h]) = Fold(c[h])
      PROVE  Less(l, n)
  <2>1. Fold(a[k]) # Fold(c[k])
    BY <1>0, <1>4
  <2>2. ApartAt(l, n, k)
    BY <1>4, <2>1 DEF ApartAt, a, c
  <2> QED BY <1>4, <2>2, LessApart DEF a, c
<1>5. ASSUME NEW i \in Nat, ApartAt(l, m, i), NEW j \in Nat, ApartAt(m, n, j) PROVE Less(l, n)
  <2>1. /\ i \in 1..Len(a) /\ i \in 1..Len(b) /\ j \in 1..Len(b) /\ j \in 1..Len(c)
        /\ \A h \in 1..(i - 1) : Fold(a[h]) = Fold(b[h])
        /\ \A h \in 1..(j - 1) : Fold(b[h]) = Fold(c[h])
    BY <1>5 DEF ApartAt, a, b, c
  <2>2. Fold(a[i]) < Fold(b[i]) /\ Fold(b[j]) < Fold(c[j])
    BY <1>5, LessApart DEF a, b, c
  <2>3. CASE i < j
    <3>1. i \in 1..(j - 1) /\ i \in 1..Len(c)
      BY <1>0, <2>1, <2>3
    <3>2. Fold(a[i]) < Fold(c[i])
      BY <2>1, <2>2, <3>1
    <3>3. \A h \in 1..(i - 1) : h \in 1..(j - 1)
      BY <2>3
    <3>4. \A h \in 1..(i - 1) : Fold(a[h]) = Fold(c[h])
      BY <2>1, <3>3
    <3> QED BY <1>4, <2>1, <3>1, <3>2, <3>4
  <2>4. CASE j < i
    <3>1. j \in 1..(i - 1) /\ j \in 1..Len(a)
      BY <1>0, <2>1, <2>4
    <3>2. Fold(a[j]) < Fold(c[j])
      BY <2>1, <2>2, <3>1
    <3>3. \A h \in 1..(j - 1) : h \in 1..(i - 1)
      BY <2>4
    <3>4. \A h \in 1..(j - 1) : Fold(a[h]) = Fold(c[h])
      BY <2>1, <3>3
    <3> QED BY <1>4, <2>1, <3>1, <3>2, <3>4
  <2>5. CASE i = j
    <3>1. Fold(a[i]) \in Nat /\ Fold(b[i]) \in Nat /\ Fold(c[i]) \in Nat
      BY <1>0, <2>1, <2>5
    <3>2. Fold(a[i]) < Fold(c[i])
      BY <2>2, <2>5, <3>1
    <3>3. \A h \in 1..(i - 1) : Fold(a[h]) = Fold(c[h])
      BY <2>1, <2>5
    <3> QED BY <1>4, <2>1, <2>5, <3>2, <3>3
  <2> QED BY <2>3, <2>4, <2>5
<1>6. ASSUME NEW i \in Nat, ApartAt(l, m, i), NEW j \in Nat, CasedAt(m, n, j) PROVE Less(l, n)
  <2>1. /\ i \in 1..Len(a) /\ i \in 1..Len(b) /\ Len(b) = Len(c)
        /\ \A h \in 1..(i - 1) : Fold(a[h]) = Fold(b[h])
        /\ \A h \in 1..Len(c) : Fold(b[h]) = Fold(c[h])
    BY <1>6 DEF ApartAt, CasedAt, a, b, c
  <2>2. Fold(a[i]) < Fold(b[i])
    BY <1>6, LessApart DEF a, b
  <2>3. i \in 1..Len(c) /\ Fold(a[i]) < Fold(c[i])
    BY <2>1, <2>2
  <2>4. \A h \in 1..(i - 1) : h \in 1..Len(c)
    BY <1>0, <2>3
  <2>5. \A h \in 1..(i - 1) : Fold(a[h]) = Fold(c[h])
    BY <2>1, <2>4
  <2> QED BY <1>4, <2>1, <2>3, <2>5
<1>7. ASSUME NEW i \in Nat, CasedAt(l, m, i), NEW j \in Nat, ApartAt(m, n, j) PROVE Less(l, n)
  <2>1. /\ j \in 1..Len(b) /\ j \in 1..Len(c) /\ Len(a) = Len(b)
        /\ \A h \in 1..(j - 1) : Fold(b[h]) = Fold(c[h])
        /\ \A h \in 1..Len(b) : Fold(a[h]) = Fold(b[h])
    BY <1>7 DEF ApartAt, CasedAt, a, b, c
  <2>2. Fold(b[j]) < Fold(c[j])
    BY <1>7, LessApart DEF b, c
  <2>3. j \in 1..Len(a) /\ Fold(a[j]) < Fold(c[j])
    BY <2>1, <2>2
  <2>4. \A h \in 1..(j - 1) : h \in 1..Len(b)
    BY <1>0, <2>1
  <2>5. \A h \in 1..(j - 1) : Fold(a[h]) = Fold(c[h])
    BY <2>1, <2>4
  <2> QED BY <1>4, <2>1, <2>3, <2>5
<1>8. ASSUME NEW i \in Nat, CasedAt(l, m, i), NEW j \in Nat, CasedAt(m, n, j) PROVE Less(l, n)
  <2>1. /\ Len(a) = Len(c) /\ Len(b) = Len(c) /\ i \in 1..Len(c) /\ j \in 1..Len(c)
        /\ \A h \in 1..Len(c) : Fold(a[h]) = Fold(b[h])
        /\ \A h \in 1..Len(c) : Fold(b[h]) = Fold(c[h])
        /\ \A h \in (i + 1)..Len(c) : a[h] = b[h]
        /\ \A h \in (j + 1)..Len(c) : b[h] = c[h]
    BY <1>8 DEF CasedAt, a, b, c
  <2>2. a[i] > b[i] /\ b[j] > c[j]
    BY <1>8, LessCased DEF a, b, c
  <2>3. ASSUME NEW k \in Nat, k \in 1..Len(c), a[k] > c[k], \A h \in (k + 1)..Len(c) : a[h] = c[h]
        PROVE  Less(l, n)
    <3>1. a[k] # c[k]
      BY <1>0, <2>1, <2>3
    <3>2. \A h \in 1..Len(c) : Fold(a[h]) = Fold(c[h])
      BY <2>1
    <3>3. CasedAt(l, n, k)
      BY <2>1, <2>3, <3>1, <3>2 DEF CasedAt, a, c
    <3> QED BY <2>3, <3>3, LessCased DEF a, c
  <2>4. CASE i < j
    <3>1. j \in (i + 1)..Len(c)
      BY <1>0, <2>1, <2>4
    <3>2. a[j] > c[j]
      BY <2>1, <2>2, <3>1
    <3>3. \A h \in (j + 1)..Len(c) : h \in (i + 1)..Len(c)
      BY <1>0, <2>4
    <3>4. \A h \in (j + 1)..Len(c) : a[h] = c[h]
      BY <2>1, <3>3
    <3> QED BY <2>1, <2>3, <3>2, <3>4
  <2>5. CASE j < i
    <3>1. i \in (j + 1)..Len(c)
      BY <1>0, <2>1, <2>5
    <3>2. a[i] > c[i]
      BY <2>1, <2>2, <3>1
    <3>3. \A h \in (i + 1)..Len(c) : h \in (j + 1)..Len(c)
      BY <1>0, <2>5
    <3>4. \A h \in (i + 1)..Len(c) : a[h] = c[h]
      BY <2>1, <3>3
    <3> QED BY <2>1, <2>3, <3>2, <3>4
  <2>6. CASE i = j
    <3>1. a[i] \in Nat /\ b[i] \in Nat /\ c[i] \in Nat
      BY <1>0, <2>1
    <3>2. a[i] > c[i]
      BY <2>2, <2>6, <3>1
    <3>3. \A h \in (i + 1)..Len(c) : a[h] = c[h]
      BY <2>1, <2>6
    <3> QED BY <2>1, <2>3, <3>2, <3>3
  <2> QED BY <2>4, <2>5, <2>6
<1> QED BY <1>2, <1>3, <1>5, <1>6, <1>7, <1>8

\* How many elements of a set come before one.
Below(E, R, x) == {y \in E : <<y, x>> \in R}
Place(E, R, x) == Cardinality(Below(E, R, x))

\* A set in which one of two elements is less has each rank once.
LEMMA Ranks ==
  ASSUME NEW E, IsFiniteSet(E), NEW R,
         \A x \in E : <<x, x>> \notin R,
         \A x, y \in E : x # y => (<<x, y>> \in R <=> <<y, x>> \notin R),
         \A x, y, z \in E : <<x, y>> \in R /\ <<y, z>> \in R => <<x, z>> \in R
  PROVE  /\ \A x, y \in E : <<x, y>> \in R <=> Place(E, R, x) < Place(E, R, y)
         /\ \A i \in 1..Cardinality(E) : \E x \in E : Place(E, R, x) = i - 1
         /\ \A x, y \in E : Place(E, R, x) = Place(E, R, y) => x = y
         /\ \A x \in E : Place(E, R, x) \in Nat /\ Place(E, R, x) + 1 \in 1..Cardinality(E)
<1> DEFINE below(x) == Below(E, R, x)
           rank(x) == Place(E, R, x)
           n == Cardinality(E)
<1>1. n \in Nat
  BY FS_CardinalityType
<1>2. ASSUME NEW x \in E PROVE IsFiniteSet(below(x)) /\ rank(x) \in Nat /\ rank(x) < n
  <2>1. below(x) \in SUBSET E /\ x \notin below(x) /\ rank(x) = Cardinality(below(x))
    BY DEF Below, Place
  <2> HIDE DEF below
  <2>2. IsFiniteSet(below(x)) /\ rank(x) \in Nat /\ rank(x) <= n /\ (n = rank(x) => E = below(x))
    BY <2>1, FS_Subset, FS_CardinalityType
  <2> HIDE DEF rank
  <2> QED BY <1>1, <2>1, <2>2
<1>3. ASSUME NEW x \in E, NEW y \in E, <<x, y>> \in R PROVE rank(x) < rank(y)
  <2> DEFINE A == below(x) B == below(y)
  <2>1. x \in B /\ x \notin A /\ A \in SUBSET B
    BY <1>3 DEF Below
  <2>2. IsFiniteSet(A) /\ IsFiniteSet(B) /\ Cardinality(A) \in Nat /\ Cardinality(B) \in Nat
    BY <1>2 DEF Place
  <2> HIDE DEF A, B
  <2>3. Cardinality(A) <= Cardinality(B) /\ (Cardinality(B) = Cardinality(A) => B = A)
    BY <2>1, <2>2, FS_Subset
  <2>4. Cardinality(A) < Cardinality(B)
    BY <2>1, <2>2, <2>3
  <2> QED BY <2>4 DEF A, B, Place
<1>4. ASSUME NEW x \in E, NEW y \in E PROVE (<<x, y>> \in R <=> rank(x) < rank(y)) /\ (rank(x) = rank(y) => x = y)
  <2>1. rank(x) \in Nat /\ rank(y) \in Nat
    BY <1>2
  <2>2. (<<x, y>> \in R => rank(x) < rank(y)) /\ (<<y, x>> \in R => rank(y) < rank(x))
    BY <1>3
  <2> HIDE DEF rank
  <2>3. CASE x = y
    BY <2>1, <2>3
  <2>4. CASE x # y
    BY <2>1, <2>2, <2>4
  <2> QED BY <2>3, <2>4
<1> DEFINE f == [x \in E |-> rank(x) + 1]
<1> HIDE DEF rank, n, below
<1>5. f \in [E -> 1..n]
  BY <1>1, <1>2
<1>6. f \in Injection(E, 1..n)
  <2>1. ASSUME NEW x \in E, NEW y \in E, f[x] = f[y] PROVE x = y
    <3>1. rank(x) + 1 = rank(y) + 1 /\ rank(x) \in Nat /\ rank(y) \in Nat
      BY <1>2, <2>1
    <3>2. rank(x) = rank(y)
      BY <3>1
    <3> QED BY <1>4, <3>2
  <2> QED BY <1>5, <2>1 DEF Injection, IsInjective
<1>7. IsFiniteSet(1..n) /\ Cardinality(1..n) = n
  BY <1>1, FS_Interval
<1>8. f \in Surjection(E, 1..n)
  BY <1>6, <1>7, FS_Injection DEF n
<1>9. ASSUME NEW i \in 1..n PROVE \E x \in E : rank(x) = i - 1
  <2>1. PICK x \in E : f[x] = i
    BY <1>8 DEF Surjection
  <2>2. rank(x) \in Nat /\ rank(x) + 1 = i
    BY <1>2, <2>1
  <2> QED BY <2>2
<1>10. \A x \in E : rank(x) \in Nat /\ rank(x) + 1 \in 1..n
  BY <1>1, <1>2
<1> QED BY <1>4, <1>9, <1>10 DEF rank, n

\* Places in a sequence without repetitions.
Once(s) == \A i, j \in DOMAIN s : s[i] = s[j] => i = j

LEMMA OnceCounts ==
  ASSUME NEW S, NEW s \in Seq(S), Once(s)
  PROVE  IsFiniteSet(Elements(s)) /\ Cardinality(Elements(s)) = Len(s)
<1> DEFINE E == Elements(s)
<1>1. Len(s) \in Nat /\ DOMAIN s = 1..Len(s) /\ s \in [1..Len(s) -> S]
  BY LenProperties
<1>2. s \in [1..Len(s) -> E]
  BY <1>1 DEF Elements
<1>3. s \in Surjection(1..Len(s), E)
  BY <1>1, <1>2 DEF Surjection, Elements
<1>4. s \in Injection(1..Len(s), E)
  BY <1>1, <1>2 DEF Injection, IsInjective, Once
<1>5. IsFiniteSet(1..Len(s)) /\ Cardinality(1..Len(s)) = Len(s)
  BY <1>1, FS_Interval
<1> HIDE DEF E
<1>6. IsFiniteSet(E) /\ (Cardinality(E) = Cardinality(1..Len(s)) <=> s \in Injection(1..Len(s), E))
  BY <1>3, <1>5, FS_Surjection
<1> QED BY <1>4, <1>5, <1>6 DEF E

\* Each entry is at the place that its rank tells.
LEMMA RankSorts ==
  ASSUME NEW S, NEW s \in Seq(S), Once(s), NEW R,
         \A x \in Elements(s) : <<x, x>> \notin R,
         \A x, y \in Elements(s) : x # y => (<<x, y>> \in R <=> <<y, x>> \notin R),
         \A x, y, z \in Elements(s) : <<x, y>> \in R /\ <<y, z>> \in R => <<x, z>> \in R,
         NEW t \in [DOMAIN s -> Elements(s)], \A i \in DOMAIN s : Place(Elements(s), R, t[i]) = i - 1
  PROVE  /\ t \in Seq(S) /\ Len(t) = Len(s) /\ Elements(t) = Elements(s) /\ Once(t)
         /\ \A i, j \in DOMAIN t : i < j => <<t[i], t[j]>> \in R
<1> DEFINE E == Elements(s)
           rank(n) == Place(E, R, n)
           N == Len(s)
<1>1. N \in Nat /\ DOMAIN s = 1..N
  BY LenProperties
<1>2. IsFiniteSet(E) /\ Cardinality(E) = N
  BY OnceCounts
<1>3. E \subseteq S
  BY LenProperties DEF Elements
<1>4. /\ \A x, y \in E : <<x, y>> \in R <=> rank(x) < rank(y)
      /\ \A i \in 1..N : \E x \in E : rank(x) = i - 1
      /\ \A x, y \in E : rank(x) = rank(y) => x = y
      /\ \A x \in E : rank(x) \in Nat /\ rank(x) + 1 \in 1..N
  <2>1. /\ \A x \in E : <<x, x>> \notin R
        /\ \A x, y \in E : x # y => (<<x, y>> \in R <=> <<y, x>> \notin R)
        /\ \A x, y, z \in E : <<x, y>> \in R /\ <<y, z>> \in R => <<x, z>> \in R
    OBVIOUS
  <2> HIDE DEF E
  <2>2. /\ \A x, y \in E : <<x, y>> \in R <=> Place(E, R, x) < Place(E, R, y)
        /\ \A i \in 1..Cardinality(E) : \E x \in E : Place(E, R, x) = i - 1
        /\ \A x, y \in E : Place(E, R, x) = Place(E, R, y) => x = y
        /\ \A x \in E : Place(E, R, x) \in Nat /\ Place(E, R, x) + 1 \in 1..Cardinality(E)
    BY <1>2, <2>1, Ranks
  <2> QED BY <1>2, <2>2
<1>6. ASSUME NEW i \in 1..N PROVE t[i] \in E /\ rank(t[i]) = i - 1
  BY <1>1
<1> HIDE DEF rank, E, N
<1>7. DOMAIN t = 1..N /\ t \in [1..N -> S]
  BY <1>1, <1>3, <1>6 DEF E
<1>8. t \in Seq(S)
  <2>1. N \in Nat /\ t \in [1..N -> S]
    BY <1>1, <1>7
  <2> QED BY <2>1, SeqDef
<1>9. Len(t) = N
  <2>1. DOMAIN t = 1..Len(t) /\ Len(t) \in Nat
    BY <1>8, LenProperties
  <2> QED BY <1>1, <1>7, <2>1
<1>10. Elements(t) = E
  <2>1. ASSUME NEW x \in E PROVE x \in Elements(t)
    <3> DEFINE i == rank(x) + 1
    <3>1. i \in 1..N /\ i - 1 = rank(x)
      <4>1. rank(x) \in Nat /\ rank(x) + 1 \in 1..N
        BY <1>4
      <4> QED BY <4>1
    <3>2. t[i] \in E /\ rank(t[i]) = rank(x)
      BY <1>6, <3>1
    <3>3. t[i] = x
      BY <1>4, <3>2
    <3> QED BY <1>7, <3>1, <3>3 DEF Elements
  <2>2. Elements(t) \subseteq E
    <3>1. SUFFICES ASSUME NEW x \in Elements(t) PROVE x \in E
      OBVIOUS
    <3>2. PICK i \in DOMAIN t : x = t[i]
      BY DEF Elements
    <3> QED BY <1>6, <1>7, <3>2
  <2> QED BY <2>1, <2>2
<1>11. ASSUME NEW i \in 1..N, NEW j \in 1..N PROVE (t[i] = t[j] => i = j) /\ (i < j => <<t[i], t[j]>> \in R)
  <2>1. rank(t[i]) = i - 1 /\ rank(t[j]) = j - 1 /\ t[i] \in E /\ t[j] \in E
    BY <1>6
  <2>2. \A x, y \in Nat : (x - 1 = y - 1 => x = y) /\ (x < y => x - 1 < y - 1)
    OBVIOUS
  <2>3. i \in Nat /\ j \in Nat
    BY <1>1
  <2>4. ASSUME t[i] = t[j] PROVE i = j
    BY <2>1, <2>2, <2>3, <2>4
  <2>5. ASSUME i < j PROVE <<t[i], t[j]>> \in R
    <3>1. rank(t[i]) < rank(t[j])
      BY <2>1, <2>2, <2>3, <2>5
    <3> QED BY <1>4, <2>1, <3>1
  <2> QED BY <2>4, <2>5
<1>12. Once(t)
  BY <1>7, <1>11 DEF Once
<1>13. \A i, j \in DOMAIN t : i < j => <<t[i], t[j]>> \in R
  BY <1>7, <1>11
<1> QED BY <1>8, <1>9, <1>10, <1>12, <1>13 DEF E, N

\* Sorting by an order that tells names apart gives every entry once, and in order.
InOrderOf(t, s, R) ==
  /\ t \in Seq(AllNames) /\ Len(t) = Len(s) /\ Elements(t) = Elements(s) /\ Once(t)
  /\ \A i, j \in DOMAIN t : i < j => <<t[i], t[j]>> \in R

LessPairs == {p \in AllNames \X AllNames : Less(p[1], p[2])}
LessXPairs == {p \in AllNames \X AllNames : LessX(p[1], p[2])}

LEMMA SortedFits ==
  ASSUME NEW s \in Seq(AllNames), Once(s), NEW R,
         \A x \in AllNames : <<x, x>> \notin R,
         \A x, y \in AllNames : x # y => (<<x, y>> \in R <=> <<y, x>> \notin R),
         \A x, y, z \in AllNames : <<x, y>> \in R /\ <<y, z>> \in R => <<x, z>> \in R
  PROVE  /\ Elements(s) \subseteq AllNames
         /\ \A i \in DOMAIN s : \E x \in Elements(s) : Place(Elements(s), R, x) = i - 1
         /\ \A t \in [DOMAIN s -> Elements(s)] :
              (\A i \in DOMAIN s : Place(Elements(s), R, t[i]) = i - 1) => InOrderOf(t, s, R)
<1> DEFINE E == Elements(s)
<1>1. E \subseteq AllNames
  BY LenProperties DEF Elements
<1>2. /\ \A x \in E : <<x, x>> \notin R
      /\ \A x, y \in E : x # y => (<<x, y>> \in R <=> <<y, x>> \notin R)
      /\ \A x, y, z \in E : <<x, y>> \in R /\ <<y, z>> \in R => <<x, z>> \in R
  BY <1>1
<1>3. IsFiniteSet(E) /\ Cardinality(E) = Len(s) /\ DOMAIN s = 1..Len(s)
  BY OnceCounts, LenProperties
<1>4. \A i \in DOMAIN s : \E x \in E : Place(E, R, x) = i - 1
  <2> HIDE DEF E
  <2>1. \A i \in 1..Cardinality(E) : \E x \in E : Place(E, R, x) = i - 1
    BY <1>2, <1>3, Ranks
  <2> QED BY <1>3, <2>1
<1>5. ASSUME NEW t \in [DOMAIN s -> E], \A i \in DOMAIN s : Place(E, R, t[i]) = i - 1
      PROVE  InOrderOf(t, s, R)
  BY <1>2, <1>5, RankSorts DEF InOrderOf
<1> QED BY <1>1, <1>4, <1>5

LEMMA LessSorts ==
  ASSUME NEW s \in Seq(AllNames), Once(s)
  PROVE  InOrderOf(Sorted(s, Less), s, LessPairs)
<1> DEFINE E == Elements(s) R == LessPairs
<1>1. \A x, y \in AllNames : <<x, y>> \in R <=> Less(x, y)
  BY DEF LessPairs
<1> HIDE DEF R
<1>2. /\ \A x \in AllNames : <<x, x>> \notin R
      /\ \A x, y \in AllNames : x # y => (<<x, y>> \in R <=> <<y, x>> \notin R)
      /\ \A x, y, z \in AllNames : <<x, y>> \in R /\ <<y, z>> \in R => <<x, z>> \in R
  BY <1>1, LessIrreflexive, LessTotal, LessTransitive
<1>3. /\ E \subseteq AllNames
      /\ \A i \in DOMAIN s : \E x \in E : Place(E, R, x) = i - 1
      /\ \A t \in [DOMAIN s -> E] :
           (\A i \in DOMAIN s : Place(E, R, t[i]) = i - 1) => InOrderOf(t, s, R)
  BY <1>2, SortedFits
<1> DEFINE count(n) == Cardinality({m \in E : Less(m, n)})
           at(i) == CHOOSE n \in E : count(n) = i - 1
<1>4. ASSUME NEW n \in E PROVE count(n) = Place(E, R, n)
  <2>1. {m \in E : Less(m, n)} = {m \in E : <<m, n>> \in R}
    BY <1>1, <1>3
  <2> QED BY <2>1 DEF Place, Below
<1>5. ASSUME NEW i \in DOMAIN s PROVE at(i) \in E /\ Place(E, R, at(i)) = i - 1
  <2>1. \E n \in E : count(n) = i - 1
    BY <1>3, <1>4
  <2>2. at(i) \in E /\ count(at(i)) = i - 1
    BY <2>1
  <2> QED BY <1>4, <2>2
<1>6. Sorted(s, Less) = [i \in DOMAIN s |-> at(i)]
  BY DEF Sorted
<1> HIDE DEF at, count, E
<1>7. InOrderOf([i \in DOMAIN s |-> at(i)], s, R)
  <2> DEFINE t == [i \in DOMAIN s |-> at(i)]
  <2>1. t \in [DOMAIN s -> E] /\ \A i \in DOMAIN s : Place(E, R, t[i]) = i - 1
    BY <1>5
  <2> HIDE DEF t
  <2>2. InOrderOf(t, s, R)
    BY <1>3, <2>1
  <2> QED BY <2>2 DEF t
<1> QED BY <1>6, <1>7 DEF R

\* Names of a Windows directory are compared by ffsz_icmp() as by the other function.
LEMMA OpenSorts ==
  ASSUME NEW s \in Seq(AllNames), Once(s), icase => Unlike(Elements(s))
  PROVE  InOrderOf(Sorted(s, LessOpen), s, LessPairs)
<1> DEFINE E == Elements(s)
<1>1. E \subseteq AllNames
  BY LenProperties DEF Elements
<1>2. ASSUME NEW m \in E, NEW n \in E PROVE LessOpen(m, n) <=> Less(m, n)
  <2>1. CASE ~icase
    BY <2>1 DEF LessOpen
  <2>2. CASE icase /\ m = n
    BY <1>1, <2>2, LessIrreflexive DEF LessOpen
  <2>3. CASE icase /\ m # n
    <3>1. Apart(m, n) # {}
      BY <2>3 DEF Unlike
    <3> QED BY <2>3, <3>1 DEF LessOpen, Less
  <2> QED BY <2>1, <2>2, <2>3
<1> DEFINE count(n) == Cardinality({m \in E : Less(m, n)})
           other(n) == Cardinality({m \in E : LessOpen(m, n)})
<1>3. ASSUME NEW n \in E PROVE other(n) = count(n)
  <2>1. {m \in E : LessOpen(m, n)} = {m \in E : Less(m, n)}
    BY <1>2
  <2> QED BY <2>1
<1>4. Sorted(s, Less) = [i \in DOMAIN s |-> CHOOSE n \in E : count(n) = i - 1]
  BY DEF Sorted
<1>5. Sorted(s, LessOpen) = [i \in DOMAIN s |-> CHOOSE n \in E : other(n) = i - 1]
  BY DEF Sorted
<1> HIDE DEF count, other, E
<1>6. ASSUME NEW i \in DOMAIN s PROVE (CHOOSE n \in E : other(n) = i - 1) = (CHOOSE n \in E : count(n) = i - 1)
  <2>1. \A n : (n \in E /\ other(n) = i - 1) <=> (n \in E /\ count(n) = i - 1)
    BY <1>3
  <2> QED BY <2>1
<1>7. Sorted(s, LessOpen) = Sorted(s, Less)
  BY <1>4, <1>5, <1>6
<1> QED BY <1>7, LessSorts

LEMMA LessXSorts ==
  ASSUME NEW s \in Seq(AllNames), Once(s)
  PROVE  InOrderOf(Sorted(s, LessX), s, LessXPairs)
<1> DEFINE E == Elements(s) R == LessXPairs
<1>1. \A x, y \in AllNames : <<x, y>> \in R <=> LessX(x, y)
  BY DEF LessXPairs
<1> HIDE DEF R
<1>2. /\ \A x \in AllNames : <<x, x>> \notin R
      /\ \A x, y \in AllNames : x # y => (<<x, y>> \in R <=> <<y, x>> \notin R)
      /\ \A x, y, z \in AllNames : <<x, y>> \in R /\ <<y, z>> \in R => <<x, z>> \in R
  <2>1. \A x \in AllNames : ~LessX(x, x)
    BY LessIrreflexive DEF LessX
  <2>2. \A x, y \in AllNames : x # y => (LessX(x, y) <=> ~LessX(y, x))
    BY LessTotal DEF LessX
  <2>3. ASSUME NEW x \in AllNames, NEW y \in AllNames, NEW z \in AllNames, LessX(x, y), LessX(y, z)
        PROVE  LessX(x, z)
    BY <2>3, LessTransitive DEF LessX
  <2> QED BY <1>1, <2>1, <2>2, <2>3
<1>3. /\ E \subseteq AllNames
      /\ \A i \in DOMAIN s : \E x \in E : Place(E, R, x) = i - 1
      /\ \A t \in [DOMAIN s -> E] :
           (\A i \in DOMAIN s : Place(E, R, t[i]) = i - 1) => InOrderOf(t, s, R)
  BY <1>2, SortedFits
<1> DEFINE count(n) == Cardinality({m \in E : LessX(m, n)})
           at(i) == CHOOSE n \in E : count(n) = i - 1
<1>4. ASSUME NEW n \in E PROVE count(n) = Place(E, R, n)
  <2>1. {m \in E : LessX(m, n)} = {m \in E : <<m, n>> \in R}
    BY <1>1, <1>3
  <2> QED BY <2>1 DEF Place, Below
<1>5. ASSUME NEW i \in DOMAIN s PROVE at(i) \in E /\ Place(E, R, at(i)) = i - 1
  <2>1. \E n \in E : count(n) = i - 1
    BY <1>3, <1>4
  <2>2. at(i) \in E /\ count(at(i)) = i - 1
    BY <2>1
  <2> QED BY <1>4, <2>2
<1>6. Sorted(s, LessX) = [i \in DOMAIN s |-> at(i)]
  BY DEF Sorted
<1> HIDE DEF at, count, E
<1>7. InOrderOf([i \in DOMAIN s |-> at(i)], s, R)
  <2> DEFINE t == [i \in DOMAIN s |-> at(i)]
  <2>1. t \in [DOMAIN s -> E] /\ \A i \in DOMAIN s : Place(E, R, t[i]) = i - 1
    BY <1>5
  <2> HIDE DEF t
  <2>2. InOrderOf(t, s, R)
    BY <1>3, <2>1
  <2> QED BY <2>2 DEF t
<1> QED BY <1>6, <1>7 DEF R

\* The list is complete and ordered by what the code compares.
ListInv ==
  /\ Elements(list) = Elements(entries) /\ Len(list) = Len(entries)
  /\ "nosort" \notin flags => \A i, j \in DOMAIN list : i < j => LessX(list[i], list[j])

ScanInv ==
  /\ scan \in {"none", "reading", "info", "listed", "walked", "failed", "closed"}
  /\ steady \subseteq AllNames /\ icase \in BOOLEAN
  /\ entries \in Seq(AllNames) /\ Once(entries) /\ (icase => Unlike(Elements(entries)))
  /\ list \in Seq(AllNames) /\ cur \in 0..Len(list) /\ Len(list) <= Len(entries)
  /\ scan \in {"none", "reading"} => list = <<>>
  /\ scan = "none" => entries = <<>>
  /\ scan = "info" => list = entries /\ "x" \in flags
  /\ "x" \notin flags => subdirs = {}
  /\ scan \in {"listed", "walked"} => ListInv

LEMMA ScanOpenInv ==
  ASSUME ScanInv, NEW present, present \subseteq AllNames, ScanOpen(present)
  PROVE  ScanInv'
<1>1. UNCHANGED <<icase, flags, entries, list, subdirs, cur>> /\ scan = "none" /\ scan' = "reading" /\ steady' = present
  BY DEF ScanOpen
<1>2. (icase => Unlike(Elements(entries)))'
  BY <1>1 DEF ScanInv
<1> QED BY <1>1, <1>2 DEF ScanInv, Once, ListInv

LEMMA ScanReadInv ==
  ASSUME ScanInv, NEW n \in AllNames, ScanRead(n)
  PROVE  ScanInv'
<1>1. entries \in Seq(AllNames) /\ Once(entries) /\ scan = "reading" /\ list = <<>> /\ n \notin Elements(entries)
  BY DEF ScanInv, ScanRead
<1>2. scan' = scan /\ icase' = icase /\ flags' = flags /\ list' = list /\ subdirs' = subdirs /\ cur' = cur /\ steady' \subseteq AllNames
  BY DEF ScanInv, ScanRead
<1>3. entries' \in Seq(AllNames) /\ Once(entries') /\ Len(list) <= Len(entries')
  <2>0. Len(list) = 0 /\ Len(entries) \in Nat
    BY <1>1, LenProperties
  <2>1. CASE Skipped(n)
    BY <1>1, <2>0, <2>1 DEF ScanRead
  <2>2. CASE ~Skipped(n)
    <3> DEFINE e == Append(entries, n)
    <3>1. entries' = e
      BY <2>2 DEF ScanRead
    <3>2. e \in Seq(AllNames) /\ Len(e) = Len(entries) + 1 /\ (\A i \in 1..Len(entries) : e[i] = entries[i]) /\ e[Len(entries) + 1] = n
      BY <1>1, AppendProperties
    <3>3. \A i \in 1..Len(entries) : entries[i] # n
      BY <1>1, LenProperties DEF Elements
    <3>4. \A i, j \in 1..Len(entries) : entries[i] = entries[j] => i = j
      BY <1>1, LenProperties DEF Once
    <3> HIDE DEF e
    <3>5. ASSUME NEW i \in 1..Len(e), NEW j \in 1..Len(e), e[i] = e[j] PROVE i = j
      <4>1. i \in 1..Len(entries) \/ i = Len(entries) + 1
        BY <2>0, <3>2
      <4>2. j \in 1..Len(entries) \/ j = Len(entries) + 1
        BY <2>0, <3>2
      <4> QED BY <3>2, <3>3, <3>4, <3>5, <4>1, <4>2
    <3>6. Once(e)
      <4>1. DOMAIN e = 1..Len(e)
        BY <3>2, LenProperties
      <4> QED BY <3>5, <4>1 DEF Once
    <3>7. Len(list) <= Len(e)
      BY <2>0, <3>2
    <3> QED BY <3>1, <3>2, <3>6, <3>7
  <2> QED BY <2>1, <2>2
<1>4. (icase => Unlike(Elements(entries)))'
  <2>1. Elements(entries') \subseteq Elements(entries) \cup {n}
    <3>1. CASE Skipped(n)
      BY <3>1 DEF ScanRead
    <3>2. CASE ~Skipped(n)
      <4>1. entries' = Append(entries, n)
        BY <3>2 DEF ScanRead
      <4> QED BY <1>1, <4>1, AppendProperties, LenProperties DEF Elements
    <3> QED BY <3>1, <3>2
  <2>2. icase => Unlike(Elements(entries) \cup {n})
    BY DEF ScanRead
  <2>3. icase => Unlike(Elements(entries'))
    BY <2>1, <2>2 DEF Unlike
  <2> QED BY <1>2, <2>3
<1> QED BY <1>1, <1>2, <1>3, <1>4 DEF ScanInv, ListInv

LEMMA ScanEndInv == ASSUME ScanInv, ScanEnd PROVE ScanInv'
<1>1. /\ entries \in Seq(AllNames) /\ Once(entries) /\ scan = "reading" /\ list = <<>> /\ cur \in 0..Len(list)
      /\ ("x" \notin flags => subdirs = {}) /\ Len(entries) \in Nat
      /\ icase \in BOOLEAN /\ (icase => Unlike(Elements(entries)))
  BY LenProperties DEF ScanInv, ScanEnd
<1>2. cur = 0
  BY <1>1
<1>3. /\ scan' = (IF "x" \in flags THEN "info" ELSE "listed") /\ icase' = icase /\ flags' = flags /\ entries' = entries
      /\ subdirs' = subdirs /\ cur' = cur /\ steady' = steady /\ steady \subseteq AllNames
      /\ list' = IF flags \cap {"x", "nosort"} # {} THEN entries ELSE Sorted(entries, LessOpen)
  BY DEF ScanEnd, ScanInv
<1>4. CASE "x" \in flags
  <2>1. list' = entries /\ scan' = "info"
    BY <1>3, <1>4
  <2>2. 0 \in 0..Len(entries) /\ Len(entries) <= Len(entries)
    BY <1>1
  <2> QED BY <1>1, <1>2, <1>3, <1>4, <2>1, <2>2 DEF ScanInv, ListInv
<1>5. CASE "x" \notin flags /\ "nosort" \in flags
  <2>1. list' = entries /\ scan' = "listed"
    BY <1>3, <1>5
  <2>2. 0 \in 0..Len(entries) /\ Len(entries) <= Len(entries)
    BY <1>1
  <2>3. ListInv'
    BY <1>3, <1>5, <2>1 DEF ListInv
  <2> QED BY <1>1, <1>2, <1>3, <1>5, <2>1, <2>2, <2>3 DEF ScanInv
<1>6. CASE "x" \notin flags /\ "nosort" \notin flags
  <2> DEFINE l == Sorted(entries, LessOpen)
  <2>1. list' = l /\ scan' = "listed"
    BY <1>3, <1>6
  <2>2. InOrderOf(l, entries, LessPairs)
    BY <1>1, OpenSorts
  <2> HIDE DEF l
  <2>3. l \in Seq(AllNames) /\ Len(l) = Len(entries) /\ Elements(l) = Elements(entries)
    BY <2>2 DEF InOrderOf
  <2>4. \A i, j \in DOMAIN l : i < j => Less(l[i], l[j])
    BY <2>2 DEF InOrderOf, LessPairs
  <2>5. \A m, n : LessX(m, n)' <=> Less(m, n)
    BY <1>1, <1>3, <1>6 DEF LessX
  <2>6. ListInv'
    BY <1>3, <2>1, <2>3, <2>4, <2>5 DEF ListInv
  <2>7. 0 \in 0..Len(l) /\ Len(l) <= Len(entries)
    BY <1>1, <2>3
  <2> QED BY <1>1, <1>2, <1>3, <1>6, <2>1, <2>3, <2>6, <2>7 DEF ScanInv
<1> QED BY <1>4, <1>5, <1>6

LEMMA ScanFailsInv == ASSUME ScanInv, ScanFails PROVE ScanInv'
BY DEF ScanInv, ScanFails, Once, ListInv

LEMMA ScanInfoInv == ASSUME ScanInv, NEW isdir, ScanInfo(isdir) PROVE ScanInv'
<1>1. scan = "info" /\ cur < Len(list) /\ cur' = cur + 1 /\ cur \in 0..Len(list) /\ Len(list) \in Nat /\ "x" \in flags
  BY LenProperties DEF ScanInv, ScanInfo
<1>2. cur' \in 0..Len(list)
  BY <1>1
<1>3. scan' = scan /\ icase' = icase /\ flags' = flags /\ steady' = steady /\ entries' = entries /\ list' = list
  BY DEF ScanInfo
<1> QED BY <1>1, <1>2, <1>3 DEF ScanInv, Once

LEMMA ScanInfoEndInv == ASSUME ScanInv, ScanInfoEnd PROVE ScanInv'
<1>1. /\ entries \in Seq(AllNames) /\ Once(entries) /\ list = entries /\ scan = "info" /\ "x" \in flags
      /\ icase \in BOOLEAN /\ (icase => Unlike(Elements(entries)))
  BY DEF ScanInv, ScanInfoEnd
<1> DEFINE l == Sorted(list, LessX)
<1>2. /\ scan' = "listed" /\ icase' = icase /\ flags' = flags /\ entries' = entries /\ subdirs' = subdirs /\ cur' = 0
      /\ steady' = steady /\ steady \subseteq AllNames /\ list' = l
  BY DEF ScanInfoEnd, ScanInv
<1>3. InOrderOf(l, entries, LessXPairs)
  BY <1>1, LessXSorts
<1> HIDE DEF l
<1>4. l \in Seq(AllNames) /\ Len(l) = Len(entries) /\ Elements(l) = Elements(entries) /\ Len(l) \in Nat
  BY <1>3, LenProperties DEF InOrderOf
<1>5. \A i, j \in DOMAIN l : i < j => LessX(l[i], l[j])
  BY <1>3 DEF InOrderOf, LessXPairs
<1>6. \A m, n : LessX(m, n)' <=> LessX(m, n)
  BY <1>2 DEF LessX
<1>7. ListInv'
  BY <1>2, <1>4, <1>5, <1>6 DEF ListInv
<1>8. 0 \in 0..Len(l) /\ Len(l) <= Len(entries)
  BY <1>4
<1> QED BY <1>1, <1>2, <1>4, <1>7, <1>8 DEF ScanInv

\* Walking over the list leaves it as it is.
LEMMA WalkInv ==
  ASSUME ScanInv, ScanNext \/ ScanDone \/ ScanReset
  PROVE  ScanInv'
<1>1. /\ icase' = icase /\ flags' = flags /\ entries' = entries /\ subdirs' = subdirs /\ list' = list /\ steady' = steady
      /\ scan \in {"listed", "walked"} /\ scan' \in {"listed", "walked"}
  BY DEF ScanNext, ScanDone, ScanReset
<1>2. cur \in 0..Len(list) /\ Len(list) \in Nat
  BY LenProperties DEF ScanInv
<1>3. cur' = cur \/ cur' = 0 \/ (cur < Len(list) /\ cur' = cur + 1)
  BY DEF ScanNext, ScanDone, ScanReset
<1>4. cur' \in 0..Len(list)
  BY <1>2, <1>3
<1>5. \A m, n : LessX(m, n)' <=> LessX(m, n)
  BY <1>1 DEF LessX
<1>6. ListInv'
  BY <1>1, <1>5 DEF ScanInv, ListInv
<1> QED BY <1>1, <1>4, <1>6 DEF ScanInv

LEMMA ScanCloseInv == ASSUME ScanInv, ScanClose PROVE ScanInv'
<1>1. Len(<<>>) = 0 /\ Len(entries) \in Nat /\ <<>> \in Seq(AllNames)
  BY LenProperties, EmptySeq DEF ScanInv
<1>2. list' = <<>> /\ cur' = 0 /\ scan' = "closed" /\ entries' = entries /\ icase' = icase /\ flags' = flags /\ steady' = steady /\ subdirs' = subdirs
  BY DEF ScanClose
<1>3. 0 \in 0..Len(<<>>) /\ Len(<<>>) <= Len(entries)
  BY <1>1
<1> QED BY <1>1, <1>2, <1>3 DEF ScanInv

LEMMA ScanKeeps ==
  ASSUME ScanInv, UNCHANGED <<scan, icase, flags, entries, list, subdirs, cur>>, steady' \subseteq AllNames
  PROVE  ScanInv'
<1>1. \A m, n : LessX(m, n)' <=> LessX(m, n)
  BY DEF LessX
<1>2. ListInv => ListInv'
  BY <1>1 DEF ListInv
<1> QED BY <1>2 DEF ScanInv

LEMMA ScanInitInv == ScanInit => ScanInv
<1> SUFFICES ASSUME ScanInit PROVE ScanInv
  OBVIOUS
<1>1. scan = "none" /\ icase \in BOOLEAN /\ steady = {} /\ entries = <<>> /\ list = <<>> /\ subdirs = {} /\ cur = 0
  BY DEF ScanInit
<1>2. <<>> \in Seq(AllNames) /\ Len(<<>>) = 0 /\ Once(<<>>)
  BY EmptySeq DEF Once
<1>3. 0 \in 0..0 /\ 0 <= 0
  OBVIOUS
<1>4. Unlike(Elements(<<>>))
  BY DEF Unlike, Elements
<1> QED BY <1>1, <1>2, <1>3, <1>4 DEF ScanInv

\* No more names than there are.
LEMMA ScanTypes == ScanInv => ScanTypeOK
<1> SUFFICES ASSUME ScanInv PROVE ScanTypeOK
  OBVIOUS
<1>1. IsFiniteSet(Elements(entries)) /\ Cardinality(Elements(entries)) = Len(entries)
  BY OnceCounts DEF ScanInv
<1>2. Elements(entries) \subseteq AllNames
  BY LenProperties DEF ScanInv, Elements
<1> DEFINE S == DOMAIN Spelling
<1>3. Collation \in Seq(S)
  BY NamesAssumption
<1>4. Len(Collation) \in Nat /\ DOMAIN Collation = 1..Len(Collation)
  BY <1>3, LenProperties
<1>5. IsFiniteSet(AllNames) /\ Cardinality(AllNames) <= Len(Collation)
  <2>1. Collation \in Surjection(1..Len(Collation), AllNames)
    <3>1. Collation \in [1..Len(Collation) -> AllNames]
      BY <1>3, <1>4, LenProperties DEF AllNames, Elements
    <3> QED BY <1>4, <3>1 DEF Surjection, AllNames, Elements
  <2>2. IsFiniteSet(1..Len(Collation)) /\ Cardinality(1..Len(Collation)) = Len(Collation)
    <3> DEFINE n == Len(Collation)
    <3>1. n \in Nat
      BY <1>4
    <3> HIDE DEF n
    <3>2. IsFiniteSet(1..n) /\ Cardinality(1..n) = n
      BY <3>1, FS_Interval
    <3> QED BY <3>2 DEF n
  <2> QED BY <2>1, <2>2, FS_Surjection
<1>6. Len(entries) <= Cardinality(AllNames)
  BY <1>1, <1>2, <1>5, FS_Subset
<1>7. Len(list) <= Len(entries) /\ Len(list) \in Nat /\ Len(entries) \in Nat /\ Cardinality(AllNames) \in Nat
  BY <1>5, LenProperties, FS_CardinalityType DEF ScanInv
<1>8. Len(list) <= Len(Collation)
  BY <1>4, <1>5, <1>6, <1>7
<1> QED BY <1>8 DEF ScanInv, ScanTypeOK

\* The order that a user expects is the one that the code's comparison makes, but for the
\* names between which the property leaves it open.
InOrder ==
  \A i, j \in DOMAIN Collation : i < j =>
    Less(Collation[i], Collation[j]) \/ MoreCases(Collation[i], Collation[j])

LEMMA RankLess ==
  ASSUME InOrder, NEW m \in AllNames, NEW n \in AllNames, Less(m, n)
  PROVE  Rank(m) < Rank(n) \/ MoreCases(m, n)
<1>1. /\ Rank(m) \in DOMAIN Collation /\ Collation[Rank(m)] = m
      /\ Rank(n) \in DOMAIN Collation /\ Collation[Rank(n)] = n
  BY DEF Rank, AllNames, Elements
<1> DEFINE S == DOMAIN Spelling
<1>2. Collation \in Seq(S)
  BY NamesAssumption
<1>3. DOMAIN Collation = 1..Len(Collation) /\ Len(Collation) \in Nat
  BY <1>2, LenProperties
<1>4. m # n /\ ~Less(n, m)
  BY LessIrreflexive, LessTotal
<1>5. Rank(m) # Rank(n)
  BY <1>1, <1>4
<1>6. Rank(n) < Rank(m) => MoreCases(n, m)
  BY <1>1, <1>4 DEF InOrder
<1>7. MoreCases(n, m) => MoreCases(m, n)
  <2>1. Apart(m, n) = Apart(n, m) /\ Differ(m, n) = Differ(n, m)
    BY DEF Apart, Differ, Both
  <2> QED BY <2>1 DEF MoreCases
<1>8. Rank(m) \in Nat /\ Rank(n) \in Nat
  BY <1>1, <1>3
<1>9. Rank(m) < Rank(n) \/ Rank(n) < Rank(m)
  BY <1>5, <1>8
<1> QED BY <1>6, <1>7, <1>9

LEMMA ListSorted == ScanInv /\ InOrder => ListIsSorted
<1> SUFFICES ASSUME ScanInv, InOrder, scan \in {"listed", "walked"}
             PROVE  /\ Elements(list) = Elements(entries) /\ Len(list) = Len(entries)
                    /\ "nosort" \notin flags => \A i, j \in DOMAIN list : i < j => Before(list[i], list[j])
  BY DEF ListIsSorted
<1>1. ListInv /\ list \in Seq(AllNames)
  BY DEF ScanInv
<1>2. ASSUME NEW i \in DOMAIN list, NEW j \in DOMAIN list, i < j, "nosort" \notin flags
      PROVE  Before(list[i], list[j])
  <2>1. list[i] \in AllNames /\ list[j] \in AllNames
    BY <1>1, LenProperties
  <2>2. LessX(list[i], list[j])
    BY <1>1, <1>2 DEF ListInv
  <2>3. Less(list[i], list[j]) => Rank(list[i]) < Rank(list[j]) \/ MoreCases(list[i], list[j])
    BY <2>1, RankLess
  <2> QED BY <2>2, <2>3 DEF LessX, Before
<1> QED BY <1>1, <1>2 DEF ListInv

-----------------------------------------------------------------------------
(* The monitor. *)

\* Events of a file that was created or deleted.
Events == [kind : {"created", "deleted"}, name : FileNames]

\* What a sequence of events tells of a name: nothing, or what the last one says.
Silent(p, n) == \A k \in 1..Len(p) : p[k].name # n
LastSays(p, n, there) ==
  \E k \in 1..Len(p) :
    /\ p[k].name = n /\ (p[k].kind = "created" <=> there)
    /\ \A j \in (k + 1)..Len(p) : p[j].name # n
\* A user who believes "known" of the name finds out "there" from the events.
Gives(p, n, known, there) == LastSays(p, n, there) \/ (Silent(p, n) /\ (known <=> there))

LEMMA GivesBoth ==
  ASSUME NEW p \in Seq(Events), NEW q \in Seq(Events), NEW n, NEW b \in BOOLEAN, NEW u \in BOOLEAN, NEW v \in BOOLEAN,
         Gives(p, n, b, u), Gives(q, n, u, v)
  PROVE  Gives(p \o q, n, b, v)
<1> DEFINE r == p \o q P == Len(p) Q == Len(q)
<1>0. P \in Nat /\ Q \in Nat
  BY LenProperties
<1>1. /\ r \in Seq(Events) /\ Len(r) = P + Q
      /\ \A i \in 1..(P + Q) : r[i] = IF i <= P THEN p[i] ELSE q[i - P]
  BY ConcatProperties
<1> HIDE DEF r
<1>2. \A i \in 1..P : i \in 1..(P + Q) /\ r[i] = p[i]
  BY <1>0, <1>1
<1>3. \A i \in 1..Q : P + i \in 1..(P + Q) /\ r[P + i] = q[i]
  <2> TAKE i \in 1..Q
  <2>1. P + i \in 1..(P + Q) /\ ~(P + i <= P) /\ (P + i) - P = i
    BY <1>0
  <2> QED BY <1>1, <2>1
<1>4. ASSUME NEW j \in 1..(P + Q) PROVE j \in 1..P \/ (\E i \in 1..Q : j = P + i)
  <2>1. CASE j <= P
    BY <1>0, <2>1
  <2>2. CASE ~(j <= P)
    <3>1. j - P \in 1..Q /\ j = P + (j - P)
      BY <1>0, <2>2
    <3> QED BY <3>1
  <2> QED BY <2>1, <2>2
<1>5. CASE LastSays(q, n, v)
  <2>1. PICK k \in 1..Q : q[k].name = n /\ (q[k].kind = "created" <=> v) /\ \A j \in (k + 1)..Q : q[j].name # n
    BY <1>5 DEF LastSays
  <2>2. P + k \in 1..(P + Q) /\ r[P + k] = q[k]
    BY <1>3
  <2>3. ASSUME NEW j \in (P + k + 1)..(P + Q) PROVE r[j].name # n
    <3>1. j - P \in (k + 1)..Q /\ j - P \in 1..Q /\ P + (j - P) = j
      BY <1>0
    <3>2. r[j] = q[j - P]
      BY <1>3, <3>1
    <3> QED BY <2>1, <3>1, <3>2
  <2>4. LastSays(r, n, v)
    BY <1>1, <2>1, <2>2, <2>3 DEF LastSays
  <2> QED BY <2>4 DEF Gives, r
<1>6. CASE Silent(q, n) /\ (u <=> v)
  <2>1. \A i \in 1..Q : r[P + i].name # n
    BY <1>3, <1>6 DEF Silent
  <2>2. CASE LastSays(p, n, u)
    <3>1. PICK k \in 1..P : p[k].name = n /\ (p[k].kind = "created" <=> u) /\ \A j \in (k + 1)..P : p[j].name # n
      BY <2>2 DEF LastSays
    <3>2. k \in 1..(P + Q) /\ r[k] = p[k]
      BY <1>2
    <3>3. ASSUME NEW j \in (k + 1)..(P + Q) PROVE r[j].name # n
      <4>1. j \in 1..(P + Q)
        BY <1>0
      <4>2. CASE j \in 1..P
        <5>1. j \in (k + 1)..P
          BY <1>0, <4>2
        <5> QED BY <1>2, <3>1, <4>2, <5>1
      <4>3. CASE \E i \in 1..Q : j = P + i
        BY <2>1, <4>3
      <4> QED BY <1>4, <4>1, <4>2, <4>3
    <3>4. LastSays(r, n, v)
      BY <1>1, <1>6, <3>1, <3>2, <3>3 DEF LastSays
    <3> QED BY <3>4 DEF Gives, r
  <2>3. CASE Silent(p, n) /\ (b <=> u)
    <3>1. Silent(r, n)
      BY <1>1, <1>2, <1>4, <2>1, <2>3 DEF Silent
    <3> QED BY <1>6, <2>3, <3>1 DEF Gives, r
  <2> QED BY <2>2, <2>3 DEF Gives
<1> QED BY <1>5, <1>6 DEF Gives

LEMMA GivesSame ==
  ASSUME NEW p, NEW n, NEW b, NEW v \in BOOLEAN, Gives(p, n, b, v)
  PROVE  Gives(p, n, v, v)
BY DEF Gives

LEMMA GivesNone ==
  ASSUME NEW n, NEW b, NEW v
  PROVE  Gives(<<>>, n, b, v) <=> (b <=> v)
<1>1. Len(<<>>) = 0 /\ 1..0 = {}
  OBVIOUS
<1> QED BY <1>1 DEF Gives, LastSays, Silent

\* The first k events are taken away: the last of them that is of the name replaces what was
\* known; none is if there is none.
LEMMA GivesRest ==
  ASSUME NEW p \in Seq(Events), NEW k \in 1..Len(p), NEW n, NEW b, NEW v, Gives(p, n, b, v),
         NEW c, \A j \in 1..(k - 1) : p[j].name # n,
         IF p[k].name = n THEN c <=> p[k].kind = "created" ELSE c <=> b,
         NEW t, Len(t) = Len(p) - k, \A i \in 1..(Len(p) - k) : t[i] = p[k + i]
  PROVE  Gives(t, n, c, v)
<1> DEFINE P == Len(p)
<1>0. P \in Nat /\ k \in Nat /\ k <= P
  BY LenProperties
<1>3. Len(t) = P - k /\ \A i \in 1..(P - k) : t[i] = p[k + i]
  OBVIOUS
<1> HIDE DEF P
<1>4. CASE LastSays(p, n, v)
  <2>1. PICK l \in 1..P : p[l].name = n /\ (p[l].kind = "created" <=> v) /\ \A j \in (l + 1)..P : p[j].name # n
    BY <1>4 DEF LastSays, P
  <2>2. CASE k < l
    <3>1. l - k \in 1..(P - k) /\ k + (l - k) = l
      BY <1>0, <2>2
    <3>2. t[l - k] = p[l]
      BY <1>3, <3>1
    <3>3. ASSUME NEW j \in (l - k + 1)..(P - k) PROVE t[j].name # n
      <4>1. j \in 1..(P - k) /\ k + j \in (l + 1)..P
        BY <1>0, <2>2, SMTT(30)
      <4> QED BY <1>3, <2>1, <4>1
    <3>4. LastSays(t, n, v)
      BY <1>3, <2>1, <3>1, <3>2, <3>3 DEF LastSays
    <3> QED BY <3>4 DEF Gives
  <2>3. CASE ~(k < l)
    <3>1. l = k
      <4>1. l \notin 1..(k - 1)
        BY <2>1
      <4> QED BY <1>0, <2>3, <4>1
    <3>2. ASSUME NEW j \in 1..(P - k) PROVE t[j].name # n
      <4>1. k + j \in (l + 1)..P
        BY <1>0, <3>1
      <4> QED BY <1>3, <2>1, <4>1
    <3>3. Silent(t, n) /\ (c <=> v)
      BY <1>3, <2>1, <3>1, <3>2 DEF Silent
    <3> QED BY <3>3 DEF Gives
  <2> QED BY <2>2, <2>3
<1>5. CASE Silent(p, n) /\ (b <=> v)
  <2>1. ASSUME NEW j \in 1..(P - k) PROVE t[j].name # n
    <3>1. k + j \in 1..P
      BY <1>0
    <3> QED BY <1>3, <1>5, <3>1 DEF Silent, P
  <2>2. p[k].name # n
    BY <1>5 DEF Silent
  <2>3. Silent(t, n) /\ (c <=> v)
    BY <1>3, <1>5, <2>1, <2>2 DEF Silent
  <2> QED BY <2>3 DEF Gives
<1> QED BY <1>4, <1>5 DEF Gives

\* There is always something that the events give.
LEMMA GivesSome ==
  ASSUME NEW p \in Seq(Events), NEW n, NEW b \in BOOLEAN
  PROVE  \E u \in BOOLEAN : Gives(p, n, b, u)
<1> DEFINE P == Len(p) T == {k \in 1..P : p[k].name = n}
<1>0. P \in Nat
  BY LenProperties
<1> HIDE DEF P
<1>1. CASE T = {}
  <2>1. Silent(p, n)
    BY <1>1 DEF Silent, P
  <2> QED BY <2>1 DEF Gives
<1>2. CASE T # {}
  <2>1. T \in SUBSET (0..P)
    BY <1>0
  <2>2. PICK k \in T : \A j \in T : j <= k
    <3> HIDE DEF T
    <3> QED BY <1>0, <1>2, <2>1, Most
  <2> DEFINE u == p[k].kind = "created"
  <2>3. \A j \in (k + 1)..P : p[j].name # n
    <3>1. ASSUME NEW j \in (k + 1)..P PROVE p[j].name # n
      <4>1. j \in 1..P /\ ~(j <= k)
        BY <1>0, <2>2
      <4> QED BY <2>2, <4>1
    <3> QED BY <3>1
  <2>4. k \in 1..P /\ p[k].name = n
    BY <2>2
  <2>5. \E t \in BOOLEAN : (p[k].kind = "created" <=> t)
    OBVIOUS
  <2>6. PICK t \in BOOLEAN : (p[k].kind = "created" <=> t)
    BY <2>5
  <2>7. LastSays(p, n, t)
    BY <2>3, <2>4, <2>6 DEF LastSays, P
  <2> QED BY <2>7 DEF Gives
<1> QED BY <1>1, <1>2

\* The first c elements of a sequence, and the others.
CutAt(S, q, c, l) ==
  /\ l <= c /\ (c <= Len(q) => l = c) /\ (c > 0 /\ q # <<>> => l > 0)
  /\ FirstOf(q, c) \in Seq(S) /\ AllBut(q, c) \in Seq(S)
  /\ Len(FirstOf(q, c)) = l /\ \A i \in 1..l : FirstOf(q, c)[i] = q[i]
  /\ Len(AllBut(q, c)) = Len(q) - l /\ \A i \in 1..(Len(q) - l) : AllBut(q, c)[i] = q[l + i]

LEMMA Cut ==
  ASSUME NEW S, NEW q \in Seq(S), NEW c \in Nat
  PROVE  \E l \in 0..Len(q) : CutAt(S, q, c, l)
<1> DEFINE Q == Len(q) l == IF c < Q THEN c ELSE Q m == c + 1 f == SubSeq(q, 1, l) r == SubSeq(q, m, Q)
<1>0. Q \in Nat /\ l \in 0..Q /\ l <= c /\ m \in Int /\ Q \in Int /\ l \in Int
  BY LenProperties
<1>1. q # <<>> => Q > 0
  BY LenProperties, EmptySeq
<1>2. \A i \in 1..Q : q[i] \in S
  BY LenProperties
<1>3. f = FirstOf(q, c) /\ r = AllBut(q, c)
  BY DEF FirstOf, AllBut
<1>4. c > 0 /\ q # <<>> => l > 0
  BY <1>0, <1>1
<1>5. (\A i \in 1..l : q[i] \in S) /\ (\A i \in m..Q : q[i] \in S)
  <2>1. (\A i \in 1..l : i \in 1..Q) /\ (\A i \in m..Q : i \in 1..Q)
    BY <1>0
  <2> QED BY <1>2, <2>1
<1>6. l = (IF c < Q THEN c ELSE Q) /\ (c <= Q => l = c)
  BY <1>0
<1>7. m = c + 1
  OBVIOUS
<1> HIDE DEF Q, l, m
<1>8. /\ f \in Seq(S) /\ Len(f) = (IF 1 <= l THEN l - 1 + 1 ELSE 0)
      /\ \A i \in 1..(l - 1 + 1) : f[i] = q[1 + i - 1]
  BY <1>0, <1>5, SubSeqProperties
<1>9. /\ r \in Seq(S) /\ Len(r) = (IF m <= Q THEN Q - m + 1 ELSE 0)
      /\ \A i \in 1..(Q - m + 1) : r[i] = q[m + i - 1]
  BY <1>0, <1>5, SubSeqProperties
<1> HIDE DEF f, r
<1>10. Len(f) = l /\ \A i \in 1..l : f[i] = q[i]
  <2>1. Len(f) = l
    BY <1>0, <1>8
  <2>2. ASSUME NEW i \in 1..l PROVE f[i] = q[i]
    <3>1. i \in 1..(l - 1 + 1) /\ 1 + i - 1 = i
      BY <1>0
    <3> QED BY <1>8, <3>1
  <2> QED BY <2>1, <2>2
<1>11. Len(r) = Q - l /\ \A i \in 1..(Q - l) : r[i] = q[l + i]
  <2>1. Len(r) = Q - l
    BY <1>0, <1>6, <1>7, <1>9
  <2>2. ASSUME NEW i \in 1..(Q - l) PROVE r[i] = q[l + i]
    <3>1. i \in 1..(Q - m + 1) /\ m + i - 1 = l + i
      BY <1>0, <1>6, <1>7
    <3> QED BY <1>9, <3>1
  <2> QED BY <2>1, <2>2
<1> QED BY <1>0, <1>3, <1>4, <1>6, <1>8, <1>9, <1>10, <1>11 DEF Q, CutAt

LEMMA GivesSplit ==
  ASSUME NEW q \in Seq(Events), NEW c \in Nat, NEW n, NEW b \in BOOLEAN, NEW v \in BOOLEAN, Gives(q, n, b, v)
  PROVE  \E u \in BOOLEAN : Gives(FirstOf(q, c), n, b, u) /\ Gives(AllBut(q, c), n, u, v)
<1> DEFINE f == FirstOf(q, c) r == AllBut(q, c) Q == Len(q)
<1>4. PICK l \in 0..Q : CutAt(Events, q, c, l)
  BY Cut
<1>1. /\ f \in Seq(Events) /\ r \in Seq(Events)
      /\ Len(f) = l /\ \A i \in 1..l : f[i] = q[i]
      /\ Len(r) = Q - l /\ \A i \in 1..(Q - l) : r[i] = q[l + i]
  BY <1>4 DEF CutAt
<1>0. Q \in Nat /\ l \in 0..Q
  BY LenProperties
<1> HIDE DEF f, r, Q
<1>2. CASE LastSays(q, n, v)
  <2>1. PICK k \in 1..Q : q[k].name = n /\ (q[k].kind = "created" <=> v) /\ \A j \in (k + 1)..Q : q[j].name # n
    BY <1>2 DEF LastSays, Q
  <2>2. CASE k <= l
    <3>1. k \in 1..l /\ f[k] = q[k]
      BY <1>0, <1>1, <2>2
    <3>2. \A j \in (k + 1)..l : f[j].name # n
      <4>1. \A j \in (k + 1)..l : j \in 1..l /\ j \in (k + 1)..Q
        BY <1>0, <2>2
      <4> QED BY <1>1, <2>1, <4>1
    <3>3. LastSays(f, n, v)
      BY <1>1, <2>1, <3>1, <3>2 DEF LastSays
    <3>4. Silent(r, n)
      <4>1. \A i \in 1..(Q - l) : l + i \in (k + 1)..Q
        BY <1>0, <2>2
      <4> QED BY <1>1, <2>1, <4>1, SMTT(30) DEF Silent
    <3> QED BY <3>3, <3>4 DEF Gives, f, r
  <2>3. CASE ~(k <= l)
    <3>1. k - l \in 1..(Q - l) /\ l + (k - l) = k
      BY <1>0, <2>3
    <3>2. r[k - l] = q[k]
      BY <1>1, <3>1
    <3>3. \A j \in (k - l + 1)..(Q - l) : r[j].name # n
      <4>1. \A j \in (k - l + 1)..(Q - l) : j \in 1..(Q - l) /\ l + j \in (k + 1)..Q
        BY <1>0, <2>3
      <4> QED BY <1>1, <2>1, <4>1
    <3>4. LastSays(r, n, v)
      BY <1>1, <2>1, <3>1, <3>2, <3>3 DEF LastSays
    <3>5. PICK u \in BOOLEAN : Gives(f, n, b, u)
      BY <1>1, GivesSome
    <3>6. Gives(r, n, u, v)
      BY <3>4 DEF Gives
    <3> QED BY <3>5, <3>6 DEF f, r
  <2> QED BY <2>2, <2>3
<1>3. CASE Silent(q, n) /\ (b <=> v)
  <2>1. Silent(f, n)
    <3>1. \A i \in 1..l : i \in 1..Q
      BY <1>0
    <3> QED BY <1>1, <1>3, <3>1 DEF Silent, Q
  <2>2. Silent(r, n)
    <3>1. \A i \in 1..(Q - l) : l + i \in 1..Q
      BY <1>0
    <3> QED BY <1>1, <1>3, <3>1 DEF Silent, Q
  <2>3. Gives(f, n, b, v) /\ Gives(r, n, v, v)
    BY <1>3, <2>1, <2>2 DEF Gives
  <2> QED BY <2>3 DEF f, r
<1> QED BY <1>2, <1>3 DEF Gives

\* Three sequences of events, one after the other.
Chain(p1, p2, p3, n, b, v) ==
  \E u, w \in BOOLEAN : Gives(p1, n, b, u) /\ Gives(p2, n, u, w) /\ Gives(p3, n, w, v)

LEMMA ChainSame ==
  ASSUME NEW p1, NEW p2, NEW p3, NEW n, NEW b \in BOOLEAN, NEW v \in BOOLEAN, Chain(p1, p2, p3, n, b, v)
  PROVE  Chain(p1, p2, p3, n, v, v)
<1>1. PICK u \in BOOLEAN, w \in BOOLEAN : Gives(p1, n, b, u) /\ Gives(p2, n, u, w) /\ Gives(p3, n, w, v)
  BY DEF Chain
<1>2. Gives(p3, n, v, v)
  BY <1>1 DEF Gives
<1>3. CASE LastSays(p1, n, u)
  BY <1>1, <1>3 DEF Gives, Chain
<1>4. CASE Silent(p1, n)
  <2>1. Gives(p1, n, v, v)
    BY <1>4 DEF Gives
  <2>2. CASE LastSays(p2, n, w)
    BY <1>1, <2>1, <2>2 DEF Gives, Chain
  <2>3. CASE Silent(p2, n)
    <3>1. Gives(p2, n, v, v)
      BY <2>3 DEF Gives
    <3> QED BY <1>2, <2>1, <3>1 DEF Chain
  <2> QED BY <1>1, <2>2, <2>3 DEF Gives
<1> QED BY <1>1, <1>3, <1>4 DEF Gives

\* What the monitor is told of a change.
LEMMA GivesOne ==
  ASSUME NEW x, NEW n, NEW b, NEW v \in BOOLEAN, IF x.name = n THEN v <=> x.kind = "created" ELSE b <=> v
  PROVE  Gives(<<x>>, n, b, v)
<1> DEFINE s == <<x>>
<1>1. Len(s) = 1 /\ s[1] = x
  OBVIOUS
<1>2. 1..1 = {1} /\ (1 + 1)..1 = {} /\ 1 \in 1..1
  OBVIOUS
<1> HIDE DEF s
<1>3. CASE x.name = n
  <2>1. LastSays(s, n, v)
    BY <1>1, <1>2, <1>3 DEF LastSays
  <2> QED BY <2>1 DEF Gives, s
<1>4. CASE x.name # n
  <2>1. Silent(s, n)
    BY <1>1, <1>2, <1>4 DEF Silent
  <2> QED BY <1>4, <2>1 DEF Gives, s
<1> QED BY <1>3, <1>4

LEMMA ChangesGive ==
  ASSUME NEW m \in FileNames, NEW n, NEW old, NEW new, NEW b \in BOOLEAN, NEW v \in BOOLEAN,
         m = n => (b <=> old # None) /\ (v <=> new # None), m # n => (b <=> v)
  PROVE  Changes(m, old, new) \in Seq(Events) /\ Gives(Changes(m, old, new), n, b, v)
<1> DEFINE d == Event("deleted", m) e == Event("created", m)
           p == IF old # None THEN <<d>> ELSE <<>>
           q == IF new # None THEN <<e>> ELSE <<>>
<1>1. /\ d \in Events /\ e \in Events /\ d.name = m /\ e.name = m /\ e.kind = "created" /\ d.kind # "created"
  BY DEF Event, Events
<1>2. Changes(m, old, new) = IF old = new THEN <<>> ELSE p \o q
  BY DEF Changes
<1> HIDE DEF d, e
<1>3. <<d>> \in Seq(Events) /\ <<e>> \in Seq(Events) /\ <<>> \in Seq(Events)
  BY <1>1
<1>4. p \in Seq(Events) /\ q \in Seq(Events)
  BY <1>3
<1>5. CASE old = new
  <2>1. b <=> v
    BY <1>5
  <2> QED BY <1>2, <1>3, <1>5, <2>1, GivesNone
<1>6. CASE old # new
  <2>1. \E u \in BOOLEAN : Gives(p, n, b, u) /\ Gives(q, n, u, v)
    <3>1. CASE m # n
      <4>1. Gives(<<>>, n, b, b) /\ Gives(<<>>, n, b, v)
        BY <3>1, GivesNone
      <4>2. Gives(<<d>>, n, b, b) /\ Gives(<<e>>, n, b, v)
        BY <1>1, <3>1, GivesOne
      <4> QED BY <4>1, <4>2
    <3>2. CASE m = n
      <4>1. old = None => Gives(<<>>, n, b, FALSE)
        BY <3>2, GivesNone
      <4>2. new = None => Gives(<<>>, n, FALSE, v)
        BY <3>2, GivesNone
      <4>3. Gives(<<d>>, n, b, FALSE)
        BY <1>1, <3>2, GivesOne
      <4>4. new # None => Gives(<<e>>, n, FALSE, v)
        BY <1>1, <3>2, GivesOne
      <4>5. Gives(p, n, b, FALSE) /\ Gives(q, n, FALSE, v)
        BY <4>1, <4>2, <4>3, <4>4
      <4> QED BY <4>5
    <3> QED BY <3>1, <3>2
  <2> HIDE DEF p, q
  <2>2. PICK u \in BOOLEAN : Gives(p, n, b, u) /\ Gives(q, n, u, v)
    BY <2>1
  <2>3. Gives(p \o q, n, b, v) /\ p \o q \in Seq(Events)
    BY <1>4, <2>2, GivesBoth, ConcatProperties
  <2> QED BY <1>2, <1>6, <2>3
<1> QED BY <1>5, <1>6

\* The events that the user has not been given yet: a completed read is in his buffer.
Done == IF op = "done" THEN mem ELSE <<>>
Notes == Events \cup {Overflow}

\* What the user will have in his view when he has scanned the directory.
Base(n) ==
  IF scan = "reading" THEN n \in steady \cup Elements(entries)
  ELSE IF scan = "listed" THEN n \in Elements(list)
  ELSE IF scan = "walked" THEN n \in view
  ELSE n \in Present

\* With the events that are on their way, it becomes what the directory is.
Follows(n) ==
  \E b, v \in BOOLEAN :
    (b <=> Base(n)) /\ (v <=> n \in Present) /\ Chain(input, Done, queue, n, b, v)

\* The queue keeps within its bound, and has one more element only for an overflow.
MonShapeInv ==
  /\ queue \in Seq(Notes) /\ input \in Seq(Notes) /\ mem \in Seq(Notes)
  /\ Len(queue) <= QueueCap + 1
  /\ Len(queue) = QueueCap + 1 => queue[Len(queue)] = Overflow
  /\ Len(input) <= BufCap /\ Len(mem) <= BufCap
  /\ op \in {"none", "pending", "done"} /\ active \in BOOLEAN /\ lost \in BOOLEAN /\ watch \in BOOLEAN
  /\ op = "none" <=> ~active

LEMMA OverflowIsNone == Overflow \notin Events
<1>1. \A e \in Events : e.kind # "overflow"
  BY DEF Events
<1>2. Overflow.kind = "overflow"
  BY DEF Overflow, Event
<1> QED BY <1>1, <1>2

\* What the user has done before he looks at events.
MonPhaseInv ==
  /\ mode \in Modes
  /\ target \subseteq filter /\ target \subseteq FileNames /\ view \subseteq target
  /\ mode # "watch" => ~watch
  /\ Linux => op = "none"
  /\ mode = "watch" =>
       /\ flags = {} /\ steady \subseteq FileNames /\ scan \notin {"info", "closed"}
       /\ scan = "none" /\ ~watch => queue = <<>> /\ input = <<>> /\ op = "none" /\ ~lost
       /\ scan \in {"none", "reading"} => input = <<>> /\ view = {}
       /\ scan = "listed" => input = <<>> /\ view = {list[k] : k \in 1..cur} \cap target

MonViewInv ==
  watch /\ ~lost =>
    /\ input \in Seq(Events) /\ Done \in Seq(Events) /\ queue \in Seq(Events)
    /\ \A n \in target : Follows(n)

MonInv == MonShapeInv /\ MonPhaseInv /\ MonViewInv

LEMMA CutNotes ==
  ASSUME NEW q \in Seq(Notes), NEW c \in Nat \ {0}, q # <<>>
  PROVE  /\ FirstOf(q, c) \in Seq(Notes) /\ AllBut(q, c) \in Seq(Notes)
         /\ Len(FirstOf(q, c)) <= c /\ Len(AllBut(q, c)) < Len(q)
         /\ Len(FirstOf(q, c)) \in Nat /\ Len(AllBut(q, c)) \in Nat /\ Len(q) \in Nat
<1>1. PICK l \in 0..Len(q) : CutAt(Notes, q, c, l)
  BY Cut
<1>2. /\ l <= c /\ l > 0 /\ FirstOf(q, c) \in Seq(Notes) /\ AllBut(q, c) \in Seq(Notes)
      /\ Len(FirstOf(q, c)) = l /\ Len(AllBut(q, c)) = Len(q) - l
  BY <1>1 DEF CutAt
<1>3. Len(q) \in Nat
  BY LenProperties
<1> QED BY <1>2, <1>3

\* The system takes note of changes.
LEMMA NoteShape ==
  ASSUME MonShapeInv, NEW events \in Seq(Events), NEW linux, Note(events, linux),
         UNCHANGED <<watch, target, filter, op, active, mem, input, view>>
  PROVE  MonShapeInv'
<1> DEFINE Q == Len(queue) E == Len(events)
<1>0. /\ Q \in Nat /\ E \in Nat /\ QueueCap \in Nat
      /\ queue \in Seq(Notes) /\ events \in Seq(Notes) /\ Q <= QueueCap + 1
      /\ (Q = QueueCap + 1 => queue[Q] = Overflow) /\ Overflow \in Notes
  <2>1. events \in Seq(Notes)
    <3>1. Events \subseteq Notes
      BY DEF Notes
    <3> QED BY <3>1
  <2> QED BY <2>1, LenProperties, CapsAssumption DEF MonShapeInv, Notes
<1>1. queue' = IF watch THEN Noted(queue, events, linux) ELSE queue
  BY DEF Note
<1>2. lost' \in BOOLEAN
  BY DEF Note
<1>3. queue' \in Seq(Notes) /\ Len(queue') <= QueueCap + 1 /\ (Len(queue') = QueueCap + 1 => queue'[Len(queue')] = Overflow)
  <2>1. CASE queue' = queue
    BY <1>0, <2>1
  <2>2. CASE queue' = queue \o events /\ Q + E <= QueueCap
    <3>1. queue \o events \in Seq(Notes) /\ Len(queue \o events) = Q + E
      BY <1>0, ConcatProperties
    <3>2. Len(queue') = Q + E /\ Q + E # QueueCap + 1 /\ Q + E <= QueueCap + 1
      BY <1>0, <2>2, <3>1
    <3> QED BY <2>2, <3>1, <3>2
  <2>3. CASE queue' = <<Overflow>>
    <3>1. <<Overflow>> \in Seq(Notes) /\ Len(<<Overflow>>) = 1 /\ <<Overflow>>[1] = Overflow
      BY <1>0
    <3>2. 1 <= QueueCap + 1
      BY <1>0
    <3> QED BY <2>3, <3>1, <3>2
  <2>4. CASE queue' = Append(queue, Overflow) /\ ~(queue # <<>> /\ queue[Q] = Overflow)
    <3>1. /\ Append(queue, Overflow) \in Seq(Notes) /\ Len(Append(queue, Overflow)) = Q + 1
          /\ Append(queue, Overflow)[Q + 1] = Overflow
      BY <1>0, AppendProperties
    <3>2. Q # QueueCap + 1
      <4>1. Q = 0 => Q # QueueCap + 1
        BY <1>0
      <4>2. queue = <<>> => Q = 0
        OBVIOUS
      <4> QED BY <1>0, <2>4, <4>1, <4>2
    <3>3. Q + 1 <= QueueCap + 1
      BY <1>0, <3>2
    <3> QED BY <2>4, <3>1, <3>3
  <2> QED BY <1>1, <2>1, <2>2, <2>3, <2>4 DEF Noted
<1> QED BY <1>2, <1>3 DEF MonShapeInv

LEMMA AddShape ==
  ASSUME MonShapeInv, NEW names, NEW passing, NEW linux \in BOOLEAN, Added(names, passing, linux)
  PROVE  MonShapeInv'
BY DEF MonShapeInv, Added

LEMMA ReadShape == ASSUME MonShapeInv, MonRead PROVE MonShapeInv'
<1>1. queue \in Seq(Notes) /\ BufCap \in Nat \ {0} /\ queue # <<>> /\ Len(queue) <= QueueCap + 1 /\ QueueCap \in Nat
  BY CapsAssumption DEF MonShapeInv, MonRead
<1>2. /\ input' \in Seq(Notes) /\ queue' \in Seq(Notes) /\ Len(input') <= BufCap /\ Len(queue') < Len(queue)
      /\ Len(queue') \in Nat /\ Len(queue) \in Nat
  BY <1>1, CutNotes DEF MonRead
<1>3. Len(queue') <= QueueCap + 1 /\ Len(queue') # QueueCap + 1
  BY <1>1, <1>2
<1>4. UNCHANGED <<mem, op, active, lost, watch>>
  BY DEF MonRead
<1> QED BY <1>2, <1>3, <1>4 DEF MonShapeInv

LEMMA BeginShape == ASSUME MonShapeInv, MonBegin PROVE MonShapeInv'
BY DEF MonShapeInv, MonBegin, Begun

LEMMA CompleteShape == ASSUME MonShapeInv, MonComplete PROVE MonShapeInv'
<1>1. /\ queue \in Seq(Notes) /\ mem \in Seq(Notes) /\ BufCap \in Nat \ {0} /\ queue # <<>>
      /\ Len(queue) <= QueueCap + 1 /\ QueueCap \in Nat /\ Len(mem) <= BufCap
  BY CapsAssumption DEF MonShapeInv, MonComplete
<1>2. /\ FirstOf(queue, BufCap) \in Seq(Notes) /\ AllBut(queue, BufCap) \in Seq(Notes)
      /\ Len(FirstOf(queue, BufCap)) <= BufCap /\ Len(AllBut(queue, BufCap)) < Len(queue)
      /\ Len(AllBut(queue, BufCap)) \in Nat /\ Len(queue) \in Nat
  BY <1>1, CutNotes
<1>3. mem' \in Seq(Notes) /\ Len(mem') <= BufCap
  BY <1>1, <1>2 DEF MonComplete
<1>4. <<>> \in Seq(Notes) /\ Len(<<>>) = 0 /\ 0 < QueueCap + 1
  BY <1>1
<1>5. queue' \in Seq(Notes) /\ Len(queue') <= QueueCap + 1 /\ Len(queue') # QueueCap + 1
  BY <1>1, <1>2, <1>4 DEF MonComplete
<1>6. op = "pending" /\ op' = "done" /\ UNCHANGED <<active, lost, watch, input>>
  BY DEF MonComplete
<1> QED BY <1>3, <1>5, <1>6 DEF MonShapeInv

LEMMA ResultShape == ASSUME MonShapeInv, MonResult PROVE MonShapeInv'
BY DEF MonShapeInv, MonResult

LEMMA NextShape == ASSUME MonShapeInv, MonNext \/ MonNextWindows \/ MonNextEnds PROVE MonShapeInv'
<1>1. input \in Seq(Notes) /\ Len(input) <= BufCap /\ BufCap \in Nat /\ input # <<>> /\ 1 \in Nat \ {0}
  BY CapsAssumption DEF MonShapeInv, MonNext, MonNextWindows, MonNextEnds
<1>2. UNCHANGED <<queue, op, active, mem, lost, watch>>
  BY DEF MonNext, MonNextWindows, MonNextEnds
<1>3. <<>> \in Seq(Notes) /\ Len(<<>>) = 0 /\ 0 <= BufCap
  BY <1>1
<1>4. input' \in Seq(Notes) /\ Len(input') <= BufCap
  <2>1. CASE MonNext
    <3>1. input' = AllBut(input, 1)
      BY <2>1 DEF MonNext, Rest
    <3>2. AllBut(input, 1) \in Seq(Notes) /\ Len(AllBut(input, 1)) < Len(input) /\ Len(AllBut(input, 1)) \in Nat /\ Len(input) \in Nat
      BY <1>1, CutNotes
    <3> QED BY <1>1, <3>1, <3>2
  <2>2. CASE MonNextWindows
    <3> DEFINE passing == {k \in DOMAIN input : input[k].name \in filter}
               first == CHOOSE k \in passing : \A j \in passing : k <= j
               a == AllBut(input, first - 1)
    <3>1. IF passing = {} THEN input' = <<>> ELSE input' = Rest(a)
      BY <2>2 DEF MonNextWindows
    <3>2. CASE passing = {}
      BY <1>3, <3>1, <3>2
    <3>3. CASE passing # {}
      <4>1. passing \in SUBSET Nat /\ passing \subseteq 1..Len(input)
        BY <1>1, LenProperties
      <4>2. \E k \in passing : \A j \in passing : k <= j
        <5> HIDE DEF passing
        <5> QED BY <3>3, <4>1, Least
      <4>3. first \in passing
        <5> HIDE DEF passing
        <5> QED BY <4>2
      <4>4. first \in 1..Len(input)
        BY <4>1, <4>3
      <4> HIDE DEF first, passing
      <4> DEFINE c == first - 1
      <4>5. c \in Nat /\ Len(input) \in Nat /\ c < Len(input)
        BY <1>1, <4>4, LenProperties
      <4> HIDE DEF c
      <4>6. PICK l \in 0..Len(input) : CutAt(Notes, input, c, l)
        BY <1>1, <4>5, Cut
      <4>7. a \in Seq(Notes) /\ Len(a) = Len(input) - c
        BY <4>5, <4>6 DEF CutAt, c
      <4> HIDE DEF a
      <4>8. a # <<>> /\ Len(a) <= Len(input)
        <5>1. Len(a) > 0 /\ Len(a) <= Len(input)
          BY <4>5, <4>7
        <5> QED BY <5>1
      <4>9. AllBut(a, 1) \in Seq(Notes) /\ Len(AllBut(a, 1)) < Len(a) /\ Len(AllBut(a, 1)) \in Nat /\ Len(a) \in Nat
        BY <1>1, <4>7, <4>8, CutNotes
      <4>10. input' = AllBut(a, 1)
        BY <3>1, <3>3 DEF Rest, a
      <4>11. Len(AllBut(a, 1)) <= BufCap
        BY <1>1, <4>5, <4>8, <4>9
      <4> QED BY <4>9, <4>10, <4>11
    <3> QED BY <3>2, <3>3
  <2>3. CASE MonNextEnds
    BY <1>3, <2>3 DEF MonNextEnds
  <2> QED BY <2>1, <2>2, <2>3
<1> QED BY <1>2, <1>4 DEF MonShapeInv

LEMMA CloseShape == ASSUME MonShapeInv, MonClose PROVE MonShapeInv'
<1>1. <<>> \in Seq(Notes) /\ Len(<<>>) = 0 /\ 0 <= QueueCap + 1 /\ 0 # QueueCap + 1
  BY CapsAssumption
<1> QED BY <1>1 DEF MonShapeInv, MonClose

LEMMA MonShapeKept ==
  ASSUME MonShapeInv, UNCHANGED <<watch, queue, op, active, mem, input, lost>> PROVE MonShapeInv'
BY DEF MonShapeInv

LEMMA WatchInv ==
  ASSUME MonInv, mode = "watch", Watch, UNCHANGED <<ino, sys, mode>>
  PROVE  MonInv'
<1>1. PICK names \in SUBSET FileNames, passing \in SUBSET FileNames :
        names \subseteq passing /\ Added(names, passing, Linux)
  <2>1. {"file"} \subseteq FileNames
    BY DEF FileNames
  <2>2. CASE Linux /\ MonAdd(FileNames)
    BY <2>2 DEF MonAdd, Added
  <2>3. CASE ~Linux /\ MonAddDir(FileNames)
    BY <2>3 DEF MonAddDir, Added
  <2>4. CASE ~Linux /\ MonAddFile("file", FileNames)
    BY <2>1, <2>4 DEF MonAddFile, Added
  <2> QED BY <2>2, <2>3, <2>4 DEF Watch
<1>2. /\ scan = "none" /\ ~watch /\ queue = <<>> /\ input = <<>> /\ op = "none" /\ ~lost /\ view = {}
      /\ UNCHANGED <<scan, icase, flags, steady, entries, list, subdirs, cur>>
  BY <1>1 DEF Watch, MonInv, MonPhaseInv, Added, scanVars
<1>3. /\ queue' = <<>> /\ input' = <<>> /\ view' = {} /\ op' = (IF Linux THEN "none" ELSE "pending")
      /\ target' = names /\ filter' = passing /\ watch'
  BY <1>1, <1>2 DEF Added
<1>4. MonShapeInv'
  BY <1>1, AddShape DEF MonInv, Linux
<1>5. MonPhaseInv'
  BY <1>1, <1>2, <1>3 DEF MonInv, MonPhaseInv, Linux
<1>6. MonViewInv'
  <2>1. <<>> \in Seq(Events)
    OBVIOUS
  <2>2. Done' = <<>>
    BY <1>3 DEF Done
  <2>3. ASSUME NEW n \in target' PROVE Follows(n)'
    <3>1. PICK v \in BOOLEAN : v <=> n \in Present'
      OBVIOUS
    <3>2. Base(n)' <=> v
      BY <1>2, <3>1 DEF Base
    <3>3. Gives(<<>>, n, v, v)
      BY GivesNone
    <3>4. Chain(input', Done', queue', n, v, v)
      BY <1>3, <2>2, <3>3 DEF Chain
    <3> QED BY <3>1, <3>2, <3>4 DEF Follows
  <2> QED BY <1>3, <2>1, <2>2, <2>3 DEF MonViewInv
<1> QED BY <1>4, <1>5, <1>6 DEF MonInv

LEMMA ScanningInv ==
  ASSUME MonInv, ScanInv, ScanInv', mode = "watch", Scanning, UNCHANGED monVars, UNCHANGED <<ino, sys, mode>>
  PROVE  MonInv'
<1>0. /\ UNCHANGED <<watch, target, filter, queue, op, active, mem, input, view, lost>>
      /\ Present' = Present /\ Present \subseteq FileNames /\ Done' = Done
  BY DEF monVars, Present, Done
<1>1. MonShapeInv'
  BY <1>0, MonShapeKept DEF MonInv
<1>2. /\ flags = {} /\ steady \subseteq FileNames /\ scan \notin {"info", "closed"}
      /\ (scan \in {"none", "reading"} => input = <<>> /\ view = {})
      /\ (scan = "listed" => view = {list[k] : k \in 1..cur} \cap target)
      /\ target \subseteq filter /\ target \subseteq FileNames /\ view \subseteq target
      /\ (Linux => op = "none") /\ mode \in Modes
  BY DEF MonInv, MonPhaseInv
<1>3. flags' = flags
  BY DEF Scanning, ScanOpen, ScanRead, ScanEnd, ScanFails, ScanDone
<1>4. Linux' <=> Linux
  BY DEF Linux
<1>5. SUFFICES /\ steady' \subseteq FileNames /\ scan' \notin {"none", "info", "closed"}
               /\ (scan' = "reading" => input = <<>> /\ view = {})
               /\ (scan' = "listed" => input = <<>> /\ view = {list'[k] : k \in 1..cur'} \cap target)
               /\ \A n \in target : (Base(n)' <=> Base(n)) \/ (Base(n)' <=> n \in Present)
  <2>1. MonPhaseInv'
    BY <1>0, <1>2, <1>3, <1>4, <1>5 DEF MonPhaseInv
  <2>2. MonViewInv'
    <3> SUFFICES ASSUME watch, ~lost
                 PROVE  /\ input \in Seq(Events) /\ Done \in Seq(Events) /\ queue \in Seq(Events)
                        /\ \A n \in target : Follows(n)'
      BY <1>0 DEF MonViewInv
    <3>1. /\ input \in Seq(Events) /\ Done \in Seq(Events) /\ queue \in Seq(Events)
          /\ \A n \in target : Follows(n)
      BY DEF MonInv, MonViewInv
    <3>2. ASSUME NEW n \in target PROVE Follows(n)'
      <4>1. PICK b \in BOOLEAN, v \in BOOLEAN :
              (b <=> Base(n)) /\ (v <=> n \in Present) /\ Chain(input, Done, queue, n, b, v)
        BY <3>1 DEF Follows
      <4>2. Chain(input, Done, queue, n, v, v)
        BY <4>1, ChainSame
      <4>3. Chain(input', Done', queue', n, b, v) /\ Chain(input', Done', queue', n, v, v)
        BY <1>0, <4>1, <4>2
      <4>4. v <=> n \in Present'
        BY <1>0, <4>1
      <4>5. CASE Base(n)' <=> Base(n)
        <5>1. b <=> Base(n)'
          BY <4>1, <4>5
        <5> QED BY <4>3, <4>4, <5>1 DEF Follows
      <4>6. CASE Base(n)' <=> n \in Present
        <5>1. v <=> Base(n)'
          BY <4>1, <4>6
        <5> QED BY <4>3, <4>4, <5>1 DEF Follows
      <4> QED BY <1>5, <4>5, <4>6
    <3> QED BY <3>1, <3>2
  <2> QED BY <1>1, <2>1, <2>2 DEF MonInv
<1>6. CASE watch /\ ScanOpen(Present)
  <2>1. scan = "none" /\ scan' = "reading" /\ steady' = Present /\ entries' = <<>>
    BY <1>6 DEF ScanOpen, ScanInv
  <2>2. Elements(<<>>) = {}
    BY DEF Elements
  <2>3. \A n : Base(n)' <=> n \in Present
    BY <2>1, <2>2 DEF Base, Elements
  <2> QED BY <1>0, <1>2, <2>1, <2>3
<1>7. ASSUME NEW x \in Present \cup steady, ScanRead(x)
      PROVE  /\ steady' \subseteq FileNames /\ scan' \notin {"none", "info", "closed"}
             /\ (scan' = "reading" => input = <<>> /\ view = {})
             /\ (scan' = "listed" => input = <<>> /\ view = {list'[k] : k \in 1..cur'} \cap target)
             /\ \A n \in target : (Base(n)' <=> Base(n)) \/ (Base(n)' <=> n \in Present)
  <2>1. scan = "reading" /\ scan' = "reading" /\ steady' = steady \ {x}
    BY <1>7 DEF ScanRead
  <2>2. x \in FileNames
    BY <1>0, <1>2
  <2>3. ~Skipped(x)
    BY <1>2, <2>2 DEF Skipped, Dots, FileNames
  <2>4. entries' = Append(entries, x) /\ entries \in Seq(AllNames) /\ x \in AllNames
    BY <1>7, <2>2, <2>3, FileNamesAssumption DEF ScanRead, ScanInv, AllNames
  <2>5. Elements(Append(entries, x)) = Elements(entries) \cup {x}
    <3> DEFINE e == Append(entries, x) L == Len(entries)
    <3>1. DOMAIN entries = 1..L /\ DOMAIN e = 1..(L + 1)
      BY <2>4, LenProperties, AppendProperties
    <3>2. (\A i \in 1..L : e[i] = entries[i]) /\ e[L + 1] = x
      BY <2>4, AppendProperties
    <3>3. L \in Nat
      BY <2>4, LenProperties
    <3> HIDE DEF e, L
    <3>4. 1..(L + 1) = 1..L \cup {L + 1}
      BY <3>3
    <3>5. Elements(e) = {e[k] : k \in 1..(L + 1)} /\ Elements(entries) = {entries[k] : k \in 1..L}
      BY <3>1 DEF Elements
    <3>6. \A y : y \in Elements(e) <=> (y \in Elements(entries) \/ y = x)
      <4> TAKE y
      <4>1. y \in Elements(e) <=> \E k \in 1..L \cup {L + 1} : y = e[k]
        BY <3>4, <3>5
      <4>2. y \in Elements(entries) <=> \E k \in 1..L : y = entries[k]
        BY <3>5
      <4> QED BY <3>2, <4>1, <4>2
    <3> QED BY <3>6 DEF e
  <2>6. \A n : Base(n)' <=> n \in (steady \ {x}) \cup Elements(entries) \cup {x}
    <3>1. \A n : Base(n)' <=> n \in steady' \cup Elements(entries')
      BY <2>1 DEF Base, Elements
    <3> QED BY <2>1, <2>4, <2>5, <3>1
  <2>7. \A n : Base(n) <=> n \in steady \cup Elements(entries)
    BY <2>1 DEF Base
  <2>8. ASSUME NEW n \in target PROVE (Base(n)' <=> Base(n)) \/ (Base(n)' <=> n \in Present)
    <3>1. CASE n = x
      BY <2>6, <2>7, <3>1
    <3>2. CASE n # x
      BY <2>6, <2>7, <3>2
    <3> QED BY <3>1, <3>2
  <2> QED BY <1>2, <2>1, <2>8
<1>8. CASE ScanEnd
  <2>1. scan = "reading" /\ scan' = "listed" /\ steady = {} /\ steady' = {} /\ cur' = cur /\ entries' = entries
    BY <1>2, <1>8 DEF ScanEnd
  <2>2. cur = 0
    BY <2>1 DEF ScanInv
  <2>3. {list'[k] : k \in 1..cur'} = {}
    <3>1. 1..cur' = {}
      BY <2>1, <2>2
    <3> QED BY <3>1
  <2>4. Elements(list') = Elements(entries)
    <3>1. Elements(list)' = Elements(entries)'
      BY <2>1 DEF ScanInv, ListInv
    <3> QED BY <2>1, <3>1 DEF Elements
  <2>5. \A n : Base(n)' <=> n \in Elements(list')
    BY <2>1 DEF Base, Elements
  <2>6. \A n : Base(n) <=> n \in Elements(entries)
    BY <2>1 DEF Base
  <2> QED BY <1>2, <2>1, <2>3, <2>4, <2>5, <2>6
<1>9. CASE ScanFails
  <2>1. scan' = "failed" /\ steady' = steady
    BY <1>9 DEF ScanFails
  <2>2. \A n : Base(n)' <=> n \in Present'
    BY <2>1 DEF Base
  <2> QED BY <1>0, <1>2, <2>1, <2>2
<1>10. CASE ScanDone
  <2>1. scan = "listed" /\ cur = Len(list) /\ scan' = "walked" /\ steady' = steady
    BY <1>10 DEF ScanDone
  <2>2. list \in Seq(AllNames)
    BY DEF ScanInv
  <2>3. Elements(list) = {list[k] : k \in 1..cur}
    BY <2>1, <2>2, LenProperties DEF Elements
  <2>4. \A n : Base(n)' <=> n \in view
    BY <1>0, <2>1 DEF Base
  <2>5. \A n : Base(n) <=> n \in Elements(list)
    BY <2>1 DEF Base
  <2>6. \A n \in target : n \in view <=> n \in Elements(list)
    BY <1>2, <2>1, <2>3
  <2> QED BY <1>2, <2>1, <2>4, <2>5, <2>6
<1> QED BY <1>6, <1>7, <1>8, <1>9, <1>10 DEF Scanning

LEMMA SeeInv ==
  ASSUME MonInv, ScanInv, mode = "watch", Walk, UNCHANGED <<ino, sys, mode>>
  PROVE  MonInv'
<1>0. /\ UNCHANGED <<watch, target, filter, queue, op, active, mem, input, lost, scan, flags, steady, entries, list, subdirs>>
      /\ Present' = Present /\ Done' = Done /\ (Linux' <=> Linux)
      /\ scan = "listed" /\ cur < Len(list) /\ cur' = cur + 1
      /\ view' = view \cup ({list[cur + 1]} \cap target)
  BY DEF Walk, ScanNext, MonSee, Present, Done, Linux
<1>1. MonShapeInv'
  BY <1>0, MonShapeKept DEF MonInv
<1>2. /\ view = {list[k] : k \in 1..cur} \cap target /\ view \subseteq target /\ cur \in Nat
  BY <1>0, LenProperties DEF MonInv, MonPhaseInv, ScanInv
<1>3. view' = {list[k] : k \in 1..cur'} \cap target
  <2>1. 1..(cur + 1) = 1..cur \cup {cur + 1}
    BY <1>2
  <2> QED BY <1>0, <1>2, <2>1
<1>4. MonPhaseInv'
  BY <1>0, <1>2, <1>3 DEF MonInv, MonPhaseInv
<1>5. \A n : Base(n)' <=> Base(n)
  BY <1>0 DEF Base, Elements
<1>6. MonViewInv'
  BY <1>0, <1>5 DEF MonInv, MonViewInv, Follows
<1> QED BY <1>1, <1>4, <1>6 DEF MonInv

\* A step of the monitor's that leaves the phase of the user's work alone.
LEMMA MonPhaseKept ==
  ASSUME MonPhaseInv, UNCHANGED <<target, filter, mode, flags, scan, list, cur, sys>>, steady' \subseteq steady,
         view' \subseteq target, Linux => op' = "none", watch' => watch,
         scan = "walked" \/ (watch' = watch /\ watch /\ view' = view /\ input' = input)
  PROVE  MonPhaseInv'
BY DEF MonPhaseInv, Linux

LEMMA MonitorFacts ==
  ASSUME MonInv, mode = "watch", UNCHANGED scanVars, UNCHANGED <<ino, sys, mode>>
  PROVE  /\ UNCHANGED <<scan, icase, flags, steady, entries, list, subdirs, cur>> /\ Present' = Present
         /\ MonShapeInv /\ MonPhaseInv /\ (Linux => op = "none") /\ view \subseteq target
         /\ target \subseteq filter
         /\ (watch /\ ~lost => /\ input \in Seq(Events) /\ Done \in Seq(Events) /\ queue \in Seq(Events)
                               /\ \A n \in target : Follows(n))
BY DEF MonInv, MonPhaseInv, MonViewInv, scanVars, Present

LEMMA MonReadInv ==
  ASSUME MonInv, mode = "watch", scan = "walked", UNCHANGED scanVars, UNCHANGED <<ino, sys, mode>>, Linux, MonRead
  PROVE  MonInv'
<1>1. /\ UNCHANGED <<scan, icase, flags, steady, entries, list, subdirs, cur>> /\ Present' = Present
      /\ MonShapeInv /\ MonPhaseInv /\ op = "none" /\ view \subseteq target
      /\ (watch /\ ~lost => /\ input \in Seq(Events) /\ Done \in Seq(Events) /\ queue \in Seq(Events)
                            /\ \A n \in target : Follows(n))
  BY MonitorFacts
<1>2. /\ watch /\ input = <<>> /\ UNCHANGED <<watch, target, filter, op, active, mem, view, lost>>
      /\ input' = FirstOf(queue, BufCap) /\ queue' = AllBut(queue, BufCap)
  BY DEF MonRead
<1>3. MonShapeInv'
  BY <1>1, ReadShape
<1>4. MonPhaseInv'
  BY <1>1, <1>2, MonPhaseKept
<1>5. MonViewInv'
  <2> SUFFICES ASSUME ~lost PROVE MonViewInv'
    BY <1>2 DEF MonViewInv
  <2>0. BufCap \in Nat
    BY CapsAssumption
  <2>1. Done = <<>> /\ Done' = <<>> /\ <<>> \in Seq(Events)
    BY <1>1, <1>2 DEF Done
  <2>2. PICK l \in 0..Len(queue) : CutAt(Events, queue, BufCap, l)
    BY <1>1, <1>2, <2>0, Cut
  <2>3. input' \in Seq(Events) /\ queue' \in Seq(Events)
    BY <1>2, <2>2 DEF CutAt
  <2>4. ASSUME NEW n \in target PROVE Follows(n)'
    <3>1. PICK b \in BOOLEAN, v \in BOOLEAN, u \in BOOLEAN, w \in BOOLEAN :
            /\ (b <=> Base(n)) /\ (v <=> n \in Present)
            /\ Gives(input, n, b, u) /\ Gives(Done, n, u, w) /\ Gives(queue, n, w, v)
      BY <1>1, <1>2 DEF Follows, Chain
    <3>2. (b <=> w)
      BY <1>2, <2>1, <3>1, GivesNone
    <3>3. PICK t \in BOOLEAN : Gives(FirstOf(queue, BufCap), n, w, t) /\ Gives(AllBut(queue, BufCap), n, t, v)
      BY <1>1, <1>2, <2>0, <3>1, GivesSplit
    <3>4. Gives(<<>>, n, t, t)
      BY GivesNone
    <3>5. Chain(input', Done', queue', n, w, v)
      BY <1>2, <2>1, <3>3, <3>4 DEF Chain
    <3>6. (w <=> Base(n)') /\ (v <=> n \in Present')
      BY <1>1, <1>2, <3>1, <3>2 DEF Base
    <3> QED BY <3>5, <3>6 DEF Follows
  <2> QED BY <1>2, <2>1, <2>3, <2>4 DEF MonViewInv
<1> QED BY <1>3, <1>4, <1>5 DEF MonInv

LEMMA MonBeginInv ==
  ASSUME MonInv, mode = "watch", scan = "walked", UNCHANGED scanVars, UNCHANGED <<ino, sys, mode>>, ~Linux, MonBegin
  PROVE  MonInv'
<1>1. /\ UNCHANGED <<scan, icase, flags, steady, entries, list, subdirs, cur>> /\ Present' = Present
      /\ MonShapeInv /\ MonPhaseInv /\ view \subseteq target
  BY MonitorFacts
<1>2. /\ op' = "pending" /\ op = "none" /\ UNCHANGED <<watch, target, filter, queue, mem, input, view, lost>>
  BY <1>1 DEF MonBegin, MonShapeInv
<1>3. MonShapeInv'
  BY <1>1, BeginShape
<1>4. MonPhaseInv'
  BY <1>1, <1>2, MonPhaseKept
<1>5. Done' = Done
  BY <1>2 DEF Done
<1>6. \A n : Base(n)' <=> Base(n)
  BY <1>1, <1>2 DEF Base, Elements
<1>7. MonViewInv'
  BY <1>1, <1>2, <1>5, <1>6 DEF MonInv, MonViewInv, Follows
<1> QED BY <1>3, <1>4, <1>7 DEF MonInv

LEMMA MonCompleteInv ==
  ASSUME MonInv, mode = "watch", UNCHANGED scanVars, UNCHANGED <<ino, sys, mode>>, MonComplete
  PROVE  MonInv'
<1>1. /\ UNCHANGED <<scan, icase, flags, steady, entries, list, subdirs, cur>> /\ Present' = Present
      /\ MonShapeInv /\ MonPhaseInv /\ (Linux => op = "none") /\ view \subseteq target
      /\ (watch /\ ~lost => /\ input \in Seq(Events) /\ Done \in Seq(Events) /\ queue \in Seq(Events)
                            /\ \A n \in target : Follows(n))
  BY MonitorFacts
<1>2. /\ op = "pending" /\ op' = "done" /\ queue # <<>> /\ UNCHANGED <<watch, target, filter, active, input, view, lost>>
      /\ mem' = (IF queue[1] = Overflow THEN mem ELSE FirstOf(queue, BufCap))
      /\ queue' = (IF queue[1] = Overflow THEN <<>> ELSE AllBut(queue, BufCap))
  BY DEF MonComplete
<1>3. MonShapeInv'
  BY <1>1, CompleteShape
<1>4. MonPhaseInv'
  <2>1. ~Linux
    BY <1>1, <1>2
  <2> QED BY <1>1, <1>2, <2>1 DEF MonPhaseInv, Linux
<1>5. MonViewInv'
  <2> SUFFICES ASSUME watch, ~lost PROVE MonViewInv'
    BY <1>2 DEF MonViewInv
  <2>0. BufCap \in Nat
    BY CapsAssumption
  <2>1. Done = <<>> /\ queue \in Seq(Events)
    BY <1>1, <1>2 DEF Done
  <2>2. PICK l \in 0..Len(queue) : CutAt(Events, queue, BufCap, l)
    BY <2>0, <2>1, Cut
  <2>3. queue[1] # Overflow
    <3>1. queue[1] \in Events
      BY <1>2, <2>1
    <3> QED BY <3>1, OverflowIsNone
  <2>4. Done' = FirstOf(queue, BufCap) /\ queue' = AllBut(queue, BufCap)
    BY <1>2, <2>3 DEF Done
  <2>5. Done' \in Seq(Events) /\ queue' \in Seq(Events)
    BY <2>2, <2>4 DEF CutAt
  <2>6. ASSUME NEW n \in target PROVE Follows(n)'
    <3>1. PICK b \in BOOLEAN, v \in BOOLEAN, u \in BOOLEAN, w \in BOOLEAN :
            /\ (b <=> Base(n)) /\ (v <=> n \in Present)
            /\ Gives(input, n, b, u) /\ Gives(Done, n, u, w) /\ Gives(queue, n, w, v)
      BY <1>1 DEF Follows, Chain
    <3>2. (u <=> w)
      BY <2>1, <3>1, GivesNone
    <3>3. Gives(queue, n, u, v)
      BY <3>1, <3>2
    <3>4. PICK t \in BOOLEAN : Gives(FirstOf(queue, BufCap), n, u, t) /\ Gives(AllBut(queue, BufCap), n, t, v)
      BY <2>0, <2>1, <3>3, GivesSplit
    <3>5. Chain(input', Done', queue', n, b, v)
      BY <1>2, <2>4, <3>1, <3>4 DEF Chain
    <3>6. (b <=> Base(n)') /\ (v <=> n \in Present')
      BY <1>1, <1>2, <3>1 DEF Base, Elements
    <3> QED BY <3>5, <3>6 DEF Follows
  <2> QED BY <1>1, <1>2, <2>5, <2>6 DEF MonViewInv
<1> QED BY <1>3, <1>4, <1>5 DEF MonInv

LEMMA MonResultInv ==
  ASSUME MonInv, mode = "watch", scan = "walked", UNCHANGED scanVars, UNCHANGED <<ino, sys, mode>>, ~Linux, MonResult
  PROVE  MonInv'
<1>1. /\ UNCHANGED <<scan, icase, flags, steady, entries, list, subdirs, cur>> /\ Present' = Present
      /\ MonShapeInv /\ MonPhaseInv /\ view \subseteq target
      /\ (watch /\ ~lost => /\ input \in Seq(Events) /\ Done \in Seq(Events) /\ queue \in Seq(Events)
                            /\ \A n \in target : Follows(n))
  BY MonitorFacts
<1>2. /\ op = "done" /\ op' = "none" /\ input = <<>> /\ input' = mem
      /\ UNCHANGED <<watch, target, filter, queue, mem, view, lost>>
  BY DEF MonResult
<1>3. MonShapeInv'
  BY <1>1, ResultShape
<1>4. MonPhaseInv'
  BY <1>1, <1>2, MonPhaseKept
<1>5. Done = mem /\ Done' = <<>> /\ <<>> \in Seq(Events)
  BY <1>2 DEF Done
<1>6. ASSUME watch, ~lost, NEW n \in target PROVE Follows(n)'
  <2>1. PICK b \in BOOLEAN, v \in BOOLEAN, u \in BOOLEAN, w \in BOOLEAN :
          /\ (b <=> Base(n)) /\ (v <=> n \in Present)
          /\ Gives(input, n, b, u) /\ Gives(Done, n, u, w) /\ Gives(queue, n, w, v)
    BY <1>1, <1>6 DEF Follows, Chain
  <2>2. (b <=> u) /\ Gives(<<>>, n, w, w)
    BY <1>2, <2>1, GivesNone
  <2>3. Chain(input', Done', queue', n, u, v)
    BY <1>2, <1>5, <2>1, <2>2 DEF Chain
  <2>4. (u <=> Base(n)') /\ (v <=> n \in Present')
    BY <1>1, <1>2, <2>1, <2>2 DEF Base
  <2> QED BY <2>3, <2>4 DEF Follows
<1>7. MonViewInv'
  BY <1>1, <1>2, <1>5, <1>6 DEF MonViewInv
<1> QED BY <1>3, <1>4, <1>7 DEF MonInv

\* What fffilemon_next() does to the view: it returns the event k, and the ones before it
\* are of no name that the user is interested in.
LEMMA SeenGives ==
  ASSUME NEW p \in Seq(Events), NEW k \in 1..Len(p), NEW n \in target, NEW b \in BOOLEAN, NEW u,
         b <=> n \in view, Gives(p, n, b, u), \A j \in 1..(k - 1) : p[j].name # n,
         NEW t, Len(t) = Len(p) - k, \A i \in 1..(Len(p) - k) : t[i] = p[k + i]
  PROVE  \E c \in BOOLEAN : (c <=> n \in Seen(p[k])) /\ Gives(t, n, c, u)
<1>1. PICK c \in BOOLEAN : c <=> n \in Seen(p[k])
  OBVIOUS
<1>2. IF p[k].name = n THEN c <=> p[k].kind = "created" ELSE c <=> b
  BY <1>1 DEF Seen
<1>3. Gives(t, n, c, u)
  BY <1>2, GivesRest
<1> QED BY <1>1, <1>3

LEMMA MonNextInv ==
  ASSUME MonInv, mode = "watch", scan = "walked", UNCHANGED scanVars, UNCHANGED <<ino, sys, mode>>,
         (Linux /\ MonNext) \/ (~Linux /\ MonNextWindows) \/ (Linux /\ MonNextEnds)
  PROVE  MonInv'
<1>1. /\ UNCHANGED <<scan, icase, flags, steady, entries, list, subdirs, cur>> /\ Present' = Present
      /\ MonShapeInv /\ MonPhaseInv /\ (Linux => op = "none") /\ view \subseteq target /\ target \subseteq filter
      /\ (watch /\ ~lost => /\ input \in Seq(Events) /\ Done \in Seq(Events) /\ queue \in Seq(Events)
                            /\ \A n \in target : Follows(n))
  BY MonitorFacts
<1>2. UNCHANGED <<watch, target, filter, queue, op, active, mem, lost>> /\ input # <<>>
  BY DEF MonNext, MonNextWindows, MonNextEnds
<1>3. MonShapeInv'
  BY <1>1, NextShape
<1> DEFINE passing == {k \in DOMAIN input : input[k].name \in filter}
           first == CHOOSE k \in passing : \A j \in passing : k <= j
<1>4. \/ MonNext
      \/ MonNextEnds
      \/ passing = {} /\ input' = <<>> /\ view' = view
      \/ passing # {} /\ input' = Rest(AllBut(input, first - 1)) /\ view' = Seen(input[first])
  BY DEF MonNextWindows
<1>5. view' \subseteq target
  <2>1. view' = view \/ \E e : view' = Seen(e)
    BY <1>4 DEF MonNext, MonNextEnds
  <2> QED BY <1>1, <2>1 DEF Seen
<1>6. MonPhaseInv'
  BY <1>1, <1>2, <1>5, MonPhaseKept
<1>7. MonViewInv'
  <2> SUFFICES ASSUME watch, ~lost PROVE MonViewInv'
    BY <1>2 DEF MonViewInv
  <2>0. input \in Seq(Events) /\ Done' = Done /\ Len(input) \in Nat
    BY <1>1, <1>2, LenProperties DEF Done
  <2>1. ASSUME NEW n \in target, NEW b \in BOOLEAN, NEW u \in BOOLEAN, b <=> n \in view, Gives(input, n, b, u)
        PROVE  \E c \in BOOLEAN : (c <=> n \in view') /\ Gives(input', n, c, u)
    <3>1. CASE MonNext
      <4>1. view' = Seen(input[1]) /\ input' = AllBut(input, 1)
        BY <3>1 DEF MonNext, Rest
      <4>2. PICK l \in 0..Len(input) : CutAt(Events, input, 1, l)
        BY <2>0, Cut
      <4>3. 1 \in 1..Len(input)
        BY <1>2, <2>0, EmptySeq
      <4>4. Len(input') = Len(input) - 1 /\ \A i \in 1..(Len(input) - 1) : input'[i] = input[1 + i]
        BY <4>1, <4>2, <4>3 DEF CutAt
      <4>5. \A j \in 1..(1 - 1) : input[j].name # n
        OBVIOUS
      <4> QED BY <2>0, <2>1, <4>1, <4>3, <4>4, <4>5, SeenGives
    <3>2. CASE MonNextEnds
      <4>1. input[1] \in Events
        BY <1>2, <2>0
      <4> QED BY <3>2, <4>1, OverflowIsNone DEF MonNextEnds
    <3>3. CASE passing = {} /\ input' = <<>> /\ view' = view
      <4>1. DOMAIN input = 1..Len(input)
        BY <2>0, LenProperties
      <4>2. \A k \in 1..Len(input) : input[k].name \notin filter
        BY <3>3, <4>1
      <4>3. Silent(input, n) /\ ~LastSays(input, n, u)
        BY <1>1, <4>2 DEF Silent, LastSays
      <4>4. b <=> u
        BY <2>1, <4>3 DEF Gives
      <4> QED BY <2>1, <3>3, <4>4, GivesNone
    <3>4. CASE passing # {} /\ input' = Rest(AllBut(input, first - 1)) /\ view' = Seen(input[first])
      <4>1. passing \in SUBSET Nat /\ passing \subseteq 1..Len(input)
        BY <2>0, LenProperties
      <4>2. \E k \in passing : \A j \in passing : k <= j
        <5> HIDE DEF passing
        <5> QED BY <3>4, <4>1, Least
      <4>3. first \in passing /\ \A j \in passing : first <= j
        <5> HIDE DEF passing
        <5> QED BY <4>2
      <4>4. first \in 1..Len(input)
        BY <4>1, <4>3
      <4>5. \A j \in 1..(first - 1) : input[j].name # n
        <5> HIDE DEF first
        <5>1. ASSUME NEW j \in 1..(first - 1) PROVE j \in DOMAIN input /\ j \notin passing
          <6>1. j \in 1..Len(input) /\ ~(first <= j)
            BY <2>0, <4>4
          <6> HIDE DEF passing
          <6>2. DOMAIN input = 1..Len(input)
            BY <2>0, LenProperties
          <6> QED BY <4>3, <6>1, <6>2
        <5> QED BY <1>1, <5>1
      <4> HIDE DEF first, passing
      <4> DEFINE c == first - 1 a == AllBut(input, c)
      <4>6. c \in Nat /\ c < Len(input) /\ c <= Len(input)
        BY <2>0, <4>4
      <4> HIDE DEF c
      <4>7. PICK l \in 0..Len(input) : CutAt(Events, input, c, l)
        BY <2>0, <4>6, Cut
      <4>8. a \in Seq(Events) /\ Len(a) = Len(input) - c /\ \A i \in 1..(Len(input) - c) : a[i] = input[c + i]
        BY <4>6, <4>7 DEF CutAt
      <4> HIDE DEF a
      <4>9. PICK m \in 0..Len(a) : CutAt(Events, a, 1, m)
        BY <4>8, Cut
      <4>10. 1 <= Len(a) /\ input' = AllBut(a, 1)
        BY <2>0, <3>4, <4>6, <4>8 DEF Rest, a, c
      <4>11. Len(input') = Len(a) - 1 /\ \A i \in 1..(Len(a) - 1) : input'[i] = a[1 + i]
        BY <4>9, <4>10 DEF CutAt
      <4>12. Len(input') = Len(input) - first
        BY <2>0, <4>4, <4>6, <4>8, <4>11 DEF c
      <4>13. ASSUME NEW i \in 1..(Len(input) - first) PROVE input'[i] = input[first + i]
        <5>1. /\ i \in 1..(Len(a) - 1) /\ 1 + i \in 1..(Len(input) - c) /\ c + (1 + i) = first + i
          BY <2>0, <4>4, <4>6, <4>8 DEF c
        <5> QED BY <4>8, <4>11, <5>1
      <4>14. \E d \in BOOLEAN : (d <=> n \in Seen(input[first])) /\ Gives(input', n, d, u)
        BY <2>0, <2>1, <4>4, <4>5, <4>12, <4>13, SeenGives, SMTT(30)
      <4> QED BY <3>4, <4>14
    <3> QED BY <1>4, <3>1, <3>2, <3>3, <3>4
  <2>2. ASSUME NEW n \in target PROVE Follows(n)'
    <3>1. PICK b \in BOOLEAN, v \in BOOLEAN, u \in BOOLEAN, w \in BOOLEAN :
            /\ (b <=> Base(n)) /\ (v <=> n \in Present)
            /\ Gives(input, n, b, u) /\ Gives(Done, n, u, w) /\ Gives(queue, n, w, v)
      BY <1>1 DEF Follows, Chain
    <3>2. b <=> n \in view
      BY <3>1 DEF Base
    <3>3. PICK c \in BOOLEAN : (c <=> n \in view') /\ Gives(input', n, c, u)
      BY <2>1, <3>1, <3>2
    <3>4. Chain(input', Done', queue', n, c, v)
      BY <1>2, <2>0, <3>1, <3>3 DEF Chain
    <3>5. (c <=> Base(n)') /\ (v <=> n \in Present')
      BY <1>1, <3>1, <3>3 DEF Base
    <3> QED BY <3>4, <3>5 DEF Follows
  <2>3. input' \in Seq(Events)
    <3>1. CASE MonNext
      <4>1. PICK l \in 0..Len(input) : CutAt(Events, input, 1, l)
        BY <2>0, Cut
      <4> QED BY <3>1, <4>1 DEF CutAt, MonNext, Rest
    <3>2. CASE MonNextEnds
      BY <3>2 DEF MonNextEnds
    <3>3. CASE input' = <<>>
      BY <3>3
    <3>4. CASE passing # {} /\ input' = Rest(AllBut(input, first - 1))
      <4>1. passing \in SUBSET Nat /\ passing \subseteq 1..Len(input)
        BY <2>0, LenProperties
      <4>2. \E k \in passing : \A j \in passing : k <= j
        <5> HIDE DEF passing
        <5> QED BY <3>4, <4>1, Least
      <4>3. first \in passing
        <5> HIDE DEF passing
        <5> QED BY <4>2
      <4>4. first \in 1..Len(input)
        BY <4>1, <4>3
      <4> HIDE DEF first, passing
      <4> DEFINE c == first - 1 a == AllBut(input, c)
      <4>5. c \in Nat
        BY <2>0, <4>4
      <4>6. input' = AllBut(a, 1)
        BY <3>4 DEF Rest
      <4> HIDE DEF c
      <4>7. PICK l \in 0..Len(input) : CutAt(Events, input, c, l)
        BY <2>0, <4>5, Cut
      <4>8. a \in Seq(Events)
        BY <4>7 DEF CutAt
      <4> HIDE DEF a
      <4>9. PICK m \in 0..Len(a) : CutAt(Events, a, 1, m)
        BY <4>8, Cut
      <4> QED BY <4>6, <4>9 DEF CutAt
    <3> QED BY <1>4, <3>1, <3>2, <3>3, <3>4
  <2> QED BY <1>1, <1>2, <2>0, <2>2, <2>3 DEF MonViewInv
<1> QED BY <1>3, <1>6, <1>7 DEF MonInv

LEMMA MonCloseInv ==
  ASSUME MonInv, mode = "watch", scan = "walked", UNCHANGED scanVars, UNCHANGED <<ino, sys, mode>>, MonClose
  PROVE  MonInv'
<1>1. /\ UNCHANGED <<scan, icase, flags, steady, entries, list, subdirs, cur>>
      /\ MonShapeInv /\ MonPhaseInv /\ view \subseteq target
  BY MonitorFacts
<1>2. ~watch' /\ op' = "none" /\ UNCHANGED <<target, filter, mem, input, view, lost>>
  BY DEF MonClose
<1>3. MonShapeInv'
  BY <1>1, CloseShape
<1>4. MonPhaseInv'
  BY <1>1, <1>2, MonPhaseKept
<1> QED BY <1>2, <1>3, <1>4 DEF MonInv, MonViewInv

LEMMA FileStepSys == ASSUME NEW p \in Procs, FileStep(p) PROVE sys' = sys
BY DEF FileStep, Call, OpenUnix, OpenWindows, OpenAgain, Opens, OpenFails, Write, Close, Remove, Rename, Unlink,
       UseTemp, Size, ReadAll, Crash

\* A process works.
LEMMA WorksMonInv ==
  ASSUME MonInv, NEW p \in Procs, Works(p)
  PROVE  MonInv'
<1>1. /\ UNCHANGED <<watch, target, filter, op, active, mem, input, view, scan, flags, entries, list, subdirs, cur, mode>>
      /\ sys' = sys /\ Note(Told, Linux) /\ mode \in {"work", "watch"}
      /\ steady' = steady \cap Present' /\ Present' \subseteq FileNames
  BY FileStepSys DEF Works, Present
<1>2. ASSUME NEW n \in FileNames, NEW v \in BOOLEAN, NEW t \in BOOLEAN, v <=> n \in Present, t <=> n \in Present'
      PROVE  Told \in Seq(Events) /\ Gives(Told, n, v, t)
  <2>1. "tmp" \in FileNames /\ "file" \in FileNames /\ "tmp" # "file" /\ n \in {"tmp", "file"}
    BY DEF FileNames
  <2>2. (v <=> ino[n] # None) /\ (t <=> ino'[n] # None)
    BY <1>2 DEF Present
  <2> DEFINE x == Changes("tmp", ino["tmp"], ino'["tmp"]) y == Changes("file", ino["file"], ino'["file"])
  <2>3. \E u \in BOOLEAN : x \in Seq(Events) /\ y \in Seq(Events) /\ Gives(x, n, v, u) /\ Gives(y, n, u, t)
    <3>1. CASE n = "tmp"
      <4>1. x \in Seq(Events) /\ Gives(x, n, v, t)
        BY <2>1, <2>2, <3>1, ChangesGive
      <4>2. y \in Seq(Events) /\ Gives(y, n, t, t)
        BY <2>1, <3>1, ChangesGive
      <4> QED BY <4>1, <4>2
    <3>2. CASE n = "file"
      <4>1. x \in Seq(Events) /\ Gives(x, n, v, v)
        BY <2>1, <3>2, ChangesGive
      <4>2. y \in Seq(Events) /\ Gives(y, n, v, t)
        BY <2>1, <2>2, <3>2, ChangesGive
      <4> QED BY <4>1, <4>2
    <3> QED BY <2>1, <3>1, <3>2
  <2>4. Told = x \o y
    BY DEF Told
  <2> HIDE DEF x, y
  <2>5. PICK u \in BOOLEAN : x \in Seq(Events) /\ y \in Seq(Events) /\ Gives(x, n, v, u) /\ Gives(y, n, u, t)
    BY <2>3
  <2>6. x \o y \in Seq(Events) /\ Gives(x \o y, n, v, t)
    BY <2>5, GivesBoth, ConcatProperties
  <2> QED BY <2>4, <2>6
<1>3. Told \in Seq(Events)
  <2>1. "tmp" \in FileNames
    BY DEF FileNames
  <2>2. PICK v \in BOOLEAN, t \in BOOLEAN : (v <=> "tmp" \in Present) /\ (t <=> "tmp" \in Present')
    OBVIOUS
  <2> QED BY <1>2, <2>1, <2>2
<1> DEFINE events == Told linux == Linux
<1>4. MonShapeInv'
  <2> HIDE DEF events, linux
  <2>1. events \in Seq(Events) /\ Note(events, linux) /\ MonShapeInv
    BY <1>1, <1>3 DEF MonInv, events, linux
  <2> QED BY <1>1, <2>1, NoteShape
<1>5. MonPhaseInv'
  <2>1. mode = "watch" => ~(scan = "none" /\ ~watch) \/ (queue' = queue /\ lost' = lost)
    BY <1>1 DEF MonInv, MonPhaseInv, MonShapeInv, Note
  <2> QED BY <1>1, <2>1 DEF MonInv, MonPhaseInv, Linux
<1>6. MonViewInv'
  <2> SUFFICES ASSUME watch, ~lost' PROVE MonViewInv'
    BY <1>1 DEF MonViewInv
  <2>1. ~lost /\ queue' = queue \o Told
    <3>1. ~lost /\ ~(Len(queue) + Len(Told) > QueueCap)
      BY <1>1 DEF Note
    <3>2. Len(queue) + Len(Told) <= QueueCap
      <4>1. Len(queue) \in Nat /\ Len(Told) \in Nat /\ QueueCap \in Nat
        BY <1>3, LenProperties, CapsAssumption DEF MonInv, MonShapeInv
      <4> HIDE DEF events
      <4> QED BY <3>1, <4>1
    <3> QED BY <1>1, <3>1, <3>2 DEF Note, Noted
  <2>2. /\ input \in Seq(Events) /\ Done \in Seq(Events) /\ queue \in Seq(Events) /\ \A n \in target : Follows(n)
        /\ target \subseteq FileNames
    BY <2>1 DEF MonInv, MonViewInv, MonPhaseInv
  <2>3. Done' = Done
    BY <1>1 DEF Done
  <2>4. queue' \in Seq(Events)
    BY <1>3, <2>1, <2>2, ConcatProperties
  <2>5. ASSUME NEW n \in target PROVE Follows(n)'
    <3>0. n \in FileNames
      BY <2>2
    <3>1. PICK b \in BOOLEAN, v \in BOOLEAN, u \in BOOLEAN, w \in BOOLEAN :
            /\ (b <=> Base(n)) /\ (v <=> n \in Present)
            /\ Gives(input, n, b, u) /\ Gives(Done, n, u, w) /\ Gives(queue, n, w, v)
      BY <2>2 DEF Follows, Chain
    <3>2. PICK t \in BOOLEAN : t <=> n \in Present'
      OBVIOUS
    <3>3. Gives(Told, n, v, t)
      BY <1>2, <3>0, <3>1, <3>2
    <3>4. Gives(queue', n, w, t)
      BY <1>3, <2>1, <2>2, <3>1, <3>3, GivesBoth
    <3>5. Chain(input', Done', queue', n, b, t)
      BY <1>1, <2>3, <3>1, <3>4 DEF Chain
    <3>6. Chain(input', Done', queue', n, t, t)
      BY <3>5, ChainSame
    <3>7. (Base(n)' <=> Base(n)) \/ (Base(n)' <=> n \in Present')
      <4>1. CASE scan = "reading"
        <5>1. Base(n)' <=> n \in (steady \cap Present') \cup Elements(entries)
          BY <1>1, <4>1 DEF Base, Elements
        <5>2. Base(n) <=> n \in steady \cup Elements(entries)
          BY <4>1 DEF Base
        <5> QED BY <5>1, <5>2
      <4>2. CASE scan \in {"listed", "walked"}
        BY <1>1, <4>2 DEF Base, Elements
      <4>3. CASE scan \notin {"reading", "listed", "walked"}
        BY <1>1, <4>3 DEF Base
      <4> QED BY <4>1, <4>2, <4>3
    <3>8. CASE Base(n)' <=> Base(n)
      <4>1. b <=> Base(n)'
        BY <3>1, <3>8
      <4> QED BY <3>2, <3>5, <4>1 DEF Follows
    <3>9. CASE Base(n)' <=> n \in Present'
      <4>1. t <=> Base(n)'
        BY <3>2, <3>9
      <4> QED BY <3>2, <3>6, <4>1 DEF Follows
    <3> QED BY <3>7, <3>8, <3>9
  <2> QED BY <1>1, <2>2, <2>3, <2>4, <2>5 DEF MonViewInv
<1> QED BY <1>4, <1>5, <1>6 DEF MonInv

LEMMA WatcherInv ==
  ASSUME MonInv, ScanInv, Watcher
  PROVE  MonInv' /\ ScanInv'
<1>1. mode = "watch" /\ UNCHANGED <<ino, sys, mode>>
  BY DEF Watcher, fileVars
<1>2. ASSUME UNCHANGED scanVars PROVE ScanInv'
  <2>1. UNCHANGED <<scan, icase, flags, entries, list, subdirs, cur>> /\ steady' \subseteq AllNames
    BY <1>2 DEF scanVars, ScanInv
  <2> QED BY <2>1, ScanKeeps
<1>3. CASE Watch
  BY <1>1, <1>2, <1>3, WatchInv DEF Watch
<1>4. CASE Scan
  <2>1. Scanning /\ UNCHANGED monVars
    BY <1>4 DEF Scan
  <2>2. Present \cup steady \subseteq AllNames
    BY FileNamesAssumption DEF Present, ScanInv, AllNames
  <2>3. ScanInv'
    <3>1. CASE watch /\ ScanOpen(Present)
      <4> DEFINE P == Present
      <4>1. P \subseteq AllNames /\ ScanOpen(P)
        BY <2>2, <3>1
      <4> HIDE DEF P
      <4> QED BY <4>1, ScanOpenInv
    <3>2. ASSUME NEW n \in Present \cup steady, ScanRead(n) PROVE ScanInv'
      <4>1. n \in AllNames
        BY <2>2
      <4> QED BY <3>2, <4>1, ScanReadInv
    <3> QED BY <2>1, <3>1, <3>2, ScanEndInv, ScanFailsInv, WalkInv DEF Scanning
  <2> QED BY <1>1, <2>1, <2>3, ScanningInv
<1>5. CASE Walk
  BY <1>1, <1>5, SeeInv, WalkInv DEF Walk
<1>6. CASE Monitor
  <2>1. scan = "walked" /\ UNCHANGED scanVars
    BY <1>6 DEF Monitor
  <2>2. \/ Linux /\ MonRead
        \/ (Linux /\ MonNext) \/ (~Linux /\ MonNextWindows) \/ (Linux /\ MonNextEnds)
        \/ ~Linux /\ MonBegin
        \/ ~Linux /\ MonResult
        \/ MonClose
    BY <1>6 DEF Monitor
  <2>3. MonInv'
    BY <1>1, <2>1, <2>2, MonReadInv, MonNextInv, MonBeginInv, MonResultInv, MonCloseInv
  <2> QED BY <1>2, <2>1, <2>3
<1>7. CASE System
  <2>1. MonComplete /\ UNCHANGED scanVars
    BY <1>7 DEF System
  <2>2. MonInv'
    BY <1>1, <2>1, MonCompleteInv
  <2> QED BY <1>2, <2>1, <2>2
<1> QED BY <1>3, <1>4, <1>5, <1>6, <1>7 DEF Watcher

\* Nobody watches.
LEMMA ScannerInv ==
  ASSUME MonInv, ScanInv, Scanner
  PROVE  MonInv' /\ ScanInv'
<1>1. /\ mode = "scan" /\ mode' = mode /\ ~watch /\ Linux' = Linux
      /\ UNCHANGED <<watch, target, filter, queue, op, active, mem, input, view, lost>>
  BY DEF Scanner, fileVars, monVars, MonInv, MonPhaseInv, Linux
<1>2. MonInv'
  <2>1. MonShapeInv'
    BY <1>1, MonShapeKept DEF MonInv
  <2>2. MonPhaseInv'
    BY <1>1 DEF MonInv, MonPhaseInv
  <2> QED BY <1>1, <2>1, <2>2 DEF MonInv, MonViewInv
<1>3. ScanInv'
  <2>1. ASSUME NEW names \in SUBSET Others, ScanOpen(names \cup Dots) PROVE ScanInv'
    <3> DEFINE P == names \cup Dots
    <3>1. P \subseteq AllNames /\ ScanOpen(P)
      BY <2>1, NamesAssumption DEF Others, AllNames
    <3> HIDE DEF P
    <3> QED BY <3>1, ScanOpenInv
  <2>2. ASSUME NEW n \in steady, ScanRead(n) PROVE ScanInv'
    <3>1. n \in AllNames
      BY DEF ScanInv
    <3> QED BY <2>2, <3>1, ScanReadInv
  <2>3. ASSUME NEW isdir \in BOOLEAN, ScanInfo(isdir) PROVE ScanInv'
    BY <2>3, ScanInfoInv
  <2> QED BY <2>1, <2>2, <2>3, ScanEndInv, ScanFailsInv, ScanInfoEndInv, WalkInv, ScanCloseInv DEF Scanner
<1> QED BY <1>2, <1>3

LEMMA MonUnchanged ==
  ASSUME MonInv, UNCHANGED <<monVars, scanVars, fileVars, mode>>
  PROVE  MonInv'
<1>1. /\ UNCHANGED <<watch, target, filter, queue, op, active, mem, input, view, lost>>
      /\ UNCHANGED <<scan, icase, flags, steady, entries, list, subdirs, cur, ino, sys, mode>>
  BY DEF monVars, scanVars, fileVars
<1>2. (Linux' <=> Linux) /\ Done' = Done /\ Present' = Present
  BY <1>1 DEF Linux, Done, Present
<1>3. \A n : Base(n)' <=> Base(n)
  BY <1>1, <1>2 DEF Base, Elements
<1>4. MonShapeInv'
  BY <1>1, MonShapeKept DEF MonInv
<1>5. MonPhaseInv'
  BY <1>1, <1>2 DEF MonInv, MonPhaseInv
<1>6. MonViewInv'
  BY <1>1, <1>2, <1>3 DEF MonInv, MonViewInv, Follows
<1> QED BY <1>4, <1>5, <1>6 DEF MonInv

LEMMA MonInitInv == Init => MonInv
<1> SUFFICES ASSUME Init PROVE MonInv
  OBVIOUS
<1>1. MonInit /\ ScanInit /\ mode \in Modes /\ (mode # "scan" => flags = {})
  BY DEF Init
<1>2. <<>> \in Seq(Notes) /\ Len(<<>>) = 0 /\ 0 <= QueueCap + 1 /\ 0 # QueueCap + 1 /\ 0 <= BufCap
  BY CapsAssumption
<1>3. MonShapeInv
  BY <1>1, <1>2 DEF MonInit, MonShapeInv
<1>4. MonPhaseInv
  BY <1>1 DEF MonInit, ScanInit, MonPhaseInv
<1> QED BY <1>1, <1>3, <1>4 DEF MonInv, MonViewInv, MonInit

LEMMA MonTypes == MonInv => MonTypeOK
BY DEF MonInv, MonShapeInv, MonTypeOK

LEMMA MonRight == MonInv => ViewIsRight
<1> SUFFICES ASSUME MonInv, watch, scan = "walked", queue = <<>>, input = <<>>, op # "done", ~lost
             PROVE  view = Present \cap target
  BY DEF ViewIsRight
<1>1. Done = <<>>
  BY DEF Done
<1>2. (\A n \in target : Follows(n)) /\ view \subseteq target
  BY DEF MonInv, MonViewInv, MonPhaseInv
<1>3. ASSUME NEW n \in target PROVE n \in view <=> n \in Present
  <2>1. PICK b \in BOOLEAN, v \in BOOLEAN, u \in BOOLEAN, w \in BOOLEAN :
          /\ (b <=> Base(n)) /\ (v <=> n \in Present)
          /\ Gives(<<>>, n, b, u) /\ Gives(<<>>, n, u, w) /\ Gives(<<>>, n, w, v)
    BY <1>1, <1>2 DEF Follows, Chain
  <2>2. (b <=> u) /\ (u <=> w) /\ (w <=> v)
    BY <2>1, GivesNone
  <2> QED BY <2>1, <2>2 DEF Base
<1> QED BY <1>2, <1>3

-----------------------------------------------------------------------------
(* The environment. *)

\* Replaced is the function that its definition says: there is one.
LEMMA ReplacedSteps ==
  ASSUME text \in Seq(Chars)
  PROVE  Replaced[0] = <<>> /\ \A i \in 1..Len(text) : Replaced[i] = Replaced[i - 1] \o Replacement(i)
<1> DEFINE L == Len(text)
           Is(n, g) == g = [i \in 0..n |-> IF i = 0 THEN <<>> ELSE g[i - 1] \o Replacement(i)]
           T == {n \in 0..L : ~\E g : Is(n, g)}
<1>0. L \in Nat
  BY LenProperties
<1> HIDE DEF L
<1>1. ASSUME T # {} PROVE FALSE
  <2>1. T \in SUBSET Nat
    BY <1>0
  <2>2. PICK x \in T : \A y \in T : x <= y
    <3> HIDE DEF T
    <3> QED BY <1>1, <2>1, Least
  <2>3. x \in 0..L /\ ~\E g : Is(x, g)
    BY <2>2
  <2>4. CASE x = 0
    <3> DEFINE g == [i \in 0..0 |-> <<>>]
    <3>1. Is(0, g)
      <4>1. 0..0 = {0}
        OBVIOUS
      <4> QED BY <4>1
    <3> QED BY <2>3, <2>4, <3>1
  <2>5. CASE x # 0
    <3>1. x - 1 \in 0..L /\ x - 1 \notin T
      <4>1. x - 1 \in 0..L /\ ~(x <= x - 1)
        BY <1>0, <2>3, <2>5
      <4> HIDE DEF T
      <4> QED BY <2>2, <4>1
    <3>2. PICK h : Is(x - 1, h)
      BY <3>1
    <3> DEFINE g == [i \in 0..x |-> IF i = x THEN h[x - 1] \o Replacement(x) ELSE h[i]]
    <3>3. /\ \A i \in 0..(x - 1) : h[i] = IF i = 0 THEN <<>> ELSE h[i - 1] \o Replacement(i)
      BY <3>2
    <3>4. \A i \in 0..x : g[i] = IF i = x THEN h[x - 1] \o Replacement(x) ELSE h[i]
      OBVIOUS
    <3>5. ASSUME NEW i \in 0..x PROVE g[i] = IF i = 0 THEN <<>> ELSE g[i - 1] \o Replacement(i)
      <4> HIDE DEF g, Is, T
      <4>1. CASE i = x
        <5>1. i - 1 \in 0..x /\ i - 1 # x /\ i # 0
          BY <1>0, <2>3, <2>5, <4>1
        <5> QED BY <3>4, <4>1, <5>1
      <4>2. CASE i # x /\ i = 0
        <5>1. 0 \in 0..(x - 1)
          BY <1>0, <2>3, <2>5
        <5> QED BY <3>3, <3>4, <4>2, <5>1
      <4>3. CASE i # x /\ i # 0
        <5>1. i \in 0..(x - 1) /\ i - 1 \in 0..x /\ i - 1 # x
          BY <1>0, <2>3, <2>5, <4>3
        <5> QED BY <3>3, <3>4, <4>3, <5>1
      <4> QED BY <4>1, <4>2, <4>3
    <3>6. Is(x, g)
      <4>1. g = [i \in 0..x |-> g[i]]
        OBVIOUS
      <4> HIDE DEF g
      <4> QED BY <3>5, <4>1
    <3> QED BY <2>3, <3>6
  <2> QED BY <2>4, <2>5
<1>2. \E g : Is(L, g)
  <2>1. L \in 0..L
    BY <1>0
  <2> QED BY <1>1, <2>1
<1>3. Is(L, Replaced)
  <2>1. Replaced = CHOOSE g : Is(L, g)
    BY DEF Replaced, L
  <2> HIDE DEF Is
  <2> QED BY <1>2, <2>1
<1>4. \A i \in 0..L : Replaced[i] = IF i = 0 THEN <<>> ELSE Replaced[i - 1] \o Replacement(i)
  BY <1>3
<1>5. 0 \in 0..L /\ \A i \in 1..L : i \in 0..L /\ i # 0
  BY <1>0
<1> QED BY <1>4, <1>5 DEF L

\* The end of a name.
LEMMA NameAfterIs ==
  ASSUME text \in Seq(Chars), NEW i \in 1..Len(text), NEW j \in i..Len(text),
         \A k \in (i + 1)..j : text[k] \in NameChars, j = Len(text) \/ text[j + 1] \notin NameChars
  PROVE  NameAfter(i) = j
<1> DEFINE L == Len(text)
           P(x) == (\A k \in (i + 1)..x : text[k] \in NameChars) /\ (x = L \/ text[x + 1] \notin NameChars)
           n == NameAfter(i)
<1>0. L \in Nat /\ i \in 1..L /\ j \in i..L /\ P(j)
  BY LenProperties
<1>1. n \in i..L /\ P(n)
  <2>1. n = CHOOSE x \in i..L : P(x)
    BY DEF NameAfter
  <2> HIDE DEF P, n, L
  <2> QED BY <1>0, <2>1
<1>2. ASSUME n < j PROVE FALSE
  <2>1. n + 1 \in (i + 1)..j /\ n # L
    <3> HIDE DEF P, n, L
    <3> QED BY <1>0, <1>1, <1>2
  <2> QED BY <1>0, <1>1, <2>1
<1>3. ASSUME j < n PROVE FALSE
  <2>1. j + 1 \in (i + 1)..n /\ j # L
    <3> HIDE DEF P, n, L
    <3> QED BY <1>0, <1>1, <1>3
  <2> QED BY <1>0, <1>1, <2>1
<1> HIDE DEF P, n, L
<1>4. n = j
  BY <1>0, <1>1, <1>2, <1>3
<1> QED BY <1>4 DEF n

LEMMA NameAfterType ==
  ASSUME text \in Seq(Chars), NEW i \in 1..Len(text)
  PROVE  NameAfter(i) \in i..Len(text)
<1> DEFINE L == Len(text) T == {j \in i..L : j = L \/ text[j + 1] \notin NameChars}
<1>0. L \in Nat
  BY LenProperties
<1>1. T \in SUBSET Nat /\ L \in T
  BY <1>0
<1>2. PICK j \in T : \A y \in T : j <= y
  <2> HIDE DEF T
  <2> QED BY <1>1, Least
<1>3. j \in i..L /\ (j = L \/ text[j + 1] \notin NameChars)
  BY <1>2
<1>4. ASSUME NEW k \in (i + 1)..j PROVE text[k] \in NameChars
  <2>1. k - 1 \in i..L /\ ~(j <= k - 1) /\ k - 1 # L /\ (k - 1) + 1 = k
    BY <1>0, <1>3
  <2>2. k - 1 \notin T
    <3> HIDE DEF T
    <3> QED BY <1>2, <2>1
  <2> QED BY <2>1, <2>2
<1>5. NameAfter(i) = j
  BY <1>3, <1>4, NameAfterIs
<1> QED BY <1>3, <1>5

\* The text is split after d characters: no name goes on there.
SplitAt(d) == \A j \in 1..d : text[j] = "$" => NameAfter(j) <= d

LEMMA ValueType == ASSUME NEW key \in Seq(Chars) PROVE Value(key) \in Seq(Chars)
<1> DEFINE found == {i \in DOMAIN Environ : Matches(Environ[i], key)}
           f == CHOOSE i \in found : \A j \in found : i <= j
           e == Environ[f] m == Len(key) + 2
<1>1. Value(key) = IF found = {} THEN <<>> ELSE SubSeq(e, m, Len(e))
  BY DEF Value
<1>2. CASE found # {}
  <2>1. Environ \in Seq(Seq(Chars)) /\ found \subseteq 1..Len(Environ) /\ found \in SUBSET Nat
    BY TextsAssumption, LenProperties
  <2>2. \E k \in found : \A j \in found : k <= j
    <3> HIDE DEF found
    <3> QED BY <1>2, <2>1, Least
  <2>3. f \in found
    <3> HIDE DEF found
    <3> QED BY <2>2
  <2>4. e \in Seq(Chars)
    BY <2>1, <2>3, ElementOfSeq
  <2> DEFINE n == Len(e)
  <2> HIDE DEF e, found
  <2>8. Len(key) \in Nat /\ n \in Nat
    BY <2>4, LenProperties
  <2>9. \A i \in 1..n : e[i] \in Chars
    BY <2>4, ElementOfSeq
  <2>5. m \in Int /\ m >= 1 /\ n \in Int /\ \A i \in 1..n : e[i] \in Chars
    BY <2>8, <2>9
  <2> HIDE DEF m, n
  <2>6. \A i \in m..n : i \in 1..n
    BY <2>5
  <2>7. SubSeq(e, m, n) \in Seq(Chars)
    BY <2>5, <2>6, SubSeqProperties
  <2> QED BY <1>1, <1>2, <2>7 DEF n
<1>3. <<>> \in Seq(Chars)
  OBVIOUS
<1> HIDE DEF found
<1> QED BY <1>1, <1>2, <1>3

LEMMA ReplacementType ==
  ASSUME text \in Seq(Chars), NEW i \in 1..Len(text)
  PROVE  Replacement(i) \in Seq(Chars)
<1> DEFINE m == i + 1 n == NameAfter(i)
<1>1. CASE text[i] = "$" /\ n # i
  <2>0. Len(text) \in Nat /\ \A k \in 1..Len(text) : text[k] \in Chars
    BY LenProperties
  <2>1. n \in i..Len(text)
    BY NameAfterType
  <2> HIDE DEF n
  <2>2. m \in Int /\ n \in Int /\ \A k \in m..n : text[k] \in Chars
    <3>1. m \in Int /\ n \in Int /\ \A k \in m..n : k \in 1..Len(text)
      BY <2>0, <2>1
    <3> QED BY <2>0, <3>1
  <2> HIDE DEF m
  <2>3. SubSeq(text, m, n) \in Seq(Chars)
    BY <2>2, SubSeqProperties
  <2> QED BY <1>1, <2>3, ValueType DEF Replacement, m, n
<1>2. CASE ~(text[i] = "$" /\ n # i)
  <2>1. text[i] \in Chars
    BY ElementOfSeq
  <2>2. <<text[i]>> \in Seq(Chars) /\ <<>> \in Seq(Chars)
    BY <2>1
  <2> QED BY <1>2, <2>2 DEF Replacement
<1> QED BY <1>1, <1>2

LEMMA ReplacedType ==
  ASSUME text \in Seq(Chars)
  PROVE  \A i \in 0..Len(text) : Replaced[i] \in Seq(Chars)
<1> DEFINE L == Len(text) T == {i \in 0..L : Replaced[i] \notin Seq(Chars)}
<1>0. L \in Nat /\ Replaced[0] = <<>> /\ \A i \in 1..L : Replaced[i] = Replaced[i - 1] \o Replacement(i)
  BY LenProperties, ReplacedSteps
<1>1. ASSUME T # {} PROVE FALSE
  <2>1. T \in SUBSET Nat
    BY <1>0
  <2>2. PICK x \in T : \A y \in T : x <= y
    <3> HIDE DEF T
    <3> QED BY <1>1, <2>1, Least
  <2>3. x \in 0..L /\ Replaced[x] \notin Seq(Chars)
    BY <2>2
  <2>4. x # 0
    <3>1. <<>> \in Seq(Chars)
      OBVIOUS
    <3> HIDE DEF T
    <3> QED BY <1>0, <2>3, <3>1
  <2>5. x \in 1..L /\ x - 1 \in 0..L /\ ~(x <= x - 1)
    <3> HIDE DEF T, L
    <3> QED BY <1>0, <2>3, <2>4
  <2>6. Replaced[x - 1] \in Seq(Chars)
    BY <2>2, <2>5
  <2>7. Replacement(x) \in Seq(Chars)
    BY <2>5, ReplacementType
  <2> QED BY <1>0, <2>3, <2>5, <2>6, <2>7, ConcatProperties
<1> QED BY <1>1

\* A chunk without "$" is copied.
LEMMA PlainChunk ==
  ASSUME text \in Seq(Chars), NEW d \in 0..Len(text), NEW n \in 1..(Len(text) - d), SplitAt(d),
         \A k \in (d + 1)..(d + n) : text[k] # "$"
  PROVE  Replaced[d + n] = Replaced[d] \o SubSeq(text, d + 1, d + n) /\ SplitAt(d + n)
<1> DEFINE L == Len(text) r == Replaced[d]
           T == {k \in 0..n : Replaced[d + k] # r \o SubSeq(text, d + 1, d + k)}
<1>0. L \in Nat /\ d \in 0..L /\ n \in 1..(L - d) /\ d + n \in 0..L /\ n \in Nat /\ d \in Nat
  BY LenProperties
<1>4. r \in Seq(Chars) /\ r \o <<>> = r
  BY ReplacedType, ConcatEmptySeq
<1>1. ASSUME NEW k \in 1..n PROVE Replacement(d + k) = <<text[d + k]>>
  <2>1. d + k \in (d + 1)..(d + n)
    BY <1>0
  <2>2. text[d + k] # "$"
    BY <2>1
  <2>3. ~InName(d + k)
    <3> SUFFICES ASSUME NEW j \in 1..(d + k - 1), text[j] = "$", NameAfter(j) >= d + k PROVE FALSE
      BY DEF InName
    <3>1. j \in 1..d \/ j \in (d + 1)..(d + n)
      BY <1>0
    <3>2. CASE j \in 1..d
      <4> DEFINE a == NameAfter(j)
      <4>1. a <= d /\ a >= d + k
        BY <3>2 DEF SplitAt
      <4>2. j \in 1..Len(text)
        BY <1>0, <3>2 DEF L
      <4>3. a \in j..L
        BY <4>2, NameAfterType
      <4> HIDE DEF a, L, T, r
      <4> QED BY <1>0, <4>1, <4>3
    <3>3. CASE j \in (d + 1)..(d + n)
      BY <3>3
    <3> QED BY <3>1, <3>2, <3>3
  <2> QED BY <2>2, <2>3 DEF Replacement
<1>2. ASSUME T # {} PROVE FALSE
  <2>1. T \in SUBSET Nat
    <3>1. T \subseteq 0..n
      OBVIOUS
    <3> HIDE DEF T, L, r
    <3>2. 0..n \subseteq Nat
      BY <1>0
    <3> QED BY <3>1, <3>2
  <2>2. PICK x \in T : \A y \in T : x <= y
    <3> HIDE DEF T
    <3> QED BY <1>2, <2>1, Least
  <2>3. x \in 0..n /\ Replaced[d + x] # r \o SubSeq(text, d + 1, d + x)
    BY <2>2
  <2>4. x # 0
    <3>1. SubSeq(text, d + 1, d + 0) = <<>> /\ d + 0 = d
      BY <1>0, SubSeqEmpty
    <3> HIDE DEF T, L
    <3> QED BY <1>4, <2>3, <3>1 DEF r
  <2>5. x \in 1..n /\ x - 1 \in 0..n /\ ~(x <= x - 1)
    <3> HIDE DEF T, L, r
    <3> QED BY <1>0, <2>3, <2>4
  <2>6. Replaced[d + (x - 1)] = r \o SubSeq(text, d + 1, d + (x - 1))
    BY <2>2, <2>5
  <2> DEFINE c == d + x m == d + 1
  <2>7. c \in 1..L /\ d + (x - 1) = c - 1 /\ m \in 1..L /\ c \in m..L
    <3> HIDE DEF T, L, r
    <3> QED BY <1>0, <2>5
  <2>8. Replaced[c] = Replaced[c - 1] \o Replacement(c)
    BY <2>7, ReplacedSteps
  <2>9. Replacement(c) = <<text[c]>>
    BY <1>1, <2>5
  <2> HIDE DEF c, m
  <2> DEFINE s == SubSeq(text, m, c - 1) t == <<text[c]>>
  <2>10. SubSeq(text, m, c) = s \o t
    BY <2>7, SubSeqRecursiveSecond DEF L
  <2>11. s \in Seq(Chars) /\ t \in Seq(Chars)
    <3>1. \A k \in 1..L : text[k] \in Chars
      BY ElementOfSeq
    <3>2. \A k \in m..(c - 1) : k \in 1..L
      BY <1>0, <2>7
    <3> DEFINE e == c - 1
    <3>3. m \in Int /\ e \in Int /\ \A k \in m..e : text[k] \in Chars
      BY <1>0, <2>7, <3>1, <3>2
    <3> HIDE DEF e
    <3>4. SubSeq(text, m, e) \in Seq(Chars)
      BY <3>3, SubSeqProperties
    <3>5. text[c] \in Chars
      BY <2>7, <3>1
    <3> QED BY <3>4, <3>5 DEF e
  <2> HIDE DEF s, t, r, T, L
  <2>12. (r \o s) \o t = r \o (s \o t)
    BY <1>4, <2>11, ConcatAssociative, SMTT(30)
  <2>13. Replaced[c - 1] = r \o s
    BY <2>6, <2>7 DEF s, m
  <2>14. Replaced[c] = r \o SubSeq(text, m, c)
    BY <2>8, <2>9, <2>10, <2>12, <2>13 DEF t
  <2> QED BY <2>3, <2>14 DEF c, m
<1>3. Replaced[d + n] = r \o SubSeq(text, d + 1, d + n)
  <2>1. n \in 0..n
    BY <1>0
  <2> QED BY <1>2, <2>1
<1>5. SplitAt(d + n)
  <2> SUFFICES ASSUME NEW j \in 1..(d + n), text[j] = "$" PROVE NameAfter(j) <= d + n
    BY DEF SplitAt
  <2>1. j \in 1..d
    <3>1. j \notin (d + 1)..(d + n)
      OBVIOUS
    <3> HIDE DEF T, L, r
    <3> QED BY <1>0, <3>1
  <2> DEFINE a == NameAfter(j)
  <2>2. a <= d
    BY <2>1 DEF SplitAt
  <2>3. j \in 1..Len(text)
    BY <1>0, <2>1 DEF L
  <2>4. a \in j..L
    BY <2>3, NameAfterType
  <2> HIDE DEF a, T, L, r
  <2>5. a <= d + n
    BY <1>0, <2>2, <2>4
  <2> QED BY <2>5 DEF a
<1> QED BY <1>3, <1>5

\* A "$" with the name that follows is replaced by its value.
LEMMA NameChunk ==
  ASSUME text \in Seq(Chars), NEW d \in 0..Len(text), NEW n \in 1..(Len(text) - d), SplitAt(d),
         text[d + 1] = "$", \A k \in (d + 2)..(d + n) : text[k] \in NameChars,
         d + n = Len(text) \/ text[d + n + 1] \notin NameChars
  PROVE  /\ Replaced[d + n] = Replaced[d] \o (IF n = 1 THEN <<>> ELSE Value(SubSeq(text, d + 2, d + n)))
         /\ SplitAt(d + n)
<1> DEFINE L == Len(text) f == d + 1 e == d + n
           T == {k \in 1..n : Replaced[d + k] # Replaced[f]}
<1>0. L \in Nat /\ d \in 0..L /\ n \in 1..(L - d) /\ e \in f..L /\ f \in 1..L /\ n \in Nat /\ d \in Nat
  BY LenProperties
<1>1. NameAfter(f) = e
  <2>1. \A k \in (f + 1)..e : text[k] \in NameChars
    <3>1. f + 1 = d + 2
      BY <1>0
    <3> QED BY <3>1
  <2>2. e = Len(text) \/ text[e + 1] \notin NameChars
    OBVIOUS
  <2>3. f \in 1..Len(text) /\ e \in f..Len(text)
    BY <1>0
  <2> HIDE DEF f, e
  <2> QED BY <2>1, <2>2, <2>3, NameAfterIs
<1>2. /\ Replaced[f] = Replaced[d] \o Replacement(f)
      /\ \A i \in 1..L : Replaced[i] = Replaced[i - 1] \o Replacement(i)
  <2>1. f - 1 = d
    BY <1>0
  <2> QED BY <1>0, <2>1, ReplacedSteps
<1>3. Replacement(f) = IF n = 1 THEN <<>> ELSE Value(SubSeq(text, d + 2, d + n))
  <2>1. (e = f <=> n = 1) /\ f + 1 = d + 2
    BY <1>0
  <2> QED BY <1>1, <2>1 DEF Replacement
<1>4. ASSUME NEW k \in 2..n PROVE Replacement(d + k) = <<>>
  <2>1. d + k \in (d + 2)..(d + n) /\ f \in 1..(d + k - 1) /\ e >= d + k
    BY <1>0
  <2>2. text[d + k] # "$"
    <3>1. text[d + k] \in NameChars
      BY <2>1
    <3> QED BY <3>1, TextsAssumption
  <2>3. InName(d + k)
    BY <1>1, <2>1 DEF InName
  <2> QED BY <2>2, <2>3 DEF Replacement
<1>5. ASSUME T # {} PROVE FALSE
  <2>1. T \in SUBSET Nat
    <3>1. T \subseteq 1..n /\ 1..n \subseteq Nat
      BY <1>0
    <3> HIDE DEF T
    <3> QED BY <3>1
  <2>2. PICK x \in T : \A y \in T : x <= y
    <3> HIDE DEF T
    <3> QED BY <1>5, <2>1, Least
  <2>3. x \in 1..n /\ Replaced[d + x] # Replaced[f]
    BY <2>2
  <2>4. x # 1
    BY <2>3
  <2>5. x \in 2..n /\ x - 1 \in 1..n /\ ~(x <= x - 1) /\ d + x \in 1..L /\ d + (x - 1) = (d + x) - 1 /\ (d + x) - 1 \in 0..L
    <3> HIDE DEF T, L
    <3> QED BY <1>0, <2>3, <2>4
  <2>6. Replaced[d + (x - 1)] = Replaced[f]
    BY <2>2, <2>5
  <2> DEFINE c == d + x
  <2>7. Replaced[c] = Replaced[c - 1] \o <<>> /\ Replaced[c - 1] = Replaced[f] /\ Replaced[c - 1] \in Seq(Chars)
    BY <1>2, <1>4, <2>5, <2>6, ReplacedType
  <2>8. Replaced[c - 1] \o <<>> = Replaced[c - 1]
    BY <2>7, ConcatEmptySeq
  <2> QED BY <2>3, <2>7, <2>8
<1>6. Replaced[e] = Replaced[f]
  <2>1. n \in 1..n
    BY <1>0
  <2> QED BY <1>5, <2>1
<1>7. SplitAt(e)
  <2> SUFFICES ASSUME NEW j \in 1..e, text[j] = "$" PROVE NameAfter(j) <= e
    BY DEF SplitAt
  <2>1. j \in 1..d \/ j = f \/ j \in (d + 2)..(d + n)
    BY <1>0
  <2>2. CASE j \in 1..d
    <3> DEFINE a == NameAfter(j)
    <3>1. a <= d
      BY <2>2 DEF SplitAt
    <3>2. j \in 1..Len(text)
      BY <1>0, <2>2 DEF L
    <3>3. a \in j..L
      BY <3>2, NameAfterType
    <3> HIDE DEF a, T, L
    <3>4. a <= e
      BY <1>0, <3>1, <3>3
    <3> QED BY <3>4 DEF a
  <2>3. CASE j = f
    BY <1>0, <1>1, <2>3
  <2>4. CASE j \in (d + 2)..(d + n)
    BY <2>4, TextsAssumption
  <2> QED BY <2>1, <2>2, <2>3, <2>4
<1> QED BY <1>2, <1>3, <1>6, <1>7

\* What is left of the text is a suffix, what was written is the expansion of what comes
\* before it, unless the buffer is full.
Reads(d) ==
  /\ in = SubSeq(text, d + 1, Len(text)) /\ SplitAt(d)
  /\ outcap = NewBuffer \/ Len(out) < outcap => out = Replaced[d]
EnvInv ==
  /\ text \in Seq(Chars) /\ out \in Seq(Chars) /\ outcap \in Nat \cup {NewBuffer}
  /\ expanded \in {"no", "ok", "null"} /\ (outcap # NewBuffer => Len(out) <= outcap)
  /\ \E d \in 0..Len(text) : Reads(d)
  /\ expanded = "ok" => in = <<>> /\ (outcap = NewBuffer \/ Len(out) < outcap)

LEMMA NextLenIs ==
  ASSUME NEW s \in Seq(Chars), s # <<>>
  PROVE  /\ NextLen(s) \in 1..Len(s)
         /\ s[1] # "$" => \A k \in 1..NextLen(s) : s[k] # "$"
         /\ s[1] = "$" => /\ \A k \in 2..NextLen(s) : s[k] \in NameChars
                          /\ NextLen(s) = Len(s) \/ s[NextLen(s) + 1] \notin NameChars
<1> DEFINE L == Len(s) E == Ends(s) x == CHOOSE k \in E : \A j \in E : k <= j n == NextLen(s)
<1>0. L \in Nat /\ L # 0 /\ DOMAIN s = 1..L
  BY EmptySeq, LenProperties
<1>1. E = IF s[1] = "$" THEN {k \in 2..L : s[k] \notin NameChars} ELSE {k \in 1..L : s[k] = "$"}
  BY <1>0 DEF Ends
<1>2. E \in SUBSET Nat /\ E \subseteq 2..L
  <2>1. CASE s[1] = "$"
    BY <1>0, <1>1, <2>1
  <2>2. CASE s[1] # "$"
    <3>1. E = {k \in 1..L : s[k] = "$"}
      BY <1>1, <2>2
    <3>2. ASSUME NEW k \in E PROVE k \in 2..L
      <4>1. k \in 1..L /\ k # 1
        BY <2>2, <3>1
      <4> HIDE DEF E
      <4> QED BY <1>0, <4>1
    <3> HIDE DEF E
    <3> QED BY <1>0, <3>2
  <2> QED BY <2>1, <2>2
<1>3. n = IF E = {} THEN L ELSE x - 1
  BY DEF NextLen
<1> HIDE DEF n, E
<1>4. E # {} => x \in E /\ \A j \in E : x <= j
  <2>1. E # {} => \E k \in E : \A j \in E : k <= j
    BY <1>2, Least
  <2> QED BY <2>1
<1> HIDE DEF x, L
<1>5. n \in 1..L /\ (n = L \/ (n + 1 \in E)) /\ \A k \in 1..n : k \notin E
  <2>1. CASE E = {}
    BY <1>0, <1>3, <2>1
  <2>2. CASE E # {}
    <3>1. x \in 2..L /\ n = x - 1 /\ x \in E
      BY <1>2, <1>3, <1>4, <2>2
    <3>2. n \in 1..L /\ n + 1 = x
      BY <1>0, <3>1
    <3>3. ASSUME NEW k \in 1..n PROVE k \notin E
      <4>1. ~(x <= k)
        BY <1>0, <3>1
      <4> QED BY <1>4, <2>2, <4>1
    <3> QED BY <3>1, <3>2, <3>3
  <2> QED BY <2>1, <2>2
<1>6. CASE s[1] = "$"
  <2>1. E = {k \in 2..L : s[k] \notin NameChars}
    BY <1>1, <1>6 DEF L
  <2>2. \A k \in 2..n : k \in 1..n /\ k \in 2..L
    BY <1>0, <1>5
  <2> QED BY <1>5, <1>6, <2>1, <2>2 DEF n, L
<1>7. CASE s[1] # "$"
  <2>1. E = {k \in 1..L : s[k] = "$"}
    BY <1>1, <1>7 DEF L
  <2>2. \A k \in 1..n : k \in 1..L
    BY <1>0, <1>5
  <2> QED BY <1>5, <1>7, <2>1, <2>2 DEF n, L
<1> QED BY <1>6, <1>7

LEMMA ExpandInv == ASSUME EnvInv, Expand PROVE EnvInv'
<1>1. /\ text \in Seq(Chars) /\ out \in Seq(Chars) /\ outcap \in Nat \cup {NewBuffer}
      /\ (outcap # NewBuffer => Len(out) <= outcap)
  BY DEF EnvInv
<1>2. expanded = "no" /\ in # <<>> /\ UNCHANGED <<text, outcap, expanded>>
  BY DEF Expand
<1>3. PICK d \in 0..Len(text) : Reads(d)
  BY DEF EnvInv
<1> DEFINE L == Len(text) f == d + 1
<1>4. L \in Nat /\ d \in 0..L /\ f \in Int
  BY <1>1, LenProperties
<1>5. in = SubSeq(text, f, L) /\ SplitAt(d)
  BY <1>3 DEF Reads
<1>6. \A k \in 1..L : text[k] \in Chars
  BY <1>1, ElementOfSeq
<1>7. in \in Seq(Chars) /\ Len(in) = L - d /\ \A i \in 1..(L - d) : in[i] = text[d + i]
  <2>1. \A k \in f..L : k \in 1..L
    BY <1>4
  <2>2. \A k \in f..L : text[k] \in Chars
    BY <1>6, <2>1
  <2> HIDE DEF f, L
  <2>3. /\ SubSeq(text, f, L) \in Seq(Chars) /\ Len(SubSeq(text, f, L)) = (IF f <= L THEN L - f + 1 ELSE 0)
        /\ \A i \in 1..(L - f + 1) : SubSeq(text, f, L)[i] = text[f + i - 1]
    BY <1>4, <2>2, SubSeqProperties
  <2>4. Len(in) = L - d
    BY <1>4, <1>5, <2>3 DEF f
  <2>5. ASSUME NEW i \in 1..(L - d) PROVE in[i] = text[d + i]
    <3>1. i \in 1..(L - f + 1) /\ f + i - 1 = d + i
      BY <1>4 DEF f
    <3> QED BY <1>5, <2>3, <3>1
  <2> QED BY <1>5, <2>3, <2>4, <2>5
<1>21. PICK n \in 1..(L - d) : n = NextLen(in)
  BY <1>2, <1>7, NextLenIs
<1> DEFINE e == d + n c == SubSeq(text, f, e)
<1>8. /\ n \in 1..(L - d)
      /\ in[1] # "$" => \A k \in 1..n : in[k] # "$"
      /\ in[1] = "$" => (\A k \in 2..n : in[k] \in NameChars) /\ (n = L - d \/ in[n + 1] \notin NameChars)
  BY <1>2, <1>7, <1>21, NextLenIs
<1> HIDE DEF L
<1>9. e \in f..L /\ f \in 1..L /\ e \in 0..L /\ e \in 1..L /\ f + 1 = d + 2 /\ 1 \in 1..(L - d)
  BY <1>4, <1>8
<1>10. in[1] = text[f]
  BY <1>7, <1>9
<1>11. SubSeq(in, 1, n) = c
  <2>1. L \in 1..L /\ 1 \in 1..(L - f + 1) /\ n \in 1..(L - f + 1) /\ f + 1 - 1 = f /\ f + n - 1 = e
    BY <1>4, <1>8, <1>9
  <2> HIDE DEF f, e
  <2>2. SubSeq(SubSeq(text, f, L), 1, n) = SubSeq(text, f + 1 - 1, f + n - 1)
    BY <1>1, <1>9, <2>1, SubSeqOfSubSeq DEF L
  <2> QED BY <1>5, <2>1, <2>2
<1>12. in' = SubSeq(text, e + 1, L)
  <2>1. in' = SubSeq(in, n + 1, L - d)
    BY <1>7, <1>21 DEF Expand
  <2>2. CASE n = L - d
    <3> DEFINE m == n + 1 k == L - d j == e + 1
    <3>1. m \in Int /\ k \in Int /\ k < m /\ j \in Int /\ L \in Int /\ L < j
      BY <1>4, <1>8, <2>2
    <3> HIDE DEF m, k, j
    <3>2. SubSeq(in, m, k) = <<>> /\ SubSeq(text, j, L) = <<>>
      BY <3>1, SubSeqEmpty
    <3> QED BY <2>1, <3>2 DEF m, k, j
  <2>3. CASE n # L - d
    <3> DEFINE m == n + 1 k == L - d
    <3>1. L \in 1..L /\ m \in 1..(L - f + 1) /\ k \in 1..(L - f + 1) /\ f + m - 1 = e + 1 /\ f + k - 1 = L
      BY <1>4, <1>8, <1>9, <2>3
    <3> HIDE DEF f, e, m, k
    <3>2. SubSeq(SubSeq(text, f, L), m, k) = SubSeq(text, f + m - 1, f + k - 1)
      BY <1>1, <1>9, <3>1, SubSeqOfSubSeq DEF L
    <3> QED BY <1>5, <2>1, <3>1, <3>2 DEF m, k
  <2> QED BY <2>2, <2>3
<1>13. c \in Seq(Chars) /\ Len(c) = n /\ c[1] = text[f]
  <2>1. \A k \in f..e : k \in 1..L
    BY <1>4, <1>9
  <2>2. \A k \in f..e : text[k] \in Chars
    BY <1>6, <2>1
  <2>3. e - f + 1 = n /\ f <= e /\ 1 \in 1..n /\ f + 1 - 1 = f /\ e \in Int
    BY <1>4, <1>8
  <2> HIDE DEF f, e
  <2>4. /\ SubSeq(text, f, e) \in Seq(Chars) /\ Len(SubSeq(text, f, e)) = (IF f <= e THEN e - f + 1 ELSE 0)
        /\ \A i \in 1..(e - f + 1) : SubSeq(text, f, e)[i] = text[f + i - 1]
    BY <1>4, <2>2, <2>3, SubSeqProperties
  <2> QED BY <2>3, <2>4
<1>14. /\ Replaced[e] = Replaced[d] \o Chunk(c) /\ SplitAt(e) /\ Chunk(c) \in Seq(Chars)
  <2>1. CASE text[f] # "$"
    <3>1. ASSUME NEW k \in f..e PROVE text[k] # "$"
      <4>1. k - d \in 1..n /\ k - d \in 1..(L - d) /\ d + (k - d) = k
        BY <1>4, <1>8
      <4> QED BY <1>7, <1>8, <1>10, <2>1, <4>1
    <3>2. Chunk(c) = c
      BY <1>13, <2>1 DEF Chunk
    <3>3. Replaced[d + n] = Replaced[d] \o SubSeq(text, d + 1, d + n) /\ SplitAt(d + n)
      BY <1>1, <1>4, <1>5, <1>8, <3>1, PlainChunk DEF L
    <3> QED BY <1>13, <3>2, <3>3
  <2>2. CASE text[f] = "$"
    <3>1. ASSUME NEW k \in (d + 2)..(d + n) PROVE text[k] \in NameChars
      <4>1. k - d \in 2..n /\ k - d \in 1..(L - d) /\ d + (k - d) = k
        BY <1>4, <1>8
      <4> QED BY <1>7, <1>8, <1>10, <2>2, <4>1
    <3>2. d + n = L \/ text[d + n + 1] \notin NameChars
      <4>1. CASE n = L - d
        BY <1>4, <1>8, <4>1
      <4>2. CASE n # L - d
        <5>1. n + 1 \in 1..(L - d) /\ d + (n + 1) = d + n + 1
          BY <1>4, <1>8, <4>2
        <5> QED BY <1>7, <1>8, <1>10, <2>2, <4>2, <5>1
      <4> QED BY <4>1, <4>2
    <3> DEFINE v == IF n = 1 THEN <<>> ELSE Value(SubSeq(text, d + 2, d + n))
    <3>3. Replaced[d + n] = Replaced[d] \o v /\ SplitAt(d + n)
      BY <1>1, <1>4, <1>5, <1>8, <2>2, <3>1, <3>2, NameChunk DEF L
    <3>4. Tail(c) = SubSeq(text, d + 2, d + n) /\ Tail(c) \in Seq(Chars)
      <4>1. c # <<>>
        <5> HIDE DEF c
        <5>1. n # 0 /\ Len(<<>>) = 0
          BY <1>8
        <5> QED BY <1>13, <5>1
      <4>2. Tail(c) \in Seq(Chars)
        BY <1>13, <4>1, HeadTailProperties
      <4> HIDE DEF f, e
      <4>3. Tail(SubSeq(text, f, e)) = SubSeq(text, f + 1, e)
        BY <1>1, <1>9, HeadTailOfSubSeq DEF L
      <4> QED BY <1>9, <4>2, <4>3 DEF e
    <3>5. Chunk(c) = v
      BY <1>13, <2>2, <3>4 DEF Chunk
    <3>6. v \in Seq(Chars)
      <4>0. Value(Tail(c)) \in Seq(Chars)
        <5> HIDE DEF c
        <5> QED BY <3>4, ValueType
      <4>1. <<>> \in Seq(Chars) /\ Value(Tail(c)) \in Seq(Chars)
        BY <4>0
      <4> HIDE DEF c
      <4> QED BY <3>4, <4>1
    <3> HIDE DEF v, c
    <3> QED BY <3>3, <3>5, <3>6
  <2> QED BY <2>1, <2>2
<1> DEFINE o == out \o Chunk(c)
<1>15. out' = Room(o)
  BY <1>11, <1>21 DEF Expand
<1>16. o \in Seq(Chars) /\ Len(o) = Len(out) + Len(Chunk(c)) /\ Len(out) \in Nat /\ Len(Chunk(c)) \in Nat
  BY <1>1, <1>14, ConcatProperties, LenProperties
<1>17. out' \in Seq(Chars) /\ (outcap # NewBuffer => Len(out') <= outcap)
       /\ (outcap = NewBuffer \/ Len(out') < outcap => out' = o)
  <2> HIDE DEF o
  <2>1. CASE ~(outcap # NewBuffer /\ Len(o) > outcap)
    <3>1. out' = o
      BY <1>15, <2>1 DEF Room
    <3>2. Len(o) \in Nat
      BY <1>16, LenProperties
    <3> QED BY <1>1, <1>16, <2>1, <3>1, <3>2
  <2>2. CASE outcap # NewBuffer /\ Len(o) > outcap
    <3>1. out' = SubSeq(o, 1, outcap)
      BY <1>15, <2>2 DEF Room
    <3>2. outcap \in Nat /\ Len(o) \in Nat
      BY <1>1, <1>16, <2>2, LenProperties
    <3>3. \A k \in 1..outcap : k \in 1..Len(o)
      BY <2>2, <3>2
    <3>4. \A k \in 1..outcap : o[k] \in Chars
      BY <1>16, <3>3, ElementOfSeq
    <3>5. out' \in Seq(Chars) /\ Len(out') = IF 1 <= outcap THEN outcap - 1 + 1 ELSE 0
      BY <3>1, <3>2, <3>4, SubSeqProperties
    <3>6. Len(out') = outcap
      BY <3>2, <3>5
    <3> QED BY <2>2, <3>2, <3>5, <3>6
  <2> QED BY <2>1, <2>2
<1>18. outcap = NewBuffer \/ Len(out') < outcap => out' = Replaced[e]
  <2> SUFFICES ASSUME outcap = NewBuffer \/ Len(out') < outcap PROVE out' = Replaced[e]
    OBVIOUS
  <2>1. out' = o
    BY <1>17
  <2>2. outcap = NewBuffer \/ Len(out) < outcap
    <3>1. outcap # NewBuffer => outcap \in Nat
      BY <1>1
    <3> HIDE DEF o
    <3> QED BY <1>16, <2>1, <3>1
  <2>3. out = Replaced[d]
    BY <1>3, <2>2 DEF Reads
  <2> QED BY <1>14, <2>1, <2>3
<1>19. Reads(e)'
  <2> HIDE DEF e, o
  <2>1. SplitAt(e)' <=> SplitAt(e)
    BY <1>2 DEF SplitAt, NameAfter
  <2>2. Replaced' = Replaced
    BY <1>2 DEF Replaced, Replacement, InName, NameAfter
  <2> QED BY <1>2, <1>12, <1>14, <1>18, <2>1, <2>2 DEF Reads, L
<1>20. \E x \in 0..Len(text') : Reads(x)'
  BY <1>2, <1>9, <1>19 DEF L
<1> QED BY <1>1, <1>2, <1>17, <1>20 DEF EnvInv

LEMMA EnvUnchanged ==
  ASSUME EnvInv, UNCHANGED <<text, in, out, outcap>>,
         expanded' = expanded \/ (expanded' \in {"ok", "null"} /\ (expanded' = "ok" => in = <<>> /\ Terminated))
  PROVE  EnvInv'
<1>1. PICK d \in 0..Len(text) : Reads(d)
  BY DEF EnvInv
<1>2. SplitAt(d)' <=> SplitAt(d)
  BY DEF SplitAt, NameAfter
<1>3. Replaced' = Replaced
  BY DEF Replaced, Replacement, InName, NameAfter
<1>4. Reads(d)'
  BY <1>1, <1>2, <1>3 DEF Reads
<1>5. \E x \in 0..Len(text') : Reads(x)'
  BY <1>4
<1> QED BY <1>5 DEF EnvInv, Terminated

LEMMA EnvStepInv == ASSUME EnvInv, EnvStep PROVE EnvInv'
<1>1. CASE ExpandEnd \/ ExpandFails
  <2>1. /\ UNCHANGED <<text, in, out, outcap>> /\ expanded' \in {"ok", "null"}
        /\ (expanded' = "ok" => in = <<>> /\ Terminated)
    BY <1>1 DEF ExpandEnd, ExpandFails
  <2> QED BY <2>1, EnvUnchanged
<1> QED BY <1>1, ExpandInv DEF EnvStep

LEMMA EnvInitInv == EnvInit => EnvInv
<1> SUFFICES ASSUME EnvInit PROVE EnvInv
  OBVIOUS
<1>1. text \in Seq(Chars) /\ in = text /\ out = <<>> /\ outcap \in Nat \cup {NewBuffer} /\ expanded = "no"
  BY TextsAssumption DEF EnvInit
<1>2. <<>> \in Seq(Chars) /\ Len(<<>>) = 0 /\ (outcap # NewBuffer => 0 <= outcap)
  BY <1>1
<1>3. Reads(0)
  <2>1. SubSeq(text, 0 + 1, Len(text)) = text
    BY <1>1, SubSeqFull
  <2>2. SplitAt(0)
    BY DEF SplitAt
  <2>3. Replaced[0] = <<>>
    BY <1>1, ReplacedSteps
  <2> QED BY <1>1, <2>1, <2>2, <2>3 DEF Reads
<1>4. 0 \in 0..Len(text)
  BY <1>1, LenProperties
<1> QED BY <1>1, <1>2, <1>3, <1>4 DEF EnvInv

LEMMA EnvWhole == EnvInv => EnvTypeOK /\ ExpandsWhole
<1> SUFFICES ASSUME EnvInv PROVE EnvTypeOK /\ ExpandsWhole
  OBVIOUS
<1>1. EnvTypeOK
  BY DEF EnvInv, EnvTypeOK
<1>2. ASSUME expanded = "ok" PROVE out = Replaced[Len(text)] /\ (outcap # NewBuffer => Len(out) < outcap)
  <2>1. in = <<>> /\ (outcap = NewBuffer \/ Len(out) < outcap) /\ text \in Seq(Chars)
    BY <1>2 DEF EnvInv
  <2>2. PICK d \in 0..Len(text) : Reads(d)
    BY DEF EnvInv
  <2> DEFINE f == d + 1 L == Len(text)
  <2>3. L \in Nat /\ \A k \in 1..L : text[k] \in Chars
    BY <2>1, LenProperties, ElementOfSeq
  <2>4. f \in Int /\ L \in Int /\ \A k \in f..L : k \in 1..L
    BY <2>3
  <2>5. in = SubSeq(text, f, L) /\ Len(in) = 0
    BY <2>1, <2>2 DEF Reads
  <2> HIDE DEF f, L
  <2>6. Len(SubSeq(text, f, L)) = IF f <= L THEN L - f + 1 ELSE 0
    BY <2>3, <2>4, SubSeqProperties
  <2>7. ~(f <= L)
    BY <2>3, <2>4, <2>5, <2>6
  <2>8. d = L
    BY <2>2, <2>3, <2>7 DEF f, L
  <2> QED BY <2>1, <2>2, <2>8 DEF Reads, L
<1> QED BY <1>1, <1>2 DEF ExpandsWhole

-----------------------------------------------------------------------------
(* All together. *)

IInv == NsInv /\ FdInv /\ FileInv /\ MkInv /\ ScanInv /\ MonInv /\ EnvInv

LEMMA InitInv == Init => IInv
<1> SUFFICES ASSUME Init PROVE IInv
  OBVIOUS
<1>1. NsInv /\ FdInv /\ FileInv
  BY NsInitInv, FdInitInv, FileInitInv DEF Init
<1>2. MkInv /\ ScanInv /\ EnvInv
  BY MkInitInv, ScanInitInv, EnvInitInv DEF Init
<1> QED BY <1>1, <1>2, MonInitInv DEF IInv

LEMMA ScanUnchanged == ASSUME ScanInv, UNCHANGED scanVars PROVE ScanInv'
<1>1. UNCHANGED <<scan, icase, flags, entries, list, subdirs, cur>> /\ steady' \subseteq AllNames
  BY DEF scanVars, ScanInv
<1> QED BY <1>1, ScanKeeps

LEMMA EnvKept == ASSUME EnvInv, UNCHANGED envVars PROVE EnvInv'
<1>1. UNCHANGED <<text, in, out, outcap>> /\ expanded' = expanded
  BY DEF envVars
<1> QED BY <1>1, EnvUnchanged

LEMMA NextInv == IInv /\ [Next]_vars => IInv'
<1> SUFFICES ASSUME IInv, [Next]_vars PROVE IInv'
  OBVIOUS
<1>0. NsInv /\ FdInv /\ FileInv /\ MkInv /\ ScanInv /\ MonInv /\ EnvInv
  BY DEF IInv
<1>1. CASE Watcher
  <2>1. UNCHANGED <<nsVars, fdVars, fileVars, mkVars, envVars>>
    BY <1>1 DEF Watcher
  <2>2. MonInv' /\ ScanInv'
    BY <1>0, <1>1, WatcherInv
  <2> QED BY <1>0, <2>1, <2>2, NsUnchanged, FdUnchanged, FileUnchanged, MkUnchanged, EnvKept DEF IInv
<1>2. CASE Scanner
  <2>1. UNCHANGED <<nsVars, fdVars, fileVars, mkVars, envVars>>
    BY <1>2 DEF Scanner
  <2>2. MonInv' /\ ScanInv'
    BY <1>0, <1>2, ScannerInv
  <2> QED BY <1>0, <2>1, <2>2, NsUnchanged, FdUnchanged, FileUnchanged, MkUnchanged, EnvKept DEF IInv
<1>3. ASSUME NEW p \in Procs, Works(p) PROVE IInv'
  <2>1. /\ UNCHANGED <<nsVars, fdVars, mkVars, envVars>> /\ FileStep(p)
        /\ UNCHANGED <<scan, icase, flags, entries, list, subdirs, cur>> /\ steady' \subseteq steady
    BY <1>3 DEF Works
  <2>2. MonInv'
    BY <1>0, <1>3, WorksMonInv
  <2>3. ScanInv'
    <3>1. steady' \subseteq AllNames
      BY <1>0, <2>1 DEF ScanInv
    <3> QED BY <1>0, <2>1, <3>1, ScanKeeps
  <2> QED BY <1>0, <2>1, <2>2, <2>3, NsUnchanged, FdUnchanged, FileStepInv, MkUnchanged, EnvKept DEF IInv
<1>4. ASSUME NEW m \in Makers, Makes(m) PROVE IInv'
  <2>1. UNCHANGED <<nsVars, fdVars, fileVars, scanVars, monVars, envVars, mode>>
    BY <1>4 DEF Makes
  <2>2. MkInv'
    <3> DEFINE unix == Linux
    <3>1. MakeStep(m, unix)
      BY <1>4 DEF Makes
    <3> HIDE DEF unix
    <3> QED BY <1>0, <3>1, MakeStepInv
  <2> QED BY <1>0, <2>1, <2>2, NsUnchanged, FdUnchanged, FileUnchanged, ScanUnchanged, MonUnchanged, EnvKept DEF IInv
<1>5. ASSUME NEW u \in SemUsers, TakesTurns(u) PROVE IInv'
  <2>1. UNCHANGED <<fdVars, fileVars, scanVars, monVars, mkVars, envVars, mode>> /\ NsStep(u)
    BY <1>5 DEF TakesTurns
  <2> QED BY <1>0, <2>1, NsStepInv, FdUnchanged, FileUnchanged, ScanUnchanged, MonUnchanged, MkUnchanged, EnvKept DEF IInv
<1>6. ASSUME NEW t \in FdUsers, Shares(t) PROVE IInv'
  <2>1. UNCHANGED <<nsVars, fileVars, scanVars, monVars, mkVars, envVars, mode>> /\ FdStep(t)
    BY <1>6 DEF Shares
  <2> QED BY <1>0, <2>1, NsUnchanged, FdStepInv, FileUnchanged, ScanUnchanged, MonUnchanged, MkUnchanged, EnvKept DEF IInv
<1>7. CASE Expands
  <2>1. UNCHANGED <<nsVars, fdVars, fileVars, scanVars, monVars, mkVars, mode>> /\ EnvStep
    BY <1>7 DEF Expands
  <2> QED BY <1>0, <2>1, NsUnchanged, FdUnchanged, FileUnchanged, ScanUnchanged, MonUnchanged, MkUnchanged, EnvStepInv DEF IInv
<1>8. CASE UNCHANGED vars
  <2>1. UNCHANGED <<nsVars, fdVars, fileVars, scanVars, monVars, mkVars, envVars, mode>>
    BY <1>8 DEF vars
  <2> QED BY <1>0, <2>1, NsUnchanged, FdUnchanged, FileUnchanged, ScanUnchanged, MonUnchanged, MkUnchanged, EnvKept DEF IInv
<1> QED BY <1>1, <1>2, <1>3, <1>4, <1>5, <1>6, <1>7, <1>8 DEF Next

LEMMA Invariance == Spec => []IInv
BY InitInv, NextInv, PTL DEF Spec

\* Semaphores that processes open by one name exclude them from each other, for any number of
\* processes that open, create, close or die at any step, on Linux, macOS and Windows; an
\* unnamed semaphore is never another thread's (ffsem_open(), ffsem_close()).
THEOREM Exclusion == Spec => []SemaphoresExclude
<1>1. IInv => SemaphoresExclude
  BY NsExclusion DEF IInv
<1> QED BY <1>1, Invariance, PTL

\* fffile_write() through a shared descriptor never writes over another's bytes on UNIX, for
\* any number of threads and calls; on Windows while there is one thread that gives no offset.
THEOREM NoOverlap == Spec => []WritesDontOverlap
<1>1. IInv => WritesDontOverlap
  BY DEF IInv, FdInv, FdWroteInv, Undisturbed, WritesDontOverlap
<1> QED BY <1>1, Invariance, PTL

\* Files that are saved under a temporary name and renamed are found whole, a failed
\* fffile_writewhole() leaves no name, a temporary file is private, fffile_readwhole() keeps
\* to its limit: for any number of processes and calls, whenever one fails or dies.  A
\* fffile_readwhole() without a limit (-1) is covered unless its fffile_size() fails.
THEOREM SoundFiles == Spec => []FilesAreSound
<1>1. IInv => FilesAreSound
  BY FileSound DEF IInv
<1> QED BY <1>1, Invariance, PTL

\* ffdir_make_path() and ffdir_make_all() make what they are asked for, for any number of
\* processes that make any paths at the same time, whatever plain files there are: after a
\* success the directory is there, or a plain file of that name; and they only fail for an
\* empty path, a root, or a path through a plain file.
THEOREM MakersMade == Spec => []MakersSucceed
<1>1. IInv => MakersSucceed
  BY MakersDone DEF IInv
<1> QED BY <1>1, Invariance, PTL

\* The comparison of names, _ffdirscan_filename_cmpz(), is a strict total order on any set of
\* names that are spelled differently, although its last rule compares from the end: the sort
\* has one result, whatever order readdir() returns the names in.
THEOREM NamesAreOrdered ==
  \A l, m, n \in Elements(Collation) :
    /\ ~Less(n, n)
    /\ m # n => (Less(m, n) <=> ~Less(n, m))
    /\ Less(l, m) /\ Less(m, n) => Less(l, n)
BY LessIrreflexive, LessTotal, LessTransitive DEF AllNames

\* ffdirscan_open() and ffdirscanx_open() return every entry once, in the order that the user
\* expects if the comparison agrees with it, directories first if he asks for that; for any
\* names, flags and changes of the directory meanwhile.  On Windows, too, where
\* ffdirscan_open() compares by ffsz_icmp(), because there no two names in a directory differ
\* only in case.
THEOREM SortedList == Spec => [](InOrder => ListIsSorted)
<1>1. IInv => (InOrder => ListIsSorted)
  BY ListSorted DEF IInv
<1> QED BY <1>1, Invariance, PTL

\* A user who watches a directory first, scans it then, and takes the events for what has
\* changed since has the directory in his view when no events are left, unless the system
\* dropped some: for any number of changes at any step, any queue and any buffer, on Linux
\* and Windows (fffilemon_add(), fffilemon_read_async(), fffilemon_next()).
THEOREM ViewOfDirectory == Spec => []ViewIsRight
<1>1. IInv => ViewIsRight
  BY MonRight DEF IInv
<1> QED BY <1>1, Invariance, PTL

\* ffenv_expand() returns the whole expansion, character by character, or fails, for every
\* text, environment and buffer.
THEOREM WholeExpansion == Spec => []ExpandsWhole
<1>1. IInv => ExpandsWhole
  BY EnvWhole DEF IInv
<1> QED BY <1>1, Invariance, PTL

\* All parts keep their types and bounds: there are never more files than calls that create
\* one, a descriptor's position keeps within the bytes that the calls can have written, the
\* system's queue of events has one element more than its bound only for the overflow, no
\* buffer is overrun.
THEOREM TypesKept == Spec => []TypeOK
<1>1. IInv => TypeOK
  <2> SUFFICES ASSUME IInv PROVE TypeOK
    OBVIOUS
  <2>1. FileTypeOK /\ NsTypeOK
    BY DEF IInv, FileInv, FileShapeInv, NsInv
  <2>2. FdTypeOK
    <3>1. FdShapeInv /\ FdBoundInv
      BY DEF IInv, FdInv
    <3> DEFINE c == Cardinality(CallsMade)
    <3>2. c \in Nat /\ MaxLen \in Nat /\ c + 2 <= MaxLen
      BY CallsMadeFinite
    <3>3. pos <= c + 2 /\ len <= c + 2
      BY <3>1 DEF FdBoundInv
    <3> HIDE DEF c
    <3>4. pos \in 0..MaxLen /\ len \in 0..MaxLen
      BY <3>1, <3>2, <3>3 DEF FdShapeInv
    <3> QED BY <3>1, <3>4 DEF FdTypeOK, FdShapeInv
  <2>3. MkTypeOK /\ ScanTypeOK /\ MonTypeOK /\ EnvTypeOK
    BY MakersDone, ScanTypes, MonTypes, EnvWhole DEF IInv
  <2> QED BY <2>1, <2>2, <2>3 DEF TypeOK
<1> QED BY <1>1, Invariance, PTL
=============================================================================
