------------------------------ MODULE NamedSem ------------------------------
(***************************************************************************)
(* Semaphores that processes open by name (ffsys/semaphore.h) to take      *)
(* turns, and unnamed ones that threads of one process open.  Each creator *)
(* gives 1 as the initial value.                                           *)
(***************************************************************************)
EXTENDS Integers, FiniteSets

CONSTANT SemUsers \* processes and threads, each opens one semaphore

VARIABLES
  platform, \* "linux", "macos", "windows"
  named,    \* the semaphore of a name; 0: none
  units,    \* the value of each semaphore
  asks,     \* what a user asks for: "open", "create", "new", "unnamed"
  user,     \* "closed", "creating", "unlinking", "open", "owner", "gone"
  hold,     \* the semaphore that he has a handle of
  unlinked  \* somebody has called ffsem_unlink()

nsVars == <<platform, named, units, asks, user, hold, unlinked>>

SemNames == {"name", "pid"} \* "/semname", "/tmp/ffsem-%u" of the threads' process
Unix == platform # "windows"
SemCount == Cardinality(DOMAIN units)

NsInit ==
  /\ platform \in {"linux", "macos", "windows"}
  /\ named = [n \in SemNames |-> 0] /\ units = <<>>
  /\ asks \in [SemUsers -> {"open", "create", "new", "unnamed"}]
  /\ user = [u \in SemUsers |-> "closed"] /\ hold = [u \in SemUsers |-> 0]
  /\ unlinked = FALSE

NsTypeOK ==
  /\ units \in [1..SemCount -> 0..1] /\ named \in [SemNames -> 0..SemCount]
  /\ user \in [SemUsers -> {"closed", "creating", "unlinking", "open", "owner", "gone"}]

UserIs(u, s) == user' = [user EXCEPT ![u] = s]
OpenGivesNull(u) == UserIs(u, "gone") /\ UNCHANGED <<platform, named, units, asks, hold, unlinked>>

\* A handle of an existing semaphore, or of a new one, which gets the name n unless that is
\* "".
UseSem(u, n, next) ==
  /\ UserIs(u, next) /\ hold' = [hold EXCEPT ![u] = named[n]]
  /\ UNCHANGED <<platform, named, units, asks, unlinked>>
NewSem(u, n, next) ==
  LET o == SemCount + 1 IN
  /\ UserIs(u, next) /\ hold' = [hold EXCEPT ![u] = o]
  /\ units' = [k \in 1..o |-> IF k = o THEN 1 ELSE units[k]]
  /\ named' = [m \in SemNames |-> IF m = n THEN o ELSE named[m]]
  /\ UNCHANGED <<platform, asks, unlinked>>

-----------------------------------------------------------------------------
\* sem_open(name, flags): O_CREAT or O_CREAT | O_EXCL or none.
PosixOpen(u, n, flags, next) ==
  \/ named[n] # 0 /\ flags # "new" /\ UseSem(u, n, next)
  \/ named[n] = 0 /\ flags # "open" /\ NewSem(u, n, next)
  \/ (named[n] # 0) = (flags = "new") /\ (flags = "new" \/ flags = "open") /\ OpenGivesNull(u)

\* ffsem_open(), Linux: an unnamed semaphore has no name at all.
SemOpenLinux(u) ==
  /\ platform = "linux" /\ user[u] = "closed"
  /\ IF asks[u] = "unnamed" THEN NewSem(u, "", "open") ELSE PosixOpen(u, "name", asks[u], "open")

\* macOS: an unnamed semaphore has the process' name until it is unlinked.  The mutants open
\* it without O_EXCL, and unlink also what the user has given a name.
UnnamedAny == "create"
Unnamed == "new"
TemporaryAny(u) == TRUE
Temporary(u) == asks[u] = "unnamed"
SemOpenMac(u) ==
  LET next == IF Temporary(u) THEN "unlinking" ELSE "open" IN
  /\ platform = "macos" /\ user[u] = "closed"
  /\ IF asks[u] = "unnamed" THEN PosixOpen(u, "pid", Unnamed, next)
     ELSE PosixOpen(u, "name", asks[u], next)
SemUnlinkMac(u) ==
  /\ user[u] = "unlinking" /\ UserIs(u, "open")
  /\ named' = [named EXCEPT ![IF asks[u] = "unnamed" THEN "pid" ELSE "name"] = 0]
  /\ UNCHANGED <<platform, units, asks, hold, unlinked>>

\* Windows: FFSEM_CREATENEW first looks whether there is one.
SemOpenWindows(u) ==
  /\ platform = "windows" /\ user[u] = "closed"
  /\ CASE asks[u] = "unnamed" -> NewSem(u, "", "open")
       [] asks[u] = "open" -> IF named["name"] # 0 THEN UseSem(u, "name", "open") ELSE OpenGivesNull(u)
       [] OTHER ->
            IF asks[u] = "new" /\ named["name"] # 0 THEN OpenGivesNull(u)
            ELSE UserIs(u, "creating") /\ UNCHANGED <<platform, named, units, asks, hold, unlinked>>
SemCreateWindows(u) ==
  /\ user[u] = "creating"
  /\ IF named["name"] # 0 THEN UseSem(u, "name", "open") ELSE NewSem(u, "name", "open")

\* ffsem_wait() that succeeds, ffsem_post()
SemTake(u) ==
  /\ user[u] = "open" /\ units[hold[u]] > 0 /\ UserIs(u, "owner")
  /\ units' = [units EXCEPT ![hold[u]] = @ - 1]
  /\ UNCHANGED <<platform, named, asks, hold, unlinked>>
SemGive(u) ==
  /\ user[u] = "owner" /\ UserIs(u, "open")
  /\ units' = [units EXCEPT ![hold[u]] = @ + 1]
  /\ UNCHANGED <<platform, named, asks, hold, unlinked>>

\* ffsem_close(), or the process dies, be it while it owns the unit.  Windows: the
\* semaphore goes with its last handle.
SemLeave(u) ==
  /\ user[u] # "closed" /\ user[u] # "gone" /\ UserIs(u, "gone")
  /\ hold' = [hold EXCEPT ![u] = 0]
  /\ named' = IF Unix \/ \E v \in SemUsers \ {u} : hold[v] = named["name"] THEN named
              ELSE [named EXCEPT !["name"] = 0]
  /\ UNCHANGED <<platform, units, asks, unlinked>>

\* ffsem_unlink(); Windows: nothing
SemUnlink(u) ==
  /\ Unix /\ user[u] = "open" /\ asks[u] # "unnamed" /\ named["name"] # 0
  /\ named' = [named EXCEPT !["name"] = 0] /\ unlinked' = TRUE
  /\ UNCHANGED <<platform, units, asks, user, hold>>

NsStep(u) ==
  \/ SemOpenLinux(u) \/ SemOpenMac(u) \/ SemUnlinkMac(u) \/ SemOpenWindows(u) \/ SemCreateWindows(u)
  \/ SemTake(u) \/ SemGive(u) \/ SemLeave(u) \/ SemUnlink(u)

-----------------------------------------------------------------------------
\* Processes that open one name by any mix of flags exclude each other, though Windows'
\* FFSEM_CREATENEW is not atomic, until someone unlinks the name.
OneOwner ==
  ~unlinked => Cardinality({u \in SemUsers : user[u] = "owner" /\ asks[u] # "unnamed"}) <= 1

\* An unnamed semaphore is its opener's alone, although macOS gives it a name that other
\* threads of the process use, too.
UnnamedIsPrivate ==
  \A u, v \in SemUsers : u # v /\ asks[u] = "unnamed" /\ hold[u] # 0 => hold[v] # hold[u]
=============================================================================
