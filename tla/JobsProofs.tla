----------------------------- MODULE JobsProofs -----------------------------
(***************************************************************************)
(* Theorems about the program that runs child processes in parallel, for   *)
(* every set of jobs, every size of a pipe and of what a child writes, and *)
(* every time limit, on Windows and UNIX.                                  *)
(***************************************************************************)
EXTENDS Jobs, TLAPS, FiniteSetTheorems, SequenceTheorems, WellFoundedInduction

-----------------------------------------------------------------------------
(* The inductive invariant of the child processes. *)

\* What a job's thread may rely on at each of its steps.
JobInv(j) ==
  /\ step[j] \in {"none", "pipe", "exec", "create"} => child[j] = "none"
  /\ step[j] \in {"reset", "close", "read"} => child[j] \in {"forked", "running", "ended"}
  /\ step[j] = "wait" => child[j] = "ended" /\ buf[j] = 0
  /\ step[j] \in {"post", "exit", "ended"} => child[j] \in {"none", "gone"}
  /\ step[j] \in {"exec", "create", "reset", "close"} => j \in wr
  /\ j \in inherit => step[j] \in {"create", "reset"}
  /\ child[j] = "forked" => sys = "unix" /\ j \in extra[j]
  /\ child[j] = "running" =>
       std[j][1] = j /\ (std[j][2] = j <=> j \in ErrToo) /\ std[j][0] \notin Jobs
  /\ buf[j] + got[j] = wrote[j]
  /\ child[j] \in {"ended", "gone"} =>
       ended[j] \in Exits \cup {Killed} \/ (sys = "unix" /\ ended[j] = NotStarted)
  /\ child[j] = "gone" => code[j] = IF sys = "unix" THEN ExitCode(ended[j]) ELSE ended[j].n

PsInv == sys \in {"unix", "windows"} /\ PsTypeOK /\ \A j \in Jobs : JobInv(j)

\* A job is not disturbed by a step that leaves alone what is its own.
LEMMA OtherJob ==
  ASSUME NEW i \in Jobs, JobInv(i), sys' = sys,
         step'[i] = step[i], child'[i] = child[i], std'[i] = std[i], extra'[i] = extra[i],
         buf'[i] = buf[i], wrote'[i] = wrote[i], got'[i] = got[i],
         ended'[i] = ended[i], code'[i] = code[i],
         i \in wr' <=> i \in wr, i \in inherit' <=> i \in inherit
  PROVE  JobInv(i)'
BY DEF JobInv, Killed

-----------------------------------------------------------------------------
(* The steps of a job's thread and of its child. *)

\* ffpipe_create(): the write end is open until the job closes it.
LEMMA PipeCreateInv ==
  ASSUME PsInv, NEW j \in Jobs, PipeCreate(j)
  PROVE  PsInv'
<1>1. sys' \in {"unix", "windows"} /\ PsTypeOK'
  BY DEF PsInv, PsTypeOK, PipeCreate, Goto, Killed
<1>2. JobInv(j)'
  BY DEF PsInv, PsTypeOK, JobInv, PipeCreate, Goto, Killed
<1>3. ASSUME NEW i \in Jobs, i # j PROVE JobInv(i)'
  BY <1>3, OtherJob DEF PsInv, PsTypeOK, PipeCreate, Goto
<1> QED BY <1>1, <1>2, <1>3 DEF PsInv

\* fork(): the child holds a copy of the write end before exec().
LEMMA ForkInv ==
  ASSUME PsInv, NEW j \in Jobs, Fork(j)
  PROVE  PsInv'
<1>1. sys' \in {"unix", "windows"} /\ PsTypeOK'
  BY DEF PsInv, PsTypeOK, Fork, Files, Goto, Killed
<1>2. JobInv(j)'
  BY DEF PsInv, PsTypeOK, JobInv, Fork, Files, Goto, Killed
<1>3. ASSUME NEW i \in Jobs, i # j PROVE JobInv(i)'
  BY <1>3, OtherJob DEF PsInv, PsTypeOK, Fork, Goto
<1> QED BY <1>1, <1>2, <1>3 DEF PsInv

\* Windows: the handle becomes inheritable.
LEMMA InheritSetInv ==
  ASSUME PsInv, NEW j \in Jobs, InheritSet(j)
  PROVE  PsInv'
<1>1. sys' \in {"unix", "windows"} /\ PsTypeOK'
  BY DEF PsInv, PsTypeOK, InheritSet, Goto, Killed
<1>2. JobInv(j)'
  BY DEF PsInv, PsTypeOK, JobInv, InheritSet, Refused, Goto, Killed
<1>3. ASSUME NEW i \in Jobs, i # j PROVE JobInv(i)'
  BY <1>3, OtherJob DEF PsInv, PsTypeOK, InheritSet, Goto
<1> QED BY <1>1, <1>2, <1>3 DEF PsInv

\* Windows: the child's standard handles are those asked for.
LEMMA CreateProcessInv ==
  ASSUME PsInv, NEW j \in Jobs, CreateProcess(j)
  PROVE  PsInv'
<1>1. sys' \in {"unix", "windows"} /\ PsTypeOK'
  BY DEF PsInv, PsTypeOK, CreateProcess, Files, Goto, Killed
<1>2. JobInv(j)'
  BY JobsAssumption DEF PsInv, PsTypeOK, JobInv, CreateProcess, Files, Goto, Killed
<1>3. ASSUME NEW i \in Jobs, i # j PROVE JobInv(i)'
  BY <1>3, OtherJob DEF PsInv, PsTypeOK, CreateProcess, Goto
<1> QED BY <1>1, <1>2, <1>3 DEF PsInv

\* Windows: the command line is refused.
LEMMA ExecRefusedInv ==
  ASSUME PsInv, NEW j \in Jobs, ExecRefused(j)
  PROVE  PsInv'
<1>1. sys' \in {"unix", "windows"} /\ PsTypeOK'
  BY DEF PsInv, PsTypeOK, ExecRefused, NoProcess, Goto, Killed
<1>2. JobInv(j)'
  BY DEF PsInv, PsTypeOK, JobInv, ExecRefused, NoProcess, Goto, Killed
<1>3. ASSUME NEW i \in Jobs, i # j PROVE JobInv(i)'
  BY <1>3, OtherJob DEF PsInv, PsTypeOK, ExecRefused, NoProcess, Goto
<1> QED BY <1>1, <1>2, <1>3 DEF PsInv

\* Windows: CreateProcess() fails.
LEMMA CreateFailsInv ==
  ASSUME PsInv, NEW j \in Jobs, CreateFails(j)
  PROVE  PsInv'
<1>1. sys' \in {"unix", "windows"} /\ PsTypeOK'
  BY DEF PsInv, PsTypeOK, CreateFails, NoProcess, Goto, Killed
<1>2. JobInv(j)'
  BY DEF PsInv, PsTypeOK, JobInv, CreateFails, NoProcess, Goto, Killed
<1>3. ASSUME NEW i \in Jobs, i # j PROVE JobInv(i)'
  BY <1>3, OtherJob DEF PsInv, PsTypeOK, CreateFails, NoProcess, Goto
<1> QED BY <1>1, <1>2, <1>3 DEF PsInv

\* UNIX: fork() fails.
LEMMA ForkFailsInv ==
  ASSUME PsInv, NEW j \in Jobs, ForkFails(j)
  PROVE  PsInv'
<1>1. sys' \in {"unix", "windows"} /\ PsTypeOK'
  BY DEF PsInv, PsTypeOK, ForkFails, NoProcess, Goto, Killed
<1>2. JobInv(j)'
  BY DEF PsInv, PsTypeOK, JobInv, ForkFails, NoProcess, Goto, Killed
<1>3. ASSUME NEW i \in Jobs, i # j PROVE JobInv(i)'
  BY <1>3, OtherJob DEF PsInv, PsTypeOK, ForkFails, NoProcess, Goto
<1> QED BY <1>1, <1>2, <1>3 DEF PsInv

\* Windows: the handle is private again.
LEMMA InheritResetInv ==
  ASSUME PsInv, NEW j \in Jobs, InheritReset(j)
  PROVE  PsInv'
<1>1. sys' \in {"unix", "windows"} /\ PsTypeOK'
  BY DEF PsInv, PsTypeOK, InheritReset, Private, Goto, Killed
<1>2. JobInv(j)'
  BY DEF PsInv, PsTypeOK, JobInv, InheritReset, Private, Goto, Killed
<1>3. ASSUME NEW i \in Jobs, i # j PROVE JobInv(i)'
  BY <1>3, OtherJob DEF PsInv, PsTypeOK, InheritReset, Private, Goto
<1> QED BY <1>1, <1>2, <1>3 DEF PsInv

\* The parent's write end is closed.
LEMMA CloseWrInv ==
  ASSUME PsInv, NEW j \in Jobs, CloseWr(j)
  PROVE  PsInv'
<1>1. sys' \in {"unix", "windows"} /\ PsTypeOK'
  BY DEF PsInv, PsTypeOK, CloseWr, Goto, Killed
<1>2. JobInv(j)'
  BY DEF PsInv, PsTypeOK, JobInv, CloseWr, Goto, Killed
<1>3. ASSUME NEW i \in Jobs, i # j PROVE JobInv(i)'
  BY <1>3, OtherJob DEF PsInv, PsTypeOK, CloseWr, Goto
<1> QED BY <1>1, <1>2, <1>3 DEF PsInv

\* What is read has left the pipe.
LEMMA ReadSomeInv ==
  ASSUME PsInv, NEW j \in Jobs, ReadSome(j)
  PROVE  PsInv'
<1>1. sys' \in {"unix", "windows"} /\ PsTypeOK'
  BY PipeAssumption DEF PsInv, PsTypeOK, ReadSome, Drained, Killed, JobInv
<1>2. JobInv(j)'
  BY PipeAssumption DEF PsInv, PsTypeOK, JobInv, ReadSome, Drained, Killed
<1>3. ASSUME NEW i \in Jobs, i # j PROVE JobInv(i)'
  BY <1>3, OtherJob DEF PsInv, PsTypeOK, ReadSome, Drained
<1> QED BY <1>1, <1>2, <1>3 DEF PsInv

\* The end of the stream: the job's child has the write end until it ends.
LEMMA ReadEofInv ==
  ASSUME PsInv, NEW j \in Jobs, ReadEof(j)
  PROVE  PsInv'
<1>1. sys' \in {"unix", "windows"} /\ PsTypeOK'
  BY DEF PsInv, PsTypeOK, ReadEof, Goto, Killed
<1>2. JobInv(j)'
  BY DEF PsInv, PsTypeOK, JobInv, ReadEof, HasWriter, Alive, Goto, Killed
<1>3. ASSUME NEW i \in Jobs, i # j PROVE JobInv(i)'
  BY <1>3, OtherJob DEF PsInv, PsTypeOK, ReadEof, Goto
<1> QED BY <1>1, <1>2, <1>3 DEF PsInv

\* ffps_wait(), UNIX.
LEMMA WaitUnixInv ==
  ASSUME PsInv, NEW j \in Jobs, WaitUnix(j)
  PROVE  PsInv'
<1>1. sys' \in {"unix", "windows"} /\ PsTypeOK'
  BY DEF PsInv, PsTypeOK, WaitUnix, Waited, ExitCode, Goto, Killed, JobInv, Exits, Exited, NotStarted
<1>2. JobInv(j)'
  BY DEF PsInv, PsTypeOK, JobInv, WaitUnix, Waited, ExitCode, Goto, Killed
<1>3. ASSUME NEW i \in Jobs, i # j PROVE JobInv(i)'
  BY <1>3, OtherJob DEF PsInv, PsTypeOK, WaitUnix, Waited, ExitCode, Goto
<1> QED BY <1>1, <1>2, <1>3 DEF PsInv

\* ffps_wait(), Windows.
LEMMA WaitWindowsInv ==
  ASSUME PsInv, NEW j \in Jobs, WaitWindows(j)
  PROVE  PsInv'
<1>1. sys' \in {"unix", "windows"} /\ PsTypeOK'
  BY DEF PsInv, PsTypeOK, WaitWindows, Waited, Goto, Killed, JobInv, Exits, Exited, NotStarted
<1>2. JobInv(j)'
  BY DEF PsInv, PsTypeOK, JobInv, WaitWindows, Waited, Goto, Killed
<1>3. ASSUME NEW i \in Jobs, i # j PROVE JobInv(i)'
  BY <1>3, OtherJob DEF PsInv, PsTypeOK, WaitWindows, Waited, Goto
<1> QED BY <1>1, <1>2, <1>3 DEF PsInv

\* exec(): dup2() for each descriptor given.
LEMMA ExecOkInv ==
  ASSUME PsInv, NEW j \in Jobs, ExecOk(j)
  PROVE  PsInv'
<1>1. sys' \in {"unix", "windows"} /\ PsTypeOK'
  BY DEF PsInv, PsTypeOK, ExecOk, Files, StdOf, Killed
<1>2. JobInv(j)'
  BY JobsAssumption DEF PsInv, PsTypeOK, JobInv, ExecOk, StdOf, Files, Killed
<1>3. ASSUME NEW i \in Jobs, i # j PROVE JobInv(i)'
  BY <1>3, OtherJob DEF PsInv, PsTypeOK, ExecOk, StdOf
<1> QED BY <1>1, <1>2, <1>3 DEF PsInv

\* exec() fails: _exit(255).
LEMMA ExecFailsInv ==
  ASSUME PsInv, NEW j \in Jobs, ExecFails(j)
  PROVE  PsInv'
<1>1. sys' \in {"unix", "windows"} /\ PsTypeOK'
  BY DEF PsInv, PsTypeOK, ExecFails, Killed
<1>2. JobInv(j)'
  BY DEF PsInv, PsTypeOK, JobInv, ExecFails, Killed
<1>3. ASSUME NEW i \in Jobs, i # j PROVE JobInv(i)'
  BY <1>3, OtherJob DEF PsInv, PsTypeOK, ExecFails
<1> QED BY <1>1, <1>2, <1>3 DEF PsInv

\* What a child writes goes to its own job's pipe.
LEMMA ChildWritesInv ==
  ASSUME PsInv, NEW j \in Jobs, ChildWrites(j)
  PROVE  PsInv'
<1>1. sys' \in {"unix", "windows"} /\ PsTypeOK'
  BY PipeAssumption DEF PsInv, PsTypeOK, ChildWrites, Killed, JobInv
<1>2. JobInv(j)'
  BY PipeAssumption DEF PsInv, PsTypeOK, JobInv, ChildWrites, Killed
<1>3. ASSUME NEW i \in Jobs, i # j PROVE JobInv(i)'
  BY <1>3, OtherJob DEF PsInv, PsTypeOK, ChildWrites, JobInv
<1> QED BY <1>1, <1>2, <1>3 DEF PsInv

\* A child ends by itself.
LEMMA ChildExitsInv ==
  ASSUME PsInv, NEW j \in Jobs, NEW e \in Exits, ChildExits(j, e)
  PROVE  PsInv'
<1>1. sys' \in {"unix", "windows"} /\ PsTypeOK'
  BY DEF PsInv, PsTypeOK, ChildExits, Killed
<1>2. JobInv(j)'
  BY DEF PsInv, PsTypeOK, JobInv, ChildExits, Killed
<1>3. ASSUME NEW i \in Jobs, i # j PROVE JobInv(i)'
  BY <1>3, OtherJob DEF PsInv, PsTypeOK, ChildExits
<1> QED BY <1>1, <1>2, <1>3 DEF PsInv

\* ffps_kill().
LEMMA PsKillInv ==
  ASSUME PsInv, NEW j \in Jobs, PsKill(j)
  PROVE  PsInv'
<1>1. sys' \in {"unix", "windows"} /\ PsTypeOK'
  BY DEF PsInv, PsTypeOK, PsKill, Killed
<1>2. JobInv(j)'
  BY DEF PsInv, PsTypeOK, JobInv, PsKill, Alive, Killed
<1>3. ASSUME NEW i \in Jobs, i # j PROVE JobInv(i)'
  BY <1>3, OtherJob DEF PsInv, PsTypeOK, PsKill
<1> QED BY <1>1, <1>2, <1>3 DEF PsInv

-----------------------------------------------------------------------------
(* The inductive invariant of the waits, the threads and the main thread. *)

\* A wait that goes on has no result yet, and its deadline is when it began and its limit,
\* whether or not nanoseconds were carried into seconds.
WaitInv ==
  /\ now \in Nat /\ since \in Nat /\ limit \in Int /\ ts \in [sec : Nat, nsec : Nat]
  /\ waits \in {"none", "sem"} \cup Threads
  /\ result \in {"none", "ok", "timeout", "error"}
  /\ waits # "none" => result = "none"
  /\ waits # "none" /\ limit > 0 => ts.sec * Second + ts.nsec = since + limit
  /\ WaitTells

\* A thread's state and where its function is.
ThreadInv ==
  /\ ThreadTypeOK
  /\ \A t \in Threads :
       /\ thread[t] = "none" => step[t] = "none"
       /\ thread[t] \in {"exited", "joined", "freed"} => step[t] = "ended"
  /\ \A t \in joined : thread[t] = "joined"

\* The jobs that have posted the semaphore.
Posted == {j \in Jobs : step[j] \in {"exit", "ended"}}

\* Every unit of the semaphore was posted by a job, and is there or was taken.
MainInv ==
  /\ main \in {"open", "create", "collect", "release", "end"} /\ taken \in Nat
  /\ main = "open" => \A j \in Jobs : step[j] = "none"
  /\ main \in {"open", "end"} => value = Closed
  /\ main \in {"open", "create"} => taken = 0
  /\ main \in {"create", "collect", "release"} =>
       value \in Nat /\ taken + value = Cardinality(Posted)
  /\ main = "collect" => taken # Cardinality(Jobs)
  /\ main \in {"release", "end"} => taken = Cardinality(Jobs) /\ Posted = Jobs
  /\ waits = "sem" => main = "collect"

IInv == PsInv /\ WaitInv /\ ThreadInv /\ MainInv

\* A number is its quotient and its remainder.
LEMMA QuotientAndRest ==
  ASSUME NEW n \in Nat
  PROVE  /\ n \div Second \in Nat /\ n % Second \in Nat /\ n % Second < Second
         /\ (n \div Second) * Second + (n % Second) = n
BY ClockAssumption, Z3

\* ffsem_wait() and thread.h compute the same moment: carrying does not change it.
LEMMA DeadlineIsMoment ==
  ASSUME now \in Nat, NEW ms \in Nat
  PROVE  /\ SemDeadline(ms) \in [sec : Nat, nsec : Nat]
         /\ SemDeadline(ms).sec * Second + SemDeadline(ms).nsec = now + ms
         /\ Addms(ms) \in [sec : Nat, nsec : Nat]
         /\ Addms(ms).sec * Second + Addms(ms).nsec = now + ms
<1> DEFINE a == now \div Second
           b == now % Second
           c == ms \div Second
           d == ms % Second
<1>1. a \in Nat /\ b \in Nat /\ b < Second /\ a * Second + b = now
  BY QuotientAndRest
<1>2. c \in Nat /\ d \in Nat /\ d < Second /\ c * Second + d = ms
  BY QuotientAndRest
<1>3. SemDeadline(ms) = [sec |-> a + c, nsec |-> b + d]
  BY DEF SemDeadline, Now
<1> HIDE DEF a, b, c, d
<1>4. (a + c) * Second = a * Second + c * Second
      /\ (a + c + 1) * Second = a * Second + c * Second + Second
  BY <1>1, <1>2, ClockAssumption, Z3
<1>5. a * Second \in Nat /\ c * Second \in Nat /\ Second \in Nat
  BY <1>1, <1>2, ClockAssumption, Z3
<1>6. (a + c) * Second + (b + d) = now + ms
  BY <1>1, <1>2, <1>4, <1>5
<1>7. CASE b + d >= Second
  <2>1. Addms(ms) = [sec |-> a + c + 1, nsec |-> b + d - Second]
    <3>1. Addms(ms) = [sec |-> SemDeadline(ms).sec + 1, nsec |-> SemDeadline(ms).nsec - Second]
      BY <1>3, <1>7 DEF Addms, Carried
    <3>2. SemDeadline(ms).sec = a + c /\ SemDeadline(ms).nsec = b + d
      BY <1>3
    <3> QED BY <1>1, <1>2, <1>5, <3>1, <3>2
  <2>2. (a + c + 1) * Second + (b + d - Second) = now + ms
    BY <1>1, <1>2, <1>4, <1>5
  <2> QED BY <2>1, <2>2, <1>1, <1>2, <1>3, <1>5, <1>6, <1>7
<1>8. CASE ~(b + d >= Second)
  <2>1. Addms(ms) = SemDeadline(ms)
    BY <1>3, <1>8 DEF Addms, Carried
  <2> QED BY <2>1, <1>1, <1>2, <1>3, <1>6
<1> QED BY <1>7, <1>8

\* A wait begins with the right deadline.
LEMMA BeginInv ==
  ASSUME WaitInv, NEW what \in {"sem"} \cup Threads, NEW ms \in Int,
         Begin(what, ms, SemDeadline(ms)) \/ Begin(what, ms, Addms(ms)), now' = now
  PROVE  WaitInv'
<1>1. CASE ms > 0
  <2>1. ms \in Nat
    BY <1>1
  <2>2. /\ ts' \in [sec : Nat, nsec : Nat] /\ ts'.sec * Second + ts'.nsec = now + ms
        /\ since' = now /\ limit' = ms /\ result' = "none" /\ waits' = what
    BY <1>1, <2>1, DeadlineIsMoment DEF Begin, WaitInv
  <2> QED BY <2>2 DEF WaitInv, WaitTells
<1>2. CASE ~(ms > 0)
  BY <1>2 DEF WaitInv, WaitTells, Begin
<1> QED BY <1>1, <1>2

\* A wait ends with "timeout" only when its deadline has come.
LEMMA EndInv ==
  ASSUME WaitInv, waits # "none", NEW r \in {"ok", "timeout", "error"}, End(r),
         r = "timeout" /\ limit > 0 => Due
  PROVE  WaitInv'
BY DEF WaitInv, WaitTells, End, Due

\* A step that leaves the wait alone.
LEMMA NoWaitInv ==
  ASSUME WaitInv, UNCHANGED <<now, waits, limit, since, ts, result>>
  PROVE  WaitInv'
BY DEF WaitInv, WaitTells

\* Time passes while a thread waits.
LEMMA TickInv ==
  ASSUME WaitInv, Tick
  PROVE  WaitInv'
BY DEF WaitInv, WaitTells, Tick

\* sem_trywait(), sem_wait(), sem_timedwait(), WaitForSingleObject(): a unit is taken, or
\* there is none and nothing is taken.
LEMMA SemWaitInv ==
  ASSUME WaitInv, SemWait \/ SemWaitWindows, value \in Nat
  PROVE  /\ WaitInv'
         /\ waits = "sem" /\ waits' \in {"sem", "none"}
         /\ value' \in Nat
         /\ result' = "ok" => value' = value - 1 /\ waits' = "none"
         /\ result' # "ok" => value' = value
<1>1. waits = "sem"
  BY DEF SemWait, SemWaitWindows, SemTaken, SemTryFails, SemTimeout, SemInvalid, SemInterrupted
<1>2. CASE SemTaken
  BY <1>1, <1>2, EndInv DEF SemTaken, End
<1>3. CASE SemTryFails
  BY <1>1, <1>3, EndInv DEF SemTryFails, End
<1>4. CASE SemTimeout
  BY <1>1, <1>4, EndInv DEF SemTimeout, End
<1>5. CASE SemInvalid
  BY <1>1, <1>5, EndInv DEF SemInvalid, End
<1>6. CASE SemInterrupted
  BY <1>1, <1>6, NoWaitInv DEF SemInterrupted, Interrupted, WaitInv
<1> QED BY <1>2, <1>3, <1>4, <1>5, <1>6 DEF SemWait, SemWaitWindows

\* The jobs are finitely many, and so are those that have posted.
LEMMA PostedIsFinite ==
  /\ IsFiniteSet(Posted) /\ Cardinality(Posted) \in Nat /\ Cardinality(Jobs) \in Nat
  /\ Cardinality(Posted) <= Cardinality(Jobs)
  /\ Cardinality(Posted) = Cardinality(Jobs) => Posted = Jobs
<1>1. Posted \in SUBSET Jobs
  BY DEF Posted
<1> QED BY <1>1, JobsAssumption, FS_Subset, FS_CardinalityType

\* A job's step up to the post posts nothing and leaves its thread as it is.
LEMMA StepsBeforePost ==
  ASSUME PsTypeOK, ThreadInv, MainInv, NEW j \in Jobs,
         step' = step \/ \E s \in {"exec", "create", "reset", "close", "read", "wait", "post"} :
                           step[j] \notin {"none", "exit", "ended"} /\ Goto(j, s),
         UNCHANGED <<semVars, threadVars, main, taken>>
  PROVE  ThreadInv' /\ MainInv'
<1>1. \A i \in Jobs : /\ step'[i] \in {"exit", "ended"} <=> step[i] \in {"exit", "ended"}
                      /\ step'[i] = "none" <=> step[i] = "none"
                      /\ step[i] = "ended" => step'[i] = "ended"
  BY DEF PsTypeOK, Goto
<1>2. Posted' = Posted
  BY <1>1 DEF Posted
<1>3. ThreadInv'
  BY <1>1, ThreadPerJob DEF ThreadInv, ThreadTypeOK, threadVars
<1>4. MainInv'
  BY <1>1, <1>2 DEF MainInv, semVars
<1> QED BY <1>3, <1>4

\* The steps up to the post.
LEMMA RunsInv ==
  ASSUME IInv, NEW j \in Jobs, Runs(j), UNCHANGED <<semVars, threadVars, main, taken>>
  PROVE  IInv'
<1>1. PsInv'
  BY PipeCreateInv, ForkInv, InheritSetInv, CreateProcessInv, ExecRefusedInv, CreateFailsInv,
     ForkFailsInv, InheritResetInv, CloseWrInv, ReadSomeInv, ReadEofInv, WaitUnixInv,
     WaitWindowsInv DEF IInv, Runs, Started
<1>2. step' = step \/ \E s \in {"exec", "create", "reset", "close", "read", "wait", "post"} :
                        step[j] \notin {"none", "exit", "ended"} /\ Goto(j, s)
  BY DEF Runs, Started, PipeCreate, Fork, InheritSet, CreateProcess, ExecRefused, CreateFails,
     ForkFails, NoProcess, InheritReset, CloseWr, ReadSome, ReadEof, WaitUnix, WaitWindows, Waited
<1>3. ThreadInv' /\ MainInv'
  BY <1>2, StepsBeforePost DEF IInv, PsInv
<1>4. WaitInv'
  BY NoWaitInv DEF IInv, semVars
<1> QED BY <1>1, <1>3, <1>4 DEF IInv

\* What children do, and ffps_kill().
LEMMA ChildInv ==
  ASSUME IInv, NEW j \in Jobs, Child(j) \/ Kill(j)
  PROVE  IInv'
<1>1. PsInv'
  BY ExecOkInv, ExecFailsInv, ChildWritesInv, ChildExitsInv, PsKillInv DEF IInv, Child, Kill
<1>2. step' = step /\ UNCHANGED <<semVars, threadVars, main, taken>>
  BY DEF Child, Kill, ExecOk, ExecFails, ChildWrites, ChildExits, PsKill
<1>3. ThreadInv' /\ MainInv'
  BY <1>2, StepsBeforePost DEF IInv, PsInv
<1>4. WaitInv'
  BY <1>2, NoWaitInv DEF IInv, semVars
<1> QED BY <1>1, <1>3, <1>4 DEF IInv

\* A step of a thread that concerns no process.
LEMMA GotoInv ==
  ASSUME PsInv, NEW j \in Jobs, NEW s, Goto(j, s),
         <<step[j], s>> \in {<<"none", "pipe">>, <<"post", "exit">>, <<"exit", "ended">>},
         UNCHANGED <<sys, argv, wr, inherit, child, std, extra, buf, wrote, got, ended, code>>
  PROVE  PsInv'
<1>1. sys' \in {"unix", "windows"} /\ PsTypeOK'
  BY DEF PsInv, PsTypeOK, Goto, Killed
<1>2. JobInv(j)'
  BY DEF PsInv, PsTypeOK, JobInv, Goto, Killed
<1>3. ASSUME NEW i \in Jobs, i # j PROVE JobInv(i)'
  BY <1>3, OtherJob DEF PsInv, PsTypeOK, Goto
<1> QED BY <1>1, <1>2, <1>3 DEF PsInv

\* ffsem_post(): one more job has posted, one more unit is there.
LEMMA PostsInv ==
  ASSUME IInv, NEW j \in Jobs, Posts(j), UNCHANGED <<main, taken>>
  PROVE  IInv'
<1>1. PsInv'
  BY GotoInv DEF IInv, Posts
<1>2. WaitInv'
  BY NoWaitInv DEF IInv, Posts, SemPost
<1>3. ThreadInv'
  BY ThreadPerJob DEF IInv, Posts, Goto, ThreadInv, ThreadTypeOK, threadVars, PsInv, PsTypeOK
<1>4. j \notin Posted /\ Posted' = Posted \cup {j}
  BY DEF Posted, Posts, Goto, IInv, PsInv, PsTypeOK
<1>5. Cardinality(Posted') = Cardinality(Posted) + 1
  BY <1>4, PostedIsFinite, FS_AddElement
<1>6. MainInv'
  BY <1>4, <1>5, PostedIsFinite DEF MainInv, IInv, Posts, SemPost
<1> QED BY <1>1, <1>2, <1>3, <1>6 DEF IInv

\* The thread's function returns.
LEMMA ReturnsInv ==
  ASSUME IInv, NEW j \in Jobs, Returns(j), UNCHANGED <<main, taken>>
  PROVE  IInv'
<1>1. PsInv'
  BY GotoInv DEF IInv, Returns
<1>2. WaitInv'
  BY NoWaitInv DEF IInv, Returns, Exit, semVars
<1>3. ThreadInv'
  BY ThreadPerJob
  DEF IInv, Returns, Exit, Becomes, Goto, ThreadInv, ThreadTypeOK, PsInv, PsTypeOK
<1>4. Posted' = Posted
  BY DEF Posted, Returns, Goto, IInv, PsInv, PsTypeOK
<1>5. MainInv'
  BY <1>4 DEF MainInv, IInv, Returns, Exit, semVars, Goto, PsInv, PsTypeOK
<1> QED BY <1>1, <1>2, <1>3, <1>5 DEF IInv

\* A step that leaves the processes alone.
LEMMA NoProcessInv ==
  ASSUME PsInv, UNCHANGED psVars
  PROVE  PsInv' /\ Posted' = Posted
<1>1. sys' \in {"unix", "windows"} /\ PsTypeOK'
  BY DEF PsInv, PsTypeOK, psVars, Killed
<1>2. ASSUME NEW i \in Jobs PROVE JobInv(i)'
  BY <1>2, OtherJob DEF PsInv, psVars
<1> QED BY <1>1, <1>2 DEF PsInv, Posted, psVars

\* A step that leaves the threads alone.
LEMMA NoThreadInv ==
  ASSUME ThreadInv, UNCHANGED threadVars, UNCHANGED step
  PROVE  ThreadInv'
BY DEF ThreadInv, ThreadTypeOK, threadVars

\* The main thread: ffsem_open(), and no job has begun.
LEMMA OpenInv == ASSUME IInv, Open PROVE IInv'
<1>1. PsInv' /\ Posted' = Posted /\ step' = step
  BY NoProcessInv DEF IInv, Open, psVars
<1>2. WaitInv'
  BY NoWaitInv DEF IInv, Open, SemOpen
<1>3. ThreadInv'
  BY <1>1, NoThreadInv DEF IInv, Open
<1>4. Posted = {} /\ Cardinality(Posted) = 0
  <2>1. Posted = {}
    BY DEF Posted, IInv, MainInv, Open
  <2> QED BY <2>1, FS_EmptySet
<1>5. MainInv'
  BY <1>1, <1>4 DEF MainInv, IInv, Open, SemOpen
<1> QED BY <1>1, <1>2, <1>3, <1>5 DEF IInv

\* ffthread_create(), for a thread that does not exist yet.
LEMMA StartInv == ASSUME IInv, NEW t \in Threads, Start(t) PROVE IInv'
<1>1. t \in Jobs /\ step[t] = "none"
  BY ThreadPerJob DEF IInv, ThreadInv, Start, Create
<1>2. PsInv'
  BY <1>1, GotoInv DEF IInv, Start
<1>3. WaitInv'
  BY NoWaitInv DEF IInv, Start, Create, semVars
<1>4. ThreadInv'
  BY <1>1, ThreadPerJob
  DEF IInv, Start, Create, Becomes, Goto, ThreadInv, ThreadTypeOK, PsInv, PsTypeOK
<1>5. Posted' = Posted
  BY <1>1 DEF Posted, Start, Goto, IInv, PsInv, PsTypeOK
<1>6. Cardinality(Jobs) # 0
  BY <1>1, JobsAssumption, FS_EmptySet
<1>7. MainInv'
  BY <1>5, <1>6 DEF MainInv, IInv, Start, Create, semVars
<1> QED BY <1>2, <1>3, <1>4, <1>7 DEF IInv

\* ffsem_wait() begins.
LEMMA CollectInv == ASSUME IInv, NEW ms \in Times(SemTimes), Collect(ms) PROVE IInv'
<1>1. PsInv' /\ Posted' = Posted /\ step' = step
  BY NoProcessInv DEF IInv, Collect, psVars
<1>2. WaitInv'
  <2>1. ms \in Int
    BY ClockAssumption DEF Times
  <2> QED BY <2>1, BeginInv DEF IInv, Collect, SemBegin, SemBeginWindows
<1>3. ThreadInv'
  BY <1>1, NoThreadInv DEF IInv, Collect
<1>4. MainInv'
  BY <1>1 DEF MainInv, IInv, Collect, SemBegin, SemBeginWindows, Begin
<1> QED BY <1>1, <1>2, <1>3, <1>4 DEF IInv

\* ffsem_wait() returns, or is interrupted and goes on: only a unit that was taken counts,
\* and with the last one every job has posted.
LEMMA CollectedInv == ASSUME IInv, Collected PROVE IInv'
<1>1. PsInv' /\ Posted' = Posted /\ step' = step
  BY NoProcessInv DEF IInv, Collected, psVars
<1>2. main = "collect" /\ value \in Nat
  BY DEF IInv, MainInv, Collected, SemWait, SemWaitWindows, SemTaken, SemTryFails, SemTimeout,
         SemInvalid, SemInterrupted
<1>3. /\ WaitInv' /\ waits' \in {"sem", "none"} /\ value' \in Nat
      /\ result' = "ok" => value' = value - 1 /\ waits' = "none"
      /\ result' # "ok" => value' = value
  BY <1>2, SemWaitInv DEF IInv, Collected
<1>4. ThreadInv'
  BY <1>1, NoThreadInv DEF IInv, Collected
<1>5. /\ taken' \in Nat /\ taken' + value' = Cardinality(Posted)
      /\ taken' = Cardinality(Jobs) => result' = "ok"
  BY <1>2, <1>3, PostedIsFinite DEF IInv, MainInv, Collected
<1>6. taken' = Cardinality(Jobs) => Posted = Jobs
  BY <1>3, <1>5, PostedIsFinite
<1>7. main' = IF taken' = Cardinality(Jobs) THEN "release" ELSE main
  BY DEF Collected
<1>8. MainInv'
  BY <1>1, <1>2, <1>3, <1>5, <1>6, <1>7 DEF MainInv
<1> QED BY <1>1, <1>3, <1>4, <1>8 DEF IInv

\* ffthread_join() begins.
LEMMA JoinInv ==
  ASSUME IInv, NEW t \in Threads, NEW ms \in Times(JoinTimes), Join(t, ms)
  PROVE  IInv'
<1>1. PsInv' /\ Posted' = Posted /\ step' = step
  BY NoProcessInv DEF IInv, Join, psVars
<1>2. WaitInv'
  <2>1. ms \in Int
    BY ThreadAssumption DEF Times
  <2> QED BY <2>1, BeginInv DEF IInv, Join, JoinBegin
<1>3. ThreadInv'
  BY <1>1, NoThreadInv DEF IInv, Join, JoinBegin, threadVars
<1>4. MainInv'
  BY <1>1, ThreadAssumption DEF MainInv, IInv, Join, JoinBegin, Begin
<1> QED BY <1>1, <1>2, <1>3, <1>4 DEF IInv

\* ffthread_join() returns: the thread's function has, or the time is over.
LEMMA JoinedInv == ASSUME IInv, NEW t \in Threads, Joined(t) PROVE IInv'
<1>1. PsInv' /\ Posted' = Posted /\ step' = step
  BY NoProcessInv DEF IInv, Joined, psVars
<1>2. WaitInv'
  <2>1. waits # "none"
    BY ThreadAssumption DEF Joined, JoinEnds, JoinTimeout
  <2> QED BY <2>1, EndInv DEF IInv, Joined, JoinEnds, JoinTimeout
<1>3. ThreadInv'
  BY <1>1 DEF IInv, Joined, JoinEnds, JoinTimeout, Joinable, Becomes, ThreadInv, ThreadTypeOK
<1>4. MainInv'
  BY <1>1 DEF MainInv, IInv, Joined, JoinEnds, JoinTimeout, End
<1> QED BY <1>1, <1>2, <1>3, <1>4 DEF IInv

\* ffthread_detach()
LEMMA LetgoInv == ASSUME IInv, NEW t \in Threads, Letgo(t) PROVE IInv'
<1>1. PsInv' /\ Posted' = Posted /\ step' = step
  BY NoProcessInv DEF IInv, Letgo, psVars
<1>2. WaitInv'
  BY NoWaitInv DEF IInv, Letgo, Detach, semVars
<1>3. ThreadInv'
  BY <1>1 DEF IInv, Letgo, Detach, Becomes, ThreadInv, ThreadTypeOK
<1>4. MainInv'
  BY <1>1 DEF MainInv, IInv, Letgo, Detach, semVars
<1> QED BY <1>1, <1>2, <1>3, <1>4 DEF IInv

\* ffsem_close()
LEMMA CloseInv == ASSUME IInv, Close PROVE IInv'
<1>1. PsInv' /\ Posted' = Posted /\ step' = step
  BY NoProcessInv DEF IInv, Close, psVars
<1>2. WaitInv'
  BY NoWaitInv DEF IInv, Close, SemClose
<1>3. ThreadInv'
  BY <1>1, NoThreadInv DEF IInv, Close
<1>4. MainInv'
  BY <1>1 DEF MainInv, IInv, Close, SemClose
<1> QED BY <1>1, <1>2, <1>3, <1>4 DEF IInv

\* Time passes.
LEMMA TimeInv == ASSUME IInv, Time PROVE IInv'
<1>1. PsInv' /\ Posted' = Posted /\ step' = step
  BY NoProcessInv DEF IInv, Time, psVars
<1>2. WaitInv' /\ ThreadInv' /\ MainInv'
  BY <1>1, TickInv, NoThreadInv DEF IInv, Time, Tick, MainInv
<1> QED BY <1>1, <1>2 DEF IInv

-----------------------------------------------------------------------------
(* The invariant, and what follows from it. *)

LEMMA InitInv == Init => IInv
<1> SUFFICES ASSUME Init PROVE IInv
  OBVIOUS
<1> USE DEF Init, PsInit, SemInit, ThreadInit
<1>1. PsInv
  BY JobsAssumption, PipeAssumption DEF PsInv, PsTypeOK, JobInv, Files
<1>2. WaitInv
  BY ClockAssumption DEF WaitInv, WaitTells
<1>3. ThreadInv
  BY ThreadPerJob DEF ThreadInv, ThreadTypeOK
<1>4. MainInv
  BY DEF MainInv
<1> QED BY <1>1, <1>2, <1>3, <1>4 DEF IInv

LEMMA NextInv == IInv /\ [Next]_vars => IInv'
<1> SUFFICES ASSUME IInv, [Next]_vars PROVE IInv'
  OBVIOUS
<1>1. CASE Main
  BY <1>1, OpenInv, StartInv, CollectInv, CollectedInv, JoinInv, JoinedInv, LetgoInv, CloseInv
  DEF Main
<1>2. ASSUME NEW j \in Jobs, Worker(j) PROVE IInv'
  BY <1>2, RunsInv, PostsInv, ReturnsInv DEF Worker
<1>3. CASE UNCHANGED vars
  <2>1. PsInv' /\ Posted' = Posted /\ step' = step
    BY <1>3, NoProcessInv DEF IInv, vars, psVars
  <2>2. WaitInv' /\ ThreadInv' /\ MainInv'
    BY <1>3, <2>1, NoWaitInv, NoThreadInv DEF IInv, vars, semVars, MainInv
  <2> QED BY <2>1, <2>2 DEF IInv
<1> QED BY <1>1, <1>2, <1>3, ChildInv, TimeInv DEF Next

\* The inductive invariant holds always.
THEOREM Invariance == Spec => []IInv
BY InitInv, NextInv, PTL DEF Spec

\* Every variable keeps its type; the semaphore's value stays within the number of posts, and
\* it is never taken more often than there are jobs.
THEOREM TypeCorrectness == Spec => []TypeOK
<1>1. ASSUME IInv PROVE TypeOK
  <2>1. taken \in 0..Cardinality(Jobs) /\ value \in Closed..MaxPosts
    BY <1>1, PostedIsFinite, ThreadPerJob DEF IInv, MainInv, Closed
  <2> QED BY <1>1, <2>1 DEF TypeOK, IInv, PsInv, WaitInv, SemTypeOK, ThreadInv, MainInv
<1> QED BY <1>1, Invariance, PTL

\* A wait reports "timeout" only when all of its time has passed, the semaphore was taken once
\* for each job only when no child is left, and a join succeeds only for a thread that has
\* returned (ffsem_wait(), ffthread_join()): for every number of jobs and every second.
THEOREM WaitsTrue == Spec => []WaitsAreTrue
<1>1. ASSUME IInv PROVE WaitsAreTrue
  <2>1. TakenMeansDone
    <3>1. CASE taken = Cardinality(Jobs)
      <4>1. Posted = Jobs
        BY <1>1, <3>1, PostedIsFinite, JobsAssumption, FS_EmptySet DEF IInv, MainInv, Posted
      <4> QED BY <1>1, <4>1 DEF TakenMeansDone, Posted, IInv, PsInv, JobInv
    <3> QED BY <3>1 DEF TakenMeansDone
  <2>2. JoinIsTrue
    BY <1>1 DEF JoinIsTrue, IInv, ThreadInv, ThreadTypeOK
  <2> QED BY <1>1, <2>1, <2>2 DEF WaitsAreTrue, IInv, WaitInv
<1> QED BY <1>1, Invariance, PTL

\* Two ways of ending have the same code exactly when they are alike.
LEMMA CodesAlike ==
  ASSUME NEW e, NEW f, NEW c, NEW d, sys \in {"unix", "windows"},
         e = Killed \/ (sys = "unix" /\ e = NotStarted) \/ \E n \in Nat : e = Exited(n),
         f = Killed \/ f = NotStarted \/ \E n \in Nat : f = Exited(n),
         c = IF sys = "unix" THEN ExitCode(e) ELSE e.n,
         d = IF sys = "unix" THEN ExitCode(f) ELSE f.n
  PROVE  (c = d => Alike(e, f)) /\ (Alike(e, f) => c = d)
<1> DEFINE Is(x, y) == \/ x = Killed /\ y = (IF sys = "unix" THEN -9 ELSE 9)
                       \/ x = NotStarted /\ y = 255
                       \/ y \in Nat /\ x = Exited(y)
<1>0. /\ Killed.n = 9 /\ NotStarted.n = 255 /\ \A n : Exited(n).n = n
      /\ ExitCode(Killed) = -9 /\ ExitCode(NotStarted) = 255 /\ \A n : ExitCode(Exited(n)) = n
  BY DEF Killed, NotStarted, Exited, ExitCode
<1>1. Is(e, c) /\ Is(f, d)
  BY <1>0
<1>2. \A m, n : /\ Exited(m) = Exited(n) => m = n
                /\ Exited(m) # Killed /\ Exited(m) # NotStarted /\ Killed # NotStarted
  BY DEF Exited, Killed, NotStarted
<1> HIDE DEF Is
<1> DEFINE x == Exited(255) y == NotStarted v == Exited(9) w == Killed
<1>3. /\ Alike(e, f) => \/ e = f
                        \/ (e = x \/ e = y) /\ (f = x \/ f = y)
                        \/ sys = "windows" /\ (e = v \/ e = w) /\ (f = v \/ f = w)
      /\ e = f => Alike(e, f)
      /\ (e = x \/ e = y) /\ (f = x \/ f = y) => Alike(e, f)
      /\ sys = "windows" /\ (e = v \/ e = w) /\ (f = v \/ f = w) => Alike(e, f)
  BY DEF Alike
<1>4. /\ x # y /\ x # v /\ x # w /\ y # v /\ y # w /\ v # w
      /\ \A n : Exited(n) # y /\ Exited(n) # w
      /\ \A n : Exited(n) = x <=> n = 255
      /\ \A n : Exited(n) = v <=> n = 9
      /\ \A m, n : Exited(m) = Exited(n) => m = n
  BY <1>2
<1>5. /\ e = w => c = (IF sys = "unix" THEN -9 ELSE 9)
      /\ e = y => c = 255
      /\ e # w /\ e # y => c \in Nat /\ e = Exited(c)
      /\ f = w => d = (IF sys = "unix" THEN -9 ELSE 9)
      /\ f = y => d = 255
      /\ f # w /\ f # y => d \in Nat /\ f = Exited(d)
  BY <1>1, <1>4 DEF Is
<1> HIDE DEF x, y, v, w
<1>6. (e = x => c = 255) /\ (f = x => d = 255) /\ (e = v => c = 9) /\ (f = v => d = 9)
  BY <1>4, <1>5
<1>7. ASSUME Alike(e, f) PROVE c = d
  <2>1. CASE e = f
    BY <2>1, <1>4, <1>5
  <2>2. CASE (e = x \/ e = y) /\ (f = x \/ f = y)
    BY <2>2, <1>5, <1>6
  <2>3. CASE sys = "windows" /\ (e = v \/ e = w) /\ (f = v \/ f = w)
    BY <2>3, <1>5, <1>6
  <2> QED BY <1>3, <1>7, <2>1, <2>2, <2>3
<1>8. ASSUME c = d PROVE Alike(e, f)
  <2>1. CASE e = w
    <3>1. CASE sys = "unix"
      BY <1>3, <1>4, <1>5, <1>8, <2>1, <3>1
    <3>2. CASE sys = "windows"
      BY <1>3, <1>4, <1>5, <1>8, <2>1, <3>2
    <3> QED BY <3>1, <3>2
  <2>2. CASE e = y
    <3>1. sys = "unix"
      BY <1>4, <2>2 DEF y, w
    <3>2. f = y \/ f = x
      BY <1>4, <1>5, <1>8, <2>2, <3>1
    <3> QED BY <1>3, <2>2, <3>2
  <2>3. CASE e # w /\ e # y
    <3>1. CASE f = w
      BY <1>3, <1>4, <1>5, <1>8, <2>3, <3>1
    <3>2. CASE f = y
      BY <1>3, <1>4, <1>5, <1>8, <2>3, <3>2
    <3>3. CASE f # w /\ f # y
      BY <1>3, <1>5, <1>8, <2>3, <3>3
    <3> QED BY <3>1, <3>2, <3>3
  <2> QED BY <2>1, <2>2, <2>3
<1> QED BY <1>7, <1>8

\* The end of a job's stream means that its own child has ended and that all of its output
\* was read (ffpipe_read()), and the exit code tells how that child has ended (ffps_wait()).
THEOREM OutcomeOfChild == Spec => []OutcomeIsOfChild
<1>1. ASSUME IInv PROVE OutcomeIsOfChild
  <2>1. EofMeansAll
    BY <1>1 DEF EofMeansAll, Alive, IInv, PsInv, PsTypeOK, JobInv
  <2>2. CodeIsOfChild
    <3> SUFFICES ASSUME NEW i \in Jobs, NEW j \in Jobs, child[i] = "gone", child[j] = "gone"
                 PROVE  /\ code[i] = code[j] <=> Alike(ended[i], ended[j])
                        /\ code[i] = 255 <=> Alike(ended[i], NotStarted)
      BY DEF CodeIsOfChild
    <3>1. ASSUME NEW k \in Jobs, child[k] = "gone"
          PROVE  /\ \/ ended[k] = Killed \/ (sys = "unix" /\ ended[k] = NotStarted)
                    \/ \E c \in Nat : ended[k] = Exited(c)
                 /\ code[k] = IF sys = "unix" THEN ExitCode(ended[k]) ELSE ended[k].n
      BY <1>1, <3>1, ExitAssumption DEF IInv, PsInv, JobInv, Exits
    <3>2. ASSUME NEW e, NEW f, NEW c, NEW d,
                 e = Killed \/ (sys = "unix" /\ e = NotStarted) \/ \E n \in Nat : e = Exited(n),
                 f = Killed \/ f = NotStarted \/ \E n \in Nat : f = Exited(n),
                 c = IF sys = "unix" THEN ExitCode(e) ELSE e.n,
                 d = IF sys = "unix" THEN ExitCode(f) ELSE f.n,
                 sys \in {"unix", "windows"}
          PROVE  c = d <=> Alike(e, f)
      BY <3>2, CodesAlike
    <3>3. sys \in {"unix", "windows"}
      BY <1>1 DEF IInv, PsInv
    <3>4. code[i] = code[j] <=> Alike(ended[i], ended[j])
      BY <3>1, <3>2, <3>3
    <3>5. 255 = IF sys = "unix" THEN ExitCode(NotStarted) ELSE NotStarted.n
      BY DEF ExitCode, NotStarted
    <3>6. code[i] = 255 <=> Alike(ended[i], NotStarted)
      BY <3>1, <3>2, <3>3, <3>5
    <3> QED BY <3>4, <3>6
  <2> QED BY <2>1, <2>2 DEF OutcomeIsOfChild
<1> QED BY <1>1, Invariance, PTL

-----------------------------------------------------------------------------
(* The arguments of a child on Windows. *)

LEMMA Least ==
  ASSUME NEW T \in SUBSET Nat, T # {}
  PROVE  \E x \in T : \A y \in T : x <= y
<1> DEFINE R == OpToRel(<, Nat)
<1>1. IsWellFoundedOn(R, Nat)
  BY NatLessThanWellFounded
<1>2. \A x, y \in Nat : x < y => <<x, y>> \in R
  BY DEF OpToRel
<1> HIDE DEF R
<1>3. PICK x \in T : \A y \in T : ~(<<y, x>> \in R)
  BY <1>1, WFMin
<1>4. ASSUME NEW y \in T PROVE x <= y
  <2>1. x \in Nat /\ y \in Nat /\ ~(y < x)
    BY <1>2, <1>3
  <2> QED BY <2>1
<1> QED BY <1>4


\* How the scan of a command line begins.
Parse0 == [args |-> <<>>, arg |-> <<>>, quoted |-> FALSE]

\* Line is the function that its definition says: there is one.
LEMMA LineSteps ==
  ASSUME argv \in Seq(Seq(ArgChars)), argv # <<>>
  PROVE  /\ Line[1] = Quoted(argv[1])
         /\ \A i \in 2..Len(argv) : Line[i] = Line[i - 1] \o <<"space">> \o Quoted(argv[i])
<1> DEFINE L == Len(argv)
           Is(n, g) == g = [i \in 1..n |-> IF i = 1 THEN Quoted(argv[1]) ELSE g[i - 1] \o <<"space">> \o Quoted(argv[i])]
           T == {n \in 1..L : ~\E g : Is(n, g)}
<1>0. L \in Nat /\ 1 <= L
  BY EmptySeq
<1> HIDE DEF L
<1>1. ASSUME T # {} PROVE FALSE
  <2>1. T \in SUBSET Nat
    <3>1. 1..L \subseteq Nat
      BY <1>0
    <3> QED BY <3>1
  <2>2. PICK x \in T : \A y \in T : x <= y
    <3> HIDE DEF T
    <3> QED BY <1>1, <2>1, Least
  <2>3. x \in 1..L /\ ~\E g : Is(x, g)
    BY <2>2
  <2>4. CASE x = 1
    <3> DEFINE g == [i \in 1..1 |-> Quoted(argv[1])]
    <3>1. Is(1, g)
      <4>1. 1..1 = {1}
        OBVIOUS
      <4> QED BY <4>1
    <3> QED BY <2>3, <2>4, <3>1
  <2>5. CASE x # 1
    <3>1. x - 1 \in 1..L /\ x - 1 \notin T
      <4>1. x - 1 \in 1..L /\ ~(x <= x - 1)
        BY <1>0, <2>3, <2>5
      <4> HIDE DEF T
      <4> QED BY <2>2, <4>1
    <3>2. PICK h : Is(x - 1, h)
      BY <3>1
    <3> DEFINE g == [i \in 1..x |-> IF i = x THEN h[x - 1] \o <<"space">> \o Quoted(argv[x]) ELSE h[i]]
    <3>3. \A i \in 1..(x - 1) : h[i] = IF i = 1 THEN Quoted(argv[1]) ELSE h[i - 1] \o <<"space">> \o Quoted(argv[i])
      BY <3>2
    <3>4. \A i \in 1..x : g[i] = IF i = x THEN h[x - 1] \o <<"space">> \o Quoted(argv[x]) ELSE h[i]
      OBVIOUS
    <3>5. ASSUME NEW i \in 1..x PROVE g[i] = IF i = 1 THEN Quoted(argv[1]) ELSE g[i - 1] \o <<"space">> \o Quoted(argv[i])
      <4> HIDE DEF g, Is, T
      <4>1. CASE i = x
        <5>1. i - 1 \in 1..x /\ i - 1 # x /\ i # 1
          BY <1>0, <2>3, <2>5, <4>1
        <5> QED BY <3>4, <4>1, <5>1
      <4>2. CASE i # x /\ i = 1
        <5>1. 1 \in 1..(x - 1)
          BY <1>0, <2>3, <2>5
        <5> QED BY <3>3, <3>4, <4>2, <5>1
      <4>3. CASE i # x /\ i # 1
        <5>1. i \in 1..(x - 1) /\ i - 1 \in 1..x /\ i - 1 # x
          BY <1>0, <2>3, <2>5, <4>3
        <5> QED BY <3>3, <3>4, <4>3, <5>1
      <4> QED BY <4>1, <4>2, <4>3
    <3>6. Is(x, g)
      <4>1. g = [i \in 1..x |-> g[i]]
        OBVIOUS
      <4> HIDE DEF g
      <4> QED BY <3>5, <4>1
    <3> QED BY <2>3, <3>6
  <2> QED BY <2>4, <2>5
<1>2. \E g : Is(L, g)
  <2>1. L \in 1..L
    BY <1>0
  <2> QED BY <1>1, <2>1
<1>3. Is(L, Line)
  <2>1. Line = CHOOSE g : Is(L, g)
    BY DEF Line, L
  <2> HIDE DEF Is
  <2> QED BY <1>2, <2>1
<1>4. \A i \in 1..L : Line[i] = IF i = 1 THEN Quoted(argv[1]) ELSE Line[i - 1] \o <<"space">> \o Quoted(argv[i])
  BY <1>3
<1>5. 1 \in 1..L /\ \A i \in 2..L : i \in 1..L /\ i # 1
  BY <1>0
<1> QED BY <1>4, <1>5 DEF L

\* And so is Parsed.
LEMMA ParsedSteps ==
  ASSUME Len(Cmdln) \in Nat
  PROVE  /\ Parsed[0] = Parse0
         /\ \A k \in 1..Len(Cmdln) : Parsed[k] = Scan(Parsed[k - 1], Cmdln[k])
<1> DEFINE L == Len(Cmdln)
           Is(n, g) == g = [i \in 0..n |-> IF i = 0 THEN Parse0 ELSE Scan(g[i - 1], Cmdln[i])]
           T == {n \in 0..L : ~\E g : Is(n, g)}
<1>0. L \in Nat /\ 0 <= L
  OBVIOUS
<1> HIDE DEF L
<1>1. ASSUME T # {} PROVE FALSE
  <2>1. T \in SUBSET Nat
    <3>1. 0..L \subseteq Nat
      BY <1>0
    <3> QED BY <3>1
  <2>2. PICK x \in T : \A y \in T : x <= y
    <3> HIDE DEF T
    <3> QED BY <1>1, <2>1, Least
  <2>3. x \in 0..L /\ ~\E g : Is(x, g)
    BY <2>2
  <2>4. CASE x = 0
    <3> DEFINE g == [i \in 0..0 |-> Parse0]
    <3>1. Is(0, g)
      <4>1. 0..0 = {0}
        OBVIOUS
      <4> QED BY <4>1
    <3> QED BY <2>3, <2>4, <3>1
  <2>5. CASE x # 0
    <3>1. x - 1 \in 0..L /\ x - 1 \notin T
      <4>1. x - 1 \in 0..L /\ ~(x <= x - 1)
        BY <1>0, <2>3, <2>5
      <4> HIDE DEF T
      <4> QED BY <2>2, <4>1
    <3>2. PICK h : Is(x - 1, h)
      BY <3>1
    <3> DEFINE g == [i \in 0..x |-> IF i = x THEN Scan(h[x - 1], Cmdln[x]) ELSE h[i]]
    <3>3. \A i \in 0..(x - 1) : h[i] = IF i = 0 THEN Parse0 ELSE Scan(h[i - 1], Cmdln[i])
      BY <3>2
    <3>4. \A i \in 0..x : g[i] = IF i = x THEN Scan(h[x - 1], Cmdln[x]) ELSE h[i]
      OBVIOUS
    <3>5. ASSUME NEW i \in 0..x PROVE g[i] = IF i = 0 THEN Parse0 ELSE Scan(g[i - 1], Cmdln[i])
      <4> HIDE DEF g, Is, T
      <4>1. CASE i = x
        <5>1. i - 1 \in 0..x /\ i - 1 # x /\ i # 0
          BY <1>0, <2>3, <2>5, <4>1
        <5> QED BY <3>4, <4>1, <5>1
      <4>2. CASE i # x /\ i = 0
        <5>1. 0 \in 0..(x - 1)
          BY <1>0, <2>3, <2>5
        <5> QED BY <3>3, <3>4, <4>2, <5>1
      <4>3. CASE i # x /\ i # 0
        <5>1. i \in 0..(x - 1) /\ i - 1 \in 0..x /\ i - 1 # x
          BY <1>0, <2>3, <2>5, <4>3
        <5> QED BY <3>3, <3>4, <4>3, <5>1
      <4> QED BY <4>1, <4>2, <4>3
    <3>6. Is(x, g)
      <4>1. g = [i \in 0..x |-> g[i]]
        OBVIOUS
      <4> HIDE DEF g
      <4> QED BY <3>5, <4>1
    <3> QED BY <2>3, <3>6
  <2> QED BY <2>4, <2>5
<1>2. \E g : Is(L, g)
  <2>1. L \in 0..L
    BY <1>0
  <2> QED BY <1>1, <2>1
<1>3. Is(L, Parsed)
  <2>1. Parsed = CHOOSE g : Is(L, g)
    BY DEF Parsed, L, Parse0
  <2> HIDE DEF Is
  <2> QED BY <1>2, <2>1
<1>4. \A i \in 0..L : Parsed[i] = IF i = 0 THEN Parse0 ELSE Scan(Parsed[i - 1], Cmdln[i])
  BY <1>3
<1>5. 0 \in 0..L /\ \A i \in 1..L : i \in 0..L /\ i # 0
  BY <1>0
<1> QED BY <1>4, <1>5 DEF L

-----------------------------------------------------------------------------
(* The command line. *)

\* An argument's characters are no quotes.
NoQuote(a) == \A k \in 1..Len(a) : a[k] # "quote"
HasSpace(a) == "space" \in ToSet(a)
HasBlank(a) == HasSpace(a) \/ "tab" \in ToSet(a)

\* The arguments are sequences of characters, and so are their quoted forms.
LEMMA QuotedType ==
  ASSUME NEW a \in Seq(ArgChars)
  PROVE  /\ Quoted(a) \in Seq(ArgChars)
         /\ ~HasSpace(a) => Quoted(a) = a
         /\ HasSpace(a) =>
              /\ Len(Quoted(a)) = Len(a) + 2 /\ Quoted(a)[1] = "quote" /\ Quoted(a)[Len(a) + 2] = "quote"
              /\ \A k \in 1..Len(a) : Quoted(a)[k + 1] = a[k]
<1>1. CASE ~HasSpace(a)
  BY <1>1 DEF Quoted, HasSpace
<1>2. CASE HasSpace(a)
  <2> DEFINE q == <<"quote">> L == Len(a)
  <2>1. q \in Seq(ArgChars) /\ Len(q) = 1 /\ q[1] = "quote"
    BY DEF ArgChars
  <2>0. L \in Nat
    BY LenProperties
  <2> HIDE DEF q, L
  <2>2. /\ q \o a \in Seq(ArgChars) /\ Len(q \o a) = 1 + L
        /\ \A i \in 1..(1 + L) : (q \o a)[i] = IF i <= 1 THEN q[i] ELSE a[i - 1]
    <3>1. /\ q \o a \in Seq(ArgChars) /\ Len(q \o a) = Len(q) + Len(a)
          /\ \A i \in 1..(Len(q) + Len(a)) : (q \o a)[i] = IF i <= Len(q) THEN q[i] ELSE a[i - Len(q)]
      BY <2>1, ConcatProperties
    <3> QED BY <2>1, <3>1 DEF L
  <2>3. /\ q \o a \o q \in Seq(ArgChars) /\ Len(q \o a \o q) = L + 2
        /\ \A i \in 1..(L + 2) : (q \o a \o q)[i] = IF i <= 1 + L THEN (q \o a)[i] ELSE q[i - (1 + L)]
    <3> DEFINE b == q \o a
    <3>1. b \in Seq(ArgChars) /\ Len(b) = 1 + L
      BY <2>2
    <3> HIDE DEF b
    <3>2. /\ b \o q \in Seq(ArgChars) /\ Len(b \o q) = Len(b) + Len(q)
          /\ \A i \in 1..(Len(b) + Len(q)) : (b \o q)[i] = IF i <= Len(b) THEN b[i] ELSE q[i - Len(b)]
      BY <2>1, <3>1, ConcatProperties
    <3>3. Len(b) + Len(q) = L + 2
      BY <2>0, <2>1, <3>1
    <3> QED BY <3>1, <3>2, <3>3 DEF b
  <2>4. Quoted(a) = q \o a \o q
    BY <1>2 DEF Quoted, HasSpace, q
  <2> DEFINE Q == q \o a \o q b == q \o a
  <2>5. /\ \A i \in 1..(L + 2) : Q[i] = IF i <= 1 + L THEN b[i] ELSE q[i - (1 + L)]
        /\ \A i \in 1..(1 + L) : b[i] = IF i <= 1 THEN q[i] ELSE a[i - 1]
    BY <2>2, <2>3
  <2> HIDE DEF Q, b
  <2>6. Q[1] = "quote"
    <3>1. 1 \in 1..(L + 2) /\ 1 \in 1..(1 + L) /\ 1 <= 1 + L /\ 1 <= 1
      BY <2>0
    <3> QED BY <2>1, <2>5, <3>1
  <2>7. Q[L + 2] = "quote"
    <3> DEFINE e == L + 2 d == e - (1 + L)
    <3>1. e \in 1..(L + 2) /\ ~(e <= 1 + L) /\ d = 1
      BY <2>0
    <3>2. Q[e] = q[d]
      <4> HIDE DEF e
      <4> QED BY <2>5, <3>1
    <3> HIDE DEF d
    <3> QED BY <2>1, <3>1, <3>2
  <2>8. ASSUME NEW k \in 1..L PROVE Q[k + 1] = a[k]
    <3>1. k + 1 \in 1..(L + 2) /\ k + 1 \in 1..(1 + L) /\ k + 1 <= 1 + L /\ ~(k + 1 <= 1) /\ k + 1 - 1 = k
      BY <2>0
    <3> QED BY <2>5, <3>1
  <2> QED BY <1>2, <2>3, <2>4, <2>6, <2>7, <2>8 DEF Q, L
<1> QED BY <1>1, <1>2

\* Each argument follows the line of those before it and a space.
LEMMA LineType ==
  ASSUME argv \in Seq(Seq(ArgChars)), argv # <<>>
  PROVE  \A i \in 1..Len(argv) : Line[i] \in Seq(ArgChars)
<1> DEFINE L == Len(argv) T == {i \in 1..L : Line[i] \notin Seq(ArgChars)}
<1>0. /\ L \in Nat /\ 1 <= L /\ Line[1] = Quoted(argv[1])
      /\ \A i \in 2..L : Line[i] = Line[i - 1] \o <<"space">> \o Quoted(argv[i])
  <2>1. L \in Nat /\ 1 <= L
    BY EmptySeq
  <2> QED BY <2>1, LineSteps
<1>1. \A i \in 1..L : argv[i] \in Seq(ArgChars)
  BY ElementOfSeq
<1>2. ASSUME T # {} PROVE FALSE
  <2>1. T \in SUBSET Nat
    <3>1. 1..L \subseteq Nat
      BY <1>0
    <3> QED BY <3>1
  <2>2. PICK x \in T : \A y \in T : x <= y
    <3> HIDE DEF T
    <3> QED BY <1>2, <2>1, Least
  <2>3. x \in 1..L /\ Line[x] \notin Seq(ArgChars)
    BY <2>2
  <2>4. x # 1
    BY <1>0, <1>1, <2>3, QuotedType
  <2>5. x \in 2..L /\ x - 1 \in 1..L /\ ~(x <= x - 1)
    <3> HIDE DEF T, L
    <3> QED BY <1>0, <2>3, <2>4
  <2>6. Line[x - 1] \in Seq(ArgChars)
    BY <2>2, <2>5
  <2>7. Quoted(argv[x]) \in Seq(ArgChars)
    BY <1>1, <2>3, QuotedType
  <2>8. <<"space">> \in Seq(ArgChars)
    BY DEF ArgChars
  <2> DEFINE u == Line[x - 1] b == <<"space">> q == Quoted(argv[x])
  <2>9. Line[x] = u \o b \o q
    BY <1>0, <2>5
  <2> HIDE DEF u, b, q, T, L
  <2>10. u \o b \in Seq(ArgChars)
    BY <2>6, <2>8, ConcatProperties DEF u, b
  <2>11. u \o b \o q \in Seq(ArgChars)
    BY <2>7, <2>10, ConcatProperties DEF q
  <2> QED BY <2>3, <2>9, <2>11
<1> QED BY <1>2

\* Where the i-th argument is in the line of the first i.
LEMMA LineParts ==
  ASSUME argv \in Seq(Seq(ArgChars)), argv # <<>>, NEW i \in 2..Len(argv)
  PROVE  /\ Len(Line[i]) = Len(Line[i - 1]) + 1 + Len(Quoted(argv[i]))
         /\ \A k \in 1..Len(Line[i - 1]) : Line[i][k] = Line[i - 1][k]
         /\ Line[i][Len(Line[i - 1]) + 1] = "space"
         /\ \A k \in 1..Len(Quoted(argv[i])) : Line[i][Len(Line[i - 1]) + 1 + k] = Quoted(argv[i])[k]
<1> DEFINE u == Line[i - 1] b == <<"space">> q == Quoted(argv[i]) c == u \o b
<1>0. i \in 1..Len(argv) /\ i - 1 \in 1..Len(argv)
  BY LenProperties
<1>1. u \in Seq(ArgChars) /\ b \in Seq(ArgChars) /\ Len(b) = 1 /\ b[1] = "space"
  BY <1>0, LineType DEF ArgChars
<1>2. q \in Seq(ArgChars)
  BY <1>0, ElementOfSeq, QuotedType
<1>3. Line[i] = c \o q
  BY LineSteps
<1> DEFINE U == Len(u) Q == Len(q)
<1>4. U \in Nat /\ Q \in Nat
  BY <1>1, <1>2, LenProperties
<1> HIDE DEF u, q, b
<1>5. c \in Seq(ArgChars) /\ Len(c) = U + 1
      /\ \A k \in 1..(U + 1) : c[k] = IF k <= U THEN u[k] ELSE b[k - U]
  <2>1. /\ c \in Seq(ArgChars) /\ Len(c) = Len(u) + Len(b)
        /\ \A k \in 1..(Len(u) + Len(b)) : c[k] = IF k <= Len(u) THEN u[k] ELSE b[k - Len(u)]
    BY <1>1, ConcatProperties
  <2> QED BY <1>1, <2>1
<1> HIDE DEF c
<1>6. Len(c \o q) = (U + 1) + Q
      /\ \A k \in 1..((U + 1) + Q) : (c \o q)[k] = IF k <= U + 1 THEN c[k] ELSE q[k - (U + 1)]
  <2>1. /\ Len(c \o q) = Len(c) + Len(q)
        /\ \A k \in 1..(Len(c) + Len(q)) : (c \o q)[k] = IF k <= Len(c) THEN c[k] ELSE q[k - Len(c)]
    BY <1>2, <1>5, ConcatProperties, ZenonT(60)
  <2> QED BY <1>5, <2>1
<1> DEFINE l == c \o q
<1>7. Len(l) = (U + 1) + Q
      /\ \A k \in 1..((U + 1) + Q) : l[k] = IF k <= U + 1 THEN c[k] ELSE q[k - (U + 1)]
  BY <1>6
<1> HIDE DEF l, U, Q
<1>8. ASSUME NEW k \in 1..U PROVE l[k] = u[k]
  <2>1. k \in 1..((U + 1) + Q) /\ k \in 1..(U + 1) /\ k <= U + 1 /\ k <= U
    BY <1>4
  <2> QED BY <1>5, <1>7, <2>1
<1>9. l[U + 1] = "space"
  <2> DEFINE e == U + 1 d == e - U
  <2>1. e \in 1..((U + 1) + Q) /\ e \in 1..(U + 1) /\ e <= U + 1 /\ ~(e <= U) /\ d = 1
    BY <1>4
  <2>2. l[e] = b[d]
    <3> HIDE DEF e
    <3> QED BY <1>5, <1>7, <2>1
  <2> HIDE DEF d
  <2> QED BY <1>1, <2>1, <2>2
<1>10. ASSUME NEW k \in 1..Q PROVE l[U + 1 + k] = q[k]
  <2> DEFINE e == U + 1 + k d == e - (U + 1)
  <2>1. e \in 1..((U + 1) + Q) /\ ~(e <= U + 1) /\ d = k
    BY <1>4
  <2>2. l[e] = q[d]
    <3> HIDE DEF e
    <3> QED BY <1>7, <2>1
  <2> HIDE DEF d
  <2> QED BY <2>1, <2>2
<1> QED BY <1>3, <1>7, <1>8, <1>9, <1>10 DEF l, U, Q, u, q

\* The line of the first arguments is how the command line begins.
LEMMA LineBegins ==
  ASSUME argv \in Seq(Seq(ArgChars)), argv # <<>>
  PROVE  \A i \in 1..Len(argv) :
           Len(Line[i]) <= Len(Cmdln) /\ \A k \in 1..Len(Line[i]) : Cmdln[k] = Line[i][k]
<1> DEFINE L == Len(argv)
           Begins(i) == Len(Line[i]) <= Len(Cmdln) /\ \A k \in 1..Len(Line[i]) : Cmdln[k] = Line[i][k]
           T == {d \in 0..(L - 1) : ~Begins(L - d)}
<1>0. L \in Nat /\ 1 <= L
  BY EmptySeq
<1>1. \A i \in 1..L : Line[i] \in Seq(ArgChars) /\ Len(Line[i]) \in Nat
  BY LineType, LenProperties
<1>2. ASSUME T # {} PROVE FALSE
  <2>1. T \in SUBSET Nat
    <3>1. 0..(L - 1) \subseteq Nat
      BY <1>0
    <3> QED BY <3>1
  <2>2. PICK x \in T : \A y \in T : x <= y
    <3> HIDE DEF T
    <3> QED BY <1>2, <2>1, Least
  <2>3. x \in 0..(L - 1) /\ ~Begins(L - x)
    BY <2>2
  <2>4. x # 0
    <3>1. Begins(L)
      <4>1. L \in 1..L
        BY <1>0
      <4>2. Len(Line[L]) <= Len(Line[L])
        BY <1>1, <4>1
      <4> QED BY <4>2 DEF Cmdln
    <3>2. L - 0 = L
      BY <1>0
    <3> HIDE DEF Begins, T
    <3> QED BY <2>3, <3>1, <3>2
  <2> DEFINE i == L - (x - 1)
  <2>5. x - 1 \in 0..(L - 1) /\ ~(x <= x - 1) /\ i \in 2..L /\ L - x = i - 1 /\ i - 1 \in 1..L /\ i \in 1..L
    <3> HIDE DEF T, L, Begins
    <3> QED BY <1>0, <2>3, <2>4
  <2>6. Begins(i)
    <3>1. x - 1 \notin T
      <4> HIDE DEF T, Begins, i
      <4> QED BY <2>2, <2>5
    <3> HIDE DEF Begins
    <3> QED BY <2>5, <3>1
  <2> HIDE DEF i
  <2> DEFINE m == Len(Line[i - 1]) n == Len(Line[i]) q == Len(Quoted(argv[i])) c == Len(Cmdln)
  <2>7. n = m + 1 + q /\ \A k \in 1..m : Line[i][k] = Line[i - 1][k]
    BY <2>5, LineParts
  <2>8. q \in Nat
    BY <2>5, ElementOfSeq, QuotedType, LenProperties
  <2>9. c \in Nat
    <3>1. L \in 1..L
      BY <1>0
    <3> QED BY <1>1, <3>1 DEF Cmdln
  <2>10. m \in Nat /\ n \in Nat /\ n <= c /\ \A k \in 1..n : Cmdln[k] = Line[i][k]
    BY <1>1, <2>5, <2>6
  <2> HIDE DEF m, n, q, c, L
  <2>11. m <= c /\ \A k \in 1..m : k \in 1..n
    BY <2>7, <2>8, <2>9, <2>10
  <2>12. Begins(i - 1)
    BY <2>7, <2>10, <2>11 DEF m, c
  <2> HIDE DEF Begins
  <2> QED BY <2>3, <2>5, <2>12
<1>3. ASSUME NEW i \in 1..L PROVE Begins(i)
  <2>1. L - i \in 0..(L - 1) /\ L - (L - i) = i
    BY <1>0
  <2> HIDE DEF Begins
  <2> QED BY <1>2, <2>1
<1> QED BY <1>3

-----------------------------------------------------------------------------
(* How the child takes it apart. *)

At(A, a, q) == [args |-> A, arg |-> a, quoted |-> q]

\* Nothing is special about a quote that no backslash precedes.
LEMMA NoSlashes ==
  ASSUME NEW a \in Seq(ArgChars), a = <<>> \/ a[Len(a)] # "backslash"
  PROVE  Slashes(a) = 0 /\ Halved(a) = a
<1> DEFINE L == Len(a)
           P(n) == (\A k \in 0..(n - 1) : a[L - k] = "backslash") /\ (n = L \/ a[L - n] # "backslash")
           z == Slashes(a)
<1>0. L \in Nat /\ (a = <<>> => L = 0)
  BY LenProperties, EmptySeq
<1>1. 0 \in 0..L /\ P(0)
  <2>1. 0 \in 0..L /\ 0..(0 - 1) = {} /\ L - 0 = L
    BY <1>0
  <2> QED BY <1>0, <2>1
<1>2. z \in 0..L /\ P(z)
  <2>1. z = CHOOSE n \in 0..L : P(n)
    BY DEF Slashes
  <2> HIDE DEF P, z, L
  <2> QED BY <1>1, <2>1
<1>3. z = 0
  <2> SUFFICES ASSUME z # 0 PROVE FALSE
    OBVIOUS
  <2> HIDE DEF z, L
  <2>1. 0 \in 0..(z - 1) /\ L - 0 = L /\ L # 0
    BY <1>0, <1>2
  <2>2. a[L] = "backslash"
    BY <1>2, <2>1
  <2> QED BY <1>0, <2>1, <2>2 DEF L
<1>4. Halved(a) = SubSeq(a, 1, L)
  <2>1. L - (0 + 1) \div 2 = L
    BY <1>0
  <2> HIDE DEF z, L
  <2>2. Slashes(a) = 0
    BY <1>3 DEF z
  <2> QED BY <2>1, <2>2 DEF Halved, L
<1> QED BY <1>3, <1>4, SubSeqFull DEF z

\* A quote without backslashes begins or ends what is quoted.
LEMMA ScanQuote ==
  ASSUME NEW A, NEW a \in Seq(ArgChars), a = <<>> \/ a[Len(a)] # "backslash"
  PROVE  /\ Scan(At(A, a, FALSE), "quote") = At(A, a, TRUE)
         /\ Scan(At(A, a, TRUE), "quote") = At(A, a, FALSE)
<1>1. Slashes(a) = 0 /\ Halved(a) = a /\ ~(0 % 2 = 1)
  BY NoSlashes
<1> QED BY <1>1 DEF Scan, At

\* A space outside quotes ends an argument.
LEMMA ScanSpace ==
  ASSUME NEW A, NEW a, a # <<>>
  PROVE  Scan(At(A, a, FALSE), "space") = At(Append(A, a), <<>>, FALSE)
BY DEF Scan, At

\* Any other character is the argument's.
LEMMA ScanOther ==
  ASSUME NEW A, NEW a, NEW c, NEW q \in BOOLEAN, c # "quote", q \/ c \notin {"space", "tab"}
  PROVE  Scan(At(A, a, q), c) = At(A, Append(a, c), q)
<1>1. CASE c \notin {"space", "tab"}
  BY <1>1 DEF Scan, At
<1>2. CASE c \in {"space", "tab"}
  BY <1>2 DEF Scan, At
<1> QED BY <1>1, <1>2

\* The characters of an argument are read one by one.
LEMMA ReadPlain ==
  ASSUME Len(Cmdln) \in Nat, NEW a \in Seq(ArgChars), NoQuote(a), NEW q \in BOOLEAN, q \/ ~HasBlank(a),
         NEW p \in 0..Len(Cmdln), p + Len(a) <= Len(Cmdln),
         \A k \in 1..Len(a) : Cmdln[p + k] = a[k], NEW A, Parsed[p] = At(A, <<>>, q)
  PROVE  Parsed[p + Len(a)] = At(A, a, q)
<1> DEFINE L == Len(Cmdln) n == Len(a)
           T == {k \in 0..n : Parsed[p + k] # At(A, SubSeq(a, 1, k), q)}
<1>0. L \in Nat /\ n \in Nat /\ p \in 0..L /\ p + n <= L
  BY LenProperties
<1>1. ASSUME T # {} PROVE FALSE
  <2>1. T \in SUBSET Nat
    <3>1. T \subseteq 0..n
      OBVIOUS
    <3> HIDE DEF T, L, n
    <3>2. 0..n \subseteq Nat
      BY <1>0
    <3> QED BY <3>1, <3>2
  <2>2. PICK x \in T : \A y \in T : x <= y
    <3> HIDE DEF T
    <3> QED BY <1>1, <2>1, Least
  <2>3. x \in 0..n /\ Parsed[p + x] # At(A, SubSeq(a, 1, x), q)
    BY <2>2
  <2>4. x # 0
    <3>1. SubSeq(a, 1, 0) = <<>> /\ p + 0 = p
      BY <1>0, SubSeqEmpty
    <3> HIDE DEF T, L, n
    <3> QED BY <2>3, <3>1
  <2>5. x \in 1..n /\ x - 1 \in 0..n /\ ~(x <= x - 1) /\ p + x \in 1..L /\ p + x - 1 = p + (x - 1)
    <3> HIDE DEF T, L, n
    <3> QED BY <1>0, <2>3, <2>4
  <2>6. Parsed[p + (x - 1)] = At(A, SubSeq(a, 1, x - 1), q)
    BY <2>2, <2>5
  <2> DEFINE c == a[x] s == SubSeq(a, 1, x - 1)
  <2>7. Parsed[p + x] = Scan(Parsed[p + x - 1], Cmdln[p + x]) /\ Cmdln[p + x] = c
    BY <2>5, ParsedSteps
  <2>8. c # "quote" /\ (q \/ c \notin {"space", "tab"})
    <3>1. c # "quote"
      BY <2>5 DEF NoQuote
    <3>2. c \in ToSet(a)
      <4>1. x \in DOMAIN a
        BY <2>5, LenProperties
      <4> QED BY <4>1 DEF ToSet
    <3> QED BY <3>1, <3>2 DEF HasBlank, HasSpace
  <2>9. Append(s, c) = SubSeq(a, 1, x)
    <3>1. 1 \in 1..n /\ x \in 1..n
      <4> HIDE DEF T, n
      <4> QED BY <1>0, <2>5
    <3>2. SubSeq(a, 1, x) = s \o <<c>>
      BY <3>1, SubSeqRecursiveSecond
    <3>3. s \in Seq(ArgChars) /\ c \in ArgChars
      <4>1. \A k \in 1..n : a[k] \in ArgChars
        BY ElementOfSeq
      <4> DEFINE e == x - 1
      <4>2. e \in Int /\ \A k \in 1..e : k \in 1..n
        <5> HIDE DEF T, n
        <5> QED BY <1>0, <2>5
      <4> HIDE DEF e
      <4>3. SubSeq(a, 1, e) \in Seq(ArgChars)
        BY <4>1, <4>2, SubSeqProperties
      <4> QED BY <2>5, <4>1, <4>3 DEF e
    <3> HIDE DEF s, c
    <3>4. Append(s, c) = s \o <<c>>
      BY <3>3
    <3> QED BY <3>2, <3>4
  <2> HIDE DEF c, s, T, L, n
  <2>10. Scan(At(A, s, q), c) = At(A, Append(s, c), q)
    BY <2>8, ScanOther
  <2> QED BY <2>3, <2>5, <2>6, <2>7, <2>9, <2>10 DEF s
<1>2. Parsed[p + n] = At(A, SubSeq(a, 1, n), q)
  <2>1. n \in 0..n
    BY <1>0
  <2> QED BY <1>1, <2>1
<1> QED BY <1>2, SubSeqFull

\* An argument is read as it was, in quotes or not.
LEMMA ReadQuoted ==
  ASSUME Len(Cmdln) \in Nat, NEW a \in Seq(ArgChars), NoQuote(a), Passable(a),
         NEW p \in 0..Len(Cmdln), p + Len(Quoted(a)) <= Len(Cmdln),
         \A k \in 1..Len(Quoted(a)) : Cmdln[p + k] = Quoted(a)[k], NEW A, Parsed[p] = At(A, <<>>, FALSE)
  PROVE  Parsed[p + Len(Quoted(a))] = At(A, a, FALSE)
<1>1. CASE ~HasSpace(a)
  <2>1. Quoted(a) = a
    BY <1>1, QuotedType
  <2> DEFINE q == FALSE
  <2>2. q \in BOOLEAN /\ (q \/ ~HasBlank(a)) /\ Parsed[p] = At(A, <<>>, q)
    BY <1>1 DEF Passable, HasBlank, HasSpace
  <2> HIDE DEF q
  <2>3. p + Len(a) <= Len(Cmdln) /\ \A k \in 1..Len(a) : Cmdln[p + k] = a[k]
    BY <2>1, Zenon
  <2>4. Parsed[p + Len(a)] = At(A, a, q)
    BY <2>2, <2>3, ReadPlain, Zenon
  <2> QED BY <2>1, <2>4 DEF q
<1>2. CASE HasSpace(a)
  <2> DEFINE L == Len(Cmdln) n == Len(a) Q == Quoted(a) s == p + 1 e == p + (n + 2)
  <2>1. /\ Len(Q) = n + 2 /\ Q[1] = "quote" /\ Q[n + 2] = "quote"
        /\ \A k \in 1..n : Q[k + 1] = a[k]
    BY <1>2, QuotedType
  <2>2. L \in Nat /\ n \in Nat /\ p \in 0..L /\ e <= L
    BY <2>1, LenProperties
  <2>3. \A k \in 1..(n + 2) : Cmdln[p + k] = Q[k]
    BY <2>1
  <2> HIDE DEF L, n, Q
  <2>4. /\ s \in 0..L /\ s \in 1..L /\ s - 1 = p /\ e \in 1..L /\ e - 1 = s + n /\ s + n <= L
        /\ 1 \in 1..(n + 2) /\ n + 2 \in 1..(n + 2)
    BY <2>2
  <2>5. Cmdln[s] = "quote" /\ Cmdln[e] = "quote"
    BY <2>1, <2>3, <2>4
  <2>6. ASSUME NEW k \in 1..n PROVE Cmdln[s + k] = a[k]
    <3>1. k + 1 \in 1..(n + 2) /\ s + k = p + (k + 1)
      BY <2>2
    <3> HIDE DEF s, e
    <3> QED BY <2>1, <2>3, <3>1
  <2> HIDE DEF s, e
  <2>7. Parsed[s] = At(A, <<>>, TRUE)
    <3>1. Parsed[s] = Scan(Parsed[s - 1], Cmdln[s])
      BY <2>4, ParsedSteps DEF L
    <3>2. <<>> \in Seq(ArgChars)
      OBVIOUS
    <3> DEFINE z == <<>>
    <3>3. z \in Seq(ArgChars) /\ z = <<>> /\ Parsed[p] = At(A, z, FALSE)
      BY <3>2
    <3> HIDE DEF z
    <3>4. Scan(At(A, z, FALSE), "quote") = At(A, z, TRUE)
      BY <3>3, ScanQuote
    <3> QED BY <2>4, <2>5, <3>1, <3>3, <3>4
  <2>8. Parsed[s + n] = At(A, a, TRUE)
    <3> DEFINE q == TRUE
    <3>1. q \in BOOLEAN /\ (q \/ ~HasBlank(a)) /\ Parsed[s] = At(A, <<>>, q)
      BY <2>7
    <3> HIDE DEF q
    <3>2. s \in 0..Len(Cmdln) /\ s + Len(a) <= Len(Cmdln)
      BY <2>4 DEF L, n
    <3>3. \A k \in 1..Len(a) : Cmdln[s + k] = a[k]
      BY <2>6 DEF n
    <3>4. Parsed[s + Len(a)] = At(A, a, q)
      BY <3>1, <3>2, <3>3, ReadPlain, ZenonT(60)
    <3> QED BY <3>4 DEF q, n
  <2>9. Parsed[e] = At(A, a, FALSE)
    <3>1. Parsed[e] = Scan(Parsed[e - 1], Cmdln[e])
      BY <2>4, ParsedSteps DEF L
    <3>2. a[Len(a)] # "backslash"
      BY <1>2 DEF Passable, HasSpace
    <3>3. Scan(At(A, a, TRUE), "quote") = At(A, a, FALSE)
      BY <3>2, ScanQuote
    <3> QED BY <2>4, <2>5, <2>8, <3>1, <3>3
  <2> QED BY <2>1, <2>9 DEF e, Q
<1> QED BY <1>1, <1>2

\* After the line of the first i arguments all of them have been read, the last one not yet
\* ended by a space.
LEMMA ReadArgs ==
  ASSUME argv \in Seq(Seq(ArgChars)), argv # <<>>, ~Refused, \A i \in DOMAIN argv : Passable(argv[i])
  PROVE  \A i \in 1..Len(argv) : Parsed[Len(Line[i])] = At(SubSeq(argv, 1, i - 1), argv[i], FALSE)
<1> DEFINE L == Len(argv) C == Len(Cmdln)
           Right(i) == Parsed[Len(Line[i])] = At(SubSeq(argv, 1, i - 1), argv[i], FALSE)
           T == {i \in 1..L : ~Right(i)}
<1>0. L \in Nat /\ 1 <= L
  BY EmptySeq
<1>1. \A i \in 1..L : Line[i] \in Seq(ArgChars) /\ Len(Line[i]) \in Nat
  BY LineType, LenProperties
<1>2. C \in Nat
  <2>1. L \in 1..L
    BY <1>0
  <2> QED BY <1>1, <2>1 DEF Cmdln
<1>3. \A i \in 1..L : argv[i] \in Seq(ArgChars) /\ Passable(argv[i]) /\ NoQuote(argv[i])
  <2> SUFFICES ASSUME NEW i \in 1..L
               PROVE  argv[i] \in Seq(ArgChars) /\ Passable(argv[i]) /\ NoQuote(argv[i])
    OBVIOUS
  <2>1. argv[i] \in Seq(ArgChars) /\ i \in DOMAIN argv
    BY ElementOfSeq, LenProperties
  <2>2. DOMAIN argv[i] = 1..Len(argv[i])
    BY <2>1, LenProperties
  <2>3. NoQuote(argv[i])
    BY <2>1, <2>2 DEF NoQuote, Refused, ToSet
  <2> QED BY <2>1, <2>3
<1>4. \A i \in 1..L : Len(Line[i]) <= C /\ \A k \in 1..Len(Line[i]) : Cmdln[k] = Line[i][k]
  BY LineBegins
<1>5. Parsed[0] = Parse0 /\ \A k \in 1..C : Parsed[k] = Scan(Parsed[k - 1], Cmdln[k])
  BY <1>2, ParsedSteps
<1>6. ASSUME T # {} PROVE FALSE
  <2>1. T \in SUBSET Nat
    <3>1. 1..L \subseteq Nat
      BY <1>0
    <3> QED BY <3>1
  <2>2. PICK x \in T : \A y \in T : x <= y
    <3> HIDE DEF T
    <3> QED BY <1>6, <2>1, Least
  <2>3. x \in 1..L /\ ~Right(x)
    BY <2>2
  <2> DEFINE a == argv[x] q == Len(Quoted(a)) A == SubSeq(argv, 1, x - 1)
  <2>4. a \in Seq(ArgChars) /\ Passable(a) /\ NoQuote(a) /\ q \in Nat
    BY <1>3, <2>3, QuotedType, LenProperties
  <2>5. CASE x = 1
    <3>1. Line[x] = Quoted(a) /\ A = <<>>
      <4>1. Line[1] = Quoted(argv[1])
        BY LineSteps
      <4>2. SubSeq(argv, 1, 1 - 1) = <<>>
        BY SubSeqEmpty
      <4> QED BY <2>5, <4>1, <4>2
    <3> DEFINE p == 0
    <3>2. q <= C /\ \A k \in 1..q : Cmdln[k] = Quoted(a)[k]
      BY <1>4, <2>3, <3>1
    <3>3. p \in 0..C /\ p + q <= C /\ p + q = q
      <4> HIDE DEF C, q
      <4> QED BY <1>2, <2>4, <3>2
    <3>4. \A k \in 1..q : Cmdln[p + k] = Quoted(a)[k]
      <4>1. \A k \in 1..q : p + k = k
        <5> HIDE DEF q
        <5> QED BY <2>4
      <4> QED BY <3>2, <4>1
    <3>5. Parsed[p] = At(A, <<>>, FALSE)
      BY <1>5, <3>1 DEF Parse0, At
    <3> HIDE DEF p, a, A
    <3>6. Parsed[p + q] = At(A, a, FALSE)
      BY <1>2, <2>4, <3>3, <3>4, <3>5, ReadQuoted
    <3> QED BY <2>3, <3>1, <3>3, <3>6 DEF a, A
  <2>6. CASE x # 1
    <3>0. x \in 2..L /\ x - 1 \in 1..L /\ ~(x <= x - 1)
      <4> HIDE DEF T, L, Right
      <4> QED BY <1>0, <2>3, <2>6
    <3>1. Right(x - 1)
      <4> HIDE DEF Right
      <4> QED BY <2>2, <3>0
    <3> DEFINE m == Len(Line[x - 1]) n == Len(Line[x]) p == m + 1 b == argv[x - 1]
               B == SubSeq(argv, 1, x - 1 - 1)
    <3>2. /\ n = m + 1 + q /\ Line[x][m + 1] = "space"
          /\ \A k \in 1..q : Line[x][m + 1 + k] = Quoted(a)[k]
      BY <3>0, LineParts
    <3>3. m \in Nat /\ n \in Nat /\ n <= C /\ \A k \in 1..n : Cmdln[k] = Line[x][k]
      BY <1>1, <1>4, <2>3, <3>0
    <3>4. Parsed[m] = At(B, b, FALSE) /\ b # <<>>
      BY <1>3, <3>0, <3>1 DEF Passable
    <3>5. Append(B, b) = A
      <4> DEFINE y == x - 1
      <4>1. y \in 1..L /\ 1 \in 1..L /\ y - 1 \in Int /\ \A k \in 1..(y - 1) : k \in 1..L
        <5> HIDE DEF T, L, Right
        <5> QED BY <1>0, <3>0
      <4> HIDE DEF y
      <4>2. SubSeq(argv, 1, y) = SubSeq(argv, 1, y - 1) \o <<argv[y]>>
        BY <4>1, SubSeqRecursiveSecond
      <4> DEFINE Y == SubSeq(argv, 1, y - 1) z == argv[y]
      <4>3. z \in Seq(ArgChars) /\ \A k \in 1..(y - 1) : argv[k] \in Seq(ArgChars)
        BY <1>3, <4>1
      <4>4. Y \in Seq(Seq(ArgChars))
        <5> DEFINE e == y - 1
        <5>1. e \in Int /\ 1 \in Int /\ \A k \in 1..e : argv[k] \in Seq(ArgChars)
          BY <4>1, <4>3
        <5> HIDE DEF e
        <5>2. SubSeq(argv, 1, e) \in Seq(Seq(ArgChars))
          BY <5>1, SubSeqProperties
        <5> QED BY <5>2 DEF e
      <4> HIDE DEF Y, z
      <4>5. Append(Y, z) = Y \o <<z>>
        BY <4>3, <4>4
      <4> QED BY <4>2, <4>5 DEF Y, z, y
    <3> HIDE DEF A, B, b, a, m, n, q, L, C, T, Right
    <3>6. p \in 0..C /\ p \in 1..C /\ p - 1 = m /\ p + q <= C /\ p + q = n /\ p \in 1..n
      BY <1>2, <2>4, <3>2, <3>3
    <3>7. Parsed[p] = At(A, <<>>, FALSE)
      <4>1. Parsed[p] = Scan(Parsed[m], "space")
        BY <1>5, <3>2, <3>3, <3>6
      <4> QED BY <3>4, <3>5, <4>1, ScanSpace
    <3>8. ASSUME NEW k \in 1..q PROVE Cmdln[p + k] = Quoted(a)[k]
      <4>1. p + k \in 1..n
        BY <2>4, <3>2, <3>3
      <4> QED BY <3>2, <3>3, <4>1
    <3> HIDE DEF p
    <3>9. Parsed[p + q] = At(A, a, FALSE)
      BY <1>2, <2>4, <3>6, <3>7, <3>8, ReadQuoted DEF C, q
    <3> QED BY <2>3, <3>6, <3>9 DEF Right, A, a, n
  <2> QED BY <2>5, <2>6
<1> QED BY <1>6

\* The child reads the arguments that its parent has given.
LEMMA ArgvIsRead ==
  ASSUME argv \in Seq(Seq(ArgChars)), argv # <<>>, ~Refused, \A i \in DOMAIN argv : Passable(argv[i])
  PROVE  ChildArgv = argv
<1> DEFINE L == Len(argv) e == L - 1 Y == SubSeq(argv, 1, e) z == argv[L]
<1>0. L \in Nat /\ 1 <= L
  BY EmptySeq
<1>1. L \in 1..L /\ 1 \in 1..L /\ e \in Int /\ 1 \in Int /\ \A k \in 1..e : k \in 1..L
  BY <1>0
<1>2. \A k \in 1..L : argv[k] \in Seq(ArgChars)
  BY ElementOfSeq
<1>3. z # <<>>
  BY <1>1, LenProperties DEF Passable
<1>4. Parsed[Len(Cmdln)] = At(Y, z, FALSE)
  BY <1>1, ReadArgs DEF Cmdln
<1>5. argv = Y \o <<z>>
  BY <1>1, SubSeqRecursiveSecond, SubSeqFull
<1>6. Y \in Seq(Seq(ArgChars)) /\ z \in Seq(ArgChars)
  <2> HIDE DEF e
  <2> QED BY <1>1, <1>2, SubSeqProperties
<1> HIDE DEF Y, z
<1>7. Append(Y, z) = Y \o <<z>>
  BY <1>6
<1> QED BY <1>3, <1>4, <1>5, <1>7 DEF ChildArgv, At


\* A command line that is refused starts no process.
ArgsInv ==
  /\ argv \in Seq(Seq(ArgChars)) /\ argv # <<>>
  /\ sys = "windows" /\ Refused => \A j \in Jobs : step[j] # "create" /\ child[j] # "running"

\* A step that leaves the arguments alone and starts no process.
LEMMA NoStartArgs ==
  ASSUME ArgsInv, sys' = sys, argv' = argv,
         \A j \in Jobs : /\ step'[j] = "create" => step[j] = "create" \/ ~(sys = "windows" /\ Refused)
                         /\ child'[j] = "running" =>
                              child[j] = "running" \/ step[j] = "create" \/ sys = "unix"
  PROVE  ArgsInv'
BY DEF ArgsInv, Refused

LEMMA NextArgs ==
  ASSUME IInv, ArgsInv, [Next]_vars
  PROVE  ArgsInv'
<1> USE DEF IInv, PsInv, PsTypeOK
<1>1. CASE Main
  <2>1. ASSUME NEW t \in Threads, Start(t) PROVE ArgsInv'
    BY <2>1, NoStartArgs, ThreadPerJob DEF Start, Goto
  <2>2. CASE UNCHANGED psVars
    BY <2>2, NoStartArgs DEF psVars
  <2> QED BY <1>1, <2>1, <2>2 DEF Main, Open, Collected, Close, Collect, Joined, Letgo, Join
<1>2. ASSUME NEW i \in Jobs, Worker(i) PROVE ArgsInv'
  <2>1. CASE InheritSet(i)
    BY <2>1, NoStartArgs DEF InheritSet, Goto
  <2>2. CASE CreateProcess(i)
    BY <2>2, NoStartArgs DEF CreateProcess, Goto
  <2>3. CASE Fork(i) \/ PipeCreate(i) \/ InheritReset(i) \/ CloseWr(i)
    BY <2>3, NoStartArgs DEF Fork, PipeCreate, InheritReset, CloseWr, Goto
  <2>4. CASE ExecRefused(i) \/ CreateFails(i) \/ ForkFails(i)
    BY <2>4, NoStartArgs DEF ExecRefused, CreateFails, ForkFails, NoProcess, Goto
  <2>5. CASE ReadSome(i) \/ ReadEof(i) \/ WaitUnix(i) \/ WaitWindows(i)
    BY <2>5, NoStartArgs DEF ReadSome, ReadEof, WaitUnix, WaitWindows, Waited, Goto
  <2>6. CASE Posts(i) \/ Returns(i)
    BY <2>6, NoStartArgs DEF Posts, Returns, Goto
  <2> QED BY <1>2, <2>1, <2>2, <2>3, <2>4, <2>5, <2>6 DEF Worker, Runs, Started
<1>3. ASSUME NEW i \in Jobs, Child(i) \/ Kill(i) PROVE ArgsInv'
  <2>1. CASE ExecOk(i)
    <3>1. sys = "unix"
      BY <2>1 DEF ExecOk, JobInv
    <3> QED BY <2>1, <3>1, NoStartArgs DEF ExecOk
  <2>2. CASE ~ExecOk(i)
    BY <1>3, <2>2, NoStartArgs DEF Child, Kill, ExecFails, ChildWrites, ChildExits, PsKill
  <2> QED BY <2>1, <2>2
<1>4. CASE Time
  BY <1>4, NoStartArgs DEF Time, psVars
<1>5. CASE UNCHANGED vars
  BY <1>5, NoStartArgs DEF vars, psVars
<1> QED BY <1>1, <1>2, <1>3, <1>4, <1>5 DEF Next

LEMMA ArgsInvariance == Spec => []ArgsInv
<1>1. Init => ArgsInv
  BY ArgsAssumption DEF Init, PsInit, ArgsInv
<1> QED BY <1>1, NextArgs, Invariance, PTL DEF Spec

\* A child's standard descriptors are those that its job has asked for, and a handle can be
\* inherited only while its own job creates a process (ffps_exec_info(), _ffps_exec_cmdln()).
\* On Windows it reads from its command line the arguments that its parent has given, however
\* many they are and whatever spaces and backslashes they have (_ffargv_to_cmdln()), but for
\* the two kinds that cannot be passed.
THEOREM ChildAsRequested == Spec => []ChildIsAsRequested
<1>1. ASSUME IInv, ArgsInv PROVE ChildIsAsRequested
  <2>1. StdioIsRequested /\ InheritIsShort
    BY <1>1 DEF StdioIsRequested, InheritIsShort, IInv, PsInv, PsTypeOK, JobInv
  <2>2. ArgsArrive
    <3> SUFFICES ASSUME sys = "windows", \A i \in DOMAIN argv : Passable(argv[i]),
                        NEW j \in Jobs, child[j] = "running"
                 PROVE  ChildArgv = argv
      BY DEF ArgsArrive
    <3> QED BY <1>1, ArgvIsRead DEF ArgsInv
  <2> QED BY <2>1, <2>2 DEF ChildIsAsRequested
<1> QED BY <1>1, Invariance, ArgsInvariance, PTL

=============================================================================
