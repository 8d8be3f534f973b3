-------------------------------- MODULE Jobs --------------------------------
(***************************************************************************)
(* A program that runs child processes in parallel: a thread per job       *)
(* starts a child, reads its output, waits for it, posts a semaphore and   *)
(* returns; the main thread takes the semaphore once for every job, joins  *)
(* or detaches the threads and closes the semaphore.                       *)
(***************************************************************************)
EXTENDS ChildProcess, Thread

CONSTANT LastTime \* no wait begins whose limit ends later

\* A thread per job, each posts once.
ASSUME ThreadPerJob ==
  Threads = Jobs /\ MaxPosts \in Nat /\ Cardinality(Jobs) <= MaxPosts

VARIABLES
  main,  \* where the main thread is: "open", "create", "collect", "release", "end"
  taken  \* how often it has taken the semaphore

vars == <<psVars, semVars, threadVars, main, taken>>

Init == PsInit /\ SemInit /\ ThreadInit /\ main = "open" /\ taken = 0

Times(S) == {ms \in S : ms > 0 => now + ms <= LastTime}
Released == \A t \in Threads : thread[t] \in {"joined", "detached", "freed"}

\* The main thread.
Open == main = "open" /\ SemOpen /\ main' = "create" /\ UNCHANGED <<psVars, threadVars, taken>>
Start(t) ==
  /\ main = "create" /\ Create(t) /\ Goto(t, "pipe")
  /\ main' = IF \A u \in Threads \ {t} : thread[u] # "none" THEN "collect" ELSE main
  /\ UNCHANGED <<sys, argv, wr, inherit, child, std, extra, buf, wrote, got, ended, code, taken>>
Collect(ms) ==
  /\ main = "collect" /\ IF sys = "windows" THEN SemBeginWindows(ms) ELSE SemBegin(ms)
  /\ UNCHANGED <<psVars, threadVars, main, taken>>
Collected ==
  /\ IF sys = "windows" THEN SemWaitWindows ELSE SemWait
  /\ taken' = taken + (IF result' = "ok" THEN 1 ELSE 0)
  /\ main' = IF taken' = Cardinality(Jobs) THEN "release" ELSE main
  /\ UNCHANGED <<psVars, threadVars>>
Join(t, ms) == main = "release" /\ JoinBegin(t, ms) /\ UNCHANGED <<psVars, main, taken>>
Joined(t) == (JoinEnds(t) \/ JoinTimeout(t)) /\ UNCHANGED <<psVars, main, taken>>
Letgo(t) == main = "release" /\ Detach(t) /\ UNCHANGED <<psVars, main, taken>>
Close ==
  /\ main = "release" /\ Released
  /\ SemClose /\ main' = "end" /\ UNCHANGED <<psVars, threadVars, taken>>

Main ==
  \/ Open \/ Collected \/ Close
  \/ \E ms \in Times(SemTimes) : Collect(ms)
  \/ \E t \in Threads :
       Start(t) \/ Joined(t) \/ Letgo(t) \/ \E ms \in Times(JoinTimes) : Join(t, ms)

\* A job's thread.
Started(j) ==
  \/ PipeCreate(j) \/ Fork(j) \/ InheritSet(j) \/ CreateProcess(j) \/ InheritReset(j)
  \/ ExecRefused(j) \/ CreateFails(j) \/ ForkFails(j) \/ CloseWr(j)
Runs(j) == Started(j) \/ ReadSome(j) \/ ReadEof(j) \/ WaitUnix(j) \/ WaitWindows(j)
Posts(j) ==
  /\ step[j] = "post" /\ SemPost /\ Goto(j, "exit")
  /\ UNCHANGED <<sys, argv, wr, inherit, child, std, extra, buf, wrote, got, ended, code>>
  /\ UNCHANGED threadVars
Returns(j) ==
  /\ step[j] = "exit" /\ Exit(j) /\ Goto(j, "ended")
  /\ UNCHANGED <<sys, argv, wr, inherit, child, std, extra, buf, wrote, got, ended, code>>
Worker(j) ==
  /\ \/ Runs(j) /\ UNCHANGED <<semVars, threadVars>>
     \/ Posts(j) \/ Returns(j)
  /\ UNCHANGED <<main, taken>>

\* A child process, and the user who kills it.
Child(j) ==
  /\ ExecOk(j) \/ ExecFails(j) \/ ChildWrites(j) \/ \E e \in Exits : ChildExits(j, e)
  /\ UNCHANGED <<semVars, threadVars, main, taken>>
Kill(j) == PsKill(j) /\ UNCHANGED <<semVars, threadVars, main, taken>>
Time == Tick /\ UNCHANGED <<psVars, threadVars, main, taken>>

Next == Main \/ Time \/ \E j \in Jobs : Worker(j) \/ Child(j) \/ Kill(j)

Spec == Init /\ [][Next]_vars

\* The threads go on, children end by themselves, and time passes.
Fairness ==
  /\ WF_vars(Main) /\ WF_vars(Time)
  /\ \A j \in Jobs : WF_vars(Worker(j)) /\ WF_vars(Child(j))
FairSpec == Spec /\ Fairness

-----------------------------------------------------------------------------
TypeOK ==
  /\ PsTypeOK /\ SemTypeOK /\ ThreadTypeOK
  /\ main \in {"open", "create", "collect", "release", "end"} /\ taken \in 0..Cardinality(Jobs)

\* A wait says "timeout" only after all of its time has passed, wherever the second ends.
WaitTells == result = "timeout" /\ limit > 0 => now >= since + limit

\* A wait ends because it got what it waited for or its time is over ("time_ms: max time to
\* wait"): it does not fail.
WaitNeverFails == result # "error"

\* When the semaphore has been taken once for every job, each job's child was waited for or
\* never started: EINTR and time limits do not make up a unit.
TakenMeansDone ==
  taken = Cardinality(Jobs) => \A j \in Jobs : child[j] \in {"none", "gone"}

\* ffthread_join() succeeds only for a thread whose function has returned.
JoinIsTrue == \A t \in joined : step[t] = "ended"

\* A child has the standard descriptors and the arguments that it was given, and on Windows a
\* pipe can be inherited by another job's child only while its own job creates a process.
\* (On UNIX a child keeps every write end that was open at fork() as long as it lives.)
ChildIsAsRequested == StdioIsRequested /\ ArgsArrive /\ InheritIsShort

\* What was read and what ffps_wait() reports is the job's own child's.
OutcomeIsOfChild == EofMeansAll /\ CodeIsOfChild

\* Waits and joins report only what has happened.
WaitsAreTrue == WaitTells /\ TakenMeansDone /\ JoinIsTrue

\* The program comes to its end: no job hangs because another job's child holds its pipe.
JobsEnd == <>(main = "end")
=============================================================================
