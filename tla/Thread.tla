------------------------------- MODULE Thread -------------------------------
(***************************************************************************)
(* Threads (ffsys/thread.h): creation, join with and without a time limit, *)
(* detach.  The waiting thread and its deadline are those of Semaphore.    *)
(***************************************************************************)
EXTENDS Semaphore

CONSTANTS
  Threads,
  JoinTimes \* timeout_ms of ffthread_join()

ASSUME ThreadAssumption ==
  "none" \notin Threads /\ "sem" \notin Threads /\ JoinTimes \subseteq Int

VARIABLES
  thread, \* "none", "runs", "exited", "joined", "detached", "freed"
  joined  \* the threads that ffthread_join() has reported

threadVars == <<thread, joined>>

ThreadInit == thread = [t \in Threads |-> "none"] /\ joined = {}
ThreadTypeOK ==
  /\ thread \in [Threads -> {"none", "runs", "exited", "joined", "detached", "freed"}]
  /\ joined \subseteq Threads

Becomes(t, s) == thread' = [thread EXCEPT ![t] = s]

\* ffthread_create()
Create(t) ==
  /\ thread[t] = "none" /\ Becomes(t, "runs")
  /\ UNCHANGED <<semVars, joined>>

\* The thread's function returns.
Exit(t) ==
  /\ thread[t] \in {"runs", "detached"}
  /\ Becomes(t, IF thread[t] = "runs" THEN "exited" ELSE "freed")
  /\ UNCHANGED <<semVars, joined>>

JoinBegin(t, ms) ==
  /\ thread[t] \in {"runs", "exited"}
  /\ Begin(t, ms, Addms(ms))
  /\ UNCHANGED <<now, value, thread, joined>>

\* pthread_join(), pthread_tryjoin_np(), pthread_timedjoin_np(); the mutant takes EBUSY
\* for success.
JoinableAny(t) == TRUE
Joinable(t) == thread[t] = "exited"

JoinEnds(t) ==
  /\ waits = t /\ Joinable(t)
  /\ Becomes(t, "joined") /\ joined' = joined \cup {t}
  /\ End("ok") /\ UNCHANGED value

JoinTimeout(t) ==
  /\ waits = t /\ ~Joinable(t)
  /\ limit = 0 \/ (limit > 0 /\ Due)
  /\ End("timeout") /\ UNCHANGED <<value, thread, joined>>

Detach(t) ==
  /\ waits = "none" /\ thread[t] \in {"runs", "exited"}
  /\ Becomes(t, IF thread[t] = "runs" THEN "detached" ELSE "freed")
  /\ UNCHANGED <<semVars, joined>>
=============================================================================
