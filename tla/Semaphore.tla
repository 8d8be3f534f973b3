----------------------------- MODULE Semaphore -----------------------------
(***************************************************************************)
(* An unnamed semaphore (ffsys/semaphore.h) and the thread that waits on   *)
(* it, with the arithmetic of deadlines (also of ffsys/thread.h).          *)
(***************************************************************************)
EXTENDS Integers

CONSTANTS
  Second,   \* ticks of the clock in a second: nanoseconds in the program
  SemTimes, \* time_ms of ffsem_wait(), in ticks
  MaxPosts  \* how often it is posted

ASSUME ClockAssumption == Second \in Nat \ {0} /\ SemTimes \subseteq Int

VARIABLES
  now,    \* the clock
  value,  \* the semaphore's value; Closed
  waits,  \* what the thread waits for: "none", "sem", a thread
  limit,  \* the time limit it has given
  since,  \* when it has begun
  ts,     \* the deadline: seconds and nanoseconds
  result  \* of the last wait: "none", "ok", "timeout", "error"

semVars == <<now, value, waits, limit, since, ts, result>>

Closed == -1
Forever == -1

SemInit ==
  /\ now = Second - 1 /\ value = Closed
  /\ waits = "none" /\ limit = 0 /\ since = 0 /\ result = "none"
  /\ ts = [sec |-> 0, nsec |-> 0]

SemTypeOK ==
  /\ value \in Closed..MaxPosts
  /\ result \in {"none", "ok", "timeout", "error"}
  /\ ts.sec \in Nat /\ ts.nsec \in Nat

-----------------------------------------------------------------------------
\* clock_gettime(), and a time limit added to it.  ffsem_wait() does not carry
\* nanoseconds into seconds, thread.h does (the mutant does not).
Now == [sec |-> now \div Second, nsec |-> now % Second]
SemDeadline(ms) == [sec |-> Now.sec + ms \div Second, nsec |-> Now.nsec + (ms % Second)]

Carried(t) ==
  IF t.nsec >= Second THEN [sec |-> t.sec + 1, nsec |-> t.nsec - Second] ELSE t
AddmsCut(ms) == [sec |-> Now.sec + ms \div Second, nsec |-> (Now.nsec + ms) % Second]
Addms(ms) == Carried(SemDeadline(ms))

Due == now >= ts.sec * Second + ts.nsec

Begin(what, ms, deadline) ==
  /\ waits = "none"
  /\ waits' = what /\ limit' = ms /\ since' = now
  /\ ts' = IF ms > 0 THEN deadline ELSE ts
  /\ result' = "none"

End(r) == waits' = "none" /\ result' = r /\ UNCHANGED <<now, limit, since, ts>>

\* Time is only looked at by a wait that has a limit.
Tick ==
  /\ waits # "none" /\ limit > 0 /\ now < since + limit
  /\ now' = now + 1
  /\ UNCHANGED <<value, waits, limit, since, ts, result>>

-----------------------------------------------------------------------------
SemOpen == value = Closed /\ value' = 0 /\ UNCHANGED <<now, waits, limit, since, ts, result>>
SemClose == value' = Closed /\ UNCHANGED <<now, waits, limit, since, ts, result>>
SemPost == value' = value + 1 /\ UNCHANGED <<now, waits, limit, since, ts, result>>

SemBegin(ms) == Begin("sem", ms, SemDeadline(ms)) /\ UNCHANGED <<now, value>>
SemBeginWindows(ms) == Begin("sem", ms, Addms(ms)) /\ UNCHANGED <<now, value>>

\* sem_trywait(), sem_wait(), sem_timedwait()
SemTaken == waits = "sem" /\ value > 0 /\ value' = value - 1 /\ End("ok")
SemTryFails == waits = "sem" /\ limit = 0 /\ value = 0 /\ End("timeout") /\ UNCHANGED value
SemTimeout ==
  /\ waits = "sem" /\ limit > 0 /\ value = 0 /\ ts.nsec < Second /\ Due
  /\ End("timeout") /\ UNCHANGED value
SemInvalid ==
  /\ waits = "sem" /\ limit > 0 /\ value = 0 /\ ts.nsec >= Second
  /\ End("error") /\ UNCHANGED value

\* EINTR: the wait is repeated with the same deadline (the mutant gives up).
InterruptedEnds == End("ok")
Interrupted == UNCHANGED <<now, waits, limit, since, ts, result>>
SemInterrupted == waits = "sem" /\ limit # 0 /\ Interrupted /\ UNCHANGED value

SemWait == SemTaken \/ SemTryFails \/ SemTimeout \/ SemInvalid \/ SemInterrupted

\* WaitForSingleObject()
SemWaitWindows == SemTaken \/ SemTryFails \/ SemTimeout
=============================================================================
