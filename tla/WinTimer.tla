------------------------------ MODULE WinTimer ------------------------------
(***************************************************************************)
(* The Windows timer of ffsys/timer.h.  A thread of its own arms a         *)
(* waitable timer and sleeps in an alertable state; when the timer is due  *)
(* the system queues an APC to that thread, which posts an event to the    *)
(* kernel queue.  The user's thread sends commands (start, stop, exit)     *)
(* through tmr->ctl and the auto-reset event evt, and waits for            *)
(* tmr->result on the auto-reset event evt_result.                         *)
(*                                                                         *)
(* The system is external: a waitable timer has one APC, which setting,    *)
(* cancelling or closing the timer takes back; a positive due time is      *)
(* absolute and lies in the distant past, a negative one is relative.      *)
(* SetEvent() and waiting on a valid handle do not fail; everything else   *)
(* may.                                                                    *)
(***************************************************************************)
EXTENDS Integers

CONSTANTS
  Queues,    \* kernel queues the user may name
  Datas,     \* user data
  Periods,   \* period_ms: negative for one-shot
  MaxPeriod, \* bound on their magnitude
  Patient    \* the user stops a timer before he starts it again

Magnitude(p) == IF p < 0 THEN -p ELSE p

ASSUME WinTimerAssumption ==
  /\ Queues # {} /\ Datas # {}
  /\ Periods \subseteq Int
  /\ MaxPeriod \in Nat
  /\ \A p \in Periods : Magnitude(p) <= MaxPeriod
  /\ Patient \in BOOLEAN

VARIABLES
  object,  \* the _fftimer object is allocated
  handles, \* which of htmr, evt, evt_result, thd are open
  kq, data, period, \* fields set by fftimer_start()
  ctl, result,
  evt, evtResult,   \* the events are signalled
  user,    \* where the user's thread is
  thread,  \* where the timer thread is
  cmd,     \* the timer thread's copy of ctl
  status,  \* the timer thread's r
  post,    \* the timer thread's post: the queue it has read first
  armed,   \* the waitable timer is set
  due,     \* milliseconds until it is due
  repeat,  \* its period, 0 for none
  apc,     \* its APC is queued
  sent,    \* the event that was posted last: its queue and data
  start,   \* not in the program: the arguments with which it was set
  age,     \* not in the program: time since it was set, up to MaxPeriod
  served,  \* not in the program: the last command has been executed
  quiet    \* not in the program: the last command that succeeded was not a start

objVars == <<object, handles>>
argVars == <<kq, data, period>>
cmdVars == <<ctl, result, evt, evtResult>>
thdVars == <<thread, cmd, status, post>>
tmrVars == <<armed, due, repeat, apc, start, age>>
vars == <<objVars, argVars, cmdVars, user, thdVars, tmrVars, sent, served, quiet>>

Handles == {"htmr", "evt", "evt_result", "thd"}
Commands == {"exit", "start", "stop"}
CreateSteps == {"create_htmr", "create_evt", "create_evt_result", "create_thd"}
CloseSteps == {"close_htmr", "close_ctl", "close_signal", "join", "close_rest"}
CallSteps == {"set_data", "set_period", "set_ctl_start", "set_ctl_stop",
              "signal_start", "signal_stop", "await", "collect"}
UserSteps == {"idle"} \cup CreateSteps \cup CloseSteps \cup CallSteps
ThreadSteps == {"none", "wait", "fire", "post", "read", "execute", "report", "signal", "exited"}

AnyQueue == CHOOSE q \in Queues : TRUE
AnyData == CHOOSE d \in Datas : TRUE

\* One type invariant.
TypeOK ==
  /\ object \in BOOLEAN
  /\ handles \subseteq Handles
  /\ kq \in Queues /\ data \in Datas /\ period \in Periods \cup {0}
  /\ ctl \in Commands /\ result \in {"ok", "error"}
  /\ evt \in BOOLEAN /\ evtResult \in BOOLEAN
  /\ user \in UserSteps
  /\ thread \in ThreadSteps
  /\ cmd \in Commands /\ status \in {"ok", "error"} /\ post \in Queues
  /\ armed \in BOOLEAN
  /\ due \in 0..MaxPeriod /\ repeat \in 0..MaxPeriod
  /\ apc \in BOOLEAN
  /\ sent \in [kq : Queues, data : Datas]
  /\ start \in [kq : Queues, data : Datas, period : Periods \cup {0}]
  /\ age \in 0..MaxPeriod
  /\ served \in BOOLEAN /\ quiet \in BOOLEAN

Init ==
  /\ object = FALSE /\ handles = {}
  /\ kq = AnyQueue /\ data = AnyData /\ period = 0
  /\ ctl = "exit" /\ result = "ok" /\ evt = FALSE /\ evtResult = FALSE
  /\ user = "idle"
  /\ thread = "none" /\ cmd = "exit" /\ status = "ok" /\ post = AnyQueue
  /\ armed = FALSE /\ due = 0 /\ repeat = 0 /\ apc = FALSE
  /\ sent = [kq |-> AnyQueue, data |-> AnyData]
  /\ start = [kq |-> AnyQueue, data |-> AnyData, period |-> 0] /\ age = 0
  /\ served = TRUE /\ quiet = TRUE

-----------------------------------------------------------------------------
(* fftimer_create() *)

\* ffmem_new() zeroes the object: ctl is 0, which is "exit".
Create ==
  /\ user = "idle" /\ ~object
  /\ object' = TRUE
  /\ kq' = AnyQueue /\ data' = AnyData /\ period' = 0
  /\ ctl' = "exit" /\ result' = "ok" /\ evt' = FALSE /\ evtResult' = FALSE
  /\ user' = "create_htmr"
  /\ served' = TRUE /\ quiet' = TRUE
  /\ UNCHANGED <<handles, thdVars, tmrVars, sent>>

\* A handle is created, and the next one is next; or everything is closed.
CreateStep(at, h, next) ==
  /\ user = at
  /\ \/ handles' = handles \cup {h} /\ user' = next
     \/ UNCHANGED handles /\ user' = "close_htmr"
  /\ UNCHANGED <<object, argVars, cmdVars, tmrVars, sent, served, quiet>>

CreateTimer == CreateStep("create_htmr", "htmr", "create_evt") /\ UNCHANGED thdVars
CreateEvt == CreateStep("create_evt", "evt", "create_evt_result") /\ UNCHANGED thdVars
CreateEvtResult == CreateStep("create_evt_result", "evt_result", "create_thd") /\ UNCHANGED thdVars

CreateThread ==
  /\ CreateStep("create_thd", "thd", "idle")
  /\ thread' = IF "thd" \in handles' THEN "wait" ELSE thread
  /\ UNCHANGED <<cmd, status, post>>

-----------------------------------------------------------------------------
(* fftimer_close() *)

Close ==
  /\ user = "idle" /\ object
  /\ user' = "close_htmr"
  /\ UNCHANGED <<objVars, argVars, cmdVars, thdVars, tmrVars, sent, served, quiet>>

\* CloseHandle(tmr->htmr) takes the APC back.
CloseTimer ==
  /\ user = "close_htmr"
  /\ handles' = handles \ {"htmr"}
  /\ armed' = FALSE /\ apc' = FALSE
  /\ user' = IF "thd" \in handles THEN "close_ctl" ELSE "close_rest"
  /\ UNCHANGED <<object, argVars, cmdVars, thdVars, due, repeat, start, age, sent, served, quiet>>

\* _fftimer_cmd(tmr, _FFTIMER_EXIT) does not wait for a result.
CloseCtl ==
  /\ user = "close_ctl"
  /\ ctl' = "exit"
  /\ user' = "close_signal"
  /\ UNCHANGED <<objVars, argVars, result, evt, evtResult, thdVars, tmrVars, sent, served, quiet>>

CloseSignal ==
  /\ user = "close_signal"
  /\ evt' = TRUE
  /\ user' = "join"
  /\ UNCHANGED <<objVars, argVars, ctl, result, evtResult, thdVars, tmrVars, sent, served, quiet>>

\* ffthread_join() waits for the thread; the mutant does not.
ThreadEndedAlways == TRUE
ThreadEnded == thread = "exited"

Join ==
  /\ user = "join" /\ ThreadEnded
  /\ handles' = handles \ {"thd"}
  /\ user' = "close_rest"
  /\ UNCHANGED <<object, argVars, cmdVars, thdVars, tmrVars, sent, served, quiet>>

\* Close the events and free the object.
CloseRest ==
  /\ user = "close_rest"
  /\ handles' = handles \ {"evt", "evt_result"}
  /\ object' = FALSE
  /\ user' = "idle"
  /\ UNCHANGED <<argVars, cmdVars, thdVars, tmrVars, sent, served, quiet>>

-----------------------------------------------------------------------------
(* fftimer_start(), fftimer_stop() and _fftimer_cmd() *)

\* A patient user starts a timer that is not running.
StartQueue(q) ==
  /\ user = "idle" /\ object
  /\ Patient => quiet
  /\ kq' = q
  /\ user' = "set_data"
  /\ quiet' = FALSE
  /\ UNCHANGED <<objVars, data, period, cmdVars, thdVars, tmrVars, sent, served>>

StartData(d) ==
  /\ user = "set_data"
  /\ data' = d
  /\ user' = "set_period"
  /\ UNCHANGED <<objVars, kq, period, cmdVars, thdVars, tmrVars, sent, served, quiet>>

StartPeriod(p) ==
  /\ user = "set_period"
  /\ period' = p
  /\ user' = "set_ctl_start"
  /\ UNCHANGED <<objVars, kq, data, cmdVars, thdVars, tmrVars, sent, served, quiet>>

Stop ==
  /\ user = "idle" /\ object
  /\ user' = "set_ctl_stop"
  /\ UNCHANGED <<objVars, argVars, cmdVars, thdVars, tmrVars, sent, served, quiet>>

SetCtl(at, c, next) ==
  /\ user = at
  /\ ctl' = c
  /\ served' = FALSE
  /\ user' = next
  /\ UNCHANGED <<objVars, argVars, result, evt, evtResult, thdVars, tmrVars, sent, quiet>>

\* Both events are auto-reset: a wait that returns resets the event.  The
\* mutant leaves evt_result signalled, so that the next command takes the
\* result of this one.
ResetManual(e) == e
Reset(e) == FALSE

Signal(at) ==
  /\ user = at
  /\ evt' = TRUE
  /\ user' = "await"
  /\ UNCHANGED <<objVars, argVars, ctl, result, evtResult, thdVars, tmrVars, sent, served, quiet>>

Await ==
  /\ user = "await" /\ evtResult
  /\ evtResult' = Reset(evtResult)
  /\ user' = "collect"
  /\ UNCHANGED <<objVars, argVars, ctl, result, evt, thdVars, tmrVars, sent, served, quiet>>

Collect ==
  /\ user = "collect"
  /\ user' = "idle"
  /\ quiet' = (quiet \/ (ctl = "stop" /\ result = "ok"))
  /\ UNCHANGED <<objVars, argVars, cmdVars, thdVars, tmrVars, sent, served>>

-----------------------------------------------------------------------------
(* The waitable timer *)

\* Time passes until the timer is due.
Tick ==
  /\ armed => due > 0
  /\ due' = IF armed THEN due - 1 ELSE due
  /\ age' = IF age < MaxPeriod THEN age + 1 ELSE age
  /\ UNCHANGED <<objVars, argVars, cmdVars, user, thdVars, armed, repeat, apc, start, sent, served, quiet>>

\* It is due: queue the APC.
Expire ==
  /\ armed /\ due = 0
  /\ apc' = TRUE
  /\ armed' = (repeat > 0)
  /\ due' = repeat
  /\ UNCHANGED <<objVars, argVars, cmdVars, user, thdVars, repeat, start, age, sent, served, quiet>>

-----------------------------------------------------------------------------
(* _fftimer_thread() *)

\* WaitForSingleObjectEx() runs the APC; or finds evt signalled.
WakeApcNot == FALSE \* mutant: the wait is not alertable

WakeApc ==
  /\ thread = "wait" /\ apc
  /\ apc' = FALSE
  /\ thread' = "fire"
  /\ UNCHANGED <<objVars, argVars, cmdVars, user, cmd, status, post, armed, due, repeat, start, age, sent, served, quiet>>

WakeEvt ==
  /\ thread = "wait" /\ evt
  /\ evt' = FALSE
  /\ thread' = "read"
  /\ UNCHANGED <<objVars, argVars, ctl, result, evtResult, user, cmd, status, post, tmrVars, sent, served, quiet>>

\* _fftimer_onfire(): ffkq_post_attach() returns the queue it is given ...
Fire ==
  /\ thread = "fire"
  /\ post' = kq
  /\ thread' = "post"
  /\ UNCHANGED <<objVars, argVars, cmdVars, user, cmd, status, tmrVars, sent, served, quiet>>

\* ... and ffkq_post() is given data, read again, and posts it there.
PostEvent ==
  /\ thread = "post"
  /\ sent' = [kq |-> post, data |-> data]
  /\ thread' = "wait"
  /\ UNCHANGED <<objVars, argVars, cmdVars, user, cmd, status, post, tmrVars, served, quiet>>

ReadCtl ==
  /\ thread = "read"
  /\ cmd' = ctl
  /\ thread' = IF ctl = "exit" THEN "exited" ELSE "execute"
  /\ UNCHANGED <<objVars, argVars, cmdVars, user, status, post, tmrVars, sent, served, quiet>>

\* due_ns100 is relative when it is negative, so when the period is positive;
\* a positive one is absolute, and passed long ago.  The mutant leaves out
\* the sign.
DueAtOnce(p) == 0
Due(p) == IF p > 0 THEN p ELSE 0

\* period_ms of SetWaitableTimer(): 0 for a one-shot timer.  The mutant gives it
\* one.
RepeatAlways(p) == Magnitude(p)
Repeat(p) == IF p >= 0 THEN p ELSE 0

\* SetWaitableTimer()
ExecuteStart ==
  /\ thread = "execute" /\ cmd = "start"
  /\ \/ /\ armed' = TRUE /\ apc' = FALSE
        /\ due' = Due(period) /\ repeat' = Repeat(period)
        /\ start' = [kq |-> kq, data |-> data, period |-> period]
        /\ age' = 0
        /\ status' = "ok"
     \/ /\ status' = "error"
        /\ UNCHANGED tmrVars
  /\ served' = TRUE
  /\ thread' = "report"
  /\ UNCHANGED <<objVars, argVars, cmdVars, user, cmd, post, sent, quiet>>

\* CancelWaitableTimer() takes the APC back; the mutant does not stop the timer.
CancelledNot(a) == a
Cancelled(a) == FALSE

ExecuteStop ==
  /\ thread = "execute" /\ cmd = "stop"
  /\ \/ /\ armed' = Cancelled(armed) /\ apc' = Cancelled(apc)
        /\ status' = "ok"
     \/ /\ status' = "error"
        /\ UNCHANGED <<armed, apc>>
  /\ served' = TRUE
  /\ thread' = "report"
  /\ UNCHANGED <<objVars, argVars, cmdVars, user, cmd, post, due, repeat, start, age, sent, quiet>>

Report ==
  /\ thread = "report"
  /\ result' = status
  /\ thread' = "signal"
  /\ UNCHANGED <<objVars, argVars, ctl, evt, evtResult, user, cmd, status, post, tmrVars, sent, served, quiet>>

SignalResultNot == \* mutant: the user's thread is not woken
  /\ thread = "signal"
  /\ thread' = "wait"
  /\ UNCHANGED <<objVars, argVars, cmdVars, user, cmd, status, post, tmrVars, sent, served, quiet>>

SignalResult ==
  /\ thread = "signal"
  /\ evtResult' = TRUE
  /\ thread' = "wait"
  /\ UNCHANGED <<objVars, argVars, ctl, result, evt, user, cmd, status, post, tmrVars, sent, served, quiet>>

-----------------------------------------------------------------------------
UserCall ==
  \/ Create
  \/ Close
  \/ Stop
  \/ \E q \in Queues : StartQueue(q)

UserStep ==
  \/ CreateTimer \/ CreateEvt \/ CreateEvtResult \/ CreateThread
  \/ CloseTimer \/ CloseCtl \/ CloseSignal \/ Join \/ CloseRest
  \/ \E d \in Datas : StartData(d)
  \/ \E p \in Periods : StartPeriod(p)
  \/ SetCtl("set_ctl_start", "start", "signal_start")
  \/ SetCtl("set_ctl_stop", "stop", "signal_stop")
  \/ Signal("signal_start") \/ Signal("signal_stop")
  \/ Await \/ Collect

ThreadStep ==
  \/ WakeApc \/ WakeEvt
  \/ Fire \/ PostEvent
  \/ ReadCtl \/ ExecuteStart \/ ExecuteStop \/ Report \/ SignalResult

Next == UserCall \/ UserStep \/ ThreadStep \/ Tick \/ Expire

Spec == Init /\ [][Next]_vars

\* Both threads run on inside the library, time passes and the system queues
\* the APC of a timer that is due.  A wait on an event that is signalled ends,
\* whatever APCs keep coming.
Fairness ==
  /\ WF_vars(UserStep)
  /\ WF_vars(ThreadStep)
  /\ SF_vars(WakeEvt)
  /\ WF_vars(Tick) /\ WF_vars(Expire)

FairSpec == Spec /\ Fairness

-----------------------------------------------------------------------------
(* Properties *)

\* When there is no timer object (it was closed, or creating it failed half way)
\* no handle is open and the timer thread has ended (timer.h:140-178): it cannot
\* touch the object that was freed.
NothingLeft == ~object => handles = {} /\ thread \in {"none", "exited"} /\ ~armed

\* What fftimer_start() and fftimer_stop() return is the outcome of the command
\* they sent, not of an earlier one (timer.h:120-138).
ResultIsOfCommand == user = "collect" => served /\ result = status

\* After fftimer_stop() has succeeded the timer thread posts nothing more, though
\* the timer may have been due, or its APC queued, when the command came
\* (timer.h:100-103).
StopSilences == quiet => thread \notin {"fire", "post"} /\ ~armed /\ ~apc

\* An event goes to the queue and carries the data of the fftimer_start() that
\* set the timer, though _fftimer_onfire() reads the object's fields one by one
\* (timer.h:48-56), if the user stops the timer before he starts it again.
PostIsOfStart ==
  [][thread = "post" /\ thread' = "wait" =>
       sent' = [kq |-> start.kq, data |-> start.data]]_vars

\* A timer with a period is due no earlier than one period after it was set
\* (timer.h:93).  A negative period is excepted, against the documentation: "<0:
\* fire just once after -period_ms interval" (timer.h:333; test/timer.c:55).  Its
\* due time comes out positive, which is absolute and passed, so that the one
\* event comes at once.
NeverEarly == armed /\ due = 0 /\ start.period >= 0 => age >= start.period

\* "<0: fire just once" (timer.h:333): when the event of a one-shot timer is on its
\* way to the queue, the timer is not set and no second one follows (timer.h:94).
FiresOnce == start.period <= 0 /\ (apc \/ thread \in {"fire", "post"}) => ~armed

\* A timer fires neither before its period is over, nor after it was stopped, nor
\* twice when it was to fire once.
FiresInTime == StopSilences /\ NeverEarly /\ FiresOnce

\* Every command is answered and every close returns: neither thread waits for
\* the other forever (timer.h:77, 131, 148).
CallsReturn == user # "idle" ~> user = "idle"

\* A timer that was set posts its event, unless the user does something about it:
\* "sleeps in an alertable state to process timer events" (timer.h:18).
TimerFires == armed /\ user = "idle" ~> thread = "post" \/ user # "idle"

\* Neither thread waits for ever: commands are answered and timers fire.
ThreadsGoOn == CallsReturn /\ TimerFires

-----------------------------------------------------------------------------
(* The inductive invariant *)

Sleeping == {"wait", "fire", "post"} \* nothing of a command in hand
Gone == {"none", "exited"}
Silent == ~armed /\ ~apc /\ thread \notin {"fire", "post"}

\* Where a command is on its way from the user to the timer thread and back:
\* both events are reset and the thread sleeps, except while the user waits.
Handover ==
  /\ user \notin {"await", "join"} => ~evt /\ ~evtResult /\ thread \in Sleeping \cup Gone
  /\ user = "await" =>
       \/ ~served /\ evt /\ ~evtResult /\ thread \in Sleeping
       \/ ~served /\ ~evt /\ ~evtResult /\ thread \in {"read", "execute"}
       \/ served /\ ~evt /\ ~evtResult /\ thread = "report"
       \/ served /\ ~evt /\ ~evtResult /\ thread = "signal" /\ result = status
       \/ served /\ ~evt /\ evtResult /\ thread \in Sleeping /\ result = status
  /\ user = "collect" => served /\ result = status
  /\ user = "join" =>
       /\ ctl = "exit" /\ ~evtResult
       /\ \/ evt /\ thread \in Sleeping
          \/ ~evt /\ thread \in {"read", "exited"}
  /\ user \in {"signal_start", "signal_stop"} => ~served
  /\ user = "signal_start" => ctl = "start"
  /\ user = "signal_stop" => ctl = "stop"
  /\ user \in {"await", "collect"} => ctl \in {"start", "stop"}
  /\ user = "close_signal" => ctl = "exit"
  /\ thread = "execute" => cmd = ctl

\* Which handles are open, whether the thread runs and the timer may be set.
Lifetime ==
  /\ user # "idle" => object
  /\ ~object => handles = {}
  /\ user \in {"idle"} \cup CallSteps /\ object => handles = Handles
  /\ user = "create_htmr" => handles = {}
  /\ user = "create_evt" => handles = {"htmr"}
  /\ user = "create_evt_result" => handles = {"htmr", "evt"}
  /\ user = "create_thd" => handles = {"htmr", "evt", "evt_result"}
  /\ user \in {"close_ctl", "close_signal", "join"} => "htmr" \notin handles /\ "thd" \in handles
  /\ user = "close_rest" => handles \subseteq {"evt", "evt_result"}
  /\ thread \notin Gone => "thd" \in handles
  /\ "thd" \in handles /\ user # "join" => thread \notin Gone
  /\ armed \/ apc => object /\ user \in {"idle", "close_htmr"} \cup CallSteps

Starting == {"set_data", "set_period", "set_ctl_start", "signal_start"}

\* A successful stop has silenced the timer before its result is collected.
Quietness ==
  /\ quiet => Silent
  /\ user \in Starting => ~quiet
  /\ user \in {"await", "collect"} /\ ctl = "start" => ~quiet
  /\ user \in {"await", "collect"} /\ ctl = "stop" /\ served /\ status = "ok" => Silent

\* With a patient user the fields change only while nothing can fire.
Matching ==
  /\ user \in Starting => Silent
  /\ user = "await" /\ ctl = "start" /\ ~served => Silent
  /\ ~Silent => kq = start.kq /\ data = start.data
  /\ thread = "post" => post = start.kq

\* Once set, a timer repeats as its start said, is due after its period if it has
\* one, and is not set any more when its only event is on its way.
InTime ==
  /\ armed => repeat = Repeat(start.period)
  /\ armed /\ start.period >= 0 => due + age >= start.period
  /\ FiresOnce

WinTimerInv == TypeOK /\ Handover /\ Lifetime /\ Quietness
=============================================================================
