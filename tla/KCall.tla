------------------------------- MODULE KCall -------------------------------
(***************************************************************************)
(* The kernel call queue of ffsys/kcall.h.                                 *)
(*                                                                         *)
(* A user thread (the only reader of the completion queue) fills an        *)
(* ffkcall object and puts it in the submission queue SQ; worker threads   *)
(* run ffkcallq_process_sq(), execute the operation and put the object in  *)
(* the completion queue CQ; the user thread runs ffkcallq_process_cq(),    *)
(* which calls the object's handler.  The handler calls the same           *)
(* fffile_..._async() function again to collect the result.                *)
(*                                                                         *)
(* A worker is woken through the semaphore q->sem, the user thread through *)
(* the user event q->kqpost of its kernel queue.  On Linux that event is   *)
(* an eventfd attached edge-triggered: what is modelled of it is whether   *)
(* its counter is nonzero and whether epoll has it on the ready list.      *)
(*                                                                         *)
(* ffbase's ring queue is external: add and fetch are atomic, and add      *)
(* reports how many elements were in the queue before it.                  *)
(***************************************************************************)
EXTENDS Naturals, Sequences, FiniteSets

CONSTANTS
  Calls,      \* the ffkcall objects
  Workers,    \* threads that run ffkcallq_process_sq()
  SqCap,      \* capacity of the submission queue
  CqCap,      \* capacity of the completion queue
  MaxSubmits, \* bound: how many operations are started on one object
  Patient     \* the user starts again only after the handler ran, and never
              \* uses an object again once an operation on it is cancelled

None == "none"

ASSUME KCallAssumption ==
  /\ IsFiniteSet(Calls)
  /\ None \notin Calls
  /\ SqCap \in Nat \ {0}
  /\ CqCap \in Nat \ {0}
  /\ MaxSubmits \in Nat
  /\ Patient \in BOOLEAN

VARIABLES
  op,     \* ffkcall.op # 0
  state,  \* ffkcall.state
  cell,   \* the anonymous union: the arguments or the result, of which submission
  subs,   \* how many operations were started on the object
  usr,    \* what the user knows of the object
  ret,    \* what the last fffile_..._async() returned
  sq, cq, \* ffkcallqueue.sq, .cq
  sem,    \* value of ffkcallqueue.sem
  evfd,   \* the eventfd's counter is nonzero
  ready,  \* the eventfd is on epoll's ready list
  main,   \* where the user thread is
  mcur,   \* the object the user thread is working on
  nested, \* the user thread is inside a handler
  wpc,    \* where each worker is
  wcur,   \* the object each worker has fetched
  wgen    \* submission whose arguments the worker passed to the kernel

callVars == <<op, state, cell, subs, usr, ret>>
queueVars == <<sq, cq, sem, evfd, ready>>
mainVars == <<main, mcur, nested>>
workerVars == <<wpc, wcur, wgen>>
vars == <<callVars, queueVars, mainVars, workerVars>>

Cells == [kind : {"none", "args", "result"}, gen : 0..MaxSubmits]
UserStates == {"free", "pending", "done", "cancelled"}
MainPcs == {"idle", "add", "sempost", "wait", "consume", "cq", "dispatch"}
WorkerPcs == {"blocked", "fetch", "exec", "drop", "call", "mark", "add", "post"}
Returns == {None, "EBUSY", "EAGAIN", "EINPROGRESS", "result"}

\* One type invariant: every field of the object, the queues and the threads.
TypeOK ==
  /\ op \in [Calls -> BOOLEAN]
  /\ state \in [Calls -> {0, 2}]
  /\ cell \in [Calls -> Cells]
  /\ subs \in [Calls -> 0..MaxSubmits]
  /\ usr \in [Calls -> UserStates]
  /\ ret \in Returns
  /\ sq \in Seq(Calls)
  /\ cq \in Seq(Calls)
  /\ sem \in Nat
  /\ evfd \in BOOLEAN
  /\ ready \in BOOLEAN
  /\ main \in MainPcs
  /\ mcur \in Calls \cup {None}
  /\ nested \in BOOLEAN
  /\ wpc \in [Workers -> WorkerPcs]
  /\ wcur \in [Workers -> Calls \cup {None}]
  /\ wgen \in [Workers -> 0..MaxSubmits]

Init ==
  /\ op = [c \in Calls |-> FALSE]
  /\ state = [c \in Calls |-> 0]
  /\ cell = [c \in Calls |-> [kind |-> "none", gen |-> 0]]
  /\ subs = [c \in Calls |-> 0]
  /\ usr = [c \in Calls |-> "free"]
  /\ ret = None
  /\ sq = <<>> /\ cq = <<>>
  /\ sem = 0 /\ evfd = FALSE /\ ready = FALSE
  /\ main = "idle" /\ mcur = None /\ nested = FALSE
  /\ wpc = [w \in Workers |-> "blocked"]
  /\ wcur = [w \in Workers |-> None]
  /\ wgen = [w \in Workers |-> 0]

-----------------------------------------------------------------------------
(* The user thread: fffile_..._async() and ffkcall_cancel().  Both may be  *)
(* called from the event loop and from inside a handler.                   *)

UserRuns == main = "idle"

\* The objects a patient user may call fffile_..._async() for.
MayCall(c) == Patient => usr[c] \in {"free", "done"}

\* _ffkcall_busy()
Busy(c) == state[c] # 0

\* The call is refused, for a patient user, too: the object is in the completion queue.
AsyncBusy(c) ==
  /\ UserRuns /\ (Patient => usr[c] # "cancelled")
  /\ Busy(c)
  /\ ret' = "EBUSY"
  /\ UNCHANGED <<op, state, cell, subs, usr, queueVars, mainVars, workerVars>>

\* _ffkcall_complete(): the call returns the stored result.
AsyncComplete(c) ==
  /\ UserRuns /\ MayCall(c)
  /\ ~Busy(c) /\ op[c]
  /\ op' = [op EXCEPT ![c] = FALSE]
  /\ ret' = "result"
  /\ usr' = [usr EXCEPT ![c] = "free"]
  /\ UNCHANGED <<state, cell, subs, queueVars, mainVars, workerVars>>

\* The call stores its arguments in the union and sets op.
AsyncBegin(c) ==
  /\ UserRuns /\ MayCall(c)
  /\ ~Busy(c) /\ ~op[c]
  /\ subs[c] < MaxSubmits
  /\ subs' = [subs EXCEPT ![c] = @ + 1]
  /\ cell' = [cell EXCEPT ![c] = [kind |-> "args", gen |-> subs[c] + 1]]
  /\ op' = [op EXCEPT ![c] = TRUE]
  /\ main' = "add" /\ mcur' = c
  /\ UNCHANGED <<state, usr, ret, queueVars, nested, workerVars>>

\* _ffkcall_add(): put the object in SQ; op is reset when SQ is full.
AsyncAdd ==
  /\ main = "add"
  /\ \/ /\ Len(sq) = SqCap
        /\ op' = [op EXCEPT ![mcur] = FALSE]
        /\ ret' = "EAGAIN"
        /\ usr' = [usr EXCEPT ![mcur] = "free"]
        /\ main' = "idle" /\ mcur' = None
        /\ UNCHANGED sq
     \/ /\ Len(sq) < SqCap
        /\ sq' = Append(sq, mcur)
        /\ usr' = [usr EXCEPT ![mcur] = "pending"]
        /\ main' = "sempost"
        /\ UNCHANGED <<op, ret, mcur>>
  /\ UNCHANGED <<state, cell, subs, cq, sem, evfd, ready, nested, workerVars>>

\* ffsem_post(); the mutant forgets it.
SemPostedNot == sem
SemPosted == sem + 1

\* _ffkcall_add(), after the object was added: wake a worker.
AsyncSemPost ==
  /\ main = "sempost"
  /\ sem' = SemPosted
  /\ ret' = "EINPROGRESS"
  /\ main' = "idle" /\ mcur' = None
  /\ UNCHANGED <<op, state, cell, subs, usr, sq, cq, evfd, ready, nested, workerVars>>

\* ffkcall_cancel()
Cancel(c) ==
  /\ UserRuns
  /\ usr[c] \in {"pending", "done"}
  /\ op' = [op EXCEPT ![c] = FALSE]
  /\ usr' = [usr EXCEPT ![c] = IF @ = "pending" THEN "cancelled" ELSE "free"]
  /\ UNCHANGED <<state, cell, subs, ret, queueVars, mainVars, workerVars>>

-----------------------------------------------------------------------------
(* The user thread: the event loop and ffkcallq_process_cq().              *)

\* Call ffkq_wait().
WaitBegin ==
  /\ main = "idle" /\ ~nested
  /\ main' = "wait"
  /\ UNCHANGED <<callVars, queueVars, mcur, nested, workerVars>>

\* ffkq_wait() returns the eventfd's event.  epoll takes the descriptor off
\* the ready list and reports it only if it is still readable.
WaitEvent ==
  /\ main = "wait" /\ ready
  /\ ready' = FALSE
  /\ main' = IF evfd THEN "consume" ELSE "wait"
  /\ UNCHANGED <<callVars, sq, cq, sem, evfd, mcur, nested, workerVars>>

\* ffkq_wait() returns for another reason: a timeout, EINTR, another event.
WaitOther ==
  /\ main = "wait"
  /\ main' = "idle"
  /\ UNCHANGED <<callVars, queueVars, mcur, nested, workerVars>>

\* ffkq_post_consume(): read the eventfd until it would block.
PostConsume ==
  /\ main = "consume"
  /\ evfd' = FALSE
  /\ main' = "cq"
  /\ UNCHANGED <<callVars, sq, cq, sem, ready, mcur, nested, workerVars>>

\* ffkcallq_process_cq(): ffrq_fetch_sr() finds CQ empty; or fetches an object.
CqEmpty ==
  /\ main = "cq" /\ cq = <<>>
  /\ main' = "idle"
  /\ UNCHANGED <<callVars, queueVars, mcur, nested, workerVars>>

\* ffrq_fetch_sr() removes the element; the mutant leaves it in CQ.
CqRestPeek == cq
CqRest == Tail(cq)

CqFetch ==
  /\ main = "cq" /\ cq # <<>>
  /\ cq' = CqRest
  /\ mcur' = Head(cq)
  /\ main' = "dispatch"
  /\ UNCHANGED <<callVars, sq, sem, evfd, ready, nested, workerVars>>

\* The handler is called unless op was reset; the mutant calls it always.
HandlerWantedAlways(c) == TRUE
HandlerWanted(c) == op[c]

\* The object is idle again; its handler is called if wanted.
CqDispatch ==
  /\ main = "dispatch"
  /\ state' = [state EXCEPT ![mcur] = 0]
  /\ mcur' = None
  /\ \/ /\ HandlerWanted(mcur)
        /\ usr' = [usr EXCEPT ![mcur] = "done"]
        /\ main' = "idle" /\ nested' = TRUE
     \/ /\ ~HandlerWanted(mcur)
        /\ main' = "cq"
        /\ UNCHANGED <<usr, nested>>
  /\ UNCHANGED <<op, cell, subs, ret, queueVars, workerVars>>

\* The handler returns to ffkcallq_process_cq().
HandlerReturn ==
  /\ main = "idle" /\ nested
  /\ main' = "cq" /\ nested' = FALSE
  /\ UNCHANGED <<callVars, queueVars, mcur, workerVars>>

-----------------------------------------------------------------------------
(* A worker thread: ffsem_wait(), then ffkcallq_process_sq().              *)

WorkerWake(w) ==
  /\ wpc[w] = "blocked" /\ sem > 0
  /\ sem' = sem - 1
  /\ wpc' = [wpc EXCEPT ![w] = "fetch"]
  /\ UNCHANGED <<callVars, sq, cq, evfd, ready, mainVars, wcur, wgen>>

SqEmpty(w) ==
  /\ wpc[w] = "fetch" /\ sq = <<>>
  /\ wpc' = [wpc EXCEPT ![w] = "blocked"]
  /\ UNCHANGED <<callVars, queueVars, mainVars, wcur, wgen>>

\* ffrq_fetch() removes the element; the mutant leaves it in SQ.
SqRestPeek == sq
SqRest == Tail(sq)

SqFetch(w) ==
  /\ wpc[w] = "fetch" /\ sq # <<>>
  /\ sq' = SqRest
  /\ wcur' = [wcur EXCEPT ![w] = Head(sq)]
  /\ wpc' = [wpc EXCEPT ![w] = "exec"]
  /\ UNCHANGED <<callVars, cq, sem, evfd, ready, mainVars, wgen>>

\* _ffkcall_exec(): select the kernel function by op and read its arguments;
\* fail when the operation was cancelled.
ExecBegin(w) ==
  /\ wpc[w] = "exec"
  /\ wpc' = [wpc EXCEPT ![w] = IF op[wcur[w]] THEN "call" ELSE "drop"]
  /\ wgen' = [wgen EXCEPT ![w] = cell[wcur[w]].gen]
  /\ UNCHANGED <<callVars, queueVars, mainVars, wcur>>

\* kc->result and kc->error overwrite the arguments; the mutant stores nothing.
StoredNot(w) == cell[wcur[w]]
Stored(w) == [kind |-> "result", gen |-> wgen[w]]

\* _ffkcall_exec(): the kernel function returns; store its result and error.
ExecEnd(w) ==
  /\ wpc[w] = "call"
  /\ cell' = [cell EXCEPT ![wcur[w]] = Stored(w)]
  /\ wpc' = [wpc EXCEPT ![w] = "mark"]
  /\ UNCHANGED <<op, state, subs, usr, ret, queueVars, mainVars, wcur, wgen>>

\* _ffkcall_exec() failed: the object is idle and is not put in CQ.
Drop(w) ==
  /\ wpc[w] = "drop"
  /\ state' = [state EXCEPT ![wcur[w]] = 0]
  /\ wcur' = [wcur EXCEPT ![w] = None]
  /\ wpc' = [wpc EXCEPT ![w] = "fetch"]
  /\ UNCHANGED <<op, cell, subs, usr, ret, queueVars, mainVars, wgen>>

\* "2: in CQ"
InCqState == 2

MarkDone(w) ==
  /\ wpc[w] = "mark"
  /\ state' = [state EXCEPT ![wcur[w]] = InCqState]
  /\ wpc' = [wpc EXCEPT ![w] = "add"]
  /\ UNCHANGED <<op, cell, subs, usr, ret, queueVars, mainVars, wcur, wgen>>

\* Put the object in CQ.  When CQ is full assert(0) fails and the object is lost.
CqFull(w) == wpc[w] = "add" /\ Len(cq) = CqCap

\* The event is posted for the first element of CQ (used == 0); the mutant
\* posts it for the second.
MustPostLate == Len(cq) = 1
MustPost == cq = <<>>

CqAdd(w) ==
  /\ wpc[w] = "add"
  /\ \/ /\ Len(cq) = CqCap
        /\ wpc' = [wpc EXCEPT ![w] = "fetch"]
        /\ UNCHANGED cq
     \/ /\ Len(cq) < CqCap
        /\ cq' = Append(cq, wcur[w])
        /\ wpc' = [wpc EXCEPT ![w] = IF MustPost THEN "post" ELSE "fetch"]
  /\ wcur' = [wcur EXCEPT ![w] = None]
  /\ UNCHANGED <<callVars, sq, sem, evfd, ready, mainVars, wgen>>

\* ffkq_post(): write to the eventfd; the write puts it on the ready list.
Post(w) ==
  /\ wpc[w] = "post"
  /\ evfd' = TRUE /\ ready' = TRUE
  /\ wpc' = [wpc EXCEPT ![w] = "fetch"]
  /\ UNCHANGED <<callVars, sq, cq, sem, mainVars, wcur, wgen>>

-----------------------------------------------------------------------------
UserCall(c) ==
  \/ AsyncBusy(c)
  \/ AsyncComplete(c)
  \/ AsyncBegin(c)
  \/ Cancel(c)

MainStep ==
  \/ AsyncAdd
  \/ AsyncSemPost
  \/ WaitEvent
  \/ PostConsume
  \/ CqEmpty
  \/ CqFetch
  \/ CqDispatch

WorkerStep(w) ==
  \/ WorkerWake(w)
  \/ SqEmpty(w)
  \/ SqFetch(w)
  \/ ExecBegin(w)
  \/ ExecEnd(w)
  \/ Drop(w)
  \/ MarkDone(w)
  \/ CqAdd(w)
  \/ Post(w)

Next ==
  \/ \E c \in Calls : UserCall(c)
  \/ MainStep
  \/ WaitBegin
  \/ WaitOther
  \/ HandlerReturn
  \/ \E w \in Workers : WorkerStep(w)

Spec == Init /\ [][Next]_vars

\* Threads that can run do run: the workers, the user thread inside the
\* library, and a user thread that ends its handlers and returns to its loop.
\* epoll serves its ready list in FIFO order, so an event is not passed over
\* forever by a loop that keeps returning for other reasons.
Fairness ==
  /\ WF_vars(MainStep)
  /\ SF_vars(WaitEvent)
  /\ WF_vars(WaitBegin)
  /\ WF_vars(HandlerReturn)
  /\ \A w \in Workers : WF_vars(WorkerStep(w))

FairSpec == Spec /\ Fairness

-----------------------------------------------------------------------------
(* Properties *)

InSeq(c, s) == \E i \in DOMAIN s : s[i] = c

\* The object is being handled: it is queued, or a worker or the user thread
\* has just taken it from a queue.
Active(c) ==
  \/ InSeq(c, sq) \/ InSeq(c, cq)
  \/ \E w \in Workers : wcur[w] = c
  \/ main = "dispatch" /\ mcur = c

Injective(s) == \A i, j \in DOMAIN s : s[i] = s[j] => i = j

\* An object is in one place at a time: queued once in SQ or CQ, or held by one
\* worker, or taken from CQ by the user thread.  Were it in two, two threads
\* would write its union (kcall.h:85-122) and its handler would run twice.
OneOwner ==
  /\ Injective(sq) /\ Injective(cq)
  /\ \A c \in Calls : ~(InSeq(c, sq) /\ InSeq(c, cq))
  /\ \A w \in Workers : wcur[w] # None => ~InSeq(wcur[w], sq) /\ ~InSeq(wcur[w], cq)
  /\ \A v, w \in Workers : wcur[v] = wcur[w] /\ wcur[v] # None => v = w
  /\ main \in {"add", "dispatch"} =>
       /\ ~InSeq(mcur, sq) /\ ~InSeq(mcur, cq)
       /\ \A w \in Workers : wcur[w] # mcur

\* What the user collects after the handler ran is the result of the operation
\* that was started last, and calling fffile_..._async() returns it.
ResultIsCurrent ==
  \A c \in Calls : usr[c] = "done" =>
    /\ op[c] /\ ~Busy(c)
    /\ cell[c] = [kind |-> "result", gen |-> subs[c]]

\* The assert(0) of ffkcallq_process_sq() (kcall.h:142-145) is never reached:
\* no worker finds CQ full.
CqNeverFull == \A w \in Workers : ~CqFull(w)

\* Objects pass safely from thread to thread: each is in one place at a time, has a place
\* in CQ when it is done and carries the result of its last operation (kcall.h:126-174).
HandOverIsSafe == OneOwner /\ ResultIsCurrent /\ CqNeverFull

\* The handler of a cancelled operation is never called (kcall.h:167), wherever
\* the object was when ffkcall_cancel() was called.
CancelledStaysSilent ==
  [][\A c \in Calls : usr[c] = "cancelled" => usr'[c] = "cancelled"]_vars

\* The user thread is past ffkq_wait() and will read CQ until it is empty.
Draining == main \in {"consume", "cq", "dispatch"} \/ nested

\* No completion is left behind without a wake-up (kcall.h:147-150): when CQ is
\* not empty and the user thread is not emptying it, an event is on its way.
NoLostCompletion ==
  cq # <<>> /\ ~Draining => (ready /\ evfd) \/ \E w \in Workers : wpc[w] = "post"

\* No submission is left behind with every worker asleep (kcall.h:185-192).
NoLostSubmission ==
  sq # <<>> => sem > 0 \/ main = "sempost" \/ \E w \in Workers : wpc[w] # "blocked"

\* Neither queue is left with something in it and its reader asleep, though each thread posts
\* only after it has added and reads before it sleeps (kcall.h:147, 190).
NoLostWakeup == NoLostSubmission /\ NoLostCompletion

\* Every operation that was started completes, unless it is cancelled.
EveryCallCompletes ==
  \A c \in Calls : usr[c] = "pending" ~> usr[c] \in {"done", "cancelled"}

\* "the previous operation is still active in SQ or CQ" (kcall.h:199): a call for
\* an object that is still active is refused; it does not return a result.
NoResultWhileActive ==
  [][\A c \in Calls :
       Active(c) /\ usr[c] = "pending" => usr'[c] # "free"]_vars

-----------------------------------------------------------------------------
(* The inductive invariant of a patient user. *)

Holding == {"exec", "drop", "call", "mark", "add"}

\* A thread has an object in hand exactly where the code has `kc` in use.
Located ==
  /\ mcur # None <=> main \in {"add", "sempost", "dispatch"}
  /\ \A w \in Workers : wcur[w] # None <=> wpc[w] \in Holding

\* An object the user may use again is at rest.
FreeIsIdle ==
  \A c \in Calls : usr[c] \in {"free", "done"} => ~Active(c) /\ state[c] = 0

\* The object being added is one the user was free to use.
AddsFree == main = "add" => usr[mcur] = "free" /\ cell[mcur].gen = subs[mcur]

\* op of a cancelled operation is not set again.
CancelledIsReset == \A c \in Calls : usr[c] = "cancelled" => ~op[c]

\* What is in the union belongs to the last operation, and is its result from
\* the moment the worker has stored it.
CellIsCurrent ==
  /\ \A c \in Calls : Active(c) => cell[c].gen = subs[c]
  /\ \A w \in Workers : wpc[w] = "call" => wgen[w] = subs[wcur[w]]
  /\ \A w \in Workers : wpc[w] \in {"mark", "add"} => cell[wcur[w]].kind = "result"
  /\ \A c \in Calls : InSeq(c, cq) => cell[c].kind = "result"
  /\ main = "dispatch" => cell[mcur].kind = "result"

DoneHasResult ==
  \A c \in Calls : usr[c] = "done" =>
    op[c] /\ cell[c] = [kind |-> "result", gen |-> subs[c]]

PatientInv ==
  /\ TypeOK
  /\ Located
  /\ OneOwner
  /\ FreeIsIdle
  /\ AddsFree
  /\ CancelledIsReset
  /\ CellIsCurrent
  /\ DoneHasResult
=============================================================================
