---------------------------- MODULE KCallProofs ----------------------------
(***************************************************************************)
(* Theorems about the kernel call queue, for every set of objects, every   *)
(* set of workers, every capacity and every number of submissions.         *)
(***************************************************************************)
EXTENDS KCall, TLAPS, FiniteSetTheorems

-----------------------------------------------------------------------------
(* Sequences as sets of elements. *)

\* ffrq_add() adds its argument and nothing else.
LEMMA InAppend ==
  ASSUME NEW S, NEW s \in Seq(S), NEW e \in S, NEW c
  PROVE  InSeq(c, Append(s, e)) <=> InSeq(c, s) \/ c = e
<1> DEFINE t == Append(s, e)
<1>1. /\ DOMAIN s = 1..Len(s) /\ Len(s) \in Nat
      /\ DOMAIN t = 1..(Len(s) + 1)
      /\ t[Len(s) + 1] = e
      /\ \A i \in 1..Len(s) : t[i] = s[i]
  OBVIOUS
<1>2. InSeq(c, t) <=> \E i \in 1..(Len(s) + 1) : t[i] = c
  BY <1>1 DEF InSeq
<1>3. InSeq(c, s) <=> \E i \in 1..Len(s) : s[i] = c
  BY <1>1 DEF InSeq
<1> HIDE DEF t
<1>4. InSeq(c, t) <=> InSeq(c, s) \/ c = e
  BY <1>1, <1>2, <1>3
<1> QED BY <1>4 DEF t

\* ffrq_fetch() takes the oldest element and nothing else.
LEMMA InTail ==
  ASSUME NEW S, NEW s \in Seq(S), s # <<>>, NEW c
  PROVE  /\ Head(s) \in S
         /\ Tail(s) \in Seq(S)
         /\ InSeq(c, s) <=> InSeq(c, Tail(s)) \/ c = Head(s)
<1>1. Head(s) \in S /\ Tail(s) \in Seq(S) /\ Len(Tail(s)) = Len(s) - 1
  OBVIOUS
<1>2. InSeq(c, Tail(s)) \/ c = Head(s) => InSeq(c, s)
  <2>1. CASE c = Head(s)
    BY <2>1 DEF InSeq
  <2>2. ASSUME NEW i \in DOMAIN Tail(s), Tail(s)[i] = c PROVE InSeq(c, s)
    <3>1. i + 1 \in DOMAIN s /\ s[i + 1] = c
      BY <2>2, <1>1
    <3> QED BY <3>1 DEF InSeq
  <2> QED BY <2>1, <2>2 DEF InSeq
<1>3. ASSUME NEW i \in DOMAIN s, s[i] = c
      PROVE  InSeq(c, Tail(s)) \/ c = Head(s)
  <2>1. CASE i = 1
    BY <2>1, <1>3
  <2>2. CASE i # 1
    <3>1. i - 1 \in DOMAIN Tail(s) /\ Tail(s)[i - 1] = c
      BY <2>2, <1>3, <1>1
    <3> QED BY <3>1 DEF InSeq
  <2> QED BY <2>1, <2>2
<1> QED BY <1>1, <1>2, <1>3 DEF InSeq

\* Adding an element that is not there keeps the elements distinct.
LEMMA InjectiveAppend ==
  ASSUME NEW S, NEW s \in Seq(S), NEW e \in S, Injective(s), ~InSeq(e, s)
  PROVE  Injective(Append(s, e))
BY DEF InSeq, Injective

\* Taking the oldest element keeps the others distinct, and it is gone.
LEMMA InjectiveTail ==
  ASSUME NEW S, NEW s \in Seq(S), s # <<>>, Injective(s)
  PROVE  Injective(Tail(s)) /\ ~InSeq(Head(s), Tail(s))
<1>1. Tail(s) \in Seq(S) /\ Len(Tail(s)) = Len(s) - 1
  OBVIOUS
<1>2. \A i \in DOMAIN Tail(s) : i + 1 \in DOMAIN s /\ Tail(s)[i] = s[i + 1]
  BY <1>1
<1>3. Injective(Tail(s))
  BY <1>1, <1>2 DEF Injective
<1>4. ASSUME NEW i \in DOMAIN Tail(s), Tail(s)[i] = Head(s) PROVE FALSE
  <2>1. s[i + 1] = s[1] /\ i + 1 # 1 /\ 1 \in DOMAIN s
    BY <1>2, <1>4, <1>1
  <2> QED BY <2>1, <1>2 DEF Injective
<1> QED BY <1>3, <1>4 DEF InSeq

\* A sequence of distinct elements of a finite set is no longer than the set.
LEMMA InjectiveLen ==
  ASSUME NEW S, IsFiniteSet(S), NEW s \in Seq(S), Injective(s)
  PROVE  Len(s) <= Cardinality(S)
<1>1. s \in [1..Len(s) -> S] /\ Len(s) \in Nat /\ DOMAIN s = 1..Len(s)
  OBVIOUS
<1>2. s \in Injection(1..Len(s), S)
  BY <1>1 DEF Injective, Injection, IsInjective
<1>3. Cardinality(1..Len(s)) <= Cardinality(S)
  BY <1>2, FS_Injection
<1>4. Cardinality(1..Len(s)) = Len(s)
  <2>1. \A a, b \in Int : Cardinality(a..b) = IF a > b THEN 0 ELSE b - a + 1
    BY FS_Interval
  <2>2. Cardinality(1..Len(s)) = IF 1 > Len(s) THEN 0 ELSE Len(s) - 1 + 1
    BY <2>1, <1>1
  <2> QED BY <2>2, <1>1
<1> QED BY <1>3, <1>4

-----------------------------------------------------------------------------
(* Types.  TypeOK is not inductive by itself: that what is put in a queue  *)
(* is an object, and not the "none" of a thread that has none in hand,     *)
(* needs Located.                                                          *)

TypeInv == TypeOK /\ Located

LEMMA TypeInit == Init => TypeInv
<1> SUFFICES ASSUME Init PROVE TypeInv
  OBVIOUS
<1> USE KCallAssumption DEF Init
<1>1. TypeOK
  <2>1. 0 \in 0..MaxSubmits /\ [kind |-> "none", gen |-> 0] \in Cells
    BY DEF Cells
  <2>2. /\ op \in [Calls -> BOOLEAN] /\ cell \in [Calls -> Cells]
        /\ state \in [Calls -> {0, 2}]
        /\ subs \in [Calls -> 0..MaxSubmits] /\ wgen \in [Workers -> 0..MaxSubmits]
        /\ usr \in [Calls -> UserStates] /\ wpc \in [Workers -> WorkerPcs]
        /\ wcur \in [Workers -> Calls \cup {None}]
    BY <2>1 DEF UserStates, WorkerPcs
  <2>3. sq \in Seq(Calls) /\ cq \in Seq(Calls) /\ sem \in Nat
    OBVIOUS
  <2> QED BY <2>2, <2>3 DEF TypeOK, MainPcs, Returns
<1>2. Located
  BY DEF Located, Holding
<1> QED BY <1>1, <1>2 DEF TypeInv

\* A step of the user thread keeps the types.
LEMMA TypeUser ==
  ASSUME TypeInv,
         \/ \E c \in Calls : UserCall(c)
         \/ MainStep \/ WaitBegin \/ WaitOther \/ HandlerReturn
  PROVE  TypeInv'
<1> USE KCallAssumption
    DEF TypeInv, TypeOK, Located, Cells, UserStates, MainPcs, Returns, UserRuns,
        callVars, queueVars, mainVars, workerVars
<1>0. mcur \in Calls \/ main \notin {"add", "sempost", "dispatch"}
  OBVIOUS
<1>1. ASSUME NEW c \in Calls, AsyncBusy(c) \/ AsyncComplete(c) \/ Cancel(c)
      PROVE  TypeInv'
  BY <1>1 DEF AsyncBusy, AsyncComplete, Cancel
<1>2. ASSUME NEW c \in Calls, AsyncBegin(c) PROVE TypeInv'
  BY <1>2 DEF AsyncBegin
<1>3. CASE AsyncAdd
  <2>1. CASE Len(sq) = SqCap
    <3>1. op' \in [Calls -> BOOLEAN] /\ usr' \in [Calls -> UserStates]
      BY <2>1, <1>0, <1>3 DEF AsyncAdd
    <3> QED BY <3>1, <2>1, <1>3 DEF AsyncAdd
  <2>2. CASE Len(sq) < SqCap
    <3>1. Append(sq, mcur) \in Seq(Calls)
      BY <1>0, <1>3 DEF AsyncAdd
    <3> QED BY <3>1, <2>2, <1>0, <1>3 DEF AsyncAdd
  <2> QED BY <2>1, <2>2, <1>3 DEF AsyncAdd
<1>4. CASE AsyncSemPost
  BY <1>4 DEF AsyncSemPost, SemPosted
<1>5. CASE WaitBegin \/ WaitEvent \/ WaitOther \/ PostConsume \/ CqEmpty \/ HandlerReturn
  BY <1>5 DEF WaitBegin, WaitEvent, WaitOther, PostConsume, CqEmpty, HandlerReturn
<1>6. CASE CqFetch
  <2>1. Head(cq) \in Calls /\ Tail(cq) \in Seq(Calls)
    BY <1>6 DEF CqFetch
  <2> QED BY <2>1, <1>6 DEF CqFetch, CqRest
<1>7. CASE CqDispatch
  BY <1>0, <1>7 DEF CqDispatch, HandlerWanted
<1> QED BY <1>1, <1>2, <1>3, <1>4, <1>5, <1>6, <1>7 DEF UserCall, MainStep

\* A step of a worker keeps the types.
LEMMA TypeWorker ==
  ASSUME TypeInv, NEW w \in Workers, WorkerStep(w)
  PROVE  TypeInv'
<1> USE KCallAssumption
    DEF TypeInv, TypeOK, Located, Cells, WorkerPcs, Holding,
        callVars, queueVars, mainVars, workerVars
<1>0. wcur[w] \in Calls \/ wpc[w] \notin Holding
  OBVIOUS
<1>1. CASE WorkerWake(w)
  BY <1>1 DEF WorkerWake
<1>8. CASE SqEmpty(w) \/ Post(w)
  BY <1>8 DEF SqEmpty, Post
<1>6. CASE Drop(w)
  BY <1>0, <1>6 DEF Drop
<1>7. CASE MarkDone(w)
  BY <1>0, <1>7 DEF MarkDone, InCqState
<1>2. CASE SqFetch(w)
  <2>1. Head(sq) \in Calls /\ Tail(sq) \in Seq(Calls)
    BY <1>2 DEF SqFetch
  <2> QED BY <2>1, <1>2 DEF SqFetch, SqRest
<1>3. CASE ExecBegin(w)
  BY <1>0, <1>3 DEF ExecBegin
<1>4. CASE ExecEnd(w)
  BY <1>0, <1>4 DEF ExecEnd, Stored
<1>5. CASE CqAdd(w)
  <2>1. CASE Len(cq) = CqCap
    <3>1. /\ cq' = cq /\ wpc' = [wpc EXCEPT ![w] = "fetch"]
          /\ wcur' = [wcur EXCEPT ![w] = None]
          /\ UNCHANGED <<callVars, sq, sem, evfd, ready, mainVars, wgen>>
      BY <2>1, <1>5 DEF CqAdd
    <3> QED BY <3>1
  <2>2. CASE Len(cq) < CqCap
    <3>1. Append(cq, wcur[w]) \in Seq(Calls)
      BY <1>0, <1>5 DEF CqAdd
    <3> QED BY <3>1, <2>2, <1>0, <1>5 DEF CqAdd
  <2> QED BY <2>1, <2>2, <1>5 DEF CqAdd
<1> QED BY <1>1, <1>2, <1>3, <1>4, <1>5, <1>6, <1>7, <1>8 DEF WorkerStep

LEMMA TypeStep == TypeInv /\ [Next]_vars => TypeInv'
<1> SUFFICES ASSUME TypeInv, [Next]_vars PROVE TypeInv'
  OBVIOUS
<1>1. CASE UNCHANGED vars
  BY <1>1 DEF TypeInv, TypeOK, Located, vars, callVars, queueVars, mainVars, workerVars
<1> QED BY <1>1, TypeUser, TypeWorker DEF Next

\* The fields of the objects, the queues and the program counters of the threads
\* keep their types, whatever the user does.
THEOREM TypeCorrect == Spec => []TypeOK
<1>1. Spec => []TypeInv
  BY TypeInit, TypeStep, PTL DEF Spec
<1>2. TypeInv => TypeOK
  BY DEF TypeInv
<1> QED BY <1>1, <1>2, PTL

-----------------------------------------------------------------------------
(* Wake-ups, for any user.                                                 *)

\* A step of the user thread leaves no submission with every worker asleep.
LEMMA SubmissionUser ==
  ASSUME TypeInv, NoLostSubmission,
         \/ \E c \in Calls : UserCall(c)
         \/ MainStep \/ WaitBegin \/ WaitOther \/ HandlerReturn
  PROVE  NoLostSubmission'
<1> USE DEF NoLostSubmission, UserRuns, callVars, queueVars, mainVars, workerVars
<1>1. ASSUME NEW c \in Calls, UserCall(c) PROVE NoLostSubmission'
  BY <1>1 DEF UserCall, AsyncBusy, AsyncComplete, AsyncBegin, Cancel
<1>2. CASE AsyncAdd
  BY <1>2 DEF AsyncAdd
<1>3. CASE AsyncSemPost
  BY <1>3 DEF AsyncSemPost, SemPosted, TypeInv, TypeOK
<1>4. CASE WaitBegin \/ WaitEvent \/ WaitOther \/ PostConsume \/ CqEmpty
           \/ CqFetch \/ CqDispatch \/ HandlerReturn
  BY <1>4 DEF WaitBegin, WaitEvent, WaitOther, PostConsume, CqEmpty, CqFetch,
              CqDispatch, HandlerReturn
<1> QED BY <1>1, <1>2, <1>3, <1>4 DEF MainStep

\* A worker goes to sleep only when it has seen SQ empty.
LEMMA SubmissionWorker ==
  ASSUME TypeInv, NoLostSubmission, NEW w \in Workers, WorkerStep(w)
  PROVE  NoLostSubmission'
<1>1. CASE SqEmpty(w)
  BY <1>1 DEF SqEmpty, NoLostSubmission, queueVars
<1>2. CASE ~SqEmpty(w)
  <2>1. wpc'[w] # "blocked"
    BY <1>2 DEF TypeInv, TypeOK, WorkerStep, WorkerWake, SqFetch, ExecBegin, ExecEnd,
                Drop, MarkDone, CqAdd, Post
  <2> QED BY <2>1 DEF NoLostSubmission
<1> QED BY <1>1, <1>2

\* When an object is in SQ, a worker is awake or is about to be woken.
THEOREM SubmissionIsSeen == Spec => []NoLostSubmission
<1> DEFINE I == TypeInv /\ NoLostSubmission
<1>1. Init => I
  BY TypeInit DEF Init, NoLostSubmission
<1>2. I /\ [Next]_vars => I'
  <2> SUFFICES ASSUME I, [Next]_vars PROVE NoLostSubmission'
    BY TypeStep
  <2>1. CASE UNCHANGED vars
    BY <2>1 DEF NoLostSubmission, vars, queueVars, mainVars, workerVars
  <2> QED BY <2>1, SubmissionUser, SubmissionWorker DEF Next
<1> QED BY <1>1, <1>2, PTL DEF Spec

\* A step of the user thread leaves no completion without a wake-up: it waits
\* again only after it has seen CQ empty.
LEMMA CompletionUser ==
  ASSUME TypeInv, NoLostCompletion,
         \/ \E c \in Calls : UserCall(c)
         \/ MainStep \/ WaitBegin \/ WaitOther \/ HandlerReturn
  PROVE  NoLostCompletion'
<1> USE DEF NoLostCompletion, Draining, UserRuns, callVars, queueVars, mainVars, workerVars
<1>1. ASSUME NEW c \in Calls, UserCall(c) PROVE NoLostCompletion'
  BY <1>1 DEF UserCall, AsyncBusy, AsyncComplete, AsyncBegin, Cancel
<1>2. CASE AsyncAdd \/ AsyncSemPost
  BY <1>2 DEF AsyncAdd, AsyncSemPost
<1>3. CASE WaitBegin \/ WaitOther \/ HandlerReturn
  BY <1>3 DEF WaitBegin, WaitOther, HandlerReturn
<1>4. CASE WaitEvent
  BY <1>4 DEF WaitEvent
<1>5. CASE PostConsume \/ CqEmpty \/ CqFetch
  BY <1>5 DEF PostConsume, CqEmpty, CqFetch
<1>6. CASE CqDispatch
  BY <1>6 DEF CqDispatch
<1> QED BY <1>1, <1>2, <1>3, <1>4, <1>5, <1>6 DEF MainStep

\* A worker that finds CQ empty posts the event.
LEMMA CompletionWorker ==
  ASSUME TypeInv, NoLostCompletion, NEW w \in Workers, WorkerStep(w)
  PROVE  NoLostCompletion'
<1> USE DEF NoLostCompletion, Draining, callVars, queueVars, mainVars, workerVars
<1>1. CASE CqAdd(w)
  <2>1. CASE cq' = cq /\ Len(cq) = CqCap
    <3>1. \A v \in Workers : wpc[v] = "post" => wpc'[v] = "post"
      BY <2>1, <1>1 DEF CqAdd, TypeInv, TypeOK
    <3> QED BY <3>1, <2>1, <1>1 DEF CqAdd
  <2>2. CASE cq = <<>> /\ Len(cq) < CqCap
    <3>1. wpc'[w] = "post"
      BY <2>2, <1>1 DEF CqAdd, MustPost, TypeInv, TypeOK
    <3> QED BY <3>1
  <2>3. CASE cq # <<>> /\ Len(cq) < CqCap
    <3>1. \A v \in Workers : wpc[v] = "post" => wpc'[v] = "post"
      BY <2>3, <1>1 DEF CqAdd, TypeInv, TypeOK
    <3> QED BY <3>1, <2>3, <1>1 DEF CqAdd
  <2> QED BY <2>1, <2>2, <2>3, <1>1 DEF CqAdd
<1>2. CASE Post(w)
  BY <1>2 DEF Post
<1>3. CASE ~CqAdd(w) /\ ~Post(w)
  <2>1. /\ UNCHANGED <<cq, evfd, ready, mainVars>>
        /\ \A v \in Workers : wpc[v] = "post" => wpc'[v] = "post"
    BY <1>3 DEF TypeInv, TypeOK, WorkerStep, WorkerWake, SqEmpty, SqFetch, ExecBegin,
                ExecEnd, Drop, MarkDone
  <2> QED BY <2>1
<1> QED BY <1>1, <1>2, <1>3

\* When an object is in CQ, the user thread is emptying CQ, or its event is
\* posted or is about to be.
THEOREM CompletionIsSeen == Spec => []NoLostCompletion
<1> DEFINE I == TypeInv /\ NoLostCompletion
<1>1. Init => I
  BY TypeInit DEF Init, NoLostCompletion
<1>2. I /\ [Next]_vars => I'
  <2> SUFFICES ASSUME I, [Next]_vars PROVE NoLostCompletion'
    BY TypeStep
  <2>1. CASE UNCHANGED vars
    BY <2>1 DEF NoLostCompletion, Draining, vars, queueVars, mainVars, workerVars
  <2> QED BY <2>1, CompletionUser, CompletionWorker DEF Next
<1> QED BY <1>1, <1>2, PTL DEF Spec

-----------------------------------------------------------------------------
(* A patient user.  OneOwner is not inductive by itself: that an object    *)
(* the user submits is nowhere else needs FreeIsIdle, and that the result  *)
(* he collects is his needs CellIsCurrent along the whole path.            *)

\* The parts of PatientInv other than the types.
Rest == /\ OneOwner /\ FreeIsIdle /\ AddsFree
        /\ CancelledIsReset /\ CellIsCurrent /\ DoneHasResult

\* The user thread is in hand of an object in Calls.
LEMMA InHand ==
  ASSUME TypeInv
  PROVE  /\ main \in {"add", "sempost", "dispatch"} => mcur \in Calls
         /\ \A w \in Workers : wpc[w] \in Holding => wcur[w] \in Calls
BY DEF TypeInv, TypeOK, Located

\* fffile_..._async() and ffkcall_cancel() of a patient user.
LEMMA PatientCall ==
  ASSUME PatientInv, Patient, NEW c \in Calls, UserCall(c)
  PROVE  Rest'
<1> USE DEF PatientInv, TypeOK, UserRuns, MayCall, Busy, UserStates,
            callVars, queueVars, mainVars, workerVars
<1>1. CASE AsyncBusy(c)
  BY <1>1 DEF AsyncBusy, Rest, OneOwner, FreeIsIdle, AddsFree, CancelledIsReset,
     CellIsCurrent, DoneHasResult, Active
<1>2. CASE AsyncComplete(c)
  <2>0. usr[c] \in {"free", "done"}
    BY <1>2 DEF AsyncComplete
  <2>1. OneOwner' /\ AddsFree' /\ CellIsCurrent'
    BY <1>2 DEF AsyncComplete, OneOwner, AddsFree, CellIsCurrent, Active
  <2>2. FreeIsIdle'
    BY <2>0, <1>2 DEF AsyncComplete, FreeIsIdle, Active
  <2>3. CancelledIsReset' /\ DoneHasResult'
    BY <1>2 DEF AsyncComplete, CancelledIsReset, DoneHasResult
  <2> QED BY <2>1, <2>2, <2>3 DEF Rest
<1>3. CASE AsyncBegin(c)
  <2>0. usr[c] = "free" /\ ~Active(c) /\ None # c
    BY <1>3, KCallAssumption DEF AsyncBegin, DoneHasResult, FreeIsIdle
  <2>1. OneOwner'
    BY <2>0, <1>3 DEF AsyncBegin, OneOwner, Active
  <2>2. FreeIsIdle'
    BY <2>0, <1>3 DEF AsyncBegin, FreeIsIdle, Active
  <2>3. AddsFree'
    BY <2>0, <1>3 DEF AsyncBegin, AddsFree
  <2>4. CancelledIsReset' /\ DoneHasResult'
    BY <2>0, <1>3 DEF AsyncBegin, CancelledIsReset, DoneHasResult
  <2>5. CellIsCurrent'
    <3>1. \A d \in Calls : Active(d)' => Active(d) /\ d # c
      BY <2>0, <1>3 DEF AsyncBegin, Active
    <3>2. \A d \in Calls : d # c => cell'[d] = cell[d] /\ subs'[d] = subs[d]
      BY <1>3 DEF AsyncBegin
    <3>3. \A w \in Workers : wcur[w] # c
      BY <2>0 DEF Active
    <3> QED BY <3>1, <3>2, <3>3, <1>3, InHand
            DEF AsyncBegin, CellIsCurrent, Active, TypeInv, Holding
  <2> QED BY <2>1, <2>2, <2>3, <2>4, <2>5 DEF Rest
<1>4. CASE Cancel(c)
  <2>1. OneOwner' /\ AddsFree' /\ CellIsCurrent'
    BY <1>4 DEF Cancel, OneOwner, AddsFree, CellIsCurrent, Active
  <2>2. FreeIsIdle'
    BY <1>4 DEF Cancel, FreeIsIdle, Active
  <2>3. CancelledIsReset' /\ DoneHasResult'
    BY <1>4 DEF Cancel, CancelledIsReset, DoneHasResult
  <2> QED BY <2>1, <2>2, <2>3 DEF Rest
<1> QED BY <1>1, <1>2, <1>3, <1>4 DEF UserCall

\* The user thread inside the library.
LEMMA PatientMain ==
  ASSUME PatientInv, MainStep \/ WaitBegin \/ WaitOther \/ HandlerReturn
  PROVE  Rest'
<1> USE DEF PatientInv, TypeOK, UserStates, callVars, queueVars, mainVars, workerVars
<1>0. main \in {"add", "sempost", "dispatch"} => mcur \in Calls
  BY InHand DEF TypeInv
<1>1. CASE AsyncAdd
  <2>0. mcur \in Calls /\ usr[mcur] = "free" /\ ~Active(mcur) /\ state[mcur] = 0
    BY <1>0, <1>1 DEF AsyncAdd, AddsFree, FreeIsIdle
  <2>1. CASE Len(sq) = SqCap
    <3>1. OneOwner' /\ AddsFree' /\ CellIsCurrent'
      BY <2>1, <1>1 DEF AsyncAdd, OneOwner, AddsFree, CellIsCurrent, Active
    <3>2. FreeIsIdle'
      BY <2>0, <2>1, <1>1 DEF AsyncAdd, FreeIsIdle, Active
    <3>3. CancelledIsReset' /\ DoneHasResult'
      <4>1. /\ op' = [op EXCEPT ![mcur] = FALSE] /\ usr' = [usr EXCEPT ![mcur] = "free"]
            /\ UNCHANGED <<cell, subs>>
        BY <2>1, <1>1 DEF AsyncAdd
      <4> QED BY <4>1, <2>0 DEF CancelledIsReset, DoneHasResult
    <3> QED BY <3>1, <3>2, <3>3 DEF Rest
  <2>2. CASE Len(sq) < SqCap
    <3>1. /\ sq' = Append(sq, mcur) /\ main' = "sempost"
          /\ usr' = [usr EXCEPT ![mcur] = "pending"]
          /\ UNCHANGED <<op, cell, state, subs, cq, workerVars>>
      BY <2>2, <1>1 DEF AsyncAdd
    <3>2. \A d \in Calls : InSeq(d, sq') <=> InSeq(d, sq) \/ d = mcur
      BY <3>1, <2>0, InAppend
    <3>3. Injective(sq')
      BY <3>1, <2>0, InjectiveAppend DEF OneOwner, Active
    <3>4. \A d \in Calls : Active(d)' => Active(d) \/ d = mcur
      BY <3>1, <3>2 DEF Active
    <3>5. OneOwner'
      BY <2>0, <3>1, <3>2, <3>3 DEF OneOwner, Active
    <3>6. FreeIsIdle'
      BY <3>1, <3>4 DEF FreeIsIdle
    <3>7. CellIsCurrent'
      BY <2>0, <1>1, <3>1, <3>4 DEF CellIsCurrent, AddsFree, AsyncAdd
    <3>8. AddsFree' /\ CancelledIsReset' /\ DoneHasResult'
      BY <2>0, <3>1 DEF AddsFree, CancelledIsReset, DoneHasResult
    <3> QED BY <3>5, <3>6, <3>7, <3>8 DEF Rest
  <2> QED BY <2>1, <2>2, <1>1 DEF AsyncAdd
<1>2. CASE AsyncSemPost \/ WaitBegin \/ WaitEvent \/ WaitOther \/ PostConsume
           \/ CqEmpty \/ HandlerReturn
  <2>1. /\ main' \notin {"add", "dispatch"} /\ main \notin {"add", "dispatch"}
        /\ UNCHANGED <<op, state, cell, subs, usr, sq, cq, workerVars>>
    BY <1>2 DEF AsyncSemPost, WaitBegin, WaitEvent, WaitOther, PostConsume, CqEmpty,
                HandlerReturn
  <2>2. OneOwner' /\ AddsFree'
    BY <2>1 DEF OneOwner, AddsFree
  <2>3. FreeIsIdle' /\ CellIsCurrent'
    BY <2>1 DEF FreeIsIdle, CellIsCurrent, Active
  <2>4. CancelledIsReset' /\ DoneHasResult'
    BY <2>1 DEF CancelledIsReset, DoneHasResult
  <2> QED BY <2>2, <2>3, <2>4 DEF Rest
<1>3. CASE CqFetch
  <2>1. /\ cq # <<>> /\ cq' = Tail(cq) /\ mcur' = Head(cq)
        /\ main' = "dispatch" /\ main # "add" /\ main # "dispatch"
        /\ UNCHANGED <<op, state, cell, subs, usr, sq, workerVars>>
    BY <1>3 DEF CqFetch, CqRest
  <2>2. /\ Head(cq) \in Calls
        /\ \A d \in Calls : InSeq(d, cq) <=> InSeq(d, cq') \/ d = mcur'
    BY <2>1, InTail
  <2>3. Injective(cq') /\ ~InSeq(mcur', cq')
    BY <2>1, InjectiveTail DEF OneOwner
  <2>4. \A d \in Calls : Active(d)' => Active(d)
    BY <2>1, <2>2 DEF Active
  <2>5. OneOwner'
    <3>1. \A w \in Workers : wcur[w] \in Calls \/ wcur[w] = None
      OBVIOUS
    <3>2. InSeq(mcur', cq) /\ mcur' # None /\ mcur' \in Calls
      BY <2>1, <2>2, KCallAssumption
    <3>3. ~InSeq(mcur', sq) /\ \A w \in Workers : wcur[w] # mcur'
      BY <3>2 DEF OneOwner
    <3> QED BY <2>1, <2>2, <2>3, <3>1, <3>3 DEF OneOwner
  <2>6. FreeIsIdle'
    BY <2>1, <2>4 DEF FreeIsIdle
  <2>7. CellIsCurrent'
    BY <2>1, <2>2, <2>4 DEF CellIsCurrent
  <2>8. AddsFree' /\ CancelledIsReset' /\ DoneHasResult'
    BY <2>1 DEF AddsFree, CancelledIsReset, DoneHasResult
  <2> QED BY <2>5, <2>6, <2>7, <2>8 DEF Rest
<1>4. CASE CqDispatch
  <2>1. /\ main = "dispatch" /\ mcur \in Calls /\ main' \notin {"add", "dispatch"}
        /\ state' = [state EXCEPT ![mcur] = 0]
        /\ UNCHANGED <<op, cell, subs, sq, cq, workerVars>>
        /\ \/ op[mcur] /\ usr' = [usr EXCEPT ![mcur] = "done"]
           \/ usr' = usr
    BY <1>0, <1>4 DEF CqDispatch, HandlerWanted
  <2>2. \A d \in Calls : Active(d)' => Active(d) /\ d # mcur
    BY <2>1 DEF Active, OneOwner
  <2>3. OneOwner' /\ AddsFree'
    BY <2>1 DEF OneOwner, AddsFree
  <2>4. FreeIsIdle'
    BY <2>1, <2>2 DEF FreeIsIdle
  <2>5. CellIsCurrent'
    BY <2>1, <2>2 DEF CellIsCurrent
  <2>6. CancelledIsReset'
    BY <2>1 DEF CancelledIsReset
  <2>7. DoneHasResult'
    <3>1. cell[mcur] = [kind |-> "result", gen |-> subs[mcur]]
      <4>1. cell[mcur].kind = "result" /\ cell[mcur].gen = subs[mcur]
        BY <2>1 DEF CellIsCurrent, Active
      <4> QED BY <4>1, <2>1 DEF Cells
    <3> QED BY <3>1, <2>1 DEF DoneHasResult
  <2> QED BY <2>3, <2>4, <2>5, <2>6, <2>7 DEF Rest
<1> QED BY <1>1, <1>2, <1>3, <1>4 DEF MainStep

\* A worker.
LEMMA PatientWorker ==
  ASSUME PatientInv, NEW w \in Workers, WorkerStep(w)
  PROVE  Rest'
<1> USE DEF PatientInv, TypeOK, callVars, queueVars, mainVars, workerVars
<1>0. wpc[w] \in Holding => wcur[w] \in Calls /\ wcur[w] # None /\ Active(wcur[w])
  BY InHand DEF TypeInv, Located, Active
<1>1. CASE WorkerWake(w) \/ SqEmpty(w) \/ Post(w)
  <2>1. /\ \A v \in Workers : wpc'[v] \in Holding => wpc'[v] = wpc[v]
        /\ UNCHANGED <<callVars, sq, cq, mainVars, wcur, wgen>>
    BY <1>1 DEF WorkerWake, SqEmpty, Post, Holding
  <2>2. OneOwner' /\ AddsFree' /\ FreeIsIdle'
    BY <2>1 DEF OneOwner, AddsFree, FreeIsIdle, Active
  <2>3. CellIsCurrent'
    BY <2>1 DEF CellIsCurrent, Active, Holding
  <2>4. CancelledIsReset' /\ DoneHasResult'
    BY <2>1 DEF CancelledIsReset, DoneHasResult
  <2> QED BY <2>2, <2>3, <2>4 DEF Rest
<1>2. CASE SqFetch(w)
  <2>1. /\ wpc[w] = "fetch" /\ sq # <<>> /\ sq' = Tail(sq)
        /\ wcur' = [wcur EXCEPT ![w] = Head(sq)]
        /\ wpc' = [wpc EXCEPT ![w] = "exec"]
        /\ UNCHANGED <<callVars, cq, mainVars, wgen>>
    BY <1>2 DEF SqFetch, SqRest
  <2> DEFINE h == Head(sq)
  <2>2. /\ h \in Calls /\ h # None
        /\ \A d \in Calls : InSeq(d, sq) <=> InSeq(d, sq') \/ d = h
    BY <2>1, InTail, KCallAssumption
  <2>3. Injective(sq') /\ ~InSeq(h, sq')
    BY <2>1, InjectiveTail DEF OneOwner
  <2>4. wcur[w] = None /\ wcur'[w] = h /\ \A v \in Workers : v # w => wcur'[v] = wcur[v]
    BY <2>1 DEF Located, Holding
  <2> HIDE DEF h
  <2>5. \A d \in Calls : Active(d)' => Active(d)
    BY <2>1, <2>2, <2>4 DEF Active
  <2>6. OneOwner'
    <3>1. \A v \in Workers : wcur[v] \in Calls \/ wcur[v] = None
      OBVIOUS
    <3>2. InSeq(h, sq)
      BY <2>2
    <3>3. ~InSeq(h, cq) /\ \A v \in Workers : wcur[v] # h
      BY <2>2, <3>2 DEF OneOwner
    <3>4. main \in {"add", "dispatch"} => mcur \in Calls /\ mcur # h
      BY <3>2, InHand DEF TypeInv, OneOwner
    <3> QED BY <2>1, <2>2, <2>3, <2>4, <3>1, <3>3, <3>4 DEF OneOwner
  <2>7. FreeIsIdle'
    BY <2>1, <2>5 DEF FreeIsIdle
  <2>8. CellIsCurrent'
    BY <2>1, <2>4, <2>5 DEF CellIsCurrent
  <2>9. AddsFree' /\ CancelledIsReset' /\ DoneHasResult'
    BY <2>1 DEF AddsFree, CancelledIsReset, DoneHasResult
  <2> QED BY <2>6, <2>7, <2>8, <2>9 DEF Rest
<1>3. CASE ExecBegin(w)
  <2>1. /\ wpc[w] = "exec" /\ wpc'[w] \in {"call", "drop"}
        /\ wgen'[w] = cell[wcur[w]].gen
        /\ \A v \in Workers : v # w => wpc'[v] = wpc[v] /\ wgen'[v] = wgen[v]
        /\ UNCHANGED <<callVars, sq, cq, mainVars, wcur>>
    BY <1>3 DEF ExecBegin
  <2>2. OneOwner' /\ AddsFree' /\ FreeIsIdle'
    BY <2>1 DEF OneOwner, AddsFree, FreeIsIdle, Active
  <2>3. CellIsCurrent'
    BY <1>0, <2>1 DEF CellIsCurrent, Active, Holding
  <2>4. CancelledIsReset' /\ DoneHasResult'
    BY <2>1 DEF CancelledIsReset, DoneHasResult
  <2> QED BY <2>2, <2>3, <2>4 DEF Rest
<1>4. CASE ExecEnd(w)
  <2>1. /\ wpc[w] = "call" /\ wpc' = [wpc EXCEPT ![w] = "mark"]
        /\ cell' = [cell EXCEPT ![wcur[w]] = [kind |-> "result", gen |-> wgen[w]]]
        /\ UNCHANGED <<op, state, subs, usr, sq, cq, mainVars, wcur, wgen>>
    BY <1>4 DEF ExecEnd, Stored
  <2>2. OneOwner' /\ CancelledIsReset'
    BY <2>1 DEF OneOwner, CancelledIsReset
  <2>3. FreeIsIdle'
    BY <2>1 DEF FreeIsIdle, Active
  <2>4. wcur[w] \in Calls /\ usr[wcur[w]] \notin {"free", "done"}
    BY <1>0, <2>1 DEF FreeIsIdle, Holding
  <2>5. \A d \in Calls : d # wcur[w] => cell'[d] = cell[d]
    BY <2>1
  <2>6. AddsFree' /\ DoneHasResult'
    BY <2>1, <2>4, <2>5, InHand DEF AddsFree, DoneHasResult, TypeInv
  <2>7. CellIsCurrent'
    <3>1. cell'[wcur[w]].kind = "result" /\ cell'[wcur[w]].gen = subs[wcur[w]]
      BY <2>1, <2>4 DEF CellIsCurrent
    <3>2. \A d \in Calls : Active(d)' <=> Active(d)
      BY <2>1 DEF Active
    <3>3. \A v \in Workers : wpc'[v] \in {"mark", "add"} => cell'[wcur[v]].kind = "result"
      <4>1. \A v \in Workers : wpc[v] \in {"mark", "add"} =>
              wcur[v] \in Calls /\ cell[wcur[v]].kind = "result"
        BY InHand DEF CellIsCurrent, Holding, TypeInv
      <4> QED BY <2>1, <2>5, <3>1, <4>1
    <3>4. \A d \in Calls : InSeq(d, cq) => cell'[d].kind = "result"
      BY <2>5, <3>1 DEF CellIsCurrent
    <3>5. main = "dispatch" => cell'[mcur].kind = "result"
      BY <2>5, <3>1, InHand DEF CellIsCurrent, TypeInv
    <3>6. \A d \in Calls : Active(d) => cell'[d].gen = subs[d]
      BY <2>5, <3>1 DEF CellIsCurrent
    <3>7. \A v \in Workers : wpc'[v] = "call" => wgen[v] = subs[wcur[v]]
      BY <2>1 DEF CellIsCurrent
    <3> QED BY <2>1, <3>2, <3>3, <3>4, <3>5, <3>6, <3>7 DEF CellIsCurrent
  <2> QED BY <2>2, <2>3, <2>6, <2>7 DEF Rest
<1>5. CASE Drop(w)
  <2>1. /\ wpc[w] = "drop" /\ wpc' = [wpc EXCEPT ![w] = "fetch"]
        /\ wcur' = [wcur EXCEPT ![w] = None]
        /\ state' = [state EXCEPT ![wcur[w]] = 0]
        /\ UNCHANGED <<op, cell, subs, usr, sq, cq, mainVars, wgen>>
    BY <1>5 DEF Drop
  <2>2. \A d \in Calls : Active(d)' => Active(d)
    BY <2>1, KCallAssumption DEF Active
  <2>3. OneOwner'
    BY <2>1, InHand, KCallAssumption DEF OneOwner, TypeInv
  <2>4. FreeIsIdle'
    BY <2>1, <2>2 DEF FreeIsIdle
  <2>5. CellIsCurrent'
    BY <2>1, <2>2 DEF CellIsCurrent
  <2>6. AddsFree' /\ CancelledIsReset' /\ DoneHasResult'
    BY <2>1 DEF AddsFree, CancelledIsReset, DoneHasResult
  <2> QED BY <2>3, <2>4, <2>5, <2>6 DEF Rest
<1>6. CASE MarkDone(w)
  <2>1. /\ wpc[w] = "mark" /\ wpc' = [wpc EXCEPT ![w] = "add"]
        /\ state' = [state EXCEPT ![wcur[w]] = 2]
        /\ UNCHANGED <<op, cell, subs, usr, sq, cq, mainVars, wcur, wgen>>
    BY <1>6 DEF MarkDone, InCqState
  <2>2. usr[wcur[w]] \notin {"free", "done"}
    BY <1>0, <2>1 DEF FreeIsIdle, Holding
  <2>3. OneOwner' /\ AddsFree'
    BY <2>1 DEF OneOwner, AddsFree
  <2>4. FreeIsIdle'
    BY <2>1, <2>2 DEF FreeIsIdle, Active
  <2>5. CellIsCurrent'
    BY <2>1 DEF CellIsCurrent, Active
  <2>6. CancelledIsReset' /\ DoneHasResult'
    BY <2>1 DEF CancelledIsReset, DoneHasResult
  <2> QED BY <2>3, <2>4, <2>5, <2>6 DEF Rest
<1>7. CASE CqAdd(w)
  <2>1. /\ wpc[w] = "add" /\ wcur' = [wcur EXCEPT ![w] = None]
        /\ \A v \in Workers : wpc'[v] \in Holding => wpc'[v] = wpc[v]
        /\ cq' = cq \/ cq' = Append(cq, wcur[w])
        /\ UNCHANGED <<callVars, sq, mainVars, wgen>>
    BY <1>7 DEF CqAdd, Holding
  <2> DEFINE h == wcur[w]
  <2>2. /\ h \in Calls /\ h # None /\ ~InSeq(h, cq) /\ ~InSeq(h, sq)
        /\ cell[h].kind = "result"
    BY <1>0, <2>1 DEF OneOwner, CellIsCurrent, Holding
  <2>3. /\ \A d \in Calls : InSeq(d, cq') => InSeq(d, cq) \/ d = h
        /\ Injective(cq')
    <3>1. CASE cq' = cq
      BY <3>1 DEF OneOwner
    <3>2. CASE cq' = Append(cq, h)
      <4>1. Injective(cq)
        BY DEF OneOwner
      <4>2. Injective(cq')
        BY <4>1, <3>2, <2>2, InjectiveAppend
      <4>3. \A d \in Calls : InSeq(d, cq') => InSeq(d, cq) \/ d = h
        BY <3>2, <2>2, InAppend
      <4> QED BY <4>2, <4>3
    <3> QED BY <3>1, <3>2, <2>1
  <2>4. wcur'[w] = None /\ \A v \in Workers : v # w => wcur'[v] = wcur[v] /\ wcur[v] # h
    BY <2>1, <2>2 DEF OneOwner
  <2>5. \A d \in Calls : Active(d)' => Active(d)
    BY <2>1, <2>3, <2>4, KCallAssumption DEF Active
  <2>6. OneOwner'
    <3>1. main \in {"add", "dispatch"} => mcur \in Calls /\ mcur # h /\ mcur # None
      BY InHand, KCallAssumption DEF TypeInv, OneOwner
    <3>2. \A v \in Workers : wcur[v] \in Calls \/ wcur[v] = None
      OBVIOUS
    <3> HIDE DEF h
    <3> QED BY <2>1, <2>2, <2>3, <2>4, <3>1, <3>2 DEF OneOwner
  <2>7. FreeIsIdle'
    BY <2>1, <2>5 DEF FreeIsIdle
  <2>8. CellIsCurrent'
    <3>1. \A v \in Workers : wpc'[v] \in Holding => v # w
      BY <2>4, TypeWorker DEF TypeInv, Located
    <3> HIDE DEF h
    <3> QED BY <2>1, <2>2, <2>3, <2>4, <2>5, <3>1 DEF CellIsCurrent, Holding
  <2>9. AddsFree' /\ CancelledIsReset' /\ DoneHasResult'
    BY <2>1 DEF AddsFree, CancelledIsReset, DoneHasResult
  <2> QED BY <2>6, <2>7, <2>8, <2>9 DEF Rest
<1> QED BY <1>1, <1>2, <1>3, <1>4, <1>5, <1>6, <1>7 DEF WorkerStep

\* PatientInv is inductive when the user is patient.
LEMMA PatientInductive ==
  ASSUME Patient
  PROVE  Spec => []PatientInv
<1>1. Init => PatientInv
  <2> SUFFICES ASSUME Init PROVE PatientInv
    OBVIOUS
  <2>1. TypeOK /\ Located
    BY TypeInit DEF TypeInv
  <2>2. \A c : ~InSeq(c, sq) /\ ~InSeq(c, cq)
    BY DEF Init, InSeq
  <2>3. \A c \in Calls : ~Active(c)
    BY <2>2, KCallAssumption DEF Init, Active
  <2>4. OneOwner /\ FreeIsIdle /\ AddsFree
    BY <2>2, <2>3 DEF Init, OneOwner, Injective, FreeIsIdle, AddsFree
  <2>5. CancelledIsReset /\ CellIsCurrent /\ DoneHasResult
    BY <2>2, <2>3 DEF Init, CancelledIsReset, CellIsCurrent, DoneHasResult
  <2> QED BY <2>1, <2>4, <2>5 DEF PatientInv
<1>2. PatientInv /\ [Next]_vars => PatientInv'
  <2> SUFFICES ASSUME PatientInv, [Next]_vars PROVE PatientInv'
    OBVIOUS
  <2>1. TypeOK' /\ Located'
    BY TypeStep DEF TypeInv, PatientInv
  <2>2. Rest'
    <3>1. CASE UNCHANGED vars
      BY <3>1 DEF PatientInv, Rest, OneOwner, FreeIsIdle, AddsFree, CancelledIsReset,
         CellIsCurrent, DoneHasResult, Active, vars, callVars, queueVars, mainVars, workerVars
    <3> QED BY <3>1, PatientCall, PatientMain, PatientWorker DEF Next
  <2> QED BY <2>1, <2>2 DEF Rest, PatientInv
<1> QED BY <1>1, <1>2, PTL DEF Spec

\* An object of a patient user is never in two queues, twice in a queue, or in
\* the hands of two threads.
THEOREM ObjectHasOneOwner ==
  ASSUME Patient
  PROVE  Spec => []OneOwner
<1>1. PatientInv => OneOwner
  BY DEF PatientInv
<1> QED BY <1>1, PatientInductive, PTL

\* The result a patient user collects is that of the operation he started last.
THEOREM ResultBelongsToCall ==
  ASSUME Patient
  PROVE  Spec => []ResultIsCurrent
<1>1. PatientInv => ResultIsCurrent
  BY DEF PatientInv, DoneHasResult, FreeIsIdle, ResultIsCurrent, Busy
<1> QED BY <1>1, PatientInductive, PTL

\* The assertion on a full CQ (kcall.h:143) holds when CQ has room for every
\* object that shares it.
THEOREM CompletionQueueSuffices ==
  ASSUME Patient, Cardinality(Calls) <= CqCap
  PROVE  Spec => []CqNeverFull
<1>1. PatientInv => CqNeverFull
  <2> SUFFICES ASSUME PatientInv, NEW w \in Workers, wpc[w] = "add", Len(cq) = CqCap
               PROVE  FALSE
    BY DEF CqNeverFull, CqFull
  <2> DEFINE t == Append(cq, wcur[w])
  <2>1. wcur[w] \in Calls /\ ~InSeq(wcur[w], cq) /\ Injective(cq) /\ cq \in Seq(Calls)
    BY InHand, KCallAssumption DEF PatientInv, TypeInv, TypeOK, OneOwner, Holding
  <2>2. Injective(t) /\ t \in Seq(Calls) /\ Len(t) = CqCap + 1
    BY <2>1, InjectiveAppend
  <2> HIDE DEF t
  <2>3. Len(t) <= Cardinality(Calls) /\ Cardinality(Calls) \in Nat
    BY <2>2, InjectiveLen, FS_CardinalityType, KCallAssumption
  <2> QED BY <2>2, <2>3, KCallAssumption
<1> QED BY <1>1, PatientInductive, PTL

\* The handler of an operation that a patient user cancelled never runs.
THEOREM CancelIsFinal ==
  ASSUME Patient
  PROVE  Spec => CancelledStaysSilent
<1> DEFINE Silent == \A c \in Calls : usr[c] = "cancelled" => usr'[c] = "cancelled"
<1>1. PatientInv /\ [Next]_vars => [Silent]_vars
  <2> SUFFICES ASSUME PatientInv, Next, NEW c \in Calls, usr[c] = "cancelled"
               PROVE  usr'[c] = "cancelled"
    BY DEF Silent
  <2> USE DEF PatientInv, TypeOK, callVars
  <2>1. ASSUME NEW d \in Calls, UserCall(d) PROVE usr'[c] = "cancelled"
    BY <2>1 DEF UserCall, AsyncBusy, AsyncComplete, AsyncBegin, Cancel, MayCall
  <2>2. CASE AsyncAdd
    BY <2>2 DEF AsyncAdd, AddsFree
  <2>3. CASE CqDispatch
    BY <2>3 DEF CqDispatch, HandlerWanted, CancelledIsReset
  <2>4. CASE \/ AsyncSemPost \/ WaitBegin \/ WaitEvent \/ WaitOther \/ PostConsume
             \/ CqEmpty \/ CqFetch \/ HandlerReturn
    BY <2>4 DEF AsyncSemPost, WaitBegin, WaitEvent, WaitOther, PostConsume, CqEmpty,
                CqFetch, HandlerReturn
  <2>5. ASSUME NEW w \in Workers, WorkerStep(w) PROVE usr'[c] = "cancelled"
    BY <2>5 DEF WorkerStep, WorkerWake, SqEmpty, SqFetch, ExecBegin, ExecEnd, Drop,
                MarkDone, CqAdd, Post
  <2> QED BY <2>1, <2>2, <2>3, <2>4, <2>5 DEF Next, MainStep
<1>2. Spec => [][Silent]_vars
  BY <1>1, PatientInductive, PTL DEF Spec
<1> QED BY <1>2 DEF CancelledStaysSilent

\* The objects of a patient user pass safely from thread to thread, when CQ has
\* room for every object that shares it.
THEOREM HandOver ==
  ASSUME Patient, Cardinality(Calls) <= CqCap
  PROVE  Spec => []HandOverIsSafe
<1>1. OneOwner /\ ResultIsCurrent /\ CqNeverFull => HandOverIsSafe
  BY DEF HandOverIsSafe
<1> QED BY <1>1, ObjectHasOneOwner, ResultBelongsToCall, CompletionQueueSuffices, PTL

\* Neither a worker nor the user thread sleeps while there is something for it
\* in its queue, whatever the user does.
THEOREM WakeupsAreKept == Spec => []NoLostWakeup
<1>1. NoLostSubmission /\ NoLostCompletion => NoLostWakeup
  BY DEF NoLostWakeup
<1> QED BY <1>1, SubmissionIsSeen, CompletionIsSeen, PTL
=============================================================================
