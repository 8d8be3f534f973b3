----------------------------- MODULE TimerQueue -----------------------------
(***************************************************************************)
(* The timer queue of ffsys/timerqueue.h: nodes in a red-black tree,       *)
(* ordered by a 32-bit time in milliseconds that wraps around.             *)
(*                                                                         *)
(* The tree (ffbase, external) is modelled by its nodes in order.  Where   *)
(* _fftmrq_node_insert() puts a node depends on the shape of the tree when *)
(* the wrapped comparison is not an order; every gap between neighbours    *)
(* that agree with it can be reached.                                      *)
(*                                                                         *)
(* left and lag are not in the program: they are the exact times that the  *)
(* wrapped ones stand for.                                                 *)
(***************************************************************************)
EXTENDS Integers, Sequences

CONSTANTS
  Nodes,       \* the fftimerqueue_node objects
  Half,        \* 2^31: the width of the time is a parameter
  Intervals,   \* interval_msec: positive for periodic, else one-shot
  MaxInterval, \* bound on their magnitude
  MaxLate,     \* bound on how late a node may be processed
  Wraps        \* the clock may pass the end of its range

Mod == 2 * Half

Magnitude(i) == IF i < 0 THEN -i ELSE i \* ffint_abs()

\* "It works for the intervals less than 24 days [...] It doesn't work if
\* interval value is too large or the timer has been suspended for too long"
\* (timerqueue.h:112-117).  The two add up: nodes late by MaxLate and nodes
\* MaxInterval ahead are compared with each other.
ASSUME TimerAssumption ==
  /\ Half \in Nat
  /\ MaxInterval \in Nat \ {0}
  /\ MaxLate \in Nat
  /\ MaxInterval + MaxLate < Half
  /\ Intervals \subseteq Int
  /\ \A i \in Intervals : Magnitude(i) <= MaxInterval
  /\ Wraps \in BOOLEAN

VARIABLES
  now,      \* the clock the caller reads
  tree,     \* fftimerqueue.tree: its nodes in order
  key,      \* rbtnode.key
  interval, \* interval_msec
  active,
  pc,       \* "idle", "scan": in fftimerqueue_process(), "call": in node->func()
  pnow,     \* now_msec of fftimerqueue_process()
  fired,    \* nodes that fired in this call and were not added again
  left,     \* exact time until the node is due
  lag       \* exact time since fftimerqueue_process() was called

vars == <<now, tree, key, interval, active, pc, pnow, fired, left, lag>>

Words == 0..(Mod - 1)

\* One type invariant; it also bounds the exact times.
TypeOK ==
  /\ now \in Words
  /\ tree \in Seq(Nodes)
  /\ key \in [Nodes -> Words]
  /\ interval \in [Nodes -> Intervals \cup {0}]
  /\ active \in [Nodes -> BOOLEAN]
  /\ pc \in {"idle", "scan", "call"}
  /\ pnow \in Words
  /\ fired \subseteq Nodes
  /\ left \in [Nodes -> -MaxLate..MaxInterval]
  /\ lag \in 0..MaxLate

\* The clock stays far enough from its end.
ClockFits(t) == Wraps \/ t + MaxInterval + 1 < Mod

Init ==
  /\ now \in Words /\ ClockFits(now)
  /\ tree = <<>>
  /\ key = [n \in Nodes |-> 0]
  /\ interval = [n \in Nodes |-> 0]
  /\ active = [n \in Nodes |-> FALSE]
  /\ pc = "idle"
  /\ pnow = 0
  /\ fired = {}
  /\ left = [n \in Nodes |-> 0]
  /\ lag = 0

-----------------------------------------------------------------------------
(* 32-bit arithmetic. *)

Plus(a, b) == IF a + b >= Mod THEN a + b - Mod ELSE a + b

\* The mutant is a difference that is wider than the time.
MinusWide(a, b) == a - b
Minus(a, b) == IF a >= b THEN a - b ELSE a - b + Mod
Signed(a) == IF a >= Half THEN a - Mod ELSE a

\* ffmax() of two unsigned numbers
UMax(a, b) == IF a >= b THEN a ELSE b

\* Is a node with key k put to the left of one with key l?  The mutant forgets
\* that the time wraps.
GoesLeftUnsigned(k, l) == k < l
GoesLeft(k, l) == Signed(Minus(k, l)) < 0

-----------------------------------------------------------------------------
(* The tree. *)

RemoveAt(s, i) == [j \in 1..(Len(s) - 1) |-> IF j < i THEN s[j] ELSE s[j + 1]]

InsertAfter(s, i, n) ==
  [j \in 1..(Len(s) + 1) |-> IF j <= i THEN s[j] ELSE IF j = i + 1 THEN n ELSE s[j - 1]]

\* The gaps in s where _fftmrq_node_insert() may put a node with key k.
Gaps(s, k) ==
  {i \in 0..Len(s) :
     /\ i > 0 => ~GoesLeft(k, key[s[i]])
     /\ i < Len(s) => GoesLeft(k, key[s[i + 1]])}

\* ffrbt_rm() of a node of the tree
Without(n) == RemoveAt(tree, CHOOSE i \in DOMAIN tree : tree[i] = n)

\* The tree after fftimerqueue_remove(); the mutant leaves a node that
\* is added again where it was.
DetachedNot(n) == tree
Detached(n) == IF active[n] THEN Without(n) ELSE tree

-----------------------------------------------------------------------------
\* Functions may be called from outside fftimerqueue_process() and from a
\* timer's function.
UserRuns == pc \in {"idle", "call"}

\* A millisecond passes; nothing gets later than MaxLate.
Tick ==
  /\ \A n \in Nodes : active[n] => left[n] > -MaxLate
  /\ pc # "idle" => lag < MaxLate
  /\ ClockFits(now + 1)
  /\ now' = Plus(now, 1)
  /\ left' = [n \in Nodes |-> IF active[n] THEN left[n] - 1 ELSE left[n]]
  /\ lag' = IF pc = "idle" THEN lag ELSE lag + 1
  /\ UNCHANGED <<tree, key, interval, active, pc, pnow, fired>>

\* fftimerqueue_remove()
Remove(n) ==
  /\ UserRuns
  /\ tree' = Detached(n)
  /\ active' = [active EXCEPT ![n] = FALSE]
  /\ left' = [left EXCEPT ![n] = 0]
  /\ UNCHANGED <<now, key, interval, pc, pnow, fired, lag>>

\* fftimerqueue_add() and fftimerqueue_addnode()
Add(n, i) ==
  /\ UserRuns
  /\ LET k == Plus(now, Magnitude(i)) IN
       /\ \E g \in Gaps(Detached(n), k) : tree' = InsertAfter(Detached(n), g, n)
       /\ key' = [key EXCEPT ![n] = k]
  /\ interval' = [interval EXCEPT ![n] = i]
  /\ active' = [active EXCEPT ![n] = TRUE]
  /\ left' = [left EXCEPT ![n] = Magnitude(i)]
  /\ fired' = fired \ {n}
  /\ UNCHANGED <<now, pc, pnow, lag>>

-----------------------------------------------------------------------------
(* fftimerqueue_process() *)

ProcessBegin ==
  /\ pc = "idle"
  /\ pc' = "scan"
  /\ pnow' = now /\ lag' = 0 /\ fired' = {}
  /\ UNCHANGED <<now, tree, key, interval, active, left>>

\* Is the time of this event in the past?
Expired(n) == Signed(Minus(key[n], pnow)) <= 0

\* The next key of a periodic node.
NextKey(n) == UMax(Plus(key[n], interval[n]), Plus(pnow, 1))

\* What NextKey(n) means: the later of the two times.
NextLeft(n) == IF left[n] + interval[n] >= 1 - lag THEN left[n] + interval[n] ELSE 1 - lag

\* Take the first node, add it again if it is periodic, call its function.
ProcessFire ==
  /\ pc = "scan" /\ tree # <<>>
  /\ LET n == Head(tree) IN
       /\ Expired(n)
       /\ \/ /\ interval[n] > 0
             /\ key' = [key EXCEPT ![n] = NextKey(n)]
             /\ \E g \in Gaps(Tail(tree), NextKey(n)) : tree' = InsertAfter(Tail(tree), g, n)
             /\ left' = [left EXCEPT ![n] = NextLeft(n)]
             /\ UNCHANGED active
          \/ /\ interval[n] <= 0
             /\ tree' = Tail(tree)
             /\ active' = [active EXCEPT ![n] = FALSE]
             /\ left' = [left EXCEPT ![n] = 0]
             /\ UNCHANGED key
       /\ fired' = fired \cup {n}
  /\ pc' = "call"
  /\ UNCHANGED <<now, interval, pnow, lag>>

FuncReturn ==
  /\ pc = "call"
  /\ pc' = "scan"
  /\ UNCHANGED <<now, tree, key, interval, active, pnow, fired, left, lag>>

\* No node is left, or the first one is not due; the mutant goes on with a node
\* that is not due.
ProcessEndEmpty ==
  /\ pc = "scan"
  /\ tree # <<>> => ~Expired(Head(tree))
  /\ pc' = IF tree = <<>> THEN "idle" ELSE "call"
  /\ UNCHANGED <<now, tree, key, interval, active, pnow, fired, left, lag>>

ProcessEnd ==
  /\ pc = "scan"
  /\ tree # <<>> => ~Expired(Head(tree))
  /\ pc' = "idle"
  /\ pnow' = 0 /\ lag' = 0 /\ fired' = {}
  /\ UNCHANGED <<now, tree, key, interval, active, left>>

Next ==
  \/ Tick
  \/ \E n \in Nodes : Remove(n) \/ \E i \in Intervals : Add(n, i)
  \/ ProcessBegin
  \/ ProcessFire
  \/ FuncReturn
  \/ ProcessEnd

Spec == Init /\ [][Next]_vars

\* fftimerqueue_process() runs on, and the functions it calls return.
Fairness == WF_vars(ProcessFire) /\ WF_vars(ProcessEnd) /\ WF_vars(FuncReturn)

FairSpec == Spec /\ Fairness

-----------------------------------------------------------------------------
(* Properties *)

InTree(n, s) == \E i \in DOMAIN s : s[i] = n

Distinct(s) == \A i, j \in DOMAIN s : s[i] = s[j] => i = j

\* A node is in the tree exactly when it is marked active, and only once: else
\* ffrbt_rm() of a node that is in no tree corrupts it (timerqueue.h:68-69).
TreeMatchesActive ==
  /\ \A n \in Nodes : active[n] <=> InTree(n, tree)
  /\ Distinct(tree)

\* The signed difference of the 32-bit key and clock is the exact time until the
\* node is due, also when the clock has wrapped between (timerqueue.h:109-121).
KeyIsDue == \A n \in Nodes : active[n] => Signed(Minus(key[n], now)) = left[n]

\* The tree holds the active nodes, at their times (timerqueue.h:64-92).
TreeIsRight == TreeMatchesActive /\ KeyIsDue

Fires(n) == pc = "scan" /\ pc' = "call" /\ n = Head(tree)

\* A node fires only when its time has come (timerqueue.h:109-121).
NeverEarly == [][\A n \in Nodes : Fires(n) => left[n] + lag <= 0]_vars

\* One call of fftimerqueue_process() fires a node at most once, however late it
\* is, unless it was added again in between (timerqueue.h:129).
OncePerCall == [][\A n \in Nodes : Fires(n) => n \notin fired]_vars

\* fftimerqueue_process() returns, however late the nodes are and whatever their functions
\* add, unless a node is added that is due at once (timerqueue.h:104-136).
ProcessReturns == pc # "idle" ~> (pc = "idle" \/ \E n \in Nodes : active[n] /\ interval[n] = 0)

\* The queue keeps the promise of a timer queue with exact times.
Exact == INSTANCE Timers WITH
  armed <- {n \in Nodes : active[n]},
  period <- interval,
  phase <- pc

ExactTimers == Exact!Spec

-----------------------------------------------------------------------------
(* The inductive invariant, for a clock that does not wrap or nodes that   *)
(* are not periodic.                                                       *)

SortedBy(s, f) == \A i, j \in DOMAIN s : i < j => f[s[i]] <= f[s[j]]

\* Where fftimerqueue_process() was called from is lag behind the clock.
CallIsPast == pc # "idle" => Signed(Minus(now, pnow)) = lag

\* While the clock has not wrapped, neither has anything measured by it.
NothingWrapped ==
  ~Wraps => /\ ClockFits(now)
            /\ pc # "idle" => pnow = now - lag
            /\ \A n \in Nodes : active[n] => key[n] = now + left[n]

\* A node that has fired in this call is not due again in it.
FiredIsLater == \A n \in fired : active[n] => left[n] + lag >= 1

Safe == ~Wraps \/ \A i \in Intervals : i <= 0

TimerInv ==
  /\ TypeOK
  /\ TreeMatchesActive
  /\ KeyIsDue
  /\ SortedBy(tree, left)
  /\ CallIsPast
  /\ NothingWrapped
=============================================================================
