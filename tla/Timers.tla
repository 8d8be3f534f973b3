------------------------------- MODULE Timers -------------------------------
(***************************************************************************)
(* What a timer queue promises: a function is called once its time has     *)
(* come, the earliest first, and when the queue has been processed nothing *)
(* that was due is left.  Time is not a machine word here: left[n] is how  *)
(* many milliseconds remain until n is due, negative when n is late.       *)
(***************************************************************************)
EXTENDS Integers

CONSTANTS
  Nodes,       \* the timer nodes
  Intervals    \* intervals a timer may be given: negative or 0 for one-shot

VARIABLES
  armed,  \* the nodes that wait for their time
  left,   \* time until each armed node is due
  period, \* the interval each node was given
  lag,    \* time since the queue was asked to process what is due
  phase   \* "idle", "scan": processing, "call": inside a timer's function

vars == <<armed, left, period, lag, phase>>

Magnitude(i) == IF i < 0 THEN -i ELSE i

Later(a, b) == IF a >= b THEN a ELSE b

Init ==
  /\ armed = {}
  /\ left = [n \in Nodes |-> 0]
  /\ period = [n \in Nodes |-> 0]
  /\ lag = 0
  /\ phase = "idle"

\* A millisecond passes.
Tick ==
  /\ left' = [n \in Nodes |-> IF n \in armed THEN left[n] - 1 ELSE left[n]]
  /\ lag' = IF phase = "idle" THEN lag ELSE lag + 1
  /\ UNCHANGED <<armed, period, phase>>

Arm(n, i) ==
  /\ phase # "scan"
  /\ armed' = armed \cup {n}
  /\ left' = [left EXCEPT ![n] = Magnitude(i)]
  /\ period' = [period EXCEPT ![n] = i]
  /\ UNCHANGED <<lag, phase>>

Disarm(n) ==
  /\ phase # "scan"
  /\ armed' = armed \ {n}
  /\ left' = [left EXCEPT ![n] = 0]
  /\ UNCHANGED <<period, lag, phase>>

Begin ==
  /\ phase = "idle"
  /\ phase' = "scan" /\ lag' = 0
  /\ UNCHANGED <<armed, left, period>>

\* n was due when the processing began.
Due(n) == n \in armed /\ left[n] + lag <= 0

\* Call the function of a due node that no other node precedes.  A periodic
\* node is armed again: one period after it was due, or, when that has passed
\* too, one millisecond after the processing began.
Fire(n) ==
  /\ phase = "scan"
  /\ Due(n)
  /\ \A m \in armed : left[n] <= left[m]
  /\ \/ /\ period[n] > 0
        /\ left' = [left EXCEPT ![n] = Later(left[n] + period[n], 1 - lag)]
        /\ UNCHANGED armed
     \/ /\ period[n] <= 0
        /\ left' = [left EXCEPT ![n] = 0]
        /\ armed' = armed \ {n}
  /\ phase' = "call"
  /\ UNCHANGED <<period, lag>>

Return ==
  /\ phase = "call"
  /\ phase' = "scan"
  /\ UNCHANGED <<armed, left, period, lag>>

End ==
  /\ phase = "scan"
  /\ \A n \in Nodes : ~Due(n)
  /\ phase' = "idle" /\ lag' = 0
  /\ UNCHANGED <<armed, left, period>>

Next ==
  \/ Tick
  \/ \E n \in Nodes : Disarm(n) \/ Fire(n) \/ \E i \in Intervals : Arm(n, i)
  \/ Begin \/ Return \/ End

Spec == Init /\ [][Next]_vars
=============================================================================
