----------------------------- MODULE UnixTimer -----------------------------
(***************************************************************************)
(* The timer of Linux (timerfd) and of BSD (EVFILT_TIMER) (ffsys/timer.h). *)
(***************************************************************************)
EXTENDS KernelQueue

VARIABLES
  armed,  \* the system's timers: "off", "once", "periodic"
  byte,   \* BSD: the byte at tmr, the note may exist
  expired \* the timer has expired since it was started or handled last

timerVars == <<armed, byte, expired>>

TimerInit ==
  armed = [g \in 1..MaxMade |-> "off"] /\ byte = FALSE /\ expired = FALSE
TimerTypeOK ==
  /\ armed \in [1..MaxMade -> {"off", "once", "periodic"}]
  /\ byte \in BOOLEAN /\ expired \in BOOLEAN

Timer == Handle("timer")
TimerSet(mode) ==
  armed' = [g \in 1..MaxMade |-> IF g = cur["timer"] THEN mode ELSE armed[g]]

\* The user's own thread, with no event of the timer in hand.  He starts a timer with a
\* period other than 0, which would disarm a timerfd, and always with the same data.
TimerUsable == at = "loop" /\ cur["timer"] # 0 /\ Timer \notin ToSet(batch)

\* Linux: timerfd_create(); BSD: a byte, whose address is the note's id.
TimerNew ==
  /\ at = "loop" /\ New({"timer"})
  /\ byte' = FALSE /\ expired' = FALSE
  /\ UNCHANGED <<sys, live, held, full, ready, batch, at, armed>>

TimerCreateLinux == sys = "linux" /\ TimerNew
TimerCreateBsd == sys = "bsd" /\ TimerNew

\* Linux: attached on the first start (EEXIST later); timerfd_settime() takes expiries
\* back.  BSD: adding a note again does so, and the byte tells that it was added
\* (not so in the mutant).
ByteNever == FALSE
ByteSet == TRUE

TimerBegin(mode) ==
  /\ TimerUsable
  /\ live' = live \cup {Timer} /\ full' = full \ {Timer}
  /\ TimerSet(mode)
  /\ expired' = FALSE
  /\ UNCHANGED <<sys, made, cur, held, batch, at>>

TimerStartLinux(mode) == sys = "linux" /\ TimerBegin(mode) /\ UNCHANGED <<ready, byte>>
TimerStartBsd(mode) ==
  sys = "bsd" /\ TimerBegin(mode) /\ ready' = ReadyOnly(Objects \ {Timer}) /\ byte' = ByteSet

\* Linux: a zero time takes expiries back.  BSD: EV_DELETE fails when the note is gone,
\* and the byte stays.
TimerStopNot == full
TimerStopped == full \ {Timer}

TimerEnd ==
  /\ TimerUsable /\ TimerSet("off") /\ expired' = FALSE
  /\ UNCHANGED <<sys, made, cur, held, batch, at>>

TimerStopLinux == sys = "linux" /\ TimerEnd /\ full' = TimerStopped /\ UNCHANGED <<live, ready, byte>>
TimerStopBsd == sys = "bsd" /\ TimerEnd /\ Drop({Timer}) /\ byte' = (byte /\ Timer \notin live)

TimerForget ==
  /\ TimerUsable /\ Forget({"timer"}) /\ expired' = FALSE
  /\ UNCHANGED <<sys, made, held, batch, at, armed, byte>>

TimerCloseLinux == sys = "linux" /\ TimerForget /\ Drop({Timer})
TimerCloseBsd ==
  sys = "bsd" /\ TimerForget /\ IF byte THEN Drop({Timer}) ELSE UNCHANGED <<live, full, ready>>

TimerExpire(g) ==
  LET o == <<"timer", g>> IN
  /\ o \in live /\ armed[g] # "off"
  /\ armed' = [armed EXCEPT ![g] = IF @ = "once" THEN "off" ELSE @]
  /\ full' = full \cup {o}
  /\ ready' = ReadyWith({o})
  /\ expired' = (expired \/ g = cur["timer"])
  /\ UNCHANGED <<sys, made, cur, live, held, batch, at, byte>>

\* The notes that kqueue deletes when it delivers them (EV_ONESHOT).
TimerDone == {<<"timer", g>> : g \in {h \in 1..MaxMade : armed[h] = "off"}}

\* fftimer_consume(): one read() takes all expiries; nothing on BSD.
TimerConsumeLinux ==
  /\ at = "timer" /\ sys = "linux"
  /\ full' = full \ {Timer} /\ expired' = FALSE /\ at' = "loop"
  /\ UNCHANGED <<sys, made, cur, live, held, ready, batch, armed, byte>>
TimerConsumeBsd ==
  /\ at = "timer" /\ sys = "bsd" /\ expired' = (Timer \in full)
  /\ Return /\ UNCHANGED <<armed, byte>>

TimerHandling == TimerConsumeLinux \/ TimerConsumeBsd
TimerOther ==
  \/ TimerCreateLinux \/ TimerCreateBsd \/ TimerStopLinux \/ TimerStopBsd
  \/ TimerCloseLinux \/ TimerCloseBsd
  \/ \E mode \in {"once", "periodic"} : TimerStartLinux(mode) \/ TimerStartBsd(mode)
  \/ \E g \in 1..MaxMade : TimerExpire(g)
=============================================================================
