------------------------------ MODULE KqSignal ------------------------------
(***************************************************************************)
(* UNIX signals as events of a kernel queue (ffsys/signal.h): signalfd on  *)
(* Linux, one EVFILT_SIGNAL note per signal elsewhere.                     *)
(***************************************************************************)
EXTENDS KernelQueue

CONSTANTS
  Sigs,     \* the signals, blocked with ffsig_mask(); Sigs \subseteq Kinds
  MaxRaised \* bound of how often a signal is sent

VARIABLES
  pending, \* Linux: the signals that are pending for the process
  raised,  \* the signals sent since attached that the user has not read
  sent,    \* how many were sent
  ident    \* BSD: ev->ident is -1: the event was read

signalVars == <<pending, raised, sent, ident>>

SignalInit == pending = {} /\ raised = {} /\ sent = 0 /\ ident = FALSE
SignalTypeOK ==
  /\ pending \subseteq Sigs /\ raised \subseteq Sigs
  /\ sent \in 0..MaxRaised /\ ident \in BOOLEAN

SignalKinds == IF sys = "linux" THEN {"signalfd"} ELSE Sigs
SignalObjects == {Handle(k) : k \in SignalKinds}
Attached == \A k \in SignalKinds : cur[k] # 0
SignalFds == {o \in live : o[1] = "signalfd"}

\* ffkqsig_attach(): signals that are pending already make signalfd ready; one kevent()
\* call adds a note for each signal.
SignalNew ==
  /\ at = "loop" /\ New(SignalKinds)
  /\ live' = live \cup {<<k, made'[k]>> : k \in SignalKinds}
  /\ ident' = FALSE
  /\ UNCHANGED <<sys, held, full, batch, at, pending, sent>>

SignalAttachLinux ==
  /\ sys = "linux" /\ SignalNew
  /\ ready' = IF pending # {} THEN ReadyWith({<<"signalfd", made'["signalfd"]>>}) ELSE ready
  /\ raised' = pending
SignalAttachBsd == sys = "bsd" /\ SignalNew /\ raised' = {} /\ UNCHANGED ready

\* close(); BSD: the bits of the mask become EV_DELETEs.
SignalForget ==
  /\ at = "loop" /\ Forget(SignalKinds) /\ raised' = {}
  /\ UNCHANGED <<sys, made, held, batch, at, pending, sent, ident>>

SignalDetachLinux == sys = "linux" /\ SignalForget /\ Drop(SignalObjects)
SignalDetachBsd == sys = "bsd" /\ SignalForget /\ Drop(SignalObjects)

\* A blocked signal is pending once; kqueue counts it only while it is attached.
Raise(s) ==
  /\ sys # "windows" /\ sent < MaxRaised
  /\ sent' = sent + 1
  /\ raised' = IF Attached THEN raised \cup {s} ELSE raised
  /\ IF sys = "linux"
     THEN /\ pending' = pending \cup {s}
          /\ ready' = ReadyWith(SignalFds)
          /\ UNCHANGED full
     ELSE LET os == {o \in live : o[1] = s} IN
          full' = full \cup os /\ ready' = ReadyWith(os) /\ UNCHANGED pending
  /\ UNCHANGED <<sys, made, cur, live, held, batch, at, ident>>

\* ffkqsig_read(), which the user calls until it returns an error: read() does when
\* nothing is pending (the mutant's may fail earlier).
SignalFdFails == TRUE
SignalFdDone == pending = {}

SignalFdRead(s) ==
  /\ at = "signalfd" /\ s \in pending
  /\ pending' = pending \ {s} /\ raised' = raised \ {s}
  /\ Stay /\ UNCHANGED <<sent, ident>>

SignalFdEmpty ==
  /\ at = "signalfd" /\ SignalFdDone
  /\ Return /\ UNCHANGED signalVars

\* BSD: the event has the signal's number, and -1 after it was read.
IdentAfter == TRUE

NoteRead ==
  /\ at \in Sigs /\ ~ident
  /\ raised' = IF Handle(at) \in full THEN raised ELSE raised \ {at}
  /\ ident' = IdentAfter
  /\ Stay /\ UNCHANGED <<pending, sent>>

NoteEmpty ==
  /\ at \in Sigs /\ ident
  /\ ident' = FALSE
  /\ Return /\ UNCHANGED <<pending, raised, sent>>

SignalHandling == SignalFdEmpty \/ NoteRead \/ NoteEmpty \/ \E s \in Sigs : SignalFdRead(s)
SignalOther ==
  \/ SignalAttachLinux \/ SignalAttachBsd \/ SignalDetachLinux \/ SignalDetachBsd
  \/ \E s \in Sigs : Raise(s)
=============================================================================
