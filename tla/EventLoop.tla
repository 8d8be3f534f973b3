----------------------------- MODULE EventLoop -----------------------------
(***************************************************************************)
(* A program around one kernel queue: a user event, a timer, signals, a    *)
(* named pipe, a terminal or a socket are attached to it, and its thread   *)
(* waits and handles.  Or the program lets signals call a handler.         *)
(***************************************************************************)
EXTENDS UserEvent, UnixTimer, KqSignal, NamedPipe, TcpServer, KeyInput, Datagram, SigHandler

CONSTANT Programs \* the sets of components that a program uses

\* Signals and clients have names of their own; a connection has two notes.
OwnKinds == {"post", "timer", "signalfd", "pipe", "stdin", "udp", "listen"}
ASSUME KindsAssumption ==
  /\ Kinds = OwnKinds \cup Sigs \cup Peers /\ IsFiniteSet(Kinds)
  /\ Sigs \cap Peers = {} /\ (Sigs \cup Peers) \cap (OwnKinds \cup {"loop"}) = {}
ASSUME QueueAssumption ==
  MaxMade \in Nat \ {0, 1} /\ EventsCap \in Nat \ {0} /\ MaxPosts \in Nat /\ MaxRaised \in Nat

VARIABLE uses \* what this program uses

vars == <<kqVars, postVars, timerVars, signalVars, pipeVars, serverVars, keyVars, udpVars, handlerVars, uses>>

\* What the steps of one component leave alone.
OnlyPost == UNCHANGED <<timerVars, signalVars, pipeVars, serverVars, keyVars, udpVars, handlerVars, uses>>
OnlyTimer == UNCHANGED <<postVars, signalVars, pipeVars, serverVars, keyVars, udpVars, handlerVars, uses>>
OnlySignal == UNCHANGED <<postVars, timerVars, pipeVars, serverVars, keyVars, udpVars, handlerVars, uses>>
OnlyPipe == UNCHANGED <<postVars, timerVars, signalVars, serverVars, keyVars, udpVars, handlerVars, uses>>
OnlyServer == UNCHANGED <<postVars, timerVars, signalVars, pipeVars, keyVars, udpVars, handlerVars, uses>>
OnlyKeys == UNCHANGED <<postVars, timerVars, signalVars, pipeVars, serverVars, udpVars, handlerVars, uses>>
OnlyUdp == UNCHANGED <<postVars, timerVars, signalVars, pipeVars, serverVars, keyVars, handlerVars, uses>>
OnlyHandler == UNCHANGED <<postVars, timerVars, signalVars, pipeVars, serverVars, keyVars, udpVars, uses>>
OnlyQueue == UNCHANGED <<postVars, timerVars, signalVars, pipeVars, serverVars, keyVars, udpVars, handlerVars, uses>>

\* The sockets and the terminal are there from the beginning.
AtFirst == {"listen", "stdin", "udp"}
Server == uses = {"server"}

Init ==
  /\ uses \in Programs
  /\ sys \in {"linux", "bsd", "windows"} /\ (Server => sys # "windows")
  /\ made = [k \in Kinds |-> IF k \in AtFirst THEN 1 ELSE 0]
  /\ cur = made /\ live = {<<k, 1>> : k \in AtFirst}
  /\ held = {} /\ full = {} /\ batch = <<>>
  /\ ready = IF Server THEN ServerReady ELSE <<>>
  /\ at = IF "udp" \in uses THEN "udp" ELSE "loop"
  /\ PostInit /\ TimerInit /\ SignalInit /\ PipeInit /\ KeyInit /\ UdpInit /\ HandlerInit
  /\ ServerInit /\ (~Server => app = "echo")

\* What poll() finds when it looks at an object of the ready list.
Pollable ==
  full \cup (IF Waiting # {} THEN {Pipe} ELSE {})
       \cup (IF pending # {} THEN SignalFds ELSE {})
       \cup (IF tty # <<>> THEN {Stdin} ELSE {})
       \cup (IF queue # <<>> \/ soError = "refused" THEN {Udp} ELSE {})
       \cup ServerPollable

\* What the user's thread does with an event.
Handling ==
  \/ PostHandling /\ OnlyPost
  \/ TimerHandling /\ OnlyTimer
  \/ SignalHandling /\ OnlySignal
  \/ PipeHandling /\ OnlyPipe
  \/ ServerHandling /\ OnlyServer
  \/ KeyHandling /\ OnlyKeys
  \/ UdpHandling /\ OnlyUdp

\* It waits, and looks at the next event; the examples trust its data.
Waiter ==
  \/ \E os \in {Pollable} : Wait(os, TimerDone, IF Server THEN ServerCap ELSE EventsCap)
  \/ Take(IF Server THEN Objects ELSE Opened)
Waits == up /\ Waiter /\ OnlyQueue

\* What happens otherwise: the program's calls, and the world.
UdpOther == Arrive \/ Refused \/ UdpEarly

Other ==
  \/ "post" \in uses /\ PostOther /\ OnlyPost
  \/ "timer" \in uses /\ TimerOther /\ OnlyTimer
  \/ "signal" \in uses /\ SignalOther /\ OnlySignal
  \/ "pipe" \in uses /\ PipeOther /\ OnlyPipe
  \/ Server /\ PeerActs /\ OnlyServer
  \/ "stdin" \in uses /\ (\E k \in Keys : KeyType(k)) /\ OnlyKeys
  \/ "udp" \in uses /\ UdpOther /\ OnlyUdp
  \/ "handler" \in uses /\ HandlerStep /\ OnlyHandler
  \/ uses \cap {"post", "timer"} # {} /\ Exec /\ OnlyQueue

Next == Handling \/ Waits \/ Other

Spec == Init /\ [][Next]_vars
FairSpec == Spec /\ WF_vars(Handling) /\ SF_vars(Waits)

-----------------------------------------------------------------------------
TypeOK ==
  /\ KqTypeOK /\ PostTypeOK /\ TimerTypeOK /\ SignalTypeOK /\ PipeTypeOK
  /\ ServerTypeOK /\ KeyTypeOK /\ UdpTypeOK /\ HandlerTypeOK

\* The user is told of an object that he has: its event waits or is in his hands.
Coming(k) == at = k \/ Handle(k) \in ToSet(ready) \cup ToSet(batch)

\* Events are edges: what the user has not seen yet (a post, an expiry, a signal, a
\* connection) is announced by an event that is still ahead of him, however posts,
\* waits and reads interleave.
NoLostEvent ==
  /\ posted => Coming("post")
  /\ expired => Coming("timer")
  /\ \A s \in raised : Coming(IF sys = "linux" THEN "signalfd" ELSE s)
  /\ Waiting # {} => Coming("pipe")
  /\ tty # <<>> => Coming("stdin")
  /\ queue # <<>> \/ soError = "refused" \/ io \in {"done", "failed"} => Coming("udp")
  /\ up => \A p \in Conns : Readable(p) => at = p \/ Notes(p) \cap (ToSet(ready) \cup ToSet(batch)) # {}

\* UNIX: after a user event, a timer, signals or a connection are detached or closed,
\* ffkq_wait() returns no event with their data, unless a child process has the descriptor
\* open.
DetachedIsSilent ==
  sys # "windows" => ToSet(batch) \subseteq Opened \cup held \cup UNION {Notes(p) : p \in Conns}

\* An event of a timer means that it has expired since it was started last: none is left
\* over from before a stop or another start.
TimerTells ==
  at = "timer" \/ Timer \in ToSet(batch) => expired

\* Windows: ConnectNamedPipe() is not called for a task whose operation is pending, and
\* the task knows of it.
PendingIsActive == op = "pending" => active /\ inst = "listening"

\* The keys that ffstd_key_parse() can tell: on Windows the virtual keys of its tables and
\* the characters that are ASCII (std.h:219-244).
Told(k) == sys = "windows" => k.name \in Virtual \cup {"a"}

\* The key that ffstd_key_parse() finds in what was read is the one that was typed, whatever
\* follows it, and it takes all of the key's bytes and no others; "return FFKEY_VIRT for
\* unhandled events" (std.h:655) or an error for a key that it cannot tell, never another key.
KeysAsTyped ==
  data # <<>> /\ ~Released =>
    /\ IF Told(Head(due)) THEN Key(Parsed.name, Parsed.mods) = Head(due)
       ELSE Parsed.name \in {"skip", "error"}
    /\ sys # "windows" => Parsed.read = Len(Sequence(Head(due)))

\* No datagram that the socket has taken is lost, got twice or overwritten in the user's
\* buffer, whenever he calls and whatever fails.
DatagramsAreKept ==
  heard \o (IF io = "done" THEN <<buf>> ELSE <<>>) \o queue = [i \in 1..arrived |-> i]

\* The examples: an event's data is a connection that is not freed.
DataIsLive == Server /\ at \in Peers => cur[at] # 0

\* The router has each open connection once in its list, and no other.
ConnsAreOpen == app = "router" => IsInjective(conns) /\ ToSet(conns) = Conns

\* An event tells of something that the user has and that has happened: not of what he has
\* detached or freed, nor of what he has taken back.
EventsAreTrue == DetachedIsSilent /\ TimerTells /\ DataIsLive /\ ConnsAreOpen

\* Windows gives back what it was given for an operation, and only then is it used again.
OperationsAreKept == PendingIsActive /\ DatagramsAreKept

\* A handler runs when and as often as it was asked for.
HandlersRunAsAsked == StackIsCovered /\ OnceMeansOnce

\* A client of the pipe has not been answered, or of the server not been read; a terminal or
\* a socket has input.
Unserved(c) == (c \in Clients /\ client[c] = "waits") \/ (c \in Conns /\ Readable(c))
Unread == tty # <<>> \/ queue # <<>>

\* Everything the user waits for is handled, provided his thread goes on.
EventsAreHandled ==
  /\ posted ~> ~posted
  /\ expired ~> ~expired \/ at = "timer"
  /\ \A s \in Sigs : s \in raised ~> s \notin raised
  /\ \A c \in Clients \cup Peers : Unserved(c) ~> ~Unserved(c) \/ ~up
  /\ Unread ~> ~Unread
=============================================================================
