----------------------------- MODULE TcpServer -----------------------------
(***************************************************************************)
(* The examples on UNIX: tcp-echo-server sends what it receives back,      *)
(* tcp-msg-router sends it to all clients.  One thread waits for one event *)
(* at a time and calls the handler that the event's data points to.        *)
(***************************************************************************)
EXTENDS KernelQueue

CONSTANTS
  Peers,    \* the clients, each connects once
  MaxBytes, \* bound of what all of them send
  BufCap,   \* size of the server's buffer
  SndCap    \* size of a socket's send buffer

ASSUME ServerAssumption == BufCap \in Nat \ {0} /\ SndCap \in Nat /\ MaxBytes \in Nat

VARIABLES
  app,     \* "echo", "router"
  up,      \* the server has not exited
  backlog, \* the connections that accept() has not returned yet
  peer,    \* "out", "open", "fin" (has shut down), "reset" (is gone)
  given,   \* bytes that the clients have sent
  unread,  \* bytes that the server has not received
  unsent,  \* bytes in the connection's send buffer
  conns    \* router: srv->conns

serverVars == <<app, up, backlog, peer, given, unread, unsent, conns>>
peerVars == <<app, up, backlog, given, conns>>

\* A connection is attached with FFKQ_READWRITE: one descriptor in epoll, a note for
\* each filter in kqueue, all of them with the same data.
Listener == <<"listen", 1>>
ReadNote(p) == <<p, 1>>
WriteNote(p) == IF sys = "bsd" THEN <<p, 2>> ELSE <<p, 1>>
Notes(p) == {ReadNote(p), WriteNote(p)}
Conns == {p \in Peers : cur[p] # 0}

Readable(p) == unread[p] > 0 \/ peer[p] \in {"fin", "reset"}
Writable(p) == unsent[p] < SndCap \/ peer[p] = "reset"
Polled(p) ==
  (IF Readable(p) THEN {ReadNote(p)} ELSE {}) \cup (IF Writable(p) THEN {WriteNote(p)} ELSE {})
ServerPollable ==
  (UNION {Polled(p) : p \in Conns}) \cup (IF backlog = <<>> THEN {} ELSE {Listener})

\* mrt_srv_listen() attaches the socket before it listens, so that epoll finds it hung up.
ServerInit ==
  /\ app \in {"echo", "router"} /\ up = TRUE
  /\ backlog = <<>> /\ conns = <<>>
  /\ peer = [p \in Peers |-> "out"]
  /\ given = 0
  /\ unread = [p \in Peers |-> 0] /\ unsent = unread
ServerReady == IF sys = "linux" THEN <<Listener>> ELSE <<>>
ServerTypeOK ==
  /\ app \in {"echo", "router"} /\ up \in BOOLEAN
  /\ backlog \in Seq(Peers) /\ conns \in Seq(Peers)
  /\ peer \in [Peers -> {"out", "open", "fin", "reset"}]
  /\ given \in 0..MaxBytes
  /\ \A p \in Peers : unread[p] \in 0..given /\ unsent[p] \in 0..SndCap

-----------------------------------------------------------------------------
\* A client connects, sends, reads all that was sent to it, shuts down or is gone.
Notify(os) ==
  /\ ready' = ReadyWith(os \cap live)
  /\ UNCHANGED <<sys, made, cur, live, held, full, batch, at>>

PeerConnect(p) ==
  /\ up /\ peer[p] = "out"
  /\ peer' = [peer EXCEPT ![p] = "open"]
  /\ backlog' = Append(backlog, p)
  /\ Notify({Listener})
  /\ UNCHANGED <<app, up, given, unread, unsent, conns>>

PeerSend(p) ==
  /\ up /\ peer[p] = "open" /\ given < MaxBytes
  /\ given' = given + 1 /\ unread' = [unread EXCEPT ![p] = @ + 1]
  /\ Notify({ReadNote(p)})
  /\ UNCHANGED <<app, up, backlog, peer, unsent, conns>>

PeerReads(p) ==
  /\ up /\ unsent[p] > 0
  /\ unsent' = [unsent EXCEPT ![p] = 0]
  /\ Notify({WriteNote(p)})
  /\ UNCHANGED <<peerVars, peer, unread>>

PeerShuts(p) ==
  /\ up /\ peer[p] = "open"
  /\ peer' = [peer EXCEPT ![p] = "fin"]
  /\ Notify({ReadNote(p)})
  /\ UNCHANGED <<peerVars, unread, unsent>>

PeerResets(p) ==
  /\ up /\ peer[p] \in {"open", "fin"}
  /\ peer' = [peer EXCEPT ![p] = "reset"]
  /\ unread' = [unread EXCEPT ![p] = 0] /\ unsent' = [unsent EXCEPT ![p] = 0]
  /\ Notify(Notes(p))
  /\ UNCHANGED peerVars

-----------------------------------------------------------------------------
\* DIE(): the process exits.
Die == up' = FALSE /\ Return

\* mrt_srv_accept(): one connection only, whatever accept1() returns: a stray semicolon
\* ends the if.  The new connection is attached and read at once.
AcceptOne ==
  LET p == Head(backlog) IN
  /\ at = "listen" /\ up /\ backlog # <<>> /\ (sys = "bsd" => peer[p] # "reset")
  /\ backlog' = Tail(backlog)
  /\ New({p})
  /\ live' = live \cup Notes(p)
  /\ ready' = ReadyWith(Polled(p))
  /\ at' = p
  /\ UNCHANGED <<sys, held, full, batch, app, up, peer, given, unread, unsent>>

EchoAccept == app = "echo" /\ AcceptOne /\ UNCHANGED conns
RouterAccept == app = "router" /\ AcceptOne /\ conns' = Append(conns, Head(backlog))

\* EAGAIN
AcceptNone ==
  /\ at = "listen" /\ up /\ backlog = <<>>
  /\ Return /\ UNCHANGED serverVars

\* BSD: ECONNABORTED
AcceptDies ==
  /\ at = "listen" /\ up /\ backlog # <<>> /\ sys = "bsd" /\ peer[Head(backlog)] = "reset"
  /\ Die
  /\ UNCHANGED <<app, backlog, peer, given, unread, unsent, conns>>

\* ffsock_send() of n bytes: as many as there is room for, and the rest is lost.
Room(p) == SndCap - unsent[p]
Sent(ps, n) == [p \in Peers |-> IF p \in ps THEN unsent[p] + Min({n, Room(p)}) ELSE unsent[p]]

\* ffsock_recv() of a part of the data, which is sent to ps; to dies of them it cannot be.
Pass(p, ps, dies) ==
  LET n == Min({unread[p], BufCap}) IN
  /\ at = p /\ up /\ unread[p] > 0
  /\ unread' = [unread EXCEPT ![p] = @ - n]
  /\ IF dies = {}
     THEN unsent' = Sent(ps, n) /\ Stay /\ UNCHANGED up
     ELSE Die /\ UNCHANGED unsent
  /\ UNCHANGED <<app, backlog, peer, given, conns>>

\* The echo server exits when a client does not read.
Echo(p) ==
  app = "echo" /\ Pass(p, {p}, {q \in {p} : peer[q] = "reset" \/ Room(q) = 0})

\* The router sends to all clients, the sender included, and leaves out those without
\* room; it exits when one is gone.
Route(p) ==
  app = "router" /\ Pass(p, ToSet(conns), {q \in ToSet(conns) : peer[q] = "reset"})

\* EAGAIN
Drained(p) == unread[p] = 0

RecvNone(p) ==
  /\ at = p /\ up /\ Drained(p) /\ peer[p] = "open"
  /\ Return /\ UNCHANGED serverVars

\* ECONNRESET
RecvDies(p) ==
  /\ at = p /\ up /\ peer[p] = "reset"
  /\ Die
  /\ UNCHANGED <<app, backlog, peer, given, unread, unsent, conns>>

\* ffslice_rmswapT(): the last one takes the place of the removed one (in the mutant,
\* itself).
UnlinkLast(p) == Front(conns)
Unlink(p) ==
  LET i == CHOOSE j \in DOMAIN conns : conns[j] = p
  IN SubSeq([conns EXCEPT ![i] = Last(conns)], 1, Len(conns) - 1)

\* The peer has shut down: the connection is closed and freed.
ConnClose(p) ==
  /\ at = p /\ up /\ unread[p] = 0 /\ peer[p] = "fin"
  /\ cur' = [cur EXCEPT ![p] = 0]
  /\ Drop(Notes(p))
  /\ at' = "loop"
  /\ UNCHANGED <<sys, made, held, batch, app, up, backlog, peer, given, unread, unsent>>

EchoClose(p) == app = "echo" /\ ConnClose(p) /\ UNCHANGED conns
RouterFree(p) == app = "router" /\ ConnClose(p) /\ conns' = Unlink(p)

ServerHandling ==
  \/ EchoAccept \/ RouterAccept \/ AcceptNone \/ AcceptDies
  \/ \E p \in Peers :
       Echo(p) \/ Route(p) \/ RecvNone(p) \/ RecvDies(p) \/ EchoClose(p) \/ RouterFree(p)
PeerActs ==
  \E p \in Peers : PeerConnect(p) \/ PeerSend(p) \/ PeerReads(p) \/ PeerShuts(p) \/ PeerResets(p)

\* ffkq_wait(kq, &ev, 1): one event at a time; the mutant takes two.
ServerCapTwo == 2
ServerCap == 1
=============================================================================
