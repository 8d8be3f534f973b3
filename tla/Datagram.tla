------------------------------ MODULE Datagram ------------------------------
(***************************************************************************)
(* The receiver of a UDP socket (ffsys/socket.h: ffsock_recvfrom_async(),  *)
(* ffsock_recv_udp_async()): on Windows an overlapped operation writes     *)
(* into the user's buffer and his peer_addr.                               *)
(***************************************************************************)
EXTENDS KernelQueue

CONSTANTS
  MaxDgrams, \* bound of the datagrams that arrive
  RcvCap     \* how many the socket holds, more are lost

ASSUME UdpAssumption == MaxDgrams \in Nat /\ RcvCap \in Nat

VARIABLES
  arrived, \* the datagrams that the socket has taken so far, each with its sender
  queue,   \* those in the socket's receive buffer
  soError, \* the answer to the user's ffsock_sendto(): "none", "refused", "told"
  io,      \* Windows: "none", "try", "pending", "done", "failed"
  buf,     \* the user's buf and peer_addr: a datagram, or 0
  wait,    \* task->active
  heard    \* what the user has got

udpVars == <<arrived, queue, soError, io, buf, wait, heard>>

UdpInit ==
  /\ arrived = 0 /\ queue = <<>> /\ soError = "none"
  /\ io = "none" /\ buf = 0 /\ wait = FALSE /\ heard = <<>>
UdpTypeOK ==
  /\ arrived \in 0..MaxDgrams /\ soError \in {"none", "refused", "told"} /\ wait \in BOOLEAN
  /\ Len(queue) <= RcvCap /\ buf \in 0..MaxDgrams /\ Len(heard) <= MaxDgrams
  /\ io \in {"none", "try", "pending", "done", "failed"}

Udp == Handle("udp")
UdpNotify == ready' = IF sys = "windows" /\ io # "pending" THEN ready ELSE ReadyWith({Udp})
UdpElse == UNCHANGED <<sys, made, cur, live, held, full, batch, at, wait, heard>>

\* A pending operation takes the datagram.
Arrive ==
  /\ arrived < MaxDgrams /\ Len(queue) < RcvCap
  /\ arrived' = arrived + 1
  /\ IF io = "pending"
     THEN io' = "done" /\ buf' = arrived' /\ UNCHANGED queue
     ELSE queue' = Append(queue, arrived') /\ UNCHANGED <<io, buf>>
  /\ UdpNotify /\ UdpElse /\ UNCHANGED soError

\* The answer to an ffsock_sendto() to a port where nobody listens: ECONNREFUSED,
\* WSAECONNRESET.
Refused ==
  /\ soError = "none"
  /\ IF io = "pending"
     THEN io' = "failed" /\ soError' = "told"
     ELSE soError' = "refused" /\ UNCHANGED io
  /\ UdpNotify /\ UdpElse /\ UNCHANGED <<arrived, queue, buf>>

\* The user may call before an event tells him to, with the same buffer.
UdpEarly ==
  /\ at = "loop" /\ batch = <<>> /\ wait /\ heard = <<>>
  /\ at' = "udp"
  /\ UNCHANGED <<sys, made, cur, live, held, full, ready, batch, udpVars>>

-----------------------------------------------------------------------------
\* The function returns a datagram, and the user calls it again.
Hear(d) == heard' = Append(heard, d) /\ wait' = FALSE /\ Stay

\* Windows: GetOverlappedResult(): the operation's datagram is in the buffer.  The mutant
\* goes on to recvfrom(), as ffsock_recv_async() does.
RecvResultOver == IF queue = <<>> THEN buf ELSE Head(queue)
RecvResult == buf

RecvDone ==
  /\ at = "udp" /\ sys = "windows" /\ wait /\ io = "done"
  /\ Hear(RecvResult) /\ io' = "none"
  /\ UNCHANGED <<arrived, queue, soError, buf>>

\* The operation failed: task->active is reset; the user calls again.
RecvFailed ==
  /\ at = "udp" /\ sys = "windows" /\ wait /\ io = "failed"
  /\ io' = "none" /\ wait' = FALSE
  /\ Stay /\ UNCHANGED <<arrived, queue, soError, buf, heard>>

\* UNIX: EINPROGRESS; Windows: ERROR_IO_INCOMPLETE
RecvWaits ==
  /\ at = "udp"
  /\ IF sys = "windows" THEN wait /\ io = "pending" ELSE queue = <<>> /\ soError # "refused"
  /\ wait' = TRUE
  /\ Return /\ UNCHANGED <<arrived, queue, soError, io, buf, heard>>

CallsRecv == at = "udp" /\ io = "none" /\ (sys = "windows" => ~wait)

\* recvfrom() returns at once.
RecvNow ==
  /\ CallsRecv /\ soError # "refused" /\ queue # <<>>
  /\ buf' = Head(queue) /\ queue' = Tail(queue)
  /\ Hear(buf') /\ UNCHANGED <<arrived, soError, io>>
RecvError ==
  /\ CallsRecv /\ soError = "refused"
  /\ soError' = "told" /\ wait' = FALSE
  /\ Stay /\ UNCHANGED <<arrived, queue, io, buf, heard>>

\* Windows: recvfrom() fails with WSAEWOULDBLOCK; a datagram may arrive before
\* WSARecvFrom() is called, and then the operation is done at once.
RecvTry ==
  /\ CallsRecv /\ sys = "windows" /\ soError # "refused" /\ queue = <<>>
  /\ io' = "try"
  /\ Stay /\ UNCHANGED <<arrived, queue, soError, buf, wait, heard>>

RecvBegin ==
  /\ at = "udp" /\ io = "try" /\ soError # "refused"
  /\ wait' = TRUE /\ at' = "loop"
  /\ IF queue = <<>>
     THEN io' = "pending" /\ UNCHANGED <<queue, buf, ready>>
     ELSE /\ io' = "done" /\ buf' = Head(queue) /\ queue' = Tail(queue)
          /\ ready' = ReadyWith({Udp})
  /\ UNCHANGED <<sys, made, cur, live, held, full, batch, arrived, soError, heard>>

RecvBeginFails ==
  /\ at = "udp" /\ io = "try" /\ soError = "refused"
  /\ io' = "none" /\ soError' = "told"
  /\ Stay /\ UNCHANGED <<arrived, queue, buf, wait, heard>>

UdpHandling ==
  \/ RecvDone \/ RecvFailed \/ RecvWaits \/ RecvNow \/ RecvError
  \/ RecvTry \/ RecvBegin \/ RecvBeginFails
=============================================================================
