----------------------------- MODULE SockStream -----------------------------
(***************************************************************************)
(* The asynchronous functions of ffsys/socket.h over one TCP connection:   *)
(* a sender that connects and sends, a reader that accepts and receives,   *)
(* each with a kernel queue of its own.                                    *)
(*                                                                         *)
(* Every function is called twice: to begin, and, once the kernel queue    *)
(* has signalled, to collect; in between task->active is set.  On Windows  *)
(* (overlapped) the task holds an OVERLAPPED that the system completes     *)
(* with a packet in the queue.  On UNIX the socket is attached             *)
(* edge-triggered: the queue signals when the socket's state changes, and  *)
(* reports the socket only if it is ready when the wait looks at it.       *)
(*                                                                         *)
(* The connection is external: a FIFO of bytes with a capacity.  The k-th  *)
(* byte of the stream is the number k.                                     *)
(***************************************************************************)
EXTENDS Naturals, Sequences

CONSTANTS
  Cap,        \* bytes the connection holds
  MaxBytes,   \* bound: bytes to be sent
  MaxLen,     \* bound: size of a buffer
  MaxWakes    \* bound: packets in a kernel queue when a user calls early

ASSUME SockAssumption ==
  /\ Cap \in Nat \ {0}
  /\ MaxBytes \in Nat \ {0} /\ MaxLen \in Nat \ {0} /\ MaxWakes \in Nat \ {0}

VARIABLES
  overlapped, \* the system is Windows, else UNIX; never changes
  conn,   \* the connection: "none", "syn", "up", "refused", "reset"
  fin,    \* the sender's FIN is sent
  net,    \* bytes on their way
  told,   \* bytes reported as sent
  got,    \* bytes received
  phase,  \* what each user is doing
  pc,     \* "run", "wait": in ffkq_wait()
  ret,    \* what the last call returned
  active, \* ffkq_task.active
  kev,    \* ffkq_task.kev_flags has EPOLLERR
  op,     \* the OVERLAPPED: "none", "pending", "done", "failed"
  buf,    \* ffkq_task.buf: the byte being sent
  wake    \* packets in the queue, or 1: the socket is on the ready list

netVars == <<conn, fin, net>>
userVars == <<phase, pc, ret>>
taskVars == <<active, kev, op, buf>>
vars == <<overlapped, netVars, told, got, userVars, taskVars, wake>>

Sender == "sender"
Reader == "reader"
Users == {Sender, Reader}
Phases == {"connect", "send", "accept", "recv", "end"}
Returns == {"none", "inprogress", "ok", "error"}
Bytes == 1..MaxBytes

\* Type invariant: the stream stays within its bounds and a kernel queue
\* within its packets.
TypeOK ==
  /\ overlapped \in BOOLEAN
  /\ conn \in {"none", "syn", "up", "refused", "reset"} /\ fin \in BOOLEAN
  /\ net \in Seq(Bytes) /\ Len(net) <= Cap
  /\ told \in 0..MaxBytes
  /\ got \in Seq(Bytes)
  /\ phase \in [Users -> Phases]
  /\ pc \in [Users -> {"run", "wait"}]
  /\ ret \in [Users -> Returns]
  /\ active \in [Users -> BOOLEAN]
  /\ kev \in [Users -> BOOLEAN]
  /\ op \in [Users -> {"none", "pending", "done", "failed"}]
  /\ buf \in 0..MaxBytes
  /\ wake \in [Users -> 0..MaxWakes]

Init ==
  /\ overlapped \in BOOLEAN
  /\ conn = "none" /\ fin = FALSE /\ net = <<>>
  /\ told = 0 /\ got = <<>>
  /\ phase = [p \in Users |-> IF p = Sender THEN "connect" ELSE "accept"]
  /\ pc = [p \in Users |-> "run"]
  /\ ret = [p \in Users |-> "none"]
  /\ active = [p \in Users |-> FALSE]
  /\ kev = [p \in Users |-> FALSE]
  /\ op = [p \in Users |-> "none"]
  /\ buf = 0
  /\ wake = [p \in Users |-> 0]

-----------------------------------------------------------------------------
(* The kernel queue. *)

Broken == conn \in {"refused", "reset"}

\* What poll() says of a user's socket.
Pollable(p) ==
  CASE phase[p] = "connect" -> conn \notin {"none", "syn"}
    [] phase[p] = "accept" -> conn \in {"up", "reset"}
    [] phase[p] = "send" -> Len(net) < Cap \/ Broken
    [] phase[p] = "recv" -> net # <<>> \/ fin \/ Broken
    [] OTHER -> FALSE

\* The state of a socket has changed: UNIX puts it on the ready list.
Touched(ps) ==
  [p \in Users |-> IF p \in ps /\ ~overlapped THEN 1 ELSE wake[p]]

Signalled(p) == [wake EXCEPT ![p] = @ + 1]

\* ffkq_wait() returns an event; ffkq_task_event_assign() copies its flags.
Wait(p) ==
  /\ pc[p] = "wait" /\ wake[p] > 0
  /\ wake' = [wake EXCEPT ![p] = @ - 1]
  /\ pc' = [pc EXCEPT ![p] = IF overlapped \/ Pollable(p) THEN "run" ELSE "wait"]
  /\ kev' = [kev EXCEPT ![p] = ~overlapped /\ Pollable(p) /\ Broken]
  /\ UNCHANGED <<netVars, told, got, phase, ret, active, op, buf>>

\* The user has been told to wait.
Park(p) ==
  /\ pc[p] = "run" /\ ret[p] = "inprogress"
  /\ pc' = [pc EXCEPT ![p] = "wait"]
  /\ ret' = [ret EXCEPT ![p] = "none"]
  /\ UNCHANGED <<netVars, told, got, phase, taskVars, wake>>

\* A user makes a call.  One who was told to wait may call early, except that
\* on UNIX any second ffsock_connect_async() is taken for the end.
Calls(p, ph) ==
  /\ pc[p] = "run" /\ phase[p] = ph
  /\ ret[p] = "inprogress" =>
       wake[p] < MaxWakes /\ (overlapped \/ ph # "connect")

-----------------------------------------------------------------------------
(* GetOverlappedResult() at the head of every function on Windows. *)

\* The operation is incomplete: the task stays active; the mutant resets it.
ActiveIncompleteNot == FALSE
ActiveIncomplete == TRUE

PollIncomplete(p) ==
  /\ overlapped /\ \E ph \in Phases : Calls(p, ph)
  /\ active[p] /\ op[p] = "pending"
  /\ active' = [active EXCEPT ![p] = ActiveIncomplete]
  /\ ret' = [ret EXCEPT ![p] = "inprogress"]
  /\ UNCHANGED <<netVars, told, got, phase, pc, kev, op, buf, wake>>

\* The operation has failed.
PollFailed(p) ==
  /\ overlapped /\ \E ph \in Phases : Calls(p, ph)
  /\ active[p] /\ op[p] = "failed"
  /\ active' = [active EXCEPT ![p] = FALSE]
  /\ op' = [op EXCEPT ![p] = "none"]
  /\ ret' = [ret EXCEPT ![p] = "error"]
  /\ phase' = [phase EXCEPT ![p] = "end"]
  /\ UNCHANGED <<netVars, told, got, pc, kev, buf, wake>>

\* The task is not active: the function begins.
Idle(p) == ~active[p]

\* The operation has completed.
Completed(p) == overlapped /\ active[p] /\ op[p] = "done"

\* UNIX: the functions do not look at the task, except ffsock_connect_async().
Ready(p) == IF overlapped THEN Idle(p) ELSE TRUE

-----------------------------------------------------------------------------
(* ffsock_connect_async() *)

\* connect() or ConnectEx() begins.
ConnectBegin ==
  /\ Calls(Sender, "connect") /\ Idle(Sender) /\ conn = "none"
  /\ conn' = "syn"
  /\ active' = [active EXCEPT ![Sender] = TRUE]
  /\ op' = [op EXCEPT ![Sender] = IF overlapped THEN "pending" ELSE "none"]
  /\ kev' = [kev EXCEPT ![Sender] = FALSE]
  /\ ret' = [ret EXCEPT ![Sender] = "inprogress"]
  /\ UNCHANGED <<fin, net, told, got, phase, pc, buf, wake>>

\* connect() succeeds or fails at once; ConnectEx() may only fail so.
ConnectNow(to) ==
  /\ overlapped => to = "refused"
  /\ Calls(Sender, "connect") /\ Idle(Sender) /\ conn = "none"
  /\ conn' = to
  /\ kev' = [kev EXCEPT ![Sender] = FALSE]
  /\ ret' = [ret EXCEPT ![Sender] = IF to = "up" THEN "ok" ELSE "error"]
  /\ phase' = [phase EXCEPT ![Sender] = IF to = "up" THEN "send" ELSE "end"]
  /\ wake' = Touched({Sender, Reader})
  /\ UNCHANGED <<fin, net, told, got, pc, active, op, buf>>

\* The second call.  UNIX: fails if the event carried EPOLLERR; the mutant
\* does not look at it.
ConnectFailedNot == FALSE
ConnectFailed == kev[Sender] /\ Broken

ConnectEnd ==
  /\ Calls(Sender, "connect") /\ active[Sender]
  /\ overlapped => Completed(Sender)
  /\ active' = [active EXCEPT ![Sender] = FALSE]
  /\ op' = [op EXCEPT ![Sender] = "none"]
  /\ \/ /\ ConnectFailed
        /\ ret' = [ret EXCEPT ![Sender] = "error"]
        /\ phase' = [phase EXCEPT ![Sender] = "end"]
     \/ /\ ~ConnectFailed
        /\ ret' = [ret EXCEPT ![Sender] = "ok"]
        /\ phase' = [phase EXCEPT ![Sender] = "send"]
  /\ UNCHANGED <<netVars, told, got, pc, kev, buf, wake>>

-----------------------------------------------------------------------------
(* ffsock_accept_async() *)

Accepted ==
  /\ active' = [active EXCEPT ![Reader] = FALSE]
  /\ op' = [op EXCEPT ![Reader] = "none"]
  /\ ret' = [ret EXCEPT ![Reader] = "ok"]
  /\ phase' = [phase EXCEPT ![Reader] = "recv"]

\* accept() or AcceptEx() has a connection.  The user attaches it to the
\* queue: UNIX looks at it at once.
Accept ==
  /\ Calls(Reader, "accept")
  /\ IF overlapped THEN Idle(Reader) \/ Completed(Reader) ELSE TRUE
  /\ Completed(Reader) \/ conn \in {"up", "reset"}
  /\ Accepted
  /\ wake' = Touched({Reader})
  /\ UNCHANGED <<netVars, told, got, pc, kev, buf>>

\* There is none: Windows calls AcceptEx() for a new socket.
AcceptBegin ==
  /\ Calls(Reader, "accept") /\ Ready(Reader)
  /\ conn \notin {"up", "reset"}
  /\ active' = [active EXCEPT ![Reader] = TRUE]
  /\ op' = [op EXCEPT ![Reader] = IF overlapped THEN "pending" ELSE "none"]
  /\ ret' = [ret EXCEPT ![Reader] = "inprogress"]
  /\ UNCHANGED <<netVars, told, got, phase, pc, kev, buf, wake>>

\* accept() fails for another reason, or the new socket cannot be created; the
\* mutant takes any error for EAGAIN.  The user may try again.
AcceptFailureAny == "inprogress"
AcceptFailure == "error"

AcceptError ==
  /\ Calls(Reader, "accept") /\ Ready(Reader)
  /\ active' = [active EXCEPT ![Reader] = FALSE]
  /\ ret' = [ret EXCEPT ![Reader] = AcceptFailure]
  /\ UNCHANGED <<netVars, told, got, phase, pc, kev, op, buf, wake>>

-----------------------------------------------------------------------------
(* ffsock_send_async() and ffsock_sendv_async() *)

Interval(a, n) == [i \in 1..n |-> a + i]

\* send() takes what fits of the n bytes after those reported; the mutant
\* reports all n.
Fitting(n) == IF n <= Cap - Len(net) THEN n ELSE Cap - Len(net)
ReportedAll(n) == n
Reported(n) == Fitting(n)

SendSome(n) ==
  /\ Calls(Sender, "send") /\ Ready(Sender)
  /\ ~Broken /\ ~fin
  /\ told + n <= MaxBytes /\ Len(net) < Cap
  /\ net' = net \o Interval(told, Fitting(n))
  /\ told' = told + Reported(n)
  /\ active' = [active EXCEPT ![Sender] = FALSE]
  /\ ret' = [ret EXCEPT ![Sender] = "ok"]
  /\ wake' = Touched({Reader})
  /\ UNCHANGED <<conn, fin, got, phase, pc, kev, op, buf>>

\* The connection is full.  Windows: the first byte is copied to the task and
\* WriteFile() begins.
SendFull(n) ==
  /\ Calls(Sender, "send") /\ Ready(Sender)
  /\ ~Broken /\ ~fin
  /\ told + n <= MaxBytes /\ Len(net) = Cap
  /\ active' = [active EXCEPT ![Sender] = TRUE]
  /\ op' = [op EXCEPT ![Sender] = IF overlapped THEN "pending" ELSE @]
  /\ buf' = IF overlapped THEN told + 1 ELSE buf
  /\ ret' = [ret EXCEPT ![Sender] = "inprogress"]
  /\ UNCHANGED <<netVars, told, got, phase, pc, kev, wake>>

\* WriteFile() has completed: the byte is reported; the mutant reports none
\* and lets the user send it again.
SentNone == 0
Sent == 1

SendEnd ==
  /\ Calls(Sender, "send") /\ Completed(Sender)
  /\ told' = told + Sent
  /\ active' = [active EXCEPT ![Sender] = FALSE]
  /\ op' = [op EXCEPT ![Sender] = "none"]
  /\ ret' = [ret EXCEPT ![Sender] = "ok"]
  /\ UNCHANGED <<netVars, got, phase, pc, kev, buf, wake>>

SendError ==
  /\ Calls(Sender, "send") /\ Ready(Sender) /\ Broken
  /\ active' = [active EXCEPT ![Sender] = FALSE]
  /\ ret' = [ret EXCEPT ![Sender] = "error"]
  /\ phase' = [phase EXCEPT ![Sender] = "end"]
  /\ UNCHANGED <<netVars, told, got, pc, kev, op, buf, wake>>

\* ffsock_fin(), once nothing is pending
Fin ==
  /\ pc[Sender] = "run" /\ phase[Sender] = "send" /\ Idle(Sender)
  /\ fin' = TRUE
  /\ phase' = [phase EXCEPT ![Sender] = "end"]
  /\ ret' = [ret EXCEPT ![Sender] = "ok"]
  /\ wake' = Touched({Reader})
  /\ UNCHANGED <<conn, net, told, got, pc, taskVars>>

-----------------------------------------------------------------------------
(* ffsock_recv_async() *)

\* On Windows a completed operation is only a sign: recv() is called either way.
RecvRuns(p) == Calls(p, "recv") /\ (Ready(p) \/ Completed(p))

RecvEnds ==
  /\ active' = [active EXCEPT ![Reader] = FALSE]
  /\ op' = [op EXCEPT ![Reader] = "none"]

RecvSome(n) ==
  /\ RecvRuns(Reader)
  /\ net # <<>>
  /\ LET m == IF n <= Len(net) THEN n ELSE Len(net) IN
       /\ got' = got \o SubSeq(net, 1, m)
       /\ net' = SubSeq(net, m + 1, Len(net))
  /\ RecvEnds
  /\ ret' = [ret EXCEPT ![Reader] = "ok"]
  /\ wake' = Touched({Sender})
  /\ UNCHANGED <<conn, fin, told, phase, pc, kev, buf>>

\* recv() returns 0, or an error.
RecvEof ==
  /\ RecvRuns(Reader)
  /\ net = <<>> /\ (fin \/ Broken)
  /\ RecvEnds
  /\ ret' = [ret EXCEPT ![Reader] = IF Broken THEN "error" ELSE "ok"]
  /\ phase' = [phase EXCEPT ![Reader] = "end"]
  /\ UNCHANGED <<netVars, told, got, pc, kev, buf, wake>>

\* There is nothing yet.  Windows: a ReadFile() of no bytes begins; the mutant
\* returns without it.
RecvOpNot == "none"
RecvOp == IF overlapped THEN "pending" ELSE "none"

RecvBegin ==
  /\ RecvRuns(Reader)
  /\ net = <<>> /\ ~fin /\ ~Broken
  /\ active' = [active EXCEPT ![Reader] = TRUE]
  /\ op' = [op EXCEPT ![Reader] = RecvOp]
  /\ ret' = [ret EXCEPT ![Reader] = "inprogress"]
  /\ UNCHANGED <<netVars, told, got, phase, pc, kev, buf, wake>>

-----------------------------------------------------------------------------
(* The network and the system. *)

\* The connection is established, refused or broken.
Change(from, to) ==
  /\ conn = from
  /\ conn' = to
  /\ net' = IF to = "reset" THEN <<>> ELSE net
  /\ wake' = Touched(Users)
  /\ UNCHANGED <<overlapped, fin, told, got, userVars, taskVars>>

\* Windows: an operation completes, and its packet is put in the queue.  A
\* WriteFile() puts its byte on the way.  An AcceptEx() that was begun does not
\* fail, and ReadFile() and WriteFile() fail later, never at once.
Complete(p) ==
  /\ op[p] = "pending" /\ Pollable(p)
  /\ op' = [op EXCEPT ![p] = IF Broken /\ phase[p] # "accept"
                              THEN "failed" ELSE "done"]
  /\ net' = IF phase[p] = "send" /\ ~Broken THEN Append(net, buf) ELSE net
  /\ wake' = Signalled(p)
  /\ UNCHANGED <<overlapped, conn, fin, told, got, userVars, active, kev, buf>>

Establish == Change("syn", "up")
Refuse == Change("syn", "refused")
Break == Change("up", "reset")

-----------------------------------------------------------------------------
UserStep(p) ==
  \/ Wait(p) \/ Park(p)
  \/ PollIncomplete(p) \/ PollFailed(p)

SenderStep ==
  /\ UNCHANGED overlapped
  /\ \/ UserStep(Sender)
     \/ ConnectBegin \/ ConnectEnd
     \/ \E to \in {"up", "refused"} : ConnectNow(to)
     \/ \E n \in 1..MaxLen : SendSome(n) \/ SendFull(n)
     \/ SendEnd \/ SendError
     \/ Fin

ReaderStep ==
  /\ UNCHANGED overlapped
  /\ \/ UserStep(Reader)
     \/ Accept \/ AcceptBegin \/ AcceptError
     \/ \E n \in 1..MaxLen : RecvSome(n)
     \/ RecvEof \/ RecvBegin

Next ==
  \/ SenderStep \/ ReaderStep
  \/ Establish \/ Refuse \/ Break
  \/ \E p \in Users : Complete(p)

Spec == Init /\ [][Next]_vars

\* The users call and wait, the handshake ends, and the system completes the
\* operations that it can; a connection need not break.
FairSpec ==
  /\ Spec
  /\ WF_vars(SenderStep) /\ WF_vars(ReaderStep)
  /\ WF_vars(Establish \/ Refuse)
  /\ \A p \in Users : WF_vars(Complete(p))

-----------------------------------------------------------------------------
(* Properties *)

\* The byte that WriteFile() has sent and ffsock_send_async() not yet reported.
Unreported ==
  IF phase[Sender] = "send" /\ op[Sender] = "done" THEN 1 ELSE 0

\* What ffsock_recv_async() returns is the stream: the byte that the Windows
\* ffsock_send_async() sends behind the user's back is neither repeated nor
\* skipped when the user calls again with the same data.
InOrder == \A i \in 1..Len(got) : got[i] = i

\* On a live connection every byte that ffsock_send_async() has reported is
\* received or on its way, and nothing else is.
ToldIsSent ==
  conn = "up" => Len(got) + Len(net) = told + Unreported

\* The stream arrives in order, and what was reported as sent is a part of it.
StreamIsWhole == InOrder /\ ToldIsSent

\* task->active is set exactly while the system may write to the OVERLAPPED:
\* a user who calls early must not have it reset and used again.
ActiveOwnsOverlapped ==
  overlapped => \A p \in Users : active[p] <=> op[p] # "none"

\* A user in ffkq_wait() whose socket is ready is going to be woken: the call
\* that told him to wait has left an operation, or the edge comes after it.
NoLostWakeup ==
  \A p \in Users :
    pc[p] = "wait" /\ Pollable(p) => wake[p] > 0 \/ op[p] = "pending"

\* ffsock_connect_async() returns 0 only when the handshake was done.
ConnectIsTrue ==
  [][phase[Sender] = "connect" /\ phase'[Sender] = "send"
       => conn' \in {"up", "reset"}]_vars

\* When ffsock_recv_async() returns 0 all that was reported as sent has been
\* received.
EofMeansAll ==
  [][phase[Reader] = "recv" /\ phase'[Reader] = "end" /\ ret'[Reader] = "ok"
       => fin /\ Len(got) = told]_vars

\* A connect that succeeds has connected, and the end of the stream comes last.
ReturnsAreTrue == ConnectIsTrue /\ EofMeansAll

\* Nobody waits for ever: the sender comes to the end of what it sends, and
\* the reader to the end of what it receives, unless nobody has connected.
NobodyStuck ==
  <>(phase[Sender] = "end" /\ (phase[Reader] = "end" \/ conn = "refused"))

-----------------------------------------------------------------------------
(* The inductive invariant: why the properties hold. *)

\* The user has been told to wait, or waits.
MustWait(p) == pc[p] = "wait" \/ ret[p] = "inprogress"

\* The task mirrors the OVERLAPPED; UNIX has none.
Tasks ==
  /\ \A p \in Users : pc[p] = "wait" => ret[p] = "none"
  /\ ActiveOwnsOverlapped
  /\ ~overlapped => \A p \in Users : op[p] = "none"
  /\ phase[Sender] = "end" => op[Sender] = "none"

\* While the sender connects, what it will be told is what happened.
Handshake ==
  /\ phase[Sender] \in {"connect", "send", "end"}
  /\ phase[Reader] \in {"accept", "recv", "end"}
  /\ conn = "none" => phase[Sender] = "connect" /\ ~active[Sender]
  /\ phase[Sender] = "connect" /\ active[Sender] =>
       /\ conn # "none"
       /\ op[Sender] = "done" => conn \in {"up", "reset"}
       /\ ~overlapped /\ ~MustWait(Sender) =>
            conn # "syn" /\ (conn = "refused" => kev[Sender])
  /\ phase[Sender] = "connect" /\ ~active[Sender] => conn = "none"
  /\ phase[Sender] = "send" => conn \in {"up", "reset"}
  /\ phase[Reader] = "accept" /\ op[Reader] = "done" => conn \in {"up", "reset"}
  /\ phase[Reader] = "accept" => op[Reader] # "failed"
  /\ phase[Reader] # "accept" => conn \in {"up", "reset"}
  /\ fin => phase[Sender] = "end"

\* The stream is cut into what is received and what is on its way.
Stream ==
  /\ InOrder
  /\ \A i \in 1..Len(net) : net[i] = Len(got) + i
  /\ ToldIsSent
  /\ conn \notin {"up", "reset"} => Len(got) = 0 /\ told = 0
  /\ conn # "up" => net = <<>>
  /\ phase[Sender] = "send" /\ op[Sender] = "pending" =>
       buf = told + 1 /\ told < MaxBytes
  /\ phase[Sender] = "send" /\ op[Sender] = "done" => told < MaxBytes

\* One who is told to wait has a completion or an edge ahead of him.
Wakeups ==
  \A p \in Users : MustWait(p) =>
    IF overlapped THEN op[p] = "pending" \/ (op[p] # "none" /\ wake[p] > 0)
    ELSE Pollable(p) => wake[p] > 0

\* A packet was or will be put in the queue for each operation; all but one
\* have been collected.
Packets ==
  \A p \in Users :
    LET packets == wake[p] + (IF op[p] = "pending" THEN 1 ELSE 0) IN
      IF overlapped THEN /\ packets <= MaxWakes
                         /\ ~MustWait(p) => packets < MaxWakes
      ELSE wake[p] <= 1

SockInv == TypeOK /\ Tasks /\ Handshake /\ Stream /\ Wakeups /\ Packets
=============================================================================
