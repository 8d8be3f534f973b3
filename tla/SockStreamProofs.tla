-------------------------- MODULE SockStreamProofs --------------------------
(***************************************************************************)
(* Theorems about the asynchronous sockets, for connections, streams and   *)
(* buffers of any size, on Windows and UNIX.                               *)
(***************************************************************************)
EXTENDS SockStream, TLAPS

-----------------------------------------------------------------------------
(* The bytes of a call. *)

\* s holds the bytes of the stream that follow the a-th.
Follows(s, a) == \A i \in 1..Len(s) : s[i] = a + i

\* The m bytes after the a-th.
LEMMA IntervalBytes ==
  ASSUME NEW a \in Nat, NEW m \in Nat
  PROVE  /\ Interval(a, m) \in Seq(Nat)
         /\ Len(Interval(a, m)) = m
         /\ Follows(Interval(a, m), a)
BY DEF Interval, Follows

\* Two pieces of the stream that follow each other make one.
LEMMA FollowsConcat ==
  ASSUME NEW s \in Seq(Nat), NEW t \in Seq(Nat), NEW a \in Nat,
         Follows(s, a), Follows(t, a + Len(s))
  PROVE  /\ s \o t \in Seq(Nat)
         /\ Len(s \o t) = Len(s) + Len(t)
         /\ Follows(s \o t, a)
<1>1. s \o t \in Seq(Nat) /\ Len(s \o t) = Len(s) + Len(t)
  OBVIOUS
<1>2. ASSUME NEW i \in 1..(Len(s) + Len(t))
      PROVE  (s \o t)[i] = a + i
  <2>1. CASE i <= Len(s)
    BY <2>1 DEF Follows
  <2>2. CASE i > Len(s)
    <3>1. i - Len(s) \in 1..Len(t) /\ (s \o t)[i] = t[i - Len(s)]
      BY <2>2
    <3>2. t[i - Len(s)] = (a + Len(s)) + (i - Len(s))
      BY <3>1 DEF Follows
    <3> QED BY <3>1, <3>2
  <2> QED BY <2>1, <2>2
<1> QED BY <1>1, <1>2 DEF Follows

\* A piece of the stream cut in two.
LEMMA FollowsCut ==
  ASSUME NEW s \in Seq(Nat), NEW a \in Nat, NEW m \in 1..Len(s), Follows(s, a)
  PROVE  /\ SubSeq(s, 1, m) \in Seq(Nat) /\ Len(SubSeq(s, 1, m)) = m
         /\ Follows(SubSeq(s, 1, m), a)
         /\ Len(SubSeq(s, m + 1, Len(s))) = Len(s) - m
         /\ Follows(SubSeq(s, m + 1, Len(s)), a + m)
<1>1. SubSeq(s, 1, m) \in Seq(Nat) /\ Len(SubSeq(s, 1, m)) = m
  OBVIOUS
<1>2. Len(SubSeq(s, m + 1, Len(s))) = Len(s) - m
  OBVIOUS
<1>3. Follows(SubSeq(s, 1, m), a)
  BY <1>1 DEF Follows
<1>4. ASSUME NEW i \in 1..(Len(s) - m)
      PROVE  SubSeq(s, m + 1, Len(s))[i] = (a + m) + i
  <2>1. m + i \in 1..Len(s) /\ SubSeq(s, m + 1, Len(s))[i] = s[m + i]
    OBVIOUS
  <2> QED BY <2>1 DEF Follows
<1> QED BY <1>1, <1>2, <1>3, <1>4 DEF Follows

\* What fits of a buffer.
LEMMA FittingFits ==
  ASSUME TypeOK, NEW n \in 1..MaxLen, Len(net) < Cap
  PROVE  /\ Fitting(n) \in Nat /\ Fitting(n) <= n
         /\ Len(net) + Fitting(n) <= Cap
BY SockAssumption DEF TypeOK, Fitting

-----------------------------------------------------------------------------
(* Each part of the invariant is kept by every step. *)

\* No step breaks the types; the bounds rest on Stream and Packets.
LEMMA TypeOKStep ==
  ASSUME SockInv, [Next]_vars
  PROVE  TypeOK'
<1> USE SockAssumption DEF SockInv
<1>0. overlapped' = overlapped
  BY DEF Next, SenderStep, ReaderStep, Establish, Refuse, Break, Change, Complete, vars
<1> USE <1>0
<1>1. CASE \E p \in Users : Wait(p)
  BY <1>1 DEF TypeOK, Phases, Returns, Wait, Users, Sender, Reader, netVars, userVars, taskVars
<1>2. CASE \E p \in Users : Park(p)
  BY <1>2 DEF TypeOK, Phases, Returns, Park, Users, Sender, Reader, netVars, userVars, taskVars
<1>3. CASE \E p \in Users : PollIncomplete(p)
  BY <1>3 DEF TypeOK, Phases, Returns, PollIncomplete, ActiveIncomplete, Calls, Users, Sender, Reader, netVars, userVars, taskVars
<1>4. CASE \E p \in Users : PollFailed(p)
  BY <1>4 DEF TypeOK, Phases, Returns, PollFailed, Calls, Users, Sender, Reader, netVars, userVars, taskVars
<1>5. CASE ConnectBegin
  BY <1>5 DEF TypeOK, Phases, Returns, ConnectBegin, Calls, Idle, Users, Sender, Reader, netVars, userVars, taskVars
<1>6. CASE \E to \in {"up", "refused"} : ConnectNow(to)
  BY <1>6 DEF TypeOK, Phases, Returns, ConnectNow, Calls, Idle, Touched, Users, Sender, Reader, netVars, userVars, taskVars
<1>7. CASE ConnectEnd
  BY <1>7 DEF TypeOK, Phases, Returns, ConnectEnd, Calls, Completed, ConnectFailed, Broken, Users, Sender, Reader, netVars, userVars, taskVars
<1>8. CASE Accept
  BY <1>8 DEF TypeOK, Phases, Returns, Accept, Calls, Idle, Completed, Accepted, Touched, Users, Sender, Reader, netVars, userVars, taskVars
<1>9. CASE AcceptBegin
  BY <1>9 DEF TypeOK, Phases, Returns, AcceptBegin, Calls, Ready, Idle, Users, Sender, Reader, netVars, userVars, taskVars
<1>10. CASE AcceptError
  BY <1>10 DEF TypeOK, Phases, Returns, AcceptError, Calls, Ready, Idle, AcceptFailure, Users, Sender, Reader, netVars, userVars, taskVars
<1>11. CASE \E n \in 1..MaxLen : SendSome(n)
  <2>1. PICK n \in 1..MaxLen : SendSome(n)
    BY <1>11
  <2>2. Fitting(n) \in Nat /\ Fitting(n) <= n /\ Len(net) + Fitting(n) <= Cap
    BY <2>1, FittingFits DEF SendSome
  <2>3. told \in Nat /\ told + n <= MaxBytes /\ n \in Nat
    BY <2>1 DEF TypeOK, SendSome
  <2>4. /\ Interval(told, Fitting(n)) \in Seq(Bytes)
        /\ Len(Interval(told, Fitting(n))) = Fitting(n)
    BY <2>2, <2>3 DEF Interval, Bytes
  <2>5. net' \in Seq(Bytes) /\ Len(net') <= Cap
    BY <2>1, <2>2, <2>4 DEF TypeOK, SendSome
  <2>6. told' \in 0..MaxBytes
    BY <2>1, <2>2, <2>3 DEF SendSome, Reported
  <2> QED
    BY <2>1, <2>5, <2>6 DEF TypeOK, Returns, SendSome, Touched, Users, Sender, Reader, netVars, userVars, taskVars
<1>12. CASE \E n \in 1..MaxLen : SendFull(n)
  BY <1>12 DEF TypeOK, Phases, Returns, SendFull, Calls, Ready, Idle, Broken, Users, Sender, Reader, netVars, userVars, taskVars
<1>13. CASE SendEnd
  <2>1. told' \in 0..MaxBytes
    BY <1>13 DEF TypeOK, SendEnd, Calls, Completed, Sent, Stream
  <2> QED
    BY <1>13, <2>1 DEF TypeOK, Returns, SendEnd, Users, Sender, Reader, netVars, userVars, taskVars
<1>14. CASE SendError
  BY <1>14 DEF TypeOK, Phases, Returns, SendError, Calls, Ready, Idle, Broken, Users, Sender, Reader, netVars, userVars, taskVars
<1>15. CASE Fin
  BY <1>15 DEF TypeOK, Phases, Returns, Fin, Idle, Touched, Users, Sender, Reader, netVars, userVars, taskVars
<1>16. CASE \E n \in 1..MaxLen : RecvSome(n)
  BY <1>16 DEF TypeOK, Phases, Returns, RecvSome, RecvRuns, Calls, Ready, Idle, Completed, RecvEnds, Touched, Users, Sender, Reader, netVars, userVars, taskVars
<1>17. CASE RecvEof
  BY <1>17 DEF TypeOK, Phases, Returns, RecvEof, RecvRuns, Calls, Ready, Idle, Completed, RecvEnds, Broken, Users, Sender, Reader, netVars, userVars, taskVars
<1>18. CASE RecvBegin
  BY <1>18 DEF TypeOK, Phases, Returns, RecvBegin, RecvRuns, Calls, Ready, Idle, Completed, RecvEnds, RecvOp, Broken, Users, Sender, Reader, netVars, userVars, taskVars
<1>19. CASE Establish \/ Refuse \/ Break
  <2>1. net' \in Seq(Bytes) /\ Len(net') <= Cap
    <3>1. net' = <<>> \/ net' = net
      BY <1>19 DEF Establish, Refuse, Break, Change
    <3>2. <<>> \in Seq(Bytes) /\ Len(<<>>) <= Cap
      OBVIOUS
    <3>3. net \in Seq(Bytes) /\ Len(net) <= Cap
      BY DEF TypeOK
    <3> QED BY <3>1, <3>2, <3>3, Zenon
  <2>2. wake' \in [Users -> 0..MaxWakes]
    BY <1>19 DEF TypeOK, Establish, Refuse, Break, Change, Touched
  <2> QED
    BY <1>19, <2>1, <2>2 DEF TypeOK, Establish, Refuse, Break, Change, Users, Sender, Reader, netVars, userVars, taskVars
<1>20. CASE \E p \in Users : Complete(p)
  <2>1. PICK p \in Users : Complete(p)
    BY <1>20
  <2>2. ASSUME phase[p] = "send", ~Broken
        PROVE  buf \in Bytes /\ Len(net) < Cap
    <3>1. p = Sender
      BY <2>2 DEF Handshake, Users, Sender, Reader
    <3> QED
      BY <2>1, <2>2, <3>1 DEF TypeOK, Complete, Stream, Pollable, Bytes, Users, Sender, Reader, netVars, userVars, taskVars
  <2>3. net' \in Seq(Bytes) /\ Len(net') <= Cap
    BY <2>1, <2>2 DEF TypeOK, Complete
  <2>4. wake' \in [Users -> 0..MaxWakes]
    <3>1. CASE overlapped
      BY <2>1, <3>1 DEF TypeOK, Complete, Signalled, Packets
    <3>2. CASE ~overlapped
      BY <2>1, <3>2 DEF Complete, Tasks
    <3> QED BY <3>1, <3>2
  <2> QED
    BY <2>1, <2>3, <2>4 DEF TypeOK, Complete, Users, Sender, Reader, netVars, userVars, taskVars
<1>21. CASE UNCHANGED vars
  BY <1>21 DEF TypeOK, vars, netVars, userVars, taskVars
<1> QED
  BY <1>1, <1>2, <1>3, <1>4, <1>5, <1>6, <1>7, <1>8, <1>9, <1>10, <1>11, <1>12, <1>13, <1>14, <1>15, <1>16, <1>17, <1>18, <1>19, <1>20, <1>21 DEF Next, SenderStep, ReaderStep, UserStep, Users

\* Every function keeps the task in step with its OVERLAPPED.
LEMMA TasksStep ==
  ASSUME SockInv, [Next]_vars
  PROVE  Tasks'
<1> USE SockAssumption DEF SockInv
<1>0. overlapped' = overlapped
  BY DEF Next, SenderStep, ReaderStep, Establish, Refuse, Break, Change, Complete, vars
<1> USE <1>0
<1>1. CASE \E p \in Users : Wait(p)
  BY <1>1 DEF TypeOK, Tasks, ActiveOwnsOverlapped, Wait, Users, Sender, Reader, netVars, userVars, taskVars
<1>2. CASE \E p \in Users : Park(p)
  BY <1>2 DEF TypeOK, Tasks, ActiveOwnsOverlapped, Park, Users, Sender, Reader, netVars, userVars, taskVars
<1>3. CASE \E p \in Users : PollIncomplete(p)
  BY <1>3 DEF TypeOK, Tasks, ActiveOwnsOverlapped, PollIncomplete, ActiveIncomplete, Calls, Users, Sender, Reader, netVars, userVars, taskVars
<1>4. CASE \E p \in Users : PollFailed(p)
  BY <1>4 DEF TypeOK, Tasks, ActiveOwnsOverlapped, PollFailed, Calls, Users, Sender, Reader, netVars, userVars, taskVars
<1>5. CASE ConnectBegin
  BY <1>5 DEF TypeOK, Tasks, ActiveOwnsOverlapped, ConnectBegin, Calls, Idle, Users, Sender, Reader, netVars, userVars, taskVars
<1>6. CASE \E to \in {"up", "refused"} : ConnectNow(to)
  BY <1>6 DEF TypeOK, Tasks, ActiveOwnsOverlapped, ConnectNow, Calls, Idle, Touched, Users, Sender, Reader, netVars, userVars, taskVars
<1>7. CASE ConnectEnd
  BY <1>7 DEF TypeOK, Tasks, ActiveOwnsOverlapped, ConnectEnd, Calls, Completed, ConnectFailed, Broken, Users, Sender, Reader, netVars, userVars, taskVars
<1>8. CASE Accept
  BY <1>8 DEF TypeOK, Tasks, ActiveOwnsOverlapped, Accept, Calls, Idle, Completed, Accepted, Touched, Users, Sender, Reader, netVars, userVars, taskVars
<1>9. CASE AcceptBegin
  BY <1>9 DEF TypeOK, Tasks, ActiveOwnsOverlapped, AcceptBegin, Calls, Ready, Idle, Users, Sender, Reader, netVars, userVars, taskVars
<1>10. CASE AcceptError
  BY <1>10 DEF TypeOK, Tasks, ActiveOwnsOverlapped, AcceptError, Calls, Ready, Idle, AcceptFailure, Users, Sender, Reader, netVars, userVars, taskVars
<1>11. CASE \E n \in 1..MaxLen : SendSome(n)
  BY <1>11 DEF TypeOK, Tasks, ActiveOwnsOverlapped, SendSome, Calls, Ready, Idle, Broken, Touched, Fitting, Reported, Interval, Users, Sender, Reader, netVars, userVars, taskVars
<1>12. CASE \E n \in 1..MaxLen : SendFull(n)
  BY <1>12 DEF TypeOK, Tasks, ActiveOwnsOverlapped, SendFull, Calls, Ready, Idle, Broken, Users, Sender, Reader, netVars, userVars, taskVars
<1>13. CASE SendEnd
  BY <1>13 DEF TypeOK, Tasks, ActiveOwnsOverlapped, SendEnd, Calls, Completed, Sent, Users, Sender, Reader, netVars, userVars, taskVars
<1>14. CASE SendError
  BY <1>14 DEF TypeOK, Tasks, ActiveOwnsOverlapped, SendError, Calls, Ready, Idle, Broken, Users, Sender, Reader, netVars, userVars, taskVars
<1>15. CASE Fin
  BY <1>15 DEF TypeOK, Tasks, ActiveOwnsOverlapped, Fin, Idle, Touched, Users, Sender, Reader, netVars, userVars, taskVars
<1>16. CASE \E n \in 1..MaxLen : RecvSome(n)
  BY <1>16 DEF TypeOK, Tasks, ActiveOwnsOverlapped, RecvSome, RecvRuns, Calls, Ready, Idle, Completed, RecvEnds, Touched, Users, Sender, Reader, netVars, userVars, taskVars
<1>17. CASE RecvEof
  BY <1>17 DEF TypeOK, Tasks, ActiveOwnsOverlapped, RecvEof, RecvRuns, Calls, Ready, Idle, Completed, RecvEnds, Broken, Users, Sender, Reader, netVars, userVars, taskVars
<1>18. CASE RecvBegin
  BY <1>18 DEF TypeOK, Tasks, ActiveOwnsOverlapped, RecvBegin, RecvRuns, Calls, Ready, Idle, Completed, RecvEnds, RecvOp, Broken, Users, Sender, Reader, netVars, userVars, taskVars
<1>19. CASE Establish \/ Refuse \/ Break
  BY <1>19 DEF TypeOK, Tasks, ActiveOwnsOverlapped, Change, Establish, Refuse, Break, Touched, Users, Sender, Reader, netVars, userVars, taskVars
<1>20. CASE \E p \in Users : Complete(p)
  BY <1>20 DEF TypeOK, Tasks, ActiveOwnsOverlapped, Complete, Signalled, Pollable, Broken, Users, Sender, Reader, netVars, userVars, taskVars
<1>21. CASE UNCHANGED vars
  BY <1>21 DEF TypeOK, Tasks, ActiveOwnsOverlapped, vars, netVars, userVars, taskVars
<1> QED
  BY <1>1, <1>2, <1>3, <1>4, <1>5, <1>6, <1>7, <1>8, <1>9, <1>10, <1>11, <1>12, <1>13, <1>14, <1>15, <1>16, <1>17, <1>18, <1>19, <1>20, <1>21 DEF Next, SenderStep, ReaderStep, UserStep, Users

\* Every step keeps what the users know of the connection true.
LEMMA HandshakeStep ==
  ASSUME SockInv, [Next]_vars
  PROVE  Handshake'
<1> USE SockAssumption DEF SockInv
<1>0. overlapped' = overlapped
  BY DEF Next, SenderStep, ReaderStep, Establish, Refuse, Break, Change, Complete, vars
<1> USE <1>0
<1>1. CASE \E p \in Users : Wait(p)
  BY <1>1 DEF TypeOK, Handshake, Tasks, ActiveOwnsOverlapped, MustWait, Wait, Pollable, Broken, Users, Sender, Reader, netVars, userVars, taskVars
<1>2. CASE \E p \in Users : Park(p)
  BY <1>2 DEF TypeOK, Handshake, Tasks, ActiveOwnsOverlapped, MustWait, Park, Users, Sender, Reader, netVars, userVars, taskVars
<1>3. CASE \E p \in Users : PollIncomplete(p)
  BY <1>3 DEF TypeOK, Handshake, Tasks, ActiveOwnsOverlapped, MustWait, PollIncomplete, ActiveIncomplete, Calls, Users, Sender, Reader, netVars, userVars, taskVars
<1>4. CASE \E p \in Users : PollFailed(p)
  BY <1>4 DEF TypeOK, Handshake, Tasks, ActiveOwnsOverlapped, MustWait, PollFailed, Calls, Users, Sender, Reader, netVars, userVars, taskVars
<1>5. CASE ConnectBegin
  BY <1>5 DEF TypeOK, Handshake, Tasks, ActiveOwnsOverlapped, MustWait, ConnectBegin, Calls, Idle, Users, Sender, Reader, netVars, userVars, taskVars
<1>6. CASE \E to \in {"up", "refused"} : ConnectNow(to)
  BY <1>6 DEF TypeOK, Handshake, Tasks, ActiveOwnsOverlapped, MustWait, ConnectNow, Calls, Idle, Touched, Users, Sender, Reader, netVars, userVars, taskVars
<1>7. CASE ConnectEnd
  BY <1>7 DEF TypeOK, Handshake, Tasks, ActiveOwnsOverlapped, MustWait, ConnectEnd, Calls, Completed, ConnectFailed, Broken, Users, Sender, Reader, netVars, userVars, taskVars
<1>8. CASE Accept
  BY <1>8 DEF TypeOK, Handshake, Tasks, ActiveOwnsOverlapped, MustWait, Accept, Calls, Idle, Completed, Accepted, Touched, Users, Sender, Reader, netVars, userVars, taskVars
<1>9. CASE AcceptBegin
  BY <1>9 DEF TypeOK, Handshake, Tasks, ActiveOwnsOverlapped, MustWait, AcceptBegin, Calls, Ready, Idle, Users, Sender, Reader, netVars, userVars, taskVars
<1>10. CASE AcceptError
  BY <1>10 DEF TypeOK, Handshake, Tasks, ActiveOwnsOverlapped, MustWait, AcceptError, Calls, Ready, Idle, AcceptFailure, Users, Sender, Reader, netVars, userVars, taskVars
<1>11. CASE \E n \in 1..MaxLen : SendSome(n)
  BY <1>11 DEF TypeOK, Handshake, Tasks, ActiveOwnsOverlapped, MustWait, SendSome, Calls, Ready, Idle, Broken, Touched, Fitting, Reported, Interval, Users, Sender, Reader, netVars, userVars, taskVars
<1>12. CASE \E n \in 1..MaxLen : SendFull(n)
  BY <1>12 DEF TypeOK, Handshake, Tasks, ActiveOwnsOverlapped, MustWait, SendFull, Calls, Ready, Idle, Broken, Users, Sender, Reader, netVars, userVars, taskVars
<1>13. CASE SendEnd
  BY <1>13 DEF TypeOK, Handshake, Tasks, ActiveOwnsOverlapped, MustWait, SendEnd, Calls, Completed, Sent, Users, Sender, Reader, netVars, userVars, taskVars
<1>14. CASE SendError
  BY <1>14 DEF TypeOK, Handshake, Tasks, ActiveOwnsOverlapped, MustWait, SendError, Calls, Ready, Idle, Broken, Users, Sender, Reader, netVars, userVars, taskVars
<1>15. CASE Fin
  BY <1>15 DEF TypeOK, Handshake, Tasks, ActiveOwnsOverlapped, MustWait, Fin, Idle, Touched, Users, Sender, Reader, netVars, userVars, taskVars
<1>16. CASE \E n \in 1..MaxLen : RecvSome(n)
  BY <1>16 DEF TypeOK, Handshake, Tasks, ActiveOwnsOverlapped, MustWait, RecvSome, RecvRuns, Calls, Ready, Idle, Completed, RecvEnds, Touched, Users, Sender, Reader, netVars, userVars, taskVars
<1>17. CASE RecvEof
  BY <1>17 DEF TypeOK, Handshake, Tasks, ActiveOwnsOverlapped, MustWait, RecvEof, RecvRuns, Calls, Ready, Idle, Completed, RecvEnds, Broken, Users, Sender, Reader, netVars, userVars, taskVars
<1>18. CASE RecvBegin
  BY <1>18 DEF TypeOK, Handshake, Tasks, ActiveOwnsOverlapped, MustWait, RecvBegin, RecvRuns, Calls, Ready, Idle, Completed, RecvEnds, RecvOp, Broken, Users, Sender, Reader, netVars, userVars, taskVars
<1>19. CASE Establish \/ Refuse \/ Break
  BY <1>19 DEF TypeOK, Handshake, Tasks, ActiveOwnsOverlapped, MustWait, Change, Establish, Refuse, Break, Touched, Users, Sender, Reader, netVars, userVars, taskVars
<1>20. CASE \E p \in Users : Complete(p)
  BY <1>20 DEF TypeOK, Handshake, Tasks, ActiveOwnsOverlapped, MustWait, Complete, Signalled, Pollable, Broken, Users, Sender, Reader, netVars, userVars, taskVars
<1>21. CASE UNCHANGED vars
  BY <1>21 DEF TypeOK, Handshake, Tasks, ActiveOwnsOverlapped, MustWait, vars, netVars, userVars, taskVars
<1> QED
  BY <1>1, <1>2, <1>3, <1>4, <1>5, <1>6, <1>7, <1>8, <1>9, <1>10, <1>11, <1>12, <1>13, <1>14, <1>15, <1>16, <1>17, <1>18, <1>19, <1>20, <1>21 DEF Next, SenderStep, ReaderStep, UserStep, Users

\* Every step keeps the stream in order and accounted for.
LEMMA StreamStep ==
  ASSUME SockInv, [Next]_vars
  PROVE  Stream'
<1> USE SockAssumption DEF SockInv
<1>0. overlapped' = overlapped
  BY DEF Next, SenderStep, ReaderStep, Establish, Refuse, Break, Change, Complete, vars
<1> USE <1>0
<1>1. CASE \E p \in Users : Wait(p)
  BY <1>1 DEF TypeOK, Stream, InOrder, ToldIsSent, Unreported, Tasks, ActiveOwnsOverlapped, Handshake, Wait, Users, Sender, Reader, netVars, userVars, taskVars
<1>2. CASE \E p \in Users : Park(p)
  BY <1>2 DEF TypeOK, Stream, InOrder, ToldIsSent, Unreported, Tasks, ActiveOwnsOverlapped, Handshake, Park, Users, Sender, Reader, netVars, userVars, taskVars
<1>3. CASE \E p \in Users : PollIncomplete(p)
  BY <1>3 DEF TypeOK, Stream, InOrder, ToldIsSent, Unreported, Tasks, ActiveOwnsOverlapped, Handshake, PollIncomplete, ActiveIncomplete, Calls, Users, Sender, Reader, netVars, userVars, taskVars
<1>4. CASE \E p \in Users : PollFailed(p)
  BY <1>4 DEF TypeOK, Stream, InOrder, ToldIsSent, Unreported, Tasks, ActiveOwnsOverlapped, Handshake, PollFailed, Calls, Users, Sender, Reader, netVars, userVars, taskVars
<1>5. CASE ConnectBegin
  BY <1>5 DEF TypeOK, Stream, InOrder, ToldIsSent, Unreported, Tasks, ActiveOwnsOverlapped, Handshake, ConnectBegin, Calls, Idle, Users, Sender, Reader, netVars, userVars, taskVars
<1>6. CASE \E to \in {"up", "refused"} : ConnectNow(to)
  BY <1>6 DEF TypeOK, Stream, InOrder, ToldIsSent, Unreported, Tasks, ActiveOwnsOverlapped, Handshake, ConnectNow, Calls, Idle, Touched, Users, Sender, Reader, netVars, userVars, taskVars
<1>7. CASE ConnectEnd
  BY <1>7 DEF TypeOK, Stream, InOrder, ToldIsSent, Unreported, Tasks, ActiveOwnsOverlapped, Handshake, ConnectEnd, Calls, Completed, ConnectFailed, Broken, Users, Sender, Reader, netVars, userVars, taskVars
<1>8. CASE Accept
  BY <1>8 DEF TypeOK, Stream, InOrder, ToldIsSent, Unreported, Tasks, ActiveOwnsOverlapped, Handshake, Accept, Calls, Idle, Completed, Accepted, Touched, Users, Sender, Reader, netVars, userVars, taskVars
<1>9. CASE AcceptBegin
  BY <1>9 DEF TypeOK, Stream, InOrder, ToldIsSent, Unreported, Tasks, ActiveOwnsOverlapped, Handshake, AcceptBegin, Calls, Ready, Idle, Users, Sender, Reader, netVars, userVars, taskVars
<1>10. CASE AcceptError
  BY <1>10 DEF TypeOK, Stream, InOrder, ToldIsSent, Unreported, Tasks, ActiveOwnsOverlapped, Handshake, AcceptError, Calls, Ready, Idle, AcceptFailure, Users, Sender, Reader, netVars, userVars, taskVars
<1>11. CASE \E n \in 1..MaxLen : SendSome(n)
  <2>1. PICK n \in 1..MaxLen : SendSome(n)
    BY <1>11
  <2>2. Fitting(n) \in Nat /\ Fitting(n) <= n /\ Len(net) + Fitting(n) <= Cap
    BY <2>1, FittingFits DEF SendSome
  <2>3. /\ told \in Nat /\ n \in Nat /\ net \in Seq(Nat) /\ got \in Seq(Nat)
        /\ conn = "up" /\ phase[Sender] = "send" /\ got' = got
    BY <2>1 DEF TypeOK, SendSome, Calls, Broken, Handshake, Bytes
  <2>4. op[Sender] # "done" /\ op[Sender] # "pending" /\ op' = op /\ phase' = phase /\ conn' = conn
    BY <2>1 DEF SendSome, Ready, Idle, Tasks, ActiveOwnsOverlapped, Users
  <2>5. Len(got) + Len(net) = told
    BY <2>3, <2>4 DEF Stream, ToldIsSent, Unreported
  <2>6. /\ Len(net) \in Nat /\ Len(got) \in Nat
        /\ Len(net') = Len(net) + Fitting(n)
        /\ Follows(net', Len(got))
    <3> DEFINE t == Interval(told, Fitting(n))
    <3>1. t \in Seq(Nat) /\ Len(t) = Fitting(n) /\ Follows(t, told)
      BY <2>2, <2>3, IntervalBytes
    <3>2. net' = net \o t
      BY <2>1 DEF SendSome
    <3> HIDE DEF t
    <3>3. Len(net) \in Nat /\ Len(got) \in Nat /\ Follows(net, Len(got))
      BY <2>3 DEF Stream, Follows
    <3> QED BY <2>3, <2>5, <3>1, <3>2, <3>3, FollowsConcat
  <2>7. \A i \in 1..Len(net') : net'[i] = Len(got) + i
    BY <2>6 DEF Follows
  <2>8. told' = told + Fitting(n)
    BY <2>1 DEF SendSome, Reported
  <2>9. ToldIsSent'
    BY <2>2, <2>3, <2>4, <2>5, <2>6, <2>8 DEF ToldIsSent, Unreported
  <2> QED
    BY <2>3, <2>4, <2>7, <2>9 DEF Stream, InOrder
<1>12. CASE \E n \in 1..MaxLen : SendFull(n)
  <2>1. PICK n \in 1..MaxLen : SendFull(n)
    BY <1>12
  <2>2. /\ told \in Nat /\ told < MaxBytes /\ conn = "up" /\ phase[Sender] = "send"
        /\ conn' = conn /\ net' = net /\ got' = got /\ told' = told /\ phase' = phase
    BY <2>1 DEF TypeOK, SendFull, Calls, Broken, Handshake, netVars
  <2>3. op[Sender] = "none" /\ op'[Sender] # "done" /\ op'[Sender] # "failed"
    BY <2>1 DEF TypeOK, SendFull, Ready, Idle, Tasks, ActiveOwnsOverlapped, Users
  <2>4. op'[Sender] = "pending" => buf' = told + 1
    BY <2>1, <2>3 DEF TypeOK, SendFull, Users
  <2> QED
    BY <2>2, <2>3, <2>4 DEF Stream, InOrder, ToldIsSent, Unreported
<1>13. CASE SendEnd
  BY <1>13 DEF TypeOK, Stream, InOrder, ToldIsSent, Unreported, Tasks, ActiveOwnsOverlapped, Handshake, SendEnd, Calls, Completed, Sent, Users, Sender, Reader, netVars, userVars, taskVars
<1>14. CASE SendError
  BY <1>14 DEF TypeOK, Stream, InOrder, ToldIsSent, Unreported, Tasks, ActiveOwnsOverlapped, Handshake, SendError, Calls, Ready, Idle, Broken, Users, Sender, Reader, netVars, userVars, taskVars
<1>15. CASE Fin
  BY <1>15 DEF TypeOK, Stream, InOrder, ToldIsSent, Unreported, Tasks, ActiveOwnsOverlapped, Handshake, Fin, Idle, Touched, Users, Sender, Reader, netVars, userVars, taskVars
<1>16. CASE \E n \in 1..MaxLen : RecvSome(n)
  <2>1. PICK n \in 1..MaxLen : RecvSome(n)
    BY <1>16
  <2>2. /\ net \in Seq(Nat) /\ got \in Seq(Nat) /\ told \in Nat /\ net # <<>> /\ conn = "up"
        /\ conn' = conn /\ told' = told /\ phase' = phase /\ buf' = buf
        /\ op'[Sender] = op[Sender]
    BY <2>1 DEF TypeOK, RecvSome, RecvEnds, Stream, Bytes, Users, Sender, Reader
  <2>3. PICK m \in 1..Len(net) :
          got' = got \o SubSeq(net, 1, m) /\ net' = SubSeq(net, m + 1, Len(net))
    <3> DEFINE k == IF n <= Len(net) THEN n ELSE Len(net)
    <3>1. k \in 1..Len(net)
      BY <2>2
    <3> QED
      BY <2>1, <3>1 DEF RecvSome
  <2>4. /\ Len(net) \in Nat /\ Len(got) \in Nat
        /\ Len(got') = Len(got) + m /\ Len(net') = Len(net) - m
        /\ Follows(got', 0) /\ Follows(net', Len(got) + m)
    <3> DEFINE h == SubSeq(net, 1, m)
               r == SubSeq(net, m + 1, Len(net))
    <3>1. Len(net) \in Nat /\ Len(got) \in Nat /\ Follows(net, Len(got)) /\ Follows(got, 0)
      <4>1. Len(net) \in Nat /\ Len(got) \in Nat
        BY <2>2
      <4>2. Follows(net, Len(got))
        BY DEF Stream, Follows
      <4>3. Follows(got, 0)
        BY <4>1 DEF Stream, InOrder, Follows
      <4> QED BY <4>1, <4>2, <4>3
    <3>2. /\ h \in Seq(Nat) /\ Len(h) = m /\ Follows(h, Len(got))
          /\ Len(r) = Len(net) - m /\ Follows(r, Len(got) + m)
      BY <2>2, <3>1, FollowsCut
    <3>3. got' = got \o h /\ net' = r
      BY <2>3
    <3> HIDE DEF h, r
    <3>4. 0 + Len(got) = Len(got)
      BY <3>1
    <3>5. Len(got') = Len(got) + Len(h) /\ Follows(got', 0)
      BY <2>2, <3>1, <3>2, <3>3, <3>4, FollowsConcat
    <3> QED BY <3>1, <3>2, <3>3, <3>5
  <2>5. InOrder'
    BY <2>4 DEF InOrder, Follows
  <2>6. \A i \in 1..Len(net') : net'[i] = Len(got') + i
    BY <2>4 DEF Follows
  <2>7. Unreported' = Unreported /\ Unreported \in Nat
    BY <2>2 DEF Unreported
  <2>8. ToldIsSent'
    <3>1. Len(got) + Len(net) = told + Unreported
      BY <2>2 DEF Stream, ToldIsSent
    <3>2. Len(got') + Len(net') = Len(got) + Len(net)
      BY <2>4
    <3> QED BY <2>2, <2>7, <3>1, <3>2 DEF ToldIsSent
  <2> QED
    BY <2>2, <2>5, <2>6, <2>8 DEF Stream
<1>17. CASE RecvEof
  BY <1>17 DEF TypeOK, Stream, InOrder, ToldIsSent, Unreported, Tasks, ActiveOwnsOverlapped, Handshake, RecvEof, RecvRuns, Calls, Ready, Idle, Completed, RecvEnds, Broken, Users, Sender, Reader, netVars, userVars, taskVars
<1>18. CASE RecvBegin
  BY <1>18 DEF TypeOK, Stream, InOrder, ToldIsSent, Unreported, Tasks, ActiveOwnsOverlapped, Handshake, RecvBegin, RecvRuns, Calls, Ready, Idle, Completed, RecvEnds, RecvOp, Broken, Users, Sender, Reader, netVars, userVars, taskVars
<1>19. CASE Establish \/ Refuse \/ Break
  BY <1>19 DEF TypeOK, Stream, InOrder, ToldIsSent, Unreported, Tasks, ActiveOwnsOverlapped, Handshake, Change, Establish, Refuse, Break, Touched, Users, Sender, Reader, netVars, userVars, taskVars
<1>20. CASE \E p \in Users : Complete(p)
  <2>1. PICK p \in Users : Complete(p)
    BY <1>20
  <2>2. CASE phase[p] = "send" /\ ~Broken
    <3>1. /\ p = Sender /\ conn = "up" /\ op[Sender] = "pending" /\ op'[Sender] = "done"
          /\ conn' = conn /\ told' = told /\ got' = got /\ phase' = phase /\ net' = Append(net, buf)
      BY <2>1, <2>2 DEF TypeOK, Complete, Handshake, Broken, userVars, Users, Sender, Reader
    <3>2. net \in Seq(Nat) /\ told \in Nat /\ buf = told + 1 /\ told < MaxBytes /\ got \in Seq(Nat)
      BY <2>2, <3>1 DEF TypeOK, Stream, Bytes
    <3>3. Len(got) + Len(net) = told
      BY <3>1, <3>2 DEF Stream, ToldIsSent, Unreported
    <3>4. Len(net') = Len(net) + 1 /\ Len(net) \in Nat /\ Len(got) \in Nat
      BY <3>1, <3>2
    <3>5. \A i \in 1..Len(net') : net'[i] = Len(got) + i
      <4>1. \A i \in 1..Len(net) : net'[i] = net[i]
        BY <3>1, <3>2
      <4>2. net'[Len(net) + 1] = Len(got) + (Len(net) + 1)
        <5>1. net'[Len(net) + 1] = buf
          BY <3>1, <3>2
        <5>2. buf = Len(got) + (Len(net) + 1)
          BY <3>2, <3>3, <3>4
        <5> QED BY <5>1, <5>2
      <4>3. \A i \in 1..Len(net) : net[i] = Len(got) + i
        BY DEF Stream
      <4>4. 1..Len(net') = (1..Len(net)) \cup {Len(net) + 1}
        BY <3>4
      <4> QED BY <4>1, <4>2, <4>3, <4>4
    <3>6. ToldIsSent'
      <4>1. Unreported' = 1
        BY <2>2, <3>1 DEF Unreported
      <4>2. Len(got') + Len(net') = told' + 1
        <5>1. Len(got') = Len(got) /\ told' = told
          BY <3>1
        <5>2. Len(got) + (Len(net) + 1) = told + 1
          BY <3>3, <3>4
        <5> QED BY <3>4, <5>1, <5>2
      <4> QED BY <4>1, <4>2 DEF ToldIsSent
    <3> QED
      BY <2>2, <3>1, <3>2, <3>5, <3>6 DEF Stream, InOrder
  <2>3. CASE ~(phase[p] = "send" /\ ~Broken)
    <3>1. /\ conn' = conn /\ told' = told /\ got' = got /\ phase' = phase /\ net' = net /\ buf' = buf
          /\ \/ op'[Sender] = op[Sender] \/ phase[Sender] # "send"
             \/ op'[Sender] = "failed" /\ conn # "up"
      BY <2>1, <2>3 DEF TypeOK, Complete, Handshake, Broken, userVars, Users, Sender, Reader
    <3> QED
      BY <3>1 DEF Stream, InOrder, ToldIsSent, Unreported
  <2> QED BY <2>2, <2>3
<1>21. CASE UNCHANGED vars
  BY <1>21 DEF TypeOK, Stream, InOrder, ToldIsSent, Unreported, Tasks, ActiveOwnsOverlapped, Handshake, vars, netVars, userVars, taskVars
<1> QED
  BY <1>1, <1>2, <1>3, <1>4, <1>5, <1>6, <1>7, <1>8, <1>9, <1>10, <1>11, <1>12, <1>13, <1>14, <1>15, <1>16, <1>17, <1>18, <1>19, <1>20, <1>21 DEF Next, SenderStep, ReaderStep, UserStep, Users

\* Every step that tells a user to wait leaves something to wake him.
LEMMA WakeupsStep ==
  ASSUME SockInv, [Next]_vars
  PROVE  Wakeups'
<1> USE SockAssumption DEF SockInv
<1>0. overlapped' = overlapped
  BY DEF Next, SenderStep, ReaderStep, Establish, Refuse, Break, Change, Complete, vars
<1> USE <1>0
<1>1. CASE \E p \in Users : Wait(p)
  BY <1>1 DEF TypeOK, Wakeups, MustWait, Pollable, Broken, Tasks, ActiveOwnsOverlapped, Wait, Users, Sender, Reader, netVars, userVars, taskVars
<1>2. CASE \E p \in Users : Park(p)
  BY <1>2 DEF TypeOK, Wakeups, MustWait, Pollable, Broken, Tasks, ActiveOwnsOverlapped, Park, Users, Sender, Reader, netVars, userVars, taskVars
<1>3. CASE \E p \in Users : PollIncomplete(p)
  BY <1>3 DEF TypeOK, Wakeups, MustWait, Pollable, Broken, Tasks, ActiveOwnsOverlapped, PollIncomplete, ActiveIncomplete, Calls, Users, Sender, Reader, netVars, userVars, taskVars
<1>4. CASE \E p \in Users : PollFailed(p)
  BY <1>4 DEF TypeOK, Wakeups, MustWait, Pollable, Broken, Tasks, ActiveOwnsOverlapped, PollFailed, Calls, Users, Sender, Reader, netVars, userVars, taskVars
<1>5. CASE ConnectBegin
  BY <1>5 DEF TypeOK, Wakeups, MustWait, Pollable, Broken, Tasks, ActiveOwnsOverlapped, ConnectBegin, Calls, Idle, Users, Sender, Reader, netVars, userVars, taskVars
<1>6. CASE \E to \in {"up", "refused"} : ConnectNow(to)
  BY <1>6 DEF TypeOK, Wakeups, MustWait, Pollable, Broken, Tasks, ActiveOwnsOverlapped, ConnectNow, Calls, Idle, Touched, Users, Sender, Reader, netVars, userVars, taskVars
<1>7. CASE ConnectEnd
  BY <1>7 DEF TypeOK, Wakeups, MustWait, Pollable, Broken, Tasks, ActiveOwnsOverlapped, ConnectEnd, Calls, Completed, ConnectFailed, Users, Sender, Reader, netVars, userVars, taskVars
<1>8. CASE Accept
  BY <1>8 DEF TypeOK, Wakeups, MustWait, Pollable, Broken, Tasks, ActiveOwnsOverlapped, Accept, Calls, Idle, Completed, Accepted, Touched, Users, Sender, Reader, netVars, userVars, taskVars
<1>9. CASE AcceptBegin
  BY <1>9 DEF TypeOK, Wakeups, MustWait, Pollable, Broken, Tasks, ActiveOwnsOverlapped, AcceptBegin, Calls, Ready, Idle, Users, Sender, Reader, netVars, userVars, taskVars
<1>10. CASE AcceptError
  BY <1>10 DEF TypeOK, Wakeups, MustWait, Pollable, Broken, Tasks, ActiveOwnsOverlapped, AcceptError, Calls, Ready, Idle, AcceptFailure, Users, Sender, Reader, netVars, userVars, taskVars
<1>11. CASE \E n \in 1..MaxLen : SendSome(n)
  BY <1>11 DEF TypeOK, Wakeups, MustWait, Pollable, Broken, Tasks, ActiveOwnsOverlapped, SendSome, Calls, Ready, Idle, Touched, Fitting, Reported, Interval, Users, Sender, Reader, netVars, userVars, taskVars
<1>12. CASE \E n \in 1..MaxLen : SendFull(n)
  BY <1>12 DEF TypeOK, Wakeups, MustWait, Pollable, Broken, Tasks, ActiveOwnsOverlapped, SendFull, Calls, Ready, Idle, Users, Sender, Reader, netVars, userVars, taskVars
<1>13. CASE SendEnd
  BY <1>13 DEF TypeOK, Wakeups, MustWait, Pollable, Broken, Tasks, ActiveOwnsOverlapped, SendEnd, Calls, Completed, Sent, Users, Sender, Reader, netVars, userVars, taskVars
<1>14. CASE SendError
  BY <1>14 DEF TypeOK, Wakeups, MustWait, Pollable, Broken, Tasks, ActiveOwnsOverlapped, SendError, Calls, Ready, Idle, Users, Sender, Reader, netVars, userVars, taskVars
<1>15. CASE Fin
  BY <1>15 DEF TypeOK, Wakeups, MustWait, Pollable, Broken, Tasks, ActiveOwnsOverlapped, Fin, Idle, Touched, Users, Sender, Reader, netVars, userVars, taskVars
<1>16. CASE \E n \in 1..MaxLen : RecvSome(n)
  BY <1>16 DEF TypeOK, Wakeups, MustWait, Pollable, Broken, Tasks, ActiveOwnsOverlapped, RecvSome, RecvRuns, Calls, Ready, Idle, Completed, RecvEnds, Touched, Users, Sender, Reader, netVars, userVars, taskVars
<1>17. CASE RecvEof
  BY <1>17 DEF TypeOK, Wakeups, MustWait, Pollable, Broken, Tasks, ActiveOwnsOverlapped, RecvEof, RecvRuns, Calls, Ready, Idle, Completed, RecvEnds, Users, Sender, Reader, netVars, userVars, taskVars
<1>18. CASE RecvBegin
  BY <1>18 DEF TypeOK, Wakeups, MustWait, Pollable, Broken, Tasks, ActiveOwnsOverlapped, RecvBegin, RecvRuns, Calls, Ready, Idle, Completed, RecvEnds, RecvOp, Users, Sender, Reader, netVars, userVars, taskVars
<1>19. CASE Establish \/ Refuse \/ Break
  BY <1>19 DEF TypeOK, Wakeups, MustWait, Pollable, Broken, Tasks, ActiveOwnsOverlapped, Change, Establish, Refuse, Break, Touched, Users, Sender, Reader, netVars, userVars, taskVars
<1>20. CASE \E p \in Users : Complete(p)
  BY <1>20 DEF TypeOK, Wakeups, MustWait, Pollable, Broken, Tasks, ActiveOwnsOverlapped, Complete, Signalled, Users, Sender, Reader, netVars, userVars, taskVars
<1>21. CASE UNCHANGED vars
  BY <1>21 DEF TypeOK, Wakeups, MustWait, Pollable, Broken, Tasks, ActiveOwnsOverlapped, vars, netVars, userVars, taskVars
<1> QED
  BY <1>1, <1>2, <1>3, <1>4, <1>5, <1>6, <1>7, <1>8, <1>9, <1>10, <1>11, <1>12, <1>13, <1>14, <1>15, <1>16, <1>17, <1>18, <1>19, <1>20, <1>21 DEF Next, SenderStep, ReaderStep, UserStep, Users

\* Every step keeps the number of packets bounded.
LEMMA PacketsStep ==
  ASSUME SockInv, [Next]_vars
  PROVE  Packets'
<1> USE SockAssumption DEF SockInv
<1>0. overlapped' = overlapped
  BY DEF Next, SenderStep, ReaderStep, Establish, Refuse, Break, Change, Complete, vars
<1> USE <1>0
<1>1. CASE \E p \in Users : Wait(p)
  BY <1>1 DEF TypeOK, Packets, MustWait, Tasks, ActiveOwnsOverlapped, Wait, Users, Sender, Reader, netVars, userVars, taskVars
<1>2. CASE \E p \in Users : Park(p)
  BY <1>2 DEF TypeOK, Packets, MustWait, Tasks, ActiveOwnsOverlapped, Park, Users, Sender, Reader, netVars, userVars, taskVars
<1>3. CASE \E p \in Users : PollIncomplete(p)
  BY <1>3 DEF TypeOK, Packets, MustWait, Tasks, ActiveOwnsOverlapped, PollIncomplete, ActiveIncomplete, Calls, Users, Sender, Reader, netVars, userVars, taskVars
<1>4. CASE \E p \in Users : PollFailed(p)
  BY <1>4 DEF TypeOK, Packets, MustWait, Tasks, ActiveOwnsOverlapped, PollFailed, Calls, Users, Sender, Reader, netVars, userVars, taskVars
<1>5. CASE ConnectBegin
  BY <1>5 DEF TypeOK, Packets, MustWait, Tasks, ActiveOwnsOverlapped, ConnectBegin, Calls, Idle, Users, Sender, Reader, netVars, userVars, taskVars
<1>6. CASE \E to \in {"up", "refused"} : ConnectNow(to)
  BY <1>6 DEF TypeOK, Packets, MustWait, Tasks, ActiveOwnsOverlapped, ConnectNow, Calls, Idle, Touched, Users, Sender, Reader, netVars, userVars, taskVars
<1>7. CASE ConnectEnd
  BY <1>7 DEF TypeOK, Packets, MustWait, Tasks, ActiveOwnsOverlapped, ConnectEnd, Calls, Completed, ConnectFailed, Broken, Users, Sender, Reader, netVars, userVars, taskVars
<1>8. CASE Accept
  BY <1>8 DEF TypeOK, Packets, MustWait, Tasks, ActiveOwnsOverlapped, Accept, Calls, Idle, Completed, Accepted, Touched, Users, Sender, Reader, netVars, userVars, taskVars
<1>9. CASE AcceptBegin
  BY <1>9 DEF TypeOK, Packets, MustWait, Tasks, ActiveOwnsOverlapped, AcceptBegin, Calls, Ready, Idle, Users, Sender, Reader, netVars, userVars, taskVars
<1>10. CASE AcceptError
  BY <1>10 DEF TypeOK, Packets, MustWait, Tasks, ActiveOwnsOverlapped, AcceptError, Calls, Ready, Idle, AcceptFailure, Users, Sender, Reader, netVars, userVars, taskVars
<1>11. CASE \E n \in 1..MaxLen : SendSome(n)
  BY <1>11 DEF TypeOK, Packets, MustWait, Tasks, ActiveOwnsOverlapped, SendSome, Calls, Ready, Idle, Broken, Touched, Fitting, Reported, Interval, Users, Sender, Reader, netVars, userVars, taskVars
<1>12. CASE \E n \in 1..MaxLen : SendFull(n)
  BY <1>12 DEF TypeOK, Packets, MustWait, Tasks, ActiveOwnsOverlapped, SendFull, Calls, Ready, Idle, Broken, Users, Sender, Reader, netVars, userVars, taskVars
<1>13. CASE SendEnd
  BY <1>13 DEF TypeOK, Packets, MustWait, Tasks, ActiveOwnsOverlapped, SendEnd, Calls, Completed, Sent, Users, Sender, Reader, netVars, userVars, taskVars
<1>14. CASE SendError
  BY <1>14 DEF TypeOK, Packets, MustWait, Tasks, ActiveOwnsOverlapped, SendError, Calls, Ready, Idle, Broken, Users, Sender, Reader, netVars, userVars, taskVars
<1>15. CASE Fin
  BY <1>15 DEF TypeOK, Packets, MustWait, Wakeups, Tasks, ActiveOwnsOverlapped, Fin, Idle, Touched, Users, Sender, Reader, netVars, userVars, taskVars
<1>16. CASE \E n \in 1..MaxLen : RecvSome(n)
  BY <1>16 DEF TypeOK, Packets, MustWait, Tasks, ActiveOwnsOverlapped, RecvSome, RecvRuns, Calls, Ready, Idle, Completed, RecvEnds, Touched, Users, Sender, Reader, netVars, userVars, taskVars
<1>17. CASE RecvEof
  BY <1>17 DEF TypeOK, Packets, MustWait, Tasks, ActiveOwnsOverlapped, RecvEof, RecvRuns, Calls, Ready, Idle, Completed, RecvEnds, Broken, Users, Sender, Reader, netVars, userVars, taskVars
<1>18. CASE RecvBegin
  BY <1>18 DEF TypeOK, Packets, MustWait, Tasks, ActiveOwnsOverlapped, RecvBegin, RecvRuns, Calls, Ready, Idle, Completed, RecvEnds, RecvOp, Broken, Users, Sender, Reader, netVars, userVars, taskVars
<1>19. CASE Establish \/ Refuse \/ Break
  BY <1>19 DEF TypeOK, Packets, MustWait, Tasks, ActiveOwnsOverlapped, Change, Establish, Refuse, Break, Touched, Users, Sender, Reader, netVars, userVars, taskVars
<1>20. CASE \E p \in Users : Complete(p)
  BY <1>20 DEF TypeOK, Packets, MustWait, Tasks, ActiveOwnsOverlapped, Complete, Signalled, Pollable, Broken, Users, Sender, Reader, netVars, userVars, taskVars
<1>21. CASE UNCHANGED vars
  BY <1>21 DEF TypeOK, Packets, MustWait, Tasks, ActiveOwnsOverlapped, vars, netVars, userVars, taskVars
<1> QED
  BY <1>1, <1>2, <1>3, <1>4, <1>5, <1>6, <1>7, <1>8, <1>9, <1>10, <1>11, <1>12, <1>13, <1>14, <1>15, <1>16, <1>17, <1>18, <1>19, <1>20, <1>21 DEF Next, SenderStep, ReaderStep, UserStep, Users

-----------------------------------------------------------------------------
(* The theorems. *)

\* The invariant holds of both families of systems.
THEOREM SockInvariant == Spec => []SockInv
<1>1. Init => SockInv
  <2> SUFFICES ASSUME Init PROVE SockInv
    OBVIOUS
  <2> USE SockAssumption DEF Init, Users, Sender, Reader
  <2>1. TypeOK
    <3>1. net \in Seq(Bytes) /\ Len(net) <= Cap /\ got \in Seq(Bytes)
      <4>1. <<>> \in Seq(Bytes) /\ Len(<<>>) <= Cap
        OBVIOUS
      <4> QED BY <4>1, Zenon
    <3>2. told \in 0..MaxBytes /\ buf \in 0..MaxBytes /\ wake \in [Users -> 0..MaxWakes]
      OBVIOUS
    <3>3. phase \in [Users -> Phases] /\ ret \in [Users -> Returns]
      BY DEF Phases, Returns
    <3>4. /\ pc \in [Users -> {"run", "wait"}] /\ active \in [Users -> BOOLEAN] /\ kev \in [Users -> BOOLEAN]
          /\ op \in [Users -> {"none", "pending", "done", "failed"}]
      OBVIOUS
    <3>5. overlapped \in BOOLEAN /\ conn \in {"none", "syn", "up", "refused", "reset"} /\ fin \in BOOLEAN
      OBVIOUS
    <3> QED BY <3>1, <3>2, <3>3, <3>4, <3>5, Zenon DEF TypeOK
  <2>2. Tasks
    BY DEF Tasks, ActiveOwnsOverlapped
  <2>3. Handshake
    BY DEF Handshake
  <2>4. Stream
    BY DEF Stream, InOrder, ToldIsSent, Unreported
  <2>5. Wakeups
    BY DEF Wakeups, MustWait
  <2>6. Packets
    BY DEF Packets, MustWait
  <2> QED BY <2>1, <2>2, <2>3, <2>4, <2>5, <2>6 DEF SockInv
<1>2. SockInv /\ [Next]_vars => SockInv'
  BY TypeOKStep, TasksStep, HandshakeStep, StreamStep, WakeupsStep, PacketsStep DEF SockInv
<1> QED BY <1>1, <1>2, PTL DEF Spec

\* The stream, the tasks and the kernel queues stay within their types and
\* bounds, whatever the users and the network do.
THEOREM TypeCorrect == Spec => []TypeOK
<1>1. SockInv => TypeOK
  BY DEF SockInv
<1> QED BY <1>1, SockInvariant, PTL

\* The bytes that ffsock_recv_async() returns are the stream, in order, with
\* none repeated or skipped.
THEOREM StreamIsInOrder == Spec => []InOrder
<1>1. SockInv => InOrder
  BY DEF SockInv, Stream
<1> QED BY <1>1, SockInvariant, PTL

\* On a live connection the bytes that ffsock_send_async() reported are received or
\* on their way.
THEOREM ReportIsTrue == Spec => []ToldIsSent
<1>1. SockInv => ToldIsSent
  BY DEF SockInv, Stream
<1> QED BY <1>1, SockInvariant, PTL

\* No call zeroes or reuses an OVERLAPPED that the system owns.
THEOREM OverlappedIsOwned == Spec => []ActiveOwnsOverlapped
<1>1. SockInv => ActiveOwnsOverlapped
  BY DEF SockInv, Tasks
<1> QED BY <1>1, SockInvariant, PTL

\* No user is left in ffkq_wait() with a ready socket and nothing to wake him.
THEOREM WaitIsWoken == Spec => []NoLostWakeup
<1>1. SockInv => NoLostWakeup
  BY SockAssumption DEF SockInv, TypeOK, Wakeups, MustWait, NoLostWakeup
<1> QED BY <1>1, SockInvariant, PTL

\* ffsock_connect_async() does not return 0 for a connection that was refused or is
\* not yet there.
THEOREM ConnectReturnsTruth == Spec => ConnectIsTrue
<1>1. SockInv' /\ [Next]_vars =>
        [phase[Sender] = "connect" /\ phase'[Sender] = "send" => conn' \in {"up", "reset"}]_vars
  BY DEF SockInv, Handshake
<1> QED BY <1>1, SockInvariant, PTL DEF Spec, ConnectIsTrue

\* The reader sees the end of the stream only after all that was reported as
\* sent.
THEOREM EofIsLast == Spec => EofMeansAll
<1>1. ASSUME SockInv, [Next]_vars
      PROVE  [phase[Reader] = "recv" /\ phase'[Reader] = "end" /\ ret'[Reader] = "ok"
                => fin /\ Len(got) = told]_vars
  <2> SUFFICES ASSUME phase[Reader] = "recv", phase'[Reader] = "end", ret'[Reader] = "ok"
               PROVE  fin /\ Len(got) = told
    OBVIOUS
  <2>1. RecvEof
    BY <1>1 DEF SockInv, TypeOK, Next, SenderStep, ReaderStep, UserStep, Wait, Park, PollIncomplete, PollFailed,
      ConnectBegin, ConnectNow, ConnectEnd, Accept, Accepted, AcceptBegin, AcceptError, SendSome, SendFull, SendEnd, SendError,
      Fin, RecvSome, RecvBegin, Establish, Refuse, Break, Change, Complete, Users, Sender, Reader, vars, userVars
  <2>2. net = <<>> /\ fin /\ conn = "up"
    BY <1>1, <2>1 DEF SockInv, TypeOK, RecvEof, Broken, Handshake, Users
  <2>3. Len(got) + Len(net) = told /\ got \in Seq(Bytes) /\ told \in Nat
    BY <1>1, <2>2 DEF SockInv, TypeOK, Stream, ToldIsSent, Unreported, Handshake
  <2> QED BY <2>2, <2>3
<1> QED BY <1>1, SockInvariant, PTL DEF Spec, EofMeansAll

\* The bytes received are the stream, and those reported as sent get there.
THEOREM StreamArrives == Spec => []StreamIsWhole
<1>1. InOrder /\ ToldIsSent => StreamIsWhole
  BY DEF StreamIsWhole
<1> QED BY <1>1, StreamIsInOrder, ReportIsTrue, PTL

\* What ffsock_connect_async() and ffsock_recv_async() return is what has happened.
THEOREM ReturnsTellTruth == Spec => ReturnsAreTrue
BY ConnectReturnsTruth, EofIsLast DEF ReturnsAreTrue
=============================================================================
