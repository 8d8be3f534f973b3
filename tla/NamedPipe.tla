----------------------------- MODULE NamedPipe -----------------------------
(***************************************************************************)
(* The server of a named pipe (ffsys/pipe.h) with ffpipe_accept_async():   *)
(* on UNIX a listening socket, on Windows the pipe's only instance, which  *)
(* serves one client after another.                                        *)
(***************************************************************************)
EXTENDS KernelQueue

CONSTANTS
  Clients, \* each connects once
  Backlog  \* how many connections may wait on UNIX

VARIABLES
  client, \* "out", "waits", "left" (before it was served), "served"
  inst,   \* Windows: "listening", "connected", "broken", "disconnected"
  op,     \* Windows: ConnectNamedPipe(): "none", "pending", "done"
  active, \* task->active
  named   \* UNIX: the socket's file exists

pipeVars == <<client, inst, op, active, named>>

PipeInit ==
  /\ client = [c \in Clients |-> "out"]
  /\ inst = "listening" /\ op = "none" /\ active = FALSE /\ named = FALSE
PipeTypeOK ==
  /\ client \in [Clients -> {"out", "waits", "left", "served"}]
  /\ inst \in {"listening", "connected", "broken", "disconnected"}
  /\ op \in {"none", "pending", "done"} /\ active \in BOOLEAN /\ named \in BOOLEAN

Pipe == Handle("pipe")

\* The connections that accept() can return, those that were left included.
Waiting == {c \in Clients : client[c] \in {"waits", "left"}}

\* ffpipe_create_named(): UNIX: bind() fails while the file exists.  The user attaches the
\* pipe and accepts.
PipeNew ==
  /\ at = "loop" /\ New({"pipe"})
  /\ live' = live \cup {<<"pipe", made'["pipe"]>>}
  /\ at' = "pipe"
  /\ UNCHANGED <<sys, held, full, ready, batch, client, op, active>>

PipeCreateUnix == sys # "windows" /\ ~named /\ PipeNew /\ named' = TRUE /\ UNCHANGED inst
PipeCreateWindows == sys = "windows" /\ PipeNew /\ inst' = "listening" /\ UNCHANGED named

\* ffpipe_close(): those who wait are turned away.  UNIX: the file stays until the user
\* removes it.  Windows: a pending operation is cancelled, and its packet comes.
PipeForget ==
  /\ at = "loop" /\ Forget({"pipe"})
  /\ client' = [c \in Clients |-> IF c \in Waiting THEN "out" ELSE client[c]]
  /\ active' = FALSE /\ op' = "none"
  /\ UNCHANGED <<sys, made, held, batch, at, inst, named>>

PipeCloseUnix == sys # "windows" /\ PipeForget /\ Drop({Pipe})
PipeCloseWindows ==
  /\ sys = "windows" /\ PipeForget
  /\ ready' = IF op = "pending" THEN ReadyWith({Pipe}) ELSE ready
  /\ UNCHANGED <<live, full>>

PipeRemove ==
  /\ named /\ cur["pipe"] = 0 /\ at = "loop"
  /\ named' = FALSE
  /\ Stay /\ UNCHANGED <<client, inst, op, active>>

\* ffpipe_connect(): UNIX: connect() fails when nobody listens or the backlog is full;
\* Windows: CreateFile() fails unless the instance listens.  The client may try again.
ConnectNew(c) ==
  /\ cur["pipe"] # 0 /\ client[c] = "out"
  /\ client' = [client EXCEPT ![c] = "waits"]
  /\ UNCHANGED <<sys, made, cur, live, held, full, batch, at, active, named>>

ConnectUnix(c) ==
  /\ sys # "windows" /\ Cardinality(Waiting) < Backlog /\ ConnectNew(c)
  /\ ready' = ReadyWith({Pipe}) /\ UNCHANGED <<inst, op>>
ConnectWindows(c) ==
  /\ sys = "windows" /\ inst = "listening" /\ ConnectNew(c)
  /\ inst' = "connected"
  /\ op' = IF op = "pending" THEN "done" ELSE op
  /\ ready' = IF op = "pending" THEN ReadyWith({Pipe}) ELSE ready

\* The client closes its end before it is accepted.
Leave(c) ==
  /\ client[c] = "waits"
  /\ client' = [client EXCEPT ![c] = "left"]
  /\ inst' = IF sys = "windows" THEN "broken" ELSE inst
  /\ UNCHANGED <<kqVars, op, active, named>>

\* The user may call before an event tells him to.
AcceptEarly ==
  /\ at = "loop" /\ batch = <<>> /\ active
  /\ at' = "pipe"
  /\ UNCHANGED <<sys, made, cur, live, held, full, ready, batch, pipeVars>>

\* The connection is served and closed with ffpipe_peer_close(); the user goes on
\* accepting.  Windows: the instance is disconnected.
Serve ==
  /\ \E c \in Waiting : client' = [client EXCEPT ![c] = "served"]
  /\ op' = "none" /\ active' = FALSE
  /\ Stay /\ UNCHANGED named
ServeUnix == sys # "windows" /\ Serve /\ UNCHANGED inst
ServeWindows == sys = "windows" /\ Serve /\ inst' = "disconnected"

\* ffpipe_accept_async(): the operation that was begun has a result.
Accepted == op = "done"

AcceptUnix == at = "pipe" /\ Waiting # {} /\ ServeUnix
AcceptResult == at = "pipe" /\ active /\ Accepted /\ ServeWindows
AcceptConnected == at = "pipe" /\ ~active /\ inst = "connected" /\ ServeWindows

\* ConnectNamedPipe(): the operation begins, and ERROR_IO_PENDING is no error (the
\* mutant takes it for one).
BegunNot == FALSE
Begun == TRUE

AcceptBegin ==
  /\ at = "pipe" /\ sys = "windows" /\ ~active /\ inst \in {"listening", "disconnected"}
  /\ inst' = "listening" /\ op' = "pending" /\ active' = Begun
  /\ Return /\ UNCHANGED <<client, named>>

\* FFPIPE_EINPROGRESS
AcceptWaits ==
  /\ at = "pipe"
  /\ IF sys = "windows" THEN active /\ ~Accepted ELSE Waiting = {}
  /\ Return /\ UNCHANGED pipeVars

\* ERROR_NO_DATA: the client has left; the user disconnects it and calls again.
AcceptBroken ==
  /\ at = "pipe" /\ sys = "windows" /\ ~active /\ inst = "broken"
  /\ client' = [c \in Clients |-> IF client[c] = "left" THEN "served" ELSE client[c]]
  /\ inst' = "disconnected" /\ op' = "none"
  /\ Stay /\ UNCHANGED <<active, named>>

PipeHandling ==
  \/ AcceptUnix \/ AcceptResult \/ AcceptConnected
  \/ AcceptBegin \/ AcceptWaits \/ AcceptBroken
PipeOther ==
  \/ AcceptEarly \/ PipeCreateUnix \/ PipeCreateWindows
  \/ PipeCloseUnix \/ PipeCloseWindows \/ PipeRemove
  \/ \E c \in Clients : ConnectUnix(c) \/ ConnectWindows(c) \/ Leave(c)
=============================================================================
