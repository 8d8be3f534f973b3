------------------------------ MODULE FileMon ------------------------------
(***************************************************************************)
(* The file monitor (ffsys/filemon.h) and its user, who keeps a view of a  *)
(* directory: inotify on Linux, ReadDirectoryChangesW() on Windows.        *)
(***************************************************************************)
EXTENDS Sequences, Integers

CONSTANTS
  QueueCap, \* how many events the system keeps
  BufCap    \* how many fit into the user's buffer

ASSUME CapsAssumption == QueueCap \in Nat /\ BufCap \in Nat \ {0}

VARIABLES
  watch,  \* the directory is watched
  target, \* the names that the user is interested in
  filter, \* the names that fffilemon_next() returns
  queue,  \* the events that the system keeps
  op,     \* Windows: the operation: "none", "pending", "done"
  active, \* Windows: ffkq_task.active
  mem,    \* Windows: what is in the user's buffer
  input,  \* the events that fffilemon_next() has not returned yet
  view,   \* the names in the user's view
  lost    \* the system had to drop an event

monVars == <<watch, target, filter, queue, op, active, mem, input, view, lost>>

Event(k, n) == [kind |-> k, name |-> n]
Overflow == Event("overflow", "")
FirstAll(s, n) == s
FirstOf(s, n) == SubSeq(s, 1, IF n < Len(s) THEN n ELSE Len(s))
AllBut(s, n) == SubSeq(s, n + 1, Len(s))

MonInit ==
  /\ watch = FALSE /\ target = {} /\ filter = {} /\ queue = <<>> /\ op = "none" /\ active = FALSE /\ mem = <<>>
  /\ input = <<>> /\ view = {} /\ lost = FALSE

MonTypeOK ==
  /\ Len(queue) <= QueueCap + 1 /\ Len(input) <= BufCap /\ Len(mem) <= BufCap
  /\ op \in {"none", "pending", "done"} /\ active \in BOOLEAN /\ lost \in BOOLEAN

\* The system takes note of changes.  inotify marks the place where it had to drop some;
\* ReadDirectoryChangesW() drops all it has.
Noted(q, events, linux) ==
  IF Len(q) + Len(events) <= QueueCap THEN q \o events
  ELSE IF ~linux THEN <<Overflow>>
  ELSE IF q # <<>> /\ q[Len(q)] = Overflow THEN q ELSE Append(q, Overflow)
Note(events, linux) ==
  /\ queue' = IF watch THEN Noted(queue, events, linux) ELSE queue
  /\ lost' = (lost \/ (watch /\ Len(queue) + Len(events) > QueueCap))

-----------------------------------------------------------------------------
\* fffilemon_add(); Windows: fffilemon_add_dir() or fffilemon_add_file(), and the first
\* read, which makes the system take note.  fffilemon_add_file() does not set w->dir: what it
\* adds may count as a directory.
Added(names, passing, linux) ==
  /\ ~watch /\ watch' = TRUE /\ target' = names /\ filter' = passing
  /\ op' = (IF linux THEN "none" ELSE "pending") /\ active' = ~linux
  /\ UNCHANGED <<queue, mem, input, view, lost>>
MonAdd(all) == Added(all, all, TRUE)
MonAddDir(all) == Added(all, all, FALSE)
MonAddFile(n, all) == \E passing \in {{n}, all} : Added({n}, passing, FALSE)

\* fffilemon_read_async() on Linux, with as many whole events as fit
MonRead ==
  /\ watch /\ input = <<>> /\ queue # <<>>
  /\ input' = FirstOf(queue, BufCap) /\ queue' = AllBut(queue, BufCap)
  /\ UNCHANGED <<watch, target, filter, op, active, mem, view, lost>>

\* _fffilemon_watch_read_async() on Windows.  The operation is begun (the mutant forgets to
\* say so), the system completes it, the next call returns the buffer: all of it, whatever
\* the number of bytes read.  An operation that fails, or that cannot be begun, is left out:
\* the task is inactive then and the user begins again.
BegunNot == FALSE
Begun == TRUE
MonBegin ==
  /\ watch /\ input = <<>> /\ ~active
  /\ op' = "pending" /\ active' = Begun
  /\ UNCHANGED <<watch, target, filter, queue, mem, input, view, lost>>
MonComplete ==
  /\ op = "pending" /\ queue # <<>> /\ op' = "done"
  /\ mem' = IF queue[1] = Overflow THEN mem ELSE FirstOf(queue, BufCap)
  /\ queue' = IF queue[1] = Overflow THEN <<>> ELSE AllBut(queue, BufCap)
  /\ UNCHANGED <<watch, target, filter, active, input, view, lost>>
MonResult ==
  /\ active /\ op = "done" /\ input = <<>>
  /\ input' = mem /\ op' = "none" /\ active' = FALSE
  /\ UNCHANGED <<watch, target, filter, queue, mem, view, lost>>

\* fffilemon_next(): an event, and the input moves on by one (not so in the mutant).  The
\* user looks at its name before he changes his view.
RestNone(s) == s
Rest(s) == AllBut(s, 1)
Seen(e) ==
  IF e.name \notin target THEN view
  ELSE IF e.kind = "created" THEN view \cup {e.name} ELSE view \ {e.name}
MonNext ==
  /\ input # <<>> /\ input[1] # Overflow
  /\ input' = Rest(input) /\ view' = Seen(input[1])
  /\ UNCHANGED <<watch, target, filter, queue, op, active, mem, lost>>
\* Windows: events of other names are passed over.
MonNextWindows ==
  LET passing == {k \in DOMAIN input : input[k].name \in filter}
      first == CHOOSE k \in passing : \A j \in passing : k <= j
  IN
  /\ input # <<>>
  /\ IF passing = {} THEN input' = <<>> /\ UNCHANGED view
     ELSE input' = Rest(AllBut(input, first - 1)) /\ view' = Seen(input[first])
  /\ UNCHANGED <<watch, target, filter, queue, op, active, mem, lost>>
\* The event of an overflow has -1 for a watch: the user takes it for the end of the input.
MonNextEnds ==
  /\ input # <<>> /\ input[1] = Overflow /\ input' = <<>>
  /\ UNCHANGED <<watch, target, filter, queue, op, active, mem, view, lost>>

\* fffilemon_close(): the system forgets what it has not told, and a pending operation ends.
MonClose ==
  /\ watch /\ input = <<>> /\ watch' = FALSE /\ queue' = <<>>
  /\ op' = "none" /\ active' = FALSE
  /\ UNCHANGED <<target, filter, mem, input, view, lost>>

\* The user puts what he has scanned into his view.
MonSee(n) ==
  /\ view' = view \cup ({n} \cap target)
  /\ UNCHANGED <<watch, target, filter, queue, op, active, mem, input, lost>>
=============================================================================
