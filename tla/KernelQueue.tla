---------------------------- MODULE KernelQueue ----------------------------
(***************************************************************************)
(* The kernel queue (ffsys/queue.h) of epoll, kqueue and IOCP, and the     *)
(* user who waits for its events and handles them one by one.              *)
(***************************************************************************)
EXTENDS Naturals, Sequences, SequencesExt, FiniteSetsExt

CONSTANTS
  Kinds,     \* what can be attached: "post", "timer", "pipe", signals, sockets...
  MaxMade,   \* how many objects of a kind are made
  EventsCap  \* events_cap of ffkq_wait()

VARIABLES
  sys,   \* "linux", "bsd", "windows"
  made,  \* how many objects of a kind have been made
  cur,   \* the object of a kind that the user has, 0 if none
  live,  \* the objects that are attached
  held,  \* Linux: the descriptors that a child process has inherited
  full,  \* UNIX: the objects with an unread counter, expiry or trigger
  ready, \* the events that are not delivered yet
  batch, \* what ffkq_wait() has returned and the user has not looked at yet
  at     \* "loop", or the kind whose event the user handles

kqVars == <<sys, made, cur, live, held, full, ready, batch, at>>

\* An object is a descriptor, a kqueue note or, on Windows, a user event; it
\* stands for the user's data as well.
Objects == Kinds \X (1..MaxMade)
Handle(k) == <<k, cur[k]>>
Opened == {Handle(k) : k \in {j \in Kinds : cur[j] # 0}}

KqTypeOK ==
  /\ sys \in {"linux", "bsd", "windows"}
  /\ made \in [Kinds -> 0..MaxMade] /\ \A k \in Kinds : cur[k] \in {0, made[k]}
  /\ live \subseteq Objects /\ held \subseteq Objects /\ full \subseteq Objects
  /\ ready \in Seq(Objects) /\ batch \in Seq(Objects)
  /\ Len(batch) <= EventsCap
  /\ sys # "windows" => IsInjective(ready)
  /\ at \in Kinds \cup {"loop"}

-----------------------------------------------------------------------------
\* The ready list with the events of the objects os.  UNIX: an object is on it
\* at most once; Windows: one packet for each event.
ReadyWith(os) ==
  ready \o SetToSeq(IF sys = "windows" THEN os ELSE os \ ToSet(ready))

\* The events of the objects os, in their order.
ReadyOnly(os) ==
  LET kept == {i \in DOMAIN ready : ready[i] \in os}
      Place(i) == Cardinality({j \in kept : j <= i})
  IN [n \in 1..Cardinality(kept) |-> ready[CHOOSE i \in kept : Place(i) = n]]

\* A new object of each of the kinds ks.
New(ks) ==
  /\ \A k \in ks : cur[k] = 0 /\ made[k] < MaxMade
  /\ made' = [k \in Kinds |-> IF k \in ks THEN made[k] + 1 ELSE made[k]]
  /\ cur' = [k \in Kinds |-> IF k \in ks THEN made'[k] ELSE cur[k]]

\* The user gives up the objects of the kinds ks.  No event of theirs may be in his batch:
\* the library cannot take it out, so that it is up to him.
Forget(ks) ==
  /\ \A k \in ks : cur[k] # 0 /\ Handle(k) \notin ToSet(batch)
  /\ cur' = [k \in Kinds |-> IF k \in ks THEN 0 ELSE cur[k]]

\* close() of a descriptor, or EV_DELETE: epoll forgets a descriptor when its last copy is
\* closed, kqueue at once.
Dropped(os) == IF sys = "linux" THEN os \ held ELSE os
Drop(os) ==
  /\ live' = live \ Dropped(os)
  /\ full' = full \ Dropped(os)
  /\ ready' = IF sys = "windows" THEN ready
              ELSE ReadyOnly(Objects \ Dropped(os))

\* fork() and exec() leave all of the descriptors open in the child.
Exec ==
  /\ sys = "linux" /\ held # Opened
  /\ held' = held \cup Opened
  /\ UNCHANGED <<sys, made, cur, live, full, ready, batch, at>>

-----------------------------------------------------------------------------
\* ffkq_wait(): up to events_cap events in order.  UNIX: an object that is not
\* pollable when it is looked at is dropped; kqueue resets what it delivers and
\* deletes the notes that are done.
Found(pollable) == IF sys = "windows" THEN ready ELSE ReadyOnly(pollable)

\* How many of n events are returned; the mutant does not pass events_cap.
ReturnedAll(n, cap) == n
Returned(n, cap) == Min({n, cap})

Wait(pollable, done, cap) ==
  LET found == Found(pollable)
      n == Returned(Len(found), cap)
  IN /\ at = "loop" /\ batch = <<>> /\ ready # <<>>
     /\ batch' = SubSeq(found, 1, n)
     /\ ready' = SubSeq(found, n + 1, Len(found))
     /\ full' = IF sys = "bsd" THEN full \ ToSet(batch') ELSE full
     /\ live' = IF sys = "bsd" THEN live \ (ToSet(batch') \cap done) ELSE live
     /\ UNCHANGED <<sys, made, cur, held, at>>

\* The user looks at the next event; ffkq_event_data() tells him whose it is, and he
\* leaves out those he does not know.
Take(known) ==
  /\ at = "loop" /\ batch # <<>>
  /\ batch' = Tail(batch)
  /\ at' = IF Head(batch) \in known THEN Head(batch)[1] ELSE "loop"
  /\ UNCHANGED <<sys, made, cur, live, held, full, ready>>

\* The user is done with the event.
Return == at' = "loop" /\ UNCHANGED <<sys, made, cur, live, held, full, ready, batch>>
Stay == UNCHANGED <<sys, made, cur, live, held, full, ready, batch, at>>
=============================================================================
