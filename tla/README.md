# Verification of ffsys

`ffsys` is a header-only C library that gives Windows, Linux, FreeBSD and macOS one
interface to the operating system. Most of it is thin: a function renames a system call.
Its own logic is in the parts where something happens *later* or *elsewhere*: asynchronous
operations, queues shared by threads, timers and the kernel queue, child processes, and
files and names that several processes share. Those are the parts modelled here.

Modules are plain TLA+. `MC*` modules and `.cfg` files are the TLC instances, `*Proofs`
modules hold the theorems checked by TLAPS, and `PROJECT.json` lists runs, mutants,
findings, hazards, theorems and, for every definition that models code, the lines it models.

## 1. Inventory

| Component | State | Operations | Interacts with | What is hard |
|---|---|---|---|---|
| kernel call queue (`kcall.h`) | `ffkcall` objects (op, state, a union of arguments and result), SQ, CQ, semaphore, user event | `fffile_..._async`, `ffaddrinfo_resolve_async`, `ffkcall_cancel`, `ffkcallq_process_sq` (workers), `ffkcallq_process_cq` (user thread) | semaphore, kernel queue, ffbase ring queue | lock-free hand-over, lost wake-ups, cancel in any place, result and arguments in the same memory |
| timer queue (`timerqueue.h`) | red-black tree of nodes with 32-bit keys | `add`, `remove`, `process`, and both from a timer's function | the caller's clock | wrap-around every 49 days, late periodic timers, changes while the tree is walked |
| timer (`timer.h`) | Windows: command, result, two events, a thread, a waitable timer; Linux: timerfd; BSD: one byte | `create`, `start`, `stop`, `close`, `consume` | kernel queue, threads | commands across threads, an expiry racing a stop, sign of the period |
| kernel queue (`queue.h`, `kqtask.h`) | attached descriptors, user event | `attach`, `wait`, `post_attach`, `post`, `post_consume`, `post_detach` | everything asynchronous | edge-triggered readiness, consuming while a post arrives |
| socket (`socket.h`) | per-operation `ffkq_task` (active flag, overlapped, copied byte) | `accept_async`, `connect_async`, `recv_async`, `send_async`, `sendv_async` | kernel queue | an operation is called twice: to begin and to collect |
| pipe (`pipe.h`) | named pipe instance, task | `create_named`, `connect`, `accept_async`, `peer_close`, `close`, anonymous pipes | kernel queue, process | the same, plus reuse of the instance for the next client |
| semaphore (`semaphore.h`) | named or unnamed semaphore | `open`, `wait` (try, forever, timed), `post`, `unlink`, `close` | kernel call queue, threads, other processes | deadline arithmetic, EINTR, opening that is not atomic |
| thread (`thread.h`) | handle | `create`, `join` with a time limit, `detach` | semaphore, timer | deadline arithmetic, a join that races the return |
| process (`process.h`) | child, its descriptors and command line | `exec_info`, `wait`, `kill` | pipe, other threads that start children | handles that leak into another child, a child that fails after `fork` |
| signal (`signal.h`) | signalfd or notes; dispositions, alternate stack, console handler | `ffkqsig_attach/read/detach`, `ffsig_subscribe` | kernel queue | signals that arrive while others are read, handlers that run once or on a stack of their own |
| standard streams (`std.h`) | input buffer, parser | `ffstd_key_read`, `ffstd_key_parse` | kernel queue | escape sequences with common prefixes |
| file (`file.h`) | descriptors with a position, names | `open` and its flags, `writewhole`, `readwhole`, `createtemp`, `rename`, `remove`, `trunc`, `readat/writeat` | other processes and threads | several system calls for one call, crashes between them, a shared position |
| file monitor (`filemon.h`) | watch, event buffer | `open`, `add`, `read`, `next`, `close` | kernel queue, directory scanner | events dropped, cut, or for another name |
| directory scanner (`dirscan.h`), directory (`dir.h`) | list of names | `open` (filter, sort), `next`, `reset`, `make_all` | other processes | a directory that changes meanwhile, one order for all pairs of names |
| path (`path.h`), environment (`environ.h`) | buffers | `normalize`, `norm`, `expand` | none | offsets and buffers that are just too small |
| TCP examples (`examples/`) | list of connections | accept, receive, send, close | kernel queue, sockets | edge-triggered accept, a connection freed while its event waits |
| registry, network configuration, netlink, counters, time, errors, strings, libraries, volumes, mappings | none of their own | thin wrappers and conversions | operating system | nothing a model checker reaches better than a test |

Every component, with what is left out and why, is listed in `PROJECT.json`.

## 2. Modules

### KCall: the kernel call queue

The thread that owns the completion queue ("user thread") and any number of workers. An
action is one atomic access to shared memory or one system call, so all interleavings of the
user thread with the workers and of the workers with each other are explored:

* user thread: `AsyncBusy`, `AsyncComplete`, `AsyncBegin` + `AsyncAdd` + `AsyncSemPost` (one
  `fffile_..._async()` call), `Cancel`, the event loop (`WaitBegin`, `WaitEvent`,
  `WaitOther`, `PostConsume`), `ffkcallq_process_cq()` (`CqFetch`, `CqDispatch`, `CqEmpty`,
  `HandlerReturn`);
* worker: `WorkerWake` (`ffsem_wait`), `SqFetch`, `ExecBegin`, `ExecEnd`, `Drop`,
  `MarkDone`, `CqAdd`, `Post`, `SqEmpty`.

`op` is abstracted to "is an operation set", the union to which submission its contents
belong to and whether they are arguments or a result. The user event is a Linux eventfd
attached with `EPOLLET`: `evfd` says whether its counter is nonzero, `ready` whether epoll
has it on its ready list. ffbase's ring queue is external: add and fetch are atomic, and
add tells how many elements there were.

`Patient` is the contract under which an object may be used: call again after the handler
ran, and leave a cancelled object alone. The wake-up properties do not need it and are
proved without it; what depends on it says so.

| Run | Instance | Shows |
|---|---|---|
| `kcall` | 2 objects, 2 workers, SQ of 1, CQ of 2, 2 submissions each, patient, fair threads | `HandOverIsSafe` (`OneOwner`, `ResultIsCurrent`, `CqNeverFull`), `NoLostWakeup` (`NoLostSubmission`, `NoLostCompletion`), `CancelledStaysSilent`, `EveryCallCompletes` |
| `kcall_busy` | 2 objects, 1 worker, any user | finding: a call for an object in SQ is answered with a result |

Two objects and two workers are the smallest instance in which an object can overtake
another, SQ can be full, CQ can hold an element when the next is added, and two workers can
race for the post. `MaxSubmits` bounds only how often an object is used: with two an object
comes back into SQ while another is in CQ.

### Timers and TimerQueue

`Timers` is what a timer queue promises, with exact times. `TimerQueue` is `timerqueue.h`:
keys and clock are words of `2 * Half` values (`Half` is 2^31 in the program), compared by
the sign of their difference. `ExactTimers` says that it implements `Timers` (`armed`,
`period` and `phase` are mapped to `active`, `interval` and `pc`; the exact `left` and `lag`
are kept beside the words).

The tree is the sequence of its nodes in order. The gap into which `_fftmrq_node_insert()`
puts a node depends on the tree's shape when the comparison is not an order, so any gap
whose neighbours agree is allowed.

`MaxInterval + MaxLate < Half` is the documented limit (timerqueue.h:112-117) made precise:
it bounds the intervals and how long the queue is left unprocessed *together*.

| Run | Instance | Shows |
|---|---|---|
| `timerqueue` | 3 nodes, periodic or one-shot; clock of 8 values, without wrap, or with wrap and one-shot nodes; fair | `TreeIsRight` (`TreeMatchesActive`, `KeyIsDue`), `ExactTimers`, `ProcessReturns` |
| `timerqueue_wrap` | 2 nodes, periodic or one-shot, clock of 12 values that wraps | finding: the next key of a periodic node is computed with an unsigned maximum |

The clock has 8 values and starts at any of them, so every position of a key relative to the
wrap occurs; the proofs show that the width does not matter.

### WinTimer: the Windows timer

The user's thread and the timer thread, step by step: creation with a failure after each of
its four steps, close, `fftimer_start()` (the three fields are written one by one),
`fftimer_stop()`, `_fftimer_cmd()` (write `ctl`, signal, wait, read the result) on one side;
the alertable wait, the APC (`_fftimer_onfire()`, which reads `kq` twice and `data` once),
the execution of a command and its report on the other. The waitable timer is external: it
is due after `due` milliseconds, has a single APC that setting, cancelling or closing it
takes back, and takes a positive due time for an absolute one. A failure of `SetEvent()` or
of waiting on a valid handle, which the code asserts cannot happen, is left out.

`Patient` here means: the user stops a timer before he starts it again. Only
`PostIsOfStart` needs it.

| Run | Instance | Shows |
|---|---|---|
| `wintimer` | 2 queues, 2 data, periods -2, 0 and 2, a patient user, fair threads | `NothingLeft`, `ResultIsOfCommand`, `FiresInTime` (`StopSilences`, `NeverEarly`, `FiresOnce`), `PostIsOfStart`, `ThreadsGoOn` (`CallsReturn`, `TimerFires`) |

Two queues and two data suffice to tell a mixed event from a proper one; a period of 2
leaves a millisecond in which the timer is set and not due. A period of -2 is a one-shot
timer, which is wrong in the code: its due time comes out positive, that is absolute and
past, so that it fires at once (timer.h:93), where timer.h:333 says "fire just once after
-period_ms interval". The model does the same and `NeverEarly` excepts negative periods by
name; `FiresOnce` holds for them. Outside of this instance a running timer that is started
again with another queue races with the timer's function, which reads the queue twice and
asserts that it read the same (timer.h:52, queue.h:128).

### SockStream: asynchronous sockets

A sender (`ffsock_connect_async()`, `ffsock_send_async()`/`sendv`, `ffsock_fin()`) and a
reader (`ffsock_accept_async()`, `ffsock_recv_async()`), each with a kernel queue, over one
TCP connection. The same module describes both families of systems: with `overlapped` every
function first asks for the result of its OVERLAPPED (`PollIncomplete`, `PollFailed`,
`Completed`), and a full connection makes `ffsock_send_async()` send one byte behind the
user's back; without it the functions call the system each time and rely on an
edge-triggered queue (`wake` is then "on the ready list", and the wait reports a socket only
if it is ready when looked at).

The connection is external: a FIFO of `Cap` bytes, numbered by their place in the stream,
that is established or refused, and may break and lose what is on its way. A user who was
told to wait may call again early and so leave a stale packet in his queue (at most
`MaxWakes`); on UNIX he must not do so while connecting. The user sends the same data again
after FFSOCK_EINPROGRESS, as socket.h:1032-1039 demands.

| Run | Instance | Shows |
|---|---|---|
| `sock` | overlapped or edge-triggered, room for 2 bytes, 5 bytes, buffers of up to 3, fair | `StreamIsWhole` (`InOrder`, `ToldIsSent`), `ActiveOwnsOverlapped`, `NoLostWakeup`, `ReturnsAreTrue` (`ConnectIsTrue`, `EofMeansAll`), `NobodyStuck` |

Buffers larger and smaller than the room, and a stream of more than twice the room, make
full, partial and repeated sends and short reads occur. Deadlock is not checked: when both
users are done the system stops.

### PathNormalize and PathNorm: the two path normalisers

`PathNormalize` is `ffpath_normalize()`, one step per component; `PathNorm` is
`ffpath_norm()`, one step per part split and per part written. Paths are sequences of
characters, because both functions work with offsets into their buffers and the findings are
about lengths. Both are compared with `Normal`, the documented rules as a fold over the
list of components, which has no buffer and no offsets. A read or a position outside of an
array makes `PathNorm` end in "undefined".

| Run | Instance | Shows |
|---|---|---|
| `path_normalize` | up to 4 components of 6 texts and a last one, 7 sets of flags, buffers of 3 and 100 | `NormalizeIsNormal`, `NeverOvertakes` (nor writes past the buffer) |
| `path_norm` | up to 5 components of 3 texts below 3 roots, both systems | finding: a wrong parent is removed |

What a component does depends on the last component written and on whether it is the first;
four components reach each combination, with texts of different lengths so that a wrong
offset shows. In `path_normalize` FFPATH_FORCE_BACKSLASH comes with FFPATH_SLASH_BACKSLASH
(`SplitsOwn`): without it the code searches its output for a separator it never writes and
`..` removes all of it (path.h:328), so that `a/b/../c` gives `c`.

### EventLoop: one thread around a kernel queue

`KernelQueue` is `queue.h` with its user: objects are attached, the system puts them on its
ready list, `Wait` moves up to `EventsCap` of them into the user's batch and `Take` hands
them out one by one. The three families of systems differ where the code relies on it:
epoll and kqueue are edge-triggered and look again at an object (`Pollable`) before they
report it, IOCP keeps every packet. A handle has a number (`<<kind, n>>`), so that an event
of a closed object is told from one of its successor; a child process may hold a closed
descriptor open (`held`).

Components extend it, each with its variables, its handler and what happens to it:

| Module | Code | Kept of it |
|---|---|---|
| `UserEvent` | `queue.h` user event | attach, post from any thread, consume, detach on eventfd, EVFILT_USER and IOCP |
| `UnixTimer` | `timer.h` on Linux and BSD | create, start, restart, stop, consume, close; the byte that tells BSD's start from a restart |
| `KqSignal` | `signal.h` by kernel queue | mask, attach, signalfd read until it would block, notes that deliver a number once, detach |
| `NamedPipe` | `pipe.h` | create (the name may be left over), clients, accept begun and collected, peer close, close |
| `TcpServer` | both examples | accept, receive and send (partly, or into a connection that was reset), remove and free; the router's list |
| `KeyInput` | `std.h` | read and parse of every table of escape sequences with modifiers, and Windows' records |
| `Datagram` | `socket.h`, UDP | receive now or begin an overlapped operation, early calls, ICMP errors |
| `SigHandler` | `signal.h` handlers | `ffsig_subscribe()` call by call, reset after the first signal, the alternate stack, Windows' filters |

`EventLoop` composes them: the variable `uses` says which of them the program has, and each
action of one leaves the others' variables alone.

| Run | Instance | Shows |
|---|---|---|
| `event_loop` | 7 programs on 3 systems (a timer; user event and 2 signals; pipe with 2 clients; the 2 servers with 2 clients; keys; datagrams; handlers in 2 threads) | `NoLostEvent`, `EventsAreTrue` (`DetachedIsSilent`, `TimerTells`, `DataIsLive`, `ConnsAreOpen`), `OperationsAreKept` (`PendingIsActive`, `DatagramsAreKept`), `KeysAsTyped`, `HandlersRunAsAsked` (`StackIsCovered`, `OnceMeansOnce`), `EventsAreHandled` |

Batches of two events let a handler act while the event of another object is in the batch
(the user gives up, stops or restarts no object whose own event is in his batch: `Forget`,
`TimerUsable`; the library cannot take an event out of it); two objects of a kind
(`MaxMade`) let an event outlive its object; two signals, two clients and two bytes let one
arrive while the other is handled; three datagrams for a socket that holds two make it full.
A buffer and a send buffer of one byte make partial reads and sends. Keys are typed one
after any other and followed by one of four that begin with the bytes another key ends with;
on Windows there are also keys that the tables of virtual keys do not have, before and
inside of their range, and a character that is not ASCII. The loops of different components
share only the queue, so programs with one or two of them suffice. Deadlock is not checked:
a program whose events are all handled waits.

What the code does and the properties except: on Windows a packet posted before a detach is
delivered after it (`DetachedIsSilent` is about UNIX); on Windows a character that is not
ASCII is read as one negative byte and so returned as an error (std.h:219; `KeysAsTyped`
says that it is); the examples accept one client per event because of a stray semicolon
(tcp-echo-server.c:119), so a second client that has connected meanwhile waits for a third
(`EventsAreHandled` speaks of accepted clients); on Windows two console events may both be
in a handler that was to run once (`OnceMeansOnce` is about UNIX).

### Jobs: child processes, threads and a semaphore

`ChildProcess` is a job: create a pipe, start a child with it, close the write end, read to
the end, wait for the child. UNIX (`fork`, `dup2`, `exec`, which may fail in the child) and
Windows (handles made inheritable and reset, arguments joined and quoted, taken apart again
by the child) are both there; a child inherits what is open or inheritable when it starts,
other jobs' pipes included. `Semaphore` and `Thread` are the waits with their deadlines in
seconds and fractions. `Jobs` runs one job per thread; the main thread takes the semaphore
once per job, joins or detaches the threads and ends.

| Run | Instance | Shows |
|---|---|---|
| `jobs` | 2 jobs, one with stderr in its pipe, pipe of 1 byte, 2 argument lists with spaces, tabs, backslashes and quotes, exit codes 9 and 255, a second of 3 ticks, limits 0, 2 and none | `ChildIsAsRequested` (`StdioIsRequested`, `ArgsArrive`, `InheritIsShort`), `OutcomeIsOfChild` (`EofMeansAll`, `CodeIsOfChild`), `WaitsAreTrue` (`WaitTells`, `TakenMeansDone`, `JoinIsTrue`), `JobsEnd` |
| `sem_timed` | the same instance | finding: a timed wait near the end of a second fails |

What the code does and the properties except by name: on Windows an empty argument is lost,
one with tabs and no space is split, and one with spaces that ends with a backslash takes
the next argument with it, because its closing quote is escaped (process.h:80; `Passable`);
a child that exits with 255 looks like one that failed to call `exec()` (process.h:305), and
on Windows one that exits with 9 like one that was killed (process.h:185; `Alike`).
Children inherit other jobs' write ends, on UNIX all that are open and for life, on Windows
those that are inheritable at that moment: `InheritIsShort` is about the flag, and no
property says that nothing leaks; what is checked is that output is whole and that jobs end
in spite of it. None of the descriptors given to a child is itself one of 0..2, so that one
`dup2()` cannot undo another.

Two jobs are what it takes for one to inherit the other's pipe. A limit of two in a second
of three ticks crosses the second from two of its three starts. No wait begins whose limit
ends after `LastTime`, the second tick of the next second. Exit codes are 9 and 255, the
two that can be mistaken.

### Files: what processes share by name

Seven worlds chosen by `mode`: two processes that write, save, read, remove and make
temporary files and may die at any step (`File`); one of them with a user who watches and
scans the directory (`FileMon`, `DirScan`); the scanner alone, on a directory of any of the
names; two processes that make directories (`DirMake`); three that open a semaphore by name
or without one (`NamedSem`); two threads with one descriptor (`SharedFile`); the expansion
of all short texts (`EnvExpand`). Every two kinds of calls that meet at a name are in one
of the mixes of `Mixes`. The watched directory has the calls of `Changing`: a read makes no
event, and a temporary file makes those of a save that fails.

| Run | Instance | Shows |
|---|---|---|
| `files` | as above: 2 calls per process in three mixes of kinds, limits of 2 and -1 for reading, 8 names, 7 sets of scanner flags on UNIX and Windows, 10 paths, a plain file in the way, 3 semaphore users, 3 calls per thread, texts of up to 4 characters, buffers of 0, 2 and 3 | `FilesAreSound` (`WholeOrNothing`, `ReadFits`, `FailureIsClean`, `TempIsPrivate`), `ViewIsRight`, `MakersSucceed`, `ListIsSorted`, `SemaphoresExclude` (`OneOwner`, `UnnamedIsPrivate`), `WritesDontOverlap`, `ExpandsWhole`, `CatchesUp` |

Two processes with two calls each can save over, remove and read each other's file and die
in between. The queue of four events can overflow and the buffer of two cuts what it holds.
Names that differ in the case of each letter reach every case of the comparators; Windows,
where no directory has two names that differ only in case, sorts by `ffsz_icmp()`
(`LessOpen`). Three semaphore users let one unlink the name that two others share.

What the code does and the properties except: on Windows `fffile_trunc()` moves a position
that threads share, and `fffile_writeat()` moves it at all, so `WritesDontOverlap` is about
UNIX or a thread alone; an empty path and the root of a drive cannot be made
(`MakersSucceed` says that nothing else fails, but for a path through a plain file), and a
plain file of the directory's name is taken for it (dir.h:59, 203); `fffile_readwhole()`
with the limit -1, as test/file.c:387 calls it, does not notice that `fffile_size()` has
failed, and returns success if the read fails, too (file.h:929, 940; `Unnoticed`); of names
that differ in the case of several letters the *last* decides, although the variable is
called `first_diff` (dirscan.h:66; `ListIsSorted` accepts both orders); two processes that
open a semaphore with FFSEM_CREATENEW on Windows may both succeed (semaphore.h:38; they
share its one unit, which is what `OneOwner` says); a process that dies before it unlinks
its temporary file leaves it for good.

## 3. Fairness

* `KCall!Fairness`: a thread that can run does run (weak fairness of every worker, of the
  user thread inside the library, of its return from a handler and to `ffkq_wait()`).
  `WaitEvent` is strongly fair: the user thread may return from `ffkq_wait()` for other
  reasons again and again, but epoll serves its ready list in order.
* `TimerQueue!Fairness`: `fftimerqueue_process()` runs on and the functions it calls return.
* `WinTimer!Fairness`: both threads run on inside the library, time passes, an expiry is
  queued. `WakeEvt` is strongly fair: a wait on a signalled event ends even when APCs keep
  coming.
* `SockStream!FairSpec`: each user goes on calling or waiting, a handshake ends one way or
  the other (TCP gives up after a time), and the system completes an operation that it can.
  Nothing forces a connection to be accepted before it breaks.
* `EventLoop!FairSpec`: the thread goes on with an event it has (weak fairness of
  `Handling`). `Waits` is strongly fair: what the program does between waits may disable it
  again and again, but the thread comes back to `ffkq_wait()`, and the systems serve their
  ready lists in order. Nothing is assumed of clients, keys or signals.
* `Jobs!Fairness`: the main thread, the jobs' threads and the children run on, and time
  passes. Nobody has to kill a child.
* `Files!FairSpec`: the user of the monitor goes on. Nothing is assumed of the processes,
  which may stop or die.

## 4. Proofs

`KCallProofs` (any sets of objects and workers, any capacities):

* for any user: `TypeCorrect`, `SubmissionIsSeen` (`NoLostSubmission`), `CompletionIsSeen`
  (`NoLostCompletion`);
* for a patient user: `ObjectHasOneOwner`, `ResultBelongsToCall`, `CancelIsFinal` and, when
  CQ has at least as many places as there are objects, `CompletionQueueSuffices`; together
  they are `HandOver` and `WakeupsAreKept`, the theorems of what the run checks.

The wake-up invariants are inductive together with the type invariant and with where each
thread has an object in hand. The others rest on `PatientInv`: an object the user may use
is at rest (`FreeIsIdle`), so putting it in SQ cannot make a second copy (`OneOwner`), so
the worker that stores a result is the only one that touches the union (`CellIsCurrent`),
which gives `DoneHasResult`. `CqNeverFull` follows from `OneOwner` by counting: the objects
in CQ and the one the worker holds are distinct.

`TimerQueueProofs` (any nodes, any width, any intervals within the limit), under `Safe` (the
clock does not wrap, or no node is periodic, which is exactly what the finding leaves):
`TypeCorrect`, `ActiveIsInTree`, `WrappedTimeIsExact`, `NoTimerIsEarly`,
`NoTimerFiresTwice`, `TreeIsAsAdded`, `ImplementsExactTimers`. The inductive invariant
`TimerInv` says that the tree is sorted by exact time; that the sign of the word difference
agrees with the exact difference follows from the limit.

`WinTimerProofs` (any queues, data and periods): for any user `TypeCorrect`,
`CloseLeavesNothing`, `CommandGetsItsResult`, `StopIsFinal`; for a patient user
`EventBelongsToStart`. `PeriodIsKept` and, with `StopIsFinal`, `FiresOnlyInTime` are for
any user and any periods; negative ones are excepted inside `NeverEarly`, not by a
hypothesis. `WinTimerInv` describes where a command is on its way (`Handover`: at most one
of the two events is signalled, and the thread sleeps unless the user waits), what is open
(`Lifetime`) and that a stop has silenced the timer before its result is collected
(`Quietness`); `Matching` and `InTime` are kept relative to it.

`SockStreamProofs` (any sizes, Windows and UNIX): `TypeCorrect`, `StreamIsInOrder`,
`ReportIsTrue` (together `StreamArrives`), `OverlappedIsOwned`, `WaitIsWoken`,
`ConnectReturnsTruth`, `EofIsLast` (together `ReturnsTellTruth`). `SockInv` adds to the
properties where the stream is cut (`Stream`: the bytes on their way follow those received,
and the byte in the task follows those reported), what the sender may conclude from an event
(`Handshake`), that a user is told to wait only while a completion or an edge is ahead
(`Wakeups`), and how many packets a queue can hold (`Packets`).

`JobsProofs` (any number of jobs, any pipe, any length of a second, any limits):
`TypeCorrectness`, `WaitsTrue`, `OutcomeOfChild`, `ChildAsRequested`. The invariant has
four parts. `PsInv`: for each job where its child is, that the bytes written are those read
and those in the pipe, and whose descriptors a child has. `WaitInv`: a deadline in seconds
and fractions is the start and the limit, whether or not a second was carried. `ThreadInv`:
a thread's state and where its function is. `MainInv`: the units that were taken and those
that are there are as many as the jobs that have posted, so that taking one per job means
that all have; this is counting (`Cardinality`), the rest are case distinctions.

That arguments arrive (`ArgsArrive`) is about two recursive functions: `Line` joins and
quotes what the child's `Parsed` takes apart. `ReadPlain` and `ReadQuoted` say what
`Parsed` makes of one argument, with or without spaces, wherever on the line it stands and
whatever backslashes it has; `ReadArgs` puts them together. Where induction would be used,
the least length that is a counterexample is taken (`WFMin`) and contradicted.

`FilesProofs` (any processes, calls, semaphore users, threads, names, paths, texts and
limits): `Exclusion`, `NoOverlap`, `SoundFiles`, `MakersMade`, `NamesAreOrdered`,
`SortedList`, `ViewOfDirectory`, `WholeExpansion`, `TypesKept`. `NsInv` says who has a
handle of the semaphore with the name (until it is unlinked, all who opened it by name, and
never a user of an unnamed one) and that a unit is there or has one owner. `FdInv` bounds
the position and the length by the calls made, and says that all that was written lies
before the position or before the one to which `fffile_trunc()` will come back. `FileInv`
says that the temporary name is its owner's until he gives it up (`TmpInv`: FFFILE_CREATENEW
fails for others), from which follow the contents of saved, temporary and read files
(`SaveInv`, `TempInv`, `ReadInv`, `NameInv`) and what a failure leaves (`CleanInv`). `MkInv`
says how far a maker is on its path and that what lies before is made, by it or by another.
`ScanInv` says that the list is made of the directory's entries, each once; that sorting it
has one result needs `NamesAreOrdered`, the comparison being a strict total order: it
compares from the first character that differs in more than case, and else from the *last*
that differs. `OpenSorts` does the same for Windows' comparison of names that are not
alike. `SortedList` has the hypothesis `InOrder`, that the collation given to the model is
one that the comparison agrees with, names that differ in the case of several letters aside;
it is about constants only, and true in the instance of the run. `MonInv` says for every
name that what the user has seen, then what he has in his buffer, what the system has
written to it and what it has queued, one after another, lead to what is in the directory
(`Follows`), unless something was dropped; a scan takes the place of the beginning of this
chain. `EnvInv` says that what was written is the expansion of what was read, and that the
place reached is not inside a name. The proof found an overlap in a first version of
`AfterClose`, whose `CASE` arms were not disjoint; TLC takes the first arm that is true and
did not notice.

`EventLoopProofs` (Linux, BSD and Windows; any signals, clients, peers, programs, numbers of
objects, capacity of the batch): `NothingLost`, `EventsTrue`, `OperationsKept`,
`HandlersAsAsked`, `KeysTyped`, `TypesKept`. The invariant is `QueueInv`, one part for each
component, and `SigInv`:

* `QueueInv`: the ready list and the batch are sequences of objects (`SeqInv`), on UNIX
  without repetitions; the user's handle is the last one made or none (`ObjectsInv`); the
  examples take one event at a time (`OneByOneInv`); and UNIX has nothing of what was
  detached, unless a child holds it (`SilentInv`), which is what `DetachedIsSilent` needs:
  an event is in the batch only if it was attached when it was waited for, and handles are
  not given up while their event is in the batch.
* `PostInv`, `TimerInv`, `SignalInv`, `PipeInv`, `KeyInv`, `UdpInv`, `ServerInv`: where the
  event is that will tell of what has happened, *and* that on UNIX the object is still found
  ready when the wait looks at it again; the second half is what an edge-triggered queue
  would otherwise lose. `TimerInv` also says that a timer's event and its expiry go
  together, and that the byte on BSD is set while there is a note.
* `SigInv`: the runs, the handler that is installed and the one a call in progress will
  install are together no more than what was asked for.

Components share only the queue, and the proof is organised accordingly. `Frame(k)` says
that a step has nothing to do with the objects of kind `k`; each component's steps
(`PostStep`, `TimerStep`, `SignalStep`, `PipeStep`, `KeyStep`, `UdpStep`, `PeerStep`,
`ServerStep`) keep `QueueInv` and the component's part and are frames for all other kinds; a
part is kept by any step that is a frame for its kinds (`Others`). `WaitQ` and `TakeQ`
describe once what a wait and a look at an event do to every object. The lemmas about the
ready list (`SplitSeq`, `OnlySeq`, `SetSeq`, `ConcatSet`, `UnlinkSeq`) are proved from the
definitions; `ReadyOnly()` is written by rank rather than with `SelectSeq` so that this is
possible.

`KeysTyped` rests on a second invariant (`Bounded`). `Cut(bytes, keys)`: there are places
in what was read, or is still with the terminal, between which lie the bytes of the keys
that are due, one after another; typing appends a piece, parsing drops the first
(`CutAppend`, `CutFirst`). For each class of keys (`ParseFinal`, `ParseNumber`,
`ParseLetter`, `ParsePlain`, `ParsePaste`, and `WinParsed`) a lemma says that the parser
finds the key whose bytes come first *whatever follows them*, which is where one sequence
could be taken for the beginning of another. On Windows the record of the key's release may
be in front. The same theorem bounds the counters of `TcpServer` and `Datagram`.

`PathNormalizeProofs` (any characters, paths, flags, buffer sizes): `InPlace`, `EnoughRoom`,
`NormalPath`. `IInv` is the two properties and the types of the three sequences; that a
component, its separator and the rest are what was left to read (`PartFacts`) needs that the
first separator is in the path, and `..` needs the last one of the output (`FirstSlashIn`,
`LastSlashIn`: a set of numbers has a least element, from the library's `WFMin`).

`NormalPath` compares the buffer with the list of components: `Shape` says that each element
of the list holds its text and the whole path up to it, `NInv` that the buffer is the path
of the last element, so that searching the buffer backwards for a separator (`EndsWith`)
finds where the path of the one before it ends. `Walk` says that the components still to
come are those that the rules will be applied to (`ListedSteps`, by the least
counterexample). The hypothesis `SplitsOwn` excludes only FFPATH_FORCE_BACKSLASH without
FFPATH_SLASH_BACKSLASH, where the code does remove too much; it is about the flags, which no
step changes.

Every safety property and action property of the passing runs is stated by a theorem, with
the hypotheses that are named above (`Patient`, `Safe`, `InOrder`, `SplitsOwn`). Liveness
is only model-checked.

Assumptions are the `ASSUME`s of the component modules; TLC evaluates them in every run.
Liveness (`EveryCallCompletes`, `ProcessReturns` and the other leads-to properties) is
model-checked only: the prover does not treat fairness.

## 5. Findings

* `kcall_busy`: `_ffkcall_busy()` never sees state 1 (nothing sets it), so a call made while
  the object is in SQ or executed returns the arguments as a result.
* `timerqueue_wrap`: around the wrap a periodic node may be given a key that has passed and
  fires early.
* `path_norm`: `ffpath_norm()` removes the wrong number of characters for `..` when an
  earlier part wrote nothing or was removed: `/../a/../` gives the empty path and
  `a/../bb/../a` gives `b/a`.
* `sem_timed`: `ffsem_wait()` does not carry from nanoseconds to seconds, so a timed wait
  near the end of a second fails at once with EINVAL.

Known defects without a run of their own. The models do what the code does, and the
property that would otherwise be violated excepts the case by name:

| Code | What it does | Excepted in |
|---|---|---|
| timer.h:93 | Windows: a one-shot timer fires at once instead of after its interval | `NeverEarly` |
| file.h:929, 940 | with the limit -1 a failed size and a failed read are a success | `Unnoticed` |
| dir.h:59, 203 | a plain file is taken for the directory that was to be made | `MakersSucceed` |
| process.h:80 | Windows: empty arguments, those with tabs and some with a final backslash do not arrive | `Passable` |
| process.h:185, 305 | exit code 255 is a failed `exec()`; on Windows 9 is a kill | `Alike` |
| process.h:111, 283 | children inherit the pipes of other jobs | no property |
| dirscan.h:66 | `first_diff` is the last difference | `MoreCases` |
| std.h:219 | Windows: characters that are not ASCII are errors | `KeysAsTyped` |
| path.h:328 | FFPATH_FORCE_BACKSLASH alone: `..` removes all that was written | `SplitsOwn` |
| timer.h:52 | a restart with another queue races with the timer's function | `Patient` |
| tcp-echo-server.c:119, tcp-msg-router.c:165 | a stray semicolon: one client is accepted per event | `EventsAreHandled` is about accepted clients |
| semaphore.h:38 | Windows: two FFSEM_CREATENEW may both succeed | no property |
| file.h:409 | Windows: `fffile_trunc()` moves the position that threads share | `WritesDontOverlap` |

## 6. Not modelled

* Thin wrappers and conversions have no protocol of their own: mappings, libraries, volumes,
  the registry, network configuration, netlink, counters, time, strings, error texts. A
  call is a system call, or an expression.
* Of modelled components: socket addresses, options and name resolution, file times,
  attributes, owners and links, terminal attributes, process identifiers, a monitor's second
  watch. `PROJECT.json` says for each component what is left out.
* Single cases of modelled functions: FFDIRSCAN_USEFD (which on Windows gives an empty list
  and success), FFFILE_NODOSNAME, FFFILE_TRUNCATE with FFFILE_CREATENEW (file.h:269 compares
  the mode with the flag, so that they are never equal and an existing file is truncated), a
  failed read of the file monitor on Windows, an overlapped accept that fails, a period of 0
  and other data for a restart of a timer on UNIX.
* Memory. An object that the user frees while a worker still reads it (kcall.h:147), a
  descriptor that nobody closes (socket.h:221) and buffers of names are outside of the
  models, which keep objects forever.
* ffbase (ring queue, red-black tree, sort) and the operating systems' queues, pipes, TCP
  and files are external: modelled by what the code relies on, and marked so in
  `PROJECT.json`.
* Composition across processes that share a kernel object and a file at once: each mode of
  `Files` is a world of its own, because no code of the library connects them.

## 7. Plan

Done: all modules; `KCall`, `TimerQueue`, `WinTimer`, `SockStream`, `EventLoop`, `Jobs`,
`Files` and `PathNormalize` with their proofs.

Every safety property of a passing run is proved, and the liveness properties are
model-checked. What may still be added: several watches in one file monitor, the iovec
helpers of `socket.h`, and `DetachedIsSilent` as an action property (which step may put an
object into the batch).
