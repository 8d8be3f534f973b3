---------------------------- MODULE ChildProcess ----------------------------
(***************************************************************************)
(* Child processes (ffsys/process.h) whose output is read from an unnamed  *)
(* pipe (ffsys/pipe.h).  A job is run by a thread of its own: create a     *)
(* pipe, start the child, close the write end, read until end of stream,   *)
(* wait for the child.                                                     *)
(***************************************************************************)
EXTENDS Integers, FiniteSets, SequencesExt

CONSTANTS
  Jobs,     \* a job's name stands for its pipe as well
  ArgLists, \* lists of arguments, an argument is a sequence of characters
  ErrToo,   \* the jobs that give their pipe for stderr, too
  PipeSize, \* how much an unnamed pipe holds
  MaxOutput, \* how much a child writes at most
  ExitCodes \* with which a child ends by itself

ASSUME JobsAssumption == IsFiniteSet(Jobs) /\ "tty" \notin Jobs /\ "none" \notin Jobs
ASSUME PipeAssumption == PipeSize \in Nat /\ MaxOutput \in Nat
ASSUME ExitAssumption == ExitCodes \subseteq Nat

\* "c" is any other character; argv[0] is always there.
ArgChars == {"c", "space", "tab", "quote", "backslash"}
ASSUME ArgsAssumption == ArgLists \subseteq Seq(Seq(ArgChars)) \ {<<>>}

VARIABLES
  sys,     \* "unix", "windows"
  argv,    \* info->argv
  step,    \* what the job's thread does next
  wr,      \* the pipes whose write end the program has open
  inherit, \* Windows: the pipes with HANDLE_FLAG_INHERIT
  child,   \* "none", "forked", "running", "ended", "gone"
  std,     \* the child's standard descriptors
  extra,   \* the write ends that the child has inherited besides
  buf,     \* what is in the pipe
  wrote,   \* what the child has written to stdout
  got,     \* what the job has read
  ended,   \* how the child has ended
  code     \* *exit_code of ffps_wait()

psVars == <<sys, argv, step, wr, inherit, child, std, extra, buf, wrote, got, ended, code>>

Files == Jobs \cup {"tty", "none"}
Unset == -1000
Undecided == [how |-> "alive", n |-> 0]
Exited(c) == [how |-> "exited", n |-> c]
Exits == {Exited(c) : c \in ExitCodes}
NotStarted == [how |-> "failed", n |-> 255]
Killed == [how |-> "killed", n |-> 9]

\* Windows, _ffargv_to_cmdln(): arguments with spaces are put in quotes (not so in the
\* mutant), those with quotes are refused; a space is put between them.
Refused == \E i \in DOMAIN argv : "quote" \in ToSet(argv[i])
QuotedNot(a) == a
Quoted(a) == IF "space" \in ToSet(a) THEN <<"quote">> \o a \o <<"quote">> ELSE a
Line[i \in 1..Len(argv)] ==
  IF i = 1 THEN Quoted(argv[1]) ELSE Line[i - 1] \o <<"space">> \o Quoted(argv[i])
Cmdln == Line[Len(argv)]

\* How the child takes the command line apart again: spaces and tabs separate, unless they
\* are in quotes, and a backslash is special before a quote only.
Slashes(a) ==
  CHOOSE n \in 0..Len(a) :
    /\ \A k \in 0..(n - 1) : a[Len(a) - k] = "backslash"
    /\ n = Len(a) \/ a[Len(a) - n] # "backslash"
Halved(a) == SubSeq(a, 1, Len(a) - (Slashes(a) + 1) \div 2)
Scan(st, c) ==
  CASE c = "quote" ->
         IF Slashes(st.arg) % 2 = 1 THEN [st EXCEPT !.arg = Append(Halved(@), "quote")]
         ELSE [st EXCEPT !.arg = Halved(@), !.quoted = ~@]
    [] c \in {"space", "tab"} /\ ~st.quoted ->
         IF st.arg = <<>> THEN st ELSE [st EXCEPT !.args = Append(@, st.arg), !.arg = <<>>]
    [] OTHER -> [st EXCEPT !.arg = Append(@, c)]
Parsed[k \in 0..Len(Cmdln)] ==
  IF k = 0 THEN [args |-> <<>>, arg |-> <<>>, quoted |-> FALSE] ELSE Scan(Parsed[k - 1], Cmdln[k])
ChildArgv ==
  LET end == Parsed[Len(Cmdln)] IN
  IF end.arg = <<>> THEN end.args ELSE Append(end.args, end.arg)

PsInit ==
  /\ sys \in {"unix", "windows"}
  /\ argv \in ArgLists /\ (sys = "unix" => ~Refused)
  /\ step = [j \in Jobs |-> "none"]
  /\ wr = {} /\ inherit = {}
  /\ child = [j \in Jobs |-> "none"]
  /\ std = [j \in Jobs |-> [d \in 0..2 |-> "tty"]]
  /\ extra = [j \in Jobs |-> {}]
  /\ buf = [j \in Jobs |-> 0] /\ wrote = [j \in Jobs |-> 0] /\ got = [j \in Jobs |-> 0]
  /\ ended = [j \in Jobs |-> Undecided] /\ code = [j \in Jobs |-> Unset]

PsTypeOK ==
  /\ step \in [Jobs -> {"none", "pipe", "exec", "create", "reset", "close", "read", "wait",
                        "post", "exit", "ended"}]
  /\ wr \subseteq Jobs /\ inherit \subseteq Jobs
  /\ child \in [Jobs -> {"none", "forked", "running", "ended", "gone"}]
  /\ std \in [Jobs -> [0..2 -> Files]] /\ extra \in [Jobs -> SUBSET Jobs]
  /\ buf \in [Jobs -> 0..PipeSize]
  /\ wrote \in [Jobs -> 0..MaxOutput] /\ got \in [Jobs -> 0..MaxOutput]
  /\ ended \in [Jobs -> Exits \cup {Undecided, NotStarted, Killed}]
  /\ code \in [Jobs -> ExitCodes \cup {255, 9, -9, Unset}]

Goto(j, s) == step' = [step EXCEPT ![j] = s]
Alive(j) == child[j] \in {"forked", "running"}

-----------------------------------------------------------------------------
\* ffpipe_create()
PipeCreate(j) ==
  /\ step[j] = "pipe" /\ Goto(j, "exec")
  /\ wr' = wr \cup {j}
  /\ UNCHANGED <<sys, argv, inherit, child, std, extra, buf, wrote, got, ended, code>>

\* UNIX, ffps_exec_info(): the child has a copy of every descriptor.  After fork() (macOS)
\* the parent's thread goes on at once, after vfork() when the child has called exec().
Fork(j) ==
  /\ step[j] = "exec" /\ sys = "unix" /\ Goto(j, "close")
  /\ child' = [child EXCEPT ![j] = "forked"]
  /\ extra' = [extra EXCEPT ![j] = wr]
  /\ UNCHANGED <<sys, argv, wr, inherit, std, buf, wrote, got, ended, code>>

\* dup2() for each descriptor given; the mutant takes the numbers in the wrong order.  None
\* of the descriptors given is itself one of 0..2, so no dup2() undoes another.
StdSwapped(j) == [d \in 0..2 |-> IF d = 2 \/ (d = 1 /\ j \in ErrToo) THEN j ELSE "tty"]
StdOf(j) == [d \in 0..2 |-> IF d = 1 \/ (d = 2 /\ j \in ErrToo) THEN j ELSE "tty"]

ExecOk(j) ==
  /\ child[j] = "forked"
  /\ child' = [child EXCEPT ![j] = "running"]
  /\ std' = [std EXCEPT ![j] = StdOf(j)]
  /\ UNCHANGED <<sys, argv, step, wr, inherit, extra, buf, wrote, got, ended, code>>

\* chdir() or execve() fails: _exit(255).
ExecFails(j) ==
  /\ child[j] = "forked"
  /\ child' = [child EXCEPT ![j] = "ended"]
  /\ ended' = [ended EXCEPT ![j] = NotStarted]
  /\ UNCHANGED <<sys, argv, step, wr, inherit, std, extra, buf, wrote, got, code>>

\* Windows, _ffps_exec_cmdln(): the handles are made inheritable, the process is created,
\* the handles are made private again (the mutant forgets).
InheritSet(j) ==
  /\ step[j] = "exec" /\ sys = "windows" /\ ~Refused /\ Goto(j, "create")
  /\ inherit' = inherit \cup {j}
  /\ UNCHANGED <<sys, argv, wr, child, std, extra, buf, wrote, got, ended, code>>

CreateProcess(j) ==
  /\ step[j] = "create" /\ Goto(j, "reset")
  /\ child' = [child EXCEPT ![j] = "running"]
  /\ std' = [std EXCEPT ![j] = [d \in 0..2 |-> IF d = 1 \/ (d = 2 /\ j \in ErrToo) THEN j ELSE "none"]]
  /\ extra' = [extra EXCEPT ![j] = inherit]
  /\ UNCHANGED <<sys, argv, wr, inherit, buf, wrote, got, ended, code>>

\* No process: FFPS_NULL, and the job has failed.  Windows: the command line is refused, or
\* CreateProcess() fails; UNIX: fork() fails.
NoProcess(j) ==
  /\ Goto(j, "post")
  /\ inherit' = inherit \ {j} /\ wr' = wr \ {j}
  /\ UNCHANGED <<sys, argv, child, std, extra, buf, wrote, got, ended, code>>
ExecRefused(j) == step[j] = "exec" /\ sys = "windows" /\ Refused /\ NoProcess(j)
CreateFails(j) == step[j] = "create" /\ NoProcess(j)
ForkFails(j) == step[j] = "exec" /\ sys = "unix" /\ NoProcess(j)

\* SetHandleInformation(HANDLE_FLAG_INHERIT, 0) after CreateProcess() (not so in the mutant).
PrivateNot(j) == inherit
Private(j) == inherit \ {j}

InheritReset(j) ==
  /\ step[j] = "reset" /\ Goto(j, "close")
  /\ inherit' = Private(j)
  /\ UNCHANGED <<sys, argv, wr, child, std, extra, buf, wrote, got, ended, code>>

\* ffpipe_close() of the write end (the mutant leaves it open).
CloseWrNot(j) ==
  /\ step[j] = "close" /\ Goto(j, "read")
  /\ UNCHANGED <<sys, argv, wr, inherit, child, std, extra, buf, wrote, got, ended, code>>
CloseWr(j) ==
  /\ step[j] = "close" /\ Goto(j, "read")
  /\ wr' = wr \ {j}
  /\ UNCHANGED <<sys, argv, inherit, child, std, extra, buf, wrote, got, ended, code>>

-----------------------------------------------------------------------------
\* The child: one byte to stdout, or its end.
ChildWrites(j) ==
  /\ child[j] = "running" /\ wrote[j] < MaxOutput
  /\ LET p == std[j][1] IN
       IF p \in Jobs THEN buf[p] < PipeSize /\ buf' = [buf EXCEPT ![p] = @ + 1]
       ELSE UNCHANGED buf
  /\ wrote' = [wrote EXCEPT ![j] = @ + 1]
  /\ UNCHANGED <<sys, argv, step, wr, inherit, child, std, extra, got, ended, code>>

ChildExits(j, e) ==
  /\ child[j] = "running"
  /\ child' = [child EXCEPT ![j] = "ended"]
  /\ ended' = [ended EXCEPT ![j] = e]
  /\ UNCHANGED <<sys, argv, step, wr, inherit, std, extra, buf, wrote, got, code>>

\* Some process has the write end of a pipe open.
HasWriter(p) ==
  \/ p \in wr
  \/ \E j \in Jobs : Alive(j) /\ (p \in extra[j] \/ \E d \in 0..2 : std[j][d] = p)

\* ffpipe_read(), which blocks.  What is read has left the pipe (not so in the mutant).
DrainedNot(j) == buf
Drained(j) == [buf EXCEPT ![j] = 0]
ReadSome(j) ==
  /\ step[j] = "read" /\ buf[j] > 0
  /\ got' = [got EXCEPT ![j] = @ + buf[j]]
  /\ buf' = Drained(j)
  /\ UNCHANGED <<sys, argv, step, wr, inherit, child, std, extra, wrote, ended, code>>

ReadEof(j) ==
  /\ step[j] = "read" /\ buf[j] = 0 /\ ~HasWriter(j) /\ Goto(j, "wait")
  /\ UNCHANGED <<sys, argv, wr, inherit, child, std, extra, buf, wrote, got, ended, code>>

\* ffps_wait(): with a time limit it only asks whether the child has ended, and ETIMEDOUT
\* changes nothing.  UNIX: a signal is told from a code by its sign (not so in the mutant).
ExitCodeBare(e) == e.n
ExitCode(e) == IF e.how = "killed" THEN -e.n ELSE e.n

Waited(j) ==
  /\ step[j] = "wait" /\ child[j] = "ended" /\ Goto(j, "post")
  /\ child' = [child EXCEPT ![j] = "gone"]
  /\ UNCHANGED <<sys, argv, wr, inherit, std, extra, buf, wrote, got, ended>>
WaitUnix(j) == sys = "unix" /\ Waited(j) /\ code' = [code EXCEPT ![j] = ExitCode(ended[j])]
WaitWindows(j) == sys = "windows" /\ Waited(j) /\ code' = [code EXCEPT ![j] = ended[j].n]

\* ffps_kill() of a child that has not been waited for: instead of reading on, or after
\* ETIMEDOUT.
PsKill(j) ==
  /\ step[j] \in {"read", "wait"} /\ Alive(j)
  /\ child' = [child EXCEPT ![j] = "ended"]
  /\ ended' = [ended EXCEPT ![j] = Killed]
  /\ UNCHANGED <<sys, argv, step, wr, inherit, std, extra, buf, wrote, got, code>>

-----------------------------------------------------------------------------
\* A child's stdout is its job's pipe, and stderr is only if asked for.
StdioIsRequested ==
  \A j \in Jobs : child[j] = "running" =>
    std[j][1] = j /\ (std[j][2] = j <=> j \in ErrToo) /\ std[j][0] \notin Jobs

\* Windows: a child that runs was given the arguments that its parent has asked for.  Three
\* kinds are lost, for no one quotes or escapes them (process.h:80): an empty argument, one
\* with tabs and no space, and one with spaces that ends with a backslash.
Passable(a) ==
  /\ a # <<>>
  /\ "tab" \in ToSet(a) => "space" \in ToSet(a)
  /\ "space" \in ToSet(a) => a[Len(a)] # "backslash"
ArgsArrive ==
  sys = "windows" /\ (\A i \in DOMAIN argv : Passable(argv[i])) /\ (\E j \in Jobs : child[j] = "running")
    => ChildArgv = argv

\* End of stream comes when the job's own child has ended and all that it wrote was
\* read, whatever other jobs' children have inherited.
EofMeansAll ==
  \A j \in Jobs : step[j] = "wait" => ~Alive(j) /\ got[j] = wrote[j]

\* What ffps_wait() cannot tell apart: exit code 255 and a child that failed to call exec()
\* (process.h:305); on Windows exit code 9 and ffps_kill() (process.h:185).
Alike(e, f) ==
  \/ e = f
  \/ {e, f} \subseteq {Exited(255), NotStarted}
  \/ sys = "windows" /\ {e, f} \subseteq {Exited(9), Killed}

\* What ffps_wait() reports is how this job's child has ended, be it by itself, by a failed
\* exec() or by ffps_kill() at any moment: no two ways look the same, but for the two pairs
\* above.
CodeIsOfChild ==
  \A i, j \in Jobs : child[i] = "gone" /\ child[j] = "gone" =>
    /\ code[i] = code[j] <=> Alike(ended[i], ended[j])
    /\ code[i] = 255 <=> Alike(ended[i], NotStarted)

\* Windows: a handle is inheritable only while its own job creates a process.  It is not kept
\* from the children that other jobs create at that time (extra has it).
InheritIsShort == \A j \in inherit : step[j] \in {"create", "reset"}
=============================================================================
