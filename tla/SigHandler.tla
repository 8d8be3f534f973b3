----------------------------- MODULE SigHandler -----------------------------
(***************************************************************************)
(* Signals and exceptions that call the user's handler (ffsys/signal.h).   *)
(* Threads call ffsig_subscribe(), one at a time; a signal may come        *)
(* between any two of its system calls.                                    *)
(***************************************************************************)
EXTENDS KernelQueue

CONSTANTS
  SigThreads, \* the threads of the program
  SigLists,   \* sets of "int", "segv", "stack": what they subscribe to
  MaxSubs,    \* how often
  MaxRan      \* bound of how often a handler is called

ASSUME SigAssumption ==
  SigLists \subseteq SUBSET {"int", "segv", "stack"} /\ MaxSubs \in Nat /\ MaxRan \in Nat \ {0}

VARIABLES
  sub,     \* the call in progress: by whom, signals left, mode, FFSIG_STACK is done
  subs,    \* how many calls there have been
  disp,    \* UNIX: the signals' dispositions: "default", "once" (SA_RESETHAND), "stays"
  onstack, \* UNIX: SA_ONSTACK for SIGSEGV
  alt,     \* UNIX: the threads that have an alternative stack
  noreset, \* Windows: _ffsig_flags
  ctrl,    \* Windows: how often _ffsig_ctrl_handler() is installed
  inside,  \* Windows: how many threads of the system are about to run it
  exc,     \* Windows: _ffsig_exc_handler() is installed
  asked,   \* how often the user has asked for each signal
  forever, \* the signals that he has asked for with FFSIG_NORESET
  ran,     \* how often his handler was called
  covered, \* the threads in which he may count on FFSIG_STACK
  gone     \* the process was terminated

handlerVars == <<sub, subs, disp, onstack, alt, noreset, ctrl, inside, exc, asked, forever, ran, covered, gone>>

Trapped == {"int", "segv"}
NoSub == [by |-> "", todo |-> {}, mode |-> "", stack |-> FALSE]
SignalOf(S) == (S \cap {"int"}) \cup (IF S \cap {"segv", "stack"} # {} THEN {"segv"} ELSE {})

HandlerInit ==
  /\ sub = NoSub /\ subs = 0 /\ disp = [s \in Trapped |-> "default"] /\ onstack = FALSE /\ alt = {}
  /\ noreset = FALSE /\ ctrl = 0 /\ inside = 0 /\ exc = FALSE
  /\ asked = [s \in Trapped |-> 0] /\ forever = {} /\ ran = [s \in Trapped |-> 0]
  /\ covered = {} /\ gone = FALSE

HandlerTypeOK ==
  /\ subs \in 0..MaxSubs /\ disp \in [Trapped -> {"default", "once", "stays"}]
  /\ alt \subseteq SigThreads /\ covered \subseteq SigThreads /\ ctrl \in 0..MaxSubs
  /\ ran \in [Trapped -> 0..MaxRan] /\ asked \in [Trapped -> 0..MaxSubs]

-----------------------------------------------------------------------------
\* ffsig_subscribe(): the handler is set, and on Windows the flags for all signals; then
\* each signal gets a handler.
Subscribe(t, S, stay) ==
  /\ ~gone /\ sub = NoSub /\ subs < MaxSubs /\ subs' = subs + 1
  /\ sub' = [by |-> t, todo |-> S, mode |-> IF stay THEN "stays" ELSE "once", stack |-> FALSE]
  /\ noreset' = (IF sys = "windows" THEN stay ELSE noreset)
  /\ asked' = [s \in Trapped |-> IF s \in SignalOf(S) THEN asked[s] + 1 ELSE asked[s]]
  /\ forever' = IF stay THEN forever \cup SignalOf(S) ELSE forever
  /\ covered' = IF "segv" \in S /\ "stack" \notin S THEN {} ELSE covered
  /\ UNCHANGED <<disp, onstack, alt, ctrl, inside, exc, ran, gone>>

\* UNIX: FFSIG_STACK comes first, wherever it is in the list.
InstallStack ==
  /\ sys # "windows" /\ "stack" \in sub.todo
  /\ alt' = alt \cup {sub.by} /\ onstack' = TRUE
  /\ disp' = [disp EXCEPT !["segv"] = sub.mode]
  /\ sub' = [sub EXCEPT !.todo = @ \ {"stack"}, !.stack = TRUE]
  /\ UNCHANGED <<subs, noreset, ctrl, inside, exc, asked, forever, ran, covered, gone>>

\* The others follow, but not SIGSEGV again (which the mutant does).
StackTakenNot(s) == FALSE
StackTaken(s) == s = "segv" /\ sub.stack
Install(s) ==
  /\ sys # "windows" /\ s \in sub.todo /\ "stack" \notin sub.todo
  /\ disp' = IF StackTaken(s) THEN disp ELSE [disp EXCEPT ![s] = sub.mode]
  /\ onstack' = (onstack /\ (s # "segv" \/ StackTaken(s)))
  /\ sub' = [sub EXCEPT !.todo = @ \ {s}]
  /\ UNCHANGED <<subs, alt, noreset, ctrl, inside, exc, asked, forever, ran, covered, gone>>
InstallFails ==
  /\ sys # "windows" /\ sub.todo # {} /\ sub' = NoSub
  /\ UNCHANGED <<subs, disp, onstack, alt, noreset, ctrl, inside, exc, asked, forever, ran, covered, gone>>

InstallCtrl ==
  /\ sys = "windows" /\ "int" \in sub.todo /\ ctrl' = ctrl + 1
  /\ sub' = [sub EXCEPT !.todo = @ \ {"int"}]
  /\ UNCHANGED <<subs, disp, onstack, alt, noreset, inside, exc, asked, forever, ran, covered, gone>>
InstallExc ==
  /\ sys = "windows" /\ "int" \notin sub.todo /\ sub.todo # {} /\ exc' = TRUE
  /\ sub' = [sub EXCEPT !.todo = {}]
  /\ UNCHANGED <<subs, disp, onstack, alt, noreset, ctrl, inside, asked, forever, ran, covered, gone>>

SubscribeEnd ==
  /\ sub # NoSub /\ sub.todo = {} /\ sub' = NoSub
  /\ covered' = IF sub.stack /\ disp["segv"] # "default" THEN covered \cup {sub.by} ELSE covered
  /\ UNCHANGED <<subs, disp, onstack, alt, noreset, ctrl, inside, exc, asked, forever, ran, gone>>

-----------------------------------------------------------------------------
\* The user's handler is called, or the process is terminated.
Runs(s) == ran[s] < MaxRan /\ ran' = [ran EXCEPT ![s] = @ + 1] /\ UNCHANGED gone
Dies == gone' = TRUE /\ UNCHANGED ran

\* UNIX: a signal, or a stack overflow in a thread.  The disposition is reset before
\* _ffsig_exc_handler() runs (not so in the mutant).
AfterSignalSame(s) == disp
AfterSignal(s) == IF disp[s] = "once" THEN [disp EXCEPT ![s] = "default"] ELSE disp
SignalUnix(s, possible) ==
  /\ sys # "windows" /\ ~gone
  /\ IF disp[s] # "default" /\ possible THEN Runs(s) /\ disp' = AfterSignal(s)
     ELSE Dies /\ UNCHANGED disp
  /\ covered' = IF disp'["segv"] = "default" THEN {} ELSE covered
  /\ UNCHANGED <<sub, subs, onstack, alt, noreset, ctrl, inside, exc, asked, forever>>
StackOverflow(t) == SignalUnix("segv", onstack /\ t \in alt)

\* Windows: the system calls the first handler that is installed in a thread of its own,
\* which takes it off the list first.
CtrlEvent ==
  /\ sys = "windows" /\ ~gone /\ inside < 2
  /\ IF ctrl > 0 THEN inside' = inside + 1 /\ UNCHANGED <<ran, gone>> ELSE Dies /\ UNCHANGED inside
  /\ UNCHANGED <<sub, subs, disp, onstack, alt, noreset, ctrl, exc, asked, forever, covered>>
CtrlHandler ==
  /\ ~gone /\ inside > 0 /\ inside' = inside - 1 /\ Runs("int")
  /\ ctrl' = IF noreset \/ ctrl = 0 THEN ctrl ELSE ctrl - 1
  /\ UNCHANGED <<sub, subs, disp, onstack, alt, noreset, exc, asked, forever, covered>>
\* An exception calls the filter, and the search for another ends the process.
ExcHandler ==
  /\ sys = "windows" /\ ~gone /\ gone' = TRUE
  /\ ran' = IF exc THEN [ran EXCEPT !["segv"] = @ + 1] ELSE ran
  /\ exc' = (exc /\ noreset)
  /\ UNCHANGED <<sub, subs, disp, onstack, alt, noreset, ctrl, inside, asked, forever, covered>>

HandlerStep ==
  /\ \/ \E t \in SigThreads : \E S \in SigLists : \E stay \in BOOLEAN : Subscribe(t, S, stay)
     \/ InstallStack \/ (\E s \in Trapped : Install(s)) \/ InstallFails
     \/ InstallCtrl \/ InstallExc \/ SubscribeEnd
     \/ (\E s \in Trapped : SignalUnix(s, TRUE)) \/ \E t \in SigThreads : StackOverflow(t)
     \/ CtrlEvent \/ CtrlHandler \/ ExcHandler
  /\ UNCHANGED kqVars

-----------------------------------------------------------------------------
\* UNIX: a thread that has subscribed to FFSIG_STACK gets its handler on a stack overflow,
\* in whatever order its list was, whoever else subscribes and whatever came meanwhile, until
\* that SIGSEGV has come or someone asks for FFSIG_SEGV alone.
StackIsCovered ==
  \A t \in covered : onstack /\ t \in alt /\ disp["segv"] # "default"

\* UNIX: without FFSIG_NORESET a handler runs at most once for each time it was asked for.
OnceMeansOnce ==
  sys # "windows" => \A s \in Trapped : s \in forever \/ ran[s] <= asked[s]
=============================================================================
