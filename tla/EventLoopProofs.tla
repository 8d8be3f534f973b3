---------------------------- MODULE EventLoopProofs ----------------------------
(***************************************************************************)
(* Theorems about a program around a kernel queue, on Linux, BSD and       *)
(* Windows, for every number of objects, signals, clients and datagrams.   *)
(***************************************************************************)
EXTENDS EventLoop, TLAPS, FiniteSetTheorems, SequenceTheorems

-----------------------------------------------------------------------------
(* Signal handlers. *)

Once(b) == IF b THEN 1 ELSE 0

\* The call in progress will still give the signal a handler.
Installs(s) ==
  \/ s = "int" /\ "int" \in sub.todo
  \/ s = "segv" /\ ("stack" \in sub.todo \/ ("segv" \in sub.todo /\ ~sub.stack))

Calls ==
  [by : SigThreads, todo : SUBSET {"int", "segv", "stack"}, mode : {"once", "stays"}, stack : BOOLEAN]

SigTypes ==
  /\ sub = NoSub \/ sub \in Calls
  /\ subs \in 0..MaxSubs /\ disp \in [Trapped -> {"default", "once", "stays"}]
  /\ onstack \in BOOLEAN /\ exc \in BOOLEAN /\ noreset \in BOOLEAN /\ gone \in BOOLEAN
  /\ alt \subseteq SigThreads /\ covered \subseteq SigThreads /\ forever \subseteq Trapped
  /\ ctrl \in Nat /\ inside \in Nat /\ ran \in [Trapped -> 0..MaxRan] /\ asked \in [Trapped -> Nat]

\* A call that has installed FFSIG_STACK has the alternative stack in use; one that will
\* replace SIGSEGV's handler without it has taken the promise back.
SigStackInv ==
  /\ sub.stack => onstack /\ sub.by \in alt
  /\ "segv" \in sub.todo /\ "stack" \notin sub.todo /\ ~sub.stack => covered = {}

\* A handler that runs once was asked for; so was the one that is installed and the one that
\* will be.
SigOnceInv ==
  /\ sys # "windows" => inside = 0
  /\ sys # "windows" => \A s \in Trapped \ forever :
       /\ disp[s] # "stays" /\ (Installs(s) => sub.mode = "once")
       /\ ran[s] + Once(disp[s] = "once") + Once(Installs(s)) <= asked[s]

\* Windows: what is installed was asked for, and an exception is the last.
SigCountInv ==
  /\ ctrl + Once("int" \in sub.todo) <= subs /\ \A s \in Trapped : asked[s] <= subs
  /\ sys = "windows" /\ ~gone => ran["segv"] = 0

SigInv == SigTypes /\ StackIsCovered /\ SigStackInv /\ SigOnceInv /\ SigCountInv

LEMMA SigInitInv ==
  ASSUME HandlerInit
  PROVE  SigInv
<1>0. /\ sub = NoSub /\ NoSub.todo = {} /\ NoSub.stack = FALSE /\ subs = 0 /\ ctrl = 0 /\ inside = 0
      /\ disp = [s \in Trapped |-> "default"] /\ covered = {} /\ alt = {} /\ forever = {}
      /\ asked = [s \in Trapped |-> 0] /\ ran = [s \in Trapped |-> 0]
  BY DEF HandlerInit, NoSub
<1>1. SigTypes
  <2>1. onstack \in BOOLEAN /\ exc \in BOOLEAN /\ noreset \in BOOLEAN /\ gone \in BOOLEAN
    BY Zenon DEF HandlerInit
  <2>2. subs \in 0..MaxSubs /\ 0 \in 0..MaxRan
    BY <1>0, SigAssumption
  <2> QED BY <1>0, <2>1, <2>2 DEF SigTypes
<1>2. StackIsCovered /\ SigStackInv
  BY <1>0 DEF StackIsCovered, SigStackInv
<1>3. SigOnceInv
  <2>1. \A s \in Trapped : ~Installs(s) /\ disp[s] = "default" /\ ran[s] = 0 /\ asked[s] = 0
    BY <1>0 DEF Installs
  <2> QED BY <1>0, <2>1 DEF SigOnceInv, Once
<1>4. SigCountInv
  BY <1>0 DEF SigCountInv, Once, Trapped
<1> QED BY <1>1, <1>2, <1>3, <1>4 DEF SigInv

LEMMA SubscribeInv ==
  ASSUME SigInv, sys' = sys, NEW t \in SigThreads, NEW S \in SigLists, NEW stay \in BOOLEAN,
         Subscribe(t, S, stay)
  PROVE  SigInv'
<1> DEFINE mode == IF stay THEN "stays" ELSE "once"
<1>1. /\ sub = NoSub /\ subs < MaxSubs /\ subs' = subs + 1 /\ S \subseteq {"int", "segv", "stack"}
      /\ sub' = [by |-> t, todo |-> S, mode |-> mode, stack |-> FALSE]
      /\ sub' \in Calls
  BY SigAssumption DEF Subscribe, Calls
<1>2. /\ asked' = [s \in Trapped |-> IF s \in SignalOf(S) THEN asked[s] + 1 ELSE asked[s]]
      /\ forever' = IF stay THEN forever \cup SignalOf(S) ELSE forever
      /\ SignalOf(S) \subseteq Trapped
      /\ covered' = IF "segv" \in S /\ "stack" \notin S THEN {} ELSE covered
  BY DEF Subscribe, SignalOf, Trapped
<1>3. UNCHANGED <<disp, onstack, alt, ctrl, inside, exc, ran, gone>> /\ noreset' \in BOOLEAN
  BY DEF Subscribe, SigInv, SigTypes
<1>4. SigTypes'
  <2>1. subs' \in 0..MaxSubs /\ asked' \in [Trapped -> Nat]
    BY <1>1, <1>2, SigAssumption DEF SigInv, SigTypes
  <2>2. covered' \subseteq SigThreads /\ forever' \subseteq Trapped
    BY <1>2 DEF SigInv, SigTypes
  <2> QED BY <1>1, <1>3, <2>1, <2>2 DEF SigInv, SigTypes
<1>5. StackIsCovered'
  BY <1>2, <1>3 DEF SigInv, StackIsCovered
<1>6. SigStackInv'
  BY <1>1, <1>2 DEF SigStackInv
<1>7. SigOnceInv'
  <2>1. ASSUME NEW s \in Trapped, s \notin forever', sys # "windows"
        PROVE  /\ disp[s] # "stays" /\ (Installs(s)' => sub'.mode = "once")
               /\ ran[s] + Once(disp[s] = "once") + Once(Installs(s)') <= asked'[s]
    <3>1. s \notin forever /\ (s \in SignalOf(S) => mode = "once")
      BY <1>2, <2>1
    <3>2. ran[s] + Once(disp[s] = "once") + Once(Installs(s)) <= asked[s] /\ disp[s] # "stays"
      BY <2>1, <3>1 DEF SigInv, SigOnceInv
    <3>3. Installs(s)' <=> s \in SignalOf(S)
      BY <1>1, <2>1 DEF Installs, SignalOf, Trapped
    <3>4. ~Installs(s)
      BY <1>1 DEF Installs, NoSub
    <3>5. ran[s] \in Nat /\ asked[s] \in Nat /\ asked'[s] = IF s \in SignalOf(S) THEN asked[s] + 1 ELSE asked[s]
      BY <1>2, SigAssumption DEF SigInv, SigTypes
    <3> QED BY <1>1, <3>1, <3>2, <3>3, <3>4, <3>5 DEF Once
  <2> QED BY <2>1, <1>3 DEF SigInv, SigOnceInv
<1>8. SigCountInv'
  <2>1. Once("int" \in sub.todo) = 0 /\ Once("int" \in S) \in {0, 1}
    BY <1>1 DEF Once, NoSub
  <2>2. ctrl' + Once("int" \in sub'.todo) <= subs'
    BY <1>1, <1>3, <2>1 DEF SigInv, SigTypes, SigCountInv
  <2>3. \A s \in Trapped : asked'[s] <= subs'
    BY <1>1, <1>2 DEF SigInv, SigTypes, SigCountInv
  <2> QED BY <1>3, <2>2, <2>3 DEF SigInv, SigCountInv
<1> QED BY <1>4, <1>5, <1>6, <1>7, <1>8 DEF SigInv

LEMMA NoCall == NoSub.todo = {} /\ NoSub.stack = FALSE
BY DEF NoSub

\* A call that has something left to do.
LEMMA InCall ==
  ASSUME SigInv, sub.todo # {}
  PROVE  /\ sub \in Calls /\ sub.todo \subseteq {"int", "segv", "stack"} /\ sub.by \in SigThreads
         /\ sub.mode \in {"once", "stays"} /\ sub.stack \in BOOLEAN
<1>1. sub # NoSub
  BY NoCall
<1>2. sub \in Calls
  BY <1>1 DEF SigInv, SigTypes
<1>3. sub.todo \in SUBSET {"int", "segv", "stack"} /\ sub.by \in SigThreads /\ sub.mode \in {"once", "stays"}
  BY <1>2 DEF Calls
<1>4. sub.stack \in BOOLEAN
  BY <1>2 DEF Calls
<1> QED BY <1>2, <1>3, <1>4

\* What counts for the signals that are meant to be handled once.
LEMMA OnceCount ==
  ASSUME SigInv, sys # "windows", NEW s \in Trapped, s \notin forever
  PROVE  /\ disp[s] # "stays" /\ (Installs(s) => sub.mode = "once")
         /\ ran[s] + Once(disp[s] = "once") + Once(Installs(s)) <= asked[s]
         /\ ran[s] \in Nat /\ asked[s] \in Nat
BY SigAssumption DEF SigInv, SigTypes, SigOnceInv

LEMMA InstallStackInv ==
  ASSUME SigInv, sys' = sys, InstallStack
  PROVE  SigInv'
<1>1. /\ sub' \in Calls /\ sub'.todo = sub.todo \ {"stack"} /\ sub'.stack = TRUE
      /\ sub'.by = sub.by /\ sub'.mode = sub.mode /\ sub.by \in SigThreads
      /\ sub.mode \in {"once", "stays"} /\ sys # "windows" /\ "stack" \in sub.todo
  BY InCall DEF InstallStack, Calls
<1>2. /\ alt' = alt \cup {sub.by} /\ onstack' = TRUE /\ disp' = [disp EXCEPT !["segv"] = sub.mode]
      /\ UNCHANGED <<subs, noreset, ctrl, inside, exc, asked, forever, ran, covered, gone>>
  BY DEF InstallStack
<1>3. SigTypes'
  <2>1. onstack' \in BOOLEAN
    BY <1>2, Zenon
  <2>2. disp' \in [Trapped -> {"default", "once", "stays"}] /\ alt' \subseteq SigThreads
    BY <1>1, <1>2 DEF SigInv, SigTypes, Trapped
  <2> QED BY <1>1, <1>2, <2>1, <2>2 DEF SigInv, SigTypes
<1>4. StackIsCovered'
  BY <1>1, <1>2 DEF SigInv, SigTypes, StackIsCovered, Trapped
<1>5. SigStackInv'
  BY <1>1, <1>2 DEF SigStackInv
<1>6. SigOnceInv'
  <2>1. ASSUME NEW s \in Trapped, s \notin forever
        PROVE  /\ disp'[s] # "stays" /\ (Installs(s)' => sub'.mode = "once")
               /\ ran[s] + Once(disp'[s] = "once") + Once(Installs(s)') <= asked[s]
    <3>1. CASE s = "int"
      <4>1. disp'[s] = disp[s] /\ (Installs(s)' <=> Installs(s))
        BY <1>1, <1>2, <3>1 DEF SigInv, SigTypes, Installs
      <4> QED BY <1>1, <2>1, <4>1, OnceCount DEF Once
    <3>2. CASE s = "segv"
      <4>1. disp'[s] = sub.mode /\ ~Installs(s)' /\ Installs(s)
        BY <1>1, <1>2, <3>2 DEF SigInv, SigTypes, Installs, Trapped
      <4> QED BY <1>1, <2>1, <4>1, OnceCount DEF Once
    <3> QED BY <3>1, <3>2 DEF Trapped
  <2> QED BY <1>1, <1>2, <2>1 DEF SigInv, SigOnceInv
<1>7. SigCountInv'
  BY <1>1, <1>2 DEF SigInv, SigCountInv
<1> QED BY <1>3, <1>4, <1>5, <1>6, <1>7 DEF SigInv

LEMMA InstallInv ==
  ASSUME SigInv, sys' = sys, NEW s \in Trapped, Install(s)
  PROVE  SigInv'
<1>1. /\ sub' \in Calls /\ sub'.todo = sub.todo \ {s} /\ sub'.stack = sub.stack
      /\ sub'.by = sub.by /\ sub'.mode = sub.mode /\ sys # "windows" /\ sub.stack \in BOOLEAN
      /\ sub.mode \in {"once", "stays"} /\ s \in sub.todo /\ "stack" \notin sub.todo
  BY InCall DEF Install, Calls
<1>2. /\ disp' = IF StackTaken(s) THEN disp ELSE [disp EXCEPT ![s] = sub.mode]
      /\ onstack' = (onstack /\ (s # "segv" \/ StackTaken(s)))
      /\ UNCHANGED <<subs, alt, noreset, ctrl, inside, exc, asked, forever, ran, covered, gone>>
  BY DEF Install
<1>3. SigTypes'
  <2>1. onstack' \in BOOLEAN
    BY <1>2, Zenon
  <2>2. disp' \in [Trapped -> {"default", "once", "stays"}]
    BY <1>1, <1>2 DEF SigInv, SigTypes
  <2> QED BY <1>1, <1>2, <2>1, <2>2 DEF SigInv, SigTypes
<1>4. StackIsCovered'
  <2>1. CASE s = "segv" /\ ~sub.stack
    BY <1>1, <1>2, <2>1 DEF SigInv, SigStackInv, StackIsCovered
  <2>2. CASE s # "segv" \/ sub.stack
    <3>1. disp'["segv"] = disp["segv"] /\ (onstack' <=> onstack)
      BY <1>1, <1>2, <2>2 DEF SigInv, SigTypes, StackTaken, Trapped
    <3> QED BY <1>2, <3>1 DEF SigInv, StackIsCovered
  <2> QED BY <2>1, <2>2
<1>5. SigStackInv'
  <2>1. sub.stack => onstack'
    BY <1>1, <1>2 DEF SigInv, SigStackInv, StackTaken
  <2> QED BY <1>1, <1>2, <2>1 DEF SigInv, SigStackInv
<1>6. SigOnceInv'
  <2>1. ASSUME NEW r \in Trapped, r \notin forever
        PROVE  /\ disp'[r] # "stays" /\ (Installs(r)' => sub'.mode = "once")
               /\ ran[r] + Once(disp'[r] = "once") + Once(Installs(r)') <= asked[r]
    <3>1. CASE r # s \/ StackTaken(s)
      <4>1. disp'[r] = disp[r] /\ (Installs(r)' => Installs(r))
        BY <1>1, <1>2, <3>1 DEF SigInv, SigTypes, Installs, StackTaken, Trapped
      <4> QED BY <1>1, <2>1, <4>1, OnceCount DEF Once
    <3>2. CASE r = s /\ ~StackTaken(s)
      <4>1. disp'[r] = sub.mode /\ ~Installs(r)' /\ Installs(r)
        BY <1>1, <1>2, <3>2 DEF SigInv, SigTypes, Installs, StackTaken, Trapped
      <4> QED BY <1>1, <2>1, <4>1, OnceCount DEF Once
    <3> QED BY <3>1, <3>2
  <2> QED BY <1>1, <1>2, <2>1 DEF SigInv, SigOnceInv
<1>7. SigCountInv'
  <2>1. Once("int" \in sub'.todo) <= Once("int" \in sub.todo) /\ ctrl \in Nat
        /\ Once("int" \in sub'.todo) \in Nat /\ Once("int" \in sub.todo) \in Nat
    BY <1>1 DEF Once, SigInv, SigTypes
  <2>2. subs \in Nat
    BY SigAssumption DEF SigInv, SigTypes
  <2> QED BY <1>1, <1>2, <2>1, <2>2 DEF SigInv, SigCountInv
<1> QED BY <1>3, <1>4, <1>5, <1>6, <1>7 DEF SigInv

\* The call is over, or a system call in it has failed.
LEMMA SubEndInv ==
  ASSUME SigInv, sys' = sys, sub' = NoSub,
         UNCHANGED <<subs, disp, onstack, alt, noreset, ctrl, inside, exc, asked, forever, ran, gone>>,
         \/ covered' = covered
         \/ sub.stack /\ disp["segv"] # "default" /\ covered' = covered \cup {sub.by}
  PROVE  SigInv'
<1>1. sub'.todo = {} /\ sub'.stack = FALSE /\ sub' = NoSub
  BY DEF NoSub
<1>2. covered' = covered \/ sub.by \in SigThreads
  <2>1. ASSUME sub.stack PROVE sub # NoSub
    BY <2>1, NoCall
  <2>2. ASSUME sub \in Calls PROVE sub.by \in SigThreads
    BY <2>2 DEF Calls
  <2> QED BY <2>1, <2>2 DEF SigInv, SigTypes
<1>3. SigTypes'
  BY <1>2 DEF SigInv, SigTypes
<1>4. StackIsCovered'
  BY DEF SigInv, SigStackInv, StackIsCovered
<1>5. SigStackInv'
  BY <1>1 DEF SigStackInv
<1>6. SigOnceInv'
  <2>1. ASSUME NEW r \in Trapped, r \notin forever, sys # "windows"
        PROVE  ~Installs(r)' /\ disp[r] # "stays" /\ ran[r] + Once(disp[r] = "once") + Once(FALSE) <= asked[r]
    BY <1>1, <2>1, OnceCount DEF Installs, Once
  <2>2. ASSUME NEW r \in Trapped, ~Installs(r)'
        PROVE  Once(Installs(r)') = Once(FALSE)
    BY <2>2 DEF Once
  <2> QED BY <2>1, <2>2 DEF SigInv, SigOnceInv
<1>7. SigCountInv'
  <2>1. Once("int" \in sub'.todo) = 0 /\ Once("int" \in sub.todo) \in {0, 1} /\ ctrl \in Nat /\ subs \in Nat
    BY <1>1, SigAssumption DEF Once, SigInv, SigTypes
  <2> QED BY <2>1 DEF SigInv, SigCountInv
<1> QED BY <1>3, <1>4, <1>5, <1>6, <1>7 DEF SigInv

LEMMA InstallCtrlInv ==
  ASSUME SigInv, sys' = sys, InstallCtrl
  PROVE  SigInv'
<1>1. /\ sub' \in Calls /\ sub'.todo = sub.todo \ {"int"} /\ sub'.stack = sub.stack /\ sub'.by = sub.by
      /\ sys = "windows" /\ "int" \in sub.todo
  BY InCall DEF InstallCtrl, Calls
<1>2. /\ ctrl' = ctrl + 1 /\ ctrl \in Nat
      /\ UNCHANGED <<subs, disp, onstack, alt, noreset, inside, exc, asked, forever, ran, covered, gone>>
  BY DEF InstallCtrl, SigInv, SigTypes
<1>3. SigTypes'
  BY <1>1, <1>2 DEF SigInv, SigTypes
<1>4. StackIsCovered' /\ SigOnceInv'
  BY <1>1, <1>2 DEF SigInv, StackIsCovered, SigOnceInv
<1>5. SigStackInv'
  BY <1>1, <1>2 DEF SigInv, SigStackInv
<1>6. SigCountInv'
  <2>1. Once("int" \in sub'.todo) = 0 /\ Once("int" \in sub.todo) = 1 /\ subs \in Nat
    BY <1>1, SigAssumption DEF Once, SigInv, SigTypes
  <2> QED BY <1>1, <1>2, <2>1 DEF SigInv, SigCountInv
<1> QED BY <1>3, <1>4, <1>5, <1>6 DEF SigInv

LEMMA InstallExcInv ==
  ASSUME SigInv, sys' = sys, InstallExc
  PROVE  SigInv'
<1>1. /\ sub' \in Calls /\ sub'.todo = {} /\ sub'.stack = sub.stack /\ sub'.by = sub.by
      /\ sys = "windows" /\ "int" \notin sub.todo
  BY InCall DEF InstallExc, Calls
<1>2. UNCHANGED <<subs, disp, onstack, alt, noreset, ctrl, inside, asked, forever, ran, covered, gone>>
  BY DEF InstallExc
<1>3. SigTypes'
  <2>1. exc' \in BOOLEAN
    BY Zenon DEF InstallExc
  <2> QED BY <1>1, <1>2, <2>1 DEF SigInv, SigTypes
<1>4. StackIsCovered' /\ SigOnceInv'
  BY <1>1, <1>2 DEF SigInv, StackIsCovered, SigOnceInv
<1>5. SigStackInv'
  BY <1>1, <1>2 DEF SigInv, SigStackInv
<1>6. SigCountInv'
  <2>1. Once("int" \in sub'.todo) = 0 /\ Once("int" \in sub.todo) = 0
    BY <1>1 DEF Once
  <2> QED BY <1>1, <1>2, <2>1 DEF SigInv, SigCountInv
<1> QED BY <1>3, <1>4, <1>5, <1>6 DEF SigInv

LEMMA SignalUnixInv ==
  ASSUME SigInv, sys' = sys, NEW s \in Trapped, NEW possible, SignalUnix(s, possible)
  PROVE  SigInv'
<1>1. /\ sys # "windows" /\ covered' = IF disp'["segv"] = "default" THEN {} ELSE covered
      /\ UNCHANGED <<sub, subs, onstack, alt, noreset, ctrl, inside, exc, asked, forever>>
  BY DEF SignalUnix
<1>2. \/ /\ ran[s] < MaxRan /\ ran' = [ran EXCEPT ![s] = @ + 1] /\ gone' = gone
         /\ disp[s] # "default" /\ disp' = AfterSignal(s)
      \/ ran' = ran /\ disp' = disp /\ gone' = TRUE
  BY DEF SignalUnix, Runs, Dies
<1>3. gone' \in BOOLEAN
  <2>1. gone \in BOOLEAN
    BY DEF SigInv, SigTypes
  <2> QED BY <1>2, <2>1, Zenon
<1>4. disp' \in [Trapped -> {"default", "once", "stays"}] /\ ran' \in [Trapped -> 0..MaxRan]
  BY <1>2, SigAssumption DEF SigInv, SigTypes, AfterSignal
<1>5. SigTypes'
  BY <1>1, <1>3, <1>4 DEF SigInv, SigTypes
<1>6. StackIsCovered'
  BY <1>1 DEF SigInv, StackIsCovered
<1>7. SigStackInv'
  BY <1>1 DEF SigInv, SigStackInv
<1>8. SigOnceInv'
  <2>1. ASSUME NEW r \in Trapped, r \notin forever
        PROVE  /\ disp'[r] # "stays"
               /\ ran'[r] + Once(disp'[r] = "once") + Once(Installs(r)) <= asked[r]
    <3>1. CASE r # s \/ (ran' = ran /\ disp' = disp)
      <4>1. disp'[r] = disp[r] /\ ran'[r] = ran[r]
        BY <1>2, <3>1 DEF SigInv, SigTypes, AfterSignal
      <4> QED BY <1>1, <2>1, <4>1, OnceCount
    <3>2. CASE r = s /\ disp[s] # "default" /\ disp' = AfterSignal(s) /\ ran' = [ran EXCEPT ![s] = @ + 1]
      <4>1. /\ ran[r] + Once(disp[r] = "once") + Once(Installs(r)) <= asked[r] /\ disp[r] # "stays"
            /\ ran[r] \in Nat /\ asked[r] \in Nat
        BY <1>1, <2>1, OnceCount
      <4>2. disp[r] = "once" /\ disp'[r] = "default" /\ ran'[r] = ran[r] + 1
        BY <3>2, <4>1 DEF SigInv, SigTypes, AfterSignal
      <4> QED BY <4>1, <4>2 DEF Once
    <3> QED BY <1>2, <3>1, <3>2
  <2>2. \A r \in Trapped : Installs(r)' <=> Installs(r)
    BY <1>1 DEF Installs
  <2>3. \A r \in Trapped : Once(Installs(r)') = Once(Installs(r))
    BY <2>2 DEF Once
  <2>4. ASSUME NEW r \in Trapped, r \notin forever
        PROVE  Installs(r)' => sub'.mode = "once"
    BY <1>1, <2>2, <2>4, OnceCount
  <2> QED BY <1>1, <2>1, <2>3, <2>4 DEF SigInv, SigOnceInv
<1>9. SigCountInv'
  BY <1>1 DEF SigInv, SigCountInv
<1> QED BY <1>5, <1>6, <1>7, <1>8, <1>9 DEF SigInv

\* Windows: events and exceptions.
LEMMA WindowsEventInv ==
  ASSUME SigInv, sys' = sys, CtrlEvent \/ CtrlHandler \/ ExcHandler
  PROVE  SigInv'
<1>1. UNCHANGED <<sub, subs, disp, onstack, alt, noreset, asked, forever, covered>>
  BY DEF CtrlEvent, CtrlHandler, ExcHandler
<1>2. sys = "windows"
  BY DEF CtrlEvent, CtrlHandler, ExcHandler, SigInv, SigTypes, SigOnceInv
<1>3. gone \in BOOLEAN /\ exc \in BOOLEAN /\ noreset \in BOOLEAN
  BY DEF SigInv, SigTypes
<1>4. gone' \in BOOLEAN /\ exc' \in BOOLEAN
  <2>1. CASE CtrlEvent
    BY <1>3, <2>1, Zenon DEF CtrlEvent, Dies
  <2>2. CASE CtrlHandler
    BY <1>3, <2>2, Zenon DEF CtrlHandler, Runs
  <2>3. CASE ExcHandler
    BY <1>3, <2>3, Zenon DEF ExcHandler
  <2> QED BY <2>1, <2>2, <2>3
<1>5. ran \in [Trapped -> 0..MaxRan] /\ ctrl \in Nat /\ inside \in Nat
  BY DEF SigInv, SigTypes
<1>6. ran' \in [Trapped -> 0..MaxRan] /\ (~gone' => ran'["segv"] = ran["segv"] /\ ~gone)
  <2>1. CASE CtrlEvent
    BY <1>5, <2>1 DEF CtrlEvent, Dies
  <2>2. CASE CtrlHandler
    BY <1>5, <2>2, SigAssumption DEF CtrlHandler, Runs, Trapped
  <2>3. CASE ExcHandler
    <3>1. ran["segv"] = 0 /\ gone'
      BY <1>2, <2>3 DEF ExcHandler, SigInv, SigCountInv
    <3> QED BY <1>5, <2>3, <3>1, SigAssumption DEF ExcHandler, Trapped
  <2> QED BY <2>1, <2>2, <2>3
<1>7. ctrl' \in Nat /\ inside' \in Nat /\ ctrl' <= ctrl
  BY <1>5 DEF CtrlEvent, CtrlHandler, ExcHandler
<1>8. SigTypes'
  BY <1>1, <1>4, <1>6, <1>7 DEF SigInv, SigTypes
<1>9. StackIsCovered' /\ SigOnceInv'
  BY <1>1, <1>2 DEF SigInv, StackIsCovered, SigOnceInv
<1>10. SigStackInv'
  BY <1>1 DEF SigInv, SigStackInv
<1>11. SigCountInv'
  <2>1. Once("int" \in sub'.todo) = Once("int" \in sub.todo) /\ Once("int" \in sub.todo) \in Nat /\ subs \in Nat
    BY <1>1, SigAssumption DEF Once, SigInv, SigTypes
  <2>2. ctrl' + Once("int" \in sub'.todo) <= subs'
    BY <1>1, <1>5, <1>7, <2>1 DEF SigInv, SigCountInv
  <2> QED BY <1>1, <1>2, <1>6, <2>2 DEF SigInv, SigCountInv
<1> QED BY <1>8, <1>9, <1>10, <1>11 DEF SigInv

LEMMA HandlerStepInv ==
  ASSUME SigInv, HandlerStep
  PROVE  SigInv'
<1>1. sys' = sys
  BY DEF HandlerStep, kqVars
<1>2. ASSUME InstallFails \/ SubscribeEnd PROVE SigInv'
  <2>1. /\ sub' = NoSub
        /\ UNCHANGED <<subs, disp, onstack, alt, noreset, ctrl, inside, exc, asked, forever, ran, gone>>
        /\ \/ covered' = covered
           \/ sub.stack /\ disp["segv"] # "default" /\ covered' = covered \cup {sub.by}
    BY <1>2 DEF InstallFails, SubscribeEnd
  <2> QED BY <1>1, <2>1, SubEndInv
<1>3. ASSUME NEW t \in SigThreads, StackOverflow(t) PROVE SigInv'
  BY <1>1, <1>3, SignalUnixInv DEF StackOverflow, Trapped
<1> QED BY <1>1, <1>2, <1>3, SubscribeInv, InstallStackInv, InstallInv, InstallCtrlInv, InstallExcInv,
           SignalUnixInv, WindowsEventInv DEF HandlerStep

\* The other steps leave the handlers alone.
LEMMA SigFrame ==
  ASSUME SigInv, UNCHANGED handlerVars, sys' = sys
  PROVE  SigInv'
<1>1. SigTypes'
  BY DEF SigInv, SigTypes, handlerVars
<1>2. StackIsCovered' /\ SigStackInv'
  BY DEF SigInv, StackIsCovered, SigStackInv, handlerVars
<1>3. SigOnceInv' /\ SigCountInv'
  BY DEF SigInv, SigOnceInv, SigCountInv, Installs, handlerVars
<1> QED BY <1>1, <1>2, <1>3 DEF SigInv

\* The handlers' counters stay within their bounds.
LEMMA SigTypeOK ==
  ASSUME SigInv
  PROVE  HandlerTypeOK
<1>1. subs \in 0..MaxSubs /\ subs \in Nat /\ ctrl \in Nat /\ asked \in [Trapped -> Nat]
  BY SigAssumption DEF SigInv, SigTypes
<1>2. Once("int" \in sub.todo) \in Nat
  BY DEF Once
<1>3. ctrl \in 0..MaxSubs
  BY <1>1, <1>2, SigAssumption DEF SigInv, SigCountInv
<1>4. asked \in [Trapped -> 0..MaxSubs]
  BY <1>1, SigAssumption DEF SigInv, SigCountInv
<1> QED BY <1>3, <1>4 DEF HandlerTypeOK, SigInv, SigTypes

LEMMA SigOnce ==
  ASSUME SigInv
  PROVE  HandlersRunAsAsked
<1>1. ASSUME NEW s \in Trapped, s \notin forever, sys # "windows" PROVE ran[s] <= asked[s]
  <2>1. Once(disp[s] = "once") \in Nat /\ Once(Installs(s)) \in Nat
    BY DEF Once
  <2> QED BY <1>1, <2>1, OnceCount
<1> QED BY <1>1 DEF HandlersRunAsAsked, OnceMeansOnce, SigInv

-----------------------------------------------------------------------------
(* The kernel queue.  Its sequences matter as sets from here on. *)

Queued == ToSet(ready)
Fetched == ToSet(batch)

\* Whose events may come: what the user has, what a child process has, and open connections.
Known == Opened \cup held \cup UNION {Notes(p) : p \in Conns}

SeqInv ==
  /\ sys \in {"linux", "bsd", "windows"}
  /\ ready \in Seq(Objects) /\ batch \in Seq(Objects) /\ Len(batch) <= EventsCap
  /\ sys # "windows" => IsInjective(ready) /\ IsInjective(batch)

ObjectsInv ==
  /\ made \in [Kinds -> 0..MaxMade] /\ cur \in [Kinds -> 0..MaxMade]
  /\ \A k \in Kinds : cur[k] \in {0, made[k]}
  /\ live \subseteq Objects /\ held \subseteq Objects /\ full \subseteq Objects
  /\ at \in Kinds \cup {"loop"} /\ (at # "loop" => cur[at] # 0)
  /\ \A k \in AtFirst : cur[k] = 1

\* The examples take one event at a time, and give no descriptors away.
OneByOneInv ==
  Server => /\ sys # "windows" /\ held = {} /\ Len(batch) <= 1
            /\ at # "loop" => batch = <<>>

\* UNIX: the system has nothing of what was detached; kqueue has an event for all that has
\* happened.
SilentInv ==
  /\ sys # "windows" => live \cup full \cup Fetched \subseteq Known
  /\ sys = "bsd" => full \subseteq Queued

QueueInv == SeqInv /\ ObjectsInv /\ OneByOneInv /\ SilentInv

-----------------------------------------------------------------------------
(* What each component adds. *)

\* A post that the user has not seen has its event, and on UNIX the object is still pollable.
PostInv ==
  /\ PostTypeOK
  /\ posted => /\ cur["post"] # 0
               /\ \/ at = "post" \/ Handle("post") \in Fetched
                  \/ Handle("post") \in Queued /\ (sys # "windows" => Handle("post") \in full)

\* An expiry and its event go together; a new timer's handle is not that of an old one; BSD:
\* the byte is set while there is a note.
TimerInv ==
  /\ TimerTypeOK /\ (sys = "windows" => made["timer"] = 0)
  /\ \A g \in 1..MaxMade : <<"timer", g>> \in live \cup full \cup Queued \cup Fetched => g <= made["timer"]
  /\ \A g \in 1..MaxMade : <<"timer", g>> \in full => <<"timer", g>> \in live
  /\ sys # "windows" /\ at = "timer" => Timer \notin Fetched
  /\ at = "timer" \/ Timer \in Fetched \/ Timer \in full => expired
  /\ expired => at = "timer" \/ Timer \in Fetched \/ (Timer \in Queued /\ Timer \in full)
  /\ sys = "bsd" /\ Timer \in live => byte

\* Linux: pending signals keep signalfd coming; BSD: a signal's event is ahead of the user, or
\* in his hands and not read.
SignalInv ==
  /\ SignalTypeOK
  /\ sys # "bsd" => \A s \in Sigs : cur[s] = 0
  /\ sys # "linux" => cur["signalfd"] = 0
  /\ sys = "windows" => raised = {}
  /\ \A k \in SignalKinds : cur[k] # 0 => Handle(k) \in live
  /\ raised # {} => Attached
  /\ ident => at \in Sigs
  /\ sys = "linux" =>
       /\ raised \subseteq pending
       /\ pending # {} /\ cur["signalfd"] # 0 => Coming("signalfd")
  /\ sys = "bsd" => \A s \in raised :
       (at = s /\ ~ident) \/ Handle(s) \in Fetched \/ (Handle(s) \in Queued /\ Handle(s) \in full)

\* Windows: the instance has one client at most, and a server that does not look at it has an
\* operation that is pending or whose packet comes.
PipeInv ==
  /\ PipeTypeOK
  /\ cur["pipe"] = 0 => Waiting = {} /\ op = "none"
  /\ active <=> op # "none"
  /\ op = "pending" => inst = "listening"
  /\ sys # "windows" => op = "none" /\ (Waiting # {} => Coming("pipe"))
  /\ sys = "windows" =>
       /\ \A c \in Clients : /\ client[c] = "waits" => inst = "connected"
                             /\ client[c] = "left" => inst = "broken"
       /\ \A c, d \in Waiting : c = d
       /\ cur["pipe"] # 0 /\ at # "pipe" =>
            op = "pending" \/ (op = "done" /\ Pipe \in Queued \cup Fetched)

KeyInv == tty # <<>> => Coming("stdin")

\* Windows: a receiver that does not look has an operation; a pending one means that there is
\* nothing to receive.
UdpInv ==
  /\ arrived \in Nat /\ queue \in Seq(Nat) /\ heard \in Seq(Nat) /\ buf \in Nat
  /\ io \in {"none", "try", "pending", "done", "failed"}
  /\ DatagramsAreKept
  /\ io = "pending" => queue = <<>> /\ soError # "refused"
  /\ "udp" \notin uses =>
       queue = <<>> /\ soError # "refused" /\ io = "none" /\ at # "udp" /\ Udp \notin Queued \cup Fetched
  /\ sys # "windows" => io = "none" /\ (queue # <<>> \/ soError = "refused" => Coming("udp"))
  /\ sys = "windows" =>
       /\ io \in {"done", "failed"} => Coming("udp")
       /\ "udp" \in uses /\ at # "udp" => io \in {"pending", "done", "failed"}

\* An open connection is attached, and one with something to read has its event.
ServerInv ==
  /\ app \in {"echo", "router"} /\ backlog \in Seq(Peers) /\ conns \in Seq(Peers)
  /\ peer \in [Peers -> {"out", "open", "fin", "reset"}] /\ unread \in [Peers -> Nat]
  /\ ~Server => backlog = <<>> /\ Conns = {} /\ app = "echo"
  /\ ConnsAreOpen
  /\ \A p \in Conns : Notes(p) \subseteq live
  /\ \A p \in Peers, i \in 1..MaxMade :
       <<p, i>> \in live \cup full \cup Queued \cup Fetched => <<p, i>> \in Notes(p)
  /\ up => \A p \in Conns : Readable(p) =>
       at = p \/ ReadNote(p) \in Queued \/ Notes(p) \cap Fetched # {}

IInv ==
  /\ SigInv /\ QueueInv /\ PostInv /\ TimerInv /\ SignalInv /\ PipeInv /\ KeyInv /\ UdpInv
  /\ ServerInv

-----------------------------------------------------------------------------
(* Sequences as sets. *)

LEMMA ConcatSet ==
  ASSUME NEW S, NEW s \in Seq(S), NEW t \in Seq(S)
  PROVE  /\ s \o t \in Seq(S) /\ ToSet(s \o t) = ToSet(s) \cup ToSet(t)
         /\ IsInjective(s) /\ IsInjective(t) /\ ToSet(s) \cap ToSet(t) = {} => IsInjective(s \o t)
<1> DEFINE u == s \o t
<1>1. /\ u \in Seq(S) /\ Len(u) = Len(s) + Len(t) /\ Len(s) \in Nat /\ Len(t) \in Nat
      /\ DOMAIN u = 1..Len(u) /\ DOMAIN s = 1..Len(s) /\ DOMAIN t = 1..Len(t)
  BY ConcatProperties, LenProperties
<1>2. \A i \in DOMAIN u : IF i <= Len(s) THEN i \in DOMAIN s /\ u[i] = s[i]
                          ELSE i - Len(s) \in DOMAIN t /\ u[i] = t[i - Len(s)]
  BY <1>1, ConcatProperties
<1>3. \A i \in DOMAIN s : i \in DOMAIN u /\ u[i] = s[i]
  BY <1>1, <1>2
<1>4. \A i \in DOMAIN t : i + Len(s) \in DOMAIN u /\ u[i + Len(s)] = t[i]
  BY <1>1, <1>2
<1> HIDE DEF u
<1>5. ToSet(u) = ToSet(s) \cup ToSet(t)
  <2>1. \A i \in DOMAIN u : u[i] \in ToSet(s) \cup ToSet(t)
    BY <1>1, <1>2 DEF ToSet
  <2>2. \A i \in DOMAIN s : s[i] \in ToSet(u)
    BY <1>3 DEF ToSet
  <2>3. \A i \in DOMAIN t : t[i] \in ToSet(u)
    BY <1>4 DEF ToSet
  <2> QED BY <2>1, <2>2, <2>3 DEF ToSet
<1>6. ASSUME IsInjective(s), IsInjective(t), ToSet(s) \cap ToSet(t) = {} PROVE IsInjective(u)
  <2>1. SUFFICES ASSUME NEW i \in DOMAIN u, NEW j \in DOMAIN u, u[i] = u[j] PROVE i = j
    BY DEF IsInjective
  <2>2. i \in Int /\ j \in Int
    BY <1>1
  <2>3. CASE i <= Len(s) /\ j <= Len(s)
    BY <1>2, <1>6, <2>1, <2>3 DEF IsInjective
  <2>4. CASE ~(i <= Len(s)) /\ ~(j <= Len(s))
    <3>1. i - Len(s) = j - Len(s)
      BY <1>2, <1>6, <2>1, <2>4 DEF IsInjective
    <3> QED BY <1>1, <2>2, <3>1
  <2>5. CASE (i <= Len(s)) # (j <= Len(s))
    <3>1. \A x, y \in DOMAIN u : x <= Len(s) /\ ~(y <= Len(s)) => u[x] # u[y]
      BY <1>2, <1>6 DEF ToSet
    <3> QED BY <2>1, <2>5, <3>1
  <2> QED BY <2>3, <2>4, <2>5
<1> QED BY <1>1, <1>5, <1>6 DEF u

\* The elements of a finite set in some order.
LEMMA SetSeq ==
  ASSUME NEW S, IsFiniteSet(S)
  PROVE  SetToSeq(S) \in Seq(S) /\ ToSet(SetToSeq(S)) = S /\ IsInjective(SetToSeq(S))
<1> DEFINE n == Cardinality(S)
           f == SetToSeq(S)
<1>1. n \in Nat /\ ExistsBijection(1..n, S)
  BY FS_CardinalityType
<1>2. \E g \in [1..n -> S] : IsInjective(g)
  BY <1>1 DEF ExistsBijection, Bijection, Injection
<1>3. f \in [1..n -> S] /\ IsInjective(f)
  BY <1>2 DEF SetToSeq
<1>4. f \in Injection(1..n, S)
  BY <1>3 DEF Injection
<1>5. Cardinality(1..n) = n
  BY <1>1, FS_Interval
<1>6. f \in Surjection(1..n, S)
  BY <1>4, <1>5, FS_Injection
<1> HIDE DEF f
<1>7. \A x \in S : \E i \in 1..n : f[i] = x
  BY <1>6 DEF Surjection
<1>8. ToSet(f) = S
  BY <1>3, <1>7 DEF ToSet
<1>9. f \in Seq(S)
  BY <1>1, <1>3
<1> QED BY <1>3, <1>8, <1>9 DEF f

\* The first n elements, and the others.
LEMMA SplitSeq ==
  ASSUME NEW S, NEW s \in Seq(S), NEW n \in 0..Len(s)
  PROVE  LET a == SubSeq(s, 1, n)  b == SubSeq(s, n + 1, Len(s)) IN
         /\ a \in Seq(S) /\ b \in Seq(S) /\ Len(a) = n /\ ToSet(a) \cup ToSet(b) = ToSet(s)
         /\ IsInjective(s) => IsInjective(a) /\ IsInjective(b)
<1> DEFINE a == SubSeq(s, 1, n)
           b == SubSeq(s, n + 1, Len(s))
<1>0. Len(s) \in Nat
  BY LenProperties
<1>1. /\ Len(s) \in Nat /\ n \in Nat /\ n <= Len(s) /\ DOMAIN s = 1..Len(s)
      /\ \A i \in 1..Len(s) : s[i] \in S
  BY <1>0, LenProperties, ElementOfSeq
<1>2. a \in Seq(S) /\ Len(a) = n /\ \A i \in 1..n : a[i] = s[i]
  BY <1>1, SubSeqProperties
<1>3. b \in Seq(S) /\ Len(b) = Len(s) - n /\ \A i \in 1..(Len(s) - n) : b[i] = s[n + i]
  <2> DEFINE m == n + 1
             l == Len(s)
  <2>1. m \in Int /\ l \in Int /\ m = n + 1 /\ l = Len(s) /\ b = SubSeq(s, m, l)
    BY <1>1
  <2> HIDE DEF m, l, b
  <2>2. \A i \in m..l : s[i] \in S
    BY <1>1, <2>1
  <2>3. SubSeq(s, m, l) \in Seq(S) /\ Len(SubSeq(s, m, l)) = IF m <= l THEN l - m + 1 ELSE 0
    BY <2>1, <2>2, SubSeqProperties
  <2>4. \A i \in 1..(l - m + 1) : SubSeq(s, m, l)[i] = s[m + i - 1]
    BY <2>1, <2>2, SubSeqProperties
  <2>5. b \in Seq(S) /\ Len(b) = Len(s) - n
    <3>1. CASE m <= l
      <4>1. Len(SubSeq(s, m, l)) = l - m + 1
        BY <2>3, <3>1
      <4>2. l - m + 1 = Len(s) - n
        BY <1>1, <2>1
      <4> QED BY <2>1, <2>3, <4>1, <4>2
    <3>2. CASE ~(m <= l)
      <4>1. Len(SubSeq(s, m, l)) = 0
        BY <2>3, <3>2
      <4>2. Len(s) - n = 0
        <5>1. Len(s) < n + 1
          BY <1>0, <2>1, <3>2
        <5>2. \A x, y \in Nat : x <= y /\ y < x + 1 => y - x = 0
          OBVIOUS
        <5>3. n \in Nat /\ n <= Len(s)
          BY <1>1
        <5> QED BY <1>0, <5>1, <5>2, <5>3
      <4> QED BY <2>1, <2>3, <4>1, <4>2
    <3> QED BY <3>1, <3>2
  <2>6. ASSUME NEW i \in 1..(Len(s) - n) PROVE b[i] = s[n + i]
    <3>1. i \in 1..(l - m + 1) /\ m + i - 1 = n + i
      BY <1>1, <2>1
    <3> QED BY <2>1, <2>4, <3>1
  <2> QED BY <2>5, <2>6
<1>4. DOMAIN a = 1..n /\ DOMAIN b = 1..(Len(s) - n)
  BY <1>2, <1>3, LenProperties
<1> HIDE DEF a, b
<1>5. ToSet(a) \cup ToSet(b) = ToSet(s)
  <2>1. ToSet(a) \subseteq ToSet(s)
    BY <1>1, <1>2, <1>4 DEF ToSet
  <2>2. ToSet(b) \subseteq ToSet(s)
    <3>1. ASSUME NEW i \in DOMAIN b PROVE n + i \in DOMAIN s /\ b[i] = s[n + i]
      <4>1. i \in 1..(Len(s) - n) /\ i \in Nat
        BY <1>1, <1>4
      <4>2. n + i \in 1..Len(s)
        BY <1>1, <4>1
      <4> QED BY <1>1, <1>3, <4>1, <4>2
    <3> QED BY <3>1 DEF ToSet
  <2>3. ASSUME NEW i \in DOMAIN s PROVE s[i] \in ToSet(a) \cup ToSet(b)
    <3>1. CASE i <= n
      BY <1>1, <1>2, <1>4, <3>1 DEF ToSet
    <3>2. CASE ~(i <= n)
      <4>1. i - n \in DOMAIN b /\ b[i - n] = s[i]
        BY <1>1, <1>3, <1>4, <3>2
      <4> QED BY <4>1 DEF ToSet
    <3> QED BY <3>1, <3>2
  <2> QED BY <2>1, <2>2, <2>3 DEF ToSet
<1>6. ASSUME IsInjective(s) PROVE IsInjective(a) /\ IsInjective(b)
  <2>1. IsInjective(a)
    BY <1>1, <1>2, <1>4, <1>6 DEF IsInjective
  <2>2. ASSUME NEW i \in DOMAIN b, NEW j \in DOMAIN b, b[i] = b[j] PROVE i = j
    <3>1. n + i \in DOMAIN s /\ n + j \in DOMAIN s /\ s[n + i] = s[n + j] /\ i \in Int /\ j \in Int
      BY <1>1, <1>3, <1>4, <2>2
    <3>2. n + i = n + j
      BY <1>6, <3>1 DEF IsInjective
    <3> QED BY <1>1, <3>1, <3>2
  <2> QED BY <2>1, <2>2 DEF IsInjective
<1> QED BY <1>2, <1>3, <1>5, <1>6 DEF a, b

LEMMA TailSeq ==
  ASSUME NEW S, NEW s \in Seq(S), s # <<>>
  PROVE  /\ Head(s) \in S /\ Tail(s) \in Seq(S) /\ Len(Tail(s)) = Len(s) - 1
         /\ ToSet(s) = {Head(s)} \cup ToSet(Tail(s))
         /\ IsInjective(s) => IsInjective(Tail(s)) /\ Head(s) \notin ToSet(Tail(s))
<1> DEFINE t == Tail(s)
           h == Head(s)
<1>1. /\ Len(s) \in Nat /\ Len(s) >= 1 /\ DOMAIN s = 1..Len(s)
      /\ t \in Seq(S) /\ Len(t) = Len(s) - 1 /\ \A i \in 1..Len(t) : t[i] = s[i + 1]
  BY LenProperties, HeadTailProperties, EmptySeq
<1>2. DOMAIN t = 1..Len(t) /\ h = s[1] /\ h \in S
  BY <1>1, LenProperties, HeadTailProperties
<1> HIDE DEF t, h
<1>3. \A i \in DOMAIN t : i + 1 \in DOMAIN s /\ i + 1 # 1 /\ t[i] = s[i + 1]
  BY <1>1, <1>2
<1>4. \A i \in DOMAIN s : i = 1 \/ (i - 1 \in DOMAIN t /\ t[i - 1] = s[i])
  BY <1>1, <1>2
<1>5. ToSet(s) = {h} \cup ToSet(t)
  <2>1. \A i \in DOMAIN s : s[i] \in {h} \cup ToSet(t)
    BY <1>2, <1>4 DEF ToSet
  <2>2. \A i \in DOMAIN t : t[i] \in ToSet(s)
    BY <1>3 DEF ToSet
  <2>3. h \in ToSet(s)
    BY <1>1, <1>2 DEF ToSet
  <2> QED BY <2>1, <2>2, <2>3 DEF ToSet
<1>6. ASSUME IsInjective(s) PROVE IsInjective(t) /\ h \notin ToSet(t)
  <2>1. ASSUME NEW i \in DOMAIN t, NEW j \in DOMAIN t, t[i] = t[j] PROVE i = j
    <3>1. i + 1 = j + 1 /\ i \in Int /\ j \in Int
      BY <1>1, <1>2, <1>3, <1>6, <2>1 DEF IsInjective
    <3> QED BY <3>1
  <2>2. 1 \in DOMAIN s
    BY <1>1
  <2>3. \A i \in DOMAIN t : t[i] # h
    BY <1>2, <1>3, <1>6, <2>2 DEF IsInjective
  <2>4. h \notin ToSet(t)
    BY <2>3 DEF ToSet
  <2> QED BY <2>1, <2>4 DEF IsInjective
<1> QED BY <1>1, <1>2, <1>5, <1>6 DEF t, h

\* ReadyOnly() keeps the events of os and no others: a kept event's place is the number of
\* those kept up to it, so that each place is taken once.
LEMMA OnlySeq ==
  ASSUME NEW S, ready \in Seq(S), NEW os
  PROVE  /\ ReadyOnly(os) \in Seq(S) /\ ToSet(ReadyOnly(os)) = ToSet(ready) \cap os
         /\ IsInjective(ready) => IsInjective(ReadyOnly(os))
<1> DEFINE kept == {i \in DOMAIN ready : ready[i] \in os}
           Upto(i) == {j \in kept : j <= i}
           place == [i \in kept |-> Cardinality(Upto(i))]
           m == Cardinality(kept)
           At(n) == CHOOSE i \in kept : Cardinality(Upto(i)) = n
           only == [n \in 1..m |-> ready[At(n)]]
<1>1. Len(ready) \in Nat /\ DOMAIN ready = 1..Len(ready) /\ \A i \in DOMAIN ready : ready[i] \in S
  BY LenProperties, ElementOfSeq
<1>2. kept \subseteq 1..Len(ready) /\ kept \subseteq Int /\ IsFiniteSet(kept) /\ m \in Nat
  <2>1. IsFiniteSet(1..Len(ready)) /\ kept \in SUBSET (1..Len(ready))
    BY <1>1, FS_Interval
  <2> QED BY <1>1, <2>1, FS_Subset, FS_CardinalityType
<1>3. ReadyOnly(os) = only
  BY DEF ReadyOnly
<1> HIDE DEF kept
<1>4. \A i \in kept : IsFiniteSet(Upto(i)) /\ place[i] \in 1..m
  <2>1. SUFFICES ASSUME NEW i \in kept PROVE IsFiniteSet(Upto(i)) /\ place[i] \in 1..m
    OBVIOUS
  <2>2. IsFiniteSet(Upto(i)) /\ Cardinality(Upto(i)) <= m /\ Cardinality(Upto(i)) \in Nat
    <3>1. Upto(i) \in SUBSET kept
      OBVIOUS
    <3> HIDE DEF Upto
    <3> QED BY <1>2, <3>1, FS_Subset, FS_CardinalityType
  <2>3. Cardinality(Upto(i)) # 0
    <3>1. i \in Upto(i)
      BY <1>2
    <3> HIDE DEF Upto
    <3> QED BY <2>2, <3>1, FS_EmptySet
  <2> QED BY <1>2, <2>2, <2>3
<1>5. \A i, j \in kept : i < j => place[i] # place[j]
  <2>1. SUFFICES ASSUME NEW i \in kept, NEW j \in kept, i < j PROVE Cardinality(Upto(i)) # Cardinality(Upto(j))
    OBVIOUS
  <2>2. Upto(i) \in SUBSET Upto(j) /\ j \in Upto(j) /\ j \notin Upto(i)
    <3>1. i \in Int /\ j \in Int /\ \A x \in kept : x \in Int
      BY <1>2
    <3>2. \A x \in kept : x <= i => x <= j
      BY <2>1, <3>1
    <3>3. ~(j <= i) /\ j <= j
      BY <2>1, <3>1
    <3> QED BY <3>2, <3>3
  <2>3. IsFiniteSet(Upto(j))
    BY <1>4
  <2> HIDE DEF Upto
  <2> QED BY <2>2, <2>3, FS_Subset
<1>6. \A i, j \in kept : place[i] = place[j] => i = j
  BY <1>2, <1>5
<1>7. place \in Injection(kept, 1..m)
  <2>1. place \in [kept -> 1..m]
    BY <1>4
  <2> QED BY <1>6, <2>1 DEF Injection, IsInjective
<1>8. place \in Surjection(kept, 1..m)
  <2>1. IsFiniteSet(1..m) /\ Cardinality(1..m) = m
    BY <1>2, FS_Interval
  <2> QED BY <1>7, <2>1, FS_Injection
<1>9. \A n \in 1..m : \E i \in kept : Cardinality(Upto(i)) = n
  BY <1>8 DEF Surjection
<1>10. \A n \in 1..m : At(n) \in kept /\ place[At(n)] = n
  <2>1. \A n \in 1..m : At(n) \in kept /\ Cardinality(Upto(At(n))) = n
    BY <1>9
  <2> HIDE DEF At, Upto
  <2> QED BY <2>1
<1> HIDE DEF place, At, m
<1>11. \A i \in kept : place[i] \in 1..m /\ At(place[i]) = i
  BY <1>4, <1>6, <1>10
<1>12. \A n \in 1..m : only[n] = ready[At(n)] /\ ready[At(n)] \in S /\ ready[At(n)] \in os /\ At(n) \in DOMAIN ready
  BY <1>1, <1>10 DEF kept
<1>13. only \in Seq(S) /\ DOMAIN only = 1..m
  BY <1>2, <1>12
<1>14. ToSet(only) = ToSet(ready) \cap os
  <2>1. ToSet(only) \subseteq ToSet(ready) \cap os
    BY <1>12, <1>13 DEF ToSet
  <2>2. ASSUME NEW i \in DOMAIN ready, ready[i] \in os PROVE ready[i] \in ToSet(only)
    <3>1. i \in kept
      BY <2>2 DEF kept
    <3>2. place[i] \in DOMAIN only /\ only[place[i]] = ready[i]
      BY <1>11, <1>12, <1>13, <3>1
    <3> HIDE DEF only
    <3> QED BY <3>2 DEF ToSet
  <2> HIDE DEF only
  <2> QED BY <2>1, <2>2 DEF ToSet
<1>15. ASSUME IsInjective(ready) PROVE IsInjective(only)
  <2>1. SUFFICES ASSUME NEW n \in 1..m, NEW k \in 1..m, only[n] = only[k] PROVE n = k
    BY <1>13 DEF IsInjective
  <2>2. At(n) = At(k)
    BY <1>12, <1>15, <2>1 DEF IsInjective
  <2> QED BY <1>10, <2>2
<1> QED BY <1>3, <1>13, <1>14, <1>15

LEMMA ObjectsFinite == IsFiniteSet(Objects) /\ \A os \in SUBSET Objects : IsFiniteSet(os)
<1>1. IsFiniteSet(1..MaxMade)
  BY QueueAssumption, FS_Interval
<1>2. IsFiniteSet(Objects)
  BY <1>1, KindsAssumption, FS_Product DEF Objects
<1> QED BY <1>2, FS_Subset

\* The queue's sequences after a step that adds or takes events away.
LEMMA SeqSame ==
  ASSUME SeqInv, sys' = sys, ready' = ready, batch' = batch
  PROVE  SeqInv' /\ Queued' = Queued /\ Fetched' = Fetched
BY DEF SeqInv, Queued, Fetched

LEMMA SeqWith ==
  ASSUME SeqInv, NEW os \in SUBSET Objects, sys' = sys, ready' = ReadyWith(os), batch' = batch
  PROVE  SeqInv' /\ Queued' = Queued \cup os /\ Fetched' = Fetched
<1> DEFINE add == IF sys = "windows" THEN os ELSE os \ ToSet(ready)
           t == SetToSeq(add)
<1>1. add \subseteq Objects /\ IsFiniteSet(add) /\ ready' = ready \o t
  BY ObjectsFinite DEF ReadyWith
<1>2. ToSet(ready) \cup add = ToSet(ready) \cup os /\ (sys # "windows" => ToSet(ready) \cap add = {})
  OBVIOUS
<1> HIDE DEF add
<1>3. t \in Seq(add) /\ ToSet(t) = add /\ IsInjective(t)
  BY <1>1, SetSeq
<1>4. t \in Seq(Objects) /\ ready \in Seq(Objects)
  BY <1>1, <1>3, SeqMonotonic DEF SeqInv
<1> HIDE DEF t
<1>5. /\ ready' \in Seq(Objects) /\ ToSet(ready') = ToSet(ready) \cup add
      /\ sys # "windows" => IsInjective(ready')
  BY <1>1, <1>2, <1>3, <1>4, ConcatSet DEF SeqInv
<1> QED BY <1>2, <1>5 DEF SeqInv, Queued, Fetched

LEMMA SeqOnly ==
  ASSUME SeqInv, NEW os, sys' = sys, ready' = ReadyOnly(os), batch' = batch
  PROVE  SeqInv' /\ Queued' = Queued \cap os /\ Fetched' = Fetched
<1>1. /\ ready' \in Seq(Objects) /\ ToSet(ready') = ToSet(ready) \cap os
      /\ sys # "windows" => IsInjective(ready')
  BY OnlySeq DEF SeqInv
<1> QED BY <1>1 DEF SeqInv, Queued, Fetched

LEMMA MinOfTwo ==
  ASSUME NEW a \in Nat, NEW b \in Nat
  PROVE  Min({a, b}) \in Nat /\ Min({a, b}) <= a /\ Min({a, b}) <= b
<1>1. \E x \in {a, b} : \A y \in {a, b} : x <= y
  <2>1. CASE a <= b
    BY <2>1
  <2>2. CASE ~(a <= b)
    <3>1. b <= a
      BY <2>2
    <3> QED BY <3>1
  <2> QED BY <2>1, <2>2
<1>2. Min({a, b}) \in {a, b} /\ \A y \in {a, b} : Min({a, b}) <= y
  BY <1>1 DEF Min
<1> QED BY <1>2

LEMMA EmptyBatch ==
  ASSUME SeqInv, batch = <<>>
  PROVE  Fetched = {}
BY DEF Fetched, ToSet, SeqInv

\* ffkq_wait() returns some of what it has found, and keeps the rest.
LEMMA SeqWait ==
  ASSUME SeqInv, NEW pollable, NEW done, NEW cap \in Nat, cap <= EventsCap, Wait(pollable, done, cap)
  PROVE  /\ SeqInv' /\ Len(batch') <= cap /\ Fetched = {}
         /\ Queued' \cup Fetched' = IF sys = "windows" THEN Queued ELSE Queued \cap pollable
<1> DEFINE found == Found(pollable)
           n == Returned(Len(found), cap)
<1>1. /\ sys' = sys /\ batch = <<>>
      /\ batch' = SubSeq(found, 1, n) /\ ready' = SubSeq(found, n + 1, Len(found))
  BY DEF Wait
<1>2. /\ found \in Seq(Objects) /\ (sys # "windows" => IsInjective(found))
      /\ ToSet(found) = IF sys = "windows" THEN ToSet(ready) ELSE ToSet(ready) \cap pollable
  BY OnlySeq DEF Found, SeqInv
<1> HIDE DEF found
<1>3. Len(found) \in Nat
  BY <1>2, LenProperties
<1>4. n \in Nat /\ n <= Len(found) /\ n <= cap
  BY <1>3, MinOfTwo DEF Returned
<1> HIDE DEF n
<1>5. n \in 0..Len(found)
  BY <1>3, <1>4
<1>6. /\ batch' \in Seq(Objects) /\ ready' \in Seq(Objects) /\ Len(batch') = n
      /\ ToSet(batch') \cup ToSet(ready') = ToSet(found)
      /\ IsInjective(found) => IsInjective(batch') /\ IsInjective(ready')
  BY <1>1, <1>2, <1>5, SplitSeq
<1>7. Len(batch') <= EventsCap
  BY <1>4, <1>6, QueueAssumption
<1>8. SeqInv'
  BY <1>1, <1>2, <1>6, <1>7 DEF SeqInv
<1>9. ToSet(ready') \cup ToSet(batch') = ToSet(found)
  BY <1>6
<1> QED BY <1>1, <1>2, <1>4, <1>6, <1>8, <1>9, EmptyBatch DEF Queued, Fetched

\* The user looks at the next event.
LEMMA SeqTake ==
  ASSUME SeqInv, NEW known, Take(known)
  PROVE  /\ SeqInv' /\ Queued' = Queued /\ Len(batch') = Len(batch) - 1 /\ Len(batch) \in Nat
         /\ Head(batch) \in Objects /\ Fetched = {Head(batch)} \cup Fetched'
         /\ sys # "windows" => Head(batch) \notin Fetched'
<1>1. sys' = sys /\ ready' = ready /\ batch # <<>> /\ batch' = Tail(batch)
  BY DEF Take
<1>2. batch \in Seq(Objects) /\ Len(batch) \in Nat /\ Len(batch) <= EventsCap
  BY LenProperties DEF SeqInv
<1>3. /\ Head(batch) \in Objects /\ batch' \in Seq(Objects) /\ Len(batch') = Len(batch) - 1
      /\ ToSet(batch) = {Head(batch)} \cup ToSet(batch')
      /\ IsInjective(batch) => IsInjective(batch') /\ Head(batch) \notin ToSet(batch')
  BY <1>1, <1>2, TailSeq
<1>4. Len(batch') <= EventsCap
  BY <1>2, <1>3, QueueAssumption
<1> QED BY <1>1, <1>2, <1>3, <1>4 DEF SeqInv, Queued, Fetched

-----------------------------------------------------------------------------
(* Steps of the kernel queue. *)

LEMMA KindFacts ==
  /\ "loop" \notin Kinds /\ Sigs \subseteq Kinds /\ Peers \subseteq Kinds /\ OwnKinds \subseteq Kinds
  /\ \A k \in OwnKinds : k \notin Sigs /\ k \notin Peers
  /\ \A s \in Sigs : s \notin Peers
BY KindsAssumption DEF OwnKinds

LEMMA ObjectFacts ==
  /\ \A k, i : <<k, i>> \in Objects <=> k \in Kinds /\ i \in 1..MaxMade
  /\ \A o \in Objects : o = <<o[1], o[2]>> /\ o[1] \in Kinds /\ o[2] \in 1..MaxMade
BY DEF Objects

LEMMA HandleFacts ==
  ASSUME ObjectsInv, NEW k \in Kinds
  PROVE  /\ Handle(k) = <<k, cur[k]>> /\ (Handle(k) \in Objects <=> cur[k] # 0)
         /\ cur[k] \in 0..MaxMade /\ made[k] \in 0..MaxMade /\ cur[k] \in {0, made[k]}
         /\ Handle(k) \in Opened <=> cur[k] # 0
<1>1. cur[k] \in 0..MaxMade /\ made[k] \in 0..MaxMade /\ cur[k] \in {0, made[k]} /\ MaxMade \in Nat
  BY QueueAssumption DEF ObjectsInv
<1>2. Handle(k) \in Objects <=> cur[k] # 0
  BY <1>1, ObjectFacts DEF Handle
<1>3. Handle(k) \in Opened <=> cur[k] # 0
  BY DEF Opened, Handle
<1> QED BY <1>1, <1>2, <1>3 DEF Handle

\* A step that has nothing to do with the objects of kind k.
Frame(k) ==
  /\ cur'[k] = cur[k] /\ made'[k] = made[k] /\ (at' = k <=> at = k)
  /\ \A i : /\ <<k, i>> \in live' <=> <<k, i>> \in live
            /\ <<k, i>> \in full' <=> <<k, i>> \in full
            /\ <<k, i>> \in Queued' <=> <<k, i>> \in Queued
            /\ <<k, i>> \in Fetched' <=> <<k, i>> \in Fetched

LEMMA KnownFacts ==
  /\ \A o : o \in Known <=> \/ o \in held
                            \/ \E k \in Kinds : cur[k] # 0 /\ o = <<k, cur[k]>>
                            \/ \E p \in Peers : cur[p] # 0 /\ o \in Notes(p)
  /\ \A p : Notes(p) = {<<p, 1>>, <<p, IF sys = "bsd" THEN 2 ELSE 1>>}
BY DEF Known, Opened, Handle, Conns, Notes, ReadNote, WriteNote

LEMMA KnownSame ==
  ASSUME sys' = sys, cur' = cur, held' = held
  PROVE  Known' = Known
BY DEF Known, Opened, Handle, Conns, Notes, ReadNote, WriteNote

LEMMA KnownGrows ==
  ASSUME sys' = sys, held \subseteq held', \A k \in Kinds : cur[k] # 0 => cur'[k] = cur[k]
  PROVE  Known \subseteq Known'
<1>1. Opened \subseteq Opened'
  BY DEF Opened, Handle
<1>2. \A p \in Conns : p \in Conns' /\ Notes(p)' = Notes(p)
  BY KindFacts DEF Conns, Notes, ReadNote, WriteNote
<1> QED BY <1>1, <1>2 DEF Known

LEMMA StayQ ==
  ASSUME QueueInv, Stay, uses' = uses
  PROVE  QueueInv' /\ Queued' = Queued /\ Fetched' = Fetched /\ \A k \in Kinds : Frame(k)
<1>1. UNCHANGED <<sys, made, cur, live, held, full, ready, batch, at>>
  BY DEF Stay
<1>2. SeqInv' /\ Queued' = Queued /\ Fetched' = Fetched
  BY <1>1, SeqSame DEF QueueInv
<1>3. ObjectsInv' /\ OneByOneInv'
  BY <1>1 DEF QueueInv, ObjectsInv, OneByOneInv, Server
<1>4. SilentInv'
  BY <1>1, <1>2, KnownSame DEF QueueInv, SilentInv
<1> QED BY <1>1, <1>2, <1>3, <1>4 DEF QueueInv, Frame

LEMMA ReturnQ ==
  ASSUME QueueInv, Return, uses' = uses
  PROVE  QueueInv' /\ Queued' = Queued /\ Fetched' = Fetched /\ \A k \in Kinds \ {at} : Frame(k)
<1>1. UNCHANGED <<sys, made, cur, live, held, full, ready, batch>> /\ at' = "loop"
  BY DEF Return
<1>2. SeqInv' /\ Queued' = Queued /\ Fetched' = Fetched
  BY <1>1, SeqSame DEF QueueInv
<1>3. ObjectsInv' /\ OneByOneInv'
  BY <1>1 DEF QueueInv, ObjectsInv, OneByOneInv, Server
<1>4. SilentInv'
  BY <1>1, <1>2, KnownSame DEF QueueInv, SilentInv
<1> QED BY <1>1, <1>2, <1>3, <1>4, KindFacts DEF QueueInv, Frame

\* Something happens to the objects os, or to those of them in hs.
LEMMA EventsQ ==
  ASSUME QueueInv, NEW os \in SUBSET Objects, NEW hs \in SUBSET os,
         ready' = ReadyWith(os), full' = full \cup hs, sys # "windows" => hs \subseteq Known,
         UNCHANGED <<sys, made, cur, live, held, batch, at, uses>>
  PROVE  /\ QueueInv' /\ Queued' = Queued \cup os /\ Fetched' = Fetched
         /\ \A k \in Kinds : (\A o \in os : o[1] # k) => Frame(k)
<1>1. SeqInv' /\ Queued' = Queued \cup os /\ Fetched' = Fetched
  BY SeqWith DEF QueueInv
<1>2. ObjectsInv' /\ OneByOneInv'
  BY DEF QueueInv, ObjectsInv, OneByOneInv, Server
<1>3. SilentInv'
  BY <1>1, KnownSame DEF QueueInv, SilentInv
<1>4. ASSUME NEW k \in Kinds, \A o \in os : o[1] # k PROVE Frame(k)
  <2>1. \A i : <<k, i>> \notin os
    BY <1>4
  <2> QED BY <1>1, <2>1 DEF Frame
<1> QED BY <1>1, <1>2, <1>3, <1>4 DEF QueueInv

\* A new object of each of the kinds ks, which the user handles next when its kind is at'; ls
\* are attached, and os have something to tell already.
LEMMA NewEventsQ ==
  ASSUME QueueInv, NEW ks \in SUBSET Kinds, New(ks), \A k \in AtFirst : k \notin ks,
         NEW ls \in SUBSET Objects, live' = live \cup ls, \A o \in ls : o[1] \in ks, ls \subseteq Known',
         NEW os \in SUBSET Objects, \A o \in os : o[1] \in ks, (ready' = ready /\ os = {}) \/ ready' = ReadyWith(os),
         at' \in {at} \cup ks, ~Server \/ at' = at \/ batch = <<>>, UNCHANGED <<sys, held, full, batch, uses>>
  PROVE  /\ QueueInv' /\ Queued' = Queued \cup os /\ Fetched' = Fetched
         /\ \A k \in ks : cur[k] = 0 /\ cur'[k] = made[k] + 1 /\ made'[k] = made[k] + 1 /\ cur'[k] # 0
         /\ \A k \in Kinds \ ks : at = "loop" \/ at' = at \/ at # k => Frame(k)
         /\ \A k \in Kinds \ ks : cur'[k] = cur[k]
<1>1. SeqInv' /\ Queued' = Queued \cup os /\ Fetched' = Fetched
  <2>1. CASE ready' = ready /\ os = {}
    BY <2>1, SeqSame DEF QueueInv
  <2>2. CASE ready' = ReadyWith(os)
    BY <2>2, SeqWith DEF QueueInv
  <2> QED BY <2>1, <2>2
<1>2. /\ made \in [Kinds -> 0..MaxMade] /\ cur \in [Kinds -> 0..MaxMade] /\ MaxMade \in Nat
      /\ made' = [k \in Kinds |-> IF k \in ks THEN made[k] + 1 ELSE made[k]]
      /\ cur' = [k \in Kinds |-> IF k \in ks THEN made'[k] ELSE cur[k]]
      /\ \A k \in ks : cur[k] = 0 /\ made[k] < MaxMade
  BY QueueAssumption DEF QueueInv, ObjectsInv, New
<1>3. /\ made' \in [Kinds -> 0..MaxMade] /\ cur' \in [Kinds -> 0..MaxMade]
      /\ \A k \in ks : made'[k] = made[k] + 1 /\ cur'[k] = made[k] + 1 /\ cur'[k] # 0 /\ made'[k] \in 1..MaxMade
      /\ \A k \in Kinds \ ks : made'[k] = made[k] /\ cur'[k] = cur[k]
  <2>1. \A k \in ks : made[k] + 1 \in 1..MaxMade
    BY <1>2
  <2>2. made' \in [Kinds -> 0..MaxMade] /\ \A k \in ks : made'[k] = made[k] + 1
    BY <1>2, <2>1
  <2>3. cur' \in [Kinds -> 0..MaxMade] /\ \A k \in ks : cur'[k] = made'[k]
    BY <1>2, <2>2
  <2> QED BY <1>2, <2>1, <2>2, <2>3
<1>4. live' \subseteq Objects
  BY DEF QueueInv, ObjectsInv
<1>5. \A k \in Kinds : cur'[k] \in {0, made'[k]}
  BY <1>3 DEF QueueInv, ObjectsInv
<1>6. at' \in Kinds \cup {"loop"} /\ (at' # "loop" => cur'[at'] # 0)
  BY <1>2, <1>3 DEF QueueInv, ObjectsInv
<1>7. \A k \in AtFirst : cur'[k] = 1
  BY <1>3, KindFacts DEF QueueInv, ObjectsInv, AtFirst, OwnKinds
<1>8. ObjectsInv'
  BY <1>3, <1>4, <1>5, <1>6, <1>7 DEF QueueInv, ObjectsInv
<1>9. OneByOneInv'
  BY DEF QueueInv, OneByOneInv, Server
<1>10. SilentInv'
  <2>1. Known \subseteq Known'
    <3>1. \A k \in Kinds : cur[k] # 0 => cur'[k] = cur[k]
      BY <1>2, <1>3
    <3> QED BY <3>1, KnownGrows
  <2> QED BY <1>1, <2>1 DEF QueueInv, SilentInv
<1>11. ASSUME NEW k \in Kinds \ ks, at = "loop" \/ at' = at \/ at # k PROVE Frame(k)
  <2>1. at' = k <=> at = k
    BY <1>11, KindFacts
  <2>2. \A i : <<k, i>> \notin ls /\ <<k, i>> \notin os
    OBVIOUS
  <2> QED BY <1>1, <1>3, <2>1, <2>2 DEF Frame
<1> QED BY <1>1, <1>2, <1>3, <1>8, <1>9, <1>10, <1>11 DEF QueueInv

\* The same, when the new objects of the kinds hs are attached.
LEMMA NewQ ==
  ASSUME QueueInv, NEW ks \in SUBSET Kinds, NEW hs \in SUBSET ks, New(ks),
         live' = live \cup {<<k, made'[k]>> : k \in hs}, \A k \in AtFirst : k \notin ks,
         NEW os \in SUBSET Objects, \A o \in os : o[1] \in ks, (ready' = ready /\ os = {}) \/ ready' = ReadyWith(os),
         at' \in {at} \cup ks, ~Server \/ at' = at, UNCHANGED <<sys, held, full, batch, uses>>
  PROVE  /\ QueueInv' /\ Queued' = Queued \cup os /\ Fetched' = Fetched
         /\ \A k \in ks : cur[k] = 0 /\ cur'[k] = made[k] + 1 /\ made'[k] = made[k] + 1 /\ cur'[k] # 0
         /\ \A k \in Kinds \ ks : at = "loop" \/ at' = at => Frame(k)
         /\ \A k \in Kinds \ ks : cur'[k] = cur[k]
<1> DEFINE ls == {<<k, made'[k]>> : k \in hs}
<1>1. \A k \in ks : made'[k] \in 1..MaxMade /\ cur'[k] = made'[k]
  <2>1. /\ made \in [Kinds -> 0..MaxMade] /\ MaxMade \in Nat
        /\ made' = [k \in Kinds |-> IF k \in ks THEN made[k] + 1 ELSE made[k]]
        /\ cur' = [k \in Kinds |-> IF k \in ks THEN made'[k] ELSE cur[k]]
        /\ \A k \in ks : made[k] < MaxMade
    BY QueueAssumption DEF QueueInv, ObjectsInv, New
  <2> QED BY <2>1
<1>2. ls \in SUBSET Objects /\ \A o \in ls : o[1] \in ks
  BY <1>1, ObjectFacts
<1>3. ls \subseteq Known'
  <2>1. \A k \in hs : <<k, made'[k]>> \in Opened'
    BY <1>1 DEF Opened, Handle
  <2> QED BY <2>1 DEF Known
<1> HIDE DEF ls
<1>4. live' = live \cup ls
  BY DEF ls
<1> QED BY <1>2, <1>3, <1>4, NewEventsQ, ZenonT(60)

LEMMA DropSets ==
  ASSUME QueueInv, NEW os, Drop(os), sys # "windows", sys' = sys, batch' = batch
  PROVE  /\ SeqInv' /\ Queued' = Queued \ Dropped(os) /\ Fetched' = Fetched
         /\ live' = live \ Dropped(os) /\ full' = full \ Dropped(os)
<1>1. ready' = ReadyOnly(Objects \ Dropped(os)) /\ live' = live \ Dropped(os) /\ full' = full \ Dropped(os)
  BY DEF Drop
<1>2. SeqInv' /\ Queued' = Queued \cap (Objects \ Dropped(os)) /\ Fetched' = Fetched
  BY <1>1, SeqOnly DEF QueueInv
<1>3. Queued \subseteq Objects
  BY DEF QueueInv, SeqInv, Queued, ToSet
<1> QED BY <1>1, <1>2, <1>3

\* The user gives objects up that the system has forgotten, or a child process has.
LEMMA CloseQ ==
  ASSUME QueueInv, NEW ks \in SUBSET (Kinds \ (Peers \cup AtFirst)), at = "loop", Forget(ks),
         UNCHANGED <<sys, made, held, batch, at, uses>>, SeqInv', live' \subseteq live, full' \subseteq full,
         sys # "windows" => \A k \in ks : Handle(k) \in live' \cup full' => Handle(k) \in held,
         sys = "bsd" => full' \subseteq Queued'
  PROVE  /\ QueueInv' /\ Fetched' = Fetched /\ \A k \in ks : cur'[k] = 0
         /\ \A k \in Kinds \ ks : cur'[k] = cur[k]
<1>1. Fetched' = Fetched
  BY DEF Fetched
<1>2. /\ cur \in [Kinds -> 0..MaxMade] /\ MaxMade \in Nat
      /\ cur' = [k \in Kinds |-> IF k \in ks THEN 0 ELSE cur[k]]
      /\ \A k \in ks : Handle(k) \notin Fetched
  BY QueueAssumption DEF QueueInv, ObjectsInv, Forget, Fetched
<1>3. cur' \in [Kinds -> 0..MaxMade] /\ (\A k \in ks : cur'[k] = 0) /\ \A k \in Kinds \ ks : cur'[k] = cur[k]
  BY <1>2
<1>4. \A k \in AtFirst : cur'[k] = 1
  BY <1>3, KindFacts DEF QueueInv, ObjectsInv, AtFirst, OwnKinds
<1>5. ObjectsInv'
  BY <1>3, <1>4 DEF QueueInv, ObjectsInv
<1>6. OneByOneInv'
  BY DEF QueueInv, OneByOneInv, Server
<1>7. ASSUME NEW o \in Known, sys # "windows" PROVE o \in Known' \/ \E k \in ks : o = Handle(k) /\ o \notin held
  <2>1. CASE o \in held
    BY <2>1 DEF Known
  <2>2. CASE o \notin held /\ o \in Opened
    <3>1. PICK k \in Kinds : cur[k] # 0 /\ o = Handle(k)
      BY <2>2 DEF Opened
    <3>2. CASE k \notin ks
      <4>1. cur'[k] # 0 /\ Handle(k)' = Handle(k)
        BY <1>3, <3>1, <3>2 DEF Handle
      <4>2. o \in Opened'
        BY <3>1, <4>1 DEF Opened
      <4> QED BY <4>2 DEF Known
    <3> QED BY <2>2, <3>1, <3>2
  <2>3. CASE \E p \in Conns : o \in Notes(p)
    <3>1. PICK p \in Conns : o \in Notes(p)
      BY <2>3
    <3>2. p \in Conns' /\ Notes(p)' = Notes(p)
      BY <1>3, KindFacts DEF Conns, Notes, ReadNote, WriteNote
    <3> QED BY <3>1, <3>2 DEF Known
  <2> QED BY <2>1, <2>2, <2>3 DEF Known
<1>8. SilentInv'
  <2>1. ASSUME sys # "windows", NEW o \in live' \cup full' \cup Fetched' PROVE o \in Known'
    <3>1. o \in Known
      BY <1>1, <2>1 DEF QueueInv, SilentInv
    <3>2. ASSUME NEW k \in ks, o = Handle(k) PROVE o \in held
      BY <1>1, <1>2, <2>1, <3>2
    <3> QED BY <1>7, <2>1, <3>1, <3>2
  <2> QED BY <2>1 DEF SilentInv
<1> QED BY <1>1, <1>3, <1>5, <1>6, <1>8 DEF QueueInv

\* UNIX: they are closed.
LEMMA ForgetQ ==
  ASSUME QueueInv, NEW ks \in SUBSET (Kinds \ (Peers \cup AtFirst)), at = "loop", Forget(ks),
         sys # "windows", Drop({Handle(k) : k \in ks}), UNCHANGED <<sys, made, held, batch, at, uses>>
  PROVE  /\ QueueInv' /\ \A k \in ks : cur'[k] = 0
         /\ live' \subseteq live /\ full' \subseteq full /\ Fetched' = Fetched /\ Queued' \subseteq Queued
         /\ \A k \in Kinds \ ks : Frame(k)
<1> DEFINE os == {Handle(k) : k \in ks}
<1>1. /\ SeqInv' /\ Queued' = Queued \ Dropped(os) /\ Fetched' = Fetched
      /\ live' = live \ Dropped(os) /\ full' = full \ Dropped(os)
  BY DropSets
<1>2. \A k \in ks : Handle(k) \in Dropped(os) \/ Handle(k) \in held
  BY DEF Dropped
<1>3. \A k \in Kinds \ ks : \A i : <<k, i>> \notin Dropped(os)
  BY DEF Dropped, Handle
<1> HIDE DEF os
<1>4. sys = "bsd" => full' \subseteq Queued'
  BY <1>1 DEF QueueInv, SilentInv
<1>5. QueueInv' /\ (\A k \in ks : cur'[k] = 0) /\ \A k \in Kinds \ ks : cur'[k] = cur[k]
  BY <1>1, <1>2, <1>4, CloseQ
<1>6. \A k \in Kinds \ ks : Frame(k)
  BY <1>1, <1>3, <1>5 DEF Frame
<1> QED BY <1>1, <1>5, <1>6

\* Windows, or nothing is attached: only the handles go, and the packets of os come.
LEMMA ForgetOnlyQ ==
  ASSUME QueueInv, NEW ks \in SUBSET (Kinds \ (Peers \cup AtFirst)), at = "loop", Forget(ks),
         sys # "windows" => \A k \in ks : Handle(k) \notin live \cup full,
         UNCHANGED <<sys, made, held, batch, at, uses, live, full>>,
         NEW os \in SUBSET Objects, \A o \in os : o[1] \in ks, (ready' = ready /\ os = {}) \/ ready' = ReadyWith(os)
  PROVE  /\ QueueInv' /\ (\A k \in ks : cur'[k] = 0) /\ Fetched' = Fetched /\ Queued' = Queued \cup os
         /\ \A k \in Kinds \ ks : Frame(k)
<1>1. SeqInv' /\ Queued' = Queued \cup os /\ Fetched' = Fetched
  <2>1. CASE ready' = ready /\ os = {}
    BY <2>1, SeqSame DEF QueueInv
  <2>2. CASE ready' = ReadyWith(os)
    BY <2>2, SeqWith DEF QueueInv
  <2> QED BY <2>1, <2>2
<1>2. sys = "bsd" => full' \subseteq Queued'
  BY <1>1 DEF QueueInv, SilentInv
<1>3. QueueInv' /\ (\A k \in ks : cur'[k] = 0) /\ \A k \in Kinds \ ks : cur'[k] = cur[k]
  BY <1>1, <1>2, CloseQ
<1>4. ASSUME NEW k \in Kinds \ ks PROVE Frame(k)
  <2>1. \A i : <<k, i>> \notin os
    OBVIOUS
  <2> QED BY <1>1, <1>3, <2>1 DEF Frame
<1> QED BY <1>1, <1>3, <1>4

\* fork() and exec()
LEMMA ExecQ ==
  ASSUME QueueInv, Exec, ~Server, uses' = uses
  PROVE  QueueInv' /\ \A k \in Kinds : Frame(k)
<1>1. UNCHANGED <<sys, made, cur, live, full, ready, batch, at>> /\ held' = held \cup Opened /\ sys = "linux"
  BY DEF Exec
<1>2. SeqInv' /\ Queued' = Queued /\ Fetched' = Fetched
  BY <1>1, SeqSame DEF QueueInv
<1>3. Opened \subseteq Objects
  BY HandleFacts DEF Opened, QueueInv
<1>4. ObjectsInv' /\ OneByOneInv'
  BY <1>1, <1>3 DEF QueueInv, ObjectsInv, OneByOneInv, Server
<1>5. SilentInv'
  <2>1. Known \subseteq Known'
    BY <1>1, KnownGrows
  <2> QED BY <1>1, <1>2, <2>1 DEF QueueInv, SilentInv
<1> QED BY <1>1, <1>2, <1>4, <1>5 DEF QueueInv, Frame

-----------------------------------------------------------------------------
(* A component is not concerned with the steps of another. *)

LEMMA ComingFrame ==
  ASSUME NEW k, Frame(k)
  PROVE  /\ Handle(k)' = Handle(k) /\ (at' = k <=> at = k) /\ (Coming(k)' <=> Coming(k))
         /\ Handle(k)' \in live' <=> Handle(k) \in live
         /\ Handle(k)' \in full' <=> Handle(k) \in full
         /\ Handle(k)' \in Queued' <=> Handle(k) \in Queued
         /\ Handle(k)' \in Fetched' <=> Handle(k) \in Fetched
<1>1. Handle(k)' = <<k, cur[k]>> /\ Handle(k) = <<k, cur[k]>> /\ (at' = k <=> at = k)
  BY DEF Frame, Handle
<1>2. Coming(k) <=> at = k \/ Handle(k) \in Queued \/ Handle(k) \in Fetched
  BY DEF Coming, Queued, Fetched
<1>3. Coming(k)' <=> at' = k \/ Handle(k)' \in Queued' \/ Handle(k)' \in Fetched'
  BY DEF Coming, Queued, Fetched
<1> QED BY <1>1, <1>2, <1>3 DEF Frame

LEMMA PostFrame ==
  ASSUME PostInv, Frame("post"), UNCHANGED postVars, sys' = sys
  PROVE  PostInv'
<1>1. cur'["post"] = cur["post"] /\ posts' = posts /\ posted' = posted
  BY DEF Frame, postVars
<1> QED BY <1>1, ComingFrame DEF PostInv, PostTypeOK

LEMMA TimerFrame ==
  ASSUME TimerInv, Frame("timer"), UNCHANGED timerVars, sys' = sys
  PROVE  TimerInv'
<1>1. UNCHANGED <<armed, byte, expired>> /\ made'["timer"] = made["timer"]
  BY DEF timerVars, Frame
<1>2. /\ Timer' \in live' <=> Timer \in live
      /\ Timer' \in full' <=> Timer \in full
      /\ Timer' \in Queued' <=> Timer \in Queued
      /\ Timer' \in Fetched' <=> Timer \in Fetched
      /\ at' = "timer" <=> at = "timer"
  BY ComingFrame DEF Timer
<1>3. TimerTypeOK' /\ (sys' = "windows" => made'["timer"] = 0)
  BY <1>1 DEF TimerInv, TimerTypeOK
<1>4. /\ \A g \in 1..MaxMade : <<"timer", g>> \in live' \cup full' \cup Queued' \cup Fetched' => g <= made'["timer"]
      /\ \A g \in 1..MaxMade : <<"timer", g>> \in full' => <<"timer", g>> \in live'
  BY <1>1 DEF TimerInv, Frame
<1> QED BY <1>1, <1>2, <1>3, <1>4 DEF TimerInv

LEMMA SignalFrame ==
  ASSUME SignalInv, \A k \in Sigs \cup {"signalfd"} : Frame(k), UNCHANGED signalVars, sys' = sys
  PROVE  SignalInv'
<1>1. /\ UNCHANGED <<pending, raised, sent, ident>> /\ SignalKinds' = SignalKinds
      /\ SignalKinds \subseteq Sigs \cup {"signalfd"} /\ SignalTypeOK' /\ raised \subseteq Sigs
  BY DEF signalVars, SignalKinds, SignalInv, SignalTypeOK
<1>2. \A k \in Sigs \cup {"signalfd"} :
        /\ cur'[k] = cur[k] /\ (at' = k <=> at = k) /\ (Coming(k)' <=> Coming(k))
        /\ Handle(k)' \in live' <=> Handle(k) \in live
        /\ Handle(k)' \in full' <=> Handle(k) \in full
        /\ Handle(k)' \in Queued' <=> Handle(k) \in Queued
        /\ Handle(k)' \in Fetched' <=> Handle(k) \in Fetched
  <2>1. \A k \in Sigs \cup {"signalfd"} : cur'[k] = cur[k]
    BY DEF Frame
  <2> QED BY <2>1, ComingFrame
<1>3. Attached' <=> Attached
  BY <1>1, <1>2 DEF Attached
<1>4. at' \in Sigs <=> at \in Sigs
  BY <1>2
<1>5. \A k \in SignalKinds' : cur'[k] # 0 => Handle(k)' \in live'
  BY <1>1, <1>2 DEF SignalInv
<1>6. sys' = "linux" => raised' \subseteq pending' /\ (pending' # {} /\ cur'["signalfd"] # 0 => Coming("signalfd")')
  BY <1>1, <1>2 DEF SignalInv
<1>7. sys' = "bsd" => \A s \in raised' :
        (at' = s /\ ~ident') \/ Handle(s)' \in Fetched' \/ (Handle(s)' \in Queued' /\ Handle(s)' \in full')
  BY <1>1, <1>2 DEF SignalInv
<1> QED BY <1>1, <1>2, <1>3, <1>4, <1>5, <1>6, <1>7 DEF SignalInv

LEMMA PipeFrame ==
  ASSUME PipeInv, Frame("pipe"), UNCHANGED pipeVars, sys' = sys
  PROVE  PipeInv'
<1>1. UNCHANGED <<client, inst, op, active, named>> /\ Waiting' = Waiting /\ cur'["pipe"] = cur["pipe"]
  BY DEF pipeVars, Waiting, Frame
<1>2. /\ Pipe' \in Queued' <=> Pipe \in Queued
      /\ Pipe' \in Fetched' <=> Pipe \in Fetched
      /\ at' = "pipe" <=> at = "pipe"
      /\ Coming("pipe")' <=> Coming("pipe")
  BY ComingFrame DEF Pipe
<1> QED BY <1>1, <1>2 DEF PipeInv, PipeTypeOK

LEMMA KeyFrame ==
  ASSUME KeyInv, Frame("stdin"), UNCHANGED keyVars
  PROVE  KeyInv'
BY ComingFrame DEF KeyInv, keyVars

LEMMA UdpFrame ==
  ASSUME UdpInv, Frame("udp"), UNCHANGED udpVars, sys' = sys, uses' = uses
  PROVE  UdpInv'
<1>1. UNCHANGED <<arrived, queue, soError, io, buf, wait, heard>> /\ (DatagramsAreKept' <=> DatagramsAreKept)
  BY DEF udpVars, DatagramsAreKept
<1>2. /\ Udp' \in Queued' <=> Udp \in Queued
      /\ Udp' \in Fetched' <=> Udp \in Fetched
      /\ at' = "udp" <=> at = "udp"
      /\ Coming("udp")' <=> Coming("udp")
  BY ComingFrame DEF Udp
<1> QED BY <1>1, <1>2 DEF UdpInv

LEMMA ServerFrame ==
  ASSUME ServerInv, \A p \in Peers : Frame(p), UNCHANGED serverVars, sys' = sys, uses' = uses
  PROVE  ServerInv'
<1>1. UNCHANGED <<app, up, backlog, peer, given, unread, unsent, conns>> /\ (Server' <=> Server)
  BY DEF serverVars, Server
<1>2. Conns' = Conns /\ Conns \subseteq Peers
  BY DEF Conns, Frame
<1>3. /\ \A p : Notes(p)' = Notes(p) /\ ReadNote(p)' = ReadNote(p) /\ (Readable(p)' <=> Readable(p))
      /\ \A p, o : o \in Notes(p) => o = <<p, 1>> \/ o = <<p, 2>>
      /\ \A p : ReadNote(p) = <<p, 1>>
  BY <1>1 DEF Notes, ReadNote, WriteNote, Readable
<1>4. \A p \in Peers : /\ Notes(p) \subseteq live => Notes(p) \subseteq live'
                       /\ Notes(p) \cap Fetched # {} => Notes(p) \cap Fetched' # {}
                       /\ ReadNote(p) \in Queued => ReadNote(p) \in Queued'
                       /\ at = p => at' = p
  BY <1>3 DEF Frame
<1>5. ConnsAreOpen' <=> ConnsAreOpen
  BY <1>1, <1>2 DEF ConnsAreOpen
<1>6. \A p \in Conns' : Notes(p)' \subseteq live'
  BY <1>2, <1>3, <1>4 DEF ServerInv
<1>7. up' => \A p \in Conns' : Readable(p)' => at' = p \/ ReadNote(p)' \in Queued' \/ Notes(p)' \cap Fetched' # {}
  BY <1>1, <1>2, <1>3, <1>4 DEF ServerInv
<1>8. \A p \in Peers, i \in 1..MaxMade :
        <<p, i>> \in live' \cup full' \cup Queued' \cup Fetched' => <<p, i>> \in Notes(p)'
  BY <1>3 DEF ServerInv, Frame
<1> QED BY <1>1, <1>2, <1>5, <1>6, <1>7, <1>8 DEF ServerInv

-----------------------------------------------------------------------------
(* The user waits, and looks at the next event. *)

WaitFacts ==
  /\ at = "loop" /\ Fetched = {} /\ UNCHANGED <<sys, made, cur, held, at>>
  /\ \A o : o \in Queued' \/ o \in Fetched' <=> o \in Queued /\ (sys # "windows" => o \in Pollable)
  /\ full' = IF sys = "bsd" THEN full \ Fetched' ELSE full
  /\ live' = IF sys = "bsd" THEN live \ (Fetched' \cap TimerDone) ELSE live

TakeFacts ==
  /\ at = "loop" /\ UNCHANGED <<sys, made, cur, live, held, full>>
  /\ Queued' = Queued /\ Fetched' \subseteq Fetched
  /\ \A k \in Kinds : cur[k] # 0 /\ Handle(k) \in Fetched => at' = k \/ Handle(k) \in Fetched'
  /\ at' # "loop" => at' \in Kinds /\ cur[at'] # 0
  /\ at' \in Kinds \ Peers => Handle(at') \in Fetched /\ (sys # "windows" => Handle(at') \notin Fetched')
  /\ Server => \A p \in Peers : Notes(p) \cap Fetched # {} => at' = p \/ Notes(p) \cap Fetched' # {}

Cap == IF Server THEN ServerCap ELSE EventsCap
UserKnows == IF Server THEN Objects ELSE Opened

\* What the system may find belongs to someone who wants to know.
LEMMA PollableKnown ==
  ASSUME QueueInv, PipeInv, sys # "windows"
  PROVE  Pollable \subseteq Known
<1>1. ObjectsInv /\ live \cup full \subseteq Known
  BY DEF QueueInv, SilentInv
<1>2. \A k \in Kinds : cur[k] # 0 => Handle(k) \in Known
  BY DEF Known, Opened
<1>3. Waiting # {} => Pipe \in Known
  BY <1>2, KindFacts DEF PipeInv, Pipe, OwnKinds
<1>4. SignalFds \subseteq Known
  BY <1>1 DEF SignalFds
<1>5. Stdin \in Known /\ Udp \in Known /\ Listener \in Known
  <2>1. cur["stdin"] = 1 /\ cur["udp"] = 1 /\ cur["listen"] = 1
    BY <1>1 DEF ObjectsInv, AtFirst
  <2>2. Listener = Handle("listen")
    BY <2>1 DEF Listener, Handle
  <2> QED BY <1>2, <2>1, <2>2, KindFacts DEF Stdin, Udp, OwnKinds
<1>6. ServerPollable \subseteq Known
  <2>1. \A p \in Conns : Polled(p) \subseteq Notes(p)
    BY DEF Polled, Notes
  <2>2. ASSUME NEW o \in ServerPollable PROVE o = Listener \/ \E p \in Conns : o \in Polled(p)
    BY DEF ServerPollable
  <2>3. ASSUME NEW p \in Conns, NEW o \in Polled(p) PROVE o \in Known
    BY <2>1 DEF Known
  <2> QED BY <1>5, <2>2, <2>3
<1> QED BY <1>1, <1>3, <1>4, <1>5, <1>6 DEF Pollable

LEMMA WaitQ ==
  ASSUME QueueInv, PipeInv, Wait(Pollable, TimerDone, Cap), uses' = uses
  PROVE  QueueInv' /\ WaitFacts
<1>1. Cap \in Nat /\ Cap <= EventsCap /\ (Server => Cap = 1)
  BY QueueAssumption DEF Cap, ServerCap
<1>2. SeqInv
  BY DEF QueueInv
<1>3. /\ SeqInv' /\ Len(batch') <= Cap /\ Fetched = {}
      /\ Queued' \cup Fetched' = IF sys = "windows" THEN Queued ELSE Queued \cap Pollable
  BY <1>1, <1>2, SeqWait
<1>4. /\ at = "loop" /\ UNCHANGED <<sys, made, cur, held, at>>
      /\ full' = IF sys = "bsd" THEN full \ Fetched' ELSE full
      /\ live' = IF sys = "bsd" THEN live \ (Fetched' \cap TimerDone) ELSE live
  BY DEF Wait, Fetched
<1>5. WaitFacts
  BY <1>3, <1>4 DEF WaitFacts
<1>6. ObjectsInv'
  BY <1>4 DEF QueueInv, ObjectsInv
<1>7. OneByOneInv'
  BY <1>1, <1>3, <1>4 DEF QueueInv, OneByOneInv, Server
<1>8. SilentInv'
  <2>1. sys # "windows" => live' \cup full' \cup Fetched' \subseteq Known
    BY <1>3, <1>4, PollableKnown DEF QueueInv, SilentInv
  <2>2. sys = "bsd" => full' \subseteq Queued'
    <3>1. full \subseteq Pollable
      BY DEF Pollable
    <3> QED BY <1>3, <1>4, <3>1 DEF QueueInv, SilentInv
  <2> QED BY <1>4, <2>1, <2>2, KnownSame DEF SilentInv
<1> QED BY <1>3, <1>5, <1>6, <1>7, <1>8 DEF QueueInv

LEMMA TakeQ ==
  ASSUME QueueInv, Take(UserKnows), uses' = uses
  PROVE  QueueInv' /\ TakeFacts
<1> DEFINE o == Head(batch)
<1>1. SeqInv /\ ObjectsInv
  BY DEF QueueInv
<1>2. /\ SeqInv' /\ Queued' = Queued /\ Len(batch') = Len(batch) - 1 /\ Len(batch) \in Nat
      /\ o \in Objects /\ Fetched = {o} \cup Fetched' /\ (sys # "windows" => o \notin Fetched')
  BY <1>1, SeqTake
<1>3. /\ at = "loop" /\ UNCHANGED <<sys, made, cur, live, held, full>>
      /\ at' = IF o \in UserKnows THEN o[1] ELSE "loop"
  BY DEF Take
<1> HIDE DEF o
<1>4. Opened \subseteq UserKnows
  BY <1>1, HandleFacts DEF UserKnows, Opened
<1>5. ASSUME NEW k \in Kinds, cur[k] # 0, Handle(k) \in Fetched PROVE at' = k \/ Handle(k) \in Fetched'
  <2>1. ASSUME o = Handle(k) PROVE at' = k
    <3>1. o \in UserKnows /\ o[1] = k
      BY <1>4, <1>5, <2>1 DEF Opened, Handle
    <3> QED BY <1>3, <3>1
  <2> QED BY <1>2, <1>5, <2>1
<1>6. ASSUME at' # "loop"
      PROVE  \/ at' \in Kinds /\ cur[at'] # 0 /\ o = Handle(at')
             \/ at' \in Peers /\ cur[at'] # 0
  <2>1. o \in UserKnows /\ at' = o[1]
    BY <1>3, <1>6
  <2>2. o \in Opened \/ \E p \in Conns : o \in Notes(p)
    <3>1. CASE Server
      BY <1>2, <3>1 DEF QueueInv, OneByOneInv, SilentInv, Known
    <3>2. CASE ~Server
      BY <2>1, <3>2 DEF UserKnows
    <3> QED BY <3>1, <3>2
  <2>3. CASE o \in Opened
    BY <2>1, <2>3 DEF Opened, Handle
  <2>4. ASSUME NEW p \in Conns, o \in Notes(p) PROVE at' \in Peers /\ cur[at'] # 0
    BY <2>1, <2>4 DEF Conns, Notes, ReadNote, WriteNote
  <2> QED BY <2>2, <2>3, <2>4
<1>7. ASSUME Server, NEW p \in Peers, Notes(p) \cap Fetched # {}
      PROVE  at' = p \/ Notes(p) \cap Fetched' # {}
  <2>1. ASSUME o \in Notes(p) PROVE at' = p
    <3>1. o[1] = p
      BY <2>1 DEF Notes, ReadNote, WriteNote
    <3> QED BY <1>2, <1>3, <1>7, <3>1 DEF UserKnows
  <2> QED BY <1>2, <1>7, <2>1
<1>8. TakeFacts
  <2>1. at' # "loop" => at' \in Kinds /\ cur[at'] # 0
    BY <1>6, KindFacts
  <2>2. at' \in Kinds \ Peers => Handle(at') \in Fetched /\ (sys # "windows" => Handle(at') \notin Fetched')
    BY <1>2, <1>6, KindFacts
  <2> QED BY <1>2, <1>3, <1>5, <1>7, <2>1, <2>2 DEF TakeFacts
<1>9. ObjectsInv'
  BY <1>1, <1>3, <1>8 DEF ObjectsInv, TakeFacts
<1>10. OneByOneInv'
  <2>1. ASSUME Server PROVE Len(batch') <= 1 /\ batch' = <<>>
    <3>1. Len(batch) <= 1 /\ batch' \in Seq(Objects)
      BY <1>2, <2>1 DEF QueueInv, OneByOneInv, SeqInv
    <3>2. Len(batch') \in Nat
      BY <3>1, LenProperties
    <3>3. Len(batch') = 0
      BY <1>2, <3>1, <3>2
    <3>4. batch' = <<>>
      BY <3>1, <3>3, EmptySeq
    <3> QED BY <3>3, <3>4
  <2> QED BY <1>3, <2>1 DEF QueueInv, OneByOneInv, Server
<1>11. SilentInv'
  BY <1>2, <1>3, KnownSame DEF QueueInv, SilentInv
<1> QED BY <1>2, <1>8, <1>9, <1>10, <1>11 DEF QueueInv

LEMMA PollMember ==
  /\ full \subseteq Pollable /\ ServerPollable \subseteq Pollable
  /\ Waiting # {} => Pipe \in Pollable
  /\ pending # {} => SignalFds \subseteq Pollable
  /\ tty # <<>> => Stdin \in Pollable
  /\ queue # <<>> \/ soError = "refused" => Udp \in Pollable
BY DEF Pollable

\* A timer is found only if it has expired.
LEMMA PollTimer ==
  ASSUME NEW g, <<"timer", g>> \in Pollable
  PROVE  <<"timer", g>> \in full
<1>1. \A p \in Peers : p # "timer"
  BY KindFacts DEF OwnKinds
<1>2. ASSUME NEW p \in Conns, <<"timer", g>> \in Polled(p) PROVE FALSE
  BY <1>1, <1>2 DEF Conns, Polled, ReadNote, WriteNote
<1>3. <<"timer", g>> \notin ServerPollable
  BY <1>2 DEF ServerPollable, Listener
<1> QED BY <1>3 DEF Pollable, Pipe, SignalFds, Stdin, Udp, Handle

\* Before and after a wait.
LEMMA ComingWait ==
  ASSUME WaitFacts, NEW k \in Kinds, Coming(k), sys # "windows" => Handle(k) \in Pollable
  PROVE  Coming(k)'
<1>1. Handle(k) \in Queued
  BY KindFacts DEF Coming, WaitFacts, Queued, Fetched
<1>2. Handle(k)' = Handle(k)
  BY DEF WaitFacts, Handle
<1>3. Handle(k) \in Queued' \/ Handle(k) \in Fetched'
  BY <1>1 DEF WaitFacts
<1> QED BY <1>2, <1>3 DEF Coming, Queued, Fetched

LEMMA ComingTake ==
  ASSUME TakeFacts, NEW k \in Kinds, cur[k] # 0, Coming(k)
  PROVE  Coming(k)'
<1>1. Handle(k) \in Queued \/ Handle(k) \in Fetched
  BY KindFacts DEF Coming, TakeFacts, Queued, Fetched
<1>2. Handle(k)' = Handle(k)
  BY DEF TakeFacts, Handle
<1>3. at' = k \/ Handle(k) \in Queued' \/ Handle(k) \in Fetched'
  BY <1>1 DEF TakeFacts
<1> QED BY <1>2, <1>3 DEF Coming, Queued, Fetched

LEMMA PostQueue ==
  ASSUME PostInv, UNCHANGED postVars, WaitFacts \/ TakeFacts
  PROVE  PostInv'
<1> DEFINE h == Handle("post")
<1>1. posts' = posts /\ posted' = posted /\ sys' = sys /\ cur' = cur /\ Handle("post")' = h /\ at = "loop"
  BY DEF postVars, WaitFacts, TakeFacts, Handle
<1>2. PostTypeOK' /\ "post" \in Kinds /\ "post" # "loop"
  BY <1>1, KindFacts DEF PostInv, PostTypeOK, OwnKinds
<1> HIDE DEF h
<1>3. SUFFICES ASSUME posted
               PROVE  at' = "post" \/ h \in Fetched' \/ (h \in Queued' /\ (sys # "windows" => h \in full'))
  BY <1>1, <1>2 DEF PostInv
<1>4. cur["post"] # 0 /\ (h \in Fetched \/ (h \in Queued /\ (sys # "windows" => h \in full)))
  BY <1>1, <1>2, <1>3 DEF PostInv, h
<1>5. CASE WaitFacts
  BY <1>4, <1>5, PollMember DEF WaitFacts
<1>6. CASE TakeFacts
  BY <1>2, <1>4, <1>6 DEF TakeFacts, h
<1> QED BY <1>5, <1>6

LEMMA TimerWait ==
  ASSUME QueueInv, TimerInv, UNCHANGED timerVars, WaitFacts
  PROVE  TimerInv'
<1>1. UNCHANGED <<armed, byte, expired, sys, cur, made, at>> /\ Timer' = Timer /\ at = "loop" /\ Fetched = {}
  BY DEF timerVars, WaitFacts, Timer, Handle
<1>2. \A o : o \in live' \/ o \in full' \/ o \in Queued' \/ o \in Fetched' => o \in live \cup full \cup Queued
  BY DEF WaitFacts
<1>3. \A g : sys # "windows" /\ <<"timer", g>> \in Fetched' => <<"timer", g>> \in full
  BY PollTimer DEF WaitFacts
<1>4. \A g \in 1..MaxMade : <<"timer", g>> \in live' \cup full' \cup Queued' \cup Fetched' => g <= made'["timer"]
  BY <1>1, <1>2 DEF TimerInv
<1>5. \A g \in 1..MaxMade : <<"timer", g>> \in full' => <<"timer", g>> \in live'
  BY DEF TimerInv, WaitFacts
<1>6. Timer' \in Fetched' \/ Timer' \in full' => expired'
  <2>1. CASE sys = "windows"
    <3>1. cur["timer"] = 0 /\ ObjectsInv
      BY <2>1, KindFacts DEF TimerInv, QueueInv, ObjectsInv, OwnKinds
    <3>2. Timer \notin Objects
      BY <3>1, HandleFacts, KindFacts DEF Timer, OwnKinds
    <3>3. \A o : o \in full' \/ o \in Fetched' => o \in Objects
      <4>1. \A o \in Queued : o \in Objects
        BY DEF QueueInv, SeqInv, Queued, ToSet
      <4>2. \A o \in full : o \in Objects
        BY DEF QueueInv, ObjectsInv
      <4> QED BY <2>1, <4>1, <4>2 DEF WaitFacts
    <3> QED BY <1>1, <3>2, <3>3
  <2>2. CASE sys # "windows"
    <3>1. Timer' \in full' => Timer \in full
      BY <1>1 DEF WaitFacts
    <3>2. Timer' \in Fetched' => Timer \in full
      BY <1>1, <1>3, <2>2 DEF Timer, Handle
    <3> QED BY <1>1, <3>1, <3>2 DEF TimerInv
  <2> QED BY <2>1, <2>2
<1>7. expired' => Timer' \in Fetched' \/ (Timer' \in Queued' /\ Timer' \in full')
  <2>1. expired => Timer \in Queued /\ Timer \in full
    BY <1>1 DEF TimerInv
  <2> QED BY <1>1, <2>1, PollMember DEF WaitFacts
<1>8. sys' = "bsd" /\ Timer' \in live' => byte'
  BY <1>1 DEF TimerInv, WaitFacts
<1>9. TimerTypeOK' /\ (sys' = "windows" => made'["timer"] = 0)
  BY <1>1 DEF TimerInv, TimerTypeOK
<1> QED BY <1>1, <1>4, <1>5, <1>6, <1>7, <1>8, <1>9 DEF TimerInv

LEMMA TimerTake ==
  ASSUME QueueInv, TimerInv, UNCHANGED timerVars, TakeFacts
  PROVE  TimerInv'
<1>1. /\ UNCHANGED <<armed, byte, expired, sys, cur, made, live, full>> /\ Timer' = Timer /\ at = "loop"
      /\ Queued' = Queued /\ Fetched' \subseteq Fetched
  BY DEF timerVars, TakeFacts, Timer, Handle
<1>2. "timer" \in Kinds \ Peers
  BY KindFacts DEF OwnKinds
<1>3. at' = "timer" => Timer \in Fetched /\ (sys # "windows" => Timer \notin Fetched')
  BY <1>2 DEF TakeFacts, Timer
<1>4. expired => at' = "timer" \/ Timer \in Fetched' \/ (Timer \in Queued /\ Timer \in full)
  <2>1. expired => Timer \in Fetched \/ (Timer \in Queued /\ Timer \in full)
    BY <1>1 DEF TimerInv
  <2>2. Timer \in Fetched => cur["timer"] # 0
    <3>1. Fetched \subseteq Objects /\ ObjectsInv
      BY DEF QueueInv, SeqInv, Fetched, ToSet
    <3> QED BY <1>2, <3>1, HandleFacts DEF Timer
  <2> QED BY <1>2, <2>1, <2>2 DEF TakeFacts, Timer
<1>5. TimerTypeOK'
  BY <1>1 DEF TimerInv, TimerTypeOK
<1> QED BY <1>1, <1>3, <1>4, <1>5 DEF TimerInv

\* No wait takes away what is attached, but for timers.
LEMMA LiveWait ==
  ASSUME WaitFacts, NEW o \in live, o[1] # "timer"
  PROVE  o \in live'
<1>1. o \notin TimerDone
  BY DEF TimerDone
<1> QED BY <1>1 DEF WaitFacts

LEMMA SignalWait ==
  ASSUME SignalInv, UNCHANGED signalVars, WaitFacts
  PROVE  SignalInv'
<1>1. /\ UNCHANGED <<pending, raised, sent, ident, sys, cur, at>> /\ at = "loop" /\ Fetched = {}
      /\ SignalKinds' = SignalKinds /\ SignalKinds \subseteq Sigs \cup {"signalfd"}
  BY DEF signalVars, WaitFacts, SignalKinds
<1>2. SignalTypeOK' /\ raised \subseteq Sigs /\ (Attached' <=> Attached)
  BY <1>1 DEF SignalInv, SignalTypeOK, Attached
<1>3. \A k : Handle(k)' = Handle(k) /\ Handle(k)[1] = k
  BY <1>1 DEF Handle
<1>4. \A k \in SignalKinds : k \in Kinds /\ k # "timer" /\ k # "loop"
  BY <1>1, KindFacts DEF OwnKinds
<1>5. \A k \in SignalKinds' : cur'[k] # 0 => Handle(k)' \in live'
  BY <1>1, <1>3, <1>4, LiveWait DEF SignalInv
<1>6. ASSUME sys = "linux", pending # {}, cur["signalfd"] # 0 PROVE Coming("signalfd")'
  <2>1. Handle("signalfd") \in live /\ Coming("signalfd")
    BY <1>6 DEF SignalInv, SignalKinds
  <2>2. Handle("signalfd") \in SignalFds
    BY <1>3, <2>1 DEF SignalFds
  <2> QED BY <1>6, <2>1, <2>2, PollMember, ComingWait, KindFacts DEF OwnKinds
<1>7. ASSUME sys = "bsd", NEW s \in raised
      PROVE  Handle(s)' \in Fetched' \/ (Handle(s)' \in Queued' /\ Handle(s)' \in full')
  <2>1. at # s
    BY <1>1, <1>2, KindFacts
  <2>2. Handle(s) \in Queued /\ Handle(s) \in full
    BY <1>1, <1>7, <2>1 DEF SignalInv
  <2> QED BY <1>3, <1>7, <2>2, PollMember DEF WaitFacts
<1>8. sys' = "linux" => raised' \subseteq pending' /\ (pending' # {} /\ cur'["signalfd"] # 0 => Coming("signalfd")')
  BY <1>1, <1>6 DEF SignalInv
<1>9. sys' = "bsd" => \A s \in raised' :
        (at' = s /\ ~ident') \/ Handle(s)' \in Fetched' \/ (Handle(s)' \in Queued' /\ Handle(s)' \in full')
  BY <1>1, <1>7
<1> QED BY <1>1, <1>2, <1>5, <1>8, <1>9 DEF SignalInv

LEMMA SignalTake ==
  ASSUME SignalInv, UNCHANGED signalVars, TakeFacts
  PROVE  SignalInv'
<1>1. /\ UNCHANGED <<pending, raised, sent, ident, sys, cur, live, full>> /\ at = "loop"
      /\ SignalKinds' = SignalKinds /\ SignalKinds \subseteq Sigs \cup {"signalfd"}
  BY DEF signalVars, TakeFacts, SignalKinds
<1>2. SignalTypeOK' /\ raised \subseteq Sigs /\ (Attached' <=> Attached)
  BY <1>1 DEF SignalInv, SignalTypeOK, Attached
<1>3. \A k : Handle(k)' = Handle(k)
  BY <1>1 DEF Handle
<1>4. ~ident
  BY <1>1, KindFacts DEF SignalInv
<1>5. \A k \in SignalKinds' : cur'[k] # 0 => Handle(k)' \in live'
  BY <1>1, <1>3 DEF SignalInv
<1>6. ASSUME sys = "linux", pending # {}, cur["signalfd"] # 0 PROVE Coming("signalfd")'
  BY <1>6, ComingTake, KindFacts DEF SignalInv, OwnKinds
<1>7. ASSUME sys = "bsd", NEW s \in raised
      PROVE  at' = s \/ Handle(s)' \in Fetched' \/ (Handle(s)' \in Queued' /\ Handle(s)' \in full')
  <2>1. at # s /\ s \in Kinds /\ s \in Sigs
    BY <1>1, <1>2, KindFacts
  <2>2. cur[s] # 0
    BY <1>7, <2>1 DEF SignalInv, Attached, SignalKinds
  <2>3. Handle(s) \in Fetched \/ (Handle(s) \in Queued /\ Handle(s) \in full)
    BY <1>1, <1>7, <2>1 DEF SignalInv
  <2> QED BY <1>1, <1>3, <2>1, <2>2, <2>3 DEF TakeFacts
<1>8. sys' = "linux" => raised' \subseteq pending' /\ (pending' # {} /\ cur'["signalfd"] # 0 => Coming("signalfd")')
  BY <1>1, <1>6 DEF SignalInv
<1>9. sys' = "bsd" => \A s \in raised' :
        (at' = s /\ ~ident') \/ Handle(s)' \in Fetched' \/ (Handle(s)' \in Queued' /\ Handle(s)' \in full')
  BY <1>1, <1>4, <1>7
<1> QED BY <1>1, <1>2, <1>4, <1>5, <1>8, <1>9 DEF SignalInv

LEMMA PipeQueue ==
  ASSUME PipeInv, UNCHANGED pipeVars, WaitFacts \/ TakeFacts
  PROVE  PipeInv'
<1>1. /\ UNCHANGED <<client, inst, op, active, named, sys, cur>> /\ Waiting' = Waiting /\ Pipe' = Pipe
      /\ at = "loop" /\ "pipe" \in Kinds /\ "pipe" # "loop"
  BY KindFacts DEF pipeVars, WaitFacts, TakeFacts, Waiting, Pipe, Handle, OwnKinds
<1>2. ASSUME sys # "windows", Waiting # {} PROVE Coming("pipe")'
  <2>1. Coming("pipe") /\ cur["pipe"] # 0
    BY <1>2 DEF PipeInv
  <2>2. Handle("pipe") \in Pollable
    BY <1>2, PollMember DEF Pipe
  <2> QED BY <1>1, <2>1, <2>2, ComingWait, ComingTake
<1>3. ASSUME sys = "windows", cur["pipe"] # 0, at' # "pipe"
      PROVE  op = "pending" \/ (op = "done" /\ Pipe \in Queued' \cup Fetched')
  <2>1. op = "pending" \/ (op = "done" /\ Pipe \in Queued \cup Fetched)
    BY <1>1, <1>3 DEF PipeInv
  <2>2. ASSUME Pipe \in Queued \cup Fetched PROVE Pipe \in Queued' \cup Fetched'
    <3>1. CASE WaitFacts
      BY <1>3, <2>2, <3>1 DEF WaitFacts
    <3>2. CASE TakeFacts
      BY <1>1, <1>3, <2>2, <3>2 DEF TakeFacts, Pipe
    <3> QED BY <3>1, <3>2
  <2> QED BY <2>1, <2>2
<1>4. PipeTypeOK'
  BY <1>1 DEF PipeInv, PipeTypeOK
<1> QED BY <1>1, <1>2, <1>3, <1>4 DEF PipeInv

LEMMA KeyQueue ==
  ASSUME ObjectsInv, KeyInv, UNCHANGED keyVars, WaitFacts \/ TakeFacts
  PROVE  KeyInv'
<1>1. tty' = tty /\ "stdin" \in Kinds /\ cur["stdin"] # 0
  BY KindFacts DEF keyVars, OwnKinds, ObjectsInv, AtFirst
<1>2. tty # <<>> => Handle("stdin") \in Pollable
  BY PollMember DEF Stdin
<1> QED BY <1>1, <1>2, ComingWait, ComingTake DEF KeyInv

LEMMA UdpQueue ==
  ASSUME ObjectsInv, UdpInv, UNCHANGED udpVars, uses' = uses, WaitFacts \/ TakeFacts
  PROVE  UdpInv'
<1>1. /\ UNCHANGED <<arrived, queue, soError, io, buf, wait, heard, sys, cur>> /\ Udp' = Udp
      /\ DatagramsAreKept' <=> DatagramsAreKept
      /\ at = "loop" /\ "udp" \in Kinds \ Peers /\ "udp" # "loop" /\ cur["udp"] # 0
  BY KindFacts DEF udpVars, WaitFacts, TakeFacts, Udp, Handle, OwnKinds, DatagramsAreKept, ObjectsInv, AtFirst
<1>2. queue # <<>> \/ soError = "refused" => Handle("udp") \in Pollable
  BY PollMember DEF Udp
<1>3. ASSUME Coming("udp"), sys = "windows" \/ queue # <<>> \/ soError = "refused" PROVE Coming("udp")'
  BY <1>1, <1>2, <1>3, ComingWait, ComingTake
<1>4. ASSUME "udp" \notin uses PROVE at' # "udp" /\ Udp \notin Queued' \cup Fetched'
  <2>1. Udp \notin Queued \cup Fetched
    BY <1>4 DEF UdpInv
  <2>2. Udp \notin Queued' \cup Fetched'
    BY <2>1 DEF WaitFacts, TakeFacts
  <2>3. CASE WaitFacts
    BY <1>1, <2>2, <2>3 DEF WaitFacts
  <2>4. CASE TakeFacts
    <3>1. at' = "udp" => Handle("udp") \in Fetched
      BY <1>1, <2>4 DEF TakeFacts
    <3> QED BY <2>1, <2>2, <3>1 DEF Udp
  <2> QED BY <2>3, <2>4
<1> QED BY <1>1, <1>3, <1>4 DEF UdpInv

LEMMA ServerQueue ==
  ASSUME ServerInv, OneByOneInv, UNCHANGED serverVars, uses' = uses, WaitFacts \/ TakeFacts
  PROVE  ServerInv'
<1>1. /\ UNCHANGED <<app, up, backlog, peer, given, unread, unsent, conns, sys, cur>>
      /\ (Server' <=> Server) /\ Conns' = Conns /\ Conns \subseteq Peers /\ at = "loop"
  BY DEF serverVars, WaitFacts, TakeFacts, Server, Conns
<1>2. /\ \A p : Notes(p)' = Notes(p) /\ ReadNote(p)' = ReadNote(p) /\ (Readable(p)' <=> Readable(p))
      /\ \A p, o : o \in Notes(p) => o[1] = p
      /\ \A p : ReadNote(p) \in Notes(p)
  BY <1>1 DEF Notes, ReadNote, WriteNote, Readable
<1>3. \A p \in Peers : p # "timer" /\ p # "loop"
  BY KindFacts DEF OwnKinds
<1>4. ASSUME NEW p \in Conns PROVE Notes(p) \subseteq live'
  <2>1. Notes(p) \subseteq live
    BY DEF ServerInv
  <2>2. CASE WaitFacts
    BY <1>1, <1>2, <1>3, <2>1, <2>2, LiveWait
  <2>3. CASE TakeFacts
    BY <2>1, <2>3 DEF TakeFacts
  <2> QED BY <2>2, <2>3
<1>5. ASSUME up, NEW p \in Conns, Readable(p)
      PROVE  at' = p \/ ReadNote(p) \in Queued' \/ Notes(p) \cap Fetched' # {}
  <2>1. p \in Peers /\ Server
    BY <1>1 DEF ServerInv
  <2>2. ReadNote(p) \in Queued \/ Notes(p) \cap Fetched # {}
    BY <1>1, <1>3, <1>5, <2>1 DEF ServerInv
  <2>3. CASE WaitFacts
    <3>1. ReadNote(p) \in Queued
      BY <2>2, <2>3 DEF WaitFacts
    <3>2. ReadNote(p) \in Polled(p)
      BY <1>5 DEF Polled
    <3>3. ReadNote(p) \in ServerPollable
      BY <3>2 DEF ServerPollable
    <3>4. ReadNote(p) \in Queued' \/ ReadNote(p) \in Fetched'
      BY <2>3, <3>1, <3>3, PollMember DEF WaitFacts
    <3> QED BY <1>2, <3>4
  <2>4. CASE TakeFacts
    BY <2>1, <2>2, <2>4 DEF TakeFacts
  <2> QED BY <2>3, <2>4
<1>6. ConnsAreOpen'
  BY <1>1 DEF ServerInv, ConnsAreOpen
<1>7. \A p \in Peers, i \in 1..MaxMade :
        <<p, i>> \in live' \cup full' \cup Queued' \cup Fetched' => <<p, i>> \in Notes(p)'
  <2>1. live' \cup full' \cup Queued' \cup Fetched' \subseteq live \cup full \cup Queued \cup Fetched
    BY DEF WaitFacts, TakeFacts
  <2> QED BY <1>2, <2>1 DEF ServerInv
<1> QED BY <1>1, <1>2, <1>4, <1>5, <1>6, <1>7 DEF ServerInv

-----------------------------------------------------------------------------
(* The user event. *)

\* A step of the object of kind k that adds nothing but itself.
LEMMA ChangeQ ==
  ASSUME QueueInv, NEW k \in Kinds, live' \subseteq live \cup {Handle(k)}, full' \subseteq full,
         cur[k] # 0 \/ live' \subseteq live, at' \in {at, "loop"}, SeqInv', sys = "bsd" => full' \subseteq Queued',
         UNCHANGED <<sys, made, cur, held, batch, uses>>
  PROVE  QueueInv' /\ Fetched' = Fetched
<1>1. Fetched' = Fetched
  BY DEF Fetched
<1>2. cur[k] # 0 => Handle(k) \in Objects /\ Handle(k) \in Known
  BY HandleFacts DEF QueueInv, Known
<1>3. ObjectsInv'
  BY <1>2 DEF QueueInv, ObjectsInv
<1>4. OneByOneInv'
  BY DEF QueueInv, OneByOneInv, Server
<1>5. SilentInv'
  BY <1>1, <1>2, KnownSame DEF QueueInv, SilentInv
<1> QED BY <1>1, <1>3, <1>4, <1>5 DEF QueueInv

LEMMA PostStep ==
  ASSUME QueueInv, PostInv, PostHandling \/ PostOther, uses' = uses
  PROVE  QueueInv' /\ PostInv' /\ sys' = sys /\ \A k \in Kinds \ {"post"} : Frame(k)
<1> DEFINE h == Handle("post")
<1>1. ObjectsInv /\ SeqInv /\ "post" \in Kinds /\ "post" \notin Peers \cup AtFirst /\ "post" # "loop"
  BY KindFacts DEF QueueInv, OwnKinds, AtFirst
<1>2. PostTypeOK /\ posts \in Nat
  BY DEF PostInv, PostTypeOK
<1>3. CASE PostRead
  <2>1. /\ at = "post" /\ sys = "linux" /\ full' = full \ {h}
        /\ UNCHANGED <<sys, made, cur, live, held, ready, batch, at, posts, posted>>
    BY <1>3 DEF PostRead, postVars
  <2>2. SeqInv' /\ Queued' = Queued /\ Fetched' = Fetched
    BY <1>1, <2>1, SeqSame
  <2>3. QueueInv'
    BY <1>1, <2>1, <2>2, ChangeQ
  <2>4. PostInv'
    BY <1>2, <2>1 DEF PostInv, PostTypeOK
  <2>5. \A k \in Kinds \ {"post"} : \A i : <<k, i>> # h
    BY DEF Handle
  <2>6. \A k \in Kinds \ {"post"} : Frame(k)
    BY <2>1, <2>2, <2>5 DEF Frame
  <2> QED BY <2>1, <2>3, <2>4, <2>6
<1>4. CASE PostEmptyLinux \/ PostEmptyBsd \/ PostEmptyWindows
  <2>1. at = "post" /\ posted' = FALSE /\ Return /\ posts' = posts
    BY <1>4 DEF PostEmptyLinux, PostEmptyBsd, PostEmptyWindows, PostLooked
  <2>2. QueueInv' /\ \A k \in Kinds \ {"post"} : Frame(k)
    BY <2>1, ReturnQ
  <2>3. PostInv'
    BY <1>2, <2>1 DEF PostInv, PostTypeOK
  <2> QED BY <2>1, <2>2, <2>3 DEF Return
<1>5. CASE PostAttachLinux \/ PostAttachBsd \/ PostAttachWindows
  <2>1. /\ New({"post"}) /\ UNCHANGED <<sys, held, full, ready, batch, at, posts, posted>>
        /\ live' = live \cup {<<"post", made'["post"]>>} \/ live' = live
    BY <1>5 DEF PostAttachLinux, PostAttachBsd, PostAttachWindows, PostNew, postVars
  <2>2. /\ {"post"} \in SUBSET Kinds /\ (\A k \in AtFirst : k \notin {"post"}) /\ {} \in SUBSET Objects
        /\ (\A o \in {} : o[1] \in {"post"}) /\ ready' = ready /\ at' = at
        /\ {} \in SUBSET {"post"} /\ {"post"} \in SUBSET {"post"}
    BY <1>1, <2>1
  <2>3. QueueInv' /\ cur["post"] = 0 /\ \A k \in Kinds \ {"post"} : Frame(k)
    <3>1. CASE live' = live \cup {<<"post", made'["post"]>>}
      <4>1. live' = live \cup {<<k, made'[k]>> : k \in {"post"}}
        BY <3>1
      <4>2. /\ QueueInv' /\ \A k \in {"post"} : cur[k] = 0
            /\ \A k \in Kinds \ {"post"} : at = "loop" \/ at' = at => Frame(k)
        BY <2>1, <2>2, <4>1, NewQ, ZenonT(60)
      <4> QED BY <2>2, <4>2
    <3>2. CASE live' = live
      <4>1. live' = live \cup {<<k, made'[k]>> : k \in {}}
        BY <3>2
      <4>2. /\ QueueInv' /\ \A k \in {"post"} : cur[k] = 0
            /\ \A k \in Kinds \ {"post"} : at = "loop" \/ at' = at => Frame(k)
        BY <2>1, <2>2, <4>1, NewQ, ZenonT(60)
      <4> QED BY <2>2, <4>2
    <3> QED BY <2>1, <3>1, <3>2
  <2>4. ~posted
    BY <2>3 DEF PostInv
  <2>5. PostInv'
    BY <1>2, <2>1, <2>4 DEF PostInv, PostTypeOK
  <2> QED BY <2>1, <2>3, <2>5
<1>6. CASE PostLinux \/ PostBsd \/ PostWindows
  <2>1. /\ cur["post"] # 0 /\ posts < MaxPosts /\ posts' = posts + 1 /\ posted' = TRUE
        /\ ready' = ReadyWith({h}) /\ UNCHANGED <<sys, made, cur, live, held, batch, at>>
        /\ IF sys = "windows" THEN full' = full ELSE full' = full \cup {h}
    BY <1>1, <1>6 DEF PostLinux, PostBsd, PostWindows, PostCall, SeqInv
  <2>2. h \in Objects /\ h \in Known /\ h[1] = "post" /\ Handle("post")' = h
    BY <1>1, <2>1, HandleFacts DEF Known, Handle
  <2> HIDE DEF h
  <2>3. PICK hs \in SUBSET {h} : full' = full \cup hs /\ (sys # "windows" => h \in hs)
    <3>1. CASE sys = "windows"
      <4>1. full' = full \cup {} /\ {} \in SUBSET {h}
        BY <2>1, <3>1
      <4> QED BY <3>1, <4>1
    <3>2. CASE sys # "windows"
      <4>1. full' = full \cup {h} /\ {h} \in SUBSET {h}
        BY <2>1, <3>2
      <4> QED BY <4>1
    <3> QED BY <3>1, <3>2
  <2>4. /\ QueueInv' /\ Queued' = Queued \cup {h} /\ Fetched' = Fetched
        /\ \A k \in Kinds : (\A o \in {h} : o[1] # k) => Frame(k)
    <3>1. {h} \in SUBSET Objects /\ hs \subseteq Known
      BY <2>2
    <3> QED BY <2>1, <2>3, <3>1, EventsQ
  <2>5. posts' \in 0..MaxPosts
    BY <1>2, <2>1, QueueAssumption DEF PostTypeOK
  <2>6. posted' \in BOOLEAN
    BY <2>1, Zenon
  <2>7. PostInv'
    BY <2>1, <2>2, <2>3, <2>4, <2>5, <2>6 DEF PostInv, PostTypeOK
  <2> QED BY <2>1, <2>2, <2>4, <2>7
<1>7. CASE PostDetachLinux \/ PostDetachBsd
  <2>1. /\ at = "loop" /\ Forget({"post"}) /\ posted' = FALSE /\ sys # "windows" /\ Drop({h})
        /\ UNCHANGED <<sys, made, held, batch, at, posts>>
    BY <1>7 DEF PostDetachLinux, PostDetachBsd, PostForget
  <2>2. {Handle(k) : k \in {"post"}} = {h} /\ {"post"} \in SUBSET (Kinds \ (Peers \cup AtFirst))
    BY <1>1
  <2>3. QueueInv' /\ \A k \in Kinds \ {"post"} : Frame(k)
    BY <2>1, <2>2, ForgetQ
  <2>4. PostInv'
    BY <1>2, <2>1 DEF PostInv, PostTypeOK
  <2> QED BY <2>1, <2>3, <2>4
<1>8. CASE PostDetachWindows
  <2>1. /\ at = "loop" /\ Forget({"post"}) /\ posted' = FALSE /\ sys = "windows"
        /\ UNCHANGED <<sys, made, held, batch, at, posts, live, full, ready>>
    BY <1>8 DEF PostDetachWindows, PostForget
  <2>2. {"post"} \in SUBSET (Kinds \ (Peers \cup AtFirst)) /\ {} \in SUBSET Objects
    BY <1>1
  <2>3. QueueInv' /\ \A k \in Kinds \ {"post"} : Frame(k)
    BY <2>1, <2>2, ForgetOnlyQ
  <2>4. PostInv'
    BY <1>2, <2>1 DEF PostInv, PostTypeOK
  <2> QED BY <2>1, <2>3, <2>4
<1> QED BY <1>3, <1>4, <1>5, <1>6, <1>7, <1>8 DEF PostHandling, PostOther

-----------------------------------------------------------------------------
(* The timer. *)

LEMMA TimerTypes ==
  ASSUME TimerTypeOK
  PROVE  /\ \A m \in {"off", "once", "periodic"} : TimerSet(m) => armed' \in [1..MaxMade -> {"off", "once", "periodic"}]
         /\ \A g \in 1..MaxMade : armed' = [armed EXCEPT ![g] = IF @ = "once" THEN "off" ELSE @]
              => armed' \in [1..MaxMade -> {"off", "once", "periodic"}]
BY DEF TimerTypeOK, TimerSet

LEMMA TimerIndex ==
  ASSUME ObjectsInv, cur["timer"] # 0
  PROVE  /\ Timer \in Objects /\ Timer \in Known /\ Timer = <<"timer", made["timer"]>>
         /\ made["timer"] \in 1..MaxMade /\ cur["timer"] = made["timer"]
<1>1. "timer" \in Kinds
  BY KindFacts DEF OwnKinds
<1>2. /\ cur["timer"] \in 0..MaxMade /\ cur["timer"] = made["timer"] /\ Timer = <<"timer", cur["timer"]>>
      /\ Timer \in Objects /\ Timer \in Opened /\ MaxMade \in Nat
  BY <1>1, HandleFacts, QueueAssumption DEF Timer
<1> QED BY <1>2 DEF Known

LEMMA TimerNone ==
  ASSUME ObjectsInv, SeqInv, cur["timer"] = 0
  PROVE  Timer \notin live /\ Timer \notin full /\ Timer \notin Queued /\ Timer \notin Fetched
<1>1. "timer" \in Kinds
  BY KindFacts DEF OwnKinds
<1>2. Timer \notin Objects
  BY <1>1, HandleFacts DEF Timer
<1>3. Queued \subseteq Objects /\ Fetched \subseteq Objects
  BY DEF SeqInv, Queued, Fetched, ToSet
<1> QED BY <1>2, <1>3 DEF ObjectsInv

LEMMA TimerStep ==
  ASSUME QueueInv, TimerInv, TimerHandling \/ TimerOther, uses' = uses
  PROVE  QueueInv' /\ TimerInv' /\ sys' = sys /\ \A k \in Kinds \ {"timer"} : Frame(k)
<1> DEFINE h == Timer
           F == \A k \in Kinds \ {"timer"} : Frame(k)
<1>1. /\ ObjectsInv /\ SeqInv /\ "timer" \in Kinds /\ "timer" \notin Peers \cup AtFirst /\ "timer" # "loop"
      /\ \A k \in Kinds \ {"timer"} : \A i : <<k, i>> # h
  BY KindFacts DEF QueueInv, OwnKinds, AtFirst, Timer, Handle
<1>2. TimerTypeOK /\ byte \in BOOLEAN /\ expired \in BOOLEAN
  BY DEF TimerInv, TimerTypeOK
<1>3. CASE TimerConsumeLinux
  <2>1. /\ at = "timer" /\ sys = "linux" /\ full' = full \ {h} /\ expired' = FALSE /\ at' = "loop"
        /\ UNCHANGED <<sys, made, cur, live, held, ready, batch, armed, byte>>
    BY <1>3 DEF TimerConsumeLinux
  <2>2. SeqInv' /\ Queued' = Queued /\ Fetched' = Fetched
    BY <1>1, <2>1, SeqSame
  <2>3. QueueInv'
    BY <1>1, <2>1, <2>2, ChangeQ
  <2>4. Timer' = h
    BY <2>1 DEF Timer, Handle
  <2>5. TimerInv'
    BY <1>1, <1>2, <2>1, <2>2, <2>4 DEF TimerInv, TimerTypeOK
  <2>6. F
    BY <1>1, <2>1, <2>2, KindFacts DEF Frame
  <2> QED BY <2>1, <2>3, <2>5, <2>6
<1>4. CASE TimerConsumeBsd
  <2>1. /\ at = "timer" /\ sys = "bsd" /\ (expired' = (h \in full)) /\ at' = "loop" /\ Return
        /\ UNCHANGED <<sys, made, cur, live, held, full, ready, batch, armed, byte>>
    BY <1>4 DEF TimerConsumeBsd, Return
  <2>2. QueueInv' /\ Queued' = Queued /\ Fetched' = Fetched /\ F
    BY <2>1, ReturnQ
  <2>3. Timer' = h /\ h \notin Fetched
    BY <2>1 DEF Timer, Handle, TimerInv
  <2>4. full \subseteq Queued
    BY <2>1 DEF QueueInv, SilentInv
  <2>5. TimerTypeOK'
    BY <1>2, <2>1 DEF TimerTypeOK
  <2>6. TimerInv'
    BY <1>1, <2>1, <2>2, <2>3, <2>4, <2>5 DEF TimerInv
  <2> QED BY <2>1, <2>2, <2>6
<1>5. CASE TimerCreateLinux \/ TimerCreateBsd
  <2>1. /\ New({"timer"}) /\ at = "loop" /\ byte' = FALSE /\ expired' = FALSE /\ sys # "windows"
        /\ UNCHANGED <<sys, live, held, full, ready, batch, at, armed>>
    BY <1>5 DEF TimerCreateLinux, TimerCreateBsd, TimerNew
  <2>2. /\ QueueInv' /\ Queued' = Queued /\ Fetched' = Fetched /\ F
        /\ cur'["timer"] = made["timer"] + 1 /\ made'["timer"] = made["timer"] + 1
    <3>1. /\ {"timer"} \in SUBSET Kinds /\ {} \in SUBSET {"timer"} /\ {} \in SUBSET Objects /\ \A k \in AtFirst : k \notin {"timer"}
          /\ live' = live \cup {<<k, made'[k]>> : k \in {}}
      BY <1>1, <2>1
    <3>2. (\A o \in {} : o[1] \in {"timer"}) /\ ready' = ready /\ at' = at
      BY <2>1
    <3>3. /\ QueueInv' /\ Queued' = Queued \cup {} /\ Fetched' = Fetched
          /\ \A k \in {"timer"} : cur'[k] = made[k] + 1 /\ made'[k] = made[k] + 1
          /\ \A k \in Kinds \ {"timer"} : at = "loop" \/ at' = at => Frame(k)
      BY <2>1, <3>1, <3>2, NewQ, ZenonT(60)
    <3> QED BY <3>2, <3>3
  <2>3. ObjectsInv' /\ made["timer"] \in Nat /\ MaxMade \in Nat
    BY <1>1, <2>2, QueueAssumption DEF QueueInv, ObjectsInv
  <2>4. Timer' = <<"timer", made["timer"] + 1>> /\ made["timer"] + 1 \in 1..MaxMade
    <3>1. made'["timer"] \in 0..MaxMade
      BY <1>1, <2>3 DEF ObjectsInv
    <3> QED BY <2>2, <2>3, <3>1 DEF Timer, Handle
  <2>5. Timer' \notin live /\ Timer' \notin full /\ Timer' \notin Queued /\ Timer' \notin Fetched
    BY <2>3, <2>4 DEF TimerInv
  <2>6. TimerTypeOK'
    BY <1>2, <2>1 DEF TimerTypeOK
  <2>7. \A g \in 1..MaxMade : <<"timer", g>> \in live' \cup full' \cup Queued' \cup Fetched' => g <= made'["timer"]
    BY <2>1, <2>2, <2>3 DEF TimerInv
  <2>8. TimerInv'
    BY <1>1, <2>1, <2>2, <2>5, <2>6, <2>7 DEF TimerInv
  <2> QED BY <2>1, <2>2, <2>8
<1>6. ASSUME NEW mode \in {"once", "periodic"}, TimerStartLinux(mode) \/ TimerStartBsd(mode)
      PROVE  QueueInv' /\ TimerInv' /\ sys' = sys /\ F
  <2>1. /\ TimerUsable /\ live' = live \cup {h} /\ full' = full \ {h} /\ TimerSet(mode) /\ expired' = FALSE
        /\ UNCHANGED <<sys, made, cur, held, batch, at>>
        /\ \/ sys = "linux" /\ ready' = ready /\ byte' = byte
           \/ sys = "bsd" /\ ready' = ReadyOnly(Objects \ {h}) /\ byte' = TRUE
    BY <1>6 DEF TimerStartLinux, TimerStartBsd, TimerBegin, ByteSet
  <2>2. /\ at = "loop" /\ cur["timer"] # 0 /\ h \notin Fetched /\ Timer' = h
        /\ h \in Objects /\ h = <<"timer", made["timer"]>> /\ made["timer"] \in Nat
    BY <1>1, <2>1, TimerIndex DEF TimerUsable, Timer, Handle, Fetched
  <2>3. SeqInv' /\ Fetched' = Fetched /\ (\A o : o # h => (o \in Queued' <=> o \in Queued)) /\ Queued' \subseteq Queued
    <3>1. CASE sys = "linux"
      BY <1>1, <2>1, <3>1, SeqSame
    <3>2. CASE sys = "bsd"
      <4>1. SeqInv' /\ Fetched' = Fetched /\ Queued' = Queued \cap (Objects \ {h})
        BY <1>1, <2>1, <3>2, SeqOnly
      <4>2. Queued \subseteq Objects
        BY <1>1 DEF SeqInv, Queued, ToSet
      <4> QED BY <4>1, <4>2
    <3> QED BY <2>1, <3>1, <3>2
  <2>4. QueueInv'
    <3>1. sys = "bsd" => full' \subseteq Queued'
      BY <2>1, <2>3 DEF QueueInv, SilentInv
    <3> QED BY <1>1, <2>1, <2>2, <2>3, <3>1, ChangeQ DEF Timer
  <2>5. TimerTypeOK'
    <3>1. byte' \in BOOLEAN /\ expired' \in BOOLEAN
      BY <1>2, <2>1, Zenon
    <3> QED BY <1>2, <2>1, <3>1, TimerTypes DEF TimerTypeOK
  <2>6. \A g \in 1..MaxMade : <<"timer", g>> \in live' \cup full' \cup Queued' \cup Fetched' => g <= made'["timer"]
    BY <2>1, <2>2, <2>3 DEF TimerInv
  <2>7. TimerInv'
    BY <1>1, <2>1, <2>2, <2>3, <2>5, <2>6 DEF TimerInv
  <2>8. F
    BY <1>1, <2>1, <2>3 DEF Frame
  <2> QED BY <2>1, <2>4, <2>7, <2>8
<1>7. CASE TimerStopLinux
  <2>1. /\ TimerUsable /\ TimerSet("off") /\ expired' = FALSE /\ full' = full \ {h} /\ sys = "linux"
        /\ UNCHANGED <<sys, made, cur, held, batch, at, live, ready, byte>>
    BY <1>7 DEF TimerStopLinux, TimerEnd, TimerStopped
  <2>2. at = "loop" /\ h \notin Fetched /\ Timer' = h
    BY <2>1 DEF TimerUsable, Timer, Handle, Fetched
  <2>3. SeqInv' /\ Queued' = Queued /\ Fetched' = Fetched
    BY <1>1, <2>1, SeqSame
  <2>4. QueueInv'
    BY <1>1, <2>1, <2>3, ChangeQ
  <2>5. TimerTypeOK'
    BY <1>2, <2>1, TimerTypes DEF TimerTypeOK
  <2>6. TimerInv'
    BY <1>1, <2>1, <2>2, <2>3, <2>5 DEF TimerInv
  <2>7. F
    BY <1>1, <2>1, <2>3 DEF Frame
  <2> QED BY <2>1, <2>4, <2>6, <2>7
<1>8. CASE TimerStopBsd
  <2>1. /\ TimerUsable /\ TimerSet("off") /\ expired' = FALSE /\ sys = "bsd" /\ Drop({h})
        /\ (byte' = (byte /\ h \notin live)) /\ UNCHANGED <<sys, made, cur, held, batch, at>>
    BY <1>8 DEF TimerStopBsd, TimerEnd
  <2>2. at = "loop" /\ h \notin Fetched /\ Timer' = h /\ Dropped({h}) = {h}
    BY <2>1 DEF TimerUsable, Timer, Handle, Fetched, Dropped
  <2>3. SeqInv' /\ Queued' = Queued \ {h} /\ Fetched' = Fetched /\ live' = live \ {h} /\ full' = full \ {h}
    BY <2>1, <2>2, DropSets
  <2>4. QueueInv'
    <3>1. full' \subseteq Queued'
      BY <2>1, <2>3 DEF QueueInv, SilentInv
    <3> QED BY <1>1, <2>1, <2>3, <3>1, ChangeQ
  <2>5. TimerTypeOK'
    <3>1. byte' \in BOOLEAN /\ expired' \in BOOLEAN
      BY <1>2, <2>1
    <3> QED BY <1>2, <2>1, <3>1, TimerTypes DEF TimerTypeOK
  <2>6. TimerInv'
    BY <1>1, <2>1, <2>2, <2>3, <2>5 DEF TimerInv
  <2>7. F
    BY <1>1, <2>1, <2>3 DEF Frame
  <2> QED BY <2>1, <2>4, <2>6, <2>7
<1>9. CASE TimerCloseLinux \/ TimerCloseBsd
  <2>1. /\ TimerUsable /\ Forget({"timer"}) /\ expired' = FALSE /\ sys # "windows"
        /\ UNCHANGED <<sys, made, held, batch, at, armed, byte>>
        /\ \/ Drop({h})
           \/ sys = "bsd" /\ ~byte /\ UNCHANGED <<live, full, ready>>
    BY <1>9 DEF TimerCloseLinux, TimerCloseBsd, TimerForget
  <2>2. at = "loop"
    BY <2>1 DEF TimerUsable
  <2>3. /\ QueueInv' /\ cur'["timer"] = 0 /\ live' \subseteq live /\ full' \subseteq full
        /\ Fetched' = Fetched /\ Queued' \subseteq Queued /\ F
        /\ \A o : o \in full' /\ o \in live => o \in live'
    <3>1. CASE Drop({h})
      <4>1. {Handle(k) : k \in {"timer"}} = {h} /\ {"timer"} \in SUBSET (Kinds \ (Peers \cup AtFirst))
        BY <1>1 DEF Timer
      <4>2. \A o : o \in full' /\ o \in live => o \in live'
        BY <3>1 DEF Drop
      <4> QED BY <2>1, <2>2, <3>1, <4>1, <4>2, ForgetQ
    <3>2. CASE sys = "bsd" /\ ~byte /\ UNCHANGED <<live, full, ready>>
      <4>1. h \notin live /\ h \notin full
        BY <1>1, <3>2, TimerNone, TimerIndex DEF TimerInv
      <4>2. {"timer"} \in SUBSET (Kinds \ (Peers \cup AtFirst)) /\ {} \in SUBSET Objects
        BY <1>1
      <4>3. \A k \in {"timer"} : Handle(k) \notin live \cup full
        BY <4>1 DEF Timer
      <4> QED BY <2>1, <2>2, <3>2, <4>2, <4>3, ForgetOnlyQ
    <3> QED BY <2>1, <3>1, <3>2
  <2>4. Timer' \notin live' /\ Timer' \notin full' /\ Timer' \notin Queued' /\ Timer' \notin Fetched'
    <3>1. ObjectsInv' /\ SeqInv'
      BY <2>3 DEF QueueInv
    <3>2. "timer" \in Kinds /\ Timer' = <<"timer", 0>>
      BY <1>1, <2>3 DEF Timer, Handle
    <3>3. <<"timer", 0>> \notin Objects
      BY ObjectFacts
    <3>4. Queued' \subseteq Objects /\ Fetched' \subseteq Objects /\ live' \subseteq Objects /\ full' \subseteq Objects
      BY <3>1 DEF SeqInv, ObjectsInv, Queued, Fetched, ToSet
    <3> QED BY <3>2, <3>3, <3>4
  <2>5. TimerTypeOK'
    BY <1>2, <2>1 DEF TimerTypeOK
  <2>6. TimerInv'
    BY <1>1, <2>1, <2>2, <2>3, <2>4, <2>5 DEF TimerInv
  <2> QED BY <2>1, <2>3, <2>6
<1>10. ASSUME NEW g \in 1..MaxMade, TimerExpire(g)
       PROVE  QueueInv' /\ TimerInv' /\ sys' = sys /\ F
  <2> DEFINE o == <<"timer", g>>
  <2>1. /\ o \in live /\ armed' = [armed EXCEPT ![g] = IF @ = "once" THEN "off" ELSE @]
        /\ full' = full \cup {o} /\ ready' = ReadyWith({o}) /\ (expired' = (expired \/ g = cur["timer"]))
        /\ UNCHANGED <<sys, made, cur, live, held, batch, at, byte>>
    BY <1>10 DEF TimerExpire
  <2>2. g <= made["timer"] /\ sys # "windows"
    BY <2>1, QueueAssumption DEF TimerInv
  <2>3. /\ QueueInv' /\ Queued' = Queued \cup {o} /\ Fetched' = Fetched /\ F
    <3>1. {o} \in SUBSET Objects /\ {o} \in SUBSET {o} /\ {o} \subseteq Known
      BY <1>1, <2>1, <2>2 DEF ObjectsInv, QueueInv, SilentInv
    <3>2. \A k \in Kinds \ {"timer"} : \A x \in {o} : x[1] # k
      OBVIOUS
    <3>3. UNCHANGED <<sys, made, cur, live, held, batch, at, uses>>
      BY <2>1
    <3> QED BY <2>1, <3>1, <3>2, <3>3, EventsQ
  <2>4. Timer' = h /\ (h = o <=> g = cur["timer"])
    BY <2>1 DEF Timer, Handle
  <2>5. TimerTypeOK'
    <3>1. expired' \in BOOLEAN
      BY <1>2, <2>1
    <3> QED BY <1>2, <2>1, <3>1, TimerTypes DEF TimerTypeOK
  <2>6. \A i \in 1..MaxMade : <<"timer", i>> \in live' \cup full' \cup Queued' \cup Fetched' => i <= made'["timer"]
    BY <2>1, <2>2, <2>3 DEF TimerInv
  <2> HIDE DEF o, h
  <2>7. \A i \in 1..MaxMade : <<"timer", i>> \in full' => <<"timer", i>> \in live'
    BY <2>1 DEF TimerInv
  <2>8. TimerInv'
    BY <1>1, <2>1, <2>2, <2>3, <2>4, <2>5, <2>6, <2>7 DEF TimerInv, h
  <2> QED BY <2>1, <2>3, <2>8
<1> QED BY <1>3, <1>4, <1>5, <1>6, <1>7, <1>8, <1>9, <1>10 DEF TimerHandling, TimerOther

-----------------------------------------------------------------------------
(* Signals. *)

SignalOwn == Sigs \cup {"signalfd"}

LEMMA SignalFacts ==
  ASSUME QueueInv, SignalInv
  PROVE  /\ ObjectsInv /\ SeqInv /\ SignalOwn \subseteq Kinds \ (Peers \cup AtFirst) /\ "loop" \notin SignalOwn
         /\ "signalfd" \notin Sigs /\ SignalKinds \subseteq SignalOwn
         /\ sys = "bsd" => SignalKinds = Sigs
         /\ sys = "linux" => SignalKinds = {"signalfd"}
         /\ pending \subseteq Sigs /\ raised \subseteq Sigs /\ sent \in 0..MaxRaised /\ ident \in BOOLEAN
         /\ at = "signalfd" => sys = "linux"
         /\ at \in Sigs => sys = "bsd"
<1>1. /\ SignalOwn \subseteq Kinds \ (Peers \cup AtFirst) /\ "loop" \notin SignalOwn
      /\ "signalfd" \notin Sigs /\ SignalKinds \subseteq SignalOwn
  BY KindFacts DEF SignalOwn, OwnKinds, AtFirst, SignalKinds
<1>2. ObjectsInv /\ SeqInv /\ SignalTypeOK
  BY DEF QueueInv, SignalInv
<1>3. at = "signalfd" => sys = "linux"
  BY <1>1, <1>2 DEF SignalInv, ObjectsInv
<1>4. at \in Sigs => sys = "bsd"
  BY <1>1, <1>2, KindFacts DEF SignalInv, ObjectsInv
<1> QED BY <1>1, <1>2, <1>3, <1>4 DEF SignalKinds, SignalTypeOK

LEMMA SignalAttached ==
  ASSUME QueueInv, SignalInv, SignalAttachLinux \/ SignalAttachBsd, uses' = uses
  PROVE  QueueInv' /\ SignalInv' /\ sys' = sys /\ \A k \in Kinds \ SignalOwn : Frame(k)
<1> DEFINE ks == SignalKinds
           new == <<"signalfd", made'["signalfd"]>>
           os == IF sys = "linux" /\ pending # {} THEN {new} ELSE {}
<1>1. /\ at = "loop" /\ New(ks) /\ live' = live \cup {<<k, made'[k]>> : k \in ks} /\ ident' = FALSE
      /\ UNCHANGED <<sys, held, full, batch, at, pending, sent>> /\ sys \in {"linux", "bsd"}
      /\ raised' = IF sys = "linux" THEN pending ELSE {}
      /\ (ready' = ready /\ os = {}) \/ ready' = ReadyWith(os)
  BY DEF SignalAttachLinux, SignalAttachBsd, SignalNew
<1>2. /\ ks \in SUBSET Kinds /\ (\A k \in AtFirst : k \notin ks) /\ ks \subseteq SignalOwn
      /\ \A k \in SignalOwn : k \in Kinds
  BY SignalFacts
<1>3. os \in SUBSET Objects /\ \A o \in os : o[1] \in ks
  <2>1. CASE sys = "linux"
    <3>1. ks = {"signalfd"} /\ "signalfd" \in Kinds
      BY <1>2, <2>1, SignalFacts
    <3>2. made'["signalfd"] = made["signalfd"] + 1 /\ made["signalfd"] < MaxMade /\ made["signalfd"] \in Nat
      BY <1>1, <3>1 DEF New, QueueInv, ObjectsInv
    <3>3. made'["signalfd"] \in 1..MaxMade
      BY <3>2, QueueAssumption
    <3> QED BY <3>1, <3>3, ObjectFacts
  <2>2. CASE sys # "linux"
    BY <2>2
  <2> QED BY <2>1, <2>2
<1> HIDE DEF os
<1>4. /\ QueueInv' /\ Queued' = Queued \cup os /\ Fetched' = Fetched
      /\ \A k \in ks : cur[k] = 0 /\ cur'[k] = made[k] + 1 /\ made'[k] = made[k] + 1 /\ cur'[k] # 0
      /\ \A k \in Kinds \ ks : at = "loop" \/ at' = at => Frame(k)
      /\ \A k \in Kinds \ ks : cur'[k] = cur[k]
  <2>1. ks \in SUBSET ks /\ at' \in {at} \cup ks /\ at' = at
    BY <1>1
  <2> QED BY <1>1, <1>2, <1>3, <2>1, NewQ
<1>5. \A k \in ks : Handle(k)' = <<k, made'[k]>> /\ Handle(k)' \in live'
  BY <1>1, <1>4 DEF Handle
<1>6. SignalKinds' = ks /\ Attached'
  BY <1>1, <1>4 DEF SignalKinds, Attached
<1>7. SignalTypeOK'
  <2>1. ident' \in BOOLEAN
    BY <1>1, Zenon
  <2> QED BY <1>1, <2>1, SignalFacts DEF SignalTypeOK
<1>8. sys = "linux" /\ pending # {} => Coming("signalfd")'
  <2>1. ASSUME sys = "linux", pending # {} PROVE Handle("signalfd")' \in Queued'
    <3>1. ks = {"signalfd"} /\ new \in os
      BY <2>1, SignalFacts DEF os
    <3> QED BY <1>4, <1>5, <3>1
  <2> QED BY <2>1 DEF Coming, Queued
<1>9. /\ sys # "bsd" => \A s \in Sigs : cur'[s] = 0
      /\ sys # "linux" => cur'["signalfd"] = 0
  BY <1>1, <1>2, <1>4, SignalFacts DEF SignalInv, SignalOwn
<1>10. SignalInv'
  BY <1>1, <1>5, <1>6, <1>7, <1>8, <1>9 DEF SignalInv
<1> QED BY <1>1, <1>2, <1>4, <1>10

LEMMA SignalDetached ==
  ASSUME QueueInv, SignalInv, SignalDetachLinux \/ SignalDetachBsd, uses' = uses
  PROVE  QueueInv' /\ SignalInv' /\ sys' = sys /\ \A k \in Kinds \ SignalOwn : Frame(k)
<1> DEFINE ks == SignalKinds
<1>1. /\ at = "loop" /\ Forget(ks) /\ raised' = {} /\ Drop({Handle(k) : k \in ks}) /\ sys \in {"linux", "bsd"}
      /\ UNCHANGED <<sys, made, held, batch, at, pending, sent, ident>>
  BY DEF SignalDetachLinux, SignalDetachBsd, SignalForget, SignalObjects
<1>2. ks \in SUBSET (Kinds \ (Peers \cup AtFirst)) /\ ks \subseteq SignalOwn /\ \A k \in SignalOwn : k \in Kinds
  BY SignalFacts
<1>3. QueueInv' /\ (\A k \in ks : cur'[k] = 0) /\ \A k \in Kinds \ ks : Frame(k)
  BY <1>1, <1>2, ForgetQ
<1>4. SignalKinds' = ks /\ \A k \in Kinds \ ks : cur'[k] = cur[k]
  BY <1>1, <1>3 DEF SignalKinds, Frame
<1>5. ~ident
  BY <1>1, SignalFacts DEF SignalInv, SignalOwn
<1>6. SignalTypeOK'
  BY <1>1 DEF SignalInv, SignalTypeOK
<1>7. /\ sys # "bsd" => \A s \in Sigs : cur'[s] = 0
      /\ sys # "linux" => cur'["signalfd"] = 0
      /\ sys = "linux" => cur'["signalfd"] = 0
  BY <1>1, <1>2, <1>3, <1>4, SignalFacts DEF SignalInv, SignalOwn
<1>8. SignalInv'
  BY <1>1, <1>3, <1>4, <1>5, <1>6, <1>7 DEF SignalInv
<1> QED BY <1>1, <1>2, <1>3, <1>8

LEMMA SignalRaised ==
  ASSUME QueueInv, SignalInv, NEW s \in Sigs, Raise(s), uses' = uses
  PROVE  QueueInv' /\ SignalInv' /\ sys' = sys /\ \A k \in Kinds \ SignalOwn : Frame(k)
<1> DEFINE os == IF sys = "linux" THEN SignalFds ELSE {o \in live : o[1] = s}
           hs == IF sys = "linux" THEN {} ELSE os
<1>1. /\ sys \in {"linux", "bsd"} /\ sent < MaxRaised /\ sent' = sent + 1
      /\ raised' = (IF Attached THEN raised \cup {s} ELSE raised)
      /\ pending' = (IF sys = "linux" THEN pending \cup {s} ELSE pending)
      /\ ready' = ReadyWith(os) /\ full' = full \cup hs
      /\ UNCHANGED <<sys, made, cur, live, held, batch, at, ident>>
  BY SignalFacts DEF Raise, SeqInv
<1>2. /\ os \in SUBSET Objects /\ hs \in SUBSET os /\ hs \subseteq Known
      /\ \A o \in os : o[1] \in SignalOwn
  BY <1>1, SignalFacts DEF ObjectsInv, QueueInv, SilentInv, SignalFds, SignalOwn
<1>3. \A k \in SignalKinds : sys = "linux" \/ k = s => (Handle(k) \in live => Handle(k) \in os)
  BY <1>1, SignalFacts DEF SignalFds, Handle
<1>4. hs = IF sys = "linux" THEN {} ELSE os
  OBVIOUS
<1> HIDE DEF os, hs
<1>5. /\ QueueInv' /\ Queued' = Queued \cup os /\ Fetched' = Fetched
      /\ \A k \in Kinds : (\A o \in os : o[1] # k) => Frame(k)
  BY <1>1, <1>2, EventsQ
<1>6. (\A k : Handle(k)' = Handle(k)) /\ SignalKinds' = SignalKinds /\ (Attached' <=> Attached)
  BY <1>1 DEF Handle, SignalKinds, Attached
<1>7. SignalTypeOK'
  <2>1. sent' \in 0..MaxRaised
    BY <1>1, SignalFacts, QueueAssumption
  <2> QED BY <1>1, <2>1, SignalFacts DEF SignalTypeOK
<1>8. raised' # {} => Attached
  BY <1>1 DEF SignalInv
<1>9. ASSUME sys = "linux", cur["signalfd"] # 0 PROVE Coming("signalfd")'
  <2>1. Handle("signalfd") \in os
    BY <1>3, <1>9, SignalFacts DEF SignalInv
  <2> QED BY <1>5, <1>6, <2>1 DEF Coming, Queued
<1>10. ASSUME sys = "bsd", NEW r \in raised'
       PROVE  (at' = r /\ ~ident') \/ Handle(r)' \in Fetched' \/ (Handle(r)' \in Queued' /\ Handle(r)' \in full')
  <2>1. CASE r \in raised
    BY <1>1, <1>5, <1>6, <1>10, <2>1 DEF SignalInv
  <2>2. CASE r \notin raised
    <3>1. r = s /\ Attached
      BY <1>1, <1>10, <2>2
    <3>2. s \in SignalKinds /\ Handle(s) \in live
      BY <1>10, <3>1, SignalFacts DEF Attached, SignalInv
    <3>3. Handle(s) \in os /\ hs = os
      BY <1>3, <1>4, <1>10, <3>2
    <3> QED BY <1>1, <1>5, <1>6, <3>1, <3>3
  <2> QED BY <2>1, <2>2
<1>11. /\ sys' = "linux" => raised' \subseteq pending' /\ (pending' # {} /\ cur'["signalfd"] # 0 => Coming("signalfd")')
       /\ \A k \in SignalKinds' : cur'[k] # 0 => Handle(k)' \in live'
  BY <1>1, <1>6, <1>9 DEF SignalInv
<1>12. SignalInv'
  BY <1>1, <1>6, <1>7, <1>8, <1>10, <1>11 DEF SignalInv
<1>13. \A k \in Kinds \ SignalOwn : Frame(k)
  BY <1>2, <1>5
<1> QED BY <1>1, <1>5, <1>12, <1>13

LEMMA SignalStep ==
  ASSUME QueueInv, SignalInv, SignalHandling \/ SignalOther, uses' = uses
  PROVE  QueueInv' /\ SignalInv' /\ sys' = sys /\ \A k \in Kinds \ SignalOwn : Frame(k)
<1>1. ASSUME UNCHANGED <<sys, cur>>
      PROVE  (\A k : Handle(k)' = Handle(k)) /\ SignalKinds' = SignalKinds /\ (Attached' <=> Attached)
  BY <1>1 DEF Handle, SignalKinds, Attached
<1>2. ASSUME NEW s \in Sigs, SignalFdRead(s)
      PROVE  QueueInv' /\ SignalInv' /\ sys' = sys /\ \A k \in Kinds \ SignalOwn : Frame(k)
  <2>1. /\ at = "signalfd" /\ pending' = pending \ {s} /\ raised' = raised \ {s} /\ Stay
        /\ UNCHANGED <<sent, ident, sys, cur, live, at>> /\ sys = "linux"
    BY <1>2, SignalFacts DEF SignalFdRead, Stay
  <2>2. QueueInv' /\ \A k \in Kinds : Frame(k)
    BY <2>1, StayQ
  <2>3. SignalTypeOK' /\ Coming("signalfd")'
    BY <2>1, SignalFacts DEF SignalTypeOK, Coming
  <2>4. SignalInv'
    BY <1>1, <2>1, <2>3 DEF SignalInv
  <2> QED BY <2>1, <2>2, <2>4
<1>3. CASE SignalFdEmpty
  <2>1. /\ at = "signalfd" /\ pending = {} /\ Return /\ at' = "loop"
        /\ UNCHANGED <<pending, raised, sent, ident, sys, cur, live>> /\ sys = "linux"
    BY <1>3, SignalFacts DEF SignalFdEmpty, SignalFdDone, Return, signalVars
  <2>2. QueueInv' /\ \A k \in Kinds \ SignalOwn : Frame(k)
    BY <2>1, ReturnQ DEF SignalOwn
  <2>3. SignalTypeOK' /\ ~ident
    BY <2>1, SignalFacts DEF SignalTypeOK, SignalInv
  <2>4. SignalInv'
    BY <1>1, <2>1, <2>3 DEF SignalInv
  <2> QED BY <2>1, <2>2, <2>4
<1>4. CASE NoteRead
  <2>1. /\ at \in Sigs /\ ~ident /\ ident' = TRUE /\ Stay
        /\ raised' = IF Handle(at) \in full THEN raised ELSE raised \ {at}
        /\ UNCHANGED <<pending, sent, sys, cur, live, full, at>> /\ sys = "bsd"
    BY <1>4, SignalFacts DEF NoteRead, IdentAfter, Stay
  <2>2. QueueInv' /\ Queued' = Queued /\ Fetched' = Fetched /\ \A k \in Kinds : Frame(k)
    BY <2>1, StayQ
  <2>3. SignalTypeOK'
    <3>1. ident' \in BOOLEAN
      BY <2>1, Zenon
    <3> QED BY <2>1, <3>1, SignalFacts DEF SignalTypeOK
  <2>4. ASSUME NEW r \in raised' PROVE Handle(r)' \in Fetched' \/ (Handle(r)' \in Queued' /\ Handle(r)' \in full')
    <3>1. CASE r = at
      <4>1. Handle(r) \in full
        BY <2>1, <2>4, <3>1
      <4>2. Handle(r) \in Queued
        BY <2>1, <4>1 DEF QueueInv, SilentInv
      <4> QED BY <1>1, <2>1, <2>2, <4>1, <4>2
    <3>2. CASE r # at
      <4>1. r \in raised
        BY <2>1, <2>4
      <4> QED BY <1>1, <2>1, <2>2, <3>2, <4>1 DEF SignalInv
    <3> QED BY <3>1, <3>2
  <2>5. SignalInv'
    BY <1>1, <2>1, <2>3, <2>4 DEF SignalInv
  <2> QED BY <2>1, <2>2, <2>5
<1>5. CASE NoteEmpty
  <2>1. /\ at \in Sigs /\ ident /\ ident' = FALSE /\ Return /\ at' = "loop"
        /\ UNCHANGED <<pending, raised, sent, sys, cur, live, full>> /\ sys = "bsd"
    BY <1>5, SignalFacts DEF NoteEmpty, Return
  <2>2. QueueInv' /\ Queued' = Queued /\ Fetched' = Fetched /\ \A k \in Kinds \ SignalOwn : Frame(k)
    BY <2>1, ReturnQ DEF SignalOwn
  <2>3. SignalTypeOK'
    <3>1. ident' \in BOOLEAN
      BY <2>1, Zenon
    <3> QED BY <2>1, <3>1, SignalFacts DEF SignalTypeOK
  <2>4. SignalInv'
    BY <1>1, <2>1, <2>2, <2>3 DEF SignalInv
  <2> QED BY <2>1, <2>2, <2>4
<1> QED BY <1>2, <1>3, <1>4, <1>5, SignalAttached, SignalDetached, SignalRaised DEF SignalHandling, SignalOther

-----------------------------------------------------------------------------
(* The named pipe. *)

\* The user calls without an event.
LEMMA TurnQ ==
  ASSUME QueueInv, NEW k \in Kinds, at = "loop", batch = <<>>, at' = k, cur[k] # 0,
         UNCHANGED <<sys, made, cur, live, held, full, ready, batch, uses>>
  PROVE  QueueInv' /\ Queued' = Queued /\ Fetched' = Fetched /\ \A j \in Kinds \ {k} : Frame(j)
<1>1. SeqInv' /\ Queued' = Queued /\ Fetched' = Fetched
  BY SeqSame DEF QueueInv
<1>2. ObjectsInv' /\ OneByOneInv'
  BY DEF QueueInv, ObjectsInv, OneByOneInv, Server
<1>3. SilentInv'
  BY <1>1, KnownSame DEF QueueInv, SilentInv
<1> QED BY <1>1, <1>2, <1>3, KindFacts DEF QueueInv, Frame

\* Something has happened to the user's object of kind k, whose event he may be done with.
LEMMA ToldQ ==
  ASSUME QueueInv, NEW k \in Kinds, cur[k] # 0, ready' = ReadyWith({Handle(k)}), uses' = uses,
         UNCHANGED <<sys, made, cur, live, held, full, batch>>, at' = at \/ (at = k /\ at' = "loop")
  PROVE  /\ QueueInv' /\ Queued' = Queued \cup {Handle(k)} /\ Fetched' = Fetched
         /\ Handle(k)' = Handle(k) /\ Coming(k)' /\ \A j \in Kinds \ {k} : Frame(j)
<1>1. Handle(k) \in Objects /\ Handle(k)' = Handle(k) /\ Handle(k)[1] = k
  BY HandleFacts DEF QueueInv, Handle
<1>2. SeqInv' /\ Queued' = Queued \cup {Handle(k)} /\ Fetched' = Fetched
  <2>1. {Handle(k)} \in SUBSET Objects
    BY <1>1
  <2> QED BY <2>1, SeqWith DEF QueueInv
<1>3. ObjectsInv' /\ OneByOneInv'
  BY DEF QueueInv, ObjectsInv, OneByOneInv, Server
<1>4. SilentInv'
  BY <1>2, KnownSame DEF QueueInv, SilentInv
<1>5. \A j \in Kinds \ {k} : \A i : <<j, i>> # Handle(k)
  BY <1>1
<1>6. ASSUME NEW j \in Kinds \ {k} PROVE Frame(j)
  BY <1>2, <1>5, KindFacts DEF Frame
<1>7. Coming(k)'
  BY <1>1, <1>2 DEF Coming, Queued
<1> QED BY <1>1, <1>2, <1>3, <1>4, <1>6, <1>7 DEF QueueInv

LEMMA PipeFacts ==
  ASSUME QueueInv, PipeInv
  PROVE  /\ ObjectsInv /\ SeqInv /\ "pipe" \in Kinds /\ "pipe" \notin Peers \cup AtFirst /\ "pipe" # "loop"
         /\ client \in [Clients -> {"out", "waits", "left", "served"}]
         /\ inst \in {"listening", "connected", "broken", "disconnected"}
         /\ op \in {"none", "pending", "done"} /\ active \in BOOLEAN /\ named \in BOOLEAN
         /\ \A c \in Clients : c \in Waiting <=> client[c] \in {"waits", "left"}
         /\ \A c \in Clients : c \in Waiting' <=> client'[c] \in {"waits", "left"}
         /\ Waiting \subseteq Clients /\ Waiting' \subseteq Clients
         /\ at = "pipe" => cur["pipe"] # 0
         /\ cur["pipe"] # 0 => Pipe \in Objects
         /\ Pipe = <<"pipe", cur["pipe"]>> /\ Pipe' = <<"pipe", cur'["pipe"]>>
<1>1. ObjectsInv /\ SeqInv /\ "pipe" \in Kinds /\ "pipe" \notin Peers \cup AtFirst
  BY KindFacts DEF QueueInv, OwnKinds, AtFirst
<1>2. cur["pipe"] # 0 => Pipe \in Objects
  BY <1>1, HandleFacts DEF Pipe
<1> QED BY <1>1, <1>2 DEF PipeInv, PipeTypeOK, Waiting, Pipe, Handle, ObjectsInv

LEMMA PipeServed ==
  ASSUME QueueInv, PipeInv, Serve, at = "pipe", sys = "windows" => inst' = "disconnected",
         sys # "windows" => inst' = inst
  PROVE  PipeInv'
<1>1. PICK c \in Waiting : client' = [client EXCEPT ![c] = "served"]
  BY DEF Serve
<1>2. op' = "none" /\ active' = FALSE /\ UNCHANGED <<sys, cur, at, named>>
  BY DEF Serve, Stay
<1>3. PipeTypeOK'
  <2>1. active' \in BOOLEAN
    BY <1>2, Zenon
  <2> QED BY <1>1, <1>2, <2>1, PipeFacts DEF PipeTypeOK
<1>4. sys = "windows" => \A d \in Clients : client'[d] \notin {"waits", "left"}
  BY <1>1, PipeFacts DEF PipeInv
<1>5. Coming("pipe")' /\ cur'["pipe"] # 0
  BY <1>2, PipeFacts DEF Coming
<1> QED BY <1>2, <1>3, <1>4, <1>5, PipeFacts DEF PipeInv

LEMMA PipeHandled ==
  ASSUME QueueInv, PipeInv, PipeHandling, uses' = uses
  PROVE  QueueInv' /\ PipeInv' /\ sys' = sys /\ \A k \in Kinds \ {"pipe"} : Frame(k)
<1> DEFINE F == \A k \in Kinds \ {"pipe"} : Frame(k)
<1>1. CASE AcceptUnix \/ AcceptResult \/ AcceptConnected
  <2>1. /\ Serve /\ Stay /\ at = "pipe" /\ (sys = "windows" => inst' = "disconnected")
        /\ sys # "windows" => inst' = inst
    BY <1>1 DEF AcceptUnix, AcceptResult, AcceptConnected, ServeUnix, ServeWindows, Serve
  <2>2. QueueInv' /\ F /\ sys' = sys
    BY <2>1, StayQ DEF Stay
  <2>3. PipeInv'
    BY <2>1, PipeServed
  <2> QED BY <2>2, <2>3
<1>2. CASE AcceptBegin
  <2>1. /\ at = "pipe" /\ sys = "windows" /\ inst \in {"listening", "disconnected"} /\ inst' = "listening"
        /\ op' = "pending" /\ active' = TRUE /\ Return /\ UNCHANGED <<client, named, sys, cur>> /\ at' = "loop"
    BY <1>2 DEF AcceptBegin, Begun, Return
  <2>2. QueueInv' /\ F
    BY <2>1, ReturnQ
  <2>3. PipeTypeOK'
    <3>1. active' \in BOOLEAN
      BY <2>1, Zenon
    <3> QED BY <2>1, <3>1, PipeFacts DEF PipeTypeOK
  <2>4. Waiting = {} /\ Waiting' = {}
    BY <2>1, PipeFacts DEF PipeInv
  <2>5. PipeInv'
    BY <2>1, <2>3, <2>4, PipeFacts DEF PipeInv
  <2> QED BY <2>1, <2>2, <2>5
<1>3. CASE AcceptWaits
  <2>1. /\ at = "pipe" /\ (IF sys = "windows" THEN active /\ op # "done" ELSE Waiting = {})
        /\ Return /\ UNCHANGED <<client, inst, op, active, named, sys, cur>> /\ at' = "loop"
    BY <1>3 DEF AcceptWaits, Accepted, Return, pipeVars
  <2>2. QueueInv' /\ F
    BY <2>1, ReturnQ
  <2>3. PipeTypeOK' /\ Waiting' = Waiting
    BY <2>1, PipeFacts DEF PipeTypeOK, Waiting
  <2>4. sys = "windows" => op = "pending"
    BY <2>1, PipeFacts DEF PipeInv
  <2>5. PipeInv'
    BY <2>1, <2>3, <2>4, PipeFacts DEF PipeInv
  <2> QED BY <2>1, <2>2, <2>5
<1>4. CASE AcceptBroken
  <2>1. /\ at = "pipe" /\ sys = "windows" /\ ~active /\ inst = "broken" /\ inst' = "disconnected" /\ op' = "none"
        /\ client' = [c \in Clients |-> IF client[c] = "left" THEN "served" ELSE client[c]]
        /\ Stay /\ UNCHANGED <<active, named, sys, cur, at>>
    BY <1>4 DEF AcceptBroken, Stay
  <2>2. QueueInv' /\ F
    BY <2>1, StayQ
  <2>3. PipeTypeOK'
    BY <2>1, PipeFacts DEF PipeTypeOK
  <2>4. \A c \in Clients : client'[c] \notin {"waits", "left"}
    BY <2>1, PipeFacts DEF PipeInv
  <2>5. PipeInv'
    BY <2>1, <2>3, <2>4, PipeFacts DEF PipeInv
  <2> QED BY <2>1, <2>2, <2>5
<1> QED BY <1>1, <1>2, <1>3, <1>4 DEF PipeHandling

LEMMA PipeOpened ==
  ASSUME QueueInv, PipeInv, PipeCreateUnix \/ PipeCreateWindows, ~Server, uses' = uses
  PROVE  QueueInv' /\ PipeInv' /\ sys' = sys /\ \A k \in Kinds \ {"pipe"} : Frame(k)
<1>1. /\ at = "loop" /\ New({"pipe"}) /\ live' = live \cup {<<"pipe", made'["pipe"]>>} /\ at' = "pipe"
      /\ UNCHANGED <<sys, held, full, ready, batch, client, op, active>>
      /\ (IF sys = "windows" THEN inst' = "listening" /\ named' = named ELSE inst' = inst /\ named' = TRUE)
  BY DEF PipeCreateUnix, PipeCreateWindows, PipeNew
<1> DEFINE ks == {"pipe"}
           os == {}
<1>2. /\ ks \in SUBSET Kinds /\ (\A k \in AtFirst : k \notin ks) /\ os \in SUBSET Objects /\ New(ks)
      /\ (\A o \in os : o[1] \in ks) /\ ks \in SUBSET ks /\ at' \in {at} \cup ks /\ (ready' = ready /\ os = {})
      /\ live' = live \cup {<<k, made'[k]>> : k \in ks} /\ UNCHANGED <<sys, held, full, batch, uses>>
  BY <1>1, PipeFacts
<1>3. /\ QueueInv' /\ \A k \in {"pipe"} : cur[k] = 0 /\ cur'[k] # 0
      /\ \A k \in Kinds \ {"pipe"} : at = "loop" \/ at' = at => Frame(k)
  <2> HIDE DEF ks, os
  <2>1. /\ QueueInv' /\ \A k \in ks : cur[k] = 0 /\ cur'[k] # 0
        /\ \A k \in Kinds \ ks : at = "loop" \/ at' = at => Frame(k)
    BY <1>2, NewQ
  <2> QED BY <2>1 DEF ks
<1>4. cur["pipe"] = 0 /\ Waiting = {} /\ op = "none" /\ ~active
  BY <1>3 DEF PipeInv
<1>5. PipeTypeOK'
  <2>1. named' \in BOOLEAN
    BY <1>1, PipeFacts, Zenon
  <2> QED BY <1>1, <2>1, PipeFacts DEF PipeTypeOK
<1>6. \A c \in Clients : client'[c] \notin {"waits", "left"}
  BY <1>1, <1>4, PipeFacts
<1>7. PipeInv'
  BY <1>1, <1>3, <1>4, <1>5, <1>6, PipeFacts DEF PipeInv
<1> QED BY <1>1, <1>3, <1>7

LEMMA PipeClosed ==
  ASSUME QueueInv, PipeInv, PipeCloseUnix \/ PipeCloseWindows, uses' = uses
  PROVE  QueueInv' /\ PipeInv' /\ sys' = sys /\ \A k \in Kinds \ {"pipe"} : Frame(k)
<1>1. /\ at = "loop" /\ Forget({"pipe"}) /\ active' = FALSE /\ op' = "none"
      /\ client' = [c \in Clients |-> IF c \in Waiting THEN "out" ELSE client[c]]
      /\ UNCHANGED <<sys, made, held, batch, at, inst, named>>
  BY DEF PipeCloseUnix, PipeCloseWindows, PipeForget
<1>2. {"pipe"} \in SUBSET (Kinds \ (Peers \cup AtFirst)) /\ {Handle(k) : k \in {"pipe"}} = {Pipe} /\ cur["pipe"] # 0
  BY <1>1, PipeFacts DEF Pipe, Forget
<1>3. QueueInv' /\ (\A k \in {"pipe"} : cur'[k] = 0) /\ \A k \in Kinds \ {"pipe"} : Frame(k)
  <2>1. CASE sys # "windows"
    <3>1. Drop({Pipe})
      BY <2>1 DEF PipeCloseUnix, PipeCloseWindows
    <3> QED BY <1>1, <1>2, <2>1, <3>1, ForgetQ
  <2>2. CASE sys = "windows"
    <3>1. ready' = (IF op = "pending" THEN ReadyWith({Pipe}) ELSE ready) /\ UNCHANGED <<live, full>>
      BY <2>2 DEF PipeCloseUnix, PipeCloseWindows
    <3>2. CASE op = "pending"
      <4>1. {Pipe} \in SUBSET Objects /\ (\A o \in {Pipe} : o[1] \in {"pipe"}) /\ ready' = ReadyWith({Pipe})
        BY <1>2, <3>1, <3>2, PipeFacts
      <4> QED BY <1>1, <1>2, <2>2, <3>1, <4>1, ForgetOnlyQ
    <3>3. CASE op # "pending"
      <4>1. {} \in SUBSET Objects /\ (\A o \in {} : o[1] \in {"pipe"}) /\ ready' = ready
        BY <3>1, <3>3
      <4> QED BY <1>1, <1>2, <2>2, <3>1, <4>1, ForgetOnlyQ
    <3> QED BY <3>2, <3>3
  <2> QED BY <2>1, <2>2
<1>4. PipeTypeOK'
  <2>1. active' \in BOOLEAN
    BY <1>1, Zenon
  <2> QED BY <1>1, <2>1, PipeFacts DEF PipeTypeOK
<1>5. \A c \in Clients : client'[c] \notin {"waits", "left"}
  BY <1>1, PipeFacts
<1>6. PipeInv'
  BY <1>1, <1>3, <1>4, <1>5, PipeFacts DEF PipeInv
<1> QED BY <1>1, <1>3, <1>6

LEMMA PipeConnected ==
  ASSUME QueueInv, PipeInv, NEW c \in Clients, ConnectUnix(c) \/ ConnectWindows(c), uses' = uses
  PROVE  QueueInv' /\ PipeInv' /\ sys' = sys /\ \A k \in Kinds \ {"pipe"} : Frame(k)
<1>1. /\ cur["pipe"] # 0 /\ client[c] = "out" /\ client' = [client EXCEPT ![c] = "waits"]
      /\ UNCHANGED <<sys, made, cur, live, held, full, batch, at, active, named>>
  BY DEF ConnectUnix, ConnectWindows, ConnectNew
<1>2. CASE sys # "windows"
  <2>1. ready' = ReadyWith({Pipe}) /\ inst' = inst /\ op' = op
    BY <1>2 DEF ConnectUnix, ConnectWindows
  <2>2. QueueInv' /\ Coming("pipe")' /\ \A k \in Kinds \ {"pipe"} : Frame(k)
    BY <1>1, <2>1, ToldQ, PipeFacts DEF Pipe
  <2>3. PipeTypeOK'
    BY <1>1, <2>1, PipeFacts DEF PipeTypeOK
  <2>4. PipeInv'
    BY <1>1, <1>2, <2>1, <2>2, <2>3 DEF PipeInv
  <2> QED BY <1>1, <2>2, <2>4
<1>3. CASE sys = "windows"
  <2>1. /\ inst = "listening" /\ inst' = "connected" /\ op' = (IF op = "pending" THEN "done" ELSE op)
        /\ ready' = IF op = "pending" THEN ReadyWith({Pipe}) ELSE ready
    BY <1>3 DEF ConnectUnix, ConnectWindows
  <2>2. /\ QueueInv' /\ (\A k \in Kinds \ {"pipe"} : Frame(k)) /\ Pipe' = Pipe
        /\ op = "pending" => Pipe \in Queued'
        /\ Pipe \in Queued \cup Fetched => Pipe \in Queued' \cup Fetched'
    <3>1. CASE op = "pending"
      BY <1>1, <2>1, <3>1, ToldQ, PipeFacts DEF Pipe
    <3>2. CASE op # "pending"
      <4>1. Stay
        BY <1>1, <2>1, <3>2 DEF Stay
      <4> QED BY <1>1, <3>2, <4>1, StayQ, PipeFacts
    <3> QED BY <3>1, <3>2
  <2>3. PipeTypeOK'
    BY <1>1, <2>1, PipeFacts DEF PipeTypeOK
  <2>4. \A d \in Clients : client[d] \notin {"waits", "left"} /\ (d # c => client'[d] = client[d]) /\ client'[c] = "waits"
    BY <1>1, <1>3, <2>1, PipeFacts DEF PipeInv
  <2>5. \A d \in Waiting' : d = c
    BY <2>4, PipeFacts
  <2>6. at # "pipe" => op' = "done" /\ Pipe' \in Queued' \cup Fetched'
    BY <1>1, <1>3, <2>1, <2>2 DEF PipeInv
  <2>7. active' <=> op' # "none"
    BY <1>1, <2>1 DEF PipeInv
  <2>8. PipeInv'
    BY <1>1, <1>3, <2>1, <2>3, <2>4, <2>5, <2>6, <2>7 DEF PipeInv
  <2> QED BY <1>1, <2>2, <2>8
<1> QED BY <1>2, <1>3

LEMMA PipeStep ==
  ASSUME QueueInv, PipeInv, PipeHandling \/ ("pipe" \in uses /\ PipeOther), uses' = uses
  PROVE  QueueInv' /\ PipeInv' /\ sys' = sys /\ \A k \in Kinds \ {"pipe"} : Frame(k)
<1> DEFINE G == QueueInv' /\ PipeInv' /\ sys' = sys /\ \A k \in Kinds \ {"pipe"} : Frame(k)
<1>1. CASE AcceptEarly
  <2>1. /\ at = "loop" /\ batch = <<>> /\ active /\ at' = "pipe"
        /\ UNCHANGED <<sys, made, cur, live, held, full, ready, batch, client, inst, op, active, named>>
    BY <1>1 DEF AcceptEarly, pipeVars
  <2>2. cur["pipe"] # 0
    BY <2>1 DEF PipeInv
  <2>3. QueueInv' /\ \A k \in Kinds \ {"pipe"} : Frame(k)
    BY <2>1, <2>2, TurnQ, PipeFacts
  <2>4. PipeTypeOK' /\ Coming("pipe")' /\ Waiting' = Waiting
    BY <2>1, PipeFacts DEF PipeTypeOK, Coming, Waiting
  <2>5. PipeInv'
    BY <2>1, <2>4 DEF PipeInv
  <2> QED BY <2>1, <2>3, <2>5
<1>2. CASE PipeRemove
  <2>1. named' = FALSE /\ Stay /\ UNCHANGED <<client, inst, op, active>> /\ cur["pipe"] = 0 /\ UNCHANGED <<sys, cur>>
    BY <1>2 DEF PipeRemove, Stay
  <2>2. QueueInv' /\ \A k \in Kinds \ {"pipe"} : Frame(k)
    BY <2>1, StayQ
  <2>3. PipeTypeOK'
    <3>1. named' \in BOOLEAN
      BY <2>1, Zenon
    <3> QED BY <2>1, <3>1, PipeFacts DEF PipeTypeOK
  <2>4. Waiting' = Waiting
    BY <2>1 DEF Waiting
  <2>5. PipeInv'
    BY <2>1, <2>3, <2>4 DEF PipeInv
  <2> QED BY <2>1, <2>2, <2>5
<1>3. ASSUME NEW c \in Clients, Leave(c) PROVE G
  <2>1. /\ client[c] = "waits" /\ client' = [client EXCEPT ![c] = "left"]
        /\ inst' = (IF sys = "windows" THEN "broken" ELSE inst)
        /\ Stay /\ UNCHANGED <<sys, cur, at, op, active, named>>
    BY <1>3 DEF Leave, kqVars, Stay
  <2>2. QueueInv' /\ Queued' = Queued /\ Fetched' = Fetched /\ \A k \in Kinds \ {"pipe"} : Frame(k)
    BY <2>1, StayQ
  <2>3. PipeTypeOK'
    BY <2>1, PipeFacts DEF PipeTypeOK
  <2>4. Waiting' = Waiting /\ Pipe' = Pipe
    BY <2>1, PipeFacts
  <2>5. Coming("pipe")' <=> Coming("pipe")
    BY <2>1, <2>2, <2>4 DEF Coming, Queued, Fetched, Pipe
  <2>6. sys = "windows" => inst = "connected" /\ \A d \in Clients : client'[d] # "waits"
    BY <2>1, PipeFacts DEF PipeInv
  <2>7. PipeInv'
    BY <2>1, <2>2, <2>3, <2>4, <2>5, <2>6 DEF PipeInv
  <2> QED BY <2>1, <2>2, <2>7
<1> HIDE DEF G
<1>5. CASE PipeHandling
  BY <1>5, PipeHandled DEF G
<1>6. CASE "pipe" \in uses /\ (PipeCreateUnix \/ PipeCreateWindows)
  <2>1. ~Server
    BY <1>6 DEF Server
  <2> QED BY <1>6, <2>1, PipeOpened DEF G
<1>7. CASE PipeCloseUnix \/ PipeCloseWindows
  BY <1>7, PipeClosed DEF G
<1>8. ASSUME NEW c \in Clients, ConnectUnix(c) \/ ConnectWindows(c) PROVE G
  BY <1>8, PipeConnected DEF G
<1>9. G
  BY <1>1, <1>2, <1>3, <1>5, <1>6, <1>7, <1>8 DEF PipeOther, G
<1> QED BY <1>9 DEF G

-----------------------------------------------------------------------------
(* The terminal, and the datagram socket. *)

LEMMA KeyStep ==
  ASSUME QueueInv, KeyInv, KeyHandling \/ (\E k \in Keys : KeyType(k)), uses' = uses
  PROVE  QueueInv' /\ KeyInv' /\ sys' = sys /\ \A k \in Kinds \ {"stdin"} : Frame(k)
<1>1. "stdin" \in Kinds /\ cur["stdin"] # 0
  BY KindFacts DEF QueueInv, ObjectsInv, AtFirst, OwnKinds
<1>2. CASE \E k \in Keys : KeyType(k)
  <2>1. ready' = ReadyWith({Handle("stdin")}) /\ UNCHANGED <<sys, made, cur, live, held, full, batch, at>>
    BY <1>2 DEF KeyType, Stdin
  <2> QED BY <1>1, <2>1, ToldQ DEF KeyInv
<1>3. CASE KeyRead \/ KeyParse
  <2>1. at = "stdin" /\ Stay
    BY <1>3 DEF KeyRead, KeyParse
  <2>2. Coming("stdin")' /\ sys' = sys
    BY <2>1 DEF Stay, Coming
  <2> QED BY <2>1, <2>2, StayQ DEF KeyInv
<1>4. CASE KeyReturn
  <2>1. at = "stdin" /\ tty = <<>> /\ Return /\ tty' = tty /\ sys' = sys
    BY <1>4 DEF KeyReturn, KeyEmpty, keyVars, Return
  <2> QED BY <2>1, ReturnQ DEF KeyInv
<1> QED BY <1>2, <1>3, <1>4 DEF KeyHandling

\* What the datagrams' order rests on.
LEMMA ConcatAppend ==
  ASSUME NEW s \in Seq(Nat), NEW q \in Seq(Nat), NEW x \in Nat
  PROVE  s \o Append(q, x) = Append(s \o q, x)
<1>1. Append(q, x) = q \o <<x>> /\ <<x>> \in Seq(Nat) /\ s \o q \in Seq(Nat)
  BY AppendIsConcat, ConcatProperties
<1>2. (s \o q) \o <<x>> = s \o (q \o <<x>>)
  BY <1>1, ConcatAssociative, SMTT(30)
<1>3. Append(s \o q, x) = (s \o q) \o <<x>>
  BY <1>1, AppendIsConcat
<1> QED BY <1>1, <1>2, <1>3

LEMMA DatagramSeqs ==
  ASSUME NEW s \in Seq(Nat), NEW q \in Seq(Nat), NEW x \in Nat
  PROVE  /\ s \o <<>> = s /\ s \o <<x>> = Append(s, x) /\ Append(s, x) \in Seq(Nat)
         /\ q # <<>> => /\ Head(q) \in Nat /\ Tail(q) \in Seq(Nat)
                        /\ Append(s, Head(q)) \o Tail(q) = s \o q
<1>1. s \o <<>> = s /\ s \o <<x>> = Append(s, x) /\ Append(s, x) \in Seq(Nat)
  BY ConcatEmptySeq, AppendIsConcat, AppendProperties
<1>2. ASSUME q # <<>> PROVE Head(q) \in Nat /\ Tail(q) \in Seq(Nat) /\ Append(s, Head(q)) \o Tail(q) = s \o q
  <2>1. Head(q) \in Nat /\ Tail(q) \in Seq(Nat) /\ Len(q) \in Nat \ {0}
    BY <1>2, HeadTailProperties, EmptySeq
  <2>2. q = <<Head(q)>> \o Tail(q)
    <3>1. /\ Tail(q) = SubSeq(q, 2, Len(q)) /\ 1 \in 1..Len(q) /\ Len(q) \in 1..Len(q)
          /\ Head(q) = q[1] /\ SubSeq(q, 1, Len(q)) = q
      BY <1>2, <2>1, TailIsSubSeq, SubSeqFull
    <3>2. SubSeq(q, 1, Len(q)) = <<q[1]>> \o SubSeq(q, 1 + 1, Len(q))
      BY <3>1, SubSeqRecursiveFirst
    <3> QED BY <3>1, <3>2
  <2>3. Append(s, Head(q)) = s \o <<Head(q)>> /\ <<Head(q)>> \in Seq(Nat)
    BY <2>1, AppendIsConcat
  <2>4. (s \o <<Head(q)>>) \o Tail(q) = s \o (<<Head(q)>> \o Tail(q))
    BY <2>1, <2>3, ConcatAssociative, SMTT(30)
  <2> QED BY <2>1, <2>2, <2>3, <2>4
<1> QED BY <1>1, <1>2

LEMMA NextDatagram ==
  ASSUME NEW n \in Nat
  PROVE  Append([i \in 1..n |-> i], n + 1) = [i \in 1..(n + 1) |-> i]
<1> DEFINE s == [i \in 1..n |-> i]
           t == [i \in 1..(n + 1) |-> i]
<1>1. s \in Seq(Nat) /\ t \in Seq(Nat) /\ Len(s) = n /\ Len(t) = n + 1
  OBVIOUS
<1>2. \A i \in 1..n : s[i] = i
  OBVIOUS
<1>3. \A i \in 1..(n + 1) : t[i] = i
  OBVIOUS
<1> HIDE DEF s, t
<1>4. /\ Append(s, n + 1) \in Seq(Nat) /\ Len(Append(s, n + 1)) = n + 1 /\ Append(s, n + 1)[n + 1] = n + 1
      /\ \A i \in 1..n : Append(s, n + 1)[i] = s[i]
  BY <1>1, AppendProperties
<1>5. ASSUME NEW i \in 1..(n + 1) PROVE Append(s, n + 1)[i] = t[i]
  <2>1. CASE i = n + 1
    BY <1>3, <1>4, <2>1
  <2>2. CASE i # n + 1
    <3>1. i \in 1..n
      BY <2>2
    <3> QED BY <1>2, <1>3, <1>4, <3>1
  <2> QED BY <2>1, <2>2
<1>6. Append(s, n + 1) = t
  BY <1>1, <1>4, <1>5, SeqEqual
<1> QED BY <1>6 DEF s, t

UdpHeld == IF io = "done" THEN <<buf>> ELSE <<>>
UdpTypes == arrived \in Nat /\ queue \in Seq(Nat) /\ heard \in Seq(Nat) /\ buf \in Nat

LEMMA UdpFacts ==
  ASSUME QueueInv, UdpInv
  PROVE  /\ UdpTypes /\ UdpHeld \in Seq(Nat) /\ heard \o UdpHeld \in Seq(Nat)
         /\ (heard \o UdpHeld) \o queue = [i \in 1..arrived |-> i]
         /\ DatagramsAreKept' <=> (heard' \o UdpHeld') \o queue' = [i \in 1..arrived' |-> i]
         /\ "udp" \in Kinds /\ cur["udp"] # 0 /\ (at = "udp" => "udp" \in uses)
         /\ io \in {"none", "try", "pending", "done", "failed"} /\ (sys # "windows" => io = "none")
         /\ heard \o <<>> = heard
<1>1. UdpTypes /\ UdpHeld \in Seq(Nat)
  BY DEF UdpInv, UdpTypes, UdpHeld
<1>2. heard \o UdpHeld \in Seq(Nat) /\ heard \o <<>> = heard
  BY <1>1, ConcatProperties, ConcatEmptySeq DEF UdpTypes
<1>3. (heard \o UdpHeld) \o queue = [i \in 1..arrived |-> i]
  BY DEF UdpInv, DatagramsAreKept, UdpHeld
<1>4. DatagramsAreKept' <=> (heard' \o UdpHeld') \o queue' = [i \in 1..arrived' |-> i]
  BY DEF DatagramsAreKept, UdpHeld
<1>5. "udp" \in Kinds /\ cur["udp"] # 0
  BY KindFacts DEF QueueInv, ObjectsInv, AtFirst, OwnKinds
<1> QED BY <1>1, <1>2, <1>3, <1>4, <1>5 DEF UdpInv

\* The user goes on calling.
LEMMA UdpStays ==
  ASSUME QueueInv, UdpInv, at = "udp", Stay, uses' = uses, UdpTypes', DatagramsAreKept',
         io' \in {"none", "try"}, sys # "windows" => io' = "none"
  PROVE  QueueInv' /\ UdpInv' /\ sys' = sys /\ \A k \in Kinds \ {"udp"} : Frame(k)
<1>1. sys' = sys /\ at' = "udp" /\ Coming("udp")'
  BY DEF Stay, Coming
<1>2. QueueInv' /\ \A k \in Kinds : Frame(k)
  BY StayQ
<1>3. UdpInv'
  BY <1>1, UdpFacts DEF UdpInv, UdpTypes
<1> QED BY <1>1, <1>2, <1>3

LEMMA UdpHandled ==
  ASSUME QueueInv, UdpInv, UdpHandling, uses' = uses
  PROVE  QueueInv' /\ UdpInv' /\ sys' = sys /\ \A k \in Kinds \ {"udp"} : Frame(k)
<1>1. CASE RecvDone
  <2>1. /\ at = "udp" /\ io = "done" /\ heard' = Append(heard, buf) /\ Stay /\ io' = "none"
        /\ UNCHANGED <<arrived, queue, buf>>
    BY <1>1 DEF RecvDone, Hear, RecvResult
  <2>2. UdpHeld = <<buf>> /\ UdpHeld' = <<>>
    BY <2>1 DEF UdpHeld
  <2>3. heard' = heard \o <<buf>> /\ heard' \in Seq(Nat) /\ heard' \o <<>> = heard'
    <3>1. heard \in Seq(Nat) /\ buf \in Nat
      BY UdpFacts DEF UdpTypes
    <3>2. Append(heard, buf) \in Seq(Nat) /\ heard \o <<buf>> = Append(heard, buf)
      BY <3>1, DatagramSeqs
    <3> QED BY <2>1, <3>2, ConcatEmptySeq
  <2>4. DatagramsAreKept'
    BY <2>1, <2>2, <2>3, UdpFacts
  <2>5. UdpTypes'
    BY <2>1, <2>3, UdpFacts DEF UdpTypes
  <2> QED BY <2>1, <2>4, <2>5, UdpStays
<1>2. CASE RecvFailed \/ RecvError \/ RecvTry \/ RecvBeginFails
  <2>1. /\ at = "udp" /\ io # "done" /\ io' \in {"none", "try"} /\ Stay /\ UNCHANGED <<arrived, queue, buf, heard>>
        /\ sys # "windows" => io' = "none"
    BY <1>2, UdpFacts DEF RecvFailed, RecvError, RecvTry, RecvBeginFails, CallsRecv
  <2>2. UdpHeld = <<>> /\ UdpHeld' = <<>>
    BY <2>1 DEF UdpHeld
  <2>3. DatagramsAreKept' /\ UdpTypes'
    BY <2>1, <2>2, UdpFacts DEF UdpTypes
  <2> QED BY <2>1, <2>3, UdpStays
<1>3. CASE RecvNow
  <2>1. /\ at = "udp" /\ io = "none" /\ queue # <<>> /\ buf' = Head(queue) /\ queue' = Tail(queue)
        /\ heard' = Append(heard, Head(queue)) /\ Stay /\ UNCHANGED <<arrived, io>>
    BY <1>3 DEF RecvNow, CallsRecv, Hear
  <2>2. UdpHeld = <<>> /\ UdpHeld' = <<>>
    BY <2>1 DEF UdpHeld
  <2>3. heard \in Seq(Nat) /\ queue \in Seq(Nat) /\ arrived \in Nat
    BY UdpFacts DEF UdpTypes
  <2>4. Head(queue) \in Nat /\ Tail(queue) \in Seq(Nat) /\ Append(heard, Head(queue)) \o Tail(queue) = heard \o queue
    BY <2>1, <2>3, DatagramSeqs
  <2>5. heard' \in Seq(Nat) /\ heard' \o <<>> = heard'
    BY <2>1, <2>3, <2>4, AppendProperties, ConcatEmptySeq
  <2>6. DatagramsAreKept'
    BY <2>1, <2>2, <2>4, <2>5, UdpFacts
  <2>7. UdpTypes'
    BY <2>1, <2>3, <2>4, <2>5 DEF UdpTypes
  <2> QED BY <2>1, <2>6, <2>7, UdpStays
<1>4. CASE RecvWaits
  <2>1. /\ at = "udp" /\ Return /\ sys' = sys /\ at' = "loop" /\ UNCHANGED <<arrived, queue, soError, io, buf, heard>>
        /\ IF sys = "windows" THEN io = "pending" ELSE queue = <<>> /\ soError # "refused"
    BY <1>4 DEF RecvWaits, Return
  <2>2. QueueInv' /\ \A k \in Kinds \ {"udp"} : Frame(k)
    BY <2>1, ReturnQ
  <2>3. DatagramsAreKept' <=> DatagramsAreKept
    BY <2>1 DEF DatagramsAreKept
  <2>4. UdpInv'
    BY <2>1, <2>3, UdpFacts DEF UdpInv
  <2> QED BY <2>1, <2>2, <2>4
<1>5. CASE RecvBegin /\ queue = <<>>
  <2>1. /\ at = "udp" /\ io = "try" /\ soError # "refused" /\ at' = "loop" /\ io' = "pending" /\ Return /\ sys' = sys
        /\ UNCHANGED <<arrived, queue, soError, buf, heard>> /\ sys = "windows"
    BY <1>5, UdpFacts DEF RecvBegin, Return
  <2>2. QueueInv' /\ \A k \in Kinds \ {"udp"} : Frame(k)
    BY <2>1, ReturnQ
  <2>3. UdpHeld = <<>> /\ UdpHeld' = <<>>
    BY <2>1 DEF UdpHeld
  <2>4. DatagramsAreKept'
    BY <2>1, <2>3, UdpFacts
  <2>5. UdpInv'
    BY <1>5, <2>1, <2>4, UdpFacts DEF UdpInv
  <2> QED BY <2>1, <2>2, <2>5
<1>6. CASE RecvBegin /\ queue # <<>>
  <2>1. /\ at = "udp" /\ io = "try" /\ at' = "loop" /\ io' = "done" /\ buf' = Head(queue) /\ queue' = Tail(queue)
        /\ ready' = ReadyWith({Handle("udp")}) /\ sys = "windows"
        /\ UNCHANGED <<sys, made, cur, live, held, full, batch, arrived, heard>>
    BY <1>6, UdpFacts DEF RecvBegin, Udp
  <2>2. QueueInv' /\ Coming("udp")' /\ \A k \in Kinds \ {"udp"} : Frame(k)
    BY <2>1, ToldQ, UdpFacts
  <2>3. heard \in Seq(Nat) /\ queue \in Seq(Nat) /\ arrived \in Nat
    BY UdpFacts DEF UdpTypes
  <2>4. Head(queue) \in Nat /\ Tail(queue) \in Seq(Nat) /\ Append(heard, Head(queue)) \o Tail(queue) = heard \o queue
    BY <1>6, <2>3, DatagramSeqs
  <2>5. heard \o <<Head(queue)>> = Append(heard, Head(queue))
    BY <2>3, <2>4, DatagramSeqs
  <2>6. UdpHeld = <<>> /\ UdpHeld' = <<Head(queue)>>
    BY <2>1 DEF UdpHeld
  <2>7. DatagramsAreKept'
    BY <2>1, <2>4, <2>5, <2>6, UdpFacts
  <2>8. UdpInv'
    BY <2>1, <2>2, <2>3, <2>4, <2>7, UdpFacts DEF UdpInv
  <2> QED BY <2>1, <2>2, <2>8
<1> QED BY <1>1, <1>2, <1>3, <1>4, <1>5, <1>6 DEF UdpHandling

LEMMA UdpTold ==
  ASSUME QueueInv, UdpInv, UdpNotify, UdpElse, uses' = uses
  PROVE  /\ QueueInv' /\ sys' = sys /\ at' = at /\ \A k \in Kinds \ {"udp"} : Frame(k)
         /\ sys # "windows" \/ io = "pending" => Coming("udp")'
         /\ Coming("udp") => Coming("udp")'
<1>1. UNCHANGED <<sys, made, cur, live, held, full, batch, at>>
  BY DEF UdpElse
<1>2. CASE sys = "windows" /\ io # "pending"
  <2>1. Stay
    BY <1>1, <1>2 DEF UdpNotify, Stay
  <2>2. QueueInv' /\ \A k \in Kinds : Frame(k)
    BY <2>1, StayQ
  <2>3. Coming("udp") => Coming("udp")'
    BY <2>2, UdpFacts, ComingFrame
  <2> QED BY <1>1, <1>2, <2>2, <2>3
<1>3. CASE ~(sys = "windows" /\ io # "pending")
  <2>1. ready' = ReadyWith({Handle("udp")})
    BY <1>3 DEF UdpNotify, Udp
  <2> QED BY <1>1, <2>1, ToldQ, UdpFacts
<1> QED BY <1>2, <1>3

LEMMA UdpStep ==
  ASSUME QueueInv, UdpInv, UdpHandling \/ ("udp" \in uses /\ UdpOther), uses' = uses
  PROVE  QueueInv' /\ UdpInv' /\ sys' = sys /\ \A k \in Kinds \ {"udp"} : Frame(k)
<1>1. CASE "udp" \in uses /\ Arrive
  <2>1. /\ arrived' = arrived + 1 /\ UdpNotify /\ UdpElse /\ UNCHANGED <<soError, heard>>
        /\ io = "pending" => io' = "done" /\ buf' = arrived + 1 /\ queue' = queue
        /\ io # "pending" => queue' = Append(queue, arrived + 1) /\ UNCHANGED <<io, buf>>
    BY <1>1 DEF Arrive, UdpElse
  <2>2. heard \in Seq(Nat) /\ queue \in Seq(Nat) /\ arrived \in Nat /\ arrived + 1 \in Nat /\ buf \in Nat
    BY UdpFacts DEF UdpTypes
  <2>3. DatagramsAreKept' /\ queue' \in Seq(Nat) /\ buf' \in Nat
    <3>1. CASE io = "pending"
      <4>1. UdpHeld = <<>> /\ UdpHeld' = <<arrived + 1>> /\ queue = <<>>
        BY <2>1, <3>1 DEF UdpHeld, UdpInv
      <4>2. heard = [i \in 1..arrived |-> i]
        BY <4>1, UdpFacts
      <4>3. heard \o <<arrived + 1>> = Append(heard, arrived + 1) /\ Append(heard, arrived + 1) \in Seq(Nat)
        BY <2>2, DatagramSeqs
      <4>4. Append(heard, arrived + 1) \o <<>> = Append(heard, arrived + 1)
        BY <4>3, ConcatEmptySeq
      <4>5. Append(heard, arrived + 1) = [i \in 1..(arrived + 1) |-> i]
        BY <2>2, <4>2, NextDatagram
      <4>6. (heard' \o UdpHeld') \o queue' = [i \in 1..(arrived + 1) |-> i]
        BY <2>1, <3>1, <4>1, <4>3, <4>4, <4>5
      <4> QED BY <2>1, <2>2, <3>1, <4>6, UdpFacts
    <3>2. CASE io # "pending"
      <4>1. UdpHeld' = UdpHeld
        BY <2>1, <3>2 DEF UdpHeld
      <4> DEFINE s == heard \o UdpHeld
      <4>2. s \in Seq(Nat) /\ s \o queue = [i \in 1..arrived |-> i]
        BY UdpFacts
      <4> HIDE DEF s
      <4>3. s \o Append(queue, arrived + 1) = Append(s \o queue, arrived + 1)
        BY <2>2, <4>2, ConcatAppend
      <4>4. s \o Append(queue, arrived + 1) = [i \in 1..(arrived + 1) |-> i]
        BY <2>2, <4>2, <4>3, NextDatagram
      <4>5. (heard' \o UdpHeld') \o queue' = [i \in 1..(arrived + 1) |-> i]
        BY <2>1, <3>2, <4>1, <4>4 DEF s
      <4>6. Append(queue, arrived + 1) \in Seq(Nat)
        BY <2>2, AppendProperties
      <4> QED BY <2>1, <2>2, <3>2, <4>5, <4>6, UdpFacts
    <3> QED BY <3>1, <3>2
  <2>4. /\ QueueInv' /\ sys' = sys /\ at' = at /\ \A k \in Kinds \ {"udp"} : Frame(k)
        /\ sys # "windows" \/ io = "pending" => Coming("udp")'
        /\ Coming("udp") => Coming("udp")'
    BY <2>1, UdpTold
  <2>5. UdpInv'
    BY <1>1, <2>1, <2>2, <2>3, <2>4 DEF UdpInv
  <2> QED BY <2>4, <2>5
<1>2. CASE "udp" \in uses /\ Refused
  <2>1. /\ UdpNotify /\ UdpElse /\ UNCHANGED <<arrived, queue, buf, heard>>
        /\ io = "pending" => io' = "failed" /\ soError' = "told"
        /\ io # "pending" => io' = io
    BY <1>2 DEF Refused, UdpElse
  <2>2. UdpHeld' = UdpHeld
    BY <2>1 DEF UdpHeld
  <2>3. DatagramsAreKept'
    BY <2>1, <2>2, UdpFacts
  <2>4. /\ QueueInv' /\ sys' = sys /\ at' = at /\ \A k \in Kinds \ {"udp"} : Frame(k)
        /\ sys # "windows" \/ io = "pending" => Coming("udp")'
        /\ Coming("udp") => Coming("udp")'
    BY <2>1, UdpTold
  <2>5. UdpInv'
    BY <1>2, <2>1, <2>3, <2>4 DEF UdpInv
  <2> QED BY <2>4, <2>5
<1>3. CASE "udp" \in uses /\ UdpEarly
  <2>1. /\ at = "loop" /\ batch = <<>> /\ at' = "udp"
        /\ UNCHANGED <<sys, made, cur, live, held, full, ready, batch, arrived, queue, soError, io, buf, heard>>
    BY <1>3 DEF UdpEarly, udpVars
  <2>2. QueueInv' /\ \A k \in Kinds \ {"udp"} : Frame(k)
    BY <2>1, TurnQ, UdpFacts
  <2>3. (DatagramsAreKept' <=> DatagramsAreKept) /\ Coming("udp")'
    BY <2>1 DEF DatagramsAreKept, Coming
  <2>4. UdpInv'
    BY <1>3, <2>1, <2>3 DEF UdpInv
  <2> QED BY <2>1, <2>2, <2>4
<1> QED BY <1>1, <1>2, <1>3, UdpHandled DEF UdpOther

-----------------------------------------------------------------------------
(* The examples. *)

ServerOwn == Peers \cup {"listen"}

LEMMA ServerFacts ==
  ASSUME QueueInv, ServerInv
  PROVE  /\ ObjectsInv /\ SeqInv /\ Peers \subseteq Kinds /\ "listen" \notin Peers /\ "loop" \notin Peers
         /\ \A k \in AtFirst : k \notin Peers
         /\ Listener \in Objects /\ Listener[1] = "listen"
         /\ \A p \in Peers : Notes(p) \subseteq Objects /\ ReadNote(p) \in Notes(p) /\ WriteNote(p) \in Notes(p)
         /\ \A p, o : o \in Notes(p) => o[1] = p
         /\ \A p \in Peers : p \in Conns <=> cur[p] # 0
         /\ at \in Peers => Server /\ at \in Conns
         /\ Conns \subseteq Peers
         /\ backlog # <<>> => Server
         /\ Server => held = {} /\ sys # "windows" /\ (at # "loop" => batch = <<>>)
         /\ app \in {"echo", "router"} /\ backlog \in Seq(Peers) /\ conns \in Seq(Peers)
         /\ peer \in [Peers -> {"out", "open", "fin", "reset"}] /\ unread \in [Peers -> Nat]
<1>1. ObjectsInv /\ SeqInv /\ Peers \subseteq Kinds /\ "listen" \notin Peers /\ "loop" \notin Peers /\ "listen" \in Kinds
  BY KindFacts DEF QueueInv, OwnKinds
<1>2. \A k \in AtFirst : k \notin Peers
  BY KindFacts DEF AtFirst, OwnKinds
<1>3. 1 \in 1..MaxMade /\ 2 \in 1..MaxMade
  BY QueueAssumption
<1>4. Listener \in Objects /\ Listener[1] = "listen"
  BY <1>1, <1>3, ObjectFacts DEF Listener
<1>5. /\ \A p \in Peers : Notes(p) \subseteq Objects /\ ReadNote(p) \in Notes(p) /\ WriteNote(p) \in Notes(p)
      /\ \A p, o : o \in Notes(p) => o[1] = p
  BY <1>1, <1>3, ObjectFacts DEF Notes, ReadNote, WriteNote
<1>6. (\A p \in Peers : p \in Conns <=> cur[p] # 0) /\ Conns \subseteq Peers
  BY DEF Conns
<1>7. at \in Peers => at \in Conns
  BY <1>1, <1>6 DEF ObjectsInv
<1>8. Server => held = {} /\ sys # "windows" /\ (at # "loop" => batch = <<>>)
  BY DEF QueueInv, OneByOneInv
<1> QED BY <1>1, <1>2, <1>4, <1>5, <1>6, <1>7, <1>8 DEF ServerInv

\* A client does something that is an event of os, if they are attached.
LEMMA ServerNotified ==
  ASSUME QueueInv, ServerInv, NEW p \in Peers, NEW os, Notify(os), os \subseteq Notes(p) \cup {Listener},
         UNCHANGED <<app, up, conns, uses>>, Server,
         backlog' \in Seq(Peers), peer' \in [Peers -> {"out", "open", "fin", "reset"}], unread' \in [Peers -> Nat],
         \A q \in Peers \ {p} : Readable(q)' <=> Readable(q), Readable(p)' => Readable(p) \/ ReadNote(p) \in os
  PROVE  QueueInv' /\ ServerInv' /\ sys' = sys /\ \A k \in Kinds \ ServerOwn : Frame(k)
<1> DEFINE es == os \cap live
<1>1. ready' = ReadyWith(es) /\ UNCHANGED <<sys, made, cur, live, held, full, batch, at>>
  BY DEF Notify
<1>2. es \in SUBSET Objects /\ {} \in SUBSET es /\ full' = full \cup {} /\ {} \subseteq Known
  BY <1>1, ServerFacts DEF ObjectsInv
<1>3. UNCHANGED <<sys, made, cur, live, held, batch, at, uses>>
  BY <1>1
<1>4. \A o \in es : o[1] \in ServerOwn
  BY ServerFacts DEF ServerOwn
<1>5. ReadNote(p) \in os /\ p \in Conns => ReadNote(p) \in es
  BY ServerFacts DEF ServerInv
<1>6. \A q \in Peers : \A i : <<q, i>> \in es => <<q, i>> \in live
  OBVIOUS
<1> HIDE DEF es
<1>7. /\ QueueInv' /\ Queued' = Queued \cup es /\ Fetched' = Fetched
      /\ \A k \in Kinds : (\A o \in es : o[1] # k) => Frame(k)
  BY <1>1, <1>2, <1>3, EventsQ
<1>8. /\ Conns' = Conns /\ (Server' <=> Server) /\ (ConnsAreOpen' <=> ConnsAreOpen)
      /\ \A q : Notes(q)' = Notes(q) /\ ReadNote(q)' = ReadNote(q)
  BY <1>1 DEF Conns, Server, ConnsAreOpen, Notes, ReadNote, WriteNote
<1>9. up' => \A q \in Conns' : Readable(q)' => at' = q \/ ReadNote(q)' \in Queued' \/ Notes(q)' \cap Fetched' # {}
  BY <1>1, <1>5, <1>7, <1>8, ServerFacts DEF ServerInv
<1>10. /\ \A q \in Conns' : Notes(q)' \subseteq live'
       /\ \A q \in Peers, i \in 1..MaxMade :
            <<q, i>> \in live' \cup full' \cup Queued' \cup Fetched' => <<q, i>> \in Notes(q)'
  BY <1>1, <1>6, <1>7, <1>8 DEF ServerInv
<1>11. ServerInv'
  BY <1>8, <1>9, <1>10 DEF ServerInv
<1>12. \A k \in Kinds \ ServerOwn : Frame(k)
  BY <1>4, <1>7
<1> QED BY <1>1, <1>7, <1>11, <1>12

LEMMA PeerStep ==
  ASSUME QueueInv, ServerInv, Server, PeerActs, uses' = uses
  PROVE  QueueInv' /\ ServerInv' /\ sys' = sys /\ \A k \in Kinds \ ServerOwn : Frame(k)
<1>1. PICK p \in Peers : PeerConnect(p) \/ PeerSend(p) \/ PeerReads(p) \/ PeerShuts(p) \/ PeerResets(p)
  BY DEF PeerActs
<1>2. /\ peer \in [Peers -> {"out", "open", "fin", "reset"}] /\ unread \in [Peers -> Nat] /\ backlog \in Seq(Peers)
      /\ ReadNote(p) \in Notes(p) /\ WriteNote(p) \in Notes(p)
  BY ServerFacts
<1>3. CASE PeerConnect(p)
  <2>1. /\ Notify({Listener}) /\ peer[p] = "out" /\ peer' = [peer EXCEPT ![p] = "open"]
        /\ backlog' = Append(backlog, p) /\ UNCHANGED <<app, up, unread, conns>>
    BY <1>3 DEF PeerConnect
  <2>2. \A q \in Peers : Readable(q)' => Readable(q)
    BY <1>2, <2>1 DEF Readable
  <2>3. \A q \in Peers \ {p} : Readable(q)' <=> Readable(q)
    BY <1>2, <2>1 DEF Readable
  <2>4. backlog' \in Seq(Peers) /\ peer' \in [Peers -> {"out", "open", "fin", "reset"}] /\ unread' \in [Peers -> Nat]
    BY <1>2, <2>1, AppendProperties
  <2> QED BY <2>1, <2>2, <2>3, <2>4, ServerNotified
<1>4. CASE PeerSend(p)
  <2>1. Notify({ReadNote(p)}) /\ unread' = [unread EXCEPT ![p] = @ + 1] /\ UNCHANGED <<app, up, backlog, peer, conns>>
    BY <1>4 DEF PeerSend
  <2>2. \A q \in Peers \ {p} : Readable(q)' <=> Readable(q)
    BY <1>2, <2>1 DEF Readable
  <2>3. backlog' \in Seq(Peers) /\ peer' \in [Peers -> {"out", "open", "fin", "reset"}] /\ unread' \in [Peers -> Nat]
    BY <1>2, <2>1
  <2>4. {ReadNote(p)} \subseteq Notes(p) \cup {Listener} /\ ReadNote(p) \in {ReadNote(p)}
    BY <1>2
  <2> QED BY <2>1, <2>2, <2>3, <2>4, ServerNotified
<1>5. CASE PeerReads(p)
  <2>1. Notify({WriteNote(p)}) /\ UNCHANGED <<app, up, backlog, peer, unread, conns>>
    BY <1>5 DEF PeerReads, peerVars
  <2>2. \A q \in Peers : Readable(q)' <=> Readable(q)
    BY <2>1 DEF Readable
  <2>3. {WriteNote(p)} \subseteq Notes(p) \cup {Listener}
    BY <1>2
  <2>4. backlog' \in Seq(Peers) /\ peer' \in [Peers -> {"out", "open", "fin", "reset"}] /\ unread' \in [Peers -> Nat]
    BY <1>2, <2>1
  <2> QED BY <2>1, <2>2, <2>3, <2>4, ServerNotified
<1>6. CASE PeerShuts(p)
  <2>1. Notify({ReadNote(p)}) /\ peer' = [peer EXCEPT ![p] = "fin"] /\ UNCHANGED <<app, up, backlog, unread, conns>>
    BY <1>6 DEF PeerShuts, peerVars
  <2>2. \A q \in Peers \ {p} : Readable(q)' <=> Readable(q)
    BY <1>2, <2>1 DEF Readable
  <2>3. backlog' \in Seq(Peers) /\ peer' \in [Peers -> {"out", "open", "fin", "reset"}] /\ unread' \in [Peers -> Nat]
    BY <1>2, <2>1
  <2>4. {ReadNote(p)} \subseteq Notes(p) \cup {Listener} /\ ReadNote(p) \in {ReadNote(p)}
    BY <1>2
  <2> QED BY <2>1, <2>2, <2>3, <2>4, ServerNotified
<1>7. CASE PeerResets(p)
  <2>1. /\ Notify(Notes(p)) /\ peer' = [peer EXCEPT ![p] = "reset"] /\ unread' = [unread EXCEPT ![p] = 0]
        /\ UNCHANGED <<app, up, backlog, conns>>
    BY <1>7 DEF PeerResets, peerVars
  <2>2. \A q \in Peers \ {p} : Readable(q)' <=> Readable(q)
    BY <1>2, <2>1 DEF Readable
  <2>3. backlog' \in Seq(Peers) /\ peer' \in [Peers -> {"out", "open", "fin", "reset"}] /\ unread' \in [Peers -> Nat]
    BY <1>2, <2>1
  <2> QED BY <1>2, <2>1, <2>2, <2>3, ServerNotified
<1> QED BY <1>1, <1>3, <1>4, <1>5, <1>6, <1>7

\* ffslice_rmswapT() removes one connection from a list without repetitions.
LEMMA UnlinkSeq ==
  ASSUME NEW S, conns \in Seq(S), IsInjective(conns), NEW p \in ToSet(conns)
  PROVE  Unlink(p) \in Seq(S) /\ IsInjective(Unlink(p)) /\ ToSet(Unlink(p)) = ToSet(conns) \ {p}
<1> DEFINE n == Len(conns)
           i == CHOOSE j \in DOMAIN conns : conns[j] = p
           f == [conns EXCEPT ![i] = Last(conns)]
           t == SubSeq(f, 1, n - 1)
<1>1. n \in Nat /\ DOMAIN conns = 1..n /\ \A j \in 1..n : conns[j] \in S
  BY LenProperties, ElementOfSeq
<1>2. i \in 1..n /\ conns[i] = p /\ n >= 1
  <2>1. \E j \in DOMAIN conns : conns[j] = p
    BY DEF ToSet
  <2>2. i \in DOMAIN conns /\ conns[i] = p
    BY <2>1
  <2> QED BY <1>1, <2>2
<1>3. Unlink(p) = t
  BY DEF Unlink
<1>4. Last(conns) = conns[n]
  BY DEF Last
<1> HIDE DEF i, n
<1>5. \A j \in 1..n : f[j] = IF j = i THEN conns[n] ELSE conns[j]
  BY <1>1, <1>2, <1>4
<1> HIDE DEF f
<1>6. t \in Seq(S) /\ Len(t) = n - 1 /\ \A j \in 1..(n - 1) : t[j] = IF j = i THEN conns[n] ELSE conns[j]
  <2>1. \A j \in 1..(n - 1) : f[j] \in S
    BY <1>1, <1>2, <1>5
  <2>2. n - 1 \in Int /\ (IF 1 <= n - 1 THEN (n - 1) - 1 + 1 ELSE 0) = n - 1
    BY <1>1, <1>2
  <2>3. /\ t \in Seq(S) /\ Len(t) = (IF 1 <= n - 1 THEN (n - 1) - 1 + 1 ELSE 0)
        /\ \A j \in 1..((n - 1) - 1 + 1) : t[j] = f[1 + j - 1]
    BY <2>1, <2>2, SubSeqProperties
  <2>4. \A j \in 1..(n - 1) : j \in 1..((n - 1) - 1 + 1) /\ 1 + j - 1 = j /\ j \in 1..n
    BY <1>1, <1>2
  <2>5. Len(t) = n - 1
    BY <2>2, <2>3
  <2>6. \A j \in 1..(n - 1) : t[j] = f[j]
    BY <2>3, <2>4
  <2> QED BY <1>5, <2>3, <2>4, <2>5, <2>6
<1> HIDE DEF t
<1>7. DOMAIN t = 1..(n - 1)
  BY <1>6, LenProperties
<1>8. \A j, k \in 1..n : conns[j] = conns[k] => j = k
  BY <1>1 DEF IsInjective
<1>9. IsInjective(t)
  <2>1. SUFFICES ASSUME NEW j \in 1..(n - 1), NEW k \in 1..(n - 1), t[j] = t[k] PROVE j = k
    BY <1>7 DEF IsInjective
  <2>2. j \in 1..n /\ k \in 1..n /\ n \in 1..n /\ j # n /\ k # n
    BY <1>1, <1>2
  <2> QED BY <1>6, <1>8, <2>1, <2>2
<1>10. ToSet(t) = ToSet(conns) \ {p}
  <2>1. ToSet(t) = {t[j] : j \in 1..(n - 1)} /\ ToSet(conns) = {conns[j] : j \in 1..n}
    BY <1>1, <1>7 DEF ToSet
  <2>2. ASSUME NEW j \in 1..(n - 1) PROVE t[j] \in ToSet(conns) \ {p}
    <3>1. j \in 1..n /\ n \in 1..n /\ j # n
      BY <1>1, <1>2
    <3>2. t[j] = IF j = i THEN conns[n] ELSE conns[j]
      BY <1>6
    <3>3. t[j] # p
      <4>1. CASE j = i
        BY <1>2, <1>8, <3>1, <3>2, <4>1
      <4>2. CASE j # i
        BY <1>2, <1>8, <3>1, <3>2, <4>2
      <4> QED BY <4>1, <4>2
    <3> QED BY <2>1, <3>1, <3>2, <3>3
  <2>3. ASSUME NEW k \in 1..n, conns[k] # p PROVE conns[k] \in ToSet(t)
    <3>1. CASE k = n
      <4>1. i \in 1..(n - 1)
        BY <1>1, <1>2, <2>3, <3>1
      <4>2. t[i] = conns[k]
        BY <1>6, <3>1, <4>1
      <4> QED BY <2>1, <4>1, <4>2
    <3>2. CASE k # n
      <4>1. k \in 1..(n - 1) /\ k # i
        BY <1>1, <1>2, <2>3, <3>2
      <4>2. t[k] = conns[k]
        BY <1>6, <4>1
      <4> QED BY <2>1, <4>1, <4>2
    <3> QED BY <3>1, <3>2
  <2> QED BY <2>1, <2>2, <2>3
<1> QED BY <1>3, <1>6, <1>9, <1>10

LEMMA ServerAccepts ==
  ASSUME QueueInv, ServerInv, EchoAccept \/ RouterAccept, uses' = uses
  PROVE  QueueInv' /\ ServerInv' /\ sys' = sys /\ \A k \in Kinds \ ServerOwn : Frame(k)
<1> DEFINE p == Head(backlog)
           ks == {p}
           ls == Notes(p)
           os == Polled(p)
<1>1. /\ at = "listen" /\ backlog # <<>> /\ backlog' = Tail(backlog) /\ New(ks) /\ live' = live \cup ls
      /\ ready' = ReadyWith(os) /\ at' = p
      /\ UNCHANGED <<sys, held, full, batch, app, up, peer, unread>>
      /\ IF app = "router" THEN conns' = Append(conns, p) ELSE conns' = conns
  BY DEF EchoAccept, RouterAccept, AcceptOne
<1>2. p \in Peers /\ backlog' \in Seq(Peers) /\ Server
  BY <1>1, ServerFacts, HeadTailProperties
<1>3. batch = <<>>
  BY <1>1, <1>2, ServerFacts
<1>4. /\ ls \in SUBSET Objects /\ os \in SUBSET Objects /\ (\A o \in ls : o[1] \in ks) /\ os \subseteq ls
      /\ \A o \in os : o[1] \in ks
  <2>1. ls \in SUBSET Objects /\ (\A o \in ls : o[1] \in ks) /\ ReadNote(p) \in ls /\ WriteNote(p) \in ls
    BY <1>2, ServerFacts
  <2>2. os \subseteq ls
    BY <2>1 DEF Polled
  <2> HIDE DEF ls, os, ks
  <2> QED BY <2>1, <2>2
<1>5. cur'[p] # 0 /\ cur[p] = 0
  <2>1. /\ p \in Kinds /\ made[p] \in Nat /\ cur[p] = 0
        /\ cur' = [k \in Kinds |-> IF k \in ks THEN made'[k] ELSE cur[k]]
        /\ made' = [k \in Kinds |-> IF k \in ks THEN made[k] + 1 ELSE made[k]]
    BY <1>1, <1>2, ServerFacts DEF New, ObjectsInv
  <2>2. cur'[p] = made[p] + 1
    BY <2>1
  <2> QED BY <2>1, <2>2
<1>6. /\ p \in Conns' /\ \A q : Notes(q)' = Notes(q) /\ ReadNote(q)' = ReadNote(q) /\ (Readable(q)' <=> Readable(q))
  BY <1>1, <1>2, <1>5 DEF Conns, Notes, ReadNote, WriteNote, Readable
<1>7. ls \subseteq Known'
  BY <1>6 DEF Known
<1>8. ks \in SUBSET Kinds /\ (\A k \in AtFirst : k \notin ks) /\ at' \in {at} \cup ks
  BY <1>1, <1>2, ServerFacts
<1> HIDE DEF p, ks, ls, os
<1>9. /\ QueueInv' /\ Queued' = Queued \cup os /\ Fetched' = Fetched
      /\ \A k \in Kinds \ ks : at = "loop" \/ at' = at \/ at # k => Frame(k)
      /\ \A k \in Kinds \ ks : cur'[k] = cur[k]
  BY <1>1, <1>3, <1>4, <1>7, <1>8, NewEventsQ, ZenonT(60)
<1>10. Conns' = Conns \cup {p} /\ p \notin Conns /\ (Server' <=> Server)
  BY <1>2, <1>5, <1>9, ServerFacts DEF Conns, ks, Server
<1>11. ConnsAreOpen' /\ conns' \in Seq(Peers)
  <2>1. CASE app = "router"
    <3>1. IsInjective(conns) /\ ToSet(conns) = Conns /\ conns \in Seq(Peers)
      BY <2>1 DEF ServerInv, ConnsAreOpen
    <3>2. conns' = conns \o <<p>> /\ <<p>> \in Seq(Peers)
      <4>1. conns' = Append(conns, p)
        BY <1>1, <2>1
      <4>2. Append(conns, p) = conns \o <<p>>
        BY <1>2, <3>1, AppendIsConcat
      <4> QED BY <1>2, <4>1, <4>2
    <3>3. ToSet(<<p>>) = {p} /\ IsInjective(<<p>>)
      BY DEF ToSet, IsInjective
    <3>4. IsInjective(conns') /\ ToSet(conns') = ToSet(conns) \cup {p} /\ conns' \in Seq(Peers)
      <4>1. ToSet(conns) \cap ToSet(<<p>>) = {}
        BY <1>10, <3>1, <3>3
      <4>2. /\ conns \o <<p>> \in Seq(Peers) /\ ToSet(conns \o <<p>>) = ToSet(conns) \cup ToSet(<<p>>)
            /\ IsInjective(conns \o <<p>>)
        <5> DEFINE t == <<p>>
        <5>1. t \in Seq(Peers) /\ IsInjective(t) /\ ToSet(conns) \cap ToSet(t) = {}
          BY <3>2, <3>3, <4>1
        <5> HIDE DEF t
        <5>2. conns \o t \in Seq(Peers) /\ ToSet(conns \o t) = ToSet(conns) \cup ToSet(t) /\ IsInjective(conns \o t)
          BY <3>1, <5>1, ConcatSet
        <5> QED BY <5>2 DEF t
      <4> QED BY <3>2, <3>3, <4>2
    <3> QED BY <1>10, <3>1, <3>4 DEF ConnsAreOpen
  <2>2. CASE app # "router"
    BY <1>1, <2>2, ServerFacts DEF ConnsAreOpen
  <2> QED BY <2>1, <2>2
<1>12. \A q \in Conns' : Notes(q)' \subseteq live'
  BY <1>1, <1>6, <1>10 DEF ServerInv, ls
<1>13. \A q \in Peers, i \in 1..MaxMade :
         <<q, i>> \in live' \cup full' \cup Queued' \cup Fetched' => <<q, i>> \in Notes(q)'
  <2>1. \A q, i : <<q, i>> \in ls => <<q, i>> \in Notes(q)
    BY <1>4 DEF ks, ls
  <2> QED BY <1>1, <1>4, <1>6, <1>9, <2>1 DEF ServerInv
<1>14. up' => \A q \in Conns' : Readable(q)' => at' = q \/ ReadNote(q)' \in Queued' \/ Notes(q)' \cap Fetched' # {}
  BY <1>1, <1>6, <1>9, <1>10, ServerFacts, SMTT(30) DEF ServerInv
<1>15. ServerInv'
  BY <1>1, <1>2, <1>10, <1>11, <1>12, <1>13, <1>14 DEF ServerInv
<1>16. \A k \in Kinds \ ServerOwn : Frame(k)
  BY <1>1, <1>2, <1>9 DEF ServerOwn, ks
<1> QED BY <1>1, <1>9, <1>15, <1>16

\* The thread goes on with the connection p, or is done with it, or the process exits.
LEMMA ServerGoesOn ==
  ASSUME QueueInv, ServerInv, Stay \/ Return, uses' = uses, UNCHANGED <<app, backlog, peer, conns>>,
         unread' \in [Peers -> Nat], at \in Peers \cup {"listen"},
         \A q \in Peers \ {at} : unread'[q] = unread[q],
         up' => up /\ \A q \in Peers : q = at => Stay \/ ~Readable(q)'
  PROVE  QueueInv' /\ ServerInv' /\ sys' = sys /\ \A k \in Kinds \ ServerOwn : Frame(k)
<1>1. UNCHANGED <<sys, made, cur, live, held, full, ready, batch>>
  BY DEF Stay, Return
<1>2. QueueInv' /\ Queued' = Queued /\ Fetched' = Fetched /\ \A k \in Kinds \ {at} : Frame(k)
  BY StayQ, ReturnQ
<1>3. Stay => at' = at
  BY DEF Stay
<1>4. /\ Conns' = Conns /\ (Server' <=> Server) /\ (ConnsAreOpen' <=> ConnsAreOpen)
      /\ \A q : Notes(q)' = Notes(q) /\ ReadNote(q)' = ReadNote(q)
  BY <1>1 DEF Conns, Server, ConnsAreOpen, Notes, ReadNote, WriteNote
<1>5. \A q \in Peers \ {at} : Readable(q)' <=> Readable(q)
  BY DEF Readable
<1>6. /\ \A q \in Conns' : Notes(q)' \subseteq live'
      /\ \A q \in Peers, i \in 1..MaxMade :
           <<q, i>> \in live' \cup full' \cup Queued' \cup Fetched' => <<q, i>> \in Notes(q)'
  BY <1>1, <1>2, <1>4 DEF ServerInv
<1>7. ASSUME up', NEW q \in Conns', Readable(q)' PROVE at' = q \/ ReadNote(q)' \in Queued' \/ Notes(q)' \cap Fetched' # {}
  <2>1. q \in Conns /\ q \in Peers
    BY <1>4, ServerFacts
  <2>2. CASE q = at
    BY <1>3, <1>7, <2>1, <2>2
  <2>3. CASE q # at
    BY <1>2, <1>4, <1>5, <1>7, <2>1, <2>3 DEF ServerInv
  <2> QED BY <2>2, <2>3
<1>8. ServerInv'
  BY <1>4, <1>6, <1>7 DEF ServerInv
<1> QED BY <1>1, <1>2, <1>8 DEF ServerOwn

\* A connection is closed and freed.
LEMMA ServerCloses ==
  ASSUME QueueInv, ServerInv, NEW p \in Peers, EchoClose(p) \/ RouterFree(p), uses' = uses
  PROVE  QueueInv' /\ ServerInv' /\ sys' = sys /\ \A k \in Kinds \ ServerOwn : Frame(k)
<1>1. /\ at = p /\ cur' = [cur EXCEPT ![p] = 0] /\ Drop(Notes(p)) /\ at' = "loop"
      /\ UNCHANGED <<sys, made, held, batch, app, up, backlog, peer, unread>>
      /\ IF app = "router" THEN conns' = Unlink(p) ELSE conns' = conns
  BY DEF EchoClose, RouterFree, ConnClose
<1>2. /\ Server /\ p \in Conns /\ held = {} /\ sys # "windows" /\ batch = <<>> /\ p \in Kinds /\ p # "loop"
      /\ ObjectsInv /\ SeqInv /\ "listen" \notin Peers
  BY <1>1, ServerFacts
<1>3. Dropped(Notes(p)) = Notes(p) /\ Fetched = {}
  BY <1>2, EmptyBatch DEF Dropped
<1>4. /\ SeqInv' /\ Queued' = Queued \ Notes(p) /\ Fetched' = Fetched
      /\ live' = live \ Notes(p) /\ full' = full \ Notes(p)
  BY <1>1, <1>2, <1>3, DropSets
<1>5. cur'[p] = 0 /\ (\A k \in Kinds \ {p} : cur'[k] = cur[k]) /\ cur' \in [Kinds -> 0..MaxMade]
  BY <1>1, <1>2, QueueAssumption DEF ObjectsInv
<1>6. \A k \in AtFirst : cur'[k] = 1
  <2>1. \A k \in AtFirst : k \in Kinds \ {p}
    BY ServerFacts, KindFacts DEF AtFirst, OwnKinds
  <2> QED BY <1>2, <1>5, <2>1 DEF ObjectsInv
<1>7. ObjectsInv'
  BY <1>1, <1>2, <1>4, <1>5, <1>6 DEF ObjectsInv
<1>8. OneByOneInv'
  BY <1>1 DEF QueueInv, OneByOneInv, Server
<1>9. /\ Conns' = Conns \ {p} /\ (Server' <=> Server)
      /\ \A q : Notes(q)' = Notes(q) /\ ReadNote(q)' = ReadNote(q) /\ (Readable(q)' <=> Readable(q))
  BY <1>1, <1>5, ServerFacts DEF Conns, Server, Notes, ReadNote, WriteNote, Readable
<1>10. SilentInv'
  <2>1. ASSUME NEW o \in live' \cup full' \cup Fetched' PROVE o \in Known'
    <3>1. o \in live \cup full /\ o \notin Notes(p) /\ o \in Known
      BY <1>2, <1>3, <1>4, <2>1 DEF QueueInv, SilentInv
    <3>2. o[1] # p
      <4>1. o \in Objects
        BY <1>2, <3>1 DEF ObjectsInv
      <4>2. o = <<o[1], o[2]>> /\ o[2] \in 1..MaxMade
        BY <4>1, ObjectFacts
      <4> QED BY <3>1, <4>2 DEF ServerInv
    <3>3. CASE \E k \in Kinds : cur[k] # 0 /\ o = <<k, cur[k]>>
      <4>1. PICK k \in Kinds : cur[k] # 0 /\ o = <<k, cur[k]>>
        BY <3>3
      <4>2. k # p
        BY <3>2, <4>1
      <4>3. cur'[k] # 0 /\ o = Handle(k)'
        BY <1>5, <4>1, <4>2 DEF Handle
      <4>4. o \in Opened'
        BY <4>3 DEF Opened
      <4> QED BY <4>4 DEF Known
    <3>4. CASE \E q \in Peers : cur[q] # 0 /\ o \in Notes(q)
      <4>1. PICK q \in Peers : cur[q] # 0 /\ o \in Notes(q)
        BY <3>4
      <4>2. q # p
        BY <3>1, <4>1
      <4>3. q \in Conns' /\ o \in Notes(q)'
        BY <1>9, <4>1, <4>2, ServerFacts
      <4> QED BY <4>3 DEF Known
    <3> QED BY <1>2, <3>1, <3>3, <3>4, KnownFacts
  <2>2. sys = "bsd" => full' \subseteq Queued'
    BY <1>4 DEF QueueInv, SilentInv
  <2> QED BY <1>1, <2>1, <2>2 DEF SilentInv
<1>11. QueueInv'
  BY <1>4, <1>7, <1>8, <1>10 DEF QueueInv
<1>12. ConnsAreOpen' /\ conns' \in Seq(Peers)
  <2>1. CASE app = "router"
    <3>1. IsInjective(conns) /\ ToSet(conns) = Conns /\ conns \in Seq(Peers) /\ conns' = Unlink(p)
      BY <1>1, <2>1 DEF ServerInv, ConnsAreOpen
    <3>2. conns' \in Seq(Peers) /\ IsInjective(conns') /\ ToSet(conns') = Conns \ {p}
      BY <1>2, <3>1, UnlinkSeq
    <3> QED BY <1>9, <3>2 DEF ConnsAreOpen
  <2>2. CASE app # "router"
    BY <1>1, <2>2, ServerFacts DEF ConnsAreOpen
  <2> QED BY <2>1, <2>2
<1>13. \A q \in Peers \ {p} : \A o \in Notes(q) : o \notin Notes(p)
  BY ServerFacts
<1>14. \A q \in Conns' : Notes(q)' \subseteq live'
  BY <1>4, <1>9, <1>13, ServerFacts DEF ServerInv
<1>15. \A q \in Peers, i \in 1..MaxMade :
         <<q, i>> \in live' \cup full' \cup Queued' \cup Fetched' => <<q, i>> \in Notes(q)'
  BY <1>4, <1>9 DEF ServerInv
<1>16. up' => \A q \in Conns' : Readable(q)' => at' = q \/ ReadNote(q)' \in Queued' \/ Notes(q)' \cap Fetched' # {}
  <2>1. \A q \in Conns' : q \in Conns /\ q # at /\ ReadNote(q) \notin Notes(p)
    BY <1>1, <1>9, <1>13, ServerFacts
  <2> QED BY <1>1, <1>4, <1>9, <2>1 DEF ServerInv
<1>17. ServerInv'
  BY <1>1, <1>2, <1>9, <1>12, <1>14, <1>15, <1>16 DEF ServerInv
<1>18. \A k \in Kinds \ ServerOwn : Frame(k)
  <2>1. \A k \in Kinds \ ServerOwn : \A i : <<k, i>> \notin Notes(p)
    BY ServerFacts DEF ServerOwn
  <2> QED BY <1>1, <1>4, <1>5, <2>1, KindFacts DEF Frame, ServerOwn
<1> QED BY <1>1, <1>11, <1>17, <1>18

LEMMA ServerStep ==
  ASSUME QueueInv, ServerInv, ServerHandling, uses' = uses
  PROVE  QueueInv' /\ ServerInv' /\ sys' = sys /\ \A k \in Kinds \ ServerOwn : Frame(k)
<1> DEFINE G == QueueInv' /\ ServerInv' /\ sys' = sys /\ \A k \in Kinds \ ServerOwn : Frame(k)
<1>1. unread \in [Peers -> Nat] /\ "listen" \notin Peers
  BY ServerFacts
<1>2. CASE AcceptNone \/ AcceptDies
  <2>1. at = "listen" /\ up /\ Return /\ UNCHANGED <<app, backlog, peer, conns, unread>>
    BY <1>2 DEF AcceptNone, AcceptDies, Die, serverVars
  <2> QED BY <1>1, <2>1, ServerGoesOn
<1>3. ASSUME NEW p \in Peers, RecvNone(p) \/ RecvDies(p) PROVE G
  <2>1. at = p /\ up /\ Return /\ UNCHANGED <<app, backlog, peer, conns, unread>>
    BY <1>3 DEF RecvNone, RecvDies, Die, serverVars
  <2>2. up' => \A q \in Peers : q = at => ~Readable(q)'
    BY <1>3, <2>1 DEF RecvNone, RecvDies, Die, Readable, Drained
  <2> QED BY <1>1, <2>1, <2>2, ServerGoesOn
<1>4. ASSUME NEW p \in Peers, NEW ps, NEW dies, Pass(p, ps, dies) PROVE G
  <2> DEFINE n == Min({unread[p], BufCap})
  <2>1. /\ at = p /\ up /\ unread' = [unread EXCEPT ![p] = @ - n] /\ UNCHANGED <<app, backlog, peer, conns>>
        /\ Stay \/ (Return /\ up' = FALSE)
    BY <1>4 DEF Pass, Die
  <2>2. unread[p] \in Nat /\ n \in Nat /\ n <= unread[p]
    BY <1>1, MinOfTwo, ServerAssumption
  <2> HIDE DEF n
  <2>3. unread' \in [Peers -> Nat] /\ \A q \in Peers \ {at} : unread'[q] = unread[q]
    BY <1>1, <2>1, <2>2
  <2> QED BY <2>1, <2>3, ServerGoesOn
<1> HIDE DEF G
<1>5. ASSUME NEW p \in Peers, Echo(p) \/ Route(p) PROVE G
  BY <1>4, <1>5 DEF Echo, Route
<1>6. ASSUME NEW p \in Peers, EchoClose(p) \/ RouterFree(p) PROVE G
  BY <1>6, ServerCloses DEF G
<1>7. CASE EchoAccept \/ RouterAccept
  BY <1>7, ServerAccepts DEF G
<1>8. CASE AcceptNone \/ AcceptDies
  BY <1>2, <1>8 DEF G
<1>9. CASE \E p \in Peers : Echo(p) \/ Route(p) \/ RecvNone(p) \/ RecvDies(p) \/ EchoClose(p) \/ RouterFree(p)
  <2>1. PICK p \in Peers : Echo(p) \/ Route(p) \/ RecvNone(p) \/ RecvDies(p) \/ EchoClose(p) \/ RouterFree(p)
    BY <1>9
  <2> QED BY <1>3, <1>5, <1>6, <2>1 DEF G
<1>10. G
  BY <1>7, <1>8, <1>9 DEF ServerHandling, G
<1> QED BY <1>10 DEF G

-----------------------------------------------------------------------------
(* The invariant holds at first. *)

LEMMA InitQueue ==
  ASSUME Init
  PROVE  /\ QueueInv /\ Fetched = {} /\ Queued \subseteq {Listener} /\ full = {} /\ live = {<<k, 1>> : k \in AtFirst}
         /\ \A k \in Kinds : cur[k] = IF k \in AtFirst THEN 1 ELSE 0
         /\ made = cur
<1>1. /\ sys \in {"linux", "bsd", "windows"} /\ (Server => sys # "windows")
      /\ made = [k \in Kinds |-> IF k \in AtFirst THEN 1 ELSE 0]
      /\ cur = made /\ live = {<<k, 1>> : k \in AtFirst}
      /\ held = {} /\ full = {} /\ batch = <<>>
      /\ ready = (IF Server THEN ServerReady ELSE <<>>)
      /\ at = IF "udp" \in uses THEN "udp" ELSE "loop"
  BY DEF Init
<1>2. 1 \in 1..MaxMade /\ 0 \in 0..MaxMade /\ 1 \in 0..MaxMade /\ 0 <= EventsCap
  BY QueueAssumption
<1>3. AtFirst \subseteq Kinds /\ "udp" \in AtFirst /\ "listen" \in AtFirst
  BY KindFacts DEF AtFirst, OwnKinds
<1>4. Listener = <<"listen", 1>> /\ live \subseteq Objects /\ Listener \in Objects
  BY <1>1, <1>2, <1>3, ObjectFacts DEF Listener
<1>5. ready = <<>> \/ ready = <<Listener>>
  BY <1>1 DEF ServerReady
<1>6. SeqInv /\ Queued \subseteq {Listener} /\ Fetched = {}
  <2>1. ready \in Seq(Objects) /\ batch \in Seq(Objects)
    <3>1. <<>> \in Seq(Objects) /\ <<Listener>> \in Seq(Objects)
      BY <1>4
    <3> QED BY <1>1, <1>5, <3>1
  <2>2. IsInjective(ready) /\ IsInjective(batch)
    BY <1>1, <1>5 DEF IsInjective
  <2>3. Len(batch) <= EventsCap
    BY <1>1, <1>2
  <2>4. ToSet(ready) \subseteq {Listener} /\ ToSet(batch) = {}
    BY <1>1, <1>5 DEF ToSet
  <2> QED BY <1>1, <2>1, <2>2, <2>3, <2>4 DEF SeqInv, Queued, Fetched
<1>7. \A k \in Kinds : cur[k] = IF k \in AtFirst THEN 1 ELSE 0
  BY <1>1
<1>8. ObjectsInv
  <2>1. made \in [Kinds -> 0..MaxMade] /\ cur \in [Kinds -> 0..MaxMade]
    BY <1>1, <1>2
  <2>2. at \in Kinds \cup {"loop"} /\ (at # "loop" => cur[at] # 0)
    BY <1>1, <1>3, <1>7
  <2>3. \A k \in AtFirst : cur[k] = 1
    BY <1>3, <1>7
  <2> QED BY <1>1, <1>4, <2>1, <2>2, <2>3 DEF ObjectsInv
<1>9. OneByOneInv
  <2>1. Len(batch) <= 1
    BY <1>1
  <2> QED BY <1>1, <2>1 DEF OneByOneInv
<1>10. SilentInv
  <2>1. live \subseteq Known
    BY <1>1, <1>3, <1>7 DEF Known, Opened, Handle
  <2> QED BY <1>1, <1>6, <2>1 DEF SilentInv
<1> QED BY <1>1, <1>6, <1>7, <1>8, <1>9, <1>10 DEF QueueInv

LEMMA InitInv ==
  ASSUME Init
  PROVE  IInv
<1>1. /\ QueueInv /\ Fetched = {} /\ Queued \subseteq {Listener} /\ full = {} /\ live = {<<k, 1>> : k \in AtFirst}
      /\ \A k \in Kinds : cur[k] = IF k \in AtFirst THEN 1 ELSE 0
      /\ made = cur
  BY InitQueue
<1>2. /\ PostInit /\ TimerInit /\ SignalInit /\ PipeInit /\ KeyInit /\ UdpInit /\ HandlerInit /\ ServerInit
      /\ (~Server => app = "echo") /\ sys \in {"linux", "bsd", "windows"}
      /\ at = IF "udp" \in uses THEN "udp" ELSE "loop"
  BY DEF Init
<1>3. /\ cur["timer"] = 0 /\ cur["post"] = 0 /\ cur["pipe"] = 0 /\ cur["signalfd"] = 0 /\ made["timer"] = 0
      /\ (\A s \in Sigs : cur[s] = 0) /\ \A p \in Peers : cur[p] = 0
  BY <1>1, KindFacts DEF AtFirst, OwnKinds
<1>4. at \notin Sigs /\ at # "timer" /\ \A k, i : <<k, i>> \in live \cup full \cup Queued \cup Fetched => k \in AtFirst
  BY <1>1, <1>2, KindFacts DEF AtFirst, OwnKinds, Listener
<1>5. PostInv
  <2>1. posted \in BOOLEAN /\ ~posted
    BY <1>2, Zenon DEF PostInit
  <2>2. posts \in 0..MaxPosts
    BY <1>2, QueueAssumption DEF PostInit
  <2> QED BY <2>1, <2>2 DEF PostInv, PostTypeOK
<1>6. TimerInv
  <2>1. byte \in BOOLEAN /\ expired \in BOOLEAN /\ ~expired
    BY <1>2, Zenon DEF TimerInit
  <2>2. armed \in [1..MaxMade -> {"off", "once", "periodic"}]
    BY <1>2 DEF TimerInit
  <2>3. \A i : <<"timer", i>> \notin live \cup full \cup Queued \cup Fetched
    BY <1>4 DEF AtFirst
  <2> QED BY <1>3, <1>4, <2>1, <2>2, <2>3 DEF TimerInv, TimerTypeOK, Timer, Handle
<1>7. SignalInv
  <2>1. ident \in BOOLEAN /\ ~ident
    BY <1>2, Zenon DEF SignalInit
  <2>2. pending = {} /\ raised = {} /\ sent \in 0..MaxRaised
    BY <1>2, QueueAssumption DEF SignalInit
  <2>3. \A k \in SignalKinds : cur[k] = 0
    BY <1>3 DEF SignalKinds
  <2> QED BY <1>3, <2>1, <2>2, <2>3 DEF SignalInv, SignalTypeOK
<1>8. PipeInv
  <2>1. active \in BOOLEAN /\ named \in BOOLEAN /\ ~active
    BY <1>2, Zenon DEF PipeInit
  <2>2. client = [c \in Clients |-> "out"] /\ inst = "listening" /\ op = "none"
    BY <1>2 DEF PipeInit
  <2>3. Waiting = {} /\ \A c \in Clients : client[c] = "out"
    BY <2>2 DEF Waiting
  <2> QED BY <1>3, <2>1, <2>2, <2>3 DEF PipeInv, PipeTypeOK
<1>9. KeyInv
  BY <1>2 DEF KeyInv, KeyInit
<1>10. UdpInv
  <2>1. arrived = 0 /\ queue = <<>> /\ soError = "none" /\ io = "none" /\ buf = 0 /\ heard = <<>>
    BY <1>2 DEF UdpInit
  <2>2. DatagramsAreKept
    <3>1. <<>> \in Seq(Nat)
      OBVIOUS
    <3>2. (<<>> \o <<>>) \o <<>> = <<>>
      BY <3>1, ConcatEmptySeq
    <3>3. [i \in 1..0 |-> i] = <<>>
      OBVIOUS
    <3> QED BY <2>1, <3>2, <3>3 DEF DatagramsAreKept
  <2>3. Udp \notin Queued \cup Fetched
    BY <1>1 DEF Udp, Handle, Listener
  <2> QED BY <1>2, <2>1, <2>2, <2>3 DEF UdpInv
<1>11. ServerInv
  <2>1. /\ app \in {"echo", "router"} /\ backlog = <<>> /\ conns = <<>>
        /\ peer = [p \in Peers |-> "out"] /\ unread = [p \in Peers |-> 0]
    BY <1>2 DEF ServerInit
  <2>2. Conns = {}
    BY <1>3 DEF Conns
  <2>3. ConnsAreOpen
    <3>1. IsInjective(<<>>) /\ ToSet(<<>>) = {}
      BY DEF IsInjective, ToSet
    <3> QED BY <2>1, <2>2, <3>1 DEF ConnsAreOpen
  <2>4. \A p \in Peers, i \in 1..MaxMade : <<p, i>> \notin live \cup full \cup Queued \cup Fetched
    <3>1. \A p \in Peers : p \notin AtFirst
      BY KindFacts DEF AtFirst, OwnKinds
    <3> QED BY <1>4, <3>1
  <2> QED BY <1>2, <2>1, <2>2, <2>3, <2>4 DEF ServerInv
<1> QED BY <1>1, <1>2, <1>5, <1>6, <1>7, <1>8, <1>9, <1>10, <1>11, SigInitInv DEF IInv

-----------------------------------------------------------------------------
(* Every step keeps the invariant. *)

\* What a component's step leaves alone keeps its part.
LEMMA Others ==
  ASSUME IInv, sys' = sys, uses' = uses
  PROVE  /\ UNCHANGED handlerVars => SigInv'
         /\ Frame("post") /\ UNCHANGED postVars => PostInv'
         /\ Frame("timer") /\ UNCHANGED timerVars => TimerInv'
         /\ (\A k \in SignalOwn : Frame(k)) /\ UNCHANGED signalVars => SignalInv'
         /\ Frame("pipe") /\ UNCHANGED pipeVars => PipeInv'
         /\ Frame("stdin") /\ UNCHANGED keyVars => KeyInv'
         /\ Frame("udp") /\ UNCHANGED udpVars => UdpInv'
         /\ (\A p \in Peers : Frame(p)) /\ UNCHANGED serverVars => ServerInv'
<1>1. UNCHANGED handlerVars => SigInv'
  BY SigFrame DEF IInv
<1>2. Frame("post") /\ UNCHANGED postVars => PostInv'
  BY PostFrame DEF IInv
<1>3. Frame("timer") /\ UNCHANGED timerVars => TimerInv'
  BY TimerFrame DEF IInv
<1>4. (\A k \in SignalOwn : Frame(k)) /\ UNCHANGED signalVars => SignalInv'
  BY SignalFrame DEF IInv, SignalOwn
<1>5. Frame("pipe") /\ UNCHANGED pipeVars => PipeInv'
  BY PipeFrame DEF IInv
<1>6. Frame("stdin") /\ UNCHANGED keyVars => KeyInv'
  BY KeyFrame DEF IInv
<1>7. Frame("udp") /\ UNCHANGED udpVars => UdpInv'
  BY UdpFrame DEF IInv
<1>8. (\A p \in Peers : Frame(p)) /\ UNCHANGED serverVars => ServerInv'
  BY ServerFrame DEF IInv
<1> QED BY <1>1, <1>2, <1>3, <1>4, <1>5, <1>6, <1>7, <1>8

LEMMA KindsApart ==
  /\ {"post", "timer", "signalfd", "pipe", "stdin", "udp", "listen"} \subseteq Kinds
  /\ SignalOwn \subseteq Kinds /\ Peers \subseteq Kinds
  /\ \A k \in {"post", "timer", "pipe", "stdin", "udp"} : k \notin SignalOwn /\ k \notin ServerOwn
  /\ \A k \in SignalOwn : k \notin ServerOwn
  /\ \A p \in Peers : p \notin SignalOwn /\ p \notin {"post", "timer", "pipe", "stdin", "udp"}
BY KindFacts DEF OwnKinds, SignalOwn, ServerOwn

LEMMA PostNext ==
  ASSUME IInv, PostHandling \/ PostOther, OnlyPost
  PROVE  IInv'
<1>1. uses' = uses
  BY DEF OnlyPost
<1>2. QueueInv' /\ PostInv' /\ sys' = sys /\ \A j \in Kinds \ {"post"} : Frame(j)
  BY <1>1, PostStep DEF IInv
<1>3. /\ Frame("timer") /\ Frame("pipe") /\ Frame("stdin") /\ Frame("udp")
      /\ (\A j \in SignalOwn : Frame(j)) /\ \A p \in Peers : Frame(p)
  BY <1>2, KindsApart
<1> QED BY <1>1, <1>2, <1>3, Others DEF IInv, OnlyPost

LEMMA TimerNext ==
  ASSUME IInv, TimerHandling \/ TimerOther, OnlyTimer
  PROVE  IInv'
<1>1. uses' = uses
  BY DEF OnlyTimer
<1>2. QueueInv' /\ TimerInv' /\ sys' = sys /\ \A j \in Kinds \ {"timer"} : Frame(j)
  BY <1>1, TimerStep DEF IInv
<1>3. /\ Frame("post") /\ Frame("pipe") /\ Frame("stdin") /\ Frame("udp")
      /\ (\A j \in SignalOwn : Frame(j)) /\ \A p \in Peers : Frame(p)
  BY <1>2, KindsApart
<1> QED BY <1>1, <1>2, <1>3, Others DEF IInv, OnlyTimer

LEMMA SignalNext ==
  ASSUME IInv, SignalHandling \/ SignalOther, OnlySignal
  PROVE  IInv'
<1>1. uses' = uses
  BY DEF OnlySignal
<1>2. QueueInv' /\ SignalInv' /\ sys' = sys /\ \A j \in Kinds \ SignalOwn : Frame(j)
  BY <1>1, SignalStep DEF IInv
<1>3. /\ Frame("post") /\ Frame("timer") /\ Frame("pipe") /\ Frame("stdin")
      /\ Frame("udp") /\ \A p \in Peers : Frame(p)
  BY <1>2, KindsApart
<1> QED BY <1>1, <1>2, <1>3, Others DEF IInv, OnlySignal

LEMMA PipeNext ==
  ASSUME IInv, PipeHandling \/ ("pipe" \in uses /\ PipeOther), OnlyPipe
  PROVE  IInv'
<1>1. uses' = uses
  BY DEF OnlyPipe
<1>2. QueueInv' /\ PipeInv' /\ sys' = sys /\ \A j \in Kinds \ {"pipe"} : Frame(j)
  BY <1>1, PipeStep DEF IInv
<1>3. /\ Frame("post") /\ Frame("timer") /\ Frame("stdin") /\ Frame("udp")
      /\ (\A j \in SignalOwn : Frame(j)) /\ \A p \in Peers : Frame(p)
  BY <1>2, KindsApart
<1> QED BY <1>1, <1>2, <1>3, Others DEF IInv, OnlyPipe

LEMMA KeysNext ==
  ASSUME IInv, KeyHandling \/ (\E k \in Keys : KeyType(k)), OnlyKeys
  PROVE  IInv'
<1>1. uses' = uses
  BY DEF OnlyKeys
<1>2. QueueInv' /\ KeyInv' /\ sys' = sys /\ \A j \in Kinds \ {"stdin"} : Frame(j)
  BY <1>1, KeyStep DEF IInv
<1>3. /\ Frame("post") /\ Frame("timer") /\ Frame("pipe") /\ Frame("udp")
      /\ (\A j \in SignalOwn : Frame(j)) /\ \A p \in Peers : Frame(p)
  BY <1>2, KindsApart
<1> QED BY <1>1, <1>2, <1>3, Others DEF IInv, OnlyKeys

LEMMA UdpNext ==
  ASSUME IInv, UdpHandling \/ ("udp" \in uses /\ UdpOther), OnlyUdp
  PROVE  IInv'
<1>1. uses' = uses
  BY DEF OnlyUdp
<1>2. QueueInv' /\ UdpInv' /\ sys' = sys /\ \A j \in Kinds \ {"udp"} : Frame(j)
  BY <1>1, UdpStep DEF IInv
<1>3. /\ Frame("post") /\ Frame("timer") /\ Frame("pipe") /\ Frame("stdin")
      /\ (\A j \in SignalOwn : Frame(j)) /\ \A p \in Peers : Frame(p)
  BY <1>2, KindsApart
<1> QED BY <1>1, <1>2, <1>3, Others DEF IInv, OnlyUdp

LEMMA ServerNext ==
  ASSUME IInv, ServerHandling \/ (Server /\ PeerActs), OnlyServer
  PROVE  IInv'
<1>1. uses' = uses
  BY DEF OnlyServer
<1>2. QueueInv' /\ ServerInv' /\ sys' = sys /\ \A j \in Kinds \ ServerOwn : Frame(j)
  BY <1>1, PeerStep, ServerStep DEF IInv
<1>3. /\ Frame("post") /\ Frame("timer") /\ Frame("pipe") /\ Frame("stdin")
      /\ Frame("udp") /\ (\A j \in SignalOwn : Frame(j))
  BY <1>2, KindsApart
<1> QED BY <1>1, <1>2, <1>3, Others DEF IInv, OnlyServer

\* Where the objects stay as they are.
LEMMA FramesNext ==
  ASSUME IInv, QueueInv', sys' = sys, \A k \in Kinds : Frame(k), OnlyQueue
  PROVE  IInv'
<1>1. /\ Frame("post") /\ Frame("timer") /\ Frame("pipe") /\ Frame("stdin") /\ Frame("udp")
      /\ (\A j \in SignalOwn : Frame(j)) /\ \A p \in Peers : Frame(p)
  BY KindsApart
<1> QED BY <1>1, Others DEF IInv, OnlyQueue

LEMMA WaitsNext ==
  ASSUME IInv, Waits
  PROVE  IInv'
<1>1. uses' = uses /\ OnlyQueue
  BY DEF Waits, OnlyQueue
<1>2. Wait(Pollable, TimerDone, Cap) \/ Take(UserKnows)
  BY DEF Waits, Waiter, Cap, UserKnows
<1>3. QueueInv' /\ (WaitFacts \/ TakeFacts)
  BY <1>1, <1>2, WaitQ, TakeQ DEF IInv
<1>4. sys' = sys
  BY <1>3 DEF WaitFacts, TakeFacts
<1>5. SigInv'
  BY <1>1, <1>4, SigFrame DEF IInv, OnlyQueue
<1>6. PostInv' /\ PipeInv'
  BY <1>1, <1>3, PostQueue, PipeQueue DEF IInv, OnlyQueue
<1>7. TimerInv'
  BY <1>1, <1>3, TimerWait, TimerTake DEF IInv, OnlyQueue
<1>8. SignalInv'
  BY <1>1, <1>3, SignalWait, SignalTake DEF IInv, OnlyQueue
<1>9. ObjectsInv /\ OneByOneInv
  BY DEF IInv, QueueInv
<1>10. KeyInv' /\ UdpInv'
  BY <1>1, <1>3, <1>9, KeyQueue, UdpQueue DEF IInv, OnlyQueue
<1>11. ServerInv'
  BY <1>1, <1>3, <1>9, ServerQueue DEF IInv, OnlyQueue
<1> QED BY <1>3, <1>5, <1>6, <1>7, <1>8, <1>10, <1>11 DEF IInv

LEMMA HandlerNext ==
  ASSUME IInv, HandlerStep, OnlyHandler
  PROVE  IInv'
<1>1. Stay /\ sys' = sys /\ uses' = uses
  BY DEF HandlerStep, kqVars, Stay, OnlyHandler
<1>2. QueueInv' /\ \A k \in Kinds : Frame(k)
  BY <1>1, StayQ DEF IInv
<1>3. /\ Frame("post") /\ Frame("timer") /\ Frame("pipe") /\ Frame("stdin") /\ Frame("udp")
      /\ (\A j \in SignalOwn : Frame(j)) /\ \A p \in Peers : Frame(p)
  BY <1>2, KindsApart
<1>4. SigInv'
  BY HandlerStepInv DEF IInv
<1> QED BY <1>1, <1>2, <1>3, <1>4, Others DEF IInv, OnlyHandler

LEMMA ExecNext ==
  ASSUME IInv, uses \cap {"post", "timer"} # {}, Exec, OnlyQueue
  PROVE  IInv'
<1>1. ~Server /\ uses' = uses /\ sys' = sys
  BY DEF Server, OnlyQueue, Exec
<1>2. QueueInv' /\ \A k \in Kinds : Frame(k)
  BY <1>1, ExecQ DEF IInv
<1> QED BY <1>1, <1>2, FramesNext

LEMMA StutterNext ==
  ASSUME IInv, UNCHANGED vars
  PROVE  IInv'
<1>1. Stay /\ OnlyQueue /\ uses' = uses /\ sys' = sys
  BY DEF vars, kqVars, Stay, OnlyQueue
<1>2. QueueInv' /\ \A k \in Kinds : Frame(k)
  BY <1>1, StayQ DEF IInv
<1> QED BY <1>1, <1>2, FramesNext

LEMMA NextInv ==
  ASSUME IInv, [Next]_vars
  PROVE  IInv'
<1>1. CASE Handling
  BY <1>1, PostNext, TimerNext, SignalNext, PipeNext, ServerNext, KeysNext, UdpNext DEF Handling
<1>2. CASE Waits
  BY <1>2, WaitsNext
<1>3. CASE Other
  BY <1>3, PostNext, TimerNext, SignalNext, PipeNext, ServerNext, KeysNext, UdpNext, HandlerNext, ExecNext
     DEF Other
<1>4. CASE UNCHANGED vars
  BY <1>4, StutterNext
<1> QED BY <1>1, <1>2, <1>3, <1>4 DEF Next

\* The inductive invariant: the queue's part, which says that UNIX has nothing of what was
\* detached, and for each component where its pending events are.
THEOREM Invariance == Spec => []IInv
<1>1. Init => IInv
  BY InitInv
<1>2. IInv /\ [Next]_vars => IInv'
  BY NextInv
<1> QED BY <1>1, <1>2, PTL DEF Spec

-----------------------------------------------------------------------------
(* What the invariant says. *)

LEMMA TypesOf ==
  ASSUME IInv
  PROVE  KqTypeOK /\ PostTypeOK /\ TimerTypeOK /\ SignalTypeOK /\ PipeTypeOK /\ HandlerTypeOK
<1>1. KqTypeOK
  BY DEF IInv, QueueInv, SeqInv, ObjectsInv, KqTypeOK
<1> QED BY <1>1, SigTypeOK DEF IInv, PostInv, TimerInv, SignalInv, PipeInv

LEMMA TrueEvents ==
  ASSUME IInv
  PROVE  EventsAreTrue
<1>1. DetachedIsSilent
  BY DEF IInv, QueueInv, SilentInv, DetachedIsSilent, Known, Fetched
<1>2. TimerTells
  BY DEF IInv, TimerInv, TimerTells, Fetched
<1>3. DataIsLive
  BY KindFacts DEF IInv, QueueInv, ObjectsInv, DataIsLive
<1>4. ConnsAreOpen
  BY DEF IInv, ServerInv
<1> QED BY <1>1, <1>2, <1>3, <1>4 DEF EventsAreTrue

LEMMA EventsComing ==
  ASSUME IInv
  PROVE  NoLostEvent
<1>1. posted => Coming("post")
  BY DEF IInv, PostInv, Coming, Queued, Fetched
<1>2. expired => Coming("timer")
  BY DEF IInv, TimerInv, Coming, Timer, Queued, Fetched
<1>3. ASSUME NEW s \in raised PROVE Coming(IF sys = "linux" THEN "signalfd" ELSE s)
  <2>1. raised # {} /\ sys \in {"linux", "bsd", "windows"} /\ SignalInv
    BY <1>3 DEF IInv, QueueInv, SeqInv
  <2>2. CASE sys = "linux"
    BY <1>3, <2>1, <2>2 DEF SignalInv, Attached, SignalKinds
  <2>3. CASE sys = "bsd"
    BY <1>3, <2>1, <2>3 DEF SignalInv, Coming, Queued, Fetched
  <2> QED BY <2>1, <2>2, <2>3 DEF SignalInv
<1>4. Waiting # {} => Coming("pipe")
  <2>1. SUFFICES ASSUME NEW c \in Waiting, sys = "windows", at # "pipe" PROVE Coming("pipe")
    BY DEF IInv, PipeInv, Coming
  <2>2. cur["pipe"] # 0 /\ inst # "listening"
    BY <2>1, PipeFacts DEF IInv, PipeInv
  <2> QED BY <2>1, <2>2 DEF IInv, PipeInv, Coming, Pipe, Queued, Fetched
<1>5. tty # <<>> => Coming("stdin")
  BY DEF IInv, KeyInv
<1>6. queue # <<>> \/ soError = "refused" \/ io \in {"done", "failed"} => Coming("udp")
  <2>1. UdpInv
    BY DEF IInv
  <2>2. CASE sys # "windows"
    BY <2>1, <2>2 DEF UdpInv
  <2>3. CASE sys = "windows"
    BY <2>1, <2>3 DEF UdpInv, Coming
  <2> QED BY <2>2, <2>3
<1>7. up => \A p \in Conns : Readable(p) => at = p \/ Notes(p) \cap (ToSet(ready) \cup ToSet(batch)) # {}
  <2>1. ASSUME up, NEW p \in Conns, Readable(p), at # p
        PROVE  Notes(p) \cap (ToSet(ready) \cup ToSet(batch)) # {}
    <3>1. ReadNote(p) \in Queued \/ Notes(p) \cap Fetched # {}
      BY <2>1 DEF IInv, ServerInv
    <3>2. ReadNote(p) \in Notes(p)
      BY <2>1, ServerFacts DEF IInv
    <3> QED BY <3>1, <3>2 DEF Queued, Fetched
  <2> QED BY <2>1
<1> QED BY <1>1, <1>2, <1>3, <1>4, <1>5, <1>6, <1>7 DEF NoLostEvent

\* Events are edges, and none is lost: a post, an expiry, a signal, a connection, a key, a
\* datagram or readable data that the user has not seen is announced by an event that is on the
\* system's list, in what ffkq_wait() has returned, or in the user's hands, on all three
\* systems and however the posts, waits, reads and closes interleave.
THEOREM NothingLost == Spec => []NoLostEvent
<1>1. IInv => NoLostEvent
  BY EventsComing
<1> QED BY <1>1, Invariance, PTL

\* UNIX: ffkq_wait() returns nothing with the data of what was detached or closed; a timer's
\* event means that it has expired since it was started last; the example servers handle no
\* freed connection, and the router's list holds each open connection once.
THEOREM EventsTrue == Spec => []EventsAreTrue
<1>1. IInv => EventsAreTrue
  BY TrueEvents
<1> QED BY <1>1, Invariance, PTL

\* Windows: ConnectNamedPipe() is called once until its packet comes, and WSARecvFrom()'s
\* buffer is the system's until then: no datagram is lost, got twice or overwritten.
THEOREM OperationsKept == Spec => []OperationsAreKept
<1>1. IInv => OperationsAreKept
  <2>1. ASSUME IInv PROVE PendingIsActive
    BY <2>1 DEF IInv, PipeInv, PendingIsActive
  <2>2. ASSUME IInv PROVE DatagramsAreKept
    BY <2>2 DEF IInv, UdpInv
  <2> QED BY <2>1, <2>2 DEF OperationsAreKept
<1> QED BY <1>1, Invariance, PTL

\* ffsig_subscribe(): a thread that asked for FFSIG_STACK has its handler on the alternative
\* stack, and a handler that was asked for n times once runs n times at most, with any number
\* of threads and in any order of the system calls.
THEOREM HandlersAsAsked == Spec => []HandlersRunAsAsked
<1>1. IInv => HandlersRunAsAsked
  BY SigOnce DEF IInv
<1> QED BY <1>1, Invariance, PTL

-----------------------------------------------------------------------------
(* What a terminal sends, and the key that ffstd_key_parse() finds in it. *)

Mods == SUBSET {"shift", "alt", "ctrl"}
Codes ==
  {"esc", "O", "[", "~", ";", "t", "0", "1", "2", "3", "4", "5", "6", "7", "8", "9",
   "A", "B", "C", "D", "F", "H", "P", "Q", "R", "S", "a", "d0", "af"}
Units == Codes \cup {Record(Key(v, m), d) : v \in Virtual \cup Plain \cup Unhandled, m \in Mods, d \in BOOLEAN}

LEMMA CodeFacts == Codes \subseteq Units
BY DEF Units

\* A key is of one class.
LEMMA Classes ==
  /\ \A v \in DOMAIN Finals : v \notin Plain /\ v \notin DOMAIN Numbers /\ v \notin DOMAIN Letters
  /\ \A v \in DOMAIN Numbers : v \notin Plain /\ v \notin DOMAIN Finals /\ v \notin DOMAIN Letters
  /\ \A v \in DOMAIN Letters : v \notin Plain /\ v \notin DOMAIN Numbers /\ v \notin DOMAIN Finals
  /\ \A v \in Plain \cup {"PASTE"} : v \notin DOMAIN Finals /\ v \notin DOMAIN Numbers /\ v \notin DOMAIN Letters
  /\ "PASTE" \notin Plain
BY DEF Plain, Letters, Finals, Numbers

\* After the first i units of b come those of q.
Holds(b, i, q) == i + Len(q) <= Len(b) /\ \A j \in 1..Len(q) : b[i + j] = q[j]

LEMMA HoldsParts ==
  ASSUME NEW b \in Seq(Units), NEW i \in Nat, NEW q \in Seq(Units), NEW r \in Seq(Units), Holds(b, i, q \o r)
  PROVE  Holds(b, i, q) /\ Holds(b, i + Len(q), r) /\ Len(q \o r) = Len(q) + Len(r)
<1> DEFINE l == Len(q) m == Len(r) w == q \o r n == Len(b)
<1>1. l \in Nat /\ m \in Nat /\ n \in Nat
  BY LenProperties
<1>2. /\ Len(w) = l + m
      /\ \A j \in 1..(l + m) : w[j] = IF j <= l THEN q[j] ELSE r[j - l]
  <2>1. /\ Len(w) = Len(q) + Len(r)
        /\ \A j \in 1..(Len(q) + Len(r)) : w[j] = IF j <= Len(q) THEN q[j] ELSE r[j - Len(q)]
    BY ConcatProperties
  <2> QED BY <2>1
<1>3. i + Len(w) <= n /\ \A j \in 1..Len(w) : b[i + j] = w[j]
  BY DEF Holds
<1> HIDE DEF l, m, w, n
<1>4. i + l <= n /\ (i + l) + m <= n
  BY <1>1, <1>2, <1>3
<1>5. ASSUME NEW j \in 1..l PROVE b[i + j] = q[j]
  <2>1. j \in 1..(l + m) /\ j <= l
    BY <1>1
  <2> QED BY <1>2, <1>3, <2>1
<1>6. ASSUME NEW j \in 1..m PROVE b[(i + l) + j] = r[j]
  <2> DEFINE k == l + j e == k - l
  <2>1. k \in 1..(l + m) /\ ~(k <= l) /\ e = j /\ i + k = (i + l) + j
    BY <1>1
  <2> HIDE DEF k, e
  <2>2. b[i + k] = w[k] /\ w[k] = r[e]
    BY <1>2, <1>3, <2>1 DEF e
  <2> QED BY <2>1, <2>2
<1> QED BY <1>2, <1>4, <1>5, <1>6 DEF Holds, l, m, n, w

\* The tables.
LEMMA Digits ==
  ASSUME NEW m \in Mods, m # {}
  PROVE  Digit(m) \in {"2", "3", "4", "5", "6", "7", "8"} /\ KeysMod[Digit(m)] = m
<1> DEFINE S == {"2", "3", "4", "5", "6", "7", "8"}
           C(d) == CASE d = "2" -> {"shift"} [] d = "3" -> {"alt"} [] d = "4" -> {"shift", "alt"}
                     [] d = "5" -> {"ctrl"} [] d = "6" -> {"ctrl", "shift"} [] d = "7" -> {"ctrl", "alt"}
                     [] d = "8" -> {"ctrl", "shift", "alt"}
<1>1. \A d \in S : C(d) = KeysMod[d]
  BY DEF KeysMod
<1>2. \E d \in S : m = C(d)
  <2>0. m \subseteq {"shift", "alt", "ctrl"}
    BY DEF Mods
  <2>1. CASE "shift" \in m /\ "alt" \in m /\ "ctrl" \in m
    <3>1. m = C("8")
      BY <2>0, <2>1
    <3> QED BY <3>1
  <2>2. CASE "shift" \notin m /\ "alt" \in m /\ "ctrl" \in m
    <3>1. m = C("7")
      BY <2>0, <2>2
    <3> QED BY <3>1
  <2>3. CASE "shift" \in m /\ "alt" \notin m /\ "ctrl" \in m
    <3>1. m = C("6")
      BY <2>0, <2>3
    <3> QED BY <3>1
  <2>4. CASE "shift" \notin m /\ "alt" \notin m /\ "ctrl" \in m
    <3>1. m = C("5")
      BY <2>0, <2>4
    <3> QED BY <3>1
  <2>5. CASE "shift" \in m /\ "alt" \in m /\ "ctrl" \notin m
    <3>1. m = C("4")
      BY <2>0, <2>5
    <3> QED BY <3>1
  <2>6. CASE "shift" \notin m /\ "alt" \in m /\ "ctrl" \notin m
    <3>1. m = C("3")
      BY <2>0, <2>6
    <3> QED BY <3>1
  <2>7. CASE "shift" \in m /\ "alt" \notin m /\ "ctrl" \notin m
    <3>1. m = C("2")
      BY <2>0, <2>7
    <3> QED BY <3>1
  <2>8. CASE "shift" \notin m /\ "alt" \notin m /\ "ctrl" \notin m
    BY <2>0, <2>8
  <2> QED BY <2>1, <2>2, <2>3, <2>4, <2>5, <2>6, <2>7, <2>8
<1>3. Digit(m) = CHOOSE d \in S : m = C(d)
  BY DEF Digit
<1> HIDE DEF C, S
<1>4. Digit(m) \in S /\ m = C(Digit(m))
  BY <1>2, <1>3
<1> QED BY <1>1, <1>4 DEF S

LEMMA Tables ==
  /\ DOMAIN KeysMod = {"2", "3", "4", "5", "6", "7", "8"}
  /\ DOMAIN Keys4x = {"A", "B", "C", "D", "E", "F", "G", "H"}
  /\ DOMAIN KeysF1F4 = {"P", "Q", "R", "S"}
  /\ DOMAIN KeysF5F8 = {"5", "6", "7", "8", "9"}
  /\ DOMAIN KeysF9F12 = {"0", "1", "2", "3", "4"}
  /\ DOMAIN Keys3x = {"2", "3", "4", "5", "6"}
BY DEF KeysMod, Keys4x, KeysF1F4, KeysF5F8, KeysF9F12, Keys3x

LEMMA FinalTable ==
  ASSUME NEW v \in DOMAIN Finals
  PROVE  Finals[v] \in {"P", "Q", "R", "S"} /\ KeysF1F4[Finals[v]] = v /\ v \notin {"none", "PASTE", "skip"}
BY DEF Finals, KeysF1F4

LEMMA LetterTable ==
  ASSUME NEW v \in DOMAIN Letters
  PROVE  Letters[v] \in {"A", "B", "C", "D", "F", "H"} /\ Keys4x[Letters[v]] = v /\ v \notin {"none", "PASTE", "skip"}
BY DEF Letters, Keys4x

\* A key with a number is in one of three tables.
LEMMA NumberTable ==
  ASSUME NEW v \in DOMAIN Numbers
  PROVE  LET n == Numbers[v] IN
         /\ v \notin {"none", "PASTE", "skip"}
         /\ \/ \E d \in {"5", "7", "8", "9"} : n = <<"1", d>> /\ KeysF5F8[d] = v
            \/ \E d \in {"0", "1", "3", "4"} : n = <<"2", d>> /\ KeysF9F12[d] = v
            \/ \E d \in {"2", "3", "5", "6"} : n = <<d>> /\ Keys3x[d] = v
<1>0. v \in {"F5", "F6", "F7", "F8", "F9", "F10", "F11", "F12", "INS", "DEL", "PGUP", "PGDN"}
  BY DEF Numbers
<1>1. CASE v \in {"F5", "F6", "F7", "F8"}
  BY <1>1 DEF Numbers, KeysF5F8
<1>2. CASE v \in {"F9", "F10", "F11", "F12"}
  BY <1>2 DEF Numbers, KeysF9F12
<1>3. CASE v \in {"INS", "DEL", "PGUP", "PGDN"}
  BY <1>3 DEF Numbers, Keys3x
<1> QED BY <1>0, <1>1, <1>2, <1>3

LEMMA Joined ==
  ASSUME NEW a, NEW b, NEW c
  PROVE  <<a>> \o <<b>> = <<a, b>> /\ <<a>> \o <<b, c>> = <<a, b, c>>
<1> DEFINE S == {a, b, c} p == <<a>> q == <<b>> r == <<b, c>> u == <<a, b>> w == <<a, b, c>>
<1>1. /\ p \in Seq(S) /\ q \in Seq(S) /\ r \in Seq(S) /\ u \in Seq(S) /\ w \in Seq(S)
      /\ Len(p) = 1 /\ Len(q) = 1 /\ Len(r) = 2 /\ Len(u) = 2 /\ Len(w) = 3
  OBVIOUS
<1>2. /\ p[1] = a /\ q[1] = b /\ r[1] = b /\ r[2] = c /\ u[1] = a /\ u[2] = b
      /\ w[1] = a /\ w[2] = b /\ w[3] = c
  OBVIOUS
<1> HIDE DEF p, q, r, u, w, S
<1>3. p \o q = u
  <2>1. /\ p \o q \in Seq(S) /\ Len(p \o q) = Len(p) + Len(q)
        /\ \A i \in 1..(Len(p) + Len(q)) : (p \o q)[i] = IF i <= Len(p) THEN p[i] ELSE q[i - Len(p)]
    BY <1>1, ConcatProperties
  <2>2. Len(p \o q) = 2 /\ (p \o q)[1] = a /\ (p \o q)[2] = b
    BY <1>1, <1>2, <2>1
  <2>3. \A i \in 1..2 : (p \o q)[i] = u[i]
    BY <1>2, <2>2
  <2> QED BY <1>1, <2>1, <2>2, <2>3, SeqEqual
<1>4. p \o r = w
  <2>1. /\ p \o r \in Seq(S) /\ Len(p \o r) = Len(p) + Len(r)
        /\ \A i \in 1..(Len(p) + Len(r)) : (p \o r)[i] = IF i <= Len(p) THEN p[i] ELSE r[i - Len(p)]
    BY <1>1, ConcatProperties
  <2>2. Len(p \o r) = 3 /\ (p \o r)[1] = a /\ (p \o r)[2] = b /\ (p \o r)[3] = c
    BY <1>1, <1>2, <2>1
  <2>3. \A i \in 1..3 : (p \o r)[i] = w[i]
    BY <1>2, <2>2
  <2> QED BY <1>1, <2>1, <2>2, <2>3, SeqEqual
<1> QED BY <1>3, <1>4 DEF p, q, r, u, w

LEMMA HoldsThree ==
  ASSUME NEW b \in Seq(Units), NEW q \in Seq(Units), NEW r \in Seq(Units), NEW t \in Seq(Units),
         Holds(b, 0, q \o r \o t)
  PROVE  /\ Holds(b, 0, q) /\ Holds(b, Len(q), r) /\ Holds(b, Len(q) + Len(r), t)
         /\ Len(q \o r \o t) = Len(q) + Len(r) + Len(t) /\ q \o r \o t \in Seq(Units)
<1> DEFINE w == q \o r
<1>1. w \in Seq(Units) /\ Len(q) \in Nat /\ Len(r) \in Nat /\ Len(t) \in Nat
  BY ConcatProperties, LenProperties
<1> HIDE DEF w
<1>2. Holds(b, 0, w \o t)
  BY DEF w
<1>3. Holds(b, 0, w) /\ Holds(b, 0 + Len(w), t) /\ Len(w \o t) = Len(w) + Len(t) /\ w \o t \in Seq(Units)
  BY <1>1, <1>2, HoldsParts, ConcatProperties
<1>4. Holds(b, 0, q) /\ Holds(b, 0 + Len(q), r) /\ Len(w) = Len(q) + Len(r)
  BY <1>3, HoldsParts DEF w
<1>5. 0 + Len(q) = Len(q) /\ 0 + Len(w) = Len(q) + Len(r)
  BY <1>1, <1>4
<1> QED BY <1>3, <1>4, <1>5 DEF w

LEMMA HoldsFour ==
  ASSUME NEW b \in Seq(Units), NEW p \in Seq(Units), NEW q \in Seq(Units), NEW r \in Seq(Units), NEW t \in Seq(Units),
         Holds(b, 0, p \o q \o r \o t)
  PROVE  /\ Holds(b, 0, p) /\ Holds(b, Len(p), q) /\ Holds(b, Len(p) + Len(q), r)
         /\ Holds(b, Len(p) + Len(q) + Len(r), t)
         /\ Len(p \o q \o r \o t) = Len(p) + Len(q) + Len(r) + Len(t) /\ p \o q \o r \o t \in Seq(Units)
<1> DEFINE w == p \o q
<1>1. w \in Seq(Units) /\ Len(w) = Len(p) + Len(q) /\ Len(p) \in Nat /\ Len(q) \in Nat
  BY ConcatProperties, LenProperties
<1>0. Holds(b, 0, w \o r \o t)
  OBVIOUS
<1> HIDE DEF w
<1>2. /\ Holds(b, 0, w) /\ Holds(b, Len(w), r) /\ Holds(b, Len(w) + Len(r), t)
      /\ Len(w \o r \o t) = Len(w) + Len(r) + Len(t) /\ w \o r \o t \in Seq(Units)
  BY <1>0, <1>1, HoldsThree
<1>3. Holds(b, 0, p) /\ Holds(b, 0 + Len(p), q)
  BY <1>2, HoldsParts DEF w
<1>4. 0 + Len(p) = Len(p)
  BY <1>1
<1> QED BY <1>1, <1>2, <1>3, <1>4 DEF w

LEMMA DAt ==
  ASSUME data \in Seq(Units), NEW i \in 0..7, i + 1 <= Len(data)
  PROVE  D(i) = data[i + 1]
<1>1. Len(data) \in Nat
  BY LenProperties
<1>2. i < Len(data) /\ i < 8
  BY <1>1
<1> QED BY <1>2 DEF D

\* F1..F4
LEMMA ParseFinal ==
  ASSUME data \in Seq(Units), NEW v \in DOMAIN Finals, NEW m \in Mods, NEW k, k = Key(v, m),
         Holds(data, 0, Sequence(k))
  PROVE  ParseUnix = Got(v, m, Len(Sequence(k))) /\ Sequence(k) \in Seq(Units)
<1> DEFINE x == Finals[v] q == IF m = {} THEN <<>> ELSE <<Digit(m)>> e == <<"esc", "O">> t == <<x>>
<1>1. k.name = v /\ k.mods = m
  BY DEF Key
<1>2. v \notin Plain /\ v \notin DOMAIN Numbers /\ v \notin DOMAIN Letters
  BY Classes
<1>3. Sequence(k) = e \o q \o t
  BY <1>1, <1>2 DEF Sequence
<1>4. x \in {"P", "Q", "R", "S"} /\ KeysF1F4[x] = v /\ v # "none"
  BY FinalTable
<1>5. m # {} => Digit(m) \in {"2", "3", "4", "5", "6", "7", "8"} /\ KeysMod[Digit(m)] = m
  BY Digits
<1>6. e \in Seq(Units) /\ q \in Seq(Units) /\ t \in Seq(Units) /\ Len(e) = 2 /\ Len(t) = 1
  <2>1. e \in Seq(Units) /\ Len(e) = 2
    <3>1. "esc" \in Units /\ "O" \in Units
      BY CodeFacts DEF Codes
    <3> QED BY <3>1
  <2>2. t \in Seq(Units) /\ Len(t) = 1
    <3>1. x \in Units
      BY <1>4, CodeFacts DEF Codes
    <3> HIDE DEF x
    <3> QED BY <3>1
  <2>3. q \in Seq(Units)
    <3>1. CASE m = {}
      BY <3>1
    <3>2. CASE m # {}
      <4>1. Digit(m) \in Units
        BY <1>5, <3>2, CodeFacts DEF Codes
      <4> QED BY <3>2, <4>1
    <3> QED BY <3>1, <3>2
  <2> QED BY <2>1, <2>2, <2>3
<1>6a. Len(q) = IF m = {} THEN 0 ELSE 1
  OBVIOUS
<1>6b. m # {} => q[1] = Digit(m)
  OBVIOUS
<1>6c. e[1] = "esc" /\ e[2] = "O" /\ t[1] = x
  OBVIOUS
<1> HIDE DEF q, e, t, x
<1>7. /\ Holds(data, 0, e) /\ Holds(data, Len(e), q) /\ Holds(data, Len(e) + Len(q), t)
      /\ Len(e \o q \o t) = Len(e) + Len(q) + Len(t) /\ e \o q \o t \in Seq(Units)
  BY <1>3, <1>6, HoldsThree
<1>8. Len(data) \in Nat
  BY LenProperties
<1>9. D(0) = "esc" /\ D(1) = "O"
  <2>1. data[1] = "esc" /\ data[2] = "O" /\ 2 <= Len(data)
    BY <1>6, <1>6c, <1>7, <1>8 DEF Holds
  <2> QED BY <1>8, <2>1, DAt
<1>10. ParseUnix = ParseO
  BY <1>9 DEF ParseUnix
<1>11. CASE m = {}
  <2>1. data[3] = x /\ 3 <= Len(data) /\ Len(e \o q \o t) = 3
    BY <1>6, <1>6a, <1>6c, <1>7, <1>8, <1>11 DEF Holds
  <2>2. D(2) = x
    BY <1>8, <2>1, DAt
  <2>3. D(2) \notin DOMAIN KeysMod /\ D(2) \in DOMAIN KeysF1F4
    BY <1>4, <2>2, Tables
  <2>4. ParseO = Fin(KeysF1F4[D(2)], {}, 2)
    BY <2>3 DEF ParseO
  <2>5. ParseO = Got(v, {}, 3)
    BY <1>4, <2>2, <2>4 DEF Fin
  <2> QED BY <1>3, <1>7, <1>10, <1>11, <2>1, <2>5
<1>12. CASE m # {}
  <2>1. data[3] = Digit(m) /\ data[4] = x /\ 4 <= Len(data) /\ Len(e \o q \o t) = 4
    BY <1>6, <1>6a, <1>6b, <1>6c, <1>7, <1>8, <1>12, SMTT(30) DEF Holds
  <2>2. D(2) = Digit(m) /\ D(3) = x
    BY <1>8, <2>1, DAt
  <2>3. D(2) \in DOMAIN KeysMod /\ D(3) \in DOMAIN KeysF1F4
    BY <1>4, <1>5, <1>12, <2>2, Tables
  <2>4. ParseO = Fin(KeysF1F4[D(3)], KeysMod[D(2)], 3)
    BY <2>3 DEF ParseO
  <2>5. ParseO = Got(v, m, 4)
    BY <1>4, <1>5, <1>12, <2>2, <2>4 DEF Fin
  <2> QED BY <1>3, <1>7, <1>10, <2>1, <2>5
<1> QED BY <1>11, <1>12

LEMMA PairFacts ==
  ASSUME NEW S, NEW x \in S, NEW y \in S
  PROVE  <<x, y>> \in Seq(S) /\ Len(<<x, y>>) = 2 /\ <<x, y>>[1] = x /\ <<x, y>>[2] = y
OBVIOUS

LEMMA HoldsUnit ==
  ASSUME NEW b, NEW i, NEW q, Holds(b, i, q), NEW j \in 1..Len(q)
  PROVE  b[i + j] = q[j] /\ i + Len(q) <= Len(b)
BY DEF Holds

\* What follows the number of a key: its modifiers and "~".
Semi(m) == IF m = {} THEN <<>> ELSE <<";", Digit(m)>>

LEMMA SemiFacts ==
  ASSUME NEW m \in Mods
  PROVE  /\ Semi(m) \in Seq(Units) /\ Len(Semi(m)) = (IF m = {} THEN 0 ELSE 2)
         /\ m # {} => Semi(m)[1] = ";" /\ Semi(m)[2] = Digit(m)
<1>1. CASE m = {}
  BY <1>1 DEF Semi
<1>2. CASE m # {}
  <2>1. ";" \in Units /\ Digit(m) \in Units
    BY <1>2, Digits, CodeFacts DEF Codes
  <2>2. PICK d : d = Digit(m) /\ Semi(m) = <<";", d>> /\ d \in Units
    BY <1>2, <2>1 DEF Semi
  <2>3. <<";", d>> \in Seq(Units) /\ Len(<<";", d>>) = 2 /\ <<";", d>>[1] = ";" /\ <<";", d>>[2] = d
    BY <2>1, <2>2, PairFacts
  <2> QED BY <1>2, <2>2, <2>3
<1> QED BY <1>1, <1>2

LEMMA NumberTail ==
  ASSUME data \in Seq(Units), NEW m \in Mods, NEW a \in 3..4, NEW name, name # "none",
         Holds(data, a, Semi(m)), Holds(data, a + Len(Semi(m)), <<"~">>)
  PROVE  NumberEnd(name, a) = Got(name, m, a + Len(Semi(m)) + 1)
<1> DEFINE t == <<"~">> q == Semi(m)
<1>1. Len(data) \in Nat /\ Len(t) = 1 /\ t[1] = "~"
  BY LenProperties
<1> HIDE DEF t, q
<1>2. Holds(data, a, q) /\ Holds(data, a + Len(q), t)
  BY DEF t, q
<1>3. CASE m = {}
  <2>1. Len(q) = 0
    BY <1>3, SemiFacts DEF q
  <2>2. data[a + 1] = "~" /\ a + 1 <= Len(data) /\ a \in 0..7
    BY <1>1, <1>2, <2>1 DEF Holds
  <2>3. D(a) = "~"
    BY <2>2, DAt
  <2>4. NumberEnd(name, a) = Fin(name, {}, a)
    BY <2>3 DEF NumberEnd
  <2>5. a + Len(q) + 1 = a + 1
    BY <2>1
  <2> QED BY <1>3, <2>4, <2>5 DEF Fin, q
<1>4. CASE m # {}
  <2>1. Len(q) = 2 /\ q[1] = ";" /\ q[2] = Digit(m)
    BY <1>4, SemiFacts DEF q
  <2>0. Len(q) = 2
    BY <2>1
  <2>z. Len(t) = 1
    BY <1>1
  <2> DEFINE b == a + 1 c == a + 2
  <2>2. /\ data[a + 1] = ";" /\ data[b + 1] = Digit(m) /\ data[c + 1] = "~"
        /\ a + 1 <= Len(data) /\ b + 1 <= Len(data) /\ c + 1 <= Len(data)
        /\ a \in 0..7 /\ b \in 0..7 /\ c \in 0..7
    <3>1. 1 \in 1..Len(q) /\ 2 \in 1..Len(q) /\ 1 \in 1..Len(t)
      BY <2>0, <2>z
    <3> DEFINE g == a + Len(q)
    <3>2. g = c /\ b + 1 = a + 2 /\ a \in 0..7 /\ b \in 0..7 /\ c \in 0..7
      BY <2>0
    <3> HIDE DEF g, b
    <3>3. data[a + 1] = q[1] /\ data[a + 2] = q[2]
      BY <1>2, <3>1, HoldsUnit
    <3>4. Holds(data, g, t)
      BY <1>2 DEF g
    <3>5. data[g + 1] = t[1] /\ g + Len(t) <= Len(data)
      BY <3>1, <3>4, HoldsUnit
    <3>6. a + 1 <= Len(data) /\ b + 1 <= Len(data) /\ c + 1 <= Len(data)
      BY <1>1, <3>2, <3>5 DEF b
    <3> HIDE DEF c
    <3> QED BY <1>1, <2>1, <3>2, <3>3, <3>5, <3>6
  <2> HIDE DEF b, c
  <2>3. D(a) = ";" /\ D(b) = Digit(m) /\ D(c) = "~"
    BY <2>2, DAt
  <2>4. Digit(m) \in DOMAIN KeysMod /\ KeysMod[Digit(m)] = m
    BY <1>4, Digits, Tables
  <2>5. NumberEnd(name, a) = Fin(name, m, c)
    BY <2>3, <2>4 DEF NumberEnd, b, c
  <2>6. a + Len(q) + 1 = c + 1
    BY <2>1 DEF c
  <2> QED BY <2>5, <2>6 DEF Fin, q
<1> QED BY <1>3, <1>4

LEMMA NumberUnits ==
  ASSUME NEW v \in DOMAIN Numbers
  PROVE  Numbers[v] \in Seq(Units) /\ Len(Numbers[v]) \in 1..2
<1> DEFINE n == Numbers[v]
<1>0. \/ \E d \in {"5", "7", "8", "9"} : n = <<"1", d>>
      \/ \E d \in {"0", "1", "3", "4"} : n = <<"2", d>>
      \/ \E d \in {"2", "3", "5", "6"} : n = <<d>>
  BY NumberTable
<1> HIDE DEF n
<1>1. CASE \E d \in {"5", "7", "8", "9"} : n = <<"1", d>>
  <2>1. PICK d \in {"5", "7", "8", "9"} : n = <<"1", d>>
    BY <1>1
  <2>2. "1" \in Units /\ d \in Units
    BY CodeFacts DEF Codes
  <2> QED BY <2>1, <2>2 DEF n
<1>2. CASE \E d \in {"0", "1", "3", "4"} : n = <<"2", d>>
  <2>1. PICK d \in {"0", "1", "3", "4"} : n = <<"2", d>>
    BY <1>2
  <2>2. "2" \in Units /\ d \in Units
    BY CodeFacts DEF Codes
  <2> QED BY <2>1, <2>2 DEF n
<1>3. CASE \E d \in {"2", "3", "5", "6"} : n = <<d>>
  <2>1. PICK d \in {"2", "3", "5", "6"} : n = <<d>>
    BY <1>3
  <2>2. d \in Units
    BY CodeFacts DEF Codes
  <2> QED BY <2>1, <2>2 DEF n
<1> QED BY <1>0, <1>1, <1>2, <1>3

\* F5..F12, Ins, Del, PgUp, PgDn
LEMMA ParseNumber ==
  ASSUME data \in Seq(Units), NEW v \in DOMAIN Numbers, NEW m \in Mods, NEW k, k = Key(v, m),
         Holds(data, 0, Sequence(k))
  PROVE  ParseUnix = Got(v, m, Len(Sequence(k))) /\ Sequence(k) \in Seq(Units)
<1> DEFINE n == Numbers[v] q == Semi(m) e == <<"esc", "[">> t == <<"~">>
<1>1. k.name = v /\ k.mods = m
  BY DEF Key
<1>2. v \notin Plain /\ v \notin DOMAIN Finals /\ v \notin DOMAIN Letters
  BY Classes
<1>3. Sequence(k) = e \o n \o q \o t
  <2>1. q = IF m = {} THEN <<>> ELSE <<";">> \o <<Digit(m)>>
    BY Joined DEF Semi
  <2> HIDE DEF q
  <2>2. CASE m = {}
    BY <1>1, <1>2, <2>1, <2>2 DEF Sequence
  <2>3. CASE m # {}
    BY <1>1, <1>2, <2>1, <2>3 DEF Sequence
  <2> QED BY <2>2, <2>3
<1>4. /\ v # "none"
      /\ \/ \E d \in {"5", "7", "8", "9"} : n = <<"1", d>> /\ KeysF5F8[d] = v
         \/ \E d \in {"0", "1", "3", "4"} : n = <<"2", d>> /\ KeysF9F12[d] = v
         \/ \E d \in {"2", "3", "5", "6"} : n = <<d>> /\ Keys3x[d] = v
  BY NumberTable
<1>5. /\ q \in Seq(Units) /\ Len(q) = (IF m = {} THEN 0 ELSE 2)
      /\ m # {} => q[1] = ";"
  BY SemiFacts
<1> HIDE DEF n, q
<1>6. e \in Seq(Units) /\ t \in Seq(Units) /\ Len(e) = 2 /\ Len(t) = 1 /\ e[1] = "esc" /\ e[2] = "[" /\ t[1] = "~"
  <2>1. "esc" \in Units /\ "[" \in Units /\ "~" \in Units
    BY CodeFacts DEF Codes
  <2> QED BY <2>1
<1>7. n \in Seq(Units) /\ Len(n) \in 1..2
  BY NumberUnits DEF n
<1> HIDE DEF e, t
<1>8. /\ Holds(data, 0, e) /\ Holds(data, Len(e), n) /\ Holds(data, Len(e) + Len(n), q)
      /\ Holds(data, Len(e) + Len(n) + Len(q), t)
      /\ Len(e \o n \o q \o t) = Len(e) + Len(n) + Len(q) + Len(t) /\ e \o n \o q \o t \in Seq(Units)
  <2>1. Holds(data, 0, e \o n \o q \o t)
    BY <1>3
  <2>2. n \in Seq(Units) /\ q \in Seq(Units) /\ e \in Seq(Units) /\ t \in Seq(Units)
    BY <1>5, <1>6, <1>7
  <2> QED BY <2>1, <2>2, HoldsFour
<1>9. Len(data) \in Nat
  BY LenProperties
<1> DEFINE a == 2 + Len(n)
<1>10. /\ a \in 3..4 /\ Holds(data, a, q) /\ Holds(data, a + Len(q), t)
       /\ Len(e \o n \o q \o t) = a + Len(q) + 1
  <2>1. Len(q) \in Nat /\ Len(n) \in 1..2 /\ Len(e) = 2 /\ Len(t) = 1
    <3>1. Len(q) \in Nat
      BY <1>5, LenProperties
    <3> QED BY <1>6, <1>7, <3>1
  <2>2. a \in 3..4 /\ Len(e) + Len(n) = a /\ Len(e) + Len(n) + Len(q) = a + Len(q)
        /\ Len(e) + Len(n) + Len(q) + Len(t) = a + Len(q) + 1
    <3>1. PICK x, y, z, w : x = Len(e) /\ y = Len(n) /\ z = Len(q) /\ w = Len(t)
      OBVIOUS
    <3>2. x = 2 /\ y \in 1..2 /\ z \in Nat /\ w = 1
      BY <2>1, <3>1
    <3>3. 2 + y \in 3..4 /\ x + y = 2 + y /\ x + y + z = 2 + y + z /\ x + y + z + w = 2 + y + z + 1
      BY <3>2
    <3> QED BY <3>1, <3>3
  <2> HIDE DEF a
  <2> QED BY <1>8, <2>2
<1> HIDE DEF a
<1>11. NumberEnd(v, a) = Got(v, m, a + Len(q) + 1)
  BY <1>4, <1>10, NumberTail DEF q, t
<1>12. D(0) = "esc" /\ D(1) = "["
  <2>1. data[1] = "esc" /\ data[2] = "[" /\ 2 <= Len(data)
    BY <1>6, <1>8, <1>9 DEF Holds
  <2> QED BY <1>9, <2>1, DAt
<1>13. SUFFICES ParseBracket = NumberEnd(v, a)
  BY <1>3, <1>8, <1>10, <1>11, <1>12 DEF ParseUnix
<1>14. D(a) \in {";", "~"}
  <2>1. data[a + 1] \in {";", "~"} /\ a + 1 <= Len(data) /\ a \in 0..7
    <3>1. CASE m = {}
      <4>1. Len(q) = 0
        BY <1>5, <3>1
      <4> DEFINE g == a + Len(q)
      <4>2. g = a /\ 1 \in 1..Len(t) /\ a \in 0..7
        BY <1>6, <1>10, <4>1
      <4> HIDE DEF g
      <4>3. data[g + 1] = t[1] /\ g + Len(t) <= Len(data)
        BY <1>10, <4>2, HoldsUnit DEF g
      <4> QED BY <1>6, <4>2, <4>3
    <3>2. CASE m # {}
      <4>1. Len(q) = 2 /\ q[1] = ";"
        BY <1>5, <3>2
      <4>0. Len(q) = 2
        BY <4>1
      <4>2. 1 \in 1..Len(q) /\ a \in 0..7
        BY <1>10, <4>0
      <4>3. data[a + 1] = q[1] /\ a + Len(q) <= Len(data)
        BY <1>10, <4>2, HoldsUnit
      <4>4. a + 1 <= Len(data)
        BY <1>9, <1>10, <4>0, <4>3
      <4> QED BY <4>1, <4>2, <4>3, <4>4
    <3> QED BY <3>1, <3>2
  <2> QED BY <2>1, DAt
<1>15. CASE \E d \in {"5", "7", "8", "9"} : n = <<"1", d>> /\ KeysF5F8[d] = v
  <2>1. PICK d \in {"5", "7", "8", "9"} : n = <<"1", d>> /\ KeysF5F8[d] = v
    BY <1>15
  <2>2. Len(n) = 2 /\ n[1] = "1" /\ n[2] = d
    BY <2>1
  <2>3. data[3] = "1" /\ data[4] = d /\ 4 <= Len(data)
    BY <1>6, <1>8, <1>9, <2>2 DEF Holds
  <2>4. D(2) = "1" /\ D(3) = d
    BY <1>9, <2>3, DAt
  <2>5. a = 4
    BY <2>2 DEF a
  <2>6. d \in DOMAIN KeysF5F8
    BY Tables
  <2> QED BY <2>1, <2>4, <2>5, <2>6 DEF ParseBracket
<1>16. CASE \E d \in {"0", "1", "3", "4"} : n = <<"2", d>> /\ KeysF9F12[d] = v
  <2>1. PICK d \in {"0", "1", "3", "4"} : n = <<"2", d>> /\ KeysF9F12[d] = v
    BY <1>16
  <2>2. Len(n) = 2 /\ n[1] = "2" /\ n[2] = d
    BY <2>1
  <2>3. data[3] = "2" /\ data[4] = d /\ 4 <= Len(data)
    BY <1>6, <1>8, <1>9, <2>2 DEF Holds
  <2>4. D(2) = "2" /\ D(3) = d
    BY <1>9, <2>3, DAt
  <2>5. a = 4
    BY <2>2 DEF a
  <2>6. d \in DOMAIN KeysF9F12 /\ D(4) \notin {"0", "1"}
    BY <1>14, <2>5, Tables
  <2> QED BY <2>1, <2>4, <2>5, <2>6 DEF ParseBracket
<1>17. CASE \E d \in {"2", "3", "5", "6"} : n = <<d>> /\ Keys3x[d] = v
  <2>1. PICK d \in {"2", "3", "5", "6"} : n = <<d>> /\ Keys3x[d] = v
    BY <1>17
  <2>2. Len(n) = 1 /\ n[1] = d
    BY <2>1
  <2>3. data[3] = d /\ 3 <= Len(data)
    BY <1>6, <1>8, <1>9, <2>2 DEF Holds
  <2>4. D(2) = d
    BY <1>9, <2>3, DAt
  <2>5. a = 3
    BY <2>2 DEF a
  <2>6. d \in DOMAIN Keys3x /\ d # "1" /\ D(3) \in {";", "~"} /\ D(3) # "0" /\ D(3) \notin DOMAIN KeysF9F12
    BY <1>14, <2>5, Tables
  <2> QED BY <2>1, <2>4, <2>5, <2>6 DEF ParseBracket
<1> QED BY <1>4, <1>15, <1>16, <1>17

LEMMA TripleFacts ==
  ASSUME NEW S, NEW x \in S, NEW y \in S, NEW z \in S
  PROVE  <<x, y, z>> \in Seq(S) /\ Len(<<x, y, z>>) = 3 /\ <<x, y, z>>[1] = x /\ <<x, y, z>>[2] = y /\ <<x, y, z>>[3] = z
OBVIOUS

\* Arrows, Home and End
LEMMA ParseLetter ==
  ASSUME data \in Seq(Units), NEW v \in DOMAIN Letters, NEW m \in Mods, NEW k, k = Key(v, m),
         Holds(data, 0, Sequence(k))
  PROVE  ParseUnix = Got(v, m, Len(Sequence(k))) /\ Sequence(k) \in Seq(Units)
<1> DEFINE x == Letters[v] q == IF m = {} THEN <<>> ELSE <<"1", ";", Digit(m)>> e == <<"esc", "[">> t == <<x>>
<1>1. k.name = v /\ k.mods = m
  BY DEF Key
<1>2. v \notin Plain /\ v \notin DOMAIN Numbers /\ v \notin DOMAIN Finals
  BY Classes
<1>3. Sequence(k) = e \o q \o t
  <2>1. CASE m = {}
    BY <1>1, <1>2, <2>1 DEF Sequence
  <2>2. CASE m # {}
    <3>1. <<Digit(m)>> # <<>>
      OBVIOUS
    <3>2. Sequence(k) = e \o (<<"1">> \o (<<";">> \o <<Digit(m)>>)) \o t
      BY <1>1, <1>2, <2>2, <3>1 DEF Sequence
    <3>3. <<"1">> \o (<<";">> \o <<Digit(m)>>) = q
      <4>1. PICK d : d = Digit(m)
        OBVIOUS
      <4>2. q = <<"1", ";", d>>
        BY <2>2, <4>1
      <4>3. <<";">> \o <<d>> = <<";", d>>
        BY Joined
      <4>4. <<"1">> \o <<";", d>> = <<"1", ";", d>>
        BY Joined
      <4> HIDE DEF q
      <4> QED BY <4>1, <4>2, <4>3, <4>4
    <3> QED BY <3>2, <3>3
  <2> QED BY <2>1, <2>2
<1>4. x \in {"A", "B", "C", "D", "F", "H"} /\ Keys4x[x] = v /\ v # "none"
  BY LetterTable
<1>5. m # {} => Digit(m) \in {"2", "3", "4", "5", "6", "7", "8"} /\ KeysMod[Digit(m)] = m
  BY Digits
<1>6. e \in Seq(Units) /\ Len(e) = 2 /\ e[1] = "esc" /\ e[2] = "["
  <2>1. "esc" \in Units /\ "[" \in Units
    BY CodeFacts DEF Codes
  <2> QED BY <2>1, PairFacts
<1>7. t \in Seq(Units) /\ Len(t) = 1 /\ t[1] = x
  <2>1. x \in Units
    BY <1>4, CodeFacts DEF Codes
  <2> HIDE DEF x
  <2> QED BY <2>1
<1>8. m # {} => q \in Seq(Units) /\ Len(q) = 3 /\ q[1] = "1" /\ q[2] = ";" /\ q[3] = Digit(m)
  <2> SUFFICES ASSUME m # {} PROVE q \in Seq(Units) /\ Len(q) = 3 /\ q[1] = "1" /\ q[2] = ";" /\ q[3] = Digit(m)
    OBVIOUS
  <2>1. "1" \in Units /\ ";" \in Units /\ Digit(m) \in Units
    BY <1>5, CodeFacts DEF Codes
  <2>2. PICK d : d = Digit(m)
    OBVIOUS
  <2>3. q = <<"1", ";", d>>
    BY <2>2
  <2> HIDE DEF q
  <2> QED BY <2>1, <2>2, <2>3, TripleFacts
<1>9. m = {} => q \in Seq(Units) /\ Len(q) = 0
  OBVIOUS
<1> HIDE DEF q, e, t, x
<1>10. q \in Seq(Units)
  BY <1>8, <1>9
<1>11. /\ Holds(data, 0, e) /\ Holds(data, Len(e), q) /\ Holds(data, Len(e) + Len(q), t)
       /\ Len(e \o q \o t) = Len(e) + Len(q) + Len(t) /\ e \o q \o t \in Seq(Units)
  <2>1. Holds(data, 0, e \o q \o t)
    BY <1>3
  <2> QED BY <1>6, <1>7, <1>10, <2>1, HoldsThree
<1>12. Len(data) \in Nat
  BY LenProperties
<1>13. D(0) = "esc" /\ D(1) = "["
  <2>1. data[1] = "esc" /\ data[2] = "[" /\ 2 <= Len(data)
    BY <1>6, <1>11, <1>12 DEF Holds
  <2> QED BY <1>12, <2>1, DAt
<1>14. ParseUnix = ParseBracket
  BY <1>13 DEF ParseUnix
<1>15. CASE m = {}
  <2>1. data[3] = x /\ 3 <= Len(data) /\ Len(e \o q \o t) = 3
    BY <1>6, <1>7, <1>9, <1>11, <1>12, <1>15 DEF Holds
  <2>2. D(2) = x
    BY <1>12, <2>1, DAt
  <2>3. D(2) \notin {"1", "2"} /\ D(2) \notin DOMAIN Keys3x /\ D(2) \in DOMAIN Keys4x
    BY <1>4, <2>2, Tables
  <2>4. ParseBracket = Fin(Keys4x[D(2)], {}, 2)
    BY <2>3 DEF ParseBracket, LetterEnd
  <2>5. ParseBracket = Got(v, {}, 3)
    BY <1>4, <2>2, <2>4 DEF Fin
  <2> QED BY <1>3, <1>11, <1>14, <1>15, <2>1, <2>5
<1>16. CASE m # {}
  <2>0. Len(q) = 3 /\ Len(e) = 2 /\ Len(t) = 1
    BY <1>6, <1>7, <1>8, <1>16
  <2>1. /\ data[3] = "1" /\ data[4] = ";" /\ data[5] = Digit(m) /\ data[6] = x
        /\ 6 <= Len(data) /\ Len(e \o q \o t) = 6
    <3>1. 1 \in 1..Len(q) /\ 2 \in 1..Len(q) /\ 3 \in 1..Len(q) /\ 1 \in 1..Len(t)
      BY <2>0
    <3>2. Holds(data, 2, q) /\ Holds(data, 5, t) /\ Len(e \o q \o t) = 6
      BY <1>11, <2>0
    <3>3. data[2 + 1] = q[1] /\ data[2 + 2] = q[2] /\ data[2 + 3] = q[3] /\ data[5 + 1] = t[1] /\ 5 + Len(t) <= Len(data)
      BY <3>1, <3>2, HoldsUnit, SMTT(30)
    <3>4. data[3] = q[1] /\ data[4] = q[2] /\ data[5] = q[3] /\ data[6] = t[1] /\ 6 <= Len(data)
      BY <2>0, <3>3
    <3> QED BY <1>7, <1>8, <1>16, <3>2, <3>4
  <2>2. D(2) = "1" /\ D(3) = ";" /\ D(4) = Digit(m) /\ D(5) = x
    <3>1. /\ 2 \in 0..7 /\ 3 \in 0..7 /\ 4 \in 0..7 /\ 5 \in 0..7
          /\ 2 + 1 <= Len(data) /\ 3 + 1 <= Len(data) /\ 4 + 1 <= Len(data) /\ 5 + 1 <= Len(data)
      <4>1. 6 <= Len(data)
        BY <2>1
      <4> QED BY <1>12, <4>1
    <3>2. D(2) = data[2 + 1] /\ D(3) = data[3 + 1] /\ D(4) = data[4 + 1] /\ D(5) = data[5 + 1]
      BY <3>1, DAt
    <3>3. 2 + 1 = 3 /\ 3 + 1 = 4 /\ 4 + 1 = 5 /\ 5 + 1 = 6
      OBVIOUS
    <3>4. D(2) = data[3] /\ D(3) = data[4] /\ D(4) = data[5] /\ D(5) = data[6]
      BY <3>2, <3>3
    <3> QED BY <2>1, <3>4
  <2>3. D(3) \notin DOMAIN KeysF5F8 /\ D(4) \in DOMAIN KeysMod /\ D(5) \in DOMAIN Keys4x
    BY <1>4, <1>5, <1>16, <2>2, Tables
  <2>4. ParseBracket = Fin(Keys4x[D(5)], KeysMod[D(4)], 5)
    BY <2>2, <2>3 DEF ParseBracket, LetterEnd
  <2>5. ParseBracket = Got(v, m, 6)
    <3>1. ParseBracket = Fin(v, m, 5)
      BY <1>4, <1>5, <1>16, <2>2, <2>4
    <3>2. 5 + 1 = 6
      OBVIOUS
    <3> QED BY <1>4, <3>1, <3>2 DEF Fin
  <2> QED BY <1>3, <1>11, <1>14, <2>1, <2>5
<1> QED BY <1>15, <1>16

\* A character, alone or with Alt
LEMMA ParsePlain ==
  ASSUME data \in Seq(Units), NEW v \in Plain, NEW m \in SUBSET {"alt"}, NEW k, k = Key(v, m),
         Holds(data, 0, Sequence(k))
  PROVE  ParseUnix = Got(v, m, Len(Sequence(k))) /\ Sequence(k) \in Seq(Units)
<1> DEFINE q == IF m = {} THEN <<>> ELSE <<"esc">> u == Utf8(v) w == q \o u
<1>1. k.name = v /\ k.mods = m
  BY DEF Key
<1>2. v \notin DOMAIN Letters /\ v \notin DOMAIN Numbers /\ v \notin DOMAIN Finals
  BY Classes
<1>3. Sequence(k) = w
  BY <1>1, <1>2 DEF Sequence
<1>4. v \in {"a", "ya"} /\ (m = {} \/ m = {"alt"})
  BY DEF Plain
<1>5. "esc" \in Units /\ "a" \in Units /\ "d0" \in Units /\ "af" \in Units
  BY CodeFacts DEF Codes
<1>6. q \in Seq(Units)
  BY <1>5
<1>7. u \in Seq(Units) /\ Len(u) = IF v = "a" THEN 1 ELSE 2
  BY <1>4, <1>5 DEF Utf8
<1>8. /\ v = "a" => u[1] = "a"
      /\ v = "ya" => u[1] = "d0" /\ u[2] = "af"
  BY DEF Utf8
<1>9. Len(q) = IF m = {} THEN 0 ELSE 1
  OBVIOUS
<1>10. m # {} => q[1] = "esc"
  OBVIOUS
<1>11. Len(data) \in Nat /\ Len(u) \in Nat /\ Len(q) \in Nat
  BY <1>6, <1>7, LenProperties
<1> HIDE DEF q, u
<1>12. Holds(data, 0, q) /\ Holds(data, 0 + Len(q), u) /\ Len(w) = Len(q) + Len(u) /\ w \in Seq(Units)
  <2>1. Holds(data, 0, q \o u)
    BY <1>3
  <2>2. q \in Seq(Units) /\ u \in Seq(Units) /\ 0 \in Nat
    BY <1>6, <1>7
  <2>3. Holds(data, 0, q) /\ Holds(data, 0 + Len(q), u) /\ Len(q \o u) = Len(q) + Len(u)
    BY <2>1, <2>2, HoldsParts
  <2>4. q \o u \in Seq(Units)
    BY <2>2
  <2> QED BY <2>3, <2>4 DEF w
<1> HIDE DEF w
<1> DEFINE i == Len(q)
<1>13. ASSUME Holds(data, i, u), i \in 0..1 PROVE Decode(i, m) = Got(v, m, i + Len(u))
  <2>0. i \in 0..7 /\ i + 1 \in 0..7 /\ i + 1 + 1 = i + 2 /\ i \in 0..1
    <3>1. i \in 0..1
      BY <1>13
    <3> HIDE DEF i
    <3> QED BY <3>1
  <2>9. Holds(data, i, u)
    BY <1>13
  <2> HIDE DEF i
  <2>1. CASE v = "a"
    <3>0. Len(u) = 1
      BY <1>7, <2>1
    <3>1. u[1] = "a"
      BY <1>8, <2>1
    <3>2. 1 \in 1..Len(u)
      BY <3>0
    <3>3. data[i + 1] = u[1] /\ i + Len(u) <= Len(data)
      BY <2>9, <3>2, HoldsUnit
    <3>6. i + Len(u) <= Len(data)
      BY <3>3
    <3>4. i + 1 <= Len(data) /\ ~(i >= Len(data))
      BY <1>11, <2>0, <3>0, <3>6
    <3>5. D(i) = "a"
      BY <2>0, <3>1, <3>3, <3>4, DAt
    <3> QED BY <2>1, <3>0, <3>4, <3>5 DEF Decode
  <2>2. CASE v = "ya"
    <3>0. Len(u) = 2
      BY <1>7, <2>2
    <3>1. u[1] = "d0" /\ u[2] = "af"
      BY <1>8, <2>2
    <3>2. 1 \in 1..Len(u) /\ 2 \in 1..Len(u)
      BY <3>0
    <3>3. data[i + 1] = "d0" /\ data[i + 2] = "af" /\ i + Len(u) <= Len(data)
      BY <2>9, <3>1, <3>2, HoldsUnit
    <3>8. i + Len(u) <= Len(data)
      BY <3>3
    <3>4. i + 1 <= Len(data) /\ ~(i >= Len(data)) /\ i + 2 <= Len(data)
      BY <1>11, <2>0, <3>0, <3>8
    <3>5. D(i) = "d0"
      BY <2>0, <3>3, <3>4, DAt
    <3> DEFINE h == i + 1
    <3>6. h \in 0..7 /\ h + 1 = i + 2
      BY <2>0
    <3> HIDE DEF h
    <3>7. D(h) = "af"
      BY <3>3, <3>4, <3>6, DAt
    <3> QED BY <2>2, <3>0, <3>4, <3>5, <3>7 DEF Decode, h
  <2> QED BY <1>4, <2>1, <2>2
<1>14. CASE m = {}
  <2>1. i = 0
    BY <1>9, <1>14
  <2>2. Holds(data, i, u) /\ i \in 0..1 /\ i + Len(u) = Len(w)
    BY <1>11, <1>12, <2>1
  <2>3. Decode(0, m) = Got(v, m, Len(w))
    BY <1>13, <2>1, <2>2
  <2>4. D(0) # "esc"
    <3>1. 1 \in 1..Len(u) /\ 1 <= Len(u)
      <4>1. Len(u) = 1 \/ Len(u) = 2
        BY <1>7
      <4> QED BY <4>1
    <3>2. Holds(data, 0, u)
      BY <2>1, <2>2
    <3>3. data[0 + 1] = u[1] /\ 0 + Len(u) <= Len(data)
      BY <3>1, <3>2, HoldsUnit
    <3>4. 0 + 1 <= Len(data) /\ 0 \in 0..7
      BY <1>11, <3>1, <3>3
    <3>5. D(0) = u[1]
      BY <3>3, <3>4, DAt
    <3> QED BY <1>4, <1>8, <3>5
  <2> QED BY <1>3, <1>12, <1>14, <2>3, <2>4 DEF ParseUnix
<1>15. CASE m = {"alt"}
  <2>1. i = 1 /\ m # {}
    BY <1>9, <1>15
  <2>2. Holds(data, i, u) /\ i \in 0..1 /\ i + Len(u) = Len(w)
    BY <1>11, <1>12, <2>1
  <2>3. Decode(1, m) = Got(v, m, Len(w))
    BY <1>13, <2>1, <2>2
  <2>4. D(0) = "esc"
    <3>1. 1 \in 1..Len(q)
      BY <2>1
    <3>2. data[0 + 1] = q[1] /\ 0 + Len(q) <= Len(data)
      BY <1>12, <3>1, HoldsUnit
    <3>3. 0 + 1 <= Len(data) /\ 0 \in 0..7
      BY <1>11, <2>1, <3>2
    <3> QED BY <1>10, <2>1, <3>2, <3>3, DAt
  <2>5. D(1) \notin {"O", "["}
    <3>1. 1 \in 1..Len(u) /\ 1 <= Len(u)
      <4>1. Len(u) = 1 \/ Len(u) = 2
        BY <1>7
      <4> QED BY <4>1
    <3>2. Holds(data, 1, u)
      BY <2>1, <2>2
    <3>3. data[1 + 1] = u[1] /\ 1 + Len(u) <= Len(data)
      BY <3>1, <3>2, HoldsUnit
    <3>4. 1 + 1 <= Len(data) /\ 1 \in 0..7
      BY <1>11, <3>1, <3>3
    <3>5. D(1) = u[1]
      BY <3>3, <3>4, DAt
    <3> QED BY <1>4, <1>8, <3>5
  <2> QED BY <1>3, <1>12, <1>15, <2>3, <2>4, <2>5 DEF ParseUnix
<1> QED BY <1>4, <1>14, <1>15

LEMMA PasteFacts ==
  LET q == <<"esc", "[", "2", "0", "0", "~", "t", "esc", "[", "2", "0", "1", "~">> IN
  /\ q \in Seq(Codes) /\ Len(q) = 13
  /\ q[1] = "esc" /\ q[2] = "[" /\ q[3] = "2" /\ q[4] = "0" /\ q[5] = "0" /\ q[6] = "~" /\ q[7] = "t"
  /\ q[8] = "esc" /\ q[9] = "[" /\ q[10] = "2" /\ q[11] = "0" /\ q[12] = "1" /\ q[13] = "~"
<1> DEFINE q == <<"esc", "[", "2", "0", "0", "~", "t", "esc", "[", "2", "0", "1", "~">>
<1>1. q \in Seq(Codes)
  BY DEF Codes
<1>2. Len(q) = 13
  OBVIOUS
<1>3. q[1] = "esc" /\ q[2] = "[" /\ q[3] = "2" /\ q[4] = "0" /\ q[5] = "0" /\ q[6] = "~" /\ q[7] = "t"
  OBVIOUS
<1>4. q[8] = "esc" /\ q[9] = "[" /\ q[10] = "2" /\ q[11] = "0" /\ q[12] = "1" /\ q[13] = "~"
  OBVIOUS
<1> QED BY <1>1, <1>2, <1>3, <1>4

\* Pasted text ends at the mark after it.
LEMMA ParsePaste ==
  ASSUME data \in Seq(Units), NEW k, k = Key("PASTE", {}), Holds(data, 0, Sequence(k))
  PROVE  /\ ParseUnix = Got("PASTE", {}, 6) /\ PasteRead = Len(Sequence(k))
         /\ Sequence(k) \in Seq(Units) /\ Len(Sequence(k)) = 13
<1> DEFINE q == <<"esc", "[", "2", "0", "0", "~", "t", "esc", "[", "2", "0", "1", "~">>
           e == <<"esc", "[", "2", "0", "1", "~">>
<1>1. k.name = "PASTE" /\ k.mods = {}
  BY DEF Key
<1>2. "PASTE" \notin DOMAIN Letters /\ "PASTE" \notin DOMAIN Numbers /\ "PASTE" \notin DOMAIN Finals /\ "PASTE" \notin Plain
  BY Classes
<1>3. Sequence(k) = q
  BY <1>1, <1>2 DEF Sequence
<1>4. q \in Seq(Codes)
  BY PasteFacts
<1>5. Len(q) = 13
  BY PasteFacts
<1>6. q[1] = "esc" /\ q[2] = "[" /\ q[3] = "2" /\ q[4] = "0" /\ q[5] = "0" /\ q[6] = "~" /\ q[7] = "t"
  BY PasteFacts
<1>7. q[8] = "esc" /\ q[9] = "[" /\ q[10] = "2" /\ q[11] = "0" /\ q[12] = "1" /\ q[13] = "~"
  BY PasteFacts
<1>8. e[1] = "esc" /\ e[2] = "[" /\ e[3] = "2" /\ e[4] = "0" /\ e[5] = "1" /\ e[6] = "~"
  OBVIOUS
<1> HIDE DEF q, e
<1>9. q \in Seq(Units)
  BY <1>4, CodeFacts, SeqMonotonic
<1>10. Len(data) \in Nat
  BY LenProperties
<1>11. 13 <= Len(data) /\ \A j \in 1..13 : data[j] = q[j]
  <2>1. 0 + Len(q) <= Len(data) /\ \A j \in 1..Len(q) : data[0 + j] = q[j]
    BY <1>3 DEF Holds
  <2>2. \A j \in 1..13 : 0 + j = j
    OBVIOUS
  <2>3. 0 + Len(q) = 13
    BY <1>5
  <2> QED BY <1>5, <2>1, <2>2, <2>3
<1>12. \A i \in 0..7 : D(i) = data[i + 1]
  <2> SUFFICES ASSUME NEW i \in 0..7 PROVE D(i) = data[i + 1]
    OBVIOUS
  <2>1. i + 1 <= Len(data)
    <3>1. 13 <= Len(data)
      BY <1>11
    <3> QED BY <1>10, <3>1
  <2> QED BY <2>1, DAt
<1>13. D(0) = "esc" /\ D(1) = "[" /\ D(2) = "2" /\ D(3) = "0" /\ D(4) = "0" /\ D(5) = "~"
  <2>1. D(0) = data[1] /\ D(1) = data[2] /\ D(2) = data[3] /\ D(3) = data[4] /\ D(4) = data[5] /\ D(5) = data[6]
    BY <1>12
  <2>2. D(0) = q[1] /\ D(1) = q[2] /\ D(2) = q[3] /\ D(3) = q[4] /\ D(4) = q[5] /\ D(5) = q[6]
    BY <1>11, <2>1, SMTT(30)
  <2> QED BY <1>6, <2>2
<1>14. ParseUnix = Got("PASTE", {}, 6)
  BY <1>13 DEF ParseUnix, ParseBracket
<1> DEFINE I == {i \in 6..(Len(data) - 6) : PasteEnd(i)}
<1>15. 7 \in I
  <2>1. 7 \in 6..(Len(data) - 6)
    <3>1. 13 <= Len(data)
      BY <1>11
    <3> QED BY <1>10, <3>1
  <2>2. ASSUME NEW j \in 1..6 PROVE data[7 + j] = e[j]
    <3>1. 7 + j \in 1..13
      OBVIOUS
    <3>2. data[7 + j] = q[7 + j]
      BY <1>11, <3>1
    <3>3. q[7 + 1] = e[1] /\ q[7 + 2] = e[2] /\ q[7 + 3] = e[3] /\ q[7 + 4] = e[4] /\ q[7 + 5] = e[5] /\ q[7 + 6] = e[6]
      <4>1. 7 + 1 = 8 /\ 7 + 2 = 9 /\ 7 + 3 = 10 /\ 7 + 4 = 11 /\ 7 + 5 = 12 /\ 7 + 6 = 13
        OBVIOUS
      <4> QED BY <1>7, <1>8, <4>1
    <3>4. j = 1 \/ j = 2 \/ j = 3 \/ j = 4 \/ j = 5 \/ j = 6
      OBVIOUS
    <3> QED BY <3>2, <3>3, <3>4
  <2>3. PasteEnd(7)
    BY <2>2 DEF PasteEnd, e
  <2> QED BY <2>1, <2>3
<1>16. ~PasteEnd(6)
  <2>1. data[7] = "t"
    BY <1>6, <1>11
  <2>2. PasteEnd(6) => data[6 + 1] = e[1]
    <3>1. 1 \in 1..6
      OBVIOUS
    <3> QED BY <3>1 DEF PasteEnd, e
  <2>3. 6 + 1 = 7
    OBVIOUS
  <2> QED BY <1>8, <2>1, <2>2, <2>3
<1>17. \A i \in I : i \in Nat /\ 7 <= i
  <2> SUFFICES ASSUME NEW i \in I PROVE i \in Nat /\ 7 <= i
    OBVIOUS
  <2>1. i \in 6..(Len(data) - 6) /\ i # 6
    BY <1>16
  <2> HIDE DEF I
  <2> QED BY <1>10, <2>1
<1>18. PasteRead = Min(I) + 6
  BY DEF PasteRead
<1> HIDE DEF I
<1>19. Min(I) \in I /\ \A y \in I : Min(I) <= y
  BY <1>15, <1>17 DEF Min
<1>20. Min(I) = 7
  <2>1. PICK n : n = Min(I)
    OBVIOUS
  <2>2. n \in Nat /\ 7 <= n /\ n <= 7
    BY <1>15, <1>17, <1>19, <2>1
  <2> QED BY <2>1, <2>2
<1>21. PasteRead = 13
  BY <1>18, <1>20
<1> QED BY <1>3, <1>5, <1>9, <1>14, <1>21

-----------------------------------------------------------------------------
(* Every key. *)

LEMMA KeyCases ==
  ASSUME NEW k \in Keys
  PROVE  \/ \E v \in Virtual, m \in Mods : k = Key(v, m)
         \/ \E v \in Plain, m \in SUBSET {"alt"} : k = Key(v, m)
         \/ sys # "windows" /\ k = Key("PASTE", {})
         \/ sys = "windows" /\ \E v \in Unhandled : k = Key(v, {})
BY DEF Keys, Mods

LEMMA VirtualCases ==
  ASSUME NEW v \in Virtual
  PROVE  v \in DOMAIN Letters \/ v \in DOMAIN Finals \/ v \in DOMAIN Numbers
BY DEF Virtual

LEMMA UnitSeq ==
  ASSUME NEW x \in Codes
  PROVE  <<x>> \in Seq(Units) /\ Len(<<x>>) = 1
<1>1. x \in Units
  BY CodeFacts
<1> QED BY <1>1

LEMMA CodeSeqs ==
  /\ <<"esc", "O">> \in Seq(Units) /\ <<"esc", "[">> \in Seq(Units)
  /\ <<>> \in Seq(Units)
<1>1. "esc" \in Units /\ "O" \in Units /\ "[" \in Units
  BY CodeFacts DEF Codes
<1> QED BY <1>1, PairFacts

LEMMA JoinedSeqs ==
  ASSUME NEW p \in Seq(Units), NEW q \in Seq(Units)
  PROVE  p \o q \in Seq(Units) /\ (Len(q) # 0 => Len(p \o q) # 0)
<1>1. p \o q \in Seq(Units) /\ Len(p \o q) = Len(p) + Len(q)
  BY ConcatProperties
<1>2. Len(p) \in Nat /\ Len(q) \in Nat
  BY LenProperties
<1>3. PICK x, y : x = Len(p) /\ y = Len(q)
  OBVIOUS
<1>4. y # 0 => x + y # 0
  BY <1>2, <1>3
<1> QED BY <1>1, <1>3, <1>4

LEMMA SequenceUnits ==
  ASSUME NEW k \in Keys, sys # "windows"
  PROVE  Sequence(k) \in Seq(Units) /\ Len(Sequence(k)) # 0
<1>1. CASE \E v \in Virtual, m \in Mods : k = Key(v, m)
  <2>1. PICK v \in Virtual, m \in Mods : k = Key(v, m)
    BY <1>1
  <2>2. k.name = v /\ k.mods = m
    BY <2>1 DEF Key
  <2> DEFINE d == IF m = {} THEN <<>> ELSE <<Digit(m)>>
             semi == IF m = {} THEN <<>> ELSE <<";">> \o d
             one == IF d = <<>> THEN d ELSE <<"1">> \o semi
  <2>3. d \in Seq(Units)
    <3>1. CASE m = {}
      BY <3>1, CodeSeqs
    <3>2. CASE m # {}
      <4>1. Digit(m) \in Codes
        BY <3>2, Digits DEF Codes
      <4> QED BY <3>2, <4>1, UnitSeq
    <3> QED BY <3>1, <3>2
  <2> HIDE DEF d
  <2>0. <<";">> \in Seq(Units) /\ <<"1">> \in Seq(Units) /\ <<"~">> \in Seq(Units) /\ Len(<<"~">>) # 0
    <3>1. ";" \in Codes /\ "1" \in Codes /\ "~" \in Codes
      BY DEF Codes
    <3>2. <<";">> \in Seq(Units) /\ <<"1">> \in Seq(Units) /\ <<"~">> \in Seq(Units) /\ Len(<<"~">>) = 1
      BY <3>1, UnitSeq
    <3>3. 1 # 0
      OBVIOUS
    <3> QED BY <3>2, <3>3, Zenon
  <2>4. semi \in Seq(Units)
    BY <2>0, <2>3, CodeSeqs, JoinedSeqs
  <2> HIDE DEF semi
  <2>5. one \in Seq(Units)
    BY <2>0, <2>3, <2>4, JoinedSeqs
  <2>6. CASE v \in DOMAIN Finals
    <3>1. v \notin Plain /\ v \notin DOMAIN Numbers /\ v \notin DOMAIN Letters
      BY <2>6, Classes
    <3> DEFINE e == <<"esc", "O">> t == <<Finals[v]>>
    <3>2. Sequence(k) = e \o d \o t
      BY <2>2, <2>6, <3>1 DEF Sequence, d
    <3>3. e \in Seq(Units)
      BY CodeSeqs
    <3>4. t \in Seq(Units) /\ Len(t) # 0
      <4>1. Finals[v] \in Codes
        BY <2>6, FinalTable DEF Codes
      <4>2. PICK x : x = Finals[v]
        OBVIOUS
      <4>3. <<x>> \in Seq(Units) /\ Len(<<x>>) = 1
        BY <4>1, <4>2, UnitSeq
      <4> QED BY <4>2, <4>3
    <3> HIDE DEF e, t
    <3>5. e \o d \in Seq(Units)
      BY <2>3, <3>3, JoinedSeqs
    <3> QED BY <3>2, <3>4, <3>5, JoinedSeqs
  <2>7. CASE v \in DOMAIN Numbers
    <3>1. v \notin Plain /\ v \notin DOMAIN Finals /\ v \notin DOMAIN Letters
      BY <2>7, Classes
    <3> DEFINE e == <<"esc", "[">> n == Numbers[v] t == <<"~">>
    <3>2. Sequence(k) = e \o n \o semi \o t
      <4>1. CASE m = {}
        BY <2>2, <2>7, <3>1, <4>1 DEF Sequence, d, semi
      <4>2. CASE m # {}
        BY <2>2, <2>7, <3>1, <4>2 DEF Sequence, d, semi
      <4> QED BY <4>1, <4>2
    <3>3. e \in Seq(Units) /\ t \in Seq(Units) /\ Len(t) # 0
      BY <2>0, CodeSeqs
    <3>4. n \in Seq(Units)
      BY <2>7, NumberUnits
    <3> HIDE DEF e, n, t
    <3>5. e \o n \in Seq(Units)
      BY <3>3, <3>4, JoinedSeqs
    <3>6. e \o n \o semi \in Seq(Units)
      BY <2>4, <3>5, JoinedSeqs
    <3> QED BY <3>2, <3>3, <3>6, JoinedSeqs
  <2>8. CASE v \in DOMAIN Letters
    <3>1. v \notin Plain /\ v \notin DOMAIN Finals /\ v \notin DOMAIN Numbers
      BY <2>8, Classes
    <3> DEFINE e == <<"esc", "[">> t == <<Letters[v]>>
    <3>2. Sequence(k) = e \o one \o t
      BY <2>2, <2>8, <3>1 DEF Sequence, d, semi
    <3>3. e \in Seq(Units)
      BY CodeSeqs
    <3>4. t \in Seq(Units) /\ Len(t) # 0
      <4>1. Letters[v] \in Codes
        BY <2>8, LetterTable DEF Codes
      <4>2. PICK x : x = Letters[v]
        OBVIOUS
      <4>3. <<x>> \in Seq(Units) /\ Len(<<x>>) = 1
        BY <4>1, <4>2, UnitSeq
      <4> QED BY <4>2, <4>3
    <3> HIDE DEF e, t, one
    <3>5. e \o one \in Seq(Units)
      BY <2>5, <3>3, JoinedSeqs
    <3> QED BY <3>2, <3>4, <3>5, JoinedSeqs
  <2> QED BY <2>6, <2>7, <2>8, VirtualCases
<1>2. CASE \E v \in Plain, m \in SUBSET {"alt"} : k = Key(v, m)
  <2>1. PICK v \in Plain, m \in SUBSET {"alt"} : k = Key(v, m)
    BY <1>2
  <2>2. k.name = v /\ k.mods = m
    BY <2>1 DEF Key
  <2> DEFINE q == IF m = {} THEN <<>> ELSE <<"esc">> u == Utf8(v)
  <2>3. Sequence(k) = q \o u
    <3>1. v \notin DOMAIN Letters /\ v \notin DOMAIN Numbers /\ v \notin DOMAIN Finals
      BY Classes
    <3> QED BY <2>2, <3>1 DEF Sequence
  <2>4. q \in Seq(Units)
    <3>1. "esc" \in Codes
      BY DEF Codes
    <3> QED BY <3>1, UnitSeq, CodeSeqs
  <2>5. u \in Seq(Units) /\ Len(u) # 0
    <3>0. "a" \in Codes /\ "d0" \in Units /\ "af" \in Units
      BY CodeFacts DEF Codes
    <3>1. CASE v = "ya"
      BY <3>0, <3>1, PairFacts DEF Utf8
    <3>2. CASE v = "a"
      BY <3>0, <3>2, UnitSeq DEF Utf8
    <3> QED BY <3>1, <3>2 DEF Plain
  <2> HIDE DEF q, u
  <2> QED BY <2>3, <2>4, <2>5, JoinedSeqs
<1>3. CASE k = Key("PASTE", {})
  <2>1. k.name = "PASTE" /\ k.mods = {}
    BY <1>3 DEF Key
  <2>2. "PASTE" \notin DOMAIN Letters /\ "PASTE" \notin DOMAIN Numbers /\ "PASTE" \notin DOMAIN Finals /\ "PASTE" \notin Plain
    BY Classes
  <2> DEFINE q == <<"esc", "[", "2", "0", "0", "~", "t", "esc", "[", "2", "0", "1", "~">>
  <2>3. Sequence(k) = q
    BY <2>1, <2>2 DEF Sequence
  <2>4. q \in Seq(Codes) /\ Len(q) = 13
    BY PasteFacts
  <2> HIDE DEF q
  <2> QED BY <2>3, <2>4, CodeFacts, SeqMonotonic
<1> QED BY <1>1, <1>2, <1>3, KeyCases

LEMMA RecordUnits ==
  ASSUME NEW k \in Keys, sys = "windows", NEW d \in BOOLEAN
  PROVE  Record(k, d) \in Units
<1> DEFINE V == Virtual \cup Plain \cup Unhandled
<1>1. \E v \in V, m \in Mods : k = Key(v, m)
  <2>1. CASE \E v \in Virtual, m \in Mods : k = Key(v, m)
    BY <2>1
  <2>2. CASE \E v \in Plain, m \in SUBSET {"alt"} : k = Key(v, m)
    <3>1. PICK v \in Plain, m \in SUBSET {"alt"} : k = Key(v, m)
      BY <2>2
    <3>2. m \in Mods
      BY DEF Mods
    <3> QED BY <3>1, <3>2
  <2>3. CASE \E v \in Unhandled : k = Key(v, {})
    BY <2>3 DEF Mods
  <2> QED BY <2>1, <2>2, <2>3, KeyCases
<1>2. PICK v \in V, m \in Mods : k = Key(v, m)
  BY <1>1
<1>3. Record(Key(v, m), d) \in Units
  BY DEF Units
<1> QED BY <1>2, <1>3

LEMMA BytesUnits ==
  ASSUME NEW k \in Keys
  PROVE  Bytes(k) \in Seq(Units) /\ Len(Bytes(k)) \in Nat /\ Len(Bytes(k)) # 0
<1>1. CASE sys = "windows"
  <2>1. PICK x, y : x = Record(k, TRUE) /\ y = Record(k, FALSE)
    OBVIOUS
  <2>2. x \in Units /\ y \in Units
    BY <1>1, <2>1, RecordUnits
  <2>3. Bytes(k) = <<x, y>>
    BY <1>1, <2>1 DEF Bytes
  <2>4. <<x, y>> \in Seq(Units) /\ Len(<<x, y>>) = 2
    BY <2>2, PairFacts
  <2>5. Bytes(k) \in Seq(Units) /\ Len(Bytes(k)) = 2
    BY <2>3, <2>4, Zenon
  <2> QED BY <2>5
<1>2. CASE sys # "windows"
  <2>1. Bytes(k) = Sequence(k)
    BY <1>2 DEF Bytes
  <2> QED BY <1>2, <2>1, SequenceUnits, LenProperties
<1> QED BY <1>1, <1>2

\* The parser finds the key whose bytes come first, and all of them.
LEMMA UnixParsed ==
  ASSUME data \in Seq(Units), sys # "windows", NEW k \in Keys, Holds(data, 0, Bytes(k))
  PROVE  Key(Parsed.name, Parsed.mods) = k /\ Parsed.read = Len(Bytes(k)) /\ Parsed.name # "skip"
<1>0. Bytes(k) = Sequence(k) /\ Holds(data, 0, Sequence(k))
  BY DEF Bytes
<1>a. \A n : n # "PASTE" => \A m, r : ParseUnix = Got(n, m, r) => Parsed = Got(n, m, r)
  BY DEF Parsed, Got
<1>b. \A n, m, r : Got(n, m, r).name = n /\ Got(n, m, r).mods = m /\ Got(n, m, r).read = r
  BY DEF Got
<1>1. CASE \E v \in Virtual, m \in Mods : k = Key(v, m)
  <2>1. PICK v \in Virtual, m \in Mods : k = Key(v, m)
    BY <1>1
  <2>2. v \notin {"PASTE", "skip"}
    BY VirtualCases, FinalTable, LetterTable, NumberTable
  <2>3. ParseUnix = Got(v, m, Len(Sequence(k)))
    <3>1. CASE v \in DOMAIN Letters
      BY <1>0, <2>1, <3>1, ParseLetter
    <3>2. CASE v \in DOMAIN Finals
      BY <1>0, <2>1, <3>2, ParseFinal
    <3>3. CASE v \in DOMAIN Numbers
      BY <1>0, <2>1, <3>3, ParseNumber
    <3> QED BY <3>1, <3>2, <3>3, VirtualCases
  <2>4. Parsed = Got(v, m, Len(Sequence(k)))
    BY <1>a, <2>2, <2>3
  <2>5. Parsed.name = v /\ Parsed.mods = m /\ Parsed.read = Len(Sequence(k))
    BY <1>b, <2>4
  <2> QED BY <1>0, <2>1, <2>2, <2>5
<1>2. CASE \E v \in Plain, m \in SUBSET {"alt"} : k = Key(v, m)
  <2>1. PICK v \in Plain, m \in SUBSET {"alt"} : k = Key(v, m)
    BY <1>2
  <2>2. v \notin {"PASTE", "skip"}
    BY DEF Plain
  <2>3. ParseUnix = Got(v, m, Len(Sequence(k)))
    BY <1>0, <2>1, ParsePlain
  <2>4. Parsed = Got(v, m, Len(Sequence(k)))
    BY <1>a, <2>2, <2>3
  <2>5. Parsed.name = v /\ Parsed.mods = m /\ Parsed.read = Len(Sequence(k))
    BY <1>b, <2>4
  <2> QED BY <1>0, <2>1, <2>2, <2>5
<1>3. CASE k = Key("PASTE", {})
  <2>1. ParseUnix = Got("PASTE", {}, 6) /\ PasteRead = Len(Sequence(k))
    BY <1>0, <1>3, ParsePaste
  <2>2. Parsed = [Got("PASTE", {}, 6) EXCEPT !.read = PasteRead]
    BY <1>b, <2>1 DEF Parsed
  <2>3. Parsed.name = "PASTE" /\ Parsed.mods = {} /\ Parsed.read = PasteRead
    BY <2>2 DEF Got
  <2> QED BY <1>0, <1>3, <2>1, <2>3
<1> QED BY <1>1, <1>2, <1>3, KeyCases

\* keys_vk[] and the keys from FFKEY_F1 on name each virtual key by its code.
LEMMA VkTable ==
  /\ \A v \in Virtual : v \notin {"PASTE", "error", "neg", "a", "ya"} /\ VirtualKey(VkCode[v]) = v
  /\ "ya" \notin Virtual
<1>1. "ya" \notin Virtual
  BY DEF Virtual, Letters, Finals, Numbers
<1>2. ASSUME NEW v \in Virtual PROVE v \notin {"PASTE", "error", "neg", "a", "ya"} /\ VirtualKey(VkCode[v]) = v
  <2>1. CASE v \in DOMAIN Letters
    BY <2>1 DEF Letters, VirtualKey, VkCode, KeysVk
  <2>2. CASE v \in DOMAIN Finals
    BY <2>2 DEF Finals, VirtualKey, VkCode, KeysF
  <2>3. CASE v \in {"INS", "DEL", "PGUP", "PGDN"}
    BY <2>3 DEF VirtualKey, VkCode, KeysVk
  <2>4. CASE v \in {"F5", "F6", "F7", "F8", "F9", "F10", "F11", "F12"}
    BY <2>4 DEF VirtualKey, VkCode, KeysF
  <2>5. v \in DOMAIN Numbers => v \in {"INS", "DEL", "PGUP", "PGDN", "F5", "F6", "F7", "F8", "F9", "F10", "F11", "F12"}
    BY DEF Numbers
  <2> QED BY <2>1, <2>2, <2>3, <2>4, <2>5, VirtualCases
<1> QED BY <1>1, <1>2

LEMMA UnhandledTable ==
  ASSUME NEW v \in Unhandled
  PROVE  VirtualKey(VkCode[v]) \in {"skip", "error"} /\ v \notin Virtual \cup {"a", "ya"}
<1>1. v \notin Virtual \cup {"a", "ya"}
  BY DEF Unhandled, Virtual, Letters, Finals, Numbers
<1>2. CASE v = "SELECT"
  <2>1. VkCode["SELECT"] = 41
    BY DEF VkCode
  <2>2. 41 \in 33..46 /\ 41 - 32 = 9
    OBVIOUS
  <2>3. KeysVk[9] = "skip"
    BY DEF KeysVk
  <2>4. VirtualKey(41) = "skip"
    BY <2>2, <2>3 DEF VirtualKey
  <2>5. VirtualKey(VkCode["SELECT"]) = VirtualKey(41)
    BY <2>1, Zenon
  <2> QED BY <1>1, <1>2, <2>4, <2>5
<1>3. CASE v = "CAPS"
  <2>1. VkCode["CAPS"] = 20
    BY DEF VkCode
  <2>2. 20 \notin 33..46 /\ 20 \notin 112..123
    OBVIOUS
  <2>3. VirtualKey(20) = "error"
    BY <2>2 DEF VirtualKey
  <2>4. VirtualKey(VkCode["CAPS"]) = VirtualKey(20)
    BY <2>1, Zenon
  <2> QED BY <1>1, <1>3, <2>3, <2>4
<1> QED BY <1>1, <1>2, <1>3 DEF Unhandled

LEMMA WinParsed ==
  ASSUME data \in Seq(Units), sys = "windows", NEW k \in Keys, Holds(data, 0, Bytes(k))
  PROVE  /\ IF Told(k) THEN Key(Parsed.name, Parsed.mods) = k ELSE Parsed.name \in {"skip", "error"}
         /\ Parsed.read = 1
         /\ Len(data) >= 2 /\ data[1] = Record(k, TRUE) /\ data[2] = Record(k, FALSE)
<1>1. PICK x, y : x = Record(k, TRUE) /\ y = Record(k, FALSE)
  OBVIOUS
<1>2. Bytes(k) = <<x, y>>
  BY <1>1 DEF Bytes
<1> DEFINE q == <<x, y>>
<1>3. Len(q) = 2 /\ q[1] = x /\ q[2] = y
  OBVIOUS
<1> HIDE DEF q
<1>4. Holds(data, 0, q)
  BY <1>2 DEF q
<1>5. Len(q) = 2
  BY <1>3
<1>6. 1 \in 1..Len(q) /\ 2 \in 1..Len(q)
  BY <1>5
<1>7. data[0 + 1] = q[1] /\ data[0 + 2] = q[2] /\ 0 + Len(q) <= Len(data)
  BY <1>4, <1>6, HoldsUnit
<1>8. 0 + 1 = 1 /\ 0 + 2 = 2
  OBVIOUS
<1>9. data[1] = x /\ data[2] = y
  BY <1>3, <1>7, <1>8
<1>10. Len(data) \in Nat /\ 0 + Len(q) <= Len(data)
  BY <1>7, LenProperties
<1>11. Len(data) >= 2
  BY <1>5, <1>10
<1>12. Head(data) = x
  BY <1>9
<1>13. x.down = TRUE /\ x.char = Char(k.name) /\ x.vk = VkCode[k.name] /\ x.ctl = k.mods
  BY <1>1 DEF Record
<1>a. \A n : n # "PASTE" => \A m, r : ParseWin = Got(n, m, r) => Parsed = Got(n, m, r)
  BY DEF Parsed, Got
<1>b. \A n, m, r : Got(n, m, r).name = n /\ Got(n, m, r).mods = m /\ Got(n, m, r).read = r
  BY DEF Got
<1>14. CASE \E v \in Virtual, m \in Mods : k = Key(v, m)
  <2>1. PICK v \in Virtual, m \in Mods : k = Key(v, m)
    BY <1>14
  <2>2. v \notin {"PASTE", "error", "neg", "a", "ya"} /\ VirtualKey(VkCode[v]) = v
    BY VkTable
  <2>3. k.name = v /\ k.mods = m
    BY <2>1 DEF Key
  <2>4. ParseWin = Got(v, m, 1)
    <3>1. x.char = ""
      BY <1>13, <2>2, <2>3 DEF Char
    <3> QED BY <1>12, <1>13, <2>2, <2>3, <3>1 DEF ParseWin
  <2>5. Parsed.name = v /\ Parsed.mods = m /\ Parsed.read = 1
    <3>1. Parsed = Got(v, m, 1)
      BY <1>a, <2>2, <2>4
    <3> QED BY <1>b, <3>1
  <2>6. Told(k)
    BY <2>3 DEF Told
  <2> QED BY <1>1, <1>9, <1>11, <2>1, <2>5, <2>6
<1>15. CASE \E v \in Plain, m \in SUBSET {"alt"} : k = Key(v, m)
  <2>1. PICK v \in Plain, m \in SUBSET {"alt"} : k = Key(v, m)
    BY <1>15
  <2>2. k.name = v /\ k.mods = m
    BY <2>1 DEF Key
  <2>3. m \ {"shift"} = m
    OBVIOUS
  <2>4. CASE v = "a"
    <3>1. x.char = "a"
      BY <1>13, <2>2, <2>4 DEF Char
    <3>2. ParseWin = Got("a", m, 1)
      BY <1>12, <1>13, <2>2, <2>3, <3>1 DEF ParseWin
    <3>3. Parsed = Got("a", m, 1)
      BY <1>a, <3>2
    <3>4. Parsed.name = "a" /\ Parsed.mods = m /\ Parsed.read = 1
      BY <1>b, <3>3
    <3>5. Told(k)
      BY <2>2, <2>4 DEF Told
    <3> QED BY <1>1, <1>9, <1>11, <2>1, <2>4, <3>4, <3>5
  <2>5. CASE v = "ya"
    <3>1. x.char = "neg"
      BY <1>13, <2>2, <2>5 DEF Char
    <3>2. ParseWin = Got("error", {}, 1)
      BY <1>12, <1>13, <3>1 DEF ParseWin
    <3>3. Parsed = Got("error", {}, 1)
      BY <1>a, <3>2
    <3>4. Parsed.name = "error" /\ Parsed.read = 1
      BY <1>b, <3>3
    <3>5. ~Told(k)
      <4>1. "ya" \notin Virtual
        BY VkTable
      <4> QED BY <2>2, <2>5, <4>1 DEF Told
    <3> QED BY <1>1, <1>9, <1>11, <3>4, <3>5
  <2> QED BY <2>4, <2>5 DEF Plain
<1>16. CASE \E v \in Unhandled : k = Key(v, {})
  <2>1. PICK v \in Unhandled : k = Key(v, {})
    BY <1>16
  <2>2. VirtualKey(VkCode[v]) \in {"skip", "error"} /\ v \notin Virtual \cup {"a", "ya"}
    BY UnhandledTable
  <2>3. k.name = v
    BY <2>1 DEF Key
  <2>4. x.char = ""
    BY <1>13, <2>2, <2>3 DEF Char
  <2>5. \E n \in {"skip", "error"} : \E m : ParseWin = Got(n, m, 1)
    BY <1>12, <1>13, <2>2, <2>3, <2>4 DEF ParseWin
  <2>6. PICK n \in {"skip", "error"} : \E m : ParseWin = Got(n, m, 1)
    BY <2>5
  <2>6a. PICK m : ParseWin = Got(n, m, 1)
    BY <2>6
  <2>7. Parsed = Got(n, m, 1)
    BY <1>a, <2>6a
  <2>8. Parsed.name = n /\ Parsed.read = 1
    BY <1>b, <2>7
  <2>9. ~Told(k)
    BY <2>2, <2>3 DEF Told
  <2> QED BY <1>1, <1>9, <1>11, <2>8, <2>9
<1> QED BY <1>14, <1>15, <1>16, KeyCases

LEMMA WinSkips ==
  ASSUME sys = "windows", ~Head(data).down
  PROVE  Parsed.name = "skip" /\ Parsed.read = 1
BY DEF Parsed, ParseWin, Got

-----------------------------------------------------------------------------
(* One key after another. *)

\* b is the bytes of the keys ks, one after another: the first i keys end at c[i].
Marks(b, ks, c) ==
  /\ c \in [0..Len(ks) -> 0..Len(b)] /\ c[0] = 0 /\ c[Len(ks)] = Len(b)
  /\ \A i \in 0..Len(ks) : \A j \in 0..Len(ks) : i <= j => c[i] <= c[j]
  /\ \A i \in 1..Len(ks) : c[i] = c[i - 1] + Len(Bytes(ks[i])) /\ Holds(b, c[i - 1], Bytes(ks[i]))
Cut(b, ks) == \E c : Marks(b, ks, c)

LEMMA CutEmpty == Cut(<<>>, <<>>)
<1> DEFINE c == [i \in 0..0 |-> 0]
<1>1. Len(<<>>) = 0
  OBVIOUS
<1>2. c \in [0..0 -> 0..0] /\ c[0] = 0
  OBVIOUS
<1>3. \A i \in 0..0 : i = 0
  OBVIOUS
<1>4. \A i \in 0..0 : \A j \in 0..0 : i <= j => c[i] <= c[j]
  BY <1>2, <1>3
<1>5. 1..0 = {}
  OBVIOUS
<1> HIDE DEF c
<1>6. Marks(<<>>, <<>>, c)
  BY <1>1, <1>2, <1>4, <1>5 DEF Marks
<1> QED BY <1>6 DEF Cut

\* What is held stays held when more comes after it.
LEMMA HoldsMore ==
  ASSUME NEW b \in Seq(Units), NEW e \in Seq(Units), NEW i \in Nat, NEW q \in Seq(Units), Holds(b, i, q)
  PROVE  Holds(b \o e, i, q)
<1> DEFINE n == Len(b) l == Len(q) m == Len(e) w == b \o e
<1>1. n \in Nat /\ l \in Nat /\ m \in Nat
  BY LenProperties
<1>2. Len(w) = n + m /\ \A j \in 1..(n + m) : w[j] = IF j <= n THEN b[j] ELSE e[j - n]
  BY ConcatProperties
<1>3. i + l <= n /\ \A j \in 1..l : b[i + j] = q[j]
  BY DEF Holds
<1> HIDE DEF n, l, m, w
<1>4. i + l <= Len(w)
  BY <1>1, <1>2, <1>3
<1>5. ASSUME NEW j \in 1..l PROVE w[i + j] = q[j]
  <2> DEFINE k == i + j
  <2>1. k \in 1..(n + m) /\ k <= n
    BY <1>1, <1>3
  <2>2. b[k] = q[j]
    BY <1>3
  <2> HIDE DEF k
  <2>3. w[k] = b[k]
    BY <1>2, <2>1
  <2> QED BY <2>2, <2>3 DEF k
<1> QED BY <1>4, <1>5 DEF Holds, l, w

LEMMA HoldsLast ==
  ASSUME NEW b \in Seq(Units), NEW e \in Seq(Units)
  PROVE  Holds(b \o e, Len(b), e)
<1> DEFINE n == Len(b) m == Len(e) w == b \o e
<1>1. n \in Nat /\ m \in Nat
  BY LenProperties
<1>2. Len(w) = n + m /\ \A j \in 1..(n + m) : w[j] = IF j <= n THEN b[j] ELSE e[j - n]
  BY ConcatProperties
<1> HIDE DEF n, m, w
<1>3. n + m <= Len(w)
  BY <1>1, <1>2
<1>4. ASSUME NEW j \in 1..m PROVE w[n + j] = e[j]
  <2> DEFINE k == n + j h == k - n
  <2>1. k \in 1..(n + m) /\ ~(k <= n) /\ h = j
    BY <1>1
  <2>2. w[k] = e[h]
    BY <1>2, <2>1
  <2> HIDE DEF k, h
  <2>3. w[k] = e[j]
    BY <2>1, <2>2
  <2> QED BY <2>3 DEF k
<1> QED BY <1>3, <1>4 DEF Holds, n, m, w

LEMMA CutAppend ==
  ASSUME NEW b \in Seq(Units), NEW ks \in Seq(Keys), NEW k \in Keys, Cut(b, ks)
  PROVE  Cut(b \o Bytes(k), Append(ks, k))
<1> DEFINE e == Bytes(k) n == Len(b) m == Len(e) l == Len(ks) w == b \o e ls == Append(ks, k)
<1>1. PICK c : Marks(b, ks, c)
  BY DEF Cut
<1>2. e \in Seq(Units) /\ m \in Nat /\ n \in Nat /\ l \in Nat
  BY BytesUnits, LenProperties
<1>3. Len(w) = n + m
  BY <1>2, ConcatProperties
<1>4. Len(ls) = l + 1 /\ (\A i \in 1..l : ls[i] = ks[i]) /\ ls[l + 1] = k
  BY AppendProperties
<1>5. /\ c \in [0..l -> 0..n] /\ c[0] = 0 /\ c[l] = n
      /\ \A i \in 0..l : \A j \in 0..l : i <= j => c[i] <= c[j]
      /\ \A i \in 1..l : c[i] = c[i - 1] + Len(Bytes(ks[i])) /\ Holds(b, c[i - 1], Bytes(ks[i]))
  BY <1>1 DEF Marks
<1>6. Holds(w, n, e)
  BY <1>2, HoldsLast
<1>7. ASSUME NEW i \in 1..l PROVE Holds(w, c[i - 1], Bytes(ks[i]))
  <2>1. ks[i] \in Keys
    BY ElementOfSeq
  <2>2. Bytes(ks[i]) \in Seq(Units)
    BY <2>1, BytesUnits
  <2>3. i - 1 \in 0..l
    BY <1>2
  <2>4. c[i - 1] \in 0..n
    BY <1>5, <2>3
  <2>5. c[i - 1] \in Nat
    BY <1>2, <2>4
  <2>6. Holds(b, c[i - 1], Bytes(ks[i]))
    BY <1>5
  <2> QED BY <1>2, <2>2, <2>5, <2>6, HoldsMore
<1> HIDE DEF e, n, m, l, w, ls
<1> DEFINE d == [i \in 0..(l + 1) |-> IF i <= l THEN c[i] ELSE n + m]
<1>8. d \in [0..(l + 1) -> 0..(n + m)]
  <2>1. ASSUME NEW i \in 0..(l + 1), i <= l PROVE c[i] \in 0..(n + m)
    <3>1. i \in 0..l
      BY <1>2, <2>1
    <3>2. c[i] \in 0..n
      BY <1>5, <3>1
    <3> QED BY <1>2, <3>2
  <2>2. n + m \in 0..(n + m)
    BY <1>2
  <2> QED BY <2>1, <2>2
<1>9. (\A i \in 0..l : d[i] = c[i]) /\ d[l + 1] = n + m
  BY <1>2
<1> HIDE DEF d
<1>10. d[0] = 0
  BY <1>2, <1>5, <1>9
<1>11. \A i \in 0..(l + 1) : \A j \in 0..(l + 1) : i <= j => d[i] <= d[j]
  <2> SUFFICES ASSUME NEW i \in 0..(l + 1), NEW j \in 0..(l + 1), i <= j PROVE d[i] <= d[j]
    OBVIOUS
  <2>1. CASE j = l + 1
    <3>1. d[i] \in 0..(n + m)
      BY <1>8
    <3>2. d[j] = n + m
      BY <1>9, <2>1
    <3> QED BY <1>2, <3>1, <3>2
  <2>2. CASE j # l + 1
    <3>1. i \in 0..l /\ j \in 0..l
      BY <1>2, <2>2
    <3> QED BY <1>5, <1>9, <3>1
  <2> QED BY <2>1, <2>2
<1>12. ASSUME NEW i \in 1..(l + 1)
       PROVE  d[i] = d[i - 1] + Len(Bytes(ls[i])) /\ Holds(w, d[i - 1], Bytes(ls[i]))
  <2>1. CASE i = l + 1
    <3>1. i - 1 = l /\ l \in 0..l
      BY <1>2, <2>1
    <3>2. d[i - 1] = n
      BY <1>5, <1>9, <3>1
    <3>3. ls[i] = k
      BY <1>4, <2>1
    <3>4. Bytes(ls[i]) = e
      BY <3>3 DEF e
    <3>5. d[i] = n + m
      BY <1>9, <2>1
    <3> QED BY <1>6, <3>2, <3>4, <3>5 DEF m
  <2>2. CASE i # l + 1
    <3>1. i \in 1..l /\ i \in 0..l /\ i - 1 \in 0..l
      BY <1>2, <2>2
    <3>2. d[i] = c[i] /\ d[i - 1] = c[i - 1] /\ ls[i] = ks[i]
      BY <1>4, <1>9, <3>1
    <3>3. c[i] = c[i - 1] + Len(Bytes(ks[i])) /\ Holds(w, c[i - 1], Bytes(ks[i]))
      BY <1>5, <1>7, <3>1
    <3> QED BY <3>2, <3>3
  <2> QED BY <2>1, <2>2
<1>13. Marks(w, ls, d)
  BY <1>3, <1>4, <1>8, <1>9, <1>10, <1>11, <1>12 DEF Marks
<1> QED BY <1>13 DEF Cut, w, ls, e

\* What is held stays held, a places nearer, when the first a units are dropped.
LEMMA HoldsRest ==
  ASSUME NEW b \in Seq(Units), NEW a \in 0..Len(b), NEW i \in Nat, a <= i, NEW q \in Seq(Units), Holds(b, i, q)
  PROVE  Holds(SubSeq(b, a + 1, Len(b)), i - a, q)
<1> DEFINE n == Len(b) l == Len(q) w == SubSeq(b, a + 1, n)
<1>1. n \in Nat /\ l \in Nat /\ a \in 0..n
  BY LenProperties
<1>2. Len(w) = n - a /\ \A j \in 1..(n - a) : w[j] = b[a + j]
  <2>1. Len(w) = n - a
    BY <1>1
  <2>2. ASSUME NEW j \in 1..(n - a) PROVE w[j] = b[a + j]
    BY <1>1
  <2> QED BY <2>1, <2>2
<1>3. i + l <= n /\ \A j \in 1..l : b[i + j] = q[j]
  BY DEF Holds
<1> HIDE DEF n, l, w
<1>4. (i - a) + l <= Len(w)
  BY <1>1, <1>2, <1>3
<1>5. ASSUME NEW j \in 1..l PROVE w[(i - a) + j] = q[j]
  <2> DEFINE k == (i - a) + j h == a + k
  <2>1. k \in 1..(n - a) /\ h = i + j
    BY <1>1, <1>3
  <2>2. b[i + j] = q[j]
    BY <1>3
  <2> HIDE DEF k
  <2>3. w[k] = b[h]
    BY <1>2, <2>1
  <2> HIDE DEF h
  <2>4. w[k] = q[j]
    BY <2>1, <2>2, <2>3
  <2> QED BY <2>4 DEF k
<1> QED BY <1>4, <1>5 DEF Holds, l, w, n

LEMMA CutFirst ==
  ASSUME NEW b \in Seq(Units), NEW ks \in Seq(Keys), b # <<>>, Cut(b, ks)
  PROVE  /\ ks # <<>> /\ Head(ks) \in Keys /\ Holds(b, 0, Bytes(Head(ks)))
         /\ Len(Bytes(Head(ks))) \in 1..Len(b)
         /\ Cut(SubSeq(b, Len(Bytes(Head(ks))) + 1, Len(b)), Tail(ks))
<1> DEFINE n == Len(b) l == Len(ks)
<1>1. PICK c : Marks(b, ks, c)
  BY DEF Cut
<1>2. n \in Nat /\ n # 0 /\ l \in Nat
  BY LenProperties, EmptySeq
<1>3. /\ c \in [0..l -> 0..n] /\ c[0] = 0 /\ c[l] = n
      /\ \A i \in 0..l : \A j \in 0..l : i <= j => c[i] <= c[j]
      /\ \A i \in 1..l : c[i] = c[i - 1] + Len(Bytes(ks[i])) /\ Holds(b, c[i - 1], Bytes(ks[i]))
  BY <1>1 DEF Marks
<1>4. l # 0
  BY <1>2, <1>3
<1>5. ks # <<>> /\ Head(ks) = ks[1] /\ ks[1] \in Keys
  BY <1>2, <1>4
<1>6. 1 \in 1..l /\ 1 - 1 = 0 /\ 1 \in 0..l
  BY <1>2, <1>4
<1> DEFINE k == ks[1] a == Len(Bytes(k))
<1>7. a \in Nat /\ a # 0
  BY <1>5, BytesUnits
<1>8. c[1] = a /\ Holds(b, 0, Bytes(k))
  <2>1. c[1] = c[0] + Len(Bytes(ks[1])) /\ Holds(b, c[0], Bytes(ks[1]))
    BY <1>3, <1>6
  <2>2. c[1] = 0 + a /\ Holds(b, 0, Bytes(k))
    BY <1>3, <2>1
  <2> HIDE DEF a
  <2> QED BY <1>7, <2>2
<1>9. a \in 1..n
  <2>1. c[1] \in 0..n
    BY <1>3, <1>6
  <2> HIDE DEF a
  <2> QED BY <1>2, <1>7, <1>8, <2>1
<1> DEFINE w == SubSeq(b, a + 1, n) ts == Tail(ks) d == [i \in 0..(l - 1) |-> c[i + 1] - a]
<1>10. Len(w) = n - a
  <2> HIDE DEF a
  <2> QED BY <1>2, <1>9
<1>11. Len(ts) = l - 1 /\ \A i \in 1..(l - 1) : ts[i] = ks[i + 1]
  BY <1>5, HeadTailProperties
<1>12. \A i \in 1..l : c[i] \in a..n
  <2> SUFFICES ASSUME NEW i \in 1..l PROVE c[i] \in a..n
    OBVIOUS
  <2>1. i \in 0..l /\ 1 <= i
    BY <1>2
  <2>2. c[1] <= c[i] /\ c[i] \in 0..n
    BY <1>3, <1>6, <2>1
  <2> HIDE DEF a
  <2> QED BY <1>2, <1>7, <1>8, <2>2
<1>13. ASSUME NEW i \in 1..(l - 1)
       PROVE  /\ c[i + 1] = c[i] + Len(Bytes(ts[i]))
              /\ Holds(w, c[i] - a, Bytes(ts[i]))
  <2> DEFINE j == i + 1
  <2>1. j \in 1..l /\ j - 1 = i /\ i \in 1..l
    BY <1>2
  <2>2. ks[j] \in Keys /\ ts[i] = ks[j]
    BY <1>11, <2>1, ElementOfSeq
  <2> HIDE DEF j
  <2>3. c[j] = c[i] + Len(Bytes(ks[j])) /\ Holds(b, c[i], Bytes(ks[j]))
    BY <1>3, <2>1
  <2>4. Bytes(ks[j]) \in Seq(Units)
    BY <2>2, BytesUnits
  <2>5. c[i] \in Nat /\ a <= c[i] /\ a \in 0..n
    <3>1. c[i] \in a..n
      BY <1>12, <2>1
    <3> HIDE DEF a
    <3> QED BY <1>2, <1>7, <1>9, <3>1
  <2> HIDE DEF a
  <2>6. Holds(SubSeq(b, a + 1, n), c[i] - a, Bytes(ks[j]))
    BY <2>3, <2>4, <2>5, HoldsRest
  <2>7. c[j] = c[i] + Len(Bytes(ts[i])) /\ Holds(w, c[i] - a, Bytes(ts[i]))
    BY <2>2, <2>3, <2>6
  <2> QED BY <2>7 DEF j
<1> HIDE DEF n, l, k, a, w, ts
<1>14. \A i \in 0..(l - 1) : d[i] = c[i + 1] - a
  OBVIOUS
<1>15. d \in [0..(l - 1) -> 0..(n - a)]
  <2>1. ASSUME NEW i \in 0..(l - 1) PROVE c[i + 1] - a \in 0..(n - a)
    <3>1. i + 1 \in 1..l
      BY <1>2
    <3>2. c[i + 1] \in a..n
      BY <1>12, <3>1
    <3> QED BY <1>2, <1>7, <3>2
  <2> QED BY <2>1
<1> HIDE DEF d
<1>16. d[0] = 0 /\ d[l - 1] = n - a
  <2>1. 0 \in 0..(l - 1) /\ l - 1 \in 0..(l - 1) /\ 0 + 1 = 1 /\ (l - 1) + 1 = l
    BY <1>2, <1>4
  <2>2. d[0] = c[1] - a /\ d[l - 1] = c[l] - a
    BY <1>14, <2>1
  <2> QED BY <1>3, <1>7, <1>8, <2>2
<1>17. \A i \in 0..(l - 1) : \A j \in 0..(l - 1) : i <= j => d[i] <= d[j]
  <2> SUFFICES ASSUME NEW i \in 0..(l - 1), NEW j \in 0..(l - 1), i <= j PROVE d[i] <= d[j]
    OBVIOUS
  <2>1. i + 1 \in 0..l /\ j + 1 \in 0..l /\ i + 1 <= j + 1 /\ i + 1 \in 1..l /\ j + 1 \in 1..l
    BY <1>2
  <2>2. c[i + 1] <= c[j + 1] /\ c[i + 1] \in a..n /\ c[j + 1] \in a..n
    BY <1>3, <1>12, <2>1
  <2>3. d[i] = c[i + 1] - a /\ d[j] = c[j + 1] - a
    BY <1>14
  <2> QED BY <1>2, <1>7, <2>2, <2>3
<1>18. ASSUME NEW i \in 1..(l - 1)
       PROVE  d[i] = d[i - 1] + Len(Bytes(ts[i])) /\ Holds(w, d[i - 1], Bytes(ts[i]))
  <2>1. i \in 0..(l - 1) /\ i - 1 \in 0..(l - 1) /\ (i - 1) + 1 = i /\ i \in 1..l /\ i + 1 \in 1..l
    BY <1>2
  <2>2. d[i] = c[i + 1] - a /\ d[i - 1] = c[i] - a
    BY <1>14, <2>1
  <2>3. c[i + 1] = c[i] + Len(Bytes(ts[i])) /\ Holds(w, c[i] - a, Bytes(ts[i]))
    BY <1>13
  <2>4. c[i] \in a..n /\ c[i + 1] \in a..n
    BY <1>12, <2>1
  <2>5. PICK x, y, z : x = c[i] /\ y = c[i + 1] /\ z = Len(Bytes(ts[i]))
    OBVIOUS
  <2>6. ts[i] \in Keys
    BY <1>5, <2>1, <1>11, ElementOfSeq DEF l
  <2>7. z \in Nat
    BY <2>5, <2>6, BytesUnits
  <2>8. y - a = (x - a) + z
    <3>1. y = x + z /\ x \in a..n /\ y \in a..n
      BY <2>3, <2>4, <2>5
    <3> QED BY <1>2, <1>7, <2>7, <3>1
  <2> QED BY <2>2, <2>3, <2>5, <2>8
<1>19. Marks(w, ts, d)
  BY <1>10, <1>11, <1>15, <1>16, <1>17, <1>18 DEF Marks
<1> QED BY <1>5, <1>8, <1>9, <1>19 DEF Cut, w, ts, k, a, n

\* The types of the terminal, and what its bytes are: those of the keys that are due; on
\* Windows the first key may have been taken, and its release is still there.
KeyDataInv ==
  /\ tty \in Seq(Units) /\ data \in Seq(Units)
  /\ KeyTypeOK
  /\ Cut(tty, pressed)
  /\ \/ Cut(data, due)
     \/ sys = "windows" /\ data # <<>> /\ ~Head(data).down /\ Cut(Tail(data), due)

LEMMA KeysFound ==
  ASSUME KeyDataInv, data # <<>>, Cut(data, due)
  PROVE  /\ due # <<>> /\ Head(due) \in Keys
         /\ IF Told(Head(due)) THEN Key(Parsed.name, Parsed.mods) = Head(due) ELSE Parsed.name \in {"skip", "error"}
         /\ sys # "windows" => Parsed.read = Len(Bytes(Head(due)))
         /\ sys = "windows" => /\ Parsed.read = 1 /\ Len(data) >= 2 /\ data[1] = Record(Head(due), TRUE)
                               /\ data[2] = Record(Head(due), FALSE)
<1>1. data \in Seq(Units) /\ due \in Seq(Keys)
  BY DEF KeyDataInv, KeyTypeOK
<1>2. due # <<>> /\ Head(due) \in Keys /\ Holds(data, 0, Bytes(Head(due)))
  BY <1>1, CutFirst
<1>3. PICK k \in Keys : k = Head(due) /\ Holds(data, 0, Bytes(k))
  BY <1>2
<1>4. CASE sys = "windows"
  BY <1>1, <1>2, <1>3, <1>4, WinParsed
<1>5. CASE sys # "windows"
  BY <1>1, <1>2, <1>3, <1>5, UnixParsed DEF Told
<1> QED BY <1>4, <1>5

LEMMA KeysDueParsed ==
  ASSUME KeyDataInv
  PROVE  KeysAsTyped
<1> SUFFICES ASSUME data # <<>>, ~Released
             PROVE  /\ IF Told(Head(due)) THEN Key(Parsed.name, Parsed.mods) = Head(due)
                       ELSE Parsed.name \in {"skip", "error"}
                    /\ sys # "windows" => Parsed.read = Len(Sequence(Head(due)))
  BY DEF KeysAsTyped
<1>1. Cut(data, due)
  BY DEF KeyDataInv, Released
<1>2. sys # "windows" => Bytes(Head(due)) = Sequence(Head(due))
  BY DEF Bytes
<1> QED BY <1>1, <1>2, KeysFound

\* The systems differ in the bytes, and none becomes another.
LEMMA KeysPrimed ==
  ASSUME sys' = sys
  PROVE  /\ Keys' = Keys /\ (\A k : Bytes(k)' = Bytes(k))
         /\ (Cut(tty, pressed)' <=> Cut(tty', pressed')) /\ (Cut(data, due)' <=> Cut(data', due'))
         /\ (Cut(Tail(data), due)' <=> Cut(Tail(data'), due'))
<1>1. Keys' = Keys
  BY DEF Keys
<1>2. \A k : Bytes(k)' = Bytes(k)
  BY DEF Bytes
<1>4. Cut(tty, pressed)' <=> Cut(tty', pressed')
  BY DEF Cut, Marks, Bytes
<1>5. Cut(data, due)' <=> Cut(data', due')
  BY DEF Cut, Marks, Bytes
<1>6. Cut(Tail(data), due)' <=> Cut(Tail(data'), due')
  BY DEF Cut, Marks, Bytes
<1> QED BY <1>1, <1>2, <1>4, <1>5, <1>6

LEMMA KeyTypeData ==
  ASSUME KeyDataInv, sys' = sys, NEW k \in Keys, KeyType(k)
  PROVE  KeyDataInv'
<1>1. /\ tty \in Seq(Units) /\ data \in Seq(Units) /\ pressed \in Seq(Keys) /\ due \in Seq(Keys)
      /\ typed \in 0..MaxTyped /\ Len(pressed) + Len(due) <= typed
  BY DEF KeyDataInv, KeyTypeOK
<1>2. /\ typed < MaxTyped /\ typed' = typed + 1 /\ tty' = tty \o Bytes(k) /\ pressed' = Append(pressed, k)
      /\ data' = data /\ due' = due
  BY DEF KeyType
<1>3. tty' \in Seq(Units) /\ pressed' \in Seq(Keys) /\ Len(pressed') = Len(pressed) + 1
  BY <1>1, <1>2, BytesUnits, ConcatProperties, AppendProperties
<1>4. typed' \in 0..MaxTyped /\ Len(pressed') + Len(due') <= typed'
  <2>1. PICK x, y, z : x = Len(pressed) /\ y = Len(due) /\ z = Len(pressed')
    OBVIOUS
  <2>2. x \in Nat /\ y \in Nat /\ z = x + 1 /\ x + y <= typed
    BY <1>1, <1>3, <2>1, LenProperties
  <2>3. typed + 1 \in 0..MaxTyped /\ z + y <= typed + 1
    BY <1>1, <1>2, <2>2, KeysAssumption
  <2> QED BY <1>2, <2>1, <2>3
<1>5. Cut(tty', pressed')
  BY <1>1, <1>2, CutAppend DEF KeyDataInv
<1>6. Cut(data', due') \/ (sys' = "windows" /\ data' # <<>> /\ ~Head(data').down /\ Cut(Tail(data'), due'))
  BY <1>2 DEF KeyDataInv
<1> QED BY <1>1, <1>2, <1>3, <1>4, <1>5, <1>6, KeysPrimed DEF KeyDataInv, KeyTypeOK

LEMMA KeyReadData ==
  ASSUME KeyDataInv, sys' = sys, KeyRead
  PROVE  KeyDataInv'
<1>1. /\ tty \in Seq(Units) /\ pressed \in Seq(Keys) /\ due \in Seq(Keys)
      /\ typed \in 0..MaxTyped /\ Len(pressed) + Len(due) <= typed /\ Cut(tty, pressed)
  BY DEF KeyDataInv, KeyTypeOK
<1>2. data' = tty /\ due' = pressed /\ tty' = <<>> /\ pressed' = <<>> /\ typed' = typed
  BY DEF KeyRead
<1>3. Len(pressed') + Len(due') <= typed'
  <2>1. PICK x, y : x = Len(pressed) /\ y = Len(due)
    OBVIOUS
  <2>2. x \in Nat /\ y \in Nat /\ x + y <= typed
    BY <1>1, <2>1, LenProperties
  <2>3. 0 + x <= typed
    BY <1>1, <2>2
  <2>4. Len(pressed') = 0
    BY <1>2
  <2> QED BY <1>2, <2>1, <2>3, <2>4
<1>4. Cut(tty', pressed') /\ Cut(data', due')
  BY <1>1, <1>2, CutEmpty
<1>5. tty' \in Seq(Units) /\ pressed' \in Seq(Keys)
  BY <1>2
<1> QED BY <1>1, <1>2, <1>3, <1>4, <1>5, KeysPrimed DEF KeyDataInv, KeyTypeOK

LEMMA KeyParseData ==
  ASSUME KeyDataInv, sys' = sys, KeyParse
  PROVE  KeyDataInv'
<1>1. /\ tty \in Seq(Units) /\ data \in Seq(Units) /\ pressed \in Seq(Keys) /\ due \in Seq(Keys)
      /\ typed \in 0..MaxTyped /\ Len(pressed) + Len(due) <= typed /\ Cut(tty, pressed)
  BY DEF KeyDataInv, KeyTypeOK
<1>2. /\ data # <<>> /\ tty' = tty /\ pressed' = pressed /\ typed' = typed
      /\ data' = (IF Parsed.read = 0 THEN <<>> ELSE SubSeq(data, Parsed.read + 1, Len(data)))
      /\ due' = (IF Parsed.read = 0 THEN <<>> ELSE IF Released THEN due ELSE Tail(due))
  BY DEF KeyParse
<1> DEFINE n == Len(data)
<1>0. n \in Nat /\ n # 0
  BY <1>1, <1>2, LenProperties, EmptySeq
<1>3. /\ data' \in Seq(Units) /\ (due' = due \/ (due # <<>> /\ due' = Tail(due)))
      /\ Cut(data', due') \/ (sys = "windows" /\ data' # <<>> /\ ~Head(data').down /\ Cut(Tail(data'), due'))
  <2>1. CASE Cut(data, due)
    <3>1. due # <<>> /\ Head(due) \in Keys /\ ~Released
      <4>1. due # <<>> /\ Head(due) \in Keys
        BY <1>2, <2>1, KeysFound
      <4>2. sys = "windows" => data[1] = Record(Head(due), TRUE)
        BY <1>2, <2>1, KeysFound
      <4>3. Record(Head(due), TRUE).down
        BY DEF Record
      <4>4. Head(data) = data[1]
        BY <1>1, <1>2, HeadTailProperties
      <4>5. sys = "windows" => Head(data).down
        BY <4>2, <4>3, <4>4
      <4> QED BY <4>1, <4>5 DEF Released
    <3> DEFINE a == Len(Bytes(Head(due)))
    <3>2. a \in 1..n /\ Cut(SubSeq(data, a + 1, n), Tail(due))
      BY <1>1, <1>2, <2>1, CutFirst
    <3>3. CASE sys # "windows"
      <4>1. Parsed.read = a
        BY <1>2, <2>1, <3>3, KeysFound
      <4> HIDE DEF a
      <4>2. Parsed.read # 0
        BY <1>0, <3>2, <4>1
      <4>3. data' = SubSeq(data, a + 1, n) /\ due' = Tail(due)
        BY <1>2, <3>1, <4>1, <4>2
      <4>4. data' \in Seq(Units)
        <5>1. SubSeq(data, a + 1, n) \in Seq(Units)
          BY <1>0, <1>1, <3>2
        <5> QED BY <4>3, <5>1
      <4> QED BY <3>1, <3>2, <4>3, <4>4
    <3>4. CASE sys = "windows"
      <4>1. Parsed.read = 1 /\ n >= 2 /\ data[2] = Record(Head(due), FALSE)
        BY <1>2, <2>1, <3>4, KeysFound
      <4>2. a = 2
        <5>1. PICK x, y : x = Record(Head(due), TRUE) /\ y = Record(Head(due), FALSE)
          OBVIOUS
        <5>2. Bytes(Head(due)) = <<x, y>>
          BY <3>4, <5>1 DEF Bytes
        <5>3. Len(<<x, y>>) = 2
          BY PairFacts
        <5> QED BY <5>2, <5>3, Zenon
      <4> HIDE DEF a
      <4>3. data' = SubSeq(data, 1 + 1, n) /\ due' = Tail(due)
        BY <1>2, <3>1, <4>1
      <4>4. n >= 2 /\ n \in Nat
        BY <1>0, <4>1
      <4>5. Cut(SubSeq(data, 2 + 1, n), Tail(due))
        BY <3>2, <4>2
      <4>6. 1 + 1 = 2 /\ 2 + 1 = 3
        OBVIOUS
      <4> DEFINE w == SubSeq(data, 2, n)
      <4>7. w \in Seq(Units) /\ w # <<>> /\ Head(w) = data[2] /\ Tail(w) = SubSeq(data, 3, n)
        <5>1. w \in Seq(Units) /\ Len(w) = n - 1
          BY <1>1, <4>4
        <5>2. \A i \in 1..(n - 1) : w[i] = data[i + 1]
          BY <1>1, <4>4
        <5> DEFINE v == SubSeq(data, 3, n)
        <5>3. v \in Seq(Units) /\ Len(v) = n - 2
          <6>1. v \in Seq(Units)
            BY <1>1, <4>4
          <6>2. Len(v) = IF 3 <= n THEN (n - 3) + 1 ELSE 0
            BY <1>1, <4>4, SubSeqProperties
          <6> HIDE DEF v, n
          <6> QED BY <4>4, <6>1, <6>2
        <5>4. \A i \in 1..(n - 2) : v[i] = data[i + 2]
          BY <1>1, <4>4
        <5> HIDE DEF w, v, n
        <5>5. Len(w) # 0 /\ 1 \in 1..(n - 1)
          BY <4>4, <5>1
        <5>6. w # <<>>
          BY <5>5
        <5>7. Head(w) = w[1] /\ Tail(w) \in Seq(Units) /\ Len(Tail(w)) = Len(w) - 1
              /\ \A i \in 1..(Len(w) - 1) : Tail(w)[i] = w[i + 1]
          BY <5>1, <5>6, HeadTailProperties
        <5>8. Head(w) = data[2]
          <6>1. w[1] = data[1 + 1]
            BY <5>2, <5>5
          <6> QED BY <4>6, <5>7, <6>1
        <5>9. Len(Tail(w)) = n - 2 /\ Len(w) - 1 = n - 2
          BY <4>4, <5>1, <5>7
        <5>10. ASSUME NEW i \in 1..(n - 2) PROVE Tail(w)[i] = v[i]
          <6> DEFINE h == i + 1
          <6>1. h \in 1..(n - 1) /\ h + 1 = i + 2
            BY <4>4
          <6>2. Tail(w)[i] = w[h]
            BY <5>7, <5>9
          <6> HIDE DEF h
          <6>3. w[h] = data[h + 1]
            BY <5>2, <6>1
          <6> QED BY <5>4, <6>1, <6>2, <6>3
        <5>11. Tail(w) = v
          BY <5>3, <5>7, <5>9, <5>10, SeqEqual
        <5> QED BY <5>1, <5>6, <5>8, <5>11 DEF v
      <4>8. ~Record(Head(due), FALSE).down
        BY DEF Record
      <4>9. data' = w /\ Cut(Tail(w), Tail(due))
        BY <4>3, <4>5, <4>6, <4>7
      <4> HIDE DEF w
      <4>10. data' # <<>> /\ data' \in Seq(Units) /\ ~Head(data').down
        BY <4>1, <4>7, <4>8, <4>9
      <4> QED BY <3>1, <3>4, <4>3, <4>9, <4>10
    <3> QED BY <3>3, <3>4
  <2>2. CASE sys = "windows" /\ ~Head(data).down /\ Cut(Tail(data), due)
    <3>1. Parsed.name = "skip" /\ Parsed.read = 1
      BY <2>2, WinSkips
    <3>2. data' = SubSeq(data, 1 + 1, n) /\ due' = due
      BY <1>2, <2>2, <3>1 DEF Released
    <3>3. Tail(data) = SubSeq(data, 2, n) /\ Tail(data) \in Seq(Units)
      BY <1>1, <1>2, TailIsSubSeq, HeadTailProperties
    <3>4. data' = Tail(data)
      BY <3>2, <3>3
    <3> QED BY <2>2, <3>2, <3>3, <3>4
  <2> QED BY <2>1, <2>2 DEF KeyDataInv
<1>4. due' \in Seq(Keys) /\ Len(pressed) + Len(due') <= typed
  <2>1. CASE due' = due
    BY <1>1, <2>1
  <2>2. CASE due # <<>> /\ due' = Tail(due)
    <3>1. due' \in Seq(Keys) /\ Len(due') = Len(due) - 1
      BY <1>1, <2>2, HeadTailProperties
    <3>2. PICK x, y, z : x = Len(pressed) /\ y = Len(due) /\ z = Len(due')
      OBVIOUS
    <3>3. x \in Nat /\ y \in Nat /\ z = y - 1 /\ x + y <= typed
      BY <1>1, <3>1, <3>2, LenProperties
    <3>4. x + z <= typed
      BY <1>1, <3>3
    <3> QED BY <3>1, <3>2, <3>4
  <2> QED BY <1>3, <2>1, <2>2
<1> QED BY <1>1, <1>2, <1>3, <1>4, KeysPrimed DEF KeyDataInv, KeyTypeOK

LEMMA KeyDataStep ==
  ASSUME KeyDataInv, sys' = sys, UNCHANGED keyVars \/ KeyHandling \/ \E k \in Keys : KeyType(k)
  PROVE  KeyDataInv'
<1>1. CASE UNCHANGED keyVars
  BY <1>1, KeysPrimed DEF KeyDataInv, KeyTypeOK, keyVars
<1>2. CASE KeyReturn
  BY <1>2, <1>1 DEF KeyReturn
<1> QED BY <1>1, <1>2, KeyReadData, KeyParseData, KeyTypeData DEF KeyHandling

-----------------------------------------------------------------------------
(* The bounds of the datagram socket and of the connections. *)

\* What bounds the datagram socket.
UdpBounds ==
  /\ arrived \in 0..MaxDgrams /\ soError \in {"none", "refused", "told"} /\ wait \in BOOLEAN
  /\ Len(queue) <= RcvCap /\ buf \in 0..MaxDgrams

\* The datagrams that were taken have been heard, are in the buffer or in the queue.
LEMMA DatagramBounds ==
  ASSUME IInv
  PROVE  Len(heard) <= arrived /\ (queue # <<>> => Head(queue) \in 1..arrived)
<1>1. /\ UdpTypes /\ UdpHeld \in Seq(Nat) /\ heard \o UdpHeld \in Seq(Nat)
      /\ (heard \o UdpHeld) \o queue = [i \in 1..arrived |-> i]
  BY UdpFacts DEF IInv
<1> DEFINE p == heard \o UdpHeld t == [i \in 1..arrived |-> i] w == p \o queue
<1>2. PICK h, d, q, n : h = Len(heard) /\ d = Len(UdpHeld) /\ q = Len(queue) /\ n = Len(p)
  OBVIOUS
<1>3. h \in Nat /\ d \in Nat /\ q \in Nat /\ n \in Nat /\ arrived \in Nat
  BY <1>1, <1>2, LenProperties DEF UdpTypes
<1>4. n = h + d
  BY <1>1, <1>2, ConcatProperties DEF UdpTypes
<1>5. Len(w) = n + q /\ \A i \in 1..(n + q) : w[i] = IF i <= n THEN p[i] ELSE queue[i - n]
  <2>1. p \in Seq(Nat) /\ queue \in Seq(Nat)
    BY <1>1 DEF UdpTypes
  <2> HIDE DEF p
  <2>2. /\ Len(w) = Len(p) + Len(queue)
        /\ \A i \in 1..(Len(p) + Len(queue)) : w[i] = IF i <= Len(p) THEN p[i] ELSE queue[i - Len(p)]
    BY <2>1, ConcatProperties
  <2>3. Len(p) = n /\ Len(queue) = q
    BY <1>2
  <2> QED BY <2>2, <2>3
<1>6. Len(t) = arrived /\ \A i \in 1..arrived : t[i] = i
  BY <1>3
<1>7. w = t
  BY <1>1
<1> HIDE DEF p, t, w
<1>8. n + q = arrived
  BY <1>5, <1>6, <1>7
<1>9. h <= arrived
  BY <1>3, <1>4, <1>8
<1>10. ASSUME queue # <<>> PROVE Head(queue) \in 1..arrived
  <2>1. q # 0 /\ Head(queue) = queue[1]
    BY <1>1, <1>2, <1>10, EmptySeq DEF UdpTypes
  <2> DEFINE j == n + 1 e == j - n
  <2>2. j \in 1..(n + q) /\ ~(j <= n) /\ e = 1 /\ j \in 1..arrived
    BY <1>3, <1>8, <2>1
  <2>3. w[j] = queue[e]
    BY <1>5, <2>2
  <2> HIDE DEF j, e
  <2>4. queue[1] = j
    BY <1>6, <1>7, <2>2, <2>3
  <2> QED BY <2>1, <2>2, <2>4
<1> QED BY <1>2, <1>9, <1>10

LEMMA UdpBoundsStep ==
  ASSUME IInv, UdpBounds, UNCHANGED udpVars \/ UdpHandling \/ UdpOther
  PROVE  UdpBounds'
<1>0. queue \in Seq(Nat) /\ arrived \in Nat /\ MaxDgrams \in Nat /\ RcvCap \in Nat /\ arrived <= MaxDgrams
  BY UdpAssumption DEF IInv, UdpInv, UdpBounds
<1>1. wait' \in BOOLEAN
  <2>1. wait' = TRUE \/ wait' = FALSE \/ wait' = wait
    BY DEF udpVars, UdpHandling, UdpOther, RecvDone, RecvFailed, RecvWaits, RecvNow, RecvError, RecvTry,
           RecvBegin, RecvBeginFails, Arrive, Refused, UdpEarly, Hear, UdpElse
  <2> QED BY <2>1, Zenon DEF UdpBounds
<1>2. soError' \in {"none", "refused", "told"}
  BY DEF UdpBounds, udpVars, UdpHandling, UdpOther, RecvDone, RecvFailed, RecvWaits, RecvNow, RecvError,
         RecvTry, RecvBegin, RecvBeginFails, Arrive, Refused, UdpEarly
<1>3. arrived' = arrived \/ Arrive
  BY DEF udpVars, UdpHandling, UdpOther, RecvDone, RecvFailed, RecvWaits, RecvNow, RecvError,
         RecvTry, RecvBegin, RecvBeginFails, Refused, UdpEarly
<1>4. arrived' \in 0..MaxDgrams
  BY <1>0, <1>3 DEF Arrive
<1>5. \/ queue' = queue
      \/ queue # <<>> /\ queue' = Tail(queue)
      \/ Arrive /\ queue' = Append(queue, arrived + 1)
  BY DEF udpVars, UdpHandling, UdpOther, RecvDone, RecvFailed, RecvWaits, RecvNow, RecvError,
         RecvTry, RecvBegin, RecvBeginFails, Refused, UdpEarly, Arrive
<1>6. Len(queue') <= RcvCap
  <2>0. Len(queue) \in Nat /\ Len(queue) <= RcvCap
    BY <1>0, LenProperties DEF UdpBounds
  <2>1. CASE queue # <<>> /\ queue' = Tail(queue)
    <3>1. Len(queue') = Len(queue) - 1
      BY <1>0, <2>1, HeadTailProperties
    <3> QED BY <1>0, <2>0, <3>1
  <2>2. CASE Arrive /\ queue' = Append(queue, arrived + 1)
    <3>1. Len(queue') = Len(queue) + 1 /\ Len(queue) < RcvCap
      BY <1>0, <2>2, AppendProperties DEF Arrive
    <3> QED BY <1>0, <2>0, <3>1
  <2> QED BY <1>5, <2>0, <2>1, <2>2
<1>7. buf' = buf \/ (queue # <<>> /\ buf' = Head(queue)) \/ (Arrive /\ buf' = arrived + 1)
  BY DEF udpVars, UdpHandling, UdpOther, RecvDone, RecvFailed, RecvWaits, RecvNow, RecvError,
         RecvTry, RecvBegin, RecvBeginFails, Refused, UdpEarly, Arrive
<1>8. buf' \in 0..MaxDgrams
  <2>1. CASE queue # <<>> /\ buf' = Head(queue)
    <3>1. buf' \in 1..arrived
      BY <2>1, DatagramBounds
    <3> QED BY <1>0, <3>1
  <2>2. CASE Arrive /\ buf' = arrived + 1
    BY <1>0, <2>2 DEF Arrive
  <2> QED BY <1>7, <2>1, <2>2 DEF UdpBounds
<1> QED BY <1>1, <1>2, <1>4, <1>6, <1>8 DEF UdpBounds

LEMMA UdpTyped ==
  ASSUME IInv, UdpBounds
  PROVE  UdpTypeOK
<1>1. Len(heard) <= arrived /\ arrived \in Nat /\ heard \in Seq(Nat) /\ arrived <= MaxDgrams /\ MaxDgrams \in Nat
  BY DatagramBounds, UdpAssumption DEF IInv, UdpInv, UdpBounds
<1>2. Len(heard) <= MaxDgrams
  <2>1. Len(heard) \in Nat
    BY <1>1, LenProperties
  <2> QED BY <1>1, <2>1
<1>3. io \in {"none", "try", "pending", "done", "failed"}
  BY DEF IInv, UdpInv
<1> QED BY <1>2, <1>3 DEF UdpBounds, UdpTypeOK

\* What bounds the servers' connections.
ServerBounds ==
  /\ up \in BOOLEAN /\ given \in 0..MaxBytes
  /\ \A p \in Peers : unread[p] <= given
  /\ unsent \in [Peers -> 0..SndCap]

LEMMA LesserOf ==
  ASSUME NEW a \in Nat, NEW b \in Nat
  PROVE  Min({a, b}) \in Nat /\ Min({a, b}) <= a /\ Min({a, b}) <= b
<1>1. \E x \in {a, b} : \A y \in {a, b} : x <= y
  OBVIOUS
<1>2. Min({a, b}) \in {a, b} /\ \A y \in {a, b} : Min({a, b}) <= y
  BY <1>1 DEF Min
<1> QED BY <1>2

LEMMA PeerBounds ==
  ASSUME IInv, ServerBounds, PeerActs
  PROVE  ServerBounds'
<1>0. given \in Nat /\ MaxBytes \in Nat /\ SndCap \in Nat /\ unread \in [Peers -> Nat]
  BY ServerAssumption DEF IInv, ServerInv, ServerBounds
<1>1. PICK p \in Peers : PeerConnect(p) \/ PeerSend(p) \/ PeerReads(p) \/ PeerShuts(p) \/ PeerResets(p)
  BY DEF PeerActs
<1>2. up' = up
  BY <1>1 DEF PeerConnect, PeerSend, PeerReads, PeerShuts, PeerResets, peerVars
<1>3. unsent' = unsent \/ unsent' = [unsent EXCEPT ![p] = 0]
  BY <1>1 DEF PeerConnect, PeerSend, PeerReads, PeerShuts, PeerResets
<1>4. unsent' \in [Peers -> 0..SndCap]
  BY <1>0, <1>3 DEF ServerBounds
<1>5. given' \in 0..MaxBytes /\ \A q \in Peers : unread'[q] <= given'
  <2>1. CASE PeerSend(p)
    <3>1. given < MaxBytes /\ given' = given + 1 /\ unread' = [unread EXCEPT ![p] = @ + 1]
      BY <2>1 DEF PeerSend
    <3>2. given' \in 0..MaxBytes
      BY <1>0, <3>1
    <3>3. ASSUME NEW q \in Peers PROVE unread'[q] <= given + 1
      <4>1. unread[q] \in Nat /\ unread[q] <= given
        BY <1>0 DEF ServerBounds
      <4>2. unread'[q] = unread[q] + 1 \/ unread'[q] = unread[q]
        BY <1>0, <3>1
      <4> QED BY <1>0, <4>1, <4>2
    <3> QED BY <3>1, <3>2, <3>3
  <2>2. CASE given' = given /\ (unread' = unread \/ unread' = [unread EXCEPT ![p] = 0])
    <3>1. ASSUME NEW q \in Peers PROVE unread'[q] <= given
      <4>1. unread[q] \in Nat /\ unread[q] <= given
        BY <1>0 DEF ServerBounds
      <4>2. unread'[q] = 0 \/ unread'[q] = unread[q]
        BY <1>0, <2>2
      <4> QED BY <1>0, <4>1, <4>2
    <3> QED BY <2>2, <3>1 DEF ServerBounds
  <2> QED BY <1>1, <2>1, <2>2 DEF PeerConnect, PeerReads, PeerShuts, PeerResets, peerVars
<1>6. up' \in BOOLEAN
  BY <1>2, Zenon DEF ServerBounds
<1> QED BY <1>4, <1>5, <1>6 DEF ServerBounds

LEMMA PassBounds ==
  ASSUME IInv, ServerBounds, NEW p \in Peers, NEW ps, NEW dies, Pass(p, ps, dies)
  PROVE  ServerBounds'
<1>0. given \in Nat /\ SndCap \in Nat /\ unread \in [Peers -> Nat] /\ unsent \in [Peers -> 0..SndCap] /\ BufCap \in Nat
  BY ServerAssumption DEF IInv, ServerInv, ServerBounds
<1> DEFINE n == Min({unread[p], BufCap})
<1>1. unread[p] \in Nat
  BY <1>0
<1>2. n \in Nat /\ n <= unread[p]
  BY <1>0, <1>1, LesserOf
<1>3. /\ unread' = [unread EXCEPT ![p] = @ - n] /\ given' = given
      /\ (unsent' = Sent(ps, n) /\ up' = up) \/ (unsent' = unsent /\ up' = FALSE)
  <2>1. CASE dies = {}
    BY <2>1 DEF Pass
  <2>2. CASE dies # {}
    BY <2>2 DEF Pass, Die
  <2> QED BY <2>1, <2>2
<1> HIDE DEF n
<1>4. ASSUME NEW q \in Peers PROVE unread'[q] <= given'
  <2>1. unread[q] \in Nat /\ unread[q] <= given
    BY <1>0 DEF ServerBounds
  <2>2. CASE q = p
    <3>1. unread'[q] = unread[q] - n
      BY <1>0, <1>3, <2>2
    <3>2. n <= unread[q]
      BY <1>2, <2>2
    <3> QED BY <1>0, <1>2, <1>3, <2>1, <3>1, <3>2
  <2>3. CASE q # p
    <3>1. unread'[q] = unread[q]
      BY <1>0, <1>3, <2>3
    <3> QED BY <1>3, <2>1, <3>1
  <2> QED BY <2>2, <2>3
<1>5. Sent(ps, n) \in [Peers -> 0..SndCap]
  <2>1. ASSUME NEW q \in Peers PROVE unsent[q] + Min({n, Room(q)}) \in 0..SndCap /\ unsent[q] \in 0..SndCap
    <3>1. unsent[q] \in 0..SndCap
      BY <1>0
    <3>2. Room(q) \in Nat /\ Room(q) = SndCap - unsent[q]
      BY <1>0, <3>1 DEF Room
    <3>3. Min({n, Room(q)}) \in Nat /\ Min({n, Room(q)}) <= Room(q)
      BY <1>2, <3>2, LesserOf
    <3>4. PICK m, r, u : m = Min({n, Room(q)}) /\ r = Room(q) /\ u = unsent[q]
      OBVIOUS
    <3>5. u + m \in 0..SndCap
      <4>1. m \in Nat /\ m <= r /\ r = SndCap - u /\ u \in 0..SndCap
        BY <3>1, <3>2, <3>3, <3>4
      <4> QED BY <1>0, <4>1
    <3> QED BY <3>1, <3>4, <3>5
  <2> QED BY <2>1 DEF Sent
<1>6. up' \in BOOLEAN
  <2>1. up' = up \/ up' = FALSE
    BY <1>3
  <2> QED BY <2>1, Zenon DEF ServerBounds
<1>7. unsent' \in [Peers -> 0..SndCap]
  BY <1>0, <1>3, <1>5
<1>8. given' \in 0..MaxBytes
  BY <1>3 DEF ServerBounds
<1> QED BY <1>4, <1>6, <1>7, <1>8 DEF ServerBounds

LEMMA ServerBoundsStep ==
  ASSUME IInv, ServerBounds, UNCHANGED serverVars \/ ServerHandling \/ PeerActs
  PROVE  ServerBounds'
<1>1. ASSUME UNCHANGED <<given, unread, unsent>>, up' = up \/ up' = FALSE
      PROVE  ServerBounds'
  <2>1. up' \in BOOLEAN
    BY <1>1, Zenon DEF ServerBounds
  <2> QED BY <1>1, <2>1 DEF ServerBounds
<1>2. CASE UNCHANGED serverVars
  BY <1>1, <1>2 DEF serverVars
<1>3. CASE EchoAccept \/ RouterAccept \/ AcceptNone \/ AcceptDies
  BY <1>1, <1>3 DEF EchoAccept, RouterAccept, AcceptOne, AcceptNone, AcceptDies, Die, serverVars
<1>4. CASE \E p \in Peers : Echo(p) \/ Route(p)
  BY <1>4, PassBounds DEF Echo, Route
<1>5. CASE \E p \in Peers : RecvNone(p) \/ RecvDies(p) \/ EchoClose(p) \/ RouterFree(p)
  BY <1>1, <1>5 DEF RecvNone, RecvDies, EchoClose, RouterFree, ConnClose, Die, serverVars
<1> QED BY <1>2, <1>3, <1>4, <1>5, PeerBounds DEF ServerHandling

LEMMA ServerTyped ==
  ASSUME IInv, ServerBounds
  PROVE  ServerTypeOK
<1>1. \A p \in Peers : unread[p] \in 0..given /\ unsent[p] \in 0..SndCap
  <2> SUFFICES ASSUME NEW p \in Peers PROVE unread[p] \in 0..given /\ unsent[p] \in 0..SndCap
    OBVIOUS
  <2>1. unread[p] \in Nat /\ unread[p] <= given /\ given \in Nat
    BY DEF IInv, ServerInv, ServerBounds
  <2>2. unsent[p] \in 0..SndCap
    BY DEF ServerBounds
  <2> QED BY <2>1, <2>2
<1>2. up \in BOOLEAN
  BY DEF ServerBounds
<1> QED BY <1>1, <1>2 DEF IInv, ServerInv, ServerBounds, ServerTypeOK

-----------------------------------------------------------------------------
\* A step is one component's, and the system stays what it is.
LEMMA StepParts ==
  ASSUME IInv, [Next]_vars
  PROVE  /\ sys' = sys
         /\ UNCHANGED keyVars \/ KeyHandling \/ \E k \in Keys : KeyType(k)
         /\ UNCHANGED udpVars \/ UdpHandling \/ UdpOther
         /\ UNCHANGED serverVars \/ ServerHandling \/ PeerActs
<1>1. CASE (PostHandling \/ PostOther) /\ OnlyPost
  BY <1>1, PostStep DEF IInv, OnlyPost
<1>2. CASE (TimerHandling \/ TimerOther) /\ OnlyTimer
  BY <1>2, TimerStep DEF IInv, OnlyTimer
<1>3. CASE (SignalHandling \/ SignalOther) /\ OnlySignal
  BY <1>3, SignalStep DEF IInv, OnlySignal
<1>4. CASE (PipeHandling \/ ("pipe" \in uses /\ PipeOther)) /\ OnlyPipe
  BY <1>4, PipeStep DEF IInv, OnlyPipe
<1>5. CASE (ServerHandling \/ (Server /\ PeerActs)) /\ OnlyServer
  BY <1>5, PeerStep, ServerStep DEF IInv, OnlyServer
<1>6. CASE (KeyHandling \/ \E k \in Keys : KeyType(k)) /\ OnlyKeys
  BY <1>6, KeyStep DEF IInv, OnlyKeys
<1>7. CASE (UdpHandling \/ ("udp" \in uses /\ UdpOther)) /\ OnlyUdp
  BY <1>7, UdpStep DEF IInv, OnlyUdp
<1>8. CASE Waits
  <2>1. uses' = uses /\ OnlyQueue
    BY <1>8 DEF Waits, OnlyQueue
  <2>2. Wait(Pollable, TimerDone, Cap) \/ Take(UserKnows)
    BY <1>8 DEF Waits, Waiter, Cap, UserKnows
  <2>3. WaitFacts \/ TakeFacts
    BY <2>1, <2>2, WaitQ, TakeQ DEF IInv
  <2> QED BY <2>1, <2>3 DEF WaitFacts, TakeFacts, OnlyQueue
<1>9. CASE HandlerStep /\ OnlyHandler
  BY <1>9 DEF HandlerStep, kqVars, Stay, OnlyHandler
<1>10. CASE Exec /\ OnlyQueue
  BY <1>10 DEF Exec, OnlyQueue
<1>11. CASE UNCHANGED vars
  BY <1>11 DEF vars, kqVars
<1> QED BY <1>1, <1>2, <1>3, <1>4, <1>5, <1>6, <1>7, <1>8, <1>9, <1>10, <1>11 DEF Next, Handling, Other

LEMMA InitBounds == Init => KeyDataInv /\ UdpBounds /\ ServerBounds
<1> SUFFICES ASSUME Init PROVE KeyDataInv /\ UdpBounds /\ ServerBounds
  OBVIOUS
<1>1. tty = <<>> /\ pressed = <<>> /\ data = <<>> /\ due = <<>> /\ typed = 0
  BY DEF Init, KeyInit
<1>2. KeyTypeOK
  <2>1. <<>> \in Seq(Keys) /\ Len(<<>>) = 0
    OBVIOUS
  <2>2. 0 \in 0..MaxTyped /\ 0 + 0 <= 0
    BY KeysAssumption
  <2> QED BY <1>1, <2>1, <2>2 DEF KeyTypeOK
<1>3. KeyDataInv
  BY <1>1, <1>2, CutEmpty DEF KeyDataInv
<1>4. UdpBounds
  <2>1. Len(<<>>) = 0 /\ 0 \in 0..MaxDgrams /\ 0 <= RcvCap
    BY UdpAssumption
  <2> QED BY <2>1 DEF Init, UdpInit, UdpBounds
<1>5. ServerBounds
  <2>1. up = TRUE /\ given = 0 /\ unread = [p \in Peers |-> 0] /\ unsent = unread
    BY DEF Init, ServerInit
  <2>2. 0 \in 0..MaxBytes /\ 0 \in 0..SndCap /\ 0 <= 0
    BY ServerAssumption
  <2> QED BY <2>1, <2>2 DEF ServerBounds
<1> QED BY <1>3, <1>4, <1>5

\* The second invariant: what was read is the bytes of the keys that are due, and the counters
\* of the socket and of the connections are within their bounds.
THEOREM Bounded == Spec => [](KeyDataInv /\ UdpBounds /\ ServerBounds)
<1>1. Init => KeyDataInv /\ UdpBounds /\ ServerBounds
  BY InitBounds
<1>2. IInv /\ KeyDataInv /\ UdpBounds /\ ServerBounds /\ [Next]_vars => KeyDataInv' /\ UdpBounds' /\ ServerBounds'
  BY StepParts, KeyDataStep, UdpBoundsStep, ServerBoundsStep
<1> QED BY <1>1, <1>2, Invariance, PTL DEF Spec

\* ffstd_key_parse() and ffstd_paste_read(): the key that is found in what was read is the next
\* one that was typed, with its modifiers, whatever keys follow it and however typing, reading
\* and parsing interleave; on UNIX it takes the key's bytes and no others; on Windows a key
\* that its tables do not have is never taken for another.
THEOREM KeysTyped == Spec => []KeysAsTyped
<1>1. KeyDataInv => KeysAsTyped
  BY KeysDueParsed
<1> QED BY <1>1, Bounded, PTL

\* All components keep their types: in particular an object is on UNIX's ready list once,
\* ffkq_wait() returns events_cap events at most, no socket holds more than its buffer, and
\* there are never more keys to parse than were typed.
THEOREM TypesKept == Spec => []TypeOK
<1>1. IInv /\ KeyDataInv /\ UdpBounds /\ ServerBounds => TypeOK
  <2>1. KeyDataInv => KeyTypeOK
    BY DEF KeyDataInv
  <2> QED BY <2>1, TypesOf, UdpTyped, ServerTyped DEF TypeOK
<1> QED BY <1>1, Invariance, Bounded, PTL
=============================================================================
