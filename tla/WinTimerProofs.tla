--------------------------- MODULE WinTimerProofs ---------------------------
(***************************************************************************)
(* Theorems about the Windows timer, for all queues, data and periods.     *)
(***************************************************************************)
EXTENDS WinTimer, TLAPS

-----------------------------------------------------------------------------
(* Each part of the invariant is kept by every step. *)

\* The values that stand for a zeroed object have their types.
LEMMA AnyInSets == AnyQueue \in Queues /\ AnyData \in Datas
BY WinTimerAssumption DEF AnyQueue, AnyData

\* No step breaks the types of the fields, the threads and the waitable timer.
LEMMA TypeStep ==
  ASSUME TypeOK, [Next]_vars
  PROVE  TypeOK'
<1>1. CASE Create
  BY <1>1, AnyInSets DEF Create, CreateSteps, UserSteps, Commands, TypeOK, objVars, argVars, cmdVars, thdVars, tmrVars
<1>2. CASE Close
  BY <1>2 DEF Close, CloseSteps, UserSteps, TypeOK, objVars, argVars, cmdVars, thdVars, tmrVars
<1>3. CASE Stop
  BY <1>3 DEF Stop, CallSteps, UserSteps, TypeOK, objVars, argVars, cmdVars, thdVars, tmrVars
<1>4. CASE \E q \in Queues : StartQueue(q)
  BY <1>4 DEF StartQueue, CallSteps, UserSteps, TypeOK, objVars, argVars, cmdVars, thdVars, tmrVars
<1>5. CASE CreateTimer
  <2>1. handles' \subseteq Handles
    BY <1>5 DEF TypeOK, CreateTimer, CreateStep, Handles
  <2>2. user' \in UserSteps
    BY <1>5 DEF CreateTimer, CreateStep, CreateSteps, CloseSteps, UserSteps
  <2> QED BY <1>5, <2>1, <2>2 DEF TypeOK, CreateTimer, CreateStep, objVars, argVars, cmdVars, thdVars, tmrVars
<1>6. CASE CreateEvt
  <2>1. handles' \subseteq Handles
    BY <1>6 DEF TypeOK, CreateEvt, CreateStep, Handles
  <2>2. user' \in UserSteps
    BY <1>6 DEF CreateEvt, CreateStep, CreateSteps, CloseSteps, UserSteps
  <2> QED BY <1>6, <2>1, <2>2 DEF TypeOK, CreateEvt, CreateStep, objVars, argVars, cmdVars, thdVars, tmrVars
<1>7. CASE CreateEvtResult
  <2>1. handles' \subseteq Handles
    BY <1>7 DEF TypeOK, CreateEvtResult, CreateStep, Handles
  <2>2. user' \in UserSteps
    BY <1>7 DEF CreateEvtResult, CreateStep, CreateSteps, CloseSteps, UserSteps
  <2> QED BY <1>7, <2>1, <2>2 DEF TypeOK, CreateEvtResult, CreateStep, objVars, argVars, cmdVars, thdVars, tmrVars
<1>8. CASE CreateThread
  <2>1. handles' \subseteq Handles
    BY <1>8 DEF TypeOK, CreateThread, CreateStep, Handles
  <2>2. user' \in UserSteps
    BY <1>8 DEF CreateThread, CreateStep, CreateSteps, CloseSteps, UserSteps
  <2>3. thread' \in ThreadSteps
    BY <1>8 DEF CreateThread, TypeOK, ThreadSteps
  <2> QED BY <1>8, <2>1, <2>2, <2>3 DEF TypeOK, CreateThread, CreateStep, objVars, argVars, cmdVars, thdVars, tmrVars
<1>9. CASE CloseTimer
  BY <1>9 DEF CloseTimer, CloseSteps, UserSteps, TypeOK, objVars, argVars, cmdVars, thdVars, tmrVars
<1>10. CASE CloseCtl
  BY <1>10 DEF CloseCtl, CloseSteps, UserSteps, Commands, TypeOK, objVars, argVars, cmdVars, thdVars, tmrVars
<1>11. CASE CloseSignal
  BY <1>11 DEF CloseSignal, CloseSteps, UserSteps, TypeOK, objVars, argVars, cmdVars, thdVars, tmrVars
<1>12. CASE Join \/ CloseRest
  BY <1>12 DEF Join, CloseRest, CloseSteps, UserSteps, TypeOK, objVars, argVars, cmdVars, thdVars, tmrVars
<1>13. CASE (\E d \in Datas : StartData(d)) \/ (\E p \in Periods : StartPeriod(p))
  BY <1>13 DEF StartData, StartPeriod, CallSteps, UserSteps, TypeOK, objVars, argVars, cmdVars, thdVars, tmrVars
<1>14. CASE SetCtl("set_ctl_start", "start", "signal_start")
  <2>1. user' \in UserSteps
    BY <1>14 DEF SetCtl, CallSteps, UserSteps
  <2>2. ctl' \in Commands
    BY <1>14 DEF SetCtl, Commands
  <2> QED BY <1>14, <2>1, <2>2 DEF TypeOK, SetCtl, objVars, argVars, cmdVars, thdVars, tmrVars
<1>15. CASE SetCtl("set_ctl_stop", "stop", "signal_stop")
  <2>1. user' \in UserSteps
    BY <1>15 DEF SetCtl, CallSteps, UserSteps
  <2>2. ctl' \in Commands
    BY <1>15 DEF SetCtl, Commands
  <2> QED BY <1>15, <2>1, <2>2 DEF TypeOK, SetCtl, objVars, argVars, cmdVars, thdVars, tmrVars
<1>16. CASE Signal("signal_start") \/ Signal("signal_stop")
  BY <1>16 DEF Signal, CallSteps, UserSteps, TypeOK, objVars, argVars, cmdVars, thdVars, tmrVars
<1>17. CASE Await \/ Collect
  BY <1>17 DEF Await, Reset, Collect, CallSteps, UserSteps, TypeOK, objVars, argVars, cmdVars, thdVars, tmrVars
<1>18. CASE WakeApc \/ WakeEvt
  BY <1>18 DEF WakeApc, WakeEvt, ThreadSteps, TypeOK, objVars, argVars, cmdVars, thdVars, tmrVars
<1>19. CASE Fire \/ PostEvent
  BY <1>19 DEF Fire, PostEvent, ThreadSteps, TypeOK, objVars, argVars, cmdVars, thdVars, tmrVars
<1>20. CASE ReadCtl
  BY <1>20 DEF ReadCtl, ThreadSteps, TypeOK, objVars, argVars, cmdVars, thdVars, tmrVars
<1>21. CASE Report
  BY <1>21 DEF Report, ThreadSteps, TypeOK, objVars, argVars, cmdVars, thdVars, tmrVars
<1>22. CASE SignalResult
  BY <1>22 DEF SignalResult, ThreadSteps, TypeOK, objVars, argVars, cmdVars, thdVars, tmrVars
<1>23. CASE ExecuteStart
  <2>1. Due(period) \in 0..MaxPeriod /\ Repeat(period) \in 0..MaxPeriod
    BY WinTimerAssumption DEF Due, Repeat, Magnitude, TypeOK
  <2>2. status' \in {"ok", "error"} /\ thread' \in ThreadSteps
    BY <1>23 DEF ExecuteStart, ThreadSteps
  <2>3. armed' \in BOOLEAN /\ apc' \in BOOLEAN
    BY <1>23 DEF TypeOK, ExecuteStart, tmrVars
  <2>4. due' \in 0..MaxPeriod /\ repeat' \in 0..MaxPeriod
    BY <1>23, <2>1 DEF TypeOK, ExecuteStart, tmrVars
  <2>5. age' \in 0..MaxPeriod
    BY <1>23, WinTimerAssumption DEF TypeOK, ExecuteStart, tmrVars
  <2>6. start' \in [kq : Queues, data : Datas, period : Periods \cup {0}]
    BY <1>23 DEF TypeOK, ExecuteStart, tmrVars
  <2> QED BY <1>23, <2>2, <2>3, <2>4, <2>5, <2>6 DEF TypeOK, ExecuteStart, objVars, argVars, cmdVars
<1>24. CASE ExecuteStop
  <2>1. armed' \in BOOLEAN /\ apc' \in BOOLEAN /\ status' \in {"ok", "error"} /\ thread' \in ThreadSteps
    BY <1>24 DEF TypeOK, ExecuteStop, Cancelled, ThreadSteps
  <2> QED BY <1>24, <2>1 DEF TypeOK, ExecuteStop, objVars, argVars, cmdVars
<1>25. CASE Tick
  BY <1>25, WinTimerAssumption DEF Tick, TypeOK, objVars, argVars, cmdVars, thdVars, tmrVars
<1>26. CASE Expire
  BY <1>26, WinTimerAssumption DEF Expire, TypeOK, objVars, argVars, cmdVars, thdVars, tmrVars
<1>27. CASE UNCHANGED vars
  BY <1>27 DEF vars, TypeOK, objVars, argVars, cmdVars, thdVars, tmrVars
<1> QED
  BY <1>1, <1>2, <1>3, <1>4, <1>5, <1>6, <1>7, <1>8, <1>9, <1>10, <1>11, <1>12, <1>13, <1>14, <1>15, <1>16, <1>17, <1>18, <1>19, <1>20, <1>21, <1>22, <1>23, <1>24, <1>25, <1>26, <1>27
  DEF Next, UserCall, UserStep, ThreadStep

\* Every step keeps the hand-over of commands and results.
LEMMA HandoverStep ==
  ASSUME TypeOK, Lifetime, Handover, [Next]_vars
  PROVE  Handover'
<1>1. CASE Create
  BY <1>1 DEF Create, TypeOK, Handover, Lifetime, Sleeping, Gone, Handles, CreateSteps, CloseSteps, CallSteps, ThreadSteps, Commands, objVars, argVars, cmdVars, thdVars, tmrVars
<1>2. CASE Close
  BY <1>2 DEF Close, TypeOK, Handover, Lifetime, Sleeping, Gone, Handles, CreateSteps, CloseSteps, CallSteps, ThreadSteps, Commands, objVars, argVars, cmdVars, thdVars, tmrVars
<1>3. CASE Stop
  BY <1>3 DEF Stop, TypeOK, Handover, Lifetime, Sleeping, Gone, Handles, CreateSteps, CloseSteps, CallSteps, ThreadSteps, Commands, objVars, argVars, cmdVars, thdVars, tmrVars
<1>4. CASE \E q \in Queues : StartQueue(q)
  BY <1>4 DEF StartQueue, TypeOK, Handover, Lifetime, Sleeping, Gone, Handles, CreateSteps, CloseSteps, CallSteps, ThreadSteps, Commands, objVars, argVars, cmdVars, thdVars, tmrVars
<1>5. CASE CreateTimer
  BY <1>5 DEF CreateTimer, CreateStep, TypeOK, Handover, Lifetime, Sleeping, Gone, Handles, CreateSteps, CloseSteps, CallSteps, ThreadSteps, Commands, objVars, argVars, cmdVars, thdVars, tmrVars
<1>6. CASE CreateEvt
  BY <1>6 DEF CreateEvt, CreateStep, TypeOK, Handover, Lifetime, Sleeping, Gone, Handles, CreateSteps, CloseSteps, CallSteps, ThreadSteps, Commands, objVars, argVars, cmdVars, thdVars, tmrVars
<1>7. CASE CreateEvtResult
  BY <1>7 DEF CreateEvtResult, CreateStep, TypeOK, Handover, Lifetime, Sleeping, Gone, Handles, CreateSteps, CloseSteps, CallSteps, ThreadSteps, Commands, objVars, argVars, cmdVars, thdVars, tmrVars
<1>8. CASE CreateThread
  BY <1>8 DEF CreateThread, CreateStep, TypeOK, Handover, Lifetime, Sleeping, Gone, Handles, CreateSteps, CloseSteps, CallSteps, ThreadSteps, Commands, objVars, argVars, cmdVars, thdVars, tmrVars
<1>9. CASE CloseTimer
  BY <1>9 DEF CloseTimer, TypeOK, Handover, Lifetime, Sleeping, Gone, Handles, CreateSteps, CloseSteps, CallSteps, ThreadSteps, Commands, objVars, argVars, cmdVars, thdVars, tmrVars
<1>10. CASE CloseCtl
  BY <1>10 DEF CloseCtl, TypeOK, Handover, Lifetime, Sleeping, Gone, Handles, CreateSteps, CloseSteps, CallSteps, ThreadSteps, Commands, objVars, argVars, cmdVars, thdVars, tmrVars
<1>11. CASE CloseSignal
  BY <1>11 DEF CloseSignal, TypeOK, Handover, Lifetime, Sleeping, Gone, Handles, CreateSteps, CloseSteps, CallSteps, ThreadSteps, Commands, objVars, argVars, cmdVars, thdVars, tmrVars
<1>12. CASE Join
  BY <1>12 DEF Join, ThreadEnded, TypeOK, Handover, Lifetime, Sleeping, Gone, Handles, CreateSteps, CloseSteps, CallSteps, ThreadSteps, Commands, objVars, argVars, cmdVars, thdVars, tmrVars
<1>13. CASE CloseRest
  BY <1>13 DEF CloseRest, TypeOK, Handover, Lifetime, Sleeping, Gone, Handles, CreateSteps, CloseSteps, CallSteps, ThreadSteps, Commands, objVars, argVars, cmdVars, thdVars, tmrVars
<1>14. CASE (\E d \in Datas : StartData(d)) \/ (\E p \in Periods : StartPeriod(p))
  BY <1>14 DEF StartData, StartPeriod, TypeOK, Handover, Lifetime, Sleeping, Gone, Handles, CreateSteps, CloseSteps, CallSteps, ThreadSteps, Commands, objVars, argVars, cmdVars, thdVars, tmrVars
<1>15. CASE SetCtl("set_ctl_start", "start", "signal_start")
  BY <1>15 DEF SetCtl, TypeOK, Handover, Lifetime, Sleeping, Gone, Handles, CreateSteps, CloseSteps, CallSteps, ThreadSteps, Commands, objVars, argVars, cmdVars, thdVars, tmrVars
<1>16. CASE SetCtl("set_ctl_stop", "stop", "signal_stop")
  BY <1>16 DEF SetCtl, TypeOK, Handover, Lifetime, Sleeping, Gone, Handles, CreateSteps, CloseSteps, CallSteps, ThreadSteps, Commands, objVars, argVars, cmdVars, thdVars, tmrVars
<1>17. CASE Signal("signal_start")
  BY <1>17 DEF Signal, TypeOK, Handover, Lifetime, Sleeping, Gone, Handles, CreateSteps, CloseSteps, CallSteps, ThreadSteps, Commands, objVars, argVars, cmdVars, thdVars, tmrVars
<1>18. CASE Signal("signal_stop")
  BY <1>18 DEF Signal, TypeOK, Handover, Lifetime, Sleeping, Gone, Handles, CreateSteps, CloseSteps, CallSteps, ThreadSteps, Commands, objVars, argVars, cmdVars, thdVars, tmrVars
<1>19. CASE Await \/ Collect
  BY <1>19 DEF Await, Reset, Collect, TypeOK, Handover, Lifetime, Sleeping, Gone, Handles, CreateSteps, CloseSteps, CallSteps, ThreadSteps, Commands, objVars, argVars, cmdVars, thdVars, tmrVars
<1>20. CASE WakeApc \/ WakeEvt \/ Fire \/ PostEvent
  BY <1>20 DEF WakeApc, WakeEvt, Fire, PostEvent, TypeOK, Handover, Lifetime, Sleeping, Gone, Handles, CreateSteps, CloseSteps, CallSteps, ThreadSteps, Commands, objVars, argVars, cmdVars, thdVars, tmrVars
<1>21. CASE ReadCtl \/ Report \/ SignalResult
  BY <1>21 DEF ReadCtl, Report, SignalResult, TypeOK, Handover, Lifetime, Sleeping, Gone, Handles, CreateSteps, CloseSteps, CallSteps, ThreadSteps, Commands, objVars, argVars, cmdVars, thdVars, tmrVars
<1>22. CASE ExecuteStart
  BY <1>22 DEF ExecuteStart, TypeOK, Handover, Lifetime, Sleeping, Gone, Handles, CreateSteps, CloseSteps, CallSteps, ThreadSteps, Commands, objVars, argVars, cmdVars, thdVars, tmrVars
<1>23. CASE ExecuteStop
  BY <1>23 DEF ExecuteStop, Cancelled, TypeOK, Handover, Lifetime, Sleeping, Gone, Handles, CreateSteps, CloseSteps, CallSteps, ThreadSteps, Commands, objVars, argVars, cmdVars, thdVars, tmrVars
<1>24. CASE Tick
  BY <1>24 DEF Tick, TypeOK, Handover, Lifetime, Sleeping, Gone, Handles, CreateSteps, CloseSteps, CallSteps, ThreadSteps, Commands, objVars, argVars, cmdVars, thdVars, tmrVars
<1>25. CASE Expire
  BY <1>25 DEF Expire, TypeOK, Handover, Lifetime, Sleeping, Gone, Handles, CreateSteps, CloseSteps, CallSteps, ThreadSteps, Commands, objVars, argVars, cmdVars, thdVars, tmrVars
<1>26. CASE UNCHANGED vars
  BY <1>26 DEF vars, TypeOK, Handover, Lifetime, Sleeping, Gone, Handles, CreateSteps, CloseSteps, CallSteps, ThreadSteps, Commands, objVars, argVars, cmdVars, thdVars, tmrVars
<1> QED
  BY <1>1, <1>2, <1>3, <1>4, <1>5, <1>6, <1>7, <1>8, <1>9, <1>10, <1>11, <1>12, <1>13, <1>14, <1>15, <1>16, <1>17, <1>18, <1>19, <1>20, <1>21, <1>22, <1>23, <1>24, <1>25, <1>26
  DEF Next, UserCall, UserStep, ThreadStep

\* Every step keeps handles, thread and timer within the object's life.
LEMMA LifetimeStep ==
  ASSUME TypeOK, Handover, Lifetime, [Next]_vars
  PROVE  Lifetime'
<1>1. CASE Create
  BY <1>1 DEF Create, TypeOK, Handover, Lifetime, Sleeping, Gone, Handles, CreateSteps, CloseSteps, CallSteps, Due, Repeat, objVars, argVars, cmdVars, thdVars, tmrVars
<1>2. CASE Close
  BY <1>2 DEF Close, TypeOK, Handover, Lifetime, Sleeping, Gone, Handles, CreateSteps, CloseSteps, CallSteps, Due, Repeat, objVars, argVars, cmdVars, thdVars, tmrVars
<1>3. CASE Stop
  BY <1>3 DEF Stop, TypeOK, Handover, Lifetime, Sleeping, Gone, Handles, CreateSteps, CloseSteps, CallSteps, Due, Repeat, objVars, argVars, cmdVars, thdVars, tmrVars
<1>4. CASE \E q \in Queues : StartQueue(q)
  BY <1>4 DEF StartQueue, TypeOK, Handover, Lifetime, Sleeping, Gone, Handles, CreateSteps, CloseSteps, CallSteps, Due, Repeat, objVars, argVars, cmdVars, thdVars, tmrVars
<1>5. CASE CreateTimer
  BY <1>5 DEF CreateTimer, CreateStep, TypeOK, Handover, Lifetime, Sleeping, Gone, Handles, CreateSteps, CloseSteps, CallSteps, Due, Repeat, objVars, argVars, cmdVars, thdVars, tmrVars
<1>6. CASE CreateEvt
  BY <1>6 DEF CreateEvt, CreateStep, TypeOK, Handover, Lifetime, Sleeping, Gone, Handles, CreateSteps, CloseSteps, CallSteps, Due, Repeat, objVars, argVars, cmdVars, thdVars, tmrVars
<1>7. CASE CreateEvtResult
  BY <1>7 DEF CreateEvtResult, CreateStep, TypeOK, Handover, Lifetime, Sleeping, Gone, Handles, CreateSteps, CloseSteps, CallSteps, Due, Repeat, objVars, argVars, cmdVars, thdVars, tmrVars
<1>8. CASE CreateThread
  BY <1>8 DEF CreateThread, CreateStep, TypeOK, Handover, Lifetime, Sleeping, Gone, Handles, CreateSteps, CloseSteps, CallSteps, Due, Repeat, objVars, argVars, cmdVars, thdVars, tmrVars
<1>9. CASE CloseTimer
  BY <1>9 DEF CloseTimer, TypeOK, Handover, Lifetime, Sleeping, Gone, Handles, CreateSteps, CloseSteps, CallSteps, Due, Repeat, objVars, argVars, cmdVars, thdVars, tmrVars
<1>10. CASE CloseCtl
  BY <1>10 DEF CloseCtl, TypeOK, Handover, Lifetime, Sleeping, Gone, Handles, CreateSteps, CloseSteps, CallSteps, Due, Repeat, objVars, argVars, cmdVars, thdVars, tmrVars
<1>11. CASE CloseSignal
  BY <1>11 DEF CloseSignal, TypeOK, Handover, Lifetime, Sleeping, Gone, Handles, CreateSteps, CloseSteps, CallSteps, Due, Repeat, objVars, argVars, cmdVars, thdVars, tmrVars
<1>12. CASE Join
  BY <1>12 DEF Join, ThreadEnded, TypeOK, Handover, Lifetime, Sleeping, Gone, Handles, CreateSteps, CloseSteps, CallSteps, Due, Repeat, objVars, argVars, cmdVars, thdVars, tmrVars
<1>13. CASE CloseRest
  BY <1>13 DEF CloseRest, TypeOK, Handover, Lifetime, Sleeping, Gone, Handles, CreateSteps, CloseSteps, CallSteps, Due, Repeat, objVars, argVars, cmdVars, thdVars, tmrVars
<1>14. CASE (\E d \in Datas : StartData(d)) \/ (\E p \in Periods : StartPeriod(p))
  BY <1>14 DEF StartData, StartPeriod, TypeOK, Handover, Lifetime, Sleeping, Gone, Handles, CreateSteps, CloseSteps, CallSteps, Due, Repeat, objVars, argVars, cmdVars, thdVars, tmrVars
<1>15. CASE SetCtl("set_ctl_start", "start", "signal_start")
  BY <1>15 DEF SetCtl, TypeOK, Handover, Lifetime, Sleeping, Gone, Handles, CreateSteps, CloseSteps, CallSteps, Due, Repeat, objVars, argVars, cmdVars, thdVars, tmrVars
<1>16. CASE SetCtl("set_ctl_stop", "stop", "signal_stop")
  BY <1>16 DEF SetCtl, TypeOK, Handover, Lifetime, Sleeping, Gone, Handles, CreateSteps, CloseSteps, CallSteps, Due, Repeat, objVars, argVars, cmdVars, thdVars, tmrVars
<1>17. CASE Signal("signal_start")
  BY <1>17 DEF Signal, TypeOK, Handover, Lifetime, Sleeping, Gone, Handles, CreateSteps, CloseSteps, CallSteps, Due, Repeat, objVars, argVars, cmdVars, thdVars, tmrVars
<1>18. CASE Signal("signal_stop")
  BY <1>18 DEF Signal, TypeOK, Handover, Lifetime, Sleeping, Gone, Handles, CreateSteps, CloseSteps, CallSteps, Due, Repeat, objVars, argVars, cmdVars, thdVars, tmrVars
<1>19. CASE Await \/ Collect
  BY <1>19 DEF Await, Reset, Collect, TypeOK, Handover, Lifetime, Sleeping, Gone, Handles, CreateSteps, CloseSteps, CallSteps, Due, Repeat, objVars, argVars, cmdVars, thdVars, tmrVars
<1>20. CASE WakeApc \/ WakeEvt \/ Fire \/ PostEvent
  BY <1>20 DEF WakeApc, WakeEvt, Fire, PostEvent, TypeOK, Handover, Lifetime, Sleeping, Gone, Handles, CreateSteps, CloseSteps, CallSteps, Due, Repeat, objVars, argVars, cmdVars, thdVars, tmrVars
<1>21. CASE ReadCtl \/ Report \/ SignalResult
  BY <1>21 DEF ReadCtl, Report, SignalResult, TypeOK, Handover, Lifetime, Sleeping, Gone, Handles, CreateSteps, CloseSteps, CallSteps, Due, Repeat, objVars, argVars, cmdVars, thdVars, tmrVars
<1>22. CASE ExecuteStart
  BY <1>22 DEF ExecuteStart, TypeOK, Handover, Lifetime, Sleeping, Gone, Handles, CreateSteps, CloseSteps, CallSteps, Due, Repeat, objVars, argVars, cmdVars, thdVars, tmrVars
<1>23. CASE ExecuteStop
  BY <1>23 DEF ExecuteStop, Cancelled, TypeOK, Handover, Lifetime, Sleeping, Gone, Handles, CreateSteps, CloseSteps, CallSteps, Due, Repeat, objVars, argVars, cmdVars, thdVars, tmrVars
<1>24. CASE Tick
  BY <1>24 DEF Tick, TypeOK, Handover, Lifetime, Sleeping, Gone, Handles, CreateSteps, CloseSteps, CallSteps, Due, Repeat, objVars, argVars, cmdVars, thdVars, tmrVars
<1>25. CASE Expire
  BY <1>25 DEF Expire, TypeOK, Handover, Lifetime, Sleeping, Gone, Handles, CreateSteps, CloseSteps, CallSteps, Due, Repeat, objVars, argVars, cmdVars, thdVars, tmrVars
<1>26. CASE UNCHANGED vars
  BY <1>26 DEF vars, TypeOK, Handover, Lifetime, Sleeping, Gone, Handles, CreateSteps, CloseSteps, CallSteps, Due, Repeat, objVars, argVars, cmdVars, thdVars, tmrVars
<1> QED
  BY <1>1, <1>2, <1>3, <1>4, <1>5, <1>6, <1>7, <1>8, <1>9, <1>10, <1>11, <1>12, <1>13, <1>14, <1>15, <1>16, <1>17, <1>18, <1>19, <1>20, <1>21, <1>22, <1>23, <1>24, <1>25, <1>26
  DEF Next, UserCall, UserStep, ThreadStep

\* Every step keeps a stopped timer silent.
LEMMA QuietnessStep ==
  ASSUME TypeOK, Handover, Lifetime, Quietness, [Next]_vars
  PROVE  Quietness'
<1>1. CASE Create \/ Close \/ Stop \/ \E q \in Queues : StartQueue(q)
  BY <1>1 DEF Create, Close, Stop, StartQueue, TypeOK, Handover, Lifetime, Quietness, Silent, Starting, Sleeping, Gone, CreateSteps, CloseSteps, CallSteps, objVars, argVars, cmdVars, thdVars, tmrVars
<1>2. CASE CreateTimer \/ CreateEvt \/ CreateEvtResult \/ CreateThread
  BY <1>2 DEF CreateTimer, CreateEvt, CreateEvtResult, CreateThread, CreateStep, TypeOK, Handover, Lifetime, Quietness, Silent, Starting, Sleeping, Gone, CreateSteps, CloseSteps, CallSteps, objVars, argVars, cmdVars, thdVars, tmrVars
<1>3. CASE CloseTimer \/ CloseCtl \/ CloseSignal \/ Join \/ CloseRest
  BY <1>3 DEF CloseTimer, CloseCtl, CloseSignal, Join, ThreadEnded, CloseRest, TypeOK, Handover, Lifetime, Quietness, Silent, Starting, Sleeping, Gone, CreateSteps, CloseSteps, CallSteps, objVars, argVars, cmdVars, thdVars, tmrVars
<1>4. CASE (\E d \in Datas : StartData(d)) \/ (\E p \in Periods : StartPeriod(p))
  BY <1>4 DEF StartData, StartPeriod, TypeOK, Handover, Lifetime, Quietness, Silent, Starting, Sleeping, Gone, CreateSteps, CloseSteps, CallSteps, objVars, argVars, cmdVars, thdVars, tmrVars
<1>5. CASE \/ SetCtl("set_ctl_start", "start", "signal_start")
        \/ SetCtl("set_ctl_stop", "stop", "signal_stop")
        \/ Signal("signal_start") \/ Signal("signal_stop")
  BY <1>5 DEF SetCtl, Signal, TypeOK, Handover, Lifetime, Quietness, Silent, Starting, Sleeping, Gone, CreateSteps, CloseSteps, CallSteps, objVars, argVars, cmdVars, thdVars, tmrVars
<1>6. CASE Await \/ Collect
  BY <1>6 DEF Await, Reset, Collect, TypeOK, Handover, Lifetime, Quietness, Silent, Starting, Sleeping, Gone, CreateSteps, CloseSteps, CallSteps, objVars, argVars, cmdVars, thdVars, tmrVars
<1>7. CASE WakeApc \/ WakeEvt \/ Fire \/ PostEvent
  BY <1>7 DEF WakeApc, WakeEvt, Fire, PostEvent, TypeOK, Handover, Lifetime, Quietness, Silent, Starting, Sleeping, Gone, CreateSteps, CloseSteps, CallSteps, objVars, argVars, cmdVars, thdVars, tmrVars
<1>8. CASE ReadCtl \/ Report \/ SignalResult
  BY <1>8 DEF ReadCtl, Report, SignalResult, TypeOK, Handover, Lifetime, Quietness, Silent, Starting, Sleeping, Gone, CreateSteps, CloseSteps, CallSteps, objVars, argVars, cmdVars, thdVars, tmrVars
<1>9. CASE ExecuteStart
  BY <1>9 DEF ExecuteStart, TypeOK, Handover, Lifetime, Quietness, Silent, Starting, Sleeping, Gone, CreateSteps, CloseSteps, CallSteps, objVars, argVars, cmdVars, thdVars, tmrVars
<1>10. CASE ExecuteStop
  BY <1>10 DEF ExecuteStop, Cancelled, TypeOK, Handover, Lifetime, Quietness, Silent, Starting, Sleeping, Gone, CreateSteps, CloseSteps, CallSteps, objVars, argVars, cmdVars, thdVars, tmrVars
<1>11. CASE Tick \/ Expire
  BY <1>11 DEF Tick, Expire, TypeOK, Handover, Lifetime, Quietness, Silent, Starting, Sleeping, Gone, CreateSteps, CloseSteps, CallSteps, objVars, argVars, cmdVars, thdVars, tmrVars
<1>12. CASE UNCHANGED vars
  BY <1>12 DEF vars, TypeOK, Handover, Lifetime, Quietness, Silent, Starting, Sleeping, Gone, CreateSteps, CloseSteps, CallSteps, objVars, argVars, cmdVars, thdVars, tmrVars
<1> QED
  BY <1>1, <1>2, <1>3, <1>4, <1>5, <1>6, <1>7, <1>8, <1>9, <1>10, <1>11, <1>12
  DEF Next, UserCall, UserStep, ThreadStep

\* Every step of a patient user keeps the fields equal to those of the start
\* while the timer can fire.
LEMMA MatchingStep ==
  ASSUME Patient, TypeOK, Handover, Lifetime, Quietness, Matching, [Next]_vars
  PROVE  Matching'
<1>1. CASE Create \/ Close \/ Stop \/ \E q \in Queues : StartQueue(q)
  BY <1>1 DEF Create, Close, Stop, StartQueue, TypeOK, Handover, Lifetime, Quietness, Matching, Silent, Starting, Sleeping, Gone, CreateSteps, CloseSteps, CallSteps, objVars, argVars, cmdVars, thdVars, tmrVars
<1>2. CASE CreateTimer \/ CreateEvt \/ CreateEvtResult \/ CreateThread
  BY <1>2 DEF CreateTimer, CreateEvt, CreateEvtResult, CreateThread, CreateStep, TypeOK, Handover, Lifetime, Quietness, Matching, Silent, Starting, Sleeping, Gone, CreateSteps, CloseSteps, CallSteps, objVars, argVars, cmdVars, thdVars, tmrVars
<1>3. CASE CloseTimer \/ CloseCtl \/ CloseSignal \/ Join \/ CloseRest
  BY <1>3 DEF CloseTimer, CloseCtl, CloseSignal, Join, ThreadEnded, CloseRest, TypeOK, Handover, Lifetime, Quietness, Matching, Silent, Starting, Sleeping, Gone, CreateSteps, CloseSteps, CallSteps, objVars, argVars, cmdVars, thdVars, tmrVars
<1>4. CASE (\E d \in Datas : StartData(d)) \/ (\E p \in Periods : StartPeriod(p))
  BY <1>4 DEF StartData, StartPeriod, TypeOK, Handover, Lifetime, Quietness, Matching, Silent, Starting, Sleeping, Gone, CreateSteps, CloseSteps, CallSteps, objVars, argVars, cmdVars, thdVars, tmrVars
<1>5. CASE \/ SetCtl("set_ctl_start", "start", "signal_start")
        \/ SetCtl("set_ctl_stop", "stop", "signal_stop")
        \/ Signal("signal_start") \/ Signal("signal_stop")
  BY <1>5 DEF SetCtl, Signal, TypeOK, Handover, Lifetime, Quietness, Matching, Silent, Starting, Sleeping, Gone, CreateSteps, CloseSteps, CallSteps, objVars, argVars, cmdVars, thdVars, tmrVars
<1>6. CASE Await \/ Collect
  BY <1>6 DEF Await, Reset, Collect, TypeOK, Handover, Lifetime, Quietness, Matching, Silent, Starting, Sleeping, Gone, CreateSteps, CloseSteps, CallSteps, objVars, argVars, cmdVars, thdVars, tmrVars
<1>7. CASE WakeApc \/ WakeEvt \/ Fire \/ PostEvent
  BY <1>7 DEF WakeApc, WakeEvt, Fire, PostEvent, TypeOK, Handover, Lifetime, Quietness, Matching, Silent, Starting, Sleeping, Gone, CreateSteps, CloseSteps, CallSteps, objVars, argVars, cmdVars, thdVars, tmrVars
<1>8. CASE ReadCtl \/ Report \/ SignalResult
  BY <1>8 DEF ReadCtl, Report, SignalResult, TypeOK, Handover, Lifetime, Quietness, Matching, Silent, Starting, Sleeping, Gone, CreateSteps, CloseSteps, CallSteps, objVars, argVars, cmdVars, thdVars, tmrVars
<1>9. CASE ExecuteStart
  BY <1>9 DEF ExecuteStart, TypeOK, Handover, Lifetime, Quietness, Matching, Silent, Starting, Sleeping, Gone, CreateSteps, CloseSteps, CallSteps, objVars, argVars, cmdVars, thdVars, tmrVars
<1>10. CASE ExecuteStop
  BY <1>10 DEF ExecuteStop, Cancelled, TypeOK, Handover, Lifetime, Quietness, Matching, Silent, Starting, Sleeping, Gone, CreateSteps, CloseSteps, CallSteps, objVars, argVars, cmdVars, thdVars, tmrVars
<1>11. CASE Tick \/ Expire
  BY <1>11 DEF Tick, Expire, TypeOK, Handover, Lifetime, Quietness, Matching, Silent, Starting, Sleeping, Gone, CreateSteps, CloseSteps, CallSteps, objVars, argVars, cmdVars, thdVars, tmrVars
<1>12. CASE UNCHANGED vars
  BY <1>12 DEF vars, TypeOK, Handover, Lifetime, Quietness, Matching, Silent, Starting, Sleeping, Gone, CreateSteps, CloseSteps, CallSteps, objVars, argVars, cmdVars, thdVars, tmrVars
<1> QED
  BY <1>1, <1>2, <1>3, <1>4, <1>5, <1>6, <1>7, <1>8, <1>9, <1>10, <1>11, <1>12
  DEF Next, UserCall, UserStep, ThreadStep

\* Every step keeps a periodic timer from being due early.
LEMMA InTimeStep ==
  ASSUME TypeOK, InTime, [Next]_vars
  PROVE  InTime'
<1>1. CASE Create
  BY <1>1 DEF Create, TypeOK, InTime, FiresOnce, Repeat, objVars, argVars, cmdVars, thdVars, tmrVars
<1>2. CASE Close
  BY <1>2 DEF Close, TypeOK, InTime, FiresOnce, Repeat, objVars, argVars, cmdVars, thdVars, tmrVars
<1>3. CASE Stop
  BY <1>3 DEF Stop, TypeOK, InTime, FiresOnce, Repeat, objVars, argVars, cmdVars, thdVars, tmrVars
<1>4. CASE \E q \in Queues : StartQueue(q)
  BY <1>4 DEF StartQueue, TypeOK, InTime, FiresOnce, Repeat, objVars, argVars, cmdVars, thdVars, tmrVars
<1>5. CASE CreateTimer
  BY <1>5 DEF CreateTimer, CreateStep, TypeOK, InTime, FiresOnce, Repeat, objVars, argVars, cmdVars, thdVars, tmrVars
<1>6. CASE CreateEvt
  BY <1>6 DEF CreateEvt, CreateStep, TypeOK, InTime, FiresOnce, Repeat, objVars, argVars, cmdVars, thdVars, tmrVars
<1>7. CASE CreateEvtResult
  BY <1>7 DEF CreateEvtResult, CreateStep, TypeOK, InTime, FiresOnce, Repeat, objVars, argVars, cmdVars, thdVars, tmrVars
<1>8. CASE CreateThread
  BY <1>8 DEF CreateThread, CreateStep, TypeOK, InTime, FiresOnce, Repeat, objVars, argVars, cmdVars, thdVars, tmrVars
<1>9. CASE CloseTimer
  BY <1>9 DEF CloseTimer, TypeOK, InTime, FiresOnce, Repeat, objVars, argVars, cmdVars, thdVars, tmrVars
<1>10. CASE CloseCtl
  BY <1>10 DEF CloseCtl, TypeOK, InTime, FiresOnce, Repeat, objVars, argVars, cmdVars, thdVars, tmrVars
<1>11. CASE CloseSignal
  BY <1>11 DEF CloseSignal, TypeOK, InTime, FiresOnce, Repeat, objVars, argVars, cmdVars, thdVars, tmrVars
<1>12. CASE Join
  BY <1>12 DEF Join, ThreadEnded, TypeOK, InTime, FiresOnce, Repeat, objVars, argVars, cmdVars, thdVars, tmrVars
<1>13. CASE CloseRest
  BY <1>13 DEF CloseRest, TypeOK, InTime, FiresOnce, Repeat, objVars, argVars, cmdVars, thdVars, tmrVars
<1>14. CASE (\E d \in Datas : StartData(d)) \/ (\E p \in Periods : StartPeriod(p))
  BY <1>14 DEF StartData, StartPeriod, TypeOK, InTime, FiresOnce, Repeat, objVars, argVars, cmdVars, thdVars, tmrVars
<1>15. CASE SetCtl("set_ctl_start", "start", "signal_start")
  BY <1>15 DEF SetCtl, TypeOK, InTime, FiresOnce, Repeat, objVars, argVars, cmdVars, thdVars, tmrVars
<1>16. CASE SetCtl("set_ctl_stop", "stop", "signal_stop")
  BY <1>16 DEF SetCtl, TypeOK, InTime, FiresOnce, Repeat, objVars, argVars, cmdVars, thdVars, tmrVars
<1>17. CASE Signal("signal_start")
  BY <1>17 DEF Signal, TypeOK, InTime, FiresOnce, Repeat, objVars, argVars, cmdVars, thdVars, tmrVars
<1>18. CASE Signal("signal_stop")
  BY <1>18 DEF Signal, TypeOK, InTime, FiresOnce, Repeat, objVars, argVars, cmdVars, thdVars, tmrVars
<1>19. CASE Await \/ Collect
  BY <1>19 DEF Await, Reset, Collect, TypeOK, InTime, FiresOnce, Repeat, objVars, argVars, cmdVars, thdVars, tmrVars
<1>20. CASE WakeApc \/ WakeEvt \/ Fire \/ PostEvent
  BY <1>20 DEF WakeApc, WakeEvt, Fire, PostEvent, TypeOK, InTime, FiresOnce, Repeat, objVars, argVars, cmdVars, thdVars, tmrVars
<1>21. CASE ReadCtl \/ Report \/ SignalResult
  BY <1>21 DEF ReadCtl, Report, SignalResult, TypeOK, InTime, FiresOnce, Repeat, objVars, argVars, cmdVars, thdVars, tmrVars
<1>22. CASE ExecuteStart
  <2>1. CASE UNCHANGED tmrVars
    BY <1>22, <2>1 DEF ExecuteStart, InTime, FiresOnce, tmrVars
  <2>2. CASE /\ ~apc' /\ due' = Due(period) /\ repeat' = Repeat(period)
             /\ start'.period = period /\ age' = 0
    <3>1. period \in Int
      BY WinTimerAssumption DEF TypeOK
    <3>2. thread' = "report"
      BY <1>22 DEF ExecuteStart
    <3> QED BY <2>2, <3>1, <3>2 DEF InTime, FiresOnce, Due, Repeat
  <2> QED BY <1>22, <2>1, <2>2 DEF ExecuteStart
<1>23. CASE ExecuteStop
  BY <1>23 DEF ExecuteStop, Cancelled, TypeOK, InTime, FiresOnce, Repeat, objVars, argVars, cmdVars, thdVars, tmrVars
<1>24. CASE Tick
  BY <1>24, WinTimerAssumption DEF Tick, TypeOK, InTime, FiresOnce, Repeat, objVars, argVars, cmdVars, thdVars, tmrVars
<1>25. CASE Expire
  BY <1>25, WinTimerAssumption DEF Expire, TypeOK, InTime, FiresOnce, Repeat, objVars, argVars, cmdVars, thdVars, tmrVars
<1>26. CASE UNCHANGED vars
  BY <1>26 DEF vars, TypeOK, InTime, FiresOnce, Repeat, objVars, argVars, cmdVars, thdVars, tmrVars
<1> QED
  BY <1>1, <1>2, <1>3, <1>4, <1>5, <1>6, <1>7, <1>8, <1>9, <1>10, <1>11, <1>12, <1>13, <1>14, <1>15, <1>16, <1>17, <1>18, <1>19, <1>20, <1>21, <1>22, <1>23, <1>24, <1>25, <1>26
  DEF Next, UserCall, UserStep, ThreadStep

-----------------------------------------------------------------------------
(* Theorems *)

\* Initially there is no timer object.
LEMMA InitInv == Init => WinTimerInv /\ Matching /\ InTime
<1> SUFFICES ASSUME Init PROVE WinTimerInv /\ Matching /\ InTime
  OBVIOUS
<1>1. user \in UserSteps /\ thread \in ThreadSteps /\ ctl \in Commands /\ cmd \in Commands
  BY DEF Init, UserSteps, ThreadSteps, Commands
<1>2. TypeOK
  <2>1. due \in 0..MaxPeriod /\ repeat \in 0..MaxPeriod /\ age \in 0..MaxPeriod
    BY WinTimerAssumption DEF Init
  <2>2. /\ sent \in [kq : Queues, data : Datas]
        /\ start \in [kq : Queues, data : Datas, period : Periods \cup {0}]
    BY AnyInSets DEF Init
  <2> QED BY <1>1, <2>1, <2>2, AnyInSets DEF Init, TypeOK
<1>3. Handover /\ Lifetime
  BY DEF Init, Handover, Lifetime, Sleeping, Gone, Handles, CallSteps
<1>4. Quietness /\ Matching /\ InTime
  BY DEF Init, Quietness, Matching, InTime, FiresOnce, Silent, Starting
<1> QED BY <1>2, <1>3, <1>4 DEF WinTimerInv

\* The inductive invariant holds for any user.
LEMMA InvHolds == Spec => []WinTimerInv
<1>1. WinTimerInv /\ [Next]_vars => WinTimerInv'
  BY TypeStep, HandoverStep, LifetimeStep, QuietnessStep DEF WinTimerInv
<1> QED BY <1>1, InitInv, PTL DEF Spec

\* Every field, handle, event and program counter keeps its type.
THEOREM TypeCorrect == Spec => []TypeOK
<1>1. WinTimerInv => TypeOK
  BY DEF WinTimerInv
<1> QED BY <1>1, InvHolds, PTL

\* When fftimer_create() has failed or fftimer_close() has returned, no handle is
\* open, the timer thread has ended and the waitable timer is not set.
THEOREM CloseLeavesNothing == Spec => []NothingLeft
<1>1. WinTimerInv => NothingLeft
  BY DEF WinTimerInv, Lifetime, NothingLeft, Gone
<1> QED BY <1>1, InvHolds, PTL

\* fftimer_start() and fftimer_stop() return the outcome of their own command.
THEOREM CommandGetsItsResult == Spec => []ResultIsOfCommand
<1>1. WinTimerInv => ResultIsOfCommand
  BY DEF WinTimerInv, Handover, ResultIsOfCommand
<1> QED BY <1>1, InvHolds, PTL

\* After a successful fftimer_stop() the timer thread posts nothing, whatever the
\* user does with a running timer.
THEOREM StopIsFinal == Spec => []StopSilences
<1>1. WinTimerInv => StopSilences
  BY DEF WinTimerInv, Quietness, Silent, StopSilences
<1> QED BY <1>1, InvHolds, PTL

\* The events of a patient user's timer go where the start said, with its data.
THEOREM EventBelongsToStart == ASSUME Patient PROVE Spec => PostIsOfStart
<1>1. WinTimerInv /\ Matching /\ [Next]_vars => Matching'
  BY MatchingStep DEF WinTimerInv
<1>2. ASSUME WinTimerInv, Matching, [Next]_vars, thread = "post", thread' = "wait"
      PROVE  sent' = [kq |-> start.kq, data |-> start.data]
  <2>1. post = start.kq /\ data = start.data
    BY <1>2 DEF Matching, Silent
  <2>2. PostEvent
    <3>1. CASE ThreadStep
      BY <3>1, <1>2 DEF ThreadStep, WakeApc, WakeEvt, Fire, ReadCtl, ExecuteStart, ExecuteStop, Report, SignalResult
    <3>2. CASE UserStep /\ ~CreateThread
      BY <3>2, <1>2 DEF UserStep, CreateTimer, CreateEvt, CreateEvtResult, CloseTimer, CloseCtl, CloseSignal, Join,
        CloseRest, StartData, StartPeriod, SetCtl, Signal, Await, Collect, thdVars
    <3>3. CASE UserCall \/ Tick \/ Expire
      BY <3>3, <1>2 DEF UserCall, Create, Close, Stop, StartQueue, Tick, Expire, thdVars
    <3>4. CASE CreateThread
      BY <3>4, <1>2 DEF CreateThread, CreateStep, WinTimerInv, Lifetime, Gone
    <3>5. CASE UNCHANGED vars
      BY <3>5, <1>2 DEF vars, thdVars
    <3> QED BY <3>1, <3>2, <3>3, <3>4, <3>5, <1>2 DEF Next
  <2> QED BY <2>1, <2>2 DEF PostEvent
<1>3. WinTimerInv /\ Matching /\ [Next]_vars =>
        [thread = "post" /\ thread' = "wait" => sent' = [kq |-> start.kq, data |-> start.data]]_vars
  BY <1>2
<1>4. Spec => []Matching
  BY <1>1, InitInv, InvHolds, PTL DEF Spec
<1> QED BY <1>3, <1>4, InvHolds, PTL DEF Spec, PostIsOfStart

\* Whatever the periods: a timer's repetition, its first due time and its single
\* event are as its start said.
LEMMA InTimeHolds == Spec => []InTime
<1>1. TypeOK /\ InTime /\ [Next]_vars => InTime'
  BY InTimeStep
<1> QED BY <1>1, InitInv, TypeCorrect, PTL DEF Spec

\* Whatever periods the user gives, one-shot ones among them, a timer that was
\* given a period is never due before the period has passed.
THEOREM PeriodIsKept == Spec => []NeverEarly
<1>1. TypeOK /\ InTime => NeverEarly
  <2> SUFFICES ASSUME TypeOK, InTime, armed, due = 0, start.period >= 0
               PROVE  age >= start.period
    BY DEF NeverEarly
  <2>1. age \in Int /\ start.period \in Periods \cup {0}
    BY DEF TypeOK
  <2>2. \A p \in Periods \cup {0} : p \in Int
    BY WinTimerAssumption
  <2>3. start.period \in Int
    BY <2>1, <2>2
  <2> QED BY <2>1, <2>3 DEF InTime
<1> QED BY <1>1, InTimeHolds, TypeCorrect, PTL

\* A timer is silent after a stop and not early before one, and a one-shot timer
\* sends one event, whatever periods the user gives and whether he is patient.
THEOREM FiresOnlyInTime == Spec => []FiresInTime
<1>1. InTime => FiresOnce
  BY DEF InTime
<1>2. StopSilences /\ NeverEarly /\ FiresOnce => FiresInTime
  BY DEF FiresInTime
<1> QED BY <1>1, <1>2, InTimeHolds, StopIsFinal, PeriodIsKept, PTL
=============================================================================
