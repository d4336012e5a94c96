---------------------------- MODULE WorkerProofs ----------------------------
(***************************************************************************)
(* Proofs about Worker, for any tasks, promises, timers, listeners, fetches *)
(* in flight and faults.  Each lemma shows that every step preserves one    *)
(* part of the invariant, action by action; the theorems at the end combine *)
(* them.                                                                    *)
(***************************************************************************)
EXTENDS Worker, TimersProofs

\* A task whose drain is over has no turn on the stack and no timer armed.
Quiet ==
  \A t \in Tasks : drain[t] = "done" =>
    /\ actor # t
    /\ \A id \in Ids : timers[id] # "absent" => owner[id] # t

WorkerInv == TimersInv /\ WorkerTypeOK /\ ControlInv /\ FetchDrainsItsOwnWork

\* Every step of the worker is a step of its timers, or leaves them alone:
\* callbacks are called only when none is on the stack.
LEMMA WorkerStepsTimers ==
  TurnsAgree /\ [Next]_vars => [TimersNext]_timerVars
<1> SUFFICES ASSUME TurnsAgree, [Next]_vars PROVE [TimersNext]_timerVars
  OBVIOUS
<1> USE DEF timerVars, ownVars, turnVars, dispatchVars, workVars, drainVars, hostVars,
    TurnsAgree, TimersNext
<1>1. CASE ScriptEffect
  <2>1. ASSUME NEW kind \in Kinds, SetTimer(kind) PROVE [TimersNext]_timerVars
    BY <2>1 DEF SetTimer, Schedule
  <2>2. ASSUME NEW id \in Ids, ClearOneTimer(id) PROVE [TimersNext]_timerVars
    BY <2>2 DEF ClearOneTimer, ClearTimer
  <2>3. ASSUME StartOp PROVE [TimersNext]_timerVars
    BY <2>3 DEF StartOp
  <2>4. ASSUME NEW type \in EventTypes, AddListener(type) PROVE [TimersNext]_timerVars
    BY <2>4 DEF AddListener
  <2>5. ASSUME NEW p \in Works, WaitUntil(p) PROVE [TimersNext]_timerVars
    BY <2>5 DEF WaitUntil
  <2>6. ASSUME NEW p \in Works, NEW s \in Settlements, SettleWork(p,
      s) PROVE [TimersNext]_timerVars
    BY <2>6 DEF SettleWork, Settlements
  <2>7. ASSUME NEW v \in Responses \cup {"pending"}, RespondWith(v) PROVE [TimersNext]_timerVars
    BY <2>7 DEF RespondWith, Responses
  <2>8. ASSUME NEW t \in FetchTasks, NEW v \in Responses, SettleResponse(t,
      v) PROVE [TimersNext]_timerVars
    BY <2>8 DEF SettleResponse, Responses
  <2>9. ASSUME NEW t \in Tasks, NEW s \in {"call"} \cup Rejections, SettleHandler(t,
      s) PROVE [TimersNext]_timerVars
    BY <2>9 DEF SettleHandler, Rejections
  <2> QED
    BY <1>1, <2>1, <2>2, <2>3, <2>4, <2>5, <2>6, <2>7, <2>8, <2>9 DEF ScriptEffect
<1>2. CASE TurnEnds
  <2>1. ASSUME NEW o \in {"idle", "failed"}, EvalEnds(o) PROVE [TimersNext]_timerVars
    BY <2>1 DEF EvalEnds, NoTurn
  <2>2. ASSUME NEW o \in {"call", "await"} \cup Rejections,
      HandlerEnds(o) PROVE [TimersNext]_timerVars
    BY <2>2 DEF HandlerEnds, NoTurn, Rejections
  <2>3. ASSUME TimerEnds PROVE [TimersNext]_timerVars
    BY <2>3 DEF TimerEnds, CallbackReturns, CallbackThrowsUnprintable, NoTurn
  <2>4. ASSUME ReactionEnds PROVE [TimersNext]_timerVars
    BY <2>4 DEF ReactionEnds, NoTurn
  <2> QED
    BY <1>2, <2>1, <2>2, <2>3, <2>4 DEF TurnEnds
<1>3. CASE ExecutorStep
  <2>1. ASSUME NEW id \in Ids, TimerFires(id) PROVE [TimersNext]_timerVars
    BY <2>1 DEF TimerFires, Polled, WakeFires, BeginTurn
  <2>2. ASSUME NEW id \in Ids, TimerFindsNothing(id) PROVE [TimersNext]_timerVars
    BY <2>2 DEF TimerFindsNothing, Polled, WakeCancelled
  <2>3. ASSUME NEW o \in Owners, OpDone(o) PROVE [TimersNext]_timerVars
    BY <2>3 DEF OpDone, Polled, BeginTurn
  <2>4. ASSUME NEW t \in Tasks, CallHandler(t) PROVE [TimersNext]_timerVars
    BY <2>4 DEF CallHandler, Polled, BeginTurn, EventType, EventTypes
  <2>5. ASSUME NEW t \in Tasks, WaitAllSettled(t) PROVE [TimersNext]_timerVars
    BY <2>5 DEF WaitAllSettled, Polled
  <2>6. ASSUME NEW t \in Tasks, DrainSettled(t) PROVE [TimersNext]_timerVars
    BY <2>6 DEF DrainSettled, Polled, CancelTimers
  <2>7. ASSUME NEW t \in Tasks, DrainThrows(t) PROVE [TimersNext]_timerVars
    BY <2>7 DEF DrainThrows, Polled
  <2>8. ASSUME NEW t \in FetchTasks, FetchHandlersDone(t) PROVE [TimersNext]_timerVars
    BY <2>8 DEF FetchHandlersDone, Polled
  <2>9. ASSUME NEW t \in FetchTasks, ResponseSettled(t) PROVE [TimersNext]_timerVars
    BY <2>9 DEF ResponseSettled, Polled
  <2>10. ASSUME NEW t \in ScheduledTasks, ScheduledHandlersDone(t) PROVE [TimersNext]_timerVars
    BY <2>10 DEF ScheduledHandlersDone, Polled
  <2> QED
    BY <1>3, <2>1, <2>2, <2>3, <2>4, <2>5, <2>6, <2>7, <2>8, <2>9, <2>10 DEF ExecutorStep
<1>4. CASE RustStep
  BY <1>4 DEF RustStep, FetchAnswered, Polled, AnswerThenDrain, DrainSnapshot, CollectBegins,
      Collected, FetchFails, ExecEnds, ScheduledAnswered, ScheduledFails, ExecReturns
<1>5. CASE HostStep
  BY <1>5 DEF HostStep, Exec, Submit, PendingWorkAfterDispatch, BeginTurn, EventType,
      EventTypes, ExecAborted, ExecInvalid, HostDrop, Polled, ExecEnds, Abort
<1>6. CASE UNCHANGED vars
  BY <1>6 DEF vars
<1> QED
  BY <1>1, <1>2, <1>3, <1>4, <1>5, <1>6 DEF Next

\* Types of what scripts own: timers' owners, promises, waitUntil lists.
LEMMA ScriptTypeStep ==
  WorkerTypeOK /\ TurnsAgree /\ [Next]_vars => ScriptTypeOK'
<1> SUFFICES ASSUME WorkerTypeOK, TurnsAgree, [Next]_vars PROVE ScriptTypeOK'
  OBVIOUS
<1> USE TasksAssumption, BoundsAssumption
    DEF WorkerTypeOK, ScriptTypeOK, DispatchTypeOK, HostTypeOK, Tasks, Owners, EventTypes,
        timerVars, ownVars, turnVars, dispatchVars, workVars, drainVars, hostVars, TurnsAgree
<1>1. CASE ScriptEffect
  <2>1. ASSUME NEW kind \in Kinds, SetTimer(kind) PROVE ScriptTypeOK'
    BY <2>1 DEF SetTimer, Schedule
  <2>2. ASSUME NEW id \in Ids, ClearOneTimer(id) PROVE ScriptTypeOK'
    BY <2>2 DEF ClearOneTimer, ClearTimer
  <2>3. ASSUME StartOp PROVE ScriptTypeOK'
    BY <2>3 DEF StartOp
  <2>4. ASSUME NEW type \in EventTypes, AddListener(type) PROVE ScriptTypeOK'
    BY <2>4 DEF AddListener
  <2>5. ASSUME NEW p \in Works, WaitUntil(p) PROVE ScriptTypeOK'
    BY <2>5 DEF WaitUntil
  <2>6. ASSUME NEW p \in Works, NEW s \in Settlements, SettleWork(p, s) PROVE ScriptTypeOK'
    BY <2>6 DEF SettleWork, Settlements
  <2>7. ASSUME NEW v \in Responses \cup {"pending"}, RespondWith(v) PROVE ScriptTypeOK'
    BY <2>7 DEF RespondWith, Responses
  <2>8. ASSUME NEW t \in FetchTasks, NEW v \in Responses, SettleResponse(t,
      v) PROVE ScriptTypeOK'
    BY <2>8 DEF SettleResponse, Responses
  <2>9. ASSUME NEW t \in Tasks, NEW s \in {"call"} \cup Rejections, SettleHandler(t,
      s) PROVE ScriptTypeOK'
    BY <2>9 DEF SettleHandler, Rejections
  <2> QED
    BY <1>1, <2>1, <2>2, <2>3, <2>4, <2>5, <2>6, <2>7, <2>8, <2>9 DEF ScriptEffect
<1>2. CASE TurnEnds
  <2>1. ASSUME NEW o \in {"idle", "failed"}, EvalEnds(o) PROVE ScriptTypeOK'
    BY <2>1 DEF EvalEnds, NoTurn
  <2>2. ASSUME NEW o \in {"call", "await"} \cup Rejections, HandlerEnds(o) PROVE ScriptTypeOK'
    BY <2>2 DEF HandlerEnds, NoTurn, Rejections
  <2>3. ASSUME TimerEnds PROVE ScriptTypeOK'
    BY <2>3 DEF TimerEnds, CallbackReturns, CallbackThrowsUnprintable, NoTurn
  <2>4. ASSUME ReactionEnds PROVE ScriptTypeOK'
    BY <2>4 DEF ReactionEnds, NoTurn
  <2> QED
    BY <1>2, <2>1, <2>2, <2>3, <2>4 DEF TurnEnds
<1>3. CASE ExecutorStep
  <2>1. ASSUME NEW id \in Ids, TimerFires(id) PROVE ScriptTypeOK'
    BY <2>1 DEF TimerFires, Polled, WakeFires, BeginTurn
  <2>2. ASSUME NEW id \in Ids, TimerFindsNothing(id) PROVE ScriptTypeOK'
    BY <2>2 DEF TimerFindsNothing, Polled, WakeCancelled
  <2>3. ASSUME NEW o \in Owners, OpDone(o) PROVE ScriptTypeOK'
    BY <2>3 DEF OpDone, Polled, BeginTurn
  <2>4. ASSUME NEW t \in Tasks, CallHandler(t) PROVE ScriptTypeOK'
    BY <2>4 DEF CallHandler, Polled, BeginTurn, EventType, EventTypes
  <2>5. ASSUME NEW t \in Tasks, WaitAllSettled(t) PROVE ScriptTypeOK'
    BY <2>5 DEF WaitAllSettled, Polled
  <2>6. ASSUME NEW t \in Tasks, DrainSettled(t) PROVE ScriptTypeOK'
    BY <2>6 DEF DrainSettled, Polled, CancelTimers
  <2>7. ASSUME NEW t \in Tasks, DrainThrows(t) PROVE ScriptTypeOK'
    BY <2>7 DEF DrainThrows, Polled
  <2>8. ASSUME NEW t \in FetchTasks, FetchHandlersDone(t) PROVE ScriptTypeOK'
    BY <2>8 DEF FetchHandlersDone, Polled
  <2>9. ASSUME NEW t \in FetchTasks, ResponseSettled(t) PROVE ScriptTypeOK'
    BY <2>9 DEF ResponseSettled, Polled
  <2>10. ASSUME NEW t \in ScheduledTasks, ScheduledHandlersDone(t) PROVE ScriptTypeOK'
    BY <2>10 DEF ScheduledHandlersDone, Polled
  <2> QED
    BY <1>3, <2>1, <2>2, <2>3, <2>4, <2>5, <2>6, <2>7, <2>8, <2>9, <2>10 DEF ExecutorStep
<1>4. CASE RustStep
  BY <1>4 DEF RustStep, FetchAnswered, Polled, AnswerThenDrain, DrainSnapshot, CollectBegins,
      Collected, FetchFails, ExecEnds, ScheduledAnswered, ScheduledFails, ExecReturns
<1>5. CASE HostStep
  <2>1. ASSUME NEW t \in Tasks, Exec(t) PROVE ScriptTypeOK'
    BY <2>1 DEF Exec, Submit, PendingWorkAfterDispatch, BeginTurn, EventType, EventTypes
  <2>2. ASSUME NEW t \in Tasks, ExecAborted(t) PROVE ScriptTypeOK'
    BY <2>2 DEF ExecAborted, Submit
  <2>3. ASSUME NEW t \in Tasks, ExecInvalid(t) PROVE ScriptTypeOK'
    BY <2>3 DEF ExecInvalid, Submit
  <2>4. ASSUME NEW t \in Tasks, HostDrop(t) PROVE ScriptTypeOK'
    BY <2>4 DEF HostDrop, Polled, ExecEnds
  <2>5. ASSUME Abort PROVE ScriptTypeOK'
    BY <2>5 DEF Abort
  <2> QED
    BY <1>5, <2>1, <2>2, <2>3, <2>4, <2>5 DEF HostStep
<1>6. CASE UNCHANGED vars
  BY <1>6 DEF vars
<1> QED
  BY <1>1, <1>2, <1>3, <1>4, <1>5, <1>6 DEF Next

\* Types of the dispatch loops; no loop calls a handler past the last.
LEMMA DispatchTypeStep ==
  WorkerTypeOK /\ TurnsAgree /\ [Next]_vars => DispatchTypeOK'
<1> SUFFICES ASSUME WorkerTypeOK, TurnsAgree, [Next]_vars PROVE DispatchTypeOK'
  OBVIOUS
<1> USE TasksAssumption, BoundsAssumption
    DEF WorkerTypeOK, ScriptTypeOK, DispatchTypeOK, HostTypeOK, Tasks, Owners, EventTypes,
        timerVars, ownVars, turnVars, dispatchVars, workVars, drainVars, hostVars, TurnsAgree
<1>1. CASE ScriptEffect
  <2>1. ASSUME NEW kind \in Kinds, SetTimer(kind) PROVE DispatchTypeOK'
    BY <2>1 DEF SetTimer, Schedule
  <2>2. ASSUME NEW id \in Ids, ClearOneTimer(id) PROVE DispatchTypeOK'
    BY <2>2 DEF ClearOneTimer, ClearTimer
  <2>3. ASSUME StartOp PROVE DispatchTypeOK'
    BY <2>3 DEF StartOp
  <2>4. ASSUME NEW type \in EventTypes, AddListener(type) PROVE DispatchTypeOK'
    BY <2>4 DEF AddListener
  <2>5. ASSUME NEW p \in Works, WaitUntil(p) PROVE DispatchTypeOK'
    BY <2>5 DEF WaitUntil
  <2>6. ASSUME NEW p \in Works, NEW s \in Settlements, SettleWork(p, s) PROVE DispatchTypeOK'
    BY <2>6 DEF SettleWork, Settlements
  <2>7. ASSUME NEW v \in Responses \cup {"pending"}, RespondWith(v) PROVE DispatchTypeOK'
    BY <2>7 DEF RespondWith, Responses
  <2>8. ASSUME NEW t \in FetchTasks, NEW v \in Responses, SettleResponse(t,
      v) PROVE DispatchTypeOK'
    BY <2>8 DEF SettleResponse, Responses
  <2>9. ASSUME NEW t \in Tasks, NEW s \in {"call"} \cup Rejections, SettleHandler(t,
      s) PROVE DispatchTypeOK'
    BY <2>9 DEF SettleHandler, Rejections
  <2> QED
    BY <1>1, <2>1, <2>2, <2>3, <2>4, <2>5, <2>6, <2>7, <2>8, <2>9 DEF ScriptEffect
<1>2. CASE TurnEnds
  <2>1. ASSUME NEW o \in {"idle", "failed"}, EvalEnds(o) PROVE DispatchTypeOK'
    BY <2>1 DEF EvalEnds, NoTurn
  <2>2. ASSUME NEW o \in {"call", "await"} \cup Rejections, HandlerEnds(o) PROVE DispatchTypeOK'
    BY <2>2 DEF HandlerEnds, NoTurn, Rejections
  <2>3. ASSUME TimerEnds PROVE DispatchTypeOK'
    BY <2>3 DEF TimerEnds, CallbackReturns, CallbackThrowsUnprintable, NoTurn
  <2>4. ASSUME ReactionEnds PROVE DispatchTypeOK'
    BY <2>4 DEF ReactionEnds, NoTurn
  <2> QED
    BY <1>2, <2>1, <2>2, <2>3, <2>4 DEF TurnEnds
<1>3. CASE ExecutorStep
  <2>1. ASSUME NEW id \in Ids, TimerFires(id) PROVE DispatchTypeOK'
    BY <2>1 DEF TimerFires, Polled, WakeFires, BeginTurn
  <2>2. ASSUME NEW id \in Ids, TimerFindsNothing(id) PROVE DispatchTypeOK'
    BY <2>2 DEF TimerFindsNothing, Polled, WakeCancelled
  <2>3. ASSUME NEW o \in Owners, OpDone(o) PROVE DispatchTypeOK'
    BY <2>3 DEF OpDone, Polled, BeginTurn
  <2>4. ASSUME NEW t \in Tasks, CallHandler(t) PROVE DispatchTypeOK'
    BY <2>4 DEF CallHandler, Polled, BeginTurn, EventType, EventTypes
  <2>5. ASSUME NEW t \in Tasks, WaitAllSettled(t) PROVE DispatchTypeOK'
    <3>1. \E o \in {"resolved", "rejected"} : dispatch' = [dispatch EXCEPT ![t] = o]
      BY <2>5 DEF WaitAllSettled
    <3>2. UNCHANGED <<listeners, called, response>>
      BY <2>5 DEF WaitAllSettled
    <3> QED
      BY <3>1, <3>2
  <2>6. ASSUME NEW t \in Tasks, DrainSettled(t) PROVE DispatchTypeOK'
    BY <2>6 DEF DrainSettled, Polled, CancelTimers
  <2>7. ASSUME NEW t \in Tasks, DrainThrows(t) PROVE DispatchTypeOK'
    BY <2>7 DEF DrainThrows, Polled
  <2>8. ASSUME NEW t \in FetchTasks, FetchHandlersDone(t) PROVE DispatchTypeOK'
    BY <2>8 DEF FetchHandlersDone, Polled
  <2>9. ASSUME NEW t \in FetchTasks, ResponseSettled(t) PROVE DispatchTypeOK'
    BY <2>9 DEF ResponseSettled, Polled
  <2>10. ASSUME NEW t \in ScheduledTasks, ScheduledHandlersDone(t) PROVE DispatchTypeOK'
    BY <2>10 DEF ScheduledHandlersDone, Polled
  <2> QED
    BY <1>3, <2>1, <2>2, <2>3, <2>4, <2>5, <2>6, <2>7, <2>8, <2>9, <2>10 DEF ExecutorStep
<1>4. CASE RustStep
  BY <1>4 DEF RustStep, FetchAnswered, Polled, AnswerThenDrain, DrainSnapshot, CollectBegins,
      Collected, FetchFails, ExecEnds, ScheduledAnswered, ScheduledFails, ExecReturns
<1>5. CASE HostStep
  <2>1. ASSUME NEW t \in Tasks, Exec(t) PROVE DispatchTypeOK'
    <3>1. CASE listeners[EventType(t)] > 0
      BY <2>1, <3>1 DEF Exec, EventType
    <3>2. CASE listeners[EventType(t)] = 0
      BY <2>1, <3>2 DEF Exec, EventType
    <3> QED
      BY <3>1, <3>2 DEF EventType
  <2>2. ASSUME NEW t \in Tasks, ExecAborted(t) PROVE DispatchTypeOK'
    BY <2>2 DEF ExecAborted, Submit
  <2>3. ASSUME NEW t \in Tasks, ExecInvalid(t) PROVE DispatchTypeOK'
    BY <2>3 DEF ExecInvalid, Submit
  <2>4. ASSUME NEW t \in Tasks, HostDrop(t) PROVE DispatchTypeOK'
    BY <2>4 DEF HostDrop, Polled, ExecEnds
  <2>5. ASSUME Abort PROVE DispatchTypeOK'
    BY <2>5 DEF Abort
  <2> QED
    BY <1>5, <2>1, <2>2, <2>3, <2>4, <2>5 DEF HostStep
<1>6. CASE UNCHANGED vars
  BY <1>6 DEF vars
<1> QED
  BY <1>1, <1>2, <1>3, <1>4, <1>5, <1>6 DEF Next

\* Types of what exec keeps.
LEMMA HostTypeStep ==
  WorkerTypeOK /\ TurnsAgree /\ [Next]_vars => HostTypeOK'
<1> SUFFICES ASSUME WorkerTypeOK, TurnsAgree, [Next]_vars PROVE HostTypeOK'
  OBVIOUS
<1> USE TasksAssumption, BoundsAssumption
    DEF WorkerTypeOK, ScriptTypeOK, DispatchTypeOK, HostTypeOK, Tasks, Owners, EventTypes,
        timerVars, ownVars, turnVars, dispatchVars, workVars, drainVars, hostVars
<1>1. CASE ScriptEffect
  BY <1>1 DEF ScriptEffect, SetTimer, Schedule, ClearOneTimer, ClearTimer, StartOp, AddListener,
      WaitUntil, SettleWork, Settlements, RespondWith, Responses, SettleResponse, SettleHandler,
      Rejections
<1>2. CASE TurnEnds
  BY <1>2 DEF TurnEnds, EvalEnds, NoTurn, HandlerEnds, Rejections, TimerEnds, CallbackReturns,
      CallbackThrowsUnprintable, ReactionEnds
<1>3. CASE ExecutorStep
  <2>1. ASSUME NEW id \in Ids, TimerFires(id) PROVE HostTypeOK'
    BY <2>1 DEF TimerFires, Polled, WakeFires, BeginTurn
  <2>2. ASSUME NEW id \in Ids, TimerFindsNothing(id) PROVE HostTypeOK'
    BY <2>2 DEF TimerFindsNothing, Polled, WakeCancelled
  <2>3. ASSUME NEW o \in Owners, OpDone(o) PROVE HostTypeOK'
    BY <2>3 DEF OpDone, Polled, BeginTurn
  <2>4. ASSUME NEW t \in Tasks, CallHandler(t) PROVE HostTypeOK'
    BY <2>4 DEF CallHandler, Polled, BeginTurn, EventType, EventTypes
  <2>5. ASSUME NEW t \in Tasks, WaitAllSettled(t) PROVE HostTypeOK'
    BY <2>5 DEF WaitAllSettled, Polled
  <2>6. ASSUME NEW t \in Tasks, DrainSettled(t) PROVE HostTypeOK'
    BY <2>6 DEF DrainSettled, Polled, CancelTimers
  <2>7. ASSUME NEW t \in Tasks, DrainThrows(t) PROVE HostTypeOK'
    BY <2>7 DEF DrainThrows, Polled
  <2>8. ASSUME NEW t \in FetchTasks, FetchHandlersDone(t) PROVE HostTypeOK'
    BY <2>8 DEF FetchHandlersDone, Polled
  <2>9. ASSUME NEW t \in FetchTasks, ResponseSettled(t) PROVE HostTypeOK'
    BY <2>9 DEF ResponseSettled, Polled
  <2>10. ASSUME NEW t \in ScheduledTasks, ScheduledHandlersDone(t) PROVE HostTypeOK'
    BY <2>10 DEF ScheduledHandlersDone, Polled
  <2> QED
    BY <1>3, <2>1, <2>2, <2>3, <2>4, <2>5, <2>6, <2>7, <2>8, <2>9, <2>10 DEF ExecutorStep
<1>4. CASE RustStep
  <2>1. ASSUME NEW t \in FetchTasks, FetchAnswered(t) PROVE HostTypeOK'
    BY <2>1 DEF FetchAnswered, Polled, AnswerThenDrain, DrainSnapshot
  <2>2. ASSUME NEW t \in FetchTasks, CollectBegins(t) PROVE HostTypeOK'
    BY <2>2 DEF CollectBegins, Polled
  <2>3. ASSUME NEW t \in FetchTasks, Collected(t) PROVE HostTypeOK'
    BY <2>3 DEF Collected, Polled, AnswerThenDrain, DrainSnapshot
  <2>4. ASSUME NEW t \in FetchTasks, FetchFails(t) PROVE HostTypeOK'
    BY <2>4 DEF FetchFails, Polled, ExecEnds
  <2>5. ASSUME NEW t \in ScheduledTasks, ScheduledAnswered(t) PROVE HostTypeOK'
    BY <2>5 DEF ScheduledAnswered, Polled, AnswerThenDrain, DrainSnapshot
  <2>6. ASSUME NEW t \in ScheduledTasks, ScheduledFails(t) PROVE HostTypeOK'
    BY <2>6 DEF ScheduledFails, Polled, ExecEnds
  <2>7. ASSUME NEW t \in Tasks, ExecReturns(t) PROVE HostTypeOK'
    BY <2>7 DEF ExecReturns, Polled, ExecEnds
  <2> QED
    BY <1>4, <2>1, <2>2, <2>3, <2>4, <2>5, <2>6, <2>7 DEF RustStep
<1>5. CASE HostStep
  <2>1. ASSUME NEW t \in Tasks, Exec(t) PROVE HostTypeOK'
    BY <2>1 DEF Exec, Submit, PendingWorkAfterDispatch, BeginTurn, EventType, EventTypes
  <2>2. ASSUME NEW t \in Tasks, ExecAborted(t) PROVE HostTypeOK'
    BY <2>2 DEF ExecAborted, Submit
  <2>3. ASSUME NEW t \in Tasks, ExecInvalid(t) PROVE HostTypeOK'
    BY <2>3 DEF ExecInvalid, Submit
  <2>4. ASSUME NEW t \in Tasks, HostDrop(t) PROVE HostTypeOK'
    BY <2>4 DEF HostDrop, Polled, ExecEnds
  <2>5. ASSUME Abort PROVE HostTypeOK'
    BY <2>5 DEF Abort
  <2> QED
    BY <1>5, <2>1, <2>2, <2>3, <2>4, <2>5 DEF HostStep
<1>6. CASE UNCHANGED vars
  BY <1>6 DEF vars
<1> QED
  BY <1>1, <1>2, <1>3, <1>4, <1>5, <1>6 DEF Next

\* One turn at a time: no action starts a turn while another is on the stack.
LEMMA TurnsStep ==
  WorkerTypeOK /\ TurnsAgree /\ TimersInv /\ TimersOwned /\ [Next]_vars => TurnsAgree'
<1> SUFFICES ASSUME WorkerTypeOK, TurnsAgree, TimersInv, TimersOwned,
    [Next]_vars PROVE TurnsAgree'
  OBVIOUS
<1> USE TasksAssumption
    DEF WorkerTypeOK, TimersTypeOK, ScriptTypeOK, DispatchTypeOK, HostTypeOK, Tasks, Owners,
        Ids, NoTimer, TurnsAgree,
        timerVars, ownVars, turnVars, dispatchVars, workVars, drainVars, hostVars
<1>1. CASE ScriptEffect
  BY <1>1 DEF ScriptEffect, SetTimer, Schedule, ClearOneTimer, ClearTimer, StartOp, AddListener,
      WaitUntil, SettleWork, Settlements, RespondWith, Responses, SettleResponse, SettleHandler,
      Rejections
<1>2. CASE TurnEnds
  <2>1. ASSUME NEW o \in {"idle", "failed"}, EvalEnds(o) PROVE TurnsAgree'
    BY <2>1 DEF EvalEnds, NoTurn
  <2>2. ASSUME NEW o \in {"call", "await"} \cup Rejections, HandlerEnds(o) PROVE TurnsAgree'
    BY <2>2 DEF HandlerEnds, NoTurn, Rejections
  <2>3. ASSUME TimerEnds PROVE TurnsAgree'
    BY <2>3 DEF TimerEnds, CallbackReturns, CallbackThrowsUnprintable, NoTurn
  <2>4. ASSUME ReactionEnds PROVE TurnsAgree'
    BY <2>4 DEF ReactionEnds, NoTurn
  <2> QED
    BY <1>2, <2>1, <2>2, <2>3, <2>4 DEF TurnEnds
<1>3. CASE ExecutorStep
  <2>1. ASSUME NEW id \in Ids, TimerFires(id) PROVE TurnsAgree'
    <3>1. owner[id] \in Owners
      BY <2>1, MaxTimersAssumption DEF TimerFires, WakeFires, TimersInv, FreshIdsUnused,
          TimersOwned
    <3> QED
      BY <2>1, <3>1 DEF TimerFires, Polled, WakeFires, BeginTurn
  <2>2. ASSUME NEW id \in Ids, TimerFindsNothing(id) PROVE TurnsAgree'
    BY <2>2 DEF TimerFindsNothing, Polled, WakeCancelled
  <2>3. ASSUME NEW o \in Owners, OpDone(o) PROVE TurnsAgree'
    BY <2>3 DEF OpDone, Polled, BeginTurn
  <2>4. ASSUME NEW t \in Tasks, CallHandler(t) PROVE TurnsAgree'
    BY <2>4 DEF CallHandler, Polled, BeginTurn, EventType, EventTypes
  <2>5. ASSUME NEW t \in Tasks, WaitAllSettled(t) PROVE TurnsAgree'
    BY <2>5 DEF WaitAllSettled, Polled
  <2>6. ASSUME NEW t \in Tasks, DrainSettled(t) PROVE TurnsAgree'
    BY <2>6 DEF DrainSettled, Polled, CancelTimers
  <2>7. ASSUME NEW t \in Tasks, DrainThrows(t) PROVE TurnsAgree'
    BY <2>7 DEF DrainThrows, Polled
  <2>8. ASSUME NEW t \in FetchTasks, FetchHandlersDone(t) PROVE TurnsAgree'
    BY <2>8 DEF FetchHandlersDone, Polled
  <2>9. ASSUME NEW t \in FetchTasks, ResponseSettled(t) PROVE TurnsAgree'
    BY <2>9 DEF ResponseSettled, Polled
  <2>10. ASSUME NEW t \in ScheduledTasks, ScheduledHandlersDone(t) PROVE TurnsAgree'
    BY <2>10 DEF ScheduledHandlersDone, Polled
  <2> QED
    BY <1>3, <2>1, <2>2, <2>3, <2>4, <2>5, <2>6, <2>7, <2>8, <2>9, <2>10 DEF ExecutorStep
<1>4. CASE RustStep
  <2>1. ASSUME NEW t \in FetchTasks, FetchAnswered(t) PROVE TurnsAgree'
    BY <2>1 DEF FetchAnswered, Polled, AnswerThenDrain, DrainSnapshot
  <2>2. ASSUME NEW t \in FetchTasks, CollectBegins(t) PROVE TurnsAgree'
    BY <2>2 DEF CollectBegins, Polled
  <2>3. ASSUME NEW t \in FetchTasks, Collected(t) PROVE TurnsAgree'
    BY <2>3 DEF Collected, Polled, AnswerThenDrain, DrainSnapshot
  <2>4. ASSUME NEW t \in FetchTasks, FetchFails(t) PROVE TurnsAgree'
    BY <2>4 DEF FetchFails, Polled, ExecEnds
  <2>5. ASSUME NEW t \in ScheduledTasks, ScheduledAnswered(t) PROVE TurnsAgree'
    BY <2>5 DEF ScheduledAnswered, Polled, AnswerThenDrain, DrainSnapshot
  <2>6. ASSUME NEW t \in ScheduledTasks, ScheduledFails(t) PROVE TurnsAgree'
    BY <2>6 DEF ScheduledFails, Polled, ExecEnds
  <2>7. ASSUME NEW t \in Tasks, ExecReturns(t) PROVE TurnsAgree'
    BY <2>7 DEF ExecReturns, Polled, ExecEnds
  <2> QED
    BY <1>4, <2>1, <2>2, <2>3, <2>4, <2>5, <2>6, <2>7 DEF RustStep
<1>5. CASE HostStep
  <2>1. ASSUME NEW t \in Tasks, Exec(t) PROVE TurnsAgree'
    BY <2>1 DEF Exec, Submit, PendingWorkAfterDispatch, BeginTurn, EventType, EventTypes
  <2>2. ASSUME NEW t \in Tasks, ExecAborted(t) PROVE TurnsAgree'
    BY <2>2 DEF ExecAborted, Submit
  <2>3. ASSUME NEW t \in Tasks, ExecInvalid(t) PROVE TurnsAgree'
    BY <2>3 DEF ExecInvalid, Submit
  <2>4. ASSUME NEW t \in Tasks, HostDrop(t) PROVE TurnsAgree'
    BY <2>4 DEF HostDrop, Polled, ExecEnds
  <2>5. ASSUME Abort PROVE TurnsAgree'
    BY <2>5 DEF Abort
  <2> QED
    BY <1>5, <2>1, <2>2, <2>3, <2>4, <2>5 DEF HostStep
<1>6. CASE UNCHANGED vars
  BY <1>6 DEF vars
<1> QED
  BY <1>1, <1>2, <1>3, <1>4, <1>5, <1>6 DEF Next

\* A timer is armed in a turn, and every turn has an owner.
LEMMA OwnersStep ==
  TimersTypeOK /\ WorkerTypeOK /\ TurnsAgree /\ TimersOwned /\ [Next]_vars => TimersOwned'
<1> SUFFICES ASSUME TimersTypeOK, WorkerTypeOK, TurnsAgree, TimersOwned,
    [Next]_vars PROVE TimersOwned'
  OBVIOUS
<1> USE TasksAssumption, MaxTimersAssumption
    DEF WorkerTypeOK, TimersTypeOK, ScriptTypeOK, Tasks, Owners, Ids, TurnsAgree, TimersOwned,
        timerVars, ownVars, turnVars, dispatchVars, workVars, drainVars, hostVars
<1>1. CASE ScriptEffect
  <2>1. ASSUME NEW kind \in Kinds, SetTimer(kind) PROVE TimersOwned'
    BY <2>1 DEF SetTimer, Schedule
  <2>2. ASSUME NEW id \in Ids, ClearOneTimer(id) PROVE TimersOwned'
    BY <2>2 DEF ClearOneTimer, ClearTimer
  <2>3. ASSUME StartOp PROVE TimersOwned'
    BY <2>3 DEF StartOp
  <2>4. ASSUME NEW type \in EventTypes, AddListener(type) PROVE TimersOwned'
    BY <2>4 DEF AddListener
  <2>5. ASSUME NEW p \in Works, WaitUntil(p) PROVE TimersOwned'
    BY <2>5 DEF WaitUntil
  <2>6. ASSUME NEW p \in Works, NEW s \in Settlements, SettleWork(p, s) PROVE TimersOwned'
    BY <2>6 DEF SettleWork, Settlements
  <2>7. ASSUME NEW v \in Responses \cup {"pending"}, RespondWith(v) PROVE TimersOwned'
    BY <2>7 DEF RespondWith, Responses
  <2>8. ASSUME NEW t \in FetchTasks, NEW v \in Responses, SettleResponse(t,
      v) PROVE TimersOwned'
    BY <2>8 DEF SettleResponse, Responses
  <2>9. ASSUME NEW t \in Tasks, NEW s \in {"call"} \cup Rejections, SettleHandler(t,
      s) PROVE TimersOwned'
    BY <2>9 DEF SettleHandler, Rejections
  <2> QED
    BY <1>1, <2>1, <2>2, <2>3, <2>4, <2>5, <2>6, <2>7, <2>8, <2>9 DEF ScriptEffect
<1>2. CASE TurnEnds
  BY <1>2 DEF TurnEnds, EvalEnds, NoTurn, HandlerEnds, Rejections, TimerEnds, CallbackReturns,
      CallbackThrowsUnprintable, ReactionEnds
<1>3. CASE ExecutorStep
  BY <1>3 DEF ExecutorStep, TimerFires, Polled, WakeFires, BeginTurn, TimerFindsNothing,
      WakeCancelled, OpDone, CallHandler, EventType, EventTypes, WaitAllSettled, DrainSettled,
      CancelTimers, DrainThrows, FetchHandlersDone, ResponseSettled, ScheduledHandlersDone
<1>4. CASE RustStep
  BY <1>4 DEF RustStep, FetchAnswered, Polled, AnswerThenDrain, DrainSnapshot, CollectBegins,
      Collected, FetchFails, ExecEnds, ScheduledAnswered, ScheduledFails, ExecReturns
<1>5. CASE HostStep
  BY <1>5 DEF HostStep, Exec, Submit, PendingWorkAfterDispatch, BeginTurn, EventType,
      EventTypes, ExecAborted, ExecInvalid, HostDrop, Polled, ExecEnds, Abort
<1>6. CASE UNCHANGED vars
  BY <1>6 DEF vars
<1> QED
  BY <1>1, <1>2, <1>3, <1>4, <1>5, <1>6 DEF Next

\* exec, the dispatch, the drain and the channel keep agreeing on each task.
LEMMA PhasesStep ==
  WorkerTypeOK /\ TurnsAgree /\ PhasesAgree /\ [Next]_vars => PhasesAgree'
<1> SUFFICES ASSUME WorkerTypeOK, TurnsAgree, PhasesAgree, [Next]_vars PROVE PhasesAgree'
  OBVIOUS
<1> USE TasksAssumption
    DEF WorkerTypeOK, DispatchTypeOK, HostTypeOK, Tasks, Owners, TurnsAgree, PhasesAgree,
        PhaseAgrees,
        timerVars, ownVars, turnVars, dispatchVars, workVars, drainVars, hostVars
<1>1. CASE ScriptEffect
  BY <1>1 DEF ScriptEffect, SetTimer, Schedule, ClearOneTimer, ClearTimer, StartOp, AddListener,
      WaitUntil, SettleWork, Settlements, RespondWith, Responses, SettleResponse, SettleHandler,
      Rejections
<1>2. CASE TurnEnds
  BY <1>2 DEF TurnEnds, EvalEnds, NoTurn, HandlerEnds, Rejections, TimerEnds, CallbackReturns,
      CallbackThrowsUnprintable, ReactionEnds
<1>3. CASE ExecutorStep
  <2>1. ASSUME NEW id \in Ids, TimerFires(id) PROVE PhasesAgree'
    BY <2>1 DEF TimerFires, Polled, WakeFires, BeginTurn
  <2>2. ASSUME NEW id \in Ids, TimerFindsNothing(id) PROVE PhasesAgree'
    BY <2>2 DEF TimerFindsNothing, Polled, WakeCancelled
  <2>3. ASSUME NEW o \in Owners, OpDone(o) PROVE PhasesAgree'
    BY <2>3 DEF OpDone, Polled, BeginTurn
  <2>4. ASSUME NEW t \in Tasks, CallHandler(t) PROVE PhasesAgree'
    BY <2>4 DEF CallHandler, Polled, BeginTurn, EventType, EventTypes
  <2>5. ASSUME NEW t \in Tasks, WaitAllSettled(t) PROVE PhasesAgree'
    BY <2>5 DEF WaitAllSettled, Polled
  <2>6. ASSUME NEW t \in Tasks, DrainSettled(t) PROVE PhasesAgree'
    BY <2>6 DEF DrainSettled, Polled, CancelTimers
  <2>7. ASSUME NEW t \in Tasks, DrainThrows(t) PROVE PhasesAgree'
    BY <2>7 DEF DrainThrows, Polled
  <2>8. ASSUME NEW t \in FetchTasks, FetchHandlersDone(t) PROVE PhasesAgree'
    BY <2>8 DEF FetchHandlersDone, Polled
  <2>9. ASSUME NEW t \in FetchTasks, ResponseSettled(t) PROVE PhasesAgree'
    BY <2>9 DEF ResponseSettled, Polled
  <2>10. ASSUME NEW t \in ScheduledTasks, ScheduledHandlersDone(t) PROVE PhasesAgree'
    BY <2>10 DEF ScheduledHandlersDone, Polled
  <2> QED
    BY <1>3, <2>1, <2>2, <2>3, <2>4, <2>5, <2>6, <2>7, <2>8, <2>9, <2>10 DEF ExecutorStep
<1>4. CASE RustStep
  <2>1. ASSUME NEW t \in FetchTasks, FetchAnswered(t) PROVE PhasesAgree'
    BY <2>1 DEF FetchAnswered, Polled, AnswerThenDrain, DrainSnapshot
  <2>2. ASSUME NEW t \in FetchTasks, CollectBegins(t) PROVE PhasesAgree'
    BY <2>2 DEF CollectBegins, Polled
  <2>3. ASSUME NEW t \in FetchTasks, Collected(t) PROVE PhasesAgree'
    BY <2>3 DEF Collected, Polled, AnswerThenDrain, DrainSnapshot
  <2>4. ASSUME NEW t \in FetchTasks, FetchFails(t) PROVE PhasesAgree'
    <3> SUFFICES ASSUME NEW u \in Tasks PROVE PhaseAgrees(u)'
      OBVIOUS
    <3>1. CASE u = t
      BY <2>4, <3>1 DEF FetchFails, Polled, ExecEnds
    <3>2. CASE u # t
      BY <2>4, <3>2 DEF FetchFails, Polled, ExecEnds
    <3> QED
      BY <3>1, <3>2
  <2>5. ASSUME NEW t \in ScheduledTasks, ScheduledAnswered(t) PROVE PhasesAgree'
    BY <2>5 DEF ScheduledAnswered, Polled, AnswerThenDrain, DrainSnapshot
  <2>6. ASSUME NEW t \in ScheduledTasks, ScheduledFails(t) PROVE PhasesAgree'
    <3> SUFFICES ASSUME NEW u \in Tasks PROVE PhaseAgrees(u)'
      OBVIOUS
    <3>1. CASE u = t
      BY <2>6, <3>1 DEF ScheduledFails, Polled, ExecEnds
    <3>2. CASE u # t
      BY <2>6, <3>2 DEF ScheduledFails, Polled, ExecEnds
    <3> QED
      BY <3>1, <3>2
  <2>7. ASSUME NEW t \in Tasks, ExecReturns(t) PROVE PhasesAgree'
    <3> SUFFICES ASSUME NEW u \in Tasks PROVE PhaseAgrees(u)'
      OBVIOUS
    <3>1. CASE u = t
      BY <2>7, <3>1 DEF ExecReturns, Polled, ExecEnds
    <3>2. CASE u # t
      BY <2>7, <3>2 DEF ExecReturns, Polled, ExecEnds
    <3> QED
      BY <3>1, <3>2
  <2> QED
    BY <1>4, <2>1, <2>2, <2>3, <2>4, <2>5, <2>6, <2>7 DEF RustStep
<1>5. CASE HostStep
  <2>1. ASSUME NEW t \in Tasks, Exec(t) PROVE PhasesAgree'
    <3> SUFFICES ASSUME NEW u \in Tasks PROVE PhaseAgrees(u)'
      OBVIOUS
    <3>1. CASE u = t
      BY <2>1, <3>1 DEF Exec, Submit, PendingWorkAfterDispatch, BeginTurn, EventType, EventTypes
    <3>2. CASE u # t
      BY <2>1, <3>2 DEF Exec, Submit, PendingWorkAfterDispatch, BeginTurn, EventType, EventTypes
    <3> QED
      BY <3>1, <3>2
  <2>2. ASSUME NEW t \in Tasks, ExecAborted(t) PROVE PhasesAgree'
    <3> SUFFICES ASSUME NEW u \in Tasks PROVE PhaseAgrees(u)'
      OBVIOUS
    <3>1. CASE u = t
      BY <2>2, <3>1 DEF ExecAborted, Submit
    <3>2. CASE u # t
      BY <2>2, <3>2 DEF ExecAborted, Submit
    <3> QED
      BY <3>1, <3>2
  <2>3. ASSUME NEW t \in Tasks, ExecInvalid(t) PROVE PhasesAgree'
    <3> SUFFICES ASSUME NEW u \in Tasks PROVE PhaseAgrees(u)'
      OBVIOUS
    <3>1. CASE u = t
      BY <2>3, <3>1 DEF ExecInvalid, Submit
    <3>2. CASE u # t
      BY <2>3, <3>2 DEF ExecInvalid, Submit
    <3> QED
      BY <3>1, <3>2
  <2>4. ASSUME NEW t \in Tasks, HostDrop(t) PROVE PhasesAgree'
    <3> SUFFICES ASSUME NEW u \in Tasks PROVE PhaseAgrees(u)'
      OBVIOUS
    <3>1. CASE u = t
      BY <2>4, <3>1 DEF HostDrop, Polled, ExecEnds
    <3>2. CASE u # t
      BY <2>4, <3>2 DEF HostDrop, Polled, ExecEnds
    <3> QED
      BY <3>1, <3>2
  <2>5. ASSUME Abort PROVE PhasesAgree'
    BY <2>5 DEF Abort
  <2> QED
    BY <1>5, <2>1, <2>2, <2>3, <2>4, <2>5 DEF HostStep
<1>6. CASE UNCHANGED vars
  BY <1>6 DEF vars
<1> QED
  BY <1>1, <1>2, <1>3, <1>4, <1>5, <1>6 DEF Next

\* __pendingWork stays the list of the fetch that is served, and what a drain
\* or a Promise.all saw settled stays settled.
LEMMA WorkStep ==
  WorkerTypeOK /\ TurnsAgree /\ PhasesAgree /\ WorkAgrees /\ [Next]_vars => WorkAgrees'
<1> SUFFICES ASSUME WorkerTypeOK, TurnsAgree, PhasesAgree, WorkAgrees,
    [Next]_vars PROVE WorkAgrees'
  OBVIOUS
<1> USE TasksAssumption
    DEF WorkerTypeOK, ScriptTypeOK, DispatchTypeOK, HostTypeOK, Tasks, Owners, TurnsAgree,
        PhasesAgree, PhaseAgrees, WorkAgrees, AllFulfilled, SomeRejected,
        timerVars, ownVars, turnVars, dispatchVars, workVars, drainVars, hostVars
<1>1. CASE ScriptEffect
  <2>1. ASSUME NEW kind \in Kinds, SetTimer(kind) PROVE WorkAgrees'
    BY <2>1 DEF SetTimer, Schedule
  <2>2. ASSUME NEW id \in Ids, ClearOneTimer(id) PROVE WorkAgrees'
    BY <2>2 DEF ClearOneTimer, ClearTimer
  <2>3. ASSUME StartOp PROVE WorkAgrees'
    BY <2>3 DEF StartOp
  <2>4. ASSUME NEW type \in EventTypes, AddListener(type) PROVE WorkAgrees'
    BY <2>4 DEF AddListener
  <2>5. ASSUME NEW p \in Works, WaitUntil(p) PROVE WorkAgrees'
    BY <2>5 DEF WaitUntil
  <2>6. ASSUME NEW p \in Works, NEW s \in Settlements, SettleWork(p, s) PROVE WorkAgrees'
    BY <2>6 DEF SettleWork, Settlements
  <2>7. ASSUME NEW v \in Responses \cup {"pending"}, RespondWith(v) PROVE WorkAgrees'
    BY <2>7 DEF RespondWith, Responses
  <2>8. ASSUME NEW t \in FetchTasks, NEW v \in Responses, SettleResponse(t, v) PROVE WorkAgrees'
    BY <2>8 DEF SettleResponse, Responses
  <2>9. ASSUME NEW t \in Tasks, NEW s \in {"call"} \cup Rejections, SettleHandler(t,
      s) PROVE WorkAgrees'
    BY <2>9 DEF SettleHandler, Rejections
  <2> QED
    BY <1>1, <2>1, <2>2, <2>3, <2>4, <2>5, <2>6, <2>7, <2>8, <2>9 DEF ScriptEffect
<1>2. CASE TurnEnds
  BY <1>2 DEF TurnEnds, EvalEnds, NoTurn, HandlerEnds, Rejections, TimerEnds, CallbackReturns,
      CallbackThrowsUnprintable, ReactionEnds
<1>3. CASE ExecutorStep
  <2>1. ASSUME NEW id \in Ids, TimerFires(id) PROVE WorkAgrees'
    BY <2>1 DEF TimerFires, Polled, WakeFires, BeginTurn
  <2>2. ASSUME NEW id \in Ids, TimerFindsNothing(id) PROVE WorkAgrees'
    BY <2>2 DEF TimerFindsNothing, Polled, WakeCancelled
  <2>3. ASSUME NEW o \in Owners, OpDone(o) PROVE WorkAgrees'
    BY <2>3 DEF OpDone, Polled, BeginTurn
  <2>4. ASSUME NEW t \in Tasks, CallHandler(t) PROVE WorkAgrees'
    BY <2>4 DEF CallHandler, Polled, BeginTurn, EventType, EventTypes
  <2>5. ASSUME NEW t \in Tasks, WaitAllSettled(t) PROVE WorkAgrees'
    BY <2>5 DEF WaitAllSettled, Polled
  <2>6. ASSUME NEW t \in Tasks, DrainSettled(t) PROVE WorkAgrees'
    BY <2>6 DEF DrainSettled, Polled, CancelTimers
  <2>7. ASSUME NEW t \in Tasks, DrainThrows(t) PROVE WorkAgrees'
    BY <2>7 DEF DrainThrows, Polled
  <2>8. ASSUME NEW t \in FetchTasks, FetchHandlersDone(t) PROVE WorkAgrees'
    BY <2>8 DEF FetchHandlersDone, Polled
  <2>9. ASSUME NEW t \in FetchTasks, ResponseSettled(t) PROVE WorkAgrees'
    BY <2>9 DEF ResponseSettled, Polled
  <2>10. ASSUME NEW t \in ScheduledTasks, ScheduledHandlersDone(t) PROVE WorkAgrees'
    BY <2>10 DEF ScheduledHandlersDone, Polled
  <2> QED
    BY <1>3, <2>1, <2>2, <2>3, <2>4, <2>5, <2>6, <2>7, <2>8, <2>9, <2>10 DEF ExecutorStep
<1>4. CASE RustStep
  <2>1. ASSUME NEW t \in FetchTasks, FetchAnswered(t) PROVE WorkAgrees'
    BY <2>1 DEF FetchAnswered, Polled, AnswerThenDrain, DrainSnapshot
  <2>2. ASSUME NEW t \in FetchTasks, CollectBegins(t) PROVE WorkAgrees'
    BY <2>2 DEF CollectBegins, Polled
  <2>3. ASSUME NEW t \in FetchTasks, Collected(t) PROVE WorkAgrees'
    BY <2>3 DEF Collected, Polled, AnswerThenDrain, DrainSnapshot
  <2>4. ASSUME NEW t \in FetchTasks, FetchFails(t) PROVE WorkAgrees'
    BY <2>4 DEF FetchFails, Polled, ExecEnds
  <2>5. ASSUME NEW t \in ScheduledTasks, ScheduledAnswered(t) PROVE WorkAgrees'
    BY <2>5 DEF ScheduledAnswered, Polled, AnswerThenDrain, DrainSnapshot
  <2>6. ASSUME NEW t \in ScheduledTasks, ScheduledFails(t) PROVE WorkAgrees'
    BY <2>6 DEF ScheduledFails, Polled, ExecEnds
  <2>7. ASSUME NEW t \in Tasks, ExecReturns(t) PROVE WorkAgrees'
    BY <2>7 DEF ExecReturns, Polled, ExecEnds
  <2> QED
    BY <1>4, <2>1, <2>2, <2>3, <2>4, <2>5, <2>6, <2>7 DEF RustStep
<1>5. CASE HostStep
  <2>1. ASSUME NEW t \in Tasks, Exec(t) PROVE WorkAgrees'
    <3>1. owed[t] = {} /\ drain[t] = "none" /\ answer[t] = "none"
      BY <2>1 DEF Exec, Submit
    <3>2. UNCHANGED <<drain, awaited, owed, promise, answer>>
      BY <2>1 DEF Exec
    <3>3. cur' = t /\ (t \in FetchTasks => pendingWork' = t)
      BY <2>1 DEF Exec, PendingWorkAfterDispatch
    <3>4. \A u \in Tasks : u # t => dispatch'[u] = dispatch[u]
      BY <2>1 DEF Exec
    <3> QED
      BY <3>1, <3>2, <3>3, <3>4
  <2>2. ASSUME NEW t \in Tasks, ExecAborted(t) PROVE WorkAgrees'
    BY <2>2 DEF ExecAborted, Submit
  <2>3. ASSUME NEW t \in Tasks, ExecInvalid(t) PROVE WorkAgrees'
    BY <2>3 DEF ExecInvalid, Submit
  <2>4. ASSUME NEW t \in Tasks, HostDrop(t) PROVE WorkAgrees'
    BY <2>4 DEF HostDrop, Polled, ExecEnds
  <2>5. ASSUME Abort PROVE WorkAgrees'
    BY <2>5 DEF Abort
  <2> QED
    BY <1>5, <2>1, <2>2, <2>3, <2>4, <2>5 DEF HostStep
<1>6. CASE UNCHANGED vars
  BY <1>6 DEF vars
<1> QED
  BY <1>1, <1>2, <1>3, <1>4, <1>5, <1>6 DEF Next

\* A drain begins with the list of its own fetch, and lists read do not change.
LEMMA DrainStep ==
  WorkerTypeOK /\ TurnsAgree /\ PhasesAgree /\ WorkAgrees /\ FetchDrainsItsOwnWork
    /\ [Next]_vars => FetchDrainsItsOwnWork'
<1> SUFFICES ASSUME WorkerTypeOK, TurnsAgree, PhasesAgree, WorkAgrees, FetchDrainsItsOwnWork,
    [Next]_vars PROVE FetchDrainsItsOwnWork'
  OBVIOUS
<1> USE TasksAssumption
    DEF WorkerTypeOK, ScriptTypeOK, HostTypeOK, Tasks, PhasesAgree, PhaseAgrees, WorkAgrees,
        FetchDrainsItsOwnWork,
        timerVars, ownVars, turnVars, dispatchVars, workVars, drainVars, hostVars
<1>1. CASE ScriptEffect
  BY <1>1 DEF ScriptEffect, SetTimer, Schedule, ClearOneTimer, ClearTimer, StartOp, AddListener,
      WaitUntil, SettleWork, Settlements, RespondWith, Responses, SettleResponse, SettleHandler,
      Rejections
<1>2. CASE TurnEnds
  BY <1>2 DEF TurnEnds, EvalEnds, NoTurn, HandlerEnds, Rejections, TimerEnds, CallbackReturns,
      CallbackThrowsUnprintable, ReactionEnds
<1>3. CASE ExecutorStep
  <2>1. ASSUME NEW id \in Ids, TimerFires(id) PROVE FetchDrainsItsOwnWork'
    BY <2>1 DEF TimerFires, Polled, WakeFires, BeginTurn
  <2>2. ASSUME NEW id \in Ids, TimerFindsNothing(id) PROVE FetchDrainsItsOwnWork'
    BY <2>2 DEF TimerFindsNothing, Polled, WakeCancelled
  <2>3. ASSUME NEW o \in Owners, OpDone(o) PROVE FetchDrainsItsOwnWork'
    BY <2>3 DEF OpDone, Polled, BeginTurn
  <2>4. ASSUME NEW t \in Tasks, CallHandler(t) PROVE FetchDrainsItsOwnWork'
    BY <2>4 DEF CallHandler, Polled, BeginTurn, EventType, EventTypes
  <2>5. ASSUME NEW t \in Tasks, WaitAllSettled(t) PROVE FetchDrainsItsOwnWork'
    BY <2>5 DEF WaitAllSettled, Polled
  <2>6. ASSUME NEW t \in Tasks, DrainSettled(t) PROVE FetchDrainsItsOwnWork'
    BY <2>6 DEF DrainSettled, Polled, CancelTimers
  <2>7. ASSUME NEW t \in Tasks, DrainThrows(t) PROVE FetchDrainsItsOwnWork'
    BY <2>7 DEF DrainThrows, Polled
  <2>8. ASSUME NEW t \in FetchTasks, FetchHandlersDone(t) PROVE FetchDrainsItsOwnWork'
    BY <2>8 DEF FetchHandlersDone, Polled
  <2>9. ASSUME NEW t \in FetchTasks, ResponseSettled(t) PROVE FetchDrainsItsOwnWork'
    BY <2>9 DEF ResponseSettled, Polled
  <2>10. ASSUME NEW t \in ScheduledTasks, ScheduledHandlersDone(t) PROVE FetchDrainsItsOwnWork'
    BY <2>10 DEF ScheduledHandlersDone, Polled
  <2> QED
    BY <1>3, <2>1, <2>2, <2>3, <2>4, <2>5, <2>6, <2>7, <2>8, <2>9, <2>10 DEF ExecutorStep
<1>4. CASE RustStep
  <2>1. ASSUME NEW t \in FetchTasks, FetchAnswered(t) PROVE FetchDrainsItsOwnWork'
    <3>1. pendingWork = t /\ pendingWork # NoTask
      BY <2>1 DEF FetchAnswered, Owners
    <3>2. awaited'[t] = work[t] /\ owed'[t] = work[t]
      BY <2>1, <3>1 DEF FetchAnswered, AnswerThenDrain, DrainSnapshot
    <3>3. \A u \in Tasks : u # t => /\ awaited'[u] = awaited[u] /\ owed'[u] = owed[u]
                                     /\ drain'[u] = drain[u]
      BY <2>1 DEF FetchAnswered, AnswerThenDrain
    <3> QED
      BY <3>2, <3>3
  <2>2. ASSUME NEW t \in FetchTasks, CollectBegins(t) PROVE FetchDrainsItsOwnWork'
    BY <2>2 DEF CollectBegins, Polled
  <2>3. ASSUME NEW t \in FetchTasks, Collected(t) PROVE FetchDrainsItsOwnWork'
    <3>1. pendingWork = t /\ pendingWork # NoTask
      BY <2>3 DEF Collected, Owners
    <3>2. awaited'[t] = work[t] /\ owed'[t] = work[t]
      BY <2>3, <3>1 DEF Collected, AnswerThenDrain, DrainSnapshot
    <3>3. \A u \in Tasks : u # t => /\ awaited'[u] = awaited[u] /\ owed'[u] = owed[u]
                                     /\ drain'[u] = drain[u]
      BY <2>3 DEF Collected, AnswerThenDrain
    <3> QED
      BY <3>2, <3>3
  <2>4. ASSUME NEW t \in FetchTasks, FetchFails(t) PROVE FetchDrainsItsOwnWork'
    BY <2>4 DEF FetchFails, Polled, ExecEnds
  <2>5. ASSUME NEW t \in ScheduledTasks, ScheduledAnswered(t) PROVE FetchDrainsItsOwnWork'
    BY <2>5 DEF ScheduledAnswered, Polled, AnswerThenDrain, DrainSnapshot
  <2>6. ASSUME NEW t \in ScheduledTasks, ScheduledFails(t) PROVE FetchDrainsItsOwnWork'
    BY <2>6 DEF ScheduledFails, Polled, ExecEnds
  <2>7. ASSUME NEW t \in Tasks, ExecReturns(t) PROVE FetchDrainsItsOwnWork'
    BY <2>7 DEF ExecReturns, Polled, ExecEnds
  <2> QED
    BY <1>4, <2>1, <2>2, <2>3, <2>4, <2>5, <2>6, <2>7 DEF RustStep
<1>5. CASE HostStep
  BY <1>5 DEF HostStep, Exec, Submit, PendingWorkAfterDispatch, BeginTurn, EventType,
      EventTypes, ExecAborted, ExecInvalid, HostDrop, Polled, ExecEnds, Abort
<1>6. CASE UNCHANGED vars
  BY <1>6 DEF vars
<1> QED
  BY <1>1, <1>2, <1>3, <1>4, <1>5, <1>6 DEF Next

\* Where timers are a task's only background work, a drained task has none
\* left and never gets another turn.
LEMMA QuietStep ==
  MaxOps = 0 /\ WorkerTypeOK /\ TurnsAgree /\ TimersInv /\ PhasesAgree /\ Quiet
    /\ [Next]_vars => Quiet'
<1> SUFFICES ASSUME MaxOps = 0, WorkerTypeOK, TurnsAgree, TimersInv, PhasesAgree, Quiet,
    [Next]_vars PROVE Quiet'
  OBVIOUS
<1> USE TasksAssumption, MaxTimersAssumption
    DEF WorkerTypeOK, TimersTypeOK, ScriptTypeOK, DispatchTypeOK, HostTypeOK, Tasks, Owners,
        Ids, TurnsAgree, PhasesAgree, PhaseAgrees, Quiet,
        timerVars, ownVars, turnVars, dispatchVars, workVars, drainVars, hostVars
<1>1. CASE ScriptEffect
  <2>1. ASSUME NEW kind \in Kinds, SetTimer(kind) PROVE Quiet'
    BY <2>1 DEF SetTimer, Schedule
  <2>2. ASSUME NEW id \in Ids, ClearOneTimer(id) PROVE Quiet'
    BY <2>2 DEF ClearOneTimer, ClearTimer
  <2>3. ASSUME StartOp PROVE Quiet'
    BY <2>3 DEF StartOp
  <2>4. ASSUME NEW type \in EventTypes, AddListener(type) PROVE Quiet'
    BY <2>4 DEF AddListener
  <2>5. ASSUME NEW p \in Works, WaitUntil(p) PROVE Quiet'
    BY <2>5 DEF WaitUntil
  <2>6. ASSUME NEW p \in Works, NEW s \in Settlements, SettleWork(p, s) PROVE Quiet'
    BY <2>6 DEF SettleWork, Settlements
  <2>7. ASSUME NEW v \in Responses \cup {"pending"}, RespondWith(v) PROVE Quiet'
    BY <2>7 DEF RespondWith, Responses
  <2>8. ASSUME NEW t \in FetchTasks, NEW v \in Responses, SettleResponse(t, v) PROVE Quiet'
    BY <2>8 DEF SettleResponse, Responses
  <2>9. ASSUME NEW t \in Tasks, NEW s \in {"call"} \cup Rejections, SettleHandler(t,
      s) PROVE Quiet'
    BY <2>9 DEF SettleHandler, Rejections
  <2> QED
    BY <1>1, <2>1, <2>2, <2>3, <2>4, <2>5, <2>6, <2>7, <2>8, <2>9 DEF ScriptEffect
<1>2. CASE TurnEnds
  <2>1. ASSUME NEW o \in {"idle", "failed"}, EvalEnds(o) PROVE Quiet'
    BY <2>1 DEF EvalEnds, NoTurn
  <2>2. ASSUME NEW o \in {"call", "await"} \cup Rejections, HandlerEnds(o) PROVE Quiet'
    BY <2>2 DEF HandlerEnds, NoTurn, Rejections
  <2>3. ASSUME TimerEnds PROVE Quiet'
    BY <2>3 DEF TimerEnds, CallbackReturns, CallbackThrowsUnprintable, NoTurn
  <2>4. ASSUME ReactionEnds PROVE Quiet'
    BY <2>4 DEF ReactionEnds, NoTurn
  <2> QED
    BY <1>2, <2>1, <2>2, <2>3, <2>4 DEF TurnEnds
<1>3. CASE ExecutorStep
  <2>1. ASSUME NEW id \in Ids, TimerFires(id) PROVE Quiet'
    BY <2>1 DEF TimerFires, Polled, WakeFires, BeginTurn
  <2>2. ASSUME NEW id \in Ids, TimerFindsNothing(id) PROVE Quiet'
    BY <2>2 DEF TimerFindsNothing, Polled, WakeCancelled
  <2>3. ASSUME NEW o \in Owners, OpDone(o) PROVE Quiet'
    BY <2>3 DEF OpDone, Polled, BeginTurn
  <2>4. ASSUME NEW t \in Tasks, CallHandler(t) PROVE Quiet'
    <3>1. drain[t] # "done"
      BY <2>4 DEF CallHandler
    <3>2. actor' = t /\ UNCHANGED <<timers, owner, drain>>
      BY <2>4 DEF CallHandler, BeginTurn
    <3> QED
      BY ONLY <3>1, <3>2, Quiet DEF Quiet
  <2>5. ASSUME NEW t \in Tasks, WaitAllSettled(t) PROVE Quiet'
    BY <2>5 DEF WaitAllSettled, Polled
  <2>6. ASSUME NEW t \in Tasks, DrainSettled(t) PROVE Quiet'
    BY <2>6 DEF DrainSettled, Polled, CancelTimers
  <2>7. ASSUME NEW t \in Tasks, DrainThrows(t) PROVE Quiet'
    BY <2>7 DEF DrainThrows, Polled
  <2>8. ASSUME NEW t \in FetchTasks, FetchHandlersDone(t) PROVE Quiet'
    BY <2>8 DEF FetchHandlersDone, Polled
  <2>9. ASSUME NEW t \in FetchTasks, ResponseSettled(t) PROVE Quiet'
    BY <2>9 DEF ResponseSettled, Polled
  <2>10. ASSUME NEW t \in ScheduledTasks, ScheduledHandlersDone(t) PROVE Quiet'
    BY <2>10 DEF ScheduledHandlersDone, Polled
  <2> QED
    BY <1>3, <2>1, <2>2, <2>3, <2>4, <2>5, <2>6, <2>7, <2>8, <2>9, <2>10 DEF ExecutorStep
<1>4. CASE RustStep
  <2>1. ASSUME NEW t \in FetchTasks, FetchAnswered(t) PROVE Quiet'
    BY <2>1 DEF FetchAnswered, Polled, AnswerThenDrain, DrainSnapshot
  <2>2. ASSUME NEW t \in FetchTasks, CollectBegins(t) PROVE Quiet'
    BY <2>2 DEF CollectBegins, Polled
  <2>3. ASSUME NEW t \in FetchTasks, Collected(t) PROVE Quiet'
    BY <2>3 DEF Collected, Polled, AnswerThenDrain, DrainSnapshot
  <2>4. ASSUME NEW t \in FetchTasks, FetchFails(t) PROVE Quiet'
    BY <2>4 DEF FetchFails, Polled, ExecEnds
  <2>5. ASSUME NEW t \in ScheduledTasks, ScheduledAnswered(t) PROVE Quiet'
    BY <2>5 DEF ScheduledAnswered, Polled, AnswerThenDrain, DrainSnapshot
  <2>6. ASSUME NEW t \in ScheduledTasks, ScheduledFails(t) PROVE Quiet'
    BY <2>6 DEF ScheduledFails, Polled, ExecEnds
  <2>7. ASSUME NEW t \in Tasks, ExecReturns(t) PROVE Quiet'
    BY <2>7 DEF ExecReturns, Polled, ExecEnds
  <2> QED
    BY <1>4, <2>1, <2>2, <2>3, <2>4, <2>5, <2>6, <2>7 DEF RustStep
<1>5. CASE HostStep
  <2>1. ASSUME NEW t \in Tasks, Exec(t) PROVE Quiet'
    BY <2>1 DEF Exec, Submit, PendingWorkAfterDispatch, BeginTurn, EventType, EventTypes
  <2>2. ASSUME NEW t \in Tasks, ExecAborted(t) PROVE Quiet'
    BY <2>2 DEF ExecAborted, Submit
  <2>3. ASSUME NEW t \in Tasks, ExecInvalid(t) PROVE Quiet'
    BY <2>3 DEF ExecInvalid, Submit
  <2>4. ASSUME NEW t \in Tasks, HostDrop(t) PROVE Quiet'
    BY <2>4 DEF HostDrop, Polled, ExecEnds
  <2>5. ASSUME Abort PROVE Quiet'
    BY <2>5 DEF Abort
  <2> QED
    BY <1>5, <2>1, <2>2, <2>3, <2>4, <2>5 DEF HostStep
<1>6. CASE UNCHANGED vars
  BY <1>6 DEF vars
<1> QED
  BY <1>1, <1>2, <1>3, <1>4, <1>5, <1>6 DEF Next

\* Every step of the worker is a step of TaskService, or changes nothing that
\* it speaks of.
LEMMA ServiceStep ==
  WorkerTypeOK /\ TurnsAgree /\ PhasesAgree
    /\ [Next]_vars => [Service!Next]_<<cur, aborted, result, answer>>
<1> SUFFICES ASSUME WorkerTypeOK, TurnsAgree, PhasesAgree,
    [Next]_vars PROVE [Service!Next]_<<cur, aborted, result, answer>>
  OBVIOUS
<1> USE TasksAssumption
    DEF WorkerTypeOK, DispatchTypeOK, HostTypeOK, Tasks, Owners, Service!Tasks, TurnsAgree,
        PhasesAgree, PhaseAgrees, Service!Next, Service!Begin, Service!Reply, Service!Succeed,
        Service!Fail, Service!FailLate, Service!Reject, Service!Refuse, Service!Abandon,
        Service!Close, Service!Waiting, Service!Return,
        timerVars, ownVars, turnVars, dispatchVars, workVars, drainVars, hostVars
<1>1. CASE ScriptEffect
  BY <1>1 DEF ScriptEffect, SetTimer, Schedule, ClearOneTimer, ClearTimer, StartOp, AddListener,
      WaitUntil, SettleWork, Settlements, RespondWith, Responses, SettleResponse, SettleHandler,
      Rejections
<1>2. CASE TurnEnds
  BY <1>2 DEF TurnEnds, EvalEnds, NoTurn, HandlerEnds, Rejections, TimerEnds, CallbackReturns,
      CallbackThrowsUnprintable, ReactionEnds
<1>3. CASE ExecutorStep
  BY <1>3 DEF ExecutorStep, TimerFires, Polled, WakeFires, BeginTurn, TimerFindsNothing,
      WakeCancelled, OpDone, CallHandler, EventType, EventTypes, WaitAllSettled, DrainSettled,
      CancelTimers, DrainThrows, FetchHandlersDone, ResponseSettled, ScheduledHandlersDone
<1>4. CASE RustStep
  <2>1. ASSUME NEW t \in FetchTasks, FetchAnswered(t) PROVE [Service!Next]_<<cur, aborted,
      result, answer>>
    BY <2>1 DEF FetchAnswered, Polled, AnswerThenDrain, DrainSnapshot
  <2>2. ASSUME NEW t \in FetchTasks, CollectBegins(t) PROVE [Service!Next]_<<cur, aborted,
      result, answer>>
    BY <2>2 DEF CollectBegins, Polled
  <2>3. ASSUME NEW t \in FetchTasks, Collected(t) PROVE [Service!Next]_<<cur, aborted, result,
      answer>>
    BY <2>3 DEF Collected, Polled, AnswerThenDrain, DrainSnapshot
  <2>4. ASSUME NEW t \in FetchTasks, FetchFails(t) PROVE [Service!Next]_<<cur, aborted, result,
      answer>>
    BY <2>4 DEF FetchFails, Polled, ExecEnds
  <2>5. ASSUME NEW t \in ScheduledTasks, ScheduledAnswered(t) PROVE [Service!Next]_<<cur,
      aborted, result, answer>>
    BY <2>5 DEF ScheduledAnswered, Polled, AnswerThenDrain, DrainSnapshot
  <2>6. ASSUME NEW t \in ScheduledTasks, ScheduledFails(t) PROVE [Service!Next]_<<cur, aborted,
      result, answer>>
    BY <2>6 DEF ScheduledFails, Polled, ExecEnds
  <2>7. ASSUME NEW t \in Tasks, ExecReturns(t) PROVE [Service!Next]_<<cur, aborted, result,
      answer>>
    <3>1. cur = t /\ cur' = NoTask /\ answer[t] = "sent" /\ UNCHANGED <<aborted, answer>>
      BY <2>7 DEF ExecReturns, Polled, ExecEnds
    <3>2. answer' = [answer EXCEPT ![t] = "sent"]
      BY <3>1
    <3>3. CASE drain[t] = "done"
      <4>1. Service!Succeed(t)
        BY <2>7, <3>1, <3>2, <3>3 DEF ExecReturns
      <4> QED
        BY <4>1
    <3>4. CASE drain[t] = "failed"
      <4>1. Service!FailLate(t)
        BY <2>7, <3>1, <3>2, <3>4 DEF ExecReturns
      <4> QED
        BY <4>1
    <3> QED
      BY <2>7, <3>3, <3>4 DEF ExecReturns
  <2> QED
    BY <1>4, <2>1, <2>2, <2>3, <2>4, <2>5, <2>6, <2>7 DEF RustStep
<1>5. CASE HostStep
  <2>1. ASSUME NEW t \in Tasks, Exec(t) PROVE [Service!Next]_<<cur, aborted, result, answer>>
    BY <2>1 DEF Exec, Submit, PendingWorkAfterDispatch, BeginTurn, EventType, EventTypes
  <2>2. ASSUME NEW t \in Tasks, ExecAborted(t) PROVE [Service!Next]_<<cur, aborted, result,
      answer>>
    <3>1. cur = NoTask /\ result[t] = "none" /\ answer[t] = "none"
      BY <2>2 DEF ExecAborted, Submit
    <3>2. Service!Refuse(t)
      BY <2>2, <3>1 DEF ExecAborted
    <3> QED
      BY <3>2
  <2>3. ASSUME NEW t \in Tasks, ExecInvalid(t) PROVE [Service!Next]_<<cur, aborted, result,
      answer>>
    <3>1. cur = NoTask /\ result[t] = "none" /\ answer[t] = "none"
      BY <2>3 DEF ExecInvalid, Submit
    <3>2. Service!Reject(t)
      BY <2>3, <3>1 DEF ExecInvalid
    <3> QED
      BY <3>2
  <2>4. ASSUME NEW t \in Tasks, HostDrop(t) PROVE [Service!Next]_<<cur, aborted, result,
      answer>>
    BY <2>4 DEF HostDrop, Polled, ExecEnds
  <2>5. ASSUME Abort PROVE [Service!Next]_<<cur, aborted, result, answer>>
    BY <2>5 DEF Abort
  <2> QED
    BY <1>5, <2>1, <2>2, <2>3, <2>4, <2>5 DEF HostStep
<1>6. CASE UNCHANGED vars
  BY <1>6 DEF vars
<1> QED
  BY <1>1, <1>2, <1>3, <1>4, <1>5, <1>6 DEF Next

\* One step that removes a timer while no code is on the stack ends such a drain.
LEMMA OnlyDrainsCancelStep ==
  HostTypeOK /\ TurnsAgree /\ PhasesAgree /\ [Next]_vars => [OnlyDrainsCancel]_vars
<1> SUFFICES ASSUME HostTypeOK, TurnsAgree, PhasesAgree, Next,
                    NEW id \in Ids, timers[id] # "absent", timers'[id] = "absent",
                    turn = "none", turn' = "none"
             PROVE  \E t \in Tasks : /\ drain[t] = "awaiting" /\ drain'[t] = "done"
                                     /\ t = cur \/ result[t] = "dropped"
  BY DEF OnlyDrainsCancel
<1> USE DEF timerVars, turnVars
<1>1. CASE ScriptEffect
  BY <1>1 DEF ScriptEffect, SetTimer, ClearOneTimer, StartOp, AddListener, WaitUntil,
      SettleWork, RespondWith, SettleResponse, SettleHandler
<1>2. CASE TurnEnds
  BY <1>2 DEF TurnEnds, EvalEnds, HandlerEnds, TimerEnds, ReactionEnds, CallbackReturns,
      CallbackThrowsUnprintable
<1>3. CASE ExecutorStep
  <2>1. ASSUME NEW t \in Tasks, DrainSettled(t)
        PROVE  /\ drain[t] = "awaiting" /\ drain'[t] = "done"
               /\ t = cur \/ result[t] = "dropped"
    <3>1. drain[t] = "awaiting" /\ drain' = [drain EXCEPT ![t] = "done"]
      BY <2>1 DEF DrainSettled
    <3>2. PhaseAgrees(t)
      BY DEF PhasesAgree
    <3>3. drain'[t] = "done"
      BY <3>1 DEF HostTypeOK
    <3> QED
      BY <3>1, <3>2, <3>3 DEF PhaseAgrees
  <2>2. ASSUME NEW i \in Ids, TimerFires(i) PROVE FALSE
    BY <2>2 DEF TimerFires, BeginTurn
  <2>3. CASE \/ \E i \in Ids : TimerFindsNothing(i)
             \/ \E o \in Owners : OpDone(o)
             \/ \E t \in Tasks : CallHandler(t) \/ WaitAllSettled(t) \/ DrainThrows(t)
             \/ \E t \in FetchTasks : FetchHandlersDone(t) \/ ResponseSettled(t)
             \/ \E t \in ScheduledTasks : ScheduledHandlersDone(t)
    BY <2>3 DEF TimerFindsNothing, WakeCancelled, OpDone, CallHandler, WaitAllSettled,
        DrainThrows, FetchHandlersDone, ResponseSettled, ScheduledHandlersDone
  <2> QED
    BY <1>3, <2>1, <2>2, <2>3 DEF ExecutorStep
<1>4. CASE RustStep
  BY <1>4 DEF RustStep, FetchAnswered, AnswerThenDrain, CollectBegins, Collected, FetchFails,
      ScheduledAnswered, ScheduledFails, ExecReturns
<1>5. CASE HostStep
  BY <1>5 DEF HostStep, Exec, ExecAborted, ExecInvalid, HostDrop, Abort
<1> QED
  BY <1>1, <1>2, <1>3, <1>4, <1>5 DEF Next

\* Where every rejection can be printed, no drain fails.
NoDrainFails ==
  /\ \A p \in Works : promise[p] # "unprintable"
  /\ \A t \in Tasks : drain[t] # "failed"

\* What sends the answer is out of reach of everything that fails a task, except
\* a drain that throws.
LEMMA AnsweredStep ==
  ASSUME Unprintable = FALSE
  PROVE  WorkerInv /\ NoDrainFails /\ AnsweredDoesNotFail /\ [Next]_vars
           => NoDrainFails' /\ AnsweredDoesNotFail'
<1> SUFFICES ASSUME WorkerInv, NoDrainFails, AnsweredDoesNotFail, [Next]_vars
             PROVE  NoDrainFails' /\ AnsweredDoesNotFail'
  OBVIOUS
<1>a. ScriptTypeOK /\ HostTypeOK /\ PhasesAgree
  BY DEF WorkerInv, WorkerTypeOK, ControlInv
<1> USE <1>a DEF ScriptTypeOK, HostTypeOK, Tasks, PhasesAgree, PhaseAgrees,
                 NoDrainFails, AnsweredDoesNotFail,
                 timerVars, ownVars, turnVars, dispatchVars, workVars, drainVars, hostVars
<1>1. CASE ScriptEffect
  <2>1. UNCHANGED <<drain, answer, result>>
    BY <1>1 DEF ScriptEffect, SetTimer, ClearOneTimer, StartOp, AddListener, WaitUntil,
        SettleWork, RespondWith, SettleResponse, SettleHandler
  <2>2. \A p \in Works : promise'[p] # "unprintable"
    BY <1>1 DEF ScriptEffect, SetTimer, ClearOneTimer, StartOp, AddListener, WaitUntil,
        SettleWork, RespondWith, SettleResponse, SettleHandler, Settlements
  <2> QED
    BY <2>1, <2>2
<1>2. CASE TurnEnds
  BY <1>2 DEF TurnEnds, EvalEnds, HandlerEnds, TimerEnds, ReactionEnds
<1>3. CASE ExecutorStep
  <2>1. UNCHANGED <<promise, answer, result>>
    BY <1>3 DEF ExecutorStep, TimerFires, TimerFindsNothing, OpDone, CallHandler, WaitAllSettled,
        DrainSettled, DrainThrows, FetchHandlersDone, ResponseSettled, ScheduledHandlersDone
  <2>2. \A t \in Tasks : drain'[t] # "failed"
    BY <1>3 DEF ExecutorStep, TimerFires, TimerFindsNothing, OpDone, CallHandler, WaitAllSettled,
        DrainSettled, DrainThrows, FetchHandlersDone, ResponseSettled, ScheduledHandlersDone
  <2> QED
    BY <2>1, <2>2
<1>4. CASE RustStep
  BY <1>4 DEF RustStep, FetchAnswered, AnswerThenDrain, CollectBegins, Collected, FetchFails,
      ExecEnds, ScheduledAnswered, ScheduledFails, ExecReturns
<1>5. CASE HostStep
  BY <1>5 DEF HostStep, Exec, Submit, ExecAborted, ExecInvalid, HostDrop, ExecEnds, Abort
<1>6. CASE UNCHANGED vars
  BY <1>6 DEF vars
<1> QED
  BY <1>1, <1>2, <1>3, <1>4, <1>5, <1>6 DEF Next

-----------------------------------------------------------------------------
\* The script's evaluation begins in a state that satisfies all of it.
LEMMA WorkerInvInit == Init => WorkerInv /\ Quiet
<1> SUFFICES ASSUME Init PROVE WorkerInv /\ Quiet
  OBVIOUS
<1> USE TasksAssumption, BoundsAssumption, MaxTimersAssumption DEF Init
<1>1. TimersInv
  BY TimersInvInit
<1>2. WorkerTypeOK
  <2>1. ScriptTypeOK
    BY DEF ScriptTypeOK, Owners
  <2>2. DispatchTypeOK
    BY DEF DispatchTypeOK
  <2>3. HostTypeOK
    BY DEF HostTypeOK
  <2> QED
    BY <1>1, <2>1, <2>2, <2>3 DEF TimersInv, WorkerTypeOK
<1>3. ControlInv
  <2>1. TurnsAgree
    BY DEF TurnsAgree, TimersInit, Owners
  <2>2. TimersOwned
    BY DEF TimersOwned, TimersInit, Ids
  <2>3. PhasesAgree
    BY DEF PhasesAgree, PhaseAgrees, Owners
  <2>4. WorkAgrees
    BY DEF WorkAgrees, Tasks
  <2> QED
    BY <2>1, <2>2, <2>3, <2>4 DEF ControlInv
<1>4. FetchDrainsItsOwnWork /\ Quiet
  BY DEF FetchDrainsItsOwnWork, Quiet, Tasks
<1> QED
  BY <1>1, <1>2, <1>3, <1>4 DEF WorkerInv

\* The parts together are inductive.
LEMMA WorkerInvStep == WorkerInv /\ [Next]_vars => WorkerInv'
<1> SUFFICES ASSUME WorkerInv, [Next]_vars PROVE WorkerInv'
  OBVIOUS
<1>1. /\ TimersInv /\ TimersTypeOK /\ WorkerTypeOK /\ TurnsAgree /\ TimersOwned
      /\ PhasesAgree /\ WorkAgrees /\ FetchDrainsItsOwnWork
  BY DEF WorkerInv, ControlInv, WorkerTypeOK
<1>2. TimersInv'
  BY <1>1, WorkerStepsTimers, TimersInvStep
<1>3. WorkerTypeOK'
  BY <1>1, <1>2, ScriptTypeStep, DispatchTypeStep, HostTypeStep DEF WorkerTypeOK, TimersInv
<1>4. ControlInv'
  BY <1>1, TurnsStep, OwnersStep, PhasesStep, WorkStep DEF ControlInv
<1>5. FetchDrainsItsOwnWork'
  BY <1>1, DrainStep
<1> QED
  BY <1>2, <1>3, <1>4, <1>5 DEF WorkerInv

\* The invariant that the proofs below use holds in every state.
LEMMA WorkerInvariant == Spec => []WorkerInv
<1>1. Init => WorkerInv
  BY WorkerInvInit
<1> QED
  BY <1>1, WorkerInvStep, PTL DEF Spec

\* Every variable keeps its type, for any number of tasks and any bounds.
THEOREM WorkerTypeCorrect == Spec => []WorkerTypeOK
<1>1. WorkerInv => WorkerTypeOK
  BY DEF WorkerInv
<1> QED
  BY <1>1, WorkerInvariant, PTL

\* Turns never overlap, and exec, dispatch, drain and channel agree on where
\* each task stands, whatever fails or is dropped.
THEOREM WorkerControl == Spec => []ControlInv
<1>1. WorkerInv => ControlInv
  BY DEF WorkerInv
<1> QED
  BY <1>1, WorkerInvariant, PTL

\* The worker drives its timers only as timers.rs allows, so what is proved of
\* Timers holds inside the worker.
LEMMA WorkerImplementsTimers == Spec => TimersSpec
<1>1. Init => TimersInit
  BY DEF Init
<1>2. WorkerInv /\ [Next]_vars => [TimersNext]_timerVars
  BY WorkerStepsTimers DEF WorkerInv, ControlInv
<1> QED
  BY <1>1, <1>2, WorkerInvariant, PTL DEF Spec, TimersSpec

\* A cleared or cancelled timer stays silent across tasks as well.
THEOREM WorkerRemovedTimersStaySilent == Spec => RemovedStaysSilent
<1> QED
  BY WorkerImplementsTimers, TimersRemovedStaySilent, PTL

\* Each fetch's drain awaits its own waitUntil promises and no others, although
\* __pendingWork is shared by all tasks, failed and dropped ones included.
THEOREM FetchDrainsOwnWork == Spec => []FetchDrainsItsOwnWork
<1>1. WorkerInv => FetchDrainsItsOwnWork
  BY DEF WorkerInv
<1> QED
  BY <1>1, WorkerInvariant, PTL

\* A scheduled task never reports success before the promises it passed to
\* waitUntil are fulfilled.
THEOREM ScheduledSuccess == Spec => []ScheduledSuccessMeansWorkDone
<1>1. WorkerInv => ScheduledSuccessMeansWorkDone
  BY DEF WorkerInv, ControlInv, PhasesAgree, PhaseAgrees, WorkAgrees,
         ScheduledSuccessMeansWorkDone, Tasks
<1> QED
  BY <1>1, WorkerInvariant, PTL

\* exec reports success only once the task's promises are all fulfilled or one
\* of them is rejected.
THEOREM SuccessAfterWork == Spec => []OkMeansSettled
<1>1. ASSUME WorkerInv PROVE OkMeansSettled
  <2> SUFFICES ASSUME NEW t \in Tasks, result[t] = "ok"
               PROVE  AllFulfilled(owed[t]) \/ SomeRejected(owed[t])
    BY DEF OkMeansSettled
  <2>1. drain[t] = "done" /\ dispatch[t] = "resolved"
    BY <1>1 DEF WorkerInv, ControlInv, PhasesAgree, PhaseAgrees
  <2>2. CASE t \in FetchTasks
    BY <1>1, <2>1, <2>2 DEF WorkerInv, ControlInv, WorkAgrees, FetchDrainsItsOwnWork
  <2>3. CASE t \in ScheduledTasks
    BY <1>1, <2>1, <2>3 DEF WorkerInv, ControlInv, WorkAgrees
  <2> QED
    BY <2>2, <2>3 DEF Tasks
<1> QED
  BY <1>1, WorkerInvariant, PTL

\* No task loses a timer to the end of another: what cancels is the drain of the
\* task being served, or one that a dropped exec left behind.
THEOREM WorkerKeepsTimers == Spec => TimersKept
<1>1. WorkerInv /\ [Next]_vars => [OnlyDrainsCancel]_vars
  BY OnlyDrainsCancelStep DEF WorkerInv, ControlInv, WorkerTypeOK
<1> QED
  BY <1>1, WorkerInvariant, PTL DEF Spec, TimersKept

\* A task whose answer was sent does not fail afterwards, whatever happens to its
\* waitUntil promises, as long as a rejection can be printed.  Without that
\* hypothesis it is false: __drainPendingWork then throws.
THEOREM AnsweredStaysAnswered ==
  ASSUME Unprintable = FALSE PROVE Spec => []AnsweredDoesNotFail
<1>1. Init => NoDrainFails /\ AnsweredDoesNotFail
  BY DEF Init, NoDrainFails, AnsweredDoesNotFail, Tasks
<1>2. WorkerInv /\ NoDrainFails /\ AnsweredDoesNotFail /\ [Next]_vars
        => NoDrainFails' /\ AnsweredDoesNotFail'
  BY AnsweredStep
<1> QED
  BY <1>1, <1>2, WorkerInvariant, PTL DEF Spec

\* Where timers are a script's only background work, none of the code of a task
\* that succeeded runs after exec returned: the drain's __cancelTimers is enough.
THEOREM SuccessIsolates == ASSUME MaxOps = 0 PROVE Spec => []SuccessLeavesNothing
<1>1. Init => WorkerInv /\ Quiet
  BY WorkerInvInit
<1>2. WorkerInv /\ Quiet /\ [Next]_vars => Quiet'
  BY MaxOps = 0, QuietStep DEF WorkerInv, ControlInv
<1>3. WorkerInv /\ Quiet => SuccessLeavesNothing
  BY DEF WorkerInv, ControlInv, PhasesAgree, PhaseAgrees, Quiet, SuccessLeavesNothing
<1> QED
  BY <1>1, <1>2, <1>3, WorkerInvStep, PTL DEF Spec

\* The worker keeps TaskService's promise to its host: one task at a time, one
\* reply at most, success only after the reply, errors of scheduled tasks told.
THEOREM WorkerImplementsTaskService == Spec => ServiceSpec
<1>1. Init => Service!Init
  BY DEF Init, Service!Init, Tasks, Service!Tasks
<1>2. WorkerInv /\ [Next]_vars => [Service!Next]_<<cur, aborted, result, answer>>
  BY ServiceStep DEF WorkerInv, ControlInv
<1> QED
  BY <1>1, <1>2, WorkerInvariant, PTL DEF Spec, ServiceSpec, Service!Spec
=============================================================================
