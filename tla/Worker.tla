------------------------------- MODULE Worker -------------------------------
(***************************************************************************)
(* The worker of src/worker.rs: one JavaScript context that serves tasks   *)
(* one after another through `exec`.                                       *)
(*                                                                         *)
(* JavaScript moves only while a future of `exec` is polled, one turn at a *)
(* time: the script itself, a handler, a timer callback, or a reaction (a  *)
(* promise job, run because a native fetch or an earlier job settled what  *)
(* it waits for).  Every turn belongs to the task, or to the script's top  *)
(* level, whose code asked for it; that owner is what the isolation        *)
(* properties are about, the code does not record it.  Within a turn the   *)
(* script may do anything the API offers, in any order.                    *)
(***************************************************************************)
EXTENDS Timers

CONSTANTS
  FetchTasks, ScheduledTasks,  \* the tasks the host will ever submit, by kind
  Script,       \* the owner of what the script's top level armed
  NoTask,
  Works,        \* the promises scripts pass to waitUntil
  MaxListeners, \* bound: listeners a script adds for one kind of event
  MaxOps,       \* bound: native fetches and queued reactions of one owner
  TasksFail,    \* whether handlers throw and responses are rejected
  HostDrops     \* whether the host drops a pending exec, for its own deadline

Tasks  == FetchTasks \cup ScheduledTasks
Owners == Tasks \cup {Script}

EventTypes == {"fetch", "scheduled"}
EventType(t) == IF t \in FetchTasks THEN "fetch" ELSE "scheduled"

ASSUME TasksAssumption ==
  /\ FetchTasks \cap ScheduledTasks = {}
  /\ Script \notin Tasks
  /\ NoTask \notin Owners
ASSUME BoundsAssumption == MaxListeners \in Nat /\ MaxOps \in Nat
ASSUME FlagsAssumption == TasksFail \in BOOLEAN /\ HostDrops \in BOOLEAN

VARIABLES
  owner,        \* id -> the owner of the turn that armed the timer
  inflight,     \* owner -> native fetches and queued reactions of its own
  turn, actor,  \* the kind of turn on the stack, and the owner it belongs to
  listeners,    \* event type -> how many handlers addEventListener has pushed
  dispatch,     \* task -> where __dispatchFetch or __dispatchScheduled is
  called,       \* task -> how many of them its loop has called
  response,     \* fetch -> event._response
  work,         \* task -> event._waitUntilPromises
  promise,      \* promise -> its state
  pendingWork,  \* the fetch whose list __pendingWork is, NoTask for []
  drain,        \* task -> where the __drainPendingWork called for it is
  awaited,      \* task -> what that drain awaits
  owed,         \* task -> history: its waitUntil promises when it was answered
  rust, cur,    \* where exec is, and for which task
  aborted,
  answer,       \* task -> what its res_tx was used for
  result        \* task -> what exec returned

ownVars      == <<owner, inflight>>
turnVars     == <<turn, actor>>
dispatchVars == <<listeners, dispatch, called, response>>
workVars     == <<work, promise, pendingWork>>
drainVars    == <<drain, awaited, owed>>
hostVars     == <<rust, cur, aborted, answer, result>>
vars == <<timerVars, ownVars, turnVars, dispatchVars, workVars, drainVars, hostVars>>

Settlements == {"fulfilled", "rejected"} \cup
               (IF Unprintable THEN {"unprintable"} ELSE {})
Rejections  == IF TasksFail THEN {"rejected"} ELSE {}
Responses   == {"buffered", "stream"} \cup (IF TasksFail THEN {"bad"} ELSE {})

ScriptTypeOK ==
  /\ owner \in [Ids -> Owners \cup {NoTask}]
  /\ inflight \in [Owners -> 0 .. MaxOps]
  /\ turn \in {"none", "script", "handler", "timer", "reaction"}
  /\ actor \in Owners \cup {NoTask}
  /\ work \in [Tasks -> SUBSET Works]
  /\ promise \in [Works -> {"unused", "pending", "fulfilled", "rejected", "unprintable"}]
  /\ pendingWork \in FetchTasks \cup {NoTask}

DispatchTypeOK ==
  /\ listeners \in [EventTypes -> 0 .. MaxListeners]
  /\ dispatch \in [Tasks -> {"none", "handler", "await", "call", "response", "waitAll",
                             "resolved", "rejected"}]
  /\ called \in [Tasks -> 0 .. MaxListeners]
  /\ response \in [FetchTasks -> {"none", "pending", "buffered", "stream", "bad", "default"}]

HostTypeOK ==
  /\ drain \in [Tasks -> {"none", "awaiting", "done", "failed"}]
  /\ awaited \in [Tasks -> SUBSET Works]
  /\ owed \in [Tasks -> SUBSET Works]
  /\ rust \in {"loading", "idle", "dispatching", "collecting", "draining", "failed"}
  /\ cur \in Tasks \cup {NoTask}
  /\ aborted \in BOOLEAN
  /\ answer \in [Tasks -> {"none", "sent", "error", "dropped"}]
  /\ result \in [Tasks -> {"none", "ok", "err", "refused", "dropped"}]

WorkerTypeOK == TimersTypeOK /\ ScriptTypeOK /\ DispatchTypeOK /\ HostTypeOK

\* new_with_ops is evaluating the script, nothing else has happened.
Init ==
  /\ TimersInit
  /\ owner = [id \in Ids |-> NoTask]
  /\ inflight = [o \in Owners |-> 0]
  /\ turn = "script" /\ actor = Script
  /\ listeners = [e \in EventTypes |-> 0]
  /\ dispatch = [t \in Tasks |-> "none"]
  /\ called = [t \in Tasks |-> 0]
  /\ response = [t \in FetchTasks |-> "none"]
  /\ work = [t \in Tasks |-> {}]
  /\ promise = [p \in Works |-> "unused"]
  /\ pendingWork = NoTask
  /\ drain = [t \in Tasks |-> "none"]
  /\ awaited = [t \in Tasks |-> {}]
  /\ owed = [t \in Tasks |-> {}]
  /\ rust = "loading" /\ cur = NoTask
  /\ aborted = FALSE
  /\ answer = [t \in Tasks |-> "none"]
  /\ result = [t \in Tasks |-> "none"]

-----------------------------------------------------------------------------
(* What a script does within a turn.                                       *)

SetTimer(kind) ==
  /\ turn # "none"
  /\ Schedule(kind)
  /\ owner' = [owner EXCEPT ![nextId] = actor]
  /\ UNCHANGED <<inflight, turnVars, dispatchVars, workVars, drainVars, hostVars>>

ClearOneTimer(id) ==
  /\ turn # "none"
  /\ ClearTimer(id)
  /\ UNCHANGED <<ownVars, turnVars, dispatchVars, workVars, drainVars, hostVars>>

\* fetch(), or a promise reaction of its own that the turn leaves queued.
StartOp ==
  /\ turn # "none"
  /\ inflight[actor] < MaxOps
  /\ inflight' = [inflight EXCEPT ![actor] = @ + 1]
  /\ UNCHANGED <<timerVars, owner, turnVars, dispatchVars, workVars, drainVars, hostVars>>

\* addEventListener; a dispatch loop that is still going calls the new handler
\* too.
AddListener(type) ==
  /\ turn # "none"
  /\ listeners[type] < MaxListeners
  /\ listeners' = [listeners EXCEPT ![type] = @ + 1]
  /\ UNCHANGED <<timerVars, ownVars, turnVars, dispatch, called, response, workVars, drainVars, hostVars>>

\* event.waitUntil(p): the list only grows, even after the drain has read it.
WaitUntil(p) ==
  /\ turn # "none" /\ actor \in Tasks
  /\ work' = [work EXCEPT ![actor] = @ \cup {p}]
  /\ promise' = [promise EXCEPT ![p] = IF @ = "unused" THEN "pending" ELSE @]
  /\ UNCHANGED <<timerVars, ownVars, turnVars, dispatchVars, pendingWork, drainVars, hostVars>>

SettleWork(p, outcome) ==
  /\ turn # "none"
  /\ promise[p] = "pending"
  /\ promise' = [promise EXCEPT ![p] = outcome]
  /\ UNCHANGED <<timerVars, ownVars, turnVars, dispatchVars, work, pendingWork, drainVars, hostVars>>

\* event.respondWith(response).  A second call replaces the first; a call made
\* once the dispatch awaits the response changes nothing and is left out.
RespondWith(v) ==
  /\ turn # "none" /\ actor \in FetchTasks
  /\ dispatch[actor] \in {"handler", "await", "call"}
  /\ response' = [response EXCEPT ![actor] = v]
  /\ UNCHANGED <<timerVars, ownVars, turnVars, listeners, dispatch, called, workVars, drainVars, hostVars>>

SettleResponse(t, v) ==
  /\ turn # "none"
  /\ response[t] = "pending"
  /\ response' = [response EXCEPT ![t] = v]
  /\ UNCHANGED <<timerVars, ownVars, turnVars, listeners, dispatch, called, workVars, drainVars, hostVars>>

\* The promise an earlier handler returned settles.
SettleHandler(t, outcome) ==
  /\ turn # "none"
  /\ dispatch[t] = "await"
  /\ dispatch' = [dispatch EXCEPT ![t] = outcome]
  /\ UNCHANGED <<timerVars, ownVars, turnVars, listeners, called, response, workVars, drainVars, hostVars>>

ScriptEffect ==
  \/ \E kind \in Kinds : SetTimer(kind)
  \/ \E id \in Ids : ClearOneTimer(id)
  \/ StartOp
  \/ \E type \in EventTypes : AddListener(type)
  \/ \E p \in Works : WaitUntil(p) \/ \E s \in Settlements : SettleWork(p, s)
  \/ \E v \in Responses \cup {"pending"} : RespondWith(v)
  \/ \E t \in FetchTasks, v \in Responses : SettleResponse(t, v)
  \/ \E t \in Tasks, s \in {"call"} \cup Rejections :
       SettleHandler(t, s)

-----------------------------------------------------------------------------
(* How a turn ends.                                                        *)

NoTurn == turn' = "none" /\ actor' = NoTask

\* The script's top level returned or threw; new_with_ops returns.
EvalEnds(outcome) ==
  /\ turn = "script"
  /\ NoTurn
  /\ rust' = outcome
  /\ UNCHANGED <<timerVars, ownVars, dispatchVars, workVars, drainVars, cur, aborted, answer, result>>

\* The handler returned: a value ("call"), a pending promise ("await"), or it
\* threw or returned a rejection ("rejected").
HandlerEnds(outcome) ==
  /\ turn = "handler"
  /\ NoTurn
  /\ dispatch' = [dispatch EXCEPT ![actor] = outcome]
  /\ UNCHANGED <<timerVars, ownVars, listeners, called, response, workVars, drainVars, hostVars>>

TimerEnds ==
  /\ CallbackReturns \/ CallbackThrowsUnprintable
  /\ NoTurn
  /\ UNCHANGED <<ownVars, dispatchVars, workVars, drainVars, hostVars>>

ReactionEnds ==
  /\ turn = "reaction"
  /\ NoTurn
  /\ UNCHANGED <<timerVars, ownVars, dispatchVars, workVars, drainVars, hostVars>>

TurnEnds ==
  \/ \E o \in {"idle", "failed"} : EvalEnds(o)
  \/ \E o \in {"call", "await"} \cup Rejections : HandlerEnds(o)
  \/ TimerEnds
  \/ ReactionEnds
-----------------------------------------------------------------------------
(* What the executor does between two turns, while it polls a future of     *)
(* exec.  Jobs and native futures may run in any order.                     *)

Polled == rust \in {"dispatching", "collecting", "draining"} /\ turn = "none"

BeginTurn(kind, o) == turn' = kind /\ actor' = o

\* Variant: a timer interrupts the turn on the stack.
TimerFires_Preempts(id) ==
  /\ cur # NoTask
  /\ WakeFires(id)
  /\ BeginTurn("timer", owner[id])
  /\ UNCHANGED <<ownVars, dispatchVars, workVars, drainVars, hostVars>>

TimerFires(id) ==
  /\ Polled
  /\ WakeFires(id)
  /\ BeginTurn("timer", owner[id])
  /\ UNCHANGED <<ownVars, dispatchVars, workVars, drainVars, hostVars>>

TimerFindsNothing(id) ==
  /\ Polled
  /\ WakeCancelled(id)
  /\ UNCHANGED <<ownVars, turnVars, dispatchVars, workVars, drainVars, hostVars>>

OpDone(o) ==
  /\ Polled
  /\ inflight[o] > 0
  /\ inflight' = [inflight EXCEPT ![o] = @ - 1]
  /\ BeginTurn("reaction", o)
  /\ UNCHANGED <<timerVars, owner, dispatchVars, workVars, drainVars, hostVars>>

\* Variant: the loop calls a handler past the last.
CallHandler_PastLast(t) ==
  /\ Polled
  /\ dispatch[t] = "call"
  /\ called' = [called EXCEPT ![t] = @ + 1]
  /\ dispatch' = [dispatch EXCEPT ![t] = "handler"]
  /\ BeginTurn("handler", t)
  /\ UNCHANGED <<timerVars, ownVars, listeners, response, workVars, drainVars, hostVars>>

\* The dispatch loop resumes and calls the next handler.
CallHandler(t) ==
  /\ Polled
  /\ dispatch[t] = "call" /\ called[t] < listeners[EventType(t)]
  /\ called' = [called EXCEPT ![t] = @ + 1]
  /\ dispatch' = [dispatch EXCEPT ![t] = "handler"]
  /\ BeginTurn("handler", t)
  /\ UNCHANGED <<timerVars, ownVars, listeners, response, workVars, drainVars, hostVars>>

\* __dispatchFetch after its loop: await event._response, or the default 500.
FetchHandlersDone(t) ==
  /\ Polled
  /\ dispatch[t] = "call" /\ called[t] = listeners[EventType(t)]
  /\ \/ /\ response[t] # "none"
        /\ dispatch' = [dispatch EXCEPT ![t] = "response"]
        /\ UNCHANGED response
     \/ /\ response[t] = "none"
        /\ dispatch' = [dispatch EXCEPT ![t] = "resolved"]
        /\ response' = [response EXCEPT ![t] = "default"]
  /\ UNCHANGED <<timerVars, ownVars, turnVars, listeners, called, workVars, drainVars, hostVars>>

\* The response promise settled.  "bad" is a rejection or a value that is not
\* a response: the first rejects the dispatch promise, the second fails the
\* extraction in handle_fetch, and exec returns the same error for both.
ResponseSettled(t) ==
  /\ Polled
  /\ dispatch[t] = "response" /\ response[t] \in {"buffered", "stream", "bad"}
  /\ dispatch' = [dispatch EXCEPT ![t] = IF response[t] = "bad" THEN "rejected" ELSE "resolved"]
  /\ UNCHANGED <<timerVars, ownVars, turnVars, listeners, called, response, workVars, drainVars, hostVars>>

\* __dispatchScheduled after its loop: Promise.all over the list as it is now.
ScheduledHandlersDone(t) ==
  /\ Polled
  /\ dispatch[t] = "call" /\ called[t] = listeners[EventType(t)]
  /\ owed' = [owed EXCEPT ![t] = work[t]]
  /\ dispatch' = [dispatch EXCEPT ![t] = IF work[t] = {} THEN "resolved" ELSE "waitAll"]
  /\ UNCHANGED <<timerVars, ownVars, turnVars, listeners, called, response, workVars, drain, awaited, hostVars>>

AllFulfilled(ps) == \A p \in ps : promise[p] = "fulfilled"
SomeRejected(ps) == \E p \in ps : promise[p] \in {"rejected", "unprintable"}

\* Variant: Promise.race for Promise.all.
WaitAllSettled_Race(t) ==
  /\ Polled
  /\ dispatch[t] = "waitAll"
  /\ \E p \in owed[t] : promise[p] # "pending"
  /\ dispatch' = [dispatch EXCEPT ![t] = "resolved"]
  /\ UNCHANGED <<timerVars, ownVars, turnVars, listeners, called, response, workVars, drainVars, hostVars>>

WaitAllSettled(t) ==
  /\ Polled
  /\ dispatch[t] = "waitAll"
  /\ \/ /\ AllFulfilled(owed[t])
        /\ dispatch' = [dispatch EXCEPT ![t] = "resolved"]
     \/ /\ SomeRejected(owed[t])
        /\ dispatch' = [dispatch EXCEPT ![t] = "rejected"]
  /\ UNCHANGED <<timerVars, ownVars, turnVars, listeners, called, response, workVars, drainVars, hostVars>>

\* Variants: the timers are kept; the timers are waited for.
DrainSettled_KeepsTimers(t) ==
  /\ Polled
  /\ drain[t] = "awaiting"
  /\ AllFulfilled(awaited[t]) \/ SomeRejected(awaited[t])
  /\ drain' = [drain EXCEPT ![t] = "done"]
  /\ UNCHANGED <<timerVars, ownVars, turnVars, dispatchVars, workVars, awaited, owed, hostVars>>

DrainSettled_AwaitsTimers(t) ==
  /\ Polled
  /\ drain[t] = "awaiting"
  /\ AllFulfilled(awaited[t]) \/ SomeRejected(awaited[t])
  /\ \A id \in Ids : timers[id] = "absent"
  /\ drain' = [drain EXCEPT ![t] = "done"]
  /\ UNCHANGED <<timerVars, ownVars, turnVars, dispatchVars, workVars, awaited, owed, hostVars>>

\* __drainPendingWork resumes after its Promise.all, which settles with the
\* first rejection: it logs that, and cancels every armed timer.  (Where two
\* promises are rejected the model does not keep which came first.)
DrainSettled(t) ==
  /\ Polled
  /\ drain[t] = "awaiting"
  /\ \/ AllFulfilled(awaited[t])
     \/ \E p \in awaited[t] : promise[p] = "rejected"
  /\ drain' = [drain EXCEPT ![t] = "done"]
  /\ CancelTimers
  /\ UNCHANGED <<ownVars, turnVars, dispatchVars, workVars, awaited, owed, hostVars>>

\* The rejection cannot be printed: console.error throws inside the catch, and
\* __cancelTimers is never reached.
DrainThrows(t) ==
  /\ Polled
  /\ drain[t] = "awaiting"
  /\ \E p \in awaited[t] : promise[p] = "unprintable"
  /\ drain' = [drain EXCEPT ![t] = "failed"]
  /\ UNCHANGED <<timerVars, ownVars, turnVars, dispatchVars, workVars, awaited, owed, hostVars>>

ExecutorStep ==
  \/ \E id \in Ids : TimerFires(id) \/ TimerFindsNothing(id)
  \/ \E o \in Owners : OpDone(o)
  \/ \E t \in Tasks : CallHandler(t) \/ WaitAllSettled(t) \/ DrainSettled(t) \/ DrainThrows(t)
  \/ \E t \in FetchTasks : FetchHandlersDone(t) \/ ResponseSettled(t)
  \/ \E t \in ScheduledTasks : ScheduledHandlersDone(t)

-----------------------------------------------------------------------------
(* exec, and the host that calls it.                                       *)

\* A task is submitted once.
Submit(t) == rust = "idle" /\ result[t] = "none"

\* Variant: __dispatchFetch does not publish its list.
PendingWorkAfterDispatch_Unset(t) == pendingWork

\* __dispatchFetch publishes its event's list, __dispatchScheduled does not.
PendingWorkAfterDispatch(t) == IF t \in FetchTasks THEN t ELSE pendingWork

\* exec up to the first suspension: handle_fetch or handle_scheduled calls the
\* dispatch function, which calls the first handler, all in one go.
Exec(t) ==
  /\ Submit(t) /\ ~aborted
  /\ rust' = "dispatching" /\ cur' = t
  /\ pendingWork' = PendingWorkAfterDispatch(t)
  /\ \/ /\ listeners[EventType(t)] > 0
        /\ called' = [called EXCEPT ![t] = 1]
        /\ dispatch' = [dispatch EXCEPT ![t] = "handler"]
        /\ BeginTurn("handler", t)
        /\ UNCHANGED response
     \/ /\ listeners[EventType(t)] = 0
        /\ dispatch' = [dispatch EXCEPT ![t] = "resolved"]
        /\ response' = [f \in FetchTasks |-> IF f = t THEN "default" ELSE response[f]]
        /\ UNCHANGED <<called, turnVars>>
  /\ UNCHANGED <<timerVars, ownVars, listeners, work, promise, drainVars, aborted, answer, result>>

\* The worker was aborted.  exec owns the event, whose res_tx goes with it.
ExecAborted(t) ==
  /\ Submit(t) /\ aborted
  /\ result' = [result EXCEPT ![t] = "refused"]
  /\ answer' = [answer EXCEPT ![t] = "dropped"]
  /\ UNCHANGED <<timerVars, ownVars, turnVars, dispatchVars, workVars, drainVars,
                 rust, cur, aborted>>

\* The event was taken before, or the request body is a stream: an error before
\* any JavaScript runs.
ExecInvalid(t) ==
  /\ Submit(t) /\ ~aborted
  /\ result' = [result EXCEPT ![t] = "err"]
  /\ answer' = [answer EXCEPT ![t] = "dropped"]
  /\ UNCHANGED <<timerVars, ownVars, turnVars, dispatchVars, workVars, drainVars,
                 rust, cur, aborted>>

\* abort takes &mut self, so never while exec is pending.
Abort ==
  /\ rust = "idle"
  /\ aborted' = TRUE
  /\ UNCHANGED <<timerVars, ownVars, turnVars, dispatchVars, workVars, drainVars,
                 rust, cur, answer, result>>

ExecEnds == rust' = "idle" /\ cur' = NoTask

\* Variant: the list is swapped before it is read.
DrainSnapshot_AfterSwap == {}

\* The list __pendingWork holds at this moment.
DrainSnapshot == IF pendingWork = NoTask THEN {} ELSE work[pendingWork]

\* The result goes out, and __drainPendingWork runs up to its await: it swaps
\* the list for an empty one and awaits the promises in it at this moment.
AnswerThenDrain(t) ==
  /\ rust' = "draining"
  /\ answer' = [answer EXCEPT ![t] = "sent"]
  /\ drain' = [drain EXCEPT ![t] = "awaiting"]
  /\ awaited' = [awaited EXCEPT ![t] = DrainSnapshot]
  /\ pendingWork' = NoTask
  /\ UNCHANGED <<timerVars, ownVars, turnVars, dispatchVars, work, promise, cur, aborted, result>>

\* Variant: the answer waits for the waitUntil promises.
FetchAnswered_AfterWork(t) ==
  /\ Polled /\ rust = "dispatching" /\ cur = t
  /\ dispatch[t] = "resolved" /\ response[t] # "stream"
  /\ AllFulfilled(work[t]) \/ SomeRejected(work[t])
  /\ owed' = [owed EXCEPT ![t] = work[t]]
  /\ AnswerThenDrain(t)

\* The dispatch promise of a fetch resolved and the response can be sent, or
\* its streamed body has to be collected first.
FetchAnswered(t) ==
  /\ Polled /\ rust = "dispatching" /\ cur = t
  /\ dispatch[t] = "resolved" /\ response[t] # "stream"
  /\ owed' = [owed EXCEPT ![t] = work[t]]
  /\ AnswerThenDrain(t)

CollectBegins(t) ==
  /\ Polled /\ rust = "dispatching" /\ cur = t
  /\ dispatch[t] = "resolved" /\ response[t] = "stream"
  /\ rust' = "collecting"
  /\ UNCHANGED <<timerVars, ownVars, turnVars, dispatchVars, workVars, drainVars,
                 cur, aborted, answer, result>>

Collected(t) ==
  /\ Polled /\ rust = "collecting" /\ cur = t
  /\ owed' = [owed EXCEPT ![t] = work[t]]
  /\ AnswerThenDrain(t)

ScheduledAnswered(t) ==
  /\ Polled /\ rust = "dispatching" /\ cur = t
  /\ dispatch[t] = "resolved"
  /\ UNCHANGED owed
  /\ AnswerThenDrain(t)

\* Variant: a drain whose promises settled with a rejection fails the fetch.
FetchFails_AfterAnswer(t) ==
  /\ Polled /\ cur = t
  /\ \/ rust = "dispatching" /\ dispatch[t] = "rejected"
     \/ rust = "draining" /\ SomeRejected(awaited[t])
  /\ answer' = [answer EXCEPT ![t] = IF @ = "none" THEN "dropped" ELSE @]
  /\ result' = [result EXCEPT ![t] = "err"]
  /\ ExecEnds
  /\ UNCHANGED <<timerVars, ownVars, turnVars, dispatchVars, workVars, drainVars, aborted>>

\* `?` after handle_fetch: no answer, no drain.
FetchFails(t) ==
  /\ Polled /\ cur = t
  /\ \/ rust = "dispatching" /\ dispatch[t] = "rejected"
     \/ rust = "collecting" /\ TasksFail
  /\ answer' = [answer EXCEPT ![t] = "dropped"]
  /\ result' = [result EXCEPT ![t] = "err"]
  /\ ExecEnds
  /\ UNCHANGED <<timerVars, ownVars, turnVars, dispatchVars, workVars, drainVars, aborted>>

\* Variant: `?` after handle_scheduled, as handle_fetch has it.
ScheduledFails_NoReply(t) ==
  /\ Polled /\ rust = "dispatching" /\ cur = t
  /\ dispatch[t] = "rejected"
  /\ answer' = [answer EXCEPT ![t] = "dropped"]
  /\ result' = [result EXCEPT ![t] = "err"]
  /\ ExecEnds
  /\ UNCHANGED <<timerVars, ownVars, turnVars, dispatchVars, workVars, drainVars, aborted>>

\* The error is the answer; no drain either.
ScheduledFails(t) ==
  /\ Polled /\ rust = "dispatching" /\ cur = t
  /\ dispatch[t] = "rejected"
  /\ answer' = [answer EXCEPT ![t] = "error"]
  /\ result' = [result EXCEPT ![t] = "err"]
  /\ ExecEnds
  /\ UNCHANGED <<timerVars, ownVars, turnVars, dispatchVars, workVars, drainVars, aborted>>

\* Variant: exec does not wait for the drain.
ExecReturns_Early(t) ==
  /\ Polled /\ rust = "draining" /\ cur = t
  /\ result' = [result EXCEPT ![t] = IF drain[t] = "failed" THEN "err" ELSE "ok"]
  /\ ExecEnds
  /\ UNCHANGED <<timerVars, ownVars, turnVars, dispatchVars, workVars, drainVars, aborted, answer>>

ExecReturns(t) ==
  /\ Polled /\ rust = "draining" /\ cur = t
  /\ drain[t] \in {"done", "failed"}
  /\ result' = [result EXCEPT ![t] = IF drain[t] = "done" THEN "ok" ELSE "err"]
  /\ ExecEnds
  /\ UNCHANGED <<timerVars, ownVars, turnVars, dispatchVars, workVars, drainVars, aborted, answer>>

\* The host drops the future of exec at a suspension point.  Jobs, sleeps and
\* fetches stay in the runtime, and go on when the next exec polls it.
HostDrop(t) ==
  /\ HostDrops
  /\ Polled /\ cur = t
  /\ result' = [result EXCEPT ![t] = "dropped"]
  /\ answer' = [answer EXCEPT ![t] = IF @ = "none" THEN "dropped" ELSE @]
  /\ ExecEnds
  /\ UNCHANGED <<timerVars, ownVars, turnVars, dispatchVars, workVars, drainVars, aborted>>

RustStep ==
  \/ \E t \in FetchTasks :
       FetchAnswered(t) \/ CollectBegins(t) \/ Collected(t) \/ FetchFails(t)
  \/ \E t \in ScheduledTasks : ScheduledAnswered(t) \/ ScheduledFails(t)
  \/ \E t \in Tasks : ExecReturns(t)

HostStep ==
  \/ \E t \in Tasks : Exec(t) \/ ExecAborted(t) \/ ExecInvalid(t) \/ HostDrop(t)
  \/ Abort

Next == ScriptEffect \/ TurnEnds \/ ExecutorStep \/ RustStep \/ HostStep

Spec == Init /\ [][Next]_vars

-----------------------------------------------------------------------------
(* Fairness.  While exec is pending its futures are polled and the job queue *)
(* is first-in first-out, so a job, a sleep or a Rust future that is ready   *)
(* again and again gets its turn although script turns keep coming between   *)
(* (strong fairness); and a turn ends, since scripts that loop for ever stop *)
(* the whole worker (weak fairness).  Nothing makes a script settle a        *)
(* promise, a fetch finish, or the host submit a task.                       *)

\* The one thread of control a task has, from its dispatch to the return of exec.
TaskStep(t) ==
  \/ CallHandler(t) \/ WaitAllSettled(t) \/ DrainSettled(t) \/ DrainThrows(t)
  \/ ExecReturns(t)
  \/ /\ t \in FetchTasks
     /\ \/ FetchHandlersDone(t) \/ ResponseSettled(t) \/ FetchAnswered(t) \/ CollectBegins(t)
        \/ rust = "dispatching" /\ FetchFails(t)
  \/ /\ t \in ScheduledTasks
     /\ ScheduledHandlersDone(t) \/ ScheduledAnswered(t) \/ ScheduledFails(t)

Fairness ==
  /\ WF_vars(TurnEnds)
  /\ \A t \in Tasks : SF_vars(TaskStep(t))

FairSpec == Spec /\ Fairness

-----------------------------------------------------------------------------
(* Properties.                                                             *)

\* One turn at a time, and the control state of the script, of the executor
\* and of exec agree on it: a timer turn has its callback on the stack, a
\* handler turn the dispatch loop of its task, and between tasks nothing runs.
TurnsAgree ==
  /\ turn = "script" <=> rust = "loading"
  /\ turn = "timer" <=> running # NoTimer
  /\ turn = "none" <=> actor = NoTask
  /\ turn = "handler" => actor \in Tasks
  /\ \A t \in Tasks : dispatch[t] = "handler" <=> turn = "handler" /\ actor = t
  /\ rust \in {"dispatching", "collecting", "draining"} <=> cur # NoTask
  /\ rust \in {"idle", "failed"} => turn = "none"

\* Every timer was armed in a turn of a known owner.
TimersOwned == \A id \in Ids : id < nextId => owner[id] \in Owners

\* The promises a fetch's drain awaits are exactly those its own event had
\* collected when its response was sent, whatever tasks were served, failed or
\* were dropped before (__pendingWork, set by __dispatchFetch and swapped by
\* __drainPendingWork, is shared by all of them).
FetchDrainsItsOwnWork ==
  \A t \in FetchTasks : drain[t] # "none" => awaited[t] = owed[t]

\* exec reports success for a task only once everything the task had passed to
\* waitUntil was fulfilled, or one of them was rejected.
OkMeansSettled ==
  \A t \in Tasks :
    result[t] = "ok" => AllFulfilled(owed[t]) \/ SomeRejected(owed[t])

\* A scheduled task reports success only when every promise it had passed to
\* waitUntil by the end of its handlers is fulfilled.
ScheduledSuccessMeansWorkDone ==
  \A t \in ScheduledTasks : answer[t] = "sent" => AllFulfilled(owed[t])

\* Where a task stands, as exec, the dispatch, the drain and the channel see it:
\* untouched before exec, unanswered until its drain begins, answered from then.
PhaseAgrees(t) ==
  /\ cur = t => result[t] = "none"
  /\ result[t] = "none" /\ cur # t =>
       dispatch[t] = "none" /\ drain[t] = "none" /\ answer[t] = "none" /\ owed[t] = {}
  /\ cur = t /\ rust \in {"dispatching", "collecting"} => drain[t] = "none" /\ answer[t] = "none"
  /\ cur = t /\ rust = "draining" => drain[t] # "none"
  /\ cur = t /\ rust = "collecting" => dispatch[t] = "resolved"
  /\ drain[t] # "none" <=> answer[t] = "sent"
  /\ drain[t] # "none" => dispatch[t] = "resolved"
  /\ drain[t] = "awaiting" => cur = t \/ result[t] = "dropped"
  /\ result[t] = "ok" => drain[t] = "done"

PhasesAgree == \A t \in Tasks : PhaseAgrees(t)

\* What each drain and each Promise.all is worth: __pendingWork is the list of
\* the fetch being served, a drain that is over saw its promises settle, and a
\* scheduled dispatch that resolved saw its own fulfilled.
WorkAgrees ==
  /\ \A t \in FetchTasks :
       cur = t /\ rust \in {"dispatching", "collecting"} => pendingWork = t
  /\ \A t \in Tasks :
       drain[t] = "done" => AllFulfilled(awaited[t]) \/ SomeRejected(awaited[t])
  /\ \A t \in ScheduledTasks : dispatch[t] = "resolved" => AllFulfilled(owed[t])

\* The inductive invariant of the proofs.
ControlInv == TurnsAgree /\ TimersOwned /\ PhasesAgree /\ WorkAgrees

\* The code of a task runs only while exec is serving that task (README, Pending
\* work: nothing a request left behind runs inside the next one).
Isolation == actor \in Tasks => actor = cur

\* The same of the tasks that succeeded: once exec reported success for a task,
\* none of its code runs again, whatever failed or was dropped since.
SuccessLeavesNothing ==
  actor \in Tasks /\ actor # cur => result[actor] # "ok"

\* Every promise a successful task had passed to waitUntil has settled (README:
\* exec settles the promises passed to event.waitUntil()).
OkMeansAllSettled ==
  \A t \in Tasks : result[t] = "ok" => \A p \in owed[t] : promise[p] # "pending"

\* Whoever arms a timer keeps it until a script clears it or it fires, or until a
\* drain that may cancel it is over: that of the task being served or, since its
\* continuation stays on the runtime, of a task the host dropped.  The end of no
\* other task reaches into the one being served.
OnlyDrainsCancel ==
  \A id \in Ids :
    /\ timers[id] # "absent" /\ timers'[id] = "absent"
    /\ turn = "none" /\ turn' = "none"
    => \E t \in Tasks :
         /\ drain[t] = "awaiting" /\ drain'[t] = "done"
         /\ t = cur \/ result[t] = "dropped"

TimersKept == [][OnlyDrainsCancel]_vars

\* A task whose result was sent does not fail afterwards, not even when a
\* promise it passed to waitUntil is rejected.
AnsweredDoesNotFail ==
  \A t \in Tasks : answer[t] = "sent" => result[t] # "err"

\* Pending waitUntil work delays exec, never the response: once the response a
\* dispatch awaits is there and needs no collecting, or is the default 500 of a
\* fetch nobody responded to, it is sent.
WorkDoesNotDelayTheResponse ==
  \A t \in FetchTasks :
    /\ cur = t
    /\ \/ response[t] = "default"
       \/ dispatch[t] = "response" /\ response[t] = "buffered"
    ~> answer[t] = "sent" \/ result[t] = "dropped"

\* exec returns once the work it awaits has settled, however many timers and
\* intervals the script keeps armed.
SettledWorkEndsTheTask ==
  \A t \in Tasks :
    cur = t /\ rust = "draining" /\ AllFulfilled(awaited[t]) ~> cur # t

\* The worker keeps what it promises the host.
Service == INSTANCE TaskService WITH
  serving <- cur, closed <- aborted, status <- result, reply <- answer
ServiceSpec == Service!Spec
=============================================================================
