------------------------------- MODULE Timers -------------------------------
(***************************************************************************)
(* setTimeout, setInterval and their clear functions, src/runtime/timers.rs.*)
(*                                                                         *)
(* A timer lives in two places that the code never changes together: its   *)
(* entry in the JavaScript map `timers`, and the native sleep `__sleep(ms)`*)
(* whose continuation looks the entry up when the sleep is over.  Clearing *)
(* a timer removes the entry only; the sleep still ends and must then find *)
(* nothing.  Delays are abstracted: an outstanding sleep may end at any    *)
(* time, in any order.                                                     *)
(***************************************************************************)
EXTENDS Integers

CONSTANTS
  MaxTimers,      \* bound: how many ids nextId ever hands out
  Unprintable     \* whether scripts throw, or reject with, an object that
                  \* JSON.stringify refuses, so that console.error throws too

ASSUME MaxTimersAssumption == MaxTimers \in Nat
ASSUME UnprintableAssumption == Unprintable \in BOOLEAN

Ids     == 1 .. MaxTimers
NoTimer == 0
Kinds   == {"timeout", "interval"}

VARIABLES
  timers,   \* id -> its entry in the map: its kind, or "absent"
  sleeps,   \* id -> sleeps outstanding whose continuation will look id up
  nextId,   \* the next id to hand out
  running   \* the timer whose callback is on the stack, or NoTimer

timerVars == <<timers, sleeps, nextId, running>>

TimersTypeOK ==
  /\ timers \in [Ids -> Kinds \cup {"absent"}]
  /\ sleeps \in [Ids -> Nat]
  /\ nextId \in 1 .. MaxTimers + 1
  /\ running \in Ids \cup {NoTimer}

TimersInit ==
  /\ timers = [id \in Ids |-> "absent"]
  /\ sleeps = [id \in Ids |-> 0]
  /\ nextId = 1
  /\ running = NoTimer

(***************************************************************************)
(* What a script calls.  Each is one synchronous call, made while some     *)
(* JavaScript is on the stack.                                             *)
(***************************************************************************)

\* setTimeout and setInterval: a fresh id, its entry, its first sleep.
Schedule(kind) ==
  /\ nextId \in Ids
  /\ timers' = [timers EXCEPT ![nextId] = kind]
  /\ sleeps' = [sleeps EXCEPT ![nextId] = @ + 1]
  /\ nextId' = nextId + 1
  /\ UNCHANGED running

\* clearTimeout and clearInterval, one function for both kinds.
ClearTimer(id) ==
  /\ timers' = [timers EXCEPT ![id] = "absent"]
  /\ UNCHANGED <<sleeps, nextId, running>>

\* __cancelTimers, what the worker calls at the end of a task.
CancelTimers ==
  /\ timers' = [id \in Ids |-> "absent"]
  /\ UNCHANGED <<sleeps, nextId, running>>

(***************************************************************************)
(* A sleep that ends.  JavaScript runs to completion, so no other callback *)
(* is on the stack when the continuation runs.                             *)
(***************************************************************************)

\* The continuation finds no entry and returns.
WakeCancelled(id) ==
  /\ running = NoTimer
  /\ sleeps[id] > 0
  /\ timers[id] = "absent"
  /\ sleeps' = [sleeps EXCEPT ![id] = @ - 1]
  /\ UNCHANGED <<timers, nextId, running>>

\* Variants of the next action, each with one bug: the lookup is skipped; a
\* timeout is not deleted; an interval sleeps again before its callback too.
WakeFires_NoLookup(id) ==
  /\ running = NoTimer
  /\ sleeps[id] > 0
  /\ sleeps' = [sleeps EXCEPT ![id] = @ - 1]
  /\ timers' = [timers EXCEPT ![id] = IF @ = "timeout" THEN "absent" ELSE @]
  /\ running' = id
  /\ UNCHANGED nextId

WakeFires_KeepsTimeout(id) ==
  /\ running = NoTimer
  /\ sleeps[id] > 0
  /\ timers[id] # "absent"
  /\ sleeps' = [sleeps EXCEPT ![id] = @ - 1]
  /\ running' = id
  /\ UNCHANGED <<timers, nextId>>

WakeFires_RearmsFirst(id) ==
  /\ running = NoTimer
  /\ sleeps[id] > 0
  /\ timers[id] # "absent"
  /\ sleeps' = [sleeps EXCEPT ![id] = IF timers[id] = "interval" THEN @ ELSE @ - 1]
  /\ timers' = [timers EXCEPT ![id] = IF @ = "timeout" THEN "absent" ELSE @]
  /\ running' = id
  /\ UNCHANGED nextId

\* The continuation finds the entry, drops it unless it repeats, and calls
\* the callback.
WakeFires(id) ==
  /\ running = NoTimer
  /\ sleeps[id] > 0
  /\ timers[id] # "absent"
  /\ sleeps' = [sleeps EXCEPT ![id] = @ - 1]
  /\ timers' = [timers EXCEPT ![id] = IF @ = "timeout" THEN "absent" ELSE @]
  /\ running' = id
  /\ UNCHANGED nextId

\* Variant: the second sleep is forgotten.
CallbackReturns_NoRearm ==
  /\ running # NoTimer
  /\ running' = NoTimer
  /\ UNCHANGED <<timers, sleeps, nextId>>

\* The callback returned, or threw something console.error could print.  An
\* interval that is still in the map sleeps again.
CallbackReturns ==
  /\ running # NoTimer
  /\ sleeps' = [sleeps EXCEPT ![running] =
                  IF timers[running] = "interval" THEN @ + 1 ELSE @]
  /\ running' = NoTimer
  /\ UNCHANGED <<timers, nextId>>

\* The callback threw an object JSON.stringify rejects (a cycle, a BigInt):
\* console.error throws inside the catch, and the lines after it never run.
CallbackThrowsUnprintable ==
  /\ Unprintable
  /\ running # NoTimer
  /\ running' = NoTimer
  /\ UNCHANGED <<timers, sleeps, nextId>>

(***************************************************************************)
(* The component by itself: any script, and a worker that may end the task *)
(* whenever no callback is on the stack.                                   *)
(***************************************************************************)

TimersNext ==
  \/ \E kind \in Kinds : Schedule(kind)
  \/ \E id \in Ids : ClearTimer(id)
  \/ running = NoTimer /\ CancelTimers
  \/ \E id \in Ids : WakeCancelled(id) \/ WakeFires(id)
  \/ CallbackReturns
  \/ CallbackThrowsUnprintable

TimersSpec == TimersInit /\ [][TimersNext]_timerVars

(***************************************************************************)
(* Properties.                                                             *)
(***************************************************************************)

\* A timer never has two sleeps outstanding, and none while its callback is on
\* the stack: an interval re-armed twice, or an id handed out again while an
\* old sleep still carries it, would fire the callback twice (timers.rs, arm).
OneSleepEach ==
  /\ \A id \in Ids : sleeps[id] <= 1
  /\ running # NoTimer => sleeps[running] = 0

\* A timeout in the map always has the sleep that will fire it: no timeout is
\* armed and forgotten, whatever was cleared or thrown meanwhile.
TimeoutsStayArmed ==
  \A id \in Ids : timers[id] = "timeout" => sleeps[id] = 1

\* The same of intervals between two callbacks.  It holds as long as every
\* thrown value can be printed; CallbackThrowsUnprintable breaks it.
IntervalsStayArmed ==
  \A id \in Ids : timers[id] = "interval" /\ running # id => sleeps[id] = 1

\* An id that left the map (cleared, cancelled or a timeout that fired) is
\* never in it again and never starts a callback, although its sleep may still
\* be outstanding: the map lookup in the continuation and ids that only grow
\* make a cleared timer stay silent.
RemovalIsFinal ==
  \A id \in Ids : id < nextId /\ timers[id] = "absent" =>
    /\ timers'[id] = "absent"
    /\ running' = id => running = id

RemovedStaysSilent == [][RemovalIsFinal]_timerVars
=============================================================================
