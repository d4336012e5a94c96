---------------------------- MODULE TimersProofs ----------------------------
(***************************************************************************)
(* The safety properties of Timers, proved for any number of timers.       *)
(***************************************************************************)
EXTENDS Timers, TLAPS

\* Ids not handed out yet have no entry and no sleep: what makes an id fresh.
FreshIdsUnused ==
  \A id \in Ids : id >= nextId => timers[id] = "absent" /\ sleeps[id] = 0 /\ running # id

TimersInv == TimersTypeOK /\ OneSleepEach /\ TimeoutsStayArmed /\ FreshIdsUnused

\* The invariant holds when timers.rs has just been set up.
LEMMA TimersInvInit == TimersInit => TimersInv
BY MaxTimersAssumption
   DEF TimersInit, TimersInv, TimersTypeOK, OneSleepEach, TimeoutsStayArmed, FreshIdsUnused,
       Ids, NoTimer, Kinds

\* Every operation of timers.rs preserves it.
LEMMA TimersInvStep == TimersInv /\ [TimersNext]_timerVars => TimersInv'
<1> SUFFICES ASSUME TimersInv, [TimersNext]_timerVars PROVE TimersInv'
  OBVIOUS
<1> USE MaxTimersAssumption
    DEF TimersInv, TimersTypeOK, OneSleepEach, TimeoutsStayArmed, FreshIdsUnused, Ids, NoTimer,
        Kinds
<1>1. CASE \E kind \in Kinds : Schedule(kind)
  <2>1. PICK kind \in Kinds : Schedule(kind)
    BY <1>1
  <2>2. running # nextId
    BY <2>1 DEF Schedule
  <2>3. TimersTypeOK'
    BY <2>1 DEF Schedule
  <2>4. OneSleepEach'
    BY <2>1, <2>2 DEF Schedule
  <2>5. TimeoutsStayArmed'
    BY <2>1 DEF Schedule
  <2>6. FreshIdsUnused'
    BY <2>1 DEF Schedule
  <2> QED
    BY <2>3, <2>4, <2>5, <2>6
<1>2. CASE \E id \in Ids : ClearTimer(id)
  BY <1>2 DEF ClearTimer
<1>3. CASE CancelTimers
  BY <1>3 DEF CancelTimers
<1>4. CASE \E id \in Ids : WakeCancelled(id)
  BY <1>4 DEF WakeCancelled
<1>5. CASE \E id \in Ids : WakeFires(id)
  BY <1>5 DEF WakeFires
<1>6. CASE CallbackReturns
  BY <1>6 DEF CallbackReturns
<1>7. CASE CallbackThrowsUnprintable
  BY <1>7 DEF CallbackThrowsUnprintable
<1>8. CASE UNCHANGED timerVars
  BY <1>8 DEF timerVars
<1> QED
  BY <1>1, <1>2, <1>3, <1>4, <1>5, <1>6, <1>7, <1>8 DEF TimersNext

\* The four variables keep their types: ids stay within the bound, no sleep is
\* counted below zero.
THEOREM TimersTypeCorrect == TimersSpec => []TimersTypeOK
<1>1. TimersInv => TimersTypeOK
  BY DEF TimersInv
<1> QED
  BY <1>1, TimersInvInit, TimersInvStep, PTL DEF TimersSpec

\* No timer ever has two sleeps outstanding, nor one while its callback is on the
\* stack, for any script: no callback is called twice for one arming.
THEOREM TimersSleepOnce == TimersSpec => []OneSleepEach
<1>1. TimersInv => OneSleepEach
  BY DEF TimersInv
<1> QED
  BY <1>1, TimersInvInit, TimersInvStep, PTL DEF TimersSpec

\* No timeout in the map lacks the sleep that will fire it, for any script, also
\* one whose callbacks throw what cannot be printed.
THEOREM TimersTimeoutsArmed == TimersSpec => []TimeoutsStayArmed
<1>1. TimersInv => TimeoutsStayArmed
  BY DEF TimersInv
<1> QED
  BY <1>1, TimersInvInit, TimersInvStep, PTL DEF TimersSpec

\* One step keeps every interval armed, where callbacks throw only what can be
\* printed.  The sleep added when a callback returns is the only one (OneSleepEach).
LEMMA IntervalsStep ==
  ASSUME Unprintable = FALSE
  PROVE  TimersInv /\ IntervalsStayArmed /\ [TimersNext]_timerVars => IntervalsStayArmed'
<1> SUFFICES ASSUME TimersInv, IntervalsStayArmed, [TimersNext]_timerVars
             PROVE  IntervalsStayArmed'
  OBVIOUS
<1> USE MaxTimersAssumption
    DEF TimersInv, TimersTypeOK, OneSleepEach, FreshIdsUnused, IntervalsStayArmed, Ids, NoTimer,
        Kinds
<1>1. CASE \E kind \in Kinds : Schedule(kind)
  BY <1>1 DEF Schedule
<1>2. CASE \E id \in Ids : ClearTimer(id)
  BY <1>2 DEF ClearTimer
<1>3. CASE CancelTimers
  BY <1>3 DEF CancelTimers
<1>4. CASE \E id \in Ids : WakeCancelled(id)
  BY <1>4 DEF WakeCancelled
<1>5. CASE \E id \in Ids : WakeFires(id)
  BY <1>5 DEF WakeFires
<1>6. CASE CallbackReturns
  BY <1>6 DEF CallbackReturns
<1>7. CASE UNCHANGED timerVars
  BY <1>7 DEF timerVars
<1> QED
  BY <1>1, <1>2, <1>3, <1>4, <1>5, <1>6, <1>7 DEF TimersNext, CallbackThrowsUnprintable

\* Between two callbacks no interval in the map lacks its sleep, whatever its
\* callback cleared, armed or threw, as long as what it throws can be printed.
\* Without that hypothesis it is false: the lines after the catch are not reached.
THEOREM TimersIntervalsArmed ==
  ASSUME Unprintable = FALSE PROVE TimersSpec => []IntervalsStayArmed
<1>1. TimersInit => IntervalsStayArmed
  BY DEF TimersInit, IntervalsStayArmed
<1>2. TimersInv /\ IntervalsStayArmed /\ [TimersNext]_timerVars => IntervalsStayArmed'
  BY IntervalsStep
<1> QED
  BY <1>1, <1>2, TimersInvInit, TimersInvStep, PTL DEF TimersSpec

\* One step does not bring a removed timer back, nor call its callback.
LEMMA RemovalIsFinalStep == TimersInv /\ [TimersNext]_timerVars => [RemovalIsFinal]_timerVars
<1> USE MaxTimersAssumption DEF TimersInv, TimersTypeOK, Ids, NoTimer, Kinds
<1> SUFFICES ASSUME TimersInv, TimersNext,
                    NEW id \in Ids, id < nextId, timers[id] = "absent"
             PROVE  timers'[id] = "absent" /\ (running' = id => running = id)
  BY DEF RemovalIsFinal
<1>1. CASE \E kind \in Kinds : Schedule(kind)
  BY <1>1 DEF Schedule
<1>2. CASE \E i \in Ids : ClearTimer(i)
  BY <1>2 DEF ClearTimer
<1>3. CASE CancelTimers
  BY <1>3 DEF CancelTimers
<1>4. CASE \E i \in Ids : WakeCancelled(i)
  BY <1>4 DEF WakeCancelled
<1>5. CASE \E i \in Ids : WakeFires(i)
  BY <1>5 DEF WakeFires
<1>6. CASE CallbackReturns
  BY <1>6 DEF CallbackReturns
<1>7. CASE CallbackThrowsUnprintable
  BY <1>7 DEF CallbackThrowsUnprintable
<1> QED
  BY <1>1, <1>2, <1>3, <1>4, <1>5, <1>6, <1>7 DEF TimersNext

\* A timer that was cleared, cancelled or has fired as a timeout never starts a
\* callback again and never returns to the map, for any script and any order in
\* which the outstanding sleeps end.
THEOREM TimersRemovedStaySilent == TimersSpec => RemovedStaysSilent
<1> QED
  BY TimersInvInit, TimersInvStep, RemovalIsFinalStep, PTL DEF TimersSpec, RemovedStaysSilent
=============================================================================
