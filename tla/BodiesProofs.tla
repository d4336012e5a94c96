------------------------------ MODULE BodiesProofs ------------------------------
(***************************************************************************)
(* Proofs about Bodies, for any number of objects, readers, chunks and     *)
(* reads, over the invariants of the one stream they share.                *)
(***************************************************************************)
EXTENDS Bodies, ReadableStreamProofs, FiniteSetTheorems

\* Before the stream is there nobody used it.
UnmadeIsFresh ==
  /\ ~made =>
       /\ state = "readable" /\ queue = <<>> /\ ~closeRequested /\ sent = 0
       /\ reader = NoReader /\ \A r \in Readers : Unused(r)
  /\ \A o \in Objects : body[o] = "stream" => made

\* An object whose body was not asked for has no loop; who has a reader got it from
\* the stream, and keeps it.
LoopsBegin ==
  \A o \in Objects :
    /\ class[o] = "none" \/ (class[o] # "fetch" /\ ~used[o]) =>
         outcome[o] = "none" /\ holds[o] = NoReader /\ awaits[o] = 0 /\ chunks[o] = <<>>
    /\ holds[o] # NoReader => ~Unused(holds[o])

\* Only a loop that reads has the stack or awaits a read, one that it called.
LoopsGoOn ==
  /\ stack # NoObject => outcome[stack] = "reading"
  /\ \A o \in Objects : awaits[o] # 0 => outcome[o] = "reading" /\ awaits[o] <= issued

\* A closed stream met its marker, and no reader was made around getReader.
OrderlyStream ==
  /\ state = "closed" /\ ~cancelled => closeRequested
  /\ direct = {}

\* The one read a loop awaits is the one that waits in its reader.
HasAwaited(o) ==
  requests[holds[o]] = IF awaits[o] # 0 /\ status[awaits[o]] = "pending"
                       THEN <<awaits[o]>> ELSE <<>>

AwaitedWaits ==
  ~cancelled /\ ~pullThrew => \A o \in Objects : holds[o] # NoReader => HasAwaited(o)

\* How far a loop is: the chunks it has are those after the ones others had, and
\* nothing was taken but by it.
Covered(o) == before[o] + Len(chunks[o])

IsOver(o) == sent = Covered(o) /\ closeRequested /\ state = "closed"

InStep(o) ==
  /\ \A i \in 1 .. Len(chunks[o]) : chunks[o][i] = before[o] + i
  /\ outcome[o] = "reading" /\ awaits[o] = 0 /\ state # "errored" => Taken = Covered(o)
  /\ awaits[o] # 0 =>
       /\ status[awaits[o]] = "pending" => state = "readable" /\ Taken = Covered(o)
       /\ status[awaits[o]] = "chunk" =>
            /\ got[awaits[o]] = Covered(o) + 1
            /\ state # "errored" => Taken = Covered(o) + 1
       /\ status[awaits[o]] = "done" => IsOver(o)
  /\ outcome[o] = "whole" => IsOver(o)

LoopsInStep ==
  ~cancelled /\ ~pullThrew => \A o \in Objects : holds[o] # NoReader => InStep(o)

BodiesInv ==
  /\ StreamInv
  /\ BodiesTypeOK
  /\ UnmadeIsFresh
  /\ LoopsBegin
  /\ LoopsGoOn
  /\ OrderlyStream
  /\ OneConsumes
  /\ AwaitedWaits
  /\ LoopsInStep
-----------------------------------------------------------------------------
(* The stream under the objects.                                           *)

\* The chunks that were read are counted by what left the queue.
LEMMA ReadSoFarIsTaken ==
  StreamInv => /\ ReadSoFar \in 0 .. MaxChunks
               /\ state # "errored" /\ ~pullThrew => ReadSoFar = Taken
<1> SUFFICES ASSUME StreamInv
             PROVE  /\ ReadSoFar \in 0 .. MaxChunks
                    /\ state # "errored" /\ ~pullThrew => ReadSoFar = Taken
  OBVIOUS
<1> DEFINE S == {i \in Reads : status[i] = "chunk"}
           f == [i \in S |-> got[i]]
<1>1. Taken \in 0 .. MaxChunks
  BY BoundsAssumption DEF StreamInv, StreamTypeOK, QueueInOrder, Taken, Kept, Marked
<1>2. IsFiniteSet(1 .. Taken) /\ Cardinality(1 .. Taken) = Taken
  BY <1>1, FS_Interval
<1>3. f \in Injection(S, 1 .. Taken)
  <2>1. f \in [S -> 1 .. Taken]
    BY DEF StreamInv, TakenWereRead
  <2>2. ASSUME NEW i \in S, NEW j \in S, i # j PROVE f[i] # f[j]
    <3>1. i < j \/ j < i
      BY <2>2, BoundsAssumption DEF Reads
    <3>2. got[i] \in Nat /\ got[j] \in Nat
      BY <1>1 DEF StreamInv, TakenWereRead
    <3> QED
      BY <3>1, <3>2 DEF StreamInv, ReadsInOrder
  <2> QED
    BY <2>1, <2>2 DEF Injection, IsInjective
<1>4. /\ IsFiniteSet(S) /\ Cardinality(S) <= Taken
      /\ Cardinality(S) = Taken <=> f \in Surjection(S, 1 .. Taken)
  BY <1>2, <1>3, FS_Injection
<1>5. Cardinality(S) \in Nat
  BY <1>4, FS_CardinalityType
<1>6. state # "errored" /\ ~pullThrew => f \in Surjection(S, 1 .. Taken)
  BY <1>3 DEF StreamInv, TakenWereRead, Surjection, Injection
<1>7. ReadSoFar = Cardinality(S)
  BY DEF ReadSoFar
<1> HIDE DEF S, f
<1> QED
  BY <1>1, <1>4, <1>5, <1>6, <1>7, BoundsAssumption

\* A stream that a response makes of its bytes starts with one chunk and the end.
LEMMA GetBodyStream ==
  StreamInv /\ UnmadeIsFresh /\ (\E o \in Objects : GetBody(o)) => StreamInv'
<1> SUFFICES ASSUME StreamInv, UnmadeIsFresh, NEW o \in Objects, GetBody(o) PROVE StreamInv'
  OBVIOUS
<1> USE BoundsAssumption, ChunksAssumption
<1>1. /\ queue = <<>> /\ sent = 0 /\ reader = NoReader /\ state = "readable"
      /\ queue' = <<1, Close>> /\ sent' = 1 /\ closeRequested'
      /\ UNCHANGED <<state, reader, attached, requests, closed, issued, status, got, direct,
                     cancelled, pullThrew>>
  BY DEF GetBody, UnmadeIsFresh, readerVars, readVars, histVars
<1>2. /\ Len(queue') = 2 /\ queue'[1] = 1 /\ queue'[2] = Close /\ queue' # <<>>
      /\ queue' \in Seq(Chunks \cup {Close}) /\ Last(queue') = Close
  BY <1>1 DEF Chunks, Close, Last
<1>3. Marked' /\ Kept' = 1 /\ Taken' = 0
  BY <1>1, <1>2 DEF Marked, Kept, Taken
<1>4. Taken = 0
  <2>1. Len(queue) = 0 /\ ~Marked
    BY <1>1 DEF Marked
  <2>2. Kept = 0
    BY <2>1 DEF Kept
  <2> QED
    BY <1>1, <2>2 DEF Taken
<1>5. StreamTypeOK'
  BY <1>1, <1>2 DEF StreamInv, StreamTypeOK, Close
<1>6. UnusedIsFresh' /\ RequestsInOrder'
  BY <1>1 DEF StreamInv, UnusedIsFresh, Unused, RequestsInOrder
<1>7. QueueInOrder'
  BY <1>1, <1>2, <1>3 DEF QueueInOrder
<1>8. NoLostWakeup' /\ WaitersAreNext' /\ LockIsHeld' /\ ReadsInOrder'
  BY <1>1 DEF StreamInv, NoLostWakeup, WaitersAreNext, LockIsHeld, ReadsInOrder
<1>9. TakenWereRead'
  BY <1>1, <1>3, <1>4 DEF StreamInv, TakenWereRead
<1> QED
  BY <1>5, <1>6, <1>7, <1>8, <1>9 DEF StreamInv

\* Every other step is one of the stream's, or leaves it alone.
LEMMA StreamOrBytes ==
  BodiesInv /\ [BodiesNext]_bodiesVars => [Next]_vars \/ \E o \in Objects : GetBody(o)
<1> SUFFICES ASSUME BodiesInv, [BodiesNext]_bodiesVars
             PROVE  [Next]_vars \/ \E o \in Objects : GetBody(o)
  OBVIOUS
<1>1. CASE StreamStep
  BY <1>1 DEF StreamStep, ScriptUsesStream, Own, Next, Consumer
<1>2. ASSUME NEW o \in Objects, NEW c, NEW kind, Begin(o, c, kind) PROVE [Next]_vars
  BY <1>2 DEF Begin, Ends, Next, Consumer
<1>3. ASSUME NEW o \in Objects, LoopReads(o) PROVE [Next]_vars
  <2>1. holds[o] \in Readers
    BY <1>3, ObjectsAssumption DEF BodiesInv, BodiesTypeOK, LoopsGoOn, LoopReads
  <2> QED
    BY <1>3, <2>1 DEF LoopReads, Next, Consumer
<1>4. ASSUME NEW o \in Objects,
             LoopResumes(o) \/ CallStep(o) \/ FetchForm(o)
             \/ \E copy \in Objects : Clone(o, copy) \/ RequestFrom(o, copy)
      PROVE  UNCHANGED vars
  BY <1>4
     DEF LoopResumes, Collects, Finishes, LoopEnds, CallStep, NativeFetch, HostAnswers, Becomes,
              FetchForm, Ends, Clone, RequestFrom
<1>5. CASE NewStream \/ UNCHANGED bodiesVars
  BY <1>5 DEF NewStream, bodiesVars
<1>6. ASSUME NEW o \in Objects, NEW kind, NEW c, Construct(o, c, kind) PROVE UNCHANGED vars
  BY <1>6 DEF Construct
<1> QED
  BY <1>1, <1>2, <1>3, <1>4, <1>5, <1>6 DEF BodiesNext, ObjectStep, Fetch, Consume

\* A reader that was made stays made, and reads that were called stay called.
LEMMA UsedStays ==
  StreamInv /\ [Next]_vars =>
    issued' >= issued /\ \A r \in Readers : ~Unused(r) => ~Unused(r)'
<1> SUFFICES ASSUME StreamInv, [Next]_vars
             PROVE  issued' >= issued /\ \A r \in Readers : ~Unused(r) => ~Unused(r)'
  OBVIOUS
<1> USE DEF StreamInv, StreamTypeOK, Unused, SettleClosed
<1>1. CASE Enqueue
  BY <1>1, EnqueueEffect DEF Enqueue, Stays, GoesToHead
<1>2. CASE CloseStream
  BY <1>2, CloseEffect DEF CloseStream, Stays, TellsAll
<1>3. CASE Error \/ StreamCancel \/ UNCHANGED vars
  BY <1>3 DEF Error, ErrorPending, StreamCancel, vars
<1>4. ASSUME NEW r \in Readers,
             GetReader(r) \/ DirectReader(r) \/ ReleaseLock(r) \/ ReaderCancel(r)
      PROVE  issued' >= issued /\ \A q \in Readers : ~Unused(q) => ~Unused(q)'
  BY <1>4 DEF GetReader, DirectReader, NewReader, ReleaseLock, ReaderCancel, Detached
<1>5. ASSUME NEW r \in Readers, Read(r)
      PROVE  issued' >= issued /\ \A q \in Readers : ~Unused(q) => ~Unused(q)'
  BY <1>5 DEF Read, ReadRejected, ReadQueued, ReadClosed, ReadWaits, ReadPullThrows, CallRead
<1> QED
  BY <1>1, <1>2, <1>3, <1>4, <1>5 DEF Next, Source, Consumer

-----------------------------------------------------------------------------
(* The steps, as the invariants tell them apart.                           *)

\* Nobody asked for the body of this object.
Fresh(o) == class[o] = "none" \/ (class[o] # "fetch" /\ ~used[o])

MakesObject ==
  /\ \E o \in Objects, c \in {"Response", "Request"}, kind \in BodyKinds :
       /\ class[o] = "none" /\ (kind = "stream" => made)
       /\ class' = [class EXCEPT ![o] = c]
       /\ body' = [body EXCEPT ![o] = kind]
  /\ UNCHANGED <<vars, used, loopVars, call, stack, made>>

\* The body of o is asked for, and is used from now on.
Asked(o) ==
  /\ stack = NoObject /\ Fresh(o)
  /\ \E c \in {"Response", "Request", "fetch"}, kind \in BodyKinds, u \in BOOLEAN :
       /\ (kind = "stream" => made) /\ (c = "fetch" \/ u)
       /\ class' = [class EXCEPT ![o] = c]
       /\ body' = [body EXCEPT ![o] = kind]
       /\ used' = [used EXCEPT ![o] = u]
  /\ UNCHANGED call

\* There is nothing to wait for, or a loop begins.
EndsAtOnce(o) == \E how \in {"whole", "failed", "locked", "stringified"} : Ends(o, how)

StartsLoop(o, r) ==
  /\ GetReader(r) /\ made
  /\ holds' = [holds EXCEPT ![o] = r]
  /\ before' = [before EXCEPT ![o] = ReadSoFar]
  /\ outcome' = [outcome EXCEPT ![o] = "reading"]
  /\ stack' = o
  /\ UNCHANGED <<awaits, chunks, made>>

GetsStream == (NewStream \/ \E o \in Objects : GetBody(o)) /\ UNCHANGED call

UsesStream == StreamStep /\ UNCHANGED call

Loops(o) ==
  /\ LoopReads(o) \/ (Answered(o) /\ (Collects(o) \/ Finishes(o)))
  /\ UNCHANGED call

Calls(o) == \E how \in {"sent", "resolved", "rejected"} : Becomes(o, how)

\* What Consume and Fetch do beside marking the body.
LEMMA BeginEffect ==
  ASSUME NEW o \in Objects, NEW c, NEW kind, Begin(o, c, kind), kind = "stream" => made
  PROVE  EndsAtOnce(o) \/ \E r \in Readers : StartsLoop(o, r)
BY Zenon DEF Begin, EndsAtOnce, StartsLoop

\* Every step is one of these.
LEMMA BodiesCases ==
  BodiesInv /\ [BodiesNext]_bodiesVars =>
    \/ MakesObject
    \/ \E o \in Objects :
         \/ Asked(o) /\ (EndsAtOnce(o) \/ \E r \in Readers : StartsLoop(o, r))
         \/ Loops(o)
         \/ Calls(o)
    \/ GetsStream \/ UsesStream \/ UNCHANGED bodiesVars
<1> SUFFICES ASSUME BodiesInv, [BodiesNext]_bodiesVars
             PROVE  \/ MakesObject
                    \/ \E o \in Objects :
                         \/ Asked(o) /\ (EndsAtOnce(o) \/ \E r \in Readers : StartsLoop(o, r))
                         \/ Loops(o)
                         \/ Calls(o)
                    \/ GetsStream \/ UsesStream \/ UNCHANGED bodiesVars
  OBVIOUS
<1> USE DEF BodiesInv, BodiesTypeOK
<1>1. ASSUME NEW o \in Objects, NEW kind \in BodyKinds, NEW c \in {"Response", "Request"},
             Construct(o, c, kind), UNCHANGED call
      PROVE  MakesObject
  BY <1>1 DEF Construct, Make, MakesObject
<1>2. ASSUME NEW o \in Objects, NEW copy \in Objects, Clone(o, copy) \/ RequestFrom(o, copy),
             UNCHANGED call
      PROVE  MakesObject
  BY <1>2 DEF Clone, RequestFrom, Make, MakesObject, UnmadeIsFresh
<1>3. ASSUME NEW o \in Objects, NEW kind \in BodyKinds, Fetch(o, kind), UNCHANGED call
      PROVE  Asked(o) /\ (EndsAtOnce(o) \/ \E r \in Readers : StartsLoop(o, r))
  <2>1. used = [used EXCEPT ![o] = used[o]] /\ used[o] \in BOOLEAN
    OBVIOUS
  <2>2. Asked(o)
    BY <1>3, <2>1 DEF Fetch, Asked, Fresh
  <2> QED
    BY <1>3, <2>2, BeginEffect DEF Fetch
<1>4. ASSUME NEW o \in Objects, FetchForm(o), UNCHANGED call
      PROVE  Asked(o) /\ EndsAtOnce(o)
  <2>1. /\ used = [used EXCEPT ![o] = used[o]] /\ used[o] \in BOOLEAN
        /\ body = [body EXCEPT ![o] = body[o]] /\ body[o] \in BodyKinds
    OBVIOUS
  <2> QED
    BY <1>4, <2>1 DEF FetchForm, Asked, Fresh, EndsAtOnce, UnmadeIsFresh
<1>5. ASSUME NEW o \in Objects, Consume(o), UNCHANGED call
      PROVE  Asked(o) /\ (EndsAtOnce(o) \/ \E r \in Readers : StartsLoop(o, r))
  <2>1. /\ class = [class EXCEPT ![o] = class[o]]
        /\ body = [body EXCEPT ![o] = body[o]] /\ body[o] \in BodyKinds
    OBVIOUS
  <2>2. Asked(o)
    BY <1>5, <2>1 DEF Consume, Asked, Fresh, UnmadeIsFresh
  <2> QED
    BY <1>5, <2>2, BeginEffect DEF Consume, UnmadeIsFresh
<1>6. ASSUME NEW o \in Objects, CallStep(o) PROVE Calls(o)
  BY <1>6 DEF CallStep, NativeFetch, HostAnswers, Calls
<1>7. ASSUME NEW o \in Objects, LoopReads(o) \/ LoopResumes(o), UNCHANGED call PROVE Loops(o)
  BY <1>7 DEF LoopResumes, Loops
<1> QED
  BY <1>1, <1>2, <1>3, <1>4, <1>5, <1>6, <1>7 DEF BodiesNext, ObjectStep, GetsStream, UsesStream

\* Every step keeps the types, and the readers apart.
LEMMA BodiesTypeStep == BodiesInv /\ [BodiesNext]_bodiesVars => BodiesTypeOK'
<1> SUFFICES ASSUME BodiesInv, [BodiesNext]_bodiesVars PROVE BodiesTypeOK'
  OBVIOUS
<1> USE BoundsAssumption, ObjectsAssumption, ReadersAssumption
    DEF BodiesInv, BodiesTypeOK, BodyKinds
<1>1. CASE MakesObject
  <2>1. PICK o \in Objects, c \in {"Response", "Request"}, kind \in BodyKinds :
          class' = [class EXCEPT ![o] = c] /\ body' = [body EXCEPT ![o] = kind]
    BY <1>1 DEF MakesObject
  <2>2. class' \in [Objects -> {"none", "Response", "Request", "fetch"}]
    BY <2>1
  <2>3. body' \in [Objects -> BodyKinds]
    BY <2>1
  <2> QED
    BY <1>1, <2>2, <2>3 DEF MakesObject, objectVars, loopVars
<1>2. ASSUME NEW o \in Objects, Asked(o), EndsAtOnce(o) PROVE BodiesTypeOK'
  <2>1. /\ class' \in [Objects -> {"none", "Response", "Request", "fetch"}]
        /\ body' \in [Objects -> BodyKinds] /\ used' \in [Objects -> BOOLEAN]
        /\ UNCHANGED call
    BY <1>2 DEF Asked
  <2>2. PICK how \in {"whole", "failed", "locked", "stringified"} : Ends(o, how)
    BY <1>2 DEF EndsAtOnce
  <2>3. /\ outcome' = [outcome EXCEPT ![o] = how]
        /\ UNCHANGED <<holds, awaits, chunks, before, stack, made>>
    BY <2>2 DEF Ends
  <2> QED
    BY <2>1, <2>3
<1>3. ASSUME NEW o \in Objects, NEW r \in Readers, Asked(o), StartsLoop(o, r) PROVE BodiesTypeOK'
  <2>1. /\ awaits[o] = 0 /\ stack = NoObject /\ r # NoReader
        /\ \A p \in Objects : holds[p] # r
    BY <1>3 DEF Asked, Fresh, StartsLoop, LoopsBegin, GetReader, NewReader, Unused
  <2>2. ReadSoFar \in 0 .. MaxChunks
    BY ReadSoFarIsTaken
  <2>3. /\ holds' = [holds EXCEPT ![o] = r] /\ before' = [before EXCEPT ![o] = ReadSoFar]
        /\ outcome' = [outcome EXCEPT ![o] = "reading"] /\ stack' = o
        /\ UNCHANGED <<awaits, chunks, made>>
    BY <1>3 DEF StartsLoop
  <2> QED
    BY <1>3, <2>1, <2>2, <2>3 DEF Asked
<1>4. ASSUME NEW o \in Objects, LoopReads(o), UNCHANGED call PROVE BodiesTypeOK'
  <2>1. issued + 1 \in 1 .. MaxReads
    BY <1>4 DEF LoopReads, Read, ReadRejected, ReadQueued, ReadClosed, ReadWaits, ReadPullThrows,
                CallRead, StreamInv, StreamTypeOK
  <2> QED
    BY <1>4, <2>1 DEF LoopReads, objectVars
<1>5. ASSUME NEW o \in Objects, Answered(o), Collects(o), UNCHANGED call PROVE BodiesTypeOK'
  <2>1. got[awaits[o]] \in Chunks
    BY <1>5 DEF Answered, Collects, Chunks, Reads, StreamInv, StreamTypeOK, TakenWereRead
  <2>2. outcome[o] = "reading" /\ awaits[o] # 0 /\ stack = NoObject
    BY <1>5 DEF Answered, LoopsGoOn
  <2> QED
    BY <1>5, <2>1, <2>2 DEF Collects, objectVars
<1>6. ASSUME NEW o \in Objects, Answered(o), Finishes(o), UNCHANGED call PROVE BodiesTypeOK'
  <2>1. outcome[o] = "reading" /\ awaits[o] # 0 /\ stack = NoObject
    BY <1>6 DEF Answered, LoopsGoOn
  <2>2. PICK how \in {"whole", "failed"} : LoopEnds(o, how)
    BY <1>6 DEF Finishes
  <2> QED
    BY <1>6, <2>1, <2>2 DEF LoopEnds, objectVars
<1>7. ASSUME NEW o \in Objects, Calls(o) PROVE BodiesTypeOK'
  BY <1>7 DEF Calls, Becomes, objectVars, loopVars
<1>8. CASE GetsStream
  BY <1>8 DEF GetsStream, NewStream, GetBody, objectVars, loopVars
<1>9. CASE UsesStream
  BY <1>9 DEF UsesStream, StreamStep, objectVars, loopVars
<1>10. CASE UNCHANGED bodiesVars
  BY <1>10 DEF bodiesVars, objectVars, loopVars
<1> QED
  BY <1>1, <1>2, <1>3, <1>4, <1>5, <1>6, <1>7, <1>8, <1>9, <1>10, BodiesCases DEF Loops

\* Nobody uses the stream before it is there.
LEMMA UnmadeStep == BodiesInv /\ [BodiesNext]_bodiesVars => UnmadeIsFresh'
<1> SUFFICES ASSUME BodiesInv, [BodiesNext]_bodiesVars PROVE UnmadeIsFresh'
  OBVIOUS
<1> USE ObjectsAssumption DEF BodiesInv, BodiesTypeOK, UnmadeIsFresh
<1>1. CASE MakesObject
  BY <1>1
     DEF MakesObject, objectVars, loopVars, vars, queueVars, readerVars, readVars, histVars, Unused
<1>2. ASSUME NEW o \in Objects, Asked(o), EndsAtOnce(o) PROVE UnmadeIsFresh'
  BY <1>2
     DEF Asked, EndsAtOnce, Ends, objectVars, loopVars, vars, queueVars, readerVars, readVars,
         histVars, Unused
<1>3. ASSUME NEW o \in Objects, NEW r \in Readers, Asked(o), StartsLoop(o, r) PROVE UnmadeIsFresh'
  BY <1>3
     DEF Asked, StartsLoop, objectVars, loopVars, vars, queueVars, readerVars, readVars, histVars,
         Unused
<1>4. ASSUME NEW o \in Objects, LoopReads(o), UNCHANGED call PROVE UnmadeIsFresh'
  <2>1. holds[o] \in Readers
    BY <1>4 DEF LoopReads, LoopsGoOn
  <2>2. made
    BY <2>1, ReadersAssumption DEF LoopsBegin
  <2> QED
    BY <1>4, <2>2 DEF LoopReads, objectVars
<1>5. ASSUME NEW o \in Objects, Answered(o), Collects(o), UNCHANGED call PROVE UnmadeIsFresh'
  BY <1>5
     DEF Answered, Collects, objectVars, loopVars, vars, queueVars, readerVars, readVars, histVars,
         Unused
<1>6. ASSUME NEW o \in Objects, Answered(o), Finishes(o), UNCHANGED call PROVE UnmadeIsFresh'
  BY <1>6
     DEF Answered, Finishes, LoopEnds, objectVars, loopVars, vars, queueVars, readerVars, readVars,
         histVars, Unused
<1>7. ASSUME NEW o \in Objects, Calls(o) PROVE UnmadeIsFresh'
  BY <1>7
     DEF Calls, Becomes, objectVars, loopVars, vars, queueVars, readerVars, readVars, histVars,
         Unused
<1>8. CASE GetsStream
  BY <1>8
     DEF GetsStream, NewStream, GetBody, objectVars, loopVars, vars, queueVars, readerVars,
         readVars, histVars, Unused
<1>9. CASE UsesStream
  BY <1>9
     DEF UsesStream, StreamStep, objectVars, loopVars, vars, queueVars, readerVars, readVars,
         histVars, Unused
<1>10. CASE UNCHANGED bodiesVars
  BY <1>10
     DEF bodiesVars, objectVars, loopVars, vars, queueVars, readerVars, readVars, histVars, Unused
<1> QED
  BY <1>1, <1>2, <1>3, <1>4, <1>5, <1>6, <1>7, <1>8, <1>9, <1>10, BodiesCases DEF Loops

\* Loops begin once, with a reader of their own.
LEMMA LoopsBeginStep == BodiesInv /\ [BodiesNext]_bodiesVars => LoopsBegin'
<1> SUFFICES ASSUME BodiesInv, [BodiesNext]_bodiesVars PROVE LoopsBegin'
  OBVIOUS
<1> USE ObjectsAssumption DEF BodiesInv, BodiesTypeOK, LoopsBegin
<1>1. CASE MakesObject
  BY <1>1 DEF MakesObject, objectVars, loopVars, vars, queueVars, readerVars, Unused, SettleClosed
<1>2. ASSUME NEW o \in Objects, Asked(o), EndsAtOnce(o) PROVE LoopsBegin'
  BY <1>2
     DEF Asked, EndsAtOnce, Ends, objectVars, loopVars, vars, queueVars, readerVars, Unused,
         SettleClosed, Fresh
<1>3. ASSUME NEW o \in Objects, NEW r \in Readers, Asked(o), StartsLoop(o, r) PROVE LoopsBegin'
  BY <1>3
     DEF Asked, StartsLoop, objectVars, loopVars, vars, queueVars, readerVars, Unused,
         SettleClosed, Fresh, GetReader, NewReader, StreamInv, StreamTypeOK
<1>4. ASSUME NEW o \in Objects, LoopReads(o), UNCHANGED call PROVE LoopsBegin'
  BY <1>4
     DEF LoopReads, objectVars, loopVars, vars, queueVars, readerVars, Unused, SettleClosed, Read,
         ReadRejected, ReadQueued, ReadClosed, ReadWaits, ReadPullThrows, StreamInv, StreamTypeOK,
         LoopsGoOn
<1>5. ASSUME NEW o \in Objects, Answered(o), Collects(o), UNCHANGED call PROVE LoopsBegin'
  BY <1>5
     DEF Answered, Collects, objectVars, loopVars, vars, queueVars, readerVars, Unused,
         SettleClosed, LoopsGoOn
<1>6. ASSUME NEW o \in Objects, Answered(o), Finishes(o), UNCHANGED call PROVE LoopsBegin'
  BY <1>6
     DEF Answered, Finishes, LoopEnds, objectVars, loopVars, vars, queueVars, readerVars, Unused,
         SettleClosed, LoopsGoOn
<1>7. ASSUME NEW o \in Objects, Calls(o) PROVE LoopsBegin'
  BY <1>7
     DEF Calls, Becomes, objectVars, loopVars, vars, queueVars, readerVars, Unused, SettleClosed
<1>8. CASE GetsStream
  BY <1>8
     DEF GetsStream, NewStream, GetBody, objectVars, loopVars, vars, queueVars, readerVars, Unused,
         SettleClosed
<1>9. CASE UsesStream
  <2>1. Next
    BY <1>9 DEF UsesStream, StreamStep, ScriptUsesStream, Own, Next, Consumer
  <2> QED
    BY <1>9, <2>1, UsedStays DEF UsesStream, StreamStep, objectVars, loopVars
<1>10. CASE UNCHANGED bodiesVars
  BY <1>10 DEF bodiesVars, objectVars, loopVars, vars, queueVars, readerVars, Unused, SettleClosed
<1> QED
  BY <1>1, <1>2, <1>3, <1>4, <1>5, <1>6, <1>7, <1>8, <1>9, <1>10, BodiesCases DEF Loops

\* Only a loop that reads has the stack or awaits a read.
LEMMA LoopsGoOnStep == BodiesInv /\ [BodiesNext]_bodiesVars => LoopsGoOn'
<1> SUFFICES ASSUME BodiesInv, [BodiesNext]_bodiesVars PROVE LoopsGoOn'
  OBVIOUS
<1> USE ObjectsAssumption DEF BodiesInv, BodiesTypeOK, LoopsGoOn
<1>1. CASE MakesObject
  BY <1>1 DEF MakesObject, objectVars, loopVars, vars, queueVars, readerVars
<1>2. ASSUME NEW o \in Objects, Asked(o), EndsAtOnce(o) PROVE LoopsGoOn'
  BY <1>2
     DEF Asked, EndsAtOnce, Ends, objectVars, loopVars, vars, queueVars, readerVars, Fresh,
         LoopsBegin
<1>3. ASSUME NEW o \in Objects, NEW r \in Readers, Asked(o), StartsLoop(o, r) PROVE LoopsGoOn'
  BY <1>3
     DEF Asked, StartsLoop, objectVars, loopVars, vars, queueVars, readerVars, Fresh, LoopsBegin,
         GetReader, NewReader
<1>4. ASSUME NEW o \in Objects, LoopReads(o), UNCHANGED call PROVE LoopsGoOn'
  BY <1>4
     DEF LoopReads, objectVars, loopVars, vars, queueVars, readerVars, Read, ReadRejected,
         ReadQueued, ReadClosed, ReadWaits, ReadPullThrows, CallRead, StreamInv, StreamTypeOK
<1>5. ASSUME NEW o \in Objects, Answered(o), Collects(o), UNCHANGED call PROVE LoopsGoOn'
  BY <1>5 DEF Answered, Collects, objectVars, loopVars, vars, queueVars, readerVars
<1>6. ASSUME NEW o \in Objects, Answered(o), Finishes(o), UNCHANGED call PROVE LoopsGoOn'
  <2>1. PICK how \in {"whole", "failed"} : LoopEnds(o, how)
    BY <1>6 DEF Finishes
  <2> QED
    BY <1>6, <2>1 DEF Answered, LoopEnds, vars
<1>7. ASSUME NEW o \in Objects, Calls(o) PROVE LoopsGoOn'
  BY <1>7 DEF Calls, Becomes, objectVars, loopVars, vars, queueVars, readerVars
<1>8. CASE GetsStream
  BY <1>8 DEF GetsStream, NewStream, GetBody, objectVars, loopVars, vars, queueVars, readerVars
<1>9. CASE UsesStream
  <2>1. Next
    BY <1>9 DEF UsesStream, StreamStep, ScriptUsesStream, Own, Next, Consumer
  <2>2. LoopsGoOn'
    <3>1. issued \in Nat /\ issued' >= issued /\ issued' \in Int
      BY <2>1, UsedStays, StreamInvStep DEF StreamInv, StreamTypeOK
    <3>2. /\ UNCHANGED <<outcome, awaits, stack>>
          /\ \A o \in Objects : awaits[o] \in Int
      BY <1>9 DEF UsesStream, StreamStep, loopVars
    <3> QED
      BY <3>1, <3>2
  <2> QED
    BY <2>2
<1>10. CASE UNCHANGED bodiesVars
  BY <1>10 DEF bodiesVars, objectVars, loopVars, vars, queueVars, readerVars
<1> QED
  BY <1>1, <1>2, <1>3, <1>4, <1>5, <1>6, <1>7, <1>8, <1>9, <1>10, BodiesCases DEF Loops

-----------------------------------------------------------------------------
(* Who has the stream.                                                     *)

\* A stream that was cancelled stays so, as one whose pull threw.
LEMMA CancelledStays == [Next]_vars => (cancelled => cancelled') /\ (pullThrew => pullThrew')
BY
   DEF Next, Source, Consumer, Read, Enqueue, CloseStream, Error, GetReader, DirectReader,
       NewReader,
       ReleaseLock, ReaderCancel, Detached, ReadRejected, ReadQueued, ReadClosed, ReadWaits, ReadPullThrows,
       StreamCancel, vars, histVars

\* So in this specification too.
LEMMA FlagsStay ==
  BodiesInv /\ [BodiesNext]_bodiesVars => (cancelled => cancelled') /\ (pullThrew => pullThrew')
BY StreamOrBytes, CancelledStays DEF GetBody, histVars

\* While a loop has the lock, the script's other readers get nothing, and only the
\* source or a cancel change the stream.
LEMMA ScriptCalls ==
  ASSUME BodiesInv, UsesStream, ~cancelled', NEW o \in Objects, holds[o] # NoReader
  PROVE  /\ reader = holds[o] /\ ~cancelled
         /\ Enqueue \/ CloseStream \/ Error \/ \E r \in Own : ReadRejected(r)
<1>1. Next
  BY DEF UsesStream, StreamStep, ScriptUsesStream, Own, Next, Consumer
<1>2. ~cancelled /\ reader = holds[o]
  BY <1>1, CancelledStays DEF BodiesInv, OneConsumes
<1>3. ASSUME NEW r \in Own PROVE ~attached[r] /\ ~GetReader(r)
  BY <1>2, <1>3 DEF Own, BodiesInv, OrderlyStream, StreamInv, LockIsHeld, GetReader, NewReader
<1>4. ~StreamCancel
  BY DEF StreamCancel
<1>5. ASSUME NEW r \in Own, Read(r) PROVE ReadRejected(r)
  BY <1>3, <1>5 DEF Read, ReadQueued, ReadClosed, ReadWaits, ReadPullThrows
<1> QED
  BY <1>2, <1>3, <1>4, <1>5
     DEF UsesStream, StreamStep, ScriptUsesStream, Source, ReleaseLock, ReaderCancel, Detached

\* The lock stays with the loop that took it.
LEMMA OneConsumesStep == BodiesInv /\ [BodiesNext]_bodiesVars => OneConsumes'
<1> SUFFICES ASSUME BodiesInv, [BodiesNext]_bodiesVars PROVE OneConsumes'
  OBVIOUS
<1> USE ObjectsAssumption, ReadersAssumption, FlagsStay DEF BodiesInv, BodiesTypeOK, OneConsumes
<1>1. CASE MakesObject
  BY <1>1 DEF MakesObject, objectVars, loopVars, vars, readerVars
<1>2. ASSUME NEW o \in Objects, Asked(o), EndsAtOnce(o) PROVE OneConsumes'
  BY <1>2 DEF Asked, EndsAtOnce, Ends, objectVars, loopVars, vars, readerVars
<1>3. ASSUME NEW o \in Objects, NEW r \in Readers, Asked(o), StartsLoop(o, r) PROVE OneConsumes'
  BY <1>3 DEF Asked, StartsLoop, objectVars, loopVars, vars, readerVars, Fresh, GetReader, NewReader
<1>4. ASSUME NEW o \in Objects, LoopReads(o), UNCHANGED call PROVE OneConsumes'
  BY <1>4
     DEF LoopReads, objectVars, loopVars, vars, readerVars, Read, ReadRejected, ReadQueued,
         ReadClosed, ReadWaits, ReadPullThrows
<1>5. ASSUME NEW o \in Objects, Answered(o), Collects(o), UNCHANGED call PROVE OneConsumes'
  BY <1>5 DEF Answered, Collects, objectVars, loopVars, vars, readerVars
<1>6. ASSUME NEW o \in Objects, Answered(o), Finishes(o), UNCHANGED call PROVE OneConsumes'
  <2>1. PICK how \in {"whole", "failed"} : LoopEnds(o, how)
    BY <1>6 DEF Finishes
  <2> QED
    BY <1>6, <2>1 DEF LoopEnds, vars, readerVars
<1>7. ASSUME NEW o \in Objects, Calls(o) PROVE OneConsumes'
  BY <1>7 DEF Calls, Becomes, objectVars, loopVars, vars, readerVars
<1>8. CASE GetsStream
  BY <1>8 DEF GetsStream, NewStream, GetBody, objectVars, loopVars, vars, readerVars
<1>9. CASE UsesStream
  <2> SUFFICES ASSUME NEW o \in Objects, ~cancelled', holds[o]' # NoReader PROVE reader' = holds[o]'
    OBVIOUS
  <2>1. holds' = holds
    BY <1>9 DEF UsesStream, StreamStep, loopVars
  <2>2. /\ reader = holds[o]
        /\ Enqueue \/ CloseStream \/ Error \/ \E r \in Own : ReadRejected(r)
    BY <1>9, <2>1, ScriptCalls
  <2> QED
    BY <2>1, <2>2 DEF Enqueue, CloseStream, Error, ReadRejected, readerVars
<1>10. CASE UNCHANGED bodiesVars
  BY <1>10 DEF bodiesVars, objectVars, loopVars, vars, readerVars
<1> QED
  BY <1>1, <1>2, <1>3, <1>4, <1>5, <1>6, <1>7, <1>8, <1>9, <1>10, BodiesCases DEF Loops

\* A stream is closed by its marker or by a cancel.
LEMMA ClosedByMarker ==
  StreamInv /\ [Next]_vars /\ (state = "closed" /\ ~cancelled => closeRequested)
    => (state = "closed" /\ ~cancelled => closeRequested)'
<1> SUFFICES ASSUME StreamInv, [Next]_vars, state = "closed" /\ ~cancelled => closeRequested
             PROVE  (state = "closed" /\ ~cancelled => closeRequested)'
  OBVIOUS
<1>1. CASE Enqueue
  BY <1>1, EnqueueEffect DEF StreamInv, Enqueue, CanEnqueue, Stays, GoesToHead, histVars
<1>2. CASE CloseStream
  BY <1>2 DEF CloseStream
<1>3. ASSUME NEW r \in Readers, ReadQueued(r)
      PROVE  (state = "closed" /\ ~cancelled => closeRequested)'
  <2>1. queue # <<>> /\ queue' = Tail(queue) /\ UNCHANGED <<closeRequested, cancelled>>
        /\ (Head(queue) # Close => state' = state)
    BY <1>3 DEF ReadQueued, Shift, histVars
  <2>2. Head(queue) = Close => closeRequested
    BY <2>1, TailKeeps DEF StreamInv, QueueInOrder
  <2> QED
    BY <2>1, <2>2
<1> QED
  BY <1>1, <1>2, <1>3
     DEF Next, Source, Consumer, Read, Error, GetReader, DirectReader, NewReader, ReleaseLock,
         ReaderCancel, Detached, ReadRejected, ReadClosed, ReadWaits, ReadPullThrows, StreamCancel, vars,
         queueVars, histVars

\* No script makes a reader around getReader, and a closed stream met its marker.
LEMMA OrderlyStep == BodiesInv /\ [BodiesNext]_bodiesVars => OrderlyStream'
<1> SUFFICES ASSUME BodiesInv, [BodiesNext]_bodiesVars PROVE OrderlyStream'
  OBVIOUS
<1>1. (state = "closed" /\ ~cancelled => closeRequested)'
  <2>1. ASSUME NEW o \in Objects, GetBody(o) PROVE closeRequested'
    BY <2>1 DEF GetBody
  <2> QED
    BY <2>1, StreamOrBytes, ClosedByMarker DEF BodiesInv, OrderlyStream
<1>2. direct' = direct
  <2> USE DEF vars, histVars
  <2>1. CASE UsesStream
    BY <2>1 DEF UsesStream, StreamStep, ScriptUsesStream, Source, Enqueue, CloseStream, Error,
                StreamCancel, GetReader, ReleaseLock, ReaderCancel, Detached, Read, ReadRejected, ReadQueued,
                ReadClosed, ReadWaits, ReadPullThrows
  <2>2. ASSUME NEW o \in Objects, Loops(o) PROVE direct' = direct
    BY <2>2 DEF Loops, LoopReads, Collects, Finishes, LoopEnds, Read, ReadRejected, ReadQueued,
                ReadClosed, ReadWaits, ReadPullThrows
  <2> QED
    BY <2>1, <2>2, BodiesCases
       DEF MakesObject, EndsAtOnce, Ends, StartsLoop, GetReader, Calls, Becomes, GetsStream,
           NewStream, GetBody, bodiesVars
<1> QED
  BY <1>1, <1>2 DEF BodiesInv, OrderlyStream

-----------------------------------------------------------------------------
(* The loop that has the stream, and the stream, step by step.             *)

\* What does not touch them.
LEMMA StillInStep ==
  ASSUME NEW o \in Objects, HasAwaited(o), InStep(o), UNCHANGED vars,
         UNCHANGED <<holds[o], awaits[o], chunks[o], before[o], outcome[o]>>
  PROVE  HasAwaited(o)' /\ InStep(o)'
BY
   DEF vars, queueVars, readerVars, readVars, HasAwaited, InStep, IsOver, Covered, Taken, Kept,
       Marked

\* A loop begins: what others had is what was taken.
LEMMA StartInStep ==
  ASSUME BodiesInv, NEW o \in Objects, NEW r \in Readers, Asked(o), StartsLoop(o, r), ~pullThrew
  PROVE  HasAwaited(o)' /\ InStep(o)'
<1>1. /\ holds'[o] = r /\ before'[o] = ReadSoFar /\ outcome'[o] = "reading"
      /\ awaits'[o] = 0 /\ chunks'[o] = <<>>
      /\ UNCHANGED <<state, queue, sent, requests, status>> /\ requests[r] = <<>>
  BY DEF BodiesInv, BodiesTypeOK, LoopsBegin, Asked, Fresh, StartsLoop, GetReader, NewReader,
         queueVars, readVars, StreamInv, UnusedIsFresh
<1>2. Taken' = Taken /\ (state # "errored" => ReadSoFar = Taken) /\ ReadSoFar \in Int
  BY <1>1, ReadSoFarIsTaken, BoundsAssumption DEF BodiesInv, Taken, Kept, Marked
<1>3. Len(chunks'[o]) = 0 /\ Covered(o)' = ReadSoFar
  <2>1. Len(chunks'[o]) = 0
    BY <1>1
  <2> QED
    BY <1>1, <1>2, <2>1 DEF Covered
<1>4. HasAwaited(o)'
  BY <1>1 DEF HasAwaited
<1> QED
  BY <1>1, <1>2, <1>3, <1>4 DEF InStep

\* Its read was answered with a chunk, which it adds to those it has.
LEMMA CollectInStep ==
  ASSUME BodiesInv, NEW o \in Objects, Answered(o), Collects(o), HasAwaited(o), InStep(o)
  PROVE  HasAwaited(o)' /\ InStep(o)'
<1>1. /\ awaits[o] # 0 /\ status[awaits[o]] = "chunk" /\ outcome[o] = "reading"
      /\ chunks'[o] = Append(chunks[o], got[awaits[o]]) /\ awaits'[o] = 0 /\ UNCHANGED vars
      /\ UNCHANGED <<outcome, holds, before>>
  BY DEF Answered, Collects, BodiesInv, BodiesTypeOK, LoopsGoOn
<1>2. /\ UNCHANGED <<state, queue, sent, requests, status, got>> /\ Taken' = Taken
  BY <1>1 DEF vars, queueVars, readerVars, readVars, Taken, Kept, Marked
<1>3. /\ got[awaits[o]] = Covered(o) + 1 /\ (state # "errored" => Taken = Covered(o) + 1)
      /\ \A i \in 1 .. Len(chunks[o]) : chunks[o][i] = before[o] + i
  BY <1>1 DEF InStep
<1>4. chunks[o] \in Seq(Chunks) /\ before[o] \in Nat /\ Len(chunks[o]) \in Nat
  BY BoundsAssumption DEF BodiesInv, BodiesTypeOK
<1>5. /\ Len(chunks'[o]) = Len(chunks[o]) + 1
      /\ \A i \in 1 .. Len(chunks[o]) : chunks'[o][i] = chunks[o][i]
      /\ chunks'[o][Len(chunks[o]) + 1] = got[awaits[o]]
  BY <1>1, <1>4
<1>6. \A i \in 1 .. Len(chunks'[o]) : chunks'[o][i] = before[o] + i
  <2>1. ASSUME NEW i \in 1 .. Len(chunks[o]) + 1 PROVE chunks'[o][i] = before[o] + i
    <3>1. CASE i = Len(chunks[o]) + 1
      BY <1>3, <1>4, <1>5, <3>1 DEF Covered
    <3>2. CASE i \in 1 .. Len(chunks[o])
      BY <1>3, <1>5, <3>2
    <3> QED
      BY <1>4, <2>1, <3>1, <3>2
  <2> QED
    BY <1>5, <2>1
<1>7. Covered(o)' = Covered(o) + 1
  BY <1>1, <1>4, <1>5 DEF Covered
<1> QED
  BY <1>1, <1>2, <1>3, <1>6, <1>7 DEF HasAwaited, InStep

\* Its read was answered with the end, or with an error.
LEMMA FinishInStep ==
  ASSUME BodiesInv, NEW o \in Objects, Answered(o), Finishes(o), HasAwaited(o), InStep(o)
  PROVE  HasAwaited(o)' /\ InStep(o)'
<1>1. /\ awaits[o] # 0 /\ awaits'[o] = 0 /\ UNCHANGED vars
      /\ UNCHANGED <<chunks, holds, before>>
      /\ \/ status[awaits[o]] = "done" /\ outcome'[o] = "whole"
         \/ status[awaits[o]] = "error" /\ outcome'[o] = "failed"
  BY DEF Answered, Finishes, LoopEnds, BodiesInv, BodiesTypeOK
<1>2. UNCHANGED <<state, queue, sent, requests, closeRequested, Covered(o)>>
  BY <1>1 DEF vars, queueVars, readerVars, Covered
<1> QED
  BY <1>1, <1>2 DEF HasAwaited, InStep, IsOver

\* A chunk waits in the queue, or goes to the loop's read.
LEMMA EnqueueInStep ==
  ASSUME BodiesInv, NEW o \in Objects, holds[o] # NoReader, reader = holds[o],
         Enqueue, UNCHANGED loopVars, HasAwaited(o), InStep(o)
  PROVE  HasAwaited(o)' /\ InStep(o)'
<1> USE DEF BodiesInv, StreamInv
<1>1. /\ state = "readable" /\ ~closeRequested /\ ~Marked /\ sent \in Nat /\ sent' = sent + 1
      /\ sent + 1 # Close /\ ~IsOver(o)
      /\ UNCHANGED <<closeRequested, reader, holds, awaits, chunks, before, outcome, Covered(o)>>
  BY BoundsAssumption
     DEF Enqueue, CanEnqueue, loopVars, StreamTypeOK, QueueInOrder, Close, IsOver, Covered
<1>2. CASE Stays(sent + 1)
  <2>1. Taken' = Taken
    BY <1>1, <1>2, AppendKeeps DEF Stays, Taken, StreamTypeOK, Kept
  <2>2. requests' = requests /\ status' = status /\ got' = got /\ state' = state
    BY <1>2 DEF Stays
  <2> QED
    BY <1>1, <2>1, <2>2 DEF HasAwaited, InStep
<1>3. CASE GoesToHead(sent + 1)
  <2> DEFINE a == awaits[o]
  <2>1. /\ a \in Reads /\ a # 0 /\ status[a] = "pending" /\ requests[reader] = <<a>>
        /\ Taken = Covered(o)
    BY <1>3, BoundsAssumption DEF GoesToHead, HasAwaited, BodiesTypeOK, Reads, InStep
  <2>2. /\ status' = [status EXCEPT ![a] = "chunk"] /\ got' = [got EXCEPT ![a] = sent + 1]
        /\ requests' = [requests EXCEPT ![reader] = <<>>]
        /\ queue = <<>> /\ queue' = <<>> /\ state' = state
    <3>1. Head(requests[reader]) = a /\ Tail(requests[reader]) = <<>>
      BY <2>1
    <3>2. /\ status' = [status EXCEPT ![a] = IF @ = "pending" THEN "chunk" ELSE @]
          /\ got' = [got EXCEPT ![a] = IF status[a] = "pending" THEN sent + 1 ELSE @]
          /\ requests' = [requests EXCEPT ![reader] = <<>>]
          /\ queue = <<>> /\ queue' = <<>> /\ state' = state
      BY Zenon, <1>3, <3>1 DEF GoesToHead
    <3> QED
      BY <2>1, <3>2 DEF StreamTypeOK
  <2>3. Kept = 0 /\ Kept' = 0
    BY <2>2 DEF Kept, Marked
  <2>4. Taken = sent /\ Taken' = sent + 1
    BY <1>1, <2>3 DEF Taken
  <2>5. /\ status'[a] = "chunk" /\ got'[a] = sent + 1 /\ requests'[holds[o]] = <<>>
    BY <2>1, <2>2 DEF StreamTypeOK
  <2>6. HasAwaited(o)'
    BY <1>1, <2>5 DEF HasAwaited
  <2> QED
    BY <1>1, <2>1, <2>2, <2>4, <2>5, <2>6 DEF InStep
<1> QED
  BY <1>2, <1>3, EnqueueEffect

\* The marker waits in the queue, or tells the loop's read.
LEMMA CloseInStep ==
  ASSUME BodiesInv, NEW o \in Objects, holds[o] # NoReader, reader = holds[o],
         CloseStream, UNCHANGED loopVars, HasAwaited(o), InStep(o)
  PROVE  HasAwaited(o)' /\ InStep(o)'
<1> USE DEF BodiesInv, StreamInv
<1>1. /\ state = "readable" /\ ~closeRequested /\ ~Marked /\ closeRequested' /\ Close \in Nat
      /\ ~IsOver(o)
      /\ UNCHANGED <<sent, reader, holds, awaits, chunks, before, outcome, Covered(o)>>
  BY DEF CloseStream, CanEnqueue, loopVars, StreamTypeOK, QueueInOrder, Close, IsOver, Covered
<1>2. CASE Stays(Close)
  <2>1. Taken' = Taken
    BY <1>1, <1>2, AppendKeeps DEF Stays, Taken
  <2>2. requests' = requests /\ status' = status /\ got' = got /\ state' = state
    BY <1>2 DEF Stays
  <2> QED
    BY <1>1, <2>1, <2>2 DEF HasAwaited, InStep
<1>3. CASE TellsAll
  <2> DEFINE a == awaits[o]
  <2>1. /\ a \in Reads /\ a # 0 /\ status[a] = "pending" /\ requests[reader] = <<a>>
        /\ Taken = Covered(o)
    BY <1>3, BoundsAssumption DEF TellsAll, HasAwaited, BodiesTypeOK, Reads, InStep
  <2>2. /\ requests' = [requests EXCEPT ![reader] = <<>>]
        /\ queue = <<>> /\ state' = "closed" /\ got' = got
    BY <1>3 DEF TellsAll
  <2>3. Taken = sent
    <3>1. Kept = 0
      BY <2>2 DEF Kept, Marked
    <3> QED
      BY <3>1 DEF Taken, StreamTypeOK
  <2>4. status'[a] = "done"
    BY <1>3, <2>1 DEF TellsAll, SettleReads, ToSet
  <2>5. requests'[holds[o]] = <<>>
    BY <2>2 DEF StreamTypeOK
  <2>6. HasAwaited(o)'
    BY <1>1, <2>4, <2>5 DEF HasAwaited
  <2>7. IsOver(o)'
    BY <1>1, <2>1, <2>2, <2>3 DEF IsOver
  <2> QED
    BY <1>1, <2>1, <2>2, <2>4, <2>6, <2>7 DEF InStep
<1> QED
  BY <1>2, <1>3, CloseEffect

\* An error reaches the loop's read if it waits; a chunk it was answered with before it
\* still has.
LEMMA ErrorInStep ==
  ASSUME BodiesInv, NEW o \in Objects, holds[o] # NoReader, reader = holds[o],
         Error, UNCHANGED loopVars, HasAwaited(o), InStep(o)
  PROVE  HasAwaited(o)' /\ InStep(o)'
<1> USE DEF BodiesInv, StreamInv
<1>1. /\ state = "readable" /\ state' = "errored" /\ ErrorPending(reader) /\ ~IsOver(o)
      /\ UNCHANGED <<reader, got, holds, awaits, chunks, before, outcome, Covered(o)>>
  BY DEF Error, loopVars, IsOver, Covered
<1>2. requests'[holds[o]] = <<>>
  BY <1>1 DEF ErrorPending, StreamTypeOK
<1>3. CASE awaits[o] # 0 /\ status[awaits[o]] = "pending"
  <2>1. awaits[o] \in Reads /\ requests[reader] = <<awaits[o]>>
    BY <1>3, BoundsAssumption DEF HasAwaited, BodiesTypeOK, Reads
  <2>2. status'[awaits[o]] = "error"
    BY <1>1, <1>3, <2>1 DEF ErrorPending, SettleReads, ToSet
  <2> QED
    BY <1>1, <1>2, <2>2 DEF HasAwaited, InStep
<1>4. CASE ~(awaits[o] # 0 /\ status[awaits[o]] = "pending")
  <2>1. awaits[o] # 0 => awaits[o] \in Reads /\ status'[awaits[o]] = status[awaits[o]]
    BY <1>1, <1>4, BoundsAssumption DEF ErrorPending, SettleReads, BodiesTypeOK, Reads
  <2> QED
    BY <1>1, <1>2, <1>4, <2>1 DEF HasAwaited, InStep
<1> QED
  BY <1>3, <1>4

\* A read of the script is refused.
LEMMA RefusedInStep ==
  ASSUME BodiesInv, NEW o \in Objects, NEW r \in Readers, ReadRejected(r), UNCHANGED loopVars,
         HasAwaited(o), InStep(o)
  PROVE  HasAwaited(o)' /\ InStep(o)'
<1>1. /\ UNCHANGED <<state, queue, closeRequested, sent, requests, holds, awaits, chunks, before,
                     outcome, Covered(o)>>
      /\ issued \in Nat
  BY BoundsAssumption
     DEF ReadRejected, queueVars, readerVars, loopVars, Covered, BodiesInv, StreamInv, StreamTypeOK
<1>2. awaits[o] # 0 => awaits[o] # issued + 1 /\ awaits[o] \in Reads
  BY <1>1, BoundsAssumption DEF BodiesInv, BodiesTypeOK, LoopsGoOn, Reads
<1>3. awaits[o] # 0 => /\ status'[awaits[o]] = status[awaits[o]]
                       /\ got'[awaits[o]] = got[awaits[o]]
  BY <1>2 DEF ReadRejected, Answer, BodiesInv, StreamInv, StreamTypeOK
<1>4. Taken' = Taken
  BY <1>1 DEF Taken, Kept, Marked
<1> QED
  BY <1>1, <1>3, <1>4 DEF HasAwaited, InStep, IsOver

\* The loop calls its next read.
LEMMA ReadInStep ==
  ASSUME BodiesInv, NEW o \in Objects, holds[o] # NoReader, reader = holds[o], ~cancelled,
         ~pullThrew', LoopReads(o), HasAwaited(o), InStep(o)
  PROVE  HasAwaited(o)' /\ InStep(o)'
<1> USE DEF BodiesInv, StreamInv
<1> DEFINE a == issued + 1
           r == holds[o]
<1>1. /\ r \in Readers /\ outcome[o] = "reading" /\ awaits[o] = 0 /\ attached[r]
      /\ (state # "errored" => Taken = Covered(o)) /\ requests[r] = <<>>
  BY ObjectsAssumption
     DEF LoopReads, LoopsGoOn, BodiesTypeOK, OrderlyStream, LockIsHeld, InStep, HasAwaited
<1>2. /\ Read(r) /\ awaits'[o] = a /\ a # 0 /\ a \in Reads
      /\ UNCHANGED <<outcome, holds, before, chunks, sent, Covered(o)>>
  <2>1. Read(r) /\ awaits'[o] = a /\ UNCHANGED <<outcome, holds, before, chunks, Covered(o)>>
    BY DEF LoopReads, BodiesTypeOK, Covered
  <2>2. a # 0 /\ a \in Reads /\ sent' = sent
    BY <2>1, BoundsAssumption
       DEF Read, ReadRejected, ReadQueued, ReadClosed, ReadWaits, ReadPullThrows, CallRead, Reads,
           StreamTypeOK
  <2> QED
    BY <2>1, <2>2
<1>3. ASSUME NEW how, NEW c, Answer(how, c) PROVE status'[a] = how /\ got'[a] = c
  BY <1>2, <1>3 DEF Answer, StreamTypeOK
<1>4. \A i \in 1 .. Len(chunks[o]) : chunks[o][i] = before[o] + i
  BY DEF InStep
<1> HIDE DEF a, r
<1>5. CASE ReadRejected(r)
  <2>1. state = "errored" /\ status'[a] = "error" /\ requests' = requests
    BY <1>1, <1>3, <1>5 DEF ReadRejected, readerVars
  <2> QED
    BY <1>1, <1>2, <1>4, <2>1 DEF HasAwaited, InStep, r
<1>6. CASE ReadQueued(r)
  <2>1. queue # <<>> /\ queue' = Tail(queue) /\ state # "errored" /\ requests' = requests
        /\ closeRequested' = closeRequested
    BY <1>6 DEF ReadQueued, Shift, readerVars
  <2>2. CASE Head(queue) = Close
    <3>1. state' = "closed" /\ status'[a] = "done"
      BY <1>3, <1>6, <2>2 DEF ReadQueued, Shift
    <3>2. Marked /\ Kept = 0
      BY <2>1, <2>2, TailKeeps
    <3>3. closeRequested /\ Taken = sent
      BY <3>2 DEF QueueInOrder, Taken, StreamTypeOK
    <3>4. IsOver(o)'
      BY <1>1, <1>2, <2>1, <3>1, <3>3 DEF IsOver, StreamTypeOK
    <3> QED
      BY <1>1, <1>2, <1>4, <2>1, <3>1, <3>4 DEF HasAwaited, InStep, r
  <2>3. CASE Head(queue) # Close
    <3>1. status'[a] = "chunk" /\ got'[a] = Head(queue) /\ state' = state
      BY <1>3, <1>6, <2>3 DEF ReadQueued, Shift
    <3>2. Kept > 0 /\ Kept' = Kept - 1 /\ Head(queue) = queue[1]
      BY <2>1, <2>3, TailKeeps
    <3>3. Kept \in Int /\ sent \in Int /\ Taken \in Int
      BY DEF Kept, Taken, StreamTypeOK
    <3>4. Head(queue) = Taken + 1 /\ Taken' = Taken + 1
      BY <1>2, <3>2, <3>3 DEF QueueInOrder, Taken
    <3> QED
      BY <1>1, <1>2, <1>4, <2>1, <3>1, <3>4 DEF HasAwaited, InStep, r
  <2> QED
    BY <2>2, <2>3
<1>7. CASE ReadClosed(r)
  <2>1. /\ state = "closed" /\ queue = <<>> /\ status'[a] = "done"
        /\ UNCHANGED <<state, closeRequested, requests>>
    BY <1>3, <1>7 DEF ReadClosed, queueVars, readerVars
  <2>2. closeRequested
    BY <2>1 DEF OrderlyStream
  <2>3. Taken = sent
    <3>1. Kept = 0
      BY <2>1 DEF Kept, Marked
    <3> QED
      BY <3>1 DEF Taken, StreamTypeOK
  <2>4. IsOver(o)'
    BY <1>1, <1>2, <2>1, <2>2, <2>3 DEF IsOver, StreamTypeOK
  <2> QED
    BY <1>1, <1>2, <1>4, <2>1, <2>4 DEF HasAwaited, InStep, r
<1>8. CASE ReadWaits(r)
  <2>1. state = "readable" /\ status'[a] = "pending" /\ UNCHANGED queueVars
    BY <1>3, <1>8 DEF ReadWaits
  <2>2. requests'[r] = <<a>>
    <3>1. requests'[r] = Append(requests[r], a)
      BY <1>1, <1>8 DEF ReadWaits, StreamTypeOK, a
    <3> QED
      BY <1>1, <3>1
  <2>3. Taken' = Taken /\ state' = "readable"
    BY <1>2, <2>1 DEF Taken, Kept, Marked, queueVars
  <2>4. HasAwaited(o)'
    BY <1>2, <2>1, <2>2 DEF HasAwaited, r
  <2> QED
    BY <1>1, <1>2, <1>4, <2>1, <2>3, <2>4 DEF InStep
<1>9. ~ReadPullThrows(r)
  BY DEF ReadPullThrows
<1> QED
  BY <1>2, <1>5, <1>6, <1>7, <1>8, <1>9 DEF Read

\* So the loop and its stream stay in step.
LEMMA LoopsStep == BodiesInv /\ [BodiesNext]_bodiesVars => AwaitedWaits' /\ LoopsInStep'
<1> SUFFICES ASSUME BodiesInv, [BodiesNext]_bodiesVars, ~cancelled', ~pullThrew',
                    NEW o \in Objects, holds'[o] # NoReader
             PROVE  HasAwaited(o)' /\ InStep(o)'
  BY DEF AwaitedWaits, LoopsInStep
<1>1. ~cancelled /\ ~pullThrew
  BY FlagsStay
<1>2. holds[o] # NoReader => HasAwaited(o) /\ InStep(o) /\ reader = holds[o]
  BY <1>1 DEF BodiesInv, AwaitedWaits, LoopsInStep, OneConsumes
<1>3. ASSUME NEW p \in Objects, p # o, holds[o] # NoReader, holds[p] # NoReader PROVE FALSE
  BY <1>1, <1>3 DEF BodiesInv, OneConsumes, BodiesTypeOK
<1>4. CASE MakesObject
  BY <1>2, <1>4, StillInStep DEF MakesObject, loopVars
<1>5. ASSUME NEW p \in Objects, Asked(p), EndsAtOnce(p) PROVE HasAwaited(o)' /\ InStep(o)'
  <2>1. p # o /\ outcome'[o] = outcome[o] /\ UNCHANGED <<vars, holds, awaits, chunks, before>>
    BY <1>5 DEF EndsAtOnce, Ends, Asked, Fresh, BodiesInv, LoopsBegin, BodiesTypeOK
  <2> QED
    BY <1>2, <2>1, StillInStep
<1>6. ASSUME NEW p \in Objects, NEW r \in Readers, Asked(p), StartsLoop(p, r)
      PROVE  HasAwaited(o)' /\ InStep(o)'
  <2>1. CASE p = o
    BY <1>1, <1>6, <2>1, StartInStep
  <2>2. CASE p # o
    <3>1. holds[o] # NoReader /\ reader = NoReader
      BY <1>6, <2>2 DEF StartsLoop, GetReader, NewReader, BodiesInv, BodiesTypeOK
    <3> QED
      BY <1>2, <3>1
  <2> QED
    BY <2>1, <2>2
<1>7. ASSUME NEW p \in Objects, LoopReads(p) PROVE HasAwaited(o)' /\ InStep(o)'
  <2>1. holds[o] # NoReader /\ holds[p] # NoReader
    BY <1>7, ObjectsAssumption DEF LoopReads, BodiesInv, LoopsGoOn, BodiesTypeOK
  <2>2. p = o
    BY <1>3, <2>1
  <2> QED
    BY <1>1, <1>2, <1>7, <2>1, <2>2, ReadInStep
<1>8. ASSUME NEW p \in Objects, Answered(p), Collects(p) \/ Finishes(p)
      PROVE  HasAwaited(o)' /\ InStep(o)'
  <2>1. /\ holds[o] # NoReader /\ holds[p] # NoReader
    BY <1>8 DEF Answered, Collects, Finishes, LoopEnds, BodiesInv, LoopsGoOn, BodiesTypeOK
  <2>2. p = o
    BY <1>3, <2>1
  <2> QED
    BY <1>2, <1>8, <2>1, <2>2, CollectInStep, FinishInStep
<1>9. ASSUME NEW p \in Objects, Calls(p) PROVE HasAwaited(o)' /\ InStep(o)'
  BY <1>2, <1>9, StillInStep DEF Calls, Becomes, loopVars
<1>10. CASE GetsStream
  <2>1. CASE NewStream
    BY <1>2, <2>1, StillInStep DEF NewStream, loopVars
  <2>2. ASSUME NEW p \in Objects, GetBody(p) PROVE FALSE
    BY <2>2 DEF GetBody, loopVars, BodiesInv, UnmadeIsFresh, LoopsBegin, BodiesTypeOK
  <2> QED
    BY <1>10, <2>1, <2>2 DEF GetsStream
<1>11. CASE UsesStream
  <2>1. UNCHANGED loopVars /\ holds[o] # NoReader
    BY <1>11 DEF UsesStream, StreamStep, loopVars
  <2>2. Enqueue \/ CloseStream \/ Error \/ \E r \in Own : ReadRejected(r)
    BY <1>11, <2>1, ScriptCalls
  <2> QED
    BY <1>2, <2>1, <2>2, EnqueueInStep, CloseInStep, ErrorInStep, RefusedInStep DEF Own
<1>12. CASE UNCHANGED bodiesVars
  BY <1>2, <1>12, StillInStep DEF bodiesVars, loopVars
<1> QED
  BY <1>4, <1>5, <1>6, <1>7, <1>8, <1>9, <1>10, <1>11, <1>12, BodiesCases DEF Loops

-----------------------------------------------------------------------------
(* The theorems.                                                           *)

\* Nothing is made, asked for or read yet.
LEMMA BodiesInvInit == BodiesInit => BodiesInv
<1> SUFFICES ASSUME BodiesInit PROVE BodiesInv
  OBVIOUS
<1>1. StreamInv
  BY StreamInvInit DEF BodiesInit
<1>2. BodiesTypeOK
  <2>1. chunks \in [Objects -> Seq(Chunks)]
    BY DEF BodiesInit
  <2>2. awaits \in [Objects -> 0 .. MaxReads] /\ before \in [Objects -> 0 .. MaxChunks]
    BY BoundsAssumption DEF BodiesInit
  <2>3. \A o \in Objects : outcome[o] = "none" /\ holds[o] = NoReader
    BY DEF BodiesInit
  <2> QED
    BY <2>1, <2>2, <2>3 DEF BodiesInit, BodiesTypeOK, BodyKinds
<1>3. UnmadeIsFresh /\ LoopsBegin /\ LoopsGoOn /\ OrderlyStream
  BY DEF BodiesInit, Init, UnmadeIsFresh, LoopsBegin, LoopsGoOn, OrderlyStream,
         Unused
<1>4. OneConsumes /\ AwaitedWaits /\ LoopsInStep
  BY DEF BodiesInit, OneConsumes, AwaitedWaits, LoopsInStep
<1> QED
  BY <1>1, <1>2, <1>3, <1>4 DEF BodiesInv

\* The invariant is inductive.
LEMMA BodiesInvStep == BodiesInv /\ [BodiesNext]_bodiesVars => BodiesInv'
<1> SUFFICES ASSUME BodiesInv, [BodiesNext]_bodiesVars PROVE BodiesInv'
  OBVIOUS
<1>1. StreamInv'
  BY StreamOrBytes, StreamInvStep, GetBodyStream DEF BodiesInv
<1> QED
  BY <1>1, BodiesTypeStep, UnmadeStep, LoopsBeginStep, LoopsGoOnStep, OrderlyStep,
     OneConsumesStep, LoopsStep
     DEF BodiesInv

\* So it holds in every state.
LEMMA BodiesInvariant == BodiesSpec => []BodiesInv
<1>1. BodiesInv /\ UNCHANGED bodiesVars => BodiesInv'
  BY BodiesInvStep
<1> QED
  BY <1>1, BodiesInvInit, BodiesInvStep, PTL DEF BodiesSpec

\* The types, and that two loops never read through one reader: a loop awaits one
\* read of its own, or has the stack.
THEOREM BodiesTypeCorrect == BodiesSpec => []BodiesTypeOK
<1>1. BodiesInv => BodiesTypeOK
  BY DEF BodiesInv
<1> QED
  BY <1>1, BodiesInvariant, PTL

\* Of any number of clones, requests and fetches that share a stream, one reads it:
\* its lock is not given back, so no other returns a part of the body for all of it.
THEOREM BodiesOneConsumes == BodiesSpec => []OneConsumes
<1>1. BodiesInv => OneConsumes
  BY DEF BodiesInv
<1> QED
  BY <1>1, BodiesInvariant, PTL

\* text, arrayBuffer and fetch return every chunk that was left when they began, in
\* order and once, whatever the source and the script's readers do between two reads
\* of the loop.
THEOREM BodiesReadWhole == BodiesSpec => []BodyIsWhole
<1>1. BodiesInv => BodyIsWhole
  <2> SUFFICES ASSUME BodiesInv, ~cancelled, ~pullThrew, NEW o \in Objects,
                      outcome[o] = "whole", holds[o] # NoReader
               PROVE  chunks[o] = [i \in 1 .. sent - before[o] |-> before[o] + i]
    BY DEF BodyIsWhole
  <2>1. /\ sent = before[o] + Len(chunks[o])
        /\ \A i \in 1 .. Len(chunks[o]) : chunks[o][i] = before[o] + i
    BY DEF BodiesInv, LoopsInStep, InStep, IsOver, Covered
  <2>2. chunks[o] \in Seq(Chunks) /\ Len(chunks[o]) \in Nat /\ before[o] \in Int
    BY DEF BodiesInv, BodiesTypeOK
  <2>3. sent - before[o] = Len(chunks[o])
    BY <2>1, <2>2
  <2>4. chunks[o] = [i \in 1 .. Len(chunks[o]) |-> chunks[o][i]]
    BY <2>2
  <2> QED
    BY <2>1, <2>3, <2>4
<1> QED
  BY <1>1, BodiesInvariant, PTL
=============================================================================
