-------------------------- MODULE ReadableStreamProofs --------------------------
(***************************************************************************)
(* Proofs about ReadableStream, for any number of readers, chunks and      *)
(* reads: its invariants, and that it implements SimpleStream.             *)
(***************************************************************************)
EXTENDS ReadableStream, SequenceTheorems, TLAPS

\* Chunks in the queue, and those that left it: read, handed to a request, or
\* dropped by an error.
Kept  == IF Marked THEN Len(queue) - 1 ELSE Len(queue)
Taken == sent - Kept

\* A reader object that was not made, and a read that was not called, left no trace.
UnusedIsFresh ==
  /\ \A r \in Readers : Unused(r) =>
       ~attached[r] /\ requests[r] = <<>> /\ reader # r /\ r \notin direct
  /\ \A i \in Reads : i > issued => status[i] = "none" /\ got[i] = 0

\* A reader's requests stand in the order in which they were called.
RequestsInOrder ==
  \A r \in Readers : \A i \in DOMAIN requests[r] :
    /\ requests[r][i] <= issued
    /\ \A j \in DOMAIN requests[r] : i < j => requests[r][i] < requests[r][j]

\* The queue holds the chunks sent last, in order, then the marker if the source
\* closed the stream and it was not taken.
QueueInOrder ==
  /\ Kept <= sent
  /\ \A i \in 1 .. Kept : queue[i] = Taken + i
  /\ Marked => closeRequested
  /\ state = "readable" /\ closeRequested => Marked
  /\ state = "errored" => queue = <<>>

\* The requests of the reader that holds the lock wait for what comes next: every
\* read that got a chunk was called before them.
WaitersAreNext ==
  reader # NoReader => \A k \in DOMAIN requests[reader] :
    /\ state = "readable"
    /\ ~pullThrew => status[requests[reader][k]] = "pending"
    /\ \A i \in Reads : status[i] = "chunk" => i < requests[reader][k]

\* What reads got are chunks that left the queue, and none of those is missing.
TakenWereRead ==
  /\ \A i \in Reads : status[i] = "chunk" => got[i] \in 1 .. Taken
  /\ state # "errored" /\ ~pullThrew =>
       \A c \in 1 .. Taken : \E i \in Reads : status[i] = "chunk" /\ got[i] = c

\* As long as every reader came from getReader and nobody cancelled, the reader with
\* a stream is the one that holds the lock.
LockIsHeld ==
  /\ cancelled => state = "closed"
  /\ direct = {} /\ ~cancelled => \A r \in Readers : attached[r] <=> reader = r

StreamInv ==
  /\ StreamTypeOK
  /\ UnusedIsFresh
  /\ RequestsInOrder
  /\ QueueInOrder
  /\ NoLostWakeup
  /\ WaitersAreNext
  /\ TakenWereRead
  /\ ReadsInOrder
  /\ LockIsHeld
-----------------------------------------------------------------------------
(* What an item that is put into the queue does.                           *)

\* It stays: nobody waits for it.
Stays(item) ==
  /\ reader # NoReader => requests[reader] = <<>>
  /\ queue' = Append(queue, item)
  /\ UNCHANGED <<state, requests, closed, status, got>>

\* A chunk goes to the read that waits longest, which may be settled already.
GoesToHead(item) ==
  LET head == Head(requests[reader]) IN
  /\ reader # NoReader /\ requests[reader] # <<>>
  /\ queue = <<>> /\ queue' = <<>>
  /\ requests' = [requests EXCEPT ![reader] = Tail(@)]
  /\ status' = [status EXCEPT ![head] = IF @ = "pending" THEN "chunk" ELSE @]
  /\ got' = [got EXCEPT ![head] = IF status[head] = "pending" THEN item ELSE @]
  /\ UNCHANGED <<state, closed>>

\* The marker tells everyone who waits.
TellsAll ==
  /\ reader # NoReader /\ requests[reader] # <<>>
  /\ queue = <<>> /\ queue' = <<>>
  /\ requests' = [requests EXCEPT ![reader] = <<>>]
  /\ SettleReads(ToSet(requests[reader]), "done")
  /\ state' = "closed"
  /\ SettleClosed(reader, "resolved")
  /\ UNCHANGED got

\* The first element of a sequence that has one.
LEMMA FirstOfSeq ==
  ASSUME NEW S, NEW s \in Seq(S), s # <<>>
  PROVE  Head(s) \in S /\ 1 \in DOMAIN s /\ Head(s) = s[1]
OBVIOUS

\* The smaller of two numbers.
LEMMA MinOfTwo ==
  ASSUME NEW a \in Nat, NEW b \in Nat PROVE Min({a, b}) = IF a <= b THEN a ELSE b
<1>1. CASE a <= b
  BY <1>1 DEF Min
<1>2. CASE ~ (a <= b)
  BY <1>2 DEF Min
<1> QED
  BY <1>1, <1>2

\* _processQueue that finds no request, or no item, changes nothing.
LEMMA PairUpNone ==
  ASSUME StreamTypeOK, NEW r \in Readers, NEW q \in Seq(Nat), PairUp(r, q, 0)
  PROVE  queue' = q /\ UNCHANGED <<state, requests, closed, status, got>>
<1>1. queue' = SubSeq(q, 0 + 1, Len(q)) /\ state' = state /\ closed' = closed
  BY DEF PairUp
<1>2. requests' = [requests EXCEPT ![r] = SubSeq(requests[r], 0 + 1, Len(requests[r]))]
  BY DEF PairUp
<1>3. status' = status /\ got' = got
  BY DEF PairUp, StreamTypeOK
<1> QED
  BY <1>1, <1>2, <1>3 DEF StreamTypeOK

\* One chunk and one request: the request gets the chunk.
LEMMA PairUpChunk ==
  ASSUME StreamTypeOK, NEW r \in Readers, NEW q \in Seq(Nat), requests[r] # <<>>,
         PairUp(r, q, 1), q[1] # Close
  PROVE  LET head == requests[r][1] IN
         /\ queue' = SubSeq(q, 2, Len(q))
         /\ requests' = [requests EXCEPT ![r] = SubSeq(@, 2, Len(@))]
         /\ status' = [status EXCEPT ![head] = IF @ = "pending" THEN "chunk" ELSE @]
         /\ got' = [got EXCEPT ![head] = IF status[head] = "pending" THEN q[1] ELSE @]
         /\ UNCHANGED <<state, closed>>
<1> DEFINE head == requests[r][1]
<1>1. queue' = SubSeq(q, 2, Len(q)) /\ state' = state /\ closed' = closed
  BY DEF PairUp
<1>2. requests' = [requests EXCEPT ![r] = SubSeq(@, 2, Len(@))]
  BY DEF PairUp
<1> DEFINE paired == {j \in 1 .. 1 : q[j] # Close}
           served == {requests[r][j] : j \in paired}
           place(i) == CHOOSE j \in paired : requests[r][j] = i
<1>3. served = {head} /\ place(head) = 1
  OBVIOUS
<1>4. status' = [i \in Reads |->
         IF status[i] # "pending" THEN status[i]
         ELSE IF i \in served THEN "chunk"
         ELSE IF (1 > 0 /\ q[1] = Close) /\ i \in ToSet(Told(requests[r], 1))
              THEN "done" ELSE "pending"]
  BY Zenon DEF PairUp
<1>5. status' = [status EXCEPT ![head] = IF @ = "pending" THEN "chunk" ELSE @]
  BY <1>3, <1>4 DEF StreamTypeOK
<1>6. got' = [i \in Reads |->
         IF status[i] = "pending" /\ i \in served
         THEN q[place(i)] ELSE got[i]]
  BY Zenon DEF PairUp
<1> HIDE DEF place, served
<1>7. got' = [got EXCEPT ![head] = IF status[head] = "pending" THEN q[1] ELSE @]
  BY <1>3, <1>6 DEF StreamTypeOK
<1> QED
  BY <1>1, <1>2, <1>5, <1>7

\* The marker and some requests: all of them are told.
LEMMA PairUpMarker ==
  ASSUME StreamTypeOK, NEW r \in Readers, requests[r] # <<>>, PairUp(r, <<Close>>, 1)
  PROVE  /\ queue' = <<>>
         /\ requests' = [requests EXCEPT ![r] = <<>>]
         /\ SettleReads(ToSet(requests[r]), "done")
         /\ SettleClosed(r, "resolved")
         /\ state' = "closed" /\ UNCHANGED got
<1>1. queue' = <<>> /\ state' = "closed" /\ SettleClosed(r, "resolved")
  BY DEF PairUp
<1>2. Told(requests[r], 1) = requests[r]
  BY DEF Told, StreamTypeOK
<1>3. requests' = [requests EXCEPT ![r] = <<>>]
  <2>1. requests' = [requests EXCEPT ![r] =
          SubSeq(requests[r], 1 + Len(Told(requests[r], 1)), Len(requests[r]))]
    BY DEF PairUp
  <2>2. SubSeq(requests[r], 1 + Len(requests[r]), Len(requests[r])) = <<>>
    BY DEF StreamTypeOK
  <2> QED
    BY <1>2, <2>1, <2>2
<1>4. SettleReads(ToSet(requests[r]), "done") /\ got' = got
  BY <1>2 DEF PairUp, StreamTypeOK, SettleReads
<1> QED
  BY <1>1, <1>3, <1>4

\* With no lost wake-up, an item put into the queue meets at most one request.
LEMMA DeliverEffect ==
  ASSUME StreamTypeOK, NoLostWakeup, NEW item \in Nat, Deliver(Append(queue, item))
  PROVE  \/ Stays(item)
         \/ item # Close /\ GoesToHead(item)
         \/ item = Close /\ TellsAll
<1> DEFINE q == Append(queue, item)
<1>q. q \in Seq(Nat) /\ Len(q) = Len(queue) + 1 /\ queue \in Seq(Nat)
  BY DEF StreamTypeOK, Chunks, Close
<1>1. CASE reader = NoReader
  BY <1>1, ReadersAssumption DEF Deliver, Stays, readVars
<1>2. CASE reader # NoReader
  <2>r. reader \in Readers /\ requests[reader] \in Seq(Reads) /\ Len(requests[reader]) \in Nat
    BY <1>2 DEF StreamTypeOK
  <2>1. PairUp(reader, q, Min({Len(requests[reader]), Len(q)}))
    BY <1>2 DEF Deliver, ProcessQueue
  <2> HIDE DEF q
  <2>2. CASE requests[reader] = <<>>
    <3>1. Min({Len(requests[reader]), Len(q)}) = 0
      BY <1>q, <2>r, <2>2, MinOfTwo
    <3>2. queue' = q /\ UNCHANGED <<state, requests, closed, status, got>>
      BY <1>q, <2>r, <2>1, <3>1, PairUpNone
    <3> QED
      BY <2>2, <3>2 DEF Stays, q
  <2>3. CASE requests[reader] # <<>>
    <3>1. queue = <<>> /\ q = <<item>>
      <4>1. queue = <<>>
        BY <1>2, <2>3 DEF NoLostWakeup
      <4> QED
        BY <4>1 DEF q
    <3>2. Min({Len(requests[reader]), Len(q)}) = 1
      <4>1. Len(requests[reader]) >= 1 /\ Len(q) = 1
        BY <2>r, <2>3, <3>1
      <4> QED
        BY <1>q, <2>r, <4>1, MinOfTwo
    <3>3. PairUp(reader, <<item>>, 1)
      BY <2>1, <3>1, <3>2
    <3>4. CASE item # Close
      <4>1. /\ queue' = SubSeq(<<item>>, 2, 1)
            /\ requests' = [requests EXCEPT ![reader] = SubSeq(@, 2, Len(@))]
            /\ status' = [status EXCEPT ![requests[reader][1]] =
                            IF @ = "pending" THEN "chunk" ELSE @]
            /\ got' = [got EXCEPT ![requests[reader][1]] =
                         IF status[requests[reader][1]] = "pending" THEN item ELSE @]
            /\ UNCHANGED <<state, closed>>
        <5>1. <<item>> \in Seq(Nat) /\ Len(<<item>>) = 1 /\ <<item>>[1] = item
          OBVIOUS
        <5> QED
          BY <2>r, <2>3, <3>3, <3>4, <5>1, PairUpChunk
      <4>2. queue' = <<>>
        BY <4>1
      <4>3. requests[reader][1] = Head(requests[reader])
        BY <2>r, <2>3
      <4>4. SubSeq(requests[reader], 2, Len(requests[reader])) = Tail(requests[reader])
        BY <2>r, <2>3
      <4> QED
        BY <1>2, <2>3, <3>1, <3>4, <4>1, <4>2, <4>3, <4>4 DEF GoesToHead
    <3>5. CASE item = Close
      BY <1>2, <2>r, <2>3, <3>1, <3>3, <3>5, PairUpMarker DEF TellsAll
    <3> QED
      BY <3>4, <3>5
  <2> QED
    BY <2>2, <2>3
<1> QED
  BY <1>1, <1>2

\* How many chunks the queue keeps when an item is added at its end.
LEMMA AppendKeeps ==
  ASSUME StreamTypeOK, ~Marked, NEW item \in Nat, queue' = Append(queue, item)
  PROVE  /\ Kept = Len(queue) /\ Len(queue') = Len(queue) + 1
         /\ \A i \in 1 .. Len(queue) : queue'[i] = queue[i]
         /\ queue'[Len(queue) + 1] = item
         /\ Marked' <=> item = Close
         /\ Kept' = IF item = Close THEN Kept ELSE Kept + 1
<1>1. queue \in Seq(Nat) /\ Len(queue) \in Nat
  BY DEF StreamTypeOK, Chunks, Close
<1>2. /\ Len(queue') = Len(queue) + 1 /\ queue' # <<>>
      /\ \A i \in 1 .. Len(queue) : queue'[i] = queue[i]
      /\ queue'[Len(queue) + 1] = item
  BY <1>1
<1>3. Marked' <=> item = Close
  BY <1>2 DEF Marked, Last
<1> QED
  BY <1>1, <1>2, <1>3 DEF Kept

\* And when the first is taken: the marker is taken last.
LEMMA TailKeeps ==
  ASSUME StreamTypeOK, queue # <<>>, queue' = Tail(queue)
  PROVE  /\ Head(queue) = queue[1] /\ Len(queue') = Len(queue) - 1
         /\ \A i \in 1 .. Len(queue') : queue'[i] = queue[i + 1]
         /\ Head(queue) = Close => Marked /\ queue' = <<>> /\ Kept = 0 /\ Kept' = 0
         /\ Head(queue) # Close => (Marked' <=> Marked) /\ Kept > 0 /\ Kept' = Kept - 1
<1>1. queue \in Seq(Nat) /\ Len(queue) \in Nat /\ Len(queue) > 0
  BY DEF StreamTypeOK, Chunks, Close
<1>2. /\ Head(queue) = queue[1] /\ Len(queue') = Len(queue) - 1 /\ queue' \in Seq(Nat)
      /\ \A i \in 1 .. Len(queue') : queue'[i] = queue[i + 1]
  BY <1>1
<1>3. ASSUME Head(queue) = Close
      PROVE  Marked /\ queue' = <<>> /\ Kept = 0 /\ Kept' = 0
  <2>1. Len(queue) = 1
    BY <1>1, <1>2, <1>3 DEF StreamTypeOK
  <2> QED
    BY <1>1, <1>2, <1>3, <2>1 DEF Marked, Last, Kept
<1>4. ASSUME Head(queue) # Close
      PROVE  (Marked' <=> Marked) /\ Kept > 0 /\ Kept' = Kept - 1
  <2>1. CASE Len(queue) = 1
    BY <1>1, <1>2, <1>4, <2>1 DEF Marked, Last, Kept
  <2>2. CASE Len(queue) > 1
    <3>1. Len(queue') = Len(queue) - 1 /\ Len(queue') \in 1 .. Len(queue')
      BY <1>1, <1>2, <2>2
    <3>2. queue' # <<>>
      <4>1. Len(queue') # 0
        BY <1>1, <2>2, <3>1
      <4> QED
        BY <4>1
    <3>3. queue'[Len(queue')] = queue[Len(queue)]
      <4>1. queue'[Len(queue')] = queue[Len(queue') + 1]
        BY <1>2, <3>1
      <4>2. Len(queue') + 1 = Len(queue)
        BY <1>1, <3>1
      <4> QED
        BY <4>1, <4>2
    <3> QED
      BY <1>1, <1>4, <2>2, <3>1, <3>2, <3>3 DEF Marked, Last, Kept
  <2>3. Len(queue) = 1 \/ Len(queue) > 1
    <3>1. PICK n \in Nat : n = Len(queue) /\ n > 0
      BY <1>1
    <3> QED
      BY <3>1
  <2> QED
    BY Zenon, <2>1, <2>2, <2>3
<1> QED
  BY Zenon, <1>2, <1>3, <1>4

\* What Enqueue and CloseStream do, in those terms.
LEMMA EnqueueEffect ==
  StreamTypeOK /\ NoLostWakeup /\ Enqueue => Stays(sent + 1) \/ GoesToHead(sent + 1)
BY DeliverEffect DEF StreamTypeOK, Enqueue, Close

\* And what a close does to a stream that may still be closed.
LEMMA CloseEffect ==
  StreamTypeOK /\ NoLostWakeup /\ CloseStream => Stays(Close) \/ TellsAll
BY DeliverEffect DEF CloseStream, WithMarker, Close

\* Every step keeps the types, and the marker last.
LEMMA StreamTypeStep ==
  StreamTypeOK /\ NoLostWakeup /\ UnusedIsFresh /\ [Next]_vars => StreamTypeOK'
<1> SUFFICES ASSUME StreamTypeOK, NoLostWakeup, UnusedIsFresh, [Next]_vars PROVE StreamTypeOK'
  OBVIOUS
<1> USE ReadersAssumption, BoundsAssumption DEF StreamTypeOK, Chunks, Reads, Close
<1>1. CASE Enqueue
  <2>1. CASE Stays(sent + 1)
    BY <1>1, <2>1 DEF Enqueue, CanEnqueue, Stays, readVars, histVars
  <2>2. CASE GoesToHead(sent + 1)
    <3>1. reader \in Readers /\ requests[reader] \in Seq(Reads) /\ requests[reader] # <<>>
      BY <2>2 DEF GoesToHead
    <3>2. Head(requests[reader]) \in Reads /\ Tail(requests[reader]) \in Seq(Reads)
      BY <3>1
    <3>3. sent' \in 0 .. MaxChunks /\ sent + 1 \in Chunks
      BY <1>1 DEF Enqueue
    <3>4. requests' \in [Readers -> Seq(Reads)]
      BY <2>2, <3>1, <3>2 DEF GoesToHead
    <3>5. status' \in [Reads -> {"none", "pending", "chunk", "done", "error"}]
      BY <2>2, <3>2 DEF GoesToHead
    <3>6. got' \in [Reads -> Chunks \cup {0}]
      BY <2>2, <3>2, <3>3 DEF GoesToHead
    <3> QED
      BY <1>1, <2>2, <3>3, <3>4, <3>5, <3>6 DEF Enqueue, GoesToHead, histVars
  <2> QED
    BY <1>1, <2>1, <2>2, EnqueueEffect
<1>2. CASE CloseStream
  <2>1. CASE Stays(Close)
    BY <1>2, <2>1 DEF CloseStream, CanEnqueue, Stays, readVars, histVars
  <2>2. CASE TellsAll
    BY <1>2, <2>2 DEF CloseStream, CanEnqueue, TellsAll, SettleReads, SettleClosed, histVars
  <2> QED
    BY <1>2, <2>1, <2>2, CloseEffect
<1>3. CASE Error
  <2>1. status' \in [Reads -> {"none", "pending", "chunk", "done", "error"}]
    BY <1>3 DEF Error, ErrorPending, SettleReads
  <2>2. requests' \in [Readers -> Seq(Reads)]
    <3>1. <<>> \in Seq(Reads)
      OBVIOUS
    <3>2. \/ requests' = [requests EXCEPT ![reader] = <<>>]
          \/ requests' = requests
      BY <1>3 DEF Error, ErrorPending
    <3> QED
      BY <3>1, <3>2
  <2>3. closed' \in [Readers -> {"none", "pending", "resolved", "rejected"}]
    BY <1>3 DEF Error, ErrorPending, SettleClosed
  <2> QED
    BY <1>3, <2>1, <2>2, <2>3 DEF Error, histVars
<1>4. ASSUME NEW r \in Readers, GetReader(r) PROVE StreamTypeOK'
  BY <1>4 DEF GetReader, NewReader, Unused, queueVars, readVars
<1>5. ASSUME NEW r \in Readers, DirectReader(r) PROVE StreamTypeOK'
  BY <1>5 DEF DirectReader, NewReader, Unused, queueVars, readVars
<1>6. ASSUME NEW r \in Readers, ReleaseLock(r) PROVE StreamTypeOK'
  BY <1>6 DEF ReleaseLock, queueVars, readVars, histVars
<1>7. ASSUME NEW r \in Readers, ReaderCancel(r) PROVE StreamTypeOK'
  <2>1. closed' \in [Readers -> {"none", "pending", "resolved", "rejected"}]
    BY <1>7 DEF ReaderCancel, Detached, SettleClosed
  <2>2. attached' \in [Readers -> BOOLEAN] /\ reader' \in Readers \cup {NoReader}
    BY <1>7 DEF ReaderCancel, Detached
  <2> QED
    BY <1>7, <2>1, <2>2 DEF ReaderCancel, Detached, readVars
<1>8. ASSUME NEW r \in Readers, ReadRejected(r) PROVE StreamTypeOK'
  BY <1>8 DEF ReadRejected, CallRead, Answer, queueVars, readerVars, histVars
<1>9. ASSUME NEW r \in Readers, ReadQueued(r) PROVE StreamTypeOK'
  <2>1. issued' \in 0 .. MaxReads /\ issued + 1 \in Reads
    BY <1>9 DEF ReadQueued, CallRead
  <2>2. Head(queue) \in Chunks \cup {Close} /\ queue' = Tail(queue)
    BY <1>9 DEF ReadQueued, Shift
  <2>3. queue' \in Seq(Chunks \cup {Close})
    BY <1>9, <2>2 DEF ReadQueued
  <2>4. \A i \in DOMAIN queue' : queue'[i] = Close => i = Len(queue') /\ closeRequested
    BY <1>9, <2>2 DEF ReadQueued
  <2>5. status' \in [Reads -> {"none", "pending", "chunk", "done", "error"}]
    BY <1>9, <2>1 DEF ReadQueued, Answer
  <2>6. got' \in [Reads -> Chunks \cup {0}]
    BY <1>9, <2>1, <2>2 DEF ReadQueued, Answer, Shift
  <2>7. state' \in {"readable", "closed", "errored"}
    BY <1>9 DEF ReadQueued
  <2>8. closed' \in [Readers -> {"none", "pending", "resolved", "rejected"}]
    BY <1>9 DEF ReadQueued, SettleClosed
  <2> QED
    BY <1>9, <2>1, <2>3, <2>4, <2>5, <2>6, <2>7, <2>8 DEF ReadQueued, readerVars, histVars
<1>10. ASSUME NEW r \in Readers, ReadClosed(r) PROVE StreamTypeOK'
  BY <1>10 DEF ReadClosed, CallRead, Answer, queueVars, readerVars, histVars
<1>11. ASSUME NEW r \in Readers, ReadWaits(r) PROVE StreamTypeOK'
  BY <1>11 DEF ReadWaits, CallRead, Answer, queueVars, histVars
<1>12. ASSUME NEW r \in Readers, ReadPullThrows(r) PROVE StreamTypeOK'
  BY <1>12 DEF ReadPullThrows, CallRead, Answer, queueVars, histVars
<1>13. CASE StreamCancel
  BY <1>13 DEF StreamCancel, SettleClosed, readVars
<1>14. CASE UNCHANGED vars
  BY <1>14 DEF vars, queueVars, readerVars, readVars, histVars
<1> QED
  BY <1>1, <1>2, <1>3, <1>4, <1>5, <1>6, <1>7, <1>8, <1>9, <1>10, <1>11, <1>12, <1>13, <1>14
     DEF Next, Source, Consumer, Read

\* A reader that is not made and a read that is not called stay unused.
LEMMA UnusedStep ==
  StreamTypeOK /\ NoLostWakeup /\ UnusedIsFresh /\ [Next]_vars => UnusedIsFresh'
<1> SUFFICES ASSUME StreamTypeOK, NoLostWakeup, UnusedIsFresh, [Next]_vars PROVE UnusedIsFresh'
  OBVIOUS
<1> USE ReadersAssumption, BoundsAssumption DEF StreamTypeOK, UnusedIsFresh, Unused, Reads
<1>1. CASE Enqueue
  <2>1. CASE Stays(sent + 1)
    BY <1>1, <2>1 DEF Enqueue, CanEnqueue, Stays, readVars, histVars
  <2>2. CASE GoesToHead(sent + 1)
    BY <1>1, <2>2 DEF Enqueue, CanEnqueue, GoesToHead, readVars, histVars
  <2> QED
    BY <1>1, <2>1, <2>2, EnqueueEffect
<1>2. CASE CloseStream
  <2>1. CASE Stays(Close)
    BY <1>2, <2>1 DEF CloseStream, CanEnqueue, Stays, readVars, histVars
  <2>2. CASE TellsAll
    BY <1>2, <2>2 DEF CloseStream, CanEnqueue, TellsAll, SettleReads, SettleClosed, histVars
  <2> QED
    BY <1>2, <2>1, <2>2, CloseEffect
<1>3. CASE Error
  BY <1>3 DEF Error, ErrorPending, SettleReads, SettleClosed, histVars
<1>4. ASSUME NEW r \in Readers, GetReader(r) PROVE UnusedIsFresh'
  BY <1>4 DEF GetReader, NewReader, Unused, queueVars, readVars
<1>5. ASSUME NEW r \in Readers, DirectReader(r) PROVE UnusedIsFresh'
  BY <1>5 DEF DirectReader, NewReader, Unused, queueVars, readVars
<1>6. ASSUME NEW r \in Readers, ReleaseLock(r) PROVE UnusedIsFresh'
  BY <1>6 DEF ReleaseLock, queueVars, readVars, histVars
<1>7. ASSUME NEW r \in Readers, ReaderCancel(r) PROVE UnusedIsFresh'
  BY <1>7 DEF ReaderCancel, Detached, SettleClosed, readVars
<1>8. ASSUME NEW r \in Readers, ReadRejected(r) PROVE UnusedIsFresh'
  BY <1>8 DEF ReadRejected, CallRead, Answer, queueVars, readerVars, histVars
<1>9. ASSUME NEW r \in Readers, ReadQueued(r) PROVE UnusedIsFresh'
  BY <1>9 DEF ReadQueued, CallRead, Answer, Shift, SettleClosed, readerVars, histVars
<1>10. ASSUME NEW r \in Readers, ReadClosed(r) PROVE UnusedIsFresh'
  BY <1>10 DEF ReadClosed, CallRead, Answer, queueVars, readerVars, histVars
<1>11. ASSUME NEW r \in Readers, ReadWaits(r) PROVE UnusedIsFresh'
  BY <1>11 DEF ReadWaits, CallRead, Answer, queueVars, histVars
<1>12. ASSUME NEW r \in Readers, ReadPullThrows(r) PROVE UnusedIsFresh'
  BY <1>12 DEF ReadPullThrows, CallRead, Answer, queueVars, histVars
<1>13. CASE StreamCancel
  BY <1>13 DEF StreamCancel, SettleClosed, readVars
<1>14. CASE UNCHANGED vars
  BY <1>14 DEF vars, queueVars, readerVars, readVars, histVars
<1> QED
  BY <1>1, <1>2, <1>3, <1>4, <1>5, <1>6, <1>7, <1>8, <1>9, <1>10, <1>11, <1>12, <1>13, <1>14
     DEF Next, Source, Consumer, Read

\* Requests are added at the end, with the number of the read just called.
LEMMA RequestsStep ==
  StreamTypeOK /\ NoLostWakeup /\ RequestsInOrder /\ [Next]_vars => RequestsInOrder'
<1> SUFFICES ASSUME StreamTypeOK, NoLostWakeup, RequestsInOrder, [Next]_vars PROVE RequestsInOrder'
  OBVIOUS
<1> USE BoundsAssumption DEF StreamTypeOK, RequestsInOrder, Reads
<1>1. CASE Enqueue
  <2>1. CASE Stays(sent + 1)
    BY <1>1, <2>1 DEF Enqueue, CanEnqueue, Stays, readVars, histVars
  <2>2. CASE GoesToHead(sent + 1)
    BY <1>1, <2>2 DEF Enqueue, CanEnqueue, GoesToHead, readVars, histVars
  <2> QED
    BY <1>1, <2>1, <2>2, EnqueueEffect
<1>2. CASE CloseStream
  <2>1. CASE Stays(Close)
    BY <1>2, <2>1 DEF CloseStream, CanEnqueue, Stays, readVars, histVars
  <2>2. CASE TellsAll
    BY <1>2, <2>2 DEF CloseStream, CanEnqueue, TellsAll, SettleReads, SettleClosed, histVars
  <2> QED
    BY <1>2, <2>1, <2>2, CloseEffect
<1>3. CASE Error
  <2>1. \/ requests' = [requests EXCEPT ![reader] = <<>>]
        \/ requests' = requests
    BY <1>3 DEF Error, ErrorPending
  <2>2. issued' = issued /\ DOMAIN <<>> = {}
    BY <1>3 DEF Error
  <2>3. CASE requests' = requests
    BY <2>2, <2>3
  <2>4. CASE requests' = [requests EXCEPT ![reader] = <<>>]
    BY <2>2, <2>4
  <2> QED
    BY <2>1, <2>3, <2>4
<1>4. ASSUME NEW r \in Readers, GetReader(r) PROVE RequestsInOrder'
  BY <1>4 DEF GetReader, NewReader, Unused, queueVars, readVars
<1>5. ASSUME NEW r \in Readers, DirectReader(r) PROVE RequestsInOrder'
  BY <1>5 DEF DirectReader, NewReader, Unused, queueVars, readVars
<1>6. ASSUME NEW r \in Readers, ReleaseLock(r) PROVE RequestsInOrder'
  BY <1>6 DEF ReleaseLock, queueVars, readVars, histVars
<1>7. ASSUME NEW r \in Readers, ReaderCancel(r) PROVE RequestsInOrder'
  BY <1>7 DEF ReaderCancel, Detached, SettleClosed, readVars
<1>8. ASSUME NEW r \in Readers, ReadRejected(r) PROVE RequestsInOrder'
  <2>1. requests' = requests /\ issued' = issued + 1
    BY <1>8 DEF ReadRejected, CallRead, readerVars
  <2> QED
    BY <2>1
<1>9. ASSUME NEW r \in Readers, ReadQueued(r) PROVE RequestsInOrder'
  <2>1. requests' = requests /\ issued' = issued + 1
    BY <1>9 DEF ReadQueued, CallRead, readerVars
  <2> QED
    BY <2>1
<1>10. ASSUME NEW r \in Readers, ReadClosed(r) PROVE RequestsInOrder'
  <2>1. requests' = requests /\ issued' = issued + 1
    BY <1>10 DEF ReadClosed, CallRead, readerVars
  <2> QED
    BY <2>1
<1>11. ASSUME NEW r \in Readers, ReadWaits(r) PROVE RequestsInOrder'
  <2>1. /\ requests' = [requests EXCEPT ![r] = Append(@, issued + 1)]
        /\ issued' = issued + 1 /\ issued + 1 \in Reads
    BY <1>11 DEF ReadWaits, CallRead
  <2> QED
    BY <2>1
<1>12. ASSUME NEW r \in Readers, ReadPullThrows(r) PROVE RequestsInOrder'
  <2>1. /\ requests' = [requests EXCEPT ![r] = Append(@, issued + 1)]
        /\ issued' = issued + 1 /\ issued + 1 \in Reads
    BY <1>12 DEF ReadPullThrows, CallRead
  <2> QED
    BY <2>1
<1>13. CASE StreamCancel
  BY <1>13 DEF StreamCancel, SettleClosed, readVars
<1>14. CASE UNCHANGED vars
  BY <1>14 DEF vars, queueVars, readerVars, readVars, histVars
<1> QED
  BY <1>1, <1>2, <1>3, <1>4, <1>5, <1>6, <1>7, <1>8, <1>9, <1>10, <1>11, <1>12, <1>13, <1>14
     DEF Next, Source, Consumer, Read

\* No step leaves a request and a chunk waiting for each other.
LEMMA WakeupStep ==
  StreamTypeOK /\ NoLostWakeup /\ UnusedIsFresh /\ [Next]_vars => NoLostWakeup'
<1> SUFFICES ASSUME StreamTypeOK, NoLostWakeup, UnusedIsFresh, [Next]_vars PROVE NoLostWakeup'
  OBVIOUS
<1> USE ReadersAssumption DEF StreamTypeOK, UnusedIsFresh, Unused, NoLostWakeup, Reads
<1>1. CASE Enqueue
  <2>1. CASE Stays(sent + 1)
    BY <1>1, <2>1 DEF Enqueue, CanEnqueue, Stays, readVars, histVars
  <2>2. CASE GoesToHead(sent + 1)
    BY <1>1, <2>2 DEF Enqueue, CanEnqueue, GoesToHead, readVars, histVars
  <2> QED
    BY <1>1, <2>1, <2>2, EnqueueEffect
<1>2. CASE CloseStream
  <2>1. CASE Stays(Close)
    BY <1>2, <2>1 DEF CloseStream, CanEnqueue, Stays, readVars, histVars
  <2>2. CASE TellsAll
    BY <1>2, <2>2 DEF CloseStream, CanEnqueue, TellsAll, SettleReads, SettleClosed, histVars
  <2> QED
    BY <1>2, <2>1, <2>2, CloseEffect
<1>3. CASE Error
  BY <1>3 DEF Error, ErrorPending, SettleReads, SettleClosed, histVars
<1>4. ASSUME NEW r \in Readers, GetReader(r) PROVE NoLostWakeup'
  BY <1>4 DEF GetReader, NewReader, Unused, queueVars, readVars
<1>5. ASSUME NEW r \in Readers, DirectReader(r) PROVE NoLostWakeup'
  BY <1>5 DEF DirectReader, NewReader, Unused, queueVars, readVars
<1>6. ASSUME NEW r \in Readers, ReleaseLock(r) PROVE NoLostWakeup'
  BY <1>6 DEF ReleaseLock, queueVars, readVars, histVars
<1>7. ASSUME NEW r \in Readers, ReaderCancel(r) PROVE NoLostWakeup'
  BY <1>7 DEF ReaderCancel, Detached, SettleClosed, readVars
<1>8. ASSUME NEW r \in Readers, ReadRejected(r) PROVE NoLostWakeup'
  BY <1>8 DEF ReadRejected, CallRead, Answer, queueVars, readerVars, histVars
<1>9. ASSUME NEW r \in Readers, ReadQueued(r) PROVE NoLostWakeup'
  BY <1>9 DEF ReadQueued, CallRead, Answer, Shift, SettleClosed, readerVars, histVars
<1>10. ASSUME NEW r \in Readers, ReadClosed(r) PROVE NoLostWakeup'
  BY <1>10 DEF ReadClosed, CallRead, Answer, queueVars, readerVars, histVars
<1>11. ASSUME NEW r \in Readers, ReadWaits(r) PROVE NoLostWakeup'
  BY <1>11 DEF ReadWaits, CallRead, Answer, queueVars, histVars
<1>12. ASSUME NEW r \in Readers, ReadPullThrows(r) PROVE NoLostWakeup'
  BY <1>12 DEF ReadPullThrows, CallRead, Answer, queueVars, histVars
<1>13. CASE StreamCancel
  BY <1>13 DEF StreamCancel, SettleClosed, readVars
<1>14. CASE UNCHANGED vars
  BY <1>14 DEF vars, queueVars, readerVars, readVars, histVars
<1> QED
  BY <1>1, <1>2, <1>3, <1>4, <1>5, <1>6, <1>7, <1>8, <1>9, <1>10, <1>11, <1>12, <1>13, <1>14
     DEF Next, Source, Consumer, Read


\* The queue stays in order and its marker in step with the state.
LEMMA QueueStep ==
  StreamTypeOK /\ NoLostWakeup /\ QueueInOrder /\ [Next]_vars => QueueInOrder'
<1> SUFFICES ASSUME StreamTypeOK, NoLostWakeup, QueueInOrder, [Next]_vars PROVE QueueInOrder'
  OBVIOUS
<1> USE DEF QueueInOrder, Taken
<1>1. CASE Enqueue
  <2>1. CASE Stays(sent + 1)
    <3>1. ~Marked /\ sent + 1 \in Nat /\ sent + 1 # Close
      BY <1>1 DEF Enqueue, CanEnqueue, StreamTypeOK, Close
    <3>2. /\ queue' = Append(queue, sent + 1) /\ sent' = sent + 1
          /\ UNCHANGED <<state, closeRequested>>
      BY <1>1, <2>1 DEF Enqueue, Stays
    <3>3. Len(queue) \in Nat
      BY DEF StreamTypeOK
    <3> QED
      <4>1. /\ Kept = Len(queue) /\ Kept' = Kept + 1 /\ ~Marked'
            /\ \A i \in 1 .. Len(queue) : queue'[i] = queue[i]
            /\ queue'[Len(queue) + 1] = sent + 1
        BY <3>1, <3>2, AppendKeeps
      <4>2. sent \in Nat /\ ~closeRequested /\ state = "readable"
        BY <1>1 DEF Enqueue, CanEnqueue, StreamTypeOK
      <4> QED
        BY <3>2, <3>3, <4>1, <4>2
  <2>2. CASE GoesToHead(sent + 1)
    BY <1>1, <2>2 DEF Enqueue, CanEnqueue, GoesToHead, StreamTypeOK, Kept, Marked
  <2> QED
    BY <1>1, <2>1, <2>2, EnqueueEffect
<1>2. CASE CloseStream
  <2>1. CASE Stays(Close)
    <3>1. ~Marked /\ Close \in Nat
      BY <1>2 DEF CloseStream, CanEnqueue, Close
    <3>2. /\ queue' = Append(queue, Close) /\ sent' = sent
          /\ UNCHANGED state /\ state = "readable" /\ closeRequested'
      BY <1>2, <2>1 DEF CloseStream, CanEnqueue, Stays
    <3> QED
      BY <3>1, <3>2, AppendKeeps
  <2>2. CASE TellsAll
    BY <1>2, <2>2 DEF CloseStream, TellsAll, StreamTypeOK, Kept, Marked
  <2> QED
    BY <1>2, <2>1, <2>2, CloseEffect
<1>3. CASE Error
  <2>1. queue' = <<>> /\ state' = "errored" /\ sent' = sent
    BY <1>3 DEF Error
  <2>2. Kept' = 0 /\ ~Marked'
    BY <2>1 DEF Kept, Marked
  <2>3. sent \in Nat
    BY DEF StreamTypeOK
  <2> QED
    BY <2>1, <2>2, <2>3
<1>4. ASSUME NEW r \in Readers, GetReader(r) PROVE QueueInOrder'
  BY <1>4 DEF GetReader, NewReader, Unused, queueVars, readVars, Kept, Marked
<1>5. ASSUME NEW r \in Readers, DirectReader(r) PROVE QueueInOrder'
  BY <1>5 DEF DirectReader, NewReader, Unused, queueVars, readVars, Kept, Marked
<1>6. ASSUME NEW r \in Readers, ReleaseLock(r) PROVE QueueInOrder'
  BY <1>6 DEF ReleaseLock, queueVars, readVars, histVars, Kept, Marked
<1>7. ASSUME NEW r \in Readers, ReaderCancel(r) PROVE QueueInOrder'
  BY <1>7 DEF ReaderCancel, Detached, SettleClosed, readVars, Kept, Marked
<1>8. ASSUME NEW r \in Readers, ReadRejected(r) PROVE QueueInOrder'
  BY <1>8 DEF ReadRejected, CallRead, Answer, queueVars, readerVars, histVars, Kept, Marked
<1>9. ASSUME NEW r \in Readers, ReadQueued(r) PROVE QueueInOrder'
  <2>1. queue # <<>> /\ queue' = Tail(queue) /\ UNCHANGED <<sent, closeRequested>>
    BY <1>9 DEF ReadQueued, Shift
  <2>2. state' = IF Head(queue) = Close THEN "closed" ELSE state
    BY <1>9 DEF ReadQueued, Shift
  <2>3. sent \in Nat /\ Len(queue) \in Nat
    BY DEF StreamTypeOK
  <2>4. CASE Head(queue) = Close
    <3>1. queue' = <<>> /\ Kept = 0 /\ Kept' = 0 /\ state' = "closed"
      BY <2>1, <2>2, <2>4, TailKeeps
    <3>2. ~Marked'
      BY <3>1 DEF Marked
    <3> QED
      BY <2>1, <2>3, <3>1, <3>2
  <2>5. CASE Head(queue) # Close
    <3>1. (Marked' <=> Marked) /\ Kept > 0 /\ Kept' = Kept - 1 /\ state' = state
      BY <2>1, <2>2, <2>5, TailKeeps
    <3>2. Len(queue') = Len(queue) - 1 /\ \A i \in 1 .. Len(queue') : queue'[i] = queue[i + 1]
      BY <2>1, TailKeeps
    <3>3. Kept \in Nat /\ Kept <= Len(queue)
      BY <2>1, <2>3, <3>1 DEF Kept
    <3>4. \A i \in 1 .. Kept' : queue'[i] = Taken' + i
      BY <2>1, <2>3, <3>1, <3>2, <3>3
    <3> QED
      BY <2>1, <2>3, <3>1, <3>3, <3>4
  <2> QED
    BY <2>4, <2>5
<1>10. ASSUME NEW r \in Readers, ReadClosed(r) PROVE QueueInOrder'
  BY <1>10 DEF ReadClosed, CallRead, Answer, queueVars, readerVars, histVars, Kept, Marked
<1>11. ASSUME NEW r \in Readers, ReadWaits(r) PROVE QueueInOrder'
  BY <1>11 DEF ReadWaits, CallRead, Answer, queueVars, histVars, Kept, Marked
<1>12. ASSUME NEW r \in Readers, ReadPullThrows(r) PROVE QueueInOrder'
  BY <1>12 DEF ReadPullThrows, CallRead, Answer, queueVars, histVars, Kept, Marked
<1>13. CASE StreamCancel
  BY <1>13 DEF StreamCancel, SettleClosed, readVars, Kept, Marked
<1>14. CASE UNCHANGED vars
  BY <1>14 DEF vars, queueVars, readerVars, readVars, histVars, Kept, Marked
<1> QED
  BY <1>1, <1>2, <1>3, <1>4, <1>5, <1>6, <1>7, <1>8, <1>9, <1>10, <1>11, <1>12, <1>13, <1>14
     DEF Next, Source, Consumer, Read

\* Who waits under the lock stays next: all chunks were handed to earlier reads.
LEMMA WaitersStep ==
  /\ StreamTypeOK /\ NoLostWakeup /\ UnusedIsFresh /\ RequestsInOrder /\ QueueInOrder
  /\ WaitersAreNext /\ [Next]_vars
  => WaitersAreNext'
<1> SUFFICES ASSUME StreamTypeOK, NoLostWakeup, UnusedIsFresh, RequestsInOrder, QueueInOrder,
                    WaitersAreNext, [Next]_vars
             PROVE  WaitersAreNext'
  OBVIOUS
<1> USE ReadersAssumption, BoundsAssumption
    DEF StreamTypeOK, UnusedIsFresh, Unused, WaitersAreNext, Reads
<1>1. CASE Enqueue
  <2>1. CASE Stays(sent + 1)
    BY <1>1, <2>1 DEF Enqueue, CanEnqueue, Stays, readVars, histVars
  <2>2. CASE GoesToHead(sent + 1)
    <3> DEFINE rs == requests[reader]
    <3>1. reader \in Readers /\ rs \in Seq(Reads) /\ rs # <<>>
      BY <2>2 DEF GoesToHead
    <3>2. /\ UNCHANGED <<reader, state, pullThrew>>
          /\ requests'[reader] = Tail(rs)
          /\ \A i \in Reads : i # Head(rs) => status'[i] = status[i]
      BY <1>1, <2>2, <3>1 DEF Enqueue, GoesToHead, histVars
    <3> SUFFICES ASSUME NEW k \in DOMAIN Tail(rs)
                 PROVE  /\ state = "readable"
                        /\ ~pullThrew => status'[Tail(rs)[k]] = "pending"
                        /\ \A i \in Reads : status'[i] = "chunk" => i < Tail(rs)[k]
      BY <3>2
    <3>3. /\ k + 1 \in DOMAIN rs /\ 1 \in DOMAIN rs /\ Tail(rs)[k] = rs[k + 1]
          /\ Head(rs) = rs[1] /\ 1 < k + 1
      BY <3>1
    <3>4. Head(rs) \in Reads /\ rs[k + 1] \in Reads /\ Head(rs) < rs[k + 1]
      BY <3>1, <3>3 DEF RequestsInOrder
    <3> QED
      BY <3>1, <3>2, <3>3, <3>4
  <2> QED
    BY <1>1, <2>1, <2>2, EnqueueEffect
<1>2. CASE CloseStream
  <2>1. CASE Stays(Close)
    BY <1>2, <2>1 DEF CloseStream, CanEnqueue, Stays, readVars, histVars
  <2>2. CASE TellsAll
    BY <1>2, <2>2 DEF CloseStream, CanEnqueue, TellsAll, SettleReads, SettleClosed, histVars
  <2> QED
    BY <1>2, <2>1, <2>2, CloseEffect
<1>3. CASE Error
  BY <1>3 DEF Error, ErrorPending, SettleReads, SettleClosed, histVars
<1>4. ASSUME NEW r \in Readers, GetReader(r) PROVE WaitersAreNext'
  BY <1>4 DEF GetReader, NewReader, Unused, queueVars, readVars
<1>5. ASSUME NEW r \in Readers, DirectReader(r) PROVE WaitersAreNext'
  BY <1>5 DEF DirectReader, NewReader, Unused, queueVars, readVars
<1>6. ASSUME NEW r \in Readers, ReleaseLock(r) PROVE WaitersAreNext'
  BY <1>6 DEF ReleaseLock, queueVars, readVars, histVars
<1>7. ASSUME NEW r \in Readers, ReaderCancel(r) PROVE WaitersAreNext'
  BY <1>7 DEF ReaderCancel, Detached, SettleClosed, readVars
<1>8. ASSUME NEW r \in Readers, ReadRejected(r) PROVE WaitersAreNext'
  BY <1>8 DEF ReadRejected, CallRead, Answer, queueVars, readerVars, histVars
<1>9. ASSUME NEW r \in Readers, ReadQueued(r) PROVE WaitersAreNext'
  <2>1. queue # <<>> /\ UNCHANGED <<reader, requests>>
    BY <1>9 DEF ReadQueued, readerVars
  <2>2. reader # NoReader => requests'[reader] = <<>>
    BY <2>1 DEF NoLostWakeup
  <2> QED
    BY <2>1, <2>2
<1>10. ASSUME NEW r \in Readers, ReadClosed(r) PROVE WaitersAreNext'
  BY <1>10 DEF ReadClosed, CallRead, Answer, queueVars, readerVars, histVars
<1>11. ASSUME NEW r \in Readers, ReadWaits(r) PROVE WaitersAreNext'
  BY <1>11 DEF ReadWaits, CallRead, Answer, queueVars, histVars
<1>12. ASSUME NEW r \in Readers, ReadPullThrows(r) PROVE WaitersAreNext'
  BY <1>12 DEF ReadPullThrows, CallRead, Answer, queueVars, histVars
<1>13. CASE StreamCancel
  BY <1>13 DEF StreamCancel, SettleClosed, readVars
<1>14. CASE UNCHANGED vars
  BY <1>14 DEF vars, queueVars, readerVars, readVars, histVars
<1> QED
  BY <1>1, <1>2, <1>3, <1>4, <1>5, <1>6, <1>7, <1>8, <1>9, <1>10, <1>11, <1>12, <1>13, <1>14
     DEF Next, Source, Consumer, Read

\* While nobody uses `new` or cancels, the lock and the readers agree.
LEMMA LockStep ==
  StreamTypeOK /\ NoLostWakeup /\ UnusedIsFresh /\ LockIsHeld /\ [Next]_vars => LockIsHeld'
<1> SUFFICES ASSUME StreamTypeOK, NoLostWakeup, UnusedIsFresh, LockIsHeld, [Next]_vars
             PROVE  LockIsHeld'
  OBVIOUS
<1> USE ReadersAssumption DEF StreamTypeOK, UnusedIsFresh, Unused, LockIsHeld
<1>1. CASE Enqueue
  <2>1. CASE Stays(sent + 1)
    BY <1>1, <2>1 DEF Enqueue, CanEnqueue, Stays, readVars, histVars
  <2>2. CASE GoesToHead(sent + 1)
    BY <1>1, <2>2 DEF Enqueue, CanEnqueue, GoesToHead, readVars, histVars
  <2> QED
    BY <1>1, <2>1, <2>2, EnqueueEffect
<1>2. CASE CloseStream
  <2>1. CASE Stays(Close)
    BY <1>2, <2>1 DEF CloseStream, CanEnqueue, Stays, readVars, histVars
  <2>2. CASE TellsAll
    BY <1>2, <2>2 DEF CloseStream, CanEnqueue, TellsAll, SettleReads, SettleClosed, histVars
  <2> QED
    BY <1>2, <2>1, <2>2, CloseEffect
<1>3. CASE Error
  BY <1>3 DEF Error, ErrorPending, SettleReads, SettleClosed, histVars
<1>4. ASSUME NEW r \in Readers, GetReader(r) PROVE LockIsHeld'
  BY <1>4 DEF GetReader, NewReader, Unused, queueVars, readVars
<1>5. ASSUME NEW r \in Readers, DirectReader(r) PROVE LockIsHeld'
  BY <1>5 DEF DirectReader, NewReader, Unused, queueVars, readVars
<1>6. ASSUME NEW r \in Readers, ReleaseLock(r) PROVE LockIsHeld'
  BY <1>6 DEF ReleaseLock, queueVars, readVars, histVars
<1>7. ASSUME NEW r \in Readers, ReaderCancel(r) PROVE LockIsHeld'
  <2>1. CASE state = "readable"
    BY <1>7, <2>1 DEF ReaderCancel
  <2>2. CASE state # "readable"
    <3>1. /\ attached' = [attached EXCEPT ![r] = requests[r] # <<>>]
          /\ reader' = IF requests[r] = <<>> THEN NoReader ELSE reader
          /\ UNCHANGED <<state, cancelled, direct>> /\ attached[r]
      BY <1>7, <2>2 DEF ReaderCancel, Detached
    <3>2. CASE requests[r] = <<>>
      BY <3>1, <3>2
    <3>3. CASE requests[r] # <<>>
      BY <3>1, <3>3
    <3> QED
      BY <3>2, <3>3
  <2> QED
    BY <2>1, <2>2
<1>8. ASSUME NEW r \in Readers, ReadRejected(r) PROVE LockIsHeld'
  BY <1>8 DEF ReadRejected, CallRead, Answer, queueVars, readerVars, histVars
<1>9. ASSUME NEW r \in Readers, ReadQueued(r) PROVE LockIsHeld'
  BY <1>9 DEF ReadQueued, CallRead, Answer, Shift, SettleClosed, readerVars, histVars
<1>10. ASSUME NEW r \in Readers, ReadClosed(r) PROVE LockIsHeld'
  BY <1>10 DEF ReadClosed, CallRead, Answer, queueVars, readerVars, histVars
<1>11. ASSUME NEW r \in Readers, ReadWaits(r) PROVE LockIsHeld'
  BY <1>11 DEF ReadWaits, CallRead, Answer, queueVars, histVars
<1>12. ASSUME NEW r \in Readers, ReadPullThrows(r) PROVE LockIsHeld'
  BY <1>12 DEF ReadPullThrows, CallRead, Answer, queueVars, histVars
<1>13. CASE StreamCancel
  BY <1>13 DEF StreamCancel, SettleClosed, readVars
<1>14. CASE UNCHANGED vars
  BY <1>14 DEF vars, queueVars, readerVars, readVars, histVars
<1> QED
  BY <1>1, <1>2, <1>3, <1>4, <1>5, <1>6, <1>7, <1>8, <1>9, <1>10, <1>11, <1>12, <1>13, <1>14
     DEF Next, Source, Consumer, Read

-----------------------------------------------------------------------------
(* What one step does to the answers.                                      *)

\* No read gets a chunk.
NoneServed ==
  \A i \in Reads : /\ status'[i] = "chunk" <=> status[i] = "chunk"
                   /\ status[i] = "chunk" => got'[i] = got[i]

\* One read gets the next chunk, and it was called after all that have one.
NextServed(read) ==
  /\ Taken' = Taken + 1
  /\ status[read] # "chunk" /\ status'[read] = "chunk" /\ got'[read] = Taken + 1
  /\ \A i \in Reads : status[i] = "chunk" => i < read
  /\ \A i \in Reads \ {read} : /\ status'[i] = "chunk" <=> status[i] = "chunk"
                              /\ got'[i] = got[i]

\* No chunk leaves the queue, or it goes to a read, or it is lost where that is
\* allowed.
Serves ==
  \/ NoneServed /\ Taken' = Taken
  \/ \E read \in Reads : NextServed(read)
  \/ NoneServed /\ Taken' \in Int /\ Taken' > Taken /\ (state' = "errored" \/ pullThrew')


\* So does every step.
LEMMA ServesStep ==
  /\ StreamTypeOK /\ NoLostWakeup /\ UnusedIsFresh /\ QueueInOrder /\ WaitersAreNext
  /\ [Next]_vars
  => Serves
<1> SUFFICES ASSUME StreamTypeOK, NoLostWakeup, UnusedIsFresh, QueueInOrder, WaitersAreNext,
                    [Next]_vars
             PROVE  Serves
  OBVIOUS
<1> USE DEF StreamTypeOK, Reads
<1>1. CASE Enqueue
  <2>0. sent' = sent + 1 /\ sent \in Nat /\ sent + 1 # Close /\ ~Marked
    BY <1>1 DEF Enqueue, CanEnqueue, QueueInOrder, Close
  <2>1. CASE Stays(sent + 1)
    <3>1. Kept' = Kept + 1 /\ Kept \in Int
      BY <2>0, <2>1, AppendKeeps DEF Stays
    <3>2. Taken' = Taken
      BY <2>0, <3>1 DEF Taken
    <3> QED
      BY <2>1, <3>2 DEF Serves, NoneServed, Stays
  <2>2. CASE GoesToHead(sent + 1)
    <3> DEFINE head == Head(requests[reader])
    <3>1. Taken' = Taken + 1 /\ Taken = sent
      BY <2>0, <2>2 DEF GoesToHead, Taken, Kept, Marked
    <3>2. /\ reader \in Readers /\ requests[reader] \in Seq(Reads) /\ requests[reader] # <<>>
          /\ pullThrew' = pullThrew
      BY <1>1, <2>2 DEF GoesToHead, Enqueue, histVars
    <3>3. head \in Reads /\ 1 \in DOMAIN requests[reader] /\ head = requests[reader][1]
      BY <3>2, FirstOfSeq
    <3>4. CASE status[head] = "pending"
      <4>1. NextServed(head)
        BY <2>2, <3>1, <3>2, <3>3, <3>4 DEF GoesToHead, NextServed, WaitersAreNext
      <4> QED
        BY <3>3, <4>1 DEF Serves
    <3>5. CASE status[head] # "pending"
      <4>1. NoneServed
        BY <2>2, <3>3, <3>5 DEF GoesToHead, NoneServed
      <4>2. pullThrew
        BY <2>2, <3>3, <3>5 DEF GoesToHead, WaitersAreNext
      <4> QED
        BY <2>0, <3>1, <3>2, <4>1, <4>2 DEF Serves
    <3> QED
      BY <3>4, <3>5
  <2> QED
    BY <1>1, <2>1, <2>2, EnqueueEffect
<1>2. CASE CloseStream
  <2>0. sent' = sent /\ ~Marked /\ Close \in Nat
    BY <1>2 DEF CloseStream, CanEnqueue, QueueInOrder, Close
  <2>1. CASE Stays(Close)
    BY <2>0, <2>1, AppendKeeps DEF Serves, NoneServed, Stays, Taken
  <2>2. CASE TellsAll
    <3>1. NoneServed
      BY <2>2 DEF NoneServed, TellsAll, SettleReads
    <3>2. Taken' = Taken
      BY <2>0, <2>2 DEF TellsAll, Taken, Kept, Marked
    <3> QED
      BY <3>1, <3>2 DEF Serves
  <2> QED
    BY <1>2, <2>1, <2>2, CloseEffect
<1>3. CASE Error
  <2>1. queue' = <<>> /\ sent' = sent /\ got' = got /\ state' = "errored"
    BY <1>3 DEF Error
  <2>2. NoneServed
    BY <1>3 DEF Error, ErrorPending, SettleReads, NoneServed
  <2>3. Kept' = 0 /\ Taken' = sent
    BY <2>1 DEF Taken, Kept, Marked
  <2>4. sent \in Nat /\ Kept \in Nat
    <3>1. queue # <<>> => Len(queue) \in Nat /\ Len(queue) > 0
      OBVIOUS
    <3>2. queue = <<>> => ~Marked /\ Len(queue) = 0
      BY DEF Marked
    <3> QED
      BY <3>1, <3>2 DEF Kept, Marked
  <2> QED
    BY <2>1, <2>2, <2>3, <2>4 DEF Serves, Taken
<1>4. ASSUME NEW r \in Readers, GetReader(r) PROVE Serves
  <2>1. queue' = queue /\ sent' = sent /\ status' = status /\ got' = got
    BY <1>4 DEF GetReader, NewReader, queueVars, readVars
  <2> QED
    BY <2>1 DEF Serves, NoneServed, Taken, Kept, Marked
<1>5. ASSUME NEW r \in Readers, DirectReader(r) PROVE Serves
  <2>1. queue' = queue /\ sent' = sent /\ status' = status /\ got' = got
    BY <1>5 DEF DirectReader, NewReader, queueVars, readVars
  <2> QED
    BY <2>1 DEF Serves, NoneServed, Taken, Kept, Marked
<1>6. ASSUME NEW r \in Readers, ReleaseLock(r) PROVE Serves
  <2>1. queue' = queue /\ sent' = sent /\ status' = status /\ got' = got
    BY <1>6 DEF ReleaseLock, queueVars, readVars
  <2> QED
    BY <2>1 DEF Serves, NoneServed, Taken, Kept, Marked
<1>7. ASSUME NEW r \in Readers, ReaderCancel(r) PROVE Serves
  <2>1. queue' = queue /\ sent' = sent /\ status' = status /\ got' = got
    BY <1>7 DEF ReaderCancel, Detached, readVars
  <2> QED
    BY <2>1 DEF Serves, NoneServed, Taken, Kept, Marked
<1>8. ASSUME NEW r \in Readers, ReadRejected(r) PROVE Serves
  <2>1. /\ queue' = queue /\ sent' = sent /\ issued + 1 \in Reads
        /\ \E how \in {"pending", "done", "error"} : Answer(how, 0)
    BY <1>8, BoundsAssumption DEF ReadRejected, queueVars, CallRead
  <2>2. NoneServed
    BY <2>1 DEF NoneServed, Answer, UnusedIsFresh
  <2> QED
    BY <2>1, <2>2 DEF Serves, Taken, Kept, Marked
<1>9. ASSUME NEW r \in Readers, ReadQueued(r) PROVE Serves
  <2>1. /\ queue # <<>> /\ queue' = Tail(queue) /\ UNCHANGED sent
        /\ issued + 1 \in Reads
        /\ Head(queue) = Close => Answer("done", 0)
        /\ Head(queue) # Close => Answer("chunk", Head(queue))
    BY <1>9, BoundsAssumption DEF ReadQueued, CallRead, Shift
  <2>2. CASE Head(queue) = Close
    <3>1. status' = [status EXCEPT ![issued + 1] = "done"] /\ got' = [got EXCEPT ![issued + 1] = 0]
      BY <2>1, <2>2 DEF Answer
    <3>2. NoneServed
      BY <2>1, <3>1 DEF NoneServed, UnusedIsFresh
    <3> QED
      BY <2>1, <2>2, <3>2, TailKeeps DEF Serves, Taken
  <2>3. CASE Head(queue) # Close
    <3>1. Kept > 0 /\ Kept' = Kept - 1 /\ Head(queue) = queue[1]
      BY <2>1, <2>3, TailKeeps
    <3>2. sent \in Nat /\ Kept \in Int
      BY DEF Kept
    <3>3. Taken' = Taken + 1 /\ Head(queue) = Taken + 1
      BY <2>1, <3>1, <3>2 DEF Taken, QueueInOrder
    <3>4. /\ status' = [status EXCEPT ![issued + 1] = "chunk"]
          /\ got' = [got EXCEPT ![issued + 1] = Taken + 1]
      BY <2>1, <2>3, <3>3 DEF Answer
    <3>5. status[issued + 1] # "chunk" /\ \A i \in Reads : status[i] = "chunk" => i < issued + 1
      BY <2>1 DEF UnusedIsFresh
    <3>6. NextServed(issued + 1)
      BY <2>1, <3>3, <3>4, <3>5 DEF NextServed
    <3> QED
      BY <2>1, <3>6 DEF Serves
  <2> QED
    BY <2>2, <2>3
<1>10. ASSUME NEW r \in Readers, ReadClosed(r) PROVE Serves
  <2>1. /\ queue' = queue /\ sent' = sent /\ issued + 1 \in Reads
        /\ \E how \in {"pending", "done", "error"} : Answer(how, 0)
    BY <1>10, BoundsAssumption DEF ReadClosed, queueVars, CallRead
  <2>2. NoneServed
    BY <2>1 DEF NoneServed, Answer, UnusedIsFresh
  <2> QED
    BY <2>1, <2>2 DEF Serves, Taken, Kept, Marked
<1>11. ASSUME NEW r \in Readers, ReadWaits(r) PROVE Serves
  <2>1. /\ queue' = queue /\ sent' = sent /\ issued + 1 \in Reads
        /\ \E how \in {"pending", "done", "error"} : Answer(how, 0)
    BY <1>11, BoundsAssumption DEF ReadWaits, queueVars, CallRead
  <2>2. NoneServed
    BY <2>1 DEF NoneServed, Answer, UnusedIsFresh
  <2> QED
    BY <2>1, <2>2 DEF Serves, Taken, Kept, Marked
<1>12. ASSUME NEW r \in Readers, ReadPullThrows(r) PROVE Serves
  <2>1. /\ queue' = queue /\ sent' = sent /\ issued + 1 \in Reads
        /\ \E how \in {"pending", "done", "error"} : Answer(how, 0)
    BY <1>12, BoundsAssumption DEF ReadPullThrows, queueVars, CallRead
  <2>2. NoneServed
    BY <2>1 DEF NoneServed, Answer, UnusedIsFresh
  <2> QED
    BY <2>1, <2>2 DEF Serves, Taken, Kept, Marked
<1>13. CASE StreamCancel
  <2>1. queue' = queue /\ sent' = sent /\ status' = status /\ got' = got
    BY <1>13 DEF StreamCancel, readVars
  <2> QED
    BY <2>1 DEF Serves, NoneServed, Taken, Kept, Marked
<1>14. CASE UNCHANGED vars
  <2>1. queue' = queue /\ sent' = sent /\ status' = status /\ got' = got
    BY <1>14 DEF vars, queueVars, readVars
  <2> QED
    BY <2>1 DEF Serves, NoneServed, Taken, Kept, Marked
<1> QED
  BY <1>1, <1>2, <1>3, <1>4, <1>5, <1>6, <1>7, <1>8, <1>9, <1>10, <1>11, <1>12, <1>13, <1>14
     DEF Next, Source, Consumer, Read

\* An errored stream stays so, and a pull that threw is not forgotten.
LEMMA NoWayBack ==
  [Next]_vars => (state = "errored" => state' = "errored") /\ (pullThrew => pullThrew')
BY DEF Next, Source, Consumer, Read, Enqueue, CanEnqueue, CloseStream, Error, GetReader,
       DirectReader, NewReader, ReleaseLock, ReaderCancel, Detached, ReadRejected, ReadQueued, ReadClosed,
       ReadWaits, ReadPullThrows, StreamCancel, vars, queueVars, readerVars, histVars

\* So what reads got stays in order and without a gap.
LEMMA TakenStep ==
  StreamTypeOK /\ QueueInOrder /\ TakenWereRead /\ ReadsInOrder /\ Serves /\ [Next]_vars
    => TakenWereRead' /\ ReadsInOrder'
<1> SUFFICES ASSUME StreamTypeOK, QueueInOrder, TakenWereRead, ReadsInOrder, Serves, [Next]_vars
             PROVE  TakenWereRead' /\ ReadsInOrder'
  OBVIOUS
<1>t. Taken \in Int /\ Taken >= 0
  BY DEF StreamTypeOK, QueueInOrder, Taken, Kept
<1>n. (state = "errored" => state' = "errored") /\ (pullThrew => pullThrew')
  BY NoWayBack
<1> HIDE DEF Taken
<1>1. CASE NoneServed /\ Taken' = Taken
  <2>1. TakenWereRead'
    BY <1>1, <1>n DEF TakenWereRead, NoneServed
  <2>2. ReadsInOrder'
    BY <1>1 DEF ReadsInOrder, NoneServed
  <2> QED
    BY <2>1, <2>2
<1>2. ASSUME NEW read \in Reads, NextServed(read) PROVE TakenWereRead' /\ ReadsInOrder'
  <2>1. \A i \in Reads : status'[i] = "chunk" => got'[i] \in 1 .. Taken'
    BY <1>t, <1>2 DEF TakenWereRead, NextServed
  <2>2. ASSUME state' # "errored", ~pullThrew', NEW c \in 1 .. Taken'
        PROVE  \E i \in Reads : status'[i] = "chunk" /\ got'[i] = c
    <3>1. CASE c = Taken + 1
      BY <1>2, <3>1 DEF NextServed
    <3>2. CASE c # Taken + 1
      <4>1. PICK i \in Reads : status[i] = "chunk" /\ got[i] = c
        BY <1>t, <1>n, <1>2, <2>2, <3>2 DEF TakenWereRead, NextServed
      <4> QED
        BY <1>2, <4>1 DEF NextServed
    <3> QED
      BY <3>1, <3>2
  <2>3. ASSUME NEW i \in Reads, NEW j \in Reads,
               i < j, status'[i] = "chunk", status'[j] = "chunk"
        PROVE  got'[i] < got'[j]
    <3>1. i # read
      BY <1>2, <2>3 DEF NextServed, Reads
    <3>2. status[i] = "chunk" /\ got'[i] = got[i]
      BY <1>2, <2>3, <3>1 DEF NextServed
    <3>3. CASE j = read
      BY <1>t, <1>2, <3>2, <3>3 DEF NextServed, TakenWereRead
    <3>4. CASE j # read
      BY <1>2, <2>3, <3>2, <3>4 DEF NextServed, ReadsInOrder
    <3> QED
      BY <3>3, <3>4
  <2> QED
    BY <2>1, <2>2, <2>3 DEF TakenWereRead, ReadsInOrder
<1>3. CASE /\ NoneServed /\ Taken' \in Int /\ Taken' > Taken
           /\ state' = "errored" \/ pullThrew'
  <2>1. TakenWereRead'
    BY <1>t, <1>3 DEF TakenWereRead, NoneServed
  <2>2. ReadsInOrder'
    BY <1>3 DEF ReadsInOrder, NoneServed
  <2> QED
    BY <2>1, <2>2
<1> QED
  BY <1>1, <1>2, <1>3 DEF Serves

-----------------------------------------------------------------------------
\* The invariant holds of a stream that was just made.
LEMMA StreamInvInit == Init => StreamInv
<1> SUFFICES ASSUME Init PROVE StreamInv
  OBVIOUS
<1> USE ReadersAssumption, BoundsAssumption DEF Init
<1>1. StreamTypeOK
  <2>1. <<>> \in Seq(Reads) /\ <<>> \in Seq(Chunks \cup {Close}) /\ DOMAIN <<>> = {}
    OBVIOUS
  <2>2. 0 \in 0 .. MaxChunks /\ 0 \in 0 .. MaxReads
    OBVIOUS
  <2> QED
    BY <2>1, <2>2 DEF StreamTypeOK
<1>2. ~Marked /\ Kept = 0 /\ Taken = 0
  <2>1. queue = <<>> /\ sent = 0
    OBVIOUS
  <2>2. ~Marked
    BY <2>1 DEF Marked
  <2>3. Kept = Len(queue) /\ Len(queue) = 0
    BY <2>1, <2>2 DEF Kept
  <2>4. Kept = 0
    BY <2>3
  <2>5. Taken = sent - Kept
    BY DEF Taken
  <2> QED
    BY <2>1, <2>2, <2>4, <2>5
<1>3. UnusedIsFresh /\ LockIsHeld /\ WaitersAreNext /\ NoLostWakeup
  BY DEF UnusedIsFresh, LockIsHeld, WaitersAreNext, NoLostWakeup
<1>4. RequestsInOrder
  BY DEF RequestsInOrder
<1>5. QueueInOrder
  BY <1>2 DEF QueueInOrder
<1>6. TakenWereRead /\ ReadsInOrder
  BY <1>2 DEF TakenWereRead, ReadsInOrder
<1> QED
  BY <1>1, <1>3, <1>4, <1>5, <1>6 DEF StreamInv

\* And is kept by every call of the source and of the consumer.
LEMMA StreamInvStep == StreamInv /\ [Next]_vars => StreamInv'
<1> SUFFICES ASSUME StreamInv, [Next]_vars PROVE StreamInv'
  OBVIOUS
<1>1. /\ StreamTypeOK /\ UnusedIsFresh /\ RequestsInOrder /\ QueueInOrder /\ NoLostWakeup
      /\ WaitersAreNext /\ TakenWereRead /\ ReadsInOrder /\ LockIsHeld
  BY DEF StreamInv
<1>2. StreamTypeOK' /\ UnusedIsFresh'
  BY <1>1, StreamTypeStep, UnusedStep
<1>3. RequestsInOrder' /\ QueueInOrder' /\ NoLostWakeup'
  BY <1>1, RequestsStep, QueueStep, WakeupStep
<1>4. WaitersAreNext' /\ LockIsHeld'
  BY <1>1, WaitersStep, LockStep
<1>5. TakenWereRead' /\ ReadsInOrder'
  BY <1>1, ServesStep, TakenStep
<1> QED
  BY <1>2, <1>3, <1>4, <1>5 DEF StreamInv

\* The invariant that the proofs below use holds in every state.
LEMMA StreamInvariant == Spec => []StreamInv
<1> QED
  BY StreamInvInit, StreamInvStep, PTL DEF Spec

\* Every variable keeps its type and the close marker is put once and last, for any
\* number of readers, chunks and reads.
THEOREM StreamTypeCorrect == Spec => []StreamTypeOK
<1>1. StreamInv => StreamTypeOK
  BY DEF StreamInv
<1> QED
  BY <1>1, StreamInvariant, PTL

\* No read waits under the lock while a chunk is in the queue, whichever of enqueue,
\* close, read, getReader, releaseLock and cancel are called in whichever order.
THEOREM StreamWakesReads == Spec => []NoLostWakeup
<1>1. StreamInv => NoLostWakeup
  BY DEF StreamInv
<1> QED
  BY <1>1, StreamInvariant, PTL

\* Reads get the chunks in the order in which both were asked for, each once.
THEOREM StreamReadsInOrder == Spec => []ReadsInOrder
<1>1. StreamInv => ReadsInOrder
  BY DEF StreamInv
<1> QED
  BY <1>1, StreamInvariant, PTL

\* Until the stream errors or a pull throws, every chunk was read or is in the queue.
THEOREM StreamLosesNoChunk == Spec => []NoChunkLost
<1>1. ASSUME StreamInv PROVE NoChunkLost
  <2> USE <1>1 DEF StreamInv
  <2> SUFFICES ASSUME state # "errored", ~pullThrew
      PROVE {got[i] : i \in {j \in Reads : status[j] = "chunk"}} \cup (ToSet(queue) \ {Close})
              = 1 .. sent
    BY DEF NoChunkLost
  <2>1. Taken \in Int /\ Kept \in Int /\ sent = Taken + Kept /\ Kept >= 0 /\ Taken >= 0
    BY DEF StreamTypeOK, Taken, Kept, QueueInOrder, Marked
  <2>2. {got[i] : i \in {j \in Reads : status[j] = "chunk"}} = 1 .. Taken
    BY DEF TakenWereRead
  <2>3. ToSet(queue) \ {Close} = Taken + 1 .. sent
    <3>1. \A i \in DOMAIN queue : queue[i] # Close <=> i \in 1 .. Kept
      BY DEF StreamTypeOK, Kept, Marked, Last, QueueInOrder
    <3>2. Kept <= Len(queue) /\ Len(queue) \in Nat
      BY DEF StreamTypeOK, Kept
    <3>3. ASSUME NEW i \in DOMAIN queue, queue[i] # Close PROVE queue[i] \in Taken + 1 .. sent
      BY <2>1, <3>1, <3>3 DEF QueueInOrder
    <3>4. ASSUME NEW c \in Taken + 1 .. sent
          PROVE  c - Taken \in DOMAIN queue /\ queue[c - Taken] = c /\ c # Close
      <4>1. c - Taken \in 1 .. Kept /\ c # Close
        BY <2>1 DEF Close
      <4> QED
        BY <2>1, <3>2, <4>1 DEF QueueInOrder, StreamTypeOK
    <3> QED
      BY <3>3, <3>4 DEF ToSet
  <2> QED
    BY <2>1, <2>2, <2>3
<1> QED
  BY <1>1, StreamInvariant, PTL

-----------------------------------------------------------------------------
(* The refinement: the stream SimpleStream sees, and what the calls do to it. *)

Mode    == IF state = "readable" /\ closeRequested THEN "closing" ELSE state
Waiting == IF reader = NoReader THEN <<>> ELSE requests[reader]
Seen    == [state |-> Mode, queue |-> Unread, waiting |-> Waiting]

\* What is before the last element of a sequence, when one is added.
LEMMA FrontOfAppend ==
  ASSUME NEW S, NEW q \in Seq(S), NEW x \in S
  PROVE  Front(Append(q, x)) = q /\ Last(Append(q, x)) = x
BY DEF Front, Last

\* And when the first is taken from a sequence of two or more.
LEMMA FrontOfTail ==
  ASSUME NEW S, NEW q \in Seq(S), Len(q) > 1
  PROVE  /\ Front(q) # <<>> /\ Head(Front(q)) = Head(q)
         /\ Front(Tail(q)) = Tail(Front(q)) /\ Last(Tail(q)) = Last(q)
<1>1. /\ Front(q) \in Seq(S) /\ Len(Front(q)) = Len(q) - 1
      /\ \A i \in 1 .. Len(q) - 1 : Front(q)[i] = q[i]
  BY DEF Front
<1>2. /\ Tail(q) \in Seq(S) /\ Len(Tail(q)) = Len(q) - 1
      /\ \A i \in 1 .. Len(q) - 1 : Tail(q)[i] = q[i + 1]
  OBVIOUS
<1>3. Front(q) # <<>> /\ Head(Front(q)) = Head(q)
  BY <1>1
<1>4. Last(Tail(q)) = Last(q)
  BY <1>2 DEF Last
<1>5. /\ Front(Tail(q)) \in Seq(S) /\ Len(Front(Tail(q))) = Len(q) - 2
      /\ \A i \in 1 .. Len(q) - 2 : Front(Tail(q))[i] = q[i + 1]
  BY <1>2 DEF Front
<1>6. /\ Tail(Front(q)) \in Seq(S) /\ Len(Tail(Front(q))) = Len(q) - 2
      /\ \A i \in 1 .. Len(q) - 2 : Tail(Front(q))[i] = q[i + 1]
  BY <1>1, <1>3
<1>7. Front(Tail(q)) = Tail(Front(q))
  BY <1>5, <1>6, SeqEqual
<1> QED
  BY <1>3, <1>4, <1>7

\* The chunks in the queue after an item was added.
LEMMA UnreadAppend ==
  ASSUME StreamTypeOK, ~Marked, NEW item \in Nat, queue' = Append(queue, item)
  PROVE  /\ Unread = queue
         /\ item # Close => Unread' = Append(queue, item)
         /\ item = Close => Unread' = queue
<1>1. queue \in Seq(Nat)
  BY DEF StreamTypeOK, Chunks, Close
<1>2. Marked' <=> item = Close
  BY AppendKeeps
<1>3. Front(queue') = queue
  BY <1>1, FrontOfAppend
<1> QED
  BY <1>2, <1>3 DEF Unread

\* And after one was taken.
LEMMA UnreadTail ==
  ASSUME StreamTypeOK, queue # <<>>, queue' = Tail(queue)
  PROVE  /\ Head(queue) = Close => Unread = <<>> /\ Unread' = <<>>
         /\ Head(queue) # Close =>
              Unread # <<>> /\ Head(Unread) = Head(queue) /\ Unread' = Tail(Unread)
<1>1. queue \in Seq(Nat) /\ Len(queue) \in Nat
  BY DEF StreamTypeOK, Chunks, Close
<1>2. ASSUME Head(queue) = Close PROVE Unread = <<>> /\ Unread' = <<>>
  <2>1. Marked /\ queue' = <<>> /\ Kept = 0
    BY <1>2, TailKeeps
  <2>2. ~Marked' /\ Len(queue) - 1 = 0
    BY <1>1, <2>1 DEF Marked, Kept
  <2>3. Front(queue) = <<>>
    BY <1>1, <2>2 DEF Front
  <2> QED
    BY <2>1, <2>2, <2>3 DEF Unread
<1>3. ASSUME Head(queue) # Close
      PROVE  Unread # <<>> /\ Head(Unread) = Head(queue) /\ Unread' = Tail(Unread)
  <2>1. (Marked' <=> Marked) /\ Kept > 0
    BY <1>3, TailKeeps
  <2>2. CASE Marked
    <3>1. Len(queue) > 1
      BY <1>1, <2>1, <2>2 DEF Kept
    <3> QED
      BY <1>1, <2>1, <2>2, <3>1, FrontOfTail DEF Unread
  <2>3. CASE ~Marked
    BY <2>1, <2>3 DEF Unread
  <2> QED
    BY <2>2, <2>3
<1> QED
  BY <1>2, <1>3

\* What is queued is read or is nothing: an empty queue has no chunks either.
LEMMA UnreadNone == queue = <<>> => Unread = <<>>
BY DEF Unread, Marked

\* A call that leaves what SimpleStream sees alone.
LEMMA SeenSame ==
  queue' = queue /\ Mode' = Mode /\ Waiting' = Waiting
    /\ UNCHANGED <<sent, issued, status, got, direct>> => UNCHANGED Simple!simpleVars
BY DEF Simple!simpleVars, Mode, Waiting, Unread, Marked

\* Every call on a stream nobody meddled with is one of SimpleStream, or one it does
\* not see.
LEMMA SimpleStep ==
  StreamInv /\ [Next]_vars => [Simple!SimpleNext]_(Simple!simpleVars)
<1> SUFFICES ASSUME StreamInv, [Next]_vars PROVE [Simple!SimpleNext]_(Simple!simpleVars)
  OBVIOUS
<1>a. /\ StreamTypeOK /\ UnusedIsFresh /\ RequestsInOrder /\ QueueInOrder /\ NoLostWakeup
      /\ WaitersAreNext /\ LockIsHeld
  BY DEF StreamInv
<1>t. /\ status = [i \in Reads |-> status[i]] /\ got = [i \in Reads |-> got[i]]
      /\ issued \in Nat /\ sent \in Nat
  BY <1>a DEF StreamTypeOK
<1>w. state # "readable" => Waiting = <<>>
  BY <1>a, FirstOfSeq DEF WaitersAreNext, Waiting, StreamTypeOK
<1>1. CASE direct' # {}
  BY <1>1 DEF Simple!SimpleNext
<1>2. CASE Enqueue
  <2>0. /\ state = "readable" /\ ~closeRequested /\ ~Marked /\ sent' = sent + 1 /\ sent + 1 # Close
        /\ UNCHANGED <<closeRequested, reader, issued, direct>>
    BY <1>a, <1>2 DEF Enqueue, CanEnqueue, histVars, QueueInOrder, StreamTypeOK, Close
  <2>1. CASE Stays(sent + 1)
    <3>1. Waiting = <<>> /\ Mode = "readable" /\ state' = state /\ Waiting' = Waiting
      BY <2>0, <2>1 DEF Stays, Waiting, Mode
    <3>2. Unread' = Append(Unread, sent + 1)
      BY <1>a, <1>t, <2>0, <2>1, UnreadAppend DEF Stays
    <3>3. Simple!Give
      BY <1>t, <2>0, <2>1, <3>1, <3>2
         DEF Simple!Give, Simple!Accepts, Simple!WithChunk, Simple!Settled, Stays, Mode, Waiting
    <3> QED
      BY <2>0, <3>3 DEF Simple!SimpleNext
  <2>2. CASE GoesToHead(sent + 1)
    <3> DEFINE rs == requests[reader]
    <3>1. /\ Waiting = rs /\ Waiting # <<>> /\ Mode = "readable" /\ state' = state
          /\ Waiting' = Tail(rs) /\ Unread = <<>> /\ Unread' = <<>> /\ Head(rs) \in Reads
      BY <1>a, <2>0, <2>2, UnreadNone, FirstOfSeq
         DEF GoesToHead, Waiting, Mode, StreamTypeOK, Unread, Marked
    <3>2. /\ status' = [i \in Reads |-> IF i \in {Head(rs)} /\ status[i] = "pending"
                                        THEN "chunk" ELSE status[i]]
          /\ got' = [i \in Reads |-> IF status'[i] # status[i] THEN sent' ELSE got[i]]
      BY <1>t, <2>0, <2>2, <3>1 DEF GoesToHead
    <3>3. Simple!Give
      BY <2>0, <3>1, <3>2
         DEF Simple!Give, Simple!Accepts, Simple!WithChunk, Simple!Settled, Mode, Waiting
    <3> QED
      BY <2>0, <3>3 DEF Simple!SimpleNext
  <2> QED
    BY <1>a, <1>2, <2>1, <2>2, EnqueueEffect
<1>3. CASE CloseStream
  <2>0. /\ state = "readable" /\ ~closeRequested /\ closeRequested' /\ ~Marked
        /\ UNCHANGED <<reader, sent, issued, direct>> /\ Close \in Nat
    BY <1>a, <1>3 DEF CloseStream, CanEnqueue, histVars, QueueInOrder, Close
  <2>1. CASE Stays(Close)
    <3>1. /\ Waiting = <<>> /\ Mode = "readable" /\ Mode' = "closing" /\ Waiting' = Waiting
      BY <2>0, <2>1 DEF Stays, Waiting, Mode
    <3>2. Unread' = Unread
      BY <1>a, <2>0, <2>1, UnreadAppend DEF Stays
    <3>3. Simple!End
      <4>1. Simple!Accepts(Seen) /\ Seen' = Simple!AtEnd(Seen)
        BY <3>1, <3>2 DEF Simple!Accepts, Simple!AtEnd, Seen
      <4>2. status' = Simple!Settled(Simple!ToSet(Seen.waiting), "done")
        BY <1>t, <2>1, <3>1 DEF Simple!Settled, Simple!ToSet, Seen, Stays
      <4>3. UNCHANGED <<sent, issued, got>>
        BY <2>0, <2>1 DEF Stays
      <4> QED
        BY Zenon, <4>1, <4>2, <4>3 DEF Simple!End, Seen, Mode, Waiting
    <3> QED
      BY <2>0, <3>3 DEF Simple!SimpleNext
  <2>2. CASE TellsAll
    <3>1. /\ Waiting = requests[reader] /\ Waiting # <<>> /\ Mode = "readable" /\ Mode' = "closed"
          /\ Waiting' = <<>> /\ Unread = <<>> /\ Unread' = <<>>
      BY <1>a, <2>0, <2>2, UnreadNone DEF TellsAll, Waiting, Mode, StreamTypeOK, Unread, Marked
    <3>2. Simple!End
      <4>1. Simple!Accepts(Seen) /\ Seen' = Simple!AtEnd(Seen)
        BY <3>1 DEF Simple!Accepts, Simple!AtEnd, Seen
      <4>2. status' = Simple!Settled(Simple!ToSet(Seen.waiting), "done")
        BY <2>2, <3>1 DEF Simple!Settled, Simple!ToSet, ToSet, Seen, TellsAll, SettleReads
      <4>3. UNCHANGED <<sent, issued, got>>
        BY <2>0, <2>2 DEF TellsAll
      <4> QED
        BY Zenon, <4>1, <4>2, <4>3 DEF Simple!End, Seen, Mode, Waiting
    <3> QED
      BY <2>0, <3>2 DEF Simple!SimpleNext
  <2> QED
    BY <1>a, <1>3, <2>1, <2>2, CloseEffect
<1>4. CASE Error
  <2>0. /\ state = "readable" /\ state' = "errored" /\ queue' = <<>>
        /\ UNCHANGED <<closeRequested, reader, sent, issued, got, direct>>
    BY <1>4 DEF Error, histVars
  <2>1. Mode \in {"readable", "closing"} /\ Mode' = "errored" /\ Unread' = <<>>
    BY <2>0 DEF Mode, Unread, Marked
  <2>2. Waiting' = <<>>
    BY <1>a, <1>4 DEF Error, ErrorPending, Waiting, StreamTypeOK
  <2>3. status' = [i \in Reads |-> IF i \in ToSet(Waiting) /\ status[i] = "pending"
                                   THEN "error" ELSE status[i]]
    BY <1>t, <1>4 DEF Error, ErrorPending, SettleReads, Waiting, ToSet
  <2>4. Simple!End
    <3>1. Simple!MayBreak(Seen) /\ Seen' = Simple!Broken(Seen)
      BY <2>1, <2>2 DEF Simple!MayBreak, Simple!Broken, Simple!EmptyStream, Seen
    <3>2. status' = Simple!Settled(Simple!ToSet(Seen.waiting), "error")
      BY <2>3 DEF Simple!Settled, Simple!ToSet, ToSet, Seen
    <3>3. UNCHANGED <<sent, issued, got>>
      BY <2>0
    <3> QED
      BY Zenon, <3>1, <3>2, <3>3 DEF Simple!End, Seen, Mode, Waiting
  <2> QED
    BY <2>0, <2>4 DEF Simple!SimpleNext
<1>5. ASSUME state = "readable", state' = "closed", reader' = NoReader,
             UNCHANGED <<queue, closeRequested, sent, issued, readVars, direct>>
      PROVE  Simple!Cancel /\ UNCHANGED direct
  <2>1. Mode \in {"readable", "closing"} /\ Mode' = "closed" /\ Waiting' = <<>> /\ Unread' = Unread
    BY <1>5 DEF Mode, Waiting, Unread, Marked
  <2>2. /\ Simple!MayBreak(Seen)
        /\ Seen' = [state |-> "closed", queue |-> Seen.queue, waiting |-> <<>>]
    BY <2>1 DEF Simple!MayBreak, Seen
  <2>3. UNCHANGED <<sent, issued, status, got>>
    BY <1>5 DEF readVars
  <2> QED
    BY Zenon, <1>5, <2>2, <2>3 DEF Simple!Cancel, Seen, Mode, Waiting
<1>6. CASE StreamCancel
  <2>1. Simple!Cancel /\ UNCHANGED direct
    BY <1>5, <1>6 DEF StreamCancel
  <2> QED
    BY <2>1 DEF Simple!SimpleNext
<1>7. ASSUME direct = {}, NEW r \in Readers, Read(r)
      PROVE  Simple!SimpleNext
  <2>0. /\ issued + 1 \in Reads /\ issued' = issued + 1 /\ UNCHANGED <<reader, sent, direct>>
        /\ got[issued + 1] = 0
    BY <1>a, <1>t, <1>7, BoundsAssumption
       DEF Read, ReadRejected, ReadQueued, ReadClosed, ReadWaits, ReadPullThrows, CallRead, Reads,
           readerVars, histVars, UnusedIsFresh, StreamTypeOK
  <2>1. got' = [got EXCEPT ![issued + 1] = 0] => got' = got
    BY <1>t, <2>0
  <2>2. CASE ReadRejected(r)
    <3>1. UNCHANGED <<Mode, Unread, Waiting, got, sent, direct>>
      BY <2>0, <2>1, <2>2
         DEF ReadRejected, Answer, queueVars, readerVars, histVars, Mode, Unread, Waiting, Marked
    <3>2. Simple!Refuse
      BY <2>0, <2>2, <3>1 DEF Simple!Refuse, ReadRejected, Answer, Mode, Waiting
    <3> QED
      BY <3>1, <3>2 DEF Simple!SimpleNext
  <2>3. ASSUME Simple!AnswerNow(Seen) \in {"chunk", "done", "pending"},
               Answer(Simple!AnswerNow(Seen),
                      IF Simple!AnswerNow(Seen) = "chunk" THEN Head(Unread) ELSE 0),
               Seen' = Simple!AfterRead(Seen, issued + 1)
        PROVE  Simple!Read
    <3>1. status' = [status EXCEPT ![issued'] = Simple!AnswerNow(Seen)]
      BY <2>0, <2>3 DEF Answer
    <3>2. got' = IF Simple!AnswerNow(Seen) = "chunk" THEN [got EXCEPT ![issued'] = Head(Seen.queue)]
                 ELSE got
      BY <2>0, <2>1, <2>3 DEF Answer, Seen
    <3>3. Seen' = Simple!AfterRead(Seen, issued')
      BY <2>0, <2>3
    <3>4. issued + 1 \in Reads /\ issued' = issued + 1 /\ UNCHANGED sent
      BY <2>0
    <3> QED
      BY Zenon, <3>1, <3>2, <3>3, <3>4 DEF Simple!Read, Seen, Mode, Waiting
  <2>4. CASE ReadQueued(r)
    <3>1. /\ queue # <<>> /\ queue' = Tail(queue) /\ state # "errored"
          /\ UNCHANGED <<closeRequested, reader, requests>>
      BY <2>4 DEF ReadQueued, Shift, readerVars
    <3>2. Waiting = <<>> /\ Waiting' = <<>>
      BY <1>a, <3>1 DEF NoLostWakeup, Waiting
    <3>3. CASE Head(queue) = Close
      <4>1. Unread = <<>> /\ Unread' = <<>>
        BY <1>a, <3>1, <3>3, UnreadTail
      <4>2. state' = "closed" /\ Answer("done", 0)
        BY <2>4, <3>3 DEF ReadQueued, Shift
      <4>3. Marked
        BY <1>a, <3>1, <3>3, TailKeeps
      <4>4. Mode \in {"closing", "closed"} /\ Mode' = "closed"
        BY <1>a, <3>1, <4>2, <4>3 DEF QueueInOrder, StreamTypeOK, Mode
      <4>5. Simple!AnswerNow(Seen) = "done"
        BY <4>1, <4>4 DEF Simple!AnswerNow, Seen
      <4>6. Seen' = Simple!AfterRead(Seen, issued + 1)
        BY <3>2, <4>1, <4>4, <4>5 DEF Simple!AfterRead, Seen
      <4>7. Simple!Read
        BY <2>3, <4>2, <4>5, <4>6
      <4> QED
        BY <2>0, <4>7 DEF Simple!SimpleNext
    <3>4. CASE Head(queue) # Close
      <4>1. Unread # <<>> /\ Head(Unread) = Head(queue) /\ Unread' = Tail(Unread)
        BY <1>a, <3>1, <3>4, UnreadTail
      <4>2. state' = state /\ Answer("chunk", Head(queue))
        BY <2>4, <3>4 DEF ReadQueued, Shift
      <4>3. Mode # "errored" /\ Mode' = Mode
        BY <3>1, <4>2 DEF Mode
      <4>4. Simple!AnswerNow(Seen) = "chunk"
        BY <4>1, <4>3 DEF Simple!AnswerNow, Seen
      <4>5. Seen' = Simple!AfterRead(Seen, issued + 1)
        BY <3>2, <4>1, <4>3, <4>4 DEF Simple!AfterRead, Seen
      <4>6. Simple!Read
        BY <2>3, <4>1, <4>2, <4>4, <4>5
      <4> QED
        BY <2>0, <4>6 DEF Simple!SimpleNext
    <3> QED
      BY <3>3, <3>4
  <2>5. CASE ReadClosed(r)
    <3>1. /\ state = "closed" /\ queue = <<>> /\ Answer("done", 0)
          /\ UNCHANGED <<state, queue, closeRequested, reader, requests>>
      BY <2>5 DEF ReadClosed, queueVars, readerVars
    <3>2. /\ Mode = "closed" /\ Mode' = "closed" /\ Unread = <<>> /\ Unread' = <<>>
          /\ Waiting = <<>> /\ Waiting' = <<>>
      BY <1>w, <3>1 DEF Mode, Unread, Marked, Waiting
    <3>3. Simple!AnswerNow(Seen) = "done"
      BY <3>2 DEF Simple!AnswerNow, Seen
    <3>4. Seen' = Simple!AfterRead(Seen, issued + 1)
      BY <3>2, <3>3 DEF Simple!AfterRead, Seen
    <3>5. Simple!Read
      BY <2>3, <3>1, <3>3, <3>4
    <3> QED
      BY <2>0, <3>5 DEF Simple!SimpleNext
  <2>6. ASSUME attached[r], queue = <<>>, state = "readable", UNCHANGED queueVars,
               requests' = [requests EXCEPT ![r] = Append(@, issued + 1)]
        PROVE  /\ Simple!AnswerNow(Seen) = "pending"
               /\ Seen' = Simple!AfterRead(Seen, issued + 1)
    <3>1. reader = r /\ r # NoReader
      BY <1>7, <1>a, <2>6, ReadersAssumption DEF LockIsHeld
    <3>2. ~Marked /\ ~closeRequested
      BY <1>a, <2>6 DEF Marked, QueueInOrder, StreamTypeOK
    <3>3. Mode = "readable" /\ Mode' = "readable" /\ Unread = <<>> /\ Unread' = <<>>
      BY <2>6, <3>2 DEF queueVars, Mode, Unread, Marked
    <3>4. Waiting' = Append(Waiting, issued + 1)
      BY <1>a, <2>0, <2>6, <3>1 DEF StreamTypeOK, Waiting
    <3>5. Simple!AnswerNow(Seen) = "pending"
      BY <3>3 DEF Simple!AnswerNow, Seen
    <3> QED
      BY <3>3, <3>4, <3>5 DEF Simple!AfterRead, Seen
  <2>7. CASE ReadWaits(r)
    <3>1. Simple!AnswerNow(Seen) = "pending" /\ Seen' = Simple!AfterRead(Seen, issued + 1)
      BY <2>6, <2>7 DEF ReadWaits
    <3>2. Simple!Read
      BY <2>3, <2>7, <3>1 DEF ReadWaits
    <3> QED
      BY <2>0, <3>2 DEF Simple!SimpleNext
  <2>8. CASE ReadPullThrows(r)
    <3>1. Simple!AnswerNow(Seen) = "pending" /\ Seen' = Simple!AfterRead(Seen, issued + 1)
      BY <2>6, <2>8 DEF ReadPullThrows
    <3>2. Seen' = Simple!AfterRead(Seen, issued')
      BY <2>0, <3>1
    <3>3. status' = [status EXCEPT ![issued'] = "error"] /\ UNCHANGED <<sent, got>>
      BY <2>0, <2>1, <2>8 DEF ReadPullThrows, Answer
    <3>4. Simple!PullThrows
      BY Zenon, <2>0, <3>1, <3>2, <3>3 DEF Simple!PullThrows, Seen, Mode, Waiting
    <3> QED
      BY <2>0, <3>4 DEF Simple!SimpleNext
  <2> QED
    BY <1>7, <2>2, <2>4, <2>5, <2>7, <2>8 DEF Read
<1>8. ASSUME direct = {}, UNCHANGED direct, NEW r \in Readers,
             GetReader(r) \/ ReleaseLock(r) \/ ReaderCancel(r)
      PROVE  [Simple!SimpleNext]_(Simple!simpleVars)
  <2>1. CASE GetReader(r)
    <3>1. Waiting = <<>> /\ Waiting' = <<>>
      BY <1>a, <2>1 DEF GetReader, NewReader, UnusedIsFresh, Waiting
    <3> QED
      BY <2>1, <3>1, SeenSame DEF GetReader, NewReader, queueVars, readVars, Mode
  <2>2. CASE ReleaseLock(r)
    <3>1. reader # r => Waiting = <<>>
      BY <1>8, <1>a, <1>w, <2>2 DEF ReleaseLock, LockIsHeld, StreamTypeOK, Waiting
    <3>2. Waiting = <<>> /\ Waiting' = <<>>
      BY <2>2, <3>1 DEF ReleaseLock, Waiting
    <3> QED
      BY <2>2, <3>2, SeenSame DEF ReleaseLock, queueVars, readVars, histVars, Mode
  <2>3. CASE ReaderCancel(r)
    <3>1. CASE state = "readable"
      <4>1. Simple!Cancel
        BY <1>5, <2>3, <3>1 DEF ReaderCancel, Detached
      <4> QED
        BY <1>8, <4>1 DEF Simple!SimpleNext
    <3>2. CASE state # "readable"
      <4>1. Waiting' = Waiting
        BY <1>w, <2>3, <3>2 DEF ReaderCancel, Detached, Waiting
      <4> QED
        BY <2>3, <3>2, <4>1, SeenSame DEF ReaderCancel, Detached, readVars, Mode
    <3> QED
      BY <3>1, <3>2
  <2> QED
    BY <1>8, <2>1, <2>2, <2>3
<1>9. CASE UNCHANGED vars
  <2>1. UNCHANGED <<Mode, Waiting>>
    BY <1>9 DEF vars, queueVars, readerVars, Mode, Waiting
  <2> QED
    BY <1>9, <2>1, SeenSame DEF vars, queueVars, readVars, histVars
<1>10. direct \subseteq direct'
  BY DEF Next, Source, Consumer, Read, Enqueue, CloseStream, Error, GetReader, DirectReader,
         NewReader, ReleaseLock, ReaderCancel, Detached, ReadRejected, ReadQueued, ReadClosed, ReadWaits,
         ReadPullThrows, StreamCancel, vars, histVars
<1>11. ASSUME NEW r \in Readers, DirectReader(r) PROVE direct' # {}
  BY <1>11 DEF DirectReader
<1>12. ASSUME NEW r \in Readers, GetReader(r) \/ ReleaseLock(r) \/ ReaderCancel(r)
       PROVE  UNCHANGED direct
  BY <1>12 DEF GetReader, ReleaseLock, ReaderCancel, Detached, histVars
<1> QED
  BY <1>1, <1>2, <1>3, <1>4, <1>6, <1>7, <1>8, <1>9, <1>10, <1>11, <1>12
     DEF Next, Source, Consumer

\* A stream and its readers start as an empty stream.
LEMMA SimpleStart == Init => Simple!SimpleInit
BY UnreadNone DEF Init, Simple!SimpleInit, Simple!EmptyStream

\* ReadableStream, with its three queues and its lock, implements the one queue with two
\* ends of SimpleStream, until a script makes a reader with `new`.
THEOREM StreamIsSimple == Spec => IsSimple
<1>1. Spec => Simple!SimpleInit
  BY SimpleStart DEF Spec
<1>2. Spec => [][Simple!SimpleNext]_(Simple!simpleVars)
  BY StreamInvariant, SimpleStep, PTL DEF Spec
<1> QED
  BY <1>1, <1>2, PTL DEF IsSimple, Simple!SimpleSpec
=============================================================================
