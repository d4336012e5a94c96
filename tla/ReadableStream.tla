---------------------------- MODULE ReadableStream ----------------------------
(***************************************************************************)
(* One ReadableStream of src/worker.rs with its controller and the readers *)
(* a script makes for it.                                                  *)
(*                                                                         *)
(* The queue of chunks belongs to the controller, the queue of pending     *)
(* read requests to a reader, and `stream._reader` is the only way from    *)
(* the one to the other.  The three are changed by different calls, made   *)
(* by the source (enqueue, close, error, at any time, also inside pull)    *)
(* and by the consumer (getReader, read, releaseLock, cancel), each of     *)
(* which runs to completion.                                               *)
(***************************************************************************)
EXTENDS Integers, SequencesExt

CONSTANTS
  Readers,     \* the reader objects a script may create
  NoReader,
  MaxChunks,   \* bound: chunks the source enqueues
  MaxReads,    \* bound: calls of read
  HasPull      \* whether the source has a pull function, which may throw

ASSUME ReadersAssumption == NoReader \notin Readers
ASSUME BoundsAssumption == MaxChunks \in Nat /\ MaxReads \in Nat
ASSUME HasPullAssumption == HasPull \in BOOLEAN

Close  == 0                     \* the close marker in the queue; chunk k is k
Chunks == 1 .. MaxChunks
Reads  == 1 .. MaxReads

VARIABLES
  state,           \* stream._state
  queue,           \* controller._queue
  closeRequested,  \* controller._closeRequested
  reader,          \* stream._reader
  attached,        \* reader -> whether its _stream is set
  requests,        \* reader -> its _readRequests
  closed,          \* reader -> its closed promise
  sent,            \* history: chunks enqueued so far
  issued,          \* history: reads called so far
  status,          \* read -> what became of its promise
  got,             \* read -> the chunk it was resolved with
  direct,          \* history: the readers made with `new`, not by getReader
  cancelled,       \* history: the stream was cancelled while readable
  pullThrew        \* history: a pull threw at once

queueVars  == <<state, queue, closeRequested>>
readerVars == <<reader, attached, requests>>
readVars   == <<status, got>>
histVars   == <<direct, cancelled, pullThrew>>
vars == <<queueVars, readerVars, closed, sent, issued, readVars, histVars>>

\* Types, and that the close marker is put once and last, which the two loops
\* that take items off the queue rely on.
StreamTypeOK ==
  /\ state \in {"readable", "closed", "errored"}
  /\ queue \in Seq(Chunks \cup {Close})
  /\ closeRequested \in BOOLEAN
  /\ \A i \in DOMAIN queue : queue[i] = Close => i = Len(queue) /\ closeRequested
  /\ reader \in Readers \cup {NoReader}
  /\ attached \in [Readers -> BOOLEAN]
  /\ requests \in [Readers -> Seq(Reads)]
  /\ closed \in [Readers -> {"none", "pending", "resolved", "rejected"}]
  /\ sent \in 0 .. MaxChunks
  /\ issued \in 0 .. MaxReads
  /\ status \in [Reads -> {"none", "pending", "chunk", "done", "error"}]
  /\ got \in [Reads -> Chunks \cup {0}]
  /\ direct \subseteq Readers
  /\ cancelled \in BOOLEAN
  /\ pullThrew \in BOOLEAN

Init ==
  /\ state = "readable" /\ queue = <<>> /\ closeRequested = FALSE
  /\ reader = NoReader
  /\ attached = [r \in Readers |-> FALSE]
  /\ requests = [r \in Readers |-> <<>>]
  /\ closed = [r \in Readers |-> "none"]
  /\ sent = 0 /\ issued = 0
  /\ status = [i \in Reads |-> "none"]
  /\ got = [i \in Reads |-> 0]
  /\ direct = {} /\ cancelled = FALSE /\ pullThrew = FALSE

-----------------------------------------------------------------------------
(* The promises a reader has handed out.                                   *)

\* _closePending and the reject half of _errorPending: a promise settles once.
SettleClosed(r, how) ==
  closed' = [closed EXCEPT ![r] = IF @ = "pending" THEN how ELSE @]

\* Settle the reads in rs; one whose promise was settled before (its pull threw)
\* does not notice.
SettleReads(rs, how) ==
  status' = [i \in Reads |-> IF i \in rs /\ status[i] = "pending" THEN how ELSE status[i]]

-----------------------------------------------------------------------------
(* ReadableStreamDefaultReader._processQueue, called with the queue q: pair *)
(* requests with items until either runs out or the close marker is reached, *)
(* which answers the requests left over as well.  The marker is last in q.   *)

\* Those of the requests that the marker, met by request n, answers.  Variant: the
\* loop after the marker is missing.
Told_One(rs, n) == <<rs[n]>>

Told(rs, n) == SubSeq(rs, n, Len(rs))

\* The first n requests of r meet the first n items of q.
PairUp(r, q, n) ==
  LET rs == requests[r]
      closes == n > 0 /\ q[n] = Close
      paired == {i \in 1 .. n : q[i] # Close}
      chunkOf(read) == q[CHOOSE i \in paired : rs[i] = read]
      served == {rs[i] : i \in paired}
  IN
  /\ queue' = SubSeq(q, n + 1, Len(q))
  /\ requests' = [requests EXCEPT ![r] =
       SubSeq(rs, IF closes THEN n + Len(Told(rs, n)) ELSE n + 1, Len(rs))]
  /\ state' = IF closes THEN "closed" ELSE state
  /\ IF closes THEN SettleClosed(r, "resolved") ELSE UNCHANGED closed
  /\ status' = [i \in Reads |->
       IF status[i] # "pending" THEN status[i]
       ELSE IF i \in served THEN "chunk"
       ELSE IF closes /\ i \in ToSet(Told(rs, n)) THEN "done" ELSE "pending"]
  /\ got' = [i \in Reads |->
       IF status[i] = "pending" /\ i \in served THEN chunkOf(i) ELSE got[i]]

ProcessQueue(r, q) == PairUp(r, q, Min({Len(requests[r]), Len(q)}))

\* controller._processQueue: without a reader the items stay in the queue.  Variant:
\* they always do.
Deliver_Never(q) == queue' = q /\ UNCHANGED <<state, requests, closed, readVars>>

Deliver(q) ==
  \/ /\ reader # NoReader
     /\ ProcessQueue(reader, q)
  \/ /\ reader = NoReader
     /\ queue' = q
     /\ UNCHANGED <<state, requests, closed, readVars>>

-----------------------------------------------------------------------------
(* The source, through its controller.  Calls that throw change nothing.   *)

\* What enqueue and close look at.  Variant: not at _closeRequested.
CanEnqueue_Closing == state = "readable"

CanEnqueue == ~closeRequested /\ state = "readable"

Enqueue ==
  /\ sent < MaxChunks
  /\ CanEnqueue
  /\ sent' = sent + 1
  /\ Deliver(Append(queue, sent + 1))
  /\ UNCHANGED <<closeRequested, reader, attached, issued, histVars>>

\* The marker comes after the chunks.  Variant: in their place.
WithMarker_Only(q) == <<Close>>

WithMarker(q) == Append(q, Close)

CloseStream ==
  /\ CanEnqueue
  /\ closeRequested' = TRUE
  /\ Deliver(WithMarker(queue))
  /\ UNCHANGED <<reader, attached, sent, issued, histVars>>

\* _errorPending.  Variant: the reads that wait are not told.
ErrorPending_Silent(r) == UNCHANGED <<status, requests, closed>>

ErrorPending(r) ==
  /\ SettleReads(ToSet(requests[r]), "error")
  /\ requests' = [requests EXCEPT ![r] = <<>>]
  /\ SettleClosed(r, "rejected")

\* controller.error, called by the source or because start or pull rejected.
Error ==
  /\ state = "readable"
  /\ state' = "errored"
  /\ queue' = <<>>
  /\ \/ reader # NoReader /\ ErrorPending(reader)
     \/ reader = NoReader /\ UNCHANGED <<status, requests, closed>>
  /\ UNCHANGED <<closeRequested, reader, attached, sent, issued, got, histVars>>

-----------------------------------------------------------------------------
(* The consumer.                                                           *)

Unused(r) == closed[r] = "none"

NewReader(r) ==
  /\ Unused(r) /\ reader = NoReader
  /\ attached' = [attached EXCEPT ![r] = TRUE]
  /\ closed' = [closed EXCEPT ![r] = "pending"]
  /\ UNCHANGED <<queueVars, requests, sent, issued, readVars, cancelled, pullThrew>>

GetReader(r) ==
  /\ NewReader(r)
  /\ reader' = r
  /\ UNCHANGED direct

\* new ReadableStreamDefaultReader(stream) checks the lock but does not take it.
DirectReader(r) ==
  /\ NewReader(r)
  /\ direct' = direct \cup {r}
  /\ UNCHANGED reader

\* A call of read that settles at once.
Answer(how, chunk) ==
  /\ status' = [status EXCEPT ![issued + 1] = how]
  /\ got' = [got EXCEPT ![issued + 1] = chunk]

CallRead == issued < MaxReads /\ issued' = issued + 1

ReadRejected(r) ==
  /\ closed[r] # "none" /\ CallRead
  /\ ~attached[r] \/ state = "errored"
  /\ Answer("error", 0)
  /\ UNCHANGED <<queueVars, readerVars, closed, sent, histVars>>

\* The item read takes from the queue, and what is left.  Variant: the last one.
Shift_Last(q) == <<Last(q), Front(q)>>

Shift(q) == <<Head(q), Tail(q)>>

\* The queue is looked at before the state: what was queued when the stream was
\* cancelled can still be read.
ReadQueued(r) ==
  LET item == Shift(queue)[1] IN
  /\ attached[r] /\ state # "errored" /\ CallRead
  /\ queue # <<>>
  /\ queue' = Shift(queue)[2]
  /\ \/ /\ item = Close
        /\ state' = "closed"
        /\ SettleClosed(r, "resolved")
        /\ Answer("done", 0)
     \/ /\ item # Close
        /\ Answer("chunk", item)
        /\ UNCHANGED <<state, closed>>
  /\ UNCHANGED <<closeRequested, readerVars, sent, histVars>>

ReadClosed(r) ==
  /\ attached[r] /\ CallRead
  /\ queue = <<>> /\ state = "closed"
  /\ Answer("done", 0)
  /\ UNCHANGED <<queueVars, readerVars, closed, sent, histVars>>

\* The request waits.  With a pull function it is called now; whatever it does
\* at once or later (enqueue, close, reject) is an action of the source.
ReadWaits(r) ==
  /\ attached[r] /\ CallRead
  /\ queue = <<>> /\ state = "readable"
  /\ requests' = [requests EXCEPT ![r] = Append(@, issued + 1)]
  /\ Answer("pending", 0)
  /\ UNCHANGED <<queueVars, reader, attached, closed, sent, histVars>>

\* pull throws: the executor's exception rejects the read, whose request stays.
ReadPullThrows(r) ==
  /\ HasPull
  /\ attached[r] /\ CallRead
  /\ queue = <<>> /\ state = "readable"
  /\ requests' = [requests EXCEPT ![r] = Append(@, issued + 1)]
  /\ Answer("error", 0)
  /\ pullThrew' = TRUE
  /\ UNCHANGED <<queueVars, reader, attached, closed, sent, direct, cancelled>>

\* releaseLock unlocks the stream, whichever reader holds it.
ReleaseLock(r) ==
  /\ attached[r] /\ requests[r] = <<>>
  /\ reader' = NoReader
  /\ attached' = [attached EXCEPT ![r] = FALSE]
  /\ UNCHANGED <<queueVars, requests, closed, sent, issued, readVars, histVars>>

\* stream.cancel: the reader is told and let go, its requests are not settled.
StreamCancel ==
  /\ state = "readable"
  /\ state' = "closed" /\ cancelled' = TRUE
  /\ reader' = NoReader
  /\ IF reader # NoReader THEN SettleClosed(reader, "resolved") ELSE UNCHANGED closed
  /\ UNCHANGED <<queue, closeRequested, attached, requests, sent, issued, readVars, direct,
                 pullThrew>>

\* reader.cancel: stream.cancel, then releaseLock, which throws when requests
\* are pending and leaves the reader attached.
Detached(r) == [attached EXCEPT ![r] = requests[r] # <<>>]

\* A cancel callback that throws keeps releaseLock from being called.  (What else it
\* may do, between the two, are StreamCancel, its own calls and ReleaseLock.)
ReaderCancel(r) ==
  /\ attached[r]
  /\ \/ /\ state = "readable"
        /\ state' = "closed" /\ cancelled' = TRUE
        /\ IF reader # NoReader THEN SettleClosed(reader, "resolved") ELSE UNCHANGED closed
        /\ reader' = NoReader
        /\ attached' \in {Detached(r), attached}
     \/ /\ state # "readable"
        /\ reader' = IF requests[r] = <<>> THEN NoReader ELSE reader
        /\ attached' = Detached(r)
        /\ UNCHANGED <<state, cancelled, closed>>
  /\ UNCHANGED <<queue, closeRequested, requests, sent, issued, readVars, direct, pullThrew>>

Source == Enqueue \/ CloseStream \/ Error

Read(r) ==
  ReadRejected(r) \/ ReadQueued(r) \/ ReadClosed(r) \/ ReadWaits(r) \/ ReadPullThrows(r)

Consumer ==
  \/ \E r \in Readers :
       GetReader(r) \/ DirectReader(r) \/ ReleaseLock(r) \/ ReaderCancel(r) \/ Read(r)
  \/ StreamCancel

Next == Source \/ Consumer

Spec == Init /\ [][Next]_vars

-----------------------------------------------------------------------------
(* Properties.                                                             *)

\* No lost wake-up: a request never waits in the locked stream's reader while a
\* chunk waits in the queue.  Only _processQueue brings the two together, so one
\* call that forgets it would leave both waiting for ever.
NoLostWakeup == reader # NoReader /\ requests[reader] # <<>> => queue = <<>>

\* Reads are answered with chunks in the order in which they were called, and
\* the chunks in the order in which they were enqueued, each once, whichever
\* reader, lock change or cancel came between.
ReadsInOrder ==
  \A i, j \in Reads :
    i < j /\ status[i] = "chunk" /\ status[j] = "chunk" => got[i] < got[j]

\* No chunk disappears: until the stream errors, what was enqueued was read or
\* is in the queue, unless a pull threw (its request stays, and swallows one).
NoChunkLost ==
  state # "errored" /\ ~pullThrew =>
    {got[i] : i \in {j \in Reads : status[j] = "chunk"}} \cup (ToSet(queue) \ {Close})
      = 1 .. sent

\* Whether the queue ends in the close marker, and the chunks before it.
Marked == queue # <<>> /\ Last(queue) = Close
Unread == IF Marked THEN Front(queue) ELSE queue

Simple == INSTANCE SimpleStream WITH
  stream <- [state   |-> IF state = "readable" /\ closeRequested THEN "closing" ELSE state,
             queue   |-> Unread,
             waiting |-> IF reader = NoReader THEN <<>> ELSE requests[reader]],
  meddled <- direct # {}

\* Controller, stream and readers together are one queue with two ends: a chunk or
\* an answer reaches the read it is for at the call that makes it possible.  So a
\* read that reports the end does so after every chunk was handed over, a stream
\* that was closed or failed leaves no read waiting, and who lost the lock cannot
\* take a chunk.
IsSimple == Simple!SimpleSpec
=============================================================================
