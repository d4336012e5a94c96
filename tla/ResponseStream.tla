---------------------------- MODULE ResponseStream ----------------------------
(***************************************************************************)
(* How handle_fetch of src/worker.rs turns a streamed response into a body *)
(* for the host: it reads the response's ReadableStream chunk by chunk,    *)
(* through a reader kept in globalThis.__streamReader from one read to the *)
(* next, then hands all chunks to a spawned sender behind a bounded        *)
(* channel.  The global is one for all tasks, so what a failed or dropped  *)
(* collection leaves in it meets the next one.                             *)
(*                                                                         *)
(* A stream is that of Stream, which ReadableStream implements as          *)
(* SimpleStream.                                                           *)
(***************************************************************************)
EXTENDS Stream

CONSTANTS
  Tasks,       \* fetches whose response has a body, each with its own stream
  NoTask,
  MaxChunks,   \* bound: chunks one source enqueues
  Capacity,    \* RESPONSE_STREAM_BUFFER_SIZE
  StreamsFail, \* whether a source errors its stream, or its pull throws
  HostDrops    \* whether the host drops a pending exec

ASSUME TasksAssumption == NoTask \notin Tasks
ASSUME BoundsAssumption == MaxChunks \in Nat /\ Capacity \in Nat \ {0}
ASSUME FlagsAssumption == StreamsFail \in BOOLEAN /\ HostDrops \in BOOLEAN

VARIABLES
  cur, phase,   \* the task exec serves, and where its handle_fetch is
  helper,       \* the task whose stream __streamReader reads, or NoTask
  chunks,       \* the local vector of chunks
  stream,       \* task -> its stream; a read waits as the task whose loop asked,
                \* or as NoTask once its promise is rejected
  forgotten,    \* the tasks whose read a cancel left in a reader without a stream
  locked,       \* task -> whether its stream has a reader
  enqueued,     \* task -> history: chunks its source enqueued
  due,          \* task -> history: those of them that are bytes
  own,          \* task -> history: its collection began without a reader left over
  outcome,      \* task -> "none", or how handle_fetch ended
  unsent,       \* task -> the chunks its sender still holds
  channel,      \* task -> the chunks in its channel
  rx,           \* task -> the host's end of the channel
  body          \* task -> the chunks the host received

execVars   == <<cur, phase, helper, chunks, own, outcome>>
streamVars == <<stream, forgotten, locked, enqueued, due>>
bodyVars   == <<unsent, channel, rx, body>>
vars == <<execVars, streamVars, bodyVars>>

\* A chunk: whose stream, which one, and whether it is a Uint8Array.
Chunks == Tasks \X (1 .. MaxChunks + 1) \X BOOLEAN

\* The read of a collection that waits is in a stream's queue, or was in one that
\* was cancelled.
CollectTypeOK ==
  /\ cur \in Tasks \cup {NoTask}
  /\ phase \in {"idle", "handler", "next", "reading", "done", "failed"}
  /\ helper \in Tasks \cup {NoTask}
  /\ chunks \in Seq(Chunks)
  /\ stream \in [Tasks -> [state : States, queue : Seq(Chunks), waiting : Seq(Tasks \cup {NoTask})]]
  /\ forgotten \subseteq Tasks
  /\ locked \in [Tasks -> BOOLEAN]
  /\ enqueued \in [Tasks -> 0 .. MaxChunks]
  /\ due \in [Tasks -> Seq(Chunks)]
  /\ own \in [Tasks -> BOOLEAN]
  /\ outcome \in [Tasks -> {"none", "sent", "err", "dropped"}]
  /\ unsent \in [Tasks -> Seq(Chunks)]
  /\ channel \in [Tasks -> Seq(Chunks)]
  /\ \A t \in Tasks : Len(channel[t]) <= Capacity
  /\ rx \in [Tasks -> {"none", "open", "dropped", "ended"}]
  /\ body \in [Tasks -> Seq(Chunks)]
  /\ phase = "idle" <=> cur = NoTask
  /\ phase = "reading" <=> \/ cur \in forgotten
                           \/ cur # NoTask /\ \E t \in Tasks : cur \in ToSet(stream[t].waiting)

Init ==
  /\ cur = NoTask /\ phase = "idle" /\ helper = NoTask /\ chunks = <<>>
  /\ stream = [t \in Tasks |-> EmptyStream] /\ forgotten = {}
  /\ locked = [t \in Tasks |-> FALSE]
  /\ enqueued = [t \in Tasks |-> 0]
  /\ due = [t \in Tasks |-> <<>>]
  /\ own = [t \in Tasks |-> FALSE]
  /\ outcome = [t \in Tasks |-> "none"]
  /\ unsent = [t \in Tasks |-> <<>>]
  /\ channel = [t \in Tasks |-> <<>>]
  /\ rx = [t \in Tasks |-> "none"]
  /\ body = [t \in Tasks |-> <<>>]

-----------------------------------------------------------------------------
(* The sources of the streams.  They run whenever exec is polled, also the  *)
(* source of a task that is over.                                           *)

Polled == cur # NoTask

\* Only byte arrays are kept.
Kept(chunk) == IF chunk[3] THEN <<chunk>> ELSE <<>>

\* The loops whose reads wait in t's stream; that of a collection that was dropped is
\* gone, and what it had asked for with it.
Waiting(t) == stream[t].waiting

Enqueue(t, isBytes) ==
  LET chunk == <<t, enqueued[t] + 1, isBytes>>
      taken == Waiting(t) # <<>> /\ Head(Waiting(t)) = cur
  IN
  /\ Polled
  /\ Accepts(stream[t]) /\ enqueued[t] < MaxChunks
  /\ enqueued' = [enqueued EXCEPT ![t] = @ + 1]
  /\ due' = [due EXCEPT ![t] = @ \o Kept(chunk)]
  /\ stream' = [stream EXCEPT ![t] = WithChunk(@, chunk)]
  /\ chunks' = IF taken THEN chunks \o Kept(chunk) ELSE chunks
  /\ phase' = IF taken THEN "next" ELSE phase
  /\ UNCHANGED <<cur, helper, own, outcome, forgotten, locked, bodyVars>>

\* The stream ends, one way or the other, for every read it holds.
Settle(t, new, to) ==
  /\ Polled
  /\ stream' = [stream EXCEPT ![t] = new]
  /\ phase' = IF cur \in ToSet(Waiting(t)) THEN to ELSE phase
  /\ UNCHANGED <<cur, chunks, own, outcome, forgotten, locked, enqueued, due, bodyVars>>

\* The reads in t's stream whose promise is not settled yet.
Asking(t) == ToSet(Waiting(t)) \ {NoTask}

\* The code that sees `done` deletes __streamReader, also when nobody waits for
\* its answer any more.
CloseBody(t) ==
  /\ Accepts(stream[t])
  /\ Settle(t, AtEnd(stream[t]), "done")
  /\ helper' = IF Asking(t) = {} THEN helper ELSE NoTask

ErrorBody(t) ==
  /\ StreamsFail
  /\ MayBreak(stream[t])
  /\ Settle(t, Broken(stream[t]), "failed")
  /\ UNCHANGED helper

\* stream.cancel asks for no lock, and takes the reader of the helper code off the
\* stream: a read that waits in it is never answered, the next one is, with what is
\* left in the queue or the end.
CancelBody(t) ==
  /\ Polled
  /\ MayBreak(stream[t])
  /\ stream' = [stream EXCEPT ![t] = [state |-> "closed", queue |-> @.queue, waiting |-> <<>>]]
  /\ forgotten' = forgotten \cup Asking(t)
  /\ locked' = [locked EXCEPT ![t] = FALSE]
  /\ UNCHANGED <<execVars, enqueued, due, bodyVars>>

\* The handler calls getReader on its own body and keeps the reader.  (What a script
\* reads of a body itself does not reach the host, and is left out.)
ScriptLocks(t) ==
  /\ phase = "handler" /\ cur = t
  /\ ~locked[t]
  /\ locked' = [locked EXCEPT ![t] = TRUE]
  /\ UNCHANGED <<execVars, stream, forgotten, enqueued, due, bodyVars>>

-----------------------------------------------------------------------------
(* handle_fetch from the dispatch on.                                       *)

Dispatch(t) ==
  /\ cur = NoTask /\ outcome[t] = "none"
  /\ cur' = t /\ phase' = "handler"
  /\ UNCHANGED <<helper, chunks, own, outcome, streamVars, bodyVars>>

\* The response is a stream: __streamResponse is set, the vector is empty.
CollectBegins(t) ==
  /\ phase = "handler" /\ cur = t
  /\ phase' = "next"
  /\ chunks' = <<>>
  /\ own' = [own EXCEPT ![t] = helper = NoTask]
  /\ UNCHANGED <<cur, helper, outcome, streamVars, bodyVars>>

\* Variant: every read makes a reader for the response at hand.
Reading_Fresh == cur

\* The stream the helper code reads: of the reader that is there, else it makes
\* one for the response at hand.
Reading == IF helper = NoTask THEN cur ELSE helper

\* getReader, when there is no reader yet; it throws if somebody has the lock.
TakesReader ==
  \/ helper # NoTask /\ UNCHANGED locked
  \/ helper = NoTask /\ ~locked[cur] /\ locked' = [locked EXCEPT ![cur] = TRUE]

\* The answer, if there is one at once.  The code that sees `done` deletes the reader.
Read ==
  LET answer == AnswerNow(stream[Reading]) IN
  /\ phase = "next"
  /\ TakesReader
  /\ stream' = [stream EXCEPT ![Reading] = AfterRead(@, cur)]
  /\ chunks' = IF answer = "chunk" THEN chunks \o Kept(Head(stream[Reading].queue)) ELSE chunks
  /\ helper' = IF answer = "done" THEN NoTask ELSE Reading
  /\ phase' = CASE answer = "chunk"   -> "next"
                [] answer = "pending" -> "reading"
                [] answer = "done"    -> "done"
                [] answer = "error"   -> "failed"
  /\ UNCHANGED <<cur, own, outcome, forgotten, enqueued, due, bodyVars>>

\* The source's pull throws: the read is rejected, and its request stays.
ReadPullThrows ==
  /\ StreamsFail
  /\ phase = "next" /\ AnswerNow(stream[Reading]) = "pending"
  /\ TakesReader
  /\ stream' = [stream EXCEPT ![Reading] = AfterRead(@, NoTask)]
  /\ helper' = Reading
  /\ phase' = "failed"
  /\ UNCHANGED <<cur, chunks, own, outcome, forgotten, enqueued, due, bodyVars>>

ReadLocked ==
  /\ phase = "next"
  /\ helper = NoTask /\ locked[cur]
  /\ phase' = "failed"
  /\ UNCHANGED <<cur, helper, chunks, own, outcome, streamVars, bodyVars>>

ExecEnds(t, how) ==
  /\ cur = t
  /\ cur' = NoTask /\ phase' = "idle"
  /\ outcome' = [outcome EXCEPT ![t] = how]

\* A response gets a channel and a sender of its own.  Variant: the sender is shared,
\* so what the host reads of other bodies decides when exec goes on.
SenderFree_Shared(t) == \A u \in Tasks : unsent[u] = <<>>

SenderFree(t) == rx[t] = "none"

\* The globals are removed, the sender is spawned and the response goes out.
Respond(t) ==
  /\ phase = "done" /\ SenderFree(t)
  /\ ExecEnds(t, "sent")
  /\ helper' = NoTask
  /\ unsent' = [unsent EXCEPT ![t] = chunks]
  /\ rx' = [rx EXCEPT ![t] = "open"]
  /\ UNCHANGED <<chunks, own, streamVars, channel, body>>

\* A buffered body is one chunk behind a channel of its own.
RespondBuffered(t) ==
  /\ phase = "handler" /\ enqueued[t] = 0
  /\ ExecEnds(t, "sent")
  /\ own' = [own EXCEPT ![t] = TRUE]
  /\ due' = [due EXCEPT ![t] = <<<<t, MaxChunks + 1, TRUE>>>>]
  /\ unsent' = [unsent EXCEPT ![t] = <<<<t, MaxChunks + 1, TRUE>>>>]
  /\ rx' = [rx EXCEPT ![t] = "open"]
  /\ stream' = [stream EXCEPT ![t].state = "closed"]
  /\ UNCHANGED <<helper, chunks, forgotten, locked, enqueued, channel, body>>

\* `?` on a read that was rejected: the globals stay as they are.
Fail(t) ==
  /\ phase = "failed"
  /\ ExecEnds(t, "err")
  /\ UNCHANGED <<helper, chunks, own, streamVars, bodyVars>>

\* The host drops exec at a suspension point, the loop with it.
HostDrop(t) ==
  /\ HostDrops /\ Polled
  /\ ExecEnds(t, "dropped")
  /\ UNCHANGED <<helper, chunks, own, streamVars, bodyVars>>

-----------------------------------------------------------------------------
(* The spawned sender and the host's end of the channel.                    *)

\* The chunk that goes next, and the ones after it.  Variant: the last one goes.
NextOut_Last(out) == <<Last(out), Front(out)>>

NextOut(out) == <<Head(out), Tail(out)>>

Send(t) ==
  /\ rx[t] = "open" /\ unsent[t] # <<>> /\ Len(channel[t]) < Capacity
  /\ channel' = [channel EXCEPT ![t] = Append(@, NextOut(unsent[t])[1])]
  /\ unsent' = [unsent EXCEPT ![t] = NextOut(@)[2]]
  /\ UNCHANGED <<execVars, streamVars, rx, body>>

SenderStops(t) ==
  /\ rx[t] = "dropped" /\ unsent[t] # <<>>
  /\ unsent' = [unsent EXCEPT ![t] = <<>>]
  /\ UNCHANGED <<execVars, streamVars, channel, rx, body>>

Receive(t) ==
  /\ rx[t] = "open" /\ channel[t] # <<>>
  /\ body' = [body EXCEPT ![t] = Append(@, Head(channel[t]))]
  /\ channel' = [channel EXCEPT ![t] = Tail(@)]
  /\ UNCHANGED <<execVars, streamVars, unsent, rx>>

SeesEnd(t) ==
  /\ rx[t] = "open" /\ channel[t] = <<>> /\ unsent[t] = <<>>
  /\ rx' = [rx EXCEPT ![t] = "ended"]
  /\ UNCHANGED <<execVars, streamVars, unsent, channel, body>>

DropBody(t) ==
  /\ rx[t] = "open"
  /\ rx' = [rx EXCEPT ![t] = "dropped"]
  /\ channel' = [channel EXCEPT ![t] = <<>>]
  /\ UNCHANGED <<execVars, streamVars, unsent, body>>

-----------------------------------------------------------------------------
SourceStep ==
  \E t \in Tasks :
    \/ \E isBytes \in BOOLEAN : Enqueue(t, isBytes)
    \/ CloseBody(t) \/ ErrorBody(t) \/ CancelBody(t) \/ ScriptLocks(t)

LoopStep ==
  \/ ReadLocked \/ Read \/ ReadPullThrows
  \/ \E t \in Tasks : Respond(t) \/ Fail(t)

HostStep ==
  \E t \in Tasks :
    \/ Dispatch(t) \/ CollectBegins(t) \/ RespondBuffered(t) \/ HostDrop(t)
    \/ Receive(t) \/ SeesEnd(t) \/ DropBody(t)

SenderStep == \E t \in Tasks : Send(t) \/ SenderStops(t)

Next == SourceStep \/ LoopStep \/ HostStep \/ SenderStep

Spec == Init /\ [][Next]_vars

\* exec is polled, so its loop goes on as soon as a read is answered.  Nothing
\* makes a source go on, nor the host read the body or drop it.
FairSpec == Spec /\ WF_vars(LoopStep)

-----------------------------------------------------------------------------
(* Properties.                                                             *)

\* What the host receives of a response is what its own stream was given, in
\* that order, and once the host sees the end it is all of it: provided the
\* collection began without a reader of another in __streamReader.
BodyIsItsStream ==
  \A t \in Tasks :
    own[t] => /\ IsPrefix(body[t], due[t])
              /\ rx[t] = "ended" => body[t] = due[t]

\* Every read that waits in a stream, of this collection or left by one that was
\* dropped, was made through the reader now in the global.  Else the `done` of a
\* read nobody waits for would delete the reader of the collection at hand,
\* which would then find its own stream locked.
ReadsGoThroughTheGlobal == \A t \in Tasks : Waiting(t) # <<>> => helper = t

\* Collecting a stream that was closed, cancelled or failed ends, although the host
\* reads nothing of this body or of earlier ones and the channel is shorter than the
\* body: unless the cancel came while a read waited, which nobody answers.
CollectionEnds ==
  \A t \in Tasks :
    cur = t /\ phase \in {"next", "reading"} /\ own[t] /\ ~Accepts(stream[t])
      ~> cur # t \/ t \in forgotten

\* A collection fails only because of its own stream: the read that failed was made
\* through a reader of it, or none was to be had of it (the helper reads the response
\* it was given, handle_fetch: "Set the response on globalThis temporarily for the
\* helper to access").
FailureIsOwn == phase = "failed" => helper \in {cur, NoTask}
=============================================================================
