-------------------------- MODULE ResponseStreamProofs --------------------------
(***************************************************************************)
(* Proofs about ResponseStream, for any number of tasks and chunks and any *)
(* capacity of the channel.                                                *)
(***************************************************************************)
EXTENDS ResponseStream, SequenceTheorems, TLAPS

\* Who waits in a stream: a collection, or nobody any more.
Readers == Tasks \cup {NoTask}

\* A task is served once.
ServedOnce == cur # NoTask => outcome[cur] = "none"

\* A read waits in a stream that is open and has nothing queued.
WaitersHaveNothing ==
  \A t \in Tasks : Waiting(t) # <<>> => Accepts(stream[t]) /\ stream[t].queue = <<>>

\* The read of the collection at hand was called last; the others that wait belong to
\* collections that are over.
StaleReadsFirst ==
  \A t \in Tasks : \A i \in DOMAIN Waiting(t) :
    Waiting(t)[i] # NoTask =>
      IF Waiting(t)[i] = cur THEN i = Len(Waiting(t)) ELSE outcome[Waiting(t)[i]] # "none"

\* A collection whose read is forgotten asks for nothing more, nor does another.
ForgottenAskNothing ==
  \A u \in forgotten : IF u = cur THEN \A t \in Tasks : Waiting(t) = <<>> ELSE outcome[u] # "none"

\* Who sees the end removes the reader.
EndHasNoReader == phase = "done" => helper = NoTask

\* With the items of q, those of c become those of d: each item adds itself or nothing.
Leads(c, q, d) ==
  \E P \in [0 .. Len(q) -> Seq(Chunks)] :
    /\ P[0] = c /\ P[Len(q)] = d
    /\ \A i \in 1 .. Len(q) : P[i] = P[i - 1] \o Kept(q[i])

\* A stream leads its collection on to what it was given, unless an error emptied it.
LeadsOn(c, t) == stream[t].state # "errored" => Leads(c, stream[t].queue, due[t])

\* Nobody reads a stream before its own response is collected.
NotBegun(t) == outcome[t] = "none" /\ (cur = t => phase = "handler")

UnreadBefore == \A t \in Tasks : NotBegun(t) => ~own[t] /\ helper # t /\ LeadsOn(<<>>, t)

\* A collection that began without a reader of another reads its own stream only,
\* alone, and has what was read of it.
OwnCollection ==
  cur # NoTask /\ own[cur] =>
    /\ phase \in {"next", "reading"} =>
         /\ helper \in {NoTask, cur}
         /\ \A i \in DOMAIN Waiting(cur) : Waiting(cur)[i] = cur
         /\ LeadsOn(chunks, cur)
    /\ phase = "done" => chunks = due[cur] /\ ~Accepts(stream[cur])

\* Only a response that was sent has a sender and a channel.
UnsentHasNothing ==
  \A t \in Tasks :
    /\ outcome[t] # "sent" => rx[t] = "none"
    /\ rx[t] = "none" => unsent[t] = <<>> /\ channel[t] = <<>> /\ body[t] = <<>>

\* What the host has, what is in the channel and what the sender still holds are,
\* one after the other, what the stream was given, which is closed.
Follows(s, n, d) == \A i \in 1 .. Len(s) : n + i <= Len(d) /\ s[i] = d[n + i]

Delivered(t) ==
  /\ ~Accepts(stream[t])
  /\ Follows(body[t], 0, due[t])
  /\ rx[t] = "open" =>
       /\ Follows(channel[t], Len(body[t]), due[t])
       /\ Follows(unsent[t], Len(body[t]) + Len(channel[t]), due[t])
       /\ Len(body[t]) + Len(channel[t]) + Len(unsent[t]) = Len(due[t])
  /\ rx[t] = "ended" => Len(body[t]) = Len(due[t])

DeliveredInOrder == \A t \in Tasks : own[t] /\ rx[t] # "none" => Delivered(t)

CollectInv ==
  /\ CollectTypeOK
  /\ ServedOnce
  /\ WaitersHaveNothing
  /\ StaleReadsFirst
  /\ ForgottenAskNothing
  /\ ReadsGoThroughTheGlobal
  /\ EndHasNoReader
  /\ UnreadBefore
  /\ OwnCollection
  /\ UnsentHasNothing
  /\ DeliveredInOrder

-----------------------------------------------------------------------------
(* What the calls do to a stream.                                          *)

Streams == [state : States, queue : Seq(Chunks), waiting : Seq(Readers)]

Same(t) == stream'[t] = stream[t]

\* A chunk is queued, or goes to the read that waits longest.
LEMMA EnqueueEffect ==
  ASSUME CollectTypeOK, WaitersHaveNothing, NEW t \in Tasks, NEW b \in BOOLEAN, Enqueue(t, b),
         NEW c, c = <<t, enqueued[t] + 1, b>>
  PROVE  /\ c \in Chunks /\ Kept(c) \in Seq(Chunks)
         /\ \A u \in Tasks \ {t} : Same(u) /\ due'[u] = due[u]
         /\ stream' \in [Tasks -> Streams] /\ due' \in [Tasks -> Seq(Chunks)]
         /\ due'[t] = due[t] \o Kept(c)
         /\ stream[t].state = "readable" /\ stream'[t].state = "readable"
         /\ Waiting(t) = <<>> =>
              /\ stream'[t].queue = Append(stream[t].queue, c) /\ stream'[t].waiting = <<>>
              /\ UNCHANGED <<chunks, phase>>
         /\ Waiting(t) # <<>> =>
              /\ stream[t].queue = <<>> /\ stream'[t].queue = <<>>
              /\ stream'[t].waiting = Tail(stream[t].waiting)
<1>1. c \in Chunks /\ Kept(c) \in Seq(Chunks)
  <2>1. enqueued[t] + 1 \in 1 .. MaxChunks + 1
    <3>1. enqueued[t] \in 0 .. MaxChunks
      BY DEF CollectTypeOK
    <3>2. enqueued[t] < MaxChunks
      BY DEF Enqueue
    <3> QED
      BY <3>1, <3>2, BoundsAssumption
  <2>2. c \in Chunks
    BY <2>1 DEF Chunks
  <2> QED
    BY <2>2 DEF Kept
<1>2. /\ stream \in [Tasks -> Streams] /\ stream[t] \in Streams /\ due[t] \in Seq(Chunks)
      /\ due \in [Tasks -> Seq(Chunks)]
  BY DEF CollectTypeOK, Streams, Readers
<1>3. /\ stream' = [stream EXCEPT ![t] = WithChunk(stream[t], c)]
      /\ due' = [due EXCEPT ![t] = due[t] \o Kept(c)]
      /\ stream[t].state = "readable"
      /\ Waiting(t) = <<>> => UNCHANGED <<chunks, phase>>
  BY DEF Enqueue, Accepts
<1>4. due[t] \o Kept(c) \in Seq(Chunks)
  BY <1>1, <1>2
<1>5. CASE Waiting(t) = <<>>
  <2>1. WithChunk(stream[t], c) = [stream[t] EXCEPT !.queue = Append(stream[t].queue, c)]
    BY <1>5 DEF WithChunk, Waiting
  <2>2. Append(stream[t].queue, c) \in Seq(Chunks)
    BY <1>1, <1>2 DEF Streams
  <2> QED
    BY <1>1, <1>2, <1>3, <1>4, <1>5, <2>1, <2>2 DEF Streams, Same, Waiting
<1>6. CASE Waiting(t) # <<>>
  <2>1. WithChunk(stream[t], c) = [stream[t] EXCEPT !.waiting = Tail(stream[t].waiting)]
    BY <1>6 DEF WithChunk, Waiting
  <2>2. Tail(stream[t].waiting) \in Seq(Readers) /\ stream[t].queue = <<>>
    <3>1. stream[t].waiting \in Seq(Readers) /\ stream[t].waiting # <<>>
      BY <1>2, <1>6 DEF Streams, Waiting
    <3>2. Tail(stream[t].waiting) \in Seq(Readers)
      BY <3>1
    <3> QED
      BY <1>6, <3>2 DEF WaitersHaveNothing
  <2> QED
    BY <1>1, <1>2, <1>3, <1>4, <1>6, <2>1, <2>2 DEF Streams, Same, Waiting
<1> QED
  BY <1>5, <1>6

\* The source closes a stream, or it fails: nobody waits any more.
LEMMA EndEffect ==
  ASSUME CollectTypeOK, NEW t \in Tasks, CloseBody(t) \/ ErrorBody(t)
  PROVE  /\ \A u \in Tasks \ {t} : Same(u)
         /\ stream' \in [Tasks -> Streams]
         /\ stream'[t].waiting = <<>> /\ ~Accepts(stream'[t])
         /\ CloseBody(t) => stream'[t].queue = stream[t].queue /\ stream[t].state = "readable"
                            /\ stream'[t].state # "errored"
         /\ ErrorBody(t) => stream'[t].state = "errored"
<1>1. stream \in [Tasks -> Streams] /\ stream[t] \in Streams
  BY DEF CollectTypeOK, Streams, Readers
<1>2. CASE CloseBody(t)
  <2>1. stream' = [stream EXCEPT ![t] = AtEnd(stream[t])] /\ stream[t].state = "readable"
    BY <1>2 DEF CloseBody, Settle, Accepts
  <2> QED
    BY <1>1, <1>2, <2>1
       DEF AtEnd, Streams, States, Same, Accepts, ErrorBody, Settle, Broken, EmptyStream
<1>3. CASE ErrorBody(t)
  <2>1. stream' = [stream EXCEPT ![t] = Broken(stream[t])]
    BY <1>3 DEF ErrorBody, Settle
  <2>2. Broken(stream[t]) = [state |-> "errored", queue |-> <<>>, waiting |-> <<>>]
    BY DEF Broken, EmptyStream
  <2>3. Broken(stream[t]) \in Streams
    BY <2>2 DEF Streams, States
  <2>4. ~CloseBody(t)
    BY <1>1, <2>1, <2>2 DEF CloseBody, Settle, AtEnd
  <2> QED
    BY <1>1, <1>3, <2>1, <2>2, <2>3, <2>4 DEF Same, Accepts
<1> QED
  BY <1>2, <1>3

\* A script cancels a stream: what waits in it is taken off, what is queued stays.
LEMMA CancelEffect ==
  ASSUME CollectTypeOK, NEW t \in Tasks, CancelBody(t)
  PROVE  /\ \A u \in Tasks \ {t} : Same(u)
         /\ stream' \in [Tasks -> Streams]
         /\ stream'[t].waiting = <<>> /\ stream'[t].state = "closed" /\ ~Accepts(stream'[t])
         /\ stream'[t].queue = stream[t].queue /\ stream[t].state # "errored"
<1>1. stream \in [Tasks -> Streams] /\ stream[t] \in Streams
  BY DEF CollectTypeOK, Streams, Readers
<1> DEFINE new == [state |-> "closed", queue |-> stream[t].queue, waiting |-> <<>>]
<1>2. stream' = [stream EXCEPT ![t] = new] /\ stream[t].state \in {"readable", "closing"}
  BY DEF CancelBody, MayBreak
<1>3. new \in Streams
  BY <1>1 DEF Streams, States
<1> QED
  BY <1>1, <1>2, <1>3 DEF Same, Accepts

\* A read whose pull throws waits as nobody's.
LEMMA ThrowEffect ==
  ASSUME CollectTypeOK, cur \in Tasks, ReadPullThrows, NEW R, R = Reading, NEW s, s = stream[R]
  PROVE  /\ R \in Tasks /\ s \in Streams
         /\ \A u \in Tasks \ {R} : Same(u)
         /\ stream' \in [Tasks -> Streams]
         /\ phase' = "failed" /\ helper' = R
         /\ s.queue = <<>> /\ s.state = "readable"
         /\ stream'[R].queue = <<>> /\ stream'[R].state = s.state
         /\ stream'[R].waiting = Append(s.waiting, NoTask)
<1>1. R \in Tasks /\ stream \in [Tasks -> Streams] /\ s \in Streams
  BY DEF CollectTypeOK, Streams, Readers, Reading
<1>2. AnswerNow(s) = "pending" /\ helper' = R /\ phase' = "failed"
      /\ stream' = [stream EXCEPT ![R] = AfterRead(s, NoTask)]
  BY DEF ReadPullThrows
<1>3. s.queue = <<>> /\ s.state = "readable"
  BY <1>2 DEF AnswerNow
<1>4. AfterRead(s, NoTask) = [s EXCEPT !.waiting = Append(s.waiting, NoTask)]
  BY <1>2 DEF AfterRead
<1>5. Append(s.waiting, NoTask) \in Seq(Readers)
  BY <1>1 DEF Streams, Readers
<1> QED
  BY <1>1, <1>2, <1>3, <1>4, <1>5 DEF Same, Streams

\* A read is answered, or waits.
LEMMA ReadEffect ==
  ASSUME CollectTypeOK, WaitersHaveNothing, cur \in Tasks, Read,
         NEW R, R = Reading, NEW s, s = stream[R]
  PROVE  /\ R \in Tasks /\ s \in Streams
         /\ \A u \in Tasks \ {R} : Same(u)
         /\ stream' \in [Tasks -> Streams]
         /\ \/ /\ phase' = "failed" /\ s.state = "errored" /\ stream'[R] = s /\ helper' = R
               /\ chunks' = chunks
            \/ /\ phase' = "next" /\ s.queue # <<>> /\ s.state # "errored" /\ helper' = R
               /\ stream'[R].queue = Tail(s.queue) /\ stream'[R].state = s.state
               /\ stream'[R].waiting = <<>> /\ s.waiting = <<>>
               /\ chunks' = chunks \o Kept(Head(s.queue)) /\ Head(s.queue) \in Chunks
            \/ /\ phase' = "reading" /\ s.queue = <<>> /\ s.state = "readable" /\ helper' = R
               /\ stream'[R].queue = <<>> /\ stream'[R].state = s.state
               /\ stream'[R].waiting = Append(s.waiting, cur) /\ chunks' = chunks
            \/ /\ phase' = "done" /\ s.queue = <<>> /\ s.state \in {"closing", "closed"}
               /\ helper' = NoTask
               /\ stream'[R].queue = <<>> /\ stream'[R].state = "closed"
               /\ stream'[R].waiting = <<>> /\ s.waiting = <<>> /\ chunks' = chunks
<1> DEFINE answer == AnswerNow(s)
<1>1. R \in Tasks /\ stream \in [Tasks -> Streams] /\ s \in Streams
  BY DEF CollectTypeOK, Streams, Readers, Reading
<1>2. /\ stream' = [stream EXCEPT ![R] = AfterRead(s, cur)]
      /\ chunks' = IF answer = "chunk" THEN chunks \o Kept(Head(s.queue)) ELSE chunks
      /\ helper' = IF answer = "done" THEN NoTask ELSE R
      /\ answer = "chunk" => phase' = "next"
      /\ answer = "pending" => phase' = "reading"
      /\ answer = "done" => phase' = "done"
      /\ answer = "error" => phase' = "failed"
  BY DEF Read
<1>3. s.waiting # <<>> => s.state = "readable" /\ s.queue = <<>>
  BY <1>1 DEF WaitersHaveNothing, Waiting, Accepts
<1>4. CASE s.state = "errored"
  <2>1. answer = "error" /\ AfterRead(s, cur) = s
    BY <1>4 DEF AnswerNow, AfterRead
  <2> QED
    BY <1>1, <1>2, <1>4, <2>1 DEF Same
<1>5. CASE s.state # "errored" /\ s.queue # <<>>
  <2>1. answer = "chunk" /\ AfterRead(s, cur) = [s EXCEPT !.queue = Tail(s.queue)]
    BY <1>5 DEF AnswerNow, AfterRead
  <2>2. Tail(s.queue) \in Seq(Chunks) /\ Head(s.queue) \in Chunks
    BY <1>1, <1>5 DEF Streams
  <2> QED
    BY <1>1, <1>2, <1>3, <1>5, <2>1, <2>2 DEF Same, Streams
<1>6. CASE s.queue = <<>> /\ s.state = "readable"
  <2>1. answer = "pending" /\ AfterRead(s, cur) = [s EXCEPT !.waiting = Append(s.waiting, cur)]
    BY <1>6 DEF AnswerNow, AfterRead
  <2>2. Append(s.waiting, cur) \in Seq(Readers)
    BY <1>1 DEF Streams, Readers
  <2> QED
    BY <1>1, <1>2, <1>6, <2>1, <2>2 DEF Same, Streams
<1>7. CASE s.queue = <<>> /\ s.state \in {"closing", "closed"}
  <2>1. answer = "done" /\ AfterRead(s, cur) = [s EXCEPT !.state = "closed"]
    BY <1>7 DEF AnswerNow, AfterRead
  <2> QED
    BY <1>1, <1>2, <1>3, <1>7, <2>1 DEF Same, Streams, States
<1>8. s.state \in {"readable", "closing", "closed", "errored"}
  BY <1>1 DEF Streams, States
<1> QED
  BY Zenon, <1>4, <1>5, <1>6, <1>7, <1>8

\* Who was served is not dispatched again.
LEMMA ServedOnceStep == CollectInv /\ [Next]_vars => ServedOnce'
<1> SUFFICES ASSUME CollectInv, [Next]_vars PROVE ServedOnce'
  OBVIOUS
<1> USE TasksAssumption, BoundsAssumption DEF CollectInv, CollectTypeOK, ServedOnce
<1>1. ASSUME NEW t \in Tasks, NEW b \in BOOLEAN, Enqueue(t, b) PROVE ServedOnce'
  BY <1>1 DEF Enqueue, execVars, streamVars, bodyVars
<1>2. ASSUME NEW t \in Tasks, CloseBody(t) PROVE ServedOnce'
  BY <1>2 DEF CloseBody, Settle, execVars, streamVars, bodyVars
<1>3. ASSUME NEW t \in Tasks, ErrorBody(t) PROVE ServedOnce'
  BY <1>3 DEF ErrorBody, Settle, execVars, streamVars, bodyVars
<1>4. ASSUME NEW t \in Tasks, ScriptLocks(t) PROVE ServedOnce'
  BY <1>4 DEF ScriptLocks, execVars, streamVars, bodyVars
<1>5. CASE Read
  BY <1>5 DEF Read, execVars, streamVars, bodyVars
<1>6. CASE ReadLocked
  BY <1>6 DEF ReadLocked, execVars, streamVars, bodyVars
<1>7. ASSUME NEW t \in Tasks, Respond(t) PROVE ServedOnce'
  BY <1>7 DEF Respond, ExecEnds, execVars, streamVars, bodyVars
<1>8. ASSUME NEW t \in Tasks, Fail(t) PROVE ServedOnce'
  BY <1>8 DEF Fail, ExecEnds, execVars, streamVars, bodyVars
<1>9. ASSUME NEW t \in Tasks, Dispatch(t) PROVE ServedOnce'
  BY <1>9 DEF Dispatch, execVars, streamVars, bodyVars
<1>10. ASSUME NEW t \in Tasks, CollectBegins(t) PROVE ServedOnce'
  BY <1>10 DEF CollectBegins, execVars, streamVars, bodyVars
<1>11. ASSUME NEW t \in Tasks, RespondBuffered(t) PROVE ServedOnce'
  BY <1>11 DEF RespondBuffered, ExecEnds, execVars, streamVars, bodyVars
<1>12. ASSUME NEW t \in Tasks, HostDrop(t) PROVE ServedOnce'
  BY <1>12 DEF HostDrop, ExecEnds, execVars, streamVars, bodyVars
<1>13. ASSUME NEW t \in Tasks, Send(t) \/ SenderStops(t) PROVE ServedOnce'
  BY <1>13 DEF Send, SenderStops, execVars, streamVars, bodyVars
<1>14. ASSUME NEW t \in Tasks, Receive(t) PROVE ServedOnce'
  BY <1>14 DEF Receive, execVars, streamVars, bodyVars
<1>15. ASSUME NEW t \in Tasks, SeesEnd(t) \/ DropBody(t) PROVE ServedOnce'
  BY <1>15 DEF SeesEnd, DropBody, execVars, streamVars, bodyVars
<1>16. CASE UNCHANGED vars
  BY <1>16 DEF vars, execVars, streamVars, bodyVars
<1>17. ASSUME NEW t \in Tasks, CancelBody(t) PROVE ServedOnce'
  BY <1>17 DEF CancelBody, execVars, streamVars, bodyVars
<1>18. CASE ReadPullThrows
  BY <1>18 DEF ReadPullThrows, execVars, streamVars, bodyVars
<1> QED
  BY <1>1, <1>2, <1>3, <1>4, <1>5, <1>6, <1>7, <1>8, <1>9, <1>10, <1>11, <1>12, <1>13, <1>14,
     <1>15, <1>16, <1>17, <1>18
     DEF Next, SourceStep, LoopStep, HostStep, SenderStep

\* Who sees the end removes the reader.
LEMMA EndHasNoReaderStep == CollectInv /\ [Next]_vars => EndHasNoReader'
<1> SUFFICES ASSUME CollectInv, [Next]_vars PROVE EndHasNoReader'
  OBVIOUS
<1> USE TasksAssumption, BoundsAssumption DEF CollectInv, CollectTypeOK, EndHasNoReader
<1>1. ASSUME NEW t \in Tasks, NEW b \in BOOLEAN, Enqueue(t, b) PROVE EndHasNoReader'
  BY <1>1 DEF Enqueue, execVars, streamVars, bodyVars
<1>2. ASSUME NEW t \in Tasks, CloseBody(t) PROVE EndHasNoReader'
  <2>1. ASSUME phase' = "done", phase # "done" PROVE Asking(t) # {}
    BY <1>2, <2>1 DEF CloseBody, Settle, Polled, Asking
  <2> QED
    BY <1>2, <2>1 DEF CloseBody, Settle
<1>3. ASSUME NEW t \in Tasks, ErrorBody(t) PROVE EndHasNoReader'
  BY <1>3 DEF ErrorBody, Settle, execVars, streamVars, bodyVars
<1>4. ASSUME NEW t \in Tasks, ScriptLocks(t) PROVE EndHasNoReader'
  BY <1>4 DEF ScriptLocks, execVars, streamVars, bodyVars
<1>5. CASE Read
  <2>1. cur \in Tasks
    BY <1>5 DEF Read
  <2> QED
    BY <2>1, <1>5, ReadEffect, TasksAssumption
<1>6. CASE ReadLocked
  BY <1>6 DEF ReadLocked, execVars, streamVars, bodyVars
<1>7. ASSUME NEW t \in Tasks, Respond(t) PROVE EndHasNoReader'
  BY <1>7 DEF Respond, ExecEnds, execVars, streamVars, bodyVars
<1>8. ASSUME NEW t \in Tasks, Fail(t) PROVE EndHasNoReader'
  BY <1>8 DEF Fail, ExecEnds, execVars, streamVars, bodyVars
<1>9. ASSUME NEW t \in Tasks, Dispatch(t) PROVE EndHasNoReader'
  BY <1>9 DEF Dispatch, execVars, streamVars, bodyVars
<1>10. ASSUME NEW t \in Tasks, CollectBegins(t) PROVE EndHasNoReader'
  BY <1>10 DEF CollectBegins, execVars, streamVars, bodyVars
<1>11. ASSUME NEW t \in Tasks, RespondBuffered(t) PROVE EndHasNoReader'
  BY <1>11 DEF RespondBuffered, ExecEnds, execVars, streamVars, bodyVars
<1>12. ASSUME NEW t \in Tasks, HostDrop(t) PROVE EndHasNoReader'
  BY <1>12 DEF HostDrop, ExecEnds, execVars, streamVars, bodyVars
<1>13. ASSUME NEW t \in Tasks, Send(t) \/ SenderStops(t) PROVE EndHasNoReader'
  BY <1>13 DEF Send, SenderStops, execVars, streamVars, bodyVars
<1>14. ASSUME NEW t \in Tasks, Receive(t) PROVE EndHasNoReader'
  BY <1>14 DEF Receive, execVars, streamVars, bodyVars
<1>15. ASSUME NEW t \in Tasks, SeesEnd(t) \/ DropBody(t) PROVE EndHasNoReader'
  BY <1>15 DEF SeesEnd, DropBody, execVars, streamVars, bodyVars
<1>16. CASE UNCHANGED vars
  BY <1>16 DEF vars, execVars, streamVars, bodyVars
<1>17. ASSUME NEW t \in Tasks, CancelBody(t) PROVE EndHasNoReader'
  BY <1>17 DEF CancelBody, execVars, streamVars, bodyVars
<1>18. CASE ReadPullThrows
  BY <1>18 DEF ReadPullThrows, execVars, streamVars, bodyVars
<1> QED
  BY <1>1, <1>2, <1>3, <1>4, <1>5, <1>6, <1>7, <1>8, <1>9, <1>10, <1>11, <1>12, <1>13, <1>14,
     <1>15, <1>16, <1>17, <1>18
     DEF Next, SourceStep, LoopStep, HostStep, SenderStep

\* A body that is no stream: its stream was never there.
LEMMA BufferedEffect ==
  ASSUME CollectInv, NEW t \in Tasks, RespondBuffered(t)
  PROVE  /\ cur = t /\ phase = "handler" /\ NotBegun(t)
         /\ \A u \in Tasks \ {t} : Same(u)
         /\ stream' \in [Tasks -> Streams]
         /\ stream'[t].state = "closed" /\ stream'[t].queue = stream[t].queue
         /\ stream[t].waiting = <<>> /\ stream'[t].waiting = <<>>
<1>1. cur = t /\ phase = "handler"
  BY DEF RespondBuffered, ExecEnds
<1>2. NotBegun(t) /\ helper # t
  BY <1>1, TasksAssumption DEF CollectInv, ServedOnce, NotBegun, UnreadBefore
<1>3. stream[t].waiting = <<>>
  BY <1>2 DEF CollectInv, ReadsGoThroughTheGlobal, Waiting
<1>4. stream \in [Tasks -> Streams] /\ stream[t] \in Streams
  BY DEF CollectInv, CollectTypeOK, Streams, Readers
<1>5. stream' = [stream EXCEPT ![t] = [stream[t] EXCEPT !.state = "closed"]]
  BY DEF RespondBuffered
<1>6. [stream[t] EXCEPT !.state = "closed"] \in Streams
  BY <1>4 DEF Streams, States
<1> QED
  BY <1>1, <1>2, <1>3, <1>4, <1>5, <1>6 DEF Same, Streams

\* A read waits where nothing is queued.
LEMMA WaitersStep == CollectInv /\ [Next]_vars => WaitersHaveNothing'
<1> SUFFICES ASSUME CollectInv, [Next]_vars PROVE WaitersHaveNothing'
  OBVIOUS
<1> USE TasksAssumption, BoundsAssumption DEF CollectInv, WaitersHaveNothing, Waiting, Accepts
<1>1. ASSUME NEW t \in Tasks, NEW b \in BOOLEAN, Enqueue(t, b) PROVE WaitersHaveNothing'
  <2>1. /\ \A u \in Tasks \ {t} : Same(u)
        /\ stream'[t].waiting # <<>> => stream'[t].queue = <<>> /\ stream'[t].state = "readable"
    BY <1>1, EnqueueEffect DEF Waiting
  <2> QED
    BY <2>1 DEF Same
<1>2. ASSUME NEW t \in Tasks, CloseBody(t) PROVE WaitersHaveNothing'
  <2>1. stream'[t].waiting = <<>> /\ \A u \in Tasks \ {t} : Same(u)
    BY <1>2, EndEffect
  <2> QED
    BY <2>1 DEF Same
<1>3. ASSUME NEW t \in Tasks, ErrorBody(t) PROVE WaitersHaveNothing'
  <2>1. stream'[t].waiting = <<>> /\ \A u \in Tasks \ {t} : Same(u)
    BY <1>3, EndEffect
  <2> QED
    BY <2>1 DEF Same
<1>4. ASSUME NEW t \in Tasks, ScriptLocks(t) PROVE WaitersHaveNothing'
  BY <1>4 DEF ScriptLocks, execVars, streamVars, bodyVars
<1>5. CASE Read
  <2>1. cur \in Tasks
    BY <1>5 DEF Read, CollectTypeOK
  <2>2. Reading \in Tasks /\ \A u \in Tasks \ {Reading} : Same(u)
    BY <2>1, <1>5, ReadEffect
  <2>3. stream'[Reading].waiting # <<>> =>
          stream'[Reading].queue = <<>> /\ stream'[Reading].state = "readable"
    BY <2>1, <2>2, <1>5, ReadEffect
  <2> QED
    BY <2>2, <2>3 DEF Same
<1>6. CASE ReadLocked
  BY <1>6 DEF ReadLocked, execVars, streamVars, bodyVars
<1>7. ASSUME NEW t \in Tasks, Respond(t) PROVE WaitersHaveNothing'
  BY <1>7 DEF Respond, ExecEnds, execVars, streamVars, bodyVars
<1>8. ASSUME NEW t \in Tasks, Fail(t) PROVE WaitersHaveNothing'
  BY <1>8 DEF Fail, ExecEnds, execVars, streamVars, bodyVars
<1>9. ASSUME NEW t \in Tasks, Dispatch(t) PROVE WaitersHaveNothing'
  BY <1>9 DEF Dispatch, execVars, streamVars, bodyVars
<1>10. ASSUME NEW t \in Tasks, CollectBegins(t) PROVE WaitersHaveNothing'
  BY <1>10 DEF CollectBegins, execVars, streamVars, bodyVars
<1>11. ASSUME NEW t \in Tasks, RespondBuffered(t) PROVE WaitersHaveNothing'
  <2>1. stream'[t].waiting = <<>> /\ \A u \in Tasks \ {t} : Same(u)
    BY <1>11, BufferedEffect
  <2> QED
    BY <2>1 DEF Same
<1>12. ASSUME NEW t \in Tasks, HostDrop(t) PROVE WaitersHaveNothing'
  BY <1>12 DEF HostDrop, ExecEnds, execVars, streamVars, bodyVars
<1>13. ASSUME NEW t \in Tasks, Send(t) \/ SenderStops(t) PROVE WaitersHaveNothing'
  BY <1>13 DEF Send, SenderStops, execVars, streamVars, bodyVars
<1>14. ASSUME NEW t \in Tasks, Receive(t) PROVE WaitersHaveNothing'
  BY <1>14 DEF Receive, execVars, streamVars, bodyVars
<1>15. ASSUME NEW t \in Tasks, SeesEnd(t) \/ DropBody(t) PROVE WaitersHaveNothing'
  BY <1>15 DEF SeesEnd, DropBody, execVars, streamVars, bodyVars
<1>16. CASE UNCHANGED vars
  BY <1>16 DEF vars, execVars, streamVars, bodyVars
<1>17. ASSUME NEW t \in Tasks, CancelBody(t) PROVE WaitersHaveNothing'
  <2>1. stream'[t].waiting = <<>> /\ \A u \in Tasks \ {t} : Same(u)
    BY <1>17, CancelEffect
  <2> QED
    BY <2>1 DEF Same
<1>18. CASE ReadPullThrows
  <2>1. cur \in Tasks
    BY <1>18 DEF ReadPullThrows, CollectTypeOK
  <2>2. /\ \A u \in Tasks \ {Reading} : Same(u)
        /\ stream'[Reading].queue = <<>> /\ stream'[Reading].state = "readable"
    BY <2>1, <1>18, ThrowEffect
  <2> QED
    BY <2>2 DEF Same
<1> QED
  BY <1>1, <1>2, <1>3, <1>4, <1>5, <1>6, <1>7, <1>8, <1>9, <1>10, <1>11, <1>12, <1>13, <1>14,
     <1>15, <1>16, <1>17, <1>18
     DEF Next, SourceStep, LoopStep, HostStep, SenderStep

\* Reads wait in the stream of the global reader only.
LEMMA GlobalStep == CollectInv /\ [Next]_vars => ReadsGoThroughTheGlobal'
<1> SUFFICES ASSUME CollectInv, [Next]_vars PROVE ReadsGoThroughTheGlobal'
  OBVIOUS
<1> USE TasksAssumption, BoundsAssumption DEF CollectInv, ReadsGoThroughTheGlobal, Waiting
<1>1. ASSUME NEW t \in Tasks, NEW b \in BOOLEAN, Enqueue(t, b) PROVE ReadsGoThroughTheGlobal'
  <2>1. /\ \A u \in Tasks \ {t} : Same(u)
        /\ stream'[t].waiting # <<>> => stream[t].waiting # <<>>
    BY <1>1, EnqueueEffect DEF Waiting
  <2> QED
    BY <1>1, <2>1 DEF Same, Enqueue
<1>2. ASSUME NEW t \in Tasks, CloseBody(t) PROVE ReadsGoThroughTheGlobal'
  <2>1. stream'[t].waiting = <<>> /\ \A u \in Tasks \ {t} : Same(u)
    BY <1>2, EndEffect
  <2>2. Asking(t) # {} => stream[t].waiting # <<>>
    BY DEF Asking, ToSet
  <2> QED
    BY <1>2, <2>1, <2>2 DEF Same, CloseBody
<1>3. ASSUME NEW t \in Tasks, ErrorBody(t) PROVE ReadsGoThroughTheGlobal'
  <2>1. stream'[t].waiting = <<>> /\ \A u \in Tasks \ {t} : Same(u)
    BY <1>3, EndEffect
  <2> QED
    BY <1>3, <2>1 DEF Same, ErrorBody
<1>4. ASSUME NEW t \in Tasks, ScriptLocks(t) PROVE ReadsGoThroughTheGlobal'
  BY <1>4 DEF ScriptLocks, execVars, streamVars, bodyVars
<1>5. CASE Read
  <2>1. cur \in Tasks
    BY <1>5 DEF Read, CollectTypeOK
  <2>2. Reading \in Tasks /\ \A u \in Tasks \ {Reading} : Same(u)
    BY <2>1, <1>5, ReadEffect
  <2>3. \A u \in Tasks \ {Reading} : stream[u].waiting = <<>>
    BY <1>5 DEF Reading, Read
  <2>4. stream'[Reading].waiting # <<>> => helper' = Reading
    BY <2>1, <2>2, <1>5, ReadEffect
  <2> QED
    BY <2>2, <2>3, <2>4 DEF Same
<1>6. CASE ReadLocked
  BY <1>6 DEF ReadLocked, execVars, streamVars, bodyVars
<1>7. ASSUME NEW t \in Tasks, Respond(t) PROVE ReadsGoThroughTheGlobal'
  <2>1. helper = NoTask /\ UNCHANGED stream
    BY <1>7 DEF Respond, EndHasNoReader, streamVars
  <2> QED
    BY <2>1
<1>8. ASSUME NEW t \in Tasks, Fail(t) PROVE ReadsGoThroughTheGlobal'
  BY <1>8 DEF Fail, ExecEnds, execVars, streamVars, bodyVars
<1>9. ASSUME NEW t \in Tasks, Dispatch(t) PROVE ReadsGoThroughTheGlobal'
  BY <1>9 DEF Dispatch, execVars, streamVars, bodyVars
<1>10. ASSUME NEW t \in Tasks, CollectBegins(t) PROVE ReadsGoThroughTheGlobal'
  BY <1>10 DEF CollectBegins, execVars, streamVars, bodyVars
<1>11. ASSUME NEW t \in Tasks, RespondBuffered(t) PROVE ReadsGoThroughTheGlobal'
  <2>1. stream'[t].waiting = <<>> /\ \A u \in Tasks \ {t} : Same(u)
    BY <1>11, BufferedEffect
  <2> QED
    BY <1>11, <2>1 DEF Same, RespondBuffered
<1>12. ASSUME NEW t \in Tasks, HostDrop(t) PROVE ReadsGoThroughTheGlobal'
  BY <1>12 DEF HostDrop, ExecEnds, execVars, streamVars, bodyVars
<1>13. ASSUME NEW t \in Tasks, Send(t) \/ SenderStops(t) PROVE ReadsGoThroughTheGlobal'
  BY <1>13 DEF Send, SenderStops, execVars, streamVars, bodyVars
<1>14. ASSUME NEW t \in Tasks, Receive(t) PROVE ReadsGoThroughTheGlobal'
  BY <1>14 DEF Receive, execVars, streamVars, bodyVars
<1>15. ASSUME NEW t \in Tasks, SeesEnd(t) \/ DropBody(t) PROVE ReadsGoThroughTheGlobal'
  BY <1>15 DEF SeesEnd, DropBody, execVars, streamVars, bodyVars
<1>16. CASE UNCHANGED vars
  BY <1>16 DEF vars, execVars, streamVars, bodyVars
<1>17. ASSUME NEW t \in Tasks, CancelBody(t) PROVE ReadsGoThroughTheGlobal'
  <2>1. stream'[t].waiting = <<>> /\ \A u \in Tasks \ {t} : Same(u)
    BY <1>17, CancelEffect
  <2> QED
    BY <1>17, <2>1 DEF Same, CancelBody, execVars
<1>18. CASE ReadPullThrows
  <2>1. cur \in Tasks
    BY <1>18 DEF ReadPullThrows, CollectTypeOK
  <2>2. Reading \in Tasks /\ helper' = Reading /\ \A u \in Tasks \ {Reading} : Same(u)
    BY <2>1, <1>18, ThrowEffect
  <2>3. \A u \in Tasks \ {Reading} : stream[u].waiting = <<>>
    BY <1>18 DEF Reading, ReadPullThrows
  <2> QED
    BY <2>2, <2>3 DEF Same
<1> QED
  BY <1>1, <1>2, <1>3, <1>4, <1>5, <1>6, <1>7, <1>8, <1>9, <1>10, <1>11, <1>12, <1>13, <1>14,
     <1>15, <1>16, <1>17, <1>18
     DEF Next, SourceStep, LoopStep, HostStep, SenderStep

\* The read that was called last is the last to wait.
LEMMA StaleStep == CollectInv /\ [Next]_vars => StaleReadsFirst'
<1> SUFFICES ASSUME CollectInv, [Next]_vars PROVE StaleReadsFirst'
  OBVIOUS
<1> USE TasksAssumption DEF CollectInv, StaleReadsFirst, Waiting
<1>1. ASSUME NEW t \in Tasks, NEW b \in BOOLEAN, Enqueue(t, b) PROVE StaleReadsFirst'
  <2>1. /\ stream[t].waiting \in Seq(Readers) /\ \A u \in Tasks \ {t} : Same(u)
        /\ stream'[t].waiting = <<>> \/ (stream[t].waiting # <<>> /\
             stream'[t].waiting = Tail(stream[t].waiting))
    BY <1>1, EnqueueEffect DEF Waiting, CollectTypeOK, Readers
  <2>2. UNCHANGED <<cur, outcome>>
    BY <1>1 DEF Enqueue
  <2>3. ASSUME stream[t].waiting # <<>>, stream'[t].waiting = Tail(stream[t].waiting),
               NEW i \in DOMAIN stream'[t].waiting
        PROVE  stream'[t].waiting[i] # NoTask =>
                 IF stream'[t].waiting[i] = cur THEN i = Len(stream'[t].waiting)
                 ELSE outcome[stream'[t].waiting[i]] # "none"
    <3>1. /\ i + 1 \in DOMAIN stream[t].waiting /\ stream'[t].waiting[i] = stream[t].waiting[i + 1]
          /\ Len(stream'[t].waiting) = Len(stream[t].waiting) - 1 /\ i \in Int
          /\ Len(stream[t].waiting) \in Int
      BY <2>1, <2>3
    <3> QED
      BY <3>1
  <2> QED
    BY <2>1, <2>2, <2>3 DEF Same
<1>2. ASSUME NEW t \in Tasks, CloseBody(t) PROVE StaleReadsFirst'
  <2>1. stream'[t].waiting = <<>> /\ \A u \in Tasks \ {t} : Same(u)
    BY <1>2, EndEffect
  <2> QED
    BY <1>2, <2>1 DEF Same, CloseBody, Settle
<1>3. ASSUME NEW t \in Tasks, ErrorBody(t) PROVE StaleReadsFirst'
  <2>1. stream'[t].waiting = <<>> /\ \A u \in Tasks \ {t} : Same(u)
    BY <1>3, EndEffect
  <2> QED
    BY <1>3, <2>1 DEF Same, ErrorBody, Settle
<1>4. ASSUME NEW t \in Tasks, ScriptLocks(t) PROVE StaleReadsFirst'
  BY <1>4 DEF ScriptLocks, execVars, streamVars, bodyVars
<1>5. CASE Read
  <2> DEFINE w == stream[Reading].waiting
  <2>1. cur \in Tasks /\ phase = "next" /\ UNCHANGED <<cur, outcome>>
    BY <1>5 DEF Read, CollectTypeOK
  <2>2. Reading \in Tasks /\ \A u \in Tasks \ {Reading} : Same(u)
    BY <2>1, <1>5, ReadEffect
  <2>3. stream'[Reading].waiting \in {<<>>, w, Append(w, cur)} /\ w \in Seq(Readers)
    BY <2>1, <2>2, <1>5, ReadEffect DEF Streams
  <2>4. ASSUME NEW i \in DOMAIN w PROVE w[i] # cur /\ (w[i] # NoTask => outcome[w[i]] # "none")
    <3>1. cur \notin ToSet(w)
      BY <2>1, <2>2 DEF CollectTypeOK
    <3> QED
      BY <2>2, <2>4, <3>1 DEF ToSet
  <2>5. ASSUME stream'[Reading].waiting = Append(w, cur), NEW i \in DOMAIN stream'[Reading].waiting
        PROVE  stream'[Reading].waiting[i] # NoTask =>
                 IF stream'[Reading].waiting[i] = cur THEN i = Len(stream'[Reading].waiting)
                 ELSE outcome[stream'[Reading].waiting[i]] # "none"
    <3>1. CASE i = Len(w) + 1
      BY <2>3, <2>5, <3>1
    <3>2. CASE i \in DOMAIN w
      BY <2>3, <2>4, <2>5, <3>2
    <3> QED
      BY <2>3, <2>5, <3>1, <3>2
  <2> HIDE DEF w
  <2>6. \A i \in DOMAIN stream'[Reading].waiting :
          stream'[Reading].waiting[i] # NoTask =>
            IF stream'[Reading].waiting[i] = cur THEN i = Len(stream'[Reading].waiting)
            ELSE outcome[stream'[Reading].waiting[i]] # "none"
    BY <2>3, <2>4, <2>5
  <2> QED
    BY <2>1, <2>2, <2>6 DEF Same
<1>6. CASE ReadLocked
  BY <1>6 DEF ReadLocked, execVars, streamVars, bodyVars
<1>7. ASSUME NEW t \in Tasks, Respond(t) PROVE StaleReadsFirst'
  <2>1. /\ cur = t /\ cur' = NoTask /\ outcome'[t] # "none" /\ UNCHANGED stream
        /\ \A u \in Tasks \ {t} : outcome'[u] = outcome[u]
    BY <1>7 DEF Respond, ExecEnds, CollectTypeOK, streamVars
  <2>2. \A u \in Tasks : \A i \in DOMAIN stream[u].waiting : stream[u].waiting[i] \in Readers
    BY DEF CollectTypeOK, Readers
  <2> QED
    BY <2>1, <2>2 DEF Readers
<1>8. ASSUME NEW t \in Tasks, Fail(t) PROVE StaleReadsFirst'
  <2>1. /\ cur = t /\ cur' = NoTask /\ outcome'[t] # "none" /\ UNCHANGED stream
        /\ \A u \in Tasks \ {t} : outcome'[u] = outcome[u]
    BY <1>8 DEF Fail, ExecEnds, CollectTypeOK, streamVars
  <2>2. \A u \in Tasks : \A i \in DOMAIN stream[u].waiting : stream[u].waiting[i] \in Readers
    BY DEF CollectTypeOK, Readers
  <2> QED
    BY <2>1, <2>2 DEF Readers
<1>9. ASSUME NEW t \in Tasks, Dispatch(t) PROVE StaleReadsFirst'
  <2>1. cur = NoTask /\ cur' = t /\ outcome[t] = "none" /\ UNCHANGED <<stream, outcome>>
    BY <1>9 DEF Dispatch, streamVars
  <2>2. \A u \in Tasks : \A i \in DOMAIN stream[u].waiting : stream[u].waiting[i] \in Readers
    BY DEF CollectTypeOK, Readers
  <2> QED
    BY <2>1, <2>2 DEF Readers
<1>10. ASSUME NEW t \in Tasks, CollectBegins(t) PROVE StaleReadsFirst'
  BY <1>10 DEF CollectBegins, execVars, streamVars, bodyVars
<1>11. ASSUME NEW t \in Tasks, RespondBuffered(t) PROVE StaleReadsFirst'
  <2>1. stream'[t].waiting = <<>> /\ \A u \in Tasks \ {t} : Same(u)
    BY <1>11, BufferedEffect
  <2>2. /\ cur = t /\ cur' = NoTask /\ outcome'[t] # "none"
        /\ \A u \in Tasks \ {t} : outcome'[u] = outcome[u]
    BY <1>11 DEF RespondBuffered, ExecEnds, CollectTypeOK
  <2>3. \A u \in Tasks : \A i \in DOMAIN stream[u].waiting : stream[u].waiting[i] \in Readers
    BY DEF CollectTypeOK, Readers
  <2> QED
    BY <2>1, <2>2, <2>3 DEF Same, Readers
<1>12. ASSUME NEW t \in Tasks, HostDrop(t) PROVE StaleReadsFirst'
  <2>1. /\ cur = t /\ cur' = NoTask /\ outcome'[t] # "none" /\ UNCHANGED stream
        /\ \A u \in Tasks \ {t} : outcome'[u] = outcome[u]
    BY <1>12 DEF HostDrop, ExecEnds, CollectTypeOK, streamVars
  <2>2. \A u \in Tasks : \A i \in DOMAIN stream[u].waiting : stream[u].waiting[i] \in Readers
    BY DEF CollectTypeOK, Readers
  <2> QED
    BY <2>1, <2>2 DEF Readers
<1>13. ASSUME NEW t \in Tasks, Send(t) \/ SenderStops(t) PROVE StaleReadsFirst'
  BY <1>13 DEF Send, SenderStops, execVars, streamVars, bodyVars
<1>14. ASSUME NEW t \in Tasks, Receive(t) PROVE StaleReadsFirst'
  BY <1>14 DEF Receive, execVars, streamVars, bodyVars
<1>15. ASSUME NEW t \in Tasks, SeesEnd(t) \/ DropBody(t) PROVE StaleReadsFirst'
  BY <1>15 DEF SeesEnd, DropBody, execVars, streamVars, bodyVars
<1>16. CASE UNCHANGED vars
  BY <1>16 DEF vars, execVars, streamVars, bodyVars
<1>17. ASSUME NEW t \in Tasks, CancelBody(t) PROVE StaleReadsFirst'
  <2>1. stream'[t].waiting = <<>> /\ \A u \in Tasks \ {t} : Same(u)
    BY <1>17, CancelEffect
  <2>2. UNCHANGED <<cur, outcome>>
    BY <1>17 DEF CancelBody, execVars
  <2> QED
    BY <2>1, <2>2 DEF Same
<1>18. CASE ReadPullThrows
  <2> DEFINE w == stream[Reading].waiting
  <2>1. cur \in Tasks /\ phase = "next" /\ UNCHANGED <<cur, outcome>>
    BY <1>18 DEF ReadPullThrows, CollectTypeOK
  <2>2. /\ Reading \in Tasks /\ \A u \in Tasks \ {Reading} : Same(u)
        /\ stream'[Reading].waiting = Append(w, NoTask) /\ w \in Seq(Readers)
    BY <2>1, <1>18, ThrowEffect DEF Streams
  <2>3. ASSUME NEW i \in DOMAIN w PROVE w[i] # cur /\ (w[i] # NoTask => outcome[w[i]] # "none")
    <3>1. cur \notin ToSet(w)
      BY <2>1, <2>2 DEF CollectTypeOK
    <3> QED
      BY <2>2, <2>3, <3>1 DEF ToSet
  <2> HIDE DEF w
  <2>4. ASSUME NEW i \in DOMAIN Append(w, NoTask), Append(w, NoTask)[i] # NoTask
        PROVE  i \in DOMAIN w /\ Append(w, NoTask)[i] = w[i]
    BY <2>2, <2>4
  <2>5. \A i \in DOMAIN stream'[Reading].waiting :
          stream'[Reading].waiting[i] # NoTask =>
            stream'[Reading].waiting[i] # cur /\ outcome[stream'[Reading].waiting[i]] # "none"
    BY <2>2, <2>3, <2>4
  <2> QED
    BY <2>1, <2>2, <2>5 DEF Same
<1> QED
  BY <1>1, <1>2, <1>3, <1>4, <1>5, <1>6, <1>7, <1>8, <1>9, <1>10, <1>11, <1>12, <1>13, <1>14,
     <1>15, <1>16, <1>17, <1>18
     DEF Next, SourceStep, LoopStep, HostStep, SenderStep

-----------------------------------------------------------------------------
(* How a collection gets on with what is queued.                           *)

\* Nothing queued, nothing to add.
LEMMA LeadsNowhere ==
  ASSUME NEW c \in Seq(Chunks), NEW d
  PROVE  Leads(c, <<>>, d) <=> c = d
<1>1. Leads(c, <<>>, d) => c = d
  BY DEF Leads
<1>2. ASSUME c = d PROVE Leads(c, <<>>, d)
  <2> DEFINE P == [i \in 0 .. 0 |-> c]
  <2>1. /\ P \in [0 .. Len(<<>>) -> Seq(Chunks)] /\ P[0] = c /\ P[Len(<<>>)] = d
        /\ \A i \in 1 .. Len(<<>>) : P[i] = P[i - 1] \o Kept(<<>>[i])
    BY <1>2
  <2> QED
    BY <2>1 DEF Leads
<1> QED
  BY <1>1, <1>2

\* One more is queued.
LEMMA LeadsFurther ==
  ASSUME NEW c, NEW q \in Seq(Chunks), NEW d \in Seq(Chunks), NEW x \in Chunks, Leads(c, q, d)
  PROVE  Leads(c, Append(q, x), d \o Kept(x))
<1>1. PICK P \in [0 .. Len(q) -> Seq(Chunks)] :
        /\ P[0] = c /\ P[Len(q)] = d
        /\ \A i \in 1 .. Len(q) : P[i] = P[i - 1] \o Kept(q[i])
  BY DEF Leads
<1> DEFINE r == Append(q, x)
           e == d \o Kept(x)
           Q == [i \in 0 .. Len(r) |-> IF i \in 0 .. Len(q) THEN P[i] ELSE e]
<1>2. /\ Len(q) \in Nat /\ Len(r) = Len(q) + 1 /\ r[Len(q) + 1] = x
      /\ \A i \in 1 .. Len(q) : r[i] = q[i]
  OBVIOUS
<1>3. e \in Seq(Chunks)
  <2>1. Kept(x) \in Seq(Chunks)
    BY DEF Kept
  <2> QED
    BY <2>1
<1>4. Q \in [0 .. Len(r) -> Seq(Chunks)] /\ Q[0] = c /\ Q[Len(r)] = e
  BY <1>1, <1>2, <1>3
<1>5. ASSUME NEW i \in 1 .. Len(r) PROVE Q[i] = Q[i - 1] \o Kept(r[i])
  <2>1. CASE i \in 1 .. Len(q)
    <3>1. Q[i] = P[i] /\ Q[i - 1] = P[i - 1]
      BY <1>2, <2>1
    <3>2. P[i] = P[i - 1] \o Kept(q[i]) /\ r[i] = q[i]
      BY Zenon, <1>1, <1>2, <2>1
    <3> QED
      BY Zenon, <3>1, <3>2
  <2>2. CASE i = Len(q) + 1
    <3>1. Q[i] = e /\ Q[i - 1] = d
      BY <1>1, <1>2, <2>2
    <3>2. r[i] = x
      BY <1>2, <2>2
    <3> QED
      BY Zenon, <3>1, <3>2
  <2>3. i \in 1 .. Len(q) \/ i = Len(q) + 1
    BY <1>2, <1>5
  <2> QED
    BY Zenon, <2>1, <2>2, <2>3
<1> HIDE DEF Q, r, e
<1>6. Leads(c, r, e)
  BY <1>4, <1>5 DEF Leads
<1> QED
  BY <1>6 DEF r, e

\* The first is read.
LEMMA LeadsOnward ==
  ASSUME NEW c, NEW q \in Seq(Chunks), NEW d, q # <<>>, Leads(c, q, d)
  PROVE  Leads(c \o Kept(Head(q)), Tail(q), d)
<1>1. PICK P \in [0 .. Len(q) -> Seq(Chunks)] :
        /\ P[0] = c /\ P[Len(q)] = d
        /\ \A i \in 1 .. Len(q) : P[i] = P[i - 1] \o Kept(q[i])
  BY DEF Leads
<1> DEFINE r == Tail(q)
           Q == [i \in 0 .. Len(r) |-> P[i + 1]]
<1>2. /\ Len(q) \in Nat /\ Len(q) > 0 /\ Len(r) = Len(q) - 1 /\ Head(q) = q[1]
      /\ \A i \in 1 .. Len(r) : r[i] = q[i + 1]
  OBVIOUS
<1>3. Q \in [0 .. Len(r) -> Seq(Chunks)] /\ Q[0] = P[1] /\ Q[Len(r)] = d
  BY <1>1, <1>2
<1>4. P[1] = c \o Kept(Head(q))
  <2>1. PICK j \in 1 .. Len(q) : j = 1 /\ j - 1 = 0
    BY <1>2
  <2>2. P[j] = P[j - 1] \o Kept(q[j])
    BY Zenon, <1>1, <2>1
  <2> QED
    BY Zenon, <1>1, <1>2, <2>1, <2>2
<1>5. ASSUME NEW i \in 1 .. Len(r) PROVE Q[i] = Q[i - 1] \o Kept(r[i])
  <2>1. Q[i] = P[i + 1] /\ Q[i - 1] = P[i] /\ i + 1 \in 1 .. Len(q)
    BY <1>2, <1>5
  <2>2. P[i + 1] = P[i] \o Kept(q[i + 1])
    <3>1. PICK j \in 1 .. Len(q) : j = i + 1 /\ j - 1 = i
      BY <1>5, <2>1
    <3>2. P[j] = P[j - 1] \o Kept(q[j])
      BY Zenon, <1>1, <3>1
    <3> QED
      BY Zenon, <3>1, <3>2
  <2> QED
    BY <1>2, <1>5, <2>1, <2>2
<1> HIDE DEF Q, r
<1>6. Leads(P[1], r, d)
  BY <1>3, <1>5 DEF Leads
<1> QED
  BY <1>4, <1>6 DEF r

\* As long as nobody reads a stream, it leads a collection on as before.
LEMMA UnreadLeadsOn ==
  ASSUME CollectInv, [Next]_vars, NEW t \in Tasks, Waiting(t) = <<>>, ~(Read /\ Reading = t),
         ~RespondBuffered(t), NEW c, LeadsOn(c, t)
  PROVE  LeadsOn(c, t)'
<1> USE DEF CollectInv
<1>1. stream \in [Tasks -> Streams] /\ due \in [Tasks -> Seq(Chunks)] /\ cur \in Tasks \cup {NoTask}
  BY DEF CollectTypeOK, Streams, Readers
<1>2. Same(t) /\ due'[t] = due[t] => LeadsOn(c, t)'
  BY DEF Same, LeadsOn
<1>3. ASSUME NEW u \in Tasks, NEW b \in BOOLEAN, Enqueue(u, b) PROVE LeadsOn(c, t)'
  <2> DEFINE x == <<u, enqueued[u] + 1, b>>
  <2>1. CASE u # t
    BY <1>2, <1>3, <2>1, EnqueueEffect
  <2>2. CASE u = t
    <3>1. /\ x \in Chunks /\ stream[t].state = "readable" /\ due'[t] = due[t] \o Kept(x)
          /\ stream'[t].queue = Append(stream[t].queue, x)
      BY <1>3, <2>2, EnqueueEffect
    <3>2. stream[t].queue \in Seq(Chunks) /\ due[t] \in Seq(Chunks)
      BY <1>1 DEF Streams
    <3>3. Leads(c, stream[t].queue, due[t])
      BY <3>1 DEF LeadsOn
    <3>4. Leads(c, Append(stream[t].queue, x), due[t] \o Kept(x))
      BY <3>1, <3>2, <3>3, LeadsFurther
    <3> QED
      BY <3>1, <3>4 DEF LeadsOn
  <2> QED
    BY <2>1, <2>2
<1>4. ASSUME NEW u \in Tasks, CloseBody(u) \/ ErrorBody(u) PROVE LeadsOn(c, t)'
  <2>1. due' = due
    BY <1>4 DEF CloseBody, ErrorBody, Settle
  <2>2. CASE u # t
    BY <1>2, <1>4, <2>1, <2>2, EndEffect
  <2>3. CASE u = t
    BY <1>4, <2>1, <2>3, EndEffect DEF LeadsOn
  <2> QED
    BY <2>2, <2>3
<1>5. CASE Read
  <2>1. cur \in Tasks /\ due' = due
    BY <1>1, <1>5 DEF Read, CollectTypeOK
  <2> QED
    BY <1>2, <1>5, <2>1, ReadEffect
<1>6. ASSUME NEW u \in Tasks, RespondBuffered(u) PROVE LeadsOn(c, t)'
  <2>1. u # t /\ due'[t] = due[t]
    BY <1>1, <1>6 DEF RespondBuffered
  <2> QED
    BY <1>2, <1>6, <2>1, BufferedEffect
<1>11. ASSUME NEW u \in Tasks, CancelBody(u) PROVE LeadsOn(c, t)'
  <2>1. due' = due
    BY <1>11 DEF CancelBody
  <2>2. CASE u # t
    BY <1>2, <1>11, <2>1, <2>2, CancelEffect
  <2>3. CASE u = t
    BY <1>11, <2>1, <2>3, CancelEffect DEF LeadsOn
  <2> QED
    BY <2>2, <2>3
<1>12. CASE ReadPullThrows
  <2>1. cur \in Tasks /\ due' = due
    BY <1>1, <1>12 DEF ReadPullThrows, CollectTypeOK
  <2>2. CASE Reading # t
    BY <1>2, <1>12, <2>1, <2>2, ThrowEffect
  <2>3. CASE Reading = t
    BY <1>12, <2>1, <2>3, ThrowEffect DEF LeadsOn
  <2> QED
    BY <2>2, <2>3
<1>7. ASSUME UNCHANGED <<stream, due>> PROVE LeadsOn(c, t)'
  BY <1>2, <1>7 DEF Same
<1>8. UNCHANGED vars => UNCHANGED <<stream, due>>
  BY DEF vars, streamVars
<1>9. ASSUME NEW u \in Tasks,
             \/ ScriptLocks(u) \/ Respond(u) \/ Fail(u) \/ Dispatch(u) \/ CollectBegins(u)
             \/ HostDrop(u) \/ Receive(u) \/ SeesEnd(u) \/ DropBody(u) \/ Send(u) \/ SenderStops(u)
      PROVE  UNCHANGED <<stream, due>>
  BY <1>9 DEF ScriptLocks, Respond, Fail, Dispatch, CollectBegins, HostDrop, Receive, SeesEnd,
              DropBody, Send, SenderStops, streamVars
<1>10. ReadLocked => UNCHANGED <<stream, due>>
  BY DEF ReadLocked, streamVars
<1> QED
  BY <1>3, <1>4, <1>5, <1>6, <1>7, <1>8, <1>9, <1>10, <1>11, <1>12
     DEF Next, SourceStep, LoopStep, HostStep, SenderStep

\* Nobody reads a stream before its own response is collected.
LEMMA UnreadStep == CollectInv /\ [Next]_vars => UnreadBefore'
<1> SUFFICES ASSUME CollectInv, [Next]_vars, NEW u \in Tasks, NotBegun(u)'
             PROVE  ~own'[u] /\ helper' # u /\ LeadsOn(<<>>, u)'
  BY DEF UnreadBefore
<1> USE TasksAssumption DEF CollectInv
<1>1. NotBegun(u) /\ own'[u] = own[u] /\ ~RespondBuffered(u) /\ (cur = u => phase # "next")
      /\ (Read \/ ReadPullThrows \/ helper' \in {helper, NoTask})
  <2> USE DEF CollectTypeOK, NotBegun
  <2>1. CASE Read
    <3>1. cur \in Tasks /\ phase = "next" /\ UNCHANGED <<cur, own, outcome>>
      BY <2>1 DEF Read
    <3>2. phase' # "handler"
      BY <2>1, <3>1, ReadEffect
    <3> QED
      BY <2>1, <3>1, <3>2 DEF RespondBuffered
  <2>6. CASE ReadLocked \/ ReadPullThrows
    BY <2>6 DEF ReadLocked, ReadPullThrows, RespondBuffered
  <2>7. CASE UNCHANGED vars
    BY <2>7 DEF vars, execVars, RespondBuffered, ExecEnds
  <2>2. ASSUME NEW t \in Tasks, Respond(t) \/ Fail(t) \/ HostDrop(t) \/ RespondBuffered(t)
        PROVE  /\ NotBegun(u) /\ own'[u] = own[u] /\ ~RespondBuffered(u)
               /\ (cur = u => phase # "next") /\ helper' \in {helper, NoTask}
    <3>1. t = cur /\ outcome'[t] # "none" /\ \A v \in Tasks \ {t} : outcome'[v] = outcome[v]
      BY <2>2 DEF Respond, Fail, HostDrop, RespondBuffered, ExecEnds
    <3>2. u # t
      BY <3>1
    <3>3. ~RespondBuffered(u)
      BY <3>1, <3>2 DEF RespondBuffered, ExecEnds
    <3> QED
      BY <2>2, <3>1, <3>2, <3>3 DEF Respond, Fail, HostDrop, RespondBuffered
  <2>3. ASSUME NEW t \in Tasks, Dispatch(t) \/ CollectBegins(t)
        PROVE  /\ NotBegun(u) /\ own'[u] = own[u] /\ ~RespondBuffered(u)
               /\ (cur = u => phase # "next") /\ helper' \in {helper, NoTask}
    BY <2>3 DEF Dispatch, CollectBegins, RespondBuffered, ExecEnds
  <2>4. ASSUME NEW t \in Tasks,
               \/ \E b \in BOOLEAN : Enqueue(t, b)
               \/ CloseBody(t) \/ ErrorBody(t) \/ CancelBody(t) \/ ScriptLocks(t)
               \/ Receive(t) \/ SeesEnd(t) \/ DropBody(t) \/ Send(t) \/ SenderStops(t)
        PROVE  /\ UNCHANGED <<cur, own, outcome>> /\ helper' \in {helper, NoTask}
               /\ phase' = "handler" => phase = "handler"
    BY <2>4
       DEF Enqueue, CloseBody, ErrorBody, Settle, CancelBody, ScriptLocks, Receive, SeesEnd,
                DropBody, Send, SenderStops, execVars
  <2>5. ASSUME UNCHANGED <<cur, own, outcome>>, phase' = "handler" => phase = "handler"
        PROVE  /\ NotBegun(u) /\ own'[u] = own[u] /\ ~RespondBuffered(u)
               /\ (cur = u => phase # "next")
    BY <2>5 DEF RespondBuffered, ExecEnds
  <2>8. CASE SourceStep
    BY <2>4, <2>5, <2>8 DEF SourceStep
  <2>9. CASE LoopStep
    BY <2>1, <2>2, <2>6, <2>9 DEF LoopStep
  <2>10. CASE HostStep
    BY <2>2, <2>3, <2>4, <2>5, <2>10 DEF HostStep
  <2>11. CASE SenderStep
    BY <2>4, <2>5, <2>11 DEF SenderStep
  <2> QED
    BY <2>7, <2>8, <2>9, <2>10, <2>11 DEF Next
<1>2. helper # u /\ ~own[u] /\ LeadsOn(<<>>, u) /\ Waiting(u) = <<>>
  BY <1>1 DEF UnreadBefore, ReadsGoThroughTheGlobal
<1>3. ~(Read /\ Reading = u) /\ helper' # u
  <2>1. Read \/ ReadPullThrows => Reading # u
    BY <1>1, <1>2 DEF Read, ReadPullThrows, Reading
  <2>2. Read \/ ReadPullThrows => helper' \in {NoTask, Reading}
    BY DEF Read, ReadPullThrows
  <2> QED
    BY <1>1, <1>2, <2>1, <2>2
<1> QED
  BY <1>1, <1>2, <1>3, UnreadLeadsOn

\* A collection reads its own stream only, and has what was read of it.
LEMMA OwnCollectionStep == CollectInv /\ [Next]_vars => OwnCollection'
<1> DEFINE Gets == /\ helper \in {NoTask, cur}
                   /\ \A i \in DOMAIN Waiting(cur) : Waiting(cur)[i] = cur
                   /\ LeadsOn(chunks, cur)
           Has == chunks = due[cur] /\ ~Accepts(stream[cur])
<1> SUFFICES ASSUME CollectInv, [Next]_vars, cur' # NoTask, own'[cur']
             PROVE  (phase \in {"next", "reading"} => Gets)' /\ (phase = "done" => Has)'
  BY DEF OwnCollection
<1> USE TasksAssumption DEF CollectInv
<1>1. /\ stream \in [Tasks -> Streams] /\ due \in [Tasks -> Seq(Chunks)]
      /\ cur \in Tasks \cup {NoTask}
      /\ chunks \in Seq(Chunks)
  BY DEF CollectTypeOK, Streams, Readers
<1>2. ASSUME own[cur], cur # NoTask, phase \in {"next", "reading", "done"},
             NEW t \in Tasks, cur \in ToSet(Waiting(t))
      PROVE  t = cur /\ phase = "reading"
  <2>1. Waiting(t) # <<>>
    BY <1>2 DEF ToSet
  <2>2. phase = "reading"
    BY <1>2 DEF CollectTypeOK, Waiting
  <2> QED
    BY <1>2, <2>1, <2>2 DEF ReadsGoThroughTheGlobal, OwnCollection
<1>3. ASSUME cur \in Tasks, LeadsOn(chunks, cur), stream[cur].state # "errored",
             stream[cur].queue = <<>>
      PROVE  chunks = due[cur]
  <2>1. Leads(chunks, <<>>, due[cur])
    BY <1>3 DEF LeadsOn
  <2> QED
    BY <1>1, <2>1, LeadsNowhere
<1>4. ASSUME UNCHANGED <<cur, own, helper, chunks, stream, due>>,
             phase' \in {phase, "failed", "handler"}
      PROVE  (phase \in {"next", "reading"} => Gets)' /\ (phase = "done" => Has)'
  <2>1. (phase \in {"next", "reading"} => Gets) /\ (phase = "done" => Has)
    BY <1>4 DEF OwnCollection
  <2> QED
    BY <1>4, <2>1 DEF Waiting, LeadsOn
<1>5. ASSUME NEW t \in Tasks, NEW b \in BOOLEAN, Enqueue(t, b)
      PROVE  (phase \in {"next", "reading"} => Gets)' /\ (phase = "done" => Has)'
  <2> DEFINE x == <<t, enqueued[t] + 1, b>>
  <2>1. /\ cur \in Tasks /\ UNCHANGED <<cur, own, helper>> /\ own[cur]
        /\ IF Waiting(t) # <<>> /\ Head(Waiting(t)) = cur
           THEN phase' = "next" /\ chunks' = chunks \o Kept(x) ELSE UNCHANGED <<phase, chunks>>
    BY <1>1, <1>5 DEF Enqueue
  <2>2. Waiting(t) \in Seq(Readers)
    BY <1>1 DEF Waiting, Streams
  <2>3. CASE t # cur
    <3>1. Same(cur) /\ due'[cur] = due[cur]
      BY <1>5, <2>1, <2>3, EnqueueEffect
    <3>2. CASE phase \in {"next", "reading", "done"}
      <4>1. ~(Waiting(t) # <<>> /\ Head(Waiting(t)) = cur)
        BY <1>2, <2>1, <2>2, <2>3, <3>2 DEF ToSet
      <4>2. (phase \in {"next", "reading"} => Gets) /\ (phase = "done" => Has)
        BY <2>1 DEF OwnCollection
      <4> QED
        BY <2>1, <3>1, <4>1, <4>2 DEF Same, Waiting, LeadsOn
    <3>3. CASE phase \notin {"next", "reading", "done"}
      <4>1. cur \notin ToSet(Waiting(t))
        BY <2>1, <3>3 DEF CollectTypeOK, Waiting
      <4>2. ~(Waiting(t) # <<>> /\ Head(Waiting(t)) = cur)
        BY <2>2, <4>1 DEF ToSet
      <4> QED
        BY <2>1, <3>3, <4>2
    <3> QED
      BY <3>2, <3>3
  <2>4. CASE t = cur
    <3>1. /\ due'[cur] = due[cur] \o Kept(x) /\ stream[cur].state = "readable"
          /\ stream'[cur].state = "readable"
      BY <1>5, <2>4, EnqueueEffect
    <3>2. CASE Waiting(cur) = <<>>
      <4>1. stream'[cur].waiting = <<>> /\ UNCHANGED <<chunks, phase>>
        BY <1>5, <2>4, <3>2, EnqueueEffect
      <4>2. phase # "done"
        BY <2>1, <3>1 DEF OwnCollection, Accepts
      <4>3. ASSUME phase \in {"next", "reading"} PROVE LeadsOn(chunks, cur)'
        <5>1. LeadsOn(chunks, cur)
          BY <2>1, <4>3 DEF OwnCollection
        <5>2. Leads(chunks, stream[cur].queue, due[cur])
          BY <3>1, <5>1 DEF LeadsOn
        <5>3. x \in Chunks /\ stream'[cur].queue = Append(stream[cur].queue, x)
          BY <1>5, <2>4, <3>2, EnqueueEffect
        <5>4. stream[cur].queue \in Seq(Chunks) /\ due[cur] \in Seq(Chunks)
          BY <1>1, <2>1 DEF Streams
        <5>5. Leads(chunks, Append(stream[cur].queue, x), due[cur] \o Kept(x))
          BY <5>2, <5>3, <5>4, LeadsFurther
        <5> QED
          BY <2>1, <3>1, <4>1, <5>3, <5>5 DEF LeadsOn
      <4> QED
        BY <2>1, <4>1, <4>2, <4>3 DEF OwnCollection, Waiting
    <3>3. CASE Waiting(cur) # <<>>
      <4>1. /\ stream[cur].queue = <<>> /\ stream'[cur].queue = <<>>
            /\ stream'[cur].waiting = Tail(stream[cur].waiting)
            /\ x \in Chunks /\ Kept(x) \in Seq(Chunks)
        BY <1>5, <2>4, <3>3, EnqueueEffect
      <4>2. CASE phase \in {"next", "reading"}
        <5>1. Gets
          BY <2>1, <4>2 DEF OwnCollection
        <5>2. Head(Waiting(cur)) = cur
          BY <2>2, <2>4, <3>3, <5>1
        <5>3. phase' = "next" /\ chunks' = chunks \o Kept(x)
          BY <2>1, <2>4, <3>3, <5>2
        <5>4. chunks = due[cur]
          BY <1>3, <2>1, <3>1, <4>1, <5>1
        <5>5. due'[cur] \in Seq(Chunks)
          BY <1>5, <2>1, EnqueueEffect
        <5>6. Leads(chunks', stream'[cur].queue, due'[cur])
          BY <3>1, <4>1, <5>3, <5>4, <5>5, LeadsNowhere
        <5>7. LeadsOn(chunks, cur)'
          BY <2>1, <5>6 DEF LeadsOn
        <5>8. \A i \in DOMAIN Tail(Waiting(cur)) : Tail(Waiting(cur))[i] = cur
          <6>1. ASSUME NEW i \in DOMAIN Tail(Waiting(cur))
                PROVE  i + 1 \in DOMAIN Waiting(cur) /\ Tail(Waiting(cur))[i] = Waiting(cur)[i + 1]
            BY <2>2, <2>4, <3>3
          <6> QED
            BY <5>1, <6>1
        <5> QED
          BY <2>1, <4>1, <5>1, <5>3, <5>7, <5>8 DEF Waiting
      <4>3. CASE phase \notin {"next", "reading"}
        <5>1. cur \notin ToSet(Waiting(cur))
          BY <2>1, <4>3 DEF CollectTypeOK, Waiting
        <5>2. Head(Waiting(cur)) # cur
          BY <2>2, <2>4, <3>3, <5>1 DEF ToSet
        <5>3. phase # "done"
          BY <2>1, <3>1 DEF OwnCollection, Accepts
        <5> QED
          BY <2>1, <2>4, <4>3, <5>2, <5>3
      <4> QED
        BY <4>2, <4>3
    <3> QED
      BY <3>2, <3>3
  <2> QED
    BY <2>3, <2>4
<1>6. ASSUME NEW t \in Tasks, CloseBody(t) \/ ErrorBody(t)
      PROVE  (phase \in {"next", "reading"} => Gets)' /\ (phase = "done" => Has)'
  <2>1. /\ cur \in Tasks /\ own[cur] /\ UNCHANGED <<cur, own, chunks, due>>
        /\ helper' \in {helper, NoTask}
        /\ IF cur \in ToSet(Waiting(t)) THEN phase' \in {"done", "failed"} ELSE phase' = phase
        /\ phase' = "done" /\ phase # "done" => CloseBody(t)
    BY <1>1, <1>6 DEF CloseBody, ErrorBody, Settle, Polled
  <2>2. CASE cur \in ToSet(Waiting(t))
    <3>1. phase = "reading"
      BY <2>1, <2>2 DEF CollectTypeOK, Waiting
    <3>2. t = cur /\ Gets
      BY <1>2, <2>1, <2>2, <3>1 DEF OwnCollection
    <3>3. stream[cur].queue = <<>> /\ Accepts(stream[cur])
      BY <2>1, <2>2, <3>2 DEF WaitersHaveNothing, ToSet
    <3>4. chunks = due[cur]
      BY <1>3, <2>1, <3>2, <3>3 DEF Accepts
    <3>5. ~Accepts(stream'[cur])
      BY <1>6, <3>2, EndEffect
    <3> QED
      BY <2>1, <2>2, <3>4, <3>5
  <2>3. CASE cur \notin ToSet(Waiting(t))
    <3>1. phase' = phase
      BY <2>1, <2>3
    <3>2. (phase \in {"next", "reading"} => Gets) /\ (phase = "done" => Has)
      BY <2>1 DEF OwnCollection
    <3>3. CASE t # cur
      <4>1. Same(cur)
        BY <1>6, <2>1, <3>3, EndEffect
      <4> QED
        BY <2>1, <3>1, <3>2, <4>1 DEF Same, Waiting, LeadsOn
    <3>4. CASE t = cur
      <4>1. stream'[cur].waiting = <<>> /\ ~Accepts(stream'[cur])
        BY <1>6, <3>4, EndEffect
      <4>2. stream'[cur].state # "errored" =>
              stream'[cur].queue = stream[cur].queue /\ stream[cur].state # "errored"
        BY <1>6, <3>4, EndEffect
      <4>3. phase \in {"next", "reading"} => LeadsOn(chunks, cur)'
        BY <2>1, <3>2, <4>2 DEF LeadsOn
      <4> QED
        BY <2>1, <3>1, <3>2, <4>1, <4>3 DEF Waiting
    <3> QED
      BY <3>3, <3>4
  <2> QED
    BY <2>2, <2>3
<1>18. ASSUME NEW t \in Tasks, CancelBody(t)
       PROVE  (phase \in {"next", "reading"} => Gets)' /\ (phase = "done" => Has)'
  <2>1. /\ cur \in Tasks /\ own[cur]
        /\ UNCHANGED <<cur, own, chunks, due, helper, phase>>
    BY <1>1, <1>18 DEF CancelBody, Polled, execVars
  <2>2. (phase \in {"next", "reading"} => Gets) /\ (phase = "done" => Has)
    BY <2>1 DEF OwnCollection
  <2>3. CASE t # cur
    <3>1. Same(cur)
      BY <1>18, <2>1, <2>3, CancelEffect
    <3> QED
      BY <2>1, <2>2, <3>1 DEF Same, Waiting, LeadsOn
  <2>4. CASE t = cur
    <3>1. /\ stream'[cur].waiting = <<>> /\ ~Accepts(stream'[cur])
          /\ stream'[cur].queue = stream[cur].queue /\ stream[cur].state # "errored"
      BY <1>18, <2>4, CancelEffect
    <3>2. phase \in {"next", "reading"} => LeadsOn(chunks, cur)'
      BY <2>1, <2>2, <3>1 DEF LeadsOn
    <3> QED
      BY <2>1, <2>2, <3>1, <3>2 DEF Waiting
  <2> QED
    BY <2>3, <2>4
<1>7. CASE Read
  <2>1. cur \in Tasks /\ own[cur] /\ phase = "next" /\ UNCHANGED <<cur, own, due>>
    BY <1>1, <1>7 DEF Read
  <2>2. Gets
    BY <2>1 DEF OwnCollection
  <2>3. Reading = cur
    BY <2>2 DEF Reading
  <2> DEFINE s == stream[cur]
  <2>4. s \in Streams /\ due[cur] \in Seq(Chunks)
    BY <1>1, <2>1
  <2>5. CASE phase' = "failed"
    BY <2>5
  <2>6. CASE /\ phase' = "next" /\ s.queue # <<>> /\ s.state # "errored" /\ helper' = cur
             /\ stream'[cur].queue = Tail(s.queue) /\ stream'[cur].state = s.state
             /\ stream'[cur].waiting = <<>>
             /\ chunks' = chunks \o Kept(Head(s.queue))
    <3>1. Leads(chunks, s.queue, due[cur]) /\ s.queue \in Seq(Chunks)
      BY <2>2, <2>4, <2>6 DEF LeadsOn, Streams
    <3>2. Leads(chunks \o Kept(Head(s.queue)), Tail(s.queue), due[cur])
      BY <2>6, <3>1, LeadsOnward
    <3>3. LeadsOn(chunks, cur)'
      BY <2>1, <2>6, <3>2 DEF LeadsOn
    <3> QED
      BY <2>1, <2>6, <3>3 DEF Waiting
  <2>7. CASE /\ phase' = "reading" /\ s.queue = <<>> /\ helper' = cur
             /\ stream'[cur].queue = <<>> /\ stream'[cur].state = s.state
             /\ stream'[cur].waiting = Append(s.waiting, cur) /\ chunks' = chunks
    <3>1. LeadsOn(chunks, cur)'
      BY <2>1, <2>2, <2>7 DEF LeadsOn
    <3>2. s.waiting \in Seq(Readers) /\ cur \in Readers /\ \A i \in DOMAIN s.waiting : s.waiting[i] = cur
      BY <2>1, <2>2, <2>4 DEF Streams, Waiting, Readers
    <3>3. \A i \in DOMAIN Append(s.waiting, cur) : Append(s.waiting, cur)[i] = cur
      <4>1. ASSUME NEW i \in DOMAIN Append(s.waiting, cur), i # Len(s.waiting) + 1
            PROVE  i \in DOMAIN s.waiting /\ Append(s.waiting, cur)[i] = s.waiting[i]
        BY <2>1, <3>2, <4>1
      <4>2. Append(s.waiting, cur)[Len(s.waiting) + 1] = cur
        BY <2>1, <3>2
      <4> QED
        BY <3>2, <4>1, <4>2
    <3> QED
      BY <2>1, <2>7, <3>1, <3>3 DEF Waiting
  <2>8. CASE /\ phase' = "done" /\ s.queue = <<>> /\ s.state \in {"closing", "closed"}
             /\ stream'[cur].state = "closed" /\ chunks' = chunks
    <3>1. chunks = due[cur]
      BY <1>3, <2>1, <2>2, <2>8
    <3> QED
      BY <2>1, <2>8, <3>1 DEF Accepts
  <2> HIDE DEF s, Gets, Has
  <2> QED
    BY <1>7, <2>1, <2>3, <2>5, <2>6, <2>7, <2>8, ReadEffect DEF s
<1>8. ASSUME NEW t \in Tasks, CollectBegins(t)
      PROVE  (phase \in {"next", "reading"} => Gets)' /\ (phase = "done" => Has)'
  <2>1. /\ cur = t /\ helper = NoTask /\ phase' = "next" /\ chunks' = <<>>
        /\ UNCHANGED <<cur, helper, stream, due>> /\ NotBegun(t)
    BY <1>8 DEF CollectBegins, streamVars, CollectTypeOK, NotBegun, ServedOnce
  <2>2. Waiting(t) = <<>> /\ LeadsOn(<<>>, t)
    BY <2>1 DEF UnreadBefore, ReadsGoThroughTheGlobal
  <2> QED
    BY <2>1, <2>2 DEF Waiting, LeadsOn
<1>9. ASSUME NEW t \in Tasks, Respond(t) \/ Fail(t) \/ RespondBuffered(t) \/ HostDrop(t) PROVE FALSE
  BY <1>9 DEF Respond, Fail, RespondBuffered, HostDrop, ExecEnds
<1>10. ASSUME NEW t \in Tasks, Dispatch(t)
       PROVE  (phase \in {"next", "reading"} => Gets)' /\ (phase = "done" => Has)'
  BY <1>10 DEF Dispatch
<1>11. ASSUME NEW t \in Tasks,
              ScriptLocks(t) \/ Receive(t) \/ SeesEnd(t) \/ DropBody(t) \/ Send(t) \/ SenderStops(t)
       PROVE  UNCHANGED <<cur, own, helper, chunks, stream, due, phase>>
  BY <1>11 DEF ScriptLocks, Receive, SeesEnd, DropBody, Send, SenderStops, execVars, streamVars
<1>12. CASE ReadLocked \/ ReadPullThrows
  <2>1. phase' = "failed"
    BY <1>12 DEF ReadLocked, ReadPullThrows
  <2> QED
    BY <2>1
<1>13. CASE UNCHANGED vars
  BY <1>4, <1>13 DEF vars, execVars, streamVars
<1> HIDE DEF Gets, Has, CollectInv
<1>14. CASE SourceStep
  BY <1>4, <1>5, <1>6, <1>11, <1>14, <1>18 DEF SourceStep
<1>15. CASE LoopStep
  BY <1>7, <1>9, <1>12, <1>15 DEF LoopStep
<1>16. CASE HostStep
  BY <1>4, <1>8, <1>9, <1>10, <1>11, <1>16 DEF HostStep
<1>17. CASE SenderStep
  BY <1>4, <1>11, <1>17 DEF SenderStep
<1> QED
  BY <1>13, <1>14, <1>15, <1>16, <1>17 DEF Next

\* A sender and a channel are made when the response goes out, not before.
LEMMA UnsentStep == CollectInv /\ [Next]_vars => UnsentHasNothing'
<1> SUFFICES ASSUME CollectInv, [Next]_vars, NEW u \in Tasks
             PROVE  /\ outcome'[u] # "sent" => rx'[u] = "none"
                    /\ rx'[u] = "none" => unsent'[u] = <<>> /\ channel'[u] = <<>> /\ body'[u] = <<>>
  BY DEF UnsentHasNothing
<1> USE TasksAssumption DEF CollectInv
<1> DEFINE Goal == /\ outcome'[u] # "sent" => rx'[u] = "none"
                   /\ rx'[u] = "none" => unsent'[u] = <<>> /\ channel'[u] = <<>> /\ body'[u] = <<>>
<1>1. /\ outcome[u] # "sent" => rx[u] = "none"
      /\ rx[u] = "none" => unsent[u] = <<>> /\ channel[u] = <<>> /\ body[u] = <<>>
      /\ unsent \in [Tasks -> Seq(Chunks)] /\ channel \in [Tasks -> Seq(Chunks)]
      /\ body \in [Tasks -> Seq(Chunks)] /\ DOMAIN rx = Tasks /\ DOMAIN outcome = Tasks
      /\ cur \in Tasks => outcome[cur] = "none"
  BY DEF UnsentHasNothing, CollectTypeOK, ServedOnce
<1>2. UNCHANGED <<outcome, unsent, channel, rx, body>> => Goal
  BY <1>1
<1>3. ASSUME NEW t \in Tasks, Fail(t) \/ HostDrop(t) PROVE Goal
  BY <1>1, <1>3 DEF Fail, HostDrop, ExecEnds, bodyVars
<1>4. ASSUME NEW t \in Tasks, Respond(t) \/ RespondBuffered(t) PROVE Goal
  BY <1>1, <1>4 DEF Respond, RespondBuffered, ExecEnds, bodyVars
<1>5. ASSUME NEW t \in Tasks,
             Send(t) \/ SenderStops(t) \/ Receive(t) \/ SeesEnd(t) \/ DropBody(t)
      PROVE  Goal
  <2>1. /\ rx[t] # "none" /\ rx'[t] # "none" /\ UNCHANGED outcome
        /\ \A v \in Tasks \ {t} : /\ rx'[v] = rx[v] /\ unsent'[v] = unsent[v]
                                  /\ channel'[v] = channel[v] /\ body'[v] = body[v]
    BY <1>1, <1>5 DEF Send, SenderStops, Receive, SeesEnd, DropBody, execVars
  <2> QED
    BY <1>1, <2>1
<1>6. ASSUME NEW t \in Tasks,
             \/ \E b \in BOOLEAN : Enqueue(t, b)
             \/ CloseBody(t) \/ ErrorBody(t) \/ CancelBody(t) \/ ScriptLocks(t) \/ Dispatch(t)
             \/ CollectBegins(t)
      PROVE  Goal
  BY <1>2, <1>6 DEF Enqueue, CloseBody, ErrorBody, Settle, CancelBody, ScriptLocks, Dispatch,
                    CollectBegins, execVars, bodyVars
<1>7. CASE Read \/ ReadPullThrows \/ ReadLocked \/ UNCHANGED vars
  BY <1>2, <1>7 DEF Read, ReadPullThrows, ReadLocked, vars, execVars, bodyVars
<1> HIDE DEF CollectInv
<1>8. CASE SourceStep
  BY <1>6, <1>8 DEF SourceStep
<1>9. CASE LoopStep
  BY <1>3, <1>4, <1>7, <1>9 DEF LoopStep
<1>10. CASE HostStep
  BY <1>3, <1>4, <1>5, <1>6, <1>10 DEF HostStep
<1>11. CASE SenderStep
  BY <1>5, <1>11 DEF SenderStep
<1> QED
  BY <1>7, <1>8, <1>9, <1>10, <1>11 DEF Next

-----------------------------------------------------------------------------
(* The way of the chunks to the host.                                      *)

\* What follows a piece goes on with its first chunk.
LEMMA FollowsOn ==
  ASSUME NEW s \in Seq(Chunks), NEW r \in Seq(Chunks), NEW d \in Seq(Chunks), NEW n \in Nat,
         Follows(s, n, d), Follows(r, n + Len(s), d), r # <<>>
  PROVE  /\ Follows(Append(s, Head(r)), n, d)
         /\ Follows(Tail(r), n + Len(s) + 1, d)
         /\ Append(s, Head(r)) \in Seq(Chunks) /\ Tail(r) \in Seq(Chunks)
         /\ Len(Append(s, Head(r))) = Len(s) + 1 /\ Len(Tail(r)) = Len(r) - 1
<1> DEFINE a == Append(s, Head(r))
           b == Tail(r)
<1>1. /\ Len(s) \in Nat /\ Len(r) \in Nat /\ Len(r) > 0 /\ Len(d) \in Nat
      /\ a \in Seq(Chunks) /\ b \in Seq(Chunks) /\ Head(r) = r[1]
      /\ Len(a) = Len(s) + 1 /\ Len(b) = Len(r) - 1
      /\ \A i \in 1 .. Len(s) : a[i] = s[i]
      /\ a[Len(s) + 1] = r[1]
      /\ \A i \in 1 .. Len(b) : b[i] = r[i + 1]
  OBVIOUS
<1> HIDE DEF a, b
<1>2. ASSUME NEW i \in 1 .. Len(a) PROVE n + i <= Len(d) /\ a[i] = d[n + i]
  <2>1. CASE i \in 1 .. Len(s)
    BY <1>1, <2>1 DEF Follows
  <2>2. CASE i = Len(s) + 1
    <3>1. PICK j \in 1 .. Len(r) : j = 1 /\ n + Len(s) + j = n + i
      BY <1>1, <2>2
    <3>2. n + Len(s) + j <= Len(d) /\ r[j] = d[n + Len(s) + j]
      BY Zenon, <3>1 DEF Follows
    <3> QED
      BY <1>1, <2>2, <3>1, <3>2
  <2> QED
    BY <1>1, <2>1, <2>2
<1>3. ASSUME NEW i \in 1 .. Len(b)
      PROVE  n + Len(s) + 1 + i <= Len(d) /\ b[i] = d[n + Len(s) + 1 + i]
  <2>1. PICK j \in 1 .. Len(r) : j = i + 1 /\ n + Len(s) + j = n + Len(s) + 1 + i
    BY <1>1
  <2>2. n + Len(s) + j <= Len(d) /\ r[j] = d[n + Len(s) + j]
    BY Zenon, <2>1 DEF Follows
  <2> QED
    BY <1>1, <2>1, <2>2
<1>4. Follows(a, n, d) /\ Follows(b, n + Len(s) + 1, d)
  BY <1>2, <1>3 DEF Follows
<1> QED
  BY <1>1, <1>4 DEF a, b

\* A stream that takes no chunks any more takes none later.
LEMMA StaysShut ==
  ASSUME CollectInv, [Next]_vars, NEW u \in Tasks, ~Accepts(stream[u]), ~RespondBuffered(u)
  PROVE  ~Accepts(stream'[u]) /\ due'[u] = due[u]
<1> USE DEF CollectInv
<1>1. stream \in [Tasks -> Streams] /\ due \in [Tasks -> Seq(Chunks)] /\ cur \in Tasks \cup {NoTask}
  BY DEF CollectTypeOK, Streams, Readers
<1>2. ASSUME NEW t \in Tasks, NEW b \in BOOLEAN, Enqueue(t, b)
      PROVE  ~Accepts(stream'[u]) /\ due'[u] = due[u]
  <2>1. u # t
    BY <1>2 DEF Enqueue
  <2> QED
    BY <1>2, <2>1, EnqueueEffect DEF Same
<1>3. ASSUME NEW t \in Tasks, CloseBody(t) \/ ErrorBody(t)
      PROVE  ~Accepts(stream'[u]) /\ due'[u] = due[u]
  <2>1. due' = due
    BY <1>3 DEF CloseBody, ErrorBody, Settle
  <2> QED
    BY <1>3, <2>1, EndEffect DEF Same
<1>4. CASE Read
  <2>1. due' = due /\ cur \in Tasks
    BY <1>1, <1>4 DEF Read, CollectTypeOK
  <2>2. CASE u # Reading
    BY <1>4, <2>1, <2>2, ReadEffect DEF Same
  <2>3. CASE u = Reading
    <3>1. stream'[u].state \in {stream[u].state, "closed"}
      BY <1>4, <2>1, <2>3, ReadEffect
    <3> QED
      BY <2>1, <3>1 DEF Accepts
  <2> QED
    BY <2>2, <2>3
<1>8. ASSUME NEW t \in Tasks, CancelBody(t) PROVE ~Accepts(stream'[u]) /\ due'[u] = due[u]
  <2>1. due' = due
    BY <1>8 DEF CancelBody
  <2> QED
    BY <1>8, <2>1, CancelEffect DEF Same
<1>9. CASE ReadPullThrows
  <2>1. due' = due /\ cur \in Tasks
    BY <1>1, <1>9 DEF ReadPullThrows, CollectTypeOK
  <2>2. stream'[Reading].state = stream[Reading].state /\ \A t \in Tasks \ {Reading} : Same(t)
    BY <1>9, <2>1, ThrowEffect
  <2> QED
    BY <2>1, <2>2 DEF Same, Accepts
<1>5. ASSUME NEW t \in Tasks, RespondBuffered(t) PROVE ~Accepts(stream'[u]) /\ due'[u] = due[u]
  <2>1. u # t /\ due'[u] = due[u]
    BY <1>1, <1>5 DEF RespondBuffered
  <2> QED
    BY <1>5, <2>1, BufferedEffect DEF Same
<1>6. ASSUME NEW t \in Tasks,
             \/ ScriptLocks(t) \/ Respond(t) \/ Fail(t) \/ Dispatch(t) \/ CollectBegins(t)
             \/ HostDrop(t) \/ Receive(t) \/ SeesEnd(t) \/ DropBody(t) \/ Send(t) \/ SenderStops(t)
      PROVE  UNCHANGED <<stream, due>>
  BY <1>6 DEF ScriptLocks, Respond, Fail, Dispatch, CollectBegins, HostDrop, Receive, SeesEnd,
              DropBody, Send, SenderStops, streamVars
<1>7. ReadLocked \/ UNCHANGED vars => UNCHANGED <<stream, due>>
  BY DEF ReadLocked, vars, streamVars
<1> HIDE DEF CollectInv
<1> QED
  BY <1>2, <1>3, <1>4, <1>5, <1>6, <1>7, <1>8, <1>9
     DEF Next, SourceStep, LoopStep, HostStep, SenderStep

\* Chunks reach the channel and the host in the order in which the stream got them.
LEMMA DeliveredStep == CollectInv /\ [Next]_vars => DeliveredInOrder'
<1> SUFFICES ASSUME CollectInv, [Next]_vars, NEW u \in Tasks, own'[u], rx'[u] # "none"
             PROVE  Delivered(u)'
  BY DEF DeliveredInOrder
<1> USE TasksAssumption DEF CollectInv
<1>1. /\ unsent \in [Tasks -> Seq(Chunks)] /\ channel \in [Tasks -> Seq(Chunks)]
      /\ body \in [Tasks -> Seq(Chunks)] /\ due \in [Tasks -> Seq(Chunks)] /\ DOMAIN rx = Tasks
      /\ DOMAIN own = Tasks /\ chunks \in Seq(Chunks) /\ stream \in [Tasks -> Streams]
  BY DEF CollectTypeOK, Streams, Readers
<1>2. ASSUME NEW t \in Tasks, RespondBuffered(t), u = t PROVE Delivered(u)'
  <2> DEFINE x == <<t, MaxChunks + 1, TRUE>>
  <2>1. rx[t] = "none" /\ body[t] = <<>> /\ channel[t] = <<>>
    BY <1>2 DEF RespondBuffered, ExecEnds, ServedOnce, UnsentHasNothing
  <2>2. /\ rx'[t] = "open" /\ body'[t] = <<>> /\ channel'[t] = <<>> /\ unsent'[t] = <<x>>
        /\ due'[t] = <<x>>
    BY <1>1, <1>2, <2>1 DEF RespondBuffered
  <2>3. ~Accepts(stream'[t])
    BY <1>1, <1>2 DEF RespondBuffered, Accepts, Streams
  <2>4. Follows(<<>>, 0, <<x>>) /\ Follows(<<x>>, 0, <<x>>)
    BY DEF Follows
  <2> QED
    BY <1>2, <2>2, <2>3, <2>4 DEF Delivered
<1>3. ASSUME NEW t \in Tasks, Respond(t), u = t PROVE Delivered(u)'
  <2>1. rx[t] = "none" /\ body[t] = <<>> /\ channel[t] = <<>>
    BY <1>3 DEF Respond, ExecEnds, ServedOnce, UnsentHasNothing
  <2>2. chunks = due[t] /\ ~Accepts(stream[t])
    BY <1>3 DEF Respond, ExecEnds, OwnCollection
  <2>3. /\ rx'[t] = "open" /\ body'[t] = <<>> /\ channel'[t] = <<>> /\ unsent'[t] = due[t]
        /\ UNCHANGED <<stream, due>>
    BY <1>1, <1>3, <2>1, <2>2 DEF Respond, streamVars
  <2>4. Follows(<<>>, 0, due[t]) /\ Follows(due[t], 0, due[t])
    BY <1>1 DEF Follows
  <2> QED
    BY <1>1, <1>3, <2>2, <2>3, <2>4 DEF Delivered
<1>4. ASSUME own'[u] = own[u], rx'[u] = rx[u], unsent'[u] = unsent[u], channel'[u] = channel[u],
             body'[u] = body[u], ~RespondBuffered(u)
      PROVE  Delivered(u)'
  <2>1. Delivered(u)
    BY <1>4 DEF DeliveredInOrder
  <2>2. ~Accepts(stream'[u]) /\ due'[u] = due[u]
    BY <1>4, <2>1, StaysShut DEF Delivered
  <2> QED
    BY <1>4, <2>1, <2>2 DEF Delivered
<1>5. ASSUME NEW t \in Tasks, Respond(t) \/ RespondBuffered(t), u # t PROVE Delivered(u)'
  <2>1. /\ own'[u] = own[u] /\ rx'[u] = rx[u] /\ unsent'[u] = unsent[u] /\ channel'[u] = channel[u]
        /\ body'[u] = body[u] /\ ~RespondBuffered(u)
    BY <1>1, <1>5 DEF Respond, RespondBuffered, ExecEnds
  <2> QED
    BY <1>4, <2>1
<1>6. ASSUME NEW t \in Tasks, CollectBegins(t) PROVE Delivered(u)'
  <2>1. /\ UNCHANGED bodyVars /\ cur = t /\ ~RespondBuffered(u)
        /\ \A v \in Tasks \ {t} : own'[v] = own[v]
    BY <1>1, <1>6 DEF CollectBegins, RespondBuffered, ExecEnds
  <2>2. rx[t] = "none"
    BY <2>1 DEF ServedOnce, UnsentHasNothing
  <2> QED
    BY <1>4, <2>1, <2>2 DEF bodyVars
<1>7. ASSUME NEW t \in Tasks,
             Send(t) \/ SenderStops(t) \/ Receive(t) \/ SeesEnd(t) \/ DropBody(t), u # t
      PROVE  Delivered(u)'
  <2>1. /\ own'[u] = own[u] /\ rx'[u] = rx[u] /\ unsent'[u] = unsent[u] /\ channel'[u] = channel[u]
        /\ body'[u] = body[u] /\ cur' = cur
    BY <1>1, <1>7 DEF Send, SenderStops, Receive, SeesEnd, DropBody, execVars
  <2>2. ~RespondBuffered(u)
    BY <2>1 DEF RespondBuffered, ExecEnds
  <2> QED
    BY <1>4, <2>1, <2>2
<1>8. ASSUME NEW t \in Tasks,
             Send(t) \/ SenderStops(t) \/ Receive(t) \/ SeesEnd(t) \/ DropBody(t), u = t
      PROVE  Delivered(u)'
  <2>1. UNCHANGED <<stream, due, own>> /\ rx[u] # "none"
    BY <1>8 DEF Send, SenderStops, Receive, SeesEnd, DropBody, execVars, streamVars
  <2>2. Delivered(u)
    BY <2>1 DEF DeliveredInOrder
  <2> DEFINE b == body[u]
             c == channel[u]
             s == unsent[u]
             d == due[u]
  <2>3. b \in Seq(Chunks) /\ c \in Seq(Chunks) /\ s \in Seq(Chunks) /\ d \in Seq(Chunks)
    BY <1>1
  <2>4. ~Accepts(stream[u]) /\ Follows(b, 0, d) /\ due'[u] = d /\ stream'[u] = stream[u]
    BY <2>1, <2>2 DEF Delivered
  <2>5. rx[u] = "open" => /\ Follows(c, Len(b), d) /\ Follows(s, Len(b) + Len(c), d)
                          /\ Len(b) + Len(c) + Len(s) = Len(d)
    BY <2>2 DEF Delivered
  <2>6. CASE Send(u)
    <3>1. /\ rx'[u] = "open" /\ body'[u] = b /\ s # <<>> /\ channel'[u] = Append(c, Head(s))
          /\ unsent'[u] = Tail(s) /\ rx[u] = "open"
      BY <1>1, <2>6 DEF Send, NextOut
    <3>2. Len(b) \in Nat /\ Len(c) \in Nat /\ Len(s) \in Nat /\ Len(d) \in Nat
      BY <2>3
    <3> HIDE DEF b, c, s, d
    <3>3. /\ Follows(Append(c, Head(s)), Len(b), d) /\ Follows(Tail(s), Len(b) + Len(c) + 1, d)
          /\ Len(Append(c, Head(s))) = Len(c) + 1 /\ Len(Tail(s)) = Len(s) - 1
      BY <2>3, <2>5, <3>1, <3>2, FollowsOn
    <3>4. Len(b) + Len(c) + 1 = Len(b) + Len(channel'[u])
      BY <3>1, <3>2, <3>3
    <3>5. Len(b) + Len(channel'[u]) + Len(unsent'[u]) = Len(d)
      BY <2>5, <3>1, <3>2, <3>3
    <3>6. Follows(channel'[u], Len(b), d) /\ Follows(unsent'[u], Len(b) + Len(channel'[u]), d)
      BY <3>1, <3>3, <3>4
    <3> QED
      BY <2>4, <3>1, <3>5, <3>6 DEF Delivered
  <2>7. CASE Receive(u)
    <3>1. /\ rx'[u] = "open" /\ body'[u] = Append(b, Head(c)) /\ c # <<>> /\ channel'[u] = Tail(c)
          /\ unsent'[u] = s /\ rx[u] = "open"
      BY <1>1, <2>7 DEF Receive
    <3>2. /\ Len(b) \in Nat /\ Len(c) \in Nat /\ Len(s) \in Nat /\ Len(d) \in Nat
          /\ 0 + Len(b) = Len(b) /\ Len(b) + 1 = 0 + Len(b) + 1
      BY <2>3
    <3> HIDE DEF b, c, s, d
    <3>3. /\ Follows(Append(b, Head(c)), 0, d) /\ Follows(Tail(c), Len(b) + 1, d)
          /\ Len(Append(b, Head(c))) = Len(b) + 1 /\ Len(Tail(c)) = Len(c) - 1
      BY <2>3, <2>4, <2>5, <3>1, <3>2, FollowsOn
    <3>4. Len(body'[u]) + Len(channel'[u]) = Len(b) + Len(c) /\ Len(body'[u]) = Len(b) + 1
      BY <3>1, <3>2, <3>3
    <3>5. Len(body'[u]) + Len(channel'[u]) + Len(unsent'[u]) = Len(d)
      BY <2>5, <3>1, <3>4
    <3>6. /\ Follows(body'[u], 0, d) /\ Follows(channel'[u], Len(body'[u]), d)
          /\ Follows(unsent'[u], Len(body'[u]) + Len(channel'[u]), d)
      BY <2>5, <3>1, <3>3, <3>4
    <3> QED
      BY <2>4, <3>1, <3>5, <3>6 DEF Delivered
  <2>8. CASE SenderStops(u) \/ DropBody(u)
    <3>1. rx'[u] = "dropped" /\ body'[u] = b
      BY <1>1, <2>8 DEF SenderStops, DropBody
    <3> QED
      BY <2>4, <3>1 DEF Delivered
  <2>9. CASE SeesEnd(u)
    <3>1. rx[u] = "open" /\ rx'[u] = "ended" /\ body'[u] = b /\ c = <<>> /\ s = <<>>
      BY <1>1, <2>9 DEF SeesEnd
    <3>2. Len(b) = Len(d)
      BY <2>3, <2>5, <3>1
    <3> QED
      BY <2>4, <3>1, <3>2 DEF Delivered
  <2> QED
    BY <1>8, <2>6, <2>7, <2>8, <2>9
<1>9. ASSUME UNCHANGED <<own, bodyVars>>, ~RespondBuffered(u) PROVE Delivered(u)'
  BY <1>4, <1>9 DEF bodyVars
<1>10. ASSUME NEW t \in Tasks,
              \/ \E b \in BOOLEAN : Enqueue(t, b)
              \/ CloseBody(t) \/ ErrorBody(t) \/ CancelBody(t) \/ ScriptLocks(t)
       PROVE  UNCHANGED <<own, bodyVars>> /\ ~RespondBuffered(u)
  BY <1>10
     DEF Enqueue, CloseBody, ErrorBody, Settle, CancelBody, ScriptLocks, execVars, RespondBuffered, ExecEnds
<1>11. ASSUME NEW t \in Tasks, Dispatch(t) PROVE UNCHANGED <<own, bodyVars>> /\ ~RespondBuffered(u)
  BY <1>11 DEF Dispatch, RespondBuffered, ExecEnds
<1>12. ASSUME NEW t \in Tasks, Fail(t) \/ HostDrop(t)
       PROVE  UNCHANGED <<own, bodyVars>> /\ ~RespondBuffered(u)
  <2>1. UNCHANGED <<own, bodyVars>> /\ (u = cur => outcome'[u] # "sent")
    BY <1>12 DEF Fail, HostDrop, ExecEnds, CollectTypeOK
  <2> QED
    BY <2>1 DEF RespondBuffered, ExecEnds, CollectTypeOK
<1>13. Read \/ ReadPullThrows \/ ReadLocked \/ UNCHANGED vars
         => UNCHANGED <<own, bodyVars>> /\ ~RespondBuffered(u)
  BY DEF Read, ReadPullThrows, ReadLocked, vars, execVars, RespondBuffered, ExecEnds
<1> HIDE DEF CollectInv
<1>14. CASE SourceStep
  BY <1>9, <1>10, <1>14 DEF SourceStep
<1>15. CASE LoopStep
  BY <1>3, <1>5, <1>9, <1>12, <1>13, <1>15 DEF LoopStep
<1>16. CASE HostStep
  BY <1>2, <1>5, <1>6, <1>7, <1>8, <1>9, <1>11, <1>12, <1>16 DEF HostStep
<1>17. CASE SenderStep
  BY <1>7, <1>8, <1>17 DEF SenderStep
<1> QED
  BY <1>9, <1>13, <1>14, <1>15, <1>16, <1>17 DEF Next

-----------------------------------------------------------------------------
(* The types.                                                              *)

\* The read of the collection at hand is the one that waits.
Waits == cur # NoTask /\ \E t \in Tasks : cur \in ToSet(stream[t].waiting)

ReadWaits == phase = "reading" <=> cur \in forgotten \/ Waits

\* A read waits as long as the collection does.
LEMMA ReadWaitsStep == CollectInv /\ [Next]_vars => ReadWaits'
<1> SUFFICES ASSUME CollectInv, [Next]_vars PROVE ReadWaits'
  OBVIOUS
<1> USE TasksAssumption DEF CollectInv
<1>1. /\ stream \in [Tasks -> Streams] /\ cur \in Tasks \cup {NoTask} /\ ReadWaits
      /\ forgotten \subseteq Tasks /\ \A t \in Tasks : stream[t].waiting \in Seq(Readers)
  BY DEF CollectTypeOK, Streams, Readers, ReadWaits, Waits
<1>2. ASSUME NEW t \in Tasks, cur \in ToSet(stream[t].waiting), NEW u \in Tasks, u # t
      PROVE  cur \notin ToSet(stream[u].waiting)
  BY <1>2 DEF ToSet, ReadsGoThroughTheGlobal, Waiting
<1>3. ASSUME NEW t \in Tasks, cur # NoTask, cur \in ToSet(stream[t].waiting)
      PROVE  cur \notin forgotten /\ phase = "reading"
  <2>1. Waiting(t) # <<>>
    BY <1>3 DEF ToSet, Waiting
  <2>2. phase = "reading"
    BY <1>1, <1>3 DEF ReadWaits, Waits
  <2> QED
    BY <2>1, <2>2 DEF ForgottenAskNothing
<1>4. ASSUME NEW t \in Tasks, NEW b \in BOOLEAN, Enqueue(t, b) PROVE ReadWaits'
  <2> DEFINE w == stream[t].waiting
  <2>1. /\ cur \in Tasks /\ UNCHANGED <<cur, forgotten>> /\ cur # NoTask /\ \A u \in Tasks \ {t} : Same(u)
        /\ w \in Seq(Readers)
    BY <1>1, <1>4, EnqueueEffect DEF Enqueue, Polled
  <2>2. CASE w = <<>>
    <3>1. phase' = phase /\ stream'[t].waiting = w
      BY <1>4, <2>2, EnqueueEffect DEF Waiting
    <3> QED
      BY <1>1, <2>1, <3>1 DEF ReadWaits, Waits, Same
  <2>3. CASE w # <<>> /\ Head(w) = cur
    <3>1. phase' = "next" /\ stream'[t].waiting = Tail(w)
      BY <1>4, <2>3, EnqueueEffect DEF Waiting, Enqueue
    <3>2. 1 \in DOMAIN w /\ w[1] = cur
      BY <2>1, <2>3
    <3>3. Len(w) = 1 /\ cur \in ToSet(w)
      BY <2>1, <3>2 DEF StaleReadsFirst, Waiting, ToSet
    <3>4. Tail(w) = <<>>
      <4>1. Tail(w) \in Seq(Readers) /\ Len(Tail(w)) = 0
        BY <2>1, <2>3, <3>3
      <4> QED
        BY <4>1, EmptySeq
    <3>5. cur \notin ToSet(<<>>)
      BY DEF ToSet
    <3> QED
      BY <1>2, <1>3, <2>1, <3>1, <3>3, <3>4, <3>5 DEF ReadWaits, Waits, Same
  <2>4. CASE w # <<>> /\ Head(w) # cur
    <3>1. phase' = phase /\ stream'[t].waiting = Tail(w)
      BY <1>4, <2>4, EnqueueEffect DEF Waiting, Enqueue
    <3>2. cur \in ToSet(Tail(w)) => cur \in ToSet(w)
      <4>1. ASSUME NEW i \in DOMAIN Tail(w) PROVE Tail(w)[i] = w[i + 1] /\ i + 1 \in DOMAIN w
        BY <2>1, <2>4
      <4> QED
        BY <4>1 DEF ToSet
    <3>3. ASSUME cur \in ToSet(w) PROVE cur \in ToSet(Tail(w))
      <4>1. PICK i \in DOMAIN w : w[i] = cur
        BY <3>3 DEF ToSet
      <4>2. i # 1 /\ i \in 1 .. Len(w)
        BY <2>1, <2>4, <4>1
      <4>3. i - 1 \in DOMAIN Tail(w) /\ Tail(w)[i - 1] = w[i]
        <5>1. Len(Tail(w)) = Len(w) - 1 /\ Tail(w) \in Seq(Readers) /\ Len(w) \in Nat
          BY <2>1, <2>4
        <5>2. i - 1 \in 1 .. Len(Tail(w)) /\ (i - 1) + 1 = i
          BY <4>2, <5>1
        <5>3. Tail(w)[i - 1] = w[(i - 1) + 1]
          BY <2>1, <2>4, <5>2
        <5> QED
          BY <5>1, <5>2, <5>3
      <4> QED
        BY <4>1, <4>3 DEF ToSet
    <3> QED
      BY <1>1, <2>1, <3>1, <3>2, <3>3 DEF ReadWaits, Waits, Same
  <2> QED
    BY <2>2, <2>3, <2>4
<1>5. ASSUME NEW t \in Tasks, CloseBody(t) \/ ErrorBody(t) PROVE ReadWaits'
  <2>1. stream'[t].waiting = <<>> /\ \A u \in Tasks \ {t} : Same(u)
    BY <1>5, EndEffect
  <2>2. /\ UNCHANGED <<cur, forgotten>> /\ cur # NoTask
        /\ IF cur \in ToSet(stream[t].waiting) THEN phase' \in {"done", "failed"}
           ELSE phase' = phase
    BY <1>5 DEF CloseBody, ErrorBody, Settle, Polled, Waiting
  <2>3. cur \notin ToSet(<<>>)
    BY DEF ToSet
  <2>4. CASE cur \in ToSet(stream[t].waiting)
    BY <1>2, <1>3, <2>1, <2>2, <2>3, <2>4 DEF ReadWaits, Waits, Same
  <2>5. CASE cur \notin ToSet(stream[t].waiting)
    BY <1>1, <2>1, <2>2, <2>3, <2>5 DEF ReadWaits, Waits, Same
  <2> QED
    BY <2>4, <2>5
<1>13. ASSUME NEW t \in Tasks, CancelBody(t) PROVE ReadWaits'
  <2>1. stream'[t].waiting = <<>> /\ \A u \in Tasks \ {t} : Same(u)
    BY <1>13, CancelEffect
  <2>2. /\ UNCHANGED <<cur, phase>> /\ cur # NoTask
        /\ forgotten' = forgotten \cup (ToSet(stream[t].waiting) \ {NoTask})
    BY <1>13 DEF CancelBody, Polled, execVars, Asking, Waiting
  <2>3. cur \notin ToSet(<<>>)
    BY DEF ToSet
  <2>4. CASE cur \in ToSet(stream[t].waiting)
    BY <1>3, <2>2, <2>4 DEF ReadWaits
  <2>5. CASE cur \notin ToSet(stream[t].waiting)
    BY <1>1, <2>1, <2>2, <2>3, <2>5 DEF ReadWaits, Waits, Same
  <2> QED
    BY <2>4, <2>5
<1>14. CASE ReadPullThrows
  <2> DEFINE w == stream[Reading].waiting
  <2>1. cur \in Tasks /\ phase = "next" /\ UNCHANGED <<cur, forgotten>>
    BY <1>14 DEF ReadPullThrows, CollectTypeOK
  <2>2. cur \notin forgotten /\ \A u \in Tasks : cur \notin ToSet(stream[u].waiting)
    BY <1>1, <2>1 DEF ReadWaits, Waits
  <2>3. /\ Reading \in Tasks /\ \A u \in Tasks \ {Reading} : Same(u)
        /\ phase' = "failed" /\ stream'[Reading].waiting = Append(w, NoTask)
    BY <1>14, <2>1, ThrowEffect
  <2>4. cur \notin ToSet(Append(w, NoTask))
    <3>1. w \in Seq(Readers) /\ cur \notin ToSet(w) /\ cur # NoTask
      BY <1>1, <2>1, <2>2, <2>3
    <3>2. ASSUME NEW i \in DOMAIN Append(w, NoTask) PROVE Append(w, NoTask)[i] # cur
      BY <3>1, <3>2 DEF ToSet
    <3> QED
      BY <3>2 DEF ToSet
  <2> QED
    BY <2>1, <2>2, <2>3, <2>4 DEF ReadWaits, Waits, Same
<1>6. CASE Read
  <2>1. cur \in Tasks /\ phase = "next" /\ UNCHANGED <<cur, forgotten>>
    BY <1>6 DEF Read, CollectTypeOK
  <2>2. cur \notin forgotten /\ \A u \in Tasks : cur \notin ToSet(stream[u].waiting)
    BY <1>1, <2>1 DEF ReadWaits, Waits
  <2>3. Reading \in Tasks /\ \A u \in Tasks \ {Reading} : Same(u)
    BY <1>6, <2>1, ReadEffect
  <2>4. CASE phase' = "reading"
    <3>1. stream'[Reading].waiting = Append(stream[Reading].waiting, cur)
      BY <1>6, <2>1, <2>4, ReadEffect
    <3>2. cur \in ToSet(Append(stream[Reading].waiting, cur))
      <4> DEFINE w == stream[Reading].waiting
      <4>1. w \in Seq(Readers)
        BY <1>1, <2>3
      <4>2. Len(w) + 1 \in DOMAIN Append(w, cur) /\ Append(w, cur)[Len(w) + 1] = cur
        BY <2>1, <4>1
      <4> QED
        BY <4>2 DEF ToSet
    <3> QED
      BY <2>1, <2>3, <2>4, <3>1, <3>2 DEF ReadWaits, Waits
  <2>5. CASE phase' # "reading"
    <3>1. stream'[Reading].waiting \in {<<>>, stream[Reading].waiting}
      BY <1>6, <2>1, <2>5, ReadEffect
    <3>2. cur \notin ToSet(<<>>)
      BY DEF ToSet
    <3> QED
      BY <2>1, <2>2, <2>3, <2>5, <3>1, <3>2 DEF ReadWaits, Waits, Same
  <2> QED
    BY <2>4, <2>5
<1>7. ASSUME NEW t \in Tasks, Dispatch(t) PROVE ReadWaits'
  <2>1. /\ cur = NoTask /\ cur' = t /\ outcome[t] = "none" /\ phase' = "handler"
        /\ UNCHANGED <<stream, forgotten>>
    BY <1>7 DEF Dispatch, streamVars
  <2>2. t \notin forgotten /\ \A u \in Tasks : t \notin ToSet(stream[u].waiting)
    BY <2>1 DEF StaleReadsFirst, ForgottenAskNothing, Waiting, ToSet
  <2> QED
    BY <2>1, <2>2 DEF ReadWaits, Waits
<1>8. ASSUME NEW t \in Tasks, Respond(t) \/ Fail(t) \/ HostDrop(t) PROVE ReadWaits'
  <2>1. cur' = NoTask /\ phase' = "idle" /\ UNCHANGED <<stream, forgotten>>
    BY <1>8 DEF Respond, Fail, HostDrop, ExecEnds, streamVars
  <2> QED
    BY <1>1, <2>1 DEF ReadWaits, Waits
<1>9. ASSUME NEW t \in Tasks, RespondBuffered(t) PROVE ReadWaits'
  <2>1. cur' = NoTask /\ phase' = "idle" /\ forgotten' = forgotten
    BY <1>9 DEF RespondBuffered, ExecEnds
  <2> QED
    BY <1>1, <2>1 DEF ReadWaits, Waits
<1>10. ASSUME NEW t \in Tasks,
              \/ ScriptLocks(t) \/ CollectBegins(t) \/ Receive(t) \/ SeesEnd(t) \/ DropBody(t)
              \/ Send(t) \/ SenderStops(t)
       PROVE  ReadWaits'
  <2>1. UNCHANGED <<cur, stream, forgotten>> /\ (phase' = "reading" <=> phase = "reading")
    BY <1>10
       DEF ScriptLocks, CollectBegins, Receive, SeesEnd, DropBody, Send, SenderStops, execVars,
                 streamVars
  <2> QED
    BY <1>1, <2>1 DEF ReadWaits, Waits
<1>11. CASE ReadLocked
  <2>1. UNCHANGED <<cur, stream, forgotten>> /\ (phase' = "reading" <=> phase = "reading")
    BY <1>11 DEF ReadLocked, streamVars
  <2> QED
    BY <1>1, <2>1 DEF ReadWaits, Waits
<1>12. CASE UNCHANGED vars
  <2>1. UNCHANGED <<cur, stream, forgotten, phase>>
    BY <1>12 DEF vars, execVars, streamVars
  <2> QED
    BY <1>1, <2>1 DEF ReadWaits, Waits
<1> HIDE DEF CollectInv
<1> QED
  BY <1>4, <1>5, <1>6, <1>7, <1>8, <1>9, <1>10, <1>11, <1>12, <1>13, <1>14
     DEF Next, SourceStep, LoopStep, HostStep, SenderStep

\* What a cancel took off a stream asks for nothing more.
LEMMA ForgottenStep == CollectInv /\ [Next]_vars => ForgottenAskNothing'
<1> SUFFICES ASSUME CollectInv, [Next]_vars PROVE ForgottenAskNothing'
  OBVIOUS
<1> USE TasksAssumption DEF CollectInv, ForgottenAskNothing
<1>1. /\ cur \in Tasks \cup {NoTask} /\ forgotten \subseteq Tasks /\ DOMAIN outcome = Tasks
      /\ cur \in forgotten => phase = "reading"
  BY DEF CollectTypeOK
<1>2. ASSUME UNCHANGED <<cur, outcome, forgotten>>,
             \A t \in Tasks : Waiting(t) = <<>> => stream'[t].waiting = <<>>
      PROVE  ForgottenAskNothing'
  BY <1>2 DEF Waiting
<1>3. ASSUME NEW t \in Tasks, NEW b \in BOOLEAN, Enqueue(t, b) PROVE ForgottenAskNothing'
  <2>1. UNCHANGED <<cur, outcome, forgotten>>
    BY <1>3 DEF Enqueue
  <2>2. /\ \A u \in Tasks \ {t} : Same(u)
        /\ Waiting(t) = <<>> => stream'[t].waiting = <<>>
    BY <1>3, EnqueueEffect
  <2> QED
    BY <1>2, <2>1, <2>2 DEF Same, Waiting
<1>4. ASSUME NEW t \in Tasks, CloseBody(t) \/ ErrorBody(t) PROVE ForgottenAskNothing'
  <2>1. UNCHANGED <<cur, outcome, forgotten>>
    BY <1>4 DEF CloseBody, ErrorBody, Settle
  <2>2. stream'[t].waiting = <<>> /\ \A u \in Tasks \ {t} : Same(u)
    BY <1>4, EndEffect
  <2> QED
    BY <1>2, <2>1, <2>2 DEF Same, Waiting
<1>5. ASSUME NEW t \in Tasks, CancelBody(t) PROVE ForgottenAskNothing'
  <2>1. /\ UNCHANGED <<cur, outcome>>
        /\ forgotten' = forgotten \cup (ToSet(stream[t].waiting) \ {NoTask})
    BY <1>5 DEF CancelBody, execVars, Asking, Waiting
  <2>2. stream'[t].waiting = <<>> /\ \A u \in Tasks \ {t} : Same(u)
    BY <1>5, CancelEffect
  <2>3. ASSUME NEW u \in ToSet(stream[t].waiting), u # NoTask
        PROVE  IF u = cur THEN \A v \in Tasks : stream'[v].waiting = <<>> ELSE outcome[u] # "none"
    <3>1. stream[t].waiting # <<>> /\ \E i \in DOMAIN stream[t].waiting : stream[t].waiting[i] = u
      BY <2>3 DEF ToSet
    <3>2. \A v \in Tasks \ {t} : stream[v].waiting = <<>>
      BY <3>1 DEF ReadsGoThroughTheGlobal, Waiting
    <3> QED
      BY <2>2, <2>3, <3>1, <3>2 DEF StaleReadsFirst, Waiting, Same
  <2>4. \A v \in Tasks : stream[v].waiting = <<>> => stream'[v].waiting = <<>>
    BY <2>2 DEF Same
  <2> QED
    BY <2>1, <2>3, <2>4 DEF Waiting
<1>6. CASE Read \/ ReadPullThrows
  <2>1. /\ UNCHANGED <<cur, outcome, forgotten>> /\ phase = "next"
    BY <1>6 DEF Read, ReadPullThrows
  <2> QED
    BY <1>1, <2>1
<1>7. ASSUME NEW t \in Tasks, Respond(t) \/ Fail(t) \/ HostDrop(t) \/ RespondBuffered(t)
      PROVE  ForgottenAskNothing'
  <2>1. /\ cur = t /\ cur' = NoTask /\ forgotten' = forgotten /\ outcome'[t] # "none"
        /\ \A u \in Tasks \ {t} : outcome'[u] = outcome[u]
    BY <1>1, <1>7 DEF Respond, Fail, HostDrop, RespondBuffered, ExecEnds, streamVars
  <2> QED
    BY <1>1, <2>1
<1>8. ASSUME NEW t \in Tasks, Dispatch(t) PROVE ForgottenAskNothing'
  <2>1. cur = NoTask /\ cur' = t /\ outcome[t] = "none" /\ UNCHANGED <<outcome, forgotten>>
    BY <1>8 DEF Dispatch, streamVars
  <2> QED
    BY <1>1, <2>1
<1>9. ASSUME NEW t \in Tasks,
             \/ ScriptLocks(t) \/ CollectBegins(t) \/ Receive(t) \/ SeesEnd(t) \/ DropBody(t)
             \/ Send(t) \/ SenderStops(t)
      PROVE  UNCHANGED <<cur, outcome, forgotten, stream>>
  BY <1>9
     DEF ScriptLocks, CollectBegins, Receive, SeesEnd, DropBody, Send, SenderStops, execVars,
         streamVars
<1>10. ReadLocked \/ UNCHANGED vars => UNCHANGED <<cur, outcome, forgotten, stream>>
  BY DEF ReadLocked, vars, execVars, streamVars
<1>11. UNCHANGED <<cur, outcome, forgotten, stream>> => ForgottenAskNothing'
  BY <1>2 DEF Waiting
<1> HIDE DEF CollectInv, ForgottenAskNothing
<1> QED
  BY <1>3, <1>4, <1>5, <1>6, <1>7, <1>8, <1>9, <1>10, <1>11
     DEF Next, SourceStep, LoopStep, HostStep, SenderStep

\* What exec keeps, in its phases.
ExecTypeOK ==
  /\ cur \in Tasks \cup {NoTask}
  /\ phase \in {"idle", "handler", "next", "reading", "done", "failed"}
  /\ helper \in Tasks \cup {NoTask} /\ forgotten \subseteq Tasks
  /\ locked \in [Tasks -> BOOLEAN]
  /\ enqueued \in [Tasks -> 0 .. MaxChunks]
  /\ own \in [Tasks -> BOOLEAN]
  /\ outcome \in [Tasks -> {"none", "sent", "err", "dropped"}]
  /\ rx \in [Tasks -> {"none", "open", "dropped", "ended"}]
  /\ phase = "idle" <=> cur = NoTask

\* The chunks, on their way from a stream to the host.
ChunksTypeOK ==
  /\ chunks \in Seq(Chunks)
  /\ stream \in [Tasks -> Streams]
  /\ due \in [Tasks -> Seq(Chunks)]
  /\ unsent \in [Tasks -> Seq(Chunks)]
  /\ channel \in [Tasks -> Seq(Chunks)]
  /\ \A t \in Tasks : Len(channel[t]) <= Capacity
  /\ body \in [Tasks -> Seq(Chunks)]

\* Every phase keeps to its values.
LEMMA ExecTypeStep == CollectInv /\ [Next]_vars => ExecTypeOK'
<1> SUFFICES ASSUME CollectInv, [Next]_vars PROVE ExecTypeOK'
  OBVIOUS
<1> USE TasksAssumption, BoundsAssumption DEF ExecTypeOK
<1>0. ExecTypeOK
  BY DEF CollectInv, CollectTypeOK
<1>1. ASSUME NEW t \in Tasks, NEW b \in BOOLEAN, Enqueue(t, b) PROVE ExecTypeOK'
  <2>1. enqueued[t] + 1 \in 0 .. MaxChunks
    BY <1>0, <1>1 DEF Enqueue
  <2>2. enqueued' \in [Tasks -> 0 .. MaxChunks]
    BY <1>0, <1>1, <2>1 DEF Enqueue
  <2> QED
    BY <1>0, <1>1, <2>2 DEF Enqueue, Polled, bodyVars
<1>2. ASSUME NEW t \in Tasks, CloseBody(t) \/ ErrorBody(t) PROVE ExecTypeOK'
  BY <1>0, <1>2 DEF CloseBody, ErrorBody, Settle, Polled, bodyVars
<1>3. ASSUME NEW t \in Tasks, ScriptLocks(t) PROVE ExecTypeOK'
  BY <1>0, <1>3 DEF ScriptLocks, execVars, bodyVars
<1>12. ASSUME NEW t \in Tasks, CancelBody(t) PROVE ExecTypeOK'
  <2>1. Asking(t) \subseteq Tasks
    <3>1. Waiting(t) \in Seq(Tasks \cup {NoTask})
      BY DEF CollectInv, CollectTypeOK, Waiting
    <3> QED
      BY <3>1 DEF Asking, ToSet
  <2> QED
    BY <1>0, <1>12, <2>1 DEF CancelBody, execVars, bodyVars
<1>13. CASE ReadPullThrows
  <2>1. cur \in Tasks /\ CollectTypeOK /\ helper' = Reading
    BY <1>0, <1>13 DEF ReadPullThrows, CollectInv
  <2>2. Reading \in Tasks
    BY <1>0, <2>1 DEF Reading
  <2>3. locked' \in [Tasks -> BOOLEAN]
    BY <1>0, <1>13 DEF ReadPullThrows, TakesReader
  <2> QED
    BY <1>0, <1>13, <2>1, <2>2, <2>3 DEF ReadPullThrows, bodyVars
<1>4. CASE Read
  <2>1. cur \in Tasks /\ WaitersHaveNothing /\ CollectTypeOK
    BY <1>0, <1>4 DEF Read, CollectInv
  <2>2. /\ phase' \in {"next", "reading", "done", "failed"} /\ Reading \in Tasks
        /\ helper' \in {Reading, NoTask}
    BY <1>4, <2>1, ReadEffect
  <2>3. locked' \in [Tasks -> BOOLEAN]
    BY <1>0, <1>4 DEF Read, TakesReader
  <2> QED
    BY <1>0, <1>4, <2>1, <2>2, <2>3 DEF Read, bodyVars
<1>5. CASE ReadLocked
  BY <1>0, <1>5 DEF ReadLocked, streamVars, bodyVars
<1>6. ASSUME NEW t \in Tasks, Respond(t) \/ RespondBuffered(t) PROVE ExecTypeOK'
  <2>1. /\ cur' = NoTask /\ phase' = "idle" /\ helper' \in {helper, NoTask}
        /\ UNCHANGED <<locked, forgotten, enqueued>>
    BY <1>6 DEF Respond, RespondBuffered, ExecEnds, streamVars
  <2>2. /\ own' \in [Tasks -> BOOLEAN]
        /\ outcome' \in [Tasks -> {"none", "sent", "err", "dropped"}]
        /\ rx' \in [Tasks -> {"none", "open", "dropped", "ended"}]
    BY <1>0, <1>6 DEF Respond, RespondBuffered, ExecEnds
  <2> QED
    BY <1>0, <2>1, <2>2
<1>7. ASSUME NEW t \in Tasks, Fail(t) \/ HostDrop(t) PROVE ExecTypeOK'
  BY <1>0, <1>7 DEF Fail, HostDrop, ExecEnds, streamVars, bodyVars
<1>8. ASSUME NEW t \in Tasks, Dispatch(t) PROVE ExecTypeOK'
  BY <1>0, <1>8 DEF Dispatch, streamVars, bodyVars
<1>9. ASSUME NEW t \in Tasks, CollectBegins(t) PROVE ExecTypeOK'
  BY <1>0, <1>9 DEF CollectBegins, streamVars, bodyVars
<1>10. ASSUME NEW t \in Tasks,
              Send(t) \/ SenderStops(t) \/ Receive(t) \/ SeesEnd(t) \/ DropBody(t)
       PROVE  ExecTypeOK'
  <2>1. UNCHANGED <<execVars, streamVars>>
    BY <1>10 DEF Send, SenderStops, Receive, SeesEnd, DropBody
  <2>2. rx' \in [Tasks -> {"none", "open", "dropped", "ended"}]
    BY <1>0, <1>10 DEF Send, SenderStops, Receive, SeesEnd, DropBody
  <2> QED
    BY <1>0, <2>1, <2>2 DEF execVars, streamVars
<1>11. CASE UNCHANGED vars
  BY <1>0, <1>11 DEF vars, execVars, streamVars, bodyVars
<1> QED
  BY <1>1, <1>2, <1>3, <1>4, <1>5, <1>6, <1>7, <1>8, <1>9, <1>10, <1>11, <1>12, <1>13
     DEF Next, SourceStep, LoopStep, HostStep, SenderStep

\* Chunks stay chunks, and no more of them than its capacity are in a channel.
LEMMA ChunksTypeStep == CollectInv /\ [Next]_vars => ChunksTypeOK'
<1> SUFFICES ASSUME CollectInv, [Next]_vars PROVE ChunksTypeOK'
  OBVIOUS
<1> USE TasksAssumption, BoundsAssumption
<1>0. ChunksTypeOK /\ CollectTypeOK /\ WaitersHaveNothing
  BY DEF CollectInv, CollectTypeOK, ChunksTypeOK, Streams, Readers
<1>1. \A x \in Chunks : Kept(x) \in Seq(Chunks)
  BY DEF Kept
<1>2. ASSUME NEW x \in Chunks PROVE chunks \o Kept(x) \in Seq(Chunks)
  <2>1. Kept(x) \in Seq(Chunks) /\ chunks \in Seq(Chunks)
    BY <1>0, <1>1 DEF ChunksTypeOK
  <2> HIDE DEF Kept
  <2> QED
    BY <2>1
<1>3. ASSUME UNCHANGED bodyVars, chunks' \in Seq(Chunks), stream' \in [Tasks -> Streams],
             due' \in [Tasks -> Seq(Chunks)]
      PROVE  ChunksTypeOK'
  BY <1>0, <1>3 DEF ChunksTypeOK, bodyVars
<1>4. ASSUME NEW t \in Tasks, NEW b \in BOOLEAN, Enqueue(t, b) PROVE ChunksTypeOK'
  <2> DEFINE x == <<t, enqueued[t] + 1, b>>
  <2>1. x \in Chunks /\ stream' \in [Tasks -> Streams] /\ due' \in [Tasks -> Seq(Chunks)]
    BY <1>0, <1>4, EnqueueEffect
  <2>2. UNCHANGED bodyVars /\ chunks' \in {chunks, chunks \o Kept(x)}
    BY <1>4 DEF Enqueue
  <2>3. chunks' \in Seq(Chunks)
    BY <1>0, <1>2, <2>1, <2>2 DEF ChunksTypeOK
  <2> QED
    BY <1>3, <2>1, <2>2, <2>3
<1>5. ASSUME NEW t \in Tasks, CloseBody(t) \/ ErrorBody(t) PROVE ChunksTypeOK'
  <2>1. UNCHANGED <<bodyVars, chunks, due>>
    BY <1>5 DEF CloseBody, ErrorBody, Settle
  <2>2. stream' \in [Tasks -> Streams]
    BY <1>0, <1>5, EndEffect
  <2> QED
    BY <1>0, <1>3, <2>1, <2>2 DEF ChunksTypeOK
<1>6. CASE Read
  <2>1. UNCHANGED <<bodyVars, due>> /\ cur \in Tasks
    BY <1>0, <1>6 DEF Read, CollectTypeOK
  <2>2. stream' \in [Tasks -> Streams]
    BY <1>0, <1>6, <2>1, ReadEffect
  <2>3. \/ chunks' = chunks
        \/ \E x \in Chunks : chunks' = chunks \o Kept(x)
    BY <1>0, <1>6, <2>1, ReadEffect
  <2>4. chunks' \in Seq(Chunks)
    BY <1>0, <1>2, <2>3 DEF ChunksTypeOK
  <2> QED
    BY <1>0, <1>3, <2>1, <2>2, <2>4 DEF ChunksTypeOK
<1>12. ASSUME NEW t \in Tasks, CancelBody(t) PROVE ChunksTypeOK'
  <2>1. UNCHANGED <<bodyVars, chunks, due>>
    BY <1>12 DEF CancelBody, execVars
  <2>2. stream' \in [Tasks -> Streams]
    BY <1>0, <1>12, CancelEffect
  <2> QED
    BY <1>0, <1>3, <2>1, <2>2 DEF ChunksTypeOK
<1>13. CASE ReadPullThrows
  <2>1. UNCHANGED <<bodyVars, chunks, due>> /\ cur \in Tasks
    BY <1>0, <1>13 DEF ReadPullThrows, CollectTypeOK
  <2>2. stream' \in [Tasks -> Streams]
    BY <1>0, <1>13, <2>1, ThrowEffect
  <2> QED
    BY <1>0, <1>3, <2>1, <2>2 DEF ChunksTypeOK
<1>7. ASSUME NEW t \in Tasks,
             ScriptLocks(t) \/ Fail(t) \/ HostDrop(t) \/ Dispatch(t) \/ CollectBegins(t)
      PROVE  ChunksTypeOK'
  <2>1. UNCHANGED <<bodyVars, stream, due>> /\ (chunks' = chunks \/ chunks' = <<>>)
    BY <1>7 DEF ScriptLocks, Fail, HostDrop, Dispatch, CollectBegins, execVars, streamVars
  <2>2. <<>> \in Seq(Chunks) /\ chunks \in Seq(Chunks)
    BY <1>0 DEF ChunksTypeOK
  <2>3. chunks' \in Seq(Chunks)
    BY <2>1, <2>2
  <2>4. stream' \in [Tasks -> Streams] /\ due' \in [Tasks -> Seq(Chunks)]
    BY <1>0, <2>1 DEF ChunksTypeOK
  <2> QED
    BY <1>3, <2>1, <2>3, <2>4
<1>8. CASE ReadLocked \/ UNCHANGED vars
  <2>1. UNCHANGED <<bodyVars, stream, due, chunks>>
    BY <1>8 DEF ReadLocked, vars, execVars, streamVars
  <2> QED
    BY <1>0, <1>3, <2>1 DEF ChunksTypeOK
<1>9. ASSUME NEW t \in Tasks, Respond(t) PROVE ChunksTypeOK'
  <2>1. /\ UNCHANGED <<chunks, stream, due, channel, body>>
        /\ unsent' = [unsent EXCEPT ![t] = chunks]
    BY <1>9 DEF Respond, streamVars
  <2> QED
    BY <1>0, <2>1 DEF ChunksTypeOK
<1>10. ASSUME NEW t \in Tasks, RespondBuffered(t) PROVE ChunksTypeOK'
  <2> DEFINE x == <<t, MaxChunks + 1, TRUE>>
  <2>1. <<x>> \in Seq(Chunks)
    <3>1. MaxChunks + 1 \in 1 .. MaxChunks + 1
      OBVIOUS
    <3>2. x \in Chunks
      BY <3>1 DEF Chunks
    <3> QED
      BY <3>2
  <2>2. /\ UNCHANGED <<chunks, channel, body>>
        /\ unsent' = [unsent EXCEPT ![t] = <<x>>] /\ due' = [due EXCEPT ![t] = <<x>>]
    BY <1>10 DEF RespondBuffered
  <2>3. stream' \in [Tasks -> Streams]
    BY <1>10, BufferedEffect
  <2>4. unsent' \in [Tasks -> Seq(Chunks)] /\ due' \in [Tasks -> Seq(Chunks)]
    BY <1>0, <2>1, <2>2 DEF ChunksTypeOK
  <2> QED
    BY <1>0, <2>2, <2>3, <2>4 DEF ChunksTypeOK
<1>11. ASSUME NEW t \in Tasks,
              Send(t) \/ SenderStops(t) \/ Receive(t) \/ SeesEnd(t) \/ DropBody(t)
       PROVE  ChunksTypeOK'
  <2> DEFINE s == unsent[t]
             c == channel[t]
             b == body[t]
  <2>1. UNCHANGED <<chunks, stream, due>>
    BY <1>11 DEF Send, SenderStops, Receive, SeesEnd, DropBody, execVars, streamVars
  <2>2. /\ s \in Seq(Chunks) /\ c \in Seq(Chunks) /\ b \in Seq(Chunks) /\ Len(c) <= Capacity
        /\ Len(c) \in Nat
    BY <1>0 DEF ChunksTypeOK
  <2> HIDE DEF s, c, b
  <2>3. \/ /\ s # <<>> /\ Len(c) < Capacity
           /\ unsent' = [unsent EXCEPT ![t] = Tail(s)]
           /\ channel' = [channel EXCEPT ![t] = Append(c, Head(s))] /\ body' = body
        \/ /\ c # <<>> /\ channel' = [channel EXCEPT ![t] = Tail(c)]
           /\ body' = [body EXCEPT ![t] = Append(b, Head(c))] /\ unsent' = unsent
        \/ unsent' = [unsent EXCEPT ![t] = <<>>] /\ channel' = channel /\ body' = body
        \/ channel' = [channel EXCEPT ![t] = <<>>] /\ unsent' = unsent /\ body' = body
        \/ UNCHANGED <<unsent, channel, body>>
    BY <1>11 DEF Send, SenderStops, Receive, SeesEnd, DropBody, NextOut, s, c, b
  <2>4. /\ s # <<>> => Append(c, Head(s)) \in Seq(Chunks) /\ Tail(s) \in Seq(Chunks)
                       /\ Len(Append(c, Head(s))) = Len(c) + 1
        /\ c # <<>> => Append(b, Head(c)) \in Seq(Chunks) /\ Tail(c) \in Seq(Chunks)
                       /\ Len(Tail(c)) = Len(c) - 1
    BY <2>2
  <2>5. \E v, w, y \in Seq(Chunks) :
          /\ unsent' = [unsent EXCEPT ![t] = v] /\ channel' = [channel EXCEPT ![t] = w]
          /\ body' = [body EXCEPT ![t] = y] /\ Len(w) <= Capacity
    <3>1. <<>> \in Seq(Chunks) /\ Len(<<>>) <= Capacity
      OBVIOUS
    <3>2. /\ unsent = [unsent EXCEPT ![t] = s] /\ channel = [channel EXCEPT ![t] = c]
          /\ body = [body EXCEPT ![t] = b]
      BY <1>0 DEF ChunksTypeOK, s, c, b
    <3>3. s # <<>> /\ Len(c) < Capacity => Len(Append(c, Head(s))) <= Capacity
      BY <2>2, <2>4
    <3>4. c # <<>> => Len(Tail(c)) <= Capacity
      BY <2>2, <2>4
    <3> QED
      BY <2>2, <2>3, <2>4, <3>1, <3>2, <3>3, <3>4
  <2>6. PICK v, w, y \in Seq(Chunks) :
          /\ unsent' = [unsent EXCEPT ![t] = v] /\ channel' = [channel EXCEPT ![t] = w]
          /\ body' = [body EXCEPT ![t] = y] /\ Len(w) <= Capacity
    BY <2>5
  <2> QED
    BY <1>0, <2>1, <2>6 DEF ChunksTypeOK
<1> QED
  BY <1>4, <1>5, <1>6, <1>7, <1>8, <1>9, <1>10, <1>11, <1>12, <1>13
     DEF Next, SourceStep, LoopStep, HostStep, SenderStep

-----------------------------------------------------------------------------
\* The conjuncts of the type invariant.
LEMMA CollectTypeParts == CollectTypeOK <=> ExecTypeOK /\ ChunksTypeOK /\ ReadWaits
BY Zenon DEF CollectTypeOK, ExecTypeOK, ChunksTypeOK, ReadWaits, Waits, Streams, Readers

\* Nothing has begun.
LEMMA CollectInvInit == Init => CollectInv
<1> SUFFICES ASSUME Init PROVE CollectInv
  OBVIOUS
<1> USE TasksAssumption, BoundsAssumption
<1>1. ASSUME NEW t \in Tasks
      PROVE  /\ stream[t].state = "readable" /\ stream[t].queue = <<>> /\ stream[t].waiting = <<>>
             /\ outcome[t] = "none" /\ due[t] = <<>> /\ rx[t] = "none" /\ own[t] = FALSE
             /\ unsent[t] = <<>> /\ channel[t] = <<>> /\ body[t] = <<>>
  BY DEF Init, EmptyStream
<1>2. cur = NoTask /\ phase = "idle" /\ helper = NoTask
  BY DEF Init
<1>3. ExecTypeOK
  BY DEF Init, ExecTypeOK
<1>4. ChunksTypeOK
  <2>1. <<>> \in Seq(Chunks) /\ Len(<<>>) <= Capacity /\ <<>> \in Seq(Readers)
    OBVIOUS
  <2>2. EmptyStream \in Streams
    BY DEF EmptyStream, Streams, States
  <2> QED
    BY <2>1, <2>2 DEF Init, ChunksTypeOK
<1>5. ReadWaits
  <2>1. cur \notin ToSet(<<>>)
    BY DEF ToSet
  <2> QED
    BY <1>1, <1>2, <2>1 DEF Init, ReadWaits, Waits
<1>6. CollectTypeOK
  BY <1>3, <1>4, <1>5, CollectTypeParts
<1>7. ServedOnce /\ EndHasNoReader /\ OwnCollection
  BY <1>2 DEF ServedOnce, EndHasNoReader, OwnCollection
<1>8. WaitersHaveNothing /\ StaleReadsFirst /\ ForgottenAskNothing /\ ReadsGoThroughTheGlobal
  <2>1. \A t \in Tasks : Waiting(t) = <<>>
    BY <1>1 DEF Waiting
  <2>2. \A t \in Tasks : DOMAIN Waiting(t) = {}
    BY <2>1
  <2> QED
    BY <2>1, <2>2 DEF Init, WaitersHaveNothing, StaleReadsFirst, ForgottenAskNothing,
                      ReadsGoThroughTheGlobal
<1>9. UnsentHasNothing /\ DeliveredInOrder
  BY <1>1 DEF UnsentHasNothing, DeliveredInOrder
<1>10. UnreadBefore
  <2>1. Leads(<<>>, <<>>, <<>>)
    <3>1. <<>> \in Seq(Chunks)
      OBVIOUS
    <3> QED
      BY <3>1, LeadsNowhere
  <2> QED
    BY <1>1, <1>2, <2>1 DEF UnreadBefore, LeadsOn
<1> QED
  BY <1>6, <1>7, <1>8, <1>9, <1>10 DEF CollectInv

\* Every step keeps the invariant.
LEMMA CollectInvStep == CollectInv /\ [Next]_vars => CollectInv'
<1> SUFFICES ASSUME CollectInv, [Next]_vars PROVE CollectInv'
  OBVIOUS
<1>1. ExecTypeOK' /\ ChunksTypeOK' /\ ReadWaits'
  BY ExecTypeStep, ChunksTypeStep, ReadWaitsStep
<1>2. CollectTypeOK'
  BY Zenon, <1>1 DEF CollectTypeOK, ExecTypeOK, ChunksTypeOK, ReadWaits, Waits, Streams, Readers
<1> QED
  BY <1>2, ServedOnceStep, WaitersStep, StaleStep, ForgottenStep, GlobalStep, EndHasNoReaderStep, UnreadStep,
     OwnCollectionStep, UnsentStep, DeliveredStep
     DEF CollectInv

\* The invariant holds in every state.
LEMMA CollectInvariant == Spec => []CollectInv
BY CollectInvInit, CollectInvStep, PTL DEF Spec

\* Every variable of the collection keeps to its values, no channel holds more chunks than
\* RESPONSE_STREAM_BUFFER_SIZE, and a read of the collection waits exactly while it is reading.
THEOREM CollectTypeCorrect == Spec => []CollectTypeOK
<1>1. CollectInv => CollectTypeOK
  BY DEF CollectInv
<1> QED
  BY <1>1, CollectInvariant, PTL

\* Every read that waits in a stream was made through the reader in __streamReader, also when
\* the host dropped the collection that made it.
THEOREM CollectReadsGlobally == Spec => []ReadsGoThroughTheGlobal
<1>1. CollectInv => ReadsGoThroughTheGlobal
  BY DEF CollectInv
<1> QED
  BY <1>1, CollectInvariant, PTL

\* The first chunks of a body are a prefix of what follows.
LEMMA FollowsIsPrefix ==
  ASSUME NEW s \in Seq(Chunks), NEW d \in Seq(Chunks), Follows(s, 0, d)
  PROVE  IsPrefix(s, d) /\ (Len(s) = Len(d) => s = d)
<1>1. /\ Len(s) \in Nat /\ Len(d) \in Nat /\ s \in [1 .. Len(s) -> Chunks]
      /\ d \in [1 .. Len(d) -> Chunks]
  OBVIOUS
<1>2. \A i \in 1 .. Len(s) : i <= Len(d) /\ s[i] = d[i]
  <2>1. ASSUME NEW i \in 1 .. Len(s) PROVE i <= Len(d) /\ s[i] = d[i]
    <3>1. 0 + i <= Len(d) /\ s[i] = d[0 + i]
      BY DEF Follows
    <3> QED
      BY <3>1
  <2> QED
    BY <2>1
<1>3. Len(s) <= Len(d)
  BY <1>1, <1>2
<1>4. s = SubSeq(d, 1, Len(s))
  BY <1>1, <1>2, <1>3
<1>5. IsPrefix(s, d)
  BY <1>3, <1>4 DEF IsPrefix
<1>6. Len(s) = Len(d) => s = d
  BY <1>1, <1>2
<1> QED
  BY <1>5, <1>6

\* What the host receives of a response is a prefix of what the response's own stream was given,
\* and all of it when the host sees the end, whatever other tasks were dropped or failed before,
\* provided the collection began without a reader left over.
THEOREM CollectBodyIsItsStream == Spec => []BodyIsItsStream
<1>1. ASSUME CollectInv, NEW t \in Tasks, own[t]
      PROVE  IsPrefix(body[t], due[t]) /\ (rx[t] = "ended" => body[t] = due[t])
  <2>1. body[t] \in Seq(Chunks) /\ due[t] \in Seq(Chunks)
    BY <1>1 DEF CollectInv, CollectTypeOK
  <2>2. Follows(body[t], 0, due[t]) /\ (rx[t] = "ended" => Len(body[t]) = Len(due[t]))
    <3>1. CASE rx[t] = "none"
      BY <1>1, <3>1 DEF CollectInv, UnsentHasNothing, Follows
    <3>2. CASE rx[t] # "none"
      BY <1>1, <3>2 DEF CollectInv, DeliveredInOrder, Delivered
    <3> QED
      BY <3>1, <3>2
  <2> QED
    BY <2>1, <2>2, FollowsIsPrefix
<1>2. CollectInv => BodyIsItsStream
  BY <1>1 DEF BodyIsItsStream
<1> QED
  BY <1>2, CollectInvariant, PTL
=============================================================================
