------------------------------ MODULE SimpleStream ------------------------------
(***************************************************************************)
(* What a ReadableStream promises its source and its consumers, whatever   *)
(* readers come and go: reads and chunks are paired in their orders, the   *)
(* end is told when all was read, an error at once.  The promise ends when *)
(* a script makes a reader with `new`, which takes no lock but can release *)
(* that of another.                                                        *)
(***************************************************************************)
EXTENDS Stream

CONSTANT Reads  \* the reads a script may call, in the order of their numbers

VARIABLES
  stream,
  sent,    \* chunks enqueued
  issued,  \* reads called
  status,  \* read -> what became of it
  got,     \* read -> its chunk, 0 for none
  meddled  \* a reader was made with `new`

simpleVars == <<stream, sent, issued, status, got, meddled>>

SimpleInit ==
  /\ stream = EmptyStream /\ sent = 0 /\ issued = 0
  /\ status = [i \in Reads |-> "none"]
  /\ got = [i \in Reads |-> 0]
  /\ meddled = FALSE

\* A read that was rejected because its pull threw still waits, and takes what it
\* gets with it.
Settled(reads, how) ==
  [i \in Reads |-> IF i \in reads /\ status[i] = "pending" THEN how ELSE status[i]]

Give ==
  /\ Accepts(stream)
  /\ sent' = sent + 1
  /\ stream' = WithChunk(stream, sent')
  /\ LET taker == IF stream.waiting = <<>> THEN {} ELSE {Head(stream.waiting)}
     IN /\ status' = Settled(taker, "chunk")
        /\ got' = [i \in Reads |-> IF status'[i] # status[i] THEN sent' ELSE got[i]]
  /\ UNCHANGED issued

End ==
  /\ \/ /\ Accepts(stream) /\ stream' = AtEnd(stream)
        /\ status' = Settled(ToSet(stream.waiting), "done")
     \/ /\ MayBreak(stream) /\ stream' = Broken(stream)
        /\ status' = Settled(ToSet(stream.waiting), "error")
  /\ UNCHANGED <<sent, issued, got>>

Read ==
  /\ issued + 1 \in Reads /\ issued' = issued + 1
  /\ stream' = AfterRead(stream, issued')
  /\ status' = [status EXCEPT ![issued'] = AnswerNow(stream)]
  /\ got' = IF AnswerNow(stream) = "chunk" THEN [got EXCEPT ![issued'] = Head(stream.queue)]
            ELSE got
  /\ UNCHANGED sent

\* A cancelled stream is at its end for its source; who waits is forgotten, and what
\* was queued can still be read.
Cancel ==
  /\ MayBreak(stream)
  /\ stream' = [state |-> "closed", queue |-> stream.queue, waiting |-> <<>>]
  /\ UNCHANGED <<sent, issued, status, got>>

PullThrows ==
  /\ issued + 1 \in Reads /\ issued' = issued + 1
  /\ AnswerNow(stream) = "pending" /\ stream' = AfterRead(stream, issued')
  /\ status' = [status EXCEPT ![issued'] = "error"]
  /\ UNCHANGED <<sent, got>>

\* A read through a reader that gave its lock back.
Refuse ==
  /\ issued + 1 \in Reads /\ issued' = issued + 1
  /\ status' = [status EXCEPT ![issued'] = "error"]
  /\ UNCHANGED <<stream, sent, got>>

SimpleNext ==
  \/ meddled'
  \/ UNCHANGED meddled /\ (Give \/ End \/ Cancel \/ Read \/ PullThrows \/ Refuse)

SimpleSpec == SimpleInit /\ [][SimpleNext]_simpleVars
=============================================================================
