--------------------------------- MODULE Stream ---------------------------------
(***************************************************************************)
(* A stream as its two ends see it: the chunks it holds and the reads that *)
(* wait, of which at most one is not empty.  SimpleStream makes a          *)
(* specification of it, which ReadableStream implements; ResponseStream    *)
(* and its collections are built on it.                                    *)
(***************************************************************************)
EXTENDS Integers, SequencesExt

\* "closing" is closed for the source, but not yet read to its end.
States == {"readable", "closing", "closed", "errored"}

EmptyStream == [state |-> "readable", queue |-> <<>>, waiting |-> <<>>]

\* enqueue and close throw, and error does nothing, otherwise.
Accepts(s) == s.state = "readable"
MayBreak(s) == s.state \in {"readable", "closing"}

\* A chunk goes to the read that waits longest.  Variant: that read goes on waiting.
WithChunk_KeepsRead(s, chunk) ==
  IF s.waiting = <<>> THEN [s EXCEPT !.queue = Append(@, chunk)] ELSE s

WithChunk(s, chunk) ==
  IF s.waiting = <<>> THEN [s EXCEPT !.queue = Append(@, chunk)]
  ELSE [s EXCEPT !.waiting = Tail(@)]

\* The source closes the stream; the reads that wait are answered with the end.
\* An error answers them too, and drops what was not read, also after a close.
AtEnd(s) ==
  [state   |-> IF s.waiting = <<>> THEN "closing" ELSE "closed",
   queue   |-> s.queue,
   waiting |-> <<>>]

Broken(s) == [EmptyStream EXCEPT !.state = "errored"]

\* What a read gets, and what it leaves.
AnswerNow(s) ==
  IF s.state = "errored" THEN "error"
  ELSE IF s.queue # <<>> THEN "chunk"
  ELSE IF s.state = "readable" THEN "pending" ELSE "done"

AfterRead(s, read) ==
  CASE AnswerNow(s) = "error"   -> s
    [] AnswerNow(s) = "chunk"   -> [s EXCEPT !.queue = Tail(@)]
    [] AnswerNow(s) = "pending" -> [s EXCEPT !.waiting = Append(@, read)]
    [] AnswerNow(s) = "done"    -> [s EXCEPT !.state = "closed"]
=============================================================================
