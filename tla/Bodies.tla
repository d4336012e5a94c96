-------------------------------- MODULE Bodies --------------------------------
(***************************************************************************)
(* The bodies of Response, Request and fetch (src/worker.rs) over the one  *)
(* ReadableStream that a script gives to several of them: constructors,    *)
(* clone and new Request(request) pass the same stream on, and text,       *)
(* arrayBuffer, json, formData and fetch each read it to its end in a loop *)
(* that awaits one read after another, while the source and the script's   *)
(* own readers go on.                                                      *)
(*                                                                         *)
(* The loop that has the stack keeps it up to its next await, so nothing   *)
(* comes between getReader and the first read, or between a chunk and the  *)
(* read for the next.                                                      *)
(*                                                                         *)
(* A call of fetch goes on to the host when its body was read, and ends as *)
(* the host answers.                                                       *)
(***************************************************************************)
EXTENDS ReadableStream

CONSTANTS
  Objects,      \* the Response and Request objects, and the calls of fetch
  NoObject,
  ScriptReads   \* bound: calls of read by the script itself

ASSUME ObjectsAssumption == NoObject \notin Objects /\ IsFiniteSet(Objects)

\* Every chunk is one read and every loop ends with one more, so no loop meets
\* the bound on reads.
ASSUME ReadsAssumption ==
  ScriptReads \in Nat /\ MaxReads >= ScriptReads + MaxChunks + Cardinality(Objects)

\* The bytes of a response are one chunk.
ASSUME ChunksAssumption == MaxChunks >= 1

VARIABLES
  class,    \* object -> what it is, "none" before it is made
  body,     \* object -> its _body: null, bytes (or a string), or the stream
  used,     \* object -> _bodyUsed
  outcome,  \* object -> what became of the call that consumed it
  holds,    \* object -> the reader of its loop
  awaits,   \* object -> the read its loop awaits, 0 for none
  chunks,   \* object -> the chunks its loop collected
  before,   \* history: chunks others had read when its loop began
  call,     \* fetch -> where its call is once its body is ready
  stack,    \* the object whose loop is running
  made      \* the stream exists

objectVars == <<class, body, used>>
loopVars == <<outcome, holds, awaits, chunks, before>>
bodiesVars == <<vars, objectVars, loopVars, call, stack, made>>

BodyKinds == {"null", "bytes", "stream"}

\* An object whose loop reads has a reader to itself, and awaits a read unless it
\* has the stack.
BodiesTypeOK ==
  /\ class \in [Objects -> {"none", "Response", "Request", "fetch"}]
  /\ body \in [Objects -> BodyKinds] /\ used \in [Objects -> BOOLEAN]
  /\ outcome \in [Objects -> {"none", "reading", "whole", "failed", "locked", "stringified"}]
  /\ holds \in [Objects -> Readers \cup {NoReader}]
  /\ awaits \in [Objects -> 0 .. MaxReads]
  /\ chunks \in [Objects -> Seq(Chunks)] /\ before \in [Objects -> 0 .. MaxChunks]
  /\ call \in [Objects -> {"none", "sent", "resolved", "rejected"}]
  /\ stack \in Objects \cup {NoObject} /\ made \in BOOLEAN
  /\ \A o \in Objects :
       /\ outcome[o] = "reading" => holds[o] # NoReader /\ (awaits[o] = 0 <=> stack = o)
       /\ \A p \in Objects \ {o} : holds[o] = NoReader \/ holds[o] # holds[p]

BodiesInit ==
  /\ Init
  /\ class = [o \in Objects |-> "none"]
  /\ body = [o \in Objects |-> "null"]
  /\ used = [o \in Objects |-> FALSE]
  /\ outcome = [o \in Objects |-> "none"]
  /\ holds = [o \in Objects |-> NoReader]
  /\ awaits = [o \in Objects |-> 0]
  /\ chunks = [o \in Objects |-> <<>>]
  /\ before = [o \in Objects |-> 0]
  /\ call = [o \in Objects |-> "none"]
  /\ stack = NoObject /\ made = FALSE

-----------------------------------------------------------------------------
(* The script makes objects.                                               *)

Make(o, c, kind) ==
  /\ stack = NoObject /\ class[o] = "none"
  /\ class' = [class EXCEPT ![o] = c]
  /\ body' = [body EXCEPT ![o] = kind]
  /\ UNCHANGED <<used, stack>>

\* new Response(body) and new Request(url, {body}).
Construct(o, c, kind) ==
  /\ kind = "stream" => made
  /\ Make(o, c, kind)
  /\ UNCHANGED <<vars, loopVars, made>>

\* clone throws once the body is used; the copy shares the stream.
Clone(o, copy) ==
  /\ class[o] \in {"Response", "Request"} /\ ~used[o]
  /\ Make(copy, class[o], body[o])
  /\ UNCHANGED <<vars, loopVars, made>>

\* new Request(request) does not look at bodyUsed.
RequestFrom(o, copy) ==
  /\ class[o] = "Request"
  /\ Make(copy, "Request", body[o])
  /\ UNCHANGED <<vars, loopVars, made>>

\* The stream is one the script's source will fill, or the one the body getter of
\* a response makes of its bytes, which are left as they are.
NewStream ==
  /\ stack = NoObject /\ ~made
  /\ made' = TRUE
  /\ UNCHANGED <<vars, objectVars, loopVars, stack>>

GetBody(o) ==
  /\ stack = NoObject /\ ~made
  /\ class[o] = "Response" /\ body[o] = "bytes"
  /\ made' = TRUE
  /\ sent' = 1 /\ queue' = <<1, Close>> /\ closeRequested' = TRUE
  /\ UNCHANGED <<state, readerVars, closed, issued, readVars, histVars>>
  /\ UNCHANGED <<objectVars, loopVars, stack>>

-----------------------------------------------------------------------------
(* Consuming a body.                                                       *)

ReadSoFar == Cardinality({i \in Reads : status[i] = "chunk"})

Ends(o, how) ==
  /\ outcome' = [outcome EXCEPT ![o] = how]
  /\ UNCHANGED <<vars, holds, awaits, chunks, before, stack, made>>

\* What text, arrayBuffer and fetch do with a body up to the first read.  A
\* Request has no case for a stream: String(stream) is its text.
Begin(o, c, kind) ==
  \/ /\ kind # "stream"
     /\ Ends(o, "whole")
  \/ /\ kind = "stream" /\ c = "Request"
     /\ Ends(o, "stringified")
  \/ /\ kind = "stream" /\ c # "Request" /\ reader # NoReader
     /\ Ends(o, "locked")
  \/ /\ kind = "stream" /\ c # "Request"
     /\ \E r \in Readers :
          /\ GetReader(r)
          /\ holds' = [holds EXCEPT ![o] = r]
     /\ before' = [before EXCEPT ![o] = ReadSoFar]
     /\ outcome' = [outcome EXCEPT ![o] = "reading"]
     /\ stack' = o
     /\ UNCHANGED <<awaits, chunks, made>>

\* text, json, formData and arrayBuffer: a used body throws, and it is used from
\* here on, also when the stream is locked.
Consume(o) ==
  /\ stack = NoObject
  /\ class[o] \in {"Response", "Request"} /\ ~used[o]
  /\ used' = [used EXCEPT ![o] = TRUE]
  /\ Begin(o, class[o], body[o])
  /\ UNCHANGED <<class, body>>

\* fetch(request) or fetch(url, {body}): __fetchBody takes the body whatever any
\* bodyUsed says.
Fetch(o, kind) ==
  /\ stack = NoObject /\ class[o] = "none"
  /\ kind = "stream" => made
  /\ class' = [class EXCEPT ![o] = "fetch"]
  /\ body' = [body EXCEPT ![o] = kind]
  /\ Begin(o, "fetch", kind)
  /\ UNCHANGED used

\* A form has no bytes: __fetchBody throws.
FetchForm(o) ==
  /\ stack = NoObject /\ class[o] = "none"
  /\ class' = [class EXCEPT ![o] = "fetch"]
  /\ Ends(o, "failed")
  /\ UNCHANGED <<body, used>>

LoopReads(o) ==
  /\ stack = o
  /\ Read(holds[o])
  /\ awaits' = [awaits EXCEPT ![o] = issued + 1]
  /\ stack' = NoObject
  /\ UNCHANGED <<objectVars, outcome, holds, chunks, before, made>>

Answered(o) == stack = NoObject /\ awaits[o] # 0 /\ status[awaits[o]] # "pending"

LoopEnds(o, how) ==
  /\ awaits' = [awaits EXCEPT ![o] = 0]
  /\ outcome' = [outcome EXCEPT ![o] = how]
  /\ UNCHANGED <<vars, objectVars, holds, chunks, before, stack, made>>

\* Variant: one read and no loop.
Collects_Once(o) ==
  /\ status[awaits[o]] = "chunk"
  /\ chunks' = [chunks EXCEPT ![o] = Append(@, got[awaits[o]])]
  /\ awaits' = [awaits EXCEPT ![o] = 0]
  /\ UNCHANGED <<vars, objectVars, outcome, holds, before, stack, made>>

Collects(o) ==
  /\ status[awaits[o]] = "chunk"
  /\ chunks' = [chunks EXCEPT ![o] = Append(@, got[awaits[o]])]
  /\ awaits' = [awaits EXCEPT ![o] = 0]
  /\ stack' = o
  /\ UNCHANGED <<vars, objectVars, outcome, holds, before, made>>

\* Variants: an error ends the body like its end; the lock is given back.
Finishes_ErrorEnds(o) == status[awaits[o]] \in {"done", "error"} /\ LoopEnds(o, "whole")

Finishes_Releases(o) ==
  /\ status[awaits[o]] = "done"
  /\ ReleaseLock(holds[o])
  /\ awaits' = [awaits EXCEPT ![o] = 0]
  /\ outcome' = [outcome EXCEPT ![o] = "whole"]
  /\ UNCHANGED <<objectVars, holds, chunks, before, stack, made>>

Finishes(o) ==
  \/ status[awaits[o]] = "done" /\ LoopEnds(o, "whole")
  \/ status[awaits[o]] = "error" /\ LoopEnds(o, "failed")

LoopResumes(o) == Answered(o) /\ (Collects(o) \/ Finishes(o))

-----------------------------------------------------------------------------
(* The rest of fetch, once __fetchBody has returned: do_fetch, and what is   *)
(* made of its FetchResult.                                                  *)

Becomes(o, how) ==
  /\ call' = [call EXCEPT ![o] = how]
  /\ UNCHANGED <<vars, objectVars, loopVars, stack, made>>

\* The body is consumed, then do_fetch asks the host or refuses the options or the
\* method.  An exception of __fetchBody has rejected the call before.
NativeFetch(o) ==
  /\ stack = NoObject /\ class[o] = "fetch"
  /\ outcome[o] = "whole" /\ call[o] = "none"
  /\ Becomes(o, "sent") \/ Becomes(o, "rejected")

\* The host answers with a response, or an error comes from it or from collecting the
\* response's body.  `if (result.error)` takes an empty message for a response.
HostAnswers(o) ==
  /\ call[o] = "sent"
  /\ Becomes(o, "resolved") \/ Becomes(o, "rejected")

-----------------------------------------------------------------------------
(* The source, and what the script does with readers of its own.           *)

Own == Readers \ {holds[o] : o \in Objects}

ScriptUsesStream ==
  \/ Source \/ StreamCancel
  \/ \E r \in Own : GetReader(r) \/ ReleaseLock(r) \/ ReaderCancel(r)
  \/ issued < ScriptReads /\ \E r \in Own : Read(r)

StreamStep ==
  /\ stack = NoObject /\ made
  /\ ScriptUsesStream
  /\ UNCHANGED <<objectVars, loopVars, stack, made>>

ObjectStep(o) ==
  \/ \E kind \in BodyKinds :
       \/ \E c \in {"Response", "Request"} : Construct(o, c, kind)
       \/ Fetch(o, kind)
  \/ \E copy \in Objects : Clone(o, copy) \/ RequestFrom(o, copy)
  \/ FetchForm(o) \/ GetBody(o) \/ Consume(o) \/ LoopReads(o) \/ LoopResumes(o)

CallStep(o) == NativeFetch(o) \/ HostAnswers(o)

BodiesNext ==
  \/ /\ NewStream \/ StreamStep \/ \E o \in Objects : ObjectStep(o)
     /\ UNCHANGED call
  \/ \E o \in Objects : CallStep(o)

BodiesSpec == BodiesInit /\ [][BodiesNext]_bodiesVars

\* A loop whose read was answered is a job in the queue, and runs on to its next
\* read.  Nothing makes the host answer.
BodiesFairness ==
  \A o \in Objects :
    /\ WF_bodiesVars(LoopReads(o) /\ UNCHANGED call)
    /\ SF_bodiesVars(LoopResumes(o) /\ UNCHANGED call)

FairBodiesSpec == BodiesSpec /\ BodiesFairness

-----------------------------------------------------------------------------
(* Properties.                                                             *)

\* A body that was read from a stream is whole: the chunks that were left when its
\* loop began, to the last one enqueued, in order and once, whatever clones,
\* fetches and readers of the script did meanwhile.
BodyIsWhole ==
  ~cancelled /\ ~pullThrew =>
    \A o \in Objects :
      outcome[o] = "whole" /\ holds[o] # NoReader =>
        chunks[o] = [i \in 1 .. sent - before[o] |-> before[o] + i]

\* Of all that share a stream one consumes it: a loop never gives the lock back, so
\* the others fail as locked instead of returning a part of the body, or nothing,
\* as if it were all.
OneConsumes ==
  ~cancelled => \A o \in Objects : holds[o] # NoReader => reader = holds[o]

\* text() of a stream that was closed or failed comes to an end, unless the stream
\* was cancelled under it.
EndedStreamEndsText ==
  \A o \in Objects :
    outcome[o] = "reading" /\ state # "readable"
      ~> outcome[o] # "reading" \/ cancelled
=============================================================================
