# Verification of openworkers-runtime-quickjs

TLA+ models of the worker in `src/`, the TLC runs that check them and TLAPS proofs of
what matters most. Line numbers refer to the files under `src/`.

## The system

One `Worker` (`src/worker.rs`) owns one QuickJS context. The host (the runner) calls
`exec(task)` for one task after another; `exec` takes `&mut self`, so never two at once.
JavaScript moves only while a future of `exec` is polled: rquickjs then runs promise jobs
and the native futures that were spawned (sleeps, fetches). Nothing is persisted.

| Component | State | Operations | Interacts with |
|---|---|---|---|
| worker: `new_with_ops`, `exec`, `abort`, `handle_fetch`, `handle_scheduled`, `drain_pending_work` (worker.rs:1123-1593) | `aborted`; the future of `exec`; the result channel `res_tx` of the task | evaluate the script, dispatch, answer, drain, fail, refuse | calls dispatch and drain in JS; host awaits it, may drop it |
| events and dispatch (worker.rs:20-34, 718-757, 866-916) | `__eventListeners`, one event per task (`_response`, `_waitUntilPromises`), the global `__pendingWork` | `addEventListener`, `respondWith`, `waitUntil`, `__dispatchFetch`, `__dispatchScheduled`, `__drainPendingWork` | calls handlers, awaits their promises; the drain calls `__cancelTimers` |
| timers (runtime/timers.rs) | the map `timers`, `nextId`, one native sleep per arming | `setTimeout`, `setInterval`, `clear*`, `__cancelTimers`, the continuation of a sleep | callbacks run script code of any task; `console.error` |
| ReadableStream (worker.rs:227-483) | stream state, lock and controller queue; per reader its pending reads and closed promise | `getReader`, `read`, `releaseLock`, `cancel`, `enqueue`, `close`, `error`, `pull` | consumed by bodies and by response collection |
| streamed response collection (worker.rs:1458-1557) | the global `__streamReader`, a vector of chunks, a bounded channel and its sender task | read until done, answer, send, receive | reads the script's stream; the host receives |
| Response and Request bodies (worker.rs:485-716) | `_body`, `_bodyUsed` | `text`, `json`, `arrayBuffer`, `formData`, `clone`, `body` | read streams |
| Headers, FormData, URLSearchParams (worker.rs:57-225, url.rs:160-285) | `_list`, an array of two-element arrays | append, set, delete, sort, copy, iterate | parameters write to the URL they belong to; a fetch reads headers |
| URL (runtime/url.rs) | `_parts` with the query, `_params` once asked for | constructor, a setter per part, `searchParams` | writes to its parameters |
| outbound fetch (worker.rs:760-863, 918-1112) | none but the call in flight | `__fetchBody`, `do_fetch`, `combine_headers` | `OperationsHandler` of the host |
| text, base64, crypto (runtime/) | TextDecoder's held-back bytes and `_started`; else none | encode, decode, digest | |
| console, native setup (worker.rs:36-47, 1129-1300, lib.rs, snapshot.rs) | none | format and print; register natives | |

What is hard here:

- **Interleaving on one thread.** Handlers, timer callbacks and promise reactions of the
  task being served mix with those that earlier tasks and the script's top level left.
- **Shared globals.** `__pendingWork` and `__streamReader` are one per worker, written by
  one task and read by a later one.
- **Failure paths.** A task that fails leaves `exec` before the drain; a collection that
  fails leaves before its clean-up; `console.error` inside a catch can throw.
- **The host's deadline.** There is none in the code, so hosts drop the pending future,
  and what it left in the context goes on inside the next `exec`.
- **Two queues.** A stream's chunks and its waiting reads live in different objects.
- **Two copies.** A URL keeps its query in `_parts` and again as the list of its parameters;
  lists change some entries in place and share others with the arrays that loops still read.
- **Loops that await.** A body is read over many turns, while clones, fetches and the source
  of the same stream go on.

What makes each part correct: a timer is armed once, fires while it is in the map and
never after; a task's success is reported after the work it covers and once; nothing of
one task runs, or is awaited, in another; a drain ends; a stream neither loses, doubles
nor reorders chunks and strands no read; a response body is its own stream, whole; a request
goes out with a whole body or not at all; an object that holds pairs is a list of its own,
and a URL and its parameters agree; what is encoded decodes to itself, piece by piece too.

## Modules

| Module | Models | Checked by |
|---|---|---|
| `Timers` | runtime/timers.rs | its properties in `worker_isolation` and `worker_live` |
| `TaskService` | abstract: what `exec` promises the host | refinement in `worker_isolation` |
| `Worker` (extends `Timers`) | exec, dispatch, drain, the script as an environment | `worker_*`, four violations |
| `Stream` | operators on one stream: its chunks, and the reads that wait | used by the next two and `ResponseStream` |
| `SimpleStream` (extends `Stream`) | abstract: what a stream promises its two ends | refinement in `streams` |
| `ReadableStream` | one stream, controller, readers | `streams` |
| `Bodies` (extends `ReadableStream`) | bodies of Response, Request and fetch over a shared stream, and what a fetch does with its body | `bodies` |
| `ResponseStream` (extends `Stream`) | collection of streamed responses, the channel | `collect`, one violation |
| `TextDecoding` | TextDecoder, runtime/text.rs | `data_classes` |
| `Arrays` | Array.prototype.filter | used by the next four |
| `PairLists` | abstract: what a list of pairs promises | refinement in `data_classes` |
| `Lists` | Headers, FormData, URLSearchParams, `combine_headers` | `data_classes` |
| `Url` (extends `Lists`) | URL and its link to its parameters, runtime/url.rs | `data_classes` |
| `Base64` | btoa and atob, runtime/base64.rs | `data_classes` |
| `MCData` | the instance of the last five | |
| `TimersProofs`, `WorkerProofs`, `ReadableStreamProofs`, `BodiesProofs`, `ResponseStreamProofs`, `UrlProofs` | theorems about the module of that name | TLAPS |
| `CodingProofs` | theorems about `TextDecoding` and `Base64`, and about the instance `MCData` | TLAPS |
| `ArraysProofs` | lemmas about filtered, sorted and joined arrays | TLAPS |

### Timers

`timers[id]` is the entry of the map with the kind of the timer, `sleeps[id]` counts
native sleeps of `arm` that have not ended, `running` is the timer whose callback is on
the stack. `Schedule`, `ClearTimer` and `CancelTimers` are the functions scripts and the
drain call; the continuation of `__sleep` is `WakeCancelled` (no entry) or `WakeFires`
(entry taken, callback called), and `CallbackReturns` (the re-arm of an interval that is
still in the map). `CallbackThrowsUnprintable` is a callback that throws a value
`console.error` cannot format: the throw leaves the continuation before the re-arm; a
callback that throws anything else ends like one that returns. Delays are abstracted:
sleeps may end in any order.

### Worker

Every turn of JavaScript (the script's evaluation, a handler, a timer callback, a promise
reaction) has an `actor`: the task, or `Script` for the top level, whose code asked for
it. The code keeps no such record; it is what isolation is stated in. Within a turn
(`ScriptEffect`) the script may do all that the API offers, any number of times. Between
turns, and only while `exec` is pending (`Polled`), the executor fires timers, finishes
native operations, and resumes the dispatch loop (`CallHandler`, `FetchHandlersDone`,
`ResponseSettled`, `ScheduledHandlersDone`, `WaitAllSettled`) and the drain
(`DrainSettled`, `DrainThrows`), for any task: the dispatch or drain of a task whose
`exec` was dropped goes on too. `rust` and `cur` are the position of `exec`; its branches
are `Exec`, `ExecAborted`, `ExecInvalid`, `FetchAnswered`, `CollectBegins`, `Collected`,
`ScheduledAnswered`, `FetchFails`, `ScheduledFails`, `ExecReturns`. `pendingWork` is the
alias `__pendingWork`: the task whose list it is, since the list may still grow. `owed`
is history: the task's promises when it was answered (`awaited` is what its drain read).

Abstractions: a listener is counted, not kept; promises are drawn from a small set and may
be shared between tasks; of two rejections of one `Promise.all` the model does not keep
which came first, so a drain with a printable and an unprintable rejection may end either
way; jobs and native futures are resumed in any order (QuickJS's job queue is
first-in-first-out, the order of native completions is not).

### TaskService

What the host may rely on: one task at a time, a closed service accepts none, a status is
final, a reply is given at most once and while the task is served, success implies that
the reply was sent, and the channel of a refused task is dropped. `Worker` implements it under
`serving <- cur, closed <- aborted, status <- result, reply <- answer`.

### Stream and SimpleStream

A stream seen from outside is one record: its state, the chunks it holds, the reads that
wait. `Stream` says what enqueue, close, error and read make of it. `SimpleStream` is the
specification built from these: chunks and reads are paired in their orders, the end is told
when all was read, an error at once. Two actions say where the code promises less: `Cancel`
forgets who waits (worker.rs:268), and after `PullThrows` a rejected read still takes a chunk
(worker.rs:401). Once a script has made a reader with `new`, which takes no lock but can
release that of another, nothing is promised (`meddled`).

### ReadableStream

One stream with any number of readers. `ProcessQueue` is the loop of
`ReadableStreamDefaultReader._processQueue` in closed form: the first n requests get the
first n items, the close marker ends it and answers the rest. A call of `pull` is not an
action: what it does at once or later is `Enqueue`, `CloseStream` or `Error`; only a pull
that throws at once differs (`ReadPullThrows`). A `cancel` callback that throws leaves
`ReadableStreamDefaultReader.cancel` before `releaseLock`: the stream is cancelled and the
reader is not released (`ReaderCancel`). Calls that throw without effect (a second
close, getReader on a locked stream) are left out, they change nothing. The module
implements `SimpleStream` (`IsSimple`): `waiting` is the request list of the reader that has
the lock, and a stream whose close marker is in the queue is `closing`. What holds of
`SimpleStream` holds of the code by that: reads that report the end do so when all was read
or taken, ended streams leave no read waiting, and only the reader that has the lock takes
chunks. `NoLostWakeup`, `ReadsInOrder` and `NoChunkLost` are stated besides, since they hold
with meddling readers too.

### ResponseStream

Each task has its own stream, the record of `Stream`, whose operators are the answers
that `ReadableStream` was shown to give. `helper` is `globalThis.__streamReader`. A read
that waits names the collection that asked (`Waiting`); once that `exec` was dropped its
answer goes nowhere, but its `done` still deletes the global. A job queued by a settled read
runs before `exec`'s Rust code goes on (rquickjs drains the job queue before it polls the
future again), so both are one step. Sources run whenever `exec` is polled, also those of
tasks that are over, and may fail a stream after they closed it.

The script may keep a reader of the body (`ScriptLocks`), throw from `pull` (`ReadPullThrows`:
the read is rejected, its request stays and takes the next chunk) and call `stream.cancel`,
which asks for no lock (`CancelBody`): it closes the stream and takes the reader off it
without settling what it was asked. A read that waits then is never answered, so the loop at
worker.rs:1501, and `exec` with it, waits until the host drops it; `forgotten` is the set of
tasks whose loop that befell. What the script reads of a body through a reader of its own is
left out here: those chunks do not reach the host. `ReadableStream` and `Bodies` have such reads.

### Bodies

`Objects` are the Responses and Requests a script makes and its calls of `fetch`; all whose
body is a stream have the one stream of `ReadableStream`, which clone, `new Request(request)`
and the constructors pass on. `Consume` is `text`, `json`, `formData` or `arrayBuffer`,
`Fetch` the reading of `__fetchBody`. Each is a loop of steps: `Begin` up to `getReader`,
`LoopReads` one `read`, `LoopResumes` what follows its await (`Collects` a chunk or
`Finishes`). `stack` is the loop that is running; until it awaits, nothing else moves.
`StreamStep` is the source and the script with readers of its own. A `Request` does not know
streams and reads as `String(stream)` (`stringified`). `GetBody` is the `body` getter of a
buffered response, whose stream is filled and closed when it is made. Chunks are bytes;
readers are made with `getReader` only.

A fetch goes on when its body was read: `NativeFetch` is `do_fetch` up to the host, which it
asks, or refuses the method or the options; `HostAnswers` is the answer, or the error of the
host or of collecting the answer's body. `FetchForm` is a multipart body, refused before
anything is read. `Worker` has the same fetch as an operation in flight of its task.

### Lists and PairLists

`PairLists` is what a script sees: objects, each with its own sequence of pairs, of which a
method changes the one it is called on. The code is not made like that. `_list` is an array
of two-element arrays; `append` and `sort` change the array, `set` of forms and parameters
changes an entry, `delete` and `set` of headers replace the array by a filtered one with the
same entries, and a loop keeps the array it began with. So `Lists` gives entries an identity:
`list[o]` is a sequence of indices into `entry`, `InPlace` and `Replace` are the two ways to
change it, `walk` is one loop with the array it reads. `Construct` and `Copy` make new entries.
`Filtered` of `Arrays` is `Array.prototype.filter`, as a recursive function since proofs go
through it.
`Combined` is `combine_headers` with the values of one name kept apart; `Carried` is the body of
its loop, one header after another.

### Url

`parts[u]` is `_parts`: the query as its pairs, and of the other parts those that a setter
treats differently. `params[u]` is `_params`. `CallMethod` is a method of a list followed, for
parameters, by `_update` of the URLs they belong to; `Reload` is `_reload`. A list may hold a
string with a lone surrogate (`Unpaired`), which no native function takes:
`__urlencoded_serialize` throws after the method changed the list (url.rs:202, 148-157), the
method throws with it, and the URL keeps its old query (`Update`, `Encodable`). `LinkAgrees`
therefore speaks of lists that can be serialized; it also says that the first method which makes
a list serializable again joins the two. `SetHost` to
`SetHash` are `apply` (url.rs:42-105): no part is changed by an invalid value, nor host, port
and path of a URL that cannot be a base, but see Findings for a port given with a host, of which
no property speaks.

### Base64

Characters are the numbers they stand for, or padding, white space, or another. `Btoa` and
`Atob` are `encode` and `decode` with the refusals of both; `ToSextets` and `ToBytes`, the
regrouping of 24 bits at a time, are those of the base64 crate. A script then spreads white
space, leaves out the padding or inserts characters.

### TextDecoding

`pending` and `started` are the two fields of the decoder; the rest is its options and the
history of the current text: the bytes given, the characters returned, whether a call threw.
`Decode` is one call, `Reset` the call without arguments, `NextText` uses the decoder again
and changes the history only. `Decoded`, made of `FirstChar` after `FirstChar` (`CharSize` bytes
each), `Begins`, `Seconds` and `Expected` are the utf-8 of Rust's standard library (`from_utf8`,
`from_utf8_lossy`), which is not under `src/`. What `incomplete_tail` holds back starts with a lead
byte whose character would be longer; the bytes after it are not looked at, so `E0 41` is held back
whole although nothing can complete it (text.rs:7-22), and decodes with the next call.
`PiecesMakeTheWhole` leaves out two cases in which the code differs from the whole: a byte
order mark cut by a call (`MarkSplit`: the first call sets `_started` before it has a
character to look at, so the mark stays) and a text begun after a fatal decoder threw
(`plain`: `_started` is then what the failed text left).

## Runs

| Run | Instance | Shows |
|---|---|---|
| `worker_work` | 1 fetch, 1 scheduled task, 2 promises, 2 listeners, 1 operation per owner, failures | the drain of a fetch and success relate to the right promises |
| `worker_isolation` | 1 fetch, 1 scheduled task, 2 timers, 1 promise, failures, drops, unprintable errors | control agreement, no code after success, timers armed once, kept until a script or the right drain removes them and silent after that, refinement of TaskService |
| `worker_live` | 1 fetch, 1 scheduled task, 1 timer, 1 promise, failures, drops | responses are not delayed, drains end, intervals go on |
| `streams` | 3 readers, 3 chunks, 4 reads, throwing pull | no lost, doubled or reordered chunk, no stranded read, refinement of SimpleStream |
| `bodies` | 2 objects, 2 readers, 2 chunks, 1 read of the script, throwing pull | one object reads a shared stream, a body read is whole, reading ends |
| `collect` | 2 responses, 2 chunks each, capacity 1, errors, throwing pull, cancels, drops | bodies are whole and their own, collection of an ended stream ends |
| `data_classes` | texts of up to 5 bytes in pieces of up to 3; 2 objects, 3 names, 2 values, up to 4 entries; 1 URL; strings of up to 4 units with 2 edits | pieces decode as the whole does, fatal errors are exact; refinement of PairLists, loops meet all pairs, headers combine; a URL and its parameters agree; atob undoes btoa |
| five violations | smallest instance each | see Findings |

Bounds. Two tasks are what one task can do to the next, in both orders of kinds; a third
would repeat it, and the theorems hold for any number. Two promises are the least for
which one rejects while the other is pending, two listeners the least with a second call
of the loop, two timers the least of which one outlives the other, or a callback arms
or clears besides its own. `MaxOps` bounds per owner what is in
flight at once, not how often. In `collect` the capacity (16 in the code) is 1 and bodies
are longer, so the sender blocks; `MaxChunks` 2 gives a chunk before and after. In
`streams` three readers give a released, a current and a later one. In `bodies` two objects
are a body and whatever shares it, two readers one for each of them or one for the script; a
loop never meets the bound on reads (`ReadsAssumption`).

In `data_classes` the classes share no state, so `MCData` runs them as parts beside each
other and their states add up: the decoder; lists without a URL; loops over one object (a
loop looks at no other) with up to three entries; the link of a URL with two parameter
objects of three entries, its other parts fixed; the setters of all parts, without
parameters; base64. Two objects are a list and its copy (three entries when they are of
different classes); of the names two differ in case only and one is `cookie`; two values
tell a changed entry from an old one, and one of them has a lone surrogate (loops see both
under one name only, and URLs no two names that differ in case); four entries are a deleted,
a changed, a kept and a new one. Base64's units are the least and the greatest byte, one with bits in every group
(105), and one that is no byte; four of them are a full group and the next one, in every
length modulo three. For the decoder the bytes are one of each role: ascii, a continuation,
leads of three and four bytes, and those of the byte order mark; five bytes hold the longest
character cut anywhere with one before or after it. `CHECK_DEADLOCK` is off because the
system rests: when every task was submitted once, or every bounded call made, nothing more
need happen.

## Fairness

`Worker!FairSpec`: weak fairness of the end of a turn (a script that loops for ever stops
the worker altogether, abort included, TODO.md says so), strong fairness of the one thread of
control of a task: while `exec` is polled jobs run first-in-first-out, so a job or a Rust
future that is ready again and again gets its turn although other turns come between.
Nothing is assumed of scripts (no promise need settle), of fetches, or of the host.
`ResponseStream!FairSpec`: the loop goes on once a read is answered; neither the source
nor the host's reading is fair. `Bodies!FairBodiesSpec`: a loop whose read was answered is a
job in the queue and goes on; the source is not fair, and nothing makes a host answer a fetch.
Strong fairness is used where other loops of the same stack may come between.

## Proofs

The theorems hold for every set of tasks, timers, promises, readers, chunks, reads and
objects, and for every bound. Each is one inductive invariant per component, shown for
`Init` and for each action, and what follows from it; TLC checked every conjunct on the
instances above before it was proved. All safety properties of the passing runs are theorems.

- `TimersProofs`: `TimersInv` relates map and sleeps: an id not handed out has neither, a
  timer has at most one sleep and none while it is running, a timeout in the map has one. It
  gives `TimersTypeCorrect`, `TimersSleepOnce`, `TimersTimeoutsArmed` and the action property
  `TimersRemovedStaySilent`. `TimersIntervalsArmed` assumes `Unprintable = FALSE`: a callback
  that throws what `console.error` cannot print leaves its interval in the map unarmed
  (Finding 4 is the same flaw of the catch blocks).
- `WorkerProofs`: `WorkerInv` is the type invariant, `ControlInv` and
  `FetchDrainsItsOwnWork`. `ControlInv` is needed because each of its parts alone is not
  inductive: that a fetch's drain reads its own list needs `pendingWork` to be the fetch
  being served up to its answer (`WorkAgrees`), which needs to know that nothing but
  `Exec` of another task writes it, which is so because `exec` serves one task and has not
  answered it (`PhasesAgree`). From it: type correctness, control agreement,
  `FetchDrainsOwnWork`, `ScheduledSuccess`, `SuccessAfterWork`, and, since a drain still awaits
  only for the task being served or a dropped one, the action property `WorkerKeepsTimers`.
  `AnsweredStaysAnswered` assumes `Unprintable = FALSE`; without it, it
  is Finding 4.
- `WorkerImplementsTaskService` is the refinement of the worker, step by step. That every step
  of it is one of `Timers` or leaves the timers alone is a lemma, by which
  `WorkerRemovedTimersStaySilent` follows from the theorem about `Timers`.
- `SuccessIsolates` assumes `MaxOps = 0`, no fetch in flight and no queued reaction when
  the drain ends: with them isolation is false (Findings). Its extra invariant `Quiet` says that
  a task that succeeded has no timer in the map and no turn.
- `ReadableStreamProofs`: `StreamInv` ties the queue to the requests. The queue holds the
  chunks sent last (`QueueInOrder`), what left it was read (`TakenWereRead`), the requests of
  the reader with the lock were called after every read that has a chunk (`WaitersAreNext`),
  and queue and requests are never both non-empty (`NoLostWakeup`). None of these is
  inductive without the others: that a chunk goes to the right read needs the order of both
  queues, and that order is kept because one of them is empty whenever the other grows. From
  it `StreamWakesReads`, `StreamReadsInOrder`, `StreamLosesNoChunk` and, step by step,
  `StreamIsSimple`, the refinement of `SimpleStream`; `LockIsHeld` is what the refinement
  needs besides, while nobody meddles.
- `BodiesProofs`: `BodiesInv` keeps `StreamInv` and adds the loops. The one request of a reader
  is the read that its loop awaits (`AwaitedWaits`), and the chunks a loop has are those that
  left the queue since it began (`LoopsInStep`), which holds because no other loop reads
  through its reader (`BodiesTypeOK`) and no other object consumes (`OneConsumes`). From it
  `BodiesReadWhole`.
- `ResponseStreamProofs`: `CollectInv`. A collection that began without a reader of another in
  `__streamReader` reads its own stream only (`OwnCollection`), since reads that older
  collections left are answered first (`StaleReadsFirst`) and nobody reads a stream before its
  response is collected (`UnreadBefore`); while `exec` waits for a read that a cancel forgot, no
  other read waits (`ForgottenAskNothing`). What it has is always a beginning of what the stream
  was given: `Leads` says how the items still queued complete it. From there the chunks are
  followed through vector, channel and body (`DeliveredInOrder`): `CollectBodyIsItsStream`.
- `UrlProofs`: `UrlInv`. No entry is in two arrays that objects hold, nor twice in one, so a
  method that changes entries in place changes one object. Every method, constructor and
  reload is one `OwnStep`: it keeps some entries of its own array in any order, changes at
  most those, and adds new ones at the end. One lemma shows what that preserves, one lemma per
  operation that it is such a step. The loop over the pairs sees its array grow, or keeps the
  one that was replaced (`WalkInv`), hence `ListLoopsMeetAll`; each side of a URL writes to the
  other, hence `UrlLinkAgrees`: a method that threw leaves a list that has no serialization, of
  which it says nothing, and every later one compares the whole list again. `UrlKeepsPromise` is the refinement of `PairLists`: one lemma
  per method compares the pairs it leaves with what `PairLists` promises of that method.
  `ListsLoseNoHeader` is by induction over the pairs that `Combined` has gone through: what it
  has of a name is what the pairs so far with that name give (`CombinedCarries`).
- `CodingProofs`, the decoder: `DecoderInv` says that the bytes given so far are those that were
  decoded, `done`, and the `pending` ones, and that the text returned is that of `done` alone.
  It is inductive because a call always cuts where a character begins or none goes on: what it
  holds back begins with a lead, so no decoding of a longer text has a character across the cut
  (`Parted`, from `HeldParts`). Hence what follows the cut decodes as it does on its own
  (`CutDecodes`), valid or not, and `DecoderPiecesMakeTheWhole` and `DecoderFatalIsExact` compare
  `done` and `pending` with the whole. The mark goes from the first call's characters only, which
  is why a split mark is excepted.
- `CodingProofs`, base64: 24 bits are their three bytes and their four sextets (`BytesOfBits`,
  `SextetsOfBits`); in a last group that is not full the sextets that were left out are 0. So
  bytes come back from their sextets (`BytesReturn`), and sextets from their bytes up to the last
  one (`SextetsReturn`), for arrays of every length. `Base64Inv` says that an undamaged text
  without its white space is what btoa returned, with all of its padding or with none; this needs
  what filtering does to arrays that are joined or filtered before (`FilteredJoins`,
  `FilteredTwice`). From it `AtobReturnsTheString`; `AtobInventsNothing` needs no more than that
  the text is one of characters. Strings have any length and any code units.
- `DataTypeCorrect`: the instance `MCData` does nothing that the decoder, the lists and URLs, and
  base64 do not do on their own (`InstanceOfAll`), so their theorems hold in it.
- `ArraysProofs`: what `Filtered` keeps, in order; that the concatenation of the filtered parts
  is a stable sort which loses nothing; how filtering commutes with looking entries up; and what
  it makes of arrays that grow, are joined, or were filtered before.
  The library's induction theorems take an operator, which the provers cannot instantiate;
  lemma `Inductive` states induction for a set instead, from the well-foundedness of the
  natural numbers, and gives what the recursive functions compute.

Assumed of the constants, and named where they are declared: `ChunksAssumption` and
`ReadsAssumption` (`Bodies`, the bounds of the instance), `LowerAssumption` (lower-casing twice is
lower-casing once), `NamesAssumption` (names are ordered), and that the markers for "none" are
none of the values. Assumed about the environment, which is not under `src/`: jobs and spawned
futures run only while a future of `async_with` is polled; `Promise.all` settles with the first
rejection, or when all are fulfilled; tokio's mpsc and oneshot channels; `filter` and `sort` of
arrays.

Only model-checked: liveness (`worker_live`, `CollectionEnds` and `EndedStreamEndsText`: it needs
fairness and ENABLED, which are beyond the prover), and the violations, which are counterexamples. What
the code of libraries computes (utf-8, base64, `filter`, `sort`) is proved of its definition here,
not of the library.

## Findings

1. `fetch_outlives_task` (README.md:51-53): a fetch that was not awaited outlives its task;
   its continuation runs inside the next one. Only timers are cancelled.
2. `failed_task_timers` (worker.rs:904): a task that fails is not drained; its timers fire
   inside the next task.
3. `early_rejection` (README.md:51): one rejection ends the drain while other `waitUntil`
   promises are pending, and cancels the timers they may wait for.
4. `unprintable_rejection` (tests/pending_work_test.rs:125): a rejection that
   `console.error` cannot format fails a task that was answered and skips the cancelling.
5. `collect_after_error` (worker.rs:1465, 1518): after one streamed response failed (its stream
   errored or its `pull` threw), the reader of the failed stream stays in `__streamReader` and every later streamed response
   reads it instead of its own stream.

Differences from what a comment or a test says that no run of their own shows:

- worker.rs:854: `if (result.error)` takes an empty error message for success; the call then
  resolves with status 0 shown as 200.
- worker.rs:1374 says that the drain is of "the task that just answered". That of a scheduled task
  awaits what a fetch that failed or was dropped left in `__pendingWork` (`Worker!DrainSnapshot`).
- worker.rs:915: the drain of a task whose `exec` was dropped goes on inside the next one and
  cancels its timers (`Worker!DrainSettled`); `TimersKept` excepts it.
- worker.rs:268: a `stream.cancel` of the script while its response is collected leaves the loop's
  read unanswered and `exec` waiting (`ResponseStream!CancelBody`); `CollectionEnds` excepts it.
- url.rs:202, 148-157: `append`, `set`, `delete` and `sort` change the list before the serializer
  may throw, and then `url.searchParams` and `url.href` differ (`Url!Update`).
- url.rs:42 says that setters ignore invalid values; `host` with a valid host and an invalid
  port removes the port there was (url.rs:65, `Url!SetHost`).
- url.rs:56: `host` splits at the first colon, so an IPv6 address with a port is ignored.
- tests/text_test.rs:110 strips a byte order mark; one that comes in two pieces stays
  (text.rs:124, `TextDecoding!MarkSplit`).

## Not modelled, and the plan

Not modelled, with the reason:

- crypto: digests and random bytes come from libraries and leave no state.
- native setup, lib.rs and the snapshot stub: registers functions and re-exports names.
- console: the lines are output; that formatting may throw is `Unprintable` of `Timers`.
- delays as numbers (timers.rs:31): sleeps may end in any order, which includes every delay.
- the conversion of a status (worker.rs:1552), the table of status texts, the coding of fetch
  options as JSON: conversions of one value at one place, better tested than modelled.
- parsing and serializing of URLs (the url crate), the setters of protocol, username and
  password, which apply like `SetPort` does, and the urlencoded coding of forms (multipart
  forms are refused, worker.rs:208 and 778).
- TextEncoder and the choice of a label: no state.

The safety properties of the passing runs are proved, so what is left to do is to model more: of
this list the urlencoded coding first, which the three list classes share.
