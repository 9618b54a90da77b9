# Formal model of whatwg_streams

TLA+ specifications of the Rust crate `whatwg_streams`
(`src/crates/whatwg_streams/src/streams/`), the TLC instances that check them,
and proofs of the main results. Line numbers below are those of that
directory's files.

## 1. The system

The crate implements WHATWG Streams on ordinary Rust futures. Each stream is
one *task* (a future the caller spawns on any executor) that owns the
underlying sink or source, plus any number of *handles* on other threads.
Handles and task share:

* an unbounded command channel (handle to task), each command carrying the
  sender of a oneshot that is the caller's promise;
* an unbounded controller channel (sink or source to task);
* a few atomics and a stored error that the task publishes and handles read;
* sets of wakers (`shared.rs`) that travel to the task as commands.

| component | state it keeps | operations | talks to |
|---|---|---|---|
| writable task (`writable.rs` 767-1265, 1597-1761) | `WritableStreamInner`: state, queue, total size, backpressure, close and abort requests with their completions, flush counters, the sink; the operation in flight | start; poll = controller messages, publish flags, drain commands, signal abort, dispatch one sink operation, drive it | sink (start, write, close, abort), handles through flags, wakers and oneshots |
| writable handles (`writable.rs` 95-710, 1268-1593) | command sender, atomics, refcounted writer lock, adapter receivers | write, enqueue, enqueue_when_ready, flush, close, abort, ready, closed, desired_size, get_writer, release_lock, `Sink`, `AsyncWrite` | writable task |
| readable task (`readable.rs` 2187-2583) | `ReadableStreamInner`: state, queue, pending reads, cancel request, source, `needs_pull`, `close_pending`, pull and cancel futures | start; poll = controller messages, commands, cancel future, pull gate, pull future | source (start, pull, cancel), reader |
| default reader and controller (`readable.rs` 112-247, 1710-1765, 1822-2100) | lock flag, `close_requested` and `error_requested` | read, cancel, closed, ready, release_lock, `Stream`; enqueue, close, error, desired_size | readable task |
| byte stream (`byte_state.rs`, `readable.rs` 2587-2795) | buffer, pull-into queue, six flags, four waker slots under separate locks | read, BYOB read, enqueue, respond, close, error, cancel; the byte task's pull, serve and command branches | source, readers |
| tee (`readable.rs` 615-1100) | per branch: pull signal, cancelled flag and reason; the shared cancel result | coordinator loop, branch pull and cancel | a reader, two controllers |
| pipe (`readable.rs` 458-600) | none of its own | ready, select(read, closed), write, shutdown actions | reader, writer, abort signal |
| transform (`transform.rs`) | `SpaceSignal` (pending, has_space, two wakers), command and cancel channels | write, close, abort, cancel, backpressure waits | a writable's sink, a readable's source |
| abort signal, waker set (`shared.rs`) | flag, reason, wakers | abort, aborted_future | pipe |
| strategies (`mod.rs`), errors, platform shims, builders, iterator sources | none that changes | - | all |

### What is hard here

* Check-then-register: every waiting future reads a flag, sends or stores its
  waker, and may or may not look again.
* Hand-published state: handles act on atomics that may be behind the task.
* One step finishing several promises: an error has to settle everything that
  waits, and each error path clears its own selection of the fields.
* Endings that overlap: abort during close, close behind abort, controller
  errors inside a write, cancel while the source is away in a pull.
* Promises that depend on the task: the executor may drop it at an await.

### What makes each part correct

* Writable: FIFO delivery, exact accounting, the first error wins, one ending
  for the sink, every promise settles with the right outcome, no lost wakeup.
* Readable: FIFO delivery, no chunk lost or handed out twice, at most one pull,
  none after close, error or cancel, first error wins, every read settles.
* Byte stream: bytes in order, BYOB reads served first come first served, no
  stranded reader, source returned or cancelled exactly once.
* Tee: both branches see the same prefix, source cancelled once and only when
  both branches are.
* Pipe: nothing read after the destination failed, shutdown actions run once.
* Transform: backpressure bounds the readable queue, flush and cancel exclude
  each other, both sides end.

### The modules

| part | model | properties | instance | proofs |
|---|---|---|---|---|
| writable stream | `WritableStream` | `WritableStreamProps` | `MCWritableStream` | `WritableStream_proofs` |
| its contract | `WritableEnd` | | | |
| readable stream | `ReadableStream` | `ReadableStreamProps` | `MCReadableStream` | `ReadableStream_proofs` |
| its contract | `ReadableEnd` | | | |
| byte stream | `ByteStream` | `ByteStreamProps` | `MCByteStream` | `ByteStream_proofs` |
| transform | `Transform` | `TransformProps` | `MCTransform` | `Transform_proofs` |
| tee | `Tee` | `TeeProps` | `MCTee` | `Tee_proofs` |
| pipe, over the two contracts and the signal | `Pipe` | `PipeProps` | `MCPipe` | `Pipe_proofs` |
| abort signal | `AbortSignal` | in the module | with the pipe | `Pipe_proofs` |
| poll traits, over the two contracts and the lock | `Handles` | `HandlesProps` | `MCHandles` | `Handles_proofs` |
| lock | `StreamLock` | in the module | with the handles | `Handles_proofs` |
| what is kept of a sequence, and its sum | `SeqFolds` | | | `Facts` |

The two task modules stand alone and are shown to implement the contracts; the
pipe and the handles are built on the contracts, so that the detail of a stream
is explored once and not again in every composition. Transform and tee keep, of
the streams around them, the few fields they look at: their races are with the
control channels and pull gates inside those streams, which the contracts hide.

A definition preceded by "Variant:" is no part of a specification. It is the
form a plausible bug would give the definition that follows it; put in its
place, it makes the property named in `PROJECT.json` fail.

The instances, with the states TLC visits: `writable_safety` 667 000,
`writable_liveness` 120 000, `readable_delivery` 471 000, `readable_waiters`
205 000, `bytes_delivery` 1.4 million, `transform` 1.7 million, `tee` 966 000,
`pipe` 92 000, `handles` 211 000. `pipe_hangs`, `transform_deadlock` and
`bytes_pull_lost` end in a counterexample to what the code's own text says.
Check one with `tlc -config tee.cfg MCTee`, a proof with `tlapm Pipe_proofs.tla`.
No run checks for deadlock: a stream nobody calls, or one that has ended, stops.

The hazards, with the line where each bites and the property that watches it,
are listed in `PROJECT.json`.

## 2. The writable stream: `WritableStream.tla`

### State

| variable | code |
|---|---|
| `cmds`, `ctrls` | the two channels |
| `inner` | `WritableStreamInner`; `inner.sink` says whether the sink is in its slot |
| `inflight` | `Option<InFlight>`; `result` is what the sink's future will yield |
| `flags`, `storedError` | the atomics and the shared error the handles read |
| `signal` | what `request_abort` wrote for the sink |
| `wakers`, `woken` | ready and closed waker sets; futures whose waker has fired |
| `result`, `waitPc` | what each call's future has yielded; where each `ready()`/`closed()` future stands |
| `pc`, `scheduled` | the task's phase; has its waker fired |
| `handles` | does any command sender still exist |
| `prior`, `sunk`, `ended`, `raised` | history, for properties and for use-once inputs |

Chunks are numbers, handed over in increasing order. A chunk's size is
`Size[w]`, a reason is the abort that gave it, an error is a label. A call is
made at most once, which is the only bound on the state space; there is no
other counter limit.

### Steps

The task's poll runs `control -> (flags ->) drain -> drive -> idle`. It is cut
into steps exactly where a handle on another thread can see or change
something in between: before and after the wake-up in
`process_controller_msgs` (which precedes the flag store, 949-963), between
two commands, between dispatch and drive. Within a step several atomics are
stored at once: the stores inside one `update_flags` are not told apart, and
neither are the three loads at the head of `ready()` and `closed()`. The sends
of a waker and the second look at the flag are separate steps (`Register`,
`Recheck`), because that gap is what the code's comments argue about.

Each arm of `process_command` is an action; so is each branch of the dispatch
(987-1096) and of the end of an operation (1099-1237). The sink's futures
become ready whenever they like, with either result (`SinkCompletes`); one that
is ready at its first poll is `SinkCompletes` between dispatch and drive.
`TaskDropped` is the executor dropping the task at an await point, which drops
every oneshot sender it holds.

Two branches of the code are absent because they never run: "Sink missing"
(1087-1094) and the second abort that is queued behind a first (841-843). The
first is excluded by `WritableHasSink`, the second by `AbortLeavesWritable`;
both are conjuncts of `Ownership`, which is proved.

`Enqueue`'s recorded result is what becomes of its chunk, since the code gives
the caller none.

### Properties (`WritableStreamProps.tla`)

| property | says |
|---|---|
| `Ownership` | the sink is where the code takes it for; nothing runs after close or abort; a writable stream has no stored error |
| `Accounting` | while writable, the total is the size of the chunks queued or in the sink, and backpressure is `total >= HWM` |
| `FlagsCurrent` | the atomics agree with the task's state except in the one gap of `process_controller_msgs` |
| `FlushBarrier` | after `flush()` returned Ok no earlier chunk is outstanding |
| `FirstErrorWins`, `SinkEndsOnce`, `WriteKeepsOwnResult` | what no step may do |
| `PromisesSettle`, `WaitersWake` | what must happen |
| `ImplementsEnd` | the task implements `WritableEnd` |

`WritableEnd` is the abstract specification: a line of accepted chunks, the
method of the sink under way, what the sink was given, and how it was ended.
Chunks reach the sink one at a time and in order; it is closed only when the
line is empty, closed or aborted at most once, and given nothing afterwards.
The refinement mapping reads the line off the queue while the stream is
writable: an errored stream still holds its queue for a moment, with nothing
to come of it.

### Runs

| run | instance | shows |
|---|---|---|
| `writable_safety` | 3 writes of sizes 1, 2, 0, HWM 2, a flush, a close, an abort, a controller error | `TypeOK`, `Accounting`, `FlagsCurrent`, `FlushBarrier`, `FirstErrorWins`, `WriteKeepsOwnResult`, `ImplementsEnd` |
| `writable_liveness` | 1 write, HWM 1, a close, an abort, a `ready()`, a `closed()`, with fairness | `PromisesSettle`, `WaitersWake` |

`Ownership` and `SinkEndsOnce` are not run, because they are proved.

Why these bounds are enough: three chunks are the fewest for one in the sink
and two queued, whose sizes put the total below, at and above the mark, and the
zero-sized one separates "queue empty" from "total zero". One close, abort,
flush and error each suffice, since the second of a kind is refused or moot
(`CommandRefused`, `CommandAbortMoot`); the proofs cover any number. The
liveness instance keeps a single write because the interesting race is between
one completion and one registration. Deadlock checking is off: a stream nobody
calls stops.

Fairness (`FairSpec`): a woken task is polled and its poll runs to the end, the
start and the operation in flight return, a woken waiter is polled. Callers owe
nothing, the task may be dropped at any await point, and no strong fairness is
used.

### Where code and documentation part

The first is shown by the run `pipe_hangs` (section 7). The others were seen
while modelling and are recorded here; no run is spent on them.

* `ready()` can hang. When a write fails with others queued at or over the
  mark, the stream is errored with backpressure still set, and `update_flags`
  (1262) wakes ready wakers only without backpressure. `WaitersWake` therefore
  says of `ready()` only what holds while backpressure stays off.
* `flush()` can hang: an abort (856) drops the queued writes a flush counts,
  and nobody settles the flush. `PromisesSettle` leaves flushes out.
* A flush whose last write fails resolves Ok: the counter goes down before the
  result is looked at (1110).
* An abort does not stop a close that was requested before it and not begun:
  dispatch (1027) starts it, and it may turn Errored into Closed.
* `abort_reason()` reads `None` again on the poll after the reason was handed
  to the sink (989).
* A controller error drops the senders of queued writes, which then report
  `TaskDropped` and not the error (1754).

### Proved (`WritableStream_proofs.tla`)

From `NumbersAssumption` (chunks and sizes are naturals) and
`DisjointAssumption` (kinds of call are different types), for every set of
calls, sizes and mark:

* `TypeCorrect`: `TypeOK` is inductive. One lemma per group of actions
  (`HandleStepType`, `CommandStepType`, ...), over lemmas about the helpers.
* `OwnershipHolds`: `Ownership` is inductive relative to `TypeOK`. Its fourth
  part (a writable stream has no error) needs the second (an abort has left
  Writable), and the first needs the third: when a write ends and the stream is
  still writable the sink goes back, which is right only because no ending was
  called while the write held it. `OwnershipUntouched` disposes of the steps that touch none of it.
* `StoredErrorPinned` and `SinkEndsOnlyOnce`: `FirstErrorWins` and
  `SinkEndsOnce`, from `Ownership`.
* `FlagsStayCurrent`: from `TypeOK` and `Ownership`; the one step that changes
  the total without publishing it (`FinishWriteThenAbort`) is harmless because
  the stream has left Writable.
* `AccountingHolds`: `Accounting` is inductive once the size of the line is a
  fold over it (`Total`), given that the line is empty once the stream is not
  writable (`SinkInv`) and that a write in the channel is not yet in the line.
* `FlushBarrierHolds`: a flush in the channel has everything it waits for before
  it (`QueuedFlush`); once it was taken, its counter is the number of its writes
  that are outstanding (`CountedFlush`), and one that reaches zero settles its
  flush in the same step (`CountsDown`). For this the writes stand in the
  channel, the line and the sink in the order of their numbers, each in one
  place, and those in a place are the ones that wait (`InOrder`, `InPlace`).
* `WritesKeepTheirResult`: `WriteKeepsOwnResult`, from `Ownership` and the
  invariants of the line.
* `WritableStreamImplementsEnd`: see section 9.

Only model-checked: liveness (`PromisesSettle`, `WaitersWake`).

## 3. The default readable stream: `ReadableStream.tla`

### State

| variable | code |
|---|---|
| `cmds`, `ctrls` | the command and control channels |
| `inner` | `ReadableStreamInner` with `needs_pull` and `close_pending` of the poll function; `inner.source` says whether the source is in its slot |
| `pull` | `pull_future` (absent, running, what it will return) and whether `pull_cancel_tx` was dropped; `inner.pulling` is `pull.at # None` |
| `cancelFuture` | `cancel_future` |
| `flags`, `storedError` | the six atomics and the error that controllers and readers look at |
| `posted` | how far each controller call is: it checks, then sends |
| `result`, `waitPc`, `wakers`, `woken`, `pc`, `scheduled` | as in the writable stream |
| `delivered`, `served`, `ended` | history: chunks handed to reads, reads that a pull started after, the reason given to `source.cancel` |

### Steps

The poll function runs control channel, command channel, cancel future, pull
gate, pull future, in that order (`control -> commands -> (gate ->) drive ->
idle`). Each message and each command is a step, so calls on other threads fall
between any two. A failure raises the `errored` flag before it stores the error
for the readers; the steps `startFails`, `controlErrs` and `pullFails` are that
gap, in which `closed()` and `ready()` yield the placeholder error ("fallback").

A controller call is two steps, its look at the atomics and its send
(`Checks`, `Sends`); the flags it looks at only rise, so one look stands for
its two to four loads. `ready()` and `closed()` are split at the send of the
waker. A send schedules the task only when the loop that would receive it has
already been passed in the current poll: a poll in progress still has it to
drain, and more wakeups would only hide a lost one.

`Abandon` drops the future of a read. The code ignores the failed send, so the
chunk is gone; `delivered` records that it was handed over.

The pull runs inside `pull_with_cancel`: dropping the cancel sender makes it
return Ok (`CutShort`), and if the pull itself is ready at the same time
`select!` takes either, so both `PullReturns` and `PullFails` are enabled.
Chunks a source sends while it is pulled are the controllers' calls, which may
happen at any time. The arm that joins a second cancel to the first (2435) is
absent because it never runs: a stream being cancelled is not Readable
(`CancelLeavesReadable`, proved).

### Properties (`ReadableStreamProps.tla`)

| property | says |
|---|---|
| `Custody` | the source is in its slot, in a pull, in its cancel or gone; a readable stream that has started never lost it |
| `NoneLeftWaiting` | chunks and reads never wait side by side; nothing waits on an ended stream |
| `Accounting` | the total is the size of the queue, and the published desired size follows it |
| `NoChunkLost` | what was sent to an open stream is in the channel, in the queue or was given to a read |
| `NoStalledPull` | a request for a pull is not forgotten |
| `CancelReachesSource` | a cancel settles only after the source heard of it |
| `EndsForGood` | an ended stream never takes or gives a chunk again |
| `PromisesSettle`, `ReadIsServed`, `WaitersWake` | reads and cancels settle, a waiting read gets a pull of its own, no wakeup is lost |
| `ImplementsEnd` | the task implements `ReadableEnd` |

`ReadableEnd` is the abstract specification: a line of chunks, the reads that
were answered, whether the stream has ended and how. A chunk is handed straight
to a read only when none is before it; a stream that closes does so when its
line is empty; an error or a cancel empties the line for good.

### Runs

| run | instance | shows |
|---|---|---|
| `readable_delivery` | chunks of sizes 1 and 2, HWM 1, 2 reads that may be abandoned, a close, a cancel, with fairness | `TypeOK`, `Accounting`, `NoChunkLost`, `CancelReachesSource`, `ImplementsEnd`, `PromisesSettle`, `ReadIsServed` |
| `readable_waiters` | 1 chunk, a close, an error, a `ready()`, a `closed()`, with fairness | `WaitersWake` |

`Custody`, `NoneLeftWaiting`, `NoStalledPull` and `EndsForGood` are not run,
because they are proved.

Bounds: two chunks and two reads are the fewest with an order to get wrong, and
their sizes keep the queue below, at and above the mark. One close, error and
cancel each, since the atomics refuse the second of a kind or the state makes it
moot. Promises and wakeups are checked apart, as they share nothing but the
state. Deadlock checking is off: a stream nobody calls stops.

Fairness: the task is polled when woken and its poll ends, start and
`source.cancel` return, a woken waiter is polled. A pull need never return,
which is why `ReadIsServed` excepts a pull that is still running, and a read may
wait for ever on an open stream whose source sends nothing; a cancel settles all
the same. `WaitersWake` excepts a dropped task: nothing in the code tells a
registered waker of it. It speaks of the total size, which is what `ready()`
looks at, and not of the queue, which is what is documented.

### Where code and documentation part

Seen while modelling and recorded here; no run is spent on them.

* The error of a failing pull is stored unconditionally (2554) and replaces the
  one a controller gave during that pull; it also turns a stream that closed
  during the pull into an errored one (`FailLate` of `ReadableEnd`).
* `ready()` spins on a queue of zero-sized chunks (2035 against 2468): it is
  woken by the queue and looks at the total.
* `closed()` and `ready()` can yield a placeholder error, because the errored
  flag is raised before the error is stored for the readers (2262).
* A close behind a full queue stores desired size 0 (2334) where 172-176
  promise the remaining size.

### Proved (`ReadableStream_proofs.tla`)

From the same kind of assumptions as the writable stream (`NumbersAssumption`,
`DisjointAssumption`, and `NoneAssumption`: the absent reason is no cancel), for
every set of calls, sizes and mark:

* `TypesHold`: every variable keeps its type. That the byte total is never
  negative follows only from `Accounting`, so the types without it come first
  (`Typed`).
* `AccountingHolds`: `AccountInv` has the total as a fold over the queue
  (`Total`), which only a dropped task leaves behind, and the flags of a
  readable stream down.
* `NoChunkLostHolds`: each chunk sent to an open stream is in exactly one place
  (`Kept`), and the three places hold them in the order of sending.
* `CustodyHolds`: `CustodyInv` adds to `Custody` what is true before start
  returned (`BeforeStart`), that the two-step failures are of errored streams
  (`WhileErring`), and that only a pull that exists can have been told to stop.
  A cancel on a readable stream finds the source in its slot or in a pull, which
  is what lets 2452-2463 do without a third branch.
* `NoneLeftWaitingHolds`: `QueueInv` adds that the steps the invariant leaves
  out belong to errored streams, and that nothing waits before start returned.
* `EndsForGoodHolds`: from `QueueInv`. The state never goes back; a read could
  still take a chunk from a closed stream's queue (2394), but a closed stream's
  queue is empty.
* `CancelReachesSourceHolds`: `ReachInv` says that no cancel is twice in the
  command channel and none there has settled (`CancelsQueuedOnce`), that the
  completions kept are those of the cancel acted on and a running
  `source.cancel` was given its reason (`CancelActedOn`), and that a pull's
  error is never replaced (`PullErrorStays`). It rests on `CustodyInv`.
* `NoStalledPullHolds`: from `CustodyInv`. The one branch that leaves a request
  standing is a pull that is due but held off by a cancel in progress, and then
  the stream is not readable.

* `ReadableStreamImplementsEnd`: see section 9.

Only model-checked: liveness (`PromisesSettle`, `ReadIsServed`, `WaitersWake`).

## 4. The byte stream: `ByteStream.tla`

Between controller and byte task there is no channel: a captured controller,
the controller inside `start()` and `pull()`, and every BYOB reader work on
`ByteStreamState` directly, under one lock at a time with atomics in between.
The model keeps that grain. A thread is the list of operations it has still to
do, `todo[t]`; a step is the first of them: one critical section, or one
decision on the atomics together with the store and the wakeup it leads to.

| variable | code |
|---|---|
| `queue` | the buffer and `queue_total_size` |
| `flags`, `gate`, `started` | the atomics: closed, errored; the pull and serve gates with their waker slots, `pull_in_progress`; `start_completed` |
| `readWakers`, `pending`, `lent` | wakers of BYOB reads, `pending_pull_intos`, the calls whose buffer a `ByobRequest` holds |
| `task`, `source`, `reads`, `commands` | the byte task: where it is and its locals, its source, the parked default reads, its channel |
| `call`, `made`, `ended`, `dropped` | what the users did and were told |
| `pushed`, `taken`, `cleared`, `cancelRuns` | history |

A byte is named by its chunk and its place in it, so a byte handed out twice,
skipped or out of turn is visible. `select!` over gates and channel is reduced
to: a ready gate may be taken, then pull, serve, command. Error values are not
told apart, and `desired_size()` is left out because nothing in the code reads
it back.

A `ByobRequest` is a value of its own: any clone of the controller takes one, in
a pull or outside, several may be out at once, and whoever holds one answers it
or drops it at any time. So `TakeRequest` needs no pull, `Respond` no thread in
particular, and `DropRequest` a thread that may be running its owner's code
(`MayDropRequest`). `begin_pull_into` is cut where its locks are: the look at
`errored` (`BeginPullInto`), the registration (`JoinPullIntos`), the second look
(`Recheck`).

`bytes_delivery` takes calls two at a time out of a default read, a BYOB read, a
`read_owned`, a `closed()` and a cancel (`Mixes`, here `Pairs`: each way of
reading beside a cancel, a default read beside either BYOB read, and a `closed()`
beside a `read(buf)`), a captured controller that enqueues one chunk of two bytes and then closes or errors
(`MaxEndings` = 1), a source whose start and pull may fail, and one-byte
buffers. The view `Told` leaves out what tells two states apart for no property
and no step: which outcome an answered call had, and wakers of such calls.

| property | says |
|---|---|
| `ByteOrder` | every byte is handed out once and in order, and the size counts what is left, until a cancel empties the buffer |
| `NoStrandedPullInto` | no registered buffer is left behind when another thread ends the stream |
| `CallsHeld` | a stream at rest has taken its commands and finished its cancels, lets a default read wait only for bytes of an open stream, and holds every other call that waits: a `read(buf)` or `closed()` is registered, a `read_owned` is in line or lent |

Two calls are the fewest with a race between readers; a chunk of two bytes and
buffers of one split a chunk between them, and the mark of one is crossed in
both directions. The last two properties speak of states at rest, where no
thread is inside an operation and no waker has fired. This says what liveness
would say of a finite run, and asks for no fairness among threads, of which the
code assures none.

`bytes_pull_lost` (one `read_owned` alone, `OwnedOnly`) shows `PullIntoIsPulled` violated: `poll_pull_needed`
(`byte_state.rs` 292) looks at the gate and then stores its waker, without a
second look, where `poll_serve_needed` (319) has one; a `read_owned()` on
another thread can arm the gate in between, and waits for ever at a mark of
zero. `CallsHeld` asks of a `read_owned` no more than its place in line for that
reason.

A wakeup is lost in two more places, and `CallsHeld` excepts both. `read(buf)`
(208-218) and `closed()` (612-632) look, then register, and do not look again: an
enqueue, close or error in between rouses nobody, and the future sleeps beside
the data or the end until something else is announced, which may be never. The
explainer `docs/explainers/byte-read-delivery.md` (93-95, 118) has every enqueue
reach such a reader. What holds is that a call that waits is registered, so that
the *next* announcement reaches it.

Proved (`ByteStream_proofs.tla`), for any producers, BYOB readers, calls, chunks
and buffer lengths: the three properties and the types. The threads meet only in
the shared state, so the invariant speaks of what each has still to do:

* `Lists`: the operations on a thread's list are in the order the code has
  them; what ends the stream or brings bytes is followed by the settling of the
  buffers in line and the announcement. `Placed` says the same of the task.
* `Counted`: the chunks made are those pushed and those that one thread each
  has still to push, so that every push is of the next chunk; with it
  `ByteOrderHolds` follows the bytes through the buffer.
* `Settled`: an ended stream that still holds buffers has a thread about to
  settle them, or one that registered or handed back a buffer and is about to
  look again (`NoneStranded`). Without the second look of `begin_pull_into` (the
  variant `RecheckNothing`) a buffer registered in `JoinPullIntos` is stranded
  when the error came after `BeginPullInto`.
* `Served`, `WakeInv`, `Held`: parked reads that could be answered are heard of,
  a sleeping task has been woken or waits at a gate that is not armed, and each
  waiting default read or cancel is in the channel, in the task's hands or
  parked. `Begun`, `Asked` and `Lined`: a BYOB call that waits has a thread that
  is polling it, is registered, or is in line or lent. Together they give
  `CallsHeld` (`WaitingCallsHeld`).

`ByteAssumption` gives threads and calls distinct names; the mark may be zero.

Also noted: after a pull that closed the stream parked reads are told EOF while
bytes of that pull may still be buffered (`readable.rs` 2656, against the ADR,
which has them served first); an enqueue that races a cancel's clear leaves
bytes readable, and the size may then disagree (`~cleared`).

## 5. The transform: `Transform.tla`

Five actors: the transform task, the tasks of the two streams, a clone of the
controller the transformer captured, and the callers. What they race on is the
`SpaceSignal`, the two control channels and the cancel hand-off, so those are
modelled access by access; a call of the controller is a list of accesses
`todo[t]` (`enqueue` = `post`, then `count`). Of the two streams remain the
fields the transform looks at (`w`, `r`) and the phases of the readable's poll.

A plan is an instance: the readable's mark, how the tasks are spawned
(`bundled`: `spawn()`, all on one task; `parts`: `spawn_parts()`, on three), and
how often each call is made. A transformer enqueues at most `PerCall` chunks in
one call. The plans of `transform` (`MCTransform!Mixed`) are the fewest in which
both sides end in every way (each with the other), nothing is ever queued (mark
0, the default), the transformer ends the stream, and a captured clone runs
beside the task.

| property | says |
|---|---|
| `Backpressure` | `transform()` begins only when the readable has room, or is read from at mark 0 |
| `NoneStuck` | at rest a method of the sink is under way only because the queue is full, no cancel waits, and a task that ended has ended the writable |
| `WoundUpOnce`, `CancelBeforeFlush` | flush or cancel runs once, never both, and a cancel that arrived first wins |

`Backpressure` is exact in `bundled`. In `parts` it grants `Slack` more: the gate
is set from a desired size that counts none of the chunks under way, which may
be all that were sent up to the mark and those of one call, `Room + PerCall - 1`
together, and the run reaches that bound. `NoneStuck` speaks of
`bundled` plans only: with separate threads `abort_future` (`writable.rs`
1843-1855) does not look again after it registers, which `transform.rs` 216-217
relies on, and an error or terminate of a captured clone leaves a parked task
parked.

`transform_deadlock` shows `NoMutualWait` violated: `enqueue()` sends the chunk
and then counts it (`transform.rs` 157). On another thread the readable's task
can give the chunk to a read and open the gate in between; the late count closes
it over an empty queue, and a write and a read wait for each other.

Proved (`Transform_proofs.tla`), for every plan, mark and number of chunks per
call: the types (`Typed`: `transformer.cancel()` runs only for a reason, no
thread is inside two calls), `WoundUpOnce` (`Wound`), `CancelBeforeFlush`, and
`Backpressure`. The last follows the numbers: chunks given and not read, on
their way, counted by the signal, posted and not counted, still to come from
this call. `Plain` says what the readable of a stream nobody has ended looks
like, `Bounds` relates the numbers to the gate and to how far the pull is, and
in a bundle `Rests` (task and readable take turns) makes them exact
(`BundleBounds`). The proof is what gave `Slack` its value.

`NoneStuck` is proved as well. Rest is stated by the guards of the steps
(`AtRest`, which TLC finds to be `~ENABLED Work` in every state of this run) and
not by `ENABLED`. What is inductive is `StuckInv`: whoever waits, somebody else
has still to do what ends the wait, or has woken it. A method under way has its
answer, its command waits, or the task is at it or has the answer on its list
(`AskInv`); a task that ends ends the writable too (`EndInv`); a cancel that was
asked for is on its way through the readable's poll, and a task told of it
answers (`CancelInv`); a task parked for room has its waker in the signal beside
a shut gate, or was woken (`WaitInv`); a parked pull likewise, and a message, a
demand or a read finds the readable awake (`PullInv`); what is about to shut the
gate has sent its chunk first (`PostInv`); and a gate that stays shut has a full
queue behind it (`ShutInv`). Since the task works through lists of accesses, the
parts speak of what is still on the list (`Has`), and `Fine` says in which order
the accesses that matter come.

Also noted: chunks that `start()` or `flush()` enqueue pass no gate;
`is_closed_or_errored()` is true as soon as an end was asked for.

## 6. The tee: `Tee.tla`

The coordinator's loop is cut at every access to the `AsyncSignal`, at each
branch it serves, and at the return of the source. A branch keeps its queue,
control channel, waiting reads and the demand for a pull; a message is 0 for
Close, -1 for Error and n for the n-th chunk. A plan gives the mode, the marks,
how many chunks the source yields, the reads of each branch, which branches may
be cancelled or dropped, and how the source may end.

| property | says |
|---|---|
| `BothSeeAll` | each branch that was not given up holds or has read all chunks, once and in order; one that closed gave them all |
| `CancelCoordinated` | the source is cancelled once, only when both branches are, and one of the two cancels carries its result |
| `NoneForgotten` | at rest, and when the source is not being read, no cancel waits, and a read waits only because `should_pull` says no, or in Aggregate mode because the other branch is at its mark |

`tee` runs all four modes with two branches that read at their own pace (2
chunks, a read each; in Aggregate mode also three reads beside one), plans in
which one leaves or both are cancelled while the source ends, and, in the two
modes that compare the branches, plans in which one is dropped: with room left,
so that the coordinator goes on pulling and flags it, and without.
Two chunks and marks of 0 and 1 are the fewest
for one branch to be full while the other asks.

Proved (`Tee_proofs.tla`), for every plan: the types, `BothSeeAll` and
`CancelCoordinated`. `SeenInv` says that what a branch has given, holds and is
still to receive is what the source has yielded, but for the chunk the
coordinator has in hand for it; `EndInv` that nothing follows a Close;
`BranchInv` that a branch given up has ended; `CancelInv` that of two cancels
the first is told at once and the second the result; `SourceInv` that the source
is cancelled on the way out.

`NoneForgotten` is proved from `AwakeInv`. Rest is stated by the guards: a
branch has no message, no pull to run and no cancel on its way (`BranchRests`),
and the coordinator is at the source, parked without a wake-up, or through. Then
the signal is down, so every pull a branch ran was looked at, and what a branch
at rest still demands it has signalled; `AwakeInv` follows each from the pull's
gate through the flag, the waker and the coordinator's look at it.

The proof failed first, and for a good reason: in Aggregate mode a demand *is*
lost. Take marks of 1 and 1, a branch 1 that reads three chunks and a branch 2
that reads one. After the second chunk branch 2 holds two, one above its mark;
branch 1 has asked for a third, and the coordinator found the combined demand
used up (`should_pull`) and parked. Now branch 2 reads and is at its mark: the
combined demand is positive again, but a branch pulls only while its *own*
desired size is positive or a read waits (2505-2515); its pull does not run,
nothing signals, and branch 1's read waits although `should_pull` would say yes.
The documentation of the mode (671-674) allows a pull whenever the sum of what
is buffered is below the sum of the marks. The property states this case as the
exception it is, and the run reaches it.

A dropped branch is the other exception. When a branch's stream and task are
dropped nothing marks it closed or errored, so `desired_size()` (171-187) goes
on returning the room it had (`Desired`), and it counts in `should_pull` until
a chunk given to it is refused and flags it. In SlowestConsumer mode a branch
dropped at its mark starves the other for good, in Aggregate mode one dropped
beyond its mark takes that much off the other's demand; one dropped with room is
pulled for although nobody reads it. `ShouldPull` follows the code here, and
`NoneForgotten` says no more than that the coordinator keeps to it. A branch is
dropped between two polls of its task, which has then looked at its pull gate,
unless it has not been asked for anything yet (`Fresh`).

What else the modes were found to do: `SpecCompliant` with a mark of 0 never
pulls for that branch. `NoneForgotten` excepts a coordinator inside
`reader.read()`: there it does not see that both branches were cancelled (1027),
so the second cancel waits for the next chunk, where
`docs/explainers/spec-divergences.md` has it take effect once both branches
cancel. Byte branches differ only in the stream behind them.

## 7. The pipe and the abort signal: `Pipe.tla`, `AbortSignal.tla`

`Pipe` composes four things: the future of `pipe_to_inner`, a source that is an
instance of `ReadableEnd`, a destination that is an instance of `WritableEnd`
with its command channel and backpressure flag, and an `AbortSignal`. The
future is `ready -> read -> race -> (write) -> ready`, with the shutdowns
`cancel`, `close`, `abort` and their overtaking by the signal (`signalCancel`,
`signalAbort`). Writes are sent and forgotten. A plan gives the prevent options,
whether there is a signal, the destination's state and mark, the chunks, and
which faults occur. Those of the source are a pull that fails, a controller that
errors, and a pull that fails after the stream ended (`FailSourceLate`), which
replaces the end by an error and answers a cancel that waited for it.

`AbortSignal` has each racing `abort()` at its accesses: take the lock of the
reason, look, store, release, wake; and each future at its look, its
registration and its second look.

| property | says |
|---|---|
| `NothingLost` | while the destination is writable every chunk the source gave is in the sink, in line, in the channel or in hand |
| `OkMeansDelivered` | a pipe that closes and resolves has brought everything to the sink, though it awaited no write |
| `Propagates` | ends and errors cross over unless prevented, and only then |
| `FirstAbortWins` | two racing aborts: the first reason is read, and none is missed |
| `Settles` | a pipe whose source or destination ended, or whose signal fired, settles |

`pipe` runs every end and every error with nothing prevented, all prevented,
only close prevented, a destination already closed, and two racing aborts with
and without `prevent_abort`. Two chunks at a mark of one bring the pipe into
`ready()` while a write runs; two aborts are the fewest that race. Fairness:
tasks and pipe are polled when woken, sink and source methods return, an
`abort()` that has begun ends; nobody has to call `abort()`. Tasks are not
dropped.

Proved (`Pipe_proofs.tla`), for every plan, mark and number of chunks and of
aborts: the types, `NothingLost`, `OkMeansDelivered`, `Propagates` and
`FirstAbortWins`. `KeptInv` is `NothingLost` as a filter over the channel;
`CloseLast` says that a close is the last command but for aborts, with nothing
to write once it is accepted, so that the Ok of a close means the line is in the
sink; `PathInv` ties where the future is to what it has asked of the two ends,
`ReplyInv` and `CancelInv` to what they may still answer; and `SourceInv` that
an ended source has handed out all its chunks. The signal's invariants
(`SignalLock`, `SignalSeen`, `SignalWake`) hold for any number of calls and
futures. Only `Settles`, which is liveness, stays with TLC.

`pipe_hangs` shows `SettlesOnError` violated: two writes at a mark of one, the
first fails while the pipe waits in `ready()`. Nothing wakes that future
(`writable.rs` 1262), the pipe does not look at `closed()` there, and neither
returns nor cancels its source, where `readable.rs` 493-495 promises a clean
end. `Settles` excepts exactly that state (`Forsaken`).

Also noted: flags that lag let writes overrun the mark by those in the channel;
with `prevent_close` the pipe returns Ok without awaiting its last writes, so
whether it rejects for a write that fails then is a race on a multi-threaded
executor; a read whose future is dropped when `closed()` wins loses its chunk.

## 8. The poll traits and the lock: `Handles.tla`, `StreamLock.tla`

`Handles` has a writable handle as `futures::Sink` and `AsyncWrite` and a
readable one as `Stream`. A poll sends its command once and keeps the receiver
in a slot of the handle; the caller may give the call up at any await, and the
next call of the method finds the receiver in its slot. Writers that hold the
lock send on the same channel, because the poll methods do not look at it. The
streams are instances of `WritableEnd` and `ReadableEnd` behind that channel,
without abort or cancel, and their tasks are not dropped. `SetsFlags` is the
gap between the completions of a close and the flags (1187-1199).

`StreamLock` is the compare-exchange on one AtomicBool. A writer is a counted
handle whose clones live in `ready()` and `closed()` futures; a reader clears
the flag in `release_lock` and once more in its Drop. A compare-exchange that
fails changes nothing and is no step.

| property | says |
|---|---|
| `AnswersTrue` | an answer is true of the request whose receiver gave it, not always of the call it reaches: Ok of `poll_write` is the length of a chunk the sink took, of `poll_flush` that all sent before that request is settled, of `poll_close` that the stream is closed; order is kept; `poll_next` loses no chunk to a call given up |
| `Exclusive` | a lock has one holder, unless a released reader's Drop cleared another's, and a set flag has an owner who will clear it |
| `PollsSettle` | a poll that is not given up returns |

`handles` runs three calls on a stream that may fail, two calls beside a writer,
two threads that race for the lock of either kind, and three `poll_next` on a
source that closes or fails. Two buffer lengths tell a stale answer from a fresh
one; two threads and two clones are the fewest for a lock to be taken from its
owner. Fairness: a woken caller polls again, the task runs on and sink methods
return. `PollsSettle` excepts the `ready()` of section 7 and a `poll_next` for
which the source has nothing.

Proved (`Handles_proofs.tla`), for every plan, any buffer lengths and any number
of threads and clones: the types, `Exclusive` and `AnswersTrue`. The steps are
first reduced to *moves*, what a step of the caller, a writer or a task does to
the channel, the slots and the stream; then each part of the invariant is kept
by each move:

* `CallInv`, `CountInv`: where a call is says what it has sent; every chunk is
  owed to a call or an operation, so that `MaxSent` is never passed. `Handled`:
  who holds the lock has a handle left to drop.
* `LineInv`: while the stream has no error, sink, line and channel hold the
  chunks that were not refused, each once, in the order of sending. A sequence
  in order is determined by its elements (`FilterIsOrder`), which is the order
  part of `AnswersTrue`.
* `EndInv`, `WriteInv`: an Ok in the slot of close is of a closed stream, one in
  the slot of write is for the chunk and the length kept with the receiver.
* `FlushInv`: in the channel, chunks behind a flush are none it covers; once it
  was taken, what it covers has landed or was refused, or is among the first
  `flushLeft` of those under way. The counter counts down in the same order.
* `ReadInv`: a read has one command or one answer; what was yielded, the chunk
  in the slot and the line are what the source posted.

What `AnswersTrue` had to be stated around, since the code does it and the
tests (`tests/writable/async_write.rs`, `sink_trait.rs`) assume otherwise:

* A receiver left by a flush that was given up resolves the next flush, which
  may thus precede later chunks; the property speaks of the flush that sent it.
* A receiver left by `poll_write` answers the next with the older length, and
  that call's buffer is dropped without being sent.
* A chunk of `start_send` that the task refuses is lost silently; because flags
  follow completions, one sent right after `close()` returned Ok on another
  thread is refused so.
* The poll traits and the handle's own `abort()` and `close()` (103-130) do not
  look at the lock.
* A reader's Drop after `release_lock` may clear the lock of the next (2073,
  2097): `robbed`.

Not modelled here: a writer's own flush, empty buffers (which return at once),
a mark of zero, and `get_reader()` of a stream that has a read of `poll_next`
outstanding, which starts with an empty slot (`readable.rs` 1742, 1757).

## 9. The proofs

All are checked by TLAPS from the modules alone; the assumptions are the
`ASSUME`s on the constants that each model names.

| module | theorem | says, for every instance |
|---|---|---|
| `WritableStream_proofs` | `TypeCorrect`, `OwnershipHolds`, `StoredErrorPinned`, `SinkEndsOnlyOnce`, `FlagsStayCurrent`, `AccountingHolds`, `FlushBarrierHolds`, `WritesKeepTheirResult` | section 2 |
| | `WritableStreamImplementsEnd` | the task implements `WritableEnd` |
| `ReadableStream_proofs` | `TypesHold`, `CustodyHolds`, `NoneLeftWaitingHolds`, `EndsForGoodHolds`, `CancelReachesSourceHolds`, `NoStalledPullHolds`, `AccountingHolds`, `NoChunkLostHolds` | section 3 |
| | `ReadableStreamImplementsEnd` | the task implements `ReadableEnd` |
| `ByteStream_proofs` | `ByteTypes`, `ByteOrderHolds`, `NoneStranded`, `WaitingCallsHeld` | section 4 |
| `Transform_proofs` | `TransformTypes`, `TransformWoundUpOnce`, `TransformCancelBeforeFlush`, `TransformBackpressure`, `TransformNoneStuck` | section 5 |
| `Tee_proofs` | `TeeTypes`, `TeeBothSeeAll`, `TeeCancelCoordinated`, `TeeNoneForgotten` | section 6 |
| `Pipe_proofs` | `SignalCorrect`, `ReasonStays` | one reason, the first; nobody stays parked once `abort()` returned |
| | `PipeSeesFirstAbort`, `PipeKeepsContracts` | the pipe adds no step of its own to the signal or to either contract |
| | `PipeTypes`, `PipeLosesNothing`, `PipeDelivers`, `PipePropagates` | section 7 |
| `Handles_proofs` | `HandlesExclusive`, `HandlesKeepContract` | the polls and writers add no step of their own to lock or contracts |
| | `HandlesTypes`, `HandlesAnswers` | section 8 |

**Refinement.** Both proofs map a step by its *effects*: the few fields the
contract speaks of, so that the 30 or so actions fall into a dozen shapes.
Writable: on top of `Ownership`, `EndInv` relates the operation in flight,
the requested close and the sink: a running close was asked for, a closed
stream has no sink, and a close that finds neither sink nor operation follows an
abort, which is the case in which `EndClose` has nothing under way. Readable: it rests on `Typed`, `CustodyInv`, `QueueInv` and
`ReachInv`; `QueueInv` is what makes `ArriveToRead` right, since a read waits
only beside an empty queue.

**Composition.** `Pipe` and `Handles` use the contracts' actions, so each of
their steps is one of the contract's or leaves its variables alone. With the
refinements this closes the argument: what the contract promises the pipe, the
stream keeps. `PipeSeesFirstAbort` and `HandlesExclusive` rest on invariants of
the signal and the lock alone, and show that the composition's steps are theirs.

**Lock.** The inductive invariant `LockInv` says that a set flag has a holder
(`held` or `clearing`) and that, until a lock was robbed, a holder is alone and
the flag is set; a writer is never `released`, which is why only a reader robs.

**Folds and induction.** What is kept of a sequence and the sum of its weights
are folds (`SeqFolds`), written as recursive functions. `Facts` proves how they
behave at either end of a sequence (`FilterAppend`, `FilterTail`, `TotalAppend`,
`TotalTail`). The library's induction theorems take an operator as a parameter,
which the provers cannot instantiate; `Induct` states induction for a *set* of
naturals instead (one that has 0 and, with each number, the next, has them all),
from the least element that a non-empty set of naturals has (`Least`).

**Only model-checked**: liveness under fairness (`PromisesSettle`,
`ReadIsServed`, `WaitersWake`, `Settles`, `PollsSettle`), which is beyond the
prover. Every other property of a passing run is a theorem. No lost wakeup is
thus stated twice where it matters: as liveness on the instances, and for every
instance as an invariant of rest, `NoneStuck`, `NoneForgotten` and `CallsHeld`,
which needs no fairness and no `ENABLED`.

## 10. Not modelled

* Errors, platform shims, cfg aliases: types and conversions without state.
* Builders, iterator and stream sources: they store options and spawn the
  tasks above; what they build is `Init`.
* Demos and examples: users of the library.
* `desired_size()` of handles and byte controllers: read-only.
* A task dropped while a pipe, transform, tee, byte stream or poll runs. For the
  two default streams it is modelled (`TaskDropped`, and `Drop` and
  `Stop("gone")` of the contracts).
* Byte-branch tees apart from default ones, and a pipe from a byte stream.

What could still be added: the transform between the two contracts, which would
need contracts that show the control channel.
