---------------------------- MODULE WritableStream ----------------------------
(***************************************************************************)
(* The writable stream of streams/writable.rs: the stream task that owns   *)
(* the sink (stream_task, process_command, process_controller_msgs) and    *)
(* the handles that talk to it.                                            *)
(*                                                                         *)
(* Handles and task run on different threads.  They share an unbounded     *)
(* command channel, an unbounded controller channel, four atomics, the     *)
(* stored error and two waker sets; every promise is a oneshot whose       *)
(* sender travels with the command.  A step of this specification is one   *)
(* action of a handle, one phase of the task's poll function, or the       *)
(* completion of the sink operation the task is driving.                   *)
(***************************************************************************)
EXTENDS Naturals, Sequences

CONSTANTS
    Writes,       \* chunks, numbered in the order they are handed over
    Flushes,      \* calls of writer.flush()
    Closes,       \* calls of close()
    Aborts,       \* calls of abort(); each gives itself as its reason
    Errors,       \* errors raised with controller.error()
    ReadyCalls,   \* ready() futures
    ClosedCalls,  \* closed() futures
    Size,         \* the strategy's size of each chunk
    HWM           \* the strategy's high water mark

Requests == Writes \cup Flushes \cup Closes \cup Aborts
Waiters == ReadyCalls \cup ClosedCalls
Calls == Requests \cup Waiters

ASSUME NumbersAssumption ==
    /\ Writes \subseteq Nat
    /\ Size \in [Writes -> Nat]
    /\ HWM \in Nat

\* The kinds of call are told apart by the Rust types.
ASSUME DisjointAssumption ==
    /\ Writes \cap (Flushes \cup Closes \cup Aborts \cup Waiters) = {}
    /\ Flushes \cap (Closes \cup Aborts \cup Waiters) = {}
    /\ Closes \cap (Aborts \cup Waiters) = {}
    /\ Aborts \cap Waiters = {}
    /\ ReadyCalls \cap ClosedCalls = {}

Ops == {"write", "flush", "close", "abort", "ready", "closed"}
Commands == [op : Ops, id : Calls]

None == "none"

\* What a call's future has yielded.  "stored": the stored error; "failed":
\* the error of the sink operation itself; "dropped": TaskDropped.
Outcomes == {"unsent", "pending", "ok", "stored", "failed", "aborted",
             "closed", "closing", "dropped"}

\* Values of the stored error: no error, a sink method's own error, the
\* Aborted error of an abort() call, an error raised with controller.error().
StoredErrors == {None, "start", "write", "close", "abort"} \cup Aborts \cup Errors
Reasons == {None} \cup Aborts \cup Errors

VARIABLES
    result,       \* outcome of every call
    prior,        \* history: the chunks handed over before each flush()
    cmds,         \* the command channel
    ctrls,        \* the controller channel
    raised,       \* the controller errors raised so far
    handles,      \* does a handle, or a future holding one, still exist?
    waitPc,       \* control state of each ready() and closed() future
    woken,        \* futures whose waker has fired since their last poll
    flags,        \* the atomics the handles read
    storedError,
    signal,       \* abort flag and reason the sink reads off its controller
    pc,           \* phase of the stream task
    scheduled,    \* has the task's waker fired since its last poll?
    inner,        \* WritableStreamInner
    inflight,     \* the sink operation being driven
    wakers,       \* futures registered in ready_wakers and closed_wakers
    sunk,         \* history: the chunks passed to sink.write, in order
    ended         \* history: has sink.close or sink.abort been called?

clientVars == <<result, prior, handles>>
channelVars == <<cmds, ctrls, raised>>
waitVars == <<waitPc, woken, wakers>>
sharedVars == <<flags, storedError, signal>>
taskVars == <<pc, scheduled, inner, inflight>>
sinkVars == <<sunk, ended>>
vars == <<clientVars, channelVars, waitVars, sharedVars, taskVars, sinkVars>>

States == {"Writable", "Closed", "Errored"}

Inner == [state : States,
          queue : Seq(Writes),
          total : Nat,
          backpressure : BOOLEAN,
          closeRequested : BOOLEAN,
          closeCompletions : SUBSET Closes,
          abortRequested : BOOLEAN,
          abortReason : Reasons,
          abortCompletions : SUBSET Aborts,
          flushCompletions : [Flushes -> Nat],   \* 0: not waiting
          sink : BOOLEAN]                        \* is the sink in its place?

InFlight == [op : {None, "write", "close", "abort"},
             requests : SUBSET (Writes \cup Closes \cup Aborts),
             result : {"running", "ok", "err"}]

Phases == {"starting", "idle", "control", "flags", "drain", "drive", "done"}

TypeOK ==
    /\ result \in [Calls -> Outcomes]
    /\ prior \in [Flushes -> SUBSET Writes]
    /\ cmds \in Seq(Commands)
    /\ ctrls \in Seq(Errors)
    /\ raised \subseteq Errors
    /\ handles \in BOOLEAN
    /\ waitPc \in [Waiters -> {"idle", "register", "recheck", "parked", "done"}]
    /\ woken \subseteq Waiters
    /\ flags \in [backpressure : BOOLEAN, closed : BOOLEAN, errored : BOOLEAN, total : Nat]
    /\ storedError \in StoredErrors
    /\ signal \in [aborted : BOOLEAN, reason : Reasons]
    /\ pc \in Phases
    /\ scheduled \in BOOLEAN
    /\ inner \in Inner
    /\ inflight \in InFlight
    /\ wakers \subseteq Waiters
    /\ sunk \in Seq(Writes)
    /\ ended \in {None, "close", "abort"}

-----------------------------------------------------------------------------
(* Helpers                                                                  *)

NoOperation == [op |-> None, requests |-> {}, result |-> "ok"]
Begun(op, requests) == [op |-> op, requests |-> requests, result |-> "running"]

Elements(s) == {s[k] : k \in 1..Len(s)}

\* Variant: a new chunk goes to the front.
PushFront(q, w) == <<w>> \o q

\* The queue with one more chunk.
PushBack(q, w) == Append(q, w)

\* Outcomes r once every call in S has yielded o.
Settle(r, S, o) == [q \in Calls |-> IF q \in S THEN o ELSE r[q]]

Pending(S) == {q \in S : result[q] = "pending"}

\* Variant: a total equal to the high water mark is still no backpressure.
LateBackpressure(i) == [i EXCEPT !.backpressure = i.total > HWM]

\* WritableStreamInner::update_backpressure
UpdateBackpressure(i) == [i EXCEPT !.backpressure = i.total >= HWM]

\* usize::saturating_sub
SaturatingSub(a, b) == IF a >= b THEN a - b ELSE 0

\* Variant: the promise of the write in flight falls too.
QueuedAndInFlight == Elements(inner.queue) \cup IF inflight.op = "write" THEN inflight.requests ELSE {}

\* The writes whose promise falls with the queue.
QueuedWrites == Elements(inner.queue)

WaitingFlushes(i) == {f \in Flushes : i.flushCompletions[f] > 0}
NoFlushes == [f \in Flushes |-> 0]

\* decrement_flush_counters: the flushes it completes, and the counts it leaves.
CompletedFlushes(i) == {f \in Flushes : i.flushCompletions[f] = 1}

\* Variant: a counter that has reached zero is counted down again.
UnderflowFlushCounters(i) ==
    [i EXCEPT !.flushCompletions = [f \in Flushes |-> i.flushCompletions[f] - 1]]

DecrementFlushCounters(i) ==
    [i EXCEPT !.flushCompletions =
        [f \in Flushes |-> IF i.flushCompletions[f] > 0 THEN i.flushCompletions[f] - 1 ELSE 0]]

\* Variant: the last error wins.
LastError(e) == e

\* set_stored_error: the first error wins.
FirstError(e) == IF storedError = None THEN e ELSE storedError

\* The futures update_flags wakes.
Roused(i) == {c \in wakers : \/ c \in ClosedCalls /\ i.state # "Writable"
                             \/ c \in ReadyCalls /\ ~i.backpressure}

Wake(S) == woken' = woken \cup S /\ wakers' = wakers \ S

\* update_flags, with the update_atomic_counters that goes before it.
Published(i) == [backpressure |-> i.backpressure,
                 closed |-> i.state = "Closed",
                 errored |-> i.state = "Errored",
                 total |-> i.total]
UpdateFlags(i) == flags' = Published(i) /\ Wake(Roused(i))

\* An unbounded_send on the command channel, whose error (the task is gone)
\* drops the command.
Send(op, id) ==
    /\ cmds' = IF pc = "done" THEN cmds ELSE Append(cmds, [op |-> op, id |-> id])
    /\ scheduled' = (scheduled \/ pc # "done")

\* A send whose completion the caller awaits.
Request(op, id) ==
    /\ handles /\ result[id] = "unsent"
    /\ Send(op, id)
    /\ result' = Settle(result, {id}, IF pc = "done" THEN "dropped" ELSE "pending")

-----------------------------------------------------------------------------
(* Handles: the writer's methods, and the controller's                      *)

IsNextWrite(w) == \A v \in Writes : v < w => result[v] # "unsent"

Write(w) ==
    /\ IsNextWrite(w)
    /\ Request("write", w)
    /\ UNCHANGED <<prior, handles, ctrls, raised, waitVars, sharedVars, pc, inner, inflight, sinkVars>>

\* enqueue() looks at the atomics first, and has no completion: its result
\* here is what becomes of the chunk.
Enqueue(w) ==
    /\ IsNextWrite(w)
    /\ \/ /\ ~flags.errored /\ ~flags.closed
          /\ Request("write", w)
       \/ /\ flags.errored \/ flags.closed
          /\ handles /\ result[w] = "unsent"
          /\ result' = Settle(result, {w}, IF flags.errored THEN "stored" ELSE "closed")
          /\ UNCHANGED <<cmds, scheduled>>
    /\ UNCHANGED <<prior, handles, ctrls, raised, waitVars, sharedVars, pc, inner, inflight, sinkVars>>

Flush(f) ==
    /\ Request("flush", f)
    /\ prior' = [prior EXCEPT ![f] = {w \in Writes : result[w] # "unsent"}]
    /\ UNCHANGED <<handles, ctrls, raised, waitVars, sharedVars, pc, inner, inflight, sinkVars>>

Close(c) ==
    /\ Request("close", c)
    /\ UNCHANGED <<prior, handles, ctrls, raised, waitVars, sharedVars, pc, inner, inflight, sinkVars>>

Abort(a) ==
    /\ Request("abort", a)
    /\ UNCHANGED <<prior, handles, ctrls, raised, waitVars, sharedVars, pc, inner, inflight, sinkVars>>

\* The first poll of a future, or a poll its waker caused.
Polls(c) ==
    /\ \/ waitPc[c] = "idle" /\ handles
       \/ waitPc[c] = "parked" /\ c \in woken
    /\ woken' = woken \ {c}

Return(c, o) ==
    /\ waitPc' = [waitPc EXCEPT ![c] = "done"]
    /\ result' = Settle(result, {c}, o)

\* ready() returns its error, or at once when closed or without backpressure.
ReadyPoll(c) ==
    /\ Polls(c)
    /\ IF flags.errored THEN Return(c, "stored")
       ELSE IF flags.closed \/ ~flags.backpressure THEN Return(c, "ok")
       ELSE /\ waitPc' = [waitPc EXCEPT ![c] = "register"]
            /\ result' = Settle(result, {c}, "pending")
    /\ UNCHANGED <<prior, handles, channelVars, wakers, sharedVars, taskVars, sinkVars>>

ClosedPoll(c) ==
    /\ Polls(c)
    /\ IF flags.errored THEN Return(c, "stored")
       ELSE IF flags.closed THEN Return(c, "ok")
       ELSE /\ waitPc' = [waitPc EXCEPT ![c] = "register"]
            /\ result' = Settle(result, {c}, "pending")
    /\ UNCHANGED <<prior, handles, channelVars, wakers, sharedVars, taskVars, sinkVars>>

\* The waker travels to the task; a failed send is ignored.
Register(c) ==
    /\ waitPc[c] = "register"
    /\ Send(IF c \in ReadyCalls THEN "ready" ELSE "closed", c)
    /\ waitPc' = [waitPc EXCEPT ![c] = "recheck"]
    /\ UNCHANGED <<clientVars, ctrls, raised, woken, wakers, sharedVars, pc, inner, inflight, sinkVars>>

\* The one flag that is read again before the future returns Pending.
Recheck(c) ==
    /\ waitPc[c] = "recheck"
    /\ IF IF c \in ReadyCalls THEN ~flags.backpressure ELSE flags.closed
       THEN Return(c, "ok")
       ELSE waitPc' = [waitPc EXCEPT ![c] = "parked"] /\ UNCHANGED result
    /\ UNCHANGED <<prior, handles, channelVars, woken, wakers, sharedVars, taskVars, sinkVars>>

WaiterStep(c) ==
    \/ c \in ReadyCalls /\ ReadyPoll(c)
    \/ c \in ClosedCalls /\ ClosedPoll(c)
    \/ Register(c)
    \/ Recheck(c)

\* The last handle goes away.  close(), flush() and abort() borrow a handle
\* until they return, ready() and closed() own one; write() owns none.
DropHandles ==
    /\ handles
    /\ Pending(Flushes \cup Closes \cup Aborts) = {}
    /\ \A c \in Waiters : waitPc[c] \in {"idle", "done"}
    /\ handles' = FALSE
    /\ scheduled' = (scheduled \/ pc # "done")
    /\ UNCHANGED <<result, prior, channelVars, waitVars, sharedVars, pc, inner, inflight, sinkVars>>

\* controller.error(), from the sink or any holder of a clone.
ControllerError(e) ==
    /\ pc # "done" /\ e \notin raised
    /\ raised' = raised \cup {e}
    /\ ctrls' = Append(ctrls, e)
    /\ scheduled' = TRUE
    /\ UNCHANGED <<clientVars, cmds, waitVars, sharedVars, pc, inner, inflight, sinkVars>>

-----------------------------------------------------------------------------
(* The stream task: start, and the phases of one poll                       *)

\* inner.sink = Some(sink)
SinkBack(i) == [i EXCEPT !.sink = TRUE]

StartSucceeds ==
    /\ pc = "starting"
    /\ pc' = "control"
    /\ inner' = SinkBack(inner)
    /\ UNCHANGED <<clientVars, channelVars, waitVars, sharedVars, scheduled, inflight, sinkVars>>

\* Variant: a failed start publishes nothing.
StartFailsSilently ==
    /\ pc = "starting"
    /\ pc' = "control"
    /\ inner' = [inner EXCEPT !.state = "Errored"]
    /\ storedError' = FirstError("start")
    /\ UNCHANGED <<clientVars, channelVars, waitVars, flags, signal, scheduled, inflight, sinkVars>>

StartFails ==
    /\ pc = "starting"
    /\ pc' = "control"
    /\ inner' = [inner EXCEPT !.state = "Errored"]
    /\ storedError' = FirstError("start")
    /\ UpdateFlags(inner')
    /\ UNCHANGED <<clientVars, channelVars, waitPc, signal, scheduled, inflight, sinkVars>>

\* controller.error() only counts while the stream is writable and not closing.
ErrorTakesEffect == ctrls # <<>> /\ inner.state = "Writable" /\ ~inner.closeRequested

PollBegins == pc = "control" \/ (pc = "idle" /\ scheduled)

\* process_controller_msgs finds nothing that counts, then the task publishes
\* its flags.
ControllerQuiet ==
    /\ PollBegins /\ ~ErrorTakesEffect
    /\ pc' = "drain" /\ scheduled' = FALSE
    /\ ctrls' = <<>>
    /\ UpdateFlags(inner)
    /\ UNCHANGED <<clientVars, cmds, raised, waitPc, storedError, signal, inner, inflight, sinkVars>>

\* process_controller_msgs errors the stream: the wakers fire here, before
\* the flags change, and the queued writes' promises go with the queue.
ControllerErrors ==
    /\ PollBegins /\ ErrorTakesEffect
    /\ pc' = "flags" /\ scheduled' = FALSE
    /\ ctrls' = <<>>
    /\ storedError' = Head(ctrls)
    /\ inner' = [inner EXCEPT !.state = "Errored", !.abortReason = Head(ctrls),
                              !.queue = <<>>, !.total = 0]
    /\ result' = Settle(result, QueuedWrites, "dropped")
    /\ Wake(wakers)
    /\ UNCHANGED <<prior, handles, cmds, raised, waitPc, flags, signal, inflight, sinkVars>>

PublishFlags ==
    /\ pc = "flags"
    /\ pc' = "drain"
    /\ UpdateFlags(inner)
    /\ UNCHANGED <<clientVars, channelVars, waitPc, storedError, signal, scheduled, inner, inflight, sinkVars>>

\* The next command taken off the channel is op(id).
Takes(op, id) ==
    /\ pc = "drain"
    /\ cmds # <<>>
    /\ Head(cmds) = [op |-> op, id |-> id]
    /\ cmds' = Tail(cmds)
    /\ UNCHANGED <<prior, handles, ctrls, raised, waitPc, signal, pc, scheduled, inflight, sinkVars>>

Accepting == inner.state = "Writable" /\ ~inner.closeRequested

\* The error with which a request is turned down.
Refusal == CASE inner.state = "Errored" -> "stored"
             [] inner.state = "Closed" -> "closed"
             [] OTHER -> "closing"

CommandRefused(op, id) ==
    /\ Takes(op, id)
    /\ ~Accepting
    /\ result' = Settle(result, {id}, Refusal)
    /\ UNCHANGED <<inner, flags, storedError, woken, wakers>>

CommandWrite(w) ==
    /\ Takes("write", w)
    /\ Accepting
    /\ inner' = UpdateBackpressure([inner EXCEPT !.queue = PushBack(@, w), !.total = @ + Size[w]])
    /\ UpdateFlags(inner')
    /\ UNCHANGED <<result, storedError>>

CommandClose(c) ==
    /\ Takes("close", c)
    /\ Accepting
    /\ inner' = [inner EXCEPT !.closeRequested = TRUE, !.closeCompletions = @ \cup {c}]
    /\ UpdateFlags(inner')
    /\ UNCHANGED <<result, storedError>>

\* abort() of a stream that is closed or errored has nothing to do.  The
\* code's arm for a second abort of a Writable stream never runs, see
\* AbortLeavesWritable.
CommandAbortMoot(a) ==
    /\ Takes("abort", a)
    /\ inner.state # "Writable"
    /\ result' = Settle(result, {a}, "ok")
    /\ UNCHANGED <<inner, flags, storedError, woken, wakers>>

CommandAbort(a) ==
    /\ Takes("abort", a)
    /\ inner.state = "Writable"
    /\ inner' = [inner EXCEPT !.state = "Errored", !.abortRequested = TRUE, !.abortReason = a,
                              !.abortCompletions = @ \cup {a}, !.queue = <<>>]
    /\ storedError' = a
    /\ result' = Settle(result, QueuedWrites, "aborted")
    /\ UpdateFlags(inner')

\* Variant: the write in flight is not counted.
QueuedOnly == Len(inner.queue)

\* process_flush_command counts the writes that exist at this moment.
UnfinishedWrites == Len(inner.queue) + IF inflight.op = "write" THEN 1 ELSE 0

CommandFlush(f) ==
    /\ Takes("flush", f)
    /\ IF inner.state = "Errored" THEN result' = Settle(result, {f}, "stored") /\ UNCHANGED inner
       ELSE IF UnfinishedWrites = 0 THEN result' = Settle(result, {f}, "ok") /\ UNCHANGED inner
       ELSE /\ inner' = [inner EXCEPT !.flushCompletions[f] = UnfinishedWrites]
            /\ UNCHANGED result
    /\ UNCHANGED <<flags, storedError, woken, wakers>>

\* Variant: no immediate wake.
RegisterReadyOnly(c) ==
    /\ Takes("ready", c)
    /\ wakers' = wakers \cup {c}
    /\ UNCHANGED <<result, inner, flags, storedError, woken>>

CommandRegisterReady(c) ==
    /\ Takes("ready", c)
    /\ IF inner.backpressure
       THEN wakers' = wakers \cup {c} /\ UNCHANGED woken
       ELSE /\ woken' = woken \cup {c} \cup (wakers \cap ReadyCalls)
            /\ wakers' = wakers \ ReadyCalls
    /\ UNCHANGED <<result, inner, flags, storedError>>

CommandRegisterClosed(c) ==
    /\ Takes("closed", c)
    /\ IF inner.state = "Writable"
       THEN wakers' = wakers \cup {c} /\ UNCHANGED woken
       ELSE /\ woken' = woken \cup {c} \cup (wakers \cap ClosedCalls)
            /\ wakers' = wakers \ ClosedCalls
    /\ UNCHANGED <<result, inner, flags, storedError>>

\* What the end of the task drops: every completion sender it held.
Stop ==
    /\ pc' = "done"
    /\ cmds' = <<>> /\ ctrls' = <<>>
    /\ result' = Settle(result, Pending(Requests), "dropped")
    /\ scheduled' = FALSE
    /\ UNCHANGED <<prior, handles, raised, waitVars, sharedVars, inner, inflight, sinkVars>>

\* No handle is left: the task returns, whatever is queued or in flight.
TaskReturns == pc = "drain" /\ cmds = <<>> /\ ~handles /\ Stop

\* The executor drops the task at one of its await points.
TaskDropped == pc \in {"starting", "idle"} /\ Stop

-----------------------------------------------------------------------------
(* Dispatch: the abort signal, then at most one new sink operation          *)

\* controller.request_abort, on every poll while an abort is pending.
SignalAbort ==
    signal' = IF inner.abortRequested THEN [aborted |-> TRUE, reason |-> inner.abortReason]
                                      ELSE signal

\* The command channel is empty and some handle is left.
Dispatches ==
    /\ pc = "drain" /\ cmds = <<>> /\ handles /\ pc' = "drive"
    /\ SignalAbort
    /\ UNCHANGED <<prior, handles, channelVars, waitPc, scheduled>>

Quiet == UNCHANGED <<result, woken, wakers, flags, storedError>>

\* Did inner.sink.take() find the sink?
SinkInPlace == inner.sink

\* An abort finds a close in flight: the close is rejected, the abort
\* resolves, and the close future runs on.
AbortDuringClose ==
    /\ Dispatches
    /\ inner.abortRequested /\ inflight.op = "close"
    /\ result' = Settle(Settle(result, inflight.requests, "aborted"), inner.abortCompletions, "ok")
    /\ inflight' = [inflight EXCEPT !.requests = {}]
    /\ inner' = [inner EXCEPT !.state = "Errored", !.abortReason = None,
                              !.abortRequested = FALSE, !.abortCompletions = {}]
    /\ storedError' = FirstError(inner.abortReason)
    /\ UpdateFlags(inner')
    /\ UNCHANGED sinkVars

StartClose ==
    /\ Dispatches
    /\ inflight.op = None /\ inner.closeRequested /\ inner.queue = <<>> /\ SinkInPlace
    /\ inflight' = Begun("close", inner.closeCompletions)
    /\ inner' = [inner EXCEPT !.sink = FALSE, !.closeCompletions = {}]
    /\ ended' = "close"
    /\ UNCHANGED sunk /\ Quiet

\* The sink is gone (an abort consumed it): the close counts as done.
CloseWithoutSink ==
    /\ Dispatches
    /\ inflight.op = None /\ inner.closeRequested /\ inner.queue = <<>> /\ ~SinkInPlace
    /\ inner' = [inner EXCEPT !.state = "Closed", !.closeRequested = FALSE, !.closeCompletions = {}]
    /\ UpdateFlags(inner')
    /\ result' = Settle(result, inner.closeCompletions, "ok")
    /\ UNCHANGED <<inflight, storedError, sinkVars>>

StartAbort ==
    /\ Dispatches
    /\ inflight.op = None /\ ~inner.closeRequested /\ inner.abortRequested /\ SinkInPlace
    /\ inflight' = Begun("abort", inner.abortCompletions)
    /\ inner' = [inner EXCEPT !.sink = FALSE, !.abortReason = None, !.abortCompletions = {}]
    /\ ended' = "abort"
    /\ UNCHANGED sunk /\ Quiet

AbortWithoutSink ==
    /\ Dispatches
    /\ inflight.op = None /\ ~inner.closeRequested /\ inner.abortRequested /\ ~SinkInPlace
    /\ inner' = [inner EXCEPT !.abortRequested = FALSE, !.abortCompletions = {}]
    /\ UpdateFlags(inner')
    /\ result' = Settle(result, inner.abortCompletions, "ok")
    /\ UNCHANGED <<inflight, storedError, sinkVars>>

\* The chunk stays in the total until sink.write is done.  The code's
\* "Sink missing" branch never runs, see WritableHasSink.
StartWrite ==
    /\ Dispatches
    /\ inflight.op = None /\ inner.state = "Writable" /\ inner.queue # <<>>
    /\ inflight' = Begun("write", {Head(inner.queue)})
    /\ inner' = [inner EXCEPT !.sink = FALSE, !.queue = Tail(@)]
    /\ sunk' = Append(sunk, Head(inner.queue))
    /\ UNCHANGED ended /\ Quiet

NothingToStart ==
    /\ Dispatches
    /\ \/ inflight.op # None /\ ~(inner.abortRequested /\ inflight.op = "close")
       \/ /\ inflight.op = None /\ ~inner.abortRequested
          /\ inner.closeRequested => inner.queue # <<>>
          /\ inner.state = "Writable" => inner.queue = <<>>
    /\ UNCHANGED <<inner, inflight, sinkVars>> /\ Quiet

-----------------------------------------------------------------------------
(* Drive: poll the operation in flight, and act on its result               *)

OperationPending ==
    /\ pc = "drive" /\ (inflight.op = None \/ inflight.result = "running")
    /\ pc' = "idle"
    /\ UNCHANGED <<clientVars, channelVars, waitVars, sharedVars, scheduled, inner, inflight, sinkVars>>

\* The sink's future for op is ready; the task will run again.
Finishes(op) ==
    /\ pc = "drive" /\ inflight.op = op /\ inflight.result # "running"
    /\ pc' = "idle" /\ scheduled' = TRUE
    /\ UNCHANGED <<prior, handles, cmds, raised, waitPc, signal, sunk>>

Own == IF inflight.result = "ok" THEN "ok" ELSE "failed"

\* The accounting every finished write does first.
WithoutWrite(w) ==
    DecrementFlushCounters([inner EXCEPT !.total = SaturatingSub(@, Size[w])])
WriteSettled(w) == Settle(Settle(result, {w}, Own), CompletedFlushes(inner), "ok")

\* An abort waited for this write: sink.abort is next.
FinishWriteThenAbort(w) ==
    /\ Finishes("write") /\ inflight.requests = {w}
    /\ inner.abortRequested
    /\ result' = WriteSettled(w)
    /\ inner' = [WithoutWrite(w) EXCEPT !.abortReason = None, !.abortCompletions = {}]
    /\ inflight' = Begun("abort", inner.abortCompletions)
    /\ ended' = "abort"
    /\ UNCHANGED <<ctrls, woken, wakers, flags, storedError>>

\* The stream stays writable and the sink returns to its place.
FinishWrite(w) ==
    /\ Finishes("write") /\ inflight.requests = {w}
    /\ ~inner.abortRequested
    /\ inflight.result = "ok" /\ ~ErrorTakesEffect /\ inner.state # "Errored"
    /\ ctrls' = <<>>
    /\ result' = WriteSettled(w)
    /\ inner' = UpdateBackpressure(SinkBack(WithoutWrite(w)))
    /\ UpdateFlags(inner')
    /\ inflight' = NoOperation
    /\ UNCHANGED <<storedError, ended>>

\* reject_pending_after_error; backpressure keeps the value it had.
RejectPending(i) == [i EXCEPT !.queue = <<>>, !.total = 0, !.closeRequested = FALSE,
                              !.closeCompletions = {}, !.flushCompletions = NoFlushes]

\* Variant: the pending close is forgotten.
RejectedFlushes == WaitingFlushes(inner) \ CompletedFlushes(inner)

\* The close and the flushes it rejects, besides the queued writes.
RejectedRequests == inner.closeCompletions \cup (WaitingFlushes(inner) \ CompletedFlushes(inner))

\* The write failed, or the stream was errored meanwhile by a controller
\* error, maybe one still in the channel (which then wins, and clears the queue).
FinishWriteErrored(w) ==
    /\ Finishes("write") /\ inflight.requests = {w}
    /\ ~inner.abortRequested
    /\ inflight.result = "err" \/ ErrorTakesEffect \/ inner.state = "Errored"
    /\ ctrls' = <<>>
    /\ LET cleared == IF ErrorTakesEffect THEN [WithoutWrite(w) EXCEPT !.abortReason = Head(ctrls), !.total = 0]
                                          ELSE WithoutWrite(w)
       IN /\ inner' = RejectPending(UpdateBackpressure([cleared EXCEPT !.state = "Errored"]))
          /\ result' = Settle(Settle(WriteSettled(w), RejectedRequests, "stored"),
                              QueuedWrites, IF ErrorTakesEffect THEN "dropped" ELSE "stored")
    /\ storedError' = IF ErrorTakesEffect THEN Head(ctrls)
                      ELSE IF inflight.result = "err" THEN FirstError("write") ELSE storedError
    /\ flags' = Published(inner')
    /\ Wake(IF ErrorTakesEffect THEN wakers ELSE Roused(inner'))
    /\ inflight' = NoOperation
    /\ UNCHANGED ended

\* What the end of a close or an abort resets.
Cleared(i) == [i EXCEPT !.queue = <<>>, !.total = 0, !.backpressure = FALSE]

\* A close whose completions an abort took away only ends; any other decides
\* how the stream ends.
FinishClose ==
    /\ Finishes("close")
    /\ LET state == IF inflight.requests = {} /\ inner.state = "Errored" THEN "Errored"
                    ELSE IF inflight.result = "ok" THEN "Closed" ELSE "Errored"
       IN inner' = Cleared([inner EXCEPT !.state = state, !.closeRequested = FALSE])
    /\ storedError' = IF inflight.result = "err" /\ ~(inflight.requests = {} /\ inner.state = "Errored")
                      THEN FirstError("close") ELSE storedError
    /\ result' = Settle(Settle(result, inflight.requests, Own), QueuedWrites, "dropped")
    /\ UpdateFlags(inner')
    /\ inflight' = NoOperation
    /\ UNCHANGED <<ctrls, ended>>

FinishAbort ==
    /\ Finishes("abort")
    /\ inner' = Cleared([inner EXCEPT !.abortRequested = FALSE])
    /\ storedError' = IF inflight.result = "err" THEN FirstError("abort") ELSE storedError
    /\ result' = Settle(Settle(result, inflight.requests, Own), QueuedWrites, "dropped")
    /\ UpdateFlags(inner')
    /\ inflight' = NoOperation
    /\ UNCHANGED <<ctrls, ended>>

\* The environment: the sink's future becomes ready and wakes the task.
SinkCompletes(r) ==
    /\ pc # "done" /\ inflight.op # None /\ inflight.result = "running"
    /\ inflight' = [inflight EXCEPT !.result = r]
    /\ scheduled' = TRUE
    /\ UNCHANGED <<clientVars, channelVars, waitVars, sharedVars, pc, inner, sinkVars>>

-----------------------------------------------------------------------------
(* The specification                                                        *)

Init ==
    /\ result = [q \in Calls |-> "unsent"]
    /\ prior = [f \in Flushes |-> {}]
    /\ cmds = <<>> /\ ctrls = <<>> /\ raised = {}
    /\ handles = TRUE
    /\ waitPc = [c \in Waiters |-> "idle"]
    /\ woken = {} /\ wakers = {}
    /\ inner = [state |-> "Writable", queue |-> <<>>, total |-> 0, backpressure |-> HWM = 0,
                closeRequested |-> FALSE, closeCompletions |-> {},
                abortRequested |-> FALSE, abortReason |-> None, abortCompletions |-> {},
                flushCompletions |-> NoFlushes, sink |-> FALSE]
    /\ flags = Published(inner)
    /\ storedError = None
    /\ signal = [aborted |-> FALSE, reason |-> None]
    /\ pc = "starting" /\ scheduled = FALSE
    /\ inflight = NoOperation
    /\ sunk = <<>> /\ ended = None

HandleStep ==
    \/ \E w \in Writes : Write(w) \/ Enqueue(w)
    \/ \E f \in Flushes : Flush(f)
    \/ \E c \in Closes : Close(c)
    \/ \E a \in Aborts : Abort(a)
    \/ \E e \in Errors : ControllerError(e)
    \/ DropHandles

StartStep == StartSucceeds \/ StartFails

CommandStep ==
    \/ \E w \in Writes : CommandWrite(w) \/ CommandRefused("write", w)
    \/ \E c \in Closes : CommandClose(c) \/ CommandRefused("close", c)
    \/ \E a \in Aborts : CommandAbort(a) \/ CommandAbortMoot(a)
    \/ \E f \in Flushes : CommandFlush(f)
    \/ \E c \in ReadyCalls : CommandRegisterReady(c)
    \/ \E c \in ClosedCalls : CommandRegisterClosed(c)

DispatchStep ==
    \/ AbortDuringClose \/ StartClose \/ CloseWithoutSink
    \/ StartAbort \/ AbortWithoutSink
    \/ StartWrite \/ NothingToStart

DriveStep ==
    \/ OperationPending
    \/ \E w \in Writes : FinishWriteThenAbort(w) \/ FinishWrite(w) \/ FinishWriteErrored(w)
    \/ FinishClose \/ FinishAbort

PollStep ==
    \/ ControllerQuiet \/ ControllerErrors \/ PublishFlags
    \/ CommandStep \/ TaskReturns
    \/ DispatchStep \/ DriveStep

SinkStep == \E r \in {"ok", "err"} : SinkCompletes(r)

Next ==
    \/ HandleStep
    \/ \E c \in Waiters : WaiterStep(c)
    \/ StartStep \/ PollStep \/ TaskDropped
    \/ SinkStep

Spec == Init /\ [][Next]_vars

\* A task whose waker has fired is polled, and its poll runs to its end; so is
\* a future.  The sink's methods return.  Nobody is obliged to call anything.
Fairness ==
    /\ WF_vars(PollStep)
    /\ WF_vars(StartStep)
    /\ WF_vars(SinkStep)
    /\ \A c \in Waiters : WF_vars(WaiterStep(c))

FairSpec == Spec /\ Fairness
=============================================================================
