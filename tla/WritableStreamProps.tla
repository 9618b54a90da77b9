-------------------------- MODULE WritableStreamProps --------------------------
(***************************************************************************)
(* What the writable stream promises its callers and its sink.             *)
(***************************************************************************)
EXTENDS WritableStream, SeqFolds, FiniteSets

-----------------------------------------------------------------------------
(* Invariants                                                               *)

\* Why two branches of the code never run: a writable stream with nothing in
\* flight has its sink (so "Sink missing" is never reported), and an abort
\* takes the stream out of Writable at once (so no second abort is queued
\* behind a first one).
WritableHasSink ==
    inner.state = "Writable" /\ inflight.op = None /\ pc \notin {"starting", "done"} => inner.sink
AbortLeavesWritable == inner.abortRequested => inner.state # "Writable"

\* Where the sink is: in its place only while nothing is in flight and neither
\* close nor abort was called; a write never runs after one of those; an
\* abort never runs while the stream is still writable.
SinkWhereabouts ==
    /\ inner.sink => inflight.op = None /\ ended = None
    /\ inflight.op = "write" => ended = None
    /\ inflight.op = "abort" => inner.state # "Writable"
    /\ pc = "starting" => inflight.op = None /\ ended = None

\* A stream still writable has no stored error, so the unconditional stores of
\* abort and controller.error() overwrite nothing.
WritableHasNoError == inner.state = "Writable" => storedError = None

\* Ownership of the sink and of the stored error, across the whole life of a
\* stream: start, writes, one ending, and every error that cuts it short.
Ownership ==
    /\ WritableHasSink
    /\ AbortLeavesWritable
    /\ SinkWhereabouts
    /\ WritableHasNoError

\* The size of the chunk in the sink.
InFlightSize == IF inflight.op = "write"
                THEN Size[CHOOSE w \in Writes : inflight.requests = {w}] ELSE 0

\* While the stream is writable, queue_total_size is exactly the size of the
\* chunks queued or in the sink, whatever mixture of writes, completions and
\* failures came before, and backpressure is exactly "total >= HWM".
Accounting ==
    inner.state = "Writable" =>
        /\ inner.total = Total(inner.queue, Size) + InFlightSize
        /\ inner.backpressure <=> inner.total >= HWM

\* The atomics the handles read agree with the task's own state whenever the
\* task is not between changing it and publishing it.
FlagsCurrent ==
    pc # "flags" =>
        /\ flags.closed <=> inner.state = "Closed"
        /\ flags.errored <=> inner.state = "Errored"
        /\ flags.backpressure <=> inner.backpressure
        /\ inner.state = "Writable" => flags.total = inner.total

\* flush() is a barrier: once it has returned Ok, no chunk handed over before
\* it is still outstanding, and while it waits on a writable stream its counter
\* is the number of those that are, so that the last of them completes it.
Outstanding(f) == {w \in prior[f] : result[w] = "pending"}
FlushBarrier ==
    \A f \in Flushes :
        /\ result[f] = "ok" => Outstanding(f) = {}
        /\ inner.state = "Writable" /\ pc # "done" /\ inner.flushCompletions[f] > 0 =>
            inner.flushCompletions[f] = Cardinality(Outstanding(f))

-----------------------------------------------------------------------------
(* Action properties                                                        *)

\* The stored error is pinned to the first: nothing replaces it.
FirstErrorWins == [][storedError # None => storedError' = storedError]_vars

\* Nothing is asked of a sink after its close or its abort; in particular
\* abort is never called once close has started.
SinkEndsOnce == [][ended # None => UNCHANGED <<sunk, ended>>]_vars

\* A write that has reached the sink yields the sink's own result, whatever
\* abort, error or close arrives while it runs (or is dropped with the task).
WriteKeepsOwnResult ==
    [][\A w \in Writes : inflight.op = "write" /\ w \in inflight.requests =>
            result'[w] \in {"pending", Own, "dropped"} /\ (pc' # "done" => result'[w] # "dropped")]_vars

-----------------------------------------------------------------------------
(* Liveness                                                                 *)

\* Every promise of write(), close() and abort() settles.
PromisesSettle ==
    \A q \in Writes \cup Closes \cup Aborts : result[q] = "pending" ~> result[q] # "pending"

Waiting(c) == result[c] = "pending"

\* No wakeup is lost, however a registration races with the task: closed()
\* does not stay pending once the stream is closed or errored, nor ready()
\* while backpressure stays off, unless the task itself is dropped.
WaitersWake ==
    /\ \A c \in ClosedCalls : []<>(~Waiting(c) \/ inner.state = "Writable" \/ pc = "done")
    /\ \A c \in ReadyCalls : []<>(~Waiting(c) \/ inner.backpressure \/ pc = "done")

-----------------------------------------------------------------------------
(* Refinement                                                               *)

EndState == IF inner.state = "Errored" THEN "errored"
            ELSE IF inner.state = "Closed" THEN "closed"
            ELSE IF pc = "done" THEN "gone" ELSE "writable"

End == INSTANCE WritableEnd WITH
    Chunks <- Writes,
    state <- EndState,
    closing <- inner.closeRequested /\ pc # "done",
    line <- IF EndState = "writable" THEN inner.queue ELSE <<>>,
    busy <- IF pc = "done" THEN None ELSE inflight.op

\* The task keeps the contract of a writable end, with its queue as the line:
\* chunks reach the sink in order, the sink is closed after the last of them,
\* ended once, and given nothing more.
ImplementsEnd == End!Spec
=============================================================================
