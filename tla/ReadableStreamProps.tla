-------------------------- MODULE ReadableStreamProps --------------------------
(***************************************************************************)
(* What the default readable stream promises its readers and its source.   *)
(***************************************************************************)
EXTENDS ReadableStream, SeqFolds

-----------------------------------------------------------------------------
(* Invariants                                                               *)

\* The source is in one place: in its slot, in a pull, in its cancel, or gone
\* with an error, a cancel or the task.  A readable stream that has started
\* never lost it, so a cancel always finds it, in its slot or in a pull.
SourceInOnePlace ==
    /\ inner.source => pull.at = None /\ cancelFuture = None
    /\ pull.at # None => cancelFuture = None
    /\ inner.state = "Readable" /\ pc \notin {"starting", "done"} /\ pull.at = None => inner.source
    /\ ended # None => ~inner.source /\ pull.at = None

\* Why the arm that queues a second cancel behind the first never runs, and
\* why the drained cancel completions are those of one cancel.
CancelLeavesReadable ==
    /\ inner.cancelRequested => inner.state = "Closed" \/ pc = "pullFails"
    /\ pull.cancelled => inner.cancelRequested
    /\ cancelFuture # None => inner.cancelRequested

\* Custody of the source, from start through pulls to the one cancel.
Custody ==
    /\ SourceInOnePlace
    /\ CancelLeavesReadable

\* A chunk and a read never wait side by side; no read waits on a stream that
\* has ended or is closing, and no chunk is left in one that has closed.
NoneLeftWaiting ==
    pc \notin {"controlErrs", "pullFails", "done"} =>
        /\ inner.pendingReads # <<>> =>
            inner.queue = <<>> /\ inner.state = "Readable" /\ ~inner.closePending
        /\ inner.closePending /\ inner.state = "Readable" => inner.queue # <<>>
        /\ inner.state = "Closed" => inner.queue = <<>>

\* queue_total_size is the size of the chunks in the queue, for the task and in
\* the atomic, and the desired size of an open stream follows it.
Accounting ==
    pc \notin {"controlErrs", "done"} =>
        /\ inner.total = Total(inner.queue, Size)
        /\ flags.total = inner.total
        /\ inner.state = "Readable" /\ ~inner.closePending => flags.desired = HWM - inner.total

\* While the stream is open no chunk that was sent is lost: it is in the
\* channel, in the queue, or was given to a read.
NoChunkLost ==
    inner.state = "Readable" /\ ~inner.closePending /\ pc # "done" =>
        \A c \in Chunks : posted[c] = "sent" =>
            \/ [op |-> "enqueue", id |-> c] \in Elements(ctrls)
            \/ c \in Elements(inner.queue)
            \/ \E k \in 1..Len(delivered) : delivered[k].chunk = c

\* A task that sleeps with its stream open and no pull running has no unserved
\* request for one.
NoStalledPull ==
    pc = "idle" /\ ~scheduled /\ Accepting /\ pull.at = None => ~inner.needsPull

\* The cancel that ended a stream settles only after source.cancel was called
\* with its reason, unless a failing pull took the source away.
CancelReachesSource ==
    \A x \in Cancels : inner.cancelReason = x /\ result[x] \in {"ok", "failed"} =>
        ended = x \/ inner.error = "pull"

-----------------------------------------------------------------------------
(* Action properties                                                        *)

\* A stream that has stopped being readable never is again, and never takes or
\* gives a chunk again.
EndsForGood ==
    [][inner.state # "Readable" => inner'.state # "Readable" /\ UNCHANGED delivered]_vars

-----------------------------------------------------------------------------
(* Liveness                                                                 *)

Waiting(q) == result[q] = "pending"

\* Every cancel() settles, even one that finds the source in a pull that never
\* returns, and a read() waits for ever only for a chunk nobody sends.
PromisesSettle ==
    /\ \A x \in Cancels : Waiting(x) ~> ~Waiting(x)
    /\ \A r \in Reads : []<>(~Waiting(r) \/ (r \in Elements(inner.pendingReads) /\ inner.state = "Readable"))

\* A read that waits gets a pull of its own, one that started after the read,
\* unless an earlier pull never returns.
ReadIsServed ==
    \A r \in Reads : []<>(r \notin Elements(inner.pendingReads) \/ r \in served \/ pull.at = "running")

\* No wakeup is lost, however a registration races with the task: closed()
\* does not stay pending once the stream is closed or errored, nor ready()
\* while the stream has ended or its queue has size, unless the task is dropped.
WaitersWake ==
    /\ \A c \in ClosedCalls : []<>(~Waiting(c) \/ inner.state = "Readable" \/ pc = "done")
    /\ \A c \in ReadyCalls : []<>(~Waiting(c) \/ (inner.total = 0 /\ inner.state = "Readable") \/ pc = "done")

-----------------------------------------------------------------------------
(* Refinement                                                               *)

EndState == IF inner.state = "Errored" THEN "errored"
            ELSE IF inner.state = "Closed" THEN IF inner.cancelReason = None THEN "ended" ELSE "canceled"
            ELSE IF pc = "done" THEN "gone" ELSE "open"

End == INSTANCE ReadableEnd WITH
    state <- EndState,
    closing <- inner.closePending /\ EndState = "open",
    line <- IF EndState = "open" THEN inner.queue ELSE <<>>,
    given <- delivered

\* The task keeps the contract of a readable end, with its queue as the line:
\* chunks leave in the order they came, each to one read, and the stream ends
\* only when the line is empty.
ImplementsEnd == End!Spec
=============================================================================
