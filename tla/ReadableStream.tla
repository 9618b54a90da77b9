---------------------------- MODULE ReadableStream ----------------------------
(***************************************************************************)
(* The default readable stream of streams/readable.rs: the stream task     *)
(* that owns the source (readable_stream_task, pull_with_cancel), the      *)
(* clones of ReadableStreamDefaultController that feed it, and the reader. *)
(*                                                                         *)
(* Controllers, readers and task run on different threads.  They share a   *)
(* control channel, a command channel, six atomics and the stored error.   *)
(* A step is one access of a controller or a reader to what is shared, one *)
(* phase of the task's poll function, or the return of the source's        *)
(* method the task is driving.                                             *)
(***************************************************************************)
EXTENDS Integers, Sequences

CONSTANTS
    Chunks,       \* chunks, numbered in the order controllers send them
    Closings,     \* calls of controller.close()
    Errors,       \* calls of controller.error()
    Reads,        \* calls of read(), numbered in the order they are made
    Cancels,      \* calls of cancel(); each gives itself as its reason
    ReadyCalls,   \* ready() futures
    ClosedCalls,  \* closed() futures
    Size,         \* the strategy's size of each chunk
    HWM           \* the strategy's high water mark

Posts == Chunks \cup Closings \cup Errors
Waiters == ReadyCalls \cup ClosedCalls
Calls == Reads \cup Cancels \cup Waiters

ASSUME NumbersAssumption ==
    /\ Chunks \subseteq Nat
    /\ Reads \subseteq Nat
    /\ Size \in [Chunks -> Nat]
    /\ HWM \in Nat

\* The kinds of call are told apart by the Rust types.
ASSUME DisjointAssumption ==
    /\ Chunks \cap (Closings \cup Errors) = {}
    /\ Closings \cap Errors = {}
    /\ Reads \cap (Cancels \cup Waiters) = {}
    /\ Cancels \cap Waiters = {}
    /\ ReadyCalls \cap ClosedCalls = {}

None == "none"

\* None is no call.
ASSUME NoneAssumption == None \notin Cancels

Messages == [op : {"enqueue", "close", "error"}, id : Posts]
Commands == [op : {"read", "cancel", "ready", "closed"}, id : Calls]

\* What a call's future has yielded.  "chunk": Ok(Some(chunk)), "end":
\* Ok(None), "stored": the stored error, "fallback": the placeholder error
\* given when there is no stored error yet, "failed": the error of
\* source.cancel, "dropped": TaskDropped, "abandoned": the caller dropped it.
Outcomes == {"unsent", "pending", "chunk", "end", "ok", "stored", "fallback",
             "failed", "canceled", "dropped", "abandoned"}

\* No error, the error start() or pull() returned, or a controller's.
StoredErrors == {None, "start", "pull"} \cup Errors

\* A future the task drives: absent, running, or returned.
Futures == {None, "running", "ok", "err"}

VARIABLES
    result,       \* outcome of every call
    posted,       \* progress of every call of a controller
    cmds,         \* the command channel
    ctrls,        \* the control channel
    waitPc,       \* control state of each ready() and closed() future
    woken,        \* futures whose waker has fired since their last poll
    wakers,       \* futures registered in ready_wakers and closed_wakers
    flags,        \* the atomics controllers and readers look at
    storedError,  \* the stored error they look at
    pc,           \* phase of the stream task
    scheduled,    \* has the task's waker fired since its last poll?
    inner,        \* ReadableStreamInner and the locals of the poll function
    pull,         \* pull_future, and whether pull_cancel_tx was dropped
    cancelFuture, \* cancel_future
    delivered,    \* history: the reads answered with a chunk, in order
    served,       \* history: reads that were waiting when a pull started
    ended         \* history: the reason source.cancel was called with

callerVars == <<result, cmds>>
waitVars == <<waitPc, woken, wakers>>
taskVars == <<inner, pull, cancelFuture>>
histVars == <<delivered, served, ended>>
vars == <<result, posted, cmds, ctrls, waitVars, flags, storedError, pc, scheduled, taskVars, histVars>>

Inner == [state : {"Readable", "Closed", "Errored"},
          queue : Seq(Chunks),
          total : Int,
          source : BOOLEAN,                   \* is the source in its place?
          pendingReads : Seq(Reads),
          cancelRequested : BOOLEAN,
          cancelReason : {None} \cup Cancels,
          cancelCompletions : SUBSET Cancels,
          error : StoredErrors,
          needsPull : BOOLEAN,
          closePending : BOOLEAN]

Flags == [total : Int, desired : Int, closed : BOOLEAN, errored : BOOLEAN,
          closeRequested : BOOLEAN, errorRequested : BOOLEAN]

Phases == {"starting", "startFails", "idle", "control", "controlErrs",
           "commands", "gate", "drive", "pullFails", "done"}

Typed ==
    /\ result \in [Calls -> Outcomes]
    /\ posted \in [Posts -> {"idle", "checked", "sent", "refused"}]
    /\ cmds \in Seq(Commands)
    /\ ctrls \in Seq(Messages)
    /\ waitPc \in [Waiters -> {"idle", "register", "recheck", "parked", "done"}]
    /\ woken \subseteq Waiters
    /\ wakers \subseteq Waiters
    /\ flags \in Flags
    /\ storedError \in StoredErrors
    /\ pc \in Phases
    /\ scheduled \in BOOLEAN
    /\ inner \in Inner
    /\ pull \in [at : Futures, cancelled : BOOLEAN]
    /\ cancelFuture \in Futures
    /\ delivered \in Seq([read : Reads, chunk : Chunks])
    /\ served \subseteq Reads
    /\ ended \in {None} \cup Cancels

\* queue_total_size is a usize from which sizes are subtracted unchecked: it
\* must never go below zero.
TypeOK == Typed /\ inner.total >= 0 /\ flags.total >= 0

-----------------------------------------------------------------------------
(* Helpers                                                                  *)

Elements(s) == {s[k] : k \in 1..Len(s)}

NoPull == [at |-> None, cancelled |-> FALSE]

\* Outcomes r once every call in S that still waits has yielded o.
Settle(r, S, o) == [q \in Calls |-> IF q \in S /\ r[q] = "pending" THEN o ELSE r[q]]

Wake(S) == woken' = woken \cup S /\ wakers' = wakers \ S

\* update_desired_size
UpdateDesiredSize(f) ==
    [f EXCEPT !.desired = IF f.closed \/ f.errored THEN 0 ELSE HWM - f.total]

\* Variant: the queue keeps its chunks.
KeepsQueue(i) == [i EXCEPT !.total = 0, !.pendingReads = <<>>]

\* What an error or a cancel leaves of the queue and of the reads.
Emptied(i) == [i EXCEPT !.queue = <<>>, !.total = 0, !.pendingReads = <<>>]

\* The reads an ending settles.
WaitingReads == Elements(inner.pendingReads)

\* Variant: a read parks and asks for no pull.
ParkQuietly(i, r) == [i EXCEPT !.pendingReads = Append(@, r)]

\* A read that finds no chunk waits, and asks for a pull.
Park(i, r) == [i EXCEPT !.pendingReads = Append(@, r), !.needsPull = TRUE]

\* inner.source = Some(source)
SourceBack(i) == [i EXCEPT !.source = TRUE]

\* wake_by_ref on the task's own waker.
PollAgain == scheduled' = TRUE

\* Hands chunk c to read r.
Deliver(r, c) ==
    /\ result' = Settle(result, {r}, "chunk")
    /\ delivered' = Append(delivered, [read |-> r, chunk |-> c])

-----------------------------------------------------------------------------
(* Controllers.  A call looks at the atomics, then sends; clones on other    *)
(* threads, and the task, may act in between.                               *)

Unusable == flags.closeRequested \/ flags.closed \/ flags.errorRequested \/ flags.errored

Checks(p, refused) ==
    /\ posted[p] = "idle"
    /\ posted' = [posted EXCEPT ![p] = IF refused THEN "refused" ELSE "checked"]
    /\ UNCHANGED <<callerVars, ctrls, waitVars, flags, storedError, pc, scheduled, taskVars, histVars>>

\* A message sent while the loop that drains the channel is still to come in
\* the same poll need not wake the task.
Sends(p, op) ==
    /\ posted[p] = "checked"
    /\ posted' = [posted EXCEPT ![p] = IF pc = "done" THEN "refused" ELSE "sent"]
    /\ ctrls' = IF pc = "done" THEN ctrls ELSE Append(ctrls, [op |-> op, id |-> p])
    /\ scheduled' = (scheduled \/ pc \notin {"starting", "startFails", "control", "controlErrs", "done"})
    /\ UNCHANGED <<callerVars, waitVars, storedError, pc, taskVars, histVars>>

IsNextChunk(c) == \A d \in Chunks : d < c => posted[d] \in {"sent", "refused"}

Enqueue(c) ==
    \/ Checks(c, Unusable)
    \/ IsNextChunk(c) /\ Sends(c, "enqueue") /\ UNCHANGED flags

Close(k) ==
    \/ Checks(k, Unusable)
    \/ Sends(k, "close") /\ flags' = [flags EXCEPT !.closeRequested = TRUE]

\* error() still counts after close().
Error(e) ==
    \/ Checks(e, flags.closed \/ flags.errored \/ flags.errorRequested)
    \/ Sends(e, "error") /\ flags' = [flags EXCEPT !.errorRequested = TRUE]

-----------------------------------------------------------------------------
(* The reader                                                               *)

Send(op, id) ==
    /\ cmds' = IF pc = "done" THEN cmds ELSE Append(cmds, [op |-> op, id |-> id])
    /\ scheduled' = (scheduled \/ pc \notin {"starting", "startFails", "control", "controlErrs",
                                             "commands", "done"})

\* A send whose completion the caller awaits.
Request(op, id) ==
    /\ result[id] = "unsent"
    /\ Send(op, id)
    /\ result' = [result EXCEPT ![id] = IF pc = "done" THEN "dropped" ELSE "pending"]
    /\ UNCHANGED <<posted, ctrls, waitVars, flags, storedError, pc, taskVars, histVars>>

Read(r) ==
    /\ \A q \in Reads : q < r => result[q] # "unsent"
    /\ Request("read", r)

Cancel(x) == Request("cancel", x)

\* The caller drops the future of a read it awaits, as a timeout does.
Abandon(r) ==
    /\ result[r] = "pending"
    /\ result' = [result EXCEPT ![r] = "abandoned"]
    /\ UNCHANGED <<posted, cmds, ctrls, waitVars, flags, storedError, pc, scheduled, taskVars, histVars>>

\* The first poll of a future, or a poll its waker caused.
Polls(c) ==
    \/ waitPc[c] = "idle"
    \/ waitPc[c] = "parked" /\ c \in woken

\* ready() and closed() end with an error as soon as the flag is up; the
\* error itself is read from its own cell.
Return(c, o) ==
    /\ waitPc' = [waitPc EXCEPT ![c] = "done"]
    /\ result' = [result EXCEPT ![c] = o]
ReturnError(c) == Return(c, IF storedError = None THEN "fallback" ELSE "stored")

Goes(c, next) ==
    /\ waitPc' = [waitPc EXCEPT ![c] = next]
    /\ result' = [result EXCEPT ![c] = "pending"]

\* What ready() takes for a read() that would return at once.
LooksReady == flags.closed \/ flags.total > 0

ReadyPoll(c) ==
    /\ Polls(c)
    /\ woken' = woken \ {c}
    /\ IF flags.errored THEN ReturnError(c)
       ELSE IF LooksReady THEN Return(c, "ok")
       ELSE Goes(c, "register")
    /\ UNCHANGED <<posted, cmds, ctrls, wakers, flags, storedError, pc, scheduled, taskVars, histVars>>

ClosedPoll(c) ==
    /\ Polls(c)
    /\ woken' = woken \ {c}
    /\ IF flags.errored THEN ReturnError(c)
       ELSE IF flags.closed THEN Return(c, "ok")
       ELSE Goes(c, "register")
    /\ UNCHANGED <<posted, cmds, ctrls, wakers, flags, storedError, pc, scheduled, taskVars, histVars>>

\* The waker travels to the task; a failed send is ignored.  closed() then
\* waits, ready() looks once more.
Register(c) ==
    /\ waitPc[c] = "register"
    /\ Send(IF c \in ReadyCalls THEN "ready" ELSE "closed", c)
    /\ Goes(c, IF c \in ReadyCalls THEN "recheck" ELSE "parked")
    /\ UNCHANGED <<posted, ctrls, woken, wakers, flags, storedError, pc, taskVars, histVars>>

Recheck(c) ==
    /\ waitPc[c] = "recheck"
    /\ IF flags.errored THEN ReturnError(c)
       ELSE IF LooksReady THEN Return(c, "ok")
       ELSE Goes(c, "parked")
    /\ UNCHANGED <<posted, cmds, ctrls, woken, wakers, flags, storedError, pc, scheduled, taskVars, histVars>>

WaiterStep(c) ==
    \/ c \in ReadyCalls /\ ReadyPoll(c)
    \/ c \in ClosedCalls /\ ClosedPoll(c)
    \/ Register(c)
    \/ Recheck(c)

-----------------------------------------------------------------------------
(* The stream task: start, and the control channel                          *)

StartSucceeds ==
    /\ pc = "starting"
    /\ pc' = "control"
    /\ inner' = SourceBack(inner)
    /\ UNCHANGED <<callerVars, posted, ctrls, waitVars, flags, storedError, scheduled, pull, cancelFuture, histVars>>

\* An error raises the errored flag before it stores the error for the
\* readers; the two are separate steps.
Errored(i, e) == [i EXCEPT !.state = "Errored", !.error = e]

StartFails ==
    /\ pc = "starting"
    /\ pc' = "startFails"
    /\ inner' = Errored(inner, "start")
    /\ flags' = [flags EXCEPT !.errored = TRUE]
    /\ UNCHANGED <<callerVars, posted, ctrls, waitVars, storedError, scheduled, pull, cancelFuture, histVars>>

StoreStartError ==
    /\ pc = "startFails"
    /\ pc' = "control"
    /\ storedError' = inner.error
    /\ flags' = [flags EXCEPT !.desired = 0]
    /\ Wake(wakers)
    /\ UNCHANGED <<callerVars, posted, ctrls, waitPc, scheduled, taskVars, histVars>>

\* The task is in the loop over the control channel, or its poll begins.
InControl ==
    /\ pc = "control" \/ (pc = "idle" /\ scheduled)
    /\ scheduled' = (scheduled /\ pc = "control")

Receives(op, id) ==
    /\ InControl
    /\ ctrls # <<>>
    /\ Head(ctrls) = [op |-> op, id |-> id]
    /\ ctrls' = Tail(ctrls)
    /\ UNCHANGED <<posted, cmds, waitPc, storedError, pull, cancelFuture, served, ended>>

\* Variants: nothing is refused after the end, or too much before it.
NotClosing == ~inner.closePending
NotAskedToClose == inner.state = "Readable" /\ ~flags.closeRequested

\* A chunk sent beside close() can arrive after it.
Accepting == inner.state = "Readable" /\ ~inner.closePending

MessageIgnored(op, id) ==
    /\ Receives(op, id)
    /\ IF op = "enqueue" THEN ~Accepting ELSE inner.state # "Readable"
    /\ pc' = "control"
    /\ UNCHANGED <<result, woken, wakers, flags, inner, delivered>>

EnqueueToRead(c) ==
    /\ Receives("enqueue", c)
    /\ Accepting /\ inner.pendingReads # <<>>
    /\ Deliver(Head(inner.pendingReads), c)
    /\ inner' = [inner EXCEPT !.pendingReads = Tail(@), !.needsPull = TRUE]
    /\ pc' = "control"
    /\ UNCHANGED <<woken, wakers, flags>>

EnqueueToQueue(c) ==
    /\ Receives("enqueue", c)
    /\ Accepting /\ inner.pendingReads = <<>>
    /\ inner' = [inner EXCEPT !.queue = Append(@, c), !.total = @ + Size[c], !.needsPull = TRUE]
    /\ flags' = UpdateDesiredSize([flags EXCEPT !.total = inner'.total])
    /\ Wake(wakers \cap ReadyCalls)
    /\ pc' = "control"
    /\ UNCHANGED <<result, delivered>>

CloseNow(k) ==
    /\ Receives("close", k)
    /\ inner.state = "Readable" /\ inner.queue = <<>>
    /\ result' = Settle(result, WaitingReads, "end")
    /\ inner' = [inner EXCEPT !.state = "Closed", !.pendingReads = <<>>]
    /\ flags' = [flags EXCEPT !.closed = TRUE, !.desired = 0]
    /\ Wake(wakers)
    /\ pc' = "control"
    /\ UNCHANGED delivered

\* The queue still holds chunks: the read that takes the last one closes.
CloseLater(k) ==
    /\ Receives("close", k)
    /\ inner.state = "Readable" /\ inner.queue # <<>>
    /\ inner' = [inner EXCEPT !.closePending = TRUE]
    /\ flags' = [flags EXCEPT !.desired = 0]
    /\ pc' = "control"
    /\ UNCHANGED <<result, woken, wakers, delivered>>

ErrorArrives(e) ==
    /\ Receives("error", e)
    /\ inner.state = "Readable"
    /\ inner' = Errored([inner EXCEPT !.closePending = FALSE], e)
    /\ flags' = [flags EXCEPT !.errored = TRUE, !.desired = 0]
    /\ pc' = "controlErrs"
    /\ UNCHANGED <<result, woken, wakers, delivered>>

StoreControllerError ==
    /\ pc = "controlErrs"
    /\ pc' = "control"
    /\ storedError' = inner.error
    /\ result' = Settle(result, WaitingReads, "stored")
    /\ inner' = Emptied(inner)
    /\ flags' = [flags EXCEPT !.total = 0]
    /\ Wake(wakers)
    /\ UNCHANGED <<posted, cmds, ctrls, waitPc, scheduled, pull, cancelFuture, histVars>>

ControlDrained ==
    /\ InControl
    /\ ctrls = <<>>
    /\ pc' = "commands"
    /\ UNCHANGED <<callerVars, posted, ctrls, waitVars, flags, storedError, taskVars, histVars>>

-----------------------------------------------------------------------------
(* The stream task: the command channel                                     *)

\* The next command taken off the channel is op(id).
Takes(op, id) ==
    /\ pc = "commands"
    /\ cmds # <<>>
    /\ Head(cmds) = [op |-> op, id |-> id]
    /\ cmds' = Tail(cmds)
    /\ UNCHANGED <<posted, ctrls, waitPc, storedError, pc, scheduled, served>>

CommandReadEnded(r) ==
    /\ Takes("read", r)
    /\ \/ inner.state = "Errored" /\ result' = Settle(result, {r}, "stored")
       \/ inner.state = "Closed" /\ inner.queue = <<>> /\ result' = Settle(result, {r}, "end")
    /\ UNCHANGED <<woken, wakers, flags, taskVars, delivered, ended>>

CommandReadChunk(r) ==
    /\ Takes("read", r)
    /\ inner.state # "Errored" /\ inner.queue # <<>>
    /\ Deliver(r, Head(inner.queue))
    /\ LET total == inner.total - Size[Head(inner.queue)]
           taken == [inner EXCEPT !.queue = Tail(@), !.total = total, !.needsPull = TRUE]
           drained == inner.closePending /\ taken.queue = <<>>
           counted == UpdateDesiredSize([flags EXCEPT !.total = total])
       IN /\ inner' = IF drained THEN [taken EXCEPT !.state = "Closed", !.closePending = FALSE]
                      ELSE taken
          /\ flags' = IF drained THEN [counted EXCEPT !.closed = TRUE, !.desired = 0] ELSE counted
          /\ Wake(IF drained THEN wakers ELSE {})
    /\ UNCHANGED <<pull, cancelFuture, ended>>

CommandReadParks(r) ==
    /\ Takes("read", r)
    /\ inner.state = "Readable" /\ inner.queue = <<>>
    /\ inner' = Park(inner, r)
    /\ UNCHANGED <<result, woken, wakers, flags, pull, cancelFuture, delivered, ended>>

CommandCancelMoot(x) ==
    /\ Takes("cancel", x)
    /\ inner.state # "Readable"
    /\ result' = Settle(result, {x}, IF inner.state = "Closed" THEN "ok" ELSE "stored")
    /\ UNCHANGED <<woken, wakers, flags, taskVars, delivered, ended>>

\* A stream being cancelled is not Readable, so the arm that joins a second
\* cancel to the first never runs.  The source's cancel is called at once, or,
\* when the source is inside pull(), after that pull has been cut short.
CommandCancel(x) ==
    /\ Takes("cancel", x)
    /\ inner.state = "Readable"
    /\ result' = Settle(result, WaitingReads, "canceled")
    /\ inner' = [Emptied(inner) EXCEPT !.state = "Closed", !.closePending = FALSE,
                                       !.cancelRequested = TRUE, !.cancelReason = x,
                                       !.cancelCompletions = @ \cup {x}, !.source = FALSE]
    /\ flags' = [flags EXCEPT !.closed = TRUE, !.total = 0]
    /\ Wake(wakers)
    /\ IF inner.source THEN cancelFuture' = "running" /\ ended' = x /\ UNCHANGED pull
       ELSE pull' = [pull EXCEPT !.cancelled = TRUE] /\ UNCHANGED <<cancelFuture, ended>>
    /\ UNCHANGED delivered

\* Variant: the waker is registered and the state is not looked at.
RegisterReadyOnly(c) ==
    /\ Takes("ready", c)
    /\ wakers' = wakers \cup {c}
    /\ UNCHANGED <<woken, result, flags, taskVars, delivered, ended>>

CommandRegisterReady(c) ==
    /\ Takes("ready", c)
    /\ IF inner.queue # <<>> \/ inner.state # "Readable"
       THEN LET all == wakers \cup {c}
            IN woken' = woken \cup (all \cap ReadyCalls) /\ wakers' = all \ ReadyCalls
       ELSE wakers' = wakers \cup {c} /\ UNCHANGED woken
    /\ UNCHANGED <<result, flags, taskVars, delivered, ended>>

CommandRegisterClosed(c) ==
    /\ Takes("closed", c)
    /\ IF inner.state # "Readable"
       THEN LET all == wakers \cup {c}
            IN woken' = woken \cup (all \cap ClosedCalls) /\ wakers' = all \ ClosedCalls
       ELSE wakers' = wakers \cup {c} /\ UNCHANGED woken
    /\ UNCHANGED <<result, flags, taskVars, delivered, ended>>

-----------------------------------------------------------------------------
(* The stream task: the source's cancel and pull                            *)

\* The channel is drained and source.cancel has returned.
CancelReturns ==
    /\ pc = "commands" /\ cmds = <<>> /\ cancelFuture \in {"ok", "err"}
    /\ pc' = "gate"
    /\ result' = Settle(result, inner.cancelCompletions, IF cancelFuture = "ok" THEN "ok" ELSE "failed")
    /\ inner' = [inner EXCEPT !.cancelRequested = FALSE, !.cancelCompletions = {}]
    /\ cancelFuture' = None
    /\ PollAgain
    /\ UNCHANGED <<posted, cmds, ctrls, waitVars, flags, storedError, pull, histVars>>

\* A pull was asked for and nothing stands against it.
PullDue == inner.needsPull /\ Accepting /\ pull.at = None /\ ~inner.cancelRequested

\* The stream wants data: its queue has room, or a read waits.
Wanted == (flags.desired > 0 \/ inner.pendingReads # <<>>) /\ inner.source

\* The command channel is drained and the cancel future was polled.
AtGate == \/ pc = "gate"
          \/ pc = "commands" /\ cmds = <<>> /\ cancelFuture \in {None, "running"}

StartPull ==
    /\ AtGate /\ PullDue /\ Wanted
    /\ pc' = "drive"
    /\ inner' = [inner EXCEPT !.needsPull = FALSE, !.source = FALSE]
    /\ pull' = [at |-> "running", cancelled |-> FALSE]
    /\ served' = served \cup WaitingReads
    /\ UNCHANGED <<callerVars, posted, ctrls, waitVars, flags, storedError, scheduled, cancelFuture, delivered, ended>>

\* The request is used up even when nothing is wanted.
PullNotWanted ==
    /\ AtGate /\ PullDue /\ ~Wanted
    /\ pc' = "idle"
    /\ inner' = [inner EXCEPT !.needsPull = FALSE]
    /\ UNCHANGED <<callerVars, posted, ctrls, waitVars, flags, storedError, scheduled, pull, cancelFuture, histVars>>

\* The pull future, if there is one, is polled.
AtDrive == pc = "drive" \/ (AtGate /\ ~PullDue)

\* Variant: the pull does not listen to the cancel channel.
NeverCutShort == FALSE

\* pull_with_cancel sees that pull_cancel_tx is gone.
CutShort == pull.cancelled

PullPending ==
    /\ AtDrive
    /\ pull.at = None \/ (pull.at = "running" /\ ~CutShort)
    /\ pc' = "idle"
    /\ UNCHANGED <<callerVars, posted, ctrls, waitVars, flags, storedError, scheduled, taskVars, histVars>>

\* Variant: a cancel that found the source in a pull settles with that pull.
PullReturnsAndSettles ==
    /\ AtDrive /\ pull.at # None
    /\ pull.at = "ok" \/ CutShort
    /\ pc' = "idle"
    /\ pull' = NoPull
    /\ inner' = [inner EXCEPT !.cancelRequested = FALSE, !.cancelCompletions = {}, !.source = TRUE]
    /\ result' = Settle(result, inner.cancelCompletions, "ok")
    /\ PollAgain
    /\ UNCHANGED <<cmds, posted, ctrls, waitVars, flags, storedError, cancelFuture, histVars>>

\* pull_with_cancel returns Ok: the pull did, or it was cut short.  When both
\* the pull and the cancel are ready, select! takes either.
PullReturns ==
    /\ AtDrive /\ pull.at # None
    /\ pull.at = "ok" \/ CutShort
    /\ pc' = "idle"
    /\ pull' = NoPull
    /\ IF inner.cancelRequested /\ cancelFuture = None
       THEN cancelFuture' = "running" /\ ended' = inner.cancelReason /\ UNCHANGED inner
       ELSE inner' = SourceBack(inner) /\ UNCHANGED <<cancelFuture, ended>>
    /\ PollAgain
    /\ UNCHANGED <<callerVars, posted, ctrls, waitVars, flags, storedError, delivered, served>>

PullFails ==
    /\ AtDrive /\ pull.at = "err"
    /\ pc' = "pullFails"
    /\ pull' = NoPull
    /\ inner' = Errored(inner, "pull")
    /\ flags' = [flags EXCEPT !.errored = TRUE]
    /\ UNCHANGED <<callerVars, posted, ctrls, waitVars, storedError, scheduled, cancelFuture, histVars>>

\* The source is gone with its future: a cancel that waited for it is done.
StorePullError ==
    /\ pc = "pullFails"
    /\ pc' = "idle"
    /\ storedError' = inner.error
    /\ result' = Settle(Settle(result, WaitingReads, "stored"),
                       IF inner.cancelRequested THEN inner.cancelCompletions ELSE {}, "ok")
    /\ inner' = [inner EXCEPT !.pendingReads = <<>>, !.cancelRequested = FALSE,
                              !.cancelCompletions = IF inner.cancelRequested THEN {} ELSE @]
    /\ Wake(wakers)
    /\ PollAgain
    /\ UNCHANGED <<posted, cmds, ctrls, waitPc, flags, pull, cancelFuture, histVars>>

-----------------------------------------------------------------------------
(* The environment                                                          *)

\* The future of source.pull or source.cancel becomes ready and wakes the task.
PullEnds(r) ==
    /\ pc # "done" /\ pull.at = "running"
    /\ pull' = [pull EXCEPT !.at = r]
    /\ scheduled' = TRUE
    /\ UNCHANGED <<callerVars, posted, ctrls, waitVars, flags, storedError, pc, inner, cancelFuture, histVars>>

CancelEnds(r) ==
    /\ pc # "done" /\ cancelFuture = "running"
    /\ cancelFuture' = r
    /\ scheduled' = TRUE
    /\ UNCHANGED <<callerVars, posted, ctrls, waitVars, flags, storedError, pc, inner, pull, histVars>>

\* The executor drops the task between two polls.  Every promise it held, or
\* that waited in the channel, fails; nobody is woken.
TaskDropped ==
    /\ pc \in {"starting", "idle"}
    /\ pc' = "done"
    /\ scheduled' = FALSE
    /\ result' = Settle(result, Reads \cup Cancels, "dropped")
    /\ cmds' = <<>> /\ ctrls' = <<>>
    /\ wakers' = {}
    /\ pull' = NoPull /\ cancelFuture' = None
    /\ inner' = [inner EXCEPT !.queue = <<>>, !.pendingReads = <<>>, !.cancelCompletions = {},
                              !.source = FALSE]
    /\ UNCHANGED <<posted, waitPc, woken, flags, storedError, histVars>>

-----------------------------------------------------------------------------
(* The specification                                                        *)

Init ==
    /\ result = [q \in Calls |-> "unsent"]
    /\ posted = [p \in Posts |-> "idle"]
    /\ cmds = <<>> /\ ctrls = <<>>
    /\ waitPc = [c \in Waiters |-> "idle"]
    /\ woken = {} /\ wakers = {}
    /\ flags = [total |-> 0, desired |-> HWM, closed |-> FALSE, errored |-> FALSE,
                closeRequested |-> FALSE, errorRequested |-> FALSE]
    /\ storedError = None
    /\ pc = "starting" /\ scheduled = FALSE
    /\ inner = [state |-> "Readable", queue |-> <<>>, total |-> 0, source |-> FALSE,
                pendingReads |-> <<>>, cancelRequested |-> FALSE, cancelReason |-> None,
                cancelCompletions |-> {}, error |-> None, needsPull |-> TRUE,
                closePending |-> FALSE]
    /\ pull = NoPull /\ cancelFuture = None
    /\ delivered = <<>> /\ served = {} /\ ended = None

ControllerStep ==
    \/ \E c \in Chunks : Enqueue(c)
    \/ \E k \in Closings : Close(k)
    \/ \E e \in Errors : Error(e)

ReaderStep ==
    \/ \E r \in Reads : Read(r) \/ Abandon(r)
    \/ \E x \in Cancels : Cancel(x)

StartStep == StartSucceeds \/ StartFails \/ StoreStartError

MessageStep ==
    \/ \E c \in Chunks : EnqueueToRead(c) \/ EnqueueToQueue(c) \/ MessageIgnored("enqueue", c)
    \/ \E k \in Closings : CloseNow(k) \/ CloseLater(k) \/ MessageIgnored("close", k)
    \/ \E e \in Errors : ErrorArrives(e) \/ MessageIgnored("error", e)
    \/ StoreControllerError \/ ControlDrained

CommandStep ==
    \/ \E r \in Reads : CommandReadEnded(r) \/ CommandReadChunk(r) \/ CommandReadParks(r)
    \/ \E x \in Cancels : CommandCancelMoot(x) \/ CommandCancel(x)
    \/ \E c \in ReadyCalls : CommandRegisterReady(c)
    \/ \E c \in ClosedCalls : CommandRegisterClosed(c)

SourceStep ==
    \/ CancelReturns
    \/ StartPull \/ PullNotWanted
    \/ PullPending \/ PullReturns \/ PullFails \/ StorePullError

PollStep == MessageStep \/ CommandStep \/ SourceStep

Next ==
    \/ ControllerStep \/ ReaderStep
    \/ \E c \in Waiters : WaiterStep(c)
    \/ StartStep \/ PollStep \/ TaskDropped
    \/ \E r \in {"ok", "err"} : PullEnds(r) \/ CancelEnds(r)

Spec == Init /\ [][Next]_vars

\* A task whose waker has fired is polled, and its poll runs to its end; so is
\* a future.  start() and source.cancel() return.  A pull may take for ever,
\* and nobody is obliged to call anything.
Fairness ==
    /\ WF_vars(PollStep)
    /\ WF_vars(StartStep)
    /\ WF_vars(\E r \in {"ok", "err"} : CancelEnds(r))
    /\ \A c \in Waiters : WF_vars(WaiterStep(c))

FairSpec == Spec /\ Fairness
=============================================================================
