--------------------------------- MODULE Pipe ---------------------------------
(***************************************************************************)
(* pipe_to (pipe_to_inner of streams/readable.rs): one future that reads a *)
(* source, writes to a destination without waiting for its writes, carries *)
(* an end or an error of either to the other, and stops on an AbortSignal. *)
(*                                                                         *)
(* The source and the destination are the contracts ReadableEnd and        *)
(* WritableEnd, which ReadableStream and WritableStream implement; around  *)
(* them are the commands the pipe sends and the answers it awaits.  The    *)
(* pipe, the two stream tasks and the calls of abort() run on threads of   *)
(* their own.  The tasks are not dropped while the pipe runs.              *)
(***************************************************************************)
EXTENDS Integers, Sequences

CONSTANTS
    Plans,     \* the instances: the StreamPipeOptions, the destination's state
               \* and high water mark, the chunks the source is given, and what
               \* may go wrong
    MaxChunks, \* bound: the most chunks a source is given
    Triggers   \* calls of abort() on the AbortController

Prevents == {"close", "abort", "cancel"}
Faults == {"sourceErrors", "sinkErrors", "controllerErrors", "cancelErrors", "abortErrors"}

ASSUME PipeAssumption ==
    /\ MaxChunks \in Nat
    /\ Plans \subseteq [prevent : SUBSET Prevents, signal : BOOLEAN, dest : {"writable", "closed"},
                        hwm : Nat, chunks : 0..MaxChunks, faults : SUBSET Faults]
    /\ "none" \notin Triggers

None == "none"
ThePipe == "pipe"

VARIABLES
    plan,       \* the instance
    sState, sClosing, sLine, sGiven,                   \* the source, a ReadableEnd
    posted,     \* chunks given to the source so far
    asked,      \* how many reads the pipe has sent
    reply,      \* what the read under way has yielded
    canceling,  \* the pipe's cancel of the source
    wState, wClosing, wLine, wBusy, wSunk, wEnded,     \* the destination, a WritableEnd
    cmds,       \* the destination's command channel
    draining,   \* has its task taken commands and not dispatched since?
    full,       \* its backpressure flag
    parked,     \* is a waker of the pipe's ready() registered?
    woken,      \* has it fired?
    closeAnswer, abortAnswer,                          \* completions of close() and abort()
    pc,         \* where the pipe is
    failure,    \* the error it will reject with
    outcome,    \* what pipe_to has yielded
    aborted, reason, lock, tpc, opc, wakers, roused, seen  \* the AbortSignal

readableVars == <<sState, sClosing, sLine, sGiven>>
sourceVars == <<readableVars, posted, asked, reply, canceling>>
writableVars == <<wState, wClosing, wLine, wBusy, wSunk, wEnded>>
channelVars == <<cmds, draining, full, parked, woken>>
answerVars == <<closeAnswer, abortAnswer>>
destVars == <<writableVars, channelVars, answerVars>>
pipeVars == <<pc, failure, outcome>>
signalVars == <<aborted, reason, lock, tpc, opc, wakers, roused, seen>>
vars == <<plan, sourceVars, destVars, pipeVars, signalVars>>

Chunks == 1..MaxChunks
Reads == 1..(MaxChunks + 1)

S == INSTANCE ReadableEnd WITH state <- sState, closing <- sClosing, line <- sLine, given <- sGiven
W == INSTANCE WritableEnd WITH state <- wState, closing <- wClosing, line <- wLine, busy <- wBusy,
                               sunk <- wSunk, ended <- wEnded
Signal == INSTANCE AbortSignal WITH Observers <- {ThePipe}

\* A command: write(n) is n.
CloseCmd == 0
AbortCmd == -1
ReadyCmd == -2
Sendable == {CloseCmd, AbortCmd, ReadyCmd} \cup Chunks

SourceOK ==
    /\ sState \in {"open", "ended", "canceled", "errored"} /\ sClosing \in BOOLEAN
    /\ sLine \in Seq(Chunks) /\ sGiven \in Seq([read : Reads, chunk : Chunks])
    /\ posted \in Nat /\ asked \in Nat
    /\ reply \in {None, "waiting", "chunk", "end", "err"}
    /\ canceling \in {None, "asked", "running", "ok", "err"}

DestOK ==
    /\ wState \in {"writable", "errored", "closed"} /\ wClosing \in BOOLEAN
    /\ wLine \in Seq(Chunks) /\ wBusy \in {None, "write", "close", "abort"}
    /\ wSunk \in Seq(Chunks) /\ wEnded \in {None, "close", "abort"}
    /\ cmds \in Seq(Sendable)
    /\ draining \in BOOLEAN /\ full \in BOOLEAN /\ parked \in BOOLEAN /\ woken \in BOOLEAN
    /\ closeAnswer \in {None, "waiting", "ok", "err"} /\ abortAnswer \in {None, "waiting", "ok", "err"}

PathOK ==
    /\ pc \in {"ready", "recheck", "readyWaits", "read", "race", "cancel", "close", "abort",
               "signalCancel", "signalAbort", "done"}
    /\ failure \in {None, "write", "closed", "read", "aborted"}
    /\ outcome \in {None, "ok", "write", "closed", "read", "aborted", "cancel", "close", "abort"}

TypeOK == plan \in Plans /\ SourceOK /\ DestOK /\ PathOK /\ Signal!TypeOK

-----------------------------------------------------------------------------
(* The source                                                               *)

SourceStep == UNCHANGED <<plan, asked, destVars, pipeVars, signalVars>>
May(f) == f \in plan.faults

\* A chunk arrives, for the read that waits in the task or for the line.
Post ==
    /\ SourceStep
    /\ posted < plan.chunks /\ posted' = posted + 1
    /\ \/ S!Arrive(posted + 1) /\ UNCHANGED reply
       \/ /\ reply = "waiting" /\ S!ArriveToRead(posted + 1)
          /\ sGiven' = Append(sGiven, [read |-> asked, chunk |-> posted + 1])
          /\ reply' = "chunk"
    /\ UNCHANGED canceling

Serve ==
    /\ SourceStep
    /\ reply = "waiting"
    /\ S!Take
    /\ sGiven' = Append(sGiven, [read |-> asked, chunk |-> Head(sLine)])
    /\ reply' = "chunk"
    /\ UNCHANGED <<posted, canceling>>

EndSource ==
    /\ SourceStep
    /\ S!CloseLater \/ S!End
    /\ UNCHANGED <<posted, reply, canceling>>

FailSource ==
    /\ SourceStep /\ May("sourceErrors")
    /\ S!Stop("errored")
    /\ UNCHANGED <<posted, reply, canceling>>

\* The pull that was under way when the stream ended fails after all, which
\* answers a cancel that waited for it.
FailSourceLate ==
    /\ SourceStep /\ May("sourceErrors")
    /\ S!FailLate
    /\ sState = "canceled" => canceling = "running"
    /\ canceling' = IF canceling = "running" THEN "ok" ELSE canceling
    /\ UNCHANGED <<posted, reply>>

\* A read of a stream that has ended, or that waits while it ends.
AnswerEnd ==
    /\ SourceStep
    /\ reply = "waiting" /\ sState # "open"
    /\ reply' = IF sState = "errored" THEN "err" ELSE "end"
    /\ UNCHANGED <<readableVars, posted, canceling>>

\* Variant: a cancel drops the task.
CancelAsLoss ==
    /\ SourceStep
    /\ canceling = "asked"
    /\ S!Stop("gone") /\ canceling' = "ok"
    /\ UNCHANGED <<posted, reply>>

\* The pipe's cancel reaches the source; source.cancel() returns.
CancelSource ==
    /\ SourceStep
    /\ canceling = "asked"
    /\ IF sState = "open" THEN S!Stop("canceled") /\ canceling' = "running"
       ELSE /\ canceling' = IF sState = "errored" THEN "err" ELSE "ok"
            /\ UNCHANGED readableVars
    /\ UNCHANGED <<posted, reply>>

CancelReturns ==
    /\ SourceStep
    /\ canceling = "running"
    /\ canceling' \in {"ok"} \cup IF May("cancelErrors") THEN {"err"} ELSE {}
    /\ UNCHANGED <<readableVars, posted, reply>>

-----------------------------------------------------------------------------
(* The destination                                                          *)

DestStep == UNCHANGED <<plan, sourceVars, pipeVars, signalVars>>

\* update_flags wakes ready() only when there is no backpressure.
SetFull(f) ==
    /\ full' = f
    /\ IF f THEN UNCHANGED <<parked, woken>> ELSE parked' = FALSE /\ woken' = (woken \/ parked)

Backpressure(line, busy) == Len(line) + (IF busy = "write" THEN 1 ELSE 0) >= plan.hwm

Takes(c) ==
    /\ DestStep
    /\ cmds # <<>> /\ Head(cmds) = c
    /\ cmds' = Tail(cmds)
    /\ draining' = TRUE

CommandWrite(c) ==
    /\ Takes(c) /\ c \in Chunks
    /\ IF wState = "writable" /\ ~wClosing
       THEN W!Accept(c) /\ SetFull(Backpressure(wLine', wBusy))
       ELSE UNCHANGED <<writableVars, full, parked, woken>>
    /\ UNCHANGED answerVars

CommandReady ==
    /\ Takes(ReadyCmd)
    /\ IF full THEN parked' = TRUE /\ UNCHANGED woken ELSE woken' = TRUE /\ UNCHANGED parked
    /\ UNCHANGED <<writableVars, full, answerVars>>

CommandClose ==
    /\ Takes(CloseCmd)
    /\ IF wState = "writable" /\ ~wClosing THEN W!AskClose /\ UNCHANGED closeAnswer
       ELSE closeAnswer' = "err" /\ UNCHANGED writableVars
    /\ UNCHANGED <<full, parked, woken, abortAnswer>>

\* The completion of an abort goes with its command, then with the task.
AbortAwaited == abortAnswer = "waiting" /\ \A k \in 1..Len(cmds) : cmds[k] # AbortCmd

\* Only a writable stream is aborted.  The close stays asked for.
CommandAbort ==
    /\ Takes(AbortCmd)
    /\ IF wState = "writable"
       THEN /\ W!Fail /\ wBusy' = wBusy /\ wClosing' = wClosing
            /\ UNCHANGED abortAnswer
       ELSE abortAnswer' = "ok" /\ UNCHANGED writableVars
    /\ UNCHANGED <<full, parked, woken, closeAnswer>>

\* Once the channel is empty the task starts what is due, in the same poll.
Dispatches ==
    /\ DestStep
    /\ cmds = <<>> /\ draining' = FALSE
    /\ UNCHANGED <<cmds, full, parked, woken>>

\* The sink's future returns, or a controller's message is found: not between
\* the commands of a poll.
Drives == DestStep /\ ~draining /\ UNCHANGED <<cmds, draining>>

NothingDue ==
    /\ wBusy # None \/ wLine = <<>>
    /\ wBusy # None \/ ~wClosing
    /\ wBusy = "write" \/ ~AbortAwaited

PollEnds ==
    /\ Dispatches /\ draining
    /\ NothingDue
    /\ UNCHANGED <<writableVars, answerVars>>

BeginWrite ==
    /\ Dispatches
    /\ W!BeginWrite
    /\ UNCHANGED answerVars

\* After controller.error() nothing counts as queued; an abort that waits for
\* the write leaves the flag to its own end.
WriteReturns ==
    /\ Drives
    /\ W!EndWrite
    /\ IF wState = "errored" /\ AbortAwaited THEN UNCHANGED <<full, parked, woken>>
       ELSE SetFull(Backpressure(wLine, None))
    /\ UNCHANGED answerVars

\* The flag keeps what the failed write left in the queue.
WriteFails ==
    /\ Drives /\ May("sinkErrors")
    /\ wBusy = "write" /\ wState = "writable"
    /\ W!Fail /\ wBusy' = None /\ ~wClosing'
    /\ SetFull(Backpressure(wLine, None))
    /\ closeAnswer' = IF wClosing THEN "err" ELSE closeAnswer
    /\ UNCHANGED abortAnswer

\* controller.error() wakes every waiter and leaves the backpressure flag.
ControllerErrors ==
    /\ Drives /\ May("controllerErrors")
    /\ wState = "writable" /\ ~wClosing
    /\ W!Fail /\ wBusy' = wBusy /\ wClosing' = wClosing
    /\ parked' = FALSE /\ woken' = (woken \/ parked)
    /\ UNCHANGED <<full, answerVars>>

BeginClose ==
    /\ Dispatches
    /\ W!BeginClose
    /\ UNCHANGED answerVars

\* sink.close() returns; a close that an abort overtook ends in the error.
CloseReturns(res) ==
    /\ Drives
    /\ res = "err" => May("sinkErrors")
    /\ W!EndClose
    /\ wState' = IF res = "ok" /\ (wState = "writable" \/ closeAnswer = "waiting") THEN "closed" ELSE "errored"
    /\ closeAnswer' = IF closeAnswer = "waiting" THEN res ELSE closeAnswer
    /\ SetFull(FALSE)
    /\ UNCHANGED abortAnswer

\* An abort that finds the close under way, or over, has nothing to do; the
\* close it overtakes is rejected.
AbortSettles ==
    /\ Dispatches
    /\ AbortAwaited /\ wState # "writable" /\ wEnded = "close"
    /\ abortAnswer' = "ok"
    /\ closeAnswer' = IF wBusy = "close" /\ closeAnswer = "waiting" THEN "err" ELSE closeAnswer
    /\ UNCHANGED writableVars

\* sink.abort() is called once an abort is pending and no write is under way.
BeginAbort ==
    /\ Dispatches
    /\ AbortAwaited /\ ~wClosing
    /\ wBusy = None
    /\ W!BeginAbort
    /\ UNCHANGED answerVars

AbortReturns(res) ==
    /\ Drives
    /\ res = "err" => May("abortErrors")
    /\ W!EndAbort
    /\ abortAnswer' = IF AbortAwaited THEN res ELSE abortAnswer
    /\ SetFull(FALSE)
    /\ UNCHANGED closeAnswer

-----------------------------------------------------------------------------
(* The pipe                                                                 *)

PipeStep(from, to) ==
    /\ pc = from /\ pc' = to
    /\ UNCHANGED <<plan, readableVars, posted, writableVars, draining, full, parked, signalVars>>

Prevented(p) == p \in plan.prevent

Sends(c) == cmds' = Append(cmds, c)

Ends(o) == pc' = "done" /\ outcome' = o

\* The pipe's own steps leave alone what they do not name.
Calm == UNCHANGED <<asked, reply, canceling, cmds, woken, answerVars, failure, outcome>>

\* Variant: the source is left as it is.
RejectsAtOnce(e) == failure' = e /\ Ends(e) /\ UNCHANGED canceling

\* Shutdown-with-action: the source is cancelled, or the pipe rejects at once.
FailsBackward(e) ==
    /\ failure' = e
    /\ IF Prevented("cancel") THEN Ends(e) /\ UNCHANGED canceling
       ELSE pc' = "cancel" /\ canceling' = "asked" /\ UNCHANGED outcome

Stays == UNCHANGED <<plan, readableVars, posted, writableVars, draining, full, parked, signalVars>>

\* writer.ready(): the flags, then the registration, then backpressure again.
ReadyPoll ==
    /\ pc = "ready" \/ (pc = "readyWaits" /\ woken)
    /\ Stays /\ woken' = FALSE
    /\ IF wState = "errored" THEN FailsBackward("write") /\ UNCHANGED cmds
       ELSE IF wState = "closed" \/ ~full
       THEN pc' = "read" /\ UNCHANGED <<cmds, canceling, failure, outcome>>
       ELSE pc' = "recheck" /\ Sends(ReadyCmd) /\ UNCHANGED <<canceling, failure, outcome>>
    /\ UNCHANGED <<asked, reply, answerVars>>

ReadyRecheck ==
    /\ PipeStep("recheck", IF full THEN "readyWaits" ELSE "read")
    /\ Calm

\* select! of read() and closed(): the read is sent, then either may win.
SendRead ==
    /\ PipeStep("read", "race")
    /\ asked' = asked + 1 /\ reply' = "waiting"
    /\ UNCHANGED <<canceling, cmds, woken, answerVars, failure, outcome>>

\* Variant: only the read is awaited.
NeverNotices == pc = "race" /\ pc = "done" /\ UNCHANGED vars

\* The closed arm; the read that waits is dropped.
NoticesClosed ==
    /\ pc = "race" /\ wState # "writable"
    /\ Stays
    /\ FailsBackward(IF wState = "errored" THEN "write" ELSE "closed")
    /\ UNCHANGED <<asked, reply, cmds, woken, answerVars>>

\* Variant: a chunk that finds no room is dropped.
ForwardIfRoom ==
    /\ PipeStep("race", "ready") /\ reply = "chunk"
    /\ cmds' = IF full THEN cmds ELSE Append(cmds, sGiven[Len(sGiven)].chunk)
    /\ reply' = None
    /\ UNCHANGED <<asked, canceling, woken, answerVars, failure, outcome>>

\* Fire and forget.
Forward ==
    /\ PipeStep("race", "ready") /\ reply = "chunk"
    /\ Sends(sGiven[Len(sGiven)].chunk)
    /\ reply' = None
    /\ UNCHANGED <<asked, canceling, woken, answerVars, failure, outcome>>

\* Variant: the end of the source is the end of the pipe.
ReturnsAtEnd ==
    /\ pc = "race" /\ reply = "end"
    /\ Stays
    /\ Ends("ok")
    /\ reply' = None
    /\ UNCHANGED <<asked, canceling, woken, abortAnswer, failure, closeAnswer, cmds>>

\* The source has ended: the destination is closed after the writes before it.
PropagatesEnd ==
    /\ pc = "race" /\ reply = "end"
    /\ Stays
    /\ IF Prevented("close") THEN Ends("ok") /\ UNCHANGED <<cmds, closeAnswer>>
       ELSE pc' = "close" /\ Sends(CloseCmd) /\ closeAnswer' = "waiting" /\ UNCHANGED outcome
    /\ reply' = None
    /\ UNCHANGED <<asked, canceling, woken, abortAnswer, failure>>

PropagatesError ==
    /\ pc = "race" /\ reply = "err"
    /\ Stays
    /\ failure' = "read"
    /\ IF Prevented("abort") THEN Ends("read") /\ UNCHANGED <<cmds, abortAnswer>>
       ELSE pc' = "abort" /\ Sends(AbortCmd) /\ abortAnswer' = "waiting" /\ UNCHANGED outcome
    /\ reply' = None
    /\ UNCHANGED <<asked, canceling, woken, closeAnswer>>

\* The action's own failure takes precedence over the error that caused it.
CancelDone ==
    /\ PipeStep("cancel", "done") /\ canceling \in {"ok", "err"}
    /\ outcome' = IF canceling = "err" THEN "cancel" ELSE failure
    /\ UNCHANGED <<asked, reply, canceling, cmds, woken, answerVars, failure>>

CloseDone ==
    /\ PipeStep("close", "done") /\ closeAnswer \in {"ok", "err"}
    /\ outcome' = IF closeAnswer = "err" THEN "close" ELSE "ok"
    /\ UNCHANGED <<asked, reply, canceling, cmds, woken, answerVars, failure>>

AbortDone ==
    /\ PipeStep("abort", "done") /\ abortAnswer \in {"ok", "err"}
    /\ outcome' = IF abortAnswer = "err" THEN "abort" ELSE failure
    /\ UNCHANGED <<asked, reply, canceling, cmds, woken, answerVars, failure>>

\* The signal wins over the loop, wherever that is: the source is cancelled,
\* then the destination aborted.
InLoop == pc \notin {"signalCancel", "signalAbort", "done"}

SignalFires ==
    /\ plan.signal /\ InLoop /\ opc[ThePipe] = "read"
    /\ Stays
    /\ pc' = "signalCancel" /\ failure' = "aborted"
    /\ canceling' = IF Prevented("cancel") THEN "ok" ELSE "asked"
    /\ UNCHANGED <<asked, reply, cmds, woken, answerVars, outcome>>

SignalAborts ==
    /\ pc = "signalCancel" /\ canceling \in {"ok", "err"}
    /\ Stays
    /\ IF Prevented("abort")
       THEN Ends(IF canceling = "err" THEN "cancel" ELSE "aborted") /\ UNCHANGED <<cmds, abortAnswer>>
       ELSE pc' = "signalAbort" /\ Sends(AbortCmd) /\ abortAnswer' = "waiting" /\ UNCHANGED outcome
    /\ UNCHANGED <<asked, reply, canceling, woken, closeAnswer, failure>>

SignalDone ==
    /\ PipeStep("signalAbort", "done") /\ abortAnswer \in {"ok", "err"}
    /\ outcome' = IF abortAnswer = "err" THEN "abort" ELSE IF canceling = "err" THEN "cancel" ELSE "aborted"
    /\ UNCHANGED <<asked, reply, canceling, cmds, woken, answerVars, failure>>

-----------------------------------------------------------------------------
(* The specification                                                        *)

\* A destination that was closed before the pipe got its writer.
DestinationClosed ==
    /\ wState = "closed" /\ wClosing = FALSE /\ wLine = <<>>
    /\ wBusy = None /\ wSunk = <<>> /\ wEnded = "close"

Init ==
    /\ plan \in Plans
    /\ S!Init /\ posted = 0 /\ asked = 0 /\ reply = None /\ canceling = None
    /\ (IF plan.dest = "writable" THEN W!Init ELSE DestinationClosed)
    /\ cmds = <<>> /\ draining = FALSE /\ full = (plan.hwm = 0) /\ parked = FALSE /\ woken = FALSE
    /\ closeAnswer = None /\ abortAnswer = None
    /\ pc = "ready" /\ failure = None /\ outcome = None
    /\ Signal!Init

\* What the tasks do once asked; source.cancel(), sink.write() and the others return.
SourceWork == Serve \/ AnswerEnd \/ CancelSource \/ CancelReturns

DestWork ==
    \/ \E c \in 1..plan.chunks : CommandWrite(c)
    \/ CommandReady \/ CommandClose \/ CommandAbort
    \/ PollEnds \/ BeginWrite \/ WriteReturns \/ WriteFails
    \/ BeginClose \/ \E res \in {"ok", "err"} : CloseReturns(res) \/ AbortReturns(res)
    \/ BeginAbort \/ AbortSettles

PipeWork ==
    \/ ReadyPoll \/ ReadyRecheck \/ SendRead \/ NoticesClosed
    \/ Forward \/ PropagatesEnd \/ PropagatesError
    \/ CancelDone \/ CloseDone \/ AbortDone
    \/ SignalFires \/ SignalAborts \/ SignalDone

SignalStep(A) == plan.signal /\ A /\ UNCHANGED <<plan, sourceVars, destVars, pipeVars>>

SignalWork ==
    \/ \E t \in Triggers : SignalStep(Signal!Check(t) \/ Signal!Store(t) \/ Signal!Unlock(t) \/ Signal!WakeAll(t))
    \/ SignalStep(Signal!ObserverStep(ThePipe))

CallAbort == \E t \in Triggers : SignalStep(Signal!Lock(t))

Next ==
    \/ Post \/ EndSource \/ FailSource \/ FailSourceLate \/ ControllerErrors
    \/ SourceWork \/ DestWork \/ PipeWork
    \/ CallAbort \/ SignalWork

Spec == Init /\ [][Next]_vars

\* The tasks and the pipe are polled when woken, the sink's and the source's
\* methods return, and a call of abort() runs to its end.
Fairness ==
    /\ WF_vars(SourceWork) /\ WF_vars(DestWork)
    /\ WF_vars(PipeWork) /\ WF_vars(SignalWork)

FairSpec == Spec /\ Fairness
=============================================================================
