------------------------------ MODULE Transform ------------------------------
(***************************************************************************)
(* The transform stream (streams/transform.rs): the task that runs the     *)
(* transformer, the sink and the source through which the writable and the *)
(* readable side reach it, the controller, and the SpaceSignal with which  *)
(* the readable side holds the task back.                                  *)
(*                                                                         *)
(* The two sides are streams of their own, modelled in full by             *)
(* WritableStream and ReadableStream; here they keep what the transform    *)
(* observes of them.  Five actors run on different threads: the three      *)
(* tasks, a clone of the controller the transformer captured, and the      *)
(* callers.  A call of the controller is a list of accesses to what is     *)
(* shared, todo[t], and a step is the first of them.                       *)
(***************************************************************************)
EXTENDS Integers, Sequences

CONSTANTS
    PerCall,   \* bound: chunks the transformer enqueues in one call
    Plans      \* the instances: the readable strategy's high water mark (every
               \* chunk has size 1), how the three tasks are spawned, and the
               \* bound on how often each of Calls is made

Calls == {"write", "close", "abort", "read", "cancel", "enqueue", "error", "terminate", "fail",
          "capturedEnqueue", "capturedError", "capturedTerminate"}

ASSUME TransformAssumption ==
    /\ PerCall \in Nat
    /\ Plans \subseteq [hwm : Nat, spawn : {"bundled", "parts"}, calls : [Calls -> Nat]]

None == "none"
Task == "task"
Clone == "clone"
Threads == {Task, Clone}

VARIABLES
    plan,      \* the instance; spawn() bundles the tasks in one, spawn_parts() does not
    left,      \* how often each of Calls may still be made
    w,         \* the writable stream and its task; op is the sink's method in flight
    aborted,   \* the abort flag of the writable's controller
    wError,    \* an error for the writable is in its control channel
    cmd,       \* transform_rx; the sink has one command under way at a time
    answer,    \* the completion of the command under way
    task,      \* where the transform task is
    why,       \* what transformer.cancel() was called for
    todo,      \* what each thread has left to do of the call it is in
    given,     \* chunks enqueued in this call of the transformer
    raised,    \* errored_with
    signal,    \* SpaceSignal, and the waker of the writable's abort_future
    woken,     \* the tasks ("task", "readable") whose waker has fired
    r,         \* the readable stream and its task
    rctl,      \* the readable's control channel
    pull,      \* where TransformReadableSource::pull is
    cancel,    \* where readable.cancel() is
    ran        \* history: the ending methods of the transformer, in order

writableVars == <<w, aborted, wError, cmd, answer>>
taskVars == <<task, why, todo, given, raised, ran>>
readableVars == <<r, rctl, pull, cancel>>
vars == <<plan, left, writableVars, taskVars, signal, woken, readableVars>>

Accesses == {"post", "count", "closeGate", "raise", "rError", "rClose", "wError", "wakePull",
             "answerOk", "answerErr", "cancelOk", "cancelErr", "drain", "stop"}

TypeOK ==
    /\ plan \in Plans
    /\ left \in [Calls -> Nat]
    /\ w \in [state : {"writable", "errored", "closed"}, queued : Nat, closing : BOOLEAN,
              aborting : BOOLEAN, op : {None, "write", "close", "abort"}, sink : BOOLEAN]
    /\ aborted \in BOOLEAN /\ wError \in BOOLEAN
    /\ cmd \in {None, "write", "close", "abort"}
    /\ answer \in {None, "ok", "err"}
    /\ task \in {"starting", "select", "space", "recheck", "parked", "transform", "flush",
                 "cancelling", "ending", "done"}
    /\ why \in {None, "close", "abort", "cancel"}
    /\ todo \in [Threads -> Seq(Accesses)]
    /\ given \in Nat /\ raised \in BOOLEAN
    /\ signal \in [space : BOOLEAN, pending : Nat, waker : BOOLEAN, pullWaker : BOOLEAN,
                 abortWaker : BOOLEAN]
    /\ woken \subseteq {"task", "readable"}
    /\ r \in [state : {"open", "closing", "closed", "errored"}, queue : Nat, asked : Nat, reads : Nat,
              closeRequested : BOOLEAN, errorRequested : BOOLEAN, needsPull : BOOLEAN,
              phase : {"idle", "control", "commands", "drive"}]
    /\ rctl \in Seq({"chunk", "close", "error"})
    /\ pull \in {None, "sync", "open", "shut", "check", "register", "parked"}
    /\ cancel \in {None, "asked", "cut", "fire", "send", "sent", "taken", "ok", "err"}
    /\ ran \in Seq({"flush", "cancel"})

-----------------------------------------------------------------------------
(* Helpers                                                                  *)

HWM == plan.hwm

Spend(k) == left[k] > 0 /\ left' = [left EXCEPT ![k] = @ - 1]

Ended == r.state \in {"closed", "errored"}
Desired == HWM - r.queue

\* The chunks the readable has been given and no read has taken.  The channel of a
\* readable whose end was not asked for holds nothing else.
Undelivered == r.queue + Len(rctl)

\* AtomicWaker::wake of the two wakers of the signal.
WakeTask(s) == [s EXCEPT !.waker = FALSE]
WakePull(s) == [s EXCEPT !.pullWaker = FALSE]
Roused(s) == (IF s.waker THEN {"task"} ELSE {})
PullRoused(s) == (IF s.pullWaker THEN {"readable"} ELSE {})

ErrorCall == <<"raise", "rError", "wError", "wakePull">>
TerminateCall == <<"rClose", "wError", "wakePull">>
EnqueueCall == <<"post", "count">>

-----------------------------------------------------------------------------
(* The writable side                                                        *)

Write ==
    /\ Spend("write")
    /\ w.state = "writable" /\ ~w.closing
    /\ w' = [w EXCEPT !.queued = @ + 1]
    /\ UNCHANGED <<aborted, wError, cmd, answer, taskVars, signal, woken, readableVars>>

Close ==
    /\ Spend("close")
    /\ w.state = "writable" /\ ~w.closing
    /\ w' = [w EXCEPT !.closing = TRUE]
    /\ UNCHANGED <<aborted, wError, cmd, answer, taskVars, signal, woken, readableVars>>

Abort ==
    /\ Spend("abort")
    /\ w.state = "writable"
    /\ w' = [w EXCEPT !.state = "errored", !.aborting = TRUE, !.queued = 0]
    /\ UNCHANGED <<aborted, wError, cmd, answer, taskVars, signal, woken, readableVars>>

\* process_controller_msgs: ignored once the stream ends, or a close was asked for.
WritableErrored ==
    /\ wError
    /\ wError' = FALSE
    /\ w' = IF w.state = "writable" /\ ~w.closing THEN [w EXCEPT !.state = "errored", !.queued = 0] ELSE w
    /\ UNCHANGED <<left, aborted, cmd, answer, taskVars, signal, woken, readableVars>>

\* controller.request_abort; abort_future wakes the task that races it.
SignalAbort ==
    /\ w.aborting /\ ~aborted
    /\ aborted' = TRUE
    /\ woken' = woken \cup (IF signal.abortWaker THEN {"task"} ELSE {})
    /\ signal' = [signal EXCEPT !.abortWaker = FALSE]
    /\ UNCHANGED <<left, w, wError, cmd, answer, taskVars, readableVars>>

\* The sink sends a command; a channel without its receiver refuses it.
Sends(op) ==
    /\ w.op = None /\ w.sink /\ (w.aborting => aborted)
    /\ IF task = "done" THEN answer' = "err" /\ UNCHANGED cmd ELSE cmd' = op /\ UNCHANGED answer
    /\ UNCHANGED <<left, aborted, wError, taskVars, signal, woken, readableVars>>

\* Variant: the queue is not looked at.
SinkWriteAnyway == w.state = "writable" /\ Sends("write") /\ w' = [w EXCEPT !.op = "write", !.queued = @ - 1]

SinkWrite == w.state = "writable" /\ w.queued > 0 /\ Sends("write") /\ w' = [w EXCEPT !.op = "write", !.queued = @ - 1]
SinkClose == w.closing /\ w.queued = 0 /\ Sends("close") /\ w' = [w EXCEPT !.op = "close"]
SinkAbort == w.aborting /\ ~w.closing /\ Sends("abort") /\ w' = [w EXCEPT !.op = "abort"]

\* An abort that finds a close in flight lets it run and resolves at once.
AbortDuringClose ==
    /\ w.op = "close" /\ w.aborting /\ aborted
    /\ w' = [w EXCEPT !.aborting = FALSE, !.state = "errored"]
    /\ UNCHANGED <<left, aborted, wError, cmd, answer, taskVars, signal, woken, readableVars>>

\* A failed write takes the sink with it, as the end of a close or an abort does.
SinkReturns ==
    /\ w.op # None /\ answer # None
    /\ answer' = None
    /\ LET failed == answer = "err" \/ w.state = "errored"
       IN w' = CASE w.op = "write" /\ w.aborting -> [w EXCEPT !.op = None]
                 [] w.op = "write" /\ ~w.aborting /\ ~failed -> [w EXCEPT !.op = None]
                 [] w.op = "write" /\ ~w.aborting /\ failed ->
                      [w EXCEPT !.op = None, !.state = "errored", !.queued = 0, !.closing = FALSE, !.sink = FALSE]
                 [] w.op = "close" ->
                      [w EXCEPT !.op = None, !.state = IF failed THEN "errored" ELSE "closed",
                                !.closing = FALSE, !.sink = FALSE]
                 [] w.op = "abort" -> [w EXCEPT !.op = None, !.aborting = FALSE, !.sink = FALSE]
    /\ UNCHANGED <<left, aborted, wError, cmd, taskVars, signal, woken, readableVars>>

-----------------------------------------------------------------------------
(* The controller: one access at a time                                     *)

\* The next access of thread t is a; more is what it adds to the list.
DoesThen(t, a, more) ==
    /\ todo[t] # <<>> /\ Head(todo[t]) = a
    /\ todo' = [todo EXCEPT ![t] = more \o Tail(@)]
    /\ UNCHANGED left
Does(t, a) == DoesThen(t, a, <<>>)

Unusable == Ended \/ r.closeRequested \/ r.errorRequested

\* What a message to the readable task wakes.
Post(m) == rctl' = Append(rctl, m) /\ woken' = woken \cup {"readable"}

PostChunk(t) ==
    /\ Does(t, "post")
    /\ IF Unusable THEN UNCHANGED <<rctl, woken>> ELSE Post("chunk")
    /\ UNCHANGED <<writableVars, task, why, given, raised, ran, signal, r, pull, cancel>>

\* Variant: the gate shuts one chunk late.
CountLate(t) ==
    /\ signal' = [signal EXCEPT !.pending = @ + 1]
    /\ DoesThen(t, "count", IF signal.pending + 1 > HWM THEN <<"closeGate">> ELSE <<>>)
    /\ UNCHANGED <<writableVars, task, why, given, raised, ran, woken, readableVars>>

\* record_enqueue, whether or not the chunk was taken.
Count(t) ==
    /\ signal' = [signal EXCEPT !.pending = @ + 1]
    /\ DoesThen(t, "count", IF HWM = 0 \/ signal.pending + 1 >= HWM THEN <<"closeGate">> ELSE <<>>)
    /\ UNCHANGED <<writableVars, task, why, given, raised, ran, woken, readableVars>>

CloseGate(t) ==
    /\ Does(t, "closeGate")
    /\ signal' = WakePull([signal EXCEPT !.space = FALSE])
    /\ woken' = woken \cup PullRoused(signal)
    /\ UNCHANGED <<writableVars, task, why, given, raised, ran, readableVars>>

Raise(t) ==
    /\ Does(t, "raise")
    /\ raised' = TRUE
    /\ UNCHANGED <<writableVars, task, why, given, ran, signal, woken, readableVars>>

\* Surplus errors are ignored, and are no failure.
ErrorReadable(t) ==
    /\ Does(t, "rError")
    /\ IF Ended \/ r.errorRequested THEN UNCHANGED <<rctl, woken, r>>
       ELSE Post("error") /\ r' = [r EXCEPT !.errorRequested = TRUE]
    /\ UNCHANGED <<writableVars, task, why, given, raised, ran, signal, pull, cancel>>

\* A refused close ends terminate() there.
CloseReadable(t) ==
    /\ todo[t] # <<>> /\ Head(todo[t]) = "rClose"
    /\ IF Unusable
       THEN todo' = [todo EXCEPT ![t] = SubSeq(@, 4, Len(@))] /\ UNCHANGED <<rctl, woken, r>>
       ELSE /\ todo' = [todo EXCEPT ![t] = Tail(@)]
            /\ Post("close") /\ r' = [r EXCEPT !.closeRequested = TRUE]
    /\ UNCHANGED <<left, writableVars, task, why, given, raised, ran, signal, pull, cancel>>

ErrorWritable(t) ==
    /\ Does(t, "wError")
    /\ wError' = TRUE
    /\ UNCHANGED <<w, aborted, cmd, answer, task, why, given, raised, ran, signal, woken, readableVars>>

WakesPull(t) ==
    /\ Does(t, "wakePull")
    /\ signal' = WakePull(signal)
    /\ woken' = woken \cup PullRoused(signal)
    /\ UNCHANGED <<writableVars, task, why, given, raised, ran, readableVars>>

\* The completions the task sends, and its end.
Completes(res) ==
    /\ Does(Task, IF res = "ok" THEN "answerOk" ELSE "answerErr")
    /\ answer' = res
    /\ UNCHANGED <<w, aborted, wError, cmd, task, why, given, raised, ran, signal, woken, readableVars>>

CompletesCancel(res) ==
    /\ Does(Task, IF res = "ok" THEN "cancelOk" ELSE "cancelErr")
    /\ cancel' = res
    /\ UNCHANGED <<writableVars, task, why, given, raised, ran, signal, woken, r, rctl, pull>>

\* The command that came beside a cancel is rejected.
Drain ==
    /\ Does(Task, "drain")
    /\ cmd' = None
    /\ answer' = IF cmd = None THEN answer ELSE "err"
    /\ UNCHANGED <<w, aborted, wError, task, why, given, raised, ran, signal, woken, readableVars>>

\* Both receivers go: a command left there fails, a cancel left there resolves.
Stop ==
    /\ Does(Task, "stop")
    /\ task' = "done"
    /\ cmd' = None
    /\ answer' = IF cmd = None THEN answer ELSE "err"
    /\ cancel' = IF cancel = "sent" THEN "ok" ELSE cancel
    /\ UNCHANGED <<w, aborted, wError, why, given, raised, ran, signal, woken, r, rctl, pull>>

ThreadStep ==
    \/ \E t \in Threads : \/ PostChunk(t) \/ Count(t) \/ CloseGate(t) \/ Raise(t) \/ ErrorReadable(t)
                          \/ CloseReadable(t) \/ ErrorWritable(t) \/ WakesPull(t)
    \/ \E res \in {"ok", "err"} : Completes(res) \/ CompletesCancel(res)
    \/ Drain \/ Stop

-----------------------------------------------------------------------------
(* The transform task                                                       *)

\* The task goes on to place p, or ends after the accesses in s.
Goes(p) == task' = p /\ UNCHANGED <<why, todo, raised>>
EndsAfter(s) == task' = "ending" /\ todo' = [todo EXCEPT ![Task] = s] /\ UNCHANGED <<why, raised>>

\* The user's code in start(), transform() and flush() holds the controller.
InUserCode == task \in {"starting", "transform", "flush"} /\ todo[Task] = <<>>

TransformerCalls(k, call) ==
    /\ InUserCode \/ (task = "cancelling" /\ todo[Task] = <<>> /\ k = "error")
    /\ Spend(k)
    /\ k = "enqueue" => given < PerCall
    /\ given' = IF k = "enqueue" THEN given + 1 ELSE given
    /\ todo' = [todo EXCEPT ![Task] = call]
    /\ UNCHANGED <<writableVars, task, why, raised, ran, signal, woken, readableVars>>

CloneCalls(k, call) ==
    /\ todo[Clone] = <<>> /\ Spend(k)
    /\ todo' = [todo EXCEPT ![Clone] = call]
    /\ UNCHANGED <<writableVars, task, why, given, raised, ran, signal, woken, readableVars>>

StartReturns ==
    /\ task = "starting" /\ todo[Task] = <<>>
    /\ given' = 0
    /\ \/ Goes("select") /\ UNCHANGED left
       \/ Spend("fail") /\ EndsAfter(ErrorCall \o <<"stop">>)
    /\ UNCHANGED <<writableVars, ran, signal, woken, readableVars>>

\* wait_for_readable_space begins: nobody waits once an ending was asked for.
TakeWrite ==
    /\ task = "select" /\ cmd = "write" /\ todo[Task] = <<>>
    /\ cmd' = None
    /\ Goes(IF Unusable THEN "transform" ELSE "space")
    /\ UNCHANGED <<left, w, aborted, wError, answer, given, ran, signal, woken, readableVars>>

\* select! polls the space and the abort.
SpacePoll ==
    /\ task = "space" \/ (task = "parked" /\ "task" \in woken)
    /\ woken' = woken \ {"task"}
    /\ IF signal.space \/ aborted THEN Goes("transform") /\ UNCHANGED signal
       ELSE Goes("recheck") /\ signal' = [signal EXCEPT !.waker = TRUE]
    /\ UNCHANGED <<left, writableVars, given, ran, readableVars>>

\* poll_space looks again once its waker is stored; abort_future does not.
SpaceRecheck ==
    /\ task = "recheck"
    /\ Goes(IF signal.space THEN "transform" ELSE "parked")
    /\ signal' = [signal EXCEPT !.abortWaker = TRUE]
    /\ UNCHANGED <<left, writableVars, given, ran, woken, readableVars>>

TransformReturns ==
    /\ task = "transform" /\ todo[Task] = <<>>
    /\ given' = 0
    /\ \/ task' = "select" /\ todo' = [todo EXCEPT ![Task] = <<"answerOk">>] /\ UNCHANGED <<left, why, raised>>
       \/ Spend("fail") /\ EndsAfter(ErrorCall \o <<"answerErr", "stop">>)
    /\ UNCHANGED <<writableVars, ran, signal, woken, readableVars>>

CallsCancel(reason) ==
    /\ task' = "cancelling" /\ why' = reason
    /\ ran' = Append(ran, "cancel")
    /\ UNCHANGED <<left, w, aborted, wError, answer, todo, given, raised, signal, woken, r, rctl, pull>>

\* Variant: the cancel that came with the close is not looked at.
FlushFirst ==
    /\ task = "select" /\ cmd = "close" /\ todo[Task] = <<>>
    /\ cmd' = None
    /\ Goes("flush") /\ ran' = Append(ran, "flush")
    /\ UNCHANGED <<left, w, aborted, wError, answer, given, signal, woken, readableVars>>

\* A cancel that came as well wins over the close.
TakeClose ==
    /\ task = "select" /\ cmd = "close" /\ todo[Task] = <<>>
    /\ cmd' = None
    /\ IF cancel = "sent" THEN CallsCancel("close") /\ cancel' = "taken"
       ELSE /\ Goes("flush") /\ ran' = Append(ran, "flush")
            /\ UNCHANGED <<left, w, aborted, wError, answer, given, signal, woken, readableVars>>

\* Variant: the loop goes on after the flush.
FlushGoesOn ==
    /\ task = "flush" /\ todo[Task] = <<>>
    /\ given' = 0
    /\ task' = "select" /\ todo' = [todo EXCEPT ![Task] = TerminateCall \o <<"answerOk">>]
    /\ UNCHANGED <<left, why, raised, writableVars, ran, signal, woken, readableVars>>

FlushReturns ==
    /\ task = "flush" /\ todo[Task] = <<>>
    /\ given' = 0
    /\ \/ EndsAfter(TerminateCall \o <<"answerOk", "stop">>) /\ UNCHANGED left
       \/ Spend("fail") /\ EndsAfter(ErrorCall \o <<"answerErr", "stop">>)
    /\ UNCHANGED <<writableVars, ran, signal, woken, readableVars>>

TakeAbort ==
    /\ task = "select" /\ cmd = "abort" /\ todo[Task] = <<>>
    /\ cmd' = None /\ CallsCancel("abort") /\ UNCHANGED cancel

TakeCancel ==
    /\ task = "select" /\ cancel = "sent" /\ todo[Task] = <<>>
    /\ cancel' = "taken" /\ CallsCancel("cancel") /\ UNCHANGED cmd

\* transformer.cancel() returns; a controller it errored counts as a failure.
CancelReturns ==
    /\ task = "cancelling" /\ todo[Task] = <<>>
    /\ \E ok \in BOOLEAN :
         /\ IF ok THEN UNCHANGED left ELSE Spend("fail")
         /\ LET clean == ok /\ ~raised
                told == IF clean THEN <<"cancelOk">> ELSE <<"cancelErr">>
            IN EndsAfter(CASE why = "close" -> told \o ErrorCall \o <<"answerErr", "stop">>
                           [] why = "abort" -> ErrorCall \o <<IF clean THEN "answerOk" ELSE "answerErr", "stop">>
                           [] why = "cancel" -> told \o (IF clean THEN <<"wError">> ELSE ErrorCall)
                                                     \o <<"drain", "stop">>)
    /\ UNCHANGED <<writableVars, given, ran, signal, woken, readableVars>>

\* The sink was dropped: the command channel ends.
ChannelEnds ==
    /\ task = "select" /\ cmd = None /\ ~w.sink /\ w.op = None /\ todo[Task] = <<>>
    /\ EndsAfter(<<"stop">>)
    /\ UNCHANGED <<left, writableVars, given, ran, signal, woken, readableVars>>

-----------------------------------------------------------------------------
(* The readable side                                                        *)

Read ==
    /\ Spend("read")
    /\ r' = [r EXCEPT !.asked = @ + 1]
    /\ woken' = woken \cup {"readable"}
    /\ UNCHANGED <<writableVars, taskVars, signal, rctl, pull, cancel>>

Cancel ==
    /\ Spend("cancel") /\ cancel = None
    /\ cancel' = "asked"
    /\ woken' = woken \cup {"readable"}
    /\ UNCHANGED <<writableVars, taskVars, signal, r, rctl, pull>>

\* A step of the readable task in the given phase of its poll.
InPhase(p) ==
    /\ r.phase = p \/ (p = "control" /\ r.phase = "idle" /\ "readable" \in woken)
    /\ UNCHANGED <<left, writableVars, taskVars>>
Begun == IF r.phase = "idle" THEN woken \ {"readable"} ELSE woken

ReadableControl ==
    /\ InPhase("control") /\ rctl # <<>>
    /\ woken' = Begun
    /\ rctl' = Tail(rctl)
    /\ LET i == [r EXCEPT !.phase = "control"]
       IN r' = CASE Head(rctl) = "chunk" /\ r.state = "open" /\ r.reads > 0 ->
                      [i EXCEPT !.reads = @ - 1, !.needsPull = TRUE]
                 [] Head(rctl) = "chunk" /\ r.state = "open" /\ r.reads = 0 ->
                      [i EXCEPT !.queue = @ + 1, !.needsPull = TRUE]
                 [] Head(rctl) = "close" /\ r.state = "open" ->
                      IF r.queue = 0 THEN [i EXCEPT !.state = "closed", !.reads = 0]
                      ELSE [i EXCEPT !.state = "closing"]
                 [] Head(rctl) = "error" /\ ~Ended ->
                      [i EXCEPT !.state = "errored", !.queue = 0, !.reads = 0]
                 [] OTHER -> i
    /\ UNCHANGED <<signal, pull, cancel>>

ControlDrained ==
    /\ InPhase("control") /\ rctl = <<>>
    /\ woken' = Begun
    /\ r' = [r EXCEPT !.phase = "commands"]
    /\ UNCHANGED <<signal, rctl, pull, cancel>>

ReadableRead ==
    /\ InPhase("commands") /\ r.asked > 0
    /\ LET i == [r EXCEPT !.asked = @ - 1]
       IN r' = CASE r.queue > 0 ->
                      [i EXCEPT !.queue = @ - 1, !.needsPull = TRUE,
                                !.state = IF r.state = "closing" /\ r.queue = 1 THEN "closed" ELSE @]
                 [] r.queue = 0 /\ r.state = "open" -> [i EXCEPT !.reads = @ + 1, !.needsPull = TRUE]
                 [] OTHER -> i
    /\ UNCHANGED <<signal, woken, rctl, pull, cancel>>

ReadableCancel ==
    /\ InPhase("commands") /\ cancel = "asked"
    /\ IF Ended THEN cancel' = "ok" /\ UNCHANGED r
       ELSE /\ r' = [r EXCEPT !.state = "closed", !.queue = 0, !.reads = 0]
            /\ cancel' = IF pull = None THEN "fire" ELSE "cut"
    /\ UNCHANGED <<signal, woken, rctl, pull>>

ReadableGate ==
    /\ InPhase("commands") /\ r.asked = 0 /\ cancel # "asked"
    /\ IF r.needsPull /\ r.state = "open" /\ pull = None
       THEN LET wanted == Desired > 0 \/ r.reads > 0
            IN /\ r' = [r EXCEPT !.needsPull = FALSE, !.phase = IF wanted THEN "drive" ELSE "idle"]
               /\ pull' = IF wanted THEN "sync" ELSE None
       ELSE r' = [r EXCEPT !.phase = "drive"] /\ pull' = IF pull = "parked" THEN "check" ELSE pull
    /\ UNCHANGED <<signal, woken, rctl, cancel>>

\* The pull is over: the source is back, and the task polls itself again.
PullOver ==
    /\ pull' = None
    /\ r' = [r EXCEPT !.phase = "idle"]
    /\ woken' = woken \cup {"readable"}

\* There is no pull, or it is dropped for the cancel.
NoPull ==
    /\ InPhase("drive")
    /\ \/ pull = None /\ r' = [r EXCEPT !.phase = "idle"] /\ UNCHANGED <<pull, cancel, woken>>
       \/ pull # None /\ cancel = "cut" /\ PullOver /\ cancel' = "fire"
    /\ UNCHANGED <<signal, rctl>>

\* Variant: the gate stays shut when the high water mark is zero.
OpensAboveZero(ds) == ds > 0

\* Room in the queue, or a read that waits at a high water mark of zero.
Opens(ds) == ds > 0 \/ HWM = 0

\* sync_from_desired_size, unless desired_size() says the stream errored.
PullSyncs ==
    /\ InPhase("drive") /\ pull = "sync"
    /\ LET ds == IF r.state = "closed" \/ (r.closeRequested /\ r.queue = 0) THEN 0 ELSE Desired
       IN IF r.state = "errored" \/ r.errorRequested THEN pull' = "check" /\ UNCHANGED signal
          ELSE /\ signal' = [signal EXCEPT !.pending = IF HWM > ds THEN HWM - ds ELSE 0]
               /\ pull' = IF Opens(ds) THEN "open" ELSE "shut"
    /\ UNCHANGED <<woken, r, rctl, cancel>>

PullOpens ==
    /\ InPhase("drive") /\ pull \in {"open", "shut"}
    /\ IF pull = "open"
       THEN signal' = WakeTask([signal EXCEPT !.space = TRUE]) /\ woken' = woken \cup Roused(signal)
       ELSE signal' = [signal EXCEPT !.space = FALSE] /\ UNCHANGED woken
    /\ pull' = "check"
    /\ UNCHANGED <<r, rctl, cancel>>

\* poll_backpressure: look, register, look again.
PullChecks ==
    /\ InPhase("drive") /\ pull = "check" /\ cancel # "cut"
    /\ IF Unusable \/ ~signal.space THEN PullOver /\ UNCHANGED signal
       ELSE pull' = "register" /\ signal' = [signal EXCEPT !.pullWaker = TRUE] /\ UNCHANGED <<r, woken>>
    /\ UNCHANGED <<rctl, cancel>>

PullRechecks ==
    /\ InPhase("drive") /\ pull = "register"
    /\ IF ~signal.space THEN PullOver
       ELSE pull' = "parked" /\ r' = [r EXCEPT !.phase = "idle"] /\ UNCHANGED woken
    /\ UNCHANGED <<signal, rctl, cancel>>

\* TransformReadableSource::cancel
CancelFires ==
    /\ cancel = "fire"
    /\ cancel' = "send"
    /\ signal' = WakeTask([signal EXCEPT !.pending = 0, !.space = TRUE])
    /\ woken' = woken \cup Roused(signal)
    /\ UNCHANGED <<left, writableVars, taskVars, r, rctl, pull>>

\* With the task gone there is only the writable to error.
CancelSends ==
    /\ cancel = "send"
    /\ IF task = "done" THEN cancel' = "ok" /\ wError' = TRUE
       ELSE cancel' = "sent" /\ UNCHANGED wError
    /\ UNCHANGED <<left, w, aborted, cmd, answer, taskVars, signal, woken, r, rctl, pull>>

-----------------------------------------------------------------------------
(* The specification                                                        *)

Init ==
    /\ plan \in Plans
    /\ left = plan.calls
    /\ w = [state |-> "writable", queued |-> 0, closing |-> FALSE, aborting |-> FALSE, op |-> None,
            sink |-> TRUE]
    /\ aborted = FALSE /\ wError = FALSE /\ cmd = None /\ answer = None
    /\ task = "starting" /\ why = None
    /\ todo = [t \in Threads |-> <<>>]
    /\ given = 0 /\ raised = FALSE
    /\ signal = [space |-> HWM > 0, pending |-> 0, waker |-> FALSE, pullWaker |-> FALSE,
               abortWaker |-> FALSE]
    /\ woken = {"readable"}
    /\ r = [state |-> "open", queue |-> 0, asked |-> 0, reads |-> 0, closeRequested |-> FALSE,
            errorRequested |-> FALSE, needsPull |-> TRUE, phase |-> "idle"]
    /\ rctl = <<>> /\ pull = None /\ cancel = None
    /\ ran = <<>>

CallerStep == Write \/ Close \/ Abort \/ Read \/ Cancel

UserCall ==
    \/ TransformerCalls("enqueue", EnqueueCall) \/ TransformerCalls("error", ErrorCall)
    \/ TransformerCalls("terminate", TerminateCall)
    \/ CloneCalls("capturedEnqueue", EnqueueCall) \/ CloneCalls("capturedError", ErrorCall)
    \/ CloneCalls("capturedTerminate", TerminateCall)

WritableStep ==
    \/ WritableErrored \/ SignalAbort
    \/ SinkWrite \/ SinkClose \/ SinkAbort \/ AbortDuringClose \/ SinkReturns

TaskStep ==
    \/ StartReturns \/ TakeWrite \/ SpacePoll \/ SpaceRecheck \/ TransformReturns
    \/ TakeClose \/ FlushReturns \/ TakeAbort \/ TakeCancel \/ CancelReturns \/ ChannelEnds

\* pull() of the readable's source.
SourcePull == PullSyncs \/ PullOpens \/ PullChecks \/ PullRechecks

ReadableStep ==
    \/ ReadableControl \/ ControlDrained \/ ReadableRead \/ ReadableCancel \/ ReadableGate
    \/ NoPull \/ SourcePull
    \/ CancelFires \/ CancelSends

\* Within one poll of a bundle no task is in the middle of another's.
ReadableRests == plan.spawn = "bundled" => r.phase = "idle"
TaskRests == plan.spawn = "bundled" => todo[Task] = <<>> /\ task # "recheck"

\* What goes on without another call.
TransformRuns == ReadableRests /\ (ThreadStep \/ TaskStep) /\ UNCHANGED plan
ReadableRuns == TaskRests /\ ReadableStep /\ UNCHANGED plan
WritableRuns == TaskRests /\ ReadableRests /\ WritableStep /\ UNCHANGED plan
Work == TransformRuns \/ ReadableRuns \/ WritableRuns

Next ==
    \/ CallerStep /\ UNCHANGED plan
    \/ ReadableRests /\ UserCall /\ UNCHANGED plan
    \/ Work

Spec == Init /\ [][Next]_vars
=============================================================================
