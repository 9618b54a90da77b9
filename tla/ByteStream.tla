------------------------------ MODULE ByteStream ------------------------------
(***************************************************************************)
(* The readable byte stream: the state that sources, readers and the byte  *)
(* task share (ByteStreamState, streams/byte_state.rs) and the task itself *)
(* (readable_byte_stream_task, streams/readable.rs).                       *)
(*                                                                         *)
(* Unlike the default stream there is no channel between controller and    *)
(* task.  A controller, captured or inside the source's start() and        *)
(* pull(), and every BYOB reader work on the shared state directly, under  *)
(* one lock at a time and with atomics in between.  A thread is therefore  *)
(* a list of operations still to do, todo[t], and a step is the first of   *)
(* them: one critical section, or one decision on the atomics with the     *)
(* store and the wakeup it leads to.                                       *)
(***************************************************************************)
EXTENDS Integers, Sequences, FiniteSets

CONSTANTS
    Sizes,        \* length of each chunk the producers enqueue, in order
    HWM,          \* the strategy's high water mark, in bytes
    BufLen,       \* length of every BYOB buffer, in bytes
    Producers,    \* captured clones of the controller, each on its own thread
    Endings,      \* which of controller.close() and controller.error() occur
    Reads,        \* calls of the default reader's read()
    Intos,        \* calls of the BYOB reader's read(buf), or of AsyncRead
    Owned,        \* calls of read_owned(buf)
    ClosedCalls,  \* closed() futures
    Cancels,      \* calls of cancel()
    Mixes,        \* bound: which of all these calls are made together
    MaxEndings    \* bound: how many of Endings are made

Byob == Intos \cup Owned \cup ClosedCalls
Commanded == Reads \cup Cancels
Calls == Byob \cup Commanded
Task == "task"
Threads == {Task} \cup Producers \cup Byob
Nobody == "nobody"

ASSUME ByteAssumption ==
    /\ Sizes \in Seq(Nat \ {0})
    /\ HWM \in Nat
    /\ BufLen \in Nat \ {0}
    /\ Endings \subseteq {"close", "error"}
    /\ MaxEndings \in Nat
    \* threads and calls have names of their own
    /\ {Task, Nobody} \cap (Producers \cup Calls) = {}
    /\ Producers \cap Calls = {} /\ Byob \cap Commanded = {} /\ Reads \cap Cancels = {}
    /\ Intos \cap Owned = {} /\ (Intos \cup Owned) \cap ClosedCalls = {}

\* A byte is named by its chunk and its place in it.
Bytes == UNION {{<<k, i>> : i \in 1..Sizes[k]} : k \in DOMAIN Sizes}
Chunk(k) == [i \in 1..Sizes[k] |-> <<k, i>>]

\* What a call's future has yielded.  "data": bytes, "eof": the end of the
\* stream, "err": the stored error, "failed": the error of source.cancel.
Outcomes == {"unsent", "pending", "data", "eof", "ok", "err", "failed", "abandoned"}

Steps == {"push", "settle", "announce", "close", "errored", "announceEnd", "trigger", "force",
          "started", "clear", "reset", "poll", "pollEmpty", "register", "into", "join",
          "recheck", "resettle", "pollEnd"}

Places == {"starting", "loop", "registerPull", "registerServe", "command", "parked", "pullDue", "pulling",
           "drain", "drained", "pullFailed", "pullEnds", "giveBack", "serve", "read", "empty",
           "park", "takeSource", "cancelling", "done"}

VARIABLES
    queue,      \* the bytes buffered, and queue_total_size
    flags,      \* closed and errored
    gate,       \* the pull gate, the serve gate and pull_in_progress
    started,    \* start_completed, and the futures waiting for it
    readWakers, \* BYOB futures whose waker is in read_wakers
    pending,    \* pending_pull_intos
    lent,       \* the read_owned calls whose buffer a ByobRequest holds
    source,     \* where the source is
    todo,       \* operations each thread has still to do
    woken,      \* threads whose waker has fired since their last poll
    task,       \* where the task is, and its locals
    reads,      \* pending_reads
    commands,   \* the command channel
    call,       \* outcome of every call
    made,       \* enqueue() calls so far
    ended,      \* endings called so far
    dropped,    \* have all handles been dropped?
    pushed,     \* history: chunks that reached the buffer
    taken,      \* history: bytes handed out of the buffer, in order
    cleared,    \* history: has a cancel emptied the buffer?
    cancelRuns  \* history: how often source.cancel() was called

sharedVars == <<queue, flags, gate, started, readWakers, pending, lent>>
taskVars == <<task, reads, commands, source>>
userVars == <<call, made, ended, dropped>>
histVars == <<pushed, taken, cleared, cancelRuns>>
vars == <<sharedVars, todo, woken, taskVars, userVars, histVars>>

TypeOK ==
    /\ queue \in [bytes : Seq(Bytes), size : Nat]
    /\ flags \in [closed : BOOLEAN, errored : BOOLEAN]
    /\ gate \in [needsPull : BOOLEAN, pullWaker : BOOLEAN, serve : BOOLEAN,
                 serveWaker : BOOLEAN, pulling : BOOLEAN]
    /\ started \in [done : BOOLEAN, wakers : SUBSET Intos]
    /\ readWakers \subseteq Byob
    /\ pending \in Seq(Owned)
    /\ lent \subseteq Owned
    /\ source \in {"here", "away", "gone"}
    /\ todo \in [Threads -> Seq(Steps)]
    /\ woken \subseteq Threads
    /\ task \in [at : Places, cur : Commanded \cup {Nobody}, then : {"loop", "drain", "serve"},
                 before : Nat, progress : BOOLEAN]
    /\ reads \in Seq(Reads)
    /\ commands \in Seq(Commanded)
    /\ call \in [Calls -> Outcomes]
    /\ made \in 0..Len(Sizes) /\ pushed \in 0..made
    /\ ended \subseteq Endings
    /\ dropped \in BOOLEAN
    /\ taken \in Seq(Bytes)
    /\ cleared \in BOOLEAN
    /\ cancelRuns \in 0..1

-----------------------------------------------------------------------------
(* Threads and the queue                                                    *)

Idle(t) == todo[t] = <<>>

\* Thread t is at operation op, and will do `more` before the rest.
Does(t, op, more) ==
    /\ todo[t] # <<>> /\ Head(todo[t]) = op
    /\ todo' = [todo EXCEPT ![t] = more \o Tail(@)]

\* Operations that several methods share.
EnqueueSteps == <<"push", "settle", "announce">>
CloseSteps == <<"close", "settle", "announceEnd">>
ErrorSteps == <<"errored", "settle", "announceEnd">>

\* Futures in S are polled again.
Wakes(S) == woken' = woken \cup S

Answers(c, outcome) == call' = [call EXCEPT ![c] = IF @ = "pending" THEN outcome ELSE @]

Over == flags.closed \/ flags.errored

Min2(a, b) == IF a <= b THEN a ELSE b
\* Variant: subtraction without saturation.
PlainSub(a, b) == a - b
SaturatingSub(a, b) == IF a > b THEN a - b ELSE 0

\* Length of the front entry: a chunk, or what BYOB reads left of it.
FrontLen == Cardinality({i \in DOMAIN queue.bytes : queue.bytes[i][1] = queue.bytes[1][1]})

\* Variant: a chunk taken in part leaves the buffer whole.
HandsOutEntry(n) ==
    /\ queue' = [bytes |-> SubSeq(queue.bytes, FrontLen + 1, Len(queue.bytes)),
                 size |-> SaturatingSub(queue.size, n)]
    /\ taken' = taken \o SubSeq(queue.bytes, 1, n)

\* drain_queue_into: the first n bytes leave the buffer, across chunks.
HandsOut(n) ==
    /\ queue' = [bytes |-> SubSeq(queue.bytes, n + 1, Len(queue.bytes)),
                 size |-> SaturatingSub(queue.size, n)]
    /\ taken' = taken \o SubSeq(queue.bytes, 1, n)

-----------------------------------------------------------------------------
(* Operations on the shared state, by any thread                            *)

\* enqueue_bytes, under the buffer's lock.
Push(t) ==
    /\ Does(t, "push", <<>>)
    /\ pushed' = pushed + 1
    /\ queue' = [bytes |-> queue.bytes \o Chunk(pushed'), size |-> queue.size + Sizes[pushed']]
    /\ UNCHANGED <<flags, gate, started, readWakers, pending, lent, woken, taskVars, userVars,
                   taken, cleared, cancelRuns>>

\* The waiting read_owned calls the buffered bytes reach, and what they take.
Reached == {i \in DOMAIN pending : (i - 1) * BufLen < Len(queue.bytes)}
Fill == Min2(Len(queue.bytes), Cardinality(Reached) * BufLen)

\* settle_pending_pull_intos, under both locks: an error rejects every waiting
\* call; else the bytes are shared out in order, and a close ends the rest.
Settles(i) ==
    IF flags.errored THEN "err" ELSE IF i \in Reached THEN "data"
    ELSE IF flags.closed THEN "eof" ELSE "pending"

SettlePullIntos(t) ==
    /\ Does(t, "settle", IF ~flags.errored /\ Fill > 0 THEN <<"trigger">> ELSE <<>>)
    /\ call' = [c \in Calls |-> IF \E i \in DOMAIN pending : pending[i] = c
                                THEN Settles(CHOOSE i \in DOMAIN pending : pending[i] = c)
                                ELSE call[c]]
    /\ IF flags.errored
       THEN pending' = <<>> /\ UNCHANGED <<queue, taken>>
       ELSE /\ pending' = IF flags.closed THEN <<>>
                          ELSE SubSeq(pending, Cardinality(Reached) + 1, Len(pending))
            /\ HandsOut(Fill)
    /\ UNCHANGED <<flags, gate, started, readWakers, lent, woken, taskVars, made, ended, dropped,
                   pushed, cleared, cancelRuns>>

\* wake_readers and notify_serve; close() and error() wake the pull gate too.
Announce(t) ==
    /\ \/ Does(t, "announce", <<>>)
       \/ Does(t, "announceEnd", <<>>)
    /\ LET end == Head(todo[t]) = "announceEnd"
       IN  /\ Wakes(readWakers \cup
                    IF gate.serveWaker \/ (end /\ gate.pullWaker) THEN {Task} ELSE {})
           /\ gate' = [gate EXCEPT !.serve = TRUE, !.serveWaker = FALSE,
                                   !.pullWaker = @ /\ ~end]
    /\ readWakers' = {}
    /\ UNCHANGED <<queue, flags, started, pending, lent, taskVars, userVars, histVars>>

SetClosed(t) ==
    /\ Does(t, "close", <<>>)
    /\ flags' = [flags EXCEPT !.closed = TRUE]
    /\ UNCHANGED <<queue, gate, started, readWakers, pending, lent, woken, taskVars, userVars,
                   histVars>>

SetErrored(t) ==
    /\ Does(t, "errored", <<>>)
    /\ flags' = [flags EXCEPT !.errored = TRUE]
    /\ UNCHANGED <<queue, gate, started, readWakers, pending, lent, woken, taskVars, userVars,
                   histVars>>

\* maybe_trigger_pull and force_pull: arm the pull gate and wake the task.
ArmsPull ==
    IF gate.pulling \/ Over THEN UNCHANGED <<gate, woken>>
    ELSE /\ gate' = [gate EXCEPT !.needsPull = TRUE, !.pullWaker = FALSE]
         /\ Wakes(IF gate.pullWaker THEN {Task} ELSE {})

Trigger(t) ==
    /\ \/ /\ Does(t, "trigger", <<>>)
          /\ IF queue.size < HWM THEN ArmsPull ELSE UNCHANGED <<gate, woken>>
       \/ Does(t, "force", <<>>) /\ ArmsPull
    /\ UNCHANGED <<queue, flags, started, readWakers, pending, lent, taskVars, userVars, histVars>>

\* Variant: begin_pull_into does not look at the flags after registering.
RecheckNothing(t) ==
    /\ \/ Does(t, "recheck", <<"force">>)
       \/ Does(t, "resettle", IF Over THEN <<"settle">> ELSE <<"force">>)
    /\ UNCHANGED <<sharedVars, woken, taskVars, userVars, histVars>>

\* After close() or error() a registered buffer must not be left behind:
\* begin_pull_into and return_pull_into look once more.
Recheck(t) ==
    /\ \/ Does(t, "recheck", IF Over THEN <<"settle", "force">> ELSE <<"force">>)
       \/ Does(t, "resettle", IF Over THEN <<"settle">> ELSE <<"force">>)
    /\ UNCHANGED <<sharedVars, woken, taskVars, userVars, histVars>>

SharedStep(t) ==
    \/ Push(t) \/ SettlePullIntos(t) \/ Announce(t) \/ SetClosed(t) \/ SetErrored(t)
    \/ Trigger(t) \/ Recheck(t)

-----------------------------------------------------------------------------
(* Controllers                                                              *)

\* The source holds the controller in start() and pull(); clones are free.
HasController(t) ==
    /\ Idle(t)
    /\ t \in Producers \/ (t = Task /\ task.at \in {"starting", "pulling"})

\* enqueue() and close() look at the flags first and refuse once the stream is
\* over; an empty chunk is ignored.  Those calls change nothing.
Enqueue(t) ==
    /\ HasController(t) /\ ~Over /\ made < Len(Sizes)
    /\ made' = made + 1
    /\ todo' = [todo EXCEPT ![t] = EnqueueSteps]
    /\ UNCHANGED <<sharedVars, woken, taskVars, call, ended, dropped, histVars>>

MayEnd(e) == e \in Endings \ ended /\ Cardinality(ended) < MaxEndings

Close(t) ==
    /\ HasController(t) /\ ~Over /\ MayEnd("close")
    /\ ended' = ended \cup {"close"}
    /\ todo' = [todo EXCEPT ![t] = CloseSteps]
    /\ UNCHANGED <<sharedVars, woken, taskVars, call, made, dropped, histVars>>

\* error() looks at nothing.
Error(t) ==
    /\ HasController(t) /\ MayEnd("error")
    /\ ended' = ended \cup {"error"}
    /\ todo' = [todo EXCEPT ![t] = ErrorSteps]
    /\ UNCHANGED <<sharedVars, woken, taskVars, call, made, dropped, histVars>>

\* A ByobRequest is a value of its own, with no tie to the pull that asked for
\* it: any clone of the controller takes one, several may be out at once, and
\* whoever holds one answers it or drops it whenever it likes.

\* byob_request(): the buffer that waited longest.
TakeRequest(t) ==
    /\ HasController(t) /\ pending # <<>>
    /\ lent' = lent \cup {Head(pending)}
    /\ pending' = Tail(pending)
    /\ UNCHANGED <<queue, flags, gate, started, readWakers, todo, woken, taskVars, userVars, histVars>>

\* respond(n): the buffer goes back to its reader, or the reader gets an error
\* when n is more than the buffer holds.
Respond(c) ==
    /\ c \in lent
    /\ \E outcome \in {"data", "err"} : Answers(c, outcome)
    /\ lent' = lent \ {c}
    /\ UNCHANGED <<queue, flags, gate, started, readWakers, pending, todo, woken, taskVars,
                   made, ended, dropped, histVars>>

\* Whoever may drop a request: a thread with a controller, and the task with
\* the source it drops or whose cancel() it runs.
MayDropRequest(t) ==
    \/ HasController(t)
    \/ t = Task /\ Idle(Task) /\ (task.at = "cancelling" \/ (task.at = "giveBack" /\ Over))

\* A request dropped without respond() goes back to the front.
DropRequest(t, c) ==
    /\ MayDropRequest(t) /\ c \in lent
    /\ pending' = <<c>> \o pending
    /\ lent' = lent \ {c}
    /\ todo' = [todo EXCEPT ![t] = <<"resettle">>]
    /\ UNCHANGED <<queue, flags, gate, started, readWakers, woken, taskVars, userVars, histVars>>

RequestStep ==
    \/ \E t \in Producers \cup {Task} : TakeRequest(t) \/ \E c \in Owned : DropRequest(t, c)
    \/ \E c \in Owned : Respond(c)

ControllerStep ==
    \/ \E t \in Producers \cup {Task} : Enqueue(t) \/ Close(t) \/ Error(t)
    \/ RequestStep

-----------------------------------------------------------------------------
(* BYOB readers                                                             *)

MayCall(c) ==
    /\ call[c] = "unsent" /\ ~dropped
    /\ \E mix \in Mixes : {d \in Calls : call[d] # "unsent"} \cup {c} \subseteq mix

FirstStep(c) == IF c \in Intos THEN "poll" ELSE IF c \in Owned THEN "into" ELSE "pollEnd"

Call(c) ==
    /\ c \in Byob /\ MayCall(c)
    /\ call' = [call EXCEPT ![c] = "pending"]
    /\ todo' = [todo EXCEPT ![c] = <<FirstStep(c)>>]
    /\ UNCHANGED <<sharedVars, woken, taskVars, made, ended, dropped, histVars>>

\* The executor polls a future whose waker has fired.
Repoll(c) ==
    /\ c \in (Intos \cup ClosedCalls) \cap woken /\ Idle(c) /\ call[c] = "pending"
    /\ woken' = woken \ {c}
    /\ todo' = [todo EXCEPT ![c] = <<FirstStep(c)>>]
    /\ UNCHANGED <<sharedVars, taskVars, userVars, histVars>>

\* poll_read_into: wait for start(), look for an error, drain.
PollInto(c) ==
    /\ \/ /\ ~started.done
          /\ Does(c, "poll", <<>>)
          /\ started' = [started EXCEPT !.wakers = @ \cup {c}]
          /\ UNCHANGED <<queue, call, taken>>
       \/ /\ started.done /\ flags.errored
          /\ Does(c, "poll", <<>>) /\ Answers(c, "err")
          /\ UNCHANGED <<queue, started, taken>>
       \/ /\ started.done /\ ~flags.errored /\ queue.bytes # <<>>
          /\ Does(c, "poll", <<"trigger">>) /\ Answers(c, "data")
          /\ HandsOut(Min2(BufLen, Len(queue.bytes)))
          /\ UNCHANGED started
       \/ /\ started.done /\ ~flags.errored /\ queue.bytes = <<>>
          /\ Does(c, "poll", <<"pollEmpty">>)
          /\ UNCHANGED <<queue, started, call, taken>>
    /\ UNCHANGED <<flags, gate, readWakers, pending, lent, woken, taskVars, made, ended, dropped,
                   pushed, cleared, cancelRuns>>

\* It found the buffer empty: the end, or register and ask for a pull.
PollIntoEmpty(c) ==
    /\ IF flags.closed
       THEN Does(c, "pollEmpty", <<>>) /\ Answers(c, "eof")
       ELSE Does(c, "pollEmpty", <<"register", "trigger">>) /\ UNCHANGED call
    /\ UNCHANGED <<sharedVars, woken, taskVars, made, ended, dropped, histVars>>

Register(c) ==
    /\ Does(c, "register", <<>>)
    /\ readWakers' = readWakers \cup {c}
    /\ UNCHANGED <<queue, flags, gate, started, pending, lent, woken, taskVars, userVars, histVars>>

\* begin_pull_into looks for an error first, holding no lock.
BeginPullInto(c) ==
    /\ IF flags.errored
       THEN Does(c, "into", <<>>) /\ Answers(c, "err")
       ELSE Does(c, "into", <<"join">>) /\ UNCHANGED call
    /\ UNCHANGED <<sharedVars, woken, taskVars, made, ended, dropped, histVars>>

\* Then, under both locks: bytes or the end when no buffer waits, or wait in line.
JoinPullIntos(c) ==
    /\ \/ /\ pending = <<>> /\ queue.bytes # <<>>
          /\ Does(c, "join", <<"trigger">>) /\ Answers(c, "data")
          /\ HandsOut(Min2(BufLen, Len(queue.bytes)))
          /\ UNCHANGED pending
       \/ /\ pending = <<>> /\ queue.bytes = <<>> /\ flags.closed
          /\ Does(c, "join", <<>>) /\ Answers(c, "eof")
          /\ UNCHANGED <<queue, pending, taken>>
       \/ /\ pending # <<>> \/ (queue.bytes = <<>> /\ ~flags.closed)
          /\ Does(c, "join", <<"recheck">>)
          /\ pending' = Append(pending, c)
          /\ UNCHANGED <<queue, call, taken>>
    /\ UNCHANGED <<flags, gate, started, readWakers, lent, woken, taskVars, made, ended, dropped,
                   pushed, cleared, cancelRuns>>

\* closed(): look at the flags, else register.
PollEnd(c) ==
    /\ IF Over
       THEN Does(c, "pollEnd", <<>>) /\ Answers(c, IF flags.errored THEN "err" ELSE "ok")
       ELSE Does(c, "pollEnd", <<"register">>) /\ UNCHANGED call
    /\ UNCHANGED <<sharedVars, woken, taskVars, made, ended, dropped, histVars>>

ByobStep(c) ==
    \/ Repoll(c) \/ PollInto(c) \/ PollIntoEmpty(c) \/ Register(c) \/ BeginPullInto(c)
    \/ JoinPullIntos(c) \/ PollEnd(c)

-----------------------------------------------------------------------------
(* The default reader, cancel(), and the handles                            *)

\* read() and cancel() go through the command channel, which wakes the task.
Send(c) ==
    /\ c \in Commanded /\ MayCall(c) /\ task.at # "done"
    /\ call' = [call EXCEPT ![c] = "pending"]
    /\ commands' = Append(commands, c)
    /\ Wakes({Task})
    /\ UNCHANGED <<sharedVars, todo, task, reads, source, made, ended, dropped, histVars>>

\* A read's future is dropped: a timeout, a select.
Abandon(c) ==
    /\ c \in Reads /\ call[c] = "pending"
    /\ Answers(c, "abandoned")
    /\ UNCHANGED <<sharedVars, todo, woken, taskVars, made, ended, dropped, histVars>>

\* The last handle goes, which closes the command channel.
Drop ==
    /\ ~dropped /\ \A c \in Calls : call[c] # "pending"
    /\ dropped' = TRUE
    /\ Wakes({Task})
    /\ UNCHANGED <<sharedVars, todo, taskVars, call, made, ended, histVars>>

UserStep == (\E c \in Calls : Call(c) \/ Send(c) \/ Abandon(c)) \/ Drop

-----------------------------------------------------------------------------
(* The byte task: start() and the select! loop                              *)

\* The task is at `place`, with nothing left to do of an earlier operation.
At(place) == task.at = place /\ Idle(Task)

GoTo(place) == task' = [task EXCEPT !.at = place]

Starts == started' = [done |-> TRUE, wakers |-> {}] /\ Wakes(started.wakers)

\* start_source.  BYOB reads were parked until mark_start_completed.
StartSucceeds ==
    /\ At("starting")
    /\ source' = "here"
    /\ Starts
    /\ GoTo("loop")
    /\ UNCHANGED <<queue, flags, gate, readWakers, pending, lent, todo, reads, commands,
                   userVars, histVars>>

StartFails ==
    /\ At("starting")
    /\ source' = "gone"
    /\ todo' = [todo EXCEPT ![Task] = ErrorSteps \o <<"started">>]
    /\ GoTo("loop")
    /\ UNCHANGED <<sharedVars, woken, reads, commands, userVars, histVars>>

Started ==
    /\ Does(Task, "started", <<>>)
    /\ Starts
    /\ UNCHANGED <<queue, flags, gate, readWakers, pending, lent, taskVars, userVars, histVars>>

\* select! takes a gate that is ready, in any order.  Otherwise each is polled:
\* the pull gate looks and then registers, the serve gate registers and then
\* looks again, and the commands come last.
PollPull ==
    /\ At("loop")
    /\ gate' = [gate EXCEPT !.needsPull = FALSE]
    /\ GoTo(IF gate.needsPull THEN "pullDue" ELSE "registerPull")
    /\ UNCHANGED <<queue, flags, started, readWakers, pending, lent, todo, woken, reads,
                   commands, source, userVars, histVars>>

RegisterPull ==
    /\ At("registerPull")
    /\ gate' = [gate EXCEPT !.pullWaker = TRUE]
    /\ GoTo("registerServe")
    /\ UNCHANGED <<queue, flags, started, readWakers, pending, lent, todo, woken, reads,
                   commands, source, userVars, histVars>>

ServeDue ==
    /\ At("loop") /\ gate.serve
    /\ gate' = [gate EXCEPT !.serve = FALSE]
    /\ GoTo("serve")
    /\ UNCHANGED <<queue, flags, started, readWakers, pending, lent, todo, woken, reads,
                   commands, source, userVars, histVars>>

\* Variant: the serve gate registers and does not look again.
RegisterServeOnly ==
    /\ At("registerServe")
    /\ gate' = [gate EXCEPT !.serveWaker = TRUE]
    /\ GoTo(IF commands # <<>> \/ dropped THEN "command" ELSE "parked")
    /\ UNCHANGED <<queue, flags, started, readWakers, pending, lent, todo, woken, reads,
                   commands, source, userVars, histVars>>

RegisterServe ==
    /\ At("registerServe")
    /\ gate' = [gate EXCEPT !.serveWaker = TRUE, !.serve = FALSE]
    /\ GoTo(IF gate.serve THEN "serve"
            ELSE IF commands # <<>> \/ dropped THEN "command" ELSE "parked")
    /\ UNCHANGED <<queue, flags, started, readWakers, pending, lent, todo, woken, reads,
                   commands, source, userVars, histVars>>

Wake ==
    /\ At("parked") /\ Task \in woken
    /\ woken' = woken \ {Task}
    /\ GoTo("loop")
    /\ UNCHANGED <<sharedVars, todo, reads, commands, source, userVars, histVars>>

SelectStep ==
    \/ StartSucceeds \/ StartFails \/ Started \/ PollPull \/ RegisterPull \/ ServeDue
    \/ RegisterServe \/ Wake

-----------------------------------------------------------------------------
(* The byte task: a pull                                                    *)

\* The source is taken out, mark_pull_started, and the size before the pull.
TakeSource ==
    /\ At("pullDue")
    /\ IF Over \/ source # "here"
       THEN GoTo("loop") /\ UNCHANGED <<gate, source>>
       ELSE /\ source' = "away"
            /\ gate' = [gate EXCEPT !.pulling = TRUE]
            /\ task' = [task EXCEPT !.at = "pulling", !.before = queue.size]
    /\ UNCHANGED <<queue, flags, started, readWakers, pending, lent, todo, woken, reads,
                   commands, userVars, histVars>>

\* pull() returns; the source may keep a request it took.
PullReturns ==
    /\ At("pulling")
    /\ LET grew == queue.size > task.before
       IN  task' = [task EXCEPT !.at = IF grew THEN "drain" ELSE "drained",
                                !.progress = grew, !.before = 0]
    /\ UNCHANGED <<sharedVars, todo, woken, reads, commands, source, userVars, histVars>>

PullFails ==
    /\ At("pulling")
    /\ todo' = [todo EXCEPT ![Task] = ErrorSteps]
    /\ task' = [task EXCEPT !.at = "pullFailed", !.before = 0]
    /\ UNCHANGED <<sharedVars, woken, reads, commands, source, userVars, histVars>>

\* Every default read the task holds is answered, unless its future is gone.
AnswersReads(outcome) ==
    /\ call' = [c \in Calls |->
                   IF call[c] = "pending" /\ \E i \in DOMAIN reads : reads[i] = c
                   THEN outcome ELSE call[c]]
    /\ reads' = <<>>

\* After a pull a closed stream ends every parked read, an errored one rejects it.
PullSettlesReads ==
    /\ \/ /\ At("drained")
          /\ IF flags.closed THEN AnswersReads("eof")
             ELSE IF flags.errored THEN AnswersReads("err")
             ELSE UNCHANGED <<call, reads>>
       \/ At("pullFailed") /\ AnswersReads("err")
    /\ GoTo("pullEnds")
    /\ UNCHANGED <<sharedVars, todo, woken, commands, source, made, ended, dropped, histVars>>

\* mark_pull_completed re-arms the gate for a waiting buffer or after progress.
PullEnds ==
    /\ At("pullEnds")
    /\ gate' = [gate EXCEPT !.pulling = FALSE]
    /\ todo' = [todo EXCEPT ![Task] = IF pending # <<>> THEN <<"force">>
                                      ELSE IF task.progress THEN <<"trigger">> ELSE <<>>]
    /\ task' = [task EXCEPT !.at = "giveBack", !.progress = FALSE]
    /\ UNCHANGED <<queue, flags, started, readWakers, pending, lent, woken, reads, commands,
                   source, userVars, histVars>>

GiveBack ==
    /\ At("giveBack")
    /\ source' = IF Over THEN "gone" ELSE "here"
    /\ GoTo("loop")
    /\ UNCHANGED <<sharedVars, todo, woken, reads, commands, userVars, histVars>>

PullStep == TakeSource \/ PullReturns \/ PullFails \/ PullSettlesReads \/ PullEnds \/ GiveBack

-----------------------------------------------------------------------------
(* The byte task: serving default reads                                     *)

\* The read in hand: a command's, or the first parked one.
InHand == IF task.at = "read" \/ task.then = "loop" THEN task.cur ELSE Head(reads)

\* The drain after a pull and the serve branch take the parked reads in turn.
Popping(from) == At(from) /\ (from # "read" => reads # <<>>)

\* The read is done with: the next one, or back to the loop.
NextRead(from) ==
    /\ task' = [task EXCEPT !.at = IF from = "read" THEN "loop" ELSE from, !.cur = Nobody,
                            !.then = "loop"]
    /\ reads' = IF from = "read" THEN reads ELSE Tail(reads)

Reading(from) == IF from = "read" THEN task.cur ELSE Head(reads)

NoReads ==
    /\ At("drain") \/ At("serve")
    /\ reads = <<>>
    /\ GoTo(IF task.at = "drain" THEN "drained" ELSE "loop")
    /\ UNCHANGED <<sharedVars, todo, woken, reads, commands, source, userVars, histVars>>

\* poll_read_chunk: an error, or one entry of the queue.  The drain after a pull
\* serves one read with data, and no more.
ReadErrs(from) ==
    /\ Popping(from) /\ flags.errored
    /\ Answers(Reading(from), "err")
    /\ NextRead(from)
    /\ UNCHANGED <<sharedVars, todo, woken, commands, source, made, ended, dropped, histVars>>

ReadTakes(from) ==
    /\ Popping(from) /\ ~flags.errored /\ queue.bytes # <<>>
    /\ Answers(Reading(from), "data")
    /\ HandsOut(FrontLen)
    /\ todo' = [todo EXCEPT ![Task] = <<"trigger">>]
    /\ IF from = "drain"
       THEN GoTo("drained") /\ reads' = Tail(reads)
       ELSE NextRead(from)
    /\ UNCHANGED <<flags, gate, started, readWakers, pending, lent, woken, commands, source,
                   made, ended, dropped, pushed, cleared, cancelRuns>>

ReadFindsNothing(from) ==
    /\ Popping(from) /\ ~flags.errored /\ queue.bytes = <<>>
    /\ task' = [task EXCEPT !.at = "empty", !.then = IF from = "read" THEN "loop" ELSE from]
    /\ UNCHANGED <<sharedVars, todo, woken, reads, commands, source, userVars, histVars>>

\* The buffer was empty: the end of the stream, or ask for a pull and wait.
ReadEnds ==
    /\ At("empty") /\ flags.closed
    /\ Answers(InHand, "eof")
    /\ NextRead(IF task.then = "loop" THEN "read" ELSE task.then)
    /\ UNCHANGED <<sharedVars, todo, woken, commands, source, made, ended, dropped, histVars>>

ReadWaits ==
    /\ At("empty") /\ ~flags.closed
    /\ todo' = [todo EXCEPT ![Task] = <<"trigger">>]
    /\ task' = [task EXCEPT !.at = CASE task.then = "loop" -> "park"
                                     [] task.then = "drain" -> "drained"
                                     [] task.then = "serve" -> "loop",
                            !.then = "loop"]
    /\ UNCHANGED <<sharedVars, woken, reads, commands, source, userVars, histVars>>

\* A read that just arrived looks at closed once more before it is parked.
ParkRead ==
    /\ At("park")
    /\ task' = [task EXCEPT !.at = "loop", !.cur = Nobody]
    /\ IF flags.closed
       THEN Answers(task.cur, "eof") /\ UNCHANGED <<reads, todo>>
       ELSE /\ reads' = Append(reads, task.cur)
            /\ todo' = [todo EXCEPT ![Task] = IF flags.errored THEN <<>> ELSE <<"trigger">>]
            /\ UNCHANGED call
    /\ UNCHANGED <<sharedVars, woken, commands, source, made, ended, dropped, histVars>>

ServeStep ==
    \/ NoReads \/ ReadEnds \/ ReadWaits \/ ParkRead
    \/ \E from \in {"drain", "serve", "read"} :
           ReadErrs(from) \/ ReadTakes(from) \/ ReadFindsNothing(from)

-----------------------------------------------------------------------------
(* The byte task: commands                                                  *)

Receives(S) ==
    /\ At("loop") \/ At("command")
    /\ commands # <<>> /\ Head(commands) \in S
    /\ commands' = Tail(commands)

CommandReadMoot ==
    /\ Receives(Reads)
    /\ flags.errored \/ (flags.closed /\ queue.bytes = <<>>)
    /\ Answers(Head(commands), IF flags.errored THEN "err" ELSE "eof")
    /\ GoTo("loop")
    /\ UNCHANGED <<sharedVars, todo, woken, reads, source, made, ended, dropped, histVars>>

CommandRead ==
    /\ Receives(Reads)
    /\ ~flags.errored /\ ~(flags.closed /\ queue.bytes = <<>>)
    /\ task' = [task EXCEPT !.at = "read", !.cur = Head(commands)]
    /\ UNCHANGED <<sharedVars, todo, woken, reads, source, userVars, histVars>>

\* The cancel settles, and the reads parked in the task end with it.
CancelEnds(c, outcome) ==
    /\ call' = [d \in Calls |->
                   IF d = c THEN outcome
                   ELSE IF call[d] = "pending" /\ \E i \in DOMAIN reads : reads[i] = d
                   THEN "eof" ELSE call[d]]
    /\ reads' = <<>>
    /\ task' = [task EXCEPT !.at = "loop", !.cur = Nobody]

CommandCancelMoot ==
    /\ Receives(Cancels) /\ Over
    /\ CancelEnds(Head(commands), IF flags.closed THEN "ok" ELSE "err")
    /\ UNCHANGED <<sharedVars, todo, woken, source, made, ended, dropped, histVars>>

CommandCancel ==
    /\ Receives(Cancels) /\ ~Over
    /\ task' = [task EXCEPT !.at = "takeSource", !.cur = Head(commands)]
    /\ todo' = [todo EXCEPT ![Task] = <<"clear", "reset">> \o CloseSteps]
    /\ UNCHANGED <<sharedVars, woken, reads, source, userVars, histVars>>

\* cancel_source empties the buffer under its lock, and resets the size after.
ClearQueue ==
    /\ \/ /\ Does(Task, "clear", <<>>)
          /\ queue' = [queue EXCEPT !.bytes = <<>>]
       \/ /\ Does(Task, "reset", <<>>)
          /\ queue' = [queue EXCEPT !.size = 0]
    /\ cleared' = TRUE
    /\ UNCHANGED <<flags, gate, started, readWakers, pending, lent, woken, taskVars, userVars,
                   pushed, taken, cancelRuns>>

CancelTakesSource ==
    /\ At("takeSource")
    /\ IF source = "here"
       THEN /\ source' = "gone"
            /\ cancelRuns' = cancelRuns + 1
            /\ GoTo("cancelling")
            /\ UNCHANGED <<call, reads>>
       ELSE CancelEnds(task.cur, "ok") /\ UNCHANGED <<source, cancelRuns>>
    /\ UNCHANGED <<sharedVars, todo, woken, commands, made, ended, dropped, pushed, taken, cleared>>

CancelReturns ==
    /\ At("cancelling")
    /\ \E outcome \in {"ok", "failed"} : CancelEnds(task.cur, outcome)
    /\ UNCHANGED <<sharedVars, todo, woken, commands, source, made, ended, dropped, histVars>>

\* The command channel is closed.  The task leaves, unless it holds reads of an
\* open stream; then it polls its gates again at once.
ChannelClosed ==
    /\ At("loop") \/ At("command")
    /\ commands = <<>> /\ dropped
    /\ IF reads = <<>> \/ flags.closed
       THEN AnswersReads("eof") /\ GoTo("done")
       ELSE GoTo("loop") /\ UNCHANGED <<call, reads>>
    /\ UNCHANGED <<sharedVars, todo, woken, commands, source, made, ended, dropped, histVars>>

CommandStep ==
    \/ CommandReadMoot \/ CommandRead \/ CommandCancelMoot \/ CommandCancel \/ ClearQueue
    \/ CancelTakesSource \/ CancelReturns \/ ChannelClosed

-----------------------------------------------------------------------------
(* The specification                                                        *)

Init ==
    /\ queue = [bytes |-> <<>>, size |-> 0]
    /\ flags = [closed |-> FALSE, errored |-> FALSE]
    /\ gate = [needsPull |-> FALSE, pullWaker |-> FALSE, serve |-> FALSE, serveWaker |-> FALSE,
               pulling |-> FALSE]
    /\ started = [done |-> FALSE, wakers |-> {}]
    /\ readWakers = {}
    /\ pending = <<>>
    /\ lent = {}
    /\ source = "away"
    /\ todo = [t \in Threads |-> <<>>]
    /\ woken = {}
    /\ task = [at |-> "starting", cur |-> Nobody, then |-> "loop", before |-> 0, progress |-> FALSE]
    /\ reads = <<>>
    /\ commands = <<>>
    /\ call = [c \in Calls |-> "unsent"]
    /\ made = 0 /\ ended = {} /\ dropped = FALSE
    /\ pushed = 0 /\ taken = <<>> /\ cleared = FALSE /\ cancelRuns = 0

Next ==
    \/ ControllerStep \/ UserStep \/ SelectStep \/ PullStep \/ ServeStep \/ CommandStep
    \/ \E t \in Threads : SharedStep(t)
    \/ \E c \in Byob : ByobStep(c)

Spec == Init /\ [][Next]_vars
=============================================================================
