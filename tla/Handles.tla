-------------------------------- MODULE Handles --------------------------------
(***************************************************************************)
(* The handles as futures traits: a writable stream as a Sink and an       *)
(* AsyncWrite (poll_ready, start_send, poll_flush, poll_close,             *)
(* poll_write), beside the writers that take its lock, and a readable      *)
(* stream as a Stream (poll_next).                                         *)
(*                                                                         *)
(* A poll that has sent its command keeps the receiver of the answer in a  *)
(* slot of the handle; a later poll of the same method finds it there,     *)
(* even when the call that sent it was given up.  The poll methods do not  *)
(* look at the lock: a writer sends on the same channel.  The streams are  *)
(* the contracts WritableEnd, with chunks of size 1, and ReadableEnd       *)
(* behind that channel; they are not aborted or cancelled, and their tasks *)
(* are not dropped.                                                        *)
(***************************************************************************)
EXTENDS Integers, Sequences

CONSTANTS
    Plans,   \* the instances: the kind of stream that is locked, who takes the
             \* lock, the high water mark, how many polls the caller begins, how
             \* many operations writers or the source's controller perform, and
             \* what may go wrong
    MaxSent, \* bound: chunks sent either way
    Lengths, \* lengths of the caller's buffers
    Threads, MaxRefs

Methods == {"ready", "send", "write", "flush", "close", "next"}

ASSUME HandlesAssumption ==
    /\ MaxSent \in Nat /\ Lengths \subseteq Nat \ {0} /\ MaxRefs \in Nat \ {0}
    /\ Plans \subseteq [kind : {"writer", "reader"}, takers : SUBSET Threads, hwm : Nat \ {0},
                        calls : Nat, writers : Nat, faults : SUBSET {"writeErrors", "closeErrors", "sourceErrors"}]
    /\ \A p \in Plans : p.calls + p.writers <= MaxSent

None == "none"

VARIABLES
    plan,      \* the instance
    locked, at, refs, robbed,                       \* its StreamLock
    wState, wClosing, wLine, wBusy, wSunk, wEnded,  \* its WritableEnd
    rState, rClosing, rLine, rGiven,                \* its ReadableEnd
    posted,    \* history: chunks the source's controller has enqueued
    item,      \* the chunk in the slot of poll_next
    cmds,      \* the command channel
    draining,  \* has the task taken commands and not dispatched since?
    flags,     \* the closed and errored flags, as last published
    full,      \* the backpressure flag
    parked,    \* is the caller's waker registered for ready?
    flushLeft, \* the flush's counter of writes
    length,    \* history: the lengths of the chunks sent
    refused,   \* history: chunks the task refused
    call,      \* the caller's method under way and its buffer
    pc,        \* where its poll is
    woken,     \* has the caller's waker fired?
    slots,     \* per method with a receiver: the answer in its slot
    writing,   \* the chunk whose receiver is kept, and pending_write_len
    covers,    \* history: chunks sent before the flush whose receiver is kept
    answer,    \* history: what the last call that returned has yielded
    calls, writers \* polls begun, operations of writers or of the controller

lockVars == <<locked, at, refs, robbed>>
writableVars == <<wState, wClosing, wLine, wBusy, wSunk, wEnded>>
readableVars == <<rState, rClosing, rLine, rGiven>>
readVars == <<readableVars, posted, item>>
taskVars == <<writableVars, readVars, draining, flags, full, parked, flushLeft, refused>>
sentVars == <<cmds, length>>
slotVars == <<slots, writing, covers>>
callerVars == <<call, pc, answer, calls>>
vars == <<plan, lockVars, taskVars, sentVars, callerVars, woken, slotVars, writers>>

Chunks == 1..MaxSent
Sent == Len(length)

Lock == INSTANCE StreamLock WITH kind <- plan.kind
W == INSTANCE WritableEnd WITH state <- wState, closing <- wClosing, line <- wLine, busy <- wBusy,
                               sunk <- wSunk, ended <- wEnded
R == INSTANCE ReadableEnd WITH Reads <- {"next"}, state <- rState, closing <- rClosing, line <- rLine,
                               given <- rGiven

\* A command: write(n) is n; a writer's close is not the handle's.
CloseCmd == 0
FlushCmd == -1
ReadyCmd == -2
WritersClose == -3
ReadCmd == -4

NoCall == [method |-> None, buf |-> 0]
Slots == {"write", "flush", "close", "next"}
Empty == "empty"

TypeOK ==
    /\ plan \in Plans
    /\ Lock!LockTypeOK
    /\ wState \in {"writable", "errored", "closed"} /\ wClosing \in BOOLEAN
    /\ wLine \in Seq(Chunks) /\ wSunk \in Seq(Chunks)
    /\ wBusy \in {None, "write", "close"} /\ wEnded \in {None, "close"}
    /\ rState \in {"open", "ended", "errored"} /\ rClosing \in BOOLEAN
    /\ rLine \in Seq(Chunks) /\ rGiven \in Seq([read : {"next"}, chunk : Chunks])
    /\ posted \in 0..MaxSent /\ item \in 0..MaxSent
    /\ cmds \in Seq({CloseCmd, FlushCmd, ReadyCmd, WritersClose, ReadCmd} \cup Chunks)
    /\ draining \in BOOLEAN /\ full \in BOOLEAN /\ parked \in BOOLEAN /\ woken \in BOOLEAN
    /\ flags \in {"writable", "errored", "closed"}
    /\ flushLeft \in Nat
    /\ length \in Seq(Lengths) /\ Sent <= MaxSent /\ refused \subseteq Chunks
    /\ call \in [method : Methods \cup {None}, buf : Lengths \cup {0}]
    /\ pc \in {"idle", "check", "recheck", "submit", "answer", "pending"}
    /\ slots \in [Slots -> {Empty, "waiting", "ok", "err", "end"}]
    /\ writing \in [chunk : 0..MaxSent, len : Lengths \cup {0}]
    /\ covers \in 0..MaxSent
    /\ answer \in [method : Methods \cup {None}, res : {"ok", "err", "end"}, upto : 0..MaxSent,
                   len : Lengths \cup {0}, items : Seq(Chunks)]
    /\ calls \in 0..plan.calls /\ writers \in 0..plan.writers

-----------------------------------------------------------------------------
(* The caller                                                               *)

CallerStep == UNCHANGED <<plan, lockVars, taskVars, writers>>

Sends(c) == cmds' = Append(cmds, c)
SendsChunk(n) == Sends(Sent + 1) /\ length' = Append(length, n)

At(from, to) == pc = from /\ pc' = to

\* The call returns, and the slot it used is empty again.
Yields(res, upto, len) ==
    /\ pc' = "idle" /\ call' = NoCall
    /\ answer' = [method |-> call.method, res |-> res, upto |-> upto, len |-> len,
                  items |-> answer.items \o (IF call.method = "next" /\ res = "ok" THEN <<upto>> ELSE <<>>)]

Returns(res) == Yields(res, 0, 0) /\ UNCHANGED slotVars

Begins(m, n) ==
    /\ CallerStep
    /\ (m = "next") = (plan.kind = "reader") /\ calls < plan.calls /\ calls' = calls + 1
    /\ At("idle", "check") /\ call' = [method |-> m, buf |-> n]
    /\ n = 0 <=> m \notin {"send", "write"}
    /\ woken' = FALSE
    /\ UNCHANGED <<sentVars, slotVars, answer>>

\* The caller's task is woken and polls the call again.
PollsAgain ==
    /\ CallerStep
    /\ At("pending", "check") /\ woken /\ woken' = FALSE
    /\ UNCHANGED <<call, answer, calls, sentVars, slotVars>>

\* A timeout or a select! drops the call; the handle keeps its receiver.
GivesUp ==
    /\ CallerStep
    /\ At("pending", "idle") /\ call' = NoCall
    /\ UNCHANGED <<answer, calls, woken, sentVars, slotVars>>

Checks(m) == CallerStep /\ pc = "check" /\ call.method = m /\ UNCHANGED <<calls, woken>>

Broken == flags # "writable"

\* Under backpressure a waker is registered, and the flag read again.
AwaitsRoom ==
    /\ pc' = "recheck" /\ Sends(ReadyCmd)
    /\ UNCHANGED <<call, answer, length, slotVars>>

Proceeds == pc' = "submit" /\ UNCHANGED <<call, answer, sentVars, slotVars>>

PollReady ==
    /\ Checks("ready")
    /\ \/ Broken /\ Returns("err") /\ UNCHANGED sentVars
       \/ ~Broken /\ ~full /\ Returns("ok") /\ UNCHANGED sentVars
       \/ ~Broken /\ full /\ AwaitsRoom

StartSend ==
    /\ Checks("send")
    /\ IF Broken \/ full THEN Returns("err") /\ UNCHANGED sentVars
       ELSE SendsChunk(call.buf) /\ Returns("ok")

PollWrite ==
    /\ Checks("write")
    /\ \/ Broken /\ Returns("err") /\ UNCHANGED sentVars
       \/ ~Broken /\ ~full /\ Proceeds
       \/ ~Broken /\ full /\ AwaitsRoom

PollFlush ==
    /\ Checks("flush")
    /\ IF flags = "errored" THEN Returns("err") /\ UNCHANGED sentVars ELSE Proceeds

PollClose ==
    /\ Checks("close")
    /\ IF Broken THEN Returns(IF flags = "closed" THEN "ok" ELSE "err") /\ UNCHANGED sentVars
       ELSE Proceeds

PollNext == Checks("next") /\ Proceeds

Recheck ==
    /\ CallerStep
    /\ pc = "recheck"
    /\ \/ full /\ pc' = "pending" /\ UNCHANGED <<call, answer, slotVars>>
       \/ ~full /\ call.method = "ready" /\ Returns("ok")
       \/ ~full /\ call.method = "write" /\ pc' = "submit" /\ UNCHANGED <<call, answer, slotVars>>
    /\ UNCHANGED <<calls, woken, sentVars>>

\* A receiver in the slot stands for the call, whichever call sent it.
Submits(m) ==
    /\ CallerStep
    /\ At("submit", "answer") /\ call.method = m
    /\ UNCHANGED <<call, answer, calls, woken>>

KeepsSlot(m) == Submits(m) /\ slots[m] # Empty /\ UNCHANGED <<slotVars, sentVars>>
TakesSlot(m) == Submits(m) /\ slots[m] = Empty /\ slots' = [slots EXCEPT ![m] = "waiting"]

SubmitWrite ==
    \/ KeepsSlot("write")
    \/ /\ TakesSlot("write") /\ SendsChunk(call.buf)
       /\ writing' = [chunk |-> Sent + 1, len |-> call.buf]
       /\ UNCHANGED covers

SubmitFlush ==
    \/ KeepsSlot("flush")
    \/ TakesSlot("flush") /\ Sends(FlushCmd) /\ covers' = Sent /\ UNCHANGED <<writing, length>>

SubmitClose ==
    \/ KeepsSlot("close")
    \/ TakesSlot("close") /\ Sends(CloseCmd) /\ UNCHANGED <<writing, covers, length>>

\* A read that was given up is not sent again.
SubmitNext ==
    \/ KeepsSlot("next")
    \/ TakesSlot("next") /\ Sends(ReadCmd) /\ UNCHANGED <<writing, covers, length>>

\* The receiver is polled: the call is over, or pending.
Answers(m, upto, len) ==
    /\ CallerStep
    /\ pc = "answer" /\ call.method = m
    /\ IF slots[m] = "waiting" THEN pc' = "pending" /\ UNCHANGED <<call, answer, slots>>
       ELSE Yields(slots[m], upto, len) /\ slots' = [slots EXCEPT ![m] = Empty]
    /\ UNCHANGED <<calls, woken, sentVars, writing, covers>>

\* Variant: the length of this call's buffer is reported.
AnswersForThisBuffer == Answers("write", writing.chunk, call.buf)

AnswerWrite == Answers("write", writing.chunk, writing.len)
AnswerFlush == Answers("flush", covers, 0)
AnswerClose == Answers("close", 0, 0)
AnswerNext == Answers("next", item, 0)

\* The methods of futures::Sink that share their slots with AsyncWrite.
Flush == PollFlush \/ SubmitFlush \/ AnswerFlush
Close == PollClose \/ SubmitClose \/ AnswerClose

\* The method of futures::Stream.
NextItem == PollNext \/ SubmitNext \/ AnswerNext

-----------------------------------------------------------------------------
(* Writers: whoever holds the lock sends on the same channel                *)

LockStep ==
    /\ UNCHANGED plan
    /\ \E t \in Threads \cap plan.takers : Lock!LockStep(t)
    /\ UNCHANGED <<taskVars, sentVars, callerVars, woken, slotVars, writers>>

WriterSends ==
    /\ plan.kind = "writer" /\ \E t \in Threads : Lock!Live(t)
    /\ writers < plan.writers /\ writers' = writers + 1
    /\ UNCHANGED <<plan, lockVars, taskVars, callerVars, woken, slotVars>>

WriterWrites == WriterSends /\ \E n \in Lengths : SendsChunk(n)
WriterCloses == WriterSends /\ Sends(WritersClose) /\ UNCHANGED length

-----------------------------------------------------------------------------
(* The writable stream's task                                               *)

TaskStep == UNCHANGED <<plan, lockVars, readVars, length, callerVars, writing, covers, writers>>

\* Answers wake the caller, which polled every receiver it keeps.
Settles(s) == slots' = s /\ woken' = (woken \/ s # slots)
Quiet == UNCHANGED <<slots, woken>>
Give(m, res) == [slots EXCEPT ![m] = res]

\* The flags, and ready's waker when there is room.
Publishes(f, s) ==
    /\ flags' = wState' /\ full' = f
    /\ parked' = (parked /\ f)
    /\ slots' = s
    /\ woken' = (woken \/ s # slots \/ (parked /\ ~f))

Backpressure(line, busy) == Len(line) + (IF busy = "write" THEN 1 ELSE 0) >= plan.hwm
SlotHas(c) == slots["write"] = "waiting" /\ writing.chunk = c

Takes(c) ==
    /\ TaskStep
    /\ flags = wState
    /\ cmds # <<>> /\ Head(cmds) = c /\ cmds' = Tail(cmds)
    /\ draining' = TRUE

CommandWrite(c) ==
    /\ Takes(c) /\ c \in Chunks
    /\ \/ /\ W!Accept(c)
          /\ Publishes(Backpressure(wLine', wBusy), slots)
          /\ UNCHANGED refused
       \/ /\ wState # "writable" \/ wClosing
          /\ refused' = refused \cup {c}
          /\ Settles(IF SlotHas(c) THEN Give("write", "err") ELSE slots)
          /\ UNCHANGED <<writableVars, flags, full, parked>>
    /\ UNCHANGED flushLeft

\* Variant: the waker is kept without a look at the backpressure.
RegisterReadyOnly ==
    /\ Takes(ReadyCmd)
    /\ parked' = TRUE /\ Quiet
    /\ UNCHANGED <<writableVars, flags, full, flushLeft, refused>>

CommandReady ==
    /\ Takes(ReadyCmd)
    /\ \/ full /\ parked' = TRUE /\ Quiet
       \/ ~full /\ parked' = FALSE /\ woken' = TRUE /\ UNCHANGED slots
    /\ UNCHANGED <<writableVars, flags, full, flushLeft, refused>>

CommandClose(c) ==
    /\ c \in {CloseCmd, WritersClose} /\ Takes(c)
    /\ \/ W!AskClose /\ Quiet
       \/ /\ wState # "writable" \/ wClosing
          /\ Settles(IF c = CloseCmd THEN Give("close", "err") ELSE slots)
          /\ UNCHANGED writableVars
    /\ UNCHANGED <<flags, full, parked, flushLeft, refused>>

\* The writes that exist now are counted.
Ahead == Len(wLine) + (IF wBusy = "write" THEN 1 ELSE 0)

CommandFlush ==
    /\ Takes(FlushCmd)
    /\ \/ wState = "errored" /\ Settles(Give("flush", "err")) /\ UNCHANGED flushLeft
       \/ wState # "errored" /\ Ahead = 0 /\ Settles(Give("flush", "ok")) /\ UNCHANGED flushLeft
       \/ wState # "errored" /\ Ahead > 0 /\ flushLeft' = Ahead /\ Quiet
    /\ UNCHANGED <<writableVars, flags, full, parked, refused>>

Dispatches ==
    /\ TaskStep
    /\ flags = wState
    /\ cmds = <<>> /\ draining' = FALSE
    /\ Quiet
    /\ UNCHANGED <<cmds, flags, full, parked, flushLeft, refused>>

Drives == TaskStep /\ flags = wState /\ ~draining /\ UNCHANGED <<cmds, draining, refused>>

PollEnds ==
    /\ Dispatches /\ draining
    /\ wBusy # None \/ (wLine = <<>> /\ ~wClosing)
    /\ UNCHANGED writableVars

BeginWrite == Dispatches /\ W!BeginWrite
BeginClose == Dispatches /\ W!BeginClose

\* The chunk under way, and the flush it completes.
UnderWay == wSunk[Len(wSunk)]
Own(s, res) == IF SlotHas(UnderWay) THEN [s EXCEPT !["write"] = res] ELSE s
Flushed == IF flushLeft = 1 THEN Give("flush", "ok") ELSE slots

\* Variant: a flush that waits for nothing is counted down too.
CountsDownAlways(n) == n - 1
CountDown(n) == IF n > 0 THEN n - 1 ELSE 0

WriteReturns ==
    /\ Drives
    /\ W!EndWrite
    /\ flushLeft' = CountDown(flushLeft)
    /\ Publishes(Backpressure(wLine, None), Own(Flushed, "ok"))

\* The counters go down first; whatever still waits is rejected.
Rejected(s) == [m \in Slots |->
    IF s[m] # "waiting" THEN s[m]
    ELSE CASE m = "write" -> IF \E k \in 1..Len(wLine) : wLine[k] = writing.chunk THEN "err" ELSE s[m]
           [] m = "flush" -> IF flushLeft > 0 THEN "err" ELSE s[m]
           [] OTHER -> IF wClosing /\ \A k \in 1..Len(cmds) : cmds[k] # CloseCmd THEN "err" ELSE s[m]]

WriteFails ==
    /\ Drives /\ "writeErrors" \in plan.faults
    /\ wBusy = "write" /\ W!Fail /\ wBusy' = None /\ ~wClosing'
    /\ flushLeft' = 0
    /\ Publishes(Backpressure(wLine, None), Rejected(Own(Flushed, "err")))

\* sink.close() returns: the completions are sent before the flags are set.
CloseReturns(res) ==
    /\ Drives
    /\ res = "err" => "closeErrors" \in plan.faults
    /\ W!EndClose /\ wState' = IF res = "ok" THEN "closed" ELSE "errored"
    /\ Settles(IF slots["close"] = "waiting" /\ \A k \in 1..Len(cmds) : cmds[k] # CloseCmd
               THEN Give("close", res) ELSE slots)
    /\ UNCHANGED <<flags, full, parked, flushLeft>>

SetsFlags ==
    /\ TaskStep
    /\ flags # wState /\ UNCHANGED writableVars
    /\ Publishes(FALSE, slots)
    /\ UNCHANGED <<cmds, draining, flushLeft, refused>>

-----------------------------------------------------------------------------
(* The readable stream's task, and the controller of its source             *)

ReaderStep ==
    /\ UNCHANGED <<plan, lockVars, writableVars, draining, flags, full, parked, flushLeft, refused>>
    /\ UNCHANGED <<length, callerVars, writing, covers>>

\* Does a read wait in the task?
Awaited == slots["next"] = "waiting" /\ cmds = <<>>

Hands(c) == item' = c /\ Settles(Give("next", "ok"))

ServesRead ==
    /\ ReaderStep
    /\ cmds # <<>> /\ Head(cmds) = ReadCmd /\ cmds' = Tail(cmds)
    /\ \/ R!Take /\ Hands(Head(rLine))
       \/ rState = "open" /\ rLine = <<>> /\ UNCHANGED <<readableVars, item>> /\ Quiet
       \/ /\ rState # "open" /\ UNCHANGED <<readableVars, item>>
          /\ Settles(Give("next", IF rState = "errored" THEN "err" ELSE "end"))
    /\ UNCHANGED <<posted, writers>>

Feeds ==
    /\ ReaderStep
    /\ plan.kind = "reader" /\ writers < plan.writers /\ writers' = writers + 1
    /\ UNCHANGED cmds

\* A chunk goes to the read that waits, if one does.
Enqueues ==
    /\ Feeds /\ posted + 1 \in Chunks /\ posted' = posted + 1
    /\ \/ Awaited /\ R!ArriveToRead(posted + 1) /\ Hands(posted + 1)
       \/ ~Awaited /\ R!Arrive(posted + 1) /\ UNCHANGED item /\ Quiet

\* The source closes or fails.
Ends(res) == Settles(IF Awaited THEN Give("next", res) ELSE slots)

SourceEnds ==
    /\ Feeds
    /\ \/ R!CloseLater /\ ~rClosing /\ Quiet
       \/ R!End /\ Ends("end")
       \/ "sourceErrors" \in plan.faults /\ R!Stop("errored") /\ Ends("err")
    /\ UNCHANGED <<posted, item>>

-----------------------------------------------------------------------------
(* The specification                                                        *)

Init ==
    /\ plan \in Plans
    /\ Lock!LockInit
    /\ W!Init /\ R!Init /\ posted = 0 /\ item = 0
    /\ cmds = <<>> /\ draining = FALSE /\ flags = "writable" /\ full = FALSE /\ parked = FALSE
    /\ flushLeft = 0 /\ length = <<>> /\ refused = {}
    /\ call = NoCall
    /\ pc = "idle" /\ woken = FALSE
    /\ slots = [m \in Slots |-> Empty] /\ writing = [chunk |-> 0, len |-> 0] /\ covers = 0
    /\ answer = [method |-> None, res |-> "ok", upto |-> 0, len |-> 0, items |-> <<>>]
    /\ calls = 0 /\ writers = 0

CallerWork ==
    \/ PollsAgain \/ PollReady \/ StartSend \/ Flush \/ Close \/ NextItem
    \/ PollWrite \/ Recheck \/ SubmitWrite \/ AnswerWrite

TaskWork ==
    \/ \E c \in Chunks : CommandWrite(c)
    \/ CommandReady \/ CommandFlush \/ \E c \in {CloseCmd, WritersClose} : CommandClose(c)
    \/ PollEnds \/ BeginWrite \/ WriteReturns \/ WriteFails
    \/ BeginClose \/ SetsFlags \/ \E res \in {"ok", "err"} : CloseReturns(res)
    \/ ServesRead

Next ==
    \/ \E m \in Methods, n \in Lengths \cup {0} : Begins(m, n)
    \/ GivesUp \/ CallerWork \/ TaskWork
    \/ LockStep \/ WriterWrites \/ WriterCloses \/ Enqueues \/ SourceEnds

Spec == Init /\ [][Next]_vars

\* The caller's task is polled when woken, and the sink's methods return.
FairSpec == Spec /\ WF_vars(CallerWork) /\ WF_vars(TaskWork)
=============================================================================
