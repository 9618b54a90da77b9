---------------------------- MODULE Handles_proofs ----------------------------
(***************************************************************************)
(* Proofs about Handles, for every plan: its lock, the contracts of its    *)
(* streams, its types and its answers.                                     *)
(***************************************************************************)
EXTENDS HandlesProps, Facts, TLAPS

CallerNext == CallerWork \/ GivesUp \/ \E m \in Methods, n \in Lengths \cup {0} : Begins(m, n)

(* The caller's polls touch neither the lock nor the streams.                *)
LEMMA CallerFrame == CallerNext => UNCHANGED <<plan, lockVars, writableVars, readableVars>>
  BY DEF CallerNext, CallerWork, GivesUp, Begins, PollsAgain, PollReady, StartSend, Flush, Close, NextItem, PollWrite,
         PollNext, SubmitNext, AnswerNext,
         PollFlush, PollClose, Recheck, SubmitWrite, SubmitFlush, SubmitClose, KeepsSlot, TakesSlot, Submits,
         AnswerWrite, AnswerFlush, AnswerClose, Answers, Checks, CallerStep, taskVars, readVars

(* Nor do the commands that writers send.                                    *)
LEMMA WriterFrame == WriterWrites \/ WriterCloses => UNCHANGED <<plan, lockVars, writableVars, readableVars>>
  BY DEF WriterWrites, WriterCloses, WriterSends, taskVars, readVars

(* The readable stream touches neither the lock nor the writable one.        *)
LEMMA ReaderFrame == ServesRead \/ Enqueues \/ SourceEnds => UNCHANGED <<plan, lockVars, writableVars>>
  BY DEF ServesRead, Enqueues, SourceEnds, Feeds, ReaderStep

(* The task never touches the lock.                                          *)
LEMMA TaskFrame == TaskWork => UNCHANGED <<plan, lockVars>>
  BY DEF TaskWork, CommandWrite, CommandReady, CommandFlush, CommandClose, PollEnds, BeginWrite, WriteReturns,
         WriteFails, BeginClose, SetsFlags, CloseReturns, Takes, Dispatches, Drives, TaskStep, ServesRead,
         ReaderStep

-----------------------------------------------------------------------------
(* The lock                                                                 *)

Holds(t) == at[t] \in {"held", "clearing"}

(* Only a reader is ever between its two clears, only a writer between its   *)
(* last drop and its guard's; and until a second clear has robbed somebody   *)
(* the flag is up exactly while its one holder has not cleared it.           *)
LockInv ==
    /\ plan.kind \in {"writer", "reader"} /\ locked \in BOOLEAN /\ robbed \in BOOLEAN
    /\ at \in [Threads -> {"out", "held", "clearing", "released"}]
    /\ plan.kind = "writer" => ~robbed /\ \A t \in Threads : at[t] # "released"
    /\ plan.kind = "reader" => \A t \in Threads : at[t] # "clearing"
    /\ locked => \E t \in Threads : Holds(t)
    /\ ~robbed => \A t \in Threads : Holds(t) => locked /\ \A u \in Threads \ {t} : ~Holds(u)

(* A lock nobody has taken.                                                  *)
LEMMA LockInitInv == Init => LockInv
  BY DEF Init, Lock!LockInit, LockInv, Holds

(* Every step of a holder, or of a thread that wants to be one, keeps the    *)
(* flag and the holder in agreement.                                         *)
LEMMA LockStepInv ==
    ASSUME LockInv, NEW t \in Threads, Lock!LockStep(t), UNCHANGED plan
    PROVE  LockInv'
<1> USE DEF LockInv, Lock!Goes, Holds
<1>1. CASE Lock!Acquire(t)
  <2>1. robbed' = robbed /\ locked' /\ at' = [at EXCEPT ![t] = "held"]
    BY <1>1 DEF Lock!Acquire
  <2>2. ~robbed => \A u \in Threads : ~Holds(u)
    BY <1>1 DEF Lock!Acquire
  <2>. QED
    BY <2>1, <2>2, <1>1 DEF Lock!Acquire
<1>2. CASE Lock!Clone(t)
  BY <1>2 DEF Lock!Clone
<1>3. CASE Lock!DropHandle(t)
  <2>1. at' = at \/ at' = [at EXCEPT ![t] = "clearing"]
    BY <1>3 DEF Lock!DropHandle
  <2>2. plan.kind = "writer" /\ Holds(t) /\ UNCHANGED <<locked, robbed>>
    BY <1>3 DEF Lock!DropHandle, Lock!Live
  <2>. QED
    BY <2>1, <2>2
<1>4. CASE Lock!DropGuard(t)
  <2>1. plan.kind = "writer" /\ ~robbed
    BY <1>4 DEF Lock!DropGuard
  <2>. QED
    BY <2>1, <1>4 DEF Lock!DropGuard
<1>5. CASE Lock!ReleaseLock(t)
  BY <1>5 DEF Lock!ReleaseLock
<1>6. CASE Lock!DropReader(t)
  <2>1. /\ plan.kind = "reader" /\ ~locked' /\ at' = [at EXCEPT ![t] = "out"]
        /\ robbed' = (robbed \/ \E u \in Threads \ {t} : Lock!Live(u))
    BY <1>6 DEF Lock!DropReader
  <2>2. ~robbed' => \A u \in Threads : ~Holds(u)'
    BY <2>1 DEF Lock!Live
  <2>3. at' \in [Threads -> {"out", "held", "clearing", "released"}] /\ \A u \in Threads : at'[u] # "clearing"
    BY <2>1
  <2>4. locked' \in BOOLEAN /\ robbed' \in BOOLEAN
    BY <1>6, <2>1, Zenon DEF Lock!DropReader
  <2>. QED
    BY <2>1, <2>2, <2>3, <2>4
<1>. QED
  BY <1>1, <1>2, <1>3, <1>4, <1>5, <1>6 DEF Lock!LockStep

(* Whatever is sent on the channel, only the lock's own steps move it.       *)
LEMMA LockKept == LockInv /\ [Next]_vars => LockInv'
<1> SUFFICES ASSUME LockInv, [Next]_vars PROVE LockInv'
  OBVIOUS
<1>1. CASE LockStep
  BY <1>1, LockStepInv DEF LockStep
<1>2. CASE UNCHANGED <<plan, lockVars>>
  BY <1>2 DEF lockVars, LockInv, Holds
<1>. QED
  BY <1>1, <1>2, CallerFrame, WriterFrame, ReaderFrame, TaskFrame DEF Next, CallerNext, vars

(* A writer holds the lock alone, a reader until a released reader's Drop     *)
(* clears it twice, in every plan and for any number of threads and clones;   *)
(* and a lock that is taken will be cleared by somebody (Exclusive).          *)
THEOREM HandlesExclusive == Spec => []Exclusive
<1>1. LockInv => Exclusive
  BY DEF LockInv, Holds, Lock!Live, Exclusive, Lock!Exclusive
<1>. QED
  BY LockInitInv, LockKept, <1>1, PTL DEF Spec

-----------------------------------------------------------------------------
(* The contracts                                                            *)

(* The polls, the writers and the task together take the streams only through *)
(* the steps of WritableEnd and ReadableEnd, the contracts that               *)
(* WritableStream and ReadableStream implement.                               *)
THEOREM HandlesKeepContract == Spec => [][W!Next]_writableVars /\ [][R!Next]_readableVars
<1>1. [Next]_vars => [W!Next]_writableVars /\ [R!Next]_readableVars
  <2> SUFFICES ASSUME [Next]_vars PROVE [W!Next]_writableVars /\ [R!Next]_readableVars
    OBVIOUS
  <2>1. CASE ServesRead \/ Enqueues \/ SourceEnds
    <3>1. UNCHANGED writableVars
      BY <2>1, ReaderFrame
    <3>2. [R!Next]_readableVars
      BY <2>1 DEF ServesRead, Enqueues, SourceEnds, R!Next, readableVars
    <3>. QED
      BY <3>1, <3>2
  <2>2. CASE TaskWork /\ ~ServesRead
    <3>1. UNCHANGED readableVars
      BY <2>2 DEF TaskWork, CommandWrite, CommandReady, CommandFlush, CommandClose, PollEnds, BeginWrite,
         WriteReturns, WriteFails, BeginClose, SetsFlags, CloseReturns, Takes, Dispatches, Drives, TaskStep, readVars
    <3>2. [W!Next]_writableVars
      BY <2>2 DEF TaskWork, CommandWrite, CommandReady, CommandFlush, CommandClose, PollEnds, BeginWrite,
         WriteReturns, WriteFails, BeginClose, SetsFlags, CloseReturns, W!Next
    <3>. QED
      BY <3>1, <3>2
  <2>3. CASE LockStep
    BY <2>3 DEF LockStep, taskVars, readVars
  <2>4. CASE UNCHANGED vars
    BY <2>4 DEF vars, taskVars, readVars
  <2>. QED
    BY <2>1, <2>2, <2>3, <2>4, CallerFrame, WriterFrame DEF Next, CallerNext
<1>. QED
  BY <1>1, PTL DEF Spec

-----------------------------------------------------------------------------
(* The answers: the invariant                                               *)

(* The chunks in the order of their way through the stream; whether a chunk  *)
(* has landed in s with b under way; whether it has, or was refused.         *)
Elements(s) == {s[k] : k \in 1..Len(s)}
Ascends(s) == \A j, k \in 1..Len(s) : j < k => s[j] < s[k]
Line == wSunk \o wLine \o Filter(cmds, Chunks)
Busy == IF wBusy = "write" THEN 1 ELSE 0
Lands(s, b, c) == \E k \in 1..Len(s) : s[k] = c /\ (k < Len(s) \/ b # "write")
Over(s, b, r, c) == Lands(s, b, c) \/ c \in r

(* A call under way has a method that may be where it is, and its receiver.  *)
CallInv ==
    /\ pc = "idle" => call = NoCall
    /\ pc # "idle" => call.method \in Methods
    /\ call.method \in {"send", "write"} => call.buf \in Lengths
    /\ pc = "recheck" => call.method \in {"ready", "write"}
    /\ pc = "submit" => call.method \in Slots
    /\ pc = "answer" => call.method \in Slots /\ slots[call.method] # Empty

(* A call that has still to send owes a chunk; a call or a writer's          *)
(* operation sends at most one, so the plan bounds them all.                 *)
Owed == IF call.method = "send" \/ (call.method = "write" /\ slots["write"] = Empty) THEN 1 ELSE 0
CountInv == Sent + Owed <= calls + writers

(* The task's states and the stream's flags go together; Ok of poll_close,   *)
(* in its slot or yielded, is of a stream that is closed.                    *)
EndInv ==
    /\ wBusy = "write" => wSunk # <<>>
    /\ wBusy = "close" => wClosing /\ wLine = <<>>
    /\ wState # "writable" => ~wClosing /\ wBusy = None /\ wLine = <<>>
    /\ flags # "writable" => flags = wState
    /\ slots["close"] = "ok" => wState = "closed"
    /\ answer.method = "close" /\ answer.res = "ok" => wState = "closed"

(* While the stream has no error, the chunks that were not refused are in    *)
(* the sink, in line or in the channel, each once and in the order of        *)
(* sending.                                                                  *)
LineInv ==
    wState # "errored" => refused \subseteq 1..Sent /\ Ascends(Line) /\ Elements(Line) = 1..Sent \ refused

(* The receiver of poll_write is kept with its chunk and that chunk's        *)
(* length, and is Ok only when that chunk has landed.                        *)
WriteInv ==
    /\ slots["write"] # Empty => writing.chunk \in 1..Sent /\ writing.len = length[writing.chunk]
    /\ slots["write"] = "ok" => Lands(wSunk, wBusy, writing.chunk)
    /\ answer.method = "write" /\ answer.res = "ok" =>
         answer.upto \in 1..Sent /\ answer.len = length[answer.upto] /\ Lands(wSunk, wBusy, answer.upto)

(* A flush's counter is at most what is in line, and only for a flush that   *)
(* waits.  In the channel the chunks behind a flush are those sent after it; *)
(* what the flush covers has landed or was refused, is under way, or is      *)
(* among the first of the line that the counter counts.                      *)
FlushCount ==
    /\ covers <= Sent /\ flushLeft <= Ahead
    /\ wState = "errored" => flushLeft = 0
    /\ flushLeft > 0 => slots["flush"] = "waiting"
Apart(q, n) == \A j \in 1..Len(q) : q[j] = FlushCmd =>
    \A k \in 1..Len(q) : j < k => q[k] # FlushCmd /\ (q[k] \in Chunks => n < q[k])
FlushAsked ==
    /\ Apart(cmds, covers)
    /\ FlushCmd \in Elements(cmds) => slots["flush"] = "waiting" /\ flushLeft = 0
FlushWaits ==
    flushLeft > 0 =>
        \A c \in 1..covers : \/ Over(wSunk, wBusy, refused, c) \/ (wBusy = "write" /\ c = UnderWay)
                             \/ \E k \in 1..flushLeft - Busy : wLine[k] = c
FlushTrue ==
    /\ slots["flush"] = "ok" => \A c \in 1..covers : Over(wSunk, wBusy, refused, c)
    /\ answer.method = "flush" /\ answer.res = "ok" => \A c \in 1..answer.upto : Over(wSunk, wBusy, refused, c)
FlushInv == FlushCount /\ FlushAsked /\ FlushWaits /\ FlushTrue

(* A handle writes or reads.  Items come in order: those yielded, the one in *)
(* the slot and those in line are what the source has posted, and the end    *)
(* comes after them all.                                                     *)
ReadSides ==
    /\ plan.kind = "writer" => slots["next"] = Empty /\ call.method # "next" /\ ReadCmd \notin Elements(cmds)
    /\ plan.kind = "reader" => wLine = <<>> /\ wBusy = None /\ ~wClosing /\ wState = "writable" /\ flags = wState
    /\ plan.kind = "reader" => /\ cmds \in {<<>>, <<ReadCmd>>} /\ (cmds # <<>> => slots["next"] = "waiting")
                               /\ call.method \in {None, "next"}
ReadItems ==
    /\ slots["next"] = "ok" => item = Len(answer.items) + 1
    /\ slots["next"] = "end" => rState = "ended"
    /\ rState = "ended" => rLine = <<>>
    /\ answer.items = UpTo(Len(answer.items))
    /\ rState # "errored" => answer.items \o InSlot \o rLine = UpTo(posted)
    /\ answer.method = "next" /\ answer.res = "end" => rState = "ended" /\ Len(answer.items) = posted
ReadInv == ReadSides /\ ReadItems

-----------------------------------------------------------------------------
(* The answers: every step keeps it                                         *)

(* What may be in the channel, in an answer's slot, and in an answer.        *)
Names == {CloseCmd, FlushCmd, ReadyCmd, WritersClose, ReadCmd} \cup Chunks
Answerable == {Empty, "waiting", "ok", "err", "end"}
Answered == [method : Methods \cup {None}, res : {"ok", "err", "end"}, upto : 0..MaxSent,
             len : Lengths \cup {0}, items : Seq(Chunks)]

(* The conjuncts of TypeOK, by what is moved together.                       *)
PlanOK == plan \in Plans
WOK ==
    /\ wState \in {"writable", "errored", "closed"} /\ wClosing \in BOOLEAN
    /\ wLine \in Seq(Chunks) /\ wSunk \in Seq(Chunks)
    /\ wBusy \in {None, "write", "close"} /\ wEnded \in {None, "close"}
ROK ==
    /\ rState \in {"open", "ended", "errored"} /\ rClosing \in BOOLEAN
    /\ rLine \in Seq(Chunks) /\ rGiven \in Seq([read : {"next"}, chunk : Chunks])
    /\ posted \in 0..MaxSent /\ item \in 0..MaxSent
TaskOK ==
    /\ draining \in BOOLEAN /\ full \in BOOLEAN /\ parked \in BOOLEAN
    /\ flags \in {"writable", "errored", "closed"}
    /\ flushLeft \in Nat /\ refused \subseteq Chunks
SentOK == cmds \in Seq(Names) /\ length \in Seq(Lengths) /\ Sent <= MaxSent
CallOK ==
    /\ call \in [method : Methods \cup {None}, buf : Lengths \cup {0}]
    /\ pc \in {"idle", "check", "recheck", "submit", "answer", "pending"}
    /\ answer \in Answered
    /\ calls \in 0..plan.calls /\ writers \in 0..plan.writers
SlotOK ==
    /\ slots \in [Slots -> Answerable] /\ woken \in BOOLEAN
    /\ writing \in [chunk : 0..MaxSent, len : Lengths \cup {0}]
    /\ covers \in 0..MaxSent

Parts == PlanOK /\ Lock!LockTypeOK /\ WOK /\ ROK /\ TaskOK /\ SentOK /\ CallOK /\ SlotOK

(* The parts make the whole.                                                *)
LEMMA TypeParts == TypeOK <=> Parts
  BY DEF TypeOK, Parts, PlanOK, WOK, ROK, TaskOK, SentOK, CallOK, SlotOK, Names, Answerable, Answered

(* What the assumptions say of a plan.                                      *)
LEMMA PlanFacts ==
    ASSUME PlanOK
    PROVE  /\ MaxSent \in Nat /\ plan.kind \in {"writer", "reader"} /\ plan.hwm \in Nat \ {0}
           /\ plan.calls \in Nat /\ plan.writers \in Nat /\ plan.calls + plan.writers <= MaxSent
           /\ Lengths \subseteq Nat \ {0}
  BY HandlesAssumption DEF PlanOK

-----------------------------------------------------------------------------
(* The writable stream's task keeps the types                               *)

(* An answer put in a slot is one of a slot's.                               *)
LEMMA SlotTypes ==
    ASSUME slots \in [Slots -> Answerable], NEW m \in Slots, NEW res \in Answerable
    PROVE  Give(m, res) \in [Slots -> Answerable]
  BY DEF Give

(* So are those that the end of a write leaves,                              *)
LEMMA OwnTypes ==
    ASSUME NEW s \in [Slots -> Answerable], NEW res \in Answerable
    PROVE  Own(s, res) \in [Slots -> Answerable]
  BY DEF Own, Slots

(* those that a flush leaves,                                                *)
LEMMA FlushedTypes ==
    ASSUME slots \in [Slots -> Answerable]
    PROVE  Flushed \in [Slots -> Answerable]
  BY DEF Flushed, Give, Slots, Answerable

(* and those that an error leaves.                                           *)
LEMMA RejectedTypes ==
    ASSUME NEW s \in [Slots -> Answerable]
    PROVE  /\ Rejected(s) \in [Slots -> Answerable]
           /\ \A m \in Slots : Rejected(s)[m] = s[m] \/ (s[m] = "waiting" /\ Rejected(s)[m] = "err")
<1>1. \A m \in Slots : Rejected(s)[m] = s[m] \/ (s[m] = "waiting" /\ Rejected(s)[m] = "err")
  BY DEF Rejected
<1>2. DOMAIN Rejected(s) = Slots /\ Rejected(s) = [m \in Slots |-> Rejected(s)[m]]
  BY DEF Rejected
<1>3. \A m \in Slots : Rejected(s)[m] \in Answerable
  BY <1>1 DEF Answerable
<1>. QED
  BY <1>1, <1>2, <1>3

(* What the task publishes, and what it settles, keep their types.           *)
LEMMA PublishTypes ==
    ASSUME TaskOK, SlotOK, NEW f \in BOOLEAN, NEW s \in [Slots -> Answerable],
           wState' \in {"writable", "errored", "closed"}, Publishes(f, s)
    PROVE  /\ full' \in BOOLEAN /\ parked' \in BOOLEAN /\ flags' = wState' /\ slots' = s /\ woken' \in BOOLEAN
  BY DEF Publishes, TaskOK, SlotOK

(* The same when the flags stay.                                             *)
LEMMA SettleTypes ==
    ASSUME SlotOK, NEW s \in [Slots -> Answerable], Settles(s)
    PROVE  slots' = s /\ woken' \in BOOLEAN
  BY DEF Settles, SlotOK

(* The backpressure flag is a flag.                                          *)
LEMMA BackpressureType == \A line, busy : Backpressure(line, busy) \in BOOLEAN
  BY DEF Backpressure

(* The writes that a flush counts are counted.                               *)
LEMMA AheadType == ASSUME WOK PROVE Ahead \in Nat
  BY DEF WOK, Ahead

(* What the task's steps leave alone.                                       *)
LEMMA TaskLeaves ==
    ASSUME TaskWork, ~ServesRead
    PROVE  UNCHANGED <<plan, lockVars, readVars, length, callerVars, writing, covers, writers>>
  BY DEF TaskWork, CommandWrite, CommandReady, CommandFlush, CommandClose, PollEnds, BeginWrite, WriteReturns,
         WriteFails, BeginClose, SetsFlags, CloseReturns, Takes, Dispatches, Drives, TaskStep

(* The rest of the channel.                                                 *)
LEMMA TakesFacts ==
    ASSUME SentOK, NEW c, Takes(c)
    PROVE  /\ cmds' \in Seq(Names) /\ draining' = TRUE /\ c \in Names /\ cmds # <<>> /\ flags = wState
           /\ Head(cmds) = c /\ cmds' = Tail(cmds)
  BY DEF Takes, SentOK

(* The task keeps its types.                                                *)
LEMMA TaskTypes ==
    ASSUME Parts, TaskWork, ~ServesRead
    PROVE  Parts'
<1>0. MaxSent \in Nat /\ WOK /\ TaskOK /\ SentOK /\ SlotOK /\ PlanOK
  BY PlanFacts DEF Parts
<1>1. SUFFICES /\ WOK' /\ cmds' \in Seq(Names)
               /\ draining' \in BOOLEAN /\ full' \in BOOLEAN /\ parked' \in BOOLEAN
               /\ flags' \in {"writable", "errored", "closed"}
               /\ flushLeft' \in Nat /\ refused' \subseteq Chunks
               /\ slots' \in [Slots -> Answerable] /\ woken' \in BOOLEAN
  <2>1. PlanOK' /\ Lock!LockTypeOK'
    BY TaskLeaves DEF Parts, PlanOK, Lock!LockTypeOK, lockVars
  <2>2. ROK'
    BY TaskLeaves DEF Parts, ROK, readVars, readableVars
  <2>3. CallOK'
    BY TaskLeaves DEF Parts, CallOK, callerVars
  <2>4. SentOK'
    BY TaskLeaves, <1>1 DEF Parts, SentOK, Sent
  <2>5. SlotOK'
    BY TaskLeaves, <1>1 DEF Parts, SlotOK
  <2>. QED
    BY <2>1, <2>2, <2>3, <2>4, <2>5, <1>1 DEF Parts, TaskOK
<1>2. wState \in {"writable", "errored", "closed"} /\ flags \in {"writable", "errored", "closed"}
  BY <1>0 DEF WOK, TaskOK
<1>3. slots \in [Slots -> Answerable]
  BY <1>0 DEF SlotOK
<1>4. {"ok", "err"} \subseteq Answerable /\ {"write", "flush", "close"} \subseteq Slots
  BY DEF Answerable, Slots
<1>14. <<>> \in Seq(Chunks)
  OBVIOUS
<1>5. CASE \E c \in Chunks : CommandWrite(c)
  <2>1. PICK c \in Chunks : CommandWrite(c)
    BY <1>5
  <2>2. cmds' \in Seq(Names) /\ draining' = TRUE
    BY <2>1, <1>0, TakesFacts DEF CommandWrite
  <2>3. flushLeft' = flushLeft
    BY <2>1 DEF CommandWrite
  <2>4. CASE W!Accept(c) /\ Publishes(Backpressure(wLine', wBusy), slots) /\ UNCHANGED refused
    <3>1. WOK'
      BY <2>4, <1>0 DEF WOK, W!Accept
    <3>2. wState' = wState
      BY <2>4 DEF W!Accept
    <3>3. /\ full' \in BOOLEAN /\ parked' \in BOOLEAN /\ flags' = wState' /\ slots' = slots /\ woken' \in BOOLEAN
      BY <2>4, <3>2, <1>0, <1>2, <1>3, BackpressureType, PublishTypes
    <3>. QED
      BY <2>2, <2>3, <2>4, <3>1, <3>2, <3>3, <1>0, <1>2, <1>3 DEF TaskOK
  <2>5. CASE ~(W!Accept(c) /\ Publishes(Backpressure(wLine', wBusy), slots) /\ UNCHANGED refused)
    <3>1. /\ refused' = refused \cup {c} /\ UNCHANGED <<writableVars, flags, full, parked>>
          /\ Settles(IF SlotHas(c) THEN Give("write", "err") ELSE slots)
      BY <2>1, <2>5 DEF CommandWrite
    <3>2. (IF SlotHas(c) THEN Give("write", "err") ELSE slots) \in [Slots -> Answerable]
      BY <1>3, <1>4, SlotTypes
    <3>3. slots' \in [Slots -> Answerable] /\ woken' \in BOOLEAN
      BY <3>1, <3>2, <1>0, SettleTypes
    <3>4. WOK'
      BY <3>1, <1>0 DEF WOK, writableVars
    <3>. QED
      BY <2>2, <2>3, <3>1, <3>3, <3>4, <1>0, <1>2 DEF TaskOK
  <2>. QED
    BY <2>4, <2>5
<1>6. CASE CommandReady
  <2>1. cmds' \in Seq(Names) /\ draining' = TRUE
    BY <1>6, <1>0, TakesFacts DEF CommandReady
  <2>2. slots' = slots /\ parked' \in BOOLEAN /\ woken' \in BOOLEAN
    BY <1>6, <1>0 DEF CommandReady, Quiet, SlotOK
  <2>3. WOK'
    BY <1>6, <1>0 DEF WOK, writableVars, CommandReady
  <2>. QED
    BY <1>6, <2>1, <2>2, <2>3, <1>0, <1>3 DEF CommandReady, TaskOK
<1>7. CASE CommandFlush
  <2>1. cmds' \in Seq(Names) /\ draining' = TRUE
    BY <1>7, <1>0, TakesFacts DEF CommandFlush
  <2>2. slots' \in [Slots -> Answerable] /\ woken' \in BOOLEAN
    <3>1. CASE Quiet
      BY <3>1, <1>0 DEF Quiet, SlotOK
    <3>2. CASE ~Quiet
      <4>1. PICK res \in {"ok", "err"} : Settles(Give("flush", res))
        BY <1>7, <3>2 DEF CommandFlush
      <4>2. Give("flush", res) \in [Slots -> Answerable]
        BY <1>3, <1>4, SlotTypes
      <4>. QED
        BY <4>1, <4>2, <1>0, SettleTypes
    <3>. QED
      BY <3>1, <3>2
  <2>3. WOK' /\ flushLeft' \in Nat
    BY <1>7, <1>0, AheadType DEF WOK, TaskOK, writableVars, CommandFlush
  <2>. QED
    BY <1>7, <2>1, <2>2, <2>3, <1>0 DEF CommandFlush, TaskOK
<1>8. CASE \E c \in {CloseCmd, WritersClose} : CommandClose(c)
  <2>1. PICK c \in {CloseCmd, WritersClose} : CommandClose(c)
    BY <1>8
  <2>2. cmds' \in Seq(Names) /\ draining' = TRUE
    BY <2>1, <1>0, TakesFacts DEF CommandClose
  <2>3. UNCHANGED <<flags, full, parked, flushLeft, refused>>
    BY <2>1 DEF CommandClose
  <2>4. CASE W!AskClose /\ Quiet
    BY <2>2, <2>3, <2>4, <1>0 DEF WOK, W!AskClose, Quiet, SlotOK, TaskOK
  <2>5. CASE ~(W!AskClose /\ Quiet)
    <3>1. Settles(IF c = CloseCmd THEN Give("close", "err") ELSE slots) /\ UNCHANGED writableVars
      BY <2>1, <2>5 DEF CommandClose
    <3>2. (IF c = CloseCmd THEN Give("close", "err") ELSE slots) \in [Slots -> Answerable]
      BY <1>3, <1>4, SlotTypes
    <3>3. slots' \in [Slots -> Answerable] /\ woken' \in BOOLEAN
      BY <3>1, <3>2, <1>0, SettleTypes
    <3>4. WOK'
      BY <3>1, <1>0 DEF WOK, writableVars
    <3>. QED
      BY <2>2, <2>3, <3>3, <3>4, <1>0 DEF TaskOK
  <2>. QED
    BY <2>4, <2>5
<1>9. CASE PollEnds \/ BeginWrite \/ BeginClose
  <2>1. cmds' = cmds /\ draining' = FALSE /\ Quiet /\ UNCHANGED <<flags, full, parked, flushLeft, refused>>
    BY <1>9 DEF PollEnds, BeginWrite, BeginClose, Dispatches
  <2>2. WOK'
    <3>1. CASE PollEnds
      BY <3>1, <1>0 DEF WOK, PollEnds, writableVars
    <3>2. CASE BeginClose
      BY <3>2, <1>0 DEF WOK, BeginClose, W!BeginClose
    <3>3. CASE BeginWrite
      BY <3>3, <1>0 DEF WOK, BeginWrite, W!BeginWrite
    <3>. QED
      BY <1>9, <3>1, <3>2, <3>3
  <2>. QED
    BY <2>1, <2>2, <1>0 DEF TaskOK, SentOK, SlotOK, Quiet
<1>10. CASE WriteReturns
  <2>1. UNCHANGED <<cmds, draining, refused>> /\ wState' = wState
    BY <1>10 DEF WriteReturns, Drives, W!EndWrite
  <2>2. WOK'
    BY <1>10, <1>0 DEF WOK, WriteReturns, W!EndWrite, None, W!None
  <2>3. flushLeft' \in Nat
    BY <1>10, <1>0 DEF WriteReturns, CountDown, TaskOK
  <2>4. Own(Flushed, "ok") \in [Slots -> Answerable]
    BY <1>3, <1>4, OwnTypes, FlushedTypes
  <2>5. full' \in BOOLEAN /\ parked' \in BOOLEAN /\ flags' = wState' /\ slots' = Own(Flushed, "ok") /\ woken' \in BOOLEAN
    BY <1>10, <2>1, <2>4, <1>0, <1>2, BackpressureType, PublishTypes DEF WriteReturns
  <2>. QED
    BY <2>1, <2>2, <2>3, <2>4, <2>5, <1>0, <1>2 DEF TaskOK, SentOK
<1>11. CASE WriteFails
  <2>1. UNCHANGED <<cmds, draining, refused>> /\ wState' = "errored" /\ flushLeft' = 0
    BY <1>11 DEF WriteFails, Drives, W!Fail
  <2>2. WOK'
    BY <1>11, <1>0, <1>14 DEF WOK, WriteFails, W!Fail, None, W!None
  <2>3. Own(Flushed, "err") \in [Slots -> Answerable]
    BY <1>3, <1>4, OwnTypes, FlushedTypes
  <2>4. Rejected(Own(Flushed, "err")) \in [Slots -> Answerable]
    BY <2>3, RejectedTypes
  <2>5. /\ full' \in BOOLEAN /\ parked' \in BOOLEAN /\ flags' = wState' /\ woken' \in BOOLEAN
        /\ slots' = Rejected(Own(Flushed, "err"))
    BY <1>11, <2>1, <2>4, <1>0, <1>2, BackpressureType, PublishTypes DEF WriteFails
  <2>. QED
    BY <2>1, <2>2, <2>4, <2>5, <1>0, <1>2 DEF TaskOK, SentOK
<1>12. CASE SetsFlags
  <2>1. UNCHANGED <<cmds, draining, refused, flushLeft, writableVars>>
    BY <1>12 DEF SetsFlags
  <2>2. WOK' /\ wState' = wState
    BY <2>1, <1>0 DEF WOK, writableVars
  <2>3. full' \in BOOLEAN /\ parked' \in BOOLEAN /\ flags' = wState' /\ slots' = slots /\ woken' \in BOOLEAN
    BY <1>12, <2>2, <1>0, <1>2, <1>3, PublishTypes DEF SetsFlags
  <2>. QED
    BY <2>1, <2>2, <2>3, <1>0, <1>2, <1>3 DEF TaskOK, SentOK
<1>13. CASE \E res \in {"ok", "err"} : CloseReturns(res)
  <2>1. PICK res \in {"ok", "err"} : CloseReturns(res)
    BY <1>13
  <2>2. UNCHANGED <<cmds, draining, refused, flags, full, parked, flushLeft>>
    BY <2>1 DEF CloseReturns, Drives
  <2>3. WOK'
    BY <2>1, <1>0, <1>14 DEF WOK, CloseReturns, W!EndClose, None, W!None
  <2> DEFINE s == IF slots["close"] = "waiting" /\ \A k \in 1..Len(cmds) : cmds[k] # CloseCmd
                  THEN Give("close", res) ELSE slots
  <2>4. Settles(s)
    BY <2>1 DEF CloseReturns
  <2>5. s \in [Slots -> Answerable]
    BY <1>3, <1>4, SlotTypes
  <2>6. slots' \in [Slots -> Answerable] /\ woken' \in BOOLEAN
    <3> HIDE DEF s
    <3>. QED
      BY <2>4, <2>5, <1>0, SettleTypes
  <2>. QED
    BY <2>2, <2>3, <2>6, <1>0 DEF TaskOK, SentOK
<1>. QED
  BY <1>5, <1>6, <1>7, <1>8, <1>9, <1>10, <1>11, <1>12, <1>13 DEF TaskWork

(* The readable stream keeps the types.                                     *)
LEMMA ReaderTypes ==
    ASSUME Parts, ServesRead \/ Enqueues \/ SourceEnds
    PROVE  Parts'
<1>0. MaxSent \in Nat /\ ROK /\ SentOK /\ SlotOK /\ PlanOK /\ CallOK
  BY PlanFacts DEF Parts
<1>1. ReaderStep
  BY DEF ServesRead, Enqueues, SourceEnds, Feeds
<1>2. PlanOK' /\ Lock!LockTypeOK'
  BY <1>1 DEF ReaderStep, Parts, PlanOK, Lock!LockTypeOK, lockVars
<1>3. WOK' /\ TaskOK'
  BY <1>1 DEF ReaderStep, Parts, WOK, TaskOK, writableVars
<1>4. call' = call /\ pc' = pc /\ answer' = answer /\ calls' = calls /\ plan' = plan /\ length' = length
      /\ writing' = writing /\ covers' = covers
  BY <1>1 DEF ReaderStep, callerVars
<1>5. writers' \in 0..plan.writers
  BY <1>0, PlanFacts DEF ServesRead, Enqueues, SourceEnds, Feeds, CallOK
<1>6. cmds' \in Seq(Names)
  <2>1. cmds' = cmds \/ (cmds # <<>> /\ cmds' = Tail(cmds))
    BY DEF ServesRead, Enqueues, SourceEnds, Feeds
  <2>. QED
    BY <2>1, <1>0 DEF SentOK
<1>7. CallOK'
  BY <1>0, <1>4, <1>5 DEF CallOK
<1>8. SentOK'
  BY <1>0, <1>4, <1>6 DEF SentOK, Sent
<1>9. slots \in [Slots -> Answerable] /\ "next" \in Slots /\ {"ok", "err", "end"} \subseteq Answerable
  BY <1>0 DEF SlotOK, Answerable, Slots
<1>10. ASSUME NEW res \in {"ok", "err", "end"}, Settles(Give("next", res))
       PROVE  slots' \in [Slots -> Answerable] /\ woken' \in BOOLEAN
  <2>1. Give("next", res) \in [Slots -> Answerable]
    BY <1>9, SlotTypes
  <2>. QED
    BY <2>1, <1>10, <1>0, SettleTypes
<1>11. Quiet => slots' \in [Slots -> Answerable] /\ woken' \in BOOLEAN
  BY <1>0 DEF Quiet, SlotOK
<1>12. CASE ServesRead
  <2>1. CASE R!Take /\ Hands(Head(rLine))
    <3>1. Head(rLine) \in Chunks /\ rLine # <<>>
      BY <2>1, <1>0 DEF ROK, R!Take
    <3>2. item' = Head(rLine) /\ posted' = posted
      BY <2>1, <1>12 DEF Hands, ServesRead
    <3>3. rGiven' \in Seq([read : {"next"}, chunk : Chunks])
      BY <2>1, <3>1, <1>0 DEF R!Take, R!Hands, ROK
    <3>6. rLine' \in Seq(Chunks) /\ item' \in 0..MaxSent
      BY <2>1, <3>1, <3>2, <1>0 DEF R!Take, ROK, Chunks
    <3>7. rState' \in {rState, "ended"} /\ rClosing' \in {rClosing, FALSE}
      BY <2>1 DEF R!Take
    <3>4. ROK'
      BY <3>2, <3>3, <3>6, <3>7, <1>0 DEF ROK
    <3>5. slots' \in [Slots -> Answerable] /\ woken' \in BOOLEAN
      BY <2>1, <1>10 DEF Hands
    <3>. QED
      BY <3>4, <3>5, <1>0, <1>2, <1>3, <1>4, <1>7, <1>8 DEF SlotOK, Parts
  <2>2. CASE ~(R!Take /\ Hands(Head(rLine)))
    <3>1. UNCHANGED <<readableVars, item, posted>>
      BY <2>2, <1>12 DEF ServesRead
    <3>2. ROK'
      BY <3>1, <1>0 DEF ROK, readableVars
    <3>3. Quiet \/ \E res \in {"ok", "err", "end"} : Settles(Give("next", res))
      BY <2>2, <1>12 DEF ServesRead
    <3>4. slots' \in [Slots -> Answerable] /\ woken' \in BOOLEAN
      BY <3>3, <1>10, <1>11
    <3>. QED
      BY <3>2, <3>4, <1>0, <1>2, <1>3, <1>4, <1>7, <1>8 DEF SlotOK, Parts
  <2>. QED
    BY <2>1, <2>2
<1>13. CASE Enqueues
  <2>1. posted + 1 \in Chunks /\ posted' = posted + 1
    BY <1>13 DEF Enqueues
  <2>2. ROK' /\ slots' \in [Slots -> Answerable] /\ woken' \in BOOLEAN
    <3>1. CASE R!ArriveToRead(posted + 1) /\ Hands(posted + 1)
      <4>1. rGiven' \in Seq([read : {"next"}, chunk : Chunks])
        BY <3>1, <2>1, <1>0 DEF R!ArriveToRead, R!Hands, ROK
      <4>2. ROK'
        BY <3>1, <2>1, <4>1, <1>0 DEF R!ArriveToRead, Hands, ROK, Chunks
      <4>. QED
        BY <4>2, <3>1, <1>10 DEF Hands
    <3>2. CASE R!Arrive(posted + 1) /\ UNCHANGED item /\ Quiet
      BY <3>2, <2>1, <1>0, <1>11 DEF R!Arrive, ROK, Chunks
    <3>. QED
      BY <1>13, <3>1, <3>2 DEF Enqueues
  <2>. QED
    BY <2>2, <1>0, <1>2, <1>3, <1>4, <1>7, <1>8 DEF SlotOK, Parts
<1>14. CASE SourceEnds
  <2>1. UNCHANGED <<posted, item>>
    BY <1>14 DEF SourceEnds
  <2>2. ROK'
    <3>1. CASE R!CloseLater
      BY <3>1, <2>1, <1>0 DEF R!CloseLater, ROK
    <3>2. CASE R!End
      BY <3>2, <2>1, <1>0 DEF R!End, ROK
    <3>3. CASE R!Stop("errored")
      <4>1. <<>> \in Seq(Chunks)
        OBVIOUS
      <4>. QED
        BY <3>3, <2>1, <4>1, <1>0 DEF R!Stop, ROK
    <3>. QED
      BY <1>14, <3>1, <3>2, <3>3 DEF SourceEnds
  <2>3. Quiet \/ \E res \in {"ok", "err", "end"} : Settles(Give("next", res))
    BY <1>14, <1>0 DEF SourceEnds, Ends, Settles, Quiet, SlotOK
  <2>4. slots' \in [Slots -> Answerable] /\ woken' \in BOOLEAN
    BY <2>3, <1>10, <1>11
  <2>. QED
    BY <2>2, <2>4, <1>0, <1>2, <1>3, <1>4, <1>7, <1>8 DEF SlotOK, Parts
<1>. QED
  BY <1>12, <1>13, <1>14

(* What a caller is told.                                                    *)
Told(m, res, upto, len) ==
    answer' = [method |-> m, res |-> res, upto |-> upto, len |-> len,
               items |-> IF m = "next" /\ res = "ok" THEN Append(answer.items, upto) ELSE answer.items]

(* The moves of a caller, as far as they are seen outside it.               *)
Waits ==
    /\ UNCHANGED <<slotVars, length, answer>>
    /\ cmds' = cmds \/ (plan.kind = "writer" /\ cmds' = Append(cmds, ReadyCmd))
Turns ==
    /\ \E m \in Methods \ {"next"}, res \in {"ok", "err"} :
          /\ Told(m, res, 0, 0)
          /\ res = "ok" => m \in {"ready", "send"} \/ (m = "close" /\ flags = "closed")
    /\ UNCHANGED <<slotVars, sentVars>>
SendsOne ==
    /\ plan.kind = "writer" /\ Owed = 1 /\ Told("send", "ok", 0, 0)
    /\ \E n \in Lengths : SendsChunk(n)
    /\ UNCHANGED slotVars
Fills(m) == slots[m] = Empty /\ slots' = [slots EXCEPT ![m] = "waiting"] /\ UNCHANGED answer
AsksWrite ==
    /\ plan.kind = "writer" /\ Owed = 1 /\ Fills("write") /\ UNCHANGED covers
    /\ \E n \in Lengths : SendsChunk(n) /\ writing' = [chunk |-> Sent + 1, len |-> n]
AsksFlush ==
    /\ plan.kind = "writer" /\ Fills("flush") /\ UNCHANGED <<writing, length>>
    /\ cmds' = Append(cmds, FlushCmd) /\ covers' = Sent
AsksClose ==
    /\ plan.kind = "writer" /\ Fills("close") /\ UNCHANGED <<writing, length, covers>>
    /\ cmds' = Append(cmds, CloseCmd)
AsksNext ==
    /\ plan.kind = "reader" /\ Fills("next") /\ UNCHANGED <<writing, length, covers>>
    /\ cmds' = Append(cmds, ReadCmd)
Gets(m) ==
    /\ slots[m] \in {"ok", "err", "end"} /\ slots' = [slots EXCEPT ![m] = Empty]
    /\ Told(m, slots[m],
            CASE m = "write" -> writing.chunk [] m = "flush" -> covers [] m = "close" -> 0 [] m = "next" -> item,
            IF m = "write" THEN writing.len ELSE 0)
    /\ UNCHANGED <<sentVars, writing, covers>>
CallerMove ==
    \/ Waits \/ Turns \/ SendsOne \/ AsksWrite \/ AsksFlush \/ AsksClose \/ AsksNext
    \/ \E m \in Slots : Gets(m)

Sides == plan.kind = "writer" => call.method # "next"
Side == plan.kind = "reader" => call.method \in {None, "next"}

(* What the caller leaves alone.                                            *)
LEMMA CallerLeaves == CallerNext => UNCHANGED <<plan, lockVars, taskVars, writers>>
  BY DEF CallerNext, CallerWork, GivesUp, Begins, PollsAgain, PollReady, StartSend, Flush, Close, NextItem, PollWrite,
         PollNext, SubmitNext, AnswerNext,
         PollFlush, PollClose, Recheck, SubmitWrite, SubmitFlush, SubmitClose, KeepsSlot, TakesSlot, Submits,
         AnswerWrite, AnswerFlush, AnswerClose, Answers, Checks, CallerStep

(* A call that returns has yielded this.                                    *)
LEMMA YieldsTells ==
    ASSUME Parts, NEW res, NEW upto, NEW len, Yields(res, upto, len)
    PROVE  Told(call.method, res, upto, len) /\ call' = NoCall /\ pc' = "idle"
<1>1. answer.items \in Seq(Chunks)
  BY DEF Parts, CallOK, Answered
<1>2. answer.items \o <<>> = answer.items /\ \A x : Append(answer.items, x) = answer.items \o <<x>>
  <2>1. answer.items \o <<>> = answer.items
    BY <1>1
  <2>2. ASSUME NEW x PROVE Append(answer.items, x) = answer.items \o <<x>>
    <3> answer.items \in Seq(Chunks \cup {x}) /\ x \in Chunks \cup {x}
      BY <1>1
    <3>. QED
      BY AppendIsConcat
  <2>. QED
    BY <2>1, <2>2
<1>. QED
  BY <1>2 DEF Yields, Told

(* Every step of the caller is one of its moves.                            *)
LEMMA CallerMoves ==
    ASSUME Parts, CallInv, Sides, Side, CallerNext
    PROVE  CallerMove
<1>0. call \in [method : Methods \cup {None}, buf : Lengths \cup {0}] /\ slots \in [Slots -> Answerable]
  BY DEF Parts, CallOK, SlotOK
<1>1. plan.kind \in {"writer", "reader"}
  BY PlanFacts DEF Parts
<1>2. None \notin Methods
  BY DEF None, Methods
<1>3. ASSUME NEW m \in Methods, m # "next", call.method = m PROVE plan.kind = "writer"
  BY <1>1, <1>2, <1>3 DEF Side
<1>4. ASSUME call.method = "next" PROVE plan.kind = "reader"
  BY <1>1, <1>4 DEF Sides
<1>5. CASE \/ PollsAgain \/ GivesUp \/ \E m \in Methods, n \in Lengths \cup {0} : Begins(m, n)
  BY <1>5 DEF PollsAgain, GivesUp, Begins, CallerMove, Waits, sentVars
<1>6. ASSUME NEW res \in {"ok", "err"}, call.method \in Methods \ {"next"}, Returns(res), UNCHANGED sentVars,
             res = "ok" => call.method \in {"ready", "send"} \/ (call.method = "close" /\ flags = "closed")
      PROVE  Turns
  BY <1>6, YieldsTells DEF Returns, Turns
<1>7. CASE PollReady
  <2>1. call.method = "ready" /\ "ready" \in Methods /\ "ready" # "next"
    BY <1>7 DEF PollReady, Checks, Methods
  <2>2. CASE \E res \in {"ok", "err"} : Returns(res) /\ UNCHANGED sentVars
    BY <2>1, <2>2, <1>6 DEF CallerMove
  <2>3. CASE AwaitsRoom
    BY <2>1, <2>3, <1>3 DEF AwaitsRoom, Sends, CallerMove, Waits
  <2>. QED
    BY <1>7, <2>2, <2>3 DEF PollReady
<1>8. CASE StartSend
  <2>1. call.method = "send" /\ "send" \in Methods /\ "send" # "next" /\ call.buf \in Lengths
    BY <1>8 DEF StartSend, Checks, Methods, CallInv
  <2>2. CASE Returns("err") /\ UNCHANGED sentVars
    BY <2>1, <2>2, <1>6 DEF CallerMove
  <2>3. CASE SendsChunk(call.buf) /\ Returns("ok")
    <3>1. Told("send", "ok", 0, 0) /\ UNCHANGED slotVars
      BY <2>1, <2>3, YieldsTells DEF Returns
    <3>2. plan.kind = "writer"
      BY <2>1, <1>3
    <3>. QED
      BY <2>1, <2>3, <3>1, <3>2 DEF SendsOne, CallerMove, Owed
  <2>. QED
    BY <1>8, <2>2, <2>3 DEF StartSend
<1>9. CASE PollWrite
  <2>1. call.method = "write" /\ "write" \in Methods /\ "write" # "next"
    BY <1>9 DEF PollWrite, Checks, Methods
  <2>2. CASE Returns("err") /\ UNCHANGED sentVars
    BY <2>1, <2>2, <1>6 DEF CallerMove
  <2>3. CASE AwaitsRoom
    BY <2>1, <2>3, <1>3 DEF AwaitsRoom, Sends, CallerMove, Waits
  <2>4. CASE Proceeds
    BY <1>9, <2>4 DEF Proceeds, PollWrite, Checks, CallerMove, Waits, sentVars
  <2>. QED
    BY <1>9, <2>2, <2>3, <2>4 DEF PollWrite
<1>10. CASE PollFlush
  <2>1. call.method = "flush" /\ "flush" \in Methods /\ "flush" # "next"
    BY <1>10 DEF PollFlush, Checks, Methods
  <2>2. CASE Returns("err") /\ UNCHANGED sentVars
    BY <2>1, <2>2, <1>6 DEF CallerMove
  <2>3. CASE Proceeds /\ UNCHANGED slotVars
    BY <2>3 DEF Proceeds, CallerMove, Waits, sentVars
  <2>. QED
    BY <1>10, <2>2, <2>3 DEF PollFlush, Proceeds
<1>11. CASE PollClose
  <2>1. call.method = "close" /\ "close" \in Methods /\ "close" # "next"
    BY <1>11 DEF PollClose, Checks, Methods
  <2>2. CASE \E res \in {"ok", "err"} : Returns(res) /\ UNCHANGED sentVars /\ (res = "ok" => flags = "closed")
    BY <2>1, <2>2, <1>6 DEF CallerMove
  <2>3. CASE Proceeds
    BY <2>3 DEF Proceeds, CallerMove, Waits, sentVars
  <2>. QED
    BY <1>11, <2>2, <2>3 DEF PollClose
<1>12. CASE PollNext
  BY <1>12 DEF PollNext, Proceeds, CallerMove, Waits, sentVars
<1>13. CASE Recheck
  <2>1. CASE Returns("ok") /\ call.method = "ready"
    <3>1. UNCHANGED sentVars /\ "ready" \in Methods /\ "ready" # "next"
      BY <1>13 DEF Recheck, Methods
    <3>. QED
      BY <2>1, <3>1, <1>6 DEF CallerMove
  <2>2. CASE UNCHANGED <<answer, slotVars>>
    BY <1>13, <2>2 DEF Recheck, CallerMove, Waits, sentVars
  <2>. QED
    BY <1>13, <2>1, <2>2 DEF Recheck
<1>14. ASSUME NEW m, KeepsSlot(m) PROVE Waits
  BY <1>14 DEF KeepsSlot, Submits, Waits, sentVars
<1>15. ASSUME NEW m, TakesSlot(m) PROVE Fills(m) /\ call.method = m
  BY <1>15 DEF TakesSlot, Submits, Fills
<1>16. CASE SubmitWrite
  <2>1. "write" \in Methods /\ "write" # "next"
    BY DEF Methods
  <2>2. CASE TakesSlot("write") /\ ~KeepsSlot("write")
    <3>1. call.buf \in Lengths /\ plan.kind = "writer" /\ Fills("write") /\ Owed = 1
      BY <2>1, <2>2, <1>15, <1>3 DEF CallInv, Fills, Owed
    <3>. QED
      BY <1>16, <2>2, <3>1 DEF SubmitWrite, AsksWrite, CallerMove
  <2>. QED
    BY <1>16, <2>2, <1>14 DEF SubmitWrite, CallerMove
<1>17. CASE SubmitFlush
  <2>1. "flush" \in Methods /\ "flush" # "next"
    BY DEF Methods
  <2>2. CASE TakesSlot("flush") /\ ~KeepsSlot("flush")
    <3>1. plan.kind = "writer" /\ Fills("flush")
      BY <2>1, <2>2, <1>15, <1>3
    <3>. QED
      BY <1>17, <2>2, <3>1 DEF SubmitFlush, AsksFlush, CallerMove, Sends
  <2>. QED
    BY <1>17, <2>2, <1>14 DEF SubmitFlush, CallerMove
<1>18. CASE SubmitClose
  <2>1. "close" \in Methods /\ "close" # "next"
    BY DEF Methods
  <2>2. CASE TakesSlot("close") /\ ~KeepsSlot("close")
    <3>1. plan.kind = "writer" /\ Fills("close")
      BY <2>1, <2>2, <1>15, <1>3
    <3>. QED
      BY <1>18, <2>2, <3>1 DEF SubmitClose, AsksClose, CallerMove, Sends
  <2>. QED
    BY <1>18, <2>2, <1>14 DEF SubmitClose, CallerMove
<1>19. CASE SubmitNext
  <2>2. CASE TakesSlot("next") /\ ~KeepsSlot("next")
    <3>1. plan.kind = "reader" /\ Fills("next")
      BY <2>2, <1>15, <1>4
    <3>. QED
      BY <1>19, <2>2, <3>1 DEF SubmitNext, AsksNext, CallerMove, Sends
  <2>. QED
    BY <1>19, <2>2, <1>14 DEF SubmitNext, CallerMove
<1>20. ASSUME NEW m \in Slots, NEW upto, NEW len, Answers(m, upto, len)
       PROVE  \/ Waits
              \/ /\ slots[m] \in {"ok", "err", "end"} /\ slots' = [slots EXCEPT ![m] = Empty]
                 /\ Told(m, slots[m], upto, len) /\ UNCHANGED <<sentVars, writing, covers>>
  <2>1. pc = "answer" /\ call.method = m /\ slots[m] \in Answerable \ {Empty}
    BY <1>20, <1>0 DEF Answers, CallInv
  <2>2. CASE slots[m] = "waiting"
    BY <1>20, <2>2 DEF Answers, Waits, sentVars, slotVars
  <2>3. CASE slots[m] # "waiting"
    <3>1. Yields(slots[m], upto, len) /\ slots' = [slots EXCEPT ![m] = Empty] /\ UNCHANGED <<sentVars, writing, covers>>
      BY <1>20, <2>3 DEF Answers
    <3>. QED
      BY <2>1, <2>3, <3>1, YieldsTells DEF Answerable
  <2>. QED
    BY <2>2, <2>3
<1>21. CASE AnswerWrite
  BY <1>21, <1>20 DEF AnswerWrite, Gets, CallerMove, Slots
<1>22. CASE AnswerFlush
  BY <1>22, <1>20 DEF AnswerFlush, Gets, CallerMove, Slots
<1>23. CASE AnswerClose
  BY <1>23, <1>20 DEF AnswerClose, Gets, CallerMove, Slots
<1>24. CASE AnswerNext
  BY <1>24, <1>20 DEF AnswerNext, Gets, CallerMove, Slots
<1>. QED
  BY <1>5, <1>7, <1>8, <1>9, <1>10, <1>11, <1>12, <1>13, <1>16, <1>17, <1>18, <1>19, <1>21, <1>22, <1>23, <1>24
     DEF CallerNext, CallerWork, Flush, Close, NextItem

(* The moves of a caller, as far as they are its own.                       *)
Starts ==
    /\ pc = "idle" /\ pc' = "check" /\ calls < plan.calls /\ calls' = calls + 1
    /\ call'.method \in Methods /\ call'.buf \in Lengths \cup {0}
    /\ call'.buf = 0 <=> call'.method \notin {"send", "write"}
    /\ call' = [method |-> call'.method, buf |-> call'.buf]
    /\ (call'.method = "next") = (plan.kind = "reader")
    /\ UNCHANGED <<length, slots>>
Leaves ==
    /\ pc' = "idle" /\ call' = NoCall /\ calls' = calls
    /\ length' = length \/ (Len(length') = Sent + 1 /\ Owed = 1)
GoesOn ==
    /\ pc # "idle" /\ call' = call /\ calls' = calls
    /\ pc' \in {"check", "recheck", "submit", "answer", "pending"}
    /\ pc' = "recheck" => call.method \in {"ready", "write"}
    /\ pc' = "submit" => call.method \in Slots
    /\ pc' = "answer" => call.method \in Slots /\ slots'[call.method] # Empty
    /\ \/ length' = length /\ (slots["write"] # Empty => slots'["write"] # Empty)
       \/ Len(length') = Sent + 1 /\ Owed = 1 /\ call.method = "write" /\ slots'["write"] # Empty

(* Every step of the caller starts a call, leaves it, or goes on with it.    *)
LEMMA CallerControl ==
    ASSUME Parts, CallInv, CallerNext
    PROVE  (Starts \/ Leaves \/ GoesOn) /\ woken' \in BOOLEAN
<1>0. /\ call \in [method : Methods \cup {None}, buf : Lengths \cup {0}] /\ slots \in [Slots -> Answerable]
      /\ woken \in BOOLEAN /\ length \in Seq(Lengths)
  BY DEF Parts, CallOK, SlotOK, SentOK
<1>1. {"write", "flush", "close", "next"} \subseteq Slots /\ Slots \subseteq {"write", "flush", "close", "next"}
      /\ {"ready", "send", "write", "flush", "close", "next"} \subseteq Methods
  BY DEF Slots, Methods
<1>2. ASSUME NEW m \in Methods, NEW n \in Lengths \cup {0}, Begins(m, n) PROVE Starts /\ woken' \in BOOLEAN
  BY <1>2 DEF Begins, Starts, At, sentVars, slotVars
<1>3. CASE PollsAgain
  BY <1>3 DEF PollsAgain, GoesOn, At, sentVars, slotVars
<1>4. CASE GivesUp
  BY <1>4, <1>0 DEF GivesUp, Leaves, At, sentVars
<1>5. ASSUME NEW res, Returns(res), UNCHANGED <<calls, sentVars>> PROVE Leaves
  BY <1>5 DEF Returns, Yields, Leaves, sentVars
<1>6. ASSUME pc = "check", UNCHANGED calls, AwaitsRoom, call.method \in {"ready", "write"} PROVE GoesOn
  BY <1>6 DEF AwaitsRoom, GoesOn, slotVars
<1>7. ASSUME pc = "check", UNCHANGED calls, Proceeds, UNCHANGED slotVars, call.method \in Slots PROVE GoesOn
  BY <1>7 DEF Proceeds, GoesOn, sentVars, slotVars
<1>8. CASE PollReady \/ PollWrite \/ PollFlush \/ PollClose \/ PollNext
  <2>1. pc = "check" /\ UNCHANGED <<calls, woken>>
    BY <1>8 DEF PollReady, PollWrite, PollFlush, PollClose, PollNext, Checks
  <2>2. \/ \E res : Returns(res) /\ UNCHANGED sentVars
        \/ AwaitsRoom /\ call.method \in {"ready", "write"}
        \/ Proceeds /\ UNCHANGED slotVars /\ call.method \in Slots
    BY <1>8, <1>1 DEF PollReady, PollWrite, PollFlush, PollClose, PollNext, Checks, Proceeds
  <2>. QED
    BY <2>1, <2>2, <1>0, <1>5, <1>6, <1>7
<1>9. CASE StartSend
  <2>1. UNCHANGED <<calls, woken>> /\ call.method = "send"
    BY <1>9 DEF StartSend, Checks
  <2>2. CASE Returns("err") /\ UNCHANGED sentVars
    BY <2>1, <2>2, <1>0, <1>5
  <2>3. CASE SendsChunk(call.buf) /\ Returns("ok")
    <3>1. call.buf \in Lengths
      BY <2>1 DEF CallInv
    <3>2. Len(length') = Sent + 1
      BY <2>3, <3>1, <1>0 DEF SendsChunk, Sent
    <3>. QED
      BY <2>1, <2>3, <3>2, <1>0 DEF Returns, Yields, Leaves, Owed
  <2>. QED
    BY <1>9, <2>2, <2>3 DEF StartSend
<1>10. CASE Recheck
  <2>1. pc = "recheck" /\ UNCHANGED <<calls, woken, sentVars>>
    BY <1>10 DEF Recheck
  <2>2. CASE Returns("ok")
    BY <2>1, <2>2, <1>0, <1>5
  <2>3. CASE pc' = "pending" /\ UNCHANGED <<call, answer, slotVars>>
    BY <2>1, <2>3, <1>0 DEF GoesOn, slotVars, sentVars
  <2>4. CASE call.method = "write" /\ pc' = "submit" /\ UNCHANGED <<call, answer, slotVars>>
    BY <2>1, <2>4, <1>0, <1>1 DEF GoesOn, slotVars, sentVars
  <2>. QED
    BY <1>10, <2>2, <2>3, <2>4 DEF Recheck
<1>11. ASSUME NEW m \in Slots, KeepsSlot(m) PROVE GoesOn /\ woken' \in BOOLEAN
  BY <1>11, <1>0 DEF KeepsSlot, Submits, At, GoesOn, sentVars, slotVars
<1>12. ASSUME NEW m \in Slots, TakesSlot(m)
       PROVE  /\ pc = "submit" /\ pc' = "answer" /\ call.method = m /\ UNCHANGED <<call, calls, woken>>
              /\ slots[m] = Empty /\ slots' = [slots EXCEPT ![m] = "waiting"] /\ slots'[m] = "waiting"
  BY <1>12, <1>0 DEF TakesSlot, Submits, At
<1>13. "waiting" # Empty
  BY DEF Empty
<1>14. ASSUME NEW m \in Slots \ {"write"}, TakesSlot(m), UNCHANGED length PROVE GoesOn /\ woken' \in BOOLEAN
  BY <1>14, <1>12, <1>13, <1>0, <1>1 DEF GoesOn
<1>15. CASE SubmitWrite
  <2>1. CASE TakesSlot("write") /\ SendsChunk(call.buf)
    <3>1. call.method = "write" /\ Owed = 1 /\ call.buf \in Lengths
      BY <2>1, <1>12, <1>1 DEF Owed, CallInv
    <3>2. Len(length') = Sent + 1
      BY <2>1, <3>1, <1>0 DEF SendsChunk, Sent
    <3>. QED
      BY <2>1, <3>1, <3>2, <1>12, <1>13, <1>0, <1>1 DEF GoesOn
  <2>. QED
    BY <1>15, <2>1, <1>11, <1>1 DEF SubmitWrite
<1>16. CASE SubmitFlush \/ SubmitClose \/ SubmitNext
  <2>1. PICK m \in {"flush", "close", "next"} : KeepsSlot(m) \/ (TakesSlot(m) /\ UNCHANGED length)
    BY <1>16 DEF SubmitFlush, SubmitClose, SubmitNext
  <2>. QED
    BY <2>1, <1>11, <1>14, <1>1
<1>17. ASSUME NEW m \in Slots, NEW upto, NEW len, Answers(m, upto, len)
       PROVE  (Leaves \/ GoesOn) /\ woken' \in BOOLEAN
  <2>1. pc = "answer" /\ call.method = m /\ UNCHANGED <<calls, woken, sentVars>>
    BY <1>17 DEF Answers
  <2>2. CASE slots[m] = "waiting"
    BY <1>17, <2>1, <2>2, <1>0 DEF Answers, GoesOn, sentVars
  <2>3. CASE slots[m] # "waiting"
    BY <1>17, <2>1, <2>3, <1>0 DEF Answers, Yields, Leaves, sentVars
  <2>. QED
    BY <2>2, <2>3
<1>18. CASE AnswerWrite \/ AnswerFlush \/ AnswerClose \/ AnswerNext
  BY <1>18, <1>17, <1>1 DEF AnswerWrite, AnswerFlush, AnswerClose, AnswerNext
<1>. QED
  BY <1>2, <1>3, <1>4, <1>8, <1>9, <1>10, <1>15, <1>16, <1>18, <1>0
     DEF CallerNext, CallerWork, Flush, Close, NextItem, PollsAgain, GivesUp

(* The caller keeps the account of what may be sent.                        *)
LEMMA CallerCounts ==
    ASSUME Parts, CallInv, CountInv, CallerNext
    PROVE  CallInv' /\ CountInv'
<1>0. /\ Sent \in Nat /\ calls \in Nat /\ writers \in Nat /\ writers' = writers /\ Owed \in {0, 1}
      /\ call \in [method : Methods \cup {None}, buf : Lengths \cup {0}]
  BY CallerLeaves, PlanFacts DEF Parts, CallOK, SentOK, Sent, Owed
<1>1. {"ready", "send", "write", "flush", "close", "next"} \subseteq Methods /\ None \notin Methods
  BY DEF Methods, None
<1>2. CASE Starts
  <2>1. call = NoCall /\ Owed = 0
    BY <1>2 DEF Starts, CallInv, NoCall, Owed, None
  <2>2. Sent' = Sent /\ Owed' \in {0, 1}
    BY <1>2 DEF Starts, Sent, Owed
  <2>3. CountInv'
    BY <1>2, <1>0, <2>1, <2>2 DEF Starts, CountInv
  <2>. QED
    BY <1>2, <1>1, <2>3 DEF Starts, CallInv
<1>3. CASE Leaves
  <2>1. Owed' = 0 /\ (Sent' = Sent \/ (Sent' = Sent + 1 /\ Owed = 1))
    BY <1>3 DEF Leaves, Owed, Sent, NoCall, None
  <2>2. CountInv'
    BY <1>3, <1>0, <2>1 DEF Leaves, CountInv
  <2>. QED
    BY <1>3, <2>2 DEF Leaves, CallInv, NoCall, None
<1>4. CASE GoesOn
  <2>1. (Sent' = Sent /\ (Owed' = Owed \/ Owed' = 0)) \/ (Sent' = Sent + 1 /\ Owed = 1 /\ Owed' = 0)
    BY <1>4 DEF GoesOn, Owed, Sent
  <2>2. CountInv'
    BY <1>4, <1>0, <2>1 DEF GoesOn, CountInv
  <2>. QED
    BY <1>4, <2>2 DEF GoesOn, CallInv
<1>. QED
  BY <1>2, <1>3, <1>4, CallerControl

(* The caller keeps the types.                                              *)
LEMMA CallerTypes ==
    ASSUME Parts, CallInv, CountInv, ReadInv, CallerNext
    PROVE  Parts'
<1>0. CallerMove
  BY CallerMoves DEF ReadInv, ReadSides, ReadItems, Sides, Side
<1>1. UNCHANGED <<plan, lockVars, taskVars, writers>>
  BY CallerLeaves
<1>2. PlanOK' /\ Lock!LockTypeOK'
  BY <1>1 DEF Parts, PlanOK, Lock!LockTypeOK, lockVars
<1>3. WOK' /\ ROK' /\ TaskOK'
  BY <1>1 DEF Parts, WOK, ROK, TaskOK, taskVars, writableVars, readVars, readableVars
<1>4. /\ Sent \in Nat /\ MaxSent \in Nat /\ cmds \in Seq(Names) /\ length \in Seq(Lengths) /\ Sent <= MaxSent
      /\ slots \in [Slots -> Answerable] /\ answer \in Answered /\ covers \in 0..MaxSent
      /\ writing \in [chunk : 0..MaxSent, len : Lengths \cup {0}] /\ item \in 0..MaxSent
      /\ answer.items \in Seq(Chunks)
  <2>1. PlanOK /\ SentOK /\ SlotOK /\ ROK /\ CallOK
    BY DEF Parts
  <2>2. answer \in Answered
    BY <2>1 DEF CallOK
  <2>3. answer.items \in Seq(Chunks)
    BY <2>2 DEF Answered
  <2>. QED
    BY <2>1, <2>2, <2>3, PlanFacts DEF SentOK, Sent, SlotOK, ROK
<1>5. Owed = 1 => Sent + 1 <= MaxSent
  BY <1>4, PlanFacts DEF Parts, CallOK, CountInv
<1>6. SentOK'
  <2>1. CASE length' = length /\ (cmds' = cmds \/ \E c \in {ReadyCmd, FlushCmd, CloseCmd, ReadCmd} : cmds' = Append(cmds, c))
    <3>1. {ReadyCmd, FlushCmd, CloseCmd, ReadCmd} \subseteq Names
      BY DEF Names
    <3>2. cmds' \in Seq(Names)
      <4>1. \A c \in Names : Append(cmds, c) \in Seq(Names)
        BY <1>4
      <4>. QED
        BY <2>1, <3>1, <4>1, <1>4
    <3>. QED
      BY <2>1, <3>2, <1>4 DEF SentOK, Sent
  <2>2. CASE Owed = 1 /\ \E n \in Lengths : SendsChunk(n)
    <3>1. PICK n \in Lengths : cmds' = Append(cmds, Sent + 1) /\ length' = Append(length, n)
      BY <2>2 DEF SendsChunk, Sends
    <3>2. Sent + 1 \in Names
      BY <2>2, <1>4, <1>5 DEF Names, Chunks
    <3>3. cmds' \in Seq(Names)
      BY <3>1, <3>2, <1>4
    <3>4. length' \in Seq(Lengths) /\ Len(length') = Sent + 1
      BY <3>1, <1>4 DEF Sent
    <3>. QED
      BY <2>2, <3>3, <3>4, <1>5 DEF SentOK, Sent
  <2>3. SendsOne \/ AsksWrite => Owed = 1 /\ \E n \in Lengths : SendsChunk(n)
    BY DEF SendsOne, AsksWrite
  <2>4. Waits \/ Turns \/ (\E m \in Slots : Gets(m)) => length' = length /\ (cmds' = cmds \/ cmds' = Append(cmds, ReadyCmd))
    BY DEF Waits, Turns, Gets, sentVars
  <2>5. AsksFlush \/ AsksClose \/ AsksNext => length' = length /\ \E c \in {FlushCmd, CloseCmd, ReadCmd} : cmds' = Append(cmds, c)
    BY DEF AsksFlush, AsksClose, AsksNext
  <2>. QED
    BY <1>0, <2>1, <2>2, <2>3, <2>4, <2>5 DEF CallerMove
<1>7. slots' \in [Slots -> Answerable]
  BY <1>0, <1>4 DEF CallerMove, Waits, Turns, SendsOne, AsksWrite, AsksFlush, AsksClose, AsksNext, Gets, slotVars,
     Fills, Answerable
<1>8. covers' \in 0..MaxSent
  BY <1>0, <1>4 DEF CallerMove, Waits, Turns, SendsOne, AsksWrite, AsksFlush, AsksClose, AsksNext, Gets, slotVars
<1>9. writing' \in [chunk : 0..MaxSent, len : Lengths \cup {0}]
  <2>1. CASE AsksWrite
    BY <2>1, <1>4, <1>5 DEF AsksWrite
  <2>. QED
    BY <1>0, <1>4, <2>1 DEF CallerMove, Waits, Turns, SendsOne, AsksFlush, AsksClose, AsksNext, Gets, slotVars
<1>10. answer' \in Answered
  <2>1. ASSUME NEW m \in Methods, NEW res \in {"ok", "err", "end"}, NEW upto \in 0..MaxSent, NEW len \in Lengths \cup {0},
               m = "next" /\ res = "ok" => upto \in Chunks, Told(m, res, upto, len)
        PROVE  answer' \in Answered
    <3> DEFINE got == IF m = "next" /\ res = "ok" THEN Append(answer.items, upto) ELSE answer.items
    <3>1. got \in Seq(Chunks)
      BY <2>1, <1>4
    <3>2. answer' = [method |-> m, res |-> res, upto |-> upto, len |-> len, items |-> got]
      BY <2>1 DEF Told
    <3> HIDE DEF got
    <3>. QED
      BY <3>1, <3>2 DEF Answered
  <2>2. CASE Turns
    BY <2>2, <2>1, <1>4 DEF Turns
  <2>3. CASE SendsOne
    BY <2>3, <2>1, <1>4 DEF SendsOne, Methods
  <2>4. ASSUME NEW m \in Slots, Gets(m) PROVE answer' \in Answered
    <3>1. m \in Methods /\ slots[m] \in {"ok", "err", "end"}
      BY <2>4 DEF Slots, Methods, Gets
    <3>2. writing.chunk \in 0..MaxSent /\ writing.len \in Lengths \cup {0}
      BY <1>4
    <3> DEFINE upto == CASE m = "write" -> writing.chunk [] m = "flush" -> covers [] m = "close" -> 0 [] m = "next" -> item
    <3>3. upto \in 0..MaxSent
      BY <3>2, <1>4 DEF Slots
    <3>4. m = "next" /\ slots[m] = "ok" => upto \in Chunks
      BY <1>4 DEF ReadInv, ReadSides, ReadItems, Chunks
    <3>5. Told(m, slots[m], upto, IF m = "write" THEN writing.len ELSE 0)
      BY <2>4 DEF Gets
    <3> HIDE DEF upto
    <3>. QED
      BY <3>1, <3>2, <3>3, <3>4, <3>5, <2>1
  <2>. QED
    BY <1>0, <1>4, <2>2, <2>3, <2>4 DEF CallerMove, Waits, AsksWrite, AsksFlush, AsksClose, AsksNext, Fills
<1>11. CallOK'
  <2>1. call' \in [method : Methods \cup {None}, buf : Lengths \cup {0}]
    <3>1. call \in [method : Methods \cup {None}, buf : Lengths \cup {0}] /\ NoCall \in [method : Methods \cup {None}, buf : Lengths \cup {0}]
      BY DEF Parts, CallOK, NoCall
    <3>. QED
      BY <3>1, CallerControl DEF Starts, Leaves, GoesOn
  <2>2. pc' \in {"idle", "check", "recheck", "submit", "answer", "pending"}
    BY CallerControl DEF Starts, Leaves, GoesOn
  <2>3. calls' \in 0..plan.calls
    BY CallerControl, PlanFacts DEF Starts, Leaves, GoesOn, Parts, CallOK
  <2>. QED
    BY <1>1, <1>10, <2>1, <2>2, <2>3 DEF CallOK, Parts
<1>. QED
  BY <1>2, <1>3, <1>6, <1>7, <1>8, <1>9, <1>11, CallerControl DEF Parts, SlotOK

(* What a step of the task or of the readable stream does to the writable    *)
(* stream, its channel and the answers.                                      *)
Took(c) == cmds # <<>> /\ Head(cmds) = c /\ cmds' = Tail(cmds) /\ flags = wState
AnswersIn(m, res) == slots' = slots \/ (slots[m] = "waiting" /\ slots' = [slots EXCEPT ![m] = res])
SameWrite == slots'["write"] = slots["write"]
SameFlush == slots'["flush"] = slots["flush"]
SameClose == slots'["close"] = "ok" => slots["close"] = "ok"
SameStream == UNCHANGED <<wState, wLine, wBusy, wSunk>>

Accepts(c) ==
    /\ Took(c) /\ W!Accept(c) /\ flags' = wState'
    /\ UNCHANGED <<slots, refused, flushLeft>>
Refuses(c) ==
    /\ Took(c) /\ (wState # "writable" \/ wClosing) /\ refused' = refused \cup {c}
    /\ SameStream /\ UNCHANGED <<wClosing, flags, flushLeft>>
    /\ AnswersIn("write", "err")
Passes ==
    /\ \E c \in {ReadyCmd, CloseCmd, WritersClose, ReadCmd} : Took(c)
    /\ SameStream /\ UNCHANGED <<flags, flushLeft, refused>>
    /\ wClosing' = wClosing \/ (wState = "writable" /\ wClosing')
    /\ SameWrite /\ SameFlush /\ SameClose
Flushes ==
    /\ Took(FlushCmd) /\ SameStream /\ UNCHANGED <<wClosing, flags, refused>>
    /\ \/ wState = "errored" /\ slots' = Give("flush", "err") /\ flushLeft' = flushLeft
       \/ wState # "errored" /\ Ahead = 0 /\ slots' = Give("flush", "ok") /\ flushLeft' = flushLeft
       \/ wState # "errored" /\ Ahead > 0 /\ slots' = slots /\ flushLeft' = Ahead
Rests ==
    /\ UNCHANGED <<cmds, refused, flushLeft, wState, wLine, wSunk, wClosing>>
    /\ wBusy' = wBusy \/ (wBusy = None /\ wBusy' = "close" /\ wClosing /\ wLine = <<>>)
    /\ flags' \in {flags, wState}
    /\ SameWrite /\ SameFlush /\ SameClose
StartsWrite == W!BeginWrite /\ UNCHANGED <<cmds, slots, flags, flushLeft, refused>>
EndsWrite ==
    /\ W!EndWrite /\ UNCHANGED <<cmds, refused>>
    /\ flushLeft' = CountDown(flushLeft) /\ flags' = wState'
    /\ slots'["write"] = (IF SlotHas(UnderWay) THEN "ok" ELSE slots["write"])
    /\ slots'["flush"] = (IF flushLeft = 1 THEN "ok" ELSE slots["flush"])
    /\ SameClose
FailsWrite ==
    /\ wBusy = "write" /\ wBusy' = None /\ wState' = "errored" /\ wLine' = <<>> /\ ~wClosing' /\ wSunk' = wSunk
    /\ UNCHANGED <<cmds, refused>> /\ flushLeft' = 0 /\ flags' = wState'
    /\ slots'["write"] = slots["write"] \/ (slots["write"] # Empty /\ slots'["write"] = "err")
    /\ slots'["flush"] = (IF flushLeft = 1 THEN "ok" ELSE IF flushLeft > 0 /\ slots["flush"] = "waiting" THEN "err" ELSE slots["flush"])
    /\ SameClose
EndsClose ==
    /\ wClosing /\ wBusy = "close" /\ wState' \in {"closed", "errored"}
    /\ ~wClosing' /\ wLine' = <<>> /\ wBusy' = None /\ wSunk' = wSunk
    /\ UNCHANGED <<cmds, refused, flushLeft, flags>> /\ flags = wState
    /\ SameWrite /\ SameFlush
    /\ slots'["close"] = "ok" => slots["close"] = "ok" \/ wState' = "closed"

TaskMove ==
    /\ UNCHANGED <<plan, length, callerVars, writing, covers>>
    /\ \A m \in Slots : slots'[m] = slots[m] \/ slots'[m] \in {"ok", "err", "end"}
    /\ \/ \E c \in Chunks : Accepts(c) \/ Refuses(c)
       \/ Passes \/ Flushes \/ Rests \/ StartsWrite \/ EndsWrite \/ FailsWrite \/ EndsClose

(* An answer in one slot.                                                    *)
LEMMA GiveFacts ==
    ASSUME slots \in [Slots -> Answerable], NEW m \in Slots, NEW res
    PROVE  /\ Give(m, res)[m] = res
           /\ \A k \in Slots \ {m} : Give(m, res)[k] = slots[k]
  BY DEF Give

(* The slots that a write's end leaves.                                      *)
LEMMA OwnFacts ==
    ASSUME slots \in [Slots -> Answerable], NEW res
    PROVE  /\ Own(Flushed, res)["write"] = IF SlotHas(UnderWay) THEN res ELSE slots["write"]
           /\ Own(Flushed, res)["flush"] = IF flushLeft = 1 THEN "ok" ELSE slots["flush"]
           /\ Own(Flushed, res)["close"] = slots["close"]
           /\ Own(Flushed, res)["next"] = slots["next"]
  BY DEF Own, Flushed, Give, Slots

(* Every step of the two tasks and the source is one of these.               *)
LEMMA TaskMoves ==
    ASSUME Parts, ReadInv, TaskWork \/ Enqueues \/ SourceEnds
    PROVE  TaskMove
<1>0. slots \in [Slots -> Answerable] /\ WOK /\ SentOK
  BY DEF Parts, SlotOK
<1>1. UNCHANGED <<plan, length, callerVars, writing, covers>>
  <2>1. CASE ServesRead \/ Enqueues \/ SourceEnds
    BY <2>1 DEF ServesRead, Enqueues, SourceEnds, Feeds, ReaderStep
  <2>. QED
    BY <2>1, TaskLeaves
<1>2. {"write", "flush", "close", "next"} \subseteq Slots /\ Slots \subseteq {"write", "flush", "close", "next"}
  BY DEF Slots
<1> DEFINE Fine == \A m \in Slots : slots'[m] = slots[m] \/ slots'[m] \in {"ok", "err", "end"}
<1>3. slots' = slots => Fine /\ SameWrite /\ SameFlush /\ SameClose
  BY DEF SameWrite, SameFlush, SameClose
<1>4. ASSUME NEW m \in Slots, NEW res \in {"ok", "err", "end"}, slots' = Give(m, res)
      PROVE  /\ Fine
             /\ m # "write" => SameWrite
             /\ m # "flush" => SameFlush
             /\ m # "close" \/ res = "err" => SameClose
  BY <1>4, GiveFacts, <1>0, <1>2 DEF SameWrite, SameFlush, SameClose
<1>5. Quiet => slots' = slots
  BY DEF Quiet
<1>6. CASE \E c \in Chunks : CommandWrite(c)
  <2>1. PICK c \in Chunks : CommandWrite(c)
    BY <1>6
  <2>2. Took(c) /\ flushLeft' = flushLeft
    BY <2>1 DEF CommandWrite, Takes, Took
  <2>3. CASE W!Accept(c) /\ Publishes(Backpressure(wLine', wBusy), slots) /\ UNCHANGED refused
    <3>1. Accepts(c) /\ slots' = slots
      BY <2>2, <2>3 DEF Publishes, Accepts
    <3>. QED
      BY <3>1, <1>1, <1>3 DEF TaskMove
  <2>4. CASE ~(W!Accept(c) /\ Publishes(Backpressure(wLine', wBusy), slots) /\ UNCHANGED refused)
    <3>1. /\ wState # "writable" \/ wClosing
          /\ refused' = refused \cup {c} /\ UNCHANGED <<writableVars, flags, full, parked>>
          /\ slots' = IF SlotHas(c) THEN Give("write", "err") ELSE slots
      BY <2>1, <2>4 DEF CommandWrite, Settles
    <3>2. Refuses(c) /\ Fine
      BY <2>2, <3>1, <1>2, <1>3, <1>4 DEF Refuses, writableVars, SameStream, SlotHas, AnswersIn, Give
    <3>. QED
      BY <3>2, <1>1 DEF TaskMove
  <2>. QED
    BY <2>3, <2>4
<1>7. CASE CommandReady
  <2>1. Took(ReadyCmd) /\ slots' = slots /\ UNCHANGED <<writableVars, flags, flushLeft, refused>>
    BY <1>7 DEF CommandReady, Takes, Took, Quiet
  <2>. QED
    BY <2>1, <1>1, <1>3 DEF TaskMove, Passes, writableVars, SameStream
<1>8. CASE CommandFlush
  <2>1. Took(FlushCmd) /\ UNCHANGED <<writableVars, flags, refused>>
    BY <1>8 DEF CommandFlush, Takes, Took
  <2>2. Flushes
    BY <1>8, <2>1 DEF CommandFlush, Flushes, SameStream, writableVars, Settles, Quiet
  <2>3. Fine
    BY <2>2, <1>2, <1>3, <1>4 DEF Flushes
  <2>. QED
    BY <2>2, <2>3, <1>1 DEF TaskMove
<1>9. CASE \E c \in {CloseCmd, WritersClose} : CommandClose(c)
  <2>1. PICK c \in {CloseCmd, WritersClose} : CommandClose(c)
    BY <1>9
  <2>2. Took(c) /\ UNCHANGED <<flags, flushLeft, refused>>
    BY <2>1 DEF CommandClose, Takes, Took
  <2>3. SameStream /\ (wClosing' = wClosing \/ (wState = "writable" /\ wClosing'))
    BY <2>1 DEF CommandClose, W!AskClose, SameStream, writableVars
  <2>4. slots' = slots \/ slots' = Give("close", "err")
    BY <2>1 DEF CommandClose, Quiet, Settles
  <2>5. Fine /\ SameWrite /\ SameFlush /\ SameClose
    BY <2>4, <1>2, <1>3, <1>4
  <2>. QED
    BY <2>2, <2>3, <2>5, <1>1 DEF TaskMove, Passes
<1>10. CASE PollEnds \/ BeginClose
  <2>1. UNCHANGED <<cmds, refused, flushLeft, flags>> /\ slots' = slots
    BY <1>10 DEF PollEnds, BeginClose, Dispatches, Quiet
  <2>2. /\ UNCHANGED <<wState, wLine, wSunk, wClosing>>
        /\ wBusy' = wBusy \/ (wBusy = None /\ wBusy' = "close" /\ wClosing /\ wLine = <<>>)
    BY <1>10 DEF PollEnds, BeginClose, W!BeginClose, writableVars, None, W!None
  <2>. QED
    BY <2>1, <2>2, <1>1, <1>3 DEF TaskMove, Rests
<1>11. CASE SetsFlags
  <2>1. UNCHANGED <<cmds, refused, flushLeft, writableVars>> /\ slots' = slots /\ flags' = wState
    BY <1>11 DEF SetsFlags, Publishes, writableVars
  <2>. QED
    BY <2>1, <1>1, <1>3 DEF TaskMove, Rests, writableVars
<1>12. CASE BeginWrite
  <2>1. StartsWrite /\ slots' = slots
    BY <1>12 DEF BeginWrite, Dispatches, Quiet, StartsWrite
  <2>. QED
    BY <2>1, <1>1, <1>3 DEF TaskMove
<1>13. CASE WriteReturns
  <2>1. W!EndWrite /\ UNCHANGED <<cmds, refused>> /\ flushLeft' = CountDown(flushLeft) /\ flags' = wState'
        /\ slots' = Own(Flushed, "ok")
    BY <1>13 DEF WriteReturns, Drives, Publishes
  <2>2. EndsWrite /\ Fine
    BY <2>1, OwnFacts, <1>0, <1>2 DEF EndsWrite, SameClose
  <2>. QED
    BY <2>2, <1>1 DEF TaskMove
<1>14. CASE WriteFails
  <2>1. /\ wBusy = "write" /\ wBusy' = None /\ wState' = "errored" /\ wLine' = <<>> /\ ~wClosing' /\ wSunk' = wSunk
        /\ UNCHANGED <<cmds, refused>> /\ flushLeft' = 0 /\ flags' = wState'
        /\ slots' = Rejected(Own(Flushed, "err"))
    BY <1>14 DEF WriteFails, Drives, Publishes, W!Fail
  <2> DEFINE s == Own(Flushed, "err")
  <2>2. s \in [Slots -> Answerable]
    BY <1>0, OwnTypes, FlushedTypes DEF Answerable
  <2>3. \A m \in Slots : slots'[m] = s[m] \/ (s[m] = "waiting" /\ slots'[m] = "err")
    BY <2>1, <2>2, RejectedTypes
  <2>4. /\ (s["write"] = slots["write"] \/ (slots["write"] # Empty /\ s["write"] = "err")) /\ s["close"] = slots["close"] /\ s["next"] = slots["next"]
        /\ s["flush"] = IF flushLeft = 1 THEN "ok" ELSE slots["flush"]
    BY OwnFacts, <1>0 DEF SlotHas, Empty
  <2>5. s["flush"] = "waiting" => slots'["flush"] = IF flushLeft > 0 THEN "err" ELSE s["flush"]
    BY <2>1, <1>2 DEF Rejected
  <2> HIDE DEF s
  <2>6. Fine
    BY <2>3, <2>4, <1>2
  <2>7. slots'["flush"] = (IF flushLeft = 1 THEN "ok" ELSE IF flushLeft > 0 /\ slots["flush"] = "waiting" THEN "err" ELSE slots["flush"])
    BY <2>3, <2>4, <2>5, <1>2
  <2>8. (slots'["write"] = slots["write"] \/ (slots["write"] # Empty /\ slots'["write"] = "err")) /\ SameClose
    BY <2>3, <2>4, <1>2 DEF SameClose, Empty
  <2>. QED
    BY <2>1, <2>6, <2>7, <2>8, <1>1 DEF TaskMove, FailsWrite
<1>15. CASE \E res \in {"ok", "err"} : CloseReturns(res)
  <2>1. PICK res \in {"ok", "err"} : CloseReturns(res)
    BY <1>15
  <2>2. UNCHANGED <<cmds, refused, flushLeft, flags>> /\ flags = wState
    BY <2>1 DEF CloseReturns, Drives
  <2>3. /\ wClosing /\ wBusy = "close" /\ wState' \in {"closed", "errored"} /\ (res = "ok" => wState' = "closed")
        /\ ~wClosing' /\ wLine' = <<>> /\ wBusy' = None /\ wSunk' = wSunk
    BY <2>1, <1>0 DEF CloseReturns, W!EndClose, WOK, None, W!None
  <2>4. slots' = slots \/ slots' = Give("close", res)
    BY <2>1 DEF CloseReturns, Settles
  <2>5. Fine /\ SameWrite /\ SameFlush /\ (slots'["close"] = "ok" => slots["close"] = "ok" \/ wState' = "closed")
    BY <2>3, <2>4, <1>2, <1>3, <1>4, GiveFacts, <1>0
  <2>. QED
    BY <2>2, <2>3, <2>5, <1>1 DEF TaskMove, EndsClose
<1>16. CASE ServesRead \/ Enqueues \/ SourceEnds
  <2>1. UNCHANGED <<writableVars, flags, flushLeft, refused>>
    BY <1>16 DEF ServesRead, Enqueues, SourceEnds, Feeds, ReaderStep
  <2>2. slots' = slots \/ \E res \in {"ok", "err", "end"} : slots' = Give("next", res)
    BY <1>16 DEF ServesRead, Enqueues, SourceEnds, Hands, Ends, Settles, Quiet
  <2>3. Fine /\ SameWrite /\ SameFlush /\ SameClose
    BY <2>2, <1>2, <1>3, <1>4
  <2>4. CASE cmds' = cmds
    BY <2>1, <2>3, <2>4, <1>1 DEF TaskMove, Rests, writableVars
  <2>5. CASE Took(ReadCmd)
    BY <2>1, <2>3, <2>5, <1>1 DEF TaskMove, Passes, writableVars, SameStream
  <2>6. ServesRead => cmds # <<>> /\ Head(cmds) = ReadCmd /\ cmds' = Tail(cmds)
    BY DEF ServesRead
  <2>7. Enqueues \/ SourceEnds => cmds' = cmds
    BY DEF Enqueues, SourceEnds, Feeds
  <2>8. ServesRead => flags = wState
    <3>1. cmds # <<>> => Head(cmds) \in Elements(cmds)
      BY <1>0 DEF SentOK, Elements
    <3>2. ServesRead => plan.kind # "writer"
      BY <2>6, <3>1 DEF ReadInv, ReadSides, ReadItems
    <3>. QED
      BY <3>2, PlanFacts DEF ReadInv, ReadSides, ReadItems, Parts
  <2>. QED
    BY <1>16, <2>4, <2>5, <2>6, <2>7, <2>8 DEF Took
<1>. QED
  BY <1>6, <1>7, <1>8, <1>9, <1>10, <1>11, <1>12, <1>13, <1>14, <1>15, <1>16 DEF TaskWork

(* A writer's send.                                                          *)
WriterMove ==
    /\ plan.kind = "writer" /\ UNCHANGED <<plan, taskVars, callerVars, slotVars>>
    /\ writers < plan.writers /\ writers' = writers + 1
    /\ \/ \E n \in Lengths : SendsChunk(n)
       \/ cmds' = Append(cmds, WritersClose) /\ length' = length

(* Every step of a writer is one.                                            *)
LEMMA WriterMoves == WriterWrites \/ WriterCloses => WriterMove /\ UNCHANGED <<lockVars, woken>>
  BY DEF WriterWrites, WriterCloses, WriterSends, WriterMove, Sends

(* What the stream has been sent and how it has ended goes together.         *)
LEMMA CallerKeepsEnd ==
    ASSUME Parts, EndInv, CallerMove, UNCHANGED taskVars
    PROVE  EndInv'
<1>0. UNCHANGED <<wState, wClosing, wLine, wBusy, wSunk, flags>> /\ slots \in [Slots -> Answerable]
      /\ answer \in Answered
  BY DEF taskVars, writableVars, Parts, SlotOK, CallOK
<1>1. ASSUME slots'["close"] = "ok" => slots["close"] = "ok",
             answer'.method = "close" /\ answer'.res = "ok" => \/ answer.method = "close" /\ answer.res = "ok"
                                                               \/ flags = "closed" \/ slots["close"] = "ok"
      PROVE  EndInv'
  BY <1>0, <1>1 DEF EndInv
<1>2. ASSUME NEW m, NEW res, NEW upto, NEW len, Told(m, res, upto, len)
      PROVE  answer'.method = m /\ answer'.res = res
  BY <1>2 DEF Told
<1>3. CASE Waits
  BY <1>1, <1>3 DEF Waits, slotVars
<1>4. CASE Turns
  BY <1>1, <1>2, <1>4 DEF Turns, slotVars
<1>5. CASE SendsOne
  BY <1>1, <1>2, <1>5 DEF SendsOne, slotVars
<1>6. CASE AsksWrite \/ AsksFlush \/ AsksClose \/ AsksNext
  BY <1>0, <1>1, <1>6 DEF AsksWrite, AsksFlush, AsksClose, AsksNext, Fills, Slots
<1>7. ASSUME NEW m \in Slots, Gets(m) PROVE EndInv'
  <2>1. answer'.method = m /\ answer'.res = slots[m]
    BY <1>2, <1>7 DEF Gets
  <2>2. slots'["close"] \in {slots["close"], Empty}
    BY <1>0, <1>7 DEF Gets
  <2>. QED
    BY <1>1, <2>1, <2>2 DEF Empty
<1>. QED
  BY <1>3, <1>4, <1>5, <1>6, <1>7 DEF CallerMove

(* Nor do the tasks part them.                                               *)
LEMMA TaskKeepsEnd ==
    ASSUME Parts, EndInv, TaskMove
    PROVE  EndInv'
<1>0. WOK /\ answer' = answer /\ flags \in {"writable", "errored", "closed"}
  BY DEF Parts, TaskMove, callerVars, TaskOK
<1>00. slots \in [Slots -> Answerable] /\ {"write", "flush", "close", "next"} \subseteq Slots
  BY DEF Parts, SlotOK, Slots
<1>1. CASE \E c \in Chunks : Accepts(c) \/ Refuses(c)
  <2>1. PICK c \in Chunks : Accepts(c) \/ Refuses(c)
    BY <1>1
  <2>2. CASE Accepts(c)
    BY <2>2, <1>0 DEF Accepts, W!Accept, EndInv, Took, WOK, None, W!None
  <2>3. CASE Refuses(c)
    <3>1. slots'["close"] = slots["close"]
      BY <2>3, <1>00 DEF Refuses, AnswersIn
    <3>. QED
      BY <2>3, <3>1, <1>0 DEF Refuses, SameStream, EndInv
  <2>. QED
    BY <2>1, <2>2, <2>3
<1>2. CASE Passes
  <2>1. UNCHANGED <<wState, wLine, wBusy, wSunk, flags>> /\ (wClosing' = wClosing \/ (wState = "writable" /\ wClosing')) /\ SameClose
    BY <1>2 DEF Passes, SameStream
  <2>2. wBusy = "close" => wClosing'
    <3>1. wBusy = "close" => wClosing
      BY DEF EndInv
    <3>2. wClosing \in BOOLEAN /\ (wClosing' = wClosing \/ wClosing')
      BY <2>1, <1>0 DEF WOK
    <3>3. wClosing' = wClosing => (wClosing => wClosing')
      OBVIOUS
    <3>. QED
      BY <3>1, <3>2, <3>3
  <2>3. wState # "writable" => ~wClosing'
    BY <2>1 DEF EndInv
  <2>. QED
    BY <2>1, <2>2, <2>3, <1>0 DEF SameClose, EndInv
<1>3. CASE Flushes
  <2>1. slots'["close"] = slots["close"]
    BY <1>3, <1>00 DEF Flushes, Give
  <2>. QED
    BY <1>3, <1>0, <2>1 DEF Flushes, SameStream, EndInv
<1>4. CASE Rests
  BY <1>4, <1>0 DEF Rests, SameClose, EndInv, None
<1>5. CASE StartsWrite
  <2>1. wSunk' # <<>>
    BY <1>5, <1>0 DEF StartsWrite, W!BeginWrite, WOK
  <2>. QED
    BY <1>5, <1>0, <2>1 DEF StartsWrite, W!BeginWrite, EndInv
<1>6. CASE EndsWrite
  BY <1>6, <1>0 DEF EndsWrite, W!EndWrite, SameClose, EndInv, None, W!None
<1>7. CASE FailsWrite
  BY <1>7, <1>0 DEF FailsWrite, SameClose, EndInv, None
<1>8. CASE EndsClose
  BY <1>8, <1>0 DEF EndsClose, EndInv, None
<1>. QED
  BY <1>1, <1>2, <1>3, <1>4, <1>5, <1>6, <1>7, <1>8 DEF TaskMove

-----------------------------------------------------------------------------
(* The order of the chunks                                                   *)

(* A sequence in order that goes on in order.                                *)
LEMMA AscendsOn ==
    ASSUME NEW s \in Seq(Int), NEW n \in Nat, Ascends(s), Elements(s) \subseteq 1..n
    PROVE  Ascends(Append(s, n + 1)) /\ Elements(Append(s, n + 1)) = Elements(s) \cup {n + 1}
<1> DEFINE t == Append(s, n + 1)
           m == Len(s)
<1>1. m \in Nat /\ Len(t) = m + 1 /\ t[m + 1] = n + 1 /\ \A i \in 1..m : t[i] = s[i]
  OBVIOUS
<1>2. \A i \in 1..m : s[i] < n + 1
  <2>1. \A i \in 1..m : s[i] \in 1..n
    BY DEF Elements
  <2>. QED
    BY <2>1
<1> HIDE DEF t, m
<1>3. Ascends(t)
  <2> SUFFICES ASSUME NEW j \in 1..m + 1, NEW k \in 1..m + 1, j < k PROVE t[j] < t[k]
    BY <1>1 DEF Ascends
  <2>1. CASE k = m + 1
    BY <1>1, <1>2, <2>1
  <2>2. CASE k # m + 1
    <3>1. j \in 1..m /\ k \in 1..m
      BY <1>1, <2>2
    <3>. QED
      BY <1>1, <3>1 DEF Ascends, m
  <2>. QED
    BY <2>1, <2>2
<1>4. Elements(t) = Elements(s) \cup {n + 1}
  <2>1. ASSUME NEW i \in 1..m + 1 PROVE t[i] \in Elements(s) \cup {n + 1}
    BY <1>1, <2>1 DEF Elements, m
  <2>2. ASSUME NEW x \in Elements(s) PROVE x \in Elements(t)
    <3>1. PICK i \in 1..m : s[i] = x
      BY <2>2 DEF Elements, m
    <3>2. i \in 1..Len(t) /\ t[i] = x
      BY <1>1, <3>1
    <3>. QED
      BY <3>2 DEF Elements
  <2>3. n + 1 \in Elements(t)
    BY <1>1 DEF Elements
  <2>. QED
    BY <1>1, <2>1, <2>2, <2>3 DEF Elements
<1>. QED
  BY <1>3, <1>4 DEF t

(* One that loses an element in its midst.                                   *)
LEMMA AscendsWithout ==
    ASSUME NEW a \in Seq(Int), NEW c \in Int, NEW b \in Seq(Int), Ascends(a \o (<<c>> \o b))
    PROVE  Ascends(a \o b) /\ Elements(a \o b) = Elements(a \o (<<c>> \o b)) \ {c}
<1> DEFINE s == a \o (<<c>> \o b)
           t == a \o b
           m == Len(a)
           n == Len(b)
<1>1. /\ m \in Nat /\ n \in Nat /\ Len(s) = m + n + 1 /\ Len(t) = m + n
      /\ s[m + 1] = c
      /\ \A i \in 1..m : s[i] = t[i]
      /\ \A i \in m + 1..m + n : t[i] = s[i + 1]
  OBVIOUS
<1> DEFINE pos(i) == IF i <= m THEN i ELSE i + 1
<1>2. \A i \in 1..Len(t) : pos(i) \in 1..Len(s) /\ pos(i) # m + 1 /\ t[i] = s[pos(i)]
  BY SMTT(30), <1>1
<1>3. \A i, j \in 1..Len(t) : i < j => pos(i) < pos(j)
  BY <1>1
<1>4. \A k \in 1..Len(s) : k # m + 1 => \E i \in 1..Len(t) : pos(i) = k
  <2> SUFFICES ASSUME NEW k \in 1..Len(s), k # m + 1 PROVE \E i \in 1..Len(t) : pos(i) = k
    OBVIOUS
  <2>1. CASE k <= m
    BY <1>1, <2>1
  <2>2. CASE k > m + 1
    <3>1. k - 1 \in 1..Len(t) /\ pos(k - 1) = k
      BY <1>1, <2>2
    <3>. QED
      BY <3>1
  <2>. QED
    BY <1>1, <2>1, <2>2
<1>5. m + 1 \in 1..Len(s)
  BY <1>1
<1>6. Ascends(s)
  OBVIOUS
<1>8. s \in Seq(Int) /\ t \in Seq(Int)
  OBVIOUS
<1>10. s[m + 1] = c
  BY <1>1
<1>11. \A i \in 1..Len(s) : s[i] \in Int
  BY <1>8
<1> HIDE DEF s, t, m, n, pos
<1>7. Ascends(t)
  BY <1>2, <1>3, <1>6 DEF Ascends
<1>9. \A k \in 1..Len(s) : k # m + 1 => s[k] # c
  <2> SUFFICES ASSUME NEW k \in 1..Len(s), k # m + 1 PROVE s[k] # c
    OBVIOUS
  <2>1. k < m + 1 \/ m + 1 < k
    BY <1>5
  <2>2. s[k] < s[m + 1] \/ s[m + 1] < s[k]
    BY <2>1, <1>5, <1>6 DEF Ascends
  <2>. QED
    BY <2>2, <1>10, <1>11, <1>5
<1>12. Elements(t) = Elements(s) \ {c}
  <2>1. ASSUME NEW i \in 1..Len(t) PROVE t[i] \in Elements(s) \ {c}
    BY <1>2, <1>9, <2>1 DEF Elements
  <2>2. ASSUME NEW k \in 1..Len(s), s[k] # c PROVE s[k] \in Elements(t)
    <3>1. PICK i \in 1..Len(t) : pos(i) = k
      BY <1>4, <1>10, <2>2
    <3>. QED
      BY <1>2, <3>1 DEF Elements
  <2>. QED
    BY <2>1, <2>2 DEF Elements
<1>. QED
  BY <1>7, <1>12 DEF s, t

(* The only sequence in order that has just these elements is the filter.    *)
LEMMA FilterIsOrder ==
    ASSUME NEW X
    PROVE  \A n \in Nat : \A s \in Seq(Nat) : Ascends(s) /\ Elements(s) = X \cap (1..n) => s = Filter(UpTo(n), X)
<1> DEFINE P == {n \in Nat : \A s \in Seq(Nat) : Ascends(s) /\ Elements(s) = X \cap (1..n) => s = Filter(UpTo(n), X)}
<1>1. 0 \in P
  <2>1. UpTo(0) = <<>>
    BY DEF UpTo
  <2>2. ASSUME NEW s \in Seq(Nat), Elements(s) = X \cap (1..0) PROVE s = <<>>
    <3>1. 1..0 = {}
      OBVIOUS
    <3>2. s # <<>> => s[1] \in Elements(s)
      BY DEF Elements
    <3>. QED
      BY <2>2, <3>1, <3>2
  <2>. QED
    BY <2>1, <2>2, FilterEmpty
<1>2. ASSUME NEW n \in Nat, n \in P PROVE n + 1 \in P
  <2> SUFFICES ASSUME NEW s \in Seq(Nat), Ascends(s), Elements(s) = X \cap (1..n + 1)
               PROVE  s = Filter(UpTo(n + 1), X)
    OBVIOUS
  <2>1. UpTo(n) \in Seq(Nat) /\ UpTo(n + 1) = Append(UpTo(n), n + 1) /\ n + 1 \in Nat
    BY DEF UpTo
  <2>2. Filter(UpTo(n + 1), X) = IF n + 1 \in X THEN Append(Filter(UpTo(n), X), n + 1) ELSE Filter(UpTo(n), X)
    <3> DEFINE u == UpTo(n)
               k == n + 1
    <3>1. u \in Seq(Nat) /\ k \in Nat /\ UpTo(n + 1) = Append(u, k)
      BY <2>1
    <3> HIDE DEF u, k
    <3>2. Filter(Append(u, k), X) = IF k \in X THEN Append(Filter(u, X), k) ELSE Filter(u, X)
      BY <3>1, FilterAppend
    <3>. QED
      BY <3>1, <3>2 DEF u, k
  <2>3. CASE n + 1 \notin X
    <3>1. Elements(s) = X \cap (1..n)
      BY <2>3
    <3>. QED
      BY <1>2, <2>2, <2>3, <3>1
  <2>4. CASE n + 1 \in X
    <3>1. PICK k \in 1..Len(s) : s[k] = n + 1
      BY <2>4 DEF Elements
    <3>2. k = Len(s)
      <4> SUFFICES ASSUME k # Len(s) PROVE FALSE
        OBVIOUS
      <4>1. k + 1 \in 1..Len(s) /\ s[k] < s[k + 1]
        BY DEF Ascends
      <4>2. s[k + 1] \in 1..n + 1
        BY <4>1 DEF Elements
      <4>. QED
        BY <3>1, <4>1, <4>2
    <3> DEFINE m == Len(s) - 1
               t == SubSeq(s, 1, m)
    <3>3. /\ m \in Nat /\ t \in Seq(Nat) /\ Len(t) = m /\ \A i \in 1..m : t[i] = s[i]
          /\ s = Append(t, n + 1)
      BY <3>1, <3>2
    <3>4. Len(s) = m + 1
      BY <3>3
    <3> HIDE DEF m, t
    <3>5. Ascends(t)
      <4> SUFFICES ASSUME NEW i \in 1..m, NEW j \in 1..m, i < j PROVE t[i] < t[j]
        BY <3>3 DEF Ascends
      <4>1. i \in 1..Len(s) /\ j \in 1..Len(s)
        BY <3>3, <3>4
      <4>2. s[i] < s[j]
        BY <4>1 DEF Ascends
      <4>. QED
        BY <3>3, <4>2
    <3>6. \A i \in 1..m : s[i] < n + 1
      BY SMTT(30), <3>1, <3>2, <3>3, <3>4 DEF Ascends
    <3>7. Elements(t) = X \cap (1..n)
      <4>1. ASSUME NEW i \in 1..m PROVE t[i] \in X \cap (1..n)
        <5>1. s[i] \in X \cap (1..n + 1)
          BY <3>3, <3>4 DEF Elements
        <5>. QED
          BY <5>1, <3>3, <3>6
      <4>2. ASSUME NEW x \in X \cap (1..n) PROVE x \in Elements(t)
        <5>1. PICK i \in 1..Len(s) : s[i] = x
          BY <4>2 DEF Elements
        <5>2. i \in 1..m
          BY <3>1, <3>2, <3>3, <3>4, <5>1
        <5>. QED
          BY <3>3, <5>1, <5>2 DEF Elements
      <4>. QED
        BY <3>3, <4>1, <4>2 DEF Elements
    <3>8. t = Filter(UpTo(n), X)
      BY <1>2, <3>3, <3>5, <3>7
    <3>. QED
      BY <2>2, <2>4, <3>3, <3>8
  <2>. QED
    BY <2>3, <2>4
<1>3. Nat \subseteq P
  <2> HIDE DEF P
  <2>. QED
    BY <1>1, <1>2, Induct
<1>. QED
  BY <1>3

(* What a move of the caller or of a writer sends.                           *)
SendsOn ==
    /\ UNCHANGED <<wState, wSunk, wLine, refused>>
    /\ \/ UNCHANGED <<cmds, length>>
       \/ length' = length /\ \E c \in Names \ Chunks : cmds' = Append(cmds, c)
       \/ \E n \in Lengths : SendsChunk(n)

(* Every move that sends, sends like this.                                   *)
LEMMA MovesSend ==
    ASSUME Parts, (CallerMove /\ UNCHANGED taskVars) \/ WriterMove
    PROVE  SendsOn
<1>0. {CloseCmd, FlushCmd, ReadyCmd, WritersClose, ReadCmd} \subseteq Names \ Chunks
  <2>1. MaxSent \in Nat
    BY PlanFacts DEF Parts
  <2>. QED
    BY <2>1 DEF Names, Chunks, CloseCmd, FlushCmd, ReadyCmd, WritersClose, ReadCmd
<1>1. UNCHANGED <<wState, wSunk, wLine, refused>>
  BY DEF WriterMove, taskVars, writableVars
<1>2. CASE WriterMove
  <2>1. (length' = length /\ cmds' = Append(cmds, WritersClose)) \/ \E n \in Lengths : SendsChunk(n)
    BY <1>2 DEF WriterMove
  <2>. QED
    BY <2>1, <1>0, <1>1 DEF SendsOn
<1>3. CASE Waits \/ Turns \/ (\E m \in Slots : Gets(m))
  <2>1. length' = length /\ (cmds' = cmds \/ cmds' = Append(cmds, ReadyCmd))
    BY <1>3 DEF Waits, Turns, Gets, sentVars
  <2>. QED
    BY <2>1, <1>0, <1>1 DEF SendsOn
<1>4. CASE AsksFlush \/ AsksClose \/ AsksNext
  <2>1. length' = length /\ \E c \in {FlushCmd, CloseCmd, ReadCmd} : cmds' = Append(cmds, c)
    BY <1>4 DEF AsksFlush, AsksClose, AsksNext
  <2>. QED
    BY <2>1, <1>0, <1>1 DEF SendsOn
<1>5. CASE SendsOne \/ AsksWrite
  <2>1. \E n \in Lengths : SendsChunk(n)
    BY <1>5 DEF SendsOne, AsksWrite
  <2>. QED
    BY <2>1, <1>1 DEF SendsOn
<1>. QED
  BY <1>2, <1>3, <1>4, <1>5 DEF CallerMove

(* A sequence over a set is one over every larger set.                       *)
LEMMA SeqWiden == ASSUME NEW S, NEW T, S \subseteq T, NEW s \in Seq(S) PROVE s \in Seq(T)
  OBVIOUS

(* What is put after one another are sequences again,                        *)
LEMMA IntJoins ==
    /\ \A s, t \in Seq(Int) : \A x \in Int : Append(s, x) \o t = s \o (<<x>> \o t)
    /\ \A s, t \in Seq(Int) : \A x \in Int : s \o Append(t, x) = Append(s \o t, x)
    /\ \A p, q, r \in Seq(Int) : q # <<>> => Append(p, Head(q)) \o (Tail(q) \o r) = p \o (q \o r)
    /\ \A p, q, r \in Seq(Int) : p \o q \o r = p \o (q \o r)
<1>1. \A s, t \in Seq(Int) : \A x \in Int : Append(s, x) \o t = s \o (<<x>> \o t)
  BY Joint
<1>2. \A s, t \in Seq(Int) : \A x \in Int : s \o Append(t, x) = Append(s \o t, x)
  BY Joining
<1>3. \A p, q, r \in Seq(Int) : q # <<>> => Append(p, Head(q)) \o (Tail(q) \o r) = p \o (q \o r)
  <2> DEFINE I == Int
  <2>1. \A p, q, r \in Seq(I) : q # <<>> => Append(p, Head(q)) \o (Tail(q) \o r) = p \o (q \o r)
    <3> HIDE DEF I
    <3>. QED
      BY Passing
  <2>. QED
    BY <2>1
<1>4. \A p, q, r \in Seq(Int) : p \o q \o r = p \o (q \o r)
  OBVIOUS
<1>. QED
  BY <1>1, <1>2, <1>3, <1>4

(* and so is what is kept of one.                                            *)
LEMMA IntFilters ==
    ASSUME NEW S
    PROVE  /\ \A s \in Seq(Int) : \A x \in Int : Filter(Append(s, x), S) = IF x \in S THEN Append(Filter(s, S), x) ELSE Filter(s, S)
           /\ \A s \in Seq(Int) : s # <<>> => Filter(s, S) = IF Head(s) \in S THEN <<Head(s)>> \o Filter(Tail(s), S) ELSE Filter(Tail(s), S)
           /\ \A s \in Seq(Int) : Filter(s, S) \in Seq(Int)
<1>1. \A s \in Seq(Int) : \A x \in Int : Filter(Append(s, x), S) = IF x \in S THEN Append(Filter(s, S), x) ELSE Filter(s, S)
  BY FilterAppend
<1>2. \A s \in Seq(Int) : s # <<>> => Filter(s, S) = IF Head(s) \in S THEN <<Head(s)>> \o Filter(Tail(s), S) ELSE Filter(Tail(s), S)
  BY FilterTail
<1>3. \A s \in Seq(Int) : Filter(s, S) \in Seq(Int)
  BY FilterType
<1>. QED
  BY <1>1, <1>2, <1>3

(* The parts of the line.                                                    *)
LEMMA LineTypes ==
    ASSUME Parts
    PROVE  /\ MaxSent \in Nat /\ Names \subseteq Int /\ Chunks \subseteq Int
           /\ wSunk \in Seq(Int) /\ wLine \in Seq(Int) /\ cmds \in Seq(Int) /\ Sent \in Nat
           /\ Filter(cmds, Chunks) \in Seq(Int) /\ Line \in Seq(Int)
<1>1. MaxSent \in Nat /\ WOK /\ SentOK
  BY PlanFacts DEF Parts
<1>2. Names \subseteq Int /\ Chunks \subseteq Int
  BY <1>1 DEF Names, Chunks, CloseCmd, FlushCmd, ReadyCmd, WritersClose, ReadCmd
<1>3. wSunk \in Seq(Int) /\ wLine \in Seq(Int) /\ cmds \in Seq(Int) /\ Sent \in Nat
  <2>1. wSunk \in Seq(Chunks) /\ wLine \in Seq(Chunks) /\ cmds \in Seq(Names) /\ length \in Seq(Lengths)
    BY <1>1 DEF WOK, SentOK
  <2>2. wSunk \in Seq(Int)
    BY <2>1, <1>2, SeqWiden
  <2>3. wLine \in Seq(Int)
    BY <2>1, <1>2, SeqWiden
  <2>4. cmds \in Seq(Int)
    BY <2>1, <1>2, SeqWiden
  <2>5. Sent \in Nat
    BY <2>1 DEF Sent
  <2>. QED
    BY <2>2, <2>3, <2>4, <2>5
<1>4. Filter(cmds, Chunks) \in Seq(Int)
  BY <1>3, FilterType
<1>. QED
  BY <1>1, <1>2, <1>3, <1>4 DEF Line

(* A chunk that is sent comes last.                                          *)
LEMMA LineGrows ==
    ASSUME Parts, Parts', LineInv, SendsOn
    PROVE  LineInv'
<1>0. SUFFICES ASSUME wState # "errored"
               PROVE  refused \subseteq 1..Sent' /\ Ascends(Line') /\ Elements(Line') = 1..Sent' \ refused
  BY DEF SendsOn, LineInv
<1>1. refused \subseteq 1..Sent /\ Ascends(Line) /\ Elements(Line) = 1..Sent \ refused
  BY <1>0 DEF LineInv
<1>2. Line' = wSunk \o wLine \o Filter(cmds', Chunks)
  BY DEF SendsOn, Line
<1>3. CASE UNCHANGED <<cmds, length>>
  BY <1>1, <1>2, <1>3 DEF Line, Sent
<1>4. CASE length' = length /\ \E c \in Names \ Chunks : cmds' = Append(cmds, c)
  <2>1. PICK c \in Names \ Chunks : cmds' = Append(cmds, c)
    BY <1>4
  <2>2. Filter(cmds', Chunks) = Filter(cmds, Chunks)
    BY <2>1, LineTypes, IntFilters
  <2>. QED
    BY <1>1, <1>2, <1>4, <2>2 DEF Line, Sent
<1>5. CASE \E n \in Lengths : SendsChunk(n)
  <2>1. PICK n \in Lengths : SendsChunk(n)
    BY <1>5
  <2>2. cmds' = Append(cmds, Sent + 1) /\ Sent' = Sent + 1
    BY <2>1 DEF SendsChunk, Sends, Sent, Parts, SentOK
  <2>3. Sent + 1 \in Chunks /\ Sent + 1 \in Int
    BY <2>2, LineTypes DEF Parts, SentOK, Chunks
  <2> DEFINE f == Filter(cmds, Chunks)
             g == wSunk \o wLine
             x == Sent + 1
  <2>4. Filter(cmds', Chunks) = Append(f, x)
    BY <2>2, <2>3, LineTypes, IntFilters
  <2>5. g \in Seq(Int) /\ f \in Seq(Int) /\ x \in Int /\ Line = g \o f
    BY <2>3, LineTypes DEF Line
  <2>6. Line' = g \o Append(f, x)
    BY <1>2, <2>4
  <2> HIDE DEF f, g, x
  <2>7. Line' = Append(Line, x)
    BY <2>5, <2>6, IntJoins
  <2>8. Ascends(Line') /\ Elements(Line') = Elements(Line) \cup {Sent + 1}
    <3>1. Elements(Line) \subseteq 1..Sent
      BY <1>1
    <3>. QED
      BY <2>7, <3>1, <1>1, LineTypes, AscendsOn DEF x
  <2>9. 1..Sent + 1 = (1..Sent) \cup {Sent + 1} /\ Sent + 1 \notin 1..Sent
    BY LineTypes
  <2>. QED
    BY <1>1, <2>2, <2>8, <2>9
<1>. QED
  BY <1>3, <1>4, <1>5 DEF SendsOn

(* The task passes the chunks on in their order, or takes one out.           *)
LEMMA TaskKeepsLine ==
    ASSUME Parts, EndInv, LineInv, TaskMove
    PROVE  LineInv'
<1>0. Sent' = Sent
  BY DEF TaskMove, Sent
<1>1. ASSUME Line' = Line, refused' = refused, wState' # "errored" => wState # "errored" PROVE LineInv'
  BY <1>0, <1>1 DEF LineInv
<1> DEFINE f == Filter(cmds, Chunks)
           h == Filter(Tail(cmds), Chunks)
<1>2. /\ f \in Seq(Int) /\ wSunk \in Seq(Int) /\ wLine \in Seq(Int) /\ cmds \in Seq(Int) /\ Line = wSunk \o wLine \o f
      /\ Chunks \subseteq Int
  BY LineTypes DEF Line
<1>22. Chunks \subseteq Int /\ \A c \in Chunks : c \in Int
  BY <1>2
<1>3. ASSUME NEW c, Took(c)
      PROVE  /\ h \in Seq(Int) /\ Filter(cmds', Chunks) = h /\ f = IF c \in Chunks THEN <<c>> \o h ELSE h
  <2>1. cmds # <<>> /\ Head(cmds) = c /\ cmds' = Tail(cmds) /\ Tail(cmds) \in Seq(Int)
    BY <1>3, <1>2 DEF Took
  <2>. QED
    BY <2>1, <1>2, IntFilters
<1> HIDE DEF f, h
<1>4. ASSUME NEW c \in Chunks, Accepts(c) PROVE LineInv'
  <2>1. Took(c) /\ wSunk' = wSunk /\ wLine' = Append(wLine, c) /\ wState' = wState /\ refused' = refused
    BY <1>4 DEF Accepts, W!Accept
  <2>2. Line' = wSunk \o Append(wLine, c) \o h
    BY <2>1, <1>3 DEF Line
  <2>3. wSunk \o Append(wLine, c) = Append(wSunk \o wLine, c)
    <3>1. c \in Int /\ wSunk \in Seq(Int) /\ wLine \in Seq(Int)
      BY <1>2, <1>22
    <3>2. \A s, t \in Seq(Int) : \A x \in Int : s \o Append(t, x) = Append(s \o t, x)
      BY IntJoins
    <3>. QED
      BY <3>1, <3>2
  <2>4. Append(wSunk \o wLine, c) \o h = (wSunk \o wLine) \o (<<c>> \o h)
    <3>1. wSunk \o wLine \in Seq(Int) /\ c \in Int
      BY <1>2
    <3>. QED
      BY <3>1, <2>1, <1>3, IntJoins
  <2>5. Line' = Line
    BY <2>1, <2>2, <2>3, <2>4, <1>2, <1>3
  <2>. QED
    BY <2>1, <2>5, <1>1
<1>5. ASSUME NEW c \in Chunks, Refuses(c) PROVE LineInv'
  <2>1. Took(c) /\ wSunk' = wSunk /\ wLine' = wLine /\ wState' = wState /\ refused' = refused \cup {c}
    BY <1>5 DEF Refuses, SameStream
  <2>2. SUFFICES ASSUME wState # "errored"
                 PROVE  refused' \subseteq 1..Sent /\ Ascends(Line') /\ Elements(Line') = 1..Sent \ refused'
    BY <2>1, <1>0 DEF LineInv
  <2> DEFINE g == wSunk \o wLine
  <2>3. g \in Seq(Int) /\ c \in Int /\ h \in Seq(Int) /\ Line = g \o (<<c>> \o h) /\ Line' = g \o h
    <3>1. Line' = g \o h
      BY <2>1, <1>3 DEF Line
    <3>2. h \in Seq(Int) /\ f = <<c>> \o h
      BY <2>1, <1>3
    <3>3. Line = g \o f /\ g \in Seq(Int) /\ c \in Int
      BY <1>2, <1>22
    <3>. QED
      BY <3>1, <3>2, <3>3
  <2>4. refused \subseteq 1..Sent /\ Ascends(Line) /\ Elements(Line) = 1..Sent \ refused
    BY <2>2 DEF LineInv
  <2> HIDE DEF g
  <2>5. Ascends(Line') /\ Elements(Line') = Elements(Line) \ {c}
    BY <2>3, <2>4, AscendsWithout
  <2>6. c \in Elements(Line)
    <3>1. Len(g) + 1 \in 1..Len(g \o (<<c>> \o h)) /\ (g \o (<<c>> \o h))[Len(g) + 1] = c
      BY <2>3
    <3>. QED
      BY <3>1, <2>3 DEF Elements
  <2>. QED
    BY <2>1, <2>4, <2>5, <2>6
<1>6. CASE Passes \/ Flushes
  <2>1. PICK c \in {ReadyCmd, CloseCmd, WritersClose, ReadCmd, FlushCmd} : Took(c)
    BY <1>6 DEF Passes, Flushes
  <2>2. wSunk' = wSunk /\ wLine' = wLine /\ wState' = wState /\ refused' = refused
    BY <1>6 DEF Passes, Flushes, SameStream
  <2>3. c \notin Chunks
    BY LineTypes DEF Chunks, CloseCmd, FlushCmd, ReadyCmd, WritersClose, ReadCmd
  <2>4. Line' = Line
    BY <2>1, <2>2, <2>3, <1>2, <1>3 DEF Line
  <2>. QED
    BY <2>2, <2>4, <1>1
<1>7. CASE Rests \/ EndsWrite
  <2>1. UNCHANGED <<cmds, refused, wState, wLine, wSunk>>
    BY <1>7 DEF Rests, EndsWrite, W!EndWrite
  <2>. QED
    BY <2>1, <1>1 DEF Line
<1>8. CASE StartsWrite
  <2>1. /\ UNCHANGED <<cmds, refused, wState>> /\ wLine # <<>>
        /\ wLine' = Tail(wLine) /\ wSunk' = Append(wSunk, Head(wLine))
    BY <1>8 DEF StartsWrite, W!BeginWrite
  <2>2. Line' = Append(wSunk, Head(wLine)) \o Tail(wLine) \o f
    BY <2>1 DEF Line, f
  <2> DEFINE s == Append(wSunk, Head(wLine))
             t == Tail(wLine)
  <2>3. s \in Seq(Int) /\ t \in Seq(Int)
    BY <2>1, <1>2
  <2>4. s \o (t \o f) = wSunk \o (wLine \o f)
    BY ZenonT(30), <2>1, <1>2, IntJoins
  <2>5. Line = wSunk \o (wLine \o f)
    BY ZenonT(30), <1>2, IntJoins
  <2>6. (s \o t) \o f = s \o (t \o f)
    <3> HIDE DEF s, t
    <3>1. f \in Seq(Int) /\ \A p, q, r \in Seq(Int) : p \o q \o r = p \o (q \o r)
      BY <1>2, IntJoins
    <3>. QED
      BY <2>3, <3>1
  <2>. QED
    BY <2>1, <2>2, <2>4, <2>5, <2>6, <1>1
<1>9. CASE FailsWrite
  BY <1>9 DEF FailsWrite, LineInv
<1>10. CASE EndsClose
  <2>1. UNCHANGED <<cmds, refused, wSunk>> /\ wLine' = <<>> /\ wState = "writable" /\ wLine = <<>>
    BY <1>10 DEF EndsClose, EndInv
  <2>. QED
    BY <2>1, <1>1 DEF Line
<1>. QED
  BY <1>4, <1>5, <1>6, <1>7, <1>8, <1>9, <1>10 DEF TaskMove

(* What has landed stays so, and what is done.                               *)
LEMMA TaskKeepsDone ==
    ASSUME Parts, TaskMove, NEW c
    PROVE  /\ Lands(wSunk, wBusy, c) => Lands(wSunk', wBusy', c)
           /\ Over(wSunk, wBusy, refused, c) => Over(wSunk', wBusy', refused', c)
<1> DEFINE Keeps(x) == /\ Lands(wSunk, wBusy, x) => Lands(wSunk', wBusy', x)
                       /\ Over(wSunk, wBusy, refused, x) => Over(wSunk', wBusy', refused', x)
<1>1. refused \subseteq refused'
  BY DEF TaskMove, Accepts, Refuses, Passes, Flushes, Rests, StartsWrite, EndsWrite, FailsWrite, EndsClose
<1>2. CASE wSunk' = wSunk /\ (wBusy' = wBusy \/ wBusy' # "write")
  BY <1>1, <1>2 DEF Lands, Over
<1>3. CASE StartsWrite
  <2>1. wSunk \in Seq(Chunks)
    BY DEF Parts, WOK
  <2>2. wLine # <<>> /\ wSunk' = Append(wSunk, Head(wLine))
    BY <1>3 DEF StartsWrite, W!BeginWrite
  <2>3. Len(wSunk') = Len(wSunk) + 1 /\ Len(wSunk) \in Nat /\ \A k \in 1..Len(wSunk) : wSunk'[k] = wSunk[k]
    <3>1. Head(wLine) \in Chunks
      BY <2>2 DEF Parts, WOK
    <3>. QED
      BY <2>1, <2>2, <3>1
  <2>4. ASSUME Lands(wSunk, wBusy, c) PROVE Lands(wSunk', wBusy', c)
    <3>1. PICK k \in 1..Len(wSunk) : wSunk[k] = c
      BY <2>4 DEF Lands
    <3>2. k \in 1..Len(wSunk') /\ wSunk'[k] = c /\ k < Len(wSunk')
      BY <2>3, <3>1
    <3>. QED
      BY <3>2 DEF Lands
  <2>. QED
    BY <1>1, <2>4 DEF Over
<1>4. CASE Rests \/ EndsWrite
  BY <1>2, <1>4 DEF Rests, EndsWrite, W!EndWrite, W!None
<1>5. CASE Passes \/ Flushes
  BY <1>2, <1>5 DEF Passes, Flushes, SameStream
<1>6. CASE FailsWrite \/ EndsClose
  BY <1>2, <1>6 DEF FailsWrite, EndsClose, None
<1>7. ASSUME NEW y \in Chunks, Accepts(y) \/ Refuses(y) PROVE Keeps(c)
  BY <1>2, <1>7 DEF Accepts, Refuses, W!Accept, SameStream
<1>. QED
  BY <1>3, <1>4, <1>5, <1>6, <1>7 DEF TaskMove

(* Nor does a send undo it.                                                  *)
LEMMA SendKeepsDone ==
    ASSUME (CallerMove /\ UNCHANGED taskVars) \/ WriterMove, NEW c
    PROVE  Lands(wSunk', wBusy', c) = Lands(wSunk, wBusy, c) /\ Over(wSunk', wBusy', refused', c) = Over(wSunk, wBusy, refused, c)
<1>1. UNCHANGED <<wSunk, wBusy, refused>>
  BY DEF WriterMove, taskVars, writableVars
<1>. QED
  BY <1>1 DEF Lands, Over

(* The chunk whose write is over has landed.                                 *)
LEMMA EndLands ==
    ASSUME Parts, EndInv, wBusy = "write", wBusy' = None, wSunk' = wSunk
    PROVE  Lands(wSunk', wBusy', UnderWay)
<1>1. wSunk # <<>> /\ wSunk \in Seq(Chunks)
  BY DEF EndInv, Parts, WOK
<1>2. Len(wSunk) \in 1..Len(wSunk)
  BY <1>1
<1>3. UnderWay = wSunk[Len(wSunk)]
  BY DEF UnderWay
<1>. QED
  BY <1>2, <1>3 DEF Lands, None

-----------------------------------------------------------------------------
(* The writes                                                               *)

(* The answer to a write is for the chunk kept with it: a send keeps that.   *)
LEMMA SendKeepsWrite ==
    ASSUME Parts, Parts', WriteInv, (CallerMove /\ UNCHANGED taskVars) \/ WriterMove
    PROVE  WriteInv'
<1>0. /\ slots \in [Slots -> Answerable] /\ Slots = {"write", "flush", "close", "next"} /\ Sent \in Nat
      /\ length \in Seq(Lengths) /\ "waiting" # Empty
  BY DEF Parts, SlotOK, Slots, SentOK, Sent, Empty
<1>1. Sent' \in Nat /\ Sent <= Sent' /\ \A c \in 1..Sent : length'[c] = length[c]
  <2>1. CASE UNCHANGED length
    BY <2>1, <1>0 DEF Sent
  <2>2. CASE \E n \in Lengths : length' = Append(length, n)
    BY <2>2, <1>0 DEF Sent
  <2>. QED
    BY <2>1, <2>2, MovesSend DEF SendsOn, SendsChunk
<1>2. ASSUME NEW c \in 1..Sent, NEW n, n = length[c] PROVE c \in 1..Sent' /\ n = length'[c]
  BY <1>0, <1>1, <1>2
<1>3. ASSUME slots'["write"] # Empty => slots'["write"] = slots["write"] /\ writing' = writing,
             answer' = answer \/ ~(answer'.method = "write" /\ answer'.res = "ok")
      PROVE  WriteInv'
  <2>0. \A c : Lands(wSunk, wBusy, c) => Lands(wSunk', wBusy', c)
    BY SendKeepsDone
  <2>1. slots'["write"] # Empty => writing'.chunk \in 1..Sent' /\ writing'.len = length'[writing'.chunk]
    BY <1>2, <1>3 DEF WriteInv
  <2>2. slots'["write"] = "ok" => Lands(wSunk', wBusy', writing'.chunk)
    BY <1>3, <2>0 DEF WriteInv, Empty
  <2>4. answer'.method = "write" /\ answer'.res = "ok" =>
             answer'.upto \in 1..Sent' /\ answer'.len = length'[answer'.upto] /\ Lands(wSunk', wBusy', answer'.upto)
    BY <1>2, <1>3, <2>0 DEF WriteInv
  <2>. QED
    BY <2>1, <2>2, <2>4 DEF WriteInv
<1>4. ASSUME NEW m, NEW res, NEW upto, NEW len, Told(m, res, upto, len)
      PROVE  answer'.method = m /\ answer'.res = res /\ answer'.upto = upto /\ answer'.len = len
  BY <1>4 DEF Told
<1>5. CASE Waits
  BY <1>3, <1>5 DEF Waits, slotVars
<1>6. CASE WriterMove
  BY <1>3, <1>6 DEF WriterMove, slotVars, callerVars
<1>7. CASE Turns \/ SendsOne
  <2>1. UNCHANGED slotVars /\ \E m, res : Told(m, res, 0, 0) /\ (res = "ok" => m # "write")
    BY <1>7 DEF Turns, SendsOne
  <2>. QED
    BY <2>1, <1>3, <1>4 DEF slotVars
<1>8. CASE AsksFlush \/ AsksClose \/ AsksNext
  <2>1. UNCHANGED <<answer, writing>> /\ slots'["write"] = slots["write"]
    BY <1>8, <1>0 DEF AsksFlush, AsksClose, AsksNext, Fills
  <2>. QED
    BY <2>1, <1>3
<1>9. CASE AsksWrite
  <2>1. PICK n \in Lengths : SendsChunk(n) /\ writing' = [chunk |-> Sent + 1, len |-> n]
    BY <1>9 DEF AsksWrite
  <2>2. length' = Append(length, n) /\ Sent' = Sent + 1 /\ length'[Sent + 1] = n
    BY <2>1, <1>0 DEF SendsChunk, Sent
  <2>3. writing'.chunk = Sent + 1 /\ writing'.len = n /\ slots'["write"] = "waiting" /\ answer' = answer
    BY <2>1, <1>9, <1>0 DEF AsksWrite, Fills
  <2>4. writing'.chunk \in 1..Sent' /\ writing'.len = length'[writing'.chunk]
    <3>1. Sent + 1 \in 1..Sent + 1 /\ length'[Sent + 1] = n
      BY <2>2, <1>0
    <3>. QED
      BY <3>1, <2>2, <2>3
  <2>. QED
    BY <2>3, <2>4, <1>2, SendKeepsDone DEF WriteInv
<1>10. ASSUME NEW m \in Slots, Gets(m) PROVE WriteInv'
  <2>1. slots'["write"] = (IF m = "write" THEN Empty ELSE slots["write"]) /\ writing' = writing /\ length' = length
        /\ slots[m] # Empty
    BY <1>10, <1>0 DEF Gets, sentVars, Empty
  <2>2. CASE m # "write"
    <3>1. answer'.method # "write"
      BY <2>2, <1>4, <1>10 DEF Gets
    <3>. QED
      BY <2>1, <2>2, <3>1, <1>3
  <2>3. CASE m = "write"
    <3>1. answer'.res = slots["write"] /\ answer'.upto = writing.chunk /\ answer'.len = writing.len
      BY <2>3, <1>4, <1>10 DEF Gets
    <3>2. /\ writing.chunk \in 1..Sent' /\ writing.len = length'[writing.chunk]
          /\ slots["write"] = "ok" => Lands(wSunk', wBusy', writing.chunk)
      BY <2>1, <2>3, <1>2, SendKeepsDone DEF WriteInv
    <3>. QED
      BY <2>1, <2>3, <3>1, <3>2 DEF WriteInv, Empty
  <2>. QED
    BY <2>2, <2>3
<1>. QED
  BY <1>5, <1>6, <1>7, <1>8, <1>9, <1>10 DEF CallerMove

(* The task settles it when that chunk has landed.                           *)
LEMMA TaskKeepsWrite ==
    ASSUME Parts, EndInv, WriteInv, TaskMove
    PROVE  WriteInv'
<1>0. /\ slots \in [Slots -> Answerable] /\ Slots = {"write", "flush", "close", "next"}
      /\ UNCHANGED <<length, answer, writing>> /\ Sent' = Sent
  BY DEF Parts, SlotOK, Slots, TaskMove, callerVars, Sent
<1>1. ASSUME slots'["write"] # Empty => slots["write"] # Empty,
             slots'["write"] = "ok" => slots["write"] = "ok" \/ Lands(wSunk', wBusy', writing.chunk)
      PROVE  WriteInv'
  BY <1>0, <1>1, TaskKeepsDone DEF WriteInv
<1>2. ASSUME SameWrite PROVE WriteInv'
  BY <1>1, <1>2 DEF SameWrite
<1>3. ASSUME NEW c \in Chunks, Accepts(c) \/ Refuses(c) PROVE WriteInv'
  <2>1. slots' = slots \/ (slots["write"] = "waiting" /\ slots'["write"] = "err")
    BY <1>3, <1>0 DEF Accepts, Refuses, AnswersIn
  <2>. QED
    BY <2>1, <1>1 DEF Empty
<1>4. CASE Passes \/ Rests \/ EndsClose
  BY <1>2, <1>4 DEF Passes, Rests, EndsClose
<1>5. CASE StartsWrite
  BY <1>2, <1>5 DEF StartsWrite, SameWrite
<1>6. CASE Flushes
  <2>1. slots'["write"] = slots["write"]
    BY <1>6, <1>0 DEF Flushes, Give
  <2>. QED
    BY <2>1, <1>2 DEF SameWrite
<1>7. CASE EndsWrite
  <2>1. wBusy = "write" /\ wBusy' = None /\ wSunk' = wSunk
    BY <1>7 DEF EndsWrite, W!EndWrite, W!None, None
  <2>2. Lands(wSunk', wBusy', UnderWay)
    BY <2>1, EndLands
  <2>3. CASE SlotHas(UnderWay)
    <3>1. writing.chunk = UnderWay /\ slots["write"] = "waiting"
      BY <2>3 DEF SlotHas
    <3>2. Lands(wSunk', wBusy', writing.chunk)
      BY <2>2, <3>1
    <3>. QED
      BY <1>1, <3>1, <3>2 DEF Empty
  <2>4. CASE ~SlotHas(UnderWay)
    BY <1>2, <1>7, <2>4 DEF EndsWrite, SameWrite
  <2>. QED
    BY <2>3, <2>4
<1>8. CASE FailsWrite
  <2>1. slots'["write"] \in {slots["write"], "err"} /\ (slots["write"] = Empty => slots'["write"] = Empty)
    BY <1>8 DEF FailsWrite
  <2>. QED
    BY <2>1, <1>1
<1>. QED
  BY <1>3, <1>4, <1>5, <1>6, <1>7, <1>8 DEF TaskMove

(* The channel around a flush.                                               *)
LEMMA ElementsAppend ==
    ASSUME NEW q \in Seq(Int), NEW x \in Int
    PROVE  Elements(Append(q, x)) = Elements(q) \cup {x}
<1>1. Len(Append(q, x)) = Len(q) + 1 /\ Len(q) \in Nat
  OBVIOUS
<1>2. Append(q, x)[Len(q) + 1] = x /\ \A k \in 1..Len(q) : Append(q, x)[k] = q[k]
  OBVIOUS
<1> DEFINE s == Append(q, x)
<1>3. Len(s) = Len(q) + 1 /\ s[Len(q) + 1] = x /\ \A k \in 1..Len(q) : s[k] = q[k]
  BY <1>1, <1>2
<1> HIDE DEF s
<1>4. ASSUME NEW k \in 1..Len(s) PROVE s[k] \in Elements(q) \cup {x}
  BY <1>1, <1>3 DEF Elements
<1>5. ASSUME NEW k \in 1..Len(q) PROVE q[k] \in Elements(s)
  <2>1. k \in 1..Len(s) /\ s[k] = q[k]
    BY <1>1, <1>3
  <2>. QED
    BY <2>1 DEF Elements
<1>6. x \in Elements(s)
  <2>1. Len(q) + 1 \in 1..Len(s)
    BY <1>1, <1>3
  <2>. QED
    BY <2>1, <1>3 DEF Elements
<1>7. Elements(s) = Elements(q) \cup {x}
  BY <1>4, <1>5, <1>6 DEF Elements
<1>. QED
  BY <1>7 DEF s

(* A channel without a flush has no chunk behind one.                        *)
LEMMA ApartNone == \A q, n : FlushCmd \notin Elements(q) => Apart(q, n)
  BY DEF Apart, Elements

(* What is sent after a flush is a chunk after those it covers.              *)
LEMMA ApartAppend ==
    ASSUME NEW q \in Seq(Int), NEW n, NEW x \in Int, Apart(q, n),
           FlushCmd \in Elements(q) => x # FlushCmd /\ (x \in Chunks => n < x)
    PROVE  Apart(Append(q, x), n)
<1> DEFINE s == Append(q, x)
<1>1. Len(q) \in Nat /\ Len(s) = Len(q) + 1 /\ s[Len(q) + 1] = x /\ \A k \in 1..Len(q) : s[k] = q[k]
  OBVIOUS
<1> HIDE DEF s
<1>2. SUFFICES ASSUME NEW j \in 1..Len(s), s[j] = FlushCmd, NEW k \in 1..Len(s), j < k
               PROVE  s[k] # FlushCmd /\ (s[k] \in Chunks => n < s[k])
  BY DEF Apart, s
<1>3. j \in 1..Len(q) /\ q[j] = FlushCmd
  BY <1>1, <1>2
<1>4. CASE k = Len(q) + 1
  BY <1>1, <1>3, <1>4 DEF Elements
<1>5. CASE k # Len(q) + 1
  <2>1. k \in 1..Len(q) /\ s[k] = q[k]
    BY <1>1, <1>5
  <2>. QED
    BY <2>1, <1>2, <1>3 DEF Apart
<1>. QED
  BY <1>4, <1>5

(* Nor does the head matter that is taken off.                               *)
LEMMA ApartTail ==
    ASSUME NEW q \in Seq(Int), NEW n, q # <<>>, Apart(q, n)
    PROVE  /\ Apart(Tail(q), n)
           /\ Elements(Tail(q)) \subseteq Elements(q)
           /\ Head(q) = FlushCmd => FlushCmd \notin Elements(Tail(q))
                                    /\ \A x \in Elements(Tail(q)) : x \in Chunks => n < x
<1> DEFINE t == Tail(q)
<1>1. Len(q) \in Nat /\ Head(q) = q[1] /\ 1 \in 1..Len(q) /\ \A k \in 1..Len(t) : k + 1 \in 1..Len(q) /\ t[k] = q[k + 1]
  BY OffTheFront
<1>2. Len(t) \in Nat
  OBVIOUS
<1> HIDE DEF t
<1>3. Apart(t, n)
  <2>1. SUFFICES ASSUME NEW j \in 1..Len(t), t[j] = FlushCmd, NEW k \in 1..Len(t), j < k
                 PROVE  t[k] # FlushCmd /\ (t[k] \in Chunks => n < t[k])
    BY DEF Apart
  <2>2. j + 1 \in 1..Len(q) /\ k + 1 \in 1..Len(q) /\ j + 1 < k + 1 /\ q[j + 1] = FlushCmd /\ q[k + 1] = t[k]
    BY SMTT(30), <1>1, <1>2, <2>1
  <2>. QED
    BY <2>2 DEF Apart
<1>4. Elements(t) \subseteq Elements(q)
  BY <1>1 DEF Elements
<1>5. ASSUME Head(q) = FlushCmd, NEW x \in Elements(t) PROVE x # FlushCmd /\ (x \in Chunks => n < x)
  <2>1. PICK k \in 1..Len(t) : t[k] = x
    BY <1>5 DEF Elements
  <2>2. k + 1 \in 1..Len(q) /\ 1 < k + 1 /\ q[k + 1] = x /\ q[1] = FlushCmd
    BY <1>1, <1>2, <1>5, <2>1
  <2>. QED
    BY <2>2, <1>1 DEF Apart
<1>. QED
  BY <1>3, <1>4, <1>5 DEF t

(* What is kept of a sequence was in it.                                     *)
LEMMA FilterWithin ==
    ASSUME NEW q \in Seq(Int), NEW S
    PROVE  Elements(Filter(q, S)) \subseteq Elements(q)
<1>1. q \in Seq(Elements(q))
  <2>1. \A k \in 1..Len(q) : q[k] \in Elements(q)
    BY DEF Elements
  <2>. QED
    BY <2>1
<1> DEFINE E == Elements(q)
           f == Filter(q, S)
<1>2. f \in Seq(E)
  BY <1>1, FilterType
<1> HIDE DEF E, f
<1>3. \A k \in 1..Len(f) : f[k] \in E
  BY <1>2
<1>4. Elements(f) \subseteq E
  BY <1>3 DEF Elements
<1>. QED
  BY <1>4 DEF E, f

-----------------------------------------------------------------------------
(* The flush                                                                *)

(* A send behind a flush is none that it covers.                             *)
LEMMA SendKeepsFlush ==
    ASSUME Parts, FlushInv, (CallerMove /\ UNCHANGED taskVars) \/ WriterMove
    PROVE  FlushInv'
<1>0. /\ slots \in [Slots -> Answerable] /\ Slots = {"write", "flush", "close", "next"} /\ Sent \in Nat
      /\ length \in Seq(Lengths) /\ cmds \in Seq(Int) /\ covers \in Nat
  BY LineTypes DEF Parts, SlotOK, Slots, SentOK, Sent
<1>1. /\ UNCHANGED <<wState, wLine, wBusy, wSunk, refused, flushLeft>>
      /\ Ahead' = Ahead /\ Busy' = Busy /\ UnderWay' = UnderWay
  <2>1. UNCHANGED <<wState, wLine, wBusy, wSunk, refused, flushLeft>>
    BY DEF WriterMove, taskVars, writableVars
  <2>. QED
    BY <2>1 DEF Ahead, Busy, UnderWay
<1>2. Sent' \in Nat /\ Sent <= Sent'
  <2>1. CASE UNCHANGED length
    BY <2>1, <1>0 DEF Sent
  <2>2. CASE \E n \in Lengths : length' = Append(length, n)
    BY <2>2, <1>0 DEF Sent
  <2>. QED
    BY <2>1, <2>2, MovesSend DEF SendsOn, SendsChunk
<1>3. FlushCmd \in Int /\ Sent + 1 \in Int
  BY <1>0 DEF FlushCmd
<1>4. ASSUME covers' = covers,
             \/ slots'["flush"] = slots["flush"]
             \/ slots["flush"] # "waiting" /\ slots'["flush"] = Empty,
             \/ cmds' = cmds
             \/ \E x \in Int : cmds' = Append(cmds, x) /\ x # FlushCmd /\ (x \in Chunks => x = Sent + 1),
             \/ answer' = answer
             \/ answer'.method = "flush" /\ answer'.res = "ok" => slots["flush"] = "ok" /\ answer'.upto = covers
      PROVE  FlushInv'
  <2>1. FlushCount'
    BY <1>1, <1>2, <1>0, <1>4 DEF FlushInv, FlushCount
  <2>2. FlushWaits'
    BY <1>1, <1>4 DEF FlushInv, FlushWaits
  <2>3. FlushTrue'
    BY <1>1, <1>4 DEF FlushInv, FlushTrue, Empty
  <2>4. Apart(cmds', covers') /\ (FlushCmd \in Elements(cmds') => FlushCmd \in Elements(cmds))
    <3>1. CASE cmds' = cmds
      BY <3>1, <1>4 DEF FlushInv, FlushAsked
    <3>2. CASE cmds' # cmds
      <4>1. PICK x \in Int : cmds' = Append(cmds, x) /\ x # FlushCmd /\ (x \in Chunks => x = Sent + 1)
        BY <1>4, <3>2
      <4>2. x \in Chunks => covers < x
        BY <4>1, <1>0 DEF FlushInv, FlushCount
      <4>3. Apart(Append(cmds, x), covers)
        BY <4>1, <4>2, <1>0, ApartAppend DEF FlushInv, FlushAsked
      <4>. QED
        BY <4>1, <4>3, <1>0, <1>4, ElementsAppend
    <3>. QED
      BY <3>1, <3>2
  <2>5. FlushAsked'
    BY <2>4, <1>1, <1>4 DEF FlushInv, FlushAsked
  <2>. QED
    BY <2>1, <2>2, <2>3, <2>5 DEF FlushInv
<1>5. ASSUME NEW m, NEW res, NEW upto, NEW len, Told(m, res, upto, len)
      PROVE  answer'.method = m /\ answer'.res = res /\ answer'.upto = upto
  BY <1>5 DEF Told
<1>6. \A x \in {ReadyCmd, CloseCmd, WritersClose, ReadCmd} : x \in Int /\ x # FlushCmd /\ x \notin Chunks
  BY LineTypes DEF ReadyCmd, CloseCmd, WritersClose, ReadCmd, FlushCmd, Chunks
<1>7. ASSUME NEW n \in Lengths, SendsChunk(n)
      PROVE  \E x \in Int : cmds' = Append(cmds, x) /\ x # FlushCmd /\ (x \in Chunks => x = Sent + 1)
  <2>1. cmds' = Append(cmds, Sent + 1) /\ Sent + 1 # FlushCmd
    BY <1>7, <1>0 DEF SendsChunk, Sends, FlushCmd
  <2>. QED
    BY <2>1, <1>3
<1>8. CASE Waits
  <2>1. UNCHANGED <<slots, covers, answer>> /\ (cmds' = cmds \/ cmds' = Append(cmds, ReadyCmd))
    BY <1>8 DEF Waits, slotVars
  <2>. QED
    BY <2>1, <1>4, <1>6
<1>9. CASE WriterMove
  <2>1. UNCHANGED <<slots, covers, answer>> /\ (cmds' = Append(cmds, WritersClose) \/ \E n \in Lengths : SendsChunk(n))
    BY <1>9 DEF WriterMove, slotVars, callerVars
  <2>. QED
    BY <2>1, <1>4, <1>6, <1>7
<1>10. CASE Turns
  <2>1. PICK m \in Methods \ {"next"}, res \in {"ok", "err"} :
          Told(m, res, 0, 0) /\ (res = "ok" => m \in {"ready", "send"} \/ (m = "close" /\ flags = "closed"))
    BY <1>10 DEF Turns
  <2>2. UNCHANGED <<slots, covers, cmds>> /\ ~(answer'.method = "flush" /\ answer'.res = "ok")
    BY <1>10, <2>1, <1>5 DEF Turns, slotVars, sentVars
  <2>. QED
    BY <2>2, <1>4
<1>11. CASE SendsOne
  <2>1. UNCHANGED <<slots, covers>> /\ answer'.method # "flush" /\ \E n \in Lengths : SendsChunk(n)
    BY <1>11, <1>5 DEF SendsOne, slotVars
  <2>. QED
    BY <2>1, <1>4, <1>7
<1>12. CASE AsksWrite
  <2>1. UNCHANGED <<covers, answer>> /\ slots'["flush"] = slots["flush"] /\ \E n \in Lengths : SendsChunk(n)
    BY <1>12, <1>0 DEF AsksWrite, Fills
  <2>. QED
    BY <2>1, <1>4, <1>7
<1>13. CASE AsksClose \/ AsksNext
  <2>1. /\ UNCHANGED <<covers, answer>> /\ slots'["flush"] = slots["flush"]
        /\ cmds' = Append(cmds, CloseCmd) \/ cmds' = Append(cmds, ReadCmd)
    BY <1>13, <1>0 DEF AsksClose, AsksNext, Fills
  <2>. QED
    BY <2>1, <1>4, <1>6
<1>14. ASSUME NEW m \in Slots, Gets(m) PROVE FlushInv'
  <2>1. /\ UNCHANGED <<covers, cmds>>
        /\ slots'["flush"] = slots["flush"] \/ (m = "flush" /\ slots["flush"] # "waiting" /\ slots'["flush"] = Empty)
    BY <1>14, <1>0 DEF Gets, sentVars
  <2>2. answer'.method = m /\ answer'.res = slots[m] /\ (m = "flush" => answer'.upto = covers)
    BY <1>14, <1>5 DEF Gets
  <2>. QED
    BY <2>1, <2>2, <1>4
<1>15. CASE AsksFlush
  <2>1. /\ slots["flush"] = Empty /\ slots'["flush"] = "waiting" /\ answer' = answer /\ covers' = Sent /\ length' = length
        /\ cmds' = Append(cmds, FlushCmd)
    BY <1>15, <1>0 DEF AsksFlush, Fills
  <2>2. flushLeft = 0 /\ FlushCmd \notin Elements(cmds)
    <3>1. flushLeft \in Nat
      BY DEF Parts, TaskOK
    <3>. QED
      BY <2>1, <3>1 DEF FlushInv, FlushCount, FlushAsked, Empty
  <2>3. Apart(Append(cmds, FlushCmd), Sent)
    BY <2>2, <1>0, <1>3, ApartAppend, ApartNone
  <2>4. FlushCount' /\ FlushAsked' /\ FlushWaits'
    BY <2>1, <2>2, <2>3, <1>0, <1>1, <1>2 DEF FlushInv, FlushCount, FlushAsked, FlushWaits, Sent
  <2>5. FlushTrue'
    BY <2>1, <1>1 DEF FlushInv, FlushTrue
  <2>. QED
    BY <2>4, <2>5 DEF FlushInv
<1>. QED
  BY <1>8, <1>9, <1>10, <1>11, <1>12, <1>13, <1>14, <1>15 DEF CallerMove

(* Where a chunk of a stream without an error is.                            *)
LEMMA ChunkIsSomewhere ==
    ASSUME Parts, LineInv, wState # "errored", NEW c \in 1..Sent
    PROVE  \/ Over(wSunk, wBusy, refused, c) \/ (wBusy = "write" /\ c = UnderWay)
           \/ (\E k \in 1..Len(wLine) : wLine[k] = c) \/ c \in Elements(Filter(cmds, Chunks))
<1> DEFINE f == Filter(cmds, Chunks)
<1>1. /\ wSunk \in Seq(Int) /\ wLine \in Seq(Int) /\ f \in Seq(Int) /\ Line = wSunk \o wLine \o f
  BY LineTypes DEF Line
<1>2. CASE c \in refused
  BY <1>2 DEF Over
<1>3. CASE c \notin refused
  <2>1. c \in Elements(Line)
    BY <1>3 DEF LineInv
  <2> HIDE DEF f
  <2>2. PICK k \in 1..Len(wSunk \o wLine \o f) : (wSunk \o wLine \o f)[k] = c
    BY <2>1, <1>1 DEF Elements
  <2>3. CASE k <= Len(wSunk)
    <3>1. k \in 1..Len(wSunk) /\ wSunk[k] = c
      BY <1>1, <2>2, <2>3
    <3>. QED
      BY <3>1 DEF Over, Lands, UnderWay
  <2>4. CASE Len(wSunk) < k /\ k <= Len(wSunk) + Len(wLine)
    <3>1. k - Len(wSunk) \in 1..Len(wLine) /\ wLine[k - Len(wSunk)] = c
      BY <1>1, <2>2, <2>4
    <3>. QED
      BY <3>1
  <2>5. CASE Len(wSunk) + Len(wLine) < k
    <3>1. k - Len(wSunk) - Len(wLine) \in 1..Len(f) /\ f[k - Len(wSunk) - Len(wLine)] = c
      BY <1>1, <2>2, <2>5
    <3>. QED
      BY <3>1 DEF Elements, f
  <2>. QED
    BY <1>1, <2>3, <2>4, <2>5
<1>. QED
  BY <1>2, <1>3

(* What the task takes off the channel leaves the rest as it was.            *)
LEMMA TakenFlush ==
    ASSUME Parts, FlushInv, NEW x, Took(x)
    PROVE  /\ Apart(cmds', covers)
           /\ FlushCmd \in Elements(cmds') => x # FlushCmd /\ FlushCmd \in Elements(cmds)
           /\ x = FlushCmd => /\ FlushCmd \in Elements(cmds)
                              /\ \A c \in Elements(cmds') : c \in Chunks => covers < c
<1>1. cmds \in Seq(Int) /\ cmds # <<>> /\ Head(cmds) = x /\ cmds' = Tail(cmds) /\ Apart(cmds, covers)
  BY LineTypes DEF Took, FlushInv, FlushAsked
<1>2. Head(cmds) \in Elements(cmds)
  BY <1>1 DEF Elements
<1>. QED
  BY <1>1, <1>2, ApartTail

(* The flush waits for the writes counted, and for them only.                *)
LEMMA TaskKeepsFlush ==
    ASSUME Parts, EndInv, LineInv, FlushInv, TaskMove
    PROVE  FlushInv'
<1>0. /\ slots \in [Slots -> Answerable] /\ Slots = {"write", "flush", "close", "next"}
      /\ UNCHANGED <<answer, covers>> /\ Sent' = Sent /\ Sent \in Nat /\ covers \in Nat /\ flushLeft \in Nat
      /\ wLine \in Seq(Int) /\ wSunk \in Seq(Int) /\ cmds \in Seq(Int) /\ Busy \in {0, 1}
      /\ Ahead = Len(wLine) + Busy
  <2>1. slots \in [Slots -> Answerable] /\ covers \in Nat /\ flushLeft \in Nat
    BY LineTypes DEF Parts, SlotOK, TaskOK
  <2>. QED
    BY <2>1, LineTypes DEF Slots, TaskMove, callerVars, Sent, Busy, Ahead
<1>1. \A c : Over(wSunk, wBusy, refused, c) => Over(wSunk', wBusy', refused', c)
  BY TaskKeepsDone
<1>2. FlushCount /\ FlushAsked /\ FlushWaits /\ FlushTrue
  BY DEF FlushInv
<1>3. ASSUME slots'["flush"] = "ok" => slots["flush"] = "ok" \/ \A c \in 1..covers : Over(wSunk', wBusy', refused', c)
      PROVE  FlushTrue'
  BY <1>0, <1>1, <1>2, <1>3 DEF FlushTrue
<1>4. ASSUME cmds' = cmds \/ \E x : Took(x),
             slots'["flush"] = slots["flush"] \/ flushLeft > 0 \/ Took(FlushCmd),
             flushLeft' = 0 \/ flushLeft > 0 \/ Took(FlushCmd)
      PROVE  FlushAsked'
  <2>1. ASSUME NEW x, Took(x), Took(FlushCmd) PROVE x = FlushCmd
    BY <2>1 DEF Took
  <2>2. CASE cmds' = cmds /\ ~\E x : Took(x)
    <3>1. Apart(cmds', covers')
      BY <2>2, <1>0, <1>2 DEF FlushAsked
    <3>2. ASSUME FlushCmd \in Elements(cmds') PROVE slots'["flush"] = "waiting" /\ flushLeft' = 0
      <4>1. ~Took(FlushCmd) /\ slots["flush"] = "waiting" /\ flushLeft = 0
        BY <3>2, <2>2, <1>2 DEF FlushAsked
      <4>. QED
        BY <4>1, <1>4
    <3>. QED
      BY <3>1, <3>2 DEF FlushAsked
  <2>3. ASSUME NEW x, Took(x) PROVE FlushAsked'
    <3>1. /\ Apart(cmds', covers)
          /\ FlushCmd \in Elements(cmds') => x # FlushCmd /\ FlushCmd \in Elements(cmds)
      BY <2>3, TakenFlush
    <3>2. ASSUME FlushCmd \in Elements(cmds') PROVE slots'["flush"] = "waiting" /\ flushLeft' = 0
      <4>1. ~Took(FlushCmd) /\ slots["flush"] = "waiting" /\ flushLeft = 0
        BY <3>1, <3>2, <2>1, <2>3, <1>2 DEF FlushAsked
      <4>. QED
        BY <4>1, <1>4
    <3>. QED
      BY <3>1, <3>2, <1>0 DEF FlushAsked
  <2>. QED
    BY <2>2, <2>3, <1>4
<1>5. ASSUME UNCHANGED <<flushLeft, wBusy, wSunk>>, slots'["flush"] = slots["flush"], wState' = wState,
             wLine' = wLine \/ \E c \in Int : wLine' = Append(wLine, c),
             cmds' = cmds \/ \E x : Took(x)
      PROVE  FlushInv'
  <2>1. /\ Len(wLine') \in Nat /\ Len(wLine) \in Nat /\ Len(wLine) <= Len(wLine')
        /\ \A k \in 1..Len(wLine) : wLine'[k] = wLine[k]
    <3>1. CASE wLine' = wLine
      BY <1>0, <3>1
    <3>2. ASSUME NEW c \in Int, wLine' = Append(wLine, c) 
          PROVE  /\ Len(wLine') = Len(wLine) + 1 /\ Len(wLine) \in Nat
                 /\ \A k \in 1..Len(wLine) : wLine'[k] = wLine[k]
      BY <1>0, <3>2
    <3>. QED
      BY <1>5, <3>1, <3>2
  <2>2. Busy' = Busy /\ UnderWay' = UnderWay /\ Ahead' = Len(wLine') + Busy
    BY <1>5 DEF Busy, UnderWay, Ahead
  <2>3. FlushCount'
    BY <1>0, <1>2, <1>5, <2>1, <2>2 DEF FlushCount
  <2>4. FlushWaits'
    <3>1. SUFFICES ASSUME flushLeft > 0, NEW c \in 1..covers
                   PROVE  \/ Over(wSunk', wBusy', refused', c) \/ (wBusy = "write" /\ c = UnderWay)
                          \/ \E k \in 1..flushLeft - Busy : wLine'[k] = c
      BY <1>0, <1>5, <2>2 DEF FlushWaits
    <3>2. CASE \E k \in 1..flushLeft - Busy : wLine[k] = c
      <4>1. PICK k \in 1..flushLeft - Busy : wLine[k] = c
        BY <3>2
      <4>2. k \in 1..Len(wLine)
        BY <1>0, <1>2, <2>1 DEF FlushCount
      <4>. QED
        BY <4>1, <4>2, <2>1
    <3>. QED
      BY <1>1, <1>2, <3>1, <3>2 DEF FlushWaits
  <2>5. FlushAsked'
    BY <1>0, <1>4, <1>5
  <2>6. FlushTrue'
    BY <1>3, <1>5
  <2>. QED
    BY <2>3, <2>4, <2>5, <2>6 DEF FlushInv
<1>6. ASSUME NEW c \in Chunks, Accepts(c) PROVE FlushInv'
  <2>1. Took(c) /\ UNCHANGED <<flushLeft, wBusy, wSunk, wState, slots>> /\ wLine' = Append(wLine, c) /\ c \in Int
    BY <1>6, LineTypes DEF Accepts, W!Accept
  <2>. QED
    BY <2>1, <1>5
<1>7. ASSUME NEW c \in Chunks, Refuses(c) PROVE FlushInv'
  <2>1. Took(c) /\ UNCHANGED <<flushLeft, wBusy, wSunk, wState, wLine>>
    BY <1>7 DEF Refuses, SameStream
  <2>2. slots'["flush"] = slots["flush"]
    BY <1>7, <1>0 DEF Refuses, AnswersIn
  <2>. QED
    BY <2>1, <2>2, <1>5
<1>8. CASE Passes
  <2>1. (\E c : Took(c)) /\ UNCHANGED <<flushLeft, wBusy, wSunk, wState, wLine>> /\ slots'["flush"] = slots["flush"]
    BY <1>8 DEF Passes, SameStream, SameFlush
  <2>. QED
    BY <2>1, <1>5
<1>9. CASE Rests
  <2>1. UNCHANGED <<flushLeft, wSunk, wState, wLine, cmds>> /\ slots'["flush"] = slots["flush"]
        /\ Busy' = Busy /\ Ahead' = Ahead /\ UnderWay' = UnderWay
        /\ (wBusy = "write" => wBusy' = "write")
    BY <1>9 DEF Rests, SameFlush, Busy, Ahead, UnderWay, None
  <2>2. FlushCount' /\ FlushAsked' /\ FlushTrue'
    BY <2>1, <1>0, <1>2, <1>3, <1>4 DEF FlushCount
  <2>3. FlushWaits'
    BY <2>1, <1>0, <1>1, <1>2 DEF FlushWaits
  <2>. QED
    BY <2>2, <2>3 DEF FlushInv
<1>10. CASE Flushes
  <2>1. Took(FlushCmd) /\ UNCHANGED <<wState, wLine, wBusy, wSunk, refused>>
    BY <1>10 DEF Flushes, SameStream
  <2>2. FlushCmd \in Elements(cmds) /\ (\A c \in Elements(cmds') : c \in Chunks => covers < c)
    BY <2>1, TakenFlush
  <2>3. slots["flush"] = "waiting" /\ flushLeft = 0
    BY <2>2, <1>2 DEF FlushAsked
  <2>4. Busy' = Busy /\ Ahead' = Ahead /\ UnderWay' = UnderWay
    BY <2>1 DEF Busy, Ahead, UnderWay
  <2>5. ASSUME wState # "errored", NEW c \in 1..covers
        PROVE  \/ Over(wSunk, wBusy, refused, c) \/ (wBusy = "write" /\ c = UnderWay)
               \/ \E k \in 1..Len(wLine) : wLine[k] = c
    <3>1. c \in 1..Sent
      BY <1>0, <1>2 DEF FlushCount
    <3>2. Filter(cmds, Chunks) = Filter(cmds', Chunks) /\ cmds' \in Seq(Int)
      <4>1. FlushCmd \notin Chunks
        BY LineTypes DEF FlushCmd, Chunks
      <4>2. cmds # <<>> /\ Head(cmds) = FlushCmd /\ cmds' = Tail(cmds)
        BY <2>1 DEF Took
      <4>3. \A s \in Seq(Int) : s # <<>> /\ Head(s) \notin Chunks => Filter(s, Chunks) = Filter(Tail(s), Chunks) /\ Tail(s) \in Seq(Int)
        <5>1. \A s \in Seq(Int) : s # <<>> => Filter(s, Chunks) = IF Head(s) \in Chunks THEN <<Head(s)>> \o Filter(Tail(s), Chunks) ELSE Filter(Tail(s), Chunks)
          BY IntFilters
        <5>2. \A s \in Seq(Int) : s # <<>> => Tail(s) \in Seq(Int)
          OBVIOUS
        <5>. QED
          BY <5>1, <5>2
      <4>. QED
        BY <4>1, <4>2, <4>3, <1>0
    <3>3. c \in Chunks
      BY <3>1, LineTypes DEF Parts, SentOK, Chunks
    <3>4. c \notin Elements(Filter(cmds, Chunks))
      <4>1. c \notin Elements(cmds')
        BY <2>2, <3>3, <1>0
      <4>. QED
        BY <4>1, <3>2, FilterWithin
    <3>. QED
      BY <2>5, <3>1, <3>4, ChunkIsSomewhere
  <2>6. CASE wState = "errored"
    <3>1. slots'["flush"] = "err" /\ flushLeft' = 0
      BY <2>3, <2>6, <1>10, <1>0 DEF Flushes, Give
    <3>2. FlushCount' /\ FlushWaits'
      BY <3>1, <2>1, <2>3, <2>4, <1>0, <1>2 DEF FlushCount, FlushWaits
    <3>. QED
      BY <3>1, <3>2, <2>1, <1>3, <1>4 DEF FlushInv
  <2>7. CASE wState # "errored" /\ Ahead = 0
    <3>1. slots'["flush"] = "ok" /\ flushLeft' = 0
      BY <2>3, <2>7, <1>10, <1>0 DEF Flushes, Give
    <3>2. FlushCount' /\ FlushWaits'
      BY <3>1, <2>1, <2>3, <2>4, <1>0, <1>2 DEF FlushCount, FlushWaits
    <3>3. Len(wLine) = 0 /\ wBusy # "write"
      BY <2>7, <1>0 DEF Busy
    <3>4. \A c \in 1..covers : Over(wSunk, wBusy, refused, c)
      BY <3>3, <2>5, <2>7
    <3>5. \A c \in 1..covers : Over(wSunk', wBusy', refused', c)
      BY <3>4, <1>1
    <3>6. FlushTrue'
      BY <3>5, <1>3
    <3>. QED
      BY <3>1, <3>2, <3>6, <2>1, <1>4 DEF FlushInv
  <2>8. CASE wState # "errored" /\ Ahead > 0
    <3>1. slots'["flush"] = "waiting" /\ flushLeft' = Ahead
      BY <2>3, <2>7, <2>8, <1>10, <1>0 DEF Flushes
    <3>2. FlushCount'
      BY <3>1, <2>1, <2>8, <2>4, <1>0, <1>2 DEF FlushCount
    <3>3. Ahead - Busy = Len(wLine)
      BY <1>0
    <3>4. FlushWaits'
      BY <3>1, <3>3, <2>1, <2>4, <2>5, <2>8, <1>0 DEF FlushWaits
    <3>5. FlushTrue'
      BY <3>1, <1>3
    <3>. QED
      BY <3>1, <3>2, <3>4, <3>5, <2>1, <2>3, <1>4 DEF FlushInv
  <2>. QED
    BY <2>6, <2>7, <2>8, <1>0
<1>11. CASE StartsWrite
  <2>1. /\ UNCHANGED <<cmds, slots, flushLeft, refused, wState>> /\ wLine # <<>> /\ wBusy = None /\ wBusy' = "write"
        /\ wLine' = Tail(wLine) /\ wSunk' = Append(wSunk, Head(wLine)) /\ wState = "writable"
    BY <1>11 DEF StartsWrite, W!BeginWrite, None, W!None
  <2>2. Busy = 0 /\ Busy' = 1 /\ Len(wLine') = Len(wLine) - 1 /\ Ahead' = Ahead /\ Len(wLine) \in Nat
        /\ UnderWay' = wLine[1]
        /\ \A k \in 1..Len(wLine) : k = 1 \/ (k - 1 \in 1..Len(wLine') /\ wLine'[k - 1] = wLine[k])
    BY <2>1, <1>0 DEF Busy, Ahead, UnderWay, None
  <2>3. FlushCount' /\ FlushAsked' /\ FlushTrue'
    BY <2>1, <2>2, <1>0, <1>2, <1>3, <1>4 DEF FlushCount
  <2>4. FlushWaits'
    <3>1. SUFFICES ASSUME flushLeft > 0, NEW c \in 1..covers
                   PROVE  \/ Over(wSunk', wBusy', refused', c) \/ c = UnderWay'
                          \/ \E k \in 1..flushLeft - 1 : wLine'[k] = c
      BY <2>1, <2>2, <1>0 DEF FlushWaits
    <3>2. CASE \E k \in 1..flushLeft - Busy : wLine[k] = c
      <4>1. PICK k \in 1..flushLeft : wLine[k] = c
        BY <3>2, <2>2, <1>0
      <4>2. k \in 1..Len(wLine)
        BY <1>0, <1>2, <2>2 DEF FlushCount
      <4>3. k = 1 \/ k - 1 \in 1..flushLeft - 1
        BY <1>0
      <4>. QED
        BY <4>1, <4>2, <4>3, <2>2
    <3>. QED
      BY <1>1, <1>2, <2>1, <3>1, <3>2 DEF FlushWaits, None
  <2>. QED
    BY <2>3, <2>4 DEF FlushInv
<1>12. CASE EndsWrite \/ FailsWrite
  <2>1. wBusy = "write" /\ wBusy' = None /\ UNCHANGED <<cmds, refused, wSunk>>
    BY <1>12 DEF EndsWrite, FailsWrite, W!EndWrite, None, W!None
  <2>2. Over(wSunk', wBusy', refused', UnderWay)
    BY <2>1, EndLands DEF Over
  <2>3. Busy = 1 /\ Busy' = 0 /\ wBusy' # "write" /\ Ahead' = Len(wLine')
    BY <2>1 DEF Busy, None, Ahead
  <2>4. ASSUME flushLeft > 0, NEW c \in 1..covers
        PROVE  Over(wSunk', wBusy', refused', c) \/ \E k \in 1..flushLeft - 1 : wLine[k] = c
    BY <2>2, <2>3, <2>4, <1>1, <1>2 DEF FlushWaits
  <2>5. FlushTrue'
    <3>1. slots'["flush"] = "ok" => slots["flush"] = "ok" \/ flushLeft = 1
      BY <1>12 DEF EndsWrite, FailsWrite
    <3>2. flushLeft = 1 => \A c \in 1..covers : Over(wSunk', wBusy', refused', c)
      BY <2>4, <1>0
    <3>. QED
      BY <3>1, <3>2, <1>3
  <2>6. FlushAsked'
    <3>1. slots'["flush"] = slots["flush"] \/ flushLeft > 0
      BY <1>12, <1>0 DEF EndsWrite, FailsWrite
    <3>2. flushLeft' = 0 \/ flushLeft > 0
      BY <1>12, <1>0 DEF EndsWrite, FailsWrite, CountDown
    <3>. QED
      BY <3>1, <3>2, <2>1, <1>4
  <2>7. CASE EndsWrite
    <3>1. wLine' = wLine /\ wState' = wState /\ flushLeft' = IF flushLeft > 0 THEN flushLeft - 1 ELSE 0
      BY <2>7 DEF EndsWrite, W!EndWrite, CountDown
    <3>2. flushLeft' > 0 => slots'["flush"] = slots["flush"] /\ flushLeft > 0 /\ flushLeft' = flushLeft - 1
      BY <2>7, <3>1, <1>0 DEF EndsWrite
    <3>3. FlushCount'
      BY <3>1, <3>2, <2>3, <1>0, <1>2 DEF FlushCount
    <3>4. FlushWaits'
      <4>1. SUFFICES ASSUME flushLeft' > 0, NEW c \in 1..covers
                     PROVE  Over(wSunk', wBusy', refused', c) \/ \E k \in 1..flushLeft' - Busy' : wLine'[k] = c
        BY <1>0 DEF FlushWaits
      <4>2. flushLeft > 0 /\ flushLeft' - Busy' = flushLeft - 1 /\ wLine' = wLine
        BY <4>1, <3>1, <3>2, <2>3, <1>0
      <4>3. Over(wSunk', wBusy', refused', c) \/ \E k \in 1..flushLeft - 1 : wLine[k] = c
        BY <2>4, <4>2
      <4>. QED
        BY <4>2, <4>3
    <3>. QED
      BY <3>3, <3>4, <2>5, <2>6 DEF FlushInv
  <2>8. CASE FailsWrite
    <3>1. wLine' = <<>> /\ flushLeft' = 0
      BY <2>8 DEF FailsWrite
    <3>2. FlushCount' /\ FlushWaits'
      BY <3>1, <2>3, <1>0, <1>2 DEF FlushCount, FlushWaits
    <3>. QED
      BY <3>2, <2>5, <2>6 DEF FlushInv
  <2>. QED
    BY <1>12, <2>7, <2>8
<1>13. CASE EndsClose
  <2>1. /\ UNCHANGED <<cmds, refused, wSunk, flushLeft>> /\ slots'["flush"] = slots["flush"]
        /\ wBusy = "close" /\ wBusy' = None /\ wLine' = <<>> /\ wLine = <<>>
    BY <1>13 DEF EndsClose, SameFlush, EndInv
  <2>2. Ahead = 0 /\ Ahead' = 0
    BY <2>1 DEF Ahead, None
  <2>3. flushLeft = 0
    BY <2>2, <1>0, <1>2 DEF FlushCount
  <2>4. FlushCount' /\ FlushWaits' /\ FlushAsked' /\ FlushTrue'
    BY <2>1, <2>2, <2>3, <1>0, <1>2, <1>3, <1>4 DEF FlushCount, FlushWaits
  <2>. QED
    BY <2>4 DEF FlushInv
<1>. QED
  BY <1>6, <1>7, <1>8, <1>9, <1>10, <1>11, <1>12, <1>13 DEF TaskMove

(* The first numbers in a row.                                               *)
LEMMA UpToFacts ==
    ASSUME NEW n \in Nat
    PROVE  UpTo(n) \in Seq(Nat) /\ Len(UpTo(n)) = n /\ UpTo(n + 1) = Append(UpTo(n), n + 1)
  BY DEF UpTo

(* The three parts of what a source has posted.                              *)
LEMMA ItemTypes ==
    ASSUME Parts
    PROVE  /\ answer.items \in Seq(Int) /\ rLine \in Seq(Int) /\ item \in Int /\ posted \in Nat
           /\ InSlot \in Seq(Int) /\ InSlot \in {<<>>, <<item>>} /\ Len(answer.items) \in Nat
<1>1. answer \in Answered /\ rLine \in Seq(Chunks) /\ item \in Nat /\ posted \in Nat /\ Chunks \subseteq Int
  BY LineTypes DEF Parts, CallOK, ROK
<1>2. answer.items \in Seq(Chunks)
  BY <1>1 DEF Answered
<1>3. answer.items \in Seq(Int)
  BY <1>1, <1>2, SeqWiden
<1>4. rLine \in Seq(Int)
  BY <1>1, SeqWiden
<1>5. InSlot \in Seq(Int)
  <2>1. <<>> \in Seq(Int) /\ \A x \in Int : <<x>> \in Seq(Int)
    OBVIOUS
  <2>. QED
    BY <1>1, <2>1 DEF InSlot
<1>. QED
  BY <1>1, <1>3, <1>4, <1>5 DEF InSlot

(* The caller's side of the two kinds.                                       *)
LEMMA CallerKeepsSides ==
    ASSUME Parts, CallInv, ReadSides, CallerNext, CallerMove
    PROVE  ReadSides'
<1>0. /\ UNCHANGED <<plan, taskVars>> /\ slots \in [Slots -> Answerable] /\ Slots = {"write", "flush", "close", "next"}
      /\ Sent \in Nat /\ cmds \in Seq(Int) /\ plan.kind \in {"writer", "reader"}
  BY CallerLeaves, LineTypes, PlanFacts DEF Parts, SlotOK, Slots
<1>1. /\ plan.kind = "writer" => call'.method # "next"
      /\ plan.kind = "reader" => call'.method \in {None, "next"}
  BY CallerControl DEF ReadSides, Starts, Leaves, GoesOn, NoCall, None
<1>2. plan.kind = "reader" => wLine' = <<>> /\ wBusy' = None /\ ~wClosing' /\ wState' = "writable" /\ flags' = wState'
  BY <1>0 DEF ReadSides, taskVars, writableVars
<1>3. ASSUME plan.kind = "writer" PROVE slots'["next"] = Empty /\ ReadCmd \notin Elements(cmds')
  <2>1. slots["next"] = Empty /\ ReadCmd \notin Elements(cmds)
    BY <1>3 DEF ReadSides
  <2>2. \/ cmds' = cmds
        \/ \E x \in Int : cmds' = Append(cmds, x) /\ x # ReadCmd
    <3>1. \A x \in {ReadyCmd, CloseCmd, FlushCmd} : x \in Int /\ x # ReadCmd
      BY DEF ReadyCmd, CloseCmd, FlushCmd, ReadCmd
    <3>2. Sent + 1 \in Int /\ Sent + 1 # ReadCmd
      BY <1>0 DEF ReadCmd
    <3>3. Waits \/ Turns \/ (\E m \in Slots : Gets(m)) => cmds' = cmds \/ cmds' = Append(cmds, ReadyCmd)
      BY DEF Waits, Turns, Gets, sentVars
    <3>4. SendsOne \/ AsksWrite => cmds' = Append(cmds, Sent + 1)
      BY DEF SendsOne, AsksWrite, SendsChunk, Sends
    <3>5. AsksFlush \/ AsksClose => \E x \in {FlushCmd, CloseCmd} : cmds' = Append(cmds, x)
      BY DEF AsksFlush, AsksClose
    <3>6. ~AsksNext
      BY <1>3 DEF AsksNext
    <3>. QED
      BY <3>1, <3>2, <3>3, <3>4, <3>5, <3>6 DEF CallerMove
  <2>3. ReadCmd \notin Elements(cmds')
    <3>1. \A x \in Int : Elements(Append(cmds, x)) = Elements(cmds) \cup {x}
      BY <1>0, ElementsAppend
    <3>2. CASE cmds' = cmds
      BY <3>2, <2>1
    <3>3. CASE cmds' # cmds
      <4>1. PICK x \in Int : cmds' = Append(cmds, x) /\ x # ReadCmd
        BY <3>3, <2>2
      <4>. QED
        BY <4>1, <3>1, <2>1
    <3>. QED
      BY <3>2, <3>3
  <2>4. slots'["next"] = slots["next"]
    BY <1>0, <1>3, <2>1 DEF CallerMove, Waits, Turns, SendsOne, AsksWrite, AsksFlush, AsksClose, AsksNext, Fills, Gets,
       slotVars, Empty
  <2>. QED
    BY <2>1, <2>3, <2>4
<1>4. ASSUME plan.kind = "reader" PROVE cmds' \in {<<>>, <<ReadCmd>>} /\ (cmds' # <<>> => slots'["next"] = "waiting")
  <2>1. cmds \in {<<>>, <<ReadCmd>>} /\ (cmds # <<>> => slots["next"] = "waiting")
    BY <1>4 DEF ReadSides
  <2>2. CASE AsksNext
    <3>1. cmds = <<>> /\ slots'["next"] = "waiting" /\ cmds' = Append(<<>>, ReadCmd)
      BY <1>0, <2>1, <2>2 DEF AsksNext, Fills, Empty
    <3>2. cmds' = <<ReadCmd>>
      BY <3>1
    <3>. QED
      BY <3>1, <3>2
  <2>3. CASE Waits \/ Turns
    <3>1. cmds' = cmds /\ slots' = slots
      BY <1>4, <2>3 DEF Waits, Turns, sentVars, slotVars
    <3>. QED
      BY <3>1, <2>1
  <2>4. ASSUME NEW m \in Slots, Gets(m) PROVE cmds' = cmds /\ (cmds # <<>> => slots'["next"] = "waiting")
    BY <1>0, <2>1, <2>4 DEF Gets, sentVars
  <2>. QED
    BY <1>4, <2>1, <2>2, <2>3, <2>4 DEF CallerMove, SendsOne, AsksWrite, AsksFlush, AsksClose
<1>. QED
  BY <1>0, <1>1, <1>2, <1>3, <1>4 DEF ReadSides

(* What the caller has been given.                                           *)
LEMMA CallerKeepsItems ==
    ASSUME Parts, ReadItems, CallerMove, UNCHANGED taskVars
    PROVE  ReadItems'
<1>0. /\ UNCHANGED <<rState, rLine, item, posted>> /\ slots \in [Slots -> Answerable]
      /\ Slots = {"write", "flush", "close", "next"}
  BY DEF Parts, SlotOK, Slots, taskVars, readVars, readableVars
<1>1. ASSUME slots'["next"] = slots["next"] \/ (slots["next"] = Empty /\ slots'["next"] = "waiting"),
             answer' = answer \/ (answer'.items = answer.items /\ answer'.method # "next")
      PROVE  ReadItems'
  <2>1. InSlot' = InSlot
    BY <1>0, <1>1 DEF InSlot, Empty
  <2>. QED
    BY <1>0, <1>1, <2>1 DEF ReadItems, Empty
<1>2. ASSUME NEW m, NEW res, NEW upto, NEW len, Told(m, res, upto, len)
      PROVE  /\ answer'.method = m /\ answer'.res = res
             /\ answer'.items = IF m = "next" /\ res = "ok" THEN Append(answer.items, upto) ELSE answer.items
  BY <1>2 DEF Told
<1>3. CASE Waits
  BY <1>1, <1>3 DEF Waits, slotVars
<1>4. CASE Turns \/ SendsOne
  <2>1. UNCHANGED slots /\ \E m, res : Told(m, res, 0, 0) /\ m # "next"
    BY <1>4 DEF Turns, SendsOne, slotVars
  <2>. QED
    BY <2>1, <1>1, <1>2
<1>5. CASE AsksWrite \/ AsksFlush \/ AsksClose \/ AsksNext
  <2>1. answer' = answer /\ (slots'["next"] = slots["next"] \/ (slots["next"] = Empty /\ slots'["next"] = "waiting"))
    BY <1>5, <1>0 DEF AsksWrite, AsksFlush, AsksClose, AsksNext, Fills
  <2>. QED
    BY <2>1, <1>1
<1>6. ASSUME NEW m \in Slots \ {"next"}, Gets(m) PROVE ReadItems'
  <2>1. answer'.items = answer.items /\ answer'.method # "next" /\ slots'["next"] = slots["next"]
    BY <1>6, <1>0, <1>2 DEF Gets
  <2>. QED
    BY <2>1, <1>1
<1>7. CASE Gets("next")
  <2>1. /\ slots["next"] \in {"ok", "err", "end"} /\ slots'["next"] = Empty /\ InSlot' = <<>>
        /\ answer'.method = "next" /\ answer'.res = slots["next"]
        /\ answer'.items = IF slots["next"] = "ok" THEN Append(answer.items, item) ELSE answer.items
    <3>1. slots["next"] \in {"ok", "err", "end"} /\ slots'["next"] = Empty /\ Told("next", slots["next"], item, 0)
      BY <1>7, <1>0 DEF Gets
    <3>. QED
      BY <3>1, <1>2 DEF InSlot, Empty
  <2>2. CASE slots["next"] = "ok"
    <3>1. item = Len(answer.items) + 1 /\ answer.items = UpTo(Len(answer.items)) /\ Len(answer.items) \in Nat
          /\ InSlot = <<item>> /\ answer'.items = Append(answer.items, item) /\ answer.items \in Seq(Int) /\ item \in Int
      BY <2>1, <2>2, ItemTypes DEF ReadItems, InSlot
    <3> DEFINE s == answer.items
    <3>2. s \in Seq(Int) /\ item \in Int /\ item = Len(s) + 1 /\ s = UpTo(Len(s))
      BY <3>1
    <3> HIDE DEF s
    <3>3. Len(Append(s, item)) = Len(s) + 1 /\ Append(s, item) \o <<>> = s \o <<item>>
      BY <3>2
    <3>4. Append(s, item) = UpTo(Len(Append(s, item)))
      BY <3>1, <3>2, <3>3, UpToFacts DEF s
    <3>5. rState' # "errored" => answer'.items \o InSlot' \o rLine' = UpTo(posted')
      BY <3>1, <3>3, <2>1, <1>0 DEF ReadItems, s
    <3>. QED
      BY <3>1, <3>4, <3>5, <2>1, <2>2, <1>0 DEF ReadItems, s, Empty
  <2>3. CASE slots["next"] # "ok"
    <3>1. InSlot = <<>> /\ answer'.items = answer.items
      BY <2>1, <2>3 DEF InSlot
    <3>2. slots["next"] = "end" => rState = "ended" /\ Len(answer.items) = posted
      <4>1. SUFFICES ASSUME slots["next"] = "end" PROVE rState = "ended" /\ Len(answer.items) = posted
        OBVIOUS
      <4>2. rState = "ended" /\ rLine = <<>> /\ answer.items \o InSlot \o rLine = UpTo(posted)
        BY <4>1 DEF ReadItems
      <4>3. answer.items \o <<>> \o <<>> = UpTo(posted) /\ answer.items \in Seq(Int) /\ posted \in Nat
        BY <4>2, <3>1, ItemTypes
      <4>4. answer.items = UpTo(posted)
        BY <4>3
      <4>. QED
        BY <4>2, <4>3, <4>4, UpToFacts
    <3>. QED
      BY <3>1, <3>2, <2>1, <2>3, <1>0 DEF ReadItems, Empty
  <2>. QED
    BY <2>2, <2>3
<1>. QED
  BY <1>3, <1>4, <1>5, <1>6, <1>7 DEF CallerMove

(* The writable stream's task leaves poll_next's slot alone.                 *)
LEMMA NextIsItsOwn ==
    ASSUME Parts, TaskWork, ~ServesRead, slots["next"] = Empty
    PROVE  slots'["next"] = Empty
<1>0. slots \in [Slots -> Answerable] /\ Slots = {"write", "flush", "close", "next"} /\ {"ok", "err"} \subseteq Answerable
  BY DEF Parts, SlotOK, Slots, Answerable
<1>1. ASSUME NEW m \in {"write", "flush", "close"}, NEW res PROVE Give(m, res)["next"] = Empty
  BY <1>0, <1>1 DEF Give
<1>2. \A res : Own(Flushed, res)["next"] = Empty
  BY <1>0, OwnFacts
<1>3. CASE \E c \in Chunks : CommandWrite(c)
  <2>1. slots' = slots \/ slots' = Give("write", "err")
    BY <1>3 DEF CommandWrite, Publishes, Settles
  <2>. QED
    BY <2>1, <1>1
<1>4. CASE CommandReady \/ PollEnds \/ BeginWrite \/ BeginClose \/ SetsFlags
  <2>1. slots' = slots
    BY <1>4 DEF CommandReady, PollEnds, BeginWrite, BeginClose, SetsFlags, Dispatches, Publishes, Quiet
  <2>. QED
    BY <2>1
<1>5. CASE CommandFlush
  <2>1. slots' = slots \/ \E res : slots' = Give("flush", res)
    BY <1>5 DEF CommandFlush, Quiet, Settles
  <2>. QED
    BY <2>1, <1>1
<1>6. CASE \E c \in {CloseCmd, WritersClose} : CommandClose(c)
  <2>1. slots' = slots \/ slots' = Give("close", "err")
    BY <1>6 DEF CommandClose, Quiet, Settles
  <2>. QED
    BY <2>1, <1>1
<1>7. CASE WriteReturns
  BY <1>2, <1>7 DEF WriteReturns, Publishes
<1>8. CASE WriteFails
  <2>1. slots' = Rejected(Own(Flushed, "err"))
    BY <1>8 DEF WriteFails, Publishes
  <2>2. Own(Flushed, "err") \in [Slots -> Answerable]
    BY <1>0, OwnTypes, FlushedTypes
  <2>3. Own(Flushed, "err")["next"] # "waiting"
    BY <1>2 DEF Empty
  <2>. QED
    BY <2>1, <2>2, <2>3, <1>0, <1>2, RejectedTypes
<1>9. CASE \E res \in {"ok", "err"} : CloseReturns(res)
  <2>1. slots' = slots \/ \E res : slots' = Give("close", res)
    BY <1>9 DEF CloseReturns, Settles
  <2>. QED
    BY <2>1, <1>1
<1>. QED
  BY <1>3, <1>4, <1>5, <1>6, <1>7, <1>8, <1>9 DEF TaskWork

(* A stream that is only read has nothing for it to do.                      *)
LEMMA NothingToWrite ==
    ASSUME Parts, ReadSides, plan.kind = "reader", TaskWork, ~ServesRead
    PROVE  UNCHANGED <<cmds, slots, writableVars, flags>>
<1>0. /\ cmds \in {<<>>, <<ReadCmd>>} /\ wLine = <<>> /\ wBusy = None /\ ~wClosing /\ wState = "writable" /\ flags = wState
  BY DEF ReadSides
<1>1. ASSUME NEW c, Takes(c) PROVE c = ReadCmd
  <2>1. cmds = <<ReadCmd>> /\ Head(cmds) = c
    BY <1>0, <1>1 DEF Takes
  <2>. QED
    BY <2>1
<1>2. ReadCmd \notin Chunks /\ ReadCmd \notin {ReadyCmd, FlushCmd, CloseCmd, WritersClose}
  BY LineTypes DEF Chunks, ReadCmd, ReadyCmd, FlushCmd, CloseCmd, WritersClose
<1>3. ~(\E c \in Chunks : CommandWrite(c)) /\ ~CommandReady /\ ~CommandFlush /\ ~(\E c \in {CloseCmd, WritersClose} : CommandClose(c))
  BY <1>1, <1>2 DEF CommandWrite, CommandReady, CommandFlush, CommandClose
<1>4. ~BeginWrite /\ ~BeginClose /\ ~WriteReturns /\ ~WriteFails /\ ~SetsFlags /\ ~(\E res \in {"ok", "err"} : CloseReturns(res))
  BY <1>0 DEF BeginWrite, BeginClose, WriteReturns, WriteFails, SetsFlags, CloseReturns, W!BeginWrite, W!BeginClose,
     W!EndWrite, W!EndClose, None
<1>. QED
  BY <1>3, <1>4 DEF TaskWork, PollEnds, Dispatches, Quiet

(* Nor does that task touch what is read.                                    *)
LEMMA TaskKeepsRead ==
    ASSUME Parts, ReadInv, TaskWork, ~ServesRead
    PROVE  ReadInv'
<1>1. UNCHANGED <<plan, rState, rLine, item, posted, answer, call>> /\ plan.kind \in {"writer", "reader"}
  BY TaskLeaves, PlanFacts DEF Parts, readVars, readableVars, callerVars
<1>2. CASE plan.kind = "writer"
  <2>1. slots["next"] = Empty /\ slots'["next"] = Empty
    BY <1>2, NextIsItsOwn DEF ReadInv, ReadSides
  <2>2. TaskMove
    BY TaskMoves
  <2>3. cmds' = cmds \/ (cmds # <<>> /\ cmds' = Tail(cmds))
    BY <2>2 DEF TaskMove, Accepts, Refuses, Passes, Flushes, Rests, StartsWrite, EndsWrite, FailsWrite, EndsClose, Took
  <2>4. ReadCmd \notin Elements(cmds')
    <3>1. cmds \in Seq(Int) /\ ReadCmd \notin Elements(cmds)
      BY <1>2, LineTypes DEF ReadInv, ReadSides
    <3>2. cmds # <<>> => \A k \in 1..Len(Tail(cmds)) : k + 1 \in 1..Len(cmds) /\ Tail(cmds)[k] = cmds[k + 1]
      BY <3>1, OffTheFront
    <3>. QED
      BY <3>1, <3>2, <2>3 DEF Elements
  <2>5. InSlot' = InSlot
    BY <2>1 DEF InSlot, Empty
  <2>6. ReadSides'
    BY <1>1, <1>2, <2>1, <2>4 DEF ReadInv, ReadSides
  <2>7. ReadItems'
    BY <1>1, <2>1, <2>5 DEF ReadInv, ReadItems, Empty
  <2>. QED
    BY <2>6, <2>7 DEF ReadInv
<1>3. CASE plan.kind = "reader"
  <2>1. UNCHANGED <<cmds, slots, writableVars, flags>>
    BY <1>3, NothingToWrite DEF ReadInv
  <2>. QED
    BY <1>1, <1>3, <2>1 DEF ReadInv, ReadSides, ReadItems, InSlot, writableVars
<1>. QED
  BY <1>1, <1>2, <1>3

(* The readable stream's task and the source give the chunks in order.       *)
LEMMA ReaderKeepsSides ==
    ASSUME Parts, ReadInv, ServesRead \/ Enqueues \/ SourceEnds
    PROVE  /\ ReadSides' /\ plan.kind = "reader" /\ UNCHANGED <<plan, answer>>
           /\ ServesRead => slots["next"] = "waiting"
<1>0. /\ UNCHANGED <<plan, writableVars, flags, call, answer>> /\ slots \in [Slots -> Answerable]
      /\ plan.kind \in {"writer", "reader"} /\ "next" \in Slots
  BY PlanFacts DEF ServesRead, Enqueues, SourceEnds, Feeds, ReaderStep, callerVars, Parts, SlotOK, Slots
<1>1. plan.kind = "reader"
  <2>1. CASE ServesRead
    <3>1. cmds \in Seq(Int) /\ cmds # <<>> /\ Head(cmds) = ReadCmd
      BY <2>1, LineTypes DEF ServesRead
    <3>2. ReadCmd \in Elements(cmds)
      BY <3>1 DEF Elements
    <3>. QED
      BY <3>2, <1>0 DEF ReadInv, ReadSides
  <2>2. CASE Enqueues \/ SourceEnds
    BY <2>2 DEF Enqueues, SourceEnds, Feeds
  <2>. QED
    BY <2>1, <2>2
<1>2. cmds \in {<<>>, <<ReadCmd>>} /\ (cmds # <<>> => slots["next"] = "waiting")
  BY <1>1 DEF ReadInv, ReadSides
<1>3. /\ cmds' \in {<<>>, <<ReadCmd>>} /\ (cmds' # <<>> => slots'["next"] = "waiting")
      /\ ServesRead => slots["next"] = "waiting"
  <2>1. CASE ServesRead
    <3>1. cmds # <<>> /\ cmds' = Tail(cmds)
      BY <2>1 DEF ServesRead
    <3>3. \A x : Tail(<<x>>) = <<>>
      OBVIOUS
    <3>2. cmds = <<ReadCmd>> /\ cmds' = <<>>
      BY <3>1, <3>3, <1>2
    <3>. QED
      BY <3>2, <1>2
  <2>2. CASE Enqueues \/ SourceEnds
    <3>1. cmds' = cmds
      BY <2>2 DEF Enqueues, SourceEnds, Feeds
    <3>2. cmds # <<>> => slots' = slots
      BY <2>2 DEF Enqueues, SourceEnds, Awaited, Ends, Settles, Quiet
    <3>. QED
      BY <3>1, <3>2, <1>2, <2>2 DEF Enqueues, SourceEnds, Feeds, ServesRead
  <2>. QED
    BY <2>1, <2>2
<1>. QED
  BY <1>0, <1>1, <1>3 DEF ReadInv, ReadSides, writableVars

(* The next chunk is the next number.                                        *)
LEMMA NextInLine ==
    ASSUME NEW a \in Seq(Int), NEW r \in Seq(Int), r # <<>>, NEW n \in Nat, a \o <<>> \o r = UpTo(n)
    PROVE  Head(r) = Len(a) + 1 /\ a \o <<Head(r)>> \o Tail(r) = UpTo(n)
<1>1. a \o <<>> = a /\ Len(a) \in Nat /\ Len(r) \in Nat \ {0}
  OBVIOUS
<1>2. a \o r = UpTo(n)
  BY <1>1
<1>3. Len(a) + 1 \in 1..Len(a \o r) /\ (a \o r)[Len(a) + 1] = r[1] /\ Head(r) = r[1] /\ Len(a \o r) = Len(a) + Len(r)
  BY <1>1
<1>4. Len(UpTo(n)) = n
  BY UpToFacts
<1>5. Head(r) = Len(a) + 1
  BY <1>2, <1>3, <1>4 DEF UpTo
<1>6. Head(r) \in Int /\ Tail(r) \in Seq(Int) /\ a \o <<Head(r)>> = Append(a, Head(r))
  OBVIOUS
<1>7. Append(a, Head(r)) \o (Tail(r) \o <<>>) = a \o (r \o <<>>)
  <2>1. \A p, q, x \in Seq(Int) : q # <<>> => Append(p, Head(q)) \o (Tail(q) \o x) = p \o (q \o x)
    BY IntJoins
  <2>2. <<>> \in Seq(Int)
    OBVIOUS
  <2>. QED
    BY <2>1, <2>2
<1>8. Tail(r) \o <<>> = Tail(r) /\ r \o <<>> = r
  BY <1>6
<1>. QED
  BY <1>2, <1>5, <1>6, <1>7, <1>8

(* A read that is answered has the next chunk, or the end after the last.    *)
LEMMA ReaderKeepsItems ==
    ASSUME Parts, ReadInv, ServesRead \/ Enqueues \/ SourceEnds
    PROVE  ReadItems'
<1>0. /\ answer' = answer /\ slots \in [Slots -> Answerable] /\ "next" \in Slots
      /\ (ServesRead => slots["next"] = "waiting") /\ ReadItems /\ rState \in {"open", "ended", "errored"}
  BY ReaderKeepsSides DEF Parts, SlotOK, Slots, ReadInv, ROK
<1>1. /\ answer.items \in Seq(Int) /\ rLine \in Seq(Int) /\ item \in Int /\ posted \in Nat
      /\ InSlot \in Seq(Int) /\ Len(answer.items) \in Nat
  BY ItemTypes
<1>2. ASSUME NEW res, Settles(Give("next", res)) PROVE slots'["next"] = res
  BY <1>0, <1>2 DEF Settles, Give
<1>3. answer.items = UpTo(Len(answer.items))
      /\ (rState # "errored" => answer.items \o InSlot \o rLine = UpTo(posted))
      /\ (answer.method = "next" /\ answer.res = "end" => rState = "ended" /\ Len(answer.items) = posted)
      /\ (slots["next"] = "end" => rState = "ended") /\ (rState = "ended" => rLine = <<>>)
      /\ (slots["next"] = "ok" => item = Len(answer.items) + 1)
  BY <1>0 DEF ReadItems
<1>4. CASE ServesRead
  <2>1. posted' = posted /\ InSlot = <<>>
    BY <1>0, <1>4 DEF ServesRead, InSlot
  <2>2. CASE R!Take /\ Hands(Head(rLine))
    <3>1. rState = "open" /\ rLine # <<>> /\ rLine' = Tail(rLine) /\ rState' \in {"open", "ended"}
          /\ (rState' = "ended" => rLine' = <<>>)
      BY <2>2 DEF R!Take, R!Open
    <3>2. item' = Head(rLine) /\ slots'["next"] = "ok" /\ InSlot' = <<Head(rLine)>>
      BY <2>2, <1>2 DEF Hands, InSlot
    <3>3. answer.items \o <<>> \o rLine = UpTo(posted)
      BY <3>1, <2>1, <1>3
    <3>4. Head(rLine) = Len(answer.items) + 1 /\ answer.items \o <<Head(rLine)>> \o Tail(rLine) = UpTo(posted)
      BY <3>1, <3>3, <1>1, NextInLine
    <3>. QED
      BY <3>1, <3>2, <3>4, <2>1, <1>0, <1>3 DEF ReadItems
  <2>3. CASE UNCHANGED <<readableVars, item>> /\ (Quiet \/ (rState # "open" /\ Settles(Give("next", IF rState = "errored" THEN "err" ELSE "end"))))
    <3>1. UNCHANGED <<rState, rLine, item>>
      BY <2>3 DEF readableVars
    <3>2. \/ slots' = slots
          \/ rState # "open" /\ slots'["next"] = IF rState = "errored" THEN "err" ELSE "end"
      BY <2>3, <1>2 DEF Quiet
    <3>3. InSlot' = <<>>
      BY <3>2, <1>0, <1>4 DEF InSlot
    <3>4. slots'["next"] # "ok" /\ (slots'["next"] = "end" => rState = "ended")
      BY <3>2, <1>0, <1>4
    <3>. QED
      BY <3>1, <3>3, <3>4, <2>1, <1>0, <1>3 DEF ReadItems
  <2>. QED
    BY <1>4, <2>2, <2>3 DEF ServesRead
<1>5. CASE Enqueues
  <2>0. posted' = posted + 1 /\ posted + 1 \in Int /\ UpTo(posted + 1) = Append(UpTo(posted), posted + 1)
    <3>1. posted' = posted + 1
      BY <1>5 DEF Enqueues
    <3>2. UpTo(posted + 1) = Append(UpTo(posted), posted + 1)
      BY <1>1, UpToFacts
    <3>. QED
      BY <3>1, <3>2, <1>1
  <2>1. CASE Awaited /\ R!ArriveToRead(posted + 1) /\ Hands(posted + 1)
    <3>1. rState = "open" /\ rLine = <<>> /\ UNCHANGED <<rState, rLine>> /\ slots["next"] = "waiting" /\ InSlot = <<>>
      BY <2>1 DEF R!ArriveToRead, R!Open, Awaited, InSlot
    <3>2. item' = posted + 1 /\ slots'["next"] = "ok" /\ InSlot' = <<posted + 1>>
      BY <2>1, <1>2 DEF Hands, InSlot
    <3>3. answer.items \o <<>> \o <<>> = UpTo(posted)
      BY <3>1, <1>3
    <3>4. answer.items = UpTo(posted)
      BY <3>3, <1>1
    <3>5. Len(answer.items) = posted
      BY <3>4, <1>1, UpToFacts
    <3>6. answer.items \o <<posted + 1>> \o <<>> = UpTo(posted + 1)
      <4>1. \A s \in Seq(Int) : \A x \in Int : s \o <<x>> \o <<>> = Append(s, x)
        OBVIOUS
      <4>. QED
        BY <4>1, <3>4, <2>0, <1>1
    <3>. QED
      BY <3>1, <3>2, <3>5, <3>6, <2>0, <1>0, <1>3 DEF ReadItems
  <2>2. CASE R!Arrive(posted + 1) /\ UNCHANGED item /\ Quiet
    <3>1. rState = "open" /\ rState' = rState /\ rLine' = Append(rLine, posted + 1) /\ slots' = slots /\ InSlot' = InSlot
      BY <2>2 DEF R!Arrive, R!Open, Quiet, InSlot
    <3>2. answer.items \o InSlot \o Append(rLine, posted + 1) = UpTo(posted + 1)
      <4>1. answer.items \o InSlot \in Seq(Int)
        BY <1>1
      <4>2. answer.items \o InSlot \o Append(rLine, posted + 1) = Append(answer.items \o InSlot \o rLine, posted + 1)
        <5> DEFINE g == answer.items \o InSlot
                   x == posted + 1
        <5>1. g \in Seq(Int) /\ x \in Int /\ rLine \in Seq(Int)
          BY <4>1, <2>0, <1>1
        <5> HIDE DEF g, x
        <5>2. g \o Append(rLine, x) = Append(g \o rLine, x)
          BY <5>1, IntJoins
        <5>. QED
          BY <5>2 DEF g, x
      <4>. QED
        BY <4>2, <3>1, <2>0, <1>3
    <3>. QED
      BY <3>1, <3>2, <2>0, <2>2, <1>0, <1>3 DEF ReadItems
  <2>. QED
    BY <1>5, <2>1, <2>2 DEF Enqueues
<1>6. CASE SourceEnds
  <2>1. UNCHANGED <<posted, item>>
    BY <1>6 DEF SourceEnds
  <2>2. rState = "open" /\ ~(answer.method = "next" /\ answer.res = "end") /\ slots["next"] # "end"
    BY <1>6, <1>3 DEF SourceEnds, R!CloseLater, R!End, R!Stop, R!Open
  <2>3. ASSUME NEW res \in {"end", "err"}, Ends(res)
        PROVE  InSlot' = InSlot /\ (slots' = slots \/ slots'["next"] = res)
    <3>1. slots' = slots \/ (slots["next"] = "waiting" /\ slots'["next"] = res)
      BY <2>3, <1>2 DEF Ends, Awaited, Settles
    <3>. QED
      BY <3>1, <2>1 DEF InSlot
  <2>4. CASE R!CloseLater /\ Quiet
    <3>1. UNCHANGED <<rState, rLine, slots>> /\ InSlot' = InSlot
      BY <2>1, <2>4 DEF R!CloseLater, Quiet, InSlot
    <3>. QED
      BY <3>1, <2>1, <1>0, <1>3 DEF ReadItems
  <2>5. CASE R!End /\ Ends("end")
    <3>1. rLine' = rLine /\ rLine = <<>> /\ rState' = "ended"
      BY <2>5 DEF R!End
    <3>. QED
      BY <3>1, <2>1, <2>2, <2>3, <2>5, <1>0, <1>3 DEF ReadItems
  <2>6. CASE R!Stop("errored") /\ Ends("err")
    <3>1. rState' = "errored"
      BY <2>6 DEF R!Stop
    <3>. QED
      BY <3>1, <2>1, <2>2, <2>3, <2>6, <1>0, <1>3 DEF ReadItems
  <2>. QED
    BY <1>6, <2>4, <2>5, <2>6 DEF SourceEnds
<1>. QED
  BY <1>4, <1>5, <1>6

(* A writer's send, of which the plan has room for one more.                 *)
LEMMA WriterKeeps ==
    ASSUME Parts, CallInv, CountInv, EndInv, LineInv, WriteInv, FlushInv, ReadInv, WriterWrites \/ WriterCloses
    PROVE  Parts' /\ CallInv' /\ CountInv' /\ EndInv' /\ LineInv' /\ WriteInv' /\ FlushInv' /\ ReadInv'
<1>0. WriterMove /\ UNCHANGED <<lockVars, woken>>
  BY WriterMoves
<1>1. /\ UNCHANGED <<plan, taskVars, callerVars, slotVars>> /\ plan.kind = "writer"
      /\ writers < plan.writers /\ writers' = writers + 1
  BY <1>0 DEF WriterMove
<1>2. /\ Sent \in Nat /\ MaxSent \in Nat /\ calls \in 0..plan.calls /\ writers \in 0..plan.writers /\ plan.calls \in Nat
      /\ plan.writers \in Nat /\ plan.calls + plan.writers <= MaxSent /\ cmds \in Seq(Names) /\ length \in Seq(Lengths)
      /\ Owed \in {0, 1} /\ Sent + Owed <= calls + writers /\ Sent <= MaxSent
  BY PlanFacts DEF Parts, CallOK, SentOK, Sent, Owed, CountInv
<1>3. Sent' \in {Sent, Sent + 1} /\ length' \in Seq(Lengths) /\ cmds' \in Seq(Names)
  <2>1. ASSUME NEW n \in Lengths, SendsChunk(n) PROVE Sent' = Sent + 1 /\ length' \in Seq(Lengths) /\ cmds' \in Seq(Names)
    <3>1. Sent + 1 \in Names
      BY <1>1, <1>2 DEF Names, Chunks
    <3>. QED
      BY <2>1, <3>1, <1>2 DEF SendsChunk, Sends, Sent
  <2>2. ASSUME length' = length, NEW c \in Names, cmds' = Append(cmds, c) PROVE Sent' = Sent /\ cmds' \in Seq(Names)
    BY <2>2, <1>2 DEF Sent
  <2>3. WritersClose \in Names
    BY DEF Names
  <2>. QED
    BY <2>1, <2>2, <2>3, <1>0, <1>2 DEF WriterMove
<1>4. CountInv' /\ Sent' <= MaxSent /\ writers' \in 0..plan.writers
  <2>1. Owed' = Owed
    BY <1>1 DEF Owed, callerVars, slotVars
  <2>2. calls' = calls /\ plan' = plan
    BY <1>1 DEF callerVars
  <2>3. \A s, o, c, w, pc1, pw, mx \in Int :
          /\ s + o <= c + w => s + 1 + o <= c + (w + 1) /\ s + o <= c + (w + 1)
          /\ s + o <= c + w /\ o >= 0 /\ c <= pc1 /\ w < pw /\ pc1 + pw <= mx => s + 1 <= mx
    OBVIOUS
  <2>4. Sent + 1 <= MaxSent
    BY <2>3, <1>1, <1>2
  <2>5. writers + 1 \in 0..plan.writers
    BY <1>1, <1>2
  <2>6. Sent' + Owed <= calls + (writers + 1)
    <3>1. Sent + 1 + Owed <= calls + (writers + 1) /\ Sent + Owed <= calls + (writers + 1)
      BY <2>3, <1>2
    <3>. QED
      BY <3>1, <1>3
  <2>. QED
    BY <2>1, <2>2, <2>4, <2>5, <2>6, <1>1, <1>2, <1>3 DEF CountInv
<1>5. Parts'
  <2>1. PlanOK' /\ Lock!LockTypeOK'
    BY <1>0, <1>1 DEF Parts, PlanOK, Lock!LockTypeOK, lockVars
  <2>2. WOK' /\ ROK' /\ TaskOK'
    BY <1>1 DEF Parts, WOK, ROK, TaskOK, taskVars, writableVars, readVars, readableVars
  <2>3. SentOK'
    BY <1>3, <1>4 DEF SentOK
  <2>4. CallOK'
    BY <1>1, <1>4 DEF Parts, CallOK, callerVars
  <2>5. SlotOK'
    BY <1>0, <1>1 DEF Parts, SlotOK, slotVars
  <2>. QED
    BY <2>1, <2>2, <2>3, <2>4, <2>5 DEF Parts
<1>6. CallInv' /\ EndInv'
  BY <1>1 DEF CallInv, EndInv, callerVars, slotVars, taskVars, writableVars
<1>7. LineInv'
  BY <1>0, <1>5, MovesSend, LineGrows
<1>8. WriteInv' /\ FlushInv'
  BY <1>0, <1>5, SendKeepsWrite, SendKeepsFlush
<1>9. ReadInv'
  <2>1. \E x \in Int : cmds' = Append(cmds, x) /\ x # ReadCmd
    <3>1. WritersClose \in Int /\ WritersClose # ReadCmd /\ Sent + 1 \in Int /\ Sent + 1 # ReadCmd
      BY <1>2 DEF WritersClose, ReadCmd
    <3>. QED
      BY <3>1, <1>0 DEF WriterMove, SendsChunk, Sends
  <2>2. ReadCmd \notin Elements(cmds')
    BY <2>1, <1>1, LineTypes, ElementsAppend DEF ReadInv, ReadSides
  <2>3. InSlot' = InSlot
    BY <1>1 DEF InSlot, slotVars, taskVars, readVars
  <2>4. UNCHANGED <<plan, slots, call, answer, wLine, wBusy, wClosing, wState, flags, rState, rLine, item, posted>>
    BY <1>1 DEF slotVars, callerVars, taskVars, writableVars, readVars, readableVars
  <2>5. ReadSides'
    BY <2>2, <2>4, <1>1 DEF ReadInv, ReadSides
  <2>6. ReadItems'
    BY <2>3, <2>4 DEF ReadInv, ReadItems
  <2>. QED
    BY <2>5, <2>6 DEF ReadInv
<1>. QED
  BY <1>4, <1>5, <1>6, <1>7, <1>8, <1>9

(* The tasks and the source.                                                 *)
LEMMA TaskKeeps ==
    ASSUME Parts, CallInv, CountInv, EndInv, LineInv, WriteInv, FlushInv, ReadInv, TaskWork \/ Enqueues \/ SourceEnds
    PROVE  Parts' /\ CallInv' /\ CountInv' /\ EndInv' /\ LineInv' /\ WriteInv' /\ FlushInv' /\ ReadInv'
<1>1. TaskMove
  BY TaskMoves
<1>2. Parts'
  BY TaskTypes, ReaderTypes
<1>3. EndInv' /\ LineInv' /\ WriteInv' /\ FlushInv'
  BY <1>1, TaskKeepsEnd, TaskKeepsLine, TaskKeepsWrite, TaskKeepsFlush
<1>4. ReadInv'
  BY TaskKeepsRead, ReaderKeepsSides, ReaderKeepsItems DEF ReadInv
<1>5. /\ UNCHANGED <<length, call, pc, calls>> /\ \A m \in Slots : slots[m] # Empty => slots'[m] # Empty
  BY <1>1 DEF TaskMove, callerVars, Empty
<1>6. CallInv'
  BY <1>5 DEF CallInv
<1>7. CountInv'
  <2>1. writers' = writers \/ writers' = writers + 1
    BY TaskLeaves DEF ServesRead, Enqueues, SourceEnds, Feeds
  <2>2. writers \in Nat /\ calls \in Nat /\ Sent \in Nat
    BY PlanFacts DEF Parts, CallOK, SentOK, Sent
  <2>3. Owed \in {0, 1} /\ Owed' \in {Owed, 0} /\ Sent' = Sent
    BY <1>5 DEF Owed, Sent, Slots
  <2>. QED
    BY <2>1, <2>2, <2>3, <1>5 DEF CountInv
<1>. QED
  BY <1>2, <1>3, <1>4, <1>6, <1>7

(* The caller.                                                               *)
LEMMA CallerKeeps ==
    ASSUME Parts, CallInv, CountInv, EndInv, LineInv, WriteInv, FlushInv, ReadInv, CallerNext
    PROVE  Parts' /\ CallInv' /\ CountInv' /\ EndInv' /\ LineInv' /\ WriteInv' /\ FlushInv' /\ ReadInv'
<1>1. CallerMove /\ UNCHANGED taskVars
  BY CallerMoves, CallerLeaves DEF ReadInv, ReadSides, Sides, Side
<1>2. Parts' /\ CallInv' /\ CountInv'
  BY CallerTypes, CallerCounts
<1>3. EndInv' /\ WriteInv' /\ FlushInv'
  BY <1>1, <1>2, CallerKeepsEnd, SendKeepsWrite, SendKeepsFlush
<1>4. LineInv'
  BY <1>1, <1>2, MovesSend, LineGrows
<1>5. ReadInv'
  BY <1>1, CallerKeepsSides, CallerKeepsItems DEF ReadInv
<1>. QED
  BY <1>2, <1>3, <1>4, <1>5

(* The lock.                                                                 *)
Handled == \A t \in Threads : Lock!Live(t) => refs[t] > 0

(* The lock keeps its types, and a holder its handles.                       *)
LEMMA LockKeepsTypes ==
    ASSUME Lock!LockTypeOK, Handled, PlanOK, LockStep
    PROVE  Lock!LockTypeOK' /\ Handled'
<1>0. PICK t \in Threads : Lock!LockStep(t)
  BY DEF LockStep
<1>1. MaxRefs \in Nat \ {0} /\ plan' = plan
  BY HandlesAssumption DEF LockStep
<1>2. /\ locked \in BOOLEAN /\ robbed \in BOOLEAN /\ refs \in [Threads -> 0..MaxRefs]
      /\ at \in [Threads -> {"out", "held", "clearing", "released"}] /\ plan.kind \in {"writer", "reader"}
  BY DEF Lock!LockTypeOK
<1>3. ASSUME NEW to \in {"out", "held", "clearing", "released"}, NEW n \in 0..MaxRefs,
             at' = [at EXCEPT ![t] = to], refs' = [refs EXCEPT ![t] = n], to = "held" => n > 0,
             locked' \in BOOLEAN, robbed' \in BOOLEAN
      PROVE  Lock!LockTypeOK' /\ Handled'
  <2>1. at' \in [Threads -> {"out", "held", "clearing", "released"}] /\ refs' \in [Threads -> 0..MaxRefs]
    BY <1>2, <1>3
  <2>2. Lock!LockTypeOK'
    BY <2>1, <1>1, <1>2, <1>3 DEF Lock!LockTypeOK
  <2>3. ASSUME NEW u \in Threads, at'[u] = "held" PROVE refs'[u] > 0
    <3>1. CASE u = t
      <4>1. at'[u] = to /\ refs'[u] = n
        BY <3>1, <1>2, <1>3
      <4>. QED
        BY <4>1, <2>3, <1>3
    <3>2. CASE u # t
      <4>1. at'[u] = at[u] /\ refs'[u] = refs[u]
        BY <3>2, <1>2, <1>3
      <4>. QED
        BY <4>1, <2>3 DEF Handled, Lock!Live
    <3>. QED
      BY <3>1, <3>2
  <2>. QED
    BY <2>2, <2>3 DEF Handled, Lock!Live
<1>4. at = [at EXCEPT ![t] = at[t]] /\ refs = [refs EXCEPT ![t] = refs[t]]
      /\ at[t] \in {"out", "held", "clearing", "released"} /\ refs[t] \in 0..MaxRefs
  BY <1>2
<1>5. CASE Lock!Acquire(t)
  <2>1. /\ at' = [at EXCEPT ![t] = "held"] /\ refs' = [refs EXCEPT ![t] = 1] /\ locked' \in BOOLEAN /\ robbed' \in BOOLEAN
        /\ 1 \in 0..MaxRefs
    BY <1>1, <1>2, <1>5 DEF Lock!Acquire, Lock!Goes
  <2>2. "held" \in {"out", "held", "clearing", "released"} /\ ("held" = "held" => 1 > 0)
    OBVIOUS
  <2>. QED
    BY <2>1, <2>2, <1>3
<1>6. CASE Lock!Clone(t)
  <2>1. /\ at' = at /\ at[t] = "held" /\ refs' = [refs EXCEPT ![t] = refs[t] + 1] /\ locked' \in BOOLEAN
        /\ robbed' \in BOOLEAN /\ refs[t] + 1 \in 0..MaxRefs /\ refs[t] + 1 > 0
    BY <1>1, <1>2, <1>4, <1>6 DEF Lock!Clone, Lock!Live
  <2>. QED
    BY <2>1, <1>3, <1>4
<1>7. CASE Lock!DropHandle(t)
  <2>1. /\ at[t] = "held" /\ refs[t] > 0 /\ refs' = [refs EXCEPT ![t] = refs[t] - 1] /\ locked' \in BOOLEAN
        /\ robbed' \in BOOLEAN /\ refs[t] - 1 \in 0..MaxRefs
        /\ at' = IF refs[t] = 1 THEN [at EXCEPT ![t] = "clearing"] ELSE at
    BY <1>1, <1>2, <1>4, <1>7 DEF Lock!DropHandle, Lock!Live, Handled
  <2>2. CASE refs[t] = 1
    BY <2>1, <2>2, <1>3
  <2>3. CASE refs[t] # 1
    <3>1. refs[t] - 1 > 0 /\ at' = [at EXCEPT ![t] = at[t]]
      BY <2>1, <2>3, <1>4
    <3>. QED
      BY <2>1, <3>1, <1>3, <1>4
  <2>. QED
    BY <2>2, <2>3
<1>8. CASE Lock!DropGuard(t)
  <2>1. at' = [at EXCEPT ![t] = "out"] /\ refs' = refs /\ locked' \in BOOLEAN /\ robbed' \in BOOLEAN
    BY <1>2, <1>8 DEF Lock!DropGuard, Lock!Goes
  <2>. QED
    BY <2>1, <1>3, <1>4
<1>9. CASE Lock!ReleaseLock(t)
  <2>1. at' = [at EXCEPT ![t] = "released"] /\ refs' = refs /\ locked' \in BOOLEAN /\ robbed' \in BOOLEAN
    BY <1>2, <1>9 DEF Lock!ReleaseLock, Lock!Goes
  <2>. QED
    BY <2>1, <1>3, <1>4
<1>10. CASE Lock!DropReader(t)
  <2>1. at' = [at EXCEPT ![t] = "out"] /\ refs' = [refs EXCEPT ![t] = 0] /\ locked' \in BOOLEAN
    BY <1>2, <1>10 DEF Lock!DropReader, Lock!Goes
  <2>2. robbed' \in BOOLEAN
    BY <1>2, <1>10, Zenon DEF Lock!DropReader
  <2>3. "out" \in {"out", "held", "clearing", "released"} /\ "out" # "held" /\ 0 \in 0..MaxRefs
    BY <1>1
  <2>. QED
    BY <2>1, <2>2, <2>3, <1>3
<1>. QED
  BY <1>0, <1>5, <1>6, <1>7, <1>8, <1>9, <1>10 DEF Lock!LockStep

-----------------------------------------------------------------------------
(* What every step keeps: the types, and the parts above.                    *)
HandlesInv ==
    Parts /\ Handled /\ CallInv /\ CountInv /\ EndInv /\ LineInv /\ WriteInv /\ FlushInv /\ ReadInv

(* The invariant holds at first,                                             *)
LEMMA HandlesInitInv == Init => HandlesInv
<1> SUFFICES ASSUME Init PROVE HandlesInv
  OBVIOUS
<1>0. /\ plan \in Plans /\ wState = "writable" /\ wClosing = FALSE /\ wLine = <<>> /\ wBusy = None /\ wSunk = <<>>
      /\ wEnded = None /\ rState = "open" /\ rClosing = FALSE /\ rLine = <<>> /\ rGiven = <<>> /\ posted = 0 /\ item = 0
      /\ cmds = <<>> /\ draining = FALSE /\ flags = "writable" /\ full = FALSE /\ parked = FALSE
      /\ flushLeft = 0 /\ length = <<>> /\ refused = {} /\ call = NoCall /\ pc = "idle" /\ woken = FALSE
      /\ slots = [m \in Slots |-> Empty] /\ writing = [chunk |-> 0, len |-> 0] /\ covers = 0
      /\ answer = [method |-> None, res |-> "ok", upto |-> 0, len |-> 0, items |-> <<>>]
      /\ calls = 0 /\ writers = 0
  BY DEF Init, W!Init, R!Init, None, W!None
<1>1. PlanOK /\ MaxSent \in Nat /\ plan.calls \in Nat /\ plan.writers \in Nat /\ MaxRefs \in Nat /\ plan.kind \in {"writer", "reader"}
  BY <1>0, PlanFacts, HandlesAssumption DEF PlanOK
<1>2. \A T : <<>> \in Seq(T)
  OBVIOUS
<1>3. Sent = 0 /\ Busy = 0 /\ Ahead = 0 /\ Owed = 0 /\ InSlot = <<>>
  <2>1. Len(<<>>) = 0
    OBVIOUS
  <2>. QED
    BY <1>0, <2>1 DEF Sent, Busy, Ahead, Owed, None, NoCall, InSlot, Slots, Empty
<1>4. Parts
  <2>1. Lock!LockTypeOK
    <3>1. locked = FALSE /\ robbed = FALSE /\ at = [t \in Threads |-> "out"] /\ refs = [t \in Threads |-> 0]
      BY DEF Init, Lock!LockInit
    <3>2. 0 \in 0..MaxRefs
      BY HandlesAssumption
    <3>3. at \in [Threads -> {"out", "held", "clearing", "released"}] /\ refs \in [Threads -> 0..MaxRefs]
      BY <3>1, <3>2
    <3>. QED
      BY <3>1, <3>3, <1>1 DEF Lock!LockTypeOK
  <2>2. WOK /\ ROK /\ TaskOK
    <3>1. <<>> \in Seq(Chunks) /\ <<>> \in Seq([read : {"next"}, chunk : Chunks]) /\ 0 \in 0..MaxSent
      BY <1>1, <1>2
    <3>2. WOK
      BY <1>0, <3>1 DEF WOK, None
    <3>3. ROK
      BY <1>0, <3>1 DEF ROK
    <3>4. TaskOK
      BY <1>0 DEF TaskOK
    <3>. QED
      BY <3>2, <3>3, <3>4
  <2>3. SentOK
    BY <1>0, <1>1, <1>2, <1>3 DEF SentOK
  <2>4. answer \in Answered
    BY <1>0, <1>1, <1>2 DEF Answered
  <2>5. CallOK
    BY <1>0, <1>1, <2>4 DEF CallOK, NoCall
  <2>6. SlotOK
    <3>1. 0 \in 0..MaxSent /\ 0 \in Lengths \cup {0}
      BY <1>1
    <3>2. writing \in [chunk : 0..MaxSent, len : Lengths \cup {0}]
      BY <1>0, <3>1
    <3>3. slots \in [Slots -> Answerable]
      BY <1>0 DEF Answerable, Empty
    <3>. QED
      BY <1>0, <3>1, <3>2, <3>3 DEF SlotOK, Answerable, Empty
  <2>. QED
    BY <1>1, <2>1, <2>2, <2>3, <2>5, <2>6 DEF Parts
<1>5. Handled
  BY DEF Init, Lock!LockInit, Handled, Lock!Live
<1>6. CallInv /\ CountInv /\ EndInv
  BY <1>0, <1>3 DEF CallInv, CountInv, EndInv, NoCall, None, Empty, Slots
<1>7. LineInv
  <2>1. Line = <<>>
    <3>1. Filter(<<>>, Chunks) = <<>>
      BY FilterEmpty
    <3>2. <<>> \o <<>> \o <<>> = <<>>
      OBVIOUS
    <3>. QED
      BY <1>0, <3>1, <3>2 DEF Line
  <2>2. Elements(<<>>) = {} /\ Ascends(<<>>)
    BY DEF Elements, Ascends
  <2>3. 1..0 = {}
    OBVIOUS
  <2>. QED
    BY <1>0, <1>3, <2>1, <2>2, <2>3 DEF LineInv
<1>8. WriteInv
  BY <1>0 DEF WriteInv, None, Slots, Empty
<1>9. FlushInv
  <2>1. Elements(cmds) = {} /\ Apart(cmds, covers)
    BY <1>0 DEF Elements, Apart
  <2>. QED
    BY <1>0, <1>3, <2>1 DEF FlushInv, FlushCount, FlushAsked, FlushWaits, FlushTrue, Slots, Empty, None
<1>10. ReadInv
  <2>1. Elements(cmds) = {}
    BY <1>0 DEF Elements
  <2>2. UpTo(0) = <<>> /\ <<>> \o <<>> \o <<>> = <<>> /\ Len(<<>>) = 0
    BY DEF UpTo
  <2>3. ReadSides
    BY <1>0, <2>1 DEF ReadSides, Slots, Empty, NoCall, None
  <2>4. ReadItems
    BY <1>0, <1>3, <2>2 DEF ReadItems, Slots, Empty, None
  <2>. QED
    BY <2>3, <2>4 DEF ReadInv
<1>. QED
  BY <1>4, <1>5, <1>6, <1>7, <1>8, <1>9, <1>10 DEF HandlesInv

(* and every step keeps it.                                                  *)
LEMMA HandlesKept == HandlesInv /\ [Next]_vars => HandlesInv'
<1> SUFFICES ASSUME HandlesInv, [Next]_vars PROVE HandlesInv'
  OBVIOUS
<1>0. Parts /\ Handled /\ CallInv /\ CountInv /\ EndInv /\ LineInv /\ WriteInv /\ FlushInv /\ ReadInv
  BY DEF HandlesInv
<1>1. UNCHANGED <<at, refs>> => Handled'
  BY <1>0 DEF Handled, Lock!Live
<1>2. CASE CallerNext
  <2>1. Handled'
    BY <1>1, <1>2, CallerLeaves DEF lockVars
  <2>. QED
    BY <1>0, <1>2, <2>1, CallerKeeps DEF HandlesInv
<1>3. CASE WriterWrites \/ WriterCloses
  <2>1. Handled'
    BY <1>1, <1>3, WriterMoves DEF lockVars
  <2>. QED
    BY <1>0, <1>3, <2>1, WriterKeeps DEF HandlesInv
<1>4. CASE TaskWork \/ Enqueues \/ SourceEnds
  <2>1. Handled'
    BY <1>1, <1>4, TaskLeaves DEF lockVars, ServesRead, Enqueues, SourceEnds, Feeds, ReaderStep
  <2>. QED
    BY <1>0, <1>4, <2>1, TaskKeeps DEF HandlesInv
<1>5. CASE LockStep \/ UNCHANGED vars
  <2>0. UNCHANGED <<plan, taskVars, sentVars, callerVars, woken, slotVars, writers>>
    BY <1>5 DEF LockStep, vars
  <2>1. Lock!LockTypeOK' /\ Handled'
    <3>1. CASE LockStep
      BY <3>1, <1>0, LockKeepsTypes DEF Parts
    <3>2. CASE UNCHANGED vars
      BY <3>2, <1>0, <1>1 DEF Parts, Lock!LockTypeOK, vars, lockVars
    <3>. QED
      BY <1>5, <3>1, <3>2
  <2>2. PlanOK' /\ WOK' /\ ROK' /\ TaskOK' /\ SentOK' /\ CallOK' /\ SlotOK'
    BY <2>0, <1>0 DEF Parts, PlanOK, WOK, ROK, TaskOK, SentOK, CallOK, SlotOK, taskVars, sentVars, callerVars, slotVars,
       writableVars, readVars, readableVars, Sent
  <2>3. Parts'
    BY <2>1, <2>2 DEF Parts
  <2>4. CallInv' /\ CountInv' /\ EndInv'
    BY <2>0, <1>0 DEF CallInv, CountInv, EndInv, taskVars, sentVars, callerVars, slotVars, writableVars, Sent, Owed
  <2>5. LineInv' /\ WriteInv'
    BY <2>0, <1>0 DEF LineInv, WriteInv, Line, taskVars, sentVars, callerVars, slotVars, writableVars, Sent
  <2>6. FlushInv'
    BY <2>0, <1>0 DEF FlushInv, FlushCount, FlushAsked, FlushWaits, FlushTrue, taskVars, sentVars, callerVars, slotVars,
       writableVars, Sent, Ahead, Busy, UnderWay
  <2>7. ReadInv'
    BY <2>0, <1>0 DEF ReadInv, ReadSides, ReadItems, InSlot, taskVars, sentVars, callerVars, slotVars, writableVars, readVars,
       readableVars
  <2>. QED
    BY <2>1, <2>3, <2>4, <2>5, <2>6, <2>7 DEF HandlesInv
<1>. QED
  BY <1>2, <1>3, <1>4, <1>5 DEF Next, CallerNext

(* No step of the polls, of the writers, of the lock or of the two tasks      *)
(* leaves a value of the wrong kind behind: the channel holds known commands, *)
(* a slot one answer, the lock's count its bound, and the chunks sent never   *)
(* more than the plan allows (TypeOK; poll_ready .. poll_next, StreamLock).   *)
THEOREM HandlesTypes == Spec => []TypeOK
<1>1. HandlesInv => TypeOK
  BY TypeParts DEF HandlesInv
<1>. QED
  BY HandlesInitInv, HandlesKept, <1>1, PTL DEF Spec

(* What it says of the answers.                                              *)
LEMMA InvAnswers == HandlesInv => AnswersTrue
<1> SUFFICES ASSUME HandlesInv PROVE AnswersTrue
  OBVIOUS
<1>0. Parts /\ EndInv /\ LineInv /\ WriteInv /\ FlushInv /\ ReadItems
  BY DEF HandlesInv, ReadInv
<1>1. \A c : Lands(wSunk, wBusy, c) = Landed(c)
  BY DEF Lands, Landed
<1>2. answer.res = "ok" =>
        /\ answer.method = "write" => Landed(answer.upto) /\ answer.len = length[answer.upto]
        /\ answer.method = "flush" => \A c \in 1..answer.upto : Landed(c) \/ c \in refused
        /\ answer.method = "close" => wState = "closed"
  BY <1>0, <1>1 DEF WriteInv, FlushInv, FlushTrue, EndInv, Over
<1>3. wState # "errored" => Line = Filter(UpTo(Sent), Chunks \ refused)
  <2>1. SUFFICES ASSUME wState # "errored" PROVE Line = Filter(UpTo(Sent), Chunks \ refused)
    OBVIOUS
  <2>2. Line \in Seq(Int) /\ Sent \in Nat /\ Sent <= MaxSent /\ MaxSent \in Nat
    BY <1>0, LineTypes DEF Parts, SentOK
  <2>3. refused \subseteq 1..Sent /\ Ascends(Line) /\ Elements(Line) = 1..Sent \ refused
    BY <1>0, <2>1 DEF LineInv
  <2>4. Line \in Seq(Nat)
    <3> DEFINE s == Line
    <3>1. s \in Seq(Int) /\ \A k \in 1..Len(s) : s[k] \in 1..Sent
      BY <2>2, <2>3 DEF Elements
    <3> HIDE DEF s
    <3>2. s \in Seq(Nat)
      <4>1. s \in [1..Len(s) -> Int] /\ Len(s) \in Nat
        BY <3>1
      <4>2. \A k \in 1..Len(s) : s[k] \in Nat
        BY <3>1, <2>2
      <4>3. s \in [1..Len(s) -> Nat]
        BY <4>1, <4>2
      <4>. QED
        BY <4>1, <4>3, SeqDef
    <3>. QED
      BY <3>2 DEF s
  <2>5. Elements(Line) = (Chunks \ refused) \cap (1..Sent)
    BY <2>2, <2>3 DEF Chunks
  <2>. QED
    BY <2>2, <2>3, <2>4, <2>5, FilterIsOrder
<1>. QED
  BY <1>0, <1>2, <1>3 DEF AnswersTrue, ReadItems, Line

(* For every plan, however polls are interleaved, given up and taken up again *)
(* by a later call that finds their receiver: Ok of poll_write, poll_flush    *)
(* and poll_close is true of what it was asked for, no chunk is lost or       *)
(* overtaken on its way through the channel, and poll_next yields the         *)
(* source's chunks in order, its end after the last (AnswersTrue).            *)
THEOREM HandlesAnswers == Spec => []AnswersTrue
  BY HandlesInitInv, HandlesKept, InvAnswers, PTL DEF Spec
=============================================================================
