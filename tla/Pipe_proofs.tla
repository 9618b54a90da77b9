------------------------------ MODULE Pipe_proofs ------------------------------
(***************************************************************************)
(* Proofs about Pipe and the AbortSignal it waits on, for every set of     *)
(* plans, any number of chunks and any number of abort() calls: the signal *)
(* by itself, for any set of futures that wait; the composition, which     *)
(* adds no behaviour to the components it is made of; and the promises of  *)
(* the pipe.                                                               *)
(***************************************************************************)
EXTENDS PipeProps, Facts

\* The AbortSignal with any set of futures.
Any(Observers) == INSTANCE AbortSignal

-----------------------------------------------------------------------------
(* The AbortSignal                                                          *)

(* The lock of the reason is held from the check to the store, so only one  *)
(* call gets past the check, and it is the one whose reason is there when    *)
(* the flag goes up.                                                         *)
SignalLock(O) ==
    /\ \A t \in Triggers : tpc[t] \in {"locked", "stores", "stored"} => lock = t
    /\ \A t \in Triggers : tpc[t] = "stores" => ~aborted /\ reason = t
    /\ aborted => reason # Any(O)!None

(* A future that is past the flag read it up, and read the reason after that. *)
SignalSeen(O) ==
    /\ \A o \in O : opc[o] \in {"ready", "read"} => aborted
    /\ \A o \in O : opc[o] = "read" => seen[o] = reason

(* A parked future is in the waker set until the call that takes the set      *)
(* wakes it; one that parked before the flag went up is still owed a wake-up. *)
SignalWake(O) ==
    /\ \A o \in O : opc[o] \in {"recheck", "parked"} => o \in wakers \cup roused
    /\ Any(O)!AbortNotMissed

SignalInv(O) == Any(O)!TypeOK /\ SignalLock(O) /\ SignalSeen(O) /\ SignalWake(O)

(* The invariant holds of a signal nobody has used.                          *)
LEMMA SignalStarts == ASSUME NEW O PROVE Any(O)!Init => SignalInv(O)
  BY DEF Any!Init, SignalInv, Any!TypeOK, SignalLock, SignalSeen, SignalWake, Any!AbortNotMissed,
     Any!None

(* Every step of a call or of a future keeps the types (TypeOK).             *)
LEMMA SignalTypes == ASSUME NEW O PROVE Any(O)!TypeOK /\ [Any(O)!Next]_(Any(O)!vars) => Any(O)!TypeOK'
<1> SUFFICES ASSUME Any(O)!TypeOK, [Any(O)!Next]_(Any(O)!vars) PROVE Any(O)!TypeOK'
  OBVIOUS
<1>1. ASSUME NEW t \in Triggers, Any(O)!TriggerStep(t) PROVE Any(O)!TypeOK'
  BY <1>1 DEF Any!TypeOK, Any!TriggerStep, Any!Lock, Any!Check, Any!Store, Any!Unlock, Any!WakeAll,
     Any!TriggerGoes
<1>2. ASSUME NEW o \in O, Any(O)!ObserverStep(o) PROVE Any(O)!TypeOK'
  BY <1>2 DEF Any!TypeOK, Any!ObserverStep, Any!Poll, Any!Register, Any!Recheck, Any!ReadReason,
     Any!ObserverGoes
<1>3. CASE UNCHANGED Any(O)!vars
  BY <1>3 DEF Any!TypeOK, Any!vars
<1>. QED
  BY <1>1, <1>2, <1>3 DEF Any!Next

(* A step of a call of abort() keeps the lock, the reason and the flag       *)
(* consistent (trigger).                                                     *)
LEMMA CallKeeps ==
    ASSUME NEW O, Any(O)!None \notin Triggers, SignalInv(O), NEW t \in Triggers, Any(O)!TriggerStep(t)
    PROVE  SignalLock(O)' /\ SignalSeen(O)' /\ SignalWake(O)'
<1> USE DEF SignalInv, Any!TypeOK
<1>1. CASE Any(O)!Lock(t)
  BY <1>1 DEF Any!Lock, Any!TriggerGoes, SignalLock, SignalSeen, SignalWake, Any!AbortNotMissed,
     Any!None
<1>2. CASE Any(O)!Check(t)
  BY <1>2 DEF Any!Check, Any!TriggerGoes, SignalLock, SignalSeen, SignalWake, Any!AbortNotMissed,
     Any!None
<1>3. CASE Any(O)!Store(t)
  <2>1. SignalLock(O)' /\ SignalSeen(O)'
    BY <1>3 DEF Any!Store, Any!TriggerGoes, SignalLock, SignalSeen, Any!None
  <2>2. SignalWake(O)'
    BY <1>3 DEF Any!Store, Any!TriggerGoes, SignalWake, Any!AbortNotMissed
  <2>. QED
    BY <2>1, <2>2
<1>4. CASE Any(O)!Unlock(t)
  BY <1>4 DEF Any!Unlock, Any!TriggerGoes, SignalLock, SignalSeen, SignalWake, Any!AbortNotMissed,
     Any!None
<1>5. CASE Any(O)!WakeAll(t)
  BY <1>5 DEF Any!WakeAll, Any!TriggerGoes, SignalLock, SignalSeen, SignalWake, Any!AbortNotMissed,
     Any!None
<1>. QED
  BY <1>1, <1>2, <1>3, <1>4, <1>5 DEF Any!TriggerStep

(* A step of a future that waits keeps them too (aborted_future).            *)
LEMMA ObserverKeeps ==
    ASSUME NEW O, SignalInv(O), NEW o \in O, Any(O)!ObserverStep(o)
    PROVE  SignalLock(O)' /\ SignalSeen(O)' /\ SignalWake(O)'
<1> USE DEF SignalInv, Any!TypeOK
<1>1. CASE Any(O)!Poll(o)
  BY <1>1 DEF Any!Poll, Any!ObserverGoes, SignalLock, SignalSeen, SignalWake, Any!AbortNotMissed
<1>2. CASE Any(O)!Register(o)
  BY <1>2 DEF Any!Register, Any!ObserverGoes, SignalLock, SignalSeen, SignalWake, Any!AbortNotMissed
<1>3. CASE Any(O)!Recheck(o)
  BY <1>3 DEF Any!Recheck, Any!ObserverGoes, SignalLock, SignalSeen, SignalWake, Any!AbortNotMissed
<1>4. CASE Any(O)!ReadReason(o)
  BY <1>4 DEF Any!ReadReason, Any!ObserverGoes, SignalLock, SignalSeen, SignalWake, Any!AbortNotMissed
<1>. QED
  BY <1>1, <1>2, <1>3, <1>4 DEF Any!ObserverStep

(* The invariant is inductive.                                               *)
LEMMA SignalKeeps ==
    ASSUME NEW O, Any(O)!None \notin Triggers
    PROVE  SignalInv(O) /\ [Any(O)!Next]_(Any(O)!vars) => SignalInv(O)'
<1> SUFFICES ASSUME SignalInv(O), [Any(O)!Next]_(Any(O)!vars) PROVE SignalInv(O)'
  OBVIOUS
<1>1. Any(O)!TypeOK'
  BY SignalTypes DEF SignalInv
<1>2. CASE UNCHANGED Any(O)!vars
  BY <1>2 DEF SignalInv, Any!TypeOK, SignalLock, SignalSeen, SignalWake, Any!AbortNotMissed, Any!vars
<1>. QED
  BY <1>1, <1>2, CallKeeps, ObserverKeeps DEF Any!Next, SignalInv

(* It gives what the signal promises.                                        *)
LEMMA SignalPromises == ASSUME NEW O PROVE SignalInv(O) => Any(O)!OneReason /\ Any(O)!AbortNotMissed
  BY DEF SignalInv, SignalLock, SignalSeen, SignalWake, Any!OneReason

(* A future that has seen the abort has the reason of the one call that       *)
(* raised the flag, and no future sleeps through an abort, however many calls *)
(* and futures there are (OneReason, AbortNotMissed).                         *)
THEOREM SignalCorrect ==
    ASSUME NEW CONSTANT O, Any(O)!None \notin Triggers
    PROVE  Any(O)!Spec => [](Any(O)!OneReason /\ Any(O)!AbortNotMissed)
<1>. QED
  BY SignalStarts, SignalKeeps, SignalPromises, PTL DEF Any!Spec

(* Once the flag is up the reason is never replaced (ReasonPinned).           *)
THEOREM ReasonStays == ASSUME NEW CONSTANT O PROVE Any(O)!Spec => Any(O)!ReasonPinned
<1>1. Any(O)!TypeOK /\ [Any(O)!Next]_(Any(O)!vars) => [aborted => reason' = reason]_(Any(O)!vars)
  BY DEF Any!TypeOK, Any!Next, Any!vars, Any!TriggerStep, Any!Lock, Any!Check, Any!Store, Any!Unlock,
     Any!WakeAll, Any!TriggerGoes, Any!ObserverStep, Any!Poll, Any!Register, Any!Recheck,
     Any!ReadReason, Any!ObserverGoes
<1>2. Any(O)!Init => Any(O)!TypeOK
  BY SignalStarts DEF SignalInv
<1>. QED
  BY <1>1, <1>2, SignalTypes, PTL DEF Any!Spec, Any!ReasonPinned

-----------------------------------------------------------------------------
(* Which steps touch which component                                        *)

(* The source leaves the signal and the destination alone. *)
LEMMA SourceWorkFrame == SourceWork => UNCHANGED signalVars /\ UNCHANGED writableVars
  BY DEF SourceWork, SourceStep, Serve, AnswerEnd, CancelSource, CancelReturns, destVars

(* So do its producers. *)
LEMMA FeedFrame == Post \/ EndSource \/ FailSource \/ FailSourceLate => UNCHANGED signalVars /\ UNCHANGED writableVars
  BY DEF Post, EndSource, FailSource, FailSourceLate, SourceStep, destVars

(* The destination leaves the signal and the source alone. *)
LEMMA DestWorkFrame == DestWork \/ ControllerErrors => UNCHANGED signalVars /\ UNCHANGED readableVars
<1>1. DestStep => UNCHANGED signalVars /\ UNCHANGED readableVars
  BY DEF DestStep, sourceVars
<1>2. ControllerErrors => DestStep
  BY DEF ControllerErrors, Drives
<1>3. DestWork => DestStep
  BY DEF DestWork, CommandWrite, CommandReady, CommandClose, CommandAbort, Takes, PollEnds, BeginWrite,
         WriteReturns, WriteFails, BeginClose, CloseReturns, AbortReturns, BeginAbort, AbortSettles,
         Dispatches, Drives
<1>. QED
  BY <1>1, <1>2, <1>3

(* The pipe's own steps leave the signal and both contracts alone. *)
LEMMA PipeWorkFrame == PipeWork => UNCHANGED <<signalVars, readableVars, writableVars>>
  BY DEF PipeWork, ReadyPoll, ReadyRecheck, SendRead, NoticesClosed, Forward, PropagatesEnd,
         PropagatesError, CancelDone, CloseDone, AbortDone, SignalFires, SignalAborts, SignalDone,
         PipeStep, Stays

(* A call of abort() leaves both streams alone. *)
LEMMA SignalFrame == CallAbort \/ SignalWork => UNCHANGED <<readableVars, writableVars>>
  BY DEF CallAbort, SignalWork, SignalStep, sourceVars, destVars

-----------------------------------------------------------------------------
(* The signal inside the pipe                                               *)

(* Every step of the pipe is a step of the AbortSignal or leaves it alone.   *)
LEMMA SignalSteps == [Next]_vars => [Any({ThePipe})!Next]_(Any({ThePipe})!vars)
<1> SUFFICES ASSUME [Next]_vars PROVE [Any({ThePipe})!Next]_(Any({ThePipe})!vars)
  OBVIOUS
<1>1. CASE CallAbort \/ SignalWork
  <2>1. ASSUME NEW t \in Triggers,
               Signal!Lock(t) \/ Signal!Check(t) \/ Signal!Store(t) \/ Signal!Unlock(t) \/ Signal!WakeAll(t)
        PROVE  Any({ThePipe})!Next
    <3>1. Signal!Lock(t) => Any({ThePipe})!Lock(t)
      BY DEF Signal!Lock, Signal!TriggerGoes, Signal!None,
         Any!Lock, Any!TriggerGoes, Any!None
    <3>2. Signal!Check(t) => Any({ThePipe})!Check(t)
      BY DEF Signal!Check, Signal!TriggerGoes, Signal!None,
         Any!Check, Any!TriggerGoes, Any!None
    <3>3. Signal!Store(t) => Any({ThePipe})!Store(t)
      BY DEF Signal!Store, Signal!TriggerGoes, Any!Store, Any!TriggerGoes
    <3>4. Signal!Unlock(t) => Any({ThePipe})!Unlock(t)
      BY DEF Signal!Unlock, Signal!TriggerGoes, Signal!None,
         Any!Unlock, Any!TriggerGoes, Any!None
    <3>5. Signal!WakeAll(t) => Any({ThePipe})!WakeAll(t)
      BY DEF Signal!WakeAll, Signal!TriggerGoes, Any!WakeAll, Any!TriggerGoes
    <3>. QED
      BY <2>1, <3>1, <3>2, <3>3, <3>4, <3>5 DEF Any!Next, Any!TriggerStep
  <2>2. ASSUME Signal!ObserverStep(ThePipe) PROVE Any({ThePipe})!Next
    <3>1. Signal!Poll(ThePipe) => Any({ThePipe})!Poll(ThePipe)
      BY DEF Signal!Poll, Signal!ObserverGoes, Any!Poll, Any!ObserverGoes
    <3>2. Signal!Register(ThePipe) => Any({ThePipe})!Register(ThePipe)
      BY DEF Signal!Register, Signal!ObserverGoes, Any!Register, Any!ObserverGoes
    <3>3. Signal!Recheck(ThePipe) => Any({ThePipe})!Recheck(ThePipe)
      BY DEF Signal!Recheck, Signal!ObserverGoes, Any!Recheck, Any!ObserverGoes
    <3>4. Signal!ReadReason(ThePipe) => Any({ThePipe})!ReadReason(ThePipe)
      BY DEF Signal!ReadReason, Signal!ObserverGoes, Signal!None,
         Any!ReadReason, Any!ObserverGoes, Any!None
    <3>. QED
      BY <2>2, <3>1, <3>2, <3>3, <3>4 DEF Signal!ObserverStep, Any!Next, Any!ObserverStep
  <2>. QED
    BY <1>1, <2>1, <2>2 DEF CallAbort, SignalWork, SignalStep
<1>2. CASE UNCHANGED signalVars
  BY <1>2 DEF signalVars, Any!vars
<1>. QED
  BY <1>1, <1>2, SourceWorkFrame, FeedFrame, DestWorkFrame, PipeWorkFrame DEF Next, vars

(* Of the calls of abort() that race, the pipe reads the reason of the one    *)
(* that raised the flag, and sleeps through none (FirstAbortWins).            *)
THEOREM PipeSeesFirstAbort == Spec => []FirstAbortWins
<1>1. None \notin Triggers
  BY PipeAssumption DEF None
<1>2. Any({ThePipe})!Spec => [](Any({ThePipe})!OneReason /\ Any({ThePipe})!AbortNotMissed)
  <2>1. Any({ThePipe})!None \notin Triggers
    BY <1>1 DEF None, Any!None
  <2>2. Any({ThePipe})!Init => SignalInv({ThePipe})
    BY SignalStarts
  <2>3. SignalInv({ThePipe}) /\ [Any({ThePipe})!Next]_(Any({ThePipe})!vars) => SignalInv({ThePipe})'
    BY <2>1, SignalKeeps
  <2>4. SignalInv({ThePipe}) => Any({ThePipe})!OneReason /\ Any({ThePipe})!AbortNotMissed
    BY SignalPromises
  <2>. QED
    BY <2>2, <2>3, <2>4, PTL DEF Any!Spec
<1>3. Init => Any({ThePipe})!Init
  BY DEF Init, Signal!Init, Signal!None, Any!Init, Any!None
<1>4. Any({ThePipe})!OneReason /\ Any({ThePipe})!AbortNotMissed => FirstAbortWins
  BY DEF FirstAbortWins, Signal!OneReason, Signal!AbortNotMissed, Signal!None,
     Any!OneReason, Any!AbortNotMissed, Any!None
<1>. QED
  BY <1>2, <1>3, <1>4, SignalSteps, PTL DEF Spec, Any!Spec

-----------------------------------------------------------------------------
(* The two contracts                                                        *)

(* The source is never given more chunks than the plan allows.               *)
Posted == plan \in Plans /\ posted \in Nat

(* The plan stays one of the plans. *)
LEMMA PostedHolds == Spec => []Posted
<1>1. Init => Posted
  BY DEF Init, Posted
<1>2. Posted /\ [Next]_vars => Posted'
  <2>1. UNCHANGED plan /\ (posted' = posted + 1 \/ UNCHANGED posted) /\ Posted => Posted'
    BY DEF Posted
  <2>2. SourceWork \/ EndSource \/ FailSource \/ FailSourceLate => UNCHANGED <<plan, posted>>
    BY DEF SourceWork, EndSource, FailSource, FailSourceLate, SourceStep, Serve, AnswerEnd, CancelSource, CancelReturns
  <2>3. Post => UNCHANGED plan /\ posted' = posted + 1
    BY DEF Post, SourceStep
  <2>4. DestWork \/ ControllerErrors => UNCHANGED <<plan, posted>>
    BY DEF DestWork, CommandWrite, CommandReady, CommandClose, CommandAbort, Takes, PollEnds, BeginWrite,
           WriteReturns, WriteFails, BeginClose, CloseReturns, AbortReturns, BeginAbort, AbortSettles,
           Dispatches, Drives, ControllerErrors, DestStep, sourceVars
  <2>5. PipeWork => UNCHANGED <<plan, posted>>
    BY DEF PipeWork, ReadyPoll, ReadyRecheck, SendRead, NoticesClosed, Forward, PropagatesEnd,
           PropagatesError, CancelDone, CloseDone, AbortDone, SignalFires, SignalAborts, SignalDone,
           PipeStep, Stays
  <2>6. CallAbort \/ SignalWork => UNCHANGED <<plan, posted>>
    BY DEF CallAbort, SignalWork, SignalStep, sourceVars
  <2>7. UNCHANGED vars => UNCHANGED <<plan, posted>>
    BY DEF vars, sourceVars
  <2>. QED
    BY <2>1, <2>2, <2>3, <2>4, <2>5, <2>6, <2>7 DEF Next
<1>. QED
  BY <1>1, <1>2, PTL DEF Spec

(* What the pipe does to its source is what ReadableEnd allows.              *)
LEMMA SourceSteps == Posted /\ [Next]_vars => [S!Next]_readableVars
<1> SUFFICES ASSUME Posted, [Next]_vars PROVE [S!Next]_readableVars
  OBVIOUS
<1>1. CASE Post
  <2>1. posted + 1 \in Chunks
    BY <1>1, PipeAssumption DEF Post, Posted, Chunks
  <2>. QED
    BY <1>1, <2>1 DEF Post, S!Next
<1>2. CASE EndSource \/ FailSource \/ FailSourceLate
  BY <1>2 DEF EndSource, FailSource, FailSourceLate, S!Next
<1>3. CASE SourceWork
  BY <1>3 DEF SourceWork, Serve, AnswerEnd, CancelSource, CancelReturns, S!Next
<1>4. CASE UNCHANGED vars
  BY <1>4 DEF vars, sourceVars
<1>. QED
  BY <1>1, <1>2, <1>3, <1>4, DestWorkFrame, PipeWorkFrame, SignalFrame DEF Next

(* What it does to its destination is what WritableEnd allows.               *)
LEMMA DestSteps == [Next]_vars => [W!Next]_writableVars
<1> SUFFICES ASSUME [Next]_vars PROVE [W!Next]_writableVars
  OBVIOUS
<1>1. CASE ControllerErrors
  BY <1>1 DEF ControllerErrors, W!Next
<1>2. CASE DestWork
  BY <1>2 DEF DestWork, CommandWrite, CommandReady, CommandClose, CommandAbort, PollEnds, BeginWrite,
     WriteReturns, WriteFails, BeginClose, CloseReturns, AbortReturns, BeginAbort, AbortSettles, W!Next
<1>3. CASE UNCHANGED vars
  BY <1>3 DEF vars, destVars
<1>. QED
  BY <1>1, <1>2, <1>3, FeedFrame, SourceWorkFrame, PipeWorkFrame, SignalFrame DEF Next

(* The composition is sound: whatever the pipe, the tasks and the callers do  *)
(* together, its source takes only steps of the contract ReadableStream       *)
(* implements and its destination only steps of the one WritableStream does.  *)
THEOREM PipeKeepsContracts == Spec => [][S!Next]_readableVars /\ [][W!Next]_writableVars
<1>. QED
  BY PostedHolds, SourceSteps, DestSteps, PTL DEF Spec

-----------------------------------------------------------------------------
(* The invariant of the pipe                                                *)

\* The chunks are numbered in the order in which the source is given them.
Upto(n) == [k \in 1..n |-> k]

(* The source hands its chunks out in that order; while it can still hand   *)
(* any out, and once it has ended, none is missing, whether or not a pull   *)
(* fails late.                                                              *)
SourceInv ==
    /\ \A k \in 1..Len(sGiven) : sGiven[k].chunk = k
    /\ Len(sGiven) <= posted /\ posted <= plan.chunks
    /\ sState = "open" => posted = Len(sGiven) + Len(sLine)
                       /\ \A k \in 1..Len(sLine) : sLine[k] = Len(sGiven) + k
    /\ sState = "ended" => posted = Len(sGiven)
    /\ reply = "end" => sState # "open" /\ (canceling = None => sState # "canceled" /\ posted = Len(sGiven))
    /\ reply = "err" => sState = "errored"
    /\ reply = "chunk" => sGiven # <<>>

(* A read is out only while the pipe waits for it, or after the pipe has    *)
(* given up on it.                                                          *)
ReplyInv ==
    /\ pc \in {"ready", "recheck", "readyWaits", "read", "close", "abort"} => reply = None
    /\ pc = "race" => reply # None
    /\ closeAnswer # None => /\ reply = None /\ ~Prevented("close")
                             /\ sState \in {"ended", "errored"} /\ posted = Len(sGiven)

(* Where the pipe is tells what it has asked of the two ends.               *)
PathInv ==
    /\ pc \in {"ready", "recheck", "readyWaits", "read", "race", "close"} => failure = None
    /\ pc \in {"ready", "recheck", "readyWaits", "read", "race", "cancel", "abort"} => closeAnswer = None
    /\ pc = "close" => closeAnswer # None
    /\ pc = "cancel" => failure \in {"write", "closed"} /\ canceling # None
    /\ pc = "abort" => failure = "read" /\ abortAnswer # None
    /\ pc = "signalCancel" => failure = "aborted" /\ canceling # None
    /\ pc = "signalAbort" => failure = "aborted" /\ canceling \in {"ok", "err"} /\ abortAnswer # None
    /\ failure = None => canceling = None /\ abortAnswer = None
    /\ (pc = "done") = (outcome # None)
    /\ outcome = "ok" => failure = None /\ (Prevented("close") \/ closeAnswer = "ok")
    /\ pc = "done" /\ failure \in {"write", "closed", "aborted"} => Prevented("cancel") \/ canceling \in {"ok", "err"}
    /\ pc = "done" /\ failure \in {"read", "aborted"} => Prevented("abort") \/ abortAnswer \in {"ok", "err"}

(* What is prevented is never asked for; what has been asked for has        *)
(* reached the end it was for by the time it is answered.                   *)
CancelInv ==
    /\ Prevented("cancel") => canceling \in {None, "ok"}
    /\ canceling \in {"running", "ok", "err"} => Prevented("cancel") \/ sState # "open"
    /\ sState = "canceled" => canceling # None /\ ~Prevented("cancel")

Sent == {cmds[k] : k \in 1..Len(cmds)}

AbortInv ==
    /\ Prevented("abort") => abortAnswer = None
    /\ AbortCmd \in Sent => abortAnswer # None
    /\ abortAnswer \in {"ok", "err"} => wState # "writable"
    /\ wBusy = "abort" => wState # "writable"
    /\ wEnded = "abort" => abortAnswer # None
    /\ wClosing /\ wState # "writable" => abortAnswer # None

(* The close is the last command but for aborts, and nothing is left to     *)
(* write once it has been accepted.                                         *)
CloseLast ==
    \A k \in 1..Len(cmds) : cmds[k] = CloseCmd => \A j \in k + 1..Len(cmds) : cmds[j] = AbortCmd

CloseInv ==
    /\ closeAnswer = None => ~wClosing
    /\ CloseCmd \in Sent => closeAnswer = "waiting" /\ ~wClosing
    /\ wClosing => Sent \subseteq {AbortCmd}
    /\ wBusy = "close" => wClosing /\ wLine = <<>>
    /\ wEnded = "close" => closeAnswer # None \/ plan.dest = "closed"
    /\ failure = None /\ closeAnswer = "waiting" => wClosing \/ CloseCmd \in Sent
    /\ failure = None /\ closeAnswer = "ok" => wState = "closed" /\ wSunk = Upto(Len(sGiven))
    /\ closeAnswer = "ok" => ~wClosing

(* While the destination is writable it has, or has coming, every chunk the *)
(* pipe has read and passed on.                                             *)
KeptInv == wState = "writable" => wSunk \o wLine \o Writes = Upto(Len(sGiven) - InHand)

Inv ==
    /\ plan \in Plans /\ SourceOK /\ DestOK /\ PathOK
    /\ SourceInv /\ ReplyInv /\ PathInv /\ CancelInv /\ AbortInv /\ CloseLast /\ CloseInv /\ KeptInv

(* A plan is what the assumption says.                                      *)
LEMMA PlanFacts ==
    ASSUME plan \in Plans
    PROVE  /\ MaxChunks \in Nat /\ plan.chunks \in 0..MaxChunks
           /\ plan.prevent \subseteq Prevents /\ plan.hwm \in Nat /\ plan.dest \in {"writable", "closed"}
           /\ plan.signal \in BOOLEAN /\ plan.faults \subseteq Faults
  BY PipeAssumption

(* The commands are told apart.                                             *)
LEMMA Commands ==
    /\ CloseCmd \notin Chunks /\ AbortCmd \notin Chunks /\ ReadyCmd \notin Chunks
    /\ CloseCmd # AbortCmd /\ CloseCmd # ReadyCmd /\ AbortCmd # ReadyCmd
  BY PipeAssumption DEF Chunks, CloseCmd, AbortCmd, ReadyCmd

(* No write is among commands that are none of them writes.                 *)
LEMMA NoWrites ==
    ASSUME DestOK, Sent \subseteq {CloseCmd, AbortCmd, ReadyCmd}
    PROVE  Writes = <<>>
<1>1. \A k \in 1..Len(cmds) : cmds[k] \notin Chunks
  BY Commands DEF Sent
<1>. QED
  BY <1>1, FilterNone DEF DestOK, Writes

(* Counting up one further appends the next number.                         *)
LEMMA UptoFacts ==
    /\ Upto(0) = <<>>
    /\ \A n \in Nat : Upto(n) \in Seq(Nat) /\ Len(Upto(n)) = n /\ Upto(n + 1) = Append(Upto(n), n + 1)
  BY DEF Upto

(* What the source has given, with and without the chunk in hand.           *)
LEMMA GivenIsUpto ==
    ASSUME SourceOK, SourceInv
    PROVE  /\ Given = Upto(Len(sGiven))
           /\ SubSeq(Given, 1, Len(Given) - InHand) = Upto(Len(sGiven) - InHand)
<1>1. Given = Upto(Len(sGiven))
  BY DEF SourceOK, SourceInv, Given, Upto
<1>2. Len(sGiven) \in Nat /\ InHand \in {0, 1} /\ (InHand = 1 => Len(sGiven) # 0)
  BY DEF SourceOK, SourceInv, InHand
<1>3. Len(Given) = Len(sGiven)
  BY <1>1, <1>2, UptoFacts
<1>4. \A n \in Nat : \A m \in 0..n : SubSeq(Upto(n), 1, m) = Upto(m)
  BY DEF Upto
<1>5. Len(sGiven) - InHand \in 0..Len(sGiven)
  BY <1>2
<1>. QED
  BY <1>1, <1>2, <1>3, <1>4, <1>5

(* The invariant holds when pipe_to starts.                                 *)
LEMMA InitInv == Init => Inv
<1> SUFFICES ASSUME Init PROVE Inv
  OBVIOUS
<1>1. plan \in Plans /\ SourceOK /\ DestOK /\ PathOK
  <2>1. plan \in Plans /\ SourceOK /\ PathOK
    <3>1. <<>> \in Seq(Chunks) /\ <<>> \in Seq([read : Reads, chunk : Chunks])
      OBVIOUS
    <3>. QED
      BY <3>1 DEF Init, S!Init, SourceOK, PathOK, None
  <2>2. W!Init \/ DestinationClosed
    BY DEF Init
  <2>3. full \in BOOLEAN
    BY DEF Init
  <2>4. <<>> \in Seq(Chunks) /\ <<>> \in Seq(Sendable)
    OBVIOUS
  <2>5. DestOK
    BY <2>2, <2>3, <2>4 DEF Init, W!Init, W!None, DestinationClosed, DestOK, None
  <2>. QED
    BY <2>1, <2>5
<1>2. SourceInv /\ ReplyInv /\ PathInv /\ CancelInv
  BY <1>1, PlanFacts DEF Init, S!Init, SourceInv, ReplyInv, PathInv, CancelInv, None
<1>3. AbortInv /\ CloseLast /\ CloseInv
  <2>1. W!Init \/ (DestinationClosed /\ plan.dest = "closed")
    BY <1>1, PlanFacts DEF Init
  <2>2. Len(cmds) = 0 /\ Sent = {}
    BY DEF Init, Sent
  <2>. QED
    BY <2>1, <2>2 DEF Init, W!Init, W!None, DestinationClosed, AbortInv, CloseLast, CloseInv, None
<1>4. KeptInv
  <2>1. Writes = <<>> /\ InHand = 0 /\ Len(sGiven) = 0
    BY FilterEmpty DEF Init, S!Init, Writes, InHand, None
  <2>2. wState = "writable" => wSunk = <<>> /\ wLine = <<>>
    BY DEF Init, W!Init, DestinationClosed
  <2>3. <<>> \o <<>> \o <<>> = <<>>
    OBVIOUS
  <2>. QED
    <3>1. Upto(Len(sGiven) - InHand) = <<>>
      BY <2>1, UptoFacts
    <3>. QED
      BY <2>1, <2>2, <2>3, <3>1 DEF KeptInv
<1>. QED
  BY <1>1, <1>2, <1>3, <1>4 DEF Inv

-----------------------------------------------------------------------------
(* The source's steps                                                       *)

(* The source keeps its types.                                              *)
LEMMA SourceTypes ==
    ASSUME Inv, Post \/ EndSource \/ FailSource \/ FailSourceLate \/ SourceWork
    PROVE  SourceOK' /\ SourceInv'
<1> USE DEF Inv, SourceOK
<1>1. CASE Post
  <2>1. posted + 1 \in Chunks /\ posted + 1 <= plan.chunks /\ posted' = posted + 1 /\ UNCHANGED <<plan, asked, canceling>>
    BY <1>1, PlanFacts DEF Post, SourceStep, Chunks
  <2>2. CASE S!Arrive(posted + 1) /\ UNCHANGED reply
    <3>1. sLine' = Append(sLine, posted + 1) /\ UNCHANGED <<sState, sClosing, sGiven, reply>> /\ sState = "open"
      BY <2>2 DEF S!Arrive, S!Open
    <3>2. sLine' \in Seq(Chunks) /\ Len(sLine') = Len(sLine) + 1 /\ sLine'[Len(sLine) + 1] = posted + 1
          /\ \A k \in 1..Len(sLine) : sLine'[k] = sLine[k]
      BY <2>1, <3>1
    <3>3. posted' = Len(sGiven') + Len(sLine') /\ \A k \in 1..Len(sLine') : sLine'[k] = Len(sGiven') + k
      <4>1. posted = Len(sGiven) + Len(sLine) /\ \A k \in 1..Len(sLine) : sLine[k] = Len(sGiven) + k
        BY <3>1 DEF SourceInv
      <4>2. ASSUME NEW k \in 1..Len(sLine') PROVE sLine'[k] = Len(sGiven') + k
        <5>1. k \in 1..Len(sLine) \/ k = Len(sLine) + 1
          BY <3>2
        <5>2. CASE k \in 1..Len(sLine)
          BY <3>1, <3>2, <4>1, <5>2
        <5>3. CASE k = Len(sLine) + 1
          BY <3>1, <3>2, <4>1, <5>3
        <5>. QED
          BY <5>1, <5>2, <5>3
      <4>3. posted' = Len(sGiven') + Len(sLine')
        BY <2>1, <3>1, <3>2, <4>1
      <4>. QED
        BY <4>2, <4>3
    <3>4. Len(sGiven') <= posted' /\ posted' <= plan'.chunks /\ sState' # "ended"
      BY <2>1, <3>1 DEF SourceInv
    <3>5. SourceInv'
      BY <2>1, <3>1, <3>3, <3>4 DEF SourceInv
    <3>. QED
      BY <2>1, <3>1, <3>2, <3>5
  <2>3. CASE ~(S!Arrive(posted + 1) /\ UNCHANGED reply)
    <3>1. reply = "waiting" /\ reply' = "chunk" /\ sLine = <<>> /\ UNCHANGED <<sState, sClosing, sLine>> /\ sState = "open"
      BY <1>1, <2>3 DEF Post, S!ArriveToRead, S!Open
    <3>2. PICK r \in Reads : sGiven' = Append(sGiven, [read |-> r, chunk |-> posted + 1])
      BY <1>1, <2>3 DEF Post, S!ArriveToRead, S!Hands
    <3>3. [read |-> r, chunk |-> posted + 1] \in [read : Reads, chunk : Chunks]
      BY <2>1
    <3>4. sGiven' \in Seq([read : Reads, chunk : Chunks]) /\ Len(sGiven') = Len(sGiven) + 1
          /\ sGiven'[Len(sGiven) + 1].chunk = posted + 1
          /\ \A k \in 1..Len(sGiven) : sGiven'[k] = sGiven[k]
      BY <3>2, <3>3
    <3>5. SourceInv'
      BY <2>1, <3>1, <3>4 DEF SourceInv, None
    <3>. QED
      BY <2>1, <3>1, <3>4, <3>5
  <2>. QED
    BY <2>2, <2>3
<1>2. CASE Serve
  <2>1. sLine # <<>> /\ sState = "open" /\ sLine' = Tail(sLine) /\ reply' = "chunk"
        /\ UNCHANGED <<plan, posted, canceling, asked>>
        /\ ((UNCHANGED <<sState, sClosing>>) \/ (sLine' = <<>> /\ sState' = "ended" /\ sClosing' = FALSE))
    BY <1>2 DEF Serve, SourceStep, S!Take, S!Open
  <2>2. Head(sLine) \in Chunks /\ Tail(sLine) \in Seq(Chunks)
        /\ Len(Tail(sLine)) = Len(sLine) - 1 /\ Head(sLine) = sLine[1]
        /\ \A k \in 1..Len(Tail(sLine)) : Tail(sLine)[k] = sLine[k + 1]
    BY <2>1
  <2>3. PICK r \in Reads : sGiven' = Append(sGiven, [read |-> r, chunk |-> Head(sLine)])
    BY <1>2 DEF Serve, S!Take, S!Hands
  <2>4. [read |-> r, chunk |-> Head(sLine)] \in [read : Reads, chunk : Chunks]
    BY <2>2
  <2>5. sGiven' \in Seq([read : Reads, chunk : Chunks]) /\ Len(sGiven') = Len(sGiven) + 1
        /\ sGiven'[Len(sGiven) + 1].chunk = Head(sLine)
        /\ \A k \in 1..Len(sGiven) : sGiven'[k] = sGiven[k]
    BY <2>3, <2>4
  <2>6. SourceInv'
    <3>1. posted = Len(sGiven) + Len(sLine) /\ \A k \in 1..Len(sLine) : sLine[k] = Len(sGiven) + k
      BY <2>1 DEF SourceInv
    <3>2. Head(sLine) = Len(sGiven) + 1 /\ Len(sLine) >= 1
      BY <2>1, <2>2, <3>1
    <3>3. \A k \in 1..Len(sGiven') : sGiven'[k].chunk = k
      BY <2>5, <3>2 DEF SourceInv
    <3>4. Len(sLine') = Len(sLine) - 1 /\ \A k \in 1..Len(sLine') : sLine'[k] = Len(sGiven') + k
      BY <2>1, <2>2, <2>5, <3>1
    <3>5. sState' = "ended" => posted' = Len(sGiven')
      <4>1. CASE UNCHANGED sState
        BY <2>1, <4>1
      <4>2. CASE sLine' = <<>>
        <5>1. Len(sLine') = 0
          BY <4>2
        <5>. QED
          BY <5>1, <2>1, <2>5, <3>1, <3>4
      <4>. QED
        BY <4>1, <4>2, <2>1
    <3>. QED
      BY <2>1, <2>5, <3>1, <3>3, <3>4, <3>5 DEF SourceInv
  <2>. QED
    BY <2>1, <2>2, <2>5, <2>6
<1>3. CASE EndSource \/ FailSource \/ FailSourceLate \/ AnswerEnd \/ CancelSource \/ CancelReturns
  <2>1. UNCHANGED <<plan, posted, asked, sGiven>>
    BY <1>3 DEF EndSource, FailSource, FailSourceLate, AnswerEnd, CancelSource, CancelReturns, SourceStep,
       S!CloseLater, S!End, S!Stop, S!FailLate, readableVars
  <2>2. UNCHANGED <<sLine, sState>> \/ (sState = "open" /\ UNCHANGED sLine /\ sLine = <<>> /\ sState' = "ended")
        \/ (sState = "open" /\ sLine' = <<>> /\ sState' \in {"errored", "canceled"})
        \/ (sState \in {"ended", "canceled"} /\ UNCHANGED sLine /\ sState' = "errored" /\ UNCHANGED reply)
    BY <1>3 DEF EndSource, FailSource, FailSourceLate, AnswerEnd, CancelSource, CancelReturns,
       S!CloseLater, S!End, S!Stop, S!FailLate, S!Open, readableVars
  <2>3. UNCHANGED reply \/ (UNCHANGED sState /\ sState # "open" /\ reply' = IF sState = "errored" THEN "err" ELSE "end")
    BY <1>3 DEF EndSource, FailSource, FailSourceLate, AnswerEnd, CancelSource, CancelReturns, readableVars
  <2>7. canceling' = None => canceling = None
    BY <1>3 DEF EndSource, FailSource, FailSourceLate, AnswerEnd, CancelSource, CancelReturns, None
  <2>4. SourceInv'
    <3>1. sLine = <<>> => Len(sLine) = 0
      OBVIOUS
    <3>2. (sState' = "ended" => posted = Len(sGiven)) /\ (sState' = "open" => sState = "open" /\ sLine' = sLine)
      BY <2>2, <3>1 DEF SourceInv
    <3>3. (reply' = "err" => sState' = "errored") /\ (reply' = "chunk" => sGiven # <<>>)
      BY <2>2, <2>3 DEF SourceInv
    <3>4. reply' = "end" => sState # "open" /\ (canceling = None => sState # "canceled" /\ posted = Len(sGiven))
      <4>1. CASE UNCHANGED reply
        BY <4>1 DEF SourceInv
      <4>2. CASE sState = "ended" \/ sState = "canceled"
        BY <4>2 DEF SourceInv, CancelInv
      <4>. QED
        BY <2>3, <4>1, <4>2
    <3>5. sState # "open" => sState' = sState \/ sState' = "errored"
      BY <2>2
    <3>. QED
      BY <2>1, <2>7, <3>2, <3>3, <3>4, <3>5 DEF SourceInv
  <2>5. <<>> \in Seq(Chunks)
    OBVIOUS
  <2>6. sClosing' \in BOOLEAN /\ canceling' \in {None, "asked", "running", "ok", "err"}
    BY <1>3 DEF EndSource, FailSource, FailSourceLate, AnswerEnd, CancelSource, CancelReturns,
       S!CloseLater, S!End, S!Stop, S!FailLate, readableVars, None
  <2>. QED
    BY <2>1, <2>2, <2>3, <2>4, <2>5, <2>6
<1>. QED
  BY <1>1, <1>2, <1>3 DEF SourceWork

(* The source keeps the invariant.                                          *)
LEMMA SourceKeeps ==
    ASSUME Inv, Post \/ EndSource \/ FailSource \/ FailSourceLate \/ SourceWork
    PROVE  Inv'
<1> USE DEF Inv
<1>1. UNCHANGED <<plan, asked, destVars, pipeVars>>
  BY DEF SourceWork, Post, EndSource, FailSource, FailSourceLate, Serve, AnswerEnd, CancelSource, CancelReturns, SourceStep
<1>2. SourceOK' /\ SourceInv'
  BY SourceTypes
<1>3. DestOK' /\ PathOK' /\ AbortInv' /\ CloseLast'
  BY <1>1 DEF DestOK, PathOK, AbortInv, CloseLast, Sent, destVars, writableVars, channelVars, answerVars, pipeVars, Prevented
<1>4. Post \/ Serve => sState = "open" /\ (UNCHANGED <<sGiven, reply>>
                          \/ (reply = "waiting" /\ reply' = "chunk" /\ Len(sGiven') = Len(sGiven) + 1))
  BY DEF Post, Serve, S!Arrive, S!ArriveToRead, S!Take, S!Open, SourceOK
<1>5. ~(Post \/ Serve) => UNCHANGED sGiven /\ (UNCHANGED reply \/ (reply = "waiting" /\ reply' \in {"end", "err"}))
  BY DEF SourceWork, EndSource, FailSource, FailSourceLate, AnswerEnd, CancelSource, CancelReturns,
     S!CloseLater, S!End, S!Stop, S!FailLate, readableVars
<1>6. sState # "open" => sState' \in {sState, "errored"} /\ UNCHANGED <<posted, sGiven>>
  BY DEF SourceWork, Post, EndSource, FailSource, FailSourceLate, Serve, AnswerEnd, CancelSource, CancelReturns,
     S!Arrive, S!ArriveToRead, S!Take, S!CloseLater, S!End, S!Stop, S!FailLate, S!Open, readableVars
<1>7. canceling' = canceling \/ (canceling = "asked" /\ canceling' \in {"running", "ok", "err"} /\ sState' # "open")
      \/ (canceling = "running" /\ canceling' \in {"ok", "err"})
  BY DEF SourceWork, Post, EndSource, FailSource, FailSourceLate, Serve, AnswerEnd, CancelSource, CancelReturns, S!Stop, readableVars
<1>8. sState' = "canceled" => sState = "canceled" \/ canceling = "asked"
  BY DEF SourceWork, Post, EndSource, FailSource, FailSourceLate, Serve, AnswerEnd, CancelSource, CancelReturns,
     S!Arrive, S!ArriveToRead, S!Take, S!CloseLater, S!End, S!Stop, S!FailLate, S!Open, readableVars
<1>9. ReplyInv' /\ PathInv'
  BY <1>1, <1>4, <1>5, <1>6, <1>7 DEF ReplyInv, PathInv, destVars, answerVars, pipeVars, Prevented, None
<1>10. CancelInv'
  BY <1>1, <1>6, <1>7, <1>8 DEF CancelInv, Prevented, None
<1>11. CloseInv'
  BY <1>1, <1>4, <1>5 DEF CloseInv, Sent, ReplyInv, destVars, writableVars, channelVars, answerVars, pipeVars, None
<1>12. KeptInv'
  <2>1. UNCHANGED <<wState, wSunk, wLine, cmds, Writes>>
    BY <1>1 DEF Writes, destVars, writableVars, channelVars
  <2>2. Len(sGiven') - InHand' = Len(sGiven) - InHand
    BY <1>4, <1>5 DEF InHand, SourceOK
  <2>. QED
    BY <2>1, <2>2 DEF KeptInv
<1>. QED
  BY <1>1, <1>2, <1>3, <1>9, <1>10, <1>11, <1>12

-----------------------------------------------------------------------------
(* The destination's steps                                                  *)

(* A chunk that leaves the channel for the line, or the line for the sink,  *)
(* keeps its place.                                                         *)
LEMMA ChannelMoves ==
    \A a, b, d \in Seq(Sendable) : \A c \in Sendable : a \o Append(b, c) \o d = a \o b \o (<<c>> \o d)
<1> SUFFICES ASSUME NEW a \in Seq(Sendable), NEW b \in Seq(Sendable), NEW d \in Seq(Sendable), NEW c \in Sendable
             PROVE  a \o Append(b, c) \o d = a \o b \o (<<c>> \o d)
  OBVIOUS
<1>1. <<c>> \in Seq(Sendable) /\ a \o b \in Seq(Sendable)
  OBVIOUS
<1>2. Append(b, c) = b \o <<c>>
  BY AppendIsConcat
<1>3. a \o (b \o <<c>>) = (a \o b) \o <<c>>
  BY <1>1, ConcatAssociative
<1>4. ((a \o b) \o <<c>>) \o d = (a \o b) \o (<<c>> \o d)
  BY <1>1, ConcatAssociative
<1>. QED
  BY <1>2, <1>3, <1>4

(* A chunk that moves to the next part of a line leaves the line as it is.  *)
LEMMA LineMoves ==
    \A a, b, d \in Seq(Sendable) : b # <<>> => Append(a, Head(b)) \o Tail(b) \o d = a \o b \o d
<1> SUFFICES ASSUME NEW a \in Seq(Sendable), NEW b \in Seq(Sendable), NEW d \in Seq(Sendable), b # <<>>
             PROVE  Append(a, Head(b)) \o Tail(b) \o d = a \o b \o d
  OBVIOUS
<1>1. Append(a, Head(b)) \o Tail(b) = a \o b
  OBVIOUS
<1>. QED
  BY <1>1

(* What is left of the channel when a command is taken.                     *)
LEMMA TakesFacts ==
    ASSUME DestOK, NEW c, Takes(c)
    PROVE  /\ cmds' \in Seq(Sendable)
           /\ draining' = TRUE
           /\ Sent = {c} \cup Sent'
           /\ CloseLast => CloseLast' /\ (c = CloseCmd => Sent' \subseteq {AbortCmd})
           /\ Writes = IF c \in Chunks THEN <<c>> \o Writes' ELSE Writes'
<1>1. cmds # <<>> /\ Head(cmds) = c /\ cmds' = Tail(cmds) /\ draining' = TRUE
  BY DEF Takes
<1>2. Writes = IF c \in Chunks THEN <<c>> \o Writes' ELSE Writes'
  BY <1>1, FilterTail DEF Writes, DestOK
<1>3. /\ cmds' \in Seq(Sendable)
      /\ Len(cmds) \in Nat \ {0} /\ cmds[1] = c /\ Len(cmds') = Len(cmds) - 1
      /\ \A k \in 1..Len(cmds') : k + 1 \in 2..Len(cmds) /\ cmds'[k] = cmds[k + 1]
  BY <1>1 DEF DestOK
<1>4. Sent = {c} \cup Sent'
  <2>1. ASSUME NEW k \in 1..Len(cmds) PROVE cmds[k] \in {c} \cup Sent'
    <3>1. CASE k = 1
      BY <3>1, <1>3
    <3>2. CASE k # 1
      <4>1. k - 1 \in 1..Len(cmds') /\ cmds'[k - 1] = cmds[k]
        BY <3>2, <1>3
      <4>. QED
        BY <4>1 DEF Sent
    <3>. QED
      BY <3>1, <3>2
  <2>2. c \in Sent
    BY <1>3 DEF Sent
  <2>3. Sent' \subseteq Sent
    BY <1>3 DEF Sent
  <2>. QED
    BY <2>1, <2>2, <2>3 DEF Sent
<1>5. ASSUME CloseLast PROVE CloseLast' /\ (c = CloseCmd => Sent' \subseteq {AbortCmd})
  <2>1. ASSUME NEW k \in 1..Len(cmds'), cmds'[k] = CloseCmd, NEW j \in k + 1..Len(cmds')
        PROVE  cmds'[j] = AbortCmd
    <3>1. k + 1 \in 1..Len(cmds) /\ j + 1 \in (k + 1) + 1..Len(cmds) /\ cmds[k + 1] = CloseCmd
          /\ cmds'[j] = cmds[j + 1]
      BY <1>3, <2>1
    <3>. QED
      BY <3>1, <1>5 DEF CloseLast
  <2>2. ASSUME c = CloseCmd, NEW k \in 1..Len(cmds') PROVE cmds'[k] = AbortCmd
    <3>1. 1 \in 1..Len(cmds) /\ k + 1 \in 1 + 1..Len(cmds) /\ cmds[1] = CloseCmd /\ cmds'[k] = cmds[k + 1]
      BY <1>3, <2>2
    <3>. QED
      BY <3>1, <1>5 DEF CloseLast
  <2>. QED
    BY <2>1, <2>2 DEF CloseLast, Sent
<1>. QED
  BY <1>1, <1>2, <1>3, <1>4, <1>5

(* The flags stay flags.                                                    *)
LEMMA SetFullType ==
    ASSUME DestOK, NEW f \in BOOLEAN, SetFull(f)
    PROVE  full' \in BOOLEAN /\ parked' \in BOOLEAN /\ woken' \in BOOLEAN
  BY DEF SetFull, DestOK

(* Whatever the queue, there is backpressure or not.                        *)
LEMMA BackpressureType == \A line, busy : Backpressure(line, busy) \in BOOLEAN
  BY DEF Backpressure

(* A line of chunks may be sent.                                            *)
LEMMA WiderSeq == \A s \in Seq(Chunks) : s \in Seq(Sendable)
  BY DEF Sendable

(* The destination's types are those of its parts.                          *)
LEMMA DestWith ==
    DestOK /\ UNCHANGED <<wState, wClosing, wLine, wBusy, wSunk, wEnded, draining, full, parked,
                          closeAnswer, abortAnswer>>
      /\ cmds' \in Seq(Sendable) /\ woken' \in BOOLEAN
    => DestOK'
  BY DEF DestOK

(* The destination answers what it was asked, once.                         *)
Answers ==
    /\ closeAnswer' = closeAnswer \/ (closeAnswer = "waiting" /\ closeAnswer' \in {"ok", "err"})
    /\ abortAnswer' = abortAnswer \/ (abortAnswer # None /\ abortAnswer' \in {"ok", "err"})

CommandStep == (\E c \in 1..plan.chunks : CommandWrite(c)) \/ CommandReady \/ CommandClose \/ CommandAbort

(* A command keeps the invariant.                                           *)
LEMMA CommandKeeps ==
    ASSUME Inv, CommandStep
    PROVE  DestOK' /\ Answers /\ AbortInv' /\ CloseLast' /\ CloseInv' /\ KeptInv'
<1> USE DEF Inv
<1>1. UNCHANGED <<plan, sourceVars, pipeVars>>
  BY DEF CommandStep, CommandWrite, CommandReady, CommandClose, CommandAbort, Takes, DestStep
<1>2. ASSUME NEW c \in 1..plan.chunks, CommandWrite(c)
      PROVE  DestOK' /\ Answers /\ AbortInv' /\ CloseLast' /\ CloseInv' /\ KeptInv'
  <2>1. Takes(c) /\ c \in Chunks /\ UNCHANGED answerVars
    BY <1>2 DEF CommandWrite
  <2>2. /\ Sent = {c} \cup Sent' /\ CloseLast' /\ Writes = <<c>> \o Writes'
        /\ cmds' \in Seq(Sendable) /\ draining' = TRUE
    BY <2>1, TakesFacts
  <2>3. ~wClosing
    BY <2>1, <2>2, Commands DEF CloseInv
  <2>4. CASE wState = "writable"
    <3>1. wLine' = Append(wLine, c) /\ UNCHANGED <<wState, wClosing, wBusy, wSunk, wEnded>>
          /\ SetFull(Backpressure(wLine', wBusy))
      BY <1>2, <2>3, <2>4 DEF CommandWrite, W!Accept
    <3>2. full' \in BOOLEAN /\ parked' \in BOOLEAN /\ woken' \in BOOLEAN
      BY <3>1, SetFullType, BackpressureType
    <3>3. wLine' \in Seq(Chunks)
      BY <2>1, <3>1 DEF DestOK
    <3>4. DestOK' /\ Answers
      BY <2>1, <2>2, <3>1, <3>2, <3>3 DEF DestOK, Answers, answerVars
    <3>5. AbortInv'
      BY <1>1, <2>1, <2>2, <3>1 DEF AbortInv, answerVars, Prevented
    <3>6. CloseInv'
      BY <1>1, <2>1, <2>2, <2>3, <3>1, Commands DEF CloseInv, answerVars, sourceVars, readableVars, pipeVars
    <3>7. KeptInv'
      <4>1. Writes' \in Seq(Sendable)
        BY <2>2, FilterType DEF Writes, Sendable
      <4>2. wSunk \in Seq(Sendable) /\ wLine \in Seq(Sendable) /\ c \in Sendable
        BY <2>1, WiderSeq DEF DestOK, Sendable
      <4>3. wSunk \o Append(wLine, c) \o Writes' = wSunk \o wLine \o (<<c>> \o Writes')
        <5> DEFINE rest == Writes'
        <5>1. rest \in Seq(Sendable)
          BY <4>1
        <5> HIDE DEF rest, Inv
        <5>2. wSunk \o Append(wLine, c) \o rest = wSunk \o wLine \o (<<c>> \o rest)
          BY <5>1, <4>2, ChannelMoves
        <5>. QED
          BY <5>2 DEF rest
      <4>4. UNCHANGED <<sGiven, InHand>>
        BY <1>1 DEF InHand, sourceVars, readableVars
      <4>. QED
        BY <2>2, <2>4, <3>1, <4>3, <4>4 DEF KeptInv
    <3>. QED
      BY <2>2, <3>4, <3>5, <3>6, <3>7
  <2>5. CASE wState # "writable"
    <3>1. UNCHANGED <<writableVars, full, parked, woken>>
      BY <1>2, <2>5 DEF CommandWrite
    <3>2. DestOK' /\ Answers
      BY <2>1, <2>2, <3>1 DEF DestOK, Answers, answerVars, writableVars
    <3>3. AbortInv' /\ KeptInv'
      BY <1>1, <2>1, <2>2, <2>5, <3>1 DEF AbortInv, KeptInv, answerVars, writableVars, Prevented
    <3>4. CloseInv'
      BY <1>1, <2>1, <2>2, <2>3, <3>1, Commands DEF CloseInv, answerVars, writableVars, sourceVars, readableVars, pipeVars
    <3>. QED
      BY <2>2, <3>2, <3>3, <3>4
  <2>. QED
    BY <2>4, <2>5
<1>. DEFINE Frame(c) ==
       /\ Sent = {c} \cup Sent' /\ CloseLast' /\ Writes = Writes'
       /\ cmds' \in Seq(Sendable) /\ draining' = TRUE
<1>3. CASE CommandReady
  <2>1. Takes(ReadyCmd) /\ UNCHANGED <<writableVars, full, answerVars>>
    BY <1>3 DEF CommandReady
  <2>2. Frame(ReadyCmd)
    BY <2>1, TakesFacts, Commands
  <2>3. parked' \in BOOLEAN /\ woken' \in BOOLEAN
    BY <1>3 DEF CommandReady, DestOK
  <2>4. DestOK' /\ Answers
    BY <2>1, <2>2, <2>3 DEF DestOK, Answers, answerVars, writableVars
  <2>5. AbortInv' /\ KeptInv'
    BY <1>1, <2>1, <2>2 DEF AbortInv, KeptInv, InHand, answerVars, writableVars, sourceVars, readableVars, Prevented
  <2>6. CloseInv'
    BY <1>1, <2>1, <2>2, Commands DEF CloseInv, answerVars, writableVars, sourceVars, readableVars, pipeVars
  <2>. QED
    BY <2>2, <2>4, <2>5, <2>6
<1>4. CASE CommandClose
  <2>1. Takes(CloseCmd) /\ UNCHANGED <<full, parked, woken, abortAnswer>>
    BY <1>4 DEF CommandClose
  <2>2. Frame(CloseCmd) /\ Sent' \subseteq {AbortCmd}
    BY <2>1, TakesFacts, Commands
  <2>3. closeAnswer = "waiting" /\ ~wClosing
    BY <2>2 DEF CloseInv
  <2>4. UNCHANGED <<wState, wLine, wBusy, wSunk, wEnded>>
        /\ (\/ wState = "writable" /\ wClosing' = TRUE /\ UNCHANGED closeAnswer
            \/ wState # "writable" /\ UNCHANGED wClosing /\ closeAnswer' = "err")
    BY <1>4, <2>3 DEF CommandClose, W!AskClose, writableVars
  <2>5. DestOK' /\ Answers
    BY <2>1, <2>2, <2>3, <2>4 DEF DestOK, Answers
  <2>6. AbortInv' /\ KeptInv'
    BY <1>1, <2>1, <2>2, <2>4 DEF AbortInv, KeptInv, InHand, sourceVars, readableVars, Prevented
  <2>7. CloseInv'
    BY <1>1, <2>2, <2>3, <2>4, Commands DEF CloseInv, sourceVars, readableVars, pipeVars, None
  <2>. QED
    BY <2>2, <2>5, <2>6, <2>7
<1>5. CASE CommandAbort
  <2>1. Takes(AbortCmd) /\ UNCHANGED <<full, parked, woken, closeAnswer>>
    BY <1>5 DEF CommandAbort
  <2>2. Frame(AbortCmd) /\ abortAnswer # None
    BY <2>1, TakesFacts, Commands DEF AbortInv
  <2>3. UNCHANGED <<wClosing, wBusy, wSunk, wEnded>>
        /\ (\/ wState = "writable" /\ wState' = "errored" /\ wLine' = <<>> /\ UNCHANGED abortAnswer
            \/ wState # "writable" /\ UNCHANGED <<wState, wLine>> /\ abortAnswer' = "ok")
    BY <1>5 DEF CommandAbort, W!Fail, writableVars
  <2>4. failure # None
    BY <2>2 DEF PathInv
  <2>5. DestOK' /\ Answers
    <3>1. <<>> \in Seq(Chunks)
      OBVIOUS
    <3>2. wState' \in {"writable", "errored", "closed"} /\ wLine' \in Seq(Chunks)
          /\ abortAnswer' \in {None, "waiting", "ok", "err"}
      BY <2>3, <3>1 DEF DestOK
    <3>3. cmds' \in Seq(Sendable) /\ draining' \in BOOLEAN /\ UNCHANGED <<full, parked, woken, closeAnswer>>
      BY <2>1, <2>2 DEF DestOK
    <3>4. DestOK'
      BY <2>3, <3>2, <3>3 DEF DestOK
    <3>5. Answers
      BY <2>1, <2>2, <2>3 DEF Answers
    <3>. QED
      BY <3>4, <3>5
  <2>6. AbortInv' /\ KeptInv'
    BY <1>1, <2>1, <2>2, <2>3 DEF AbortInv, KeptInv, InHand, sourceVars, readableVars, Prevented, None
  <2>7. CloseInv'
    BY <1>1, <2>1, <2>2, <2>3, <2>4, Commands DEF CloseInv, sourceVars, readableVars, pipeVars, None
  <2>. QED
    BY <2>2, <2>5, <2>6, <2>7
<1>. QED
  BY <1>2, <1>3, <1>4, <1>5 DEF CommandStep

(* What the sink does, or the controller reports, between commands.         *)
SinkStep ==
    \/ PollEnds \/ BeginWrite \/ WriteReturns \/ WriteFails \/ ControllerErrors
    \/ BeginClose \/ (\E res \in {"ok", "err"} : CloseReturns(res) \/ AbortReturns(res))
    \/ BeginAbort \/ AbortSettles

(* So do the sink's methods and the controller.                             *)
LEMMA SinkKeeps ==
    ASSUME Inv, SinkStep
    PROVE  DestOK' /\ Answers /\ AbortInv' /\ CloseLast' /\ CloseInv' /\ KeptInv'
<1> USE DEF Inv
<1>1. UNCHANGED <<plan, sourceVars, pipeVars, cmds>> /\ draining' \in BOOLEAN
  BY DEF SinkStep, PollEnds, BeginWrite, WriteReturns, WriteFails, ControllerErrors, BeginClose, CloseReturns,
         AbortReturns, BeginAbort, AbortSettles, Dispatches, Drives, DestStep, DestOK
<1>2. UNCHANGED <<Sent, Writes, InHand, sGiven, sState, failure>> /\ CloseLast'
  BY <1>1 DEF Sent, Writes, InHand, CloseLast, sourceVars, readableVars, pipeVars
<1>3. full' \in BOOLEAN /\ parked' \in BOOLEAN /\ woken' \in BOOLEAN
  <2>1. UNCHANGED <<full, parked, woken>> \/ (\E f \in BOOLEAN : SetFull(f))
        \/ (UNCHANGED full /\ parked' = FALSE /\ woken' = (woken \/ parked))
    BY BackpressureType
       DEF SinkStep, PollEnds, BeginWrite, WriteReturns, WriteFails, ControllerErrors, BeginClose, CloseReturns,
           AbortReturns, BeginAbort, AbortSettles, Dispatches
  <2>. QED
    BY <2>1, SetFullType DEF DestOK
<1>. DEFINE Goal == DestOK' /\ Answers /\ AbortInv' /\ CloseInv' /\ KeptInv'
<1>4. <<>> \in Seq(Chunks)
  OBVIOUS
<1>5. UNCHANGED <<writableVars, answerVars>> => Goal
  BY <1>1, <1>2, <1>3 DEF DestOK, Answers, AbortInv, CloseInv, KeptInv, writableVars, answerVars, Prevented
<1>. DEFINE Facts == /\ UNCHANGED <<plan, cmds, Sent, Writes, InHand, sGiven, failure>>
                    /\ draining' \in BOOLEAN /\ full' \in BOOLEAN /\ parked' \in BOOLEAN /\ woken' \in BOOLEAN
<1>6. Facts
  BY <1>1, <1>2, <1>3
<1> HIDE DEF Facts
<1>7. ASSUME BeginWrite PROVE Goal
  <2>1. /\ wState = "writable" /\ wBusy = None /\ wEnded = None /\ wLine # <<>>
        /\ wBusy' = "write" /\ wLine' = Tail(wLine) /\ wSunk' = Append(wSunk, Head(wLine))
        /\ UNCHANGED <<wState, wClosing, wEnded, answerVars>>
    BY <1>7 DEF BeginWrite, W!BeginWrite, W!None, None
  <2>2. wLine' \in Seq(Chunks) /\ wSunk' \in Seq(Chunks)
    BY <2>1 DEF DestOK
  <2>3. DestOK' /\ Answers
    BY <1>6, <2>1, <2>2 DEF Facts, DestOK, Answers, answerVars
  <2>4. AbortInv' /\ CloseInv'
    BY <1>6, <2>1 DEF Facts, AbortInv, CloseInv, answerVars, Prevented
  <2>5. KeptInv'
    <3>1. Writes \in Seq(Sendable) /\ wSunk \in Seq(Sendable) /\ wLine \in Seq(Sendable)
      BY WiderSeq, FilterType DEF Writes, Sendable, DestOK
    <3>2. wSunk' \o wLine' \o Writes = wSunk \o wLine \o Writes
      BY <2>1, <3>1, LineMoves
    <3>. QED
      BY <1>6, <2>1, <3>2 DEF Facts, KeptInv
  <2>. QED
    BY <2>3, <2>4, <2>5
<1>8. ASSUME WriteReturns PROVE Goal
  <2>1. wBusy = "write" /\ wBusy' = None /\ UNCHANGED <<wState, wClosing, wLine, wSunk, wEnded, answerVars>>
    BY <1>8 DEF WriteReturns, W!EndWrite, W!None, None
  <2>2. DestOK' /\ Answers
    BY <1>6, <2>1 DEF Facts, DestOK, Answers, answerVars
  <2>. QED
    BY <1>6, <2>1, <2>2 DEF Facts, AbortInv, CloseInv, KeptInv, answerVars, Prevented, None
<1>9. ASSUME WriteFails PROVE Goal
  <2>1. /\ wBusy = "write" /\ wBusy' = None /\ wState = "writable" /\ wState' = "errored" /\ wLine' = <<>>
        /\ wClosing' \in {wClosing, FALSE} /\ ~wClosing' /\ UNCHANGED <<wSunk, wEnded, abortAnswer>>
        /\ closeAnswer' = IF wClosing THEN "err" ELSE closeAnswer
    BY <1>9 DEF WriteFails, W!Fail, None
  <2>2. wClosing => closeAnswer \in {"waiting", "err"}
    BY DEF CloseInv, DestOK
  <2>3. DestOK' /\ (closeAnswer = "err" \/ Answers)
    BY <1>4, <1>6, <2>1, <2>2 DEF Facts, DestOK, Answers
  <2>4. Answers
    BY <2>1, <2>2, <2>3 DEF Answers
  <2>5. AbortInv'
    BY <1>6, <2>1 DEF Facts, AbortInv, Prevented, None
  <2>6. CloseInv'
    BY <1>6, <2>1, <2>2 DEF Facts, CloseInv, None
  <2>7. KeptInv'
    BY <2>1 DEF KeptInv
  <2>. QED
    BY <2>3, <2>4, <2>5, <2>6, <2>7
<1>10. ASSUME ControllerErrors PROVE Goal
  <2>1. /\ wState = "writable" /\ ~wClosing /\ wState' = "errored" /\ wLine' = <<>>
        /\ UNCHANGED <<wBusy, wClosing, wSunk, wEnded, answerVars>>
    BY <1>10 DEF ControllerErrors, W!Fail
  <2>2. DestOK' /\ Answers
    BY <1>4, <1>6, <2>1 DEF Facts, DestOK, Answers, answerVars
  <2>. QED
    BY <1>6, <2>1, <2>2 DEF Facts, AbortInv, CloseInv, KeptInv, answerVars, Prevented
<1>11. ASSUME BeginClose PROVE Goal
  <2>1. /\ wClosing /\ wLine = <<>> /\ wBusy' = "close" /\ wEnded' = "close"
        /\ UNCHANGED <<wState, wClosing, wLine, wSunk, answerVars>>
    BY <1>11 DEF BeginClose, W!BeginClose
  <2>2. DestOK' /\ Answers
    BY <1>6, <2>1 DEF Facts, DestOK, Answers, answerVars
  <2>. QED
    BY <1>6, <2>1, <2>2 DEF Facts, AbortInv, CloseInv, KeptInv, answerVars, Prevented
<1>12. ASSUME NEW res \in {"ok", "err"}, CloseReturns(res) PROVE Goal
  <2>1. /\ wClosing /\ (wBusy = "close" \/ (wBusy = None /\ wEnded = "abort"))
        /\ wState' \in {"closed", "errored"} /\ wClosing' = FALSE /\ wLine' = <<>> /\ wBusy' = None
        /\ UNCHANGED <<wSunk, wEnded, abortAnswer>>
        /\ wState' = (IF res = "ok" /\ (wState = "writable" \/ closeAnswer = "waiting") THEN "closed" ELSE "errored")
        /\ closeAnswer' = IF closeAnswer = "waiting" THEN res ELSE closeAnswer
    BY <1>12 DEF CloseReturns, W!EndClose, W!None, None
  <2>2. DestOK' /\ Answers
    BY <1>4, <1>6, <2>1 DEF Facts, DestOK, Answers, None
  <2>3. AbortInv' /\ KeptInv'
    BY <1>6, <2>1 DEF Facts, AbortInv, KeptInv, Prevented, None
  <2>4. ASSUME failure = None, closeAnswer' = "ok" PROVE wState' = "closed" /\ wSunk' = Upto(Len(sGiven))
    <3>1. abortAnswer = None /\ wState = "writable" /\ wEnded # "abort" /\ wLine = <<>>
      BY <2>1, <2>4 DEF AbortInv, PathInv, CloseInv
    <3>2. closeAnswer # None /\ closeAnswer # "ok"
      BY <2>1 DEF CloseInv
    <3>3. closeAnswer = "waiting" /\ res = "ok"
      BY <2>1, <2>4, <3>2 DEF DestOK
    <3>4. Writes = <<>>
      BY <2>1, NoWrites DEF CloseInv
    <3>5. InHand = 0
      BY <3>2 DEF ReplyInv, InHand, None
    <3>6. wSunk \o wLine \o Writes = wSunk
      BY <3>1, <3>4 DEF DestOK
    <3>7. wSunk = Upto(Len(sGiven))
      BY <3>1, <3>5, <3>6 DEF KeptInv, SourceOK
    <3>. QED
      BY <2>1, <3>3, <3>7
  <2>5. CloseInv'
    BY <1>6, <2>1, <2>4 DEF Facts, CloseInv, None
  <2>. QED
    BY <2>2, <2>3, <2>5
<1>13. ASSUME NEW res \in {"ok", "err"}, AbortReturns(res) PROVE Goal
  <2>1. /\ wBusy = "abort" /\ wBusy' = None
        /\ UNCHANGED <<wState, wClosing, wLine, wSunk, wEnded, closeAnswer>>
        /\ abortAnswer' = IF AbortAwaited THEN res ELSE abortAnswer
    BY <1>13 DEF AbortReturns, W!EndAbort, W!None, None
  <2>2. abortAnswer' = abortAnswer \/ (abortAnswer = "waiting" /\ abortAnswer' = res)
    BY <2>1 DEF AbortAwaited
  <2>3. DestOK' /\ Answers
    BY <1>6, <2>1, <2>2 DEF Facts, DestOK, Answers, None
  <2>. QED
    BY <1>6, <2>1, <2>2, <2>3 DEF Facts, AbortInv, CloseInv, KeptInv, Prevented, None
<1>14. ASSUME BeginAbort PROVE Goal
  <2>1. /\ wState = "errored" /\ wBusy = None /\ wBusy' = "abort" /\ wEnded' = "abort" /\ ~wClosing
        /\ UNCHANGED <<wState, wClosing, wLine, wSunk, answerVars>> /\ abortAnswer = "waiting"
    BY <1>14 DEF BeginAbort, W!BeginAbort, AbortAwaited
  <2>2. DestOK' /\ Answers
    BY <1>6, <2>1 DEF Facts, DestOK, Answers, answerVars
  <2>. QED
    BY <1>6, <2>1, <2>2 DEF Facts, AbortInv, CloseInv, KeptInv, answerVars, Prevented, None
<1>15. ASSUME AbortSettles PROVE Goal
  <2>1. /\ abortAnswer = "waiting" /\ abortAnswer' = "ok" /\ wState # "writable" /\ UNCHANGED writableVars
        /\ (closeAnswer' = closeAnswer \/ (closeAnswer = "waiting" /\ closeAnswer' = "err"))
    BY <1>15 DEF AbortSettles, AbortAwaited
  <2>2. DestOK' /\ Answers
    BY <1>6, <2>1 DEF Facts, DestOK, Answers, writableVars, None
  <2>3. failure # None
    BY <2>1 DEF PathInv, None
  <2>4. CASE wBusy = "close"
    <3>1. CloseCmd \notin Sent
      BY <2>4 DEF CloseInv
    <3>. QED
      BY <1>6, <2>1, <2>2, <2>3, <3>1 DEF Facts, AbortInv, CloseInv, KeptInv, writableVars, Prevented, None
  <2>5. CASE wBusy # "close"
    <3>1. UNCHANGED closeAnswer
      BY <1>15, <2>5 DEF AbortSettles
    <3>. QED
      BY <1>6, <2>1, <2>2, <2>3, <3>1 DEF Facts, AbortInv, CloseInv, KeptInv, writableVars, Prevented, None
  <2>. QED
    BY <2>4, <2>5
<1>16. ASSUME PollEnds PROVE Goal
  BY <1>5, <1>16 DEF PollEnds
<1>. QED
  BY <1>2, <1>7, <1>8, <1>9, <1>10, <1>11, <1>12, <1>13, <1>14, <1>15, <1>16 DEF SinkStep

(* The destination keeps the invariant.                                     *)
LEMMA DestKeeps ==
    ASSUME Inv, DestWork \/ ControllerErrors
    PROVE  Inv'
<1> USE DEF Inv
<1>1. CommandStep \/ SinkStep
  BY DEF DestWork, CommandStep, SinkStep
<1>2. UNCHANGED <<plan, sourceVars, pipeVars>>
  BY <1>1 DEF CommandStep, CommandWrite, CommandReady, CommandClose, CommandAbort, Takes, DestStep,
         SinkStep, PollEnds, BeginWrite, WriteReturns, WriteFails, ControllerErrors, BeginClose, CloseReturns,
         AbortReturns, BeginAbort, AbortSettles, Dispatches, Drives
<1>3. DestOK' /\ Answers /\ AbortInv' /\ CloseLast' /\ CloseInv' /\ KeptInv'
  BY <1>1, CommandKeeps, SinkKeeps
<1>4. SourceOK' /\ PathOK' /\ SourceInv' /\ CancelInv'
  BY <1>2 DEF SourceOK, PathOK, SourceInv, CancelInv, sourceVars, readableVars, pipeVars, Prevented
<1>5. ReplyInv' /\ PathInv'
  BY <1>2, <1>3 DEF ReplyInv, PathInv, Answers, sourceVars, readableVars, pipeVars, Prevented, None
<1>. QED
  BY <1>2, <1>3, <1>4, <1>5

-----------------------------------------------------------------------------
(* The pipe's steps                                                         *)

(* What is left of the channel when the pipe sends a command.               *)
LEMMA SendsFacts ==
    ASSUME DestOK, NEW c \in Sendable, Sends(c)
    PROVE  /\ cmds' \in Seq(Sendable) /\ Sent' = Sent \cup {c}
           /\ CloseLast /\ (CloseCmd \in Sent => c = AbortCmd) => CloseLast'
           /\ Writes' = IF c \in Chunks THEN Append(Writes, c) ELSE Writes
<1>1. cmds \in Seq(Sendable) /\ cmds' = Append(cmds, c)
  BY DEF DestOK, Sendable, Sends
<1>2. Writes' = IF c \in Chunks THEN Append(Writes, c) ELSE Writes
  BY <1>1, FilterAppend DEF Writes
<1>3. /\ cmds' \in Seq(Sendable) /\ Len(cmds) \in Nat /\ Len(cmds') = Len(cmds) + 1
      /\ cmds'[Len(cmds) + 1] = c /\ \A k \in 1..Len(cmds) : cmds'[k] = cmds[k]
  BY <1>1
<1>4. Sent' = Sent \cup {c}
  BY <1>3 DEF Sent
<1>5. ASSUME CloseLast, CloseCmd \in Sent => c = AbortCmd PROVE CloseLast'
  <2>1. ASSUME NEW k \in 1..Len(cmds'), cmds'[k] = CloseCmd, NEW j \in k + 1..Len(cmds')
        PROVE  cmds'[j] = AbortCmd
    <3>1. k \in 1..Len(cmds) /\ cmds[k] = CloseCmd
      BY <1>3, <2>1
    <3>2. c = AbortCmd
      BY <1>5, <3>1 DEF Sent
    <3>. QED
      BY <1>3, <1>5, <2>1, <3>1, <3>2 DEF CloseLast
  <2>. QED
    BY <2>1 DEF CloseLast
<1>. QED
  BY <1>1, <1>2, <1>3, <1>4, <1>5

(* The pipe keeps the invariant.                                            *)
LEMMA PipeKeeps ==
    ASSUME Inv, PipeWork
    PROVE  Inv'
<1> USE DEF Inv
<1>1. UNCHANGED <<plan, sState, sClosing, sLine, sGiven, posted, wState, wClosing, wLine, wBusy, wSunk, wEnded,
                  draining, full, parked>>
  BY DEF PipeWork, ReadyPoll, ReadyRecheck, SendRead, NoticesClosed, Forward, PropagatesEnd,
         PropagatesError, CancelDone, CloseDone, AbortDone, SignalFires, SignalAborts, SignalDone,
         PipeStep, Stays, readableVars, writableVars
<1>. DEFINE Types == /\ asked' \in Nat /\ woken' \in BOOLEAN
                     /\ canceling' \in {None, "asked", "running", "ok", "err"}
                     /\ reply' \in {None, "waiting", "chunk", "end", "err"}
            Quiet == UNCHANGED <<cmds, closeAnswer, abortAnswer>>
            Safe == SourceOK' /\ DestOK' /\ CloseLast' /\ UNCHANGED <<Sent, Writes>>
<1>2. Quiet /\ Types => Safe
  BY <1>1 DEF SourceOK, DestOK, CloseLast, Sent, Writes
<1>3. ASSUME ReadyPoll, wState # "errored", wState # "closed", full PROVE Inv'
  <2>1. /\ pc \in {"ready", "readyWaits"} /\ pc' = "recheck" /\ Sends(ReadyCmd) /\ woken' = FALSE
        /\ UNCHANGED <<asked, reply, canceling, closeAnswer, abortAnswer, failure, outcome>>
    BY <1>3 DEF ReadyPoll, answerVars
  <2>2. /\ cmds' \in Seq(Sendable) /\ Sent' = Sent \cup {ReadyCmd} /\ UNCHANGED Writes
        /\ ((CloseCmd \in Sent => ReadyCmd = AbortCmd) => CloseLast')
    BY <2>1, SendsFacts, Commands DEF Sendable
  <2>3. closeAnswer = None /\ CloseCmd \notin Sent /\ ~wClosing
    BY <2>1 DEF PathInv, CloseInv, None
  <2>4. CloseLast' /\ SourceOK' /\ DestOK' /\ PathOK'
    <3>1. CloseLast'
      BY <2>2, <2>3
    <3>2. SourceOK' /\ PathOK'
      BY <1>1, <2>1 DEF SourceOK, PathOK
    <3>3. DestOK'
      <4>1. /\ UNCHANGED <<wState, wClosing, wLine, wBusy, wSunk, wEnded, draining, full, parked,
                           closeAnswer, abortAnswer>>
            /\ cmds' \in Seq(Sendable) /\ woken' \in BOOLEAN
        BY <1>1, <2>1, <2>2
      <4>. QED
        BY <4>1, DestWith
    <3>. QED
      BY <3>1, <3>2, <3>3
  <2>5. SourceInv' /\ ReplyInv' /\ PathInv'
    BY <1>1, <2>1 DEF SourceInv, ReplyInv, PathInv, Prevented
  <2>6. CancelInv' /\ AbortInv' /\ CloseInv' /\ KeptInv'
    BY <1>1, <2>1, <2>2, <2>3, Commands DEF CancelInv, AbortInv, CloseInv, KeptInv, InHand, Prevented
  <2>. QED
    BY <1>1, <2>4, <2>5, <2>6
<1>4. ASSUME ReadyPoll, wState = "closed" \/ (wState # "errored" /\ ~full) PROVE Inv'
  <2>1. /\ pc \in {"ready", "readyWaits"} /\ pc' = "read" /\ woken' = FALSE
        /\ UNCHANGED <<asked, reply, canceling, cmds, closeAnswer, abortAnswer, failure, outcome>>
    BY <1>4 DEF ReadyPoll, answerVars
  <2>2. Safe /\ PathOK'
    <3>1. Quiet
      BY <2>1
    <3>2. Types
      BY <2>1 DEF SourceOK, DestOK, PathOK, None
    <3>3. Safe
      <4> HIDE DEF Quiet, Types, Safe
      <4>. QED
        BY <3>1, <3>2, <1>2
    <3>4. PathOK'
      BY <2>1 DEF PathOK
    <3>. QED
      BY <3>3, <3>4
  <2>3. SourceInv' /\ ReplyInv' /\ PathInv'
    BY <1>1, <2>1 DEF SourceInv, ReplyInv, PathInv, Prevented, None
  <2>4. CancelInv' /\ AbortInv' /\ CloseInv' /\ KeptInv'
    BY <1>1, <2>1, <2>2 DEF CancelInv, AbortInv, CloseInv, KeptInv, InHand, PathInv, ReplyInv, Prevented, None
  <2>. QED
    BY <1>1, <2>2, <2>3, <2>4
<1>5. ASSUME ReadyPoll, wState = "errored" PROVE Inv'
  <2>1. /\ pc \in {"ready", "readyWaits"} /\ woken' = FALSE /\ failure' = "write"
        /\ (\/ Prevented("cancel") /\ pc' = "done" /\ outcome' = "write" /\ UNCHANGED canceling
            \/ ~Prevented("cancel") /\ pc' = "cancel" /\ canceling' = "asked" /\ UNCHANGED outcome)
        /\ UNCHANGED <<asked, reply, cmds, closeAnswer, abortAnswer>>
    BY <1>5 DEF ReadyPoll, FailsBackward, Ends, answerVars
  <2>2. Safe /\ PathOK'
    BY <1>2, <2>1 DEF SourceOK, DestOK, PathOK, None
  <2>3. SourceInv' /\ ReplyInv' /\ PathInv'
    BY <1>1, <2>1 DEF SourceInv, ReplyInv, PathInv, Prevented, None
  <2>4. CancelInv' /\ AbortInv' /\ CloseInv' /\ KeptInv'
    BY <1>1, <2>1, <2>2 DEF CancelInv, AbortInv, CloseInv, KeptInv, InHand, PathInv, ReplyInv, Prevented, None
  <2>. QED
    BY <1>1, <2>2, <2>3, <2>4
<1>6. ASSUME ReadyRecheck PROVE Inv'
  <2>1. /\ pc = "recheck" /\ pc' \in {"readyWaits", "read"}
        /\ UNCHANGED <<asked, reply, canceling, cmds, woken, closeAnswer, abortAnswer, failure, outcome>>
    BY <1>6 DEF ReadyRecheck, PipeStep, Calm, answerVars
  <2>2. Safe /\ PathOK'
    BY <1>2, <2>1 DEF SourceOK, DestOK, PathOK, None
  <2>3. SourceInv' /\ ReplyInv' /\ PathInv'
    BY <1>1, <2>1 DEF SourceInv, ReplyInv, PathInv, Prevented, None
  <2>4. CancelInv' /\ AbortInv' /\ CloseInv' /\ KeptInv'
    BY <1>1, <2>1, <2>2 DEF CancelInv, AbortInv, CloseInv, KeptInv, InHand, PathInv, ReplyInv, Prevented, None
  <2>. QED
    BY <1>1, <2>2, <2>3, <2>4
<1>7. ASSUME SendRead PROVE Inv'
  <2>1. /\ pc = "read" /\ pc' = "race" /\ asked' = asked + 1 /\ reply' = "waiting"
        /\ UNCHANGED <<canceling, cmds, woken, closeAnswer, abortAnswer, failure, outcome>>
    BY <1>7 DEF SendRead, PipeStep, answerVars
  <2>2. Safe /\ PathOK'
    BY <1>2, <2>1 DEF SourceOK, DestOK, PathOK, None
  <2>3. SourceInv' /\ ReplyInv' /\ PathInv'
    BY <1>1, <2>1 DEF SourceInv, ReplyInv, PathInv, Prevented, None
  <2>4. CancelInv' /\ AbortInv' /\ CloseInv' /\ KeptInv'
    BY <1>1, <2>1, <2>2 DEF CancelInv, AbortInv, CloseInv, KeptInv, InHand, PathInv, ReplyInv, Prevented, None
  <2>. QED
    BY <1>1, <2>2, <2>3, <2>4
<1>8. ASSUME NoticesClosed PROVE Inv'
  <2>1. /\ pc = "race" /\ failure' \in {"write", "closed"}
        /\ (\/ Prevented("cancel") /\ pc' = "done" /\ outcome' = failure' /\ UNCHANGED canceling
            \/ ~Prevented("cancel") /\ pc' = "cancel" /\ canceling' = "asked" /\ UNCHANGED outcome)
        /\ UNCHANGED <<asked, reply, cmds, woken, closeAnswer, abortAnswer>>
    BY <1>8 DEF NoticesClosed, FailsBackward, Ends, answerVars
  <2>2. Safe /\ PathOK'
    BY <1>2, <2>1 DEF SourceOK, DestOK, PathOK, None
  <2>3. SourceInv' /\ ReplyInv' /\ PathInv'
    BY <1>1, <2>1 DEF SourceInv, ReplyInv, PathInv, Prevented, None
  <2>4. CancelInv' /\ AbortInv' /\ CloseInv' /\ KeptInv'
    BY <1>1, <2>1, <2>2 DEF CancelInv, AbortInv, CloseInv, KeptInv, InHand, PathInv, ReplyInv, Prevented, None
  <2>. QED
    BY <1>1, <2>2, <2>3, <2>4
<1>9. ASSUME Forward PROVE Inv'
  <2>1. /\ pc = "race" /\ pc' = "ready" /\ reply = "chunk" /\ reply' = None
        /\ Sends(sGiven[Len(sGiven)].chunk)
        /\ UNCHANGED <<asked, canceling, woken, closeAnswer, abortAnswer, failure, outcome>>
    BY <1>9 DEF Forward, PipeStep, answerVars
  <2>2. Len(sGiven) \in Nat \ {0} /\ sGiven[Len(sGiven)].chunk = Len(sGiven) /\ Len(sGiven) \in Chunks
    <3>1. Len(sGiven) \in Nat \ {0} /\ Len(sGiven) \in 1..Len(sGiven)
      BY <2>1 DEF SourceInv, SourceOK
    <3>2. sGiven[Len(sGiven)] \in [read : Reads, chunk : Chunks]
      BY <3>1, ElementOfSeq DEF SourceOK
    <3>. QED
      BY <3>1, <3>2 DEF SourceInv
  <2>3. closeAnswer = None /\ CloseCmd \notin Sent /\ ~wClosing
    BY <2>1 DEF PathInv, CloseInv, None
  <2>4. /\ cmds' \in Seq(Sendable) /\ Sent' = Sent \cup {Len(sGiven)} /\ CloseLast'
        /\ Writes' = Append(Writes, Len(sGiven))
    BY <2>1, <2>2, <2>3, SendsFacts DEF Sendable
  <2>5. SourceOK' /\ DestOK' /\ PathOK'
    BY <1>1, <2>1, <2>4 DEF SourceOK, DestOK, PathOK, None
  <2>6. SourceInv' /\ ReplyInv' /\ PathInv'
    BY <1>1, <2>1 DEF SourceInv, ReplyInv, PathInv, Prevented, None
  <2>7. CancelInv' /\ AbortInv' /\ CloseInv'
    BY <1>1, <2>1, <2>2, <2>3, <2>4, Commands DEF CancelInv, AbortInv, CloseInv, Prevented
  <2>8. KeptInv'
    <3> SUFFICES ASSUME wState = "writable"
                 PROVE  wSunk \o wLine \o Append(Writes, Len(sGiven)) = Upto(Len(sGiven))
      BY SMTT(30), <1>1, <2>1, <2>4 DEF KeptInv, InHand, None
    <3>1. wSunk \o wLine \o Writes = Upto(Len(sGiven) - 1)
      BY <2>1 DEF KeptInv, InHand
    <3>2. wSunk \o wLine \in Seq(Sendable) /\ Writes \in Seq(Sendable) /\ Len(sGiven) \in Sendable
      BY <2>2, WiderSeq, FilterType DEF Writes, DestOK, Sendable
    <3>3. (wSunk \o wLine) \o Append(Writes, Len(sGiven)) = Append(wSunk \o wLine \o Writes, Len(sGiven))
      BY <3>2
    <3>4. Upto(Len(sGiven)) = Append(Upto(Len(sGiven) - 1), Len(sGiven))
      <4>1. Len(sGiven) - 1 \in Nat /\ (Len(sGiven) - 1) + 1 = Len(sGiven)
        BY <2>2
      <4>. QED
        BY <4>1, UptoFacts
    <3>. QED
      BY <3>1, <3>3, <3>4
  <2>. QED
    BY <1>1, <2>4, <2>5, <2>6, <2>7, <2>8
<1>10. ASSUME PropagatesEnd, Prevented("close") PROVE Inv'
  <2>1. /\ pc = "race" /\ reply = "end" /\ reply' = None /\ pc' = "done" /\ outcome' = "ok"
        /\ UNCHANGED <<asked, canceling, cmds, woken, closeAnswer, abortAnswer, failure>>
    BY <1>10 DEF PropagatesEnd, Ends
  <2>2. Safe /\ PathOK'
    BY <1>2, <2>1 DEF SourceOK, DestOK, PathOK, None
  <2>3. SourceInv' /\ ReplyInv' /\ PathInv'
    BY <1>1, <2>1, <1>10 DEF SourceInv, ReplyInv, PathInv, Prevented, None
  <2>4. CancelInv' /\ AbortInv' /\ CloseInv' /\ KeptInv'
    BY <1>1, <2>1, <2>2, <1>10 DEF CancelInv, AbortInv, CloseInv, KeptInv, InHand, PathInv, ReplyInv, Prevented, None
  <2>. QED
    BY <1>1, <2>2, <2>3, <2>4
<1>11. ASSUME PropagatesEnd, ~Prevented("close") PROVE Inv'
  <2>1. /\ pc = "race" /\ reply = "end" /\ reply' = None /\ pc' = "close" /\ Sends(CloseCmd)
        /\ closeAnswer' = "waiting"
        /\ UNCHANGED <<asked, canceling, woken, abortAnswer, failure, outcome>>
    BY <1>11 DEF PropagatesEnd
  <2>2. closeAnswer = None /\ CloseCmd \notin Sent /\ ~wClosing /\ failure = None /\ canceling = None /\ abortAnswer = None
        /\ wBusy # "close"
    BY <2>1 DEF PathInv, CloseInv, None
  <2>3. sState \in {"ended", "errored"} /\ posted = Len(sGiven)
    BY <2>1, <2>2 DEF SourceInv, SourceOK, None
  <2>4. cmds' \in Seq(Sendable) /\ Sent' = Sent \cup {CloseCmd} /\ CloseLast' /\ UNCHANGED Writes
    BY <2>1, <2>2, SendsFacts, Commands DEF Sendable
  <2>5. SourceOK' /\ DestOK' /\ PathOK'
    BY <1>1, <2>1, <2>4 DEF SourceOK, DestOK, PathOK, None
  <2>6. SourceInv' /\ ReplyInv' /\ PathInv'
    BY <1>1, <1>11, <2>1, <2>2, <2>3 DEF SourceInv, ReplyInv, PathInv, Prevented, None
  <2>7. CancelInv' /\ AbortInv' /\ CloseInv' /\ KeptInv'
    BY <1>1, <2>1, <2>2, <2>4, Commands DEF CancelInv, AbortInv, CloseInv, KeptInv, InHand, Prevented, None
  <2>. QED
    BY <1>1, <2>4, <2>5, <2>6, <2>7
<1>12. ASSUME PropagatesError, Prevented("abort") PROVE Inv'
  <2>1. /\ pc = "race" /\ reply = "err" /\ reply' = None /\ pc' = "done" /\ outcome' = "read" /\ failure' = "read"
        /\ UNCHANGED <<asked, canceling, cmds, woken, closeAnswer, abortAnswer>>
    BY <1>12 DEF PropagatesError, Ends
  <2>2. Safe /\ PathOK'
    BY <1>2, <2>1 DEF SourceOK, DestOK, PathOK, None
  <2>3. SourceInv' /\ ReplyInv' /\ PathInv'
    BY <1>1, <2>1, <1>12 DEF SourceInv, ReplyInv, PathInv, Prevented, None
  <2>4. CancelInv' /\ AbortInv' /\ CloseInv' /\ KeptInv'
    BY <1>1, <2>1, <2>2, <1>12 DEF CancelInv, AbortInv, CloseInv, KeptInv, InHand, PathInv, ReplyInv, Prevented, None
  <2>. QED
    BY <1>1, <2>2, <2>3, <2>4
<1>13. ASSUME PropagatesError, ~Prevented("abort") PROVE Inv'
  <2>1. /\ pc = "race" /\ reply = "err" /\ reply' = None /\ pc' = "abort" /\ Sends(AbortCmd)
        /\ abortAnswer' = "waiting" /\ failure' = "read"
        /\ UNCHANGED <<asked, canceling, woken, closeAnswer, outcome>>
    BY <1>13 DEF PropagatesError
  <2>2. cmds' \in Seq(Sendable) /\ Sent' = Sent \cup {AbortCmd} /\ CloseLast' /\ UNCHANGED Writes
    BY <2>1, SendsFacts, Commands DEF Sendable
  <2>3. SourceOK' /\ DestOK' /\ PathOK'
    BY <1>1, <2>1, <2>2 DEF SourceOK, DestOK, PathOK, None
  <2>4. SourceInv' /\ ReplyInv' /\ PathInv'
    BY <1>1, <2>1 DEF SourceInv, ReplyInv, PathInv, Prevented, None
  <2>5. CancelInv' /\ AbortInv' /\ CloseInv' /\ KeptInv'
    BY <1>1, <1>13, <2>1, <2>2, Commands DEF CancelInv, AbortInv, CloseInv, KeptInv, PathInv, InHand, Prevented, None
  <2>. QED
    BY <1>1, <2>2, <2>3, <2>4, <2>5
<1>14. ASSUME CancelDone PROVE Inv'
  <2>1. /\ pc = "cancel" /\ pc' = "done" /\ canceling \in {"ok", "err"} /\ outcome' \in {"cancel", failure}
        /\ UNCHANGED <<asked, reply, canceling, cmds, woken, closeAnswer, abortAnswer, failure>>
        /\ failure \in {"write", "closed"}
    BY <1>14 DEF CancelDone, PipeStep, answerVars, PathInv
  <2>2. Safe /\ PathOK'
    BY <1>2, <2>1 DEF SourceOK, DestOK, PathOK, None
  <2>3. SourceInv' /\ ReplyInv' /\ PathInv'
    BY <1>1, <2>1 DEF SourceInv, ReplyInv, PathInv, Prevented, None
  <2>4. CancelInv' /\ AbortInv' /\ CloseInv' /\ KeptInv'
    BY <1>1, <2>1, <2>2 DEF CancelInv, AbortInv, CloseInv, KeptInv, InHand, PathInv, ReplyInv, Prevented, None
  <2>. QED
    BY <1>1, <2>2, <2>3, <2>4
<1>15. ASSUME CloseDone PROVE Inv'
  <2>1. /\ pc = "close" /\ pc' = "done" /\ closeAnswer \in {"ok", "err"}
        /\ outcome' = (IF closeAnswer = "err" THEN "close" ELSE "ok")
        /\ UNCHANGED <<asked, reply, canceling, cmds, woken, closeAnswer, abortAnswer, failure>>
    BY <1>15 DEF CloseDone, PipeStep, answerVars
  <2>2. Safe /\ PathOK'
    BY <1>2, <2>1 DEF SourceOK, DestOK, PathOK, None
  <2>3. SourceInv' /\ ReplyInv' /\ PathInv'
    BY <1>1, <2>1 DEF SourceInv, ReplyInv, PathInv, Prevented, None
  <2>4. CancelInv' /\ AbortInv' /\ CloseInv' /\ KeptInv'
    BY <1>1, <2>1, <2>2 DEF CancelInv, AbortInv, CloseInv, KeptInv, InHand, PathInv, ReplyInv, Prevented, None
  <2>. QED
    BY <1>1, <2>2, <2>3, <2>4
<1>16. ASSUME AbortDone PROVE Inv'
  <2>1. /\ pc = "abort" /\ pc' = "done" /\ abortAnswer \in {"ok", "err"} /\ outcome' \in {"abort", failure}
        /\ UNCHANGED <<asked, reply, canceling, cmds, woken, closeAnswer, abortAnswer, failure>>
        /\ failure = "read"
    BY <1>16 DEF AbortDone, PipeStep, answerVars, PathInv
  <2>2. Safe /\ PathOK'
    BY <1>2, <2>1 DEF SourceOK, DestOK, PathOK, None
  <2>3. SourceInv' /\ ReplyInv' /\ PathInv'
    BY <1>1, <2>1 DEF SourceInv, ReplyInv, PathInv, Prevented, None
  <2>4. CancelInv' /\ AbortInv' /\ CloseInv' /\ KeptInv'
    BY <1>1, <2>1, <2>2 DEF CancelInv, AbortInv, CloseInv, KeptInv, InHand, PathInv, ReplyInv, Prevented, None
  <2>. QED
    BY <1>1, <2>2, <2>3, <2>4
<1>17. ASSUME SignalFires PROVE Inv'
  <2>1. /\ InLoop /\ pc' = "signalCancel" /\ failure' = "aborted"
        /\ canceling' = (IF Prevented("cancel") THEN "ok" ELSE "asked")
        /\ UNCHANGED <<asked, reply, cmds, woken, closeAnswer, abortAnswer, outcome>>
    BY <1>17 DEF SignalFires, answerVars
  <2>2. Safe /\ PathOK'
    BY <1>2, <2>1 DEF SourceOK, DestOK, PathOK, None
  <2>3. SourceInv' /\ ReplyInv' /\ PathInv'
    BY <1>1, <2>1 DEF SourceInv, ReplyInv, PathInv, InLoop, Prevented, None
  <2>4. CancelInv' /\ AbortInv' /\ CloseInv' /\ KeptInv'
    BY <1>1, <2>1, <2>2 DEF CancelInv, AbortInv, CloseInv, KeptInv, InHand, PathInv, ReplyInv, Prevented, None
  <2>. QED
    BY <1>1, <2>2, <2>3, <2>4
<1>18. ASSUME SignalAborts, Prevented("abort") PROVE Inv'
  <2>1. /\ pc = "signalCancel" /\ canceling \in {"ok", "err"} /\ pc' = "done"
        /\ outcome' \in {"cancel", "aborted"} /\ UNCHANGED <<asked, reply, canceling, cmds, woken, closeAnswer, abortAnswer, failure>>
    BY <1>18 DEF SignalAborts, Ends
  <2>2. Safe /\ PathOK'
    BY <1>2, <2>1 DEF SourceOK, DestOK, PathOK, None
  <2>3. SourceInv' /\ ReplyInv' /\ PathInv'
    BY <1>1, <2>1, <1>18 DEF SourceInv, ReplyInv, PathInv, Prevented, None
  <2>4. CancelInv' /\ AbortInv' /\ CloseInv' /\ KeptInv'
    BY <1>1, <2>1, <2>2, <1>18 DEF CancelInv, AbortInv, CloseInv, KeptInv, InHand, PathInv, ReplyInv, Prevented, None
  <2>. QED
    BY <1>1, <2>2, <2>3, <2>4
<1>19. ASSUME SignalAborts, ~Prevented("abort") PROVE Inv'
  <2>1. /\ pc = "signalCancel" /\ canceling \in {"ok", "err"} /\ pc' = "signalAbort" /\ Sends(AbortCmd)
        /\ abortAnswer' = "waiting"
        /\ UNCHANGED <<asked, reply, canceling, woken, closeAnswer, failure, outcome>>
    BY <1>19 DEF SignalAborts
  <2>2. cmds' \in Seq(Sendable) /\ Sent' = Sent \cup {AbortCmd} /\ CloseLast' /\ UNCHANGED Writes
    BY <2>1, SendsFacts, Commands DEF Sendable
  <2>3. SourceOK' /\ DestOK' /\ PathOK'
    BY <1>1, <2>1, <2>2 DEF SourceOK, DestOK, PathOK, None
  <2>4. SourceInv' /\ ReplyInv' /\ PathInv'
    BY <1>1, <2>1 DEF SourceInv, ReplyInv, PathInv, Prevented, None
  <2>5. CancelInv' /\ AbortInv' /\ CloseInv' /\ KeptInv'
    BY <1>1, <1>19, <2>1, <2>2, Commands DEF CancelInv, AbortInv, CloseInv, KeptInv, PathInv, InHand, Prevented, None
  <2>. QED
    BY <1>1, <2>2, <2>3, <2>4, <2>5
<1>20. ASSUME SignalDone PROVE Inv'
  <2>1. /\ pc = "signalAbort" /\ pc' = "done" /\ abortAnswer \in {"ok", "err"}
        /\ outcome' \in {"abort", "cancel", "aborted"}
        /\ UNCHANGED <<asked, reply, canceling, cmds, woken, closeAnswer, abortAnswer, failure>>
    BY <1>20 DEF SignalDone, PipeStep, answerVars
  <2>2. Safe /\ PathOK'
    BY <1>2, <2>1 DEF SourceOK, DestOK, PathOK, None
  <2>3. SourceInv' /\ ReplyInv' /\ PathInv'
    BY <1>1, <2>1 DEF SourceInv, ReplyInv, PathInv, Prevented, None
  <2>4. CancelInv' /\ AbortInv' /\ CloseInv' /\ KeptInv'
    BY <1>1, <2>1, <2>2 DEF CancelInv, AbortInv, CloseInv, KeptInv, InHand, PathInv, ReplyInv, Prevented, None
  <2>. QED
    BY <1>1, <2>2, <2>3, <2>4
<1>21. ASSUME ReadyPoll PROVE Inv'
  <2> HIDE DEF Inv
  <2>1. CASE wState = "errored"
    BY <1>5, <1>21, <2>1
  <2>2. CASE wState = "closed" \/ (wState # "errored" /\ ~full)
    BY <1>4, <1>21, <2>2
  <2>3. CASE wState # "errored" /\ wState # "closed" /\ full
    BY <1>3, <1>21, <2>3
  <2>. QED
    BY <2>1, <2>2, <2>3
<1>22. (PropagatesEnd \/ PropagatesError \/ SignalAborts) => Inv'
  BY <1>10, <1>11, <1>12, <1>13, <1>18, <1>19
<1>. QED
  BY <1>6, <1>7, <1>8, <1>9, <1>14, <1>15, <1>16, <1>17, <1>20, <1>21, <1>22 DEF PipeWork

(* A step of the AbortSignal alone leaves the rest alone.                   *)
LEMMA SignalLeaves == CallAbort \/ SignalWork => UNCHANGED <<plan, sourceVars, destVars, pipeVars>>
  BY DEF CallAbort, SignalWork, SignalStep

(* What moves neither pipe nor ends keeps the invariant.                    *)
LEMMA IdleKeeps == Inv /\ UNCHANGED <<plan, sourceVars, destVars, pipeVars>> => Inv'
<1> SUFFICES ASSUME Inv, UNCHANGED <<plan, sourceVars, destVars, pipeVars>> PROVE Inv'
  OBVIOUS
<1>1. plan' = plan /\ SourceOK' /\ DestOK' /\ PathOK'
  BY DEF Inv, SourceOK, DestOK, PathOK, sourceVars, readableVars, destVars, writableVars, channelVars, answerVars, pipeVars
<1>2. SourceInv' /\ ReplyInv' /\ PathInv' /\ CancelInv'
  BY DEF Inv, SourceInv, ReplyInv, PathInv, CancelInv, Prevented, sourceVars, readableVars, destVars, answerVars, pipeVars
<1>3. UNCHANGED <<Sent, Writes, InHand>>
  BY DEF Sent, Writes, InHand, sourceVars, destVars, channelVars
<1>4. AbortInv' /\ CloseLast' /\ CloseInv' /\ KeptInv'
  BY <1>3 DEF Inv, AbortInv, CloseLast, CloseInv, KeptInv, Prevented, sourceVars, readableVars, destVars, writableVars,
             channelVars, answerVars, pipeVars
<1>. QED
  BY <1>1, <1>2, <1>4 DEF Inv

(* The invariant is inductive.                                              *)
LEMMA StepInv == Inv /\ [Next]_vars => Inv'
<1> SUFFICES ASSUME Inv, [Next]_vars PROVE Inv'
  OBVIOUS
<1>1. CASE Post \/ EndSource \/ FailSource \/ FailSourceLate \/ SourceWork
  BY <1>1, SourceKeeps
<1>2. CASE DestWork \/ ControllerErrors
  BY <1>2, DestKeeps
<1>3. CASE PipeWork
  BY <1>3, PipeKeeps
<1>4. CASE CallAbort \/ SignalWork
  BY <1>4, SignalLeaves, IdleKeeps
<1>5. CASE UNCHANGED vars
  BY <1>5, IdleKeeps DEF vars
<1>. QED
  BY <1>1, <1>2, <1>3, <1>4, <1>5 DEF Next

(* The invariant always holds.                                              *)
LEMMA InvHolds == Spec => []Inv
  BY InitInv, StepInv, PTL DEF Spec

-----------------------------------------------------------------------------
(* What pipe_to promises                                                    *)

(* The variables of the pipe keep their types, whatever the plans, the       *)
(* number of chunks and the number of abort() calls (TypeOK).                *)
THEOREM PipeTypes == Spec => []TypeOK
<1>1. Init => Any({ThePipe})!Init
  BY DEF Init, Signal!Init, Signal!None, Any!Init, Any!None
<1>2. Any({ThePipe})!Spec => []Any({ThePipe})!TypeOK
  <2>1. Any({ThePipe})!Init => Any({ThePipe})!TypeOK
    BY SignalStarts DEF SignalInv
  <2>2. Any({ThePipe})!TypeOK /\ [Any({ThePipe})!Next]_(Any({ThePipe})!vars) => Any({ThePipe})!TypeOK'
    BY SignalTypes
  <2>. QED
    BY <2>1, <2>2, PTL DEF Any!Spec
<1>3. Inv /\ Any({ThePipe})!TypeOK => TypeOK
  BY DEF Inv, TypeOK, Signal!TypeOK, Signal!None, Any!TypeOK, Any!None
<1>. QED
  BY <1>1, <1>2, <1>3, SignalSteps, InvHolds, PTL DEF Spec, Any!Spec

(* While the destination is writable every chunk the pipe has read and       *)
(* passed on is in the channel, in the destination's line or in its sink,    *)
(* once, and in the order in which the source gave it (NothingLost).         *)
THEOREM PipeLosesNothing == Spec => []NothingLost
<1>1. Inv => NothingLost
  BY GivenIsUpto DEF Inv, KeptInv, NothingLost
<1>. QED
  BY <1>1, InvHolds, PTL

(* A pipe that closes its destination and resolves has delivered every chunk *)
(* the source was given (OkMeansDelivered).                                  *)
THEOREM PipeDelivers == Spec => []OkMeansDelivered
<1>1. Inv => OkMeansDelivered
  <2> SUFFICES ASSUME Inv, outcome = "ok", ~Prevented("close")
               PROVE  /\ sState \in {"ended", "errored"} /\ wState = "closed"
                      /\ wSunk = Given /\ Len(Given) = posted
    BY DEF OkMeansDelivered
  <2>1. failure = None /\ closeAnswer = "ok"
    BY DEF Inv, PathInv
  <2>2. sState \in {"ended", "errored"} /\ posted = Len(sGiven)
    BY <2>1 DEF Inv, ReplyInv, None
  <2>3. wState = "closed" /\ wSunk = Upto(Len(sGiven))
    BY <2>1 DEF Inv, CloseInv
  <2>4. Given = Upto(Len(sGiven)) /\ Len(sGiven) = posted /\ Len(sGiven) \in Nat
    BY <2>2, GivenIsUpto DEF Inv, SourceInv, SourceOK
  <2>. QED
    BY <2>2, <2>3, <2>4, UptoFacts
<1>. QED
  BY <1>1, InvHolds, PTL

(* An end or an error is carried across unless that was prevented, and what  *)
(* is prevented never happens (Propagates).                                  *)
THEOREM PipePropagates == Spec => []Propagates
<1>1. Inv => Propagates
  <2> SUFFICES ASSUME Inv PROVE Propagates
    OBVIOUS
  <2>1. pc = "done" /\ failure \in {"write", "closed", "aborted"} /\ ~Prevented("cancel") => sState # "open"
    BY DEF Inv, PathInv, CancelInv
  <2>2. pc = "done" /\ failure \in {"read", "aborted"} /\ ~Prevented("abort") => wState # "writable"
    BY DEF Inv, PathInv, AbortInv
  <2>3. pc = "done" /\ outcome = "ok" => failure = None
    BY DEF Inv, PathInv
  <2>4. Prevented("cancel") => sState # "canceled"
    BY DEF Inv, CancelInv
  <2>5. Prevented("close") => wEnded # "close" \/ plan.dest = "closed"
    BY DEF Inv, ReplyInv, CloseInv
  <2>6. Prevented("abort") => wEnded # "abort"
    BY DEF Inv, AbortInv
  <2>. QED
    BY <2>1, <2>2, <2>3, <2>4, <2>5, <2>6 DEF Propagates
<1>. QED
  BY <1>1, InvHolds, PTL
=============================================================================
