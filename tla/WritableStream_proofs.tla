------------------------- MODULE WritableStream_proofs -------------------------
(***************************************************************************)
(* Theorems about the writable stream, for every set of calls, every       *)
(* chunk size and every high water mark.                                   *)
(***************************************************************************)
EXTENDS WritableStreamProps, Facts, FiniteSetTheorems

-----------------------------------------------------------------------------
(* Types                                                                    *)

(* An answer is one of the answers. *)
LEMMA SettleType ==
    ASSUME NEW r \in [Calls -> Outcomes], NEW S, NEW o \in Outcomes
    PROVE  Settle(r, S, o) \in [Calls -> Outcomes]
  BY DEF Settle

(* The first error is an error. *)
LEMMA FirstErrorType ==
    ASSUME TypeOK, NEW e \in StoredErrors
    PROVE  FirstError(e) \in StoredErrors
  BY DEF FirstError, TypeOK

(* What is published is a state. *)
LEMMA PublishedType ==
    ASSUME NEW i \in Inner
    PROVE  Published(i) \in [backpressure : BOOLEAN, closed : BOOLEAN, errored : BOOLEAN, total : Nat]
  BY DEF Published, Inner, States

(* Only waiters are roused. *)
LEMMA RousedType == ASSUME TypeOK, NEW i PROVE Roused(i) \subseteq Waiters
  BY DEF Roused, TypeOK

(* update_backpressure keeps the task's state typed. *)
LEMMA UpdateBackpressureType ==
    ASSUME NEW i \in Inner PROVE UpdateBackpressure(i) \in Inner
<1>1. \A b \in BOOLEAN : [i EXCEPT !.backpressure = b] \in Inner
  BY DEF Inner
<1>2. (i.total >= HWM) \in BOOLEAN
  OBVIOUS
<1> QED
  BY <1>1, <1>2 DEF UpdateBackpressure

(* So does taking a write from the queue. *)
LEMMA WithoutWriteType ==
    ASSUME TypeOK, NEW w \in Writes PROVE WithoutWrite(w) \in Inner
<1> DEFINE i == [inner EXCEPT !.total = SaturatingSub(@, Size[w])]
<1>1. SaturatingSub(inner.total, Size[w]) \in Nat
  BY NumbersAssumption DEF SaturatingSub, TypeOK, Inner
<1>2. i \in Inner
  BY <1>1 DEF TypeOK, Inner
<1>3. [f \in Flushes |-> IF i.flushCompletions[f] > 0 THEN i.flushCompletions[f] - 1 ELSE 0]
        \in [Flushes -> Nat]
  BY <1>2 DEF Inner
<1> QED
  BY <1>2, <1>3 DEF WithoutWrite, DecrementFlushCounters, Inner

(* update_flags keeps the types. *)
LEMMA UpdateFlagsType ==
    ASSUME TypeOK, NEW i \in Inner, UpdateFlags(i)
    PROVE  /\ flags' \in [backpressure : BOOLEAN, closed : BOOLEAN, errored : BOOLEAN, total : Nat]
           /\ woken' \subseteq Waiters
           /\ wakers' \subseteq Waiters
  BY PublishedType, RousedType DEF UpdateFlags, Wake, TypeOK

(* A message is one of the messages. *)
LEMMA SendType ==
    ASSUME TypeOK, NEW op \in Ops, NEW id \in Calls, Send(op, id)
    PROVE  cmds' \in Seq(Commands) /\ scheduled' \in BOOLEAN
<1>1. [op |-> op, id |-> id] \in Commands
  BY DEF Commands
<1>2. cmds' \in Seq(Commands)
  BY <1>1 DEF Send, TypeOK
<1>3. scheduled' \in BOOLEAN
  BY DEF Send
<1> QED
  BY <1>2, <1>3

(* A request keeps the types. *)
LEMMA RequestType ==
    ASSUME TypeOK, NEW op \in Ops, NEW id \in Calls, Request(op, id)
    PROVE  /\ cmds' \in Seq(Commands) /\ scheduled' \in BOOLEAN
           /\ result' \in [Calls -> Outcomes]
<1>1. cmds' \in Seq(Commands) /\ scheduled' \in BOOLEAN
  BY SendType DEF Request
<1>2. (IF pc = "done" THEN "dropped" ELSE "pending") \in Outcomes
  BY DEF Outcomes
<1>3. result' \in [Calls -> Outcomes]
  BY <1>2, SettleType DEF Request, TypeOK
<1> QED
  BY <1>1, <1>3

(* The writer's calls keep the types. *)
LEMMA HandleStepType == TypeOK /\ HandleStep => TypeOK'
<1> SUFFICES ASSUME TypeOK, HandleStep PROVE TypeOK'
  OBVIOUS
<1> USE DEF clientVars, channelVars, waitVars, sharedVars, taskVars, sinkVars
<1>1. ASSUME NEW w \in Writes, Write(w) PROVE TypeOK'
  <2>1. w \in Calls /\ "write" \in Ops
    BY DEF Calls, Requests, Ops
  <2> QED
    BY <1>1, <2>1, RequestType DEF Write, TypeOK
<1>2. ASSUME NEW w \in Writes, Enqueue(w) PROVE TypeOK'
  <2>1. w \in Calls /\ "write" \in Ops /\ {"stored", "closed"} \subseteq Outcomes
    BY DEF Calls, Requests, Ops, Outcomes
  <2>2. cmds' \in Seq(Commands) /\ scheduled' \in BOOLEAN /\ result' \in [Calls -> Outcomes]
    <3>1. CASE Request("write", w)
      BY <3>1, <2>1, RequestType
    <3>2. CASE result' = Settle(result, {w}, IF flags.errored THEN "stored" ELSE "closed")
               /\ UNCHANGED <<cmds, scheduled>>
      BY <3>2, <2>1, SettleType DEF TypeOK
    <3> QED
      BY <1>2, <3>1, <3>2 DEF Enqueue
  <2> QED
    BY <1>2, <2>2 DEF Enqueue, TypeOK
<1>3. ASSUME NEW f \in Flushes, Flush(f) PROVE TypeOK'
  <2>1. f \in Calls /\ "flush" \in Ops
    BY DEF Calls, Requests, Ops
  <2> QED
    BY <1>3, <2>1, RequestType DEF Flush, TypeOK
<1>4. ASSUME NEW c \in Closes, Close(c) PROVE TypeOK'
  <2>1. c \in Calls /\ "close" \in Ops
    BY DEF Calls, Requests, Ops
  <2> QED
    BY <1>4, <2>1, RequestType DEF Close, TypeOK
<1>5. ASSUME NEW a \in Aborts, Abort(a) PROVE TypeOK'
  <2>1. a \in Calls /\ "abort" \in Ops
    BY DEF Calls, Requests, Ops
  <2> QED
    BY <1>5, <2>1, RequestType DEF Abort, TypeOK
<1>6. ASSUME NEW e \in Errors, ControllerError(e) PROVE TypeOK'
  <2>1. ctrls' \in Seq(Errors) /\ raised' \subseteq Errors
    BY <1>6 DEF ControllerError, TypeOK
  <2> QED
    BY <1>6, <2>1 DEF ControllerError, TypeOK
<1>7. CASE DropHandles
  <2>1. scheduled' \in BOOLEAN
    BY <1>7 DEF DropHandles
  <2> QED
    BY <1>7, <2>1 DEF DropHandles, TypeOK
<1> QED
  BY <1>1, <1>2, <1>3, <1>4, <1>5, <1>6, <1>7 DEF HandleStep

(* ready() and closed() keep the types. *)
LEMMA WaiterStepType ==
    ASSUME TypeOK, NEW c \in Waiters, WaiterStep(c) PROVE TypeOK'
<1> USE DEF clientVars, channelVars, waitVars, sharedVars, taskVars, sinkVars
<1>1. c \in Calls /\ {"ready", "closed"} \subseteq Ops
       /\ {"stored", "ok", "pending"} \subseteq Outcomes
  BY DEF Calls, Ops, Outcomes
<1>2. \A o \in Outcomes : Settle(result, {c}, o) \in [Calls -> Outcomes]
  BY SettleType DEF TypeOK
<1>3. CASE c \in ReadyCalls /\ ReadyPoll(c)
  <2>1. waitPc' \in [Waiters -> {"idle", "register", "recheck", "parked", "done"}]
    BY <1>3 DEF ReadyPoll, Return, TypeOK
  <2>2. result' \in [Calls -> Outcomes]
    BY <1>3, <1>1, <1>2 DEF ReadyPoll, Return
  <2> QED
    BY <1>3, <2>1, <2>2 DEF ReadyPoll, Polls, TypeOK
<1>4. CASE c \in ClosedCalls /\ ClosedPoll(c)
  <2>1. waitPc' \in [Waiters -> {"idle", "register", "recheck", "parked", "done"}]
    BY <1>4 DEF ClosedPoll, Return, TypeOK
  <2>2. result' \in [Calls -> Outcomes]
    BY <1>4, <1>1, <1>2 DEF ClosedPoll, Return
  <2> QED
    BY <1>4, <2>1, <2>2 DEF ClosedPoll, Polls, TypeOK
<1>5. CASE Register(c)
  BY <1>5, <1>1, SendType DEF Register, TypeOK
<1>6. CASE Recheck(c)
  <2>1. waitPc' \in [Waiters -> {"idle", "register", "recheck", "parked", "done"}]
    BY <1>6 DEF Recheck, Return, TypeOK
  <2>2. result' \in [Calls -> Outcomes]
    <3>1. result' = result \/ result' = Settle(result, {c}, "ok")
      BY <1>6, Zenon DEF Recheck, Return
    <3>2. result \in [Calls -> Outcomes] /\ Settle(result, {c}, "ok") \in [Calls -> Outcomes]
      BY <1>1, <1>2 DEF TypeOK
    <3> QED
      BY <3>1, <3>2
  <2> QED
    BY <1>6, <2>1, <2>2 DEF Recheck, TypeOK
<1> QED
  BY <1>3, <1>4, <1>5, <1>6 DEF WaiterStep

(* start() keeps the types. *)
LEMMA StartStepType == TypeOK /\ StartStep => TypeOK'
<1> SUFFICES ASSUME TypeOK, StartStep PROVE TypeOK'
  OBVIOUS
<1> USE DEF clientVars, channelVars, waitVars, sharedVars, taskVars, sinkVars
<1>1. CASE StartSucceeds
  BY <1>1 DEF StartSucceeds, SinkBack, TypeOK, Inner, Phases
<1>2. CASE StartFails
  <2>1. inner' \in Inner
    BY <1>2 DEF StartFails, TypeOK, Inner, States
  <2>2. storedError' \in StoredErrors
    BY <1>2, FirstErrorType DEF StartFails, StoredErrors
  <2> QED
    BY <1>2, <2>1, <2>2, UpdateFlagsType DEF StartFails, TypeOK, Phases
<1> QED
  BY <1>1, <1>2 DEF StartStep

(* The beginning of a poll keeps the types. *)
LEMMA PollBeginsType ==
    TypeOK /\ (ControllerQuiet \/ ControllerErrors \/ PublishFlags) => TypeOK'
<1> USE DEF clientVars, channelVars, waitVars, sharedVars, taskVars, sinkVars
<1>1. ASSUME TypeOK, ControllerQuiet PROVE TypeOK'
  <2>1. ctrls' \in Seq(Errors) /\ inner \in Inner
    BY <1>1 DEF ControllerQuiet, TypeOK
  <2> QED
    BY <1>1, <2>1, UpdateFlagsType DEF ControllerQuiet, TypeOK, Phases
<1>2. ASSUME TypeOK, ControllerErrors PROVE TypeOK'
  <2>1. Head(ctrls) \in Errors
    BY <1>2 DEF ControllerErrors, ErrorTakesEffect, TypeOK
  <2>2. inner' \in Inner
    <3>1. Head(ctrls) \in Reasons /\ "Errored" \in States /\ <<>> \in Seq(Writes)
      BY <2>1 DEF Reasons, States
    <3> QED
      BY <1>2, <3>1 DEF ControllerErrors, TypeOK, Inner
  <2>3. result' \in [Calls -> Outcomes]
    BY <1>2, SettleType DEF ControllerErrors, TypeOK, Outcomes
  <2>4. ctrls' \in Seq(Errors) /\ storedError' \in StoredErrors
    BY <1>2, <2>1 DEF ControllerErrors, StoredErrors
  <2> QED
    BY <1>2, <2>2, <2>3, <2>4 DEF ControllerErrors, Wake, TypeOK, Phases
<1>3. ASSUME TypeOK, PublishFlags PROVE TypeOK'
  <2>1. inner \in Inner
    BY <1>3 DEF TypeOK
  <2> QED
    BY <1>3, <2>1, UpdateFlagsType DEF PublishFlags, TypeOK, Phases
<1> QED
  BY <1>1, <1>2, <1>3

\* A command taken off the channel leaves most of the state alone.
LEMMA TakesType ==
    ASSUME TypeOK, NEW op, NEW id, Takes(op, id),
           result' \in [Calls -> Outcomes], inner' \in Inner,
           flags' \in [backpressure : BOOLEAN, closed : BOOLEAN, errored : BOOLEAN, total : Nat],
           storedError' \in StoredErrors, woken' \subseteq Waiters, wakers' \subseteq Waiters
    PROVE  TypeOK'
<1>1. cmds' \in Seq(Commands)
  BY DEF Takes, TypeOK
<1> QED
  BY <1>1 DEF Takes, TypeOK, sinkVars

(* The commands keep the types. *)
LEMMA CommandStepType == TypeOK /\ CommandStep => TypeOK'
<1> SUFFICES ASSUME TypeOK, CommandStep PROVE TypeOK'
  OBVIOUS
<1>0. \A S : \A o \in Outcomes : Settle(result, S, o) \in [Calls -> Outcomes]
  BY SettleType DEF TypeOK
<1>a. inner \in Inner /\ result \in [Calls -> Outcomes] /\ woken \subseteq Waiters
      /\ wakers \subseteq Waiters /\ storedError \in StoredErrors
      /\ flags \in [backpressure : BOOLEAN, closed : BOOLEAN, errored : BOOLEAN, total : Nat]
  BY DEF TypeOK
<1>1. ASSUME NEW w \in Writes, CommandWrite(w) PROVE TypeOK'
  <2> DEFINE i == [inner EXCEPT !.queue = PushBack(@, w), !.total = @ + Size[w]]
  <2>1. i \in Inner
    <3>1. PushBack(inner.queue, w) \in Seq(Writes) /\ inner.total + Size[w] \in Nat
      BY <1>a, NumbersAssumption DEF Inner, PushBack
    <3> QED
      BY <1>a, <3>1 DEF Inner
  <2>2. inner' \in Inner
    BY <1>1, <2>1, UpdateBackpressureType DEF CommandWrite
  <2>3. UpdateFlags(inner') /\ UNCHANGED <<result, storedError>> /\ Takes("write", w)
    BY <1>1 DEF CommandWrite
  <2> HIDE DEF i
  <2> QED
    BY <1>a, <2>2, <2>3, UpdateFlagsType, TakesType
<1>2. ASSUME NEW op, NEW id, CommandRefused(op, id) PROVE TypeOK'
  <2>1. Refusal \in Outcomes
    BY DEF Refusal, Outcomes
  <2> QED
    BY <1>2, <1>0, <1>a, <2>1, TakesType DEF CommandRefused
<1>3. ASSUME NEW c \in Closes, CommandClose(c) PROVE TypeOK'
  <2>1. inner' \in Inner
    BY <1>3, <1>a DEF CommandClose, Inner
  <2> QED
    BY <1>3, <1>a, <2>1, UpdateFlagsType, TakesType DEF CommandClose
<1>4. ASSUME NEW a \in Aborts, CommandAbort(a) PROVE TypeOK'
  <2>1. inner' \in Inner
    <3>1. a \in Reasons /\ "Errored" \in States /\ <<>> \in Seq(Writes)
           /\ inner.abortCompletions \cup {a} \in SUBSET Aborts
      BY <1>a DEF Reasons, States, Inner
    <3> QED
      BY <1>4, <1>a, <3>1 DEF CommandAbort, Inner
  <2>2. storedError' \in StoredErrors /\ result' \in [Calls -> Outcomes]
    BY <1>4, <1>0 DEF CommandAbort, StoredErrors, Outcomes
  <2> QED
    BY <1>4, <2>1, <2>2, UpdateFlagsType, TakesType DEF CommandAbort
<1>5. ASSUME NEW a \in Aborts, CommandAbortMoot(a) PROVE TypeOK'
  BY <1>5, <1>0, <1>a, TakesType DEF CommandAbortMoot, Outcomes
<1>6. ASSUME NEW f \in Flushes, CommandFlush(f) PROVE TypeOK'
  <2>1. UnfinishedWrites \in Nat
    BY <1>a DEF UnfinishedWrites, Inner
  <2>2. inner' \in Inner
    <3>1. [inner.flushCompletions EXCEPT ![f] = UnfinishedWrites] \in [Flushes -> Nat]
      BY <1>a, <2>1 DEF Inner
    <3>2. [inner EXCEPT !.flushCompletions[f] = UnfinishedWrites] \in Inner
      BY <1>a, <3>1 DEF Inner
    <3> QED
      BY <1>6, <1>a, <3>2 DEF CommandFlush
  <2>3. result' \in [Calls -> Outcomes]
    BY <1>6, <1>a, <1>0 DEF CommandFlush, Outcomes
  <2> QED
    BY <1>6, <1>a, <2>2, <2>3, TakesType DEF CommandFlush
<1>7. ASSUME NEW c \in ReadyCalls, CommandRegisterReady(c) PROVE TypeOK'
  <2>1. woken' \subseteq Waiters /\ wakers' \subseteq Waiters
    BY <1>7, <1>a DEF CommandRegisterReady, Waiters
  <2> QED
    BY <1>7, <1>a, <2>1, TakesType DEF CommandRegisterReady
<1>8. ASSUME NEW c \in ClosedCalls, CommandRegisterClosed(c) PROVE TypeOK'
  <2>1. woken' \subseteq Waiters /\ wakers' \subseteq Waiters
    BY <1>8, <1>a DEF CommandRegisterClosed, Waiters
  <2> QED
    BY <1>8, <1>a, <2>1, TakesType DEF CommandRegisterClosed
<1> QED
  BY <1>1, <1>2, <1>3, <1>4, <1>5, <1>6, <1>7, <1>8 DEF CommandStep

(* What is begun is under way. *)
LEMMA BegunType ==
    /\ \A S \in SUBSET Closes : Begun("close", S) \in InFlight
    /\ \A S \in SUBSET Aborts : Begun("abort", S) \in InFlight
    /\ \A w \in Writes : Begun("write", {w}) \in InFlight
    /\ NoOperation \in InFlight
<1>1. \A op \in {None, "write", "close", "abort"}, S \in SUBSET (Writes \cup Closes \cup Aborts) :
          Begun(op, S) \in InFlight
  BY DEF Begun, InFlight
<1>2. /\ \A S \in SUBSET Closes : S \in SUBSET (Writes \cup Closes \cup Aborts)
      /\ \A S \in SUBSET Aborts : S \in SUBSET (Writes \cup Closes \cup Aborts)
      /\ \A w \in Writes : {w} \in SUBSET (Writes \cup Closes \cup Aborts)
  OBVIOUS
<1>3. NoOperation \in InFlight
  BY DEF NoOperation, InFlight
<1> QED
  BY <1>1, <1>2, <1>3

(* What the task starts keeps the types. *)
LEMMA DispatchStepType == TypeOK /\ DispatchStep => TypeOK'
<1> SUFFICES ASSUME TypeOK, DispatchStep PROVE TypeOK'
  OBVIOUS
<1> USE DEF clientVars, channelVars, waitVars, sharedVars, taskVars, sinkVars
<1>0. \A S : \A o \in Outcomes : Settle(result, S, o) \in [Calls -> Outcomes]
  BY SettleType DEF TypeOK
<1>a. inner \in Inner /\ inflight \in InFlight /\ "ok" \in Outcomes /\ "aborted" \in Outcomes
      /\ None \in Reasons
  BY DEF TypeOK, Outcomes, Reasons
<1>b. ASSUME Dispatches PROVE signal' \in [aborted : BOOLEAN, reason : Reasons] /\ pc' \in Phases
  BY <1>b, <1>a DEF Dispatches, SignalAbort, TypeOK, Inner, Phases
<1>c. ASSUME Dispatches, Quiet, inner' \in Inner, inflight' \in InFlight,
             sunk' \in Seq(Writes), ended' \in {None, "close", "abort"}
      PROVE  TypeOK'
  BY <1>c, <1>b DEF Dispatches, Quiet, TypeOK
<1>d. ASSUME Dispatches, UpdateFlags(inner'), inner' \in Inner, inflight' \in InFlight,
             result' \in [Calls -> Outcomes], storedError' \in StoredErrors, UNCHANGED sinkVars
      PROVE  TypeOK'
  BY <1>d, <1>b, UpdateFlagsType DEF Dispatches, TypeOK
<1>1. CASE AbortDuringClose
  <2>1. inner' \in Inner
    BY <1>1, <1>a DEF AbortDuringClose, Inner, States
  <2>2. inflight' \in InFlight
    BY <1>1, <1>a DEF AbortDuringClose, InFlight
  <2>3. inner.abortReason \in StoredErrors
    BY <1>a DEF Inner, Reasons, StoredErrors
  <2>4. storedError' \in StoredErrors
    BY <1>1, <2>3, FirstErrorType DEF AbortDuringClose
  <2>5. result' \in [Calls -> Outcomes]
    BY <1>1, <1>0, <1>a, SettleType DEF AbortDuringClose
  <2> QED
    BY <1>1, <1>d, <2>1, <2>2, <2>4, <2>5 DEF AbortDuringClose
<1>2. CASE StartClose
  <2>1. inner' \in Inner /\ inflight' \in InFlight
    BY <1>2, <1>a, BegunType DEF StartClose, Inner
  <2> QED
    BY <1>2, <1>c, <2>1 DEF StartClose, TypeOK
<1>3. CASE CloseWithoutSink
  <2>1. inner' \in Inner
    BY <1>3, <1>a DEF CloseWithoutSink, Inner, States
  <2> QED
    BY <1>3, <1>a, <1>0, <1>d, <2>1 DEF CloseWithoutSink, TypeOK
<1>4. CASE StartAbort
  <2>1. inner' \in Inner /\ inflight' \in InFlight
    BY <1>4, <1>a, BegunType DEF StartAbort, Inner
  <2> QED
    BY <1>4, <1>c, <2>1 DEF StartAbort, TypeOK
<1>5. CASE AbortWithoutSink
  <2>1. inner' \in Inner
    BY <1>5, <1>a DEF AbortWithoutSink, Inner
  <2> QED
    BY <1>5, <1>a, <1>0, <1>d, <2>1 DEF AbortWithoutSink, TypeOK
<1>6. CASE StartWrite
  <2>1. Head(inner.queue) \in Writes /\ Tail(inner.queue) \in Seq(Writes)
    BY <1>6, <1>a DEF StartWrite, Inner
  <2>2. inner' \in Inner
    BY <1>6, <1>a, <2>1 DEF StartWrite, Inner
  <2>3. inflight' \in InFlight
    BY <1>6, <2>1, BegunType DEF StartWrite
  <2>4. sunk' \in Seq(Writes)
    BY <1>6, <2>1 DEF StartWrite, TypeOK
  <2> QED
    BY <1>6, <1>c, <2>2, <2>3, <2>4 DEF StartWrite, TypeOK
<1>7. CASE NothingToStart
  BY <1>7, <1>c DEF NothingToStart, TypeOK
<1> QED
  BY <1>1, <1>2, <1>3, <1>4, <1>5, <1>6, <1>7 DEF DispatchStep

\* The end of a sink operation, from the parts it changes.
LEMMA FinishesType ==
    ASSUME TypeOK, NEW op, Finishes(op),
           inner' \in Inner, inflight' \in InFlight, ctrls' \in Seq(Errors),
           result' \in [Calls -> Outcomes], storedError' \in StoredErrors,
           ended' \in {None, "close", "abort"},
           flags' \in [backpressure : BOOLEAN, closed : BOOLEAN, errored : BOOLEAN, total : Nat],
           woken' \subseteq Waiters, wakers' \subseteq Waiters
    PROVE  TypeOK'
  BY DEF Finishes, TypeOK, Phases

(* An emptied queue keeps the task's state typed. *)
LEMMA ClearedType == ASSUME NEW i \in Inner PROVE Cleared(i) \in Inner
<1>1. <<>> \in Seq(Writes)
  OBVIOUS
<1> QED
  BY <1>1 DEF Cleared, Inner

(* So does rejecting what waits. *)
LEMMA RejectPendingType == ASSUME NEW i \in Inner PROVE RejectPending(i) \in Inner
<1>1. <<>> \in Seq(Writes) /\ NoFlushes \in [Flushes -> Nat]
  BY DEF NoFlushes
<1> QED
  BY <1>1 DEF RejectPending, Inner

(* A write's end is an answer. *)
LEMMA WriteSettledType ==
    ASSUME TypeOK, NEW w PROVE WriteSettled(w) \in [Calls -> Outcomes]
<1>1. Own \in Outcomes /\ "ok" \in Outcomes
  BY DEF Own, Outcomes
<1>2. Settle(result, {w}, Own) \in [Calls -> Outcomes]
  BY <1>1, SettleType DEF TypeOK
<1> QED
  BY <1>1, <1>2, SettleType DEF WriteSettled

(* What the sink returns keeps the types. *)
LEMMA DriveStepType == TypeOK /\ DriveStep => TypeOK'
<1> SUFFICES ASSUME TypeOK, DriveStep PROVE TypeOK'
  OBVIOUS
<1> USE DEF clientVars, channelVars, waitVars, sharedVars, taskVars, sinkVars
<1>a. /\ inner \in Inner /\ ctrls \in Seq(Errors) /\ <<>> \in Seq(Errors)
      /\ result \in [Calls -> Outcomes] /\ storedError \in StoredErrors
      /\ ended \in {None, "close", "abort"} /\ "abort" \in {None, "close", "abort"}
      /\ flags \in [backpressure : BOOLEAN, closed : BOOLEAN, errored : BOOLEAN, total : Nat]
      /\ woken \subseteq Waiters /\ wakers \subseteq Waiters
      /\ Own \in Outcomes /\ {"ok", "stored", "dropped"} \subseteq Outcomes
      /\ None \in Reasons /\ {"write", "close", "abort"} \subseteq StoredErrors
      /\ NoOperation \in InFlight
  BY BegunType DEF TypeOK, Own, Outcomes, Reasons, StoredErrors
<1>1. CASE OperationPending
  BY <1>1 DEF OperationPending, TypeOK, Phases
<1>2. ASSUME NEW w \in Writes, FinishWriteThenAbort(w) PROVE TypeOK'
  <2>1. WithoutWrite(w) \in Inner
    BY WithoutWriteType
  <2>2. inner' \in Inner
    BY <1>2, <1>a, <2>1 DEF FinishWriteThenAbort, Inner
  <2>3. inflight' \in InFlight
    BY <1>2, <1>a, BegunType DEF FinishWriteThenAbort, Inner
  <2>4. result' \in [Calls -> Outcomes]
    BY <1>2, WriteSettledType DEF FinishWriteThenAbort
  <2> QED
    BY <1>2, <1>a, <2>2, <2>3, <2>4, FinishesType DEF FinishWriteThenAbort
<1>3. ASSUME NEW w \in Writes, FinishWrite(w) PROVE TypeOK'
  <2>1. SinkBack(WithoutWrite(w)) \in Inner
    BY WithoutWriteType DEF SinkBack, Inner
  <2>2. inner' \in Inner
    BY <1>3, <2>1, UpdateBackpressureType DEF FinishWrite
  <2>3. result' \in [Calls -> Outcomes]
    BY <1>3, WriteSettledType DEF FinishWrite
  <2> QED
    BY <1>3, <1>a, <2>2, <2>3, UpdateFlagsType, FinishesType DEF FinishWrite
<1>4. ASSUME NEW w \in Writes, FinishWriteErrored(w) PROVE TypeOK'
  <2> DEFINE cleared == IF ErrorTakesEffect
                        THEN [WithoutWrite(w) EXCEPT !.abortReason = Head(ctrls), !.total = 0]
                        ELSE WithoutWrite(w)
             errored == [cleared EXCEPT !.state = "Errored"]
  <2>1. ErrorTakesEffect => Head(ctrls) \in Errors
    BY <1>a DEF ErrorTakesEffect
  <2>2. cleared \in Inner
    BY <2>1, WithoutWriteType DEF Inner, Reasons
  <2>3. errored \in Inner
    BY <2>2 DEF Inner, States
  <2>4. inner' = RejectPending(UpdateBackpressure(errored))
    BY <1>4 DEF FinishWriteErrored
  <2>5. inner' \in Inner
    BY <2>3, <2>4, UpdateBackpressureType, RejectPendingType
  <2>6. result' \in [Calls -> Outcomes]
    <3>1. Settle(WriteSettled(w), RejectedRequests, "stored") \in [Calls -> Outcomes]
      BY <1>a, WriteSettledType, SettleType
    <3>2. (IF ErrorTakesEffect THEN "dropped" ELSE "stored") \in Outcomes
      BY <1>a
    <3> QED
      BY <1>4, <3>1, <3>2, SettleType DEF FinishWriteErrored
  <2>7. storedError' \in StoredErrors
    BY <1>4, <1>a, <2>1, FirstErrorType DEF FinishWriteErrored, StoredErrors
  <2>8. flags' \in [backpressure : BOOLEAN, closed : BOOLEAN, errored : BOOLEAN, total : Nat]
    BY <1>4, <2>5, PublishedType DEF FinishWriteErrored
  <2>9. woken' \subseteq Waiters /\ wakers' \subseteq Waiters
    BY <1>4, <1>a, RousedType DEF FinishWriteErrored, Wake
  <2> QED
    BY <1>4, <1>a, <2>5, <2>6, <2>7, <2>8, <2>9, FinishesType DEF FinishWriteErrored
<1>5. CASE FinishClose
  <2> DEFINE state == IF inflight.requests = {} /\ inner.state = "Errored" THEN "Errored"
                      ELSE IF inflight.result = "ok" THEN "Closed" ELSE "Errored"
  <2>1. state \in States
    BY DEF States
  <2> HIDE DEF state
  <2>2. [inner EXCEPT !.state = state, !.closeRequested = FALSE] \in Inner
    BY <1>a, <2>1 DEF Inner
  <2>3. inner' = Cleared([inner EXCEPT !.state = state, !.closeRequested = FALSE])
    BY <1>5 DEF FinishClose, state
  <2>4. inner' \in Inner
    BY <2>2, <2>3, ClearedType
  <2>5. result' \in [Calls -> Outcomes]
    BY <1>5, <1>a, SettleType DEF FinishClose
  <2>6. storedError' \in StoredErrors
    BY <1>5, <1>a, FirstErrorType DEF FinishClose
  <2> QED
    BY <1>5, <1>a, <2>4, <2>5, <2>6, UpdateFlagsType, FinishesType DEF FinishClose
<1>6. CASE FinishAbort
  <2>1. [inner EXCEPT !.abortRequested = FALSE] \in Inner
    BY <1>a DEF Inner
  <2>2. inner' \in Inner
    BY <1>6, <2>1, ClearedType DEF FinishAbort
  <2>3. result' \in [Calls -> Outcomes]
    BY <1>6, <1>a, SettleType DEF FinishAbort
  <2>4. storedError' \in StoredErrors
    BY <1>6, <1>a, FirstErrorType DEF FinishAbort
  <2> QED
    BY <1>6, <1>a, <2>2, <2>3, <2>4, UpdateFlagsType, FinishesType DEF FinishAbort
<1> QED
  BY <1>1, <1>2, <1>3, <1>4, <1>5, <1>6 DEF DriveStep

(* A dropped task keeps the types. *)
LEMMA StopType == TypeOK /\ Stop => TypeOK'
<1> SUFFICES ASSUME TypeOK, Stop PROVE TypeOK'
  OBVIOUS
<1>1. result' \in [Calls -> Outcomes]
  BY SettleType DEF Stop, TypeOK, Outcomes
<1>2. cmds' \in Seq(Commands) /\ ctrls' \in Seq(Errors)
  BY DEF Stop
<1> QED
  BY <1>1, <1>2 DEF Stop, TypeOK, Phases, waitVars, sharedVars, sinkVars

(* The sink's calls of the controller keep the types. *)
LEMMA SinkStepType == TypeOK /\ SinkStep => TypeOK'
<1> SUFFICES ASSUME TypeOK, NEW r \in {"ok", "err"}, SinkCompletes(r) PROVE TypeOK'
  BY DEF SinkStep
<1>1. inflight' \in InFlight
  BY DEF SinkCompletes, TypeOK, InFlight
<1> QED
  BY <1>1 DEF SinkCompletes, TypeOK, clientVars, channelVars, waitVars, sharedVars, sinkVars

\* Every variable keeps its type, for any sets of calls and any sizes.
THEOREM TypeCorrect == Spec => []TypeOK
<1>1. Init => TypeOK
  <2> SUFFICES ASSUME Init PROVE TypeOK
    OBVIOUS
  <2>1. inner \in Inner
    <3>1. NoFlushes \in [Flushes -> Nat] /\ <<>> \in Seq(Writes) /\ None \in Reasons
           /\ (HWM = 0) \in BOOLEAN
      BY DEF NoFlushes, Reasons
    <3> QED
      BY <3>1 DEF Init, Inner, States
  <2>2. inflight \in InFlight
    BY BegunType DEF Init
  <2>3. flags \in [backpressure : BOOLEAN, closed : BOOLEAN, errored : BOOLEAN, total : Nat]
    BY <2>1, PublishedType DEF Init
  <2> QED
    <3>1. result \in [Calls -> Outcomes] /\ prior \in [Flushes -> SUBSET Writes]
           /\ waitPc \in [Waiters -> {"idle", "register", "recheck", "parked", "done"}]
      BY DEF Init, Outcomes
    <3>2. cmds \in Seq(Commands) /\ ctrls \in Seq(Errors) /\ sunk \in Seq(Writes)
      BY DEF Init
    <3>3. storedError \in StoredErrors /\ signal \in [aborted : BOOLEAN, reason : Reasons]
      BY DEF Init, StoredErrors, Reasons
    <3> QED
      BY <2>1, <2>2, <2>3, <3>1, <3>2, <3>3 DEF Init, TypeOK, Phases
<1>2. TypeOK /\ [Next]_vars => TypeOK'
  <2> SUFFICES ASSUME TypeOK, [Next]_vars PROVE TypeOK'
    OBVIOUS
  <2>1. CASE UNCHANGED vars
    BY <2>1 DEF TypeOK, vars, clientVars, channelVars, waitVars, sharedVars, taskVars, sinkVars
  <2>2. CASE PollStep
    BY <2>2, PollBeginsType, CommandStepType, DispatchStepType, DriveStepType, StopType
       DEF PollStep, TaskReturns
  <2> QED
    BY <2>1, <2>2, HandleStepType, WaiterStepType, StartStepType, StopType, SinkStepType
       DEF Next, TaskDropped
<1> QED
  BY <1>1, <1>2, PTL DEF Spec

-----------------------------------------------------------------------------
(* Ownership of the sink and of the stored error                            *)

\* What the helpers on the task's state leave alone.
LEMMA WithoutWriteFields ==
    ASSUME TypeOK, NEW w \in Writes
    PROVE  /\ WithoutWrite(w).state = inner.state
           /\ WithoutWrite(w).abortRequested = inner.abortRequested
           /\ WithoutWrite(w).sink = inner.sink
           /\ WithoutWrite(w).backpressure = inner.backpressure
           /\ WithoutWrite(w).closeRequested = inner.closeRequested
           /\ WithoutWrite(w).queue = inner.queue
  BY DEF WithoutWrite, DecrementFlushCounters, TypeOK, Inner

(* update_backpressure changes one field. *)
LEMMA UpdateBackpressureFields ==
    ASSUME NEW i \in Inner
    PROVE  /\ UpdateBackpressure(i).state = i.state
           /\ UpdateBackpressure(i).abortRequested = i.abortRequested
           /\ UpdateBackpressure(i).sink = i.sink
           /\ UpdateBackpressure(i).total = i.total
  BY DEF UpdateBackpressure, Inner

(* A failed write leaves the sink where it was. *)
LEMMA FinishWriteErroredFields ==
    ASSUME TypeOK, NEW w \in Writes, FinishWriteErrored(w)
    PROVE  inner'.state = "Errored" /\ inner'.abortRequested = inner.abortRequested
           /\ inner'.sink = inner.sink /\ inner'.closeRequested = FALSE
<1> DEFINE cleared == IF ErrorTakesEffect
                      THEN [WithoutWrite(w) EXCEPT !.abortReason = Head(ctrls), !.total = 0]
                      ELSE WithoutWrite(w)
           errored == [cleared EXCEPT !.state = "Errored"]
<1>1. ErrorTakesEffect => Head(ctrls) \in Errors
  BY DEF ErrorTakesEffect, TypeOK
<1>2. cleared \in Inner /\ cleared.sink = inner.sink
      /\ cleared.abortRequested = inner.abortRequested
  BY <1>1, WithoutWriteType, WithoutWriteFields DEF Inner, Reasons
<1> HIDE DEF cleared
<1>3. errored \in Inner /\ errored.sink = inner.sink /\ errored.state = "Errored"
      /\ errored.abortRequested = inner.abortRequested
  BY <1>2 DEF Inner, States
<1>4. inner' = RejectPending(UpdateBackpressure(errored))
  BY DEF FinishWriteErrored, cleared
<1> HIDE DEF errored
<1>5. UpdateBackpressure(errored) \in Inner
  BY <1>3, UpdateBackpressureType
<1> QED
  BY <1>3, <1>4, <1>5, UpdateBackpressureFields DEF RejectPending, Inner

\* A step that leaves the sink, the endings and the stored error alone.
LEMMA OwnershipUntouched ==
    ASSUME TypeOK, Ownership,
           UNCHANGED <<inner, inflight, storedError, ended>>,
           pc' = "starting" => pc = "starting",
           pc \in {"starting", "done"} => pc' \in {"starting", "done"}
    PROVE  Ownership'
  BY DEF Ownership, WritableHasSink, AbortLeavesWritable, SinkWhereabouts, WritableHasNoError

(* The callers do not touch the sink. *)
LEMMA OwnershipHandles ==
    ASSUME TypeOK, Ownership, HandleStep \/ (\E c \in Waiters : WaiterStep(c))
    PROVE  Ownership'
<1>1. UNCHANGED <<pc, inner, inflight, storedError, ended>>
  <2>1. CASE HandleStep
    BY <2>1 DEF HandleStep, Write, Enqueue, Flush, Close, Abort, ControllerError, DropHandles,
                sharedVars, sinkVars
  <2>2. ASSUME NEW c \in Waiters, WaiterStep(c)
        PROVE  UNCHANGED <<pc, inner, inflight, storedError, ended>>
    BY <2>2 DEF WaiterStep, ReadyPoll, ClosedPoll, Register, Recheck,
                sharedVars, taskVars, sinkVars
  <2> QED
    BY <2>1, <2>2
<1> QED
  BY <1>1, OwnershipUntouched

(* start() gives the sink back or drops it. *)
LEMMA OwnershipStart == ASSUME TypeOK, Ownership, StartStep PROVE Ownership'
<1> USE DEF Ownership, WritableHasSink, AbortLeavesWritable, SinkWhereabouts, WritableHasNoError
<1>a. inner \in Inner
  BY DEF TypeOK
<1>1. CASE StartSucceeds
  <2>1. /\ inner'.sink = TRUE /\ inner'.state = inner.state
        /\ inner'.abortRequested = inner.abortRequested
        /\ pc = "starting" /\ pc' = "control"
        /\ UNCHANGED <<inflight, storedError, ended>>
    BY <1>1, <1>a DEF StartSucceeds, SinkBack, Inner, sharedVars, sinkVars
  <2> QED
    BY <2>1
<1>2. CASE StartFails
  <2>1. /\ inner'.sink = inner.sink /\ inner'.state = "Errored"
        /\ inner'.abortRequested = inner.abortRequested
        /\ pc = "starting" /\ pc' = "control"
        /\ UNCHANGED <<inflight, ended>>
    BY <1>2, <1>a DEF StartFails, Inner, sinkVars
  <2> QED
    BY <2>1
<1> QED
  BY <1>1, <1>2 DEF StartStep

(* A poll begins with the sink where it was. *)
LEMMA OwnershipPollBegins ==
    ASSUME TypeOK, Ownership, ControllerQuiet \/ ControllerErrors \/ PublishFlags
    PROVE  Ownership'
<1>a. inner \in Inner
  BY DEF TypeOK
<1>1. CASE ControllerQuiet \/ PublishFlags
  <2>1. /\ UNCHANGED <<inner, inflight, storedError, ended>>
        /\ pc \notin {"starting", "done"} /\ pc' = "drain"
    BY <1>1 DEF ControllerQuiet, PublishFlags, PollBegins, sinkVars
  <2> QED
    BY <2>1, OwnershipUntouched
<1>2. CASE ControllerErrors
  <2>1. /\ inner'.sink = inner.sink /\ inner'.state = "Errored"
        /\ inner'.abortRequested = inner.abortRequested
        /\ pc' = "flags" /\ UNCHANGED <<inflight, ended>>
    BY <1>2, <1>a DEF ControllerErrors, Inner, sinkVars
  <2> QED
    BY <2>1 DEF Ownership, WritableHasSink, AbortLeavesWritable, SinkWhereabouts, WritableHasNoError
<1> QED
  BY <1>1, <1>2

(* No command touches the sink. *)
LEMMA OwnershipCommands == ASSUME TypeOK, Ownership, CommandStep PROVE Ownership'
<1> USE DEF Ownership, WritableHasSink, AbortLeavesWritable, SinkWhereabouts, WritableHasNoError
<1>a. inner \in Inner
  BY DEF TypeOK
<1>b. ASSUME NEW op, NEW id, Takes(op, id)
      PROVE  pc = "drain" /\ UNCHANGED <<pc, inflight, ended>>
  BY <1>b DEF Takes, sinkVars
<1>1. ASSUME NEW w \in Writes, CommandWrite(w) PROVE Ownership'
  <2> DEFINE i == [inner EXCEPT !.queue = PushBack(@, w), !.total = @ + Size[w]]
  <2>1. i \in Inner
    <3>1. PushBack(inner.queue, w) \in Seq(Writes) /\ inner.total + Size[w] \in Nat
      BY <1>a, NumbersAssumption DEF Inner, PushBack
    <3> QED
      BY <1>a, <3>1 DEF Inner
  <2>2. i.sink = inner.sink /\ i.state = inner.state /\ i.abortRequested = inner.abortRequested
    BY <1>a DEF Inner
  <2>3. inner' = UpdateBackpressure(i) /\ Takes("write", w) /\ UNCHANGED storedError
    BY <1>1 DEF CommandWrite
  <2> HIDE DEF i
  <2>4. inner'.sink = inner.sink /\ inner'.state = inner.state
        /\ inner'.abortRequested = inner.abortRequested
    BY <2>1, <2>2, <2>3, UpdateBackpressureFields
  <2> QED
    BY <1>b, <2>3, <2>4
<1>2. ASSUME NEW op, NEW id, CommandRefused(op, id) PROVE Ownership'
  BY <1>2, <1>b DEF CommandRefused
<1>3. ASSUME NEW c \in Closes, CommandClose(c) PROVE Ownership'
  <2>1. inner'.sink = inner.sink /\ inner'.state = inner.state
        /\ inner'.abortRequested = inner.abortRequested
    BY <1>3, <1>a DEF CommandClose, Inner
  <2> QED
    BY <1>3, <1>b, <2>1 DEF CommandClose
<1>4. ASSUME NEW a \in Aborts, CommandAbort(a) PROVE Ownership'
  <2>1. inner'.sink = inner.sink /\ inner'.state = "Errored"
    BY <1>4, <1>a DEF CommandAbort, Inner
  <2> QED
    BY <1>4, <1>b, <2>1 DEF CommandAbort
<1>5. ASSUME NEW a \in Aborts, CommandAbortMoot(a) PROVE Ownership'
  BY <1>5, <1>b DEF CommandAbortMoot
<1>6. ASSUME NEW f \in Flushes, CommandFlush(f) PROVE Ownership'
  <2>1. inner'.sink = inner.sink /\ inner'.state = inner.state
        /\ inner'.abortRequested = inner.abortRequested
    BY <1>6, <1>a DEF CommandFlush, Inner
  <2> QED
    BY <1>6, <1>b, <2>1 DEF CommandFlush
<1>7. ASSUME NEW c, CommandRegisterReady(c) \/ CommandRegisterClosed(c) PROVE Ownership'
  BY <1>7, <1>b DEF CommandRegisterReady, CommandRegisterClosed
<1> QED
  BY <1>1, <1>2, <1>3, <1>4, <1>5, <1>6, <1>7 DEF CommandStep

(* What is started takes the sink along. *)
LEMMA OwnershipDispatch == ASSUME TypeOK, Ownership, DispatchStep PROVE Ownership'
<1> USE DEF Ownership, WritableHasSink, AbortLeavesWritable, SinkWhereabouts, WritableHasNoError
<1>a. inner \in Inner /\ inflight \in InFlight
  BY DEF TypeOK
<1>b. ASSUME Dispatches PROVE pc = "drain" /\ pc' = "drive"
  BY <1>b DEF Dispatches
<1>1. CASE AbortDuringClose
  <2>1. inner'.sink = inner.sink /\ inner'.state = "Errored" /\ inflight'.op = inflight.op
    BY <1>1, <1>a DEF AbortDuringClose, Inner, InFlight
  <2> QED
    BY <1>1, <1>b, <2>1 DEF AbortDuringClose, sinkVars
<1>2. CASE StartClose
  <2>1. /\ inner'.sink = FALSE /\ inner'.state = inner.state
        /\ inner'.abortRequested = inner.abortRequested
        /\ inflight'.op = "close" /\ UNCHANGED storedError
    BY <1>2, <1>a DEF StartClose, Inner, Begun, Quiet
  <2> QED
    BY <1>2, <1>b, <2>1 DEF StartClose, None
<1>3. CASE CloseWithoutSink
  <2>1. /\ inner'.sink = inner.sink /\ inner'.state = "Closed"
        /\ inner'.abortRequested = inner.abortRequested
    BY <1>3, <1>a DEF CloseWithoutSink, Inner
  <2> QED
    BY <1>3, <1>b, <2>1 DEF CloseWithoutSink, sinkVars
<1>4. CASE StartAbort
  <2>1. /\ inner'.sink = FALSE /\ inner'.state = inner.state
        /\ inner'.abortRequested = inner.abortRequested
        /\ inflight'.op = "abort" /\ UNCHANGED storedError
    BY <1>4, <1>a DEF StartAbort, Inner, Begun, Quiet
  <2> QED
    BY <1>4, <1>b, <2>1 DEF StartAbort, None
<1>5. CASE AbortWithoutSink
  <2>1. /\ inner'.sink = inner.sink /\ inner'.state = inner.state
        /\ inner'.abortRequested = FALSE
    BY <1>5, <1>a DEF AbortWithoutSink, Inner
  <2> QED
    BY <1>5, <1>b, <2>1 DEF AbortWithoutSink, sinkVars
<1>6. CASE StartWrite
  <2>1. /\ inner'.sink = FALSE /\ inner'.state = inner.state
        /\ inner'.abortRequested = inner.abortRequested
        /\ inflight'.op = "write" /\ UNCHANGED <<storedError, ended>>
    BY <1>6, <1>a DEF StartWrite, Inner, Begun, Quiet
  <2>2. ended = None
    BY <1>6, <1>b DEF StartWrite
  <2> QED
    BY <1>b, <1>6, <2>1, <2>2 DEF StartWrite, None
<1>7. CASE NothingToStart
  BY <1>7, <1>b DEF NothingToStart, Quiet, sinkVars
<1> QED
  BY <1>1, <1>2, <1>3, <1>4, <1>5, <1>6, <1>7 DEF DispatchStep

(* What returns gives it back, hands it on or drops it. *)
LEMMA OwnershipDrive == ASSUME TypeOK, Ownership, DriveStep PROVE Ownership'
<1> USE DEF Ownership, WritableHasSink, AbortLeavesWritable, SinkWhereabouts, WritableHasNoError
<1>a. inner \in Inner /\ inflight \in InFlight
  BY DEF TypeOK
<1>b. ASSUME NEW op, Finishes(op)
      PROVE  pc = "drive" /\ pc' = "idle" /\ inflight.op = op
  BY <1>b DEF Finishes
<1>c. NoOperation.op = None
  BY DEF NoOperation
<1>1. CASE OperationPending
  BY <1>1, OwnershipUntouched DEF OperationPending, sharedVars, sinkVars
<1>2. ASSUME NEW w \in Writes, FinishWriteThenAbort(w) PROVE Ownership'
  <2>1. /\ inner'.sink = inner.sink /\ inner'.state = inner.state
        /\ inner'.abortRequested = inner.abortRequested
    BY <1>2, <1>a, WithoutWriteType, WithoutWriteFields DEF FinishWriteThenAbort, Inner
  <2>2. inflight'.op = "abort" /\ ended' = "abort" /\ UNCHANGED storedError
    BY <1>2 DEF FinishWriteThenAbort, Begun
  <2>3. inner.state # "Writable" /\ ~inner.sink
    BY <1>2, <1>b DEF FinishWriteThenAbort, None
  <2> QED
    BY <1>2, <1>b, <2>1, <2>2, <2>3 DEF FinishWriteThenAbort, None
<1>3. ASSUME NEW w \in Writes, FinishWrite(w) PROVE Ownership'
  <2>1. /\ SinkBack(WithoutWrite(w)) \in Inner
        /\ SinkBack(WithoutWrite(w)).sink = TRUE
        /\ SinkBack(WithoutWrite(w)).state = inner.state
        /\ SinkBack(WithoutWrite(w)).abortRequested = inner.abortRequested
    BY WithoutWriteType, WithoutWriteFields DEF SinkBack, Inner
  <2>2. inner'.sink = TRUE /\ inner'.state = inner.state
        /\ inner'.abortRequested = inner.abortRequested
    BY <1>3, <2>1, UpdateBackpressureFields DEF FinishWrite
  <2>3. inflight'.op = None /\ ended = None /\ UNCHANGED <<storedError, ended>>
    BY <1>3, <1>b, <1>c DEF FinishWrite
  <2> QED
    BY <1>3, <1>b, <2>2, <2>3 DEF FinishWrite, None
<1>4. ASSUME NEW w \in Writes, FinishWriteErrored(w) PROVE Ownership'
  <2>1. inner.sink = FALSE /\ inflight'.op = None /\ pc' = "idle"
    BY <1>4, <1>a, <1>b, <1>c DEF FinishWriteErrored, None, Inner
  <2> QED
    BY <1>4, <2>1, FinishWriteErroredFields DEF None
<1>5. CASE FinishClose
  <2>1. inner'.state # "Writable" /\ inner'.sink = inner.sink
    BY <1>5, <1>a DEF FinishClose, Cleared, Inner
  <2>2. inner.sink = FALSE /\ inflight'.op = None /\ pc' = "idle"
    BY <1>5, <1>a, <1>b, <1>c DEF FinishClose, None, Inner
  <2> QED
    BY <2>1, <2>2 DEF None
<1>6. CASE FinishAbort
  <2>1. inner'.state = inner.state /\ inner'.sink = inner.sink /\ inner'.abortRequested = FALSE
    BY <1>6, <1>a DEF FinishAbort, Cleared, Inner
  <2>2. inner.sink = FALSE /\ inner.state # "Writable" /\ inflight'.op = None /\ pc' = "idle"
    BY <1>6, <1>a, <1>b, <1>c DEF FinishAbort, None, Inner
  <2> QED
    BY <2>1, <2>2 DEF None
<1> QED
  BY <1>1, <1>2, <1>3, <1>4, <1>5, <1>6 DEF DriveStep

\* The sink is where the code takes it for, and a writable stream has no error.
THEOREM OwnershipHolds == Spec => []Ownership
<1>1. Init => Ownership
  <2> SUFFICES ASSUME Init PROVE Ownership
    OBVIOUS
  <2>1. inner.sink = FALSE /\ inner.abortRequested = FALSE /\ pc = "starting"
        /\ inflight.op = None /\ ended = None /\ storedError = None
    BY DEF Init, NoOperation
  <2> QED
    BY <2>1 DEF Ownership, WritableHasSink, AbortLeavesWritable, SinkWhereabouts,
                WritableHasNoError, None
<1>2. TypeOK /\ Ownership /\ [Next]_vars => Ownership'
  <2> SUFFICES ASSUME TypeOK, Ownership, [Next]_vars PROVE Ownership'
    OBVIOUS
  <2>1. CASE UNCHANGED vars
    BY <2>1, OwnershipUntouched DEF vars, taskVars, sharedVars, sinkVars
  <2>2. CASE PollStep
    <3>1. CASE TaskReturns
      BY <3>1, OwnershipUntouched DEF TaskReturns, Stop, sharedVars, sinkVars
    <3> QED
      BY <2>2, <3>1, OwnershipPollBegins, OwnershipCommands, OwnershipDispatch, OwnershipDrive
         DEF PollStep
  <2>3. CASE TaskDropped
    BY <2>3, OwnershipUntouched DEF TaskDropped, Stop, sharedVars, sinkVars
  <2>4. CASE SinkStep
    <3> PICK r \in {"ok", "err"} : SinkCompletes(r)
      BY <2>4 DEF SinkStep
    <3>1. UNCHANGED <<pc, inner, storedError, ended>> /\ inflight'.op = inflight.op
      BY DEF SinkCompletes, TypeOK, InFlight, sharedVars, sinkVars
    <3> QED
      BY <3>1 DEF Ownership, WritableHasSink, AbortLeavesWritable, SinkWhereabouts, WritableHasNoError
  <2> QED
    BY <2>1, <2>2, <2>3, <2>4, OwnershipHandles, OwnershipStart DEF Next
<1> QED
  BY <1>1, <1>2, TypeCorrect, PTL DEF Spec

-----------------------------------------------------------------------------
(* What the steps may never do                                              *)

\* The steps that touch the sink's history, or the stored error, are few.
LEMMA QuietSteps ==
    ASSUME \/ HandleStep
           \/ \E c \in Waiters : WaiterStep(c)
           \/ StartSucceeds
           \/ ControllerQuiet \/ PublishFlags
           \/ TaskReturns \/ TaskDropped
           \/ SinkStep
    PROVE  UNCHANGED <<storedError, sunk, ended>>
<1>1. CASE HandleStep
  BY <1>1 DEF HandleStep, Write, Enqueue, Flush, Close, Abort, ControllerError, DropHandles,
              sharedVars, sinkVars
<1>2. ASSUME NEW c \in Waiters, WaiterStep(c)
      PROVE  UNCHANGED <<storedError, sunk, ended>>
  BY <1>2 DEF WaiterStep, ReadyPoll, ClosedPoll, Register, Recheck, sharedVars, sinkVars
<1>3. CASE StartSucceeds \/ ControllerQuiet \/ PublishFlags
  BY <1>3 DEF StartSucceeds, ControllerQuiet, PublishFlags, sharedVars, sinkVars
<1>4. CASE TaskReturns \/ TaskDropped
  BY <1>4 DEF TaskReturns, TaskDropped, Stop, sharedVars, sinkVars
<1>5. CASE SinkStep
  BY <1>5 DEF SinkStep, SinkCompletes, sharedVars, sinkVars
<1> QED
  BY <1>1, <1>2, <1>3, <1>4, <1>5

(* A command is taken from the channel. *)
LEMMA CommandTakes ==
    ASSUME CommandStep PROVE \E op \in Ops, id \in Calls : Takes(op, id)
<1>1. ASSUME NEW w \in Writes, CommandWrite(w) \/ CommandRefused("write", w)
      PROVE  Takes("write", w)
  BY <1>1, Zenon DEF CommandWrite, CommandRefused
<1>2. ASSUME NEW c \in Closes, CommandClose(c) \/ CommandRefused("close", c)
      PROVE  Takes("close", c)
  BY <1>2, Zenon DEF CommandClose, CommandRefused
<1>3. ASSUME NEW a \in Aborts, CommandAbort(a) \/ CommandAbortMoot(a)
      PROVE  Takes("abort", a)
  BY <1>3, Zenon DEF CommandAbort, CommandAbortMoot
<1>4. ASSUME NEW f \in Flushes, CommandFlush(f)
      PROVE  Takes("flush", f)
  BY <1>4, Zenon DEF CommandFlush
<1>5. ASSUME NEW c \in ReadyCalls, CommandRegisterReady(c)
      PROVE  Takes("ready", c)
  BY <1>5, Zenon DEF CommandRegisterReady
<1>6. ASSUME NEW c \in ClosedCalls, CommandRegisterClosed(c)
      PROVE  Takes("closed", c)
  BY <1>6, Zenon DEF CommandRegisterClosed
<1> QED
  BY <1>1, <1>2, <1>3, <1>4, <1>5, <1>6 DEF CommandStep, Ops, Calls, Requests, Waiters

(* A second error is not stored. *)
LEMMA FirstErrorKeeps == ASSUME storedError # None, NEW e PROVE FirstError(e) = storedError
  BY DEF FirstError

\* The stored error is pinned to the first one, whatever comes later.
THEOREM StoredErrorPinned == Spec => FirstErrorWins
<1>1. Ownership /\ [Next]_vars => [storedError # None => storedError' = storedError]_vars
  <2> SUFFICES ASSUME Ownership, Next, storedError # None PROVE storedError' = storedError
    OBVIOUS
  <2>a. inner.state # "Writable"
    BY DEF Ownership, WritableHasNoError
  <2>b. ~ErrorTakesEffect
    BY <2>a DEF ErrorTakesEffect
  <2>1. CASE StartFails \/ ControllerErrors
    BY <2>1, <2>b, FirstErrorKeeps DEF StartFails, ControllerErrors
  <2>2. CASE CommandStep
    BY <2>2, <2>a DEF CommandStep, CommandWrite, CommandRefused, CommandClose, CommandAbort,
                      CommandAbortMoot, CommandFlush, CommandRegisterReady, CommandRegisterClosed
  <2>3. CASE DispatchStep
    BY <2>3, FirstErrorKeeps
       DEF DispatchStep, AbortDuringClose, StartClose, CloseWithoutSink, StartAbort,
           AbortWithoutSink, StartWrite, NothingToStart, Quiet
  <2>4. CASE DriveStep
    <3>1. ASSUME NEW w \in Writes, FinishWriteErrored(w) PROVE storedError' = storedError
      <4>1. storedError' = IF ErrorTakesEffect THEN Head(ctrls)
                           ELSE IF inflight.result = "err" THEN FirstError("write") ELSE storedError
        BY <3>1, Zenon DEF FinishWriteErrored
      <4> QED
        BY <4>1, <2>b, FirstErrorKeeps
    <3>2. ASSUME NEW w \in Writes, FinishWriteThenAbort(w) \/ FinishWrite(w)
          PROVE  storedError' = storedError
      BY <3>2, Zenon DEF FinishWriteThenAbort, FinishWrite
    <3>3. CASE OperationPending
      BY <3>3 DEF OperationPending, sharedVars
    <3>4. CASE FinishClose
      <4>1. storedError' = FirstError("close") \/ storedError' = storedError
        BY <3>4, Zenon DEF FinishClose
      <4> QED
        BY <4>1, FirstErrorKeeps
    <3>5. CASE FinishAbort
      <4>1. storedError' = FirstError("abort") \/ storedError' = storedError
        BY <3>5, Zenon DEF FinishAbort
      <4> QED
        BY <4>1, FirstErrorKeeps
    <3> QED
      BY <2>4, <3>1, <3>2, <3>3, <3>4, <3>5 DEF DriveStep
  <2> QED
    BY <2>1, <2>2, <2>3, <2>4, QuietSteps DEF Next, StartStep, PollStep
<1> QED
  BY <1>1, OwnershipHolds, PTL DEF Spec, FirstErrorWins

\* Nothing follows the sink's close or its abort.
THEOREM SinkEndsOnlyOnce == Spec => SinkEndsOnce
<1>1. Ownership /\ [Next]_vars => [ended # None => UNCHANGED <<sunk, ended>>]_vars
  <2> SUFFICES ASSUME Ownership, Next, ended # None PROVE UNCHANGED <<sunk, ended>>
    OBVIOUS
  <2>a. ~inner.sink /\ inflight.op # "write"
    BY DEF Ownership, SinkWhereabouts
  <2>1. CASE StartFails \/ ControllerErrors
    BY <2>1 DEF StartFails, ControllerErrors, sinkVars
  <2>2. CASE CommandStep
    <3>1. \E op \in Ops, id \in Calls : Takes(op, id)
      BY <2>2, CommandTakes
    <3> QED
      BY <3>1 DEF Takes, sinkVars
  <2>3. CASE DispatchStep
    <3>1. ~StartClose /\ ~StartAbort
      BY <2>a DEF StartClose, StartAbort, SinkInPlace
    <3>2. ~StartWrite
      BY <2>a DEF StartWrite, Dispatches, Ownership, WritableHasSink
    <3>3. UNCHANGED sinkVars
      BY <2>3, <3>1, <3>2, Zenon
         DEF DispatchStep, AbortDuringClose, CloseWithoutSink, AbortWithoutSink, NothingToStart
    <3> QED
      BY <3>3 DEF sinkVars
  <2>4. CASE DriveStep
    <3>1. CASE OperationPending
      BY <3>1 DEF OperationPending, sinkVars
    <3>2. ASSUME NEW w \in Writes, FinishWrite(w) \/ FinishWriteErrored(w)
          PROVE  UNCHANGED <<sunk, ended>>
      <4>1. inflight.op = "write"
        BY <3>2, Zenon DEF FinishWrite, FinishWriteErrored, Finishes
      <4> QED
        BY <4>1, <2>a
    <3>3. ASSUME NEW w \in Writes, FinishWriteThenAbort(w)
          PROVE  UNCHANGED <<sunk, ended>>
      <4>1. inflight.op = "write"
        BY <3>3, Zenon DEF FinishWriteThenAbort, Finishes
      <4> QED
        BY <4>1, <2>a
    <3>4. CASE FinishClose \/ FinishAbort
      <4>1. UNCHANGED sunk /\ UNCHANGED ended
        BY <3>4, Zenon DEF FinishClose, FinishAbort, Finishes
      <4> QED
        BY <4>1
    <3> QED
      BY <2>4, <3>1, <3>2, <3>3, <3>4 DEF DriveStep
  <2> QED
    BY <2>1, <2>2, <2>3, <2>4, QuietSteps DEF Next, StartStep, PollStep
<1> QED
  BY <1>1, OwnershipHolds, PTL DEF Spec, SinkEndsOnce

-----------------------------------------------------------------------------
(* The atomics                                                              *)

(* Flags just published are current. *)
LEMMA PublishedIsCurrent == ASSUME flags' = Published(inner') PROVE FlagsCurrent'
  BY DEF FlagsCurrent, Published

(* A step that leaves state and flags alone keeps them current. *)
LEMMA FlagsUntouched ==
    ASSUME FlagsCurrent,
           UNCHANGED flags,
           inner'.state = inner.state,
           inner'.backpressure = inner.backpressure,
           inner.state = "Writable" => inner'.total = inner.total,
           pc' # "flags" => pc # "flags"
    PROVE  FlagsCurrent'
  BY DEF FlagsCurrent

(* Every command that changes the state publishes it. *)
LEMMA FlagsCommands == ASSUME TypeOK, FlagsCurrent, CommandStep PROVE FlagsCurrent'
<1>1. CASE \/ \E w \in Writes : CommandWrite(w)
           \/ \E c \in Closes : CommandClose(c)
           \/ \E a \in Aborts : CommandAbort(a)
  BY <1>1, PublishedIsCurrent, Zenon DEF CommandWrite, CommandClose, CommandAbort, UpdateFlags
<1>2. ASSUME NEW f \in Flushes, CommandFlush(f)
      PROVE  FlagsCurrent'
  <2>1. /\ UNCHANGED <<pc, flags>>
        /\ UNCHANGED inner \/ inner' = [inner EXCEPT !.flushCompletions[f] = UnfinishedWrites]
    BY <1>2, Zenon DEF CommandFlush, Takes
  <2>2. /\ inner'.state = inner.state
        /\ inner'.backpressure = inner.backpressure
        /\ inner'.total = inner.total
    BY <2>1 DEF TypeOK, Inner
  <2> QED
    BY <2>1, <2>2, FlagsUntouched
<1>3. CASE \/ \E w \in Writes : CommandRefused("write", w)
           \/ \E c \in Closes : CommandRefused("close", c)
           \/ \E a \in Aborts : CommandAbortMoot(a)
           \/ \E c \in ReadyCalls : CommandRegisterReady(c)
           \/ \E c \in ClosedCalls : CommandRegisterClosed(c)
  <2>1. UNCHANGED <<pc, flags, inner>>
    BY <1>3 DEF CommandRefused, CommandAbortMoot, CommandRegisterReady, CommandRegisterClosed, Takes
  <2> QED
    BY <2>1, FlagsUntouched
<1> QED
  BY <1>1, <1>2, <1>3 DEF CommandStep

(* So does every start. *)
LEMMA FlagsDispatch == ASSUME TypeOK, FlagsCurrent, DispatchStep PROVE FlagsCurrent'
<1>1. CASE AbortDuringClose \/ CloseWithoutSink \/ AbortWithoutSink
  BY <1>1, PublishedIsCurrent, Zenon
     DEF AbortDuringClose, CloseWithoutSink, AbortWithoutSink, UpdateFlags
<1>2. CASE StartClose \/ StartAbort \/ StartWrite \/ NothingToStart
  <2>1. pc = "drain" /\ UNCHANGED flags
    BY <1>2 DEF StartClose, StartAbort, StartWrite, NothingToStart, Dispatches, Quiet
  <2>2. /\ inner'.state = inner.state
        /\ inner'.backpressure = inner.backpressure
        /\ inner'.total = inner.total
    <3>1. CASE StartClose \/ StartAbort
      <4>1. \/ inner' = [inner EXCEPT !.sink = FALSE, !.closeCompletions = {}]
            \/ inner' = [inner EXCEPT !.sink = FALSE, !.abortReason = None, !.abortCompletions = {}]
        BY <3>1, Zenon DEF StartClose, StartAbort
      <4> QED
        BY <4>1 DEF TypeOK, Inner
    <3>2. CASE StartWrite
      <4>1. inner' = [inner EXCEPT !.sink = FALSE, !.queue = Tail(inner.queue)]
        BY <3>2, Zenon DEF StartWrite
      <4> QED
        BY <4>1 DEF TypeOK, Inner
    <3>3. CASE NothingToStart
      BY <3>3 DEF NothingToStart
    <3> QED
      BY <1>2, <3>1, <3>2, <3>3
  <2> QED
    BY <2>1, <2>2, FlagsUntouched
<1> QED
  BY <1>1, <1>2 DEF DispatchStep

(* So does every end. *)
LEMMA FlagsDrive == ASSUME TypeOK, Ownership, FlagsCurrent, DriveStep PROVE FlagsCurrent'
<1>1. ASSUME NEW w \in Writes, FinishWrite(w) \/ FinishWriteErrored(w)
      PROVE  FlagsCurrent'
  BY <1>1, PublishedIsCurrent, Zenon DEF FinishWrite, FinishWriteErrored, UpdateFlags
<1>2. CASE FinishClose \/ FinishAbort
  BY <1>2, PublishedIsCurrent, Zenon DEF FinishClose, FinishAbort, UpdateFlags
<1>3. CASE OperationPending
  BY <1>3, FlagsUntouched DEF OperationPending, sharedVars
<1>4. ASSUME NEW w \in Writes, FinishWriteThenAbort(w)
      PROVE  FlagsCurrent'
  <2>1. /\ inner.abortRequested /\ pc = "drive" /\ UNCHANGED flags
        /\ inner' = [WithoutWrite(w) EXCEPT !.abortReason = None, !.abortCompletions = {}]
    BY <1>4 DEF FinishWriteThenAbort, Finishes
  <2>2. inner.state # "Writable"
    BY <2>1 DEF Ownership, AbortLeavesWritable
  <2>3. inner'.state = inner.state /\ inner'.backpressure = inner.backpressure
    BY <2>1, WithoutWriteFields, WithoutWriteType DEF TypeOK, Inner
  <2> QED
    BY <2>1, <2>2, <2>3, FlagsUntouched
<1> QED
  BY <1>1, <1>2, <1>3, <1>4 DEF DriveStep

\* What the handles read is what the task last decided.
THEOREM FlagsStayCurrent == Spec => []FlagsCurrent
<1>1. Init => FlagsCurrent
  <2> SUFFICES ASSUME Init PROVE FlagsCurrent
    OBVIOUS
  <2>1. flags = Published(inner)
    BY DEF Init
  <2> QED
    BY <2>1 DEF FlagsCurrent, Published
<1>2. TypeOK /\ Ownership /\ FlagsCurrent /\ [Next]_vars => FlagsCurrent'
  <2> SUFFICES ASSUME TypeOK, Ownership, FlagsCurrent, [Next]_vars PROVE FlagsCurrent'
    OBVIOUS
  <2>1. CASE UNCHANGED vars
    BY <2>1, FlagsUntouched DEF vars, taskVars, sharedVars
  <2>2. CASE HandleStep
    <3>1. UNCHANGED <<pc, flags, inner>>
      BY <2>2 DEF HandleStep, Write, Enqueue, Flush, Close, Abort, ControllerError, DropHandles,
                  sharedVars
    <3> QED
      BY <3>1, FlagsUntouched
  <2>3. ASSUME NEW c \in Waiters, WaiterStep(c)
        PROVE  FlagsCurrent'
    <3>1. UNCHANGED <<pc, flags, inner>>
      BY <2>3 DEF WaiterStep, ReadyPoll, ClosedPoll, Register, Recheck, sharedVars, taskVars
    <3> QED
      BY <3>1, FlagsUntouched
  <2>4. CASE StartFails \/ ControllerQuiet \/ PublishFlags
    BY <2>4, PublishedIsCurrent, Zenon DEF StartFails, ControllerQuiet, PublishFlags, UpdateFlags
  <2>5. CASE ControllerErrors
    BY <2>5 DEF ControllerErrors, FlagsCurrent
  <2>6. CASE StartSucceeds
    <3>1. pc = "starting" /\ UNCHANGED flags
      BY <2>6 DEF StartSucceeds, sharedVars
    <3>2. /\ inner'.state = inner.state
          /\ inner'.backpressure = inner.backpressure
          /\ inner'.total = inner.total
      BY <2>6 DEF StartSucceeds, SinkBack, TypeOK, Inner
    <3> QED
      BY <3>1, <3>2, FlagsUntouched
  <2>7. CASE TaskReturns \/ TaskDropped
    <3>1. pc # "flags" /\ UNCHANGED <<flags, inner>>
      BY <2>7 DEF TaskReturns, TaskDropped, Stop, sharedVars
    <3> QED
      BY <3>1, FlagsUntouched
  <2>8. CASE SinkStep
    <3>1. UNCHANGED <<pc, flags, inner>>
      BY <2>8 DEF SinkStep, SinkCompletes, sharedVars
    <3> QED
      BY <3>1, FlagsUntouched
  <2> QED
    BY <2>1, <2>2, <2>3, <2>4, <2>5, <2>6, <2>7, <2>8, FlagsCommands, FlagsDispatch, FlagsDrive
       DEF Next, StartStep, PollStep
<1> QED
  BY <1>1, <1>2, TypeCorrect, OwnershipHolds, PTL DEF Spec

-----------------------------------------------------------------------------
(* Where the writes and the flushes are                                     *)

InSink == IF inflight.op = "write" THEN inflight.requests ELSE {}
Lined == Elements(inner.queue)
IsWrite(k) == cmds[k].op = "write"
InChannel == {w \in Writes : \E k \in 1..Len(cmds) : IsWrite(k) /\ cmds[k].id = w}
Settled(o) == o \notin {"unsent", "pending"}

\* A write in the channel is one that waits for its answer.
ChannelInv ==
    \A k \in 1..Len(cmds) :
        /\ IsWrite(k) <=> cmds[k].id \in Writes
        /\ cmds[k].id \in Writes => result[cmds[k].id] = "pending"

\* Chunks stand in the channel, in the line and in the sink in the order of
\* their numbers.
ChannelOrder ==
    \A j, k \in 1..Len(cmds) : j < k /\ IsWrite(j) /\ IsWrite(k) => cmds[j].id < cmds[k].id
LineOrder == \A j, k \in 1..Len(inner.queue) : j < k => inner.queue[j] < inner.queue[k]
InOrder ==
    /\ ChannelOrder /\ LineOrder
    /\ \A v \in InSink : \A w \in Lined : v < w
    /\ \A v \in InSink \cup Lined : \A w \in InChannel : v < w

\* A write waits exactly while it is in one of the three places.
InPlace ==
    /\ \A w \in Writes : result[w] = "pending" => w \in InSink \cup Lined \cup InChannel
    /\ \A w \in InSink \cup Lined : result[w] = "pending"

\* Chunks are handed over in the order of their numbers.
HandedOver == \A v, w \in Writes : v < w /\ result[w] # "unsent" => result[v] # "unsent"

\* A stream that is not writable has an empty line; nothing starts before start().
SinkInv ==
    /\ inflight.op = "write" => \E w \in Writes : inflight.requests = {w}
    /\ inflight.op # "write" => inflight.requests \cap Writes = {}
    /\ inner.state # "Writable" => inner.queue = <<>>
    /\ pc = "starting" => inner.queue = <<>> /\ inflight.op # "write" /\ inner.state = "Writable"

LineInv ==
    /\ SinkInv
    /\ HandedOver
    /\ pc # "done" => ChannelInv /\ InOrder /\ InPlace
    /\ pc = "done" => /\ cmds = <<>> /\ \A w \in Writes : result[w] # "pending"
                      /\ \A w \in InSink : result[w] = "dropped"

\* queue_total_size is the size of the line and of the chunk in the sink.
SizeInv == Accounting

\* A flush covers what was handed over before it, which has all been settled
\* once the flush has returned.
PriorInv ==
    \A f \in Flushes :
        /\ result[f] = "unsent" => inner.flushCompletions[f] = 0
        /\ \A w \in prior[f] : result[w] # "unsent"
        /\ \A w \in prior[f], v \in Writes : v < w => v \in prior[f]
        /\ result[f] = "ok" => Outstanding(f) = {}

\* A flush in the channel has what it waits for before it.
QueuedFlush(p) ==
    LET f == cmds[p].id
    IN  /\ result[f] = "pending" /\ inner.flushCompletions[f] = 0
        /\ InSink \cup Lined \subseteq prior[f]
        /\ \A k \in 1..Len(cmds) : IsWrite(k) => (cmds[k].id \in prior[f] <=> k < p)
        /\ \A k \in 1..Len(cmds) : cmds[k].id = f => k = p

FlushQueue ==
    \A p \in 1..Len(cmds) :
        /\ cmds[p].op = "flush" <=> cmds[p].id \in Flushes
        /\ cmds[p].op = "flush" => QueuedFlush(p)

\* A flush that is counted has left the channel, and so has what it waits for.
CountedFlush(f) ==
    /\ result[f] = "pending"
    /\ prior[f] \cap InChannel = {}
    /\ inner.state = "Writable" => inner.flushCompletions[f] = Cardinality(Outstanding(f))

FlushCounts == \A f \in Flushes : inner.flushCompletions[f] > 0 => CountedFlush(f)

FlushInv == PriorInv /\ (pc # "done" => FlushQueue /\ FlushCounts)

-----------------------------------------------------------------------------
(* What a step may do to the writes and the flushes                         *)

Others(S) == \A q \in (Writes \cup Flushes) \ S : result'[q] = result[q]
SameSink ==
    /\ inflight'.op = "write" <=> inflight.op = "write"
    /\ inflight.op = "write" => inflight'.requests = inflight.requests
    /\ inflight.op # "write" => inflight'.requests \cap Writes \subseteq inflight.requests
SameSizes == UNCHANGED <<inner.total, inner.backpressure>>
SameFlushes == UNCHANGED <<prior, inner.flushCompletions>>
SameTask == SameSink /\ SameSizes /\ SameFlushes /\ UNCHANGED <<inner.queue, inner.state>>
Lives == pc # "done" /\ pc' \notin {"starting", "done"}
Silent == {"close", "abort", "ready", "closed"}

Rests == Others({}) /\ SameTask /\ UNCHANGED cmds /\ (pc' = pc \/ Lives)

Posted(op, id, S) ==
    /\ Others(S) /\ pc' = pc /\ pc # "done" /\ SameSink /\ SameSizes
    /\ UNCHANGED <<inner.queue, inner.state, inner.flushCompletions>>
    /\ cmds' = Append(cmds, [op |-> op, id |-> id])

Posts == \E op \in Silent, id \in Calls \ (Writes \cup Flushes) : Posted(op, id, {}) /\ UNCHANGED prior

HandsOver(w) == result[w] = "unsent" /\ \A v \in Writes : v < w => result[v] # "unsent"

PostsWrite(w) == HandsOver(w) /\ Posted("write", w, {w}) /\ result'[w] = "pending" /\ UNCHANGED prior

Turned(w) ==
    /\ HandsOver(w) /\ Settled(result'[w])
    /\ Others({w}) /\ pc' = pc /\ SameTask /\ UNCHANGED cmds

AsksFlush(f) ==
    /\ result[f] = "unsent"
    /\ prior' = [prior EXCEPT ![f] = {w \in Writes : result[w] # "unsent"}]
    /\ \/ Posted("flush", f, {f}) /\ result'[f] = "pending"
       \/ /\ pc = "done" /\ pc' = pc /\ result'[f] = "dropped" /\ Others({f})
          /\ SameSink /\ SameSizes
          /\ UNCHANGED <<cmds, inner.queue, inner.state, inner.flushCompletions>>

Taken(op, id) ==
    /\ pc = "drain" /\ pc' = pc /\ cmds # <<>>
    /\ Head(cmds) = [op |-> op, id |-> id] /\ cmds' = Tail(cmds)
SilentlyTaken == \E op \in Silent, id \in Calls : Taken(op, id)

Passes == SilentlyTaken /\ Others({}) /\ SameTask

Refuses(w) == Taken("write", w) /\ Settled(result'[w]) /\ Others({w}) /\ SameTask

Lines(w) ==
    /\ Taken("write", w) /\ Others({}) /\ SameSink /\ SameFlushes
    /\ inner.state = "Writable" /\ inner'.state = "Writable"
    /\ inner'.queue = Append(inner.queue, w)
    /\ inner'.total = inner.total + Size[w]
    /\ inner'.backpressure <=> inner'.total >= HWM

AnswersFlush(f) ==
    /\ Taken("flush", f) /\ Others({f}) /\ SameTask
    /\ result'[f] = "stored" \/ (result'[f] = "ok" /\ UnfinishedWrites = 0)

CountsFlush(f) ==
    /\ Taken("flush", f) /\ Others({}) /\ SameSink /\ SameSizes
    /\ UNCHANGED <<prior, inner.queue, inner.state>>
    /\ UnfinishedWrites # 0
    /\ inner'.flushCompletions = [inner.flushCompletions EXCEPT ![f] = UnfinishedWrites]

Clears ==
    /\ Lives /\ Others(Lined) /\ (\A w \in Lined : Settled(result'[w]))
    /\ inner'.queue = <<>> /\ inner'.state # "Writable"
    /\ SameSink /\ SameFlushes
    /\ UNCHANGED cmds \/ SilentlyTaken

BeginsWrite ==
    /\ Lives /\ Others({}) /\ SameSizes /\ SameFlushes
    /\ inner.state = "Writable" /\ inner'.state = "Writable"
    /\ inner.queue # <<>> /\ inner'.queue = Tail(inner.queue)
    /\ inflight.op # "write" /\ inflight'.op = "write" /\ inflight'.requests = {Head(inner.queue)}
    /\ UNCHANGED cmds

\* The counters go down, and those that reach zero complete their flush.
CountsDown ==
    \A f \in Flushes :
        /\ result'[f] = "ok" => result[f] = "ok" \/ inner.flushCompletions[f] = 1
        /\ inner.flushCompletions[f] = 0 => result'[f] = result[f]
        /\ \/ inner'.flushCompletions[f] = 0
           \/ /\ inner'.flushCompletions[f] = inner.flushCompletions[f] - 1
              /\ inner.flushCompletions[f] > 1 /\ result'[f] = result[f]

EndsWrite(w) ==
    /\ Lives /\ UNCHANGED <<prior, cmds>>
    /\ inflight.op = "write" /\ inflight.requests = {w} /\ inflight'.op # "write"
    /\ inflight'.requests \cap Writes = {}
    /\ result'[w] = Own /\ CountsDown
    /\ \/ /\ UNCHANGED <<inner.queue, inner.state>> /\ Others({w} \cup Flushes)
          /\ inner.state = "Writable" =>
                 /\ inner'.total = SaturatingSub(inner.total, Size[w])
                 /\ inner'.backpressure <=> inner'.total >= HWM
       \/ /\ inner'.queue = <<>> /\ inner'.state # "Writable"
          /\ Others({w} \cup Lined \cup Flushes) /\ \A v \in Lined \ {w} : Settled(result'[v])

Stops ==
    /\ pc # "done" /\ pc' = "done" /\ cmds' = <<>> /\ SameTask
    /\ \A q \in Writes \cup Flushes : result'[q] = IF result[q] = "pending" THEN "dropped" ELSE result[q]

Moves ==
    \/ Rests \/ Posts \/ Passes \/ Clears \/ BeginsWrite \/ Stops
    \/ \E w \in Writes : PostsWrite(w) \/ Turned(w) \/ Refuses(w) \/ Lines(w) \/ EndsWrite(w)
    \/ \E f \in Flushes : AsksFlush(f) \/ AnswersFlush(f) \/ CountsFlush(f)

-----------------------------------------------------------------------------
(* Every step is one of the moves                                           *)

\* What a call settles, or a set of calls.
LEMMA SettleOne ==
    ASSUME TypeOK, NEW S, NEW o
    PROVE  /\ \A q \in Calls \ S : Settle(result, S, o)[q] = result[q]
           /\ \A q \in Calls \cap S : Settle(result, S, o)[q] = o
  BY DEF Settle, TypeOK

(* What the callers do. *)
LEMMA HandleMoves == ASSUME TypeOK, LineInv, HandleStep PROVE Moves
<1> USE DEF waitVars, sharedVars, taskVars, sinkVars, clientVars, channelVars
<1>0. Writes \cup Flushes \subseteq Calls /\ Writes \subseteq Calls /\ Flushes \subseteq Calls
  BY DEF Calls, Requests
<1>1. ASSUME NEW op, NEW id \in Calls, Request(op, id), UNCHANGED <<pc, inner, inflight>>
      PROVE  /\ Others({id}) /\ pc' = pc /\ SameSink /\ SameSizes
             /\ UNCHANGED <<inner.queue, inner.state, inner.flushCompletions>>
             /\ result[id] = "unsent"
             /\ pc = "done" => result'[id] = "dropped" /\ UNCHANGED cmds
             /\ pc # "done" => result'[id] = "pending" /\ cmds' = Append(cmds, [op |-> op, id |-> id])
  BY <1>0, <1>1, SettleOne DEF Request, Send, Others, SameSink, SameSizes
<1>2. ASSUME NEW w \in Writes, Write(w) \/ Enqueue(w) PROVE PostsWrite(w) \/ Turned(w)
  <2>1. HandsOver(w) /\ UNCHANGED <<prior, inner, inflight, pc>>
    BY <1>2 DEF Write, Enqueue, IsNextWrite, Request, HandsOver
  <2>2. CASE Request("write", w)
    <3>1. CASE pc = "done"
      <4>1. Settled(result'[w])
        BY <1>0, <1>1, <2>1, <2>2, <3>1 DEF Settled
      <4>. QED
        BY <1>0, <1>1, <2>1, <2>2, <3>1, <4>1 DEF Turned, SameTask, SameFlushes
    <3>2. CASE pc # "done"
      BY <1>0, <1>1, <2>1, <2>2, <3>2 DEF PostsWrite, Posted
    <3>. QED
      BY <3>1, <3>2
  <2>3. CASE ~Request("write", w)
    <3>1. PICK o \in {"stored", "closed"} : result' = Settle(result, {w}, o) /\ UNCHANGED cmds
      BY <1>2, <2>3 DEF Write, Enqueue
    <3>2. Others({w}) /\ Settled(result'[w])
      BY <1>0, <3>1, SettleOne DEF Others, Settled
    <3>. QED
      BY <2>1, <3>1, <3>2 DEF Turned, SameTask, SameSink, SameSizes, SameFlushes
  <2>. QED
    BY <2>2, <2>3
<1>3. ASSUME NEW f \in Flushes, Flush(f) PROVE AsksFlush(f)
  <2>1. Request("flush", f) /\ UNCHANGED <<inner, inflight, pc>>
    BY <1>3 DEF Flush
  <2>2. prior' = [prior EXCEPT ![f] = {w \in Writes : result[w] # "unsent"}]
    BY <1>3 DEF Flush
  <2>. QED
    BY <1>0, <1>1, <2>1, <2>2 DEF AsksFlush, Posted
<1>4. ASSUME NEW op \in {"close", "abort"}, NEW id \in Closes \cup Aborts, Request(op, id),
             UNCHANGED <<pc, inner, inflight, prior>>
      PROVE  Moves
  <2>1. id \in Calls \ (Writes \cup Flushes) /\ op \in Silent
    BY DisjointAssumption DEF Calls, Requests, Silent
  <2>2. Others({id}) => Others({})
    BY <2>1 DEF Others
  <2>3. CASE pc = "done"
    BY <1>1, <1>4, <2>1, <2>2, <2>3 DEF Moves, Rests, SameTask, SameFlushes
  <2>4. CASE pc # "done"
    BY <1>1, <1>4, <2>1, <2>2, <2>4 DEF Moves, Posts, Posted
  <2>. QED
    BY <2>3, <2>4
<1>5. ASSUME UNCHANGED <<result, prior, cmds, pc, inner, inflight>> PROVE Moves
  BY <1>5 DEF Moves, Rests, Others, SameTask, SameSink, SameSizes, SameFlushes
<1>6. ASSUME NEW c \in Closes, Close(c) PROVE Moves
  BY <1>4, <1>6 DEF Close
<1>7. ASSUME NEW a \in Aborts, Abort(a) PROVE Moves
  BY <1>4, <1>7 DEF Abort
<1>8. CASE DropHandles \/ \E e \in Errors : ControllerError(e)
  BY <1>5, <1>8 DEF DropHandles, ControllerError
<1>. QED
  BY <1>2, <1>3, <1>6, <1>7, <1>8 DEF HandleStep, Moves

(* Futures of ready() and closed() move nothing. *)
LEMMA WaiterMoves == ASSUME TypeOK, NEW c \in Waiters, WaiterStep(c) PROVE Moves
<1> USE DEF waitVars, sharedVars, taskVars, sinkVars, clientVars, channelVars
<1>0. c \in Calls \ (Writes \cup Flushes) /\ Writes \cup Flushes \subseteq Calls
  BY DisjointAssumption DEF Waiters, Calls, Requests
<1>1. \A o : result' = Settle(result, {c}, o) => Others({})
  BY <1>0, SettleOne DEF Others
<1>2. ASSUME UNCHANGED <<prior, cmds, pc, inner, inflight>>, Others({}) PROVE Moves
  BY <1>2 DEF Moves, Rests, SameTask, SameSink, SameSizes, SameFlushes
<1>3. result' = result => Others({})
  BY DEF Others
<1>4. CASE ReadyPoll(c) \/ ClosedPoll(c) \/ Recheck(c)
  <2>1. (\E o : result' = Settle(result, {c}, o)) \/ result' = result
    BY <1>4 DEF ReadyPoll, ClosedPoll, Recheck, Return
  <2>2. UNCHANGED <<prior, cmds, pc, inner, inflight>>
    BY <1>4 DEF ReadyPoll, ClosedPoll, Recheck, Return
  <2>. QED
    BY <1>1, <1>2, <1>3, <2>1, <2>2
<1>5. CASE Register(c)
  <2>1. UNCHANGED <<result, prior, pc, inner, inflight>>
    BY <1>5 DEF Register
  <2>2. PICK op \in Silent : Send(op, c)
    BY <1>5 DEF Register, Silent
  <2>3. CASE pc = "done"
    BY <1>2, <1>3, <2>1, <2>2, <2>3 DEF Send
  <2>4. CASE pc # "done"
    BY <1>0, <1>3, <2>1, <2>2, <2>4 DEF Moves, Posts, Posted, Send, SameSink, SameSizes
  <2>. QED
    BY <2>3, <2>4
<1>. QED
  BY <1>4, <1>5 DEF WaiterStep

(* Nor does the start of the sink, or a poll that begins quietly. *)
LEMMA BeginningMoves ==
    ASSUME TypeOK, LineInv, StartStep \/ ControllerQuiet \/ ControllerErrors \/ PublishFlags \/ SinkStep
    PROVE  Moves
<1> USE DEF waitVars, sharedVars, taskVars, sinkVars, clientVars, channelVars
<1>0. inner \in Inner /\ Writes \cup Flushes \subseteq Calls
  BY DEF TypeOK, Calls, Requests
<1>1. ASSUME UNCHANGED <<result, prior, cmds>>, pc' = pc \/ Lives, SameSink,
             UNCHANGED <<inner.queue, inner.state, inner.total, inner.backpressure, inner.flushCompletions>>
      PROVE  Moves
  BY <1>1 DEF Moves, Rests, Others, SameTask, SameSizes, SameFlushes
<1>2. CASE StartSucceeds
  <2>1. UNCHANGED <<inner.queue, inner.state, inner.total, inner.backpressure, inner.flushCompletions>>
    BY <1>0, <1>2 DEF StartSucceeds, SinkBack, Inner
  <2>. QED
    BY <1>1, <1>2, <2>1 DEF StartSucceeds, SameSink, Lives
<1>3. CASE StartFails
  <2>1. inner'.queue = <<>> /\ inner'.state # "Writable" /\ UNCHANGED inner.flushCompletions
    BY <1>0, <1>3 DEF StartFails, Inner, LineInv, SinkInv
  <2>2. inner.queue = <<>> /\ UNCHANGED <<result, prior, cmds, inflight>> /\ Lives
    BY <1>3 DEF StartFails, LineInv, SinkInv, Lives
  <2>3. Lined = {}
    BY <2>2 DEF Lined, Elements
  <2>. QED
    BY <2>1, <2>2, <2>3 DEF Moves, Clears, Others, SameSink, SameFlushes
<1>4. CASE ControllerQuiet \/ PublishFlags
  BY <1>1, <1>4 DEF ControllerQuiet, PublishFlags, PollBegins, SameSink, Lives
<1>5. CASE ControllerErrors
  <2>1. inner'.queue = <<>> /\ inner'.state # "Writable" /\ UNCHANGED inner.flushCompletions
    BY <1>0, <1>5 DEF ControllerErrors, Inner
  <2>2. result' = Settle(result, Lined, "dropped") /\ UNCHANGED <<prior, cmds, inflight>> /\ Lives
    BY <1>5 DEF ControllerErrors, PollBegins, QueuedWrites, Lined, Lives
  <2>3. Others(Lined) /\ \A w \in Lined : Settled(result'[w])
    <3>1. Lined \subseteq Calls
      BY <1>0 DEF Lined, Elements, Inner
    <3>. QED
      BY <1>0, <2>2, <3>1, SettleOne DEF Others, Settled
  <2>. QED
    BY <2>1, <2>2, <2>3 DEF Moves, Clears, SameSink, SameFlushes
<1>6. ASSUME NEW r \in {"ok", "err"}, SinkCompletes(r) PROVE Moves
  <2>1. SameSink
    BY <1>6 DEF SinkCompletes, SameSink, TypeOK, InFlight
  <2>. QED
    BY <1>1, <1>6, <2>1 DEF SinkCompletes
<1>. QED
  BY <1>2, <1>3, <1>4, <1>5, <1>6 DEF StartStep, SinkStep

(* What is settled besides stays as it was. *)
LEMMA OthersSettled ==
    ASSUME TypeOK
    PROVE  /\ \A S, o : result' = Settle(result, S, o) => Others(S)
           /\ \A S, P, o, p : result' = Settle(Settle(result, S, o), P, p) => Others(S \cup P)
           /\ result' = result => Others({})
<1>1. Writes \cup Flushes \subseteq Calls
  BY DEF Calls, Requests
<1>. QED
  BY <1>1 DEF Settle, Others, TypeOK

(* The calls that stand in the line are writes. *)
LEMMA LinedType == ASSUME TypeOK PROVE Lined \subseteq Writes /\ QueuedWrites = Lined /\ Writes \subseteq Calls
  BY DEF TypeOK, Inner, Lined, QueuedWrites, Elements, Calls, Requests

(* What the task makes of a command. *)
LEMMA CommandMoves == ASSUME TypeOK, CommandStep PROVE Moves
<1> USE DEF sinkVars
<1>0. inner \in Inner /\ Writes \cup Flushes \subseteq Calls
  BY DEF TypeOK, Calls, Requests
<1>a. ASSUME NEW op, NEW id, Takes(op, id)
      PROVE  Taken(op, id) /\ SameSink /\ UNCHANGED prior /\ Lives
  BY <1>a DEF Takes, Taken, SameSink, Lives
<1>b. ASSUME NEW op \in Silent, NEW id \in Calls, Takes(op, id), Others({}),
             SameSizes, UNCHANGED <<inner.queue, inner.state, inner.flushCompletions>>
      PROVE  Moves
  BY <1>a, <1>b DEF Moves, Passes, SilentlyTaken, SameTask, SameFlushes
<1>1. ASSUME NEW w \in Writes, CommandWrite(w) PROVE Moves
  <2> DEFINE i == [inner EXCEPT !.queue = PushBack(@, w), !.total = @ + Size[w]]
  <2>1. PushBack(inner.queue, w) \in Seq(Writes) /\ inner.total + Size[w] \in Nat
    BY <1>0, NumbersAssumption DEF Inner, PushBack
  <2>2. /\ i \in Inner /\ i.state = inner.state /\ i.total = inner.total + Size[w]
        /\ i.flushCompletions = inner.flushCompletions /\ i.queue = Append(inner.queue, w)
    BY <1>0, <2>1 DEF Inner, PushBack
  <2>3. inner' = UpdateBackpressure(i) /\ Takes("write", w) /\ Accepting /\ result' = result
    BY <1>1 DEF CommandWrite
  <2> HIDE DEF i
  <2>4. /\ inner'.state = i.state /\ inner'.total = i.total /\ inner'.queue = i.queue
        /\ inner'.flushCompletions = i.flushCompletions /\ (inner'.backpressure <=> i.total >= HWM)
    BY <2>2, <2>3 DEF UpdateBackpressure, Inner
  <2>5. Lines(w)
    BY <1>a, <2>2, <2>3, <2>4, OthersSettled DEF Lines, Accepting, SameFlushes
  <2>. QED
    BY <2>5 DEF Moves
<1>2. ASSUME NEW w \in Writes, CommandRefused("write", w) PROVE Moves
  <2>1. Takes("write", w) /\ result' = Settle(result, {w}, Refusal) /\ UNCHANGED inner
    BY <1>2 DEF CommandRefused
  <2>2. Settled(result'[w])
    BY <1>0, <2>1 DEF Settle, Settled, Refusal
  <2>3. Refuses(w)
    BY <1>a, <2>1, <2>2, OthersSettled DEF Refuses, SameTask, SameSizes, SameFlushes
  <2>. QED
    BY <2>3 DEF Moves
<1>3. ASSUME NEW c \in Closes, CommandClose(c) \/ CommandRefused("close", c) PROVE Moves
  <2>1. c \notin Writes \cup Flushes /\ c \in Calls /\ "close" \in Silent
    BY DisjointAssumption DEF Calls, Requests, Silent
  <2>2. Takes("close", c) /\ (result' = result \/ result' = Settle(result, {c}, Refusal))
    BY <1>3, Zenon DEF CommandClose, CommandRefused
  <2>3. SameSizes /\ UNCHANGED <<inner.queue, inner.state, inner.flushCompletions>>
    BY <1>0, <1>3 DEF CommandClose, CommandRefused, SameSizes, Inner
  <2>4. Others({c}) => Others({})
    BY <2>1 DEF Others
  <2>. QED
    BY <1>b, <2>1, <2>2, <2>3, <2>4, OthersSettled
<1>4. ASSUME NEW a \in Aborts, CommandAbort(a) PROVE Moves
  <2>1. Takes("abort", a) /\ result' = Settle(result, Lined, "aborted")
    BY <1>4, LinedType DEF CommandAbort
  <2>2. inner'.queue = <<>> /\ inner'.state # "Writable" /\ UNCHANGED inner.flushCompletions
    BY <1>0, <1>4 DEF CommandAbort, Inner
  <2>3. \A w \in Lined : Settled(result'[w])
    BY <2>1, LinedType DEF Settle, Settled
  <2>4. "abort" \in Silent /\ a \in Calls
    BY DEF Silent, Calls, Requests
  <2>. QED
    BY <1>a, <2>1, <2>2, <2>3, <2>4, OthersSettled DEF Moves, Clears, SameFlushes, SilentlyTaken
<1>5. ASSUME NEW a \in Aborts, CommandAbortMoot(a) PROVE Moves
  <2>1. a \notin Writes \cup Flushes /\ a \in Calls /\ "abort" \in Silent
    BY DisjointAssumption DEF Calls, Requests, Silent
  <2>2. Others({a}) => Others({})
    BY <2>1 DEF Others
  <2>. QED
    BY <1>b, <1>5, <2>1, <2>2, OthersSettled DEF CommandAbortMoot, SameSizes
<1>6. ASSUME NEW f \in Flushes, CommandFlush(f) PROVE Moves
  <2>1. Takes("flush", f) /\ f \in Calls
    BY <1>6, <1>0 DEF CommandFlush
  <2>2. CASE result' = Settle(result, {f}, "stored") /\ UNCHANGED inner
    <3>1. result'[f] = "stored"
      BY <2>1, <2>2 DEF Settle
    <3>2. AnswersFlush(f)
      BY <1>a, <2>1, <2>2, <3>1, OthersSettled DEF AnswersFlush, SameTask, SameSizes, SameFlushes
    <3>. QED
      BY <3>2 DEF Moves
  <2>3. CASE result' = Settle(result, {f}, "ok") /\ UNCHANGED inner /\ UnfinishedWrites = 0
    <3>1. result'[f] = "ok"
      BY <2>1, <2>3 DEF Settle
    <3>2. AnswersFlush(f)
      BY <1>a, <2>1, <2>3, <3>1, OthersSettled DEF AnswersFlush, SameTask, SameSizes, SameFlushes
    <3>. QED
      BY <3>2 DEF Moves
  <2>4. CASE /\ inner' = [inner EXCEPT !.flushCompletions[f] = UnfinishedWrites]
             /\ UNCHANGED result /\ UnfinishedWrites # 0
    <3>1. /\ inner'.flushCompletions = [inner.flushCompletions EXCEPT ![f] = UnfinishedWrites]
          /\ SameSizes /\ UNCHANGED <<inner.queue, inner.state>>
      BY <1>0, <2>4 DEF Inner, SameSizes
    <3>2. CountsFlush(f)
      BY <1>a, <2>1, <2>4, <3>1, OthersSettled DEF CountsFlush
    <3>. QED
      BY <3>2 DEF Moves
  <2>. QED
    BY <1>6, <2>2, <2>3, <2>4, Zenon DEF CommandFlush
<1>7. ASSUME NEW c \in Waiters, CommandRegisterReady(c) \/ CommandRegisterClosed(c) PROVE Moves
  <2>1. PICK op \in {"ready", "closed"} : Takes(op, c)
    BY <1>7, Zenon DEF CommandRegisterReady, CommandRegisterClosed
  <2>2. UNCHANGED <<result, inner>> /\ op \in Silent /\ c \in Calls
    BY <1>7 DEF CommandRegisterReady, CommandRegisterClosed, Silent, Calls
  <2>. QED
    BY <1>b, <2>1, <2>2, OthersSettled DEF SameSizes
<1>. QED
  BY <1>1, <1>2, <1>3, <1>4, <1>5, <1>6, <1>7 DEF CommandStep, Waiters

(* What the task starts. *)
LEMMA DispatchMoves == ASSUME TypeOK, Ownership, LineInv, DispatchStep PROVE Moves
<1> USE DEF sinkVars
<1>0. inner \in Inner /\ inflight \in InFlight
  BY DEF TypeOK
<1>a. ASSUME Dispatches PROVE Lives /\ UNCHANGED <<prior, cmds>>
  BY <1>a DEF Dispatches, Lives, channelVars
<1>b. ASSUME NEW S \in SUBSET (Closes \cup Aborts) PROVE Others(S) => Others({})
  BY DisjointAssumption DEF Others
<1>c. ASSUME Dispatches, Others({}), SameSink,
             UNCHANGED <<inner.queue, inner.state, inner.total, inner.backpressure, inner.flushCompletions>>
      PROVE  Moves
  BY <1>a, <1>c DEF Moves, Rests, SameTask, SameSizes, SameFlushes
<1>d. ASSUME Dispatches, Others({}), SameSink, inner.queue = <<>>, inner'.queue = <<>>,
             inner'.state # "Writable", UNCHANGED inner.flushCompletions
      PROVE  Moves
  <2>1. Lined = {}
    BY <1>d DEF Lined, Elements
  <2>. QED
    BY <1>a, <1>d, <2>1 DEF Moves, Clears, SameFlushes
<1>1. CASE AbortDuringClose
  <2>1. inner.queue = <<>>
    BY <1>1 DEF AbortDuringClose, Ownership, AbortLeavesWritable, LineInv, SinkInv
  <2>2. inner'.queue = inner.queue /\ inner'.state # "Writable" /\ UNCHANGED inner.flushCompletions
    BY <1>0, <1>1 DEF AbortDuringClose, Inner
  <2>3. SameSink
    BY <1>0, <1>1 DEF AbortDuringClose, SameSink, InFlight
  <2>4. inflight.requests \cup inner.abortCompletions \in SUBSET (Closes \cup Aborts)
    BY <1>0, <1>1 DEF AbortDuringClose, LineInv, SinkInv, InFlight, Inner
  <2>5. result' = Settle(Settle(result, inflight.requests, "aborted"), inner.abortCompletions, "ok")
    BY <1>1 DEF AbortDuringClose
  <2>6. Others({})
    BY <1>b, <2>4, <2>5, OthersSettled
  <2>. QED
    BY <1>1, <1>d, <2>1, <2>2, <2>3, <2>6 DEF AbortDuringClose
<1>2. CASE StartClose
  <2>1. UNCHANGED <<inner.queue, inner.state, inner.total, inner.backpressure, inner.flushCompletions>>
    BY <1>0, <1>2 DEF StartClose, Inner
  <2>2. SameSink
    BY <1>0, <1>2, DisjointAssumption DEF StartClose, Begun, SameSink, Inner, None
  <2>. QED
    BY <1>2, <1>c, <2>1, <2>2, OthersSettled DEF StartClose, Quiet
<1>3. CASE CloseWithoutSink
  <2>1. inner'.queue = inner.queue /\ inner'.state # "Writable" /\ UNCHANGED inner.flushCompletions
    BY <1>0, <1>3 DEF CloseWithoutSink, Inner
  <2>2. inner.closeCompletions \in SUBSET (Closes \cup Aborts)
    BY <1>0 DEF Inner
  <2>3. Others({})
    BY <1>3, <1>b, <2>2, OthersSettled DEF CloseWithoutSink
  <2>4. SameSink
    BY <1>3 DEF CloseWithoutSink, SameSink
  <2>. QED
    BY <1>3, <1>d, <2>1, <2>3, <2>4 DEF CloseWithoutSink
<1>4. CASE StartAbort
  <2>1. UNCHANGED <<inner.queue, inner.state, inner.total, inner.backpressure, inner.flushCompletions>>
    BY <1>0, <1>4 DEF StartAbort, Inner
  <2>2. SameSink
    BY <1>0, <1>4, DisjointAssumption DEF StartAbort, Begun, SameSink, Inner, None
  <2>. QED
    BY <1>4, <1>c, <2>1, <2>2, OthersSettled DEF StartAbort, Quiet
<1>5. CASE AbortWithoutSink
  <2>1. UNCHANGED <<inner.queue, inner.state, inner.total, inner.backpressure, inner.flushCompletions>>
    BY <1>0, <1>5 DEF AbortWithoutSink, Inner
  <2>2. inner.abortCompletions \in SUBSET (Closes \cup Aborts)
    BY <1>0 DEF Inner
  <2>3. Others({})
    BY <1>5, <1>b, <2>2, OthersSettled DEF AbortWithoutSink
  <2>4. SameSink
    BY <1>5 DEF AbortWithoutSink, SameSink
  <2>. QED
    BY <1>5, <1>c, <2>1, <2>3, <2>4 DEF AbortWithoutSink
<1>6. CASE StartWrite
  <2>1. Tail(inner.queue) \in Seq(Writes)
    BY <1>0, <1>6 DEF StartWrite, Inner
  <2>2. /\ inner'.queue = Tail(inner.queue) /\ inner'.state = inner.state
        /\ SameSizes /\ UNCHANGED inner.flushCompletions
    BY <1>0, <1>6, <2>1 DEF StartWrite, Inner, SameSizes
  <2>3. /\ inflight.op # "write" /\ inflight'.op = "write" /\ inflight'.requests = {Head(inner.queue)}
        /\ inner.state = "Writable" /\ inner.queue # <<>> /\ Dispatches /\ result' = result
    BY <1>6 DEF StartWrite, Begun, None, Quiet
  <2>4. BeginsWrite
    BY <1>a, <2>2, <2>3, OthersSettled DEF BeginsWrite, SameFlushes
  <2>. QED
    BY <2>4 DEF Moves
<1>7. CASE NothingToStart
  <2>1. Dispatches /\ UNCHANGED <<inner, inflight, result>>
    BY <1>7 DEF NothingToStart, Quiet
  <2>2. SameSink
    BY <2>1 DEF SameSink
  <2>. QED
    BY <1>c, <2>1, <2>2, OthersSettled
<1>. QED
  BY <1>1, <1>2, <1>3, <1>4, <1>5, <1>6, <1>7 DEF DispatchStep

(* What the end of a write does to the counters. *)
LEMMA WithoutWriteCounts ==
    ASSUME TypeOK, NEW w \in Writes
    PROVE  /\ WithoutWrite(w).total = SaturatingSub(inner.total, Size[w])
           /\ \A f \in Flushes :
                WithoutWrite(w).flushCompletions[f]
                    = IF inner.flushCompletions[f] > 0 THEN inner.flushCompletions[f] - 1 ELSE 0
  BY DEF WithoutWrite, DecrementFlushCounters, TypeOK, Inner

(* A write that ends well, or before the abort that waited for it. *)
LEMMA WriteEnds ==
    ASSUME TypeOK, NEW w \in Writes, result' = WriteSettled(w),
           \A f \in Flushes : inner'.flushCompletions[f]
                = IF inner.flushCompletions[f] > 0 THEN inner.flushCompletions[f] - 1 ELSE 0
    PROVE  result'[w] = Own /\ CountsDown /\ Others({w} \cup Flushes)
<1>0. inner \in Inner /\ Writes \cup Flushes \subseteq Calls /\ w \notin Flushes
  BY DisjointAssumption DEF TypeOK, Calls, Requests
<1>1. \A q \in Calls : result'[q] = IF q \in CompletedFlushes(inner) THEN "ok"
                                    ELSE IF q = w THEN Own ELSE result[q]
  BY DEF WriteSettled, Settle
<1>2. CompletedFlushes(inner) = {f \in Flushes : inner.flushCompletions[f] = 1}
  BY DEF CompletedFlushes
<1>3. \A f \in Flushes : inner.flushCompletions[f] \in Nat
  BY <1>0 DEF Inner
<1>4. result'[w] = Own /\ Others({w} \cup Flushes)
  BY <1>0, <1>1, <1>2 DEF Others
<1>5. \A f \in Flushes : result'[f] = IF inner.flushCompletions[f] = 1 THEN "ok" ELSE result[f]
  BY <1>0, <1>1, <1>2
<1>6. CountsDown
  BY <1>3, <1>5 DEF CountsDown
<1>. QED
  BY <1>4, <1>6

(* What the task makes of what the sink returns. *)
LEMMA DriveMoves == ASSUME TypeOK, Ownership, LineInv, DriveStep PROVE Moves
<1> USE DEF sinkVars, clientVars, channelVars
<1>0. inner \in Inner /\ inflight \in InFlight /\ Writes \cup Flushes \subseteq Calls
  BY DEF TypeOK, Calls, Requests
<1>a. ASSUME NEW op, Finishes(op) PROVE Lives /\ UNCHANGED <<prior, cmds>> /\ inflight.op = op
  BY <1>a DEF Finishes, Lives
<1>1. CASE OperationPending
  <2>1. Lives /\ UNCHANGED <<result, prior, cmds, inner, inflight>>
    BY <1>1 DEF OperationPending, Lives
  <2>. QED
    BY <2>1, OthersSettled DEF Moves, Rests, SameTask, SameSink, SameSizes, SameFlushes
<1>2. ASSUME NEW w \in Writes, FinishWriteThenAbort(w) PROVE Moves
  <2>1. Finishes("write") /\ inflight.requests = {w} /\ inner.state # "Writable" /\ result' = WriteSettled(w)
    BY <1>2 DEF FinishWriteThenAbort, Ownership, AbortLeavesWritable
  <2>2. inflight' = Begun("abort", inner.abortCompletions)
    BY <1>2 DEF FinishWriteThenAbort
  <2>3. inflight'.op # "write" /\ inflight'.requests \cap Writes = {}
    BY <1>0, <2>2, DisjointAssumption DEF Begun, Inner
  <2>4. /\ UNCHANGED <<inner.queue, inner.state>>
        /\ inner'.flushCompletions = WithoutWrite(w).flushCompletions
    BY <1>2, WithoutWriteType, WithoutWriteFields DEF FinishWriteThenAbort, Inner
  <2>5. result'[w] = Own /\ CountsDown /\ Others({w} \cup Flushes)
    BY <2>1, <2>4, WithoutWriteCounts, WriteEnds
  <2>6. EndsWrite(w)
    BY <1>a, <2>1, <2>3, <2>4, <2>5 DEF EndsWrite
  <2>. QED
    BY <2>6 DEF Moves
<1>3. ASSUME NEW w \in Writes, FinishWrite(w) PROVE Moves
  <2> DEFINE i == SinkBack(WithoutWrite(w))
  <2>1. /\ i \in Inner /\ i.state = inner.state /\ i.queue = inner.queue
        /\ i.total = SaturatingSub(inner.total, Size[w])
        /\ i.flushCompletions = WithoutWrite(w).flushCompletions
    BY WithoutWriteType, WithoutWriteFields, WithoutWriteCounts DEF SinkBack, Inner
  <2>2. inner' = UpdateBackpressure(i) /\ Finishes("write") /\ inflight.requests = {w}
        /\ result' = WriteSettled(w) /\ inflight' = NoOperation
    BY <1>3 DEF FinishWrite
  <2> HIDE DEF i
  <2>3. /\ inner'.state = i.state /\ inner'.queue = i.queue /\ inner'.total = i.total
        /\ inner'.flushCompletions = i.flushCompletions /\ (inner'.backpressure <=> i.total >= HWM)
    BY <2>1, <2>2 DEF UpdateBackpressure, Inner
  <2>4. result'[w] = Own /\ CountsDown /\ Others({w} \cup Flushes)
    BY <2>1, <2>2, <2>3, WithoutWriteCounts, WriteEnds
  <2>5. inflight'.op # "write" /\ inflight'.requests \cap Writes = {}
    BY <2>2 DEF NoOperation, None
  <2>6. EndsWrite(w)
    BY <1>a, <2>1, <2>2, <2>3, <2>4, <2>5 DEF EndsWrite
  <2>. QED
    BY <2>6 DEF Moves
<1>4. ASSUME NEW w \in Writes, FinishWriteErrored(w) PROVE Moves
  <2> DEFINE r == IF ErrorTakesEffect THEN "dropped" ELSE "stored"
             i == UpdateBackpressure([(IF ErrorTakesEffect THEN [WithoutWrite(w) EXCEPT !.abortReason = Head(ctrls), !.total = 0]
                                       ELSE WithoutWrite(w)) EXCEPT !.state = "Errored"])
  <2>1. /\ Finishes("write") /\ inflight.requests = {w} /\ inflight' = NoOperation
        /\ inner' = RejectPending(i)
        /\ result' = Settle(Settle(WriteSettled(w), RejectedRequests, "stored"), QueuedWrites, r)
    BY <1>4 DEF FinishWriteErrored
  <2>2. inner'.state = "Errored"
    BY <1>4, FinishWriteErroredFields
  <2>3. i \in Inner
    <3>1. ErrorTakesEffect => Head(ctrls) \in Errors
      BY DEF ErrorTakesEffect, TypeOK
    <3> DEFINE c == IF ErrorTakesEffect THEN [WithoutWrite(w) EXCEPT !.abortReason = Head(ctrls), !.total = 0]
                    ELSE WithoutWrite(w)
    <3>2. c \in Inner
      BY <3>1, WithoutWriteType DEF Inner, Reasons
    <3> HIDE DEF c
    <3>3. [c EXCEPT !.state = "Errored"] \in Inner
      BY <3>2 DEF Inner, States
    <3>. QED
      BY <3>3, UpdateBackpressureType DEF c
  <2> HIDE DEF i
  <2>4. inner'.queue = <<>> /\ inner'.flushCompletions = NoFlushes
    BY <2>1, <2>3 DEF RejectPending, Inner
  <2>5. \A q \in Calls : result'[q] = IF q \in Lined THEN r
                                      ELSE IF q \in RejectedRequests THEN "stored"
                                      ELSE IF q \in CompletedFlushes(inner) THEN "ok"
                                      ELSE IF q = w THEN Own ELSE result[q]
    BY <2>1, LinedType DEF WriteSettled, Settle
  <2> HIDE DEF r
  <2>6. /\ w \notin Lined /\ Lined \subseteq Writes /\ w \in Calls
        /\ w \notin Flushes /\ w \notin Closes /\ Lined \cap Flushes = {}
    <3>1. \A v \in Lined : w < v
      BY <1>a, <2>1 DEF LineInv, SinkInv, InOrder, InSink, Lives
    <3>. QED
      BY <1>0, <3>1, LinedType, NumbersAssumption, DisjointAssumption
  <2>7. RejectedRequests \subseteq Closes \cup {f \in Flushes : inner.flushCompletions[f] > 1}
        /\ CompletedFlushes(inner) = {f \in Flushes : inner.flushCompletions[f] = 1}
    BY <1>0 DEF RejectedRequests, WaitingFlushes, CompletedFlushes, Inner
  <2>8. result'[w] = Own
    BY <2>5, <2>6, <2>7
  <2>9. Others({w} \cup Lined \cup Flushes)
    BY <1>0, <2>5, <2>7, DisjointAssumption DEF Others
  <2>10. \A v \in Lined \ {w} : Settled(result'[v])
    BY <1>0, <2>5, <2>6 DEF Settled, r
  <2>11. CountsDown
    <3>1. ASSUME NEW f \in Flushes
          PROVE  /\ result'[f] = "ok" => result[f] = "ok" \/ inner.flushCompletions[f] = 1
                 /\ inner.flushCompletions[f] = 0 => result'[f] = result[f]
      <4>1. f \in Calls /\ f \notin Lined /\ f # w /\ f \notin Closes
        BY <1>0, <2>6, DisjointAssumption
      <4>2. inner.flushCompletions[f] \in Nat
        BY <1>0 DEF Inner
      <4>. QED
        BY <2>5, <2>7, <4>1, <4>2
    <3>2. \A f \in Flushes : inner'.flushCompletions[f] = 0
      BY <2>4 DEF NoFlushes
    <3>. QED
      BY <3>1, <3>2 DEF CountsDown
  <2>12. inflight'.op # "write" /\ inflight'.requests \cap Writes = {}
    BY <2>1 DEF NoOperation, None
  <2>13. EndsWrite(w)
    BY <1>a, <2>1, <2>2, <2>4, <2>8, <2>9, <2>10, <2>11, <2>12 DEF EndsWrite
  <2>. QED
    BY <2>13 DEF Moves
<1>5. ASSUME NEW op \in {"close", "abort"}, Finishes(op), inner'.queue = <<>>, inner'.state # "Writable",
             UNCHANGED inner.flushCompletions, inflight' = NoOperation,
             result' = Settle(Settle(result, inflight.requests, Own), QueuedWrites, "dropped")
      PROVE  Moves
  <2>1. inflight.requests \cap (Writes \cup Flushes) = {}
    BY <1>0, <1>5, <1>a, DisjointAssumption DEF LineInv, SinkInv, InFlight
  <2>2. Others(inflight.requests \cup Lined)
    BY <1>5, LinedType, OthersSettled
  <2>3. Others(Lined)
    BY <2>1, <2>2 DEF Others
  <2>4. \A v \in Lined : Settled(result'[v])
    BY <1>5, LinedType DEF Settle, Settled
  <2>5. SameSink
    BY <1>5, <1>a DEF SameSink, NoOperation, None
  <2>. QED
    BY <1>5, <1>a, <2>3, <2>4, <2>5 DEF Moves, Clears, SameFlushes
<1>6. CASE FinishClose
  <2>1. inner'.queue = <<>> /\ inner'.state # "Writable" /\ UNCHANGED inner.flushCompletions
    BY <1>0, <1>6 DEF FinishClose, Cleared, Inner
  <2>. QED
    BY <1>5, <1>6, <2>1 DEF FinishClose
<1>7. CASE FinishAbort
  <2>1. inner.state # "Writable"
    BY <1>7, <1>a DEF FinishAbort, Ownership, SinkWhereabouts
  <2>2. inner'.queue = <<>> /\ inner'.state # "Writable" /\ UNCHANGED inner.flushCompletions
    BY <1>0, <1>7, <2>1 DEF FinishAbort, Cleared, Inner
  <2>. QED
    BY <1>5, <1>7, <2>2 DEF FinishAbort
<1>. QED
  BY <1>1, <1>2, <1>3, <1>4, <1>6, <1>7 DEF DriveStep

(* Every step is one of the moves. *)
LEMMA StepMoves == ASSUME TypeOK, Ownership, LineInv, [Next]_vars PROVE Moves
<1> USE DEF clientVars, channelVars, taskVars, sinkVars
<1>1. CASE UNCHANGED vars
  BY <1>1, OthersSettled DEF vars, Moves, Rests, SameTask, SameSink, SameSizes, SameFlushes
<1>2. CASE TaskReturns \/ TaskDropped
  <2>1. pc # "done" /\ Stop
    BY <1>2 DEF TaskReturns, TaskDropped
  <2>2. \A q \in Writes \cup Flushes : result'[q] = IF result[q] = "pending" THEN "dropped" ELSE result[q]
    BY <2>1 DEF Stop, Settle, Pending, Calls, Requests
  <2>. QED
    BY <2>1, <2>2 DEF Stop, Moves, Stops, SameTask, SameSink, SameSizes, SameFlushes
<1>. QED
  BY <1>1, <1>2, HandleMoves, WaiterMoves, BeginningMoves, CommandMoves, DispatchMoves, DriveMoves
     DEF Next, PollStep

-----------------------------------------------------------------------------
(* The moves keep the chunks in their order                                 *)

(* Chunks are ordered by their numbers. *)
LEMMA Ordered == \A v, w \in Writes : ~(v < v) /\ (v < w \/ v = w \/ w < v)
  BY NumbersAssumption

(* One more command. *)
LEMMA ChannelGrows ==
    ASSUME TypeOK, NEW op, NEW id \in Calls, cmds' = Append(cmds, [op |-> op, id |-> id])
    PROVE  /\ Len(cmds) \in Nat /\ Len(cmds') = Len(cmds) + 1
           /\ \A k \in 1..Len(cmds) : cmds'[k] = cmds[k]
           /\ cmds'[Len(cmds) + 1] = [op |-> op, id |-> id]
           /\ \A k \in 1..Len(cmds') : k \in 1..Len(cmds) \/ k = Len(cmds) + 1
           /\ \A k \in 1..Len(cmds) + 1 : k \in 1..Len(cmds')
  BY DEF TypeOK

(* One command less. *)
LEMMA ChannelShrinks ==
    ASSUME TypeOK, NEW op, NEW id, Taken(op, id)
    PROVE  /\ Len(cmds) \in Nat \ {0} /\ Len(cmds') = Len(cmds) - 1
           /\ 1 \in 1..Len(cmds) /\ cmds[1] = [op |-> op, id |-> id]
           /\ \A k \in 1..Len(cmds') : k + 1 \in 1..Len(cmds) /\ cmds'[k] = cmds[k + 1]
           /\ \A k \in 1..Len(cmds) : k = 1 \/ (k - 1 \in 1..Len(cmds') /\ (k - 1) + 1 = k)
<1>1. cmds \in Seq(Commands) /\ cmds # <<>> /\ cmds' = Tail(cmds) /\ Head(cmds) = [op |-> op, id |-> id]
  BY DEF TypeOK, Taken
<1>2. /\ Head(cmds) = cmds[1] /\ Len(cmds) \in Nat \ {0} /\ Len(cmds') = Len(cmds) - 1
      /\ \A k \in 1..Len(cmds') : k + 1 \in 1..Len(cmds) /\ cmds'[k] = cmds[k + 1]
  BY <1>1, OffTheFront
<1>. QED
  BY <1>1, <1>2

(* A command that is sent stands behind the others. *)
LEMMA ChannelAppend ==
    ASSUME TypeOK, ChannelInv, ChannelOrder, NEW op, NEW id \in Calls,
           cmds' = Append(cmds, [op |-> op, id |-> id]), Others({id}),
           op = "write" <=> id \in Writes,
           id \in Writes => result'[id] = "pending" /\ \A v \in InChannel : v < id
    PROVE  /\ ChannelInv' /\ ChannelOrder'
           /\ InChannel' = InChannel \cup (IF op = "write" THEN {id} ELSE {})
<1>1. /\ Len(cmds) \in Nat /\ Len(cmds') = Len(cmds) + 1
      /\ \A k \in 1..Len(cmds) : cmds'[k] = cmds[k]
      /\ cmds'[Len(cmds) + 1] = [op |-> op, id |-> id]
      /\ \A k \in 1..Len(cmds') : k \in 1..Len(cmds) \/ k = Len(cmds) + 1
      /\ \A k \in 1..Len(cmds) + 1 : k \in 1..Len(cmds')
  BY ChannelGrows
<1>2. ChannelInv'
  BY <1>1 DEF ChannelInv, IsWrite, Others
<1>3. \A k \in 1..Len(cmds) : IsWrite(k) => cmds[k].id \in InChannel
  BY DEF ChannelInv, InChannel, IsWrite
<1>4. ChannelOrder'
  <2> SUFFICES ASSUME NEW j \in 1..Len(cmds'), NEW k \in 1..Len(cmds'), j < k,
                      cmds'[j].op = "write", cmds'[k].op = "write"
               PROVE  cmds'[j].id < cmds'[k].id
    BY DEF ChannelOrder, IsWrite
  <2>1. j \in 1..Len(cmds)
    BY <1>1
  <2>2. CASE k \in 1..Len(cmds)
    BY <1>1, <2>1, <2>2 DEF ChannelOrder, IsWrite
  <2>3. CASE k = Len(cmds) + 1
    BY <1>1, <1>3, <2>1, <2>3 DEF IsWrite
  <2>. QED
    BY <1>1, <2>2, <2>3
<1>5. InChannel' = InChannel \cup (IF op = "write" THEN {id} ELSE {})
  <2>1. ASSUME NEW w \in InChannel' PROVE w \in InChannel \cup (IF op = "write" THEN {id} ELSE {})
    <3>1. PICK k \in 1..Len(cmds') : cmds'[k].op = "write" /\ cmds'[k].id = w /\ w \in Writes
      BY DEF InChannel, IsWrite
    <3>. QED
      BY <1>1, <3>1 DEF InChannel, IsWrite
  <2>2. ASSUME NEW w \in InChannel PROVE w \in InChannel'
    <3>1. PICK k \in 1..Len(cmds) : cmds[k].op = "write" /\ cmds[k].id = w /\ w \in Writes
      BY DEF InChannel, IsWrite
    <3>2. k \in 1..Len(cmds')
      BY <1>1
    <3>. QED
      BY <1>1, <3>1, <3>2 DEF InChannel, IsWrite
  <2>3. op = "write" => id \in InChannel'
    <3>1. Len(cmds) + 1 \in 1..Len(cmds')
      BY <1>1
    <3>. QED
      BY <1>1, <3>1 DEF InChannel, IsWrite
  <2>. QED
    BY <2>1, <2>2, <2>3
<1>. QED
  BY <1>2, <1>4, <1>5

(* A command that is taken stood before the others. *)
LEMMA ChannelTake ==
    ASSUME TypeOK, ChannelInv, ChannelOrder, NEW op, NEW id, Taken(op, id),
           \A w \in InChannel : w # id => result'[w] = result[w]
    PROVE  /\ ChannelInv' /\ ChannelOrder'
           /\ op = "write" <=> id \in Writes
           /\ op = "write" => /\ id \in InChannel /\ InChannel' = InChannel \ {id}
                              /\ \A v \in InChannel' : id < v
           /\ op # "write" => InChannel' = InChannel
<1>1. /\ Len(cmds) \in Nat \ {0} /\ Len(cmds') = Len(cmds) - 1
      /\ 1 \in 1..Len(cmds) /\ cmds[1] = [op |-> op, id |-> id]
      /\ \A k \in 1..Len(cmds') : k + 1 \in 1..Len(cmds) /\ cmds'[k] = cmds[k + 1]
      /\ \A k \in 1..Len(cmds) : k = 1 \/ (k - 1 \in 1..Len(cmds') /\ (k - 1) + 1 = k)
  BY ChannelShrinks
<1>2. op = "write" <=> id \in Writes
  BY <1>1 DEF ChannelInv, IsWrite
<1>3. op = "write" => \A k \in 1..Len(cmds') : cmds'[k].op = "write" => id < cmds'[k].id
  <2> SUFFICES ASSUME op = "write", NEW k \in 1..Len(cmds'), cmds'[k].op = "write"
               PROVE  id < cmds'[k].id
    OBVIOUS
  <2>1. k + 1 \in 1..Len(cmds) /\ 1 < k + 1 /\ cmds'[k] = cmds[k + 1]
    BY <1>1
  <2>. QED
    BY <1>1, <2>1 DEF ChannelOrder, IsWrite
<1>4. ChannelOrder'
  <2> SUFFICES ASSUME NEW j \in 1..Len(cmds'), NEW k \in 1..Len(cmds'), j < k,
                      cmds'[j].op = "write", cmds'[k].op = "write"
               PROVE  cmds'[j].id < cmds'[k].id
    BY DEF ChannelOrder, IsWrite
  <2>1. j + 1 \in 1..Len(cmds) /\ k + 1 \in 1..Len(cmds) /\ j + 1 < k + 1
        /\ cmds'[j] = cmds[j + 1] /\ cmds'[k] = cmds[k + 1]
    BY <1>1
  <2>. QED
    BY <2>1 DEF ChannelOrder, IsWrite
<1>5. \A k \in 1..Len(cmds') : cmds'[k].op = "write" <=> cmds'[k].id \in Writes
  BY <1>1 DEF ChannelInv, IsWrite
<1>6. ChannelInv'
  <2> SUFFICES ASSUME NEW k \in 1..Len(cmds'), cmds'[k].id \in Writes
               PROVE  result'[cmds'[k].id] = "pending"
    BY <1>5 DEF ChannelInv, IsWrite
  <2>1. k + 1 \in 1..Len(cmds) /\ cmds'[k] = cmds[k + 1]
    BY <1>1
  <2>2. result[cmds'[k].id] = "pending" /\ cmds'[k].op = "write" /\ cmds'[k].id \in InChannel
    BY <1>5, <2>1 DEF ChannelInv, InChannel, IsWrite
  <2>3. cmds'[k].id # id
    <3>1. CASE op = "write"
      BY Ordered, <1>2, <1>3, <2>2, <3>1
    <3>2. CASE op # "write"
      BY <1>2, <3>2
    <3>. QED
      BY <3>1, <3>2
  <2>. QED
    BY <2>2, <2>3
<1>7. \A w \in InChannel' : w \in InChannel /\ (op = "write" => id < w)
  <2> SUFFICES ASSUME NEW w \in InChannel' PROVE w \in InChannel /\ (op = "write" => id < w)
    OBVIOUS
  <2>1. PICK k \in 1..Len(cmds') : cmds'[k].op = "write" /\ cmds'[k].id = w /\ w \in Writes
    BY DEF InChannel, IsWrite
  <2>2. k + 1 \in 1..Len(cmds) /\ cmds'[k] = cmds[k + 1]
    BY <1>1
  <2>. QED
    BY <1>3, <2>1, <2>2 DEF InChannel, IsWrite
<1>8. \A w \in InChannel : w \in InChannel' \/ (op = "write" /\ w = id)
  <2> SUFFICES ASSUME NEW w \in InChannel PROVE w \in InChannel' \/ (op = "write" /\ w = id)
    OBVIOUS
  <2>1. PICK k \in 1..Len(cmds) : cmds[k].op = "write" /\ cmds[k].id = w /\ w \in Writes
    BY DEF InChannel, IsWrite
  <2>2. CASE k = 1
    BY <1>1, <2>1, <2>2
  <2>3. CASE k - 1 \in 1..Len(cmds') /\ (k - 1) + 1 = k
    <3>1. cmds'[k - 1] = cmds[k]
      BY <1>1, <2>3
    <3>. QED
      BY <2>1, <2>3, <3>1 DEF InChannel, IsWrite
  <2>. QED
    BY <1>1, <2>2, <2>3
<1>9. op = "write" => id \in InChannel /\ id \notin InChannel'
  <2>1. op = "write" => id \in InChannel
    BY <1>1, <1>2 DEF InChannel, IsWrite
  <2>. QED
    BY Ordered, <1>2, <1>7, <2>1
<1>. QED
  BY <1>2, <1>4, <1>6, <1>7, <1>8, <1>9

(* The channel, when nothing is sent or taken. *)
LEMMA ChannelStays ==
    ASSUME ChannelInv, ChannelOrder, UNCHANGED cmds, \A w \in InChannel : result'[w] = result[w]
    PROVE  ChannelInv' /\ ChannelOrder' /\ InChannel' = InChannel
<1>1. InChannel' = InChannel
  BY DEF InChannel, IsWrite
<1>2. ChannelOrder'
  BY DEF ChannelOrder, IsWrite
<1>3. ChannelInv'
  BY DEF ChannelInv, InChannel, IsWrite
<1>. QED
  BY <1>1, <1>2, <1>3

(* A chunk that joins the line stands behind the others. *)
LEMMA LineAppend ==
    ASSUME TypeOK, LineOrder, NEW w \in Writes, inner'.queue = Append(inner.queue, w), \A v \in Lined : v < w
    PROVE  LineOrder' /\ Lined' = Lined \cup {w}
<1> DEFINE q == inner.queue
<1>1. /\ Len(q) \in Nat /\ Len(inner'.queue) = Len(q) + 1
      /\ \A k \in 1..Len(q) : inner'.queue[k] = q[k] /\ q[k] \in Lined
      /\ inner'.queue[Len(q) + 1] = w
  BY DEF TypeOK, Inner, Lined, Elements
<1>2. LineOrder'
  BY <1>1 DEF LineOrder
<1>3. Lined' = {inner'.queue[k] : k \in 1..Len(q) + 1}
  BY <1>1 DEF Lined, Elements
<1>4. Lined = {q[k] : k \in 1..Len(q)}
  BY DEF Lined, Elements
<1> HIDE DEF q
<1>5. \A k \in 1..Len(q) + 1 : inner'.queue[k] \in Lined \cup {w}
  BY <1>1
<1>6. \A v \in Lined \cup {w} : \E k \in 1..Len(q) + 1 : inner'.queue[k] = v
  BY <1>1, <1>4
<1>. QED
  BY <1>2, <1>3, <1>5, <1>6

(* The chunk that leaves the line stood before the others. *)
LEMMA LineTail ==
    ASSUME TypeOK, LineOrder, inner.queue # <<>>, inner'.queue = Tail(inner.queue)
    PROVE  /\ LineOrder' /\ Head(inner.queue) \in Lined /\ Head(inner.queue) \in Writes
           /\ Lined = Lined' \cup {Head(inner.queue)}
           /\ \A v \in Lined' : Head(inner.queue) < v
<1> DEFINE q == inner.queue
           t == inner'.queue
<1>1. q \in Seq(Writes)
  BY DEF TypeOK, Inner
<1>2. /\ Head(q) \in Writes /\ Head(q) = q[1] /\ Len(q) \in Nat \ {0} /\ Len(t) = Len(q) - 1
      /\ \A k \in 1..Len(t) : k + 1 \in 1..Len(q) /\ t[k] = q[k + 1]
  BY <1>1, OffTheFront
<1>3. Lined = {q[k] : k \in 1..Len(q)} /\ Lined' = {t[k] : k \in 1..Len(t)}
  BY DEF Lined, Elements
<1>4. \A j, k \in 1..Len(q) : j < k => q[j] < q[k]
  BY DEF LineOrder
<1>5. LineOrder' <=> \A j, k \in 1..Len(t) : j < k => t[j] < t[k]
  BY DEF LineOrder
<1> HIDE DEF q, t
<1>6. \A k \in 1..Len(q) : k = 1 \/ (k - 1 \in 1..Len(t) /\ t[k - 1] = q[k])
  BY <1>2
<1>7. \A j, k \in 1..Len(t) : j < k => t[j] < t[k]
  BY <1>2, <1>4
<1>8. 1 \in 1..Len(q) /\ \A k \in 1..Len(t) : q[1] < t[k]
  BY <1>2, <1>4
<1>9. Lined = Lined' \cup {Head(q)}
  BY <1>2, <1>3, <1>6, <1>8
<1>10. \A v \in Lined' : Head(q) < v
  BY <1>2, <1>3, <1>8
<1>11. LineOrder' /\ Head(q) \in Lined
  BY <1>2, <1>3, <1>5, <1>7, <1>8
<1>. QED
  BY <1>2, <1>9, <1>10, <1>11 DEF q

(* A step that leaves the line and the sink alone. *)
LEMMA LineStays ==
    ASSUME SinkInv, SameSink, UNCHANGED <<inner.queue, inner.state>>, pc' = "starting" => pc = "starting"
    PROVE  SinkInv' /\ InSink' = InSink /\ Lined' = Lined /\ (LineOrder => LineOrder')
<1>1. SinkInv'
  BY DEF SinkInv, SameSink
<1>2. InSink' = InSink
  BY DEF InSink, SameSink
<1>3. Lined' = Lined /\ (LineOrder => LineOrder')
  BY DEF Lined, Elements, LineOrder
<1>. QED
  BY <1>1, <1>2, <1>3

(* No write is unsent again. *)
LEMMA HandedOverStays ==
    ASSUME HandedOver, \A w \in Writes : result'[w] = "unsent" <=> result[w] = "unsent"
    PROVE  HandedOver'
  BY DEF HandedOver

(* The next write is handed over. *)
LEMMA HandedOverGrows ==
    ASSUME HandedOver, NEW w \in Writes, HandsOver(w), result'[w] # "unsent",
           \A v \in Writes : v # w => result'[v] = result[v]
    PROVE  HandedOver'
  BY NumbersAssumption DEF HandedOver, HandsOver

(* Nothing moves after the task is gone. *)
LEMMA DoneStays ==
    ASSUME LineInv, HandedOver', pc = "done", pc' = pc, UNCHANGED cmds, SameSink,
           UNCHANGED <<inner.queue, inner.state>>,
           \A w \in Writes : result'[w] = result[w] \/ (result[w] = "unsent" /\ result'[w] # "pending")
    PROVE  LineInv'
<1>1. SinkInv' /\ InSink' = InSink
  BY LineStays DEF LineInv
<1>2. \A w \in InSink : w \in Writes
  BY DEF LineInv, SinkInv, InSink
<1>. QED
  BY <1>1, <1>2 DEF LineInv

(* A chunk that was handed over, and stands in none of the places. *)
LEMMA PlacesStay ==
    ASSUME TypeOK, LineInv, pc # "done", pc' # "done", pc' = "starting" => pc = "starting", HandedOver',
           SameSink, UNCHANGED <<inner.queue, inner.state, cmds>>,
           \A w \in Writes : result'[w] = result[w] \/ (result[w] = "unsent" /\ result'[w] # "pending")
    PROVE  LineInv'
<1>1. SinkInv' /\ InSink' = InSink /\ Lined' = Lined /\ LineOrder'
  BY LineStays DEF LineInv, InOrder
<1>2. InSink \cup Lined \cup InChannel \subseteq Writes
  BY LinedType DEF LineInv, SinkInv, InSink, InChannel
<1>3. \A w \in InSink \cup Lined \cup InChannel : result[w] = "pending"
  BY DEF LineInv, InPlace, ChannelInv, InChannel, IsWrite
<1>4. ChannelInv' /\ ChannelOrder' /\ InChannel' = InChannel
  BY <1>2, <1>3, ChannelStays DEF LineInv, InOrder
<1>5. InOrder'
  BY <1>1, <1>4 DEF LineInv, InOrder
<1>6. InPlace'
  BY <1>1, <1>2, <1>3, <1>4 DEF LineInv, InPlace
<1>. QED
  BY <1>1, <1>4, <1>5, <1>6 DEF LineInv

(* What is sent. *)
LEMMA PostedKeepsLine ==
    ASSUME TypeOK, LineInv, NEW op, NEW id \in Calls, Posted(op, id, {id}),
           op = "write" <=> id \in Writes, id \in Writes => HandsOver(id) /\ result'[id] = "pending"
    PROVE  LineInv'
<1>1. SinkInv' /\ InSink' = InSink /\ Lined' = Lined /\ LineOrder'
  BY LineStays DEF LineInv, InOrder, Posted
<1>2. InSink \cup Lined \cup InChannel \subseteq Writes
  BY LinedType DEF LineInv, SinkInv, InSink, InChannel
<1>3. \A w \in InSink \cup Lined \cup InChannel : result[w] = "pending"
  BY DEF LineInv, InPlace, ChannelInv, InChannel, IsWrite, Posted
<1>4. \A w \in Writes : w # id => result'[w] = result[w]
  BY DEF Posted, Others
<1>5. id \in Writes => \A w \in InSink \cup Lined \cup InChannel : w < id
  BY <1>2, <1>3, Ordered DEF HandsOver, LineInv, HandedOver
<1>6. ChannelInv' /\ ChannelOrder' /\ InChannel' = InChannel \cup (IF op = "write" THEN {id} ELSE {})
  BY <1>5, ChannelAppend DEF LineInv, InOrder, Posted
<1>7. InOrder'
  BY <1>1, <1>5, <1>6 DEF LineInv, InOrder, Posted
<1>8. id \notin InSink \cup Lined
  BY <1>2, <1>3 DEF HandsOver
<1>9. InPlace'
  BY <1>1, <1>2, <1>4, <1>6, <1>8 DEF LineInv, InPlace, Posted
<1>10. HandedOver'
  BY <1>4, HandedOverGrows, HandedOverStays DEF LineInv
<1>. QED
  BY <1>1, <1>6, <1>7, <1>9, <1>10 DEF LineInv, Posted

(* What is taken, whatever becomes of it, unless it joins the line. *)
LEMMA TakenKeepsLine ==
    ASSUME TypeOK, LineInv, NEW op, NEW id, Taken(op, id), Others({id}),
           SameSink, UNCHANGED <<inner.queue, inner.state>>,
           id \in Writes => Settled(result'[id])
    PROVE  LineInv'
<1>1. SinkInv' /\ InSink' = InSink /\ Lined' = Lined /\ LineOrder'
  BY LineStays DEF LineInv, InOrder, Taken
<1>2. InSink \cup Lined \cup InChannel \subseteq Writes
  BY LinedType DEF LineInv, SinkInv, InSink, InChannel
<1>3. \A w \in InSink \cup Lined \cup InChannel : result[w] = "pending"
  BY DEF LineInv, InPlace, ChannelInv, InChannel, IsWrite, Taken
<1>4. \A w \in Writes : w # id => result'[w] = result[w]
  BY DEF Others
<1>5. /\ ChannelInv' /\ ChannelOrder'
      /\ op = "write" <=> id \in Writes
      /\ op = "write" => /\ id \in InChannel /\ InChannel' = InChannel \ {id}
                         /\ \A v \in InChannel' : id < v
      /\ op # "write" => InChannel' = InChannel
  BY <1>2, <1>4, ChannelTake DEF LineInv, InOrder, Taken
<1>6. InOrder'
  BY <1>1, <1>5 DEF LineInv, InOrder, Taken
<1>7. op = "write" => id \notin InSink \cup Lined
  BY <1>2, <1>5, Ordered DEF LineInv, InOrder, Taken
<1>8. InPlace'
  BY <1>1, <1>2, <1>4, <1>5, <1>7 DEF LineInv, InPlace, Taken, Settled
<1>9. HandedOver'
  BY <1>3, <1>4, <1>5, HandedOverStays DEF LineInv, Settled
<1>. QED
  BY <1>1, <1>5, <1>6, <1>8, <1>9 DEF LineInv, Taken

(* What joins the line. *)
LEMMA LinesKeepsLine == ASSUME TypeOK, LineInv, NEW w \in Writes, Lines(w) PROVE LineInv'
<1>0. pc = "drain" /\ pc' = "drain" /\ Taken("write", w) /\ (\A v \in Writes : result'[v] = result[v])
  BY DEF Lines, Taken, Others
<1>1. InSink \cup Lined \cup InChannel \subseteq Writes
  BY LinedType DEF LineInv, SinkInv, InSink, InChannel
<1>2. /\ ChannelInv' /\ ChannelOrder' /\ w \in InChannel /\ InChannel' = InChannel \ {w}
      /\ \A v \in InChannel' : w < v
  BY <1>0, <1>1, ChannelTake DEF LineInv, InOrder
<1>3. \A v \in InSink \cup Lined : v < w
  BY <1>0, <1>2 DEF LineInv, InOrder
<1>4. LineOrder' /\ Lined' = Lined \cup {w}
  BY <1>0, <1>3, LineAppend DEF Lines, LineInv, InOrder
<1>5. SinkInv' /\ InSink' = InSink
  BY <1>0 DEF Lines, LineInv, SinkInv, SameSink, InSink
<1>6. InOrder'
  BY <1>0, <1>2, <1>3, <1>4, <1>5 DEF LineInv, InOrder
<1>7. InPlace'
  BY <1>0, <1>1, <1>2, <1>4, <1>5 DEF LineInv, InPlace, ChannelInv, InChannel, IsWrite
<1>. QED
  BY <1>0, <1>2, <1>5, <1>6, <1>7, HandedOverStays DEF LineInv

(* What clears the line. *)
LEMMA ClearsKeepsLine == ASSUME TypeOK, LineInv, Clears PROVE LineInv'
<1>0. pc # "done" /\ pc' \notin {"starting", "done"} /\ Lined' = {} /\ LineOrder'
  BY DEF Clears, Lives, Lined, Elements, LineOrder
<1>1. InSink \cup Lined \cup InChannel \subseteq Writes
  BY LinedType DEF LineInv, SinkInv, InSink, InChannel
<1>2. /\ \A v \in Writes \ Lined : result'[v] = result[v]
      /\ \A v \in Lined : result[v] = "pending" /\ result'[v] \notin {"unsent", "pending"}
  BY <1>0 DEF Clears, Others, Settled, LineInv, InPlace
<1>3. \A v \in Lined : v \notin InSink /\ v \notin InChannel
  BY <1>0, <1>1, Ordered DEF LineInv, InOrder
<1>4. ChannelInv' /\ ChannelOrder' /\ InChannel' = InChannel
  <2>1. CASE UNCHANGED cmds
    BY <1>0, <1>1, <1>2, <1>3, <2>1, ChannelStays DEF LineInv, InOrder
  <2>2. CASE SilentlyTaken
    <3>1. PICK op \in Silent, id \in Calls : Taken(op, id)
      BY <2>2 DEF SilentlyTaken
    <3>. QED
      BY <1>0, <1>1, <1>2, <1>3, <3>1, ChannelTake DEF LineInv, InOrder, Silent
  <2>. QED
    BY <2>1, <2>2 DEF Clears
<1>5. SinkInv' /\ InSink' = InSink
  BY <1>0 DEF Clears, LineInv, SinkInv, SameSink, InSink
<1>6. InOrder'
  BY <1>0, <1>4, <1>5 DEF LineInv, InOrder
<1>7. InPlace'
  BY <1>0, <1>1, <1>2, <1>3, <1>4, <1>5 DEF LineInv, InPlace
<1>8. HandedOver'
  BY <1>2, HandedOverStays DEF LineInv
<1>. QED
  BY <1>0, <1>4, <1>5, <1>6, <1>7, <1>8 DEF LineInv

(* What goes to the sink. *)
LEMMA BeginsWriteKeepsLine == ASSUME TypeOK, LineInv, BeginsWrite PROVE LineInv'
<1>0. /\ pc # "done" /\ pc' \notin {"starting", "done"} /\ UNCHANGED cmds
      /\ \A v \in Writes : result'[v] = result[v]
  BY DEF BeginsWrite, Lives, Others
<1>1. InSink = {} /\ InSink' = {Head(inner.queue)}
  BY DEF BeginsWrite, InSink
<1>2. /\ LineOrder' /\ Head(inner.queue) \in Lined /\ Head(inner.queue) \in Writes
      /\ Lined = Lined' \cup {Head(inner.queue)}
      /\ \A v \in Lined' : Head(inner.queue) < v
  BY <1>0, LineTail DEF BeginsWrite, LineInv, InOrder
<1>3. ChannelInv' /\ ChannelOrder' /\ InChannel' = InChannel
  BY <1>0, ChannelStays DEF LineInv, InOrder, InChannel
<1>4. SinkInv'
  BY <1>0, <1>2 DEF BeginsWrite, LineInv, SinkInv
<1>5. InOrder'
  BY <1>0, <1>1, <1>2, <1>3 DEF LineInv, InOrder
<1>6. Lined \subseteq Writes
  BY LinedType
<1>7. InPlace'
  BY <1>0, <1>1, <1>2, <1>3, <1>6 DEF LineInv, InPlace
<1>. QED
  BY <1>0, <1>3, <1>4, <1>5, <1>7, HandedOverStays DEF LineInv

(* What the sink has done. *)
LEMMA EndsWriteKeepsLine == ASSUME TypeOK, LineInv, NEW w \in Writes, EndsWrite(w) PROVE LineInv'
<1>0. pc # "done" /\ pc' \notin {"starting", "done"} /\ UNCHANGED cmds /\ InSink = {w} /\ InSink' = {}
  BY DEF EndsWrite, Lives, InSink
<1>1. InSink \cup Lined \cup InChannel \subseteq Writes
  BY LinedType DEF LineInv, SinkInv, InSink, InChannel
<1>2. \A v \in InSink \cup Lined \cup InChannel : result[v] = "pending"
  BY <1>0 DEF LineInv, InPlace, ChannelInv, InChannel, IsWrite
<1>3. w \notin Lined /\ (InSink \cup Lined) \cap InChannel = {}
  BY <1>0, <1>1, Ordered DEF LineInv, InOrder
<1>4. Settled(result'[w])
  BY DEF EndsWrite, Settled, Own
<1>5. SinkInv'
  BY <1>0 DEF EndsWrite, LineInv, SinkInv
<1>6. CASE UNCHANGED <<inner.queue, inner.state>> /\ Others({w} \cup Flushes)
  <2>1. \A v \in Writes : v # w => result'[v] = result[v]
    BY <1>6, DisjointAssumption DEF Others
  <2>2. ChannelInv' /\ ChannelOrder' /\ InChannel' = InChannel
    BY <1>0, <1>1, <1>3, <2>1, ChannelStays DEF LineInv, InOrder
  <2>3. Lined' = Lined /\ LineOrder'
    BY <1>0, <1>6 DEF Lined, Elements, LineOrder, LineInv, InOrder
  <2>4. InOrder'
    BY <1>0, <2>2, <2>3 DEF LineInv, InOrder
  <2>5. InPlace'
    BY <1>0, <1>1, <1>3, <1>4, <2>1, <2>2, <2>3 DEF LineInv, InPlace, Settled
  <2>6. HandedOver'
    BY <1>0, <1>2, <1>4, <2>1, HandedOverStays DEF LineInv, Settled
  <2>. QED
    BY <1>0, <1>5, <2>2, <2>4, <2>5, <2>6 DEF LineInv
<1>7. CASE /\ inner'.queue = <<>> /\ inner'.state # "Writable"
           /\ Others({w} \cup Lined \cup Flushes) /\ \A v \in Lined \ {w} : Settled(result'[v])
  <2>1. \A v \in Writes : v \notin {w} \cup Lined => result'[v] = result[v]
    BY <1>7, DisjointAssumption DEF Others
  <2>2. ChannelInv' /\ ChannelOrder' /\ InChannel' = InChannel
    BY <1>0, <1>1, <1>3, <2>1, ChannelStays DEF LineInv, InOrder
  <2>3. Lined' = {} /\ LineOrder'
    BY <1>7 DEF Lined, Elements, LineOrder
  <2>4. InOrder'
    BY <1>0, <2>2, <2>3 DEF LineInv, InOrder
  <2>5. InPlace'
    BY <1>0, <1>1, <1>3, <1>4, <1>7, <2>1, <2>2, <2>3 DEF LineInv, InPlace, Settled
  <2>6. HandedOver'
    BY <1>0, <1>2, <1>4, <1>7, <2>1, HandedOverStays DEF LineInv, Settled
  <2>. QED
    BY <1>0, <1>5, <2>2, <2>4, <2>5, <2>6 DEF LineInv
<1>. QED
  BY <1>6, <1>7 DEF EndsWrite

(* What is dropped with the task. *)
LEMMA StopsKeepsLine == ASSUME TypeOK, LineInv, Stops PROVE LineInv'
<1>1. SinkInv' /\ InSink' = InSink
  BY LineStays DEF Stops, SameTask, LineInv
<1>2. InSink \subseteq Writes
  BY DEF LineInv, SinkInv, InSink
<1>3. \A w \in Writes : result'[w] = IF result[w] = "pending" THEN "dropped" ELSE result[w]
  BY DEF Stops
<1>4. HandedOver'
  BY <1>3, HandedOverStays DEF LineInv
<1>. QED
  BY <1>1, <1>2, <1>3, <1>4 DEF Stops, LineInv, InPlace

(* Whatever the step, the chunks keep their order. *)
LEMMA MovesKeepLine == ASSUME TypeOK, LineInv, Moves PROVE LineInv'
<1>1. CASE Rests
  <2>1. \A w \in Writes : result'[w] = result[w]
    BY <1>1 DEF Rests, Others
  <2>2. HandedOver'
    BY <2>1, HandedOverStays DEF LineInv
  <2>3. CASE pc = "done"
    BY <1>1, <2>1, <2>2, <2>3, DoneStays DEF Rests, SameTask, Lives
  <2>4. CASE pc # "done"
    BY <1>1, <2>1, <2>2, <2>4, PlacesStay DEF Rests, SameTask, Lives
  <2>. QED
    BY <2>3, <2>4
<1>2. CASE Posts
  <2>1. PICK op \in Silent, id \in Calls \ (Writes \cup Flushes) : Posted(op, id, {})
    BY <1>2 DEF Posts
  <2>2. Posted(op, id, {id}) /\ op # "write" /\ id \notin Writes
    BY <2>1 DEF Posted, Others, Silent
  <2>. QED
    BY <2>2, PostedKeepsLine
<1>3. CASE Passes
  <2>1. PICK op \in Silent, id \in Calls : Taken(op, id)
    BY <1>3 DEF Passes, SilentlyTaken
  <2>2. Others({id}) /\ SameTask
    BY <1>3 DEF Passes, Others
  <2>3. id \notin Writes
    <3>1. op # "write" /\ pc # "done" /\ cmds[1] = [op |-> op, id |-> id] /\ 1 \in 1..Len(cmds)
      BY <2>1, ChannelShrinks DEF Taken, Silent
    <3>. QED
      BY <3>1 DEF LineInv, ChannelInv, IsWrite
  <2>. QED
    BY <2>1, <2>2, <2>3, TakenKeepsLine DEF SameTask
<1>4. ASSUME NEW w \in Writes, PostsWrite(w) PROVE LineInv'
  <2>1. w \in Calls
    BY DEF Calls, Requests
  <2>. QED
    BY <1>4, <2>1, PostedKeepsLine DEF PostsWrite
<1>5. ASSUME NEW w \in Writes, Turned(w) PROVE LineInv'
  <2>1. \A v \in Writes : v # w => result'[v] = result[v]
    BY <1>5 DEF Turned, Others
  <2>2. HandedOver'
    BY <1>5, <2>1, HandedOverGrows DEF LineInv, Turned, Settled
  <2>3. \A v \in Writes : result'[v] = result[v] \/ (result[v] = "unsent" /\ result'[v] # "pending")
    BY <1>5, <2>1 DEF Turned, HandsOver, Settled
  <2>4. CASE pc = "done"
    BY <1>5, <2>2, <2>3, <2>4, DoneStays DEF Turned, SameTask
  <2>5. CASE pc # "done"
    BY <1>5, <2>2, <2>3, <2>5, PlacesStay DEF Turned, SameTask
  <2>. QED
    BY <2>4, <2>5
<1>6. ASSUME NEW w \in Writes, Refuses(w) PROVE LineInv'
  BY <1>6, TakenKeepsLine DEF Refuses, SameTask
<1>7. ASSUME NEW f \in Flushes, AsksFlush(f) PROVE LineInv'
  <2>0. f \in Calls /\ f \notin Writes
    BY DisjointAssumption DEF Calls, Requests
  <2>1. CASE Posted("flush", f, {f})
    BY <2>0, <2>1, PostedKeepsLine
  <2>2. CASE pc = "done" /\ pc' = pc /\ Others({f}) /\ SameSink /\ UNCHANGED <<cmds, inner.queue, inner.state>>
    <3>1. \A w \in Writes : result'[w] = result[w]
      BY <2>0, <2>2 DEF Others
    <3>2. HandedOver'
      BY <3>1, HandedOverStays DEF LineInv
    <3>. QED
      BY <2>2, <3>1, <3>2, DoneStays
  <2>. QED
    BY <1>7, <2>1, <2>2 DEF AsksFlush
<1>8. ASSUME NEW f \in Flushes, AnswersFlush(f) \/ CountsFlush(f) PROVE LineInv'
  <2>1. Taken("flush", f) /\ Others({f}) /\ SameSink /\ UNCHANGED <<inner.queue, inner.state>> /\ f \notin Writes
    BY <1>8, DisjointAssumption DEF AnswersFlush, CountsFlush, SameTask, Others
  <2>. QED
    BY <2>1, TakenKeepsLine
<1>. QED
  BY <1>1, <1>2, <1>3, <1>4, <1>5, <1>6, <1>7, <1>8, LinesKeepsLine, ClearsKeepsLine,
     BeginsWriteKeepsLine, EndsWriteKeepsLine, StopsKeepsLine DEF Moves

-----------------------------------------------------------------------------
(* The total is the size of what the stream holds                           *)

(* The chunk in the sink counts. *)
LEMMA InFlightSizes ==
    ASSUME NEW w \in Writes
    PROVE  /\ inflight.op = "write" /\ inflight.requests = {w} => InFlightSize = Size[w]
           /\ inflight.op # "write" => InFlightSize = 0
<1>1. ASSUME inflight.requests = {w} PROVE (CHOOSE v \in Writes : inflight.requests = {v}) = w
  <2>1. \E v \in Writes : inflight.requests = {v}
    BY <1>1
  <2>2. \A v \in Writes : inflight.requests = {v} => v = w
    BY <1>1
  <2>. QED
    BY <2>1, <2>2
<1>. QED
  BY <1>1 DEF InFlightSize

(* The sink holds what it held. *)
LEMMA InFlightStays == ASSUME SinkInv, SameSink PROVE InFlightSize' = InFlightSize
<1>1. CASE inflight.op = "write"
  <2>1. inflight'.requests = inflight.requests /\ inflight'.op = "write"
    BY <1>1 DEF SameSink
  <2>. QED
    BY <1>1, <2>1 DEF InFlightSize
<1>2. CASE inflight.op # "write"
  BY <1>2 DEF InFlightSize, SameSink
<1>. QED
  BY <1>1, <1>2

(* Whatever the step, nothing is lost from the total, or counted twice. *)
LEMMA MovesKeepSize == ASSUME TypeOK, LineInv, SizeInv, Moves PROVE SizeInv'
<1> USE DEF SizeInv, Accounting
<1>0. inner.queue \in Seq(Writes) /\ inner.total \in Nat /\ Size \in [Writes -> Nat]
      /\ Total(inner.queue, Size) \in Nat
  BY NumbersAssumption, TotalType DEF TypeOK, Inner
<1>1. CASE SameSink /\ SameSizes /\ UNCHANGED <<inner.queue, inner.state>>
  <2>1. InFlightSize' = InFlightSize
    BY <1>1, InFlightStays DEF LineInv
  <2>. QED
    BY <1>1, <2>1 DEF SameSizes
<1>2. CASE inner'.state # "Writable"
  BY <1>2
<1>3. ASSUME NEW w \in Writes, Lines(w) PROVE SizeInv'
  <2>1. InFlightSize' = InFlightSize
    BY <1>3, InFlightStays DEF LineInv, Lines
  <2>2. Total(inner'.queue, Size) = Total(inner.queue, Size) + Size[w] /\ Size[w] \in Nat
    BY <1>0, <1>3, TotalAppend DEF Lines
  <2>3. InFlightSize \in Nat
    <3>1. CASE inflight.op = "write"
      <4>1. PICK v \in Writes : inflight.requests = {v}
        BY <3>1 DEF LineInv, SinkInv
      <4>. QED
        BY <1>0, <3>1, <4>1, InFlightSizes
    <3>2. CASE inflight.op # "write"
      BY <3>2 DEF InFlightSize
    <3>. QED
      BY <3>1, <3>2
  <2>. QED
    BY <1>0, <1>3, <2>1, <2>2, <2>3 DEF Lines
<1>4. CASE BeginsWrite
  <2>1. Head(inner.queue) \in Writes
    BY <1>0, <1>4 DEF BeginsWrite
  <2>2. InFlightSize = 0 /\ InFlightSize' = Size[Head(inner.queue)]
    <3>1. InFlightSize = 0
      BY <1>4 DEF BeginsWrite, InFlightSize
    <3>2. InFlightSize' = Size[CHOOSE v \in Writes : {Head(inner.queue)} = {v}]
      BY <1>4 DEF BeginsWrite, InFlightSize
    <3>3. (CHOOSE v \in Writes : {Head(inner.queue)} = {v}) = Head(inner.queue)
      <4>1. \A v \in Writes : {Head(inner.queue)} = {v} <=> v = Head(inner.queue)
        BY <2>1
      <4>. QED
        BY <2>1, <4>1
    <3>. QED
      BY <3>1, <3>2, <3>3
  <2>3. Total(inner.queue, Size) = Size[Head(inner.queue)] + Total(Tail(inner.queue), Size)
    BY <1>0, <1>4, TotalTail DEF BeginsWrite
  <2>4. Total(Tail(inner.queue), Size) \in Nat /\ Size[Head(inner.queue)] \in Nat
    <3>1. Tail(inner.queue) \in Seq(Writes)
      BY <1>0, <1>4, OffTheFront DEF BeginsWrite
    <3>. QED
      BY <1>0, <2>1, <3>1, TotalType
  <2>. QED
    BY <1>0, <1>4, <2>2, <2>3, <2>4 DEF BeginsWrite, SameSizes
<1>5. ASSUME NEW w \in Writes, EndsWrite(w) PROVE SizeInv'
  <2>1. InFlightSize = Size[w] /\ InFlightSize' = 0 /\ Size[w] \in Nat
    BY <1>0, <1>5, InFlightSizes DEF EndsWrite, InFlightSize
  <2>2. CASE inner'.state # "Writable"
    BY <2>2
  <2>3. CASE inner'.state = "Writable"
    <3>1. /\ UNCHANGED <<inner.queue, inner.state>>
          /\ inner'.total = SaturatingSub(inner.total, Size[w])
          /\ inner'.backpressure <=> inner'.total >= HWM
      BY <1>5, <2>3 DEF EndsWrite
    <3>. QED
      BY <1>0, <2>1, <2>3, <3>1 DEF SaturatingSub
  <2>. QED
    BY <2>2, <2>3
<1>6. CASE Clears
  BY <1>6 DEF Clears
<1>7. CASE Rests \/ Posts \/ Passes \/ Stops
  BY <1>1, <1>7 DEF Rests, Posts, Posted, Passes, Stops, SameTask
<1>8. ASSUME NEW w \in Writes, PostsWrite(w) \/ Turned(w) \/ Refuses(w) PROVE SizeInv'
  BY <1>1, <1>8 DEF PostsWrite, Posted, Turned, Refuses, SameTask
<1>9. ASSUME NEW f \in Flushes, AsksFlush(f) \/ AnswersFlush(f) \/ CountsFlush(f) PROVE SizeInv'
  BY <1>1, <1>9 DEF AsksFlush, Posted, AnswersFlush, CountsFlush, SameTask
<1>. QED
  BY <1>3, <1>4, <1>5, <1>6, <1>7, <1>8, <1>9 DEF Moves

-----------------------------------------------------------------------------
(* A flush waits for what was handed over before it                         *)

(* What is settled is not taken back. *)
LEMMA ResultsForward ==
    ASSUME TypeOK, LineInv, Moves, NEW w \in Writes
    PROVE  /\ result[w] # "unsent" => result'[w] # "unsent"
           /\ result'[w] = "pending" => result[w] \in {"pending", "unsent"}
<1>0. w \notin Flushes
  BY DisjointAssumption
<1>a. ASSUME NEW S, Others(S), w \notin S PROVE result'[w] = result[w]
  BY <1>a DEF Others
<1>1. CASE Rests \/ Posts \/ Passes \/ BeginsWrite
  BY <1>1, <1>a DEF Rests, Posts, Posted, Passes, BeginsWrite
<1>2. CASE Clears
  BY <1>2, <1>a DEF Clears, Settled
<1>3. CASE Stops
  BY <1>3 DEF Stops
<1>4. ASSUME NEW v \in Writes, PostsWrite(v) \/ Turned(v) \/ Refuses(v) \/ Lines(v) \/ EndsWrite(v)
      PROVE  /\ result[w] # "unsent" => result'[w] # "unsent"
             /\ result'[w] = "pending" => result[w] \in {"pending", "unsent"}
  <2>1. CASE PostsWrite(v) \/ Turned(v) \/ Refuses(v)
    BY <1>a, <2>1 DEF PostsWrite, Posted, Turned, Refuses, HandsOver, Settled
  <2>2. CASE Lines(v)
    BY <1>a, <2>2 DEF Lines
  <2>3. CASE EndsWrite(v)
    <3>1. Own \notin {"pending", "unsent"}
      BY DEF Own
    <3>. QED
      BY <1>0, <1>a, <2>3, <3>1 DEF EndsWrite, Settled
  <2>. QED
    BY <1>4, <2>1, <2>2, <2>3
<1>5. ASSUME NEW f \in Flushes, AsksFlush(f) \/ AnswersFlush(f) \/ CountsFlush(f)
      PROVE  result'[w] = result[w]
  BY <1>0, <1>5, <1>a DEF AsksFlush, Posted, AnswersFlush, CountsFlush
<1>. QED
  BY <1>1, <1>2, <1>3, <1>4, <1>5 DEF Moves

(* A flush that has what it waited for keeps it. *)
LEMMA PriorStays ==
    ASSUME PriorInv, NEW f \in Flushes, prior'[f] = prior[f], prior[f] \subseteq Writes,
           result'[f] = "unsent" => inner'.flushCompletions[f] = 0,
           result'[f] = "ok" => result[f] = "ok" \/ Outstanding(f)' = {},
           \A w \in Writes : /\ result[w] # "unsent" => result'[w] # "unsent"
                             /\ result'[w] = "pending" => result[w] \in {"pending", "unsent"}
    PROVE  /\ result'[f] = "unsent" => inner'.flushCompletions[f] = 0
           /\ \A w \in prior'[f] : result'[w] # "unsent"
           /\ \A w \in prior'[f], v \in Writes : v < w => v \in prior'[f]
           /\ result'[f] = "ok" => Outstanding(f)' = {}
<1>1. Outstanding(f)' = {w \in prior[f] : result'[w] = "pending"}
  BY DEF Outstanding
<1>2. result[f] = "ok" => Outstanding(f)' = {}
  BY <1>1 DEF PriorInv, Outstanding
<1>. QED
  BY <1>2 DEF PriorInv

(* The flushes in the channel, when nothing is sent or taken. *)
LEMMA FlushQueueStays ==
    ASSUME FlushQueue, UNCHANGED <<cmds, prior>>, InSink' \cup Lined' \subseteq InSink \cup Lined,
           \A f \in Flushes : result[f] = "pending" /\ inner.flushCompletions[f] = 0
                => result'[f] = "pending" /\ inner'.flushCompletions[f] = 0
    PROVE  FlushQueue'
  BY DEF FlushQueue, QueuedFlush, IsWrite

(* The flushes in the channel, when a command is taken. *)
LEMMA FlushQueueTakes ==
    ASSUME TypeOK, FlushQueue, NEW op, NEW id, Taken(op, id), UNCHANGED prior,
           InSink' \cup Lined' \subseteq InSink \cup Lined \cup (IF op = "write" THEN {id} ELSE {}),
           \A f \in Flushes : result[f] = "pending" /\ inner.flushCompletions[f] = 0 /\ f # id
                => result'[f] = "pending" /\ inner'.flushCompletions[f] = 0
    PROVE  FlushQueue'
<1>1. /\ Len(cmds) \in Nat \ {0} /\ Len(cmds') = Len(cmds) - 1
      /\ 1 \in 1..Len(cmds) /\ cmds[1] = [op |-> op, id |-> id]
      /\ \A k \in 1..Len(cmds') : k + 1 \in 1..Len(cmds) /\ cmds'[k] = cmds[k + 1]
      /\ \A k \in 1..Len(cmds) : k = 1 \/ (k - 1 \in 1..Len(cmds') /\ (k - 1) + 1 = k)
  BY ChannelShrinks
<1> SUFFICES ASSUME NEW p \in 1..Len(cmds')
             PROVE  /\ cmds'[p].op = "flush" <=> cmds'[p].id \in Flushes
                    /\ cmds'[p].op = "flush" => QueuedFlush(p)'
  BY DEF FlushQueue
<1>2. p + 1 \in 1..Len(cmds) /\ cmds'[p] = cmds[p + 1] /\ p \in Nat \ {0}
  BY <1>1
<1>3. cmds'[p].op = "flush" <=> cmds'[p].id \in Flushes
  BY <1>2 DEF FlushQueue
<1>4. ASSUME cmds'[p].op = "flush" PROVE QueuedFlush(p)'
  <2> DEFINE f == cmds'[p].id
  <2>1. f \in Flushes /\ QueuedFlush(p + 1) /\ f = cmds[p + 1].id
    BY <1>2, <1>3, <1>4 DEF FlushQueue
  <2>2. /\ result[f] = "pending" /\ inner.flushCompletions[f] = 0
        /\ InSink \cup Lined \subseteq prior[f]
        /\ \A k \in 1..Len(cmds) : cmds[k].op = "write" => (cmds[k].id \in prior[f] <=> k < p + 1)
        /\ \A k \in 1..Len(cmds) : cmds[k].id = f => k = p + 1
    BY <2>1 DEF QueuedFlush, IsWrite
  <2> HIDE DEF f
  <2>3. f # id /\ (op = "write" => id \in prior[f])
    <3>1. cmds[1].id = id /\ cmds[1].op = op /\ 1 # p + 1 /\ 1 < p + 1
      BY <1>1, <1>2
    <3>. QED
      BY <1>1, <2>2, <3>1
  <2>4. result'[f] = "pending" /\ inner'.flushCompletions[f] = 0 /\ InSink' \cup Lined' \subseteq prior'[f]
    BY <2>1, <2>2, <2>3
  <2>5. ASSUME NEW k \in 1..Len(cmds')
        PROVE  /\ cmds'[k].op = "write" => (cmds'[k].id \in prior'[f] <=> k < p)
               /\ cmds'[k].id = f => k = p
    <3>1. k + 1 \in 1..Len(cmds) /\ cmds'[k] = cmds[k + 1] /\ (k + 1 < p + 1 <=> k < p) /\ (k + 1 = p + 1 <=> k = p)
      BY <1>1, <1>2
    <3>. QED
      BY <2>2, <3>1
  <2>. QED
    BY <2>4, <2>5 DEF QueuedFlush, IsWrite, f
<1>. QED
  BY <1>3, <1>4

(* The flushes in the channel, when a command is sent. *)
LEMMA FlushQueueGrows ==
    ASSUME TypeOK, FlushQueue, NEW op, NEW id \in Calls, cmds' = Append(cmds, [op |-> op, id |-> id]),
           InSink' = InSink, Lined' = Lined, UNCHANGED inner.flushCompletions,
           \A f \in Flushes : f # id => result'[f] = result[f] /\ prior'[f] = prior[f],
           op = "flush" <=> id \in Flushes,
           op = "write" => \A f \in Flushes : id \notin prior[f],
           op = "flush" => /\ result[id] = "unsent" /\ result'[id] = "pending"
                           /\ inner.flushCompletions[id] = 0
                           /\ InSink \cup Lined \cup InChannel \subseteq prior'[id],
           ChannelInv
    PROVE  FlushQueue'
<1>1. /\ Len(cmds) \in Nat /\ Len(cmds') = Len(cmds) + 1
      /\ \A k \in 1..Len(cmds) : cmds'[k] = cmds[k]
      /\ cmds'[Len(cmds) + 1] = [op |-> op, id |-> id]
      /\ \A k \in 1..Len(cmds') : k \in 1..Len(cmds) \/ k = Len(cmds) + 1
      /\ \A k \in 1..Len(cmds) + 1 : k \in 1..Len(cmds')
  BY ChannelGrows
<1> SUFFICES ASSUME NEW p \in 1..Len(cmds')
             PROVE  /\ cmds'[p].op = "flush" <=> cmds'[p].id \in Flushes
                    /\ cmds'[p].op = "flush" => QueuedFlush(p)'
  BY DEF FlushQueue
<1>2. \A k \in 1..Len(cmds) : cmds[k].id \in Flushes => result[cmds[k].id] = "pending"
  BY DEF FlushQueue, QueuedFlush
<1>3. CASE p \in 1..Len(cmds)
  <2>1. /\ cmds'[p] = cmds[p] /\ (cmds[p].op = "flush" <=> cmds[p].id \in Flushes)
        /\ cmds[p].op = "flush" => QueuedFlush(p)
    BY <1>1, <1>3 DEF FlushQueue
  <2>2. ASSUME cmds'[p].op = "flush" PROVE QueuedFlush(p)'
    <3> DEFINE f == cmds'[p].id
    <3>1. f \in Flushes /\ QueuedFlush(p) /\ f = cmds[p].id
      BY <2>1, <2>2
    <3>2. /\ result[f] = "pending" /\ inner.flushCompletions[f] = 0
          /\ InSink \cup Lined \subseteq prior[f]
          /\ \A k \in 1..Len(cmds) : cmds[k].op = "write" => (cmds[k].id \in prior[f] <=> k < p)
          /\ \A k \in 1..Len(cmds) : cmds[k].id = f => k = p
      BY <3>1 DEF QueuedFlush, IsWrite
    <3> HIDE DEF f
    <3>3. f # id
      BY <3>1, <3>2
    <3>4. /\ result'[f] = "pending" /\ inner'.flushCompletions[f] = 0
          /\ InSink' \cup Lined' \subseteq prior'[f] /\ prior'[f] = prior[f]
      BY <3>1, <3>2, <3>3
    <3>5. ASSUME NEW k \in 1..Len(cmds')
          PROVE  /\ cmds'[k].op = "write" => (cmds'[k].id \in prior'[f] <=> k < p)
                 /\ cmds'[k].id = f => k = p
      <4>1. CASE k \in 1..Len(cmds)
        BY <1>1, <3>2, <3>4, <4>1
      <4>2. CASE k = Len(cmds) + 1
        <5>1. cmds'[k].id = id /\ cmds'[k].op = op /\ ~(k < p)
          BY <1>1, <1>3, <4>2
        <5>. QED
          BY <3>1, <3>3, <3>4, <5>1
      <4>. QED
        BY <1>1, <4>1, <4>2
    <3>. QED
      BY <3>4, <3>5 DEF QueuedFlush, IsWrite, f
  <2>. QED
    BY <2>1, <2>2
<1>4. CASE p = Len(cmds) + 1
  <2>1. cmds'[p].op = op /\ cmds'[p].id = id
    BY <1>1, <1>4
  <2>2. ASSUME op = "flush" PROVE QueuedFlush(p)'
    <3>1. \A k \in 1..Len(cmds) : cmds[k].op = "write" => cmds[k].id \in prior'[id]
      BY <2>2 DEF ChannelInv, InChannel, IsWrite
    <3>2. \A k \in 1..Len(cmds) : cmds[k].id # id
      BY <1>2, <2>2
    <3>3. ASSUME NEW k \in 1..Len(cmds')
          PROVE  /\ cmds'[k].op = "write" => (cmds'[k].id \in prior'[id] <=> k < p)
                 /\ cmds'[k].id = id => k = p
      <4>1. CASE k \in 1..Len(cmds)
        <5>1. cmds'[k] = cmds[k] /\ k < p
          BY <1>1, <1>4, <4>1
        <5>. QED
          BY <3>1, <3>2, <4>1, <5>1
      <4>2. CASE k = p
        BY <2>1, <2>2, <4>2
      <4>. QED
        BY <1>1, <1>4, <4>1, <4>2
    <3>. QED
      BY <2>1, <2>2, <3>3 DEF QueuedFlush, IsWrite
  <2>. QED
    BY <2>1, <2>2
<1>. QED
  BY <1>1, <1>3, <1>4

(* A flush that is counted, when none of its writes is settled. *)
LEMMA CountedStays ==
    ASSUME NEW f \in Flushes, CountedFlush(f), result'[f] = result[f], prior'[f] = prior[f],
           inner'.flushCompletions[f] = inner.flushCompletions[f],
           prior[f] \cap InChannel' = {},
           inner'.state = "Writable" =>
               /\ inner.state = "Writable"
               /\ \A w \in prior[f] : result'[w] = "pending" <=> result[w] = "pending"
    PROVE  CountedFlush(f)'
<1>1. ASSUME inner'.state = "Writable" PROVE Outstanding(f)' = Outstanding(f)
  BY <1>1 DEF Outstanding
<1>. QED
  BY <1>1 DEF CountedFlush

(* The chunks unfinished, counted. *)
LEMMA UnfinishedCount ==
    ASSUME TypeOK, LineInv, pc # "done"
    PROVE  IsFiniteSet(InSink \cup Lined) /\ Cardinality(InSink \cup Lined) = UnfinishedWrites
<1> DEFINE q == inner.queue
           n == Len(q)
<1>1. q \in Seq(Writes) /\ n \in Nat /\ q \in [1..n -> Writes]
  BY DEF TypeOK, Inner
<1>2. Lined = {q[k] : k \in 1..n}
  BY DEF Lined, Elements
<1>3. \A j, k \in 1..n : j < k => q[j] < q[k]
  BY DEF LineInv, InOrder, LineOrder
<1> HIDE DEF q, n
<1>4. \A j, k \in 1..n : q[j] = q[k] => j = k
  BY <1>1, <1>3, Ordered
<1>5. q \in Bijection(1..n, Lined)
  BY <1>1, <1>2, <1>4 DEF Bijection, Injection, Surjection, IsInjective
<1>6. IsFiniteSet(1..n) /\ Cardinality(1..n) = n
  BY <1>1, FS_Interval
<1>7. IsFiniteSet(Lined) /\ Cardinality(Lined) = n
  BY <1>5, <1>6, FS_Bijection DEF ExistsBijection
<1>8. CASE inflight.op # "write"
  <2>1. InSink \cup Lined = Lined /\ UnfinishedWrites = n
    BY <1>1, <1>8 DEF InSink, UnfinishedWrites, n, q
  <2>. QED
    BY <1>7, <2>1
<1>9. CASE inflight.op = "write"
  <2>1. PICK w \in Writes : inflight.requests = {w}
    BY <1>9 DEF LineInv, SinkInv
  <2>2. InSink = {w} /\ w \notin Lined
    BY <1>9, <2>1, Ordered, LinedType DEF InSink, LineInv, InOrder
  <2>3. UnfinishedWrites = n + 1
    BY <1>9 DEF UnfinishedWrites, n, q
  <2>4. InSink \cup Lined = Lined \cup {w}
    BY <2>2
  <2>. QED
    BY <1>7, <2>2, <2>3, <2>4, FS_AddElement
<1>. QED
  BY <1>8, <1>9

(* What a flush that has left the channel still waits for. *)
LEMMA OutstandingHeld ==
    ASSUME TypeOK, LineInv, pc # "done", NEW f \in Flushes, prior[f] \cap InChannel = {}
    PROVE  Outstanding(f) = prior[f] \cap (InSink \cup Lined) /\ IsFiniteSet(Outstanding(f))
<1>1. prior[f] \subseteq Writes /\ InSink \cup Lined \subseteq Writes
  BY LinedType DEF TypeOK, LineInv, SinkInv, InSink
<1>2. Outstanding(f) = prior[f] \cap (InSink \cup Lined)
  BY <1>1 DEF Outstanding, LineInv, InPlace
<1>3. IsFiniteSet(InSink \cup Lined)
  BY UnfinishedCount
<1>4. Outstanding(f) \in SUBSET (InSink \cup Lined)
  BY <1>2
<1>. QED
  BY <1>2, <1>3, <1>4, FS_Subset

(* A flush that waits for anything waits for the write in the sink. *)
LEMMA WaitsForSink ==
    ASSUME TypeOK, LineInv, FlushInv, pc # "done", NEW f \in Flushes, prior[f] \cap InChannel = {},
           NEW w \in Writes, InSink = {w}, Outstanding(f) # {}
    PROVE  w \in Outstanding(f)
<1>1. PICK v \in Outstanding(f) : TRUE
  OBVIOUS
<1>2. v \in prior[f] /\ v \in {w} \cup Lined /\ result[w] = "pending"
  BY <1>1, OutstandingHeld DEF LineInv, InPlace
<1>3. w \in prior[f]
  <2>1. CASE v = w
    BY <1>2, <2>1
  <2>2. CASE v \in Lined
    <3>1. w < v
      BY <2>2 DEF LineInv, InOrder
    <3>. QED
      BY <1>2, <3>1 DEF FlushInv, PriorInv
  <2>. QED
    BY <1>2, <2>1, <2>2
<1>. QED
  BY <1>2, <1>3 DEF Outstanding

(* The end of a write counts for the flushes that wait for it, and only for them. *)
LEMMA EndsWriteKeepsFlush ==
    ASSUME TypeOK, TypeOK', LineInv, LineInv', FlushInv, Moves, NEW w \in Writes, EndsWrite(w)
    PROVE  FlushInv'
<1>0. /\ pc # "done" /\ pc' # "done" /\ UNCHANGED <<cmds, prior>> /\ InSink = {w} /\ InSink' = {}
      /\ \A f \in Flushes : inner.flushCompletions[f] \in Nat /\ prior[f] \subseteq Writes
  BY DEF EndsWrite, Lives, InSink, TypeOK, Inner
<1>1. Lined' \subseteq Lined /\ InChannel' = InChannel
  BY <1>0 DEF EndsWrite, Lined, Elements, InChannel, IsWrite
<1>2. \A v \in Writes : /\ result[v] # "unsent" => result'[v] # "unsent"
                        /\ result'[v] = "pending" => result[v] \in {"pending", "unsent"}
  BY ResultsForward
<1>3. CountsDown /\ result'[w] # "pending"
  BY DEF EndsWrite, Own
<1>4. FlushQueue'
  <2>1. \A f \in Flushes : result[f] = "pending" /\ inner.flushCompletions[f] = 0
            => result'[f] = "pending" /\ inner'.flushCompletions[f] = 0
    BY <1>3 DEF CountsDown
  <2>. QED
    BY <1>0, <1>1, <2>1, FlushQueueStays DEF FlushInv
<1>5. ASSUME NEW f \in Flushes, inner.flushCompletions[f] = 1 PROVE Outstanding(f)' = {}
  <2>1. CountedFlush(f)
    BY <1>0, <1>5 DEF FlushInv, FlushCounts
  <2>2. Outstanding(f)' \subseteq Outstanding(f) \ {w}
    BY <1>0, <1>2, <1>3 DEF Outstanding, FlushInv, PriorInv
  <2>3. CASE inner.state = "Writable"
    <3>1. IsFiniteSet(Outstanding(f)) /\ Cardinality(Outstanding(f)) = 1
      BY <1>0, <1>5, <2>1, <2>3, OutstandingHeld DEF CountedFlush
    <3>2. w \in Outstanding(f)
      BY <1>0, <2>1, <3>1, WaitsForSink, FS_EmptySet DEF CountedFlush
    <3>3. \E x : Outstanding(f) = {x}
      BY <3>1, FS_Singleton
    <3>. QED
      BY <2>2, <3>2, <3>3
  <2>4. CASE inner.state # "Writable"
    <3>1. Lined = {}
      BY <2>4 DEF LineInv, SinkInv, Lined, Elements
    <3>. QED
      BY <1>0, <2>1, <2>2, <3>1, OutstandingHeld DEF CountedFlush
  <2>. QED
    BY <2>3, <2>4
<1>6. FlushCounts'
  <2> SUFFICES ASSUME NEW f \in Flushes, inner'.flushCompletions[f] > 0 PROVE CountedFlush(f)'
    BY DEF FlushCounts
  <2>1. /\ inner'.flushCompletions[f] = inner.flushCompletions[f] - 1
        /\ inner.flushCompletions[f] > 1 /\ result'[f] = result[f]
    BY <1>3 DEF CountsDown
  <2>2. CountedFlush(f)
    BY <1>0, <2>1 DEF FlushInv, FlushCounts
  <2>3. ASSUME inner'.state = "Writable" PROVE inner'.flushCompletions[f] = Cardinality(Outstanding(f)')
    <3>1. UNCHANGED <<inner.queue, inner.state>> /\ Others({w} \cup Flushes)
      BY <2>3 DEF EndsWrite
    <3>2. IsFiniteSet(Outstanding(f)) /\ Cardinality(Outstanding(f)) = inner.flushCompletions[f]
      BY <1>0, <2>2, <2>3, <3>1, OutstandingHeld DEF CountedFlush
    <3>3. w \in Outstanding(f)
      BY <1>0, <2>1, <2>2, <3>2, WaitsForSink, FS_EmptySet DEF CountedFlush
    <3>4. Outstanding(f)' = Outstanding(f) \ {w}
      BY <1>0, <1>3, <3>1, DisjointAssumption DEF Outstanding, Others
    <3>. QED
      BY <2>1, <3>2, <3>3, <3>4, FS_RemoveElement
  <2>. QED
    BY <1>0, <1>1, <2>1, <2>2, <2>3 DEF CountedFlush
<1>7. PriorInv'
  <2> SUFFICES ASSUME NEW f \in Flushes
               PROVE  /\ result'[f] = "unsent" => inner'.flushCompletions[f] = 0
                      /\ \A v \in prior'[f] : result'[v] # "unsent"
                      /\ \A v \in prior'[f], u \in Writes : u < v => u \in prior'[f]
                      /\ result'[f] = "ok" => Outstanding(f)' = {}
    BY DEF PriorInv
  <2>1. result'[f] = "unsent" => inner'.flushCompletions[f] = 0
    <3>1. inner.flushCompletions[f] > 1 => result[f] = "pending"
      BY <1>0 DEF FlushInv, FlushCounts, CountedFlush
    <3>. QED
      BY <1>3, <3>1 DEF CountsDown
  <2>2. result'[f] = "ok" => result[f] = "ok" \/ Outstanding(f)' = {}
    BY <1>3, <1>5 DEF CountsDown
  <2>. QED
    BY <1>0, <1>2, <2>1, <2>2, PriorStays DEF FlushInv
<1>. QED
  BY <1>4, <1>6, <1>7 DEF FlushInv

(* A step that settles no flush, and takes none. *)
LEMMA FlushStays ==
    ASSUME TypeOK, LineInv, FlushInv, Moves, UNCHANGED <<prior, inner.flushCompletions>>,
           \A f \in Flushes : result'[f] = result[f],
           pc = "done" => pc' = "done",
           pc' # "done" => FlushQueue' /\ InChannel' \subseteq InChannel,
           inner'.state = "Writable" =>
               /\ inner.state = "Writable"
               /\ \A w \in Writes \ InChannel : result[w] # "unsent" => result'[w] = result[w]
    PROVE  FlushInv'
<1>1. \A v \in Writes : /\ result[v] # "unsent" => result'[v] # "unsent"
                        /\ result'[v] = "pending" => result[v] \in {"pending", "unsent"}
  BY ResultsForward
<1>2. \A f \in Flushes : inner.flushCompletions[f] \in Nat /\ prior[f] \subseteq Writes
  BY DEF TypeOK, Inner
<1>3. PriorInv'
  <2> SUFFICES ASSUME NEW f \in Flushes
               PROVE  /\ result'[f] = "unsent" => inner'.flushCompletions[f] = 0
                      /\ \A v \in prior'[f] : result'[v] # "unsent"
                      /\ \A v \in prior'[f], u \in Writes : u < v => u \in prior'[f]
                      /\ result'[f] = "ok" => Outstanding(f)' = {}
    BY DEF PriorInv
  <2>1. result'[f] = "unsent" => inner'.flushCompletions[f] = 0
    BY DEF FlushInv, PriorInv
  <2>. QED
    BY <1>1, <1>2, <2>1, PriorStays DEF FlushInv
<1>4. ASSUME pc' # "done", NEW f \in Flushes, inner'.flushCompletions[f] > 0 PROVE CountedFlush(f)'
  <2>1. CountedFlush(f) /\ prior[f] \cap InChannel = {}
    BY <1>4 DEF FlushInv, FlushCounts, CountedFlush
  <2>2. \A w \in prior[f] : w \in Writes \ InChannel /\ result[w] # "unsent"
    BY <1>2, <2>1 DEF FlushInv, PriorInv
  <2>. QED
    BY <1>4, <2>1, <2>2, CountedStays
<1>. QED
  BY <1>3, <1>4 DEF FlushInv, FlushCounts

(* Nor does one that leaves the channel alone. *)
LEMMA ChannelAlone ==
    ASSUME FlushInv, UNCHANGED <<cmds, prior, inner.flushCompletions>>,
           \A f \in Flushes : result'[f] = result[f],
           InSink' \cup Lined' \subseteq InSink \cup Lined, pc # "done"
    PROVE  FlushQueue' /\ InChannel' \subseteq InChannel
<1>1. InChannel' = InChannel
  BY DEF InChannel, IsWrite
<1>. QED
  BY <1>1, FlushQueueStays DEF FlushInv

(* Nor one that takes another command. *)
LEMMA ChannelTaken ==
    ASSUME TypeOK, FlushInv, NEW op, NEW id, Taken(op, id), UNCHANGED prior,
           \A f \in Flushes : f # id => result'[f] = result[f] /\ inner'.flushCompletions[f] = inner.flushCompletions[f],
           InSink' \cup Lined' \subseteq InSink \cup Lined \cup (IF op = "write" THEN {id} ELSE {})
    PROVE  FlushQueue' /\ InChannel' \subseteq InChannel
<1>1. InChannel' \subseteq InChannel
  <2>1. \A k \in 1..Len(cmds') : k + 1 \in 1..Len(cmds) /\ cmds'[k] = cmds[k + 1]
    BY ChannelShrinks
  <2>. QED
    BY <2>1 DEF InChannel, IsWrite
<1>. QED
  BY <1>1, FlushQueueTakes DEF FlushInv, Taken

(* The flush at the head of the channel. *)
LEMMA TakesFlush ==
    ASSUME TypeOK, LineInv, FlushInv, NEW f \in Flushes, Taken("flush", f), UNCHANGED prior,
           Others({f}), SameSink, UNCHANGED inner.queue,
           \A g \in Flushes : g # f => inner'.flushCompletions[g] = inner.flushCompletions[g]
    PROVE  /\ FlushQueue' /\ InChannel' = InChannel
           /\ InSink' = InSink /\ Lined' = Lined
           /\ result[f] = "pending" /\ inner.flushCompletions[f] = 0
           /\ prior[f] \cap InChannel = {} /\ InSink \cup Lined \subseteq prior[f]
<1>0. pc # "done" /\ f \notin Writes
  BY DisjointAssumption DEF Taken
<1>1. InSink' = InSink /\ Lined' = Lined
  BY DEF InSink, SameSink, Lined, Elements
<1>2. FlushQueue'
  BY <1>1, ChannelTaken DEF Others
<1>3. InChannel' = InChannel
  BY <1>0, ChannelTake DEF LineInv, InOrder, Others, InChannel
<1>4. 1 \in 1..Len(cmds) /\ cmds[1].op = "flush" /\ cmds[1].id = f /\ Len(cmds) \in Nat
  <2>1. 1 \in 1..Len(cmds) /\ cmds[1] = [op |-> "flush", id |-> f] /\ Len(cmds) \in Nat \ {0}
    BY ChannelShrinks
  <2>. QED
    BY <2>1
<1>5. QueuedFlush(1)
  BY <1>0, <1>4 DEF FlushInv, FlushQueue
<1>6. prior[f] \cap InChannel = {}
  <2>1. \A k \in 1..Len(cmds) : cmds[k].op = "write" => (cmds[k].id \in prior[f] <=> k < 1)
    BY <1>4, <1>5 DEF QueuedFlush, IsWrite
  <2>2. \A k \in 1..Len(cmds) : ~(k < 1)
    BY <1>4
  <2>. QED
    BY <2>1, <2>2 DEF InChannel, IsWrite
<1>. QED
  BY <1>1, <1>2, <1>3, <1>4, <1>5, <1>6 DEF QueuedFlush

(* An answer to a flush. *)
LEMMA AnswersKeepFlush ==
    ASSUME TypeOK, LineInv, FlushInv, Moves, NEW f \in Flushes, AnswersFlush(f) PROVE FlushInv'
<1>0. /\ pc # "done" /\ UNCHANGED <<prior, inner.flushCompletions, inner.state>> /\ Others({f})
      /\ result'[f] = "stored" \/ (result'[f] = "ok" /\ UnfinishedWrites = 0)
      /\ \A g \in Flushes : inner.flushCompletions[g] \in Nat /\ prior[g] \subseteq Writes
  BY DEF AnswersFlush, SameTask, SameFlushes, Taken, TypeOK, Inner
<1>1. /\ FlushQueue' /\ InChannel' = InChannel
      /\ result[f] = "pending" /\ inner.flushCompletions[f] = 0
      /\ prior[f] \cap InChannel = {} /\ InSink \cup Lined \subseteq prior[f]
  BY <1>0, TakesFlush DEF AnswersFlush, SameTask
<1>2. \A v \in Writes : /\ result[v] # "unsent" => result'[v] # "unsent"
                        /\ result'[v] = "pending" => result[v] \in {"pending", "unsent"}
  BY ResultsForward
<1>3. \A q \in (Writes \cup Flushes) \ {f} : result'[q] = result[q]
  BY <1>0 DEF Others
<1>4. result'[f] = "ok" => Outstanding(f)' = {}
  <2> SUFFICES ASSUME result'[f] = "ok" PROVE Outstanding(f)' = {}
    OBVIOUS
  <2>1. UnfinishedWrites = 0
    BY <1>0
  <2>2. InSink \cup Lined = {}
    BY <1>0, <2>1, UnfinishedCount, FS_EmptySet
  <2>3. Outstanding(f) = {}
    BY <1>0, <1>1, <2>2, OutstandingHeld
  <2>4. f \notin Writes
    BY DisjointAssumption
  <2>. QED
    BY <1>0, <1>3, <2>3, <2>4 DEF Outstanding
<1>5. PriorInv'
  <2> SUFFICES ASSUME NEW g \in Flushes
               PROVE  /\ result'[g] = "unsent" => inner'.flushCompletions[g] = 0
                      /\ \A v \in prior'[g] : result'[v] # "unsent"
                      /\ \A v \in prior'[g], u \in Writes : u < v => u \in prior'[g]
                      /\ result'[g] = "ok" => Outstanding(g)' = {}
    BY DEF PriorInv
  <2>1. result'[g] = "unsent" => inner'.flushCompletions[g] = 0
    BY <1>0, <1>1, <1>3 DEF FlushInv, PriorInv
  <2>2. result'[g] = "ok" => result[g] = "ok" \/ Outstanding(g)' = {}
    BY <1>3, <1>4
  <2>. QED
    BY <1>0, <1>2, <2>1, <2>2, PriorStays DEF FlushInv
<1>6. ASSUME NEW g \in Flushes, inner'.flushCompletions[g] > 0 PROVE CountedFlush(g)'
  <2>1. g # f /\ CountedFlush(g)
    BY <1>0, <1>1, <1>6 DEF FlushInv, FlushCounts
  <2>2. \A w \in prior[g] : result'[w] = result[w]
    BY <1>0, <1>3, DisjointAssumption
  <2>. QED
    BY <1>0, <1>1, <1>3, <2>1, <2>2, CountedStays DEF CountedFlush
<1>. QED
  BY <1>1, <1>5, <1>6 DEF FlushInv, FlushCounts

(* A flush that has to wait counts what it waits for. *)
LEMMA CountsKeepFlush ==
    ASSUME TypeOK, LineInv, FlushInv, Moves, NEW f \in Flushes, CountsFlush(f) PROVE FlushInv'
<1>0. /\ pc # "done" /\ UNCHANGED <<prior, inner.state>> /\ Others({}) /\ UnfinishedWrites # 0
      /\ \A g \in Flushes : inner.flushCompletions[g] \in Nat /\ prior[g] \subseteq Writes
  BY DEF CountsFlush, Taken, TypeOK, Inner
<1>a. /\ inner'.flushCompletions[f] = UnfinishedWrites
      /\ \A g \in Flushes : g # f => inner'.flushCompletions[g] = inner.flushCompletions[g]
  BY DEF CountsFlush, TypeOK, Inner
<1>3. \A q \in Writes \cup Flushes : result'[q] = result[q]
  BY <1>0 DEF Others
<1>1. /\ FlushQueue' /\ InChannel' = InChannel /\ InSink' = InSink /\ Lined' = Lined
      /\ result[f] = "pending" /\ inner.flushCompletions[f] = 0
      /\ prior[f] \cap InChannel = {} /\ InSink \cup Lined \subseteq prior[f]
  BY <1>0, <1>a, <1>3, TakesFlush DEF CountsFlush, Others
<1>2. \A v \in Writes : /\ result[v] # "unsent" => result'[v] # "unsent"
                        /\ result'[v] = "pending" => result[v] \in {"pending", "unsent"}
  BY ResultsForward
<1>5. PriorInv'
  <2> SUFFICES ASSUME NEW g \in Flushes
               PROVE  /\ result'[g] = "unsent" => inner'.flushCompletions[g] = 0
                      /\ \A v \in prior'[g] : result'[v] # "unsent"
                      /\ \A v \in prior'[g], u \in Writes : u < v => u \in prior'[g]
                      /\ result'[g] = "ok" => Outstanding(g)' = {}
    BY DEF PriorInv
  <2>1. result'[g] = "unsent" => inner'.flushCompletions[g] = 0
    BY <1>0, <1>a, <1>1, <1>3 DEF FlushInv, PriorInv
  <2>. QED
    BY <1>0, <1>2, <1>3, <2>1, PriorStays DEF FlushInv
<1>6. CountedFlush(f)'
  <2>1. Outstanding(f) = InSink \cup Lined
    BY <1>0, <1>1, OutstandingHeld
  <2>2. Outstanding(f)' = Outstanding(f)
    BY <1>0, <1>3 DEF Outstanding
  <2>3. Cardinality(Outstanding(f)) = UnfinishedWrites
    BY <1>0, <2>1, UnfinishedCount
  <2>. QED
    BY <1>0, <1>a, <1>1, <1>3, <2>2, <2>3 DEF CountedFlush
<1>7. ASSUME NEW g \in Flushes, g # f, inner'.flushCompletions[g] > 0 PROVE CountedFlush(g)'
  <2>1. CountedFlush(g)
    BY <1>0, <1>a, <1>7 DEF FlushInv, FlushCounts
  <2>2. \A w \in prior[g] : result'[w] = result[w]
    BY <1>0, <1>3
  <2>. QED
    BY <1>0, <1>a, <1>1, <1>3, <1>7, <2>1, <2>2, CountedStays DEF CountedFlush
<1>. QED
  BY <1>1, <1>5, <1>6, <1>7 DEF FlushInv, FlushCounts

(* A request for a flush. *)
LEMMA AsksKeepFlush ==
    ASSUME TypeOK, LineInv, FlushInv, Moves, NEW f \in Flushes, AsksFlush(f) PROVE FlushInv'
<1>0. /\ f \in Calls /\ f \notin Writes /\ prior \in [Flushes -> SUBSET Writes] /\ UNCHANGED inner.flushCompletions
      /\ result[f] = "unsent" /\ Others({f}) /\ UNCHANGED <<inner.queue, inner.state>> /\ SameSink /\ pc' = pc
      /\ result'[f] \in {"pending", "dropped"}
      /\ \A g \in Flushes : inner.flushCompletions[g] \in Nat
  BY DisjointAssumption DEF AsksFlush, Posted, TypeOK, Inner, Calls, Requests
<1>a. prior'[f] = {w \in Writes : result[w] # "unsent"} /\ \A g \in Flushes : g # f => prior'[g] = prior[g]
  BY <1>0 DEF AsksFlush
<1>1. \A q \in (Writes \cup Flushes) \ {f} : result'[q] = result[q]
  BY <1>0 DEF Others
<1>2. inner.flushCompletions[f] = 0
  BY <1>0 DEF FlushInv, PriorInv
<1>3. PriorInv'
  <2> SUFFICES ASSUME NEW g \in Flushes
               PROVE  /\ result'[g] = "unsent" => inner'.flushCompletions[g] = 0
                      /\ \A v \in prior'[g] : result'[v] # "unsent"
                      /\ \A v \in prior'[g], u \in Writes : u < v => u \in prior'[g]
                      /\ result'[g] = "ok" => Outstanding(g)' = {}
    BY DEF PriorInv
  <2>1. CASE g = f
    <3>1. \A v \in Writes : result'[v] = result[v]
      BY <1>0, <1>1
    <3>. QED
      BY <1>0, <1>a, <2>1, <3>1 DEF LineInv, HandedOver
  <2>2. CASE g # f
    <3>1. \A v \in Writes : result'[v] = result[v]
      BY <1>0, <1>1
    <3>2. result'[g] = result[g] /\ prior'[g] = prior[g] /\ prior[g] \subseteq Writes
      BY <1>0, <1>1, <1>a, <2>2
    <3>. QED
      BY <1>0, <3>1, <3>2, PriorStays DEF FlushInv, PriorInv
  <2>. QED
    BY <2>1, <2>2
<1>4. CASE pc = "done"
  BY <1>0, <1>3, <1>4 DEF FlushInv
<1>5. CASE pc # "done"
  <2>1. Posted("flush", f, {f}) /\ result'[f] = "pending"
    BY <1>5 DEF AsksFlush
  <2>2. cmds' = Append(cmds, [op |-> "flush", id |-> f])
    BY <2>1 DEF Posted
  <2>3. InSink' = InSink /\ Lined' = Lined
    BY <1>0 DEF InSink, SameSink, Lined, Elements
  <2>4. InSink \cup Lined \cup InChannel \subseteq prior'[f]
    <3>1. InSink \cup Lined \cup InChannel \subseteq Writes
      BY LinedType DEF LineInv, SinkInv, InSink, InChannel
    <3>2. \A w \in InSink \cup Lined \cup InChannel : result[w] = "pending"
      <4>1. \A w \in InSink \cup Lined : result[w] = "pending"
        BY <1>5 DEF LineInv, InPlace
      <4>2. \A w \in InChannel : result[w] = "pending"
        BY <1>5 DEF LineInv, ChannelInv, InChannel, IsWrite
      <4>. QED
        BY <4>1, <4>2
    <3>. QED
      BY <1>a, <3>1, <3>2
  <2>5. FlushQueue'
    BY <1>0, <1>a, <1>1, <1>2, <1>5, <2>1, <2>2, <2>3, <2>4, FlushQueueGrows DEF FlushInv, LineInv
  <2>6. InChannel' = InChannel
    <3>1. InChannel' = InChannel \cup (IF "flush" = "write" THEN {f} ELSE {})
      BY <1>0, <1>5, <2>2, ChannelAppend DEF LineInv, InOrder
    <3>. QED
      BY <3>1
  <2>7. ASSUME NEW g \in Flushes, inner'.flushCompletions[g] > 0 PROVE CountedFlush(g)'
    <3>1. g # f /\ CountedFlush(g)
      BY <1>0, <1>2, <1>5, <2>7 DEF FlushInv, FlushCounts
    <3>2. \A w \in prior[g] : result'[w] = result[w]
      BY <1>0, <1>1
    <3>. QED
      BY <1>0, <1>a, <1>1, <2>6, <3>1, <3>2, CountedStays DEF CountedFlush
  <2>. QED
    BY <1>3, <2>5, <2>7 DEF FlushInv, FlushCounts
<1>. QED
  BY <1>4, <1>5

(* Any other request. *)
LEMMA PostsKeepFlush ==
    ASSUME TypeOK, LineInv, FlushInv, Moves, NEW op, NEW id \in Calls, Posted(op, id, {id}), UNCHANGED prior,
           id \notin Flushes, op # "flush", op = "write" <=> id \in Writes,
           id \in Writes => HandsOver(id) /\ result'[id] = "pending"
    PROVE  FlushInv'
<1>0. /\ pc # "done" /\ pc' = pc /\ cmds' = Append(cmds, [op |-> op, id |-> id]) /\ Others({id})
      /\ UNCHANGED <<inner.state, inner.flushCompletions>>
  BY DEF Posted
<1>1. InSink' = InSink /\ Lined' = Lined
  BY DEF Posted, InSink, SameSink, Lined, Elements
<1>2. \A q \in (Writes \cup Flushes) \ {id} : result'[q] = result[q]
  BY <1>0 DEF Others
<1>3. id \in Writes => \A f \in Flushes : id \notin prior[f]
  BY DEF HandsOver, FlushInv, PriorInv
<1>4. FlushQueue'
  BY <1>0, <1>1, <1>2, <1>3, FlushQueueGrows DEF FlushInv, LineInv
<1>5. InChannel' \subseteq InChannel \cup {id}
  <2>1. /\ \A k \in 1..Len(cmds) : cmds'[k] = cmds[k]
        /\ cmds'[Len(cmds) + 1] = [op |-> op, id |-> id]
        /\ \A k \in 1..Len(cmds') : k \in 1..Len(cmds) \/ k = Len(cmds) + 1
    BY <1>0, ChannelGrows
  <2>. QED
    BY <2>1 DEF InChannel, IsWrite
<1>6. \A v \in Writes : /\ result[v] # "unsent" => result'[v] # "unsent"
                        /\ result'[v] = "pending" => result[v] \in {"pending", "unsent"}
  BY ResultsForward
<1>7. \A f \in Flushes : inner.flushCompletions[f] \in Nat /\ prior[f] \subseteq Writes
  BY DEF TypeOK, Inner
<1>8. PriorInv'
  <2> SUFFICES ASSUME NEW g \in Flushes
               PROVE  /\ result'[g] = "unsent" => inner'.flushCompletions[g] = 0
                      /\ \A v \in prior'[g] : result'[v] # "unsent"
                      /\ \A v \in prior'[g], u \in Writes : u < v => u \in prior'[g]
                      /\ result'[g] = "ok" => Outstanding(g)' = {}
    BY DEF PriorInv
  <2>1. result'[g] = result[g]
    BY <1>2
  <2>2. result'[g] = "unsent" => inner'.flushCompletions[g] = 0
    BY <1>0, <2>1 DEF FlushInv, PriorInv
  <2>. QED
    BY <1>6, <1>7, <2>1, <2>2, PriorStays DEF FlushInv
<1>9. ASSUME NEW g \in Flushes, inner'.flushCompletions[g] > 0 PROVE CountedFlush(g)'
  <2>1. CountedFlush(g) /\ g # id
    BY <1>0, <1>9 DEF FlushInv, FlushCounts
  <2>2. id \notin prior[g]
    BY <1>3, <1>7
  <2>3. \A w \in prior[g] : result'[w] = result[w]
    BY <1>2, <1>7, <2>2
  <2>. QED
    BY <1>0, <1>2, <1>5, <2>1, <2>2, <2>3, CountedStays DEF CountedFlush
<1>. QED
  BY <1>4, <1>8, <1>9 DEF FlushInv, FlushCounts

(* Whatever the step, a flush waits for what came before it. *)
LEMMA MovesKeepFlush == ASSUME TypeOK, TypeOK', LineInv, LineInv', FlushInv, Moves PROVE FlushInv'
<1>a. \A S : Others(S) /\ S \cap Flushes = {} => \A f \in Flushes : result'[f] = result[f]
  BY DEF Others
<1>b. \A w \in Writes : w \notin Flushes
  BY DisjointAssumption
<1>c. ASSUME SameSink, UNCHANGED inner.queue PROVE InSink' = InSink /\ Lined' = Lined
  BY <1>c DEF InSink, SameSink, Lined, Elements
<1>1. CASE Rests
  <2>1. InSink' = InSink /\ Lined' = Lined /\ \A f \in Flushes : result'[f] = result[f]
    BY <1>1, <1>a, <1>c DEF Rests, SameTask
  <2>2. \A w \in Writes : result'[w] = result[w]
    BY <1>1 DEF Rests, Others
  <2>. QED
    BY <1>1, <2>1, <2>2, ChannelAlone, FlushStays DEF Rests, SameTask, SameFlushes, Lives
<1>2. CASE Posts
  <2>1. PICK op \in Silent, id \in Calls \ (Writes \cup Flushes) : Posted(op, id, {}) /\ UNCHANGED prior
    BY <1>2 DEF Posts
  <2>2. Posted(op, id, {id}) /\ op \notin {"write", "flush"}
    BY <2>1 DEF Posted, Others, Silent
  <2>. QED
    BY <2>1, <2>2, PostsKeepFlush
<1>3. ASSUME NEW op, NEW id, Taken(op, id), op # "flush", Others({id}), SameTask
      PROVE  FlushInv'
  <2>1. 1 \in 1..Len(cmds) /\ cmds[1] = [op |-> op, id |-> id] /\ pc # "done" /\ pc' = pc
    BY <1>3, ChannelShrinks DEF Taken
  <2>2. id \notin Flushes /\ (id \in Writes => id \in InChannel)
    BY <1>3, <2>1 DEF FlushInv, FlushQueue, LineInv, ChannelInv, InChannel, IsWrite
  <2>3. \A f \in Flushes : result'[f] = result[f]
    BY <1>3, <1>a, <2>2
  <2>4. FlushQueue' /\ InChannel' \subseteq InChannel
    BY <1>3, <1>c, <2>3, ChannelTaken DEF SameTask, SameFlushes
  <2>5. \A w \in Writes \ InChannel : result'[w] = result[w]
    BY <1>3, <2>2 DEF Others
  <2>. QED
    BY <1>3, <2>1, <2>3, <2>4, <2>5, FlushStays DEF SameTask, SameFlushes
<1>4. CASE Passes
  <2>1. PICK op \in Silent, id \in Calls : Taken(op, id)
    BY <1>4 DEF Passes, SilentlyTaken
  <2>. QED
    BY <1>3, <1>4, <2>1 DEF Passes, Silent, Others
<1>5. CASE Clears
  <2>1. /\ pc # "done" /\ Lined' = {} /\ UNCHANGED <<prior, inner.flushCompletions>>
        /\ inner'.state # "Writable"
    BY <1>5 DEF Clears, Lives, SameFlushes, Lined, Elements
  <2>2. InSink' = InSink
    BY <1>5 DEF Clears, InSink, SameSink
  <2>3. \A f \in Flushes : result'[f] = result[f]
    BY <1>5, <1>a, <1>b, LinedType DEF Clears
  <2>4. FlushQueue' /\ InChannel' \subseteq InChannel
    <3>1. CASE UNCHANGED cmds
      BY <2>1, <2>2, <2>3, <3>1, ChannelAlone
    <3>2. CASE SilentlyTaken
      <4>1. PICK op \in Silent, id \in Calls : Taken(op, id)
        BY <3>2 DEF SilentlyTaken
      <4>. QED
        BY <2>1, <2>2, <2>3, <4>1, ChannelTaken
    <3>. QED
      BY <1>5, <3>1, <3>2 DEF Clears
  <2>. QED
    BY <2>1, <2>3, <2>4, FlushStays
<1>6. CASE BeginsWrite
  <2>1. /\ pc # "done" /\ UNCHANGED <<cmds, prior, inner.flushCompletions>>
        /\ inner.state = "Writable" /\ Others({})
    BY <1>6 DEF BeginsWrite, Lives, SameFlushes
  <2>2. InSink' \cup Lined' \subseteq InSink \cup Lined
    BY <1>6, <2>1, LineTail DEF BeginsWrite, InSink, LineInv, InOrder
  <2>3. (\A f \in Flushes : result'[f] = result[f]) /\ \A w \in Writes : result'[w] = result[w]
    BY <2>1 DEF Others
  <2>. QED
    BY <2>1, <2>2, <2>3, ChannelAlone, FlushStays
<1>7. CASE Stops
  <2>1. /\ pc' = "done" /\ UNCHANGED <<prior, inner.flushCompletions>>
        /\ \A q \in Writes \cup Flushes : result'[q] = IF result[q] = "pending" THEN "dropped" ELSE result[q]
    BY <1>7 DEF Stops, SameTask, SameFlushes
  <2>2. \A v \in Writes : /\ result[v] # "unsent" => result'[v] # "unsent"
                          /\ result'[v] = "pending" => result[v] \in {"pending", "unsent"}
    BY <2>1
  <2>3. \A f \in Flushes : inner.flushCompletions[f] \in Nat /\ prior[f] \subseteq Writes
    BY DEF TypeOK, Inner
  <2>4. PriorInv'
    <3> SUFFICES ASSUME NEW g \in Flushes
                 PROVE  /\ result'[g] = "unsent" => inner'.flushCompletions[g] = 0
                        /\ \A v \in prior'[g] : result'[v] # "unsent"
                        /\ \A v \in prior'[g], u \in Writes : u < v => u \in prior'[g]
                        /\ result'[g] = "ok" => Outstanding(g)' = {}
      BY DEF PriorInv
    <3>1. result'[g] = "unsent" => inner'.flushCompletions[g] = 0
      BY <2>1 DEF FlushInv, PriorInv
    <3>. QED
      BY <2>1, <2>2, <2>3, <3>1, PriorStays DEF FlushInv
  <2>. QED
    BY <2>1, <2>4 DEF FlushInv
<1>8. ASSUME NEW w \in Writes, PostsWrite(w) PROVE FlushInv'
  <2>1. w \in Calls
    BY DEF Calls, Requests
  <2>. QED
    BY <1>8, <1>b, <2>1, PostsKeepFlush DEF PostsWrite
<1>9. ASSUME NEW w \in Writes, Turned(w) PROVE FlushInv'
  <2>1. InSink' = InSink /\ Lined' = Lined /\ \A f \in Flushes : result'[f] = result[f]
    BY <1>9, <1>a, <1>b, <1>c DEF Turned, SameTask
  <2>2. \A v \in Writes : result[v] # "unsent" => result'[v] = result[v]
    BY <1>9 DEF Turned, Others, HandsOver
  <2>. QED
    BY <1>9, <2>1, <2>2, ChannelAlone, FlushStays DEF Turned, SameTask, SameFlushes
<1>10. ASSUME NEW w \in Writes, Refuses(w) PROVE FlushInv'
  BY <1>3, <1>10 DEF Refuses
<1>11. ASSUME NEW w \in Writes, Lines(w) PROVE FlushInv'
  <2>1. /\ pc # "done" /\ UNCHANGED <<prior, inner.flushCompletions>> /\ inner.state = "Writable"
        /\ Others({}) /\ Taken("write", w)
    BY <1>11 DEF Lines, SameFlushes, Taken
  <2>2. InSink' = InSink /\ Lined' \subseteq Lined \cup {w}
    <3>1. w \in InChannel
      BY <2>1, ChannelTake DEF LineInv, InOrder, Others, InChannel
    <3>2. \A v \in Lined : v < w
      BY <2>1, <3>1 DEF LineInv, InOrder
    <3>3. Lined' = Lined \cup {w}
      BY <1>11, <2>1, <3>2, LineAppend DEF Lines, LineInv, InOrder
    <3>. QED
      BY <1>11, <3>3 DEF Lines, SameSink, InSink
  <2>3. (\A f \in Flushes : result'[f] = result[f]) /\ \A v \in Writes : result'[v] = result[v]
    BY <2>1 DEF Others
  <2>4. FlushQueue' /\ InChannel' \subseteq InChannel
    BY <2>1, <2>2, <2>3, ChannelTaken
  <2>. QED
    BY <2>1, <2>3, <2>4, FlushStays
<1>. QED
  BY <1>1, <1>2, <1>4, <1>5, <1>6, <1>7, <1>8, <1>9, <1>10, <1>11, EndsWriteKeepsFlush,
     AsksKeepFlush, AnswersKeepFlush, CountsKeepFlush DEF Moves

-----------------------------------------------------------------------------
(* The theorems                                                             *)

(* Nothing has happened yet. *)
LEMMA InitLine == ASSUME Init PROVE LineInv /\ SizeInv /\ FlushInv
<1>1. /\ result = [q \in Calls |-> "unsent"] /\ prior = [f \in Flushes |-> {}] /\ cmds = <<>>
      /\ pc = "starting" /\ inflight.op = None /\ inflight.requests = {}
      /\ inner.state = "Writable" /\ inner.queue = <<>> /\ inner.total = 0
      /\ (inner.backpressure <=> HWM = 0) /\ inner.flushCompletions = NoFlushes
  BY DEF Init, NoOperation
<1>2. Writes \subseteq Calls /\ Flushes \subseteq Calls
  BY DEF Calls, Requests
<1>3. LineInv
  BY <1>1, <1>2 DEF LineInv, SinkInv, HandedOver, ChannelInv, InOrder, ChannelOrder, LineOrder, InPlace,
     InSink, Lined, Elements, InChannel, None
<1>4. SizeInv
  <2>1. Total(<<>>, Size) = 0
    <3>1. <<>> \in Seq(Writes)
      OBVIOUS
    <3>. QED
      BY <3>1, NumbersAssumption, TotalType
  <2>. QED
    BY <1>1, <2>1, NumbersAssumption DEF SizeInv, Accounting, InFlightSize, None
<1>5. FlushInv
  BY <1>1, <1>2 DEF FlushInv, PriorInv, Outstanding, FlushQueue, FlushCounts, NoFlushes
<1>. QED
  BY <1>3, <1>4, <1>5

(* Where the writes are, and what waits for them, throughout. *)
LEMMA LineHolds ==
    Spec => [](TypeOK /\ Ownership /\ LineInv /\ SizeInv /\ FlushInv)
<1>1. TypeOK /\ TypeOK' /\ Ownership /\ LineInv /\ SizeInv /\ FlushInv /\ [Next]_vars
      => LineInv' /\ SizeInv' /\ FlushInv'
  BY StepMoves, MovesKeepLine, MovesKeepSize, MovesKeepFlush
<1>. QED
  BY <1>1, InitLine, TypeCorrect, OwnershipHolds, PTL DEF Spec

\* queue_total_size is what the queue and the sink hold, for chunks of every
\* size, whatever became of the chunks before them.
THEOREM AccountingHolds == Spec => []Accounting
  BY LineHolds, PTL DEF SizeInv

\* A flush that has returned leaves nothing outstanding of what was handed
\* over before it, and one that waits counts exactly what is.
THEOREM FlushBarrierHolds == Spec => []FlushBarrier
<1>1. FlushInv => FlushBarrier
  BY DEF FlushInv, PriorInv, FlushCounts, CountedFlush, FlushBarrier
<1>. QED
  BY <1>1, LineHolds, PTL

(* What a step makes of the write in the sink. *)
LEMMA SinkResults ==
    ASSUME TypeOK, LineInv, Moves, NEW w \in Writes, inflight.op = "write", w \in inflight.requests
    PROVE  result'[w] \in {"pending", Own, "dropped"} /\ (pc' # "done" => result'[w] # "dropped")
<1>0. inflight.requests = {w} /\ InSink = {w} /\ w \notin Flushes
  BY DisjointAssumption DEF LineInv, SinkInv, InSink
<1>1. (pc # "done" => result[w] = "pending") /\ (pc = "done" => result[w] = "dropped")
  BY <1>0 DEF LineInv, InPlace
<1>a. ASSUME NEW S, Others(S), w \notin S PROVE result'[w] = result[w]
  BY <1>a DEF Others
<1>2. CASE Rests \/ Posts \/ Passes
  BY <1>1, <1>2, <1>a DEF Rests, Lives, Posts, Posted, Passes, SilentlyTaken, Taken
<1>3. CASE Clears
  <2>1. pc # "done" /\ w \notin Lined
    BY <1>0, <1>3, Ordered DEF Clears, Lives, LineInv, InOrder
  <2>. QED
    BY <1>1, <1>3, <1>a, <2>1 DEF Clears, Lives
<1>4. CASE BeginsWrite
  BY <1>4 DEF BeginsWrite
<1>5. CASE Stops
  BY <1>1, <1>5 DEF Stops
<1>6. ASSUME NEW v \in Writes, PostsWrite(v) \/ Turned(v)
      PROVE  result'[w] \in {"pending", Own, "dropped"} /\ (pc' # "done" => result'[w] # "dropped")
  <2>1. w # v
    BY <1>1, <1>6 DEF PostsWrite, Turned, HandsOver
  <2>. QED
    BY <1>1, <1>6, <1>a, <2>1 DEF PostsWrite, Posted, Turned
<1>7. ASSUME NEW v \in Writes, Refuses(v) \/ Lines(v)
      PROVE  result'[w] \in {"pending", Own, "dropped"} /\ (pc' # "done" => result'[w] # "dropped")
  <2>1. pc # "done" /\ Taken("write", v) /\ 1 \in 1..Len(cmds) /\ cmds[1] = [op |-> "write", id |-> v]
    BY <1>7, ChannelShrinks DEF Refuses, Lines, Taken
  <2>2. v \in InChannel
    BY <2>1 DEF InChannel, IsWrite
  <2>3. w # v
    BY <1>0, <2>1, <2>2, Ordered DEF LineInv, InOrder
  <2>. QED
    BY <1>1, <1>7, <1>a, <2>1, <2>3 DEF Refuses, Lines
<1>8. ASSUME NEW v \in Writes, EndsWrite(v)
      PROVE  result'[w] \in {"pending", Own, "dropped"} /\ (pc' # "done" => result'[w] # "dropped")
  <2>1. v = w /\ result'[w] = Own /\ Own # "dropped"
    BY <1>0, <1>8 DEF EndsWrite, Own
  <2>. QED
    BY <2>1
<1>9. ASSUME NEW f \in Flushes, AsksFlush(f) \/ AnswersFlush(f) \/ CountsFlush(f)
      PROVE  result'[w] = result[w] /\ pc' = pc
  BY <1>0, <1>9, <1>a DEF AsksFlush, Posted, AnswersFlush, CountsFlush, Taken
<1>. QED
  BY <1>1, <1>2, <1>3, <1>4, <1>5, <1>6, <1>7, <1>8, <1>9 DEF Moves

\* A write that has reached the sink yields the sink's own result.
THEOREM WritesKeepTheirResult == Spec => WriteKeepsOwnResult
<1>1. TypeOK /\ Ownership /\ LineInv /\ [Next]_vars =>
        [\A w \in Writes : inflight.op = "write" /\ w \in inflight.requests =>
            result'[w] \in {"pending", Own, "dropped"} /\ (pc' # "done" => result'[w] # "dropped")]_vars
  BY StepMoves, SinkResults
<1>. QED
  BY <1>1, LineHolds, PTL DEF Spec, WriteKeepsOwnResult

-----------------------------------------------------------------------------
(* The contract of WritableEnd                                             *)

(* What the contract rests on, besides Ownership: a close in flight was      *)
(* asked for, a closed stream has nothing in flight and no sink, and a close *)
(* that finds no sink and nothing in flight comes after an abort.            *)
EndInv ==
    /\ inflight.op = "close" => inner.closeRequested
    /\ inner.state = "Closed" => ~inner.sink /\ inflight.op = None
    /\ pc = "starting" => inner.state = "Writable" /\ ~inner.closeRequested
    /\ inflight.op = "abort" => ended = "abort"
    /\ inner.closeRequested /\ ~inner.sink /\ inflight.op = None /\ pc # "done" => ended = "abort"

-----------------------------------------------------------------------------
(* What a step may do to the fields the contract speaks of                  *)

Running == pc # "done" /\ pc' \notin {"starting", "done"}
Keeps(st, cr) == inner'.state = st /\ inner'.closeRequested = cr
SinkPlace == inner'.sink = inner.sink
History == UNCHANGED <<sunk, ended>>

Skips ==
    /\ Keeps(inner.state, inner.closeRequested) /\ inner'.queue = inner.queue
    /\ inner'.sink = inner.sink \/ (pc = "starting" /\ inner'.sink = TRUE)
    /\ inflight'.op = inflight.op /\ History
    /\ pc' = pc \/ Running

Accepts(w) ==
    /\ Running /\ pc # "starting" /\ Accepting
    /\ Keeps("Writable", FALSE) /\ SinkPlace /\ inner'.queue = Append(inner.queue, w)
    /\ inflight'.op = inflight.op /\ History

AsksClose ==
    /\ Running /\ pc # "starting" /\ Accepting
    /\ Keeps("Writable", TRUE) /\ SinkPlace /\ inner'.queue = inner.queue
    /\ inflight'.op = inflight.op /\ History

Fails ==
    /\ Running /\ inner.state # "Closed"
    /\ \/ /\ Keeps("Errored", inner.closeRequested)
          /\ inflight'.op = inflight.op
       \/ /\ Keeps("Errored", FALSE)
          /\ inflight.op = "write" /\ inflight'.op = None
    /\ SinkPlace /\ History

WriteBegins ==
    /\ Running /\ pc # "starting" /\ inner.state = "Writable" /\ inner.queue # <<>> /\ inflight.op = None
    /\ Keeps("Writable", inner.closeRequested) /\ inner'.sink = FALSE /\ inner'.queue = Tail(inner.queue)
    /\ inflight'.op = "write" /\ sunk' = Append(sunk, Head(inner.queue)) /\ UNCHANGED ended

WriteOver ==
    /\ Running /\ inflight.op = "write" /\ inner.state = "Writable"
    /\ Keeps("Writable", inner.closeRequested) /\ inner'.sink = TRUE /\ inner'.queue = inner.queue
    /\ inflight'.op = None /\ History

BeginsClose ==
    /\ Running /\ inner.closeRequested /\ inner.queue = <<>> /\ inflight.op = None /\ inner.sink
    /\ Keeps(inner.state, TRUE) /\ inner'.sink = FALSE /\ inner'.queue = <<>>
    /\ inflight'.op = "close" /\ ended' = "close" /\ UNCHANGED sunk

EndsClose ==
    /\ Running /\ (inflight.op = "close" \/ (inflight.op = None /\ inner.closeRequested)) /\ ~inner.sink
    /\ inner'.state \in {"Closed", "Errored"} /\ inner'.closeRequested = FALSE /\ SinkPlace
    /\ inflight'.op = None /\ History

BeginsAbort ==
    /\ Running /\ inner.state = "Errored" /\ ended = None
    /\ inflight.op \in {None, "write"}
    /\ Keeps("Errored", inner.closeRequested) /\ inner'.sink = FALSE
    /\ inflight'.op = "abort" /\ ended' = "abort" /\ UNCHANGED sunk

EndsAbort ==
    /\ Running /\ inflight.op = "abort" /\ inner.state = "Errored" /\ ended = "abort"
    /\ Keeps("Errored", inner.closeRequested) /\ SinkPlace
    /\ inflight'.op = None /\ History

Drops == pc # "done" /\ pc' = "done" /\ UNCHANGED <<inner, inflight, sunk, ended>>

Effects ==
    \/ Skips \/ (\E w \in Writes : Accepts(w)) \/ AsksClose \/ Fails
    \/ WriteBegins \/ WriteOver \/ BeginsClose \/ EndsClose \/ BeginsAbort \/ EndsAbort
    \/ Drops

-----------------------------------------------------------------------------
(* The effects keep EndInv and are steps of the contract                    *)

(* An effect keeps what the mapping relies on. *)
LEMMA EffectsKeepEndInv == ASSUME TypeOK, Ownership, EndInv, Effects PROVE EndInv'
<1> USE DEF EndInv, Ownership, WritableHasSink, SinkWhereabouts, Running, Keeps, SinkPlace, History, None
<1>1. CASE Skips
  BY <1>1 DEF Skips
<1>2. ASSUME NEW w \in Writes, Accepts(w) PROVE EndInv'
  BY <1>2 DEF Accepts, Accepting
<1>3. CASE AsksClose
  BY <1>3 DEF AsksClose, Accepting
<1>4. CASE Fails
  BY <1>4 DEF Fails
<1>5. CASE WriteBegins \/ WriteOver
  BY <1>5 DEF WriteBegins, WriteOver
<1>6. CASE BeginsClose \/ EndsClose
  BY <1>6 DEF BeginsClose, EndsClose
<1>7. CASE BeginsAbort \/ EndsAbort
  BY <1>7 DEF BeginsAbort, EndsAbort
<1>8. CASE Drops
  BY <1>8 DEF Drops
<1>. QED
  BY <1>1, <1>2, <1>3, <1>4, <1>5, <1>6, <1>7, <1>8 DEF Effects

(* An effect is a step of the contract, or none. *)
LEMMA EffectsImplement ==
    ASSUME TypeOK, Ownership, EndInv, Effects PROVE [End!Next]_(End!vars)
<1> USE DEF EndState, Running, Keeps, SinkPlace, History, None
<1>0. inner.state \in States /\ inner.closeRequested \in BOOLEAN
  BY DEF TypeOK, Inner
<1>1. ASSUME Skips PROVE UNCHANGED End!vars
  BY <1>1 DEF Skips, End!vars
<1>2. ASSUME NEW w \in Writes, Accepts(w) PROVE End!Accept(w)
  BY <1>2 DEF Accepts, Accepting, End!Accept
<1>3. ASSUME AsksClose PROVE End!AskClose
  BY <1>3 DEF AsksClose, Accepting, End!AskClose
<1>4. ASSUME Fails PROVE End!Fail
  BY <1>0, <1>4 DEF Fails, States, End!Fail, End!None
<1>5. ASSUME WriteBegins PROVE End!BeginWrite
  BY <1>5 DEF WriteBegins, Ownership, WritableHasSink, SinkWhereabouts, End!BeginWrite, End!None
<1>6. ASSUME WriteOver PROVE End!EndWrite
  BY <1>6 DEF WriteOver, End!EndWrite, End!None
<1>7. ASSUME BeginsClose PROVE End!BeginClose
  BY <1>7 DEF BeginsClose, Ownership, SinkWhereabouts, End!BeginClose, End!None
<1>8. ASSUME EndsClose PROVE End!EndClose
  BY <1>8 DEF EndsClose, EndInv, End!EndClose, End!None
<1>9. ASSUME BeginsAbort PROVE End!BeginAbort
  BY <1>9 DEF BeginsAbort, End!BeginAbort, End!None
<1>10. ASSUME EndsAbort PROVE End!EndAbort
  BY <1>10 DEF EndsAbort, End!EndAbort, End!None
<1>11. ASSUME Drops PROVE End!Drop
  BY <1>0, <1>11 DEF Drops, States, End!Drop, End!None
<1>. QED
  BY <1>1, <1>2, <1>3, <1>4, <1>5, <1>6, <1>7, <1>8, <1>9, <1>10, <1>11 DEF Effects, End!Next

-----------------------------------------------------------------------------
(* Every step has one of the effects                                        *)

(* A step that leaves the few fields alone is an effect. *)
LEMMA Untouched ==
    ASSUME UNCHANGED <<inner, sunk, ended>>, inflight'.op = inflight.op, pc' = pc \/ Running
    PROVE  Skips
  BY DEF Skips, Keeps, History

\* The callers, and the sink's futures.
LEMMA CallersEffects ==
    ASSUME TypeOK, HandleStep \/ (\E c \in Waiters : WaiterStep(c)) \/ SinkStep PROVE Effects
<1>1. CASE HandleStep
  <2>1. UNCHANGED <<pc, inner, inflight, sunk, ended>>
    BY <1>1 DEF HandleStep, Write, Enqueue, Flush, Close, Abort, ControllerError, DropHandles, sinkVars
  <2>. QED
    BY <2>1, Untouched DEF Effects
<1>2. ASSUME NEW c \in Waiters, WaiterStep(c) PROVE Effects
  <2>1. UNCHANGED <<pc, inner, inflight, sunk, ended>>
    BY <1>2 DEF WaiterStep, ReadyPoll, ClosedPoll, Register, Recheck, taskVars, sinkVars
  <2>. QED
    BY <2>1, Untouched DEF Effects
<1>3. ASSUME NEW r \in {"ok", "err"}, SinkCompletes(r) PROVE Effects
  <2>1. UNCHANGED <<pc, inner, sunk, ended>> /\ inflight'.op = inflight.op
    BY <1>3 DEF SinkCompletes, TypeOK, InFlight, sinkVars
  <2>. QED
    BY <2>1, Untouched DEF Effects
<1>. QED
  BY <1>1, <1>2, <1>3 DEF SinkStep

\* The start, and the beginning of a poll.
LEMMA BeginningEffects ==
    ASSUME TypeOK, EndInv, StartStep \/ ControllerQuiet \/ ControllerErrors \/ PublishFlags PROVE Effects
<1>0. inner \in Inner
  BY DEF TypeOK
<1>1. CASE StartSucceeds
  <2>1. inner' = [inner EXCEPT !.sink = TRUE] /\ pc = "starting" /\ Running
        /\ UNCHANGED <<inflight, sunk, ended>>
    BY <1>1 DEF StartSucceeds, SinkBack, Running, sinkVars
  <2>. QED
    BY <1>0, <2>1 DEF Inner, Skips, Keeps, History, Effects
<1>2. CASE StartFails
  <2>1. inner' = [inner EXCEPT !.state = "Errored"] /\ pc = "starting" /\ Running
        /\ UNCHANGED <<inflight, sunk, ended>>
    BY <1>2 DEF StartFails, Running, sinkVars
  <2>. QED
    BY <1>0, <2>1 DEF Inner, EndInv, Fails, Keeps, SinkPlace, History, Effects
<1>3. CASE ControllerQuiet \/ PublishFlags
  <2>1. UNCHANGED <<inner, inflight, sunk, ended>> /\ Running
    BY <1>3 DEF ControllerQuiet, PublishFlags, PollBegins, Running, sinkVars
  <2>. QED
    BY <2>1, Untouched DEF Effects
<1>4. CASE ControllerErrors
  <2>1. /\ inner'.state = "Errored" /\ inner'.closeRequested = inner.closeRequested /\ inner'.sink = inner.sink
        /\ inner.state = "Writable" /\ Running /\ UNCHANGED <<inflight, sunk, ended>>
    BY <1>0, <1>4 DEF ControllerErrors, ErrorTakesEffect, PollBegins, Running, Inner, sinkVars
  <2>. QED
    BY <2>1 DEF Fails, Keeps, SinkPlace, History, Effects
<1>. QED
  BY <1>1, <1>2, <1>3, <1>4 DEF StartStep

(* A command's effect on the contract. *)
LEMMA CommandEffects == ASSUME TypeOK, CommandStep PROVE Effects
<1>0. inner \in Inner
  BY DEF TypeOK
<1>a. ASSUME NEW op, NEW id, Takes(op, id)
      PROVE  pc = "drain" /\ pc' = "drain" /\ UNCHANGED <<inflight, sunk, ended>>
  BY <1>a DEF Takes, sinkVars
<1>1. ASSUME NEW w \in Writes, CommandWrite(w) PROVE Effects
  <2> DEFINE i == [inner EXCEPT !.queue = PushBack(@, w), !.total = @ + Size[w]]
  <2>1. PushBack(inner.queue, w) \in Seq(Writes) /\ inner.total + Size[w] \in Nat
    BY <1>0, NumbersAssumption DEF Inner, PushBack
  <2>2. i \in Inner /\ i.state = inner.state /\ i.closeRequested = inner.closeRequested
        /\ i.sink = inner.sink /\ i.queue = Append(inner.queue, w)
    BY <1>0, <2>1 DEF Inner, PushBack
  <2>3. inner' = UpdateBackpressure(i) /\ Takes("write", w) /\ Accepting
    BY <1>1 DEF CommandWrite
  <2> HIDE DEF i
  <2>4. inner'.state = i.state /\ inner'.closeRequested = i.closeRequested /\ inner'.sink = i.sink
        /\ inner'.queue = i.queue
    BY <2>2, <2>3 DEF UpdateBackpressure, Inner
  <2>5. Accepts(w)
    BY <1>0, <1>a, <2>2, <2>3, <2>4 DEF Accepts, Accepting, Running, Keeps, SinkPlace, History, Inner
  <2>. QED
    BY <2>5 DEF Effects
<1>2. ASSUME NEW op, NEW id, CommandRefused(op, id) PROVE Effects
  BY <1>2, <1>a, Untouched DEF CommandRefused, Effects
<1>3. ASSUME NEW c \in Closes, CommandClose(c) PROVE Effects
  <2>1. inner'.state = inner.state /\ inner'.closeRequested = TRUE /\ inner'.sink = inner.sink
        /\ inner'.queue = inner.queue
    BY <1>0, <1>3 DEF CommandClose, Inner
  <2>2. AsksClose
    BY <1>3, <1>a, <2>1 DEF CommandClose, AsksClose, Accepting, Running, Keeps, SinkPlace, History
  <2>. QED
    BY <2>2 DEF Effects
<1>4. ASSUME NEW a \in Aborts, CommandAbort(a) PROVE Effects
  <2>1. inner'.state = "Errored" /\ inner'.closeRequested = inner.closeRequested /\ inner'.sink = inner.sink
    BY <1>0, <1>4 DEF CommandAbort, Inner
  <2>2. Fails
    BY <1>4, <1>a, <2>1 DEF CommandAbort, Fails, Running, Keeps, SinkPlace, History
  <2>. QED
    BY <2>2 DEF Effects
<1>5. ASSUME NEW a \in Aborts, CommandAbortMoot(a) PROVE Effects
  BY <1>5, <1>a, Untouched DEF CommandAbortMoot, Effects
<1>6. ASSUME NEW f \in Flushes, CommandFlush(f) PROVE Effects
  <2>1. inner' = inner \/ inner' = [inner EXCEPT !.flushCompletions[f] = UnfinishedWrites]
    BY <1>6, Zenon DEF CommandFlush
  <2>2. inner'.state = inner.state /\ inner'.closeRequested = inner.closeRequested
        /\ inner'.sink = inner.sink /\ inner'.queue = inner.queue
    BY <1>0, <2>1 DEF Inner
  <2>. QED
    BY <1>6, <1>a, <2>2 DEF CommandFlush, Skips, Keeps, History, Effects
<1>7. ASSUME NEW c, CommandRegisterReady(c) \/ CommandRegisterClosed(c) PROVE Effects
  BY <1>7, <1>a, Untouched DEF CommandRegisterReady, CommandRegisterClosed, Effects
<1>. QED
  BY <1>1, <1>2, <1>3, <1>4, <1>5, <1>6, <1>7 DEF CommandStep

(* The effect of what the task starts. *)
LEMMA DispatchEffects == ASSUME TypeOK, Ownership, EndInv, DispatchStep PROVE Effects
<1>0. inner \in Inner /\ inflight \in InFlight
  BY DEF TypeOK
<1>a. ASSUME Dispatches PROVE pc = "drain" /\ Running
  BY <1>a DEF Dispatches, Running
<1> USE DEF Keeps, SinkPlace, History, Begun, Quiet
<1>1. CASE AbortDuringClose
  <2>1. inner'.state = "Errored" /\ inner'.closeRequested = inner.closeRequested /\ inner'.sink = inner.sink
        /\ inner'.queue = inner.queue /\ inflight'.op = inflight.op
    BY <1>0, <1>1 DEF AbortDuringClose, Inner, InFlight
  <2>2. inner.state # "Closed"
    BY <1>1 DEF AbortDuringClose, EndInv, None
  <2>3. Fails
    BY <1>1, <1>a, <2>1, <2>2 DEF AbortDuringClose, Fails, sinkVars
  <2>. QED
    BY <2>3 DEF Effects
<1>2. CASE StartClose
  <2>1. inner'.state = inner.state /\ inner'.closeRequested = inner.closeRequested /\ inner'.sink = FALSE
        /\ inner'.queue = inner.queue /\ inflight'.op = "close"
    BY <1>0, <1>2 DEF StartClose, Inner
  <2>2. BeginsClose
    BY <1>2, <1>a, <2>1 DEF StartClose, SinkInPlace, BeginsClose
  <2>. QED
    BY <2>2 DEF Effects
<1>3. CASE CloseWithoutSink
  <2>1. inner'.state = "Closed" /\ inner'.closeRequested = FALSE /\ inner'.sink = inner.sink
    BY <1>0, <1>3 DEF CloseWithoutSink, Inner
  <2>2. EndsClose
    BY <1>3, <1>a, <2>1 DEF CloseWithoutSink, SinkInPlace, EndsClose, sinkVars
  <2>. QED
    BY <2>2 DEF Effects
<1>4. CASE StartAbort
  <2>1. inner'.state = inner.state /\ inner'.closeRequested = inner.closeRequested /\ inner'.sink = FALSE
        /\ inflight'.op = "abort"
    BY <1>0, <1>4 DEF StartAbort, Inner
  <2>2. inner.state = "Errored" /\ ended = None
    BY <1>0, <1>4 DEF StartAbort, SinkInPlace, Ownership, AbortLeavesWritable, SinkWhereabouts, EndInv,
       Inner, States
  <2>3. BeginsAbort
    BY <1>4, <1>a, <2>1, <2>2 DEF StartAbort, BeginsAbort
  <2>. QED
    BY <2>3 DEF Effects
<1>5. CASE AbortWithoutSink
  <2>1. inner'.state = inner.state /\ inner'.closeRequested = inner.closeRequested /\ inner'.sink = inner.sink
        /\ inner'.queue = inner.queue
    BY <1>0, <1>5 DEF AbortWithoutSink, Inner
  <2>. QED
    BY <1>5, <1>a, <2>1 DEF AbortWithoutSink, Skips, Effects, sinkVars
<1>6. CASE StartWrite
  <2>1. Tail(inner.queue) \in Seq(Writes)
    BY <1>0, <1>6 DEF StartWrite, Inner
  <2>2. inner'.state = inner.state /\ inner'.closeRequested = inner.closeRequested /\ inner'.sink = FALSE
        /\ inner'.queue = Tail(inner.queue) /\ inflight'.op = "write"
    BY <1>0, <1>6, <2>1 DEF StartWrite, Inner
  <2>3. WriteBegins
    BY <1>6, <1>a, <2>2 DEF StartWrite, WriteBegins
  <2>. QED
    BY <2>3 DEF Effects
<1>7. CASE NothingToStart
  BY <1>7, <1>a, Untouched DEF NothingToStart, Effects, sinkVars
<1>. QED
  BY <1>1, <1>2, <1>3, <1>4, <1>5, <1>6, <1>7 DEF DispatchStep

(* The effect of what the sink returns. *)
LEMMA DriveEffects == ASSUME TypeOK, Ownership, EndInv, DriveStep PROVE Effects
<1>0. inner \in Inner /\ inflight \in InFlight
  BY DEF TypeOK
<1>a. ASSUME NEW op, Finishes(op) PROVE Running /\ inflight.op = op /\ UNCHANGED sunk
  BY <1>a DEF Finishes, Running
<1> USE DEF Keeps, SinkPlace, History
<1>1. CASE OperationPending
  BY <1>1, Untouched DEF OperationPending, Running, Effects, sinkVars
<1>2. ASSUME NEW w \in Writes, FinishWriteThenAbort(w) PROVE Effects
  <2>1. /\ inner'.sink = inner.sink /\ inner'.state = inner.state
        /\ inner'.closeRequested = inner.closeRequested /\ inflight'.op = "abort"
    <3>1. inflight'.op = "abort"
      BY <1>2 DEF FinishWriteThenAbort, Begun
    <3>. QED
      BY <1>2, <3>1, WithoutWriteType, WithoutWriteFields DEF FinishWriteThenAbort, Inner
  <2>2. inflight.op = "write" /\ ended = None /\ inner.sink = FALSE /\ inner.state = "Errored"
    BY <1>0, <1>2, <1>a DEF FinishWriteThenAbort, Ownership, AbortLeavesWritable, SinkWhereabouts, EndInv,
       Inner, States, None
  <2>3. BeginsAbort
    BY <1>2, <1>a, <2>1, <2>2 DEF FinishWriteThenAbort, BeginsAbort
  <2>. QED
    BY <2>3 DEF Effects
<1>3. ASSUME NEW w \in Writes, FinishWrite(w) PROVE Effects
  <2> DEFINE i == SinkBack(WithoutWrite(w))
  <2>1. /\ i \in Inner /\ i.sink = TRUE /\ i.state = inner.state
        /\ i.closeRequested = inner.closeRequested /\ i.queue = inner.queue
    BY WithoutWriteType, WithoutWriteFields DEF SinkBack, Inner
  <2>2. inner' = UpdateBackpressure(i)
    BY <1>3 DEF FinishWrite
  <2> HIDE DEF i
  <2>3. /\ inner'.sink = TRUE /\ inner'.state = inner.state
        /\ inner'.closeRequested = inner.closeRequested /\ inner'.queue = inner.queue
    BY <2>1, <2>2 DEF UpdateBackpressure, Inner
  <2>4. inflight.op = "write" /\ inner.state = "Writable"
    BY <1>0, <1>3, <1>a DEF FinishWrite, EndInv, Inner, States, None
  <2>5. WriteOver
    BY <1>3, <1>a, <2>3, <2>4 DEF FinishWrite, NoOperation, WriteOver
  <2>. QED
    BY <2>5 DEF Effects
<1>4. ASSUME NEW w \in Writes, FinishWriteErrored(w) PROVE Effects
  <2>1. inner'.state = "Errored" /\ inner'.closeRequested = FALSE /\ inner'.sink = inner.sink
    BY <1>4, FinishWriteErroredFields
  <2>2. inflight.op = "write" /\ inner.state # "Closed"
    BY <1>4, <1>a DEF FinishWriteErrored, EndInv, None
  <2>3. Fails
    BY <1>4, <1>a, <2>1, <2>2 DEF FinishWriteErrored, NoOperation, Fails
  <2>. QED
    BY <2>3 DEF Effects
<1>5. CASE FinishClose
  <2>1. /\ inner'.state \in {"Closed", "Errored"} /\ inner'.closeRequested = FALSE
        /\ inner'.sink = inner.sink
    BY <1>0, <1>5 DEF FinishClose, Cleared, Inner
  <2>2. inflight.op = "close" /\ ~inner.sink
    BY <1>5, <1>a DEF FinishClose, Ownership, SinkWhereabouts, None
  <2>3. EndsClose
    BY <1>5, <1>a, <2>1, <2>2 DEF FinishClose, NoOperation, EndsClose
  <2>. QED
    BY <2>3 DEF Effects
<1>6. CASE FinishAbort
  <2>1. /\ inner'.state = inner.state /\ inner'.closeRequested = inner.closeRequested
        /\ inner'.sink = inner.sink
    BY <1>0, <1>6 DEF FinishAbort, Cleared, Inner
  <2>2. inflight.op = "abort" /\ ended = "abort" /\ inner.state = "Errored"
    BY <1>0, <1>6, <1>a DEF FinishAbort, Ownership, SinkWhereabouts, EndInv, Inner, States, None
  <2>3. EndsAbort
    BY <1>6, <1>a, <2>1, <2>2 DEF FinishAbort, NoOperation, EndsAbort
  <2>. QED
    BY <2>3 DEF Effects
<1>. QED
  BY <1>1, <1>2, <1>3, <1>4, <1>5, <1>6 DEF DriveStep

-----------------------------------------------------------------------------
(* The refinement                                                           *)

(* Every step is one of the effects. *)
LEMMA StepEffects == ASSUME TypeOK, Ownership, EndInv, [Next]_vars PROVE Effects
<1>1. CASE UNCHANGED vars
  <2>1. UNCHANGED <<pc, inner, inflight, sunk, ended>>
    BY <1>1 DEF vars, taskVars, sinkVars
  <2>. QED
    BY <2>1, Untouched DEF Effects
<1>2. CASE TaskReturns \/ TaskDropped
  <2>1. pc # "done" /\ pc' = "done" /\ UNCHANGED <<inner, inflight, sunk, ended>>
    BY <1>2 DEF TaskReturns, TaskDropped, Stop, sinkVars
  <2>. QED
    BY <2>1 DEF Drops, Effects
<1>. QED
  BY <1>1, <1>2, CallersEffects, BeginningEffects, CommandEffects, DispatchEffects, DriveEffects
     DEF Next, PollStep

\* A writable stream keeps its contract: whatever its callers, its controller
\* and its sink do, chunks reach the sink one at a time and in order, the sink
\* is closed only behind the last of them, and it is ended at most once.
THEOREM WritableStreamImplementsEnd == Spec => ImplementsEnd
<1>1. Init => EndInv /\ End!Init
  <2> SUFFICES ASSUME Init PROVE EndInv /\ End!Init
    OBVIOUS
  <2>1. /\ inner.state = "Writable" /\ inner.closeRequested = FALSE /\ inner.queue = <<>>
        /\ inner.sink = FALSE /\ inflight.op = None /\ pc = "starting" /\ sunk = <<>> /\ ended = None
    BY DEF Init, NoOperation
  <2>. QED
    BY <2>1 DEF EndInv, EndState, End!Init, End!None, None
<1>2. TypeOK /\ Ownership /\ EndInv /\ [Next]_vars => EndInv' /\ [End!Next]_(End!vars)
  BY StepEffects, EffectsKeepEndInv, EffectsImplement
<1>. QED
  BY <1>1, <1>2, TypeCorrect, OwnershipHolds, PTL DEF Spec, ImplementsEnd, End!Spec
=============================================================================
