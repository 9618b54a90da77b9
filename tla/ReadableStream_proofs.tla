------------------------- MODULE ReadableStream_proofs -------------------------
(***************************************************************************)
(* Theorems about the default readable stream, for every set of calls,     *)
(* every chunk size and every high water mark.                             *)
(***************************************************************************)
EXTENDS ReadableStreamProps, Facts

-----------------------------------------------------------------------------
(* Types                                                                    *)

(* An answer is one of the answers. *)
LEMMA SettleType ==
    ASSUME NEW r \in [Calls -> Outcomes], NEW S, NEW o \in Outcomes
    PROVE  Settle(r, S, o) \in [Calls -> Outcomes]
  BY DEF Settle

(* update_desired_size keeps the flags typed. *)
LEMMA UpdateDesiredSizeType ==
    ASSUME NEW f \in Flags PROVE UpdateDesiredSize(f) \in Flags
<1>1. (IF f.closed \/ f.errored THEN 0 ELSE HWM - f.total) \in Int
  BY NumbersAssumption DEF Flags
<1> QED
  BY <1>1 DEF UpdateDesiredSize, Flags

(* A chunk is delivered once, to a read. *)
LEMMA DeliverType ==
    ASSUME Typed, NEW r \in Reads, NEW c \in Chunks, Deliver(r, c)
    PROVE  /\ result' \in [Calls -> Outcomes]
           /\ delivered' \in Seq([read : Reads, chunk : Chunks])
<1>1. [read |-> r, chunk |-> c] \in [read : Reads, chunk : Chunks]
  OBVIOUS
<1>2. delivered' \in Seq([read : Reads, chunk : Chunks])
  BY <1>1 DEF Deliver, Typed
<1>3. "chunk" \in Outcomes
  BY DEF Outcomes
<1> QED
  BY <1>2, <1>3, SettleType DEF Deliver, Typed

(* Only waiters are woken. *)
LEMMA WakeType ==
    ASSUME Typed, NEW S \in SUBSET Waiters, Wake(S)
    PROVE  woken' \subseteq Waiters /\ wakers' \subseteq Waiters
  BY DEF Wake, Typed

(* A message is one of the messages. *)
LEMMA SendType ==
    ASSUME Typed, NEW op \in {"read", "cancel", "ready", "closed"}, NEW id \in Calls, Send(op, id)
    PROVE  cmds' \in Seq(Commands) /\ scheduled' \in BOOLEAN
<1>1. [op |-> op, id |-> id] \in Commands
  BY DEF Commands
<1> QED
  BY <1>1 DEF Send, Typed

(* The constants the types are made of are told apart. *)
LEMMA Literals ==
    /\ TRUE \in BOOLEAN /\ FALSE \in BOOLEAN /\ 0 \in Int
    /\ <<>> \in Seq(Reads) /\ <<>> \in Seq(Chunks)
  OBVIOUS

\* The atomics once the stream has closed, errored or been cancelled.
LEMMA EndingType ==
    ASSUME NEW f \in Flags
    PROVE  /\ [f EXCEPT !.closed = TRUE, !.desired = 0] \in Flags
           /\ [f EXCEPT !.closed = TRUE, !.total = 0] \in Flags
           /\ [f EXCEPT !.errored = TRUE, !.desired = 0] \in Flags
<1>1. ASSUME NEW b \in BOOLEAN, NEW n \in Int
      PROVE  /\ [f EXCEPT !.closed = b, !.desired = n] \in Flags
             /\ [f EXCEPT !.closed = b, !.total = n] \in Flags
             /\ [f EXCEPT !.errored = b, !.desired = n] \in Flags
  BY DEF Flags
<1> QED
  BY <1>1, Literals

\* The state a close leaves, at once or when the queue has drained.
LEMMA ClosedType ==
    ASSUME NEW i \in Inner
    PROVE  /\ [i EXCEPT !.state = "Closed", !.pendingReads = <<>>] \in Inner
           /\ [i EXCEPT !.state = "Closed", !.closePending = FALSE] \in Inner
<1>1. ASSUME NEW b \in BOOLEAN, NEW reads \in Seq(Reads)
      PROVE  /\ [i EXCEPT !.state = "Closed", !.pendingReads = reads] \in Inner
             /\ [i EXCEPT !.state = "Closed", !.closePending = b] \in Inner
  BY DEF Inner
<1> QED
  BY <1>1, Literals

(* An error keeps the task's state typed. *)
LEMMA ErroredType ==
    ASSUME NEW i \in Inner, NEW e \in StoredErrors PROVE Errored(i, e) \in Inner
  BY DEF Errored, Inner

(* So does an empty queue. *)
LEMMA EmptiedType == ASSUME NEW i \in Inner PROVE Emptied(i) \in Inner
<1>1. ASSUME NEW q \in Seq(Chunks), NEW n \in Int, NEW reads \in Seq(Reads)
      PROVE  [i EXCEPT !.queue = q, !.total = n, !.pendingReads = reads] \in Inner
  BY DEF Inner
<1> QED
  BY <1>1, Literals DEF Emptied

(* So does a read that waits. *)
LEMMA ParkType ==
    ASSUME NEW i \in Inner, NEW r \in Reads PROVE Park(i, r) \in Inner
<1>1. ASSUME NEW b \in BOOLEAN, NEW reads \in Seq(Reads)
      PROVE  [i EXCEPT !.pendingReads = reads, !.needsPull = b] \in Inner
  BY DEF Inner
<1>2. Append(i.pendingReads, r) \in Seq(Reads)
  BY DEF Inner
<1> QED
  BY <1>1, <1>2, Literals DEF Park

(* The controller keeps the types. *)
LEMMA ControllerStepTyped == Typed /\ ControllerStep => Typed'
<1> SUFFICES ASSUME Typed, ControllerStep PROVE Typed'
  OBVIOUS
<1> USE DEF callerVars, waitVars, taskVars, histVars
<1>1. ASSUME NEW p \in Posts, NEW refused \in BOOLEAN, Checks(p, refused), UNCHANGED flags
      PROVE  Typed'
  <2>1. posted' \in [Posts -> {"idle", "checked", "sent", "refused"}]
    BY <1>1 DEF Checks, Typed
  <2> QED
    BY <1>1, <2>1 DEF Checks, Typed
<1>2. ASSUME NEW p \in Posts, NEW op \in {"enqueue", "close", "error"}, Sends(p, op), flags' \in Flags
      PROVE  Typed'
  <2>1. posted' \in [Posts -> {"idle", "checked", "sent", "refused"}]
    BY <1>2 DEF Sends, Typed
  <2>2. [op |-> op, id |-> p] \in Messages
    BY DEF Messages
  <2>3. ctrls' \in Seq(Messages) /\ scheduled' \in BOOLEAN
    BY <1>2, <2>2 DEF Sends, Typed
  <2> QED
    BY <1>2, <2>1, <2>3 DEF Sends, Typed
<1>3. Unusable \in BOOLEAN /\ (flags.closed \/ flags.errored \/ flags.errorRequested) \in BOOLEAN
  BY DEF Unusable
<1>4. /\ [flags EXCEPT !.closeRequested = TRUE] \in Flags
      /\ [flags EXCEPT !.errorRequested = TRUE] \in Flags
      /\ flags \in Flags
  BY DEF Typed, Flags
<1>5. ASSUME NEW c \in Chunks, Enqueue(c) PROVE Typed'
  <2>1. CASE Checks(c, Unusable)
    BY <2>1, <1>1, <1>3 DEF Checks, Posts
  <2>2. CASE Sends(c, "enqueue") /\ UNCHANGED flags
    BY <2>2, <1>2, <1>4 DEF Posts
  <2> QED
    BY <1>5, <2>1, <2>2 DEF Enqueue
<1>6. ASSUME NEW k \in Closings, Close(k) PROVE Typed'
  <2>1. CASE Checks(k, Unusable)
    BY <2>1, <1>1, <1>3 DEF Checks, Posts
  <2>2. CASE Sends(k, "close") /\ flags' = [flags EXCEPT !.closeRequested = TRUE]
    BY <2>2, <1>2, <1>4 DEF Posts
  <2> QED
    BY <1>6, <2>1, <2>2 DEF Close
<1>7. ASSUME NEW e \in Errors, Error(e) PROVE Typed'
  <2>1. CASE Checks(e, flags.closed \/ flags.errored \/ flags.errorRequested)
    BY <2>1, <1>1, <1>3 DEF Checks, Posts
  <2>2. CASE Sends(e, "error") /\ flags' = [flags EXCEPT !.errorRequested = TRUE]
    BY <2>2, <1>2, <1>4 DEF Posts
  <2> QED
    BY <1>7, <2>1, <2>2 DEF Error
<1> QED
  BY <1>5, <1>6, <1>7 DEF ControllerStep

(* The reader keeps the types. *)
LEMMA ReaderStepTyped == Typed /\ ReaderStep => Typed'
<1> SUFFICES ASSUME Typed, ReaderStep PROVE Typed'
  OBVIOUS
<1> USE DEF callerVars, waitVars, taskVars, histVars
<1>1. ASSUME NEW op \in {"read", "cancel"}, NEW id \in Calls, Request(op, id)
      PROVE  Typed'
  <2>1. result' \in [Calls -> Outcomes]
    BY <1>1 DEF Request, Typed, Outcomes
  <2>2. cmds' \in Seq(Commands) /\ scheduled' \in BOOLEAN
    BY <1>1, SendType DEF Request
  <2> QED
    BY <1>1, <2>1, <2>2 DEF Request, Typed
<1>2. ASSUME NEW r \in Reads, Abandon(r) PROVE Typed'
  <2>1. result' \in [Calls -> Outcomes]
    BY <1>2 DEF Abandon, Typed, Outcomes
  <2> QED
    BY <1>2, <2>1 DEF Abandon, Typed
<1> QED
  BY <1>1, <1>2 DEF ReaderStep, Read, Cancel, Calls

(* ready() and closed() keep the types. *)
LEMMA WaiterStepTyped == ASSUME Typed, NEW c \in Waiters, WaiterStep(c) PROVE Typed'
<1> USE DEF callerVars, waitVars, taskVars, histVars
<1>1. ASSUME NEW o \in Outcomes, Return(c, o)
      PROVE  /\ result' \in [Calls -> Outcomes]
             /\ waitPc' \in [Waiters -> {"idle", "register", "recheck", "parked", "done"}]
  BY <1>1 DEF Return, Typed
<1>2. ASSUME NEW next \in {"register", "recheck", "parked"}, Goes(c, next)
      PROVE  /\ result' \in [Calls -> Outcomes]
             /\ waitPc' \in [Waiters -> {"idle", "register", "recheck", "parked", "done"}]
  BY <1>2 DEF Goes, Typed, Outcomes
<1>3. ASSUME ReturnError(c)
      PROVE  /\ result' \in [Calls -> Outcomes]
             /\ waitPc' \in [Waiters -> {"idle", "register", "recheck", "parked", "done"}]
  <2>1. (IF storedError = None THEN "fallback" ELSE "stored") \in Outcomes
    BY DEF Outcomes
  <2> QED
    BY <1>3, <1>1, <2>1 DEF ReturnError
<1>4. "ok" \in Outcomes
  BY DEF Outcomes
<1>5. CASE ReadyPoll(c)
  <2>1. ReturnError(c) \/ Return(c, "ok") \/ Goes(c, "register")
    BY <1>5 DEF ReadyPoll
  <2> QED
    BY <1>5, <2>1, <1>1, <1>2, <1>3, <1>4 DEF ReadyPoll, Typed
<1>6. CASE ClosedPoll(c)
  <2>1. ReturnError(c) \/ Return(c, "ok") \/ Goes(c, "register")
    BY <1>6 DEF ClosedPoll
  <2> QED
    BY <1>6, <2>1, <1>1, <1>2, <1>3, <1>4 DEF ClosedPoll, Typed
<1>7. CASE Register(c)
  <2>1. Goes(c, "recheck") \/ Goes(c, "parked")
    BY <1>7 DEF Register
  <2>2. cmds' \in Seq(Commands) /\ scheduled' \in BOOLEAN
    BY <1>7, SendType DEF Register, Calls
  <2> QED
    BY <1>7, <2>1, <2>2, <1>2 DEF Register, Typed
<1>8. CASE Recheck(c)
  <2>1. ReturnError(c) \/ Return(c, "ok") \/ Goes(c, "parked")
    BY <1>8 DEF Recheck
  <2> QED
    BY <1>8, <2>1, <1>1, <1>2, <1>3, <1>4 DEF Recheck, Typed
<1> QED
  BY <1>5, <1>6, <1>7, <1>8 DEF WaiterStep

(* start() keeps the types. *)
LEMMA StartStepTyped == Typed /\ StartStep => Typed'
<1> SUFFICES ASSUME Typed, StartStep PROVE Typed'
  OBVIOUS
<1> USE DEF callerVars, waitVars, taskVars, histVars
<1>1. CASE StartSucceeds
  <2>1. inner' \in Inner /\ pc' \in Phases
    BY <1>1 DEF StartSucceeds, SourceBack, Typed, Inner, Phases
  <2> QED
    BY <1>1, <2>1 DEF StartSucceeds, Typed
<1>2. CASE StartFails
  <2>1. inner' \in Inner /\ flags' \in Flags /\ pc' \in Phases
    BY <1>2 DEF StartFails, Errored, Typed, Inner, Flags, StoredErrors, Phases
  <2> QED
    BY <1>2, <2>1 DEF StartFails, Typed
<1>3. CASE StoreStartError
  <2>1. flags' \in Flags
    BY <1>3 DEF StoreStartError, Typed, Flags
  <2>2. storedError' \in StoredErrors /\ pc' \in Phases
    BY <1>3 DEF StoreStartError, Typed, Inner, Phases
  <2>3. woken' \subseteq Waiters /\ wakers' \subseteq Waiters
    BY <1>3 DEF StoreStartError, Wake, Typed
  <2> QED
    BY <1>3, <2>1, <2>2, <2>3 DEF StoreStartError, Typed
<1> QED
  BY <1>1, <1>2, <1>3 DEF StartStep

\* What every step over the control channel leaves well typed.
LEMMA ReceivesTyped ==
    ASSUME Typed, NEW op, NEW id, Receives(op, id)
    PROVE  ctrls' \in Seq(Messages) /\ scheduled' \in BOOLEAN
<1>1. ctrls' \in Seq(Messages)
  BY DEF Receives, Typed
<1>2. scheduled' \in BOOLEAN
  BY DEF Receives, InControl
<1> QED
  BY <1>1, <1>2

(* The controller's messages keep the types. *)
LEMMA MessageStepTyped == Typed /\ MessageStep => Typed'
<1> SUFFICES ASSUME Typed, MessageStep PROVE Typed'
  OBVIOUS
<1> USE DEF callerVars, waitVars, taskVars, histVars
<1>0. inner \in Inner /\ flags \in Flags
  BY DEF Typed
<1>1. "control" \in Phases /\ "controlErrs" \in Phases /\ "commands" \in Phases
  BY DEF Phases
<1>2. ASSUME NEW op, NEW id, MessageIgnored(op, id) PROVE Typed'
  BY <1>1, <1>2, ReceivesTyped DEF MessageIgnored, Receives, Typed
<1>3. ASSUME NEW c \in Chunks, EnqueueToRead(c) PROVE Typed'
  <2>1. Head(inner.pendingReads) \in Reads /\ Tail(inner.pendingReads) \in Seq(Reads)
    BY <1>3 DEF EnqueueToRead, Typed, Inner
  <2>2. result' \in [Calls -> Outcomes] /\ delivered' \in Seq([read : Reads, chunk : Chunks])
    BY <1>3, <2>1, DeliverType DEF EnqueueToRead
  <2>3. inner' \in Inner
    BY <1>0, <1>3, <2>1 DEF EnqueueToRead, Inner
  <2> QED
    BY <1>1, <1>3, <2>2, <2>3, ReceivesTyped DEF EnqueueToRead, Receives, Typed
<1>4. ASSUME NEW c \in Chunks, EnqueueToQueue(c) PROVE Typed'
  <2>1. Append(inner.queue, c) \in Seq(Chunks) /\ inner.total + Size[c] \in Int
    BY NumbersAssumption DEF Typed, Inner
  <2>2. inner' \in Inner
    BY <1>0, <1>4, <2>1 DEF EnqueueToQueue, Inner
  <2>3. [flags EXCEPT !.total = inner'.total] \in Flags
    BY <2>2 DEF Typed, Inner, Flags
  <2>4. flags' \in Flags
    BY <1>4, <2>3, UpdateDesiredSizeType DEF EnqueueToQueue
  <2>5. woken' \subseteq Waiters /\ wakers' \subseteq Waiters
    BY <1>4 DEF EnqueueToQueue, Wake, Typed
  <2> QED
    BY <1>1, <1>4, <2>2, <2>4, <2>5, ReceivesTyped DEF EnqueueToQueue, Receives, Typed
<1>5. ASSUME NEW k \in Closings, CloseNow(k) PROVE Typed'
  <2>1. result' \in [Calls -> Outcomes]
    BY <1>5, SettleType DEF CloseNow, Typed, Outcomes
  <2>2. inner' \in Inner
    BY <1>0, <1>5, ClosedType, Zenon DEF CloseNow
  <2>3. flags' \in Flags
    BY <1>0, <1>5, EndingType, Zenon DEF CloseNow
  <2>4. woken' \subseteq Waiters /\ wakers' \subseteq Waiters
    BY <1>5 DEF CloseNow, Wake, Typed
  <2> QED
    BY <1>1, <1>5, <2>1, <2>2, <2>3, <2>4, ReceivesTyped DEF CloseNow, Receives, Typed
<1>6. ASSUME NEW k \in Closings, CloseLater(k) PROVE Typed'
  <2>1. inner' \in Inner
    BY <1>0, <1>6 DEF CloseLater, Inner
  <2>2. flags' \in Flags
    BY <1>0, <1>6 DEF CloseLater, Flags
  <2> QED
    BY <1>1, <1>6, <2>1, <2>2, ReceivesTyped DEF CloseLater, Receives, Typed
<1>7. ASSUME NEW e \in Errors, ErrorArrives(e) PROVE Typed'
  <2>1. inner' \in Inner
    <3>1. [inner EXCEPT !.closePending = FALSE] \in Inner /\ e \in StoredErrors
      BY <1>0 DEF Inner, StoredErrors
    <3> QED
      BY <1>7, <3>1, ErroredType DEF ErrorArrives
  <2>2. flags' \in Flags
    BY <1>0, <1>7, EndingType DEF ErrorArrives
  <2> QED
    BY <1>1, <1>7, <2>1, <2>2, ReceivesTyped DEF ErrorArrives, Receives, Typed
<1>8. CASE StoreControllerError
  <2>1. result' \in [Calls -> Outcomes]
    BY <1>8, SettleType DEF StoreControllerError, Typed, Outcomes
  <2>2. inner' \in Inner
    BY <1>0, <1>8, EmptiedType DEF StoreControllerError
  <2>3. flags' \in Flags
    BY <1>0, <1>8 DEF StoreControllerError, Flags
  <2>4. woken' \subseteq Waiters /\ wakers' \subseteq Waiters
    BY <1>8 DEF StoreControllerError, Wake, Typed
  <2>5. storedError' \in StoredErrors
    BY <1>8 DEF StoreControllerError, Typed, Inner
  <2> QED
    BY <1>1, <1>8, <2>1, <2>2, <2>3, <2>4, <2>5 DEF StoreControllerError, Typed
<1>9. CASE ControlDrained
  BY <1>1, <1>9 DEF ControlDrained, InControl, Typed
<1> QED
  BY <1>2, <1>3, <1>4, <1>5, <1>6, <1>7, <1>8, <1>9 DEF MessageStep

\* What every step over the command channel leaves well typed.
LEMMA TakesTyped ==
    ASSUME Typed, NEW op, NEW id, Takes(op, id)
    PROVE  cmds' \in Seq(Commands)
  BY DEF Takes, Typed

(* Who waits is a read. *)
LEMMA WaitingReadsType == Typed => WaitingReads \subseteq Reads
  BY DEF Typed, Inner, WaitingReads, Elements

(* A read that finds a chunk keeps the types. *)
LEMMA CommandReadChunkTyped ==
    ASSUME Typed, NEW r \in Reads, CommandReadChunk(r) PROVE Typed'
<1> USE DEF callerVars, waitVars, taskVars, histVars
<1> DEFINE total == inner.total - Size[Head(inner.queue)]
           taken == [inner EXCEPT !.queue = Tail(@), !.total = total, !.needsPull = TRUE]
           counted == UpdateDesiredSize([flags EXCEPT !.total = total])
<1>0. inner \in Inner /\ flags \in Flags
  BY DEF Typed
<1>1. Head(inner.queue) \in Chunks /\ Tail(inner.queue) \in Seq(Chunks)
  BY <1>0 DEF CommandReadChunk, Inner
<1>2. result' \in [Calls -> Outcomes] /\ delivered' \in Seq([read : Reads, chunk : Chunks])
  BY <1>1, DeliverType DEF CommandReadChunk
<1>3. total \in Int
  <2>1. inner.total \in Int
    BY <1>0 DEF Inner
  <2>2. Size[Head(inner.queue)] \in Nat
    BY <1>1, NumbersAssumption
  <2> QED
    BY <2>1, <2>2
<1>4. taken \in Inner
  <2>1. ASSUME NEW q \in Seq(Chunks), NEW n \in Int, NEW b \in BOOLEAN
        PROVE  [inner EXCEPT !.queue = q, !.total = n, !.needsPull = b] \in Inner
    BY <1>0 DEF Inner
  <2> QED
    BY <2>1, <1>1, <1>3, Literals
<1>5. counted \in Flags
  <2>1. ASSUME NEW n \in Int PROVE [flags EXCEPT !.total = n] \in Flags
    BY <1>0 DEF Flags
  <2> QED
    BY <2>1, <1>3, UpdateDesiredSizeType
<1> HIDE DEF taken, counted
<1>6. inner' \in {taken, [taken EXCEPT !.state = "Closed", !.closePending = FALSE]}
  BY DEF CommandReadChunk, taken
<1>7. flags' \in {counted, [counted EXCEPT !.closed = TRUE, !.desired = 0]}
  BY DEF CommandReadChunk, counted
<1>8. inner' \in Inner
  BY <1>4, <1>6, ClosedType
<1>9. flags' \in Flags
  BY <1>5, <1>7, EndingType
<1>10. woken' \subseteq Waiters /\ wakers' \subseteq Waiters
  BY DEF CommandReadChunk, Wake, Typed
<1> QED
  BY <1>2, <1>8, <1>9, <1>10, TakesTyped DEF CommandReadChunk, Takes, Typed

(* A cancel keeps the types. *)
LEMMA CommandCancelTyped ==
    ASSUME Typed, NEW x \in Cancels, CommandCancel(x) PROVE Typed'
<1> USE DEF callerVars, waitVars, taskVars, histVars
<1>0. inner \in Inner /\ flags \in Flags
  BY DEF Typed
<1>1. result' \in [Calls -> Outcomes]
  BY SettleType DEF CommandCancel, Typed, Outcomes
<1>2. inner' \in Inner
  <2>1. ASSUME NEW i \in Inner, NEW s \in {"Closed"}, NEW b \in BOOLEAN, NEW d \in BOOLEAN
        PROVE  [i EXCEPT !.state = s, !.closePending = b, !.cancelRequested = d,
                         !.cancelReason = x, !.cancelCompletions = @ \cup {x}, !.source = b] \in Inner
    BY DEF Inner
  <2>2. Emptied(inner) \in Inner
    BY <1>0, EmptiedType
  <2> QED
    BY <2>1, <2>2, Literals DEF CommandCancel
<1>3. flags' \in Flags
  BY <1>0, EndingType DEF CommandCancel
<1>4. woken' \subseteq Waiters /\ wakers' \subseteq Waiters
  BY DEF CommandCancel, Wake, Typed
<1>5. pull' \in [at : Futures, cancelled : BOOLEAN] /\ cancelFuture' \in Futures
  BY DEF CommandCancel, Typed, Futures
<1>6. ended' \in {None} \cup Cancels
  BY DEF CommandCancel, Typed
<1> QED
  BY <1>1, <1>2, <1>3, <1>4, <1>5, <1>6, TakesTyped DEF CommandCancel, Takes, Typed

(* The commands keep the types. *)
LEMMA CommandStepTyped == Typed /\ CommandStep => Typed'
<1> SUFFICES ASSUME Typed, CommandStep PROVE Typed'
  OBVIOUS
<1> USE DEF callerVars, waitVars, taskVars, histVars
<1>0. inner \in Inner /\ flags \in Flags
  BY DEF Typed
<1>1. ASSUME NEW r \in Reads, CommandReadEnded(r) PROVE Typed'
  <2>1. result' \in [Calls -> Outcomes]
    BY <1>1, SettleType DEF CommandReadEnded, Typed, Outcomes
  <2> QED
    BY <1>1, <2>1, TakesTyped DEF CommandReadEnded, Takes, Typed
<1>2. ASSUME NEW r \in Reads, CommandReadParks(r) PROVE Typed'
  <2>1. inner' \in Inner
    BY <1>0, <1>2, ParkType DEF CommandReadParks
  <2> QED
    BY <1>2, <2>1, TakesTyped DEF CommandReadParks, Takes, Typed
<1>3. ASSUME NEW x \in Cancels, CommandCancelMoot(x) PROVE Typed'
  <2>1. (IF inner.state = "Closed" THEN "ok" ELSE "stored") \in Outcomes
    BY DEF Outcomes
  <2>2. result' \in [Calls -> Outcomes]
    BY <1>3, <2>1, SettleType DEF CommandCancelMoot, Typed
  <2> QED
    BY <1>3, <2>2, TakesTyped DEF CommandCancelMoot, Takes, Typed
<1>4. ASSUME NEW c \in ReadyCalls, CommandRegisterReady(c) PROVE Typed'
  <2>1. woken' \subseteq Waiters /\ wakers' \subseteq Waiters
    BY <1>4 DEF CommandRegisterReady, Typed, Waiters
  <2> QED
    BY <1>4, <2>1, TakesTyped DEF CommandRegisterReady, Takes, Typed
<1>5. ASSUME NEW c \in ClosedCalls, CommandRegisterClosed(c) PROVE Typed'
  <2>1. woken' \subseteq Waiters /\ wakers' \subseteq Waiters
    BY <1>5 DEF CommandRegisterClosed, Typed, Waiters
  <2> QED
    BY <1>5, <2>1, TakesTyped DEF CommandRegisterClosed, Takes, Typed
<1> QED
  BY <1>1, <1>2, <1>3, <1>4, <1>5, CommandReadChunkTyped, CommandCancelTyped DEF CommandStep

(* The source's pulls and cancel keep the types. *)
LEMMA SourceStepTyped == Typed /\ SourceStep => Typed'
<1> SUFFICES ASSUME Typed, SourceStep PROVE Typed'
  OBVIOUS
<1> USE DEF callerVars, waitVars, taskVars, histVars
<1>0. /\ inner \in Inner /\ flags \in Flags
      /\ pull \in [at : Futures, cancelled : BOOLEAN] /\ cancelFuture \in Futures
  BY DEF Typed
<1>1. /\ "gate" \in Phases /\ "drive" \in Phases /\ "idle" \in Phases /\ "pullFails" \in Phases
      /\ None \in Futures /\ "running" \in Futures
  BY DEF Phases, Futures
<1>2. NoPull \in [at : Futures, cancelled : BOOLEAN]
  BY <1>1, Literals DEF NoPull
<1>3. CASE CancelReturns
  <2>1. (IF cancelFuture = "ok" THEN "ok" ELSE "failed") \in Outcomes
    BY DEF Outcomes
  <2>2. result' \in [Calls -> Outcomes]
    BY <1>3, <2>1, SettleType DEF CancelReturns, Typed
  <2>3. inner' \in Inner
    <3>1. ASSUME NEW b \in BOOLEAN, NEW done \in SUBSET Cancels
          PROVE  [inner EXCEPT !.cancelRequested = b, !.cancelCompletions = done] \in Inner
      BY <1>0 DEF Inner
    <3>2. {} \in SUBSET Cancels
      OBVIOUS
    <3> QED
      BY <1>3, <3>1, <3>2, Literals DEF CancelReturns
  <2> QED
    BY <1>1, <1>3, <2>2, <2>3 DEF CancelReturns, PollAgain, Typed
<1>4. CASE StartPull
  <2>1. inner' \in Inner
    <3>1. ASSUME NEW b \in BOOLEAN
          PROVE  [inner EXCEPT !.needsPull = b, !.source = b] \in Inner
      BY <1>0 DEF Inner
    <3> QED
      BY <1>4, <3>1, Literals DEF StartPull
  <2>2. served' \subseteq Reads
    BY <1>4, WaitingReadsType DEF StartPull, Typed
  <2>3. pull' \in [at : Futures, cancelled : BOOLEAN]
    BY <1>1, <1>4, Literals DEF StartPull
  <2> QED
    BY <1>1, <1>4, <2>1, <2>2, <2>3 DEF StartPull, Typed
<1>5. CASE PullNotWanted
  <2>1. inner' \in Inner
    BY <1>0, <1>5 DEF PullNotWanted, Inner
  <2> QED
    BY <1>1, <1>5, <2>1 DEF PullNotWanted, Typed
<1>6. CASE PullPending
  BY <1>1, <1>6 DEF PullPending, Typed
<1>7. CASE PullReturns
  <2>1. inner' \in Inner /\ cancelFuture' \in Futures /\ ended' \in {None} \cup Cancels
    <3>1. SourceBack(inner) \in Inner
      BY <1>0 DEF SourceBack, Inner
    <3>2. inner.cancelReason \in {None} \cup Cancels /\ ended \in {None} \cup Cancels
      BY <1>0 DEF Inner, Typed
    <3> QED
      BY <1>0, <1>1, <1>7, <3>1, <3>2 DEF PullReturns
  <2> QED
    BY <1>1, <1>2, <1>7, <2>1 DEF PullReturns, PollAgain, Typed
<1>8. CASE PullFails
  <2>1. inner' \in Inner
    BY <1>0, <1>8, ErroredType DEF PullFails, StoredErrors
  <2>2. flags' \in Flags
    BY <1>0, <1>8 DEF PullFails, Flags
  <2> QED
    BY <1>1, <1>2, <1>8, <2>1, <2>2 DEF PullFails, Typed
<1>9. CASE StorePullError
  <2>1. result' \in [Calls -> Outcomes]
    <3>1. Settle(result, WaitingReads, "stored") \in [Calls -> Outcomes]
      BY SettleType DEF Typed, Outcomes
    <3>2. "ok" \in Outcomes
      BY DEF Outcomes
    <3> QED
      BY <1>9, <3>1, <3>2, SettleType DEF StorePullError
  <2>2. inner' \in Inner
    <3>1. ASSUME NEW reads \in Seq(Reads), NEW b \in BOOLEAN, NEW done \in SUBSET Cancels
          PROVE  [inner EXCEPT !.pendingReads = reads, !.cancelRequested = b,
                               !.cancelCompletions = done] \in Inner
      BY <1>0 DEF Inner
    <3>2. (IF inner.cancelRequested THEN {} ELSE inner.cancelCompletions) \in SUBSET Cancels
      BY <1>0 DEF Inner
    <3> QED
      BY <1>9, <3>1, <3>2, Literals DEF StorePullError
  <2>3. woken' \subseteq Waiters /\ wakers' \subseteq Waiters
    BY <1>9 DEF StorePullError, Wake, Typed
  <2>4. storedError' \in StoredErrors
    BY <1>0, <1>9 DEF StorePullError, Inner
  <2> QED
    BY <1>1, <1>9, <2>1, <2>2, <2>3, <2>4 DEF StorePullError, PollAgain, Typed
<1> QED
  BY <1>3, <1>4, <1>5, <1>6, <1>7, <1>8, <1>9 DEF SourceStep

(* So do the callers. *)
LEMMA EnvironmentStepTyped ==
    ASSUME Typed, TaskDropped \/ (\E r \in {"ok", "err"} : PullEnds(r) \/ CancelEnds(r))
    PROVE  Typed'
<1> USE DEF callerVars, waitVars, taskVars, histVars
<1>1. CASE TaskDropped
  <2>1. result' \in [Calls -> Outcomes]
    BY <1>1, SettleType DEF TaskDropped, Typed, Outcomes
  <2>2. inner' \in Inner
    <3>1. inner \in Inner
      BY DEF Typed
    <3>2. ASSUME NEW q \in Seq(Chunks), NEW reads \in Seq(Reads), NEW done \in SUBSET Cancels,
                 NEW b \in BOOLEAN
          PROVE  [inner EXCEPT !.queue = q, !.pendingReads = reads, !.cancelCompletions = done,
                               !.source = b] \in Inner
      BY <3>1 DEF Inner
    <3>3. {} \in SUBSET Cancels
      OBVIOUS
    <3> QED
      BY <1>1, <3>2, <3>3, Literals DEF TaskDropped
  <2>3. pull' \in [at : Futures, cancelled : BOOLEAN] /\ cancelFuture' \in Futures
    BY <1>1, Literals DEF TaskDropped, NoPull, Futures
  <2>4. cmds' \in Seq(Commands) /\ ctrls' \in Seq(Messages)
    BY <1>1 DEF TaskDropped
  <2>5. pc' \in Phases /\ scheduled' \in BOOLEAN
    BY <1>1, Literals DEF TaskDropped, Phases
  <2> QED
    BY <1>1, <2>1, <2>2, <2>3, <2>4, <2>5 DEF TaskDropped, Typed
<1>2. ASSUME NEW r \in {"ok", "err"}, PullEnds(r) PROVE Typed'
  <2>1. pull' \in [at : Futures, cancelled : BOOLEAN]
    BY <1>2 DEF PullEnds, Typed, Futures
  <2> QED
    BY <1>2, <2>1 DEF PullEnds, Typed
<1>3. ASSUME NEW r \in {"ok", "err"}, CancelEnds(r) PROVE Typed'
  BY <1>3 DEF CancelEnds, Typed, Futures
<1> QED
  BY <1>1, <1>2, <1>3

(* Every step keeps the types. *)
LEMMA StepTyped == Typed /\ [Next]_vars => Typed'
<1> SUFFICES ASSUME Typed, [Next]_vars PROVE Typed'
  OBVIOUS
<1>1. CASE UNCHANGED vars
  BY <1>1 DEF vars, callerVars, waitVars, taskVars, histVars, Typed
<1>2. CASE Next
  BY <1>2, ControllerStepTyped, ReaderStepTyped, WaiterStepTyped, StartStepTyped,
     MessageStepTyped, CommandStepTyped, SourceStepTyped, EnvironmentStepTyped
  DEF Next, PollStep
<1> QED
  BY <1>1, <1>2

(* The types hold at first. *)
LEMMA InitTyped == Init => Typed
<1> SUFFICES ASSUME Init PROVE Typed
  OBVIOUS
<1>1. inner \in Inner
  BY DEF Init, Inner, StoredErrors
<1>2. flags \in Flags
  BY NumbersAssumption DEF Init, Flags
<1>3. pull \in [at : Futures, cancelled : BOOLEAN] /\ cancelFuture \in Futures
  BY DEF Init, NoPull, Futures
<1>4. /\ result \in [Calls -> Outcomes]
      /\ posted \in [Posts -> {"idle", "checked", "sent", "refused"}]
      /\ waitPc \in [Waiters -> {"idle", "register", "recheck", "parked", "done"}]
  BY DEF Init, Outcomes
<1>5. /\ cmds \in Seq(Commands) /\ ctrls \in Seq(Messages)
      /\ delivered \in Seq([read : Reads, chunk : Chunks])
  BY DEF Init
<1>6. /\ storedError \in StoredErrors /\ pc \in Phases /\ scheduled \in BOOLEAN
      /\ woken \subseteq Waiters /\ wakers \subseteq Waiters
      /\ served \subseteq Reads /\ ended \in {None} \cup Cancels
  BY DEF Init, StoredErrors, Phases
<1> QED
  BY <1>1, <1>2, <1>3, <1>4, <1>5, <1>6 DEF Typed

\* Every variable keeps its type, the two byte counts apart (they are integers
\* here; that they are never negative follows with the account, in TypesHold).
THEOREM TypedHolds == Spec => []Typed
<1> QED
  BY InitTyped, StepTyped, PTL DEF Spec

-----------------------------------------------------------------------------
(* Custody of the source                                                    *)

\* What Custody needs to be inductive: nothing has happened before start()
\* returned, a pull that is told to stop is still there, and the two steps in
\* which an error is stored follow the step that raised it.
BeforeStart ==
    pc = "starting" => /\ ~inner.source /\ ~inner.cancelRequested /\ inner.state = "Readable"
                       /\ pull.at = None /\ cancelFuture = None /\ ended = None

WhileErring ==
    /\ pc \in {"startFails", "controlErrs", "pullFails"} => inner.state = "Errored"
    /\ pc = "pullFails" => pull.at = None /\ cancelFuture = None

CustodyInv ==
    /\ Custody
    /\ BeforeStart
    /\ WhileErring
    /\ pull.cancelled => pull.at # None

(* The callers do not touch the task's state. *)
LEMMA CallersLeaveTask ==
    ASSUME ControllerStep \/ ReaderStep \/ (\E c \in Waiters : WaiterStep(c))
    PROVE  UNCHANGED <<pc, inner, pull, cancelFuture, delivered, ended>>
<1> USE DEF callerVars, waitVars, taskVars, histVars
<1>1. CASE ControllerStep
  BY <1>1 DEF ControllerStep, Enqueue, Close, Error, Checks, Sends
<1>2. CASE ReaderStep
  BY <1>2 DEF ReaderStep, Read, Cancel, Request, Abandon
<1>3. CASE \E c \in Waiters : WaiterStep(c)
  BY <1>3 DEF WaiterStep, ReadyPoll, ClosedPoll, Register, Recheck
<1> QED
  BY <1>1, <1>2, <1>3

(* The source is in one place at first. *)
LEMMA InitCustody == Init => CustodyInv
  BY DEF Init, NoPull, CustodyInv, Custody, SourceInOnePlace, CancelLeavesReadable,
         BeforeStart, WhileErring

(* Every step keeps the source in one place. *)
LEMMA CustodyStep == Typed /\ CustodyInv /\ [Next]_vars => CustodyInv'
<1> SUFFICES ASSUME Typed, CustodyInv, [Next]_vars PROVE CustodyInv'
  OBVIOUS
<1> USE DEF taskVars, histVars
<1>0. inner \in Inner /\ pull \in [at : Futures, cancelled : BOOLEAN]
  BY DEF Typed
\* A step that leaves the source, the pull and the cancel alone.
<1>1. ASSUME UNCHANGED <<pull, cancelFuture, ended>>,
             inner'.source = inner.source, inner'.cancelRequested = inner.cancelRequested,
             \/ inner'.state = inner.state
             \/ inner.state = "Readable" /\ inner'.state \in {"Closed", "Errored"},
             pc \notin {"starting", "done", "pullFails"},
             pc' \notin {"starting", "startFails", "pullFails"},
             pc' = "controlErrs" => inner'.state = "Errored"
      PROVE  CustodyInv'
  BY <1>1 DEF CustodyInv, Custody, SourceInOnePlace, CancelLeavesReadable, BeforeStart, WhileErring
<1>2. CASE UNCHANGED <<pc, inner, pull, cancelFuture, ended>>
  BY <1>2 DEF CustodyInv, Custody, SourceInOnePlace, CancelLeavesReadable, BeforeStart, WhileErring
<1>3. CASE StartStep
  <2> USE DEF CustodyInv, Custody, SourceInOnePlace, CancelLeavesReadable, BeforeStart, WhileErring
  <2>1. CASE StartSucceeds
    BY <1>0, <2>1 DEF StartSucceeds, SourceBack, Inner
  <2>2. CASE StartFails
    BY <1>0, <2>2 DEF StartFails, Errored, Inner
  <2>3. CASE StoreStartError
    BY <2>3 DEF StoreStartError
  <2> QED
    BY <1>3, <2>1, <2>2, <2>3 DEF StartStep
<1>4. CASE MessageStep
  <2> USE DEF Receives, InControl
  <2>1. ASSUME NEW op, NEW id, MessageIgnored(op, id) PROVE CustodyInv'
    BY <1>1, <2>1 DEF MessageIgnored
  <2>2. ASSUME NEW c \in Chunks, EnqueueToRead(c) \/ EnqueueToQueue(c) PROVE CustodyInv'
    BY <1>0, <1>1, <2>2 DEF EnqueueToRead, EnqueueToQueue, Inner
  <2>3. ASSUME NEW k \in Closings, CloseNow(k) \/ CloseLater(k) PROVE CustodyInv'
    BY <1>0, <1>1, <2>3 DEF CloseNow, CloseLater, Inner
  <2>4. ASSUME NEW e \in Errors, ErrorArrives(e) PROVE CustodyInv'
    BY <1>0, <1>1, <2>4 DEF ErrorArrives, Errored, Inner
  <2>5. CASE StoreControllerError
    BY <1>0, <1>1, <2>5 DEF StoreControllerError, Emptied, Inner
  <2>6. CASE ControlDrained
    BY <1>1, <2>6 DEF ControlDrained
  <2> QED
    BY <1>4, <2>1, <2>2, <2>3, <2>4, <2>5, <2>6 DEF MessageStep
<1>5. CASE CommandStep
  <2> USE DEF Takes
  <2>1. ASSUME NEW r \in Reads, CommandReadEnded(r) PROVE CustodyInv'
    BY <1>1, <2>1 DEF CommandReadEnded
  <2>2. ASSUME NEW r \in Reads, CommandReadChunk(r) PROVE CustodyInv'
    <3>1. inner.state # "Errored"
      BY <2>2 DEF CommandReadChunk
    <3>2. /\ inner'.source = inner.source /\ inner'.cancelRequested = inner.cancelRequested
          /\ inner'.state \in {inner.state, "Closed"}
      BY <1>0, <2>2 DEF CommandReadChunk, Inner
    <3>3. inner.state \in {"Readable", "Closed"}
      BY <1>0, <3>1 DEF Inner
    <3> QED
      BY <1>1, <2>2, <3>2, <3>3 DEF CommandReadChunk
  <2>3. ASSUME NEW r \in Reads, CommandReadParks(r) PROVE CustodyInv'
    BY <1>0, <1>1, <2>3 DEF CommandReadParks, Park, Inner
  <2>4. ASSUME NEW x \in Cancels, CommandCancelMoot(x) PROVE CustodyInv'
    BY <1>1, <2>4 DEF CommandCancelMoot
  <2>5. ASSUME NEW x \in Cancels, CommandCancel(x) PROVE CustodyInv'
    <3>1. inner'.state = "Closed" /\ inner'.cancelRequested /\ ~inner'.source
      BY <1>0, <2>5 DEF CommandCancel, Emptied, Inner
    <3>2. CASE inner.source
      BY <2>5, <3>1, <3>2 DEF CommandCancel, CustodyInv, Custody, SourceInOnePlace,
         CancelLeavesReadable, BeforeStart, WhileErring
    <3>3. CASE ~inner.source
      <4>1. pull.at # None /\ cancelFuture = None /\ ended = None
        BY <2>5, <3>3 DEF CommandCancel, CustodyInv, Custody, SourceInOnePlace
      <4>2. pull'.at = pull.at /\ UNCHANGED <<cancelFuture, ended>>
        BY <1>0, <2>5, <3>3 DEF CommandCancel
      <4> QED
        BY <2>5, <3>1, <4>1, <4>2 DEF CommandCancel, CustodyInv, Custody, SourceInOnePlace,
           CancelLeavesReadable, BeforeStart, WhileErring
    <3> QED
      BY <3>2, <3>3
  <2>6. ASSUME NEW c \in Waiters, CommandRegisterReady(c) \/ CommandRegisterClosed(c)
        PROVE  CustodyInv'
    BY <1>1, <2>6 DEF CommandRegisterReady, CommandRegisterClosed
  <2> QED
    BY <1>5, <2>1, <2>2, <2>3, <2>4, <2>5, <2>6 DEF CommandStep, Waiters
<1>6. CASE SourceStep
  <2> USE DEF CustodyInv, Custody, SourceInOnePlace, CancelLeavesReadable, BeforeStart, WhileErring
  <2>1. CASE CancelReturns
    <3>1. /\ inner'.source = inner.source /\ ~inner'.cancelRequested
          /\ inner'.state = inner.state
      BY <1>0, <2>1 DEF CancelReturns, Inner
    <3> QED
      BY <2>1, <3>1 DEF CancelReturns, None
  <2>2. CASE StartPull
    <3>1. /\ inner.source /\ inner.state = "Readable"
          /\ pc \notin {"starting", "pullFails", "done"}
      BY <2>2 DEF StartPull, AtGate, PullDue, Wanted, Accepting
    <3>2. /\ ~inner'.source /\ inner'.cancelRequested = inner.cancelRequested
          /\ inner'.state = inner.state
      BY <1>0, <2>2 DEF StartPull, Inner
    <3> QED
      BY <2>2, <3>1, <3>2 DEF StartPull, None
  <2>3. CASE PullNotWanted
    BY <1>0, <2>3 DEF PullNotWanted, AtGate, Inner
  <2>4. CASE PullPending
    BY <2>4 DEF PullPending, AtDrive, AtGate
  <2>5. CASE PullReturns
    BY <1>0, <2>5 DEF PullReturns, AtDrive, AtGate, NoPull, SourceBack, Inner
  <2>6. CASE PullFails
    <3>1. /\ inner'.source = inner.source /\ inner'.state = "Errored"
          /\ inner'.cancelRequested = inner.cancelRequested
      BY <1>0, <2>6 DEF PullFails, Errored, Inner
    <3>2. pull.at # None /\ pc \notin {"starting", "pullFails", "done"}
      BY <2>6 DEF PullFails, AtDrive, AtGate, None
    <3> QED
      BY <2>6, <3>1, <3>2 DEF PullFails, NoPull
  <2>7. CASE StorePullError
    BY <1>0, <2>7 DEF StorePullError, Inner
  <2> QED
    BY <1>6, <2>1, <2>2, <2>3, <2>4, <2>5, <2>6, <2>7 DEF SourceStep
<1>7. CASE TaskDropped
  BY <1>0, <1>7 DEF TaskDropped, NoPull, Inner, CustodyInv, Custody, SourceInOnePlace,
     CancelLeavesReadable, BeforeStart, WhileErring
<1>8. ASSUME NEW r \in {"ok", "err"}, PullEnds(r) \/ CancelEnds(r) PROVE CustodyInv'
  <2> USE DEF CustodyInv, Custody, SourceInOnePlace, CancelLeavesReadable, BeforeStart, WhileErring, None
  <2>1. CASE PullEnds(r)
    BY <1>0, <2>1 DEF PullEnds
  <2>2. CASE CancelEnds(r)
    BY <2>2 DEF CancelEnds
  <2> QED
    BY <1>8, <2>1, <2>2
<1> QED
  BY <1>2, <1>3, <1>4, <1>5, <1>6, <1>7, <1>8, CallersLeaveTask
  DEF Next, PollStep, vars

\* The source is never in two places, and a readable stream that has started
\* never lost it: not when a cancel cuts a pull short, not when a pull fails
\* while a cancel waits for it.
THEOREM CustodyHolds == Spec => []Custody
<1>1. CustodyInv => Custody
  BY DEF CustodyInv
<1> QED
  BY InitTyped, StepTyped, InitCustody, CustodyStep, <1>1, PTL DEF Spec

-----------------------------------------------------------------------------
(* The queue and the waiting reads                                          *)

\* What NoneLeftWaiting needs to be inductive: the steps it leaves out are of
\* an errored stream, and nothing is queued before start() returned.
QueueInv ==
    /\ NoneLeftWaiting
    /\ pc \in {"startFails", "controlErrs", "pullFails"} => inner.state = "Errored"
    /\ pc \in {"starting", "startFails"} => inner.pendingReads = <<>>

(* The queue is accounted for at first. *)
LEMMA InitQueue == Init => QueueInv
  BY DEF Init, QueueInv, NoneLeftWaiting

(* The messages keep the queue and the reads apart. *)
LEMMA QueueMessageStep == Typed /\ QueueInv /\ MessageStep => QueueInv'
<1> SUFFICES ASSUME Typed, QueueInv, MessageStep PROVE QueueInv'
  OBVIOUS
<1> USE DEF taskVars, histVars, Receives, InControl
<1>0. inner \in Inner
  BY DEF Typed
<1>1. ASSUME NEW op, NEW id, MessageIgnored(op, id) PROVE QueueInv'
  BY <1>1 DEF MessageIgnored, QueueInv, NoneLeftWaiting
<1>2. ASSUME NEW c \in Chunks, EnqueueToRead(c) PROVE QueueInv'
  <2>1. UNCHANGED <<inner.state, inner.queue, inner.closePending>>
    BY <1>0, <1>2 DEF EnqueueToRead, Inner
  <2> QED
    BY <1>2, <2>1 DEF EnqueueToRead, QueueInv, NoneLeftWaiting
<1>3. ASSUME NEW c \in Chunks, EnqueueToQueue(c) PROVE QueueInv'
  <2>1. /\ UNCHANGED <<inner.state, inner.pendingReads, inner.closePending>>
        /\ inner'.queue # <<>>
    BY <1>0, <1>3 DEF EnqueueToQueue, Inner
  <2> QED
    BY <1>3, <2>1 DEF EnqueueToQueue, Accepting, QueueInv, NoneLeftWaiting
<1>4. ASSUME NEW k \in Closings, CloseNow(k) PROVE QueueInv'
  <2>1. inner'.state = "Closed" /\ inner'.pendingReads = <<>> /\ inner'.queue = inner.queue
    BY <1>0, <1>4 DEF CloseNow, Inner
  <2> QED
    BY <1>4, <2>1 DEF CloseNow, QueueInv, NoneLeftWaiting
<1>5. ASSUME NEW k \in Closings, CloseLater(k) PROVE QueueInv'
  <2>1. UNCHANGED <<inner.state, inner.queue, inner.pendingReads>>
    BY <1>0, <1>5 DEF CloseLater, Inner
  <2> QED
    BY <1>5, <2>1 DEF CloseLater, QueueInv, NoneLeftWaiting
<1>6. ASSUME NEW e \in Errors, ErrorArrives(e) PROVE QueueInv'
  <2>1. inner'.state = "Errored"
    BY <1>0, <1>6 DEF ErrorArrives, Errored, Inner
  <2> QED
    BY <1>6, <2>1 DEF ErrorArrives, QueueInv, NoneLeftWaiting
<1>7. CASE StoreControllerError
  <2>1. inner'.state = inner.state /\ inner'.pendingReads = <<>>
    BY <1>0, <1>7 DEF StoreControllerError, Emptied, Inner
  <2> QED
    BY <1>7, <2>1 DEF StoreControllerError, QueueInv, NoneLeftWaiting
<1>8. CASE ControlDrained
  BY <1>8 DEF ControlDrained, QueueInv, NoneLeftWaiting
<1> QED
  BY <1>1, <1>2, <1>3, <1>4, <1>5, <1>6, <1>7, <1>8 DEF MessageStep

(* So do the commands. *)
LEMMA QueueCommandStep == Typed /\ QueueInv /\ CommandStep => QueueInv'
<1> SUFFICES ASSUME Typed, QueueInv, CommandStep PROVE QueueInv'
  OBVIOUS
<1> USE DEF taskVars, histVars, Takes
<1>0. inner \in Inner
  BY DEF Typed
<1>1. ASSUME UNCHANGED <<pc, inner>> PROVE QueueInv'
  BY <1>1 DEF QueueInv, NoneLeftWaiting
<1>2. ASSUME NEW r \in Reads, CommandReadEnded(r) PROVE QueueInv'
  BY <1>1, <1>2 DEF CommandReadEnded
<1>3. ASSUME NEW r \in Reads, CommandReadChunk(r) PROVE QueueInv'
  <2>1. inner.state = "Readable" /\ inner.pendingReads = <<>>
    BY <1>0, <1>3 DEF CommandReadChunk, Inner, QueueInv, NoneLeftWaiting
  <2>2. inner'.pendingReads = inner.pendingReads
    BY <1>0, <1>3 DEF CommandReadChunk, Inner
  <2>3. \/ inner'.state = "Closed" /\ inner'.queue = <<>>
        \/ inner'.state = "Readable" /\ (inner'.closePending => inner'.queue # <<>>)
    BY <1>0, <1>3, <2>1 DEF CommandReadChunk, Inner
  <2> QED
    BY <1>3, <2>1, <2>2, <2>3 DEF CommandReadChunk, QueueInv, NoneLeftWaiting
<1>4. ASSUME NEW r \in Reads, CommandReadParks(r) PROVE QueueInv'
  <2>1. UNCHANGED <<inner.state, inner.queue, inner.closePending>>
    BY <1>0, <1>4 DEF CommandReadParks, Park, Inner
  <2> QED
    BY <1>4, <2>1 DEF CommandReadParks, QueueInv, NoneLeftWaiting
<1>5. ASSUME NEW x \in Cancels, CommandCancelMoot(x) PROVE QueueInv'
  BY <1>1, <1>5 DEF CommandCancelMoot
<1>6. ASSUME NEW x \in Cancels, CommandCancel(x) PROVE QueueInv'
  <2>1. inner'.state = "Closed" /\ inner'.queue = <<>> /\ inner'.pendingReads = <<>>
    BY <1>0, <1>6 DEF CommandCancel, Emptied, Inner
  <2> QED
    BY <1>6, <2>1 DEF CommandCancel, QueueInv, NoneLeftWaiting
<1>7. ASSUME NEW c \in Waiters, CommandRegisterReady(c) \/ CommandRegisterClosed(c)
      PROVE  QueueInv'
  BY <1>1, <1>7 DEF CommandRegisterReady, CommandRegisterClosed
<1> QED
  BY <1>2, <1>3, <1>4, <1>5, <1>6, <1>7 DEF CommandStep, Waiters

(* So do the pulls. *)
LEMMA QueueSourceStep ==
    Typed /\ QueueInv /\ (StartStep \/ SourceStep \/ TaskDropped) => QueueInv'
<1> SUFFICES ASSUME Typed, QueueInv, StartStep \/ SourceStep \/ TaskDropped PROVE QueueInv'
  OBVIOUS
<1> USE DEF taskVars, histVars
<1>0. inner \in Inner
  BY DEF Typed
<1>1. ASSUME UNCHANGED <<inner.state, inner.queue, inner.pendingReads, inner.closePending>>,
             pc' \notin {"starting", "startFails", "controlErrs", "pullFails"},
             pc \notin {"starting", "controlErrs", "pullFails", "done"}
      PROVE  QueueInv'
  BY <1>1 DEF QueueInv, NoneLeftWaiting
<1>2. CASE StartSucceeds
  <2>1. /\ UNCHANGED <<inner.state, inner.queue, inner.pendingReads, inner.closePending>>
    BY <1>0, <1>2 DEF StartSucceeds, SourceBack, Inner
  <2> QED
    BY <1>2, <2>1 DEF StartSucceeds, QueueInv, NoneLeftWaiting
<1>3. CASE StartFails
  <2>1. inner'.state = "Errored" /\ inner'.pendingReads = inner.pendingReads
    BY <1>0, <1>3 DEF StartFails, Errored, Inner
  <2> QED
    BY <1>3, <2>1 DEF StartFails, QueueInv, NoneLeftWaiting
<1>4. CASE StoreStartError
  BY <1>1, <1>4 DEF StoreStartError
<1>5. CASE CancelReturns
  BY <1>0, <1>1, <1>5 DEF CancelReturns, Inner
<1>6. CASE StartPull
  BY <1>0, <1>1, <1>6 DEF StartPull, AtGate, Inner
<1>7. CASE PullNotWanted
  BY <1>0, <1>1, <1>7 DEF PullNotWanted, AtGate, Inner
<1>8. CASE PullPending
  BY <1>1, <1>8 DEF PullPending, AtDrive, AtGate
<1>9. CASE PullReturns
  BY <1>0, <1>1, <1>9 DEF PullReturns, AtDrive, AtGate, SourceBack, Inner
<1>10. CASE PullFails
  <2>1. inner'.state = "Errored"
    BY <1>0, <1>10 DEF PullFails, Errored, Inner
  <2> QED
    BY <1>10, <2>1 DEF PullFails, QueueInv, NoneLeftWaiting
<1>11. CASE StorePullError
  <2>1. inner'.state = inner.state /\ inner'.pendingReads = <<>>
    BY <1>0, <1>11 DEF StorePullError, Inner
  <2> QED
    BY <1>11, <2>1 DEF StorePullError, QueueInv, NoneLeftWaiting
<1>12. CASE TaskDropped
  BY <1>12 DEF TaskDropped, QueueInv, NoneLeftWaiting
<1> QED
  BY <1>2, <1>3, <1>4, <1>5, <1>6, <1>7, <1>8, <1>9, <1>10, <1>11, <1>12
  DEF StartStep, SourceStep

(* So does every step. *)
LEMMA QueueStep == Typed /\ QueueInv /\ [Next]_vars => QueueInv'
<1> SUFFICES ASSUME Typed, QueueInv, [Next]_vars PROVE QueueInv'
  OBVIOUS
<1>1. CASE UNCHANGED <<pc, inner>>
  BY <1>1 DEF QueueInv, NoneLeftWaiting
<1>2. ASSUME NEW r \in {"ok", "err"}, PullEnds(r) \/ CancelEnds(r) PROVE QueueInv'
  BY <1>1, <1>2 DEF PullEnds, CancelEnds
<1> QED
  BY <1>1, <1>2, QueueMessageStep, QueueCommandStep, QueueSourceStep, CallersLeaveTask
  DEF Next, PollStep, vars, taskVars

\* A read and a chunk never wait side by side, and a stream that has ended
\* leaves no read waiting and no chunk queued.
THEOREM NoneLeftWaitingHolds == Spec => []NoneLeftWaiting
<1>1. QueueInv => NoneLeftWaiting
  BY DEF QueueInv
<1> QED
  BY InitTyped, StepTyped, InitQueue, QueueStep, <1>1, PTL DEF Spec

-----------------------------------------------------------------------------
(* Endings                                                                  *)

(* A message does not undo an end. *)
LEMMA EndedMessageStep ==
    ASSUME Typed, MessageStep, inner.state # "Readable"
    PROVE  inner'.state # "Readable" /\ UNCHANGED delivered
<1> USE DEF taskVars, histVars
<1>0. inner \in Inner
  BY DEF Typed
<1>1. ASSUME NEW c \in Chunks, EnqueueToRead(c) \/ EnqueueToQueue(c) PROVE FALSE
  BY <1>1 DEF EnqueueToRead, EnqueueToQueue, Accepting
<1>2. ASSUME NEW k \in Closings, CloseNow(k) \/ CloseLater(k) PROVE FALSE
  BY <1>2 DEF CloseNow, CloseLater
<1>3. ASSUME NEW e \in Errors, ErrorArrives(e) PROVE FALSE
  BY <1>3 DEF ErrorArrives
<1>4. ASSUME NEW op, NEW id, MessageIgnored(op, id) PROVE UNCHANGED <<inner, delivered>>
  BY <1>4 DEF MessageIgnored
<1>5. CASE StoreControllerError
  BY <1>0, <1>5 DEF StoreControllerError, Emptied, Inner
<1>6. CASE ControlDrained
  BY <1>6 DEF ControlDrained
<1> QED
  BY <1>1, <1>2, <1>3, <1>4, <1>5, <1>6 DEF MessageStep

(* A command does not undo an end. *)
LEMMA EndedCommandStep ==
    ASSUME Typed, QueueInv, CommandStep, inner.state # "Readable"
    PROVE  inner'.state # "Readable" /\ UNCHANGED delivered
<1> USE DEF taskVars, histVars, Takes
<1>0. inner \in Inner
  BY DEF Typed
<1>1. ASSUME NEW r \in Reads, CommandReadEnded(r) PROVE UNCHANGED <<inner, delivered>>
  BY <1>1 DEF CommandReadEnded
<1>2. ASSUME NEW r \in Reads, CommandReadChunk(r) PROVE FALSE
  <2>1. inner.state = "Closed" /\ inner.queue # <<>>
    BY <1>0, <1>2 DEF CommandReadChunk, Inner
  <2> QED
    BY <1>2, <2>1 DEF CommandReadChunk, QueueInv, NoneLeftWaiting
<1>3. ASSUME NEW r \in Reads, CommandReadParks(r) PROVE FALSE
  BY <1>3 DEF CommandReadParks
<1>4. ASSUME NEW x \in Cancels, CommandCancelMoot(x) \/ CommandCancel(x)
      PROVE  UNCHANGED <<inner, delivered>>
  BY <1>4 DEF CommandCancelMoot, CommandCancel
<1>5. ASSUME NEW c \in Waiters, CommandRegisterReady(c) \/ CommandRegisterClosed(c)
      PROVE  UNCHANGED <<inner, delivered>>
  BY <1>5 DEF CommandRegisterReady, CommandRegisterClosed
<1> QED
  BY <1>1, <1>2, <1>3, <1>4, <1>5 DEF CommandStep, Waiters

(* A pull does not undo an end. *)
LEMMA EndedSourceStep ==
    ASSUME Typed, StartStep \/ SourceStep \/ TaskDropped, inner.state # "Readable"
    PROVE  inner'.state # "Readable" /\ UNCHANGED delivered
<1> USE DEF taskVars, histVars
<1>0. inner \in Inner
  BY DEF Typed
<1>1. CASE StartStep
  BY <1>0, <1>1 DEF StartStep, StartSucceeds, StartFails, StoreStartError, SourceBack, Errored, Inner
<1>2. CASE CancelReturns \/ StartPull \/ PullNotWanted
  BY <1>0, <1>2 DEF CancelReturns, StartPull, PullNotWanted, Inner
<1>3. CASE PullPending \/ PullReturns
  BY <1>0, <1>3 DEF PullPending, PullReturns, SourceBack, Inner
<1>4. CASE PullFails \/ StorePullError
  BY <1>0, <1>4 DEF PullFails, StorePullError, Errored, Inner
<1>5. CASE TaskDropped
  BY <1>0, <1>5 DEF TaskDropped, Inner
<1> QED
  BY <1>1, <1>2, <1>3, <1>4, <1>5 DEF SourceStep

\* A stream that has stopped being readable stays so and gives no chunk: what
\* a read can still take from a closed stream is excluded by NoneLeftWaiting.
THEOREM EndsForGoodHolds == Spec => EndsForGood
<1>1. ASSUME Typed, QueueInv, [Next]_vars
      PROVE  [inner.state # "Readable" => inner'.state # "Readable" /\ UNCHANGED delivered]_vars
  <2> SUFFICES ASSUME Next, inner.state # "Readable"
               PROVE  inner'.state # "Readable" /\ UNCHANGED delivered
    BY <1>1
  <2>1. ASSUME NEW r \in {"ok", "err"}, PullEnds(r) \/ CancelEnds(r)
        PROVE  UNCHANGED <<inner, delivered>>
    BY <2>1 DEF PullEnds, CancelEnds, histVars
  <2> QED
    BY <1>1, <2>1, EndedMessageStep, EndedCommandStep, EndedSourceStep, CallersLeaveTask
    DEF Next, PollStep
<1> QED
  BY InitTyped, StepTyped, InitQueue, QueueStep, <1>1, PTL DEF Spec, EndsForGood

-----------------------------------------------------------------------------
(* Cancel                                                                   *)

\* No cancel is twice in the command channel, and one that is there has
\* neither settled nor been acted on.
CancelsQueuedOnce ==
    /\ \A j, k \in 1..Len(cmds) :
        cmds[j].id \in Cancels /\ cmds[j].id = cmds[k].id => j = k
    /\ \A k \in 1..Len(cmds) : cmds[k].id \in Cancels =>
        result[cmds[k].id] = "pending" /\ cmds[k].id # inner.cancelReason

\* What becomes of the cancel that was acted on.
CancelActedOn ==
    /\ inner.cancelCompletions \subseteq {inner.cancelReason}
    /\ inner.cancelReason = None => inner.cancelCompletions = {}
    /\ inner.cancelReason # None =>
        inner.state # "Readable" /\ result[inner.cancelReason] # "unsent"
    /\ cancelFuture # None => ended = inner.cancelReason

PullErrorStays ==
    /\ pc = "pullFails" => inner.error = "pull"
    /\ inner.error = "pull" => inner.state = "Errored"

ReachInv == CancelsQueuedOnce /\ CancelActedOn /\ PullErrorStays /\ CancelReachesSource

(* No cancel is owed at first. *)
LEMMA InitReach == Init => ReachInv
<1> SUFFICES ASSUME Init PROVE ReachInv
  OBVIOUS
<1>1. CancelsQueuedOnce
  BY DEF Init, CancelsQueuedOnce
<1>2. CancelActedOn /\ PullErrorStays
  BY DEF Init, CancelActedOn, PullErrorStays, None
<1>3. CancelReachesSource
  BY NoneAssumption DEF Init, CancelReachesSource
<1> QED
  BY <1>1, <1>2, <1>3 DEF ReachInv

(* What is left of a channel was in it. *)
LEMMA ChannelTail ==
    ASSUME Typed, CancelsQueuedOnce, cmds # <<>>, cmds' = Tail(cmds),
           inner'.cancelReason \in {inner.cancelReason, Head(cmds).id},
           \A x \in Cancels : x # Head(cmds).id => result'[x] = result[x]
    PROVE  CancelsQueuedOnce'
<1>1. cmds \in Seq(Commands)
  BY DEF Typed
<1>2. /\ Len(cmds') = Len(cmds) - 1 /\ Len(cmds) \in Nat /\ Len(cmds) > 0
      /\ \A k \in 1..Len(cmds') : cmds'[k] = cmds[k + 1]
      /\ Head(cmds) = cmds[1]
  BY <1>1
<1>3. \A k \in 1..Len(cmds') : k + 1 \in 1..Len(cmds) /\ k + 1 # 1
  BY <1>2
<1>4. \A k \in 1..Len(cmds') : cmds'[k].id \in Cancels => cmds'[k].id # Head(cmds).id
  BY <1>2, <1>3 DEF CancelsQueuedOnce
<1>5. \A k \in 1..Len(cmds') : cmds'[k].id \in Cancels =>
        result'[cmds'[k].id] = "pending" /\ cmds'[k].id # inner'.cancelReason
  BY <1>2, <1>3, <1>4 DEF CancelsQueuedOnce
<1>6. \A j, k \in 1..Len(cmds') :
        cmds'[j].id \in Cancels /\ cmds'[j].id = cmds'[k].id => j = k
  BY <1>2, <1>3 DEF CancelsQueuedOnce
<1> QED
  BY <1>5, <1>6 DEF CancelsQueuedOnce

(* What is sent is last. *)
LEMMA ChannelAppend ==
    ASSUME Typed, CancelsQueuedOnce, NEW op, NEW id, Send(op, id), UNCHANGED inner,
           \A x \in Cancels : x # id => result'[x] = result[x],
           id \in Cancels => /\ result[id] = "unsent" /\ inner.cancelReason # id
                             /\ pc # "done" => result'[id] = "pending"
    PROVE  CancelsQueuedOnce'
<1>1. cmds \in Seq(Commands) /\ Len(cmds) \in Nat
  BY DEF Typed
<1>2. CASE pc = "done"
  <2>1. cmds' = cmds
    BY <1>2 DEF Send
  <2>2. \A k \in 1..Len(cmds) : cmds[k].id \in Cancels => cmds[k].id # id
    BY DEF CancelsQueuedOnce
  <2> QED
    BY <2>1, <2>2 DEF CancelsQueuedOnce
<1>3. CASE pc # "done"
  <2>1. /\ Len(cmds') = Len(cmds) + 1
        /\ \A k \in 1..Len(cmds) : cmds'[k] = cmds[k]
        /\ cmds'[Len(cmds) + 1].id = id
    BY <1>1, <1>3 DEF Send
  <2>2. \A k \in 1..Len(cmds) : cmds[k].id \in Cancels => cmds[k].id # id
    BY DEF CancelsQueuedOnce
  <2>3. \A k \in 1..Len(cmds') : k \in 1..Len(cmds) \/ k = Len(cmds) + 1
    BY <1>1, <2>1
  <2>4. \A k \in 1..Len(cmds') : cmds'[k].id \in Cancels =>
          result'[cmds'[k].id] = "pending" /\ cmds'[k].id # inner'.cancelReason
    BY <1>3, <2>1, <2>2, <2>3 DEF CancelsQueuedOnce
  <2>5. \A j, k \in 1..Len(cmds') :
          cmds'[j].id \in Cancels /\ cmds'[j].id = cmds'[k].id => j = k
    BY <2>1, <2>2, <2>3 DEF CancelsQueuedOnce
  <2> QED
    BY <2>4, <2>5 DEF CancelsQueuedOnce
<1> QED
  BY <1>2, <1>3

\* A step that settles no cancel and leaves the one acted on alone.
LEMMA ReachFrame ==
    ASSUME Typed, ReachInv, CancelsQueuedOnce',
           UNCHANGED <<inner.cancelReason, inner.cancelCompletions, cancelFuture, ended>>,
           \A x \in Cancels : result'[x] = result[x] \/ (result[x] = "unsent" /\ result'[x] \in {"pending", "dropped"}),
           \/ inner'.state = inner.state /\ inner'.error = inner.error
           \/ inner.state = "Readable" /\ inner'.state = "Closed" /\ inner'.error = inner.error
           \/ inner.state = "Readable" /\ inner'.state = "Errored",
           pc' = "pullFails" => pc = "pullFails"
    PROVE  ReachInv'
<1>1. inner.cancelReason \in {None} \cup Cancels
  BY DEF Typed, Inner
<1>2. CancelActedOn'
  BY <1>1 DEF ReachInv, CancelActedOn
<1>3. PullErrorStays'
  BY DEF ReachInv, PullErrorStays
<1>4. CancelReachesSource'
  <2> SUFFICES ASSUME NEW x \in Cancels, inner'.cancelReason = x, result'[x] \in {"ok", "failed"}
               PROVE  ended' = x \/ inner'.error = "pull"
    BY DEF CancelReachesSource
  <2>1. inner.cancelReason = x /\ result[x] \in {"ok", "failed"}
    OBVIOUS
  <2>2. inner.state # "Readable"
    BY <2>1, NoneAssumption DEF ReachInv, CancelActedOn
  <2> QED
    BY <2>1, <2>2 DEF ReachInv, CancelReachesSource
<1> QED
  BY <1>2, <1>3, <1>4 DEF ReachInv

\* Settling reads leaves the cancels alone.
LEMMA SettleOthers ==
    ASSUME Typed, NEW S, NEW o, NEW x \in Cancels, x \notin S
    PROVE  Settle(result, S, o)[x] = result[x]
  BY DEF Settle, Calls, Typed

(* The callers owe and lose no cancel. *)
LEMMA ReachCallerStep ==
    ASSUME Typed, ReachInv, ControllerStep \/ ReaderStep \/ (\E c \in Waiters : WaiterStep(c))
    PROVE  ReachInv'
<1> USE DEF callerVars, waitVars, taskVars, histVars
<1>0. UNCHANGED <<pc, inner, cancelFuture, ended>>
  BY CallersLeaveTask
<1>1. ASSUME CancelsQueuedOnce',
             \A x \in Cancels : result'[x] = result[x] \/ (result[x] = "unsent" /\ result'[x] \in {"pending", "dropped"})
      PROVE  ReachInv'
  BY <1>0, <1>1, ReachFrame
<1>2. CASE ControllerStep
  <2>1. UNCHANGED <<result, cmds>>
    BY <1>2 DEF ControllerStep, Enqueue, Close, Error, Checks, Sends
  <2> QED
    BY <1>0, <1>1, <2>1 DEF ReachInv, CancelsQueuedOnce
<1>3. ASSUME NEW r \in Reads, Abandon(r) PROVE ReachInv'
  <2>1. cmds' = cmds /\ \A x \in Cancels : result'[x] = result[x]
    BY <1>3, DisjointAssumption DEF Abandon, Typed, Calls
  <2> QED
    BY <1>0, <1>1, <2>1 DEF ReachInv, CancelsQueuedOnce
<1>4. ASSUME NEW r \in Reads, Read(r) PROVE ReachInv'
  <2>1. Send("read", r) /\ r \notin Cancels
    BY <1>4, DisjointAssumption DEF Read, Request
  <2>2. \A x \in Cancels : result'[x] = result[x]
    BY <1>4, <2>1 DEF Read, Request, Typed, Calls
  <2>3. CancelsQueuedOnce'
    BY <1>0, <2>1, <2>2, ChannelAppend DEF ReachInv
  <2> QED
    BY <1>1, <2>2, <2>3
<1>5. ASSUME NEW x \in Cancels, Cancel(x) PROVE ReachInv'
  <2>1. /\ Send("cancel", x) /\ result[x] = "unsent"
        /\ \A y \in Cancels : y # x => result'[y] = result[y]
        /\ result'[x] = IF pc = "done" THEN "dropped" ELSE "pending"
    BY <1>5 DEF Cancel, Request, Typed, Calls
  <2>2. inner.cancelReason # x
    BY <2>1, NoneAssumption DEF ReachInv, CancelActedOn
  <2>3. CancelsQueuedOnce'
    BY <1>0, <2>1, <2>2, ChannelAppend DEF ReachInv
  <2> QED
    BY <1>1, <2>1, <2>3
<1>6. ASSUME NEW c \in Waiters, WaiterStep(c) PROVE ReachInv'
  <2>1. c \notin Cancels
    BY DisjointAssumption
  <2>2. \A x \in Cancels : result'[x] = result[x]
    BY <1>6, <2>1 DEF WaiterStep, ReadyPoll, ClosedPoll, Register, Recheck, Goes, ReturnError,
       Return, Typed, Calls
  <2>3. cmds' = cmds \/ \E op : Send(op, c)
    BY <1>6 DEF WaiterStep, ReadyPoll, ClosedPoll, Register, Recheck
  <2>4. CASE cmds' = cmds
    BY <1>0, <1>1, <2>2, <2>4 DEF ReachInv, CancelsQueuedOnce
  <2>5. ASSUME NEW op, Send(op, c) PROVE ReachInv'
    <3>1. CancelsQueuedOnce'
      BY <1>0, <2>1, <2>2, <2>5, ChannelAppend DEF ReachInv
    <3> QED
      BY <1>1, <2>2, <3>1
  <2> QED
    BY <2>3, <2>4, <2>5
<1> QED
  BY <1>2, <1>3, <1>4, <1>5, <1>6 DEF ReaderStep

(* Nor do the messages. *)
LEMMA ReachMessageStep ==
    ASSUME Typed, CustodyInv, ReachInv, StartStep \/ MessageStep
    PROVE  ReachInv'
<1> USE DEF taskVars, histVars
<1>0. inner \in Inner /\ WaitingReads \subseteq Reads /\ Cancels \cap Reads = {}
  BY WaitingReadsType, DisjointAssumption DEF Typed
\* Steps over the control channel settle reads at most.
<1>1. ASSUME NEW S \in SUBSET Reads, NEW o, result' = result \/ result' = Settle(result, S, o),
             UNCHANGED <<cmds, inner.cancelReason, inner.cancelCompletions, cancelFuture, ended>>,
             \/ inner'.state = inner.state /\ inner'.error = inner.error
             \/ inner.state = "Readable" /\ inner'.state = "Closed" /\ inner'.error = inner.error
             \/ inner.state = "Readable" /\ inner'.state = "Errored",
             pc' # "pullFails"
      PROVE  ReachInv'
  <2>1. \A x \in Cancels : result'[x] = result[x]
    BY <1>0, <1>1, SettleOthers
  <2>2. CancelsQueuedOnce'
    BY <1>1, <2>1 DEF ReachInv, CancelsQueuedOnce
  <2> QED
    BY <1>1, <2>1, <2>2, ReachFrame
<1>2. CASE StartStep
  <2>1. CASE StartSucceeds
    BY <1>0, <1>1, <2>1 DEF StartSucceeds, callerVars, SourceBack, Inner
  <2>2. CASE StartFails
    BY <1>0, <1>1, <2>2 DEF StartFails, callerVars, Errored, Inner, CustodyInv, BeforeStart
  <2>3. CASE StoreStartError
    BY <1>1, <2>3 DEF StoreStartError, callerVars
  <2> QED
    BY <1>2, <2>1, <2>2, <2>3 DEF StartStep
<1>3. CASE MessageStep
  <2> USE DEF Receives, InControl
  <2>1. ASSUME NEW op, NEW id, MessageIgnored(op, id) PROVE ReachInv'
    BY <1>1, <2>1 DEF MessageIgnored
  <2>2. ASSUME NEW c \in Chunks, EnqueueToRead(c) PROVE ReachInv'
    <3>1. Head(inner.pendingReads) \in Reads
      BY <1>0, <2>2 DEF EnqueueToRead, Inner
    <3>2. UNCHANGED <<inner.cancelReason, inner.cancelCompletions, inner.state, inner.error>>
      BY <1>0, <2>2 DEF EnqueueToRead, Inner
    <3>3. {Head(inner.pendingReads)} \in SUBSET Reads
      BY <3>1
    <3> QED
      BY <1>1, <2>2, <3>2, <3>3 DEF EnqueueToRead, Deliver
  <2>3. ASSUME NEW c \in Chunks, EnqueueToQueue(c) PROVE ReachInv'
    BY <1>0, <1>1, <2>3 DEF EnqueueToQueue, Inner
  <2>4. ASSUME NEW k \in Closings, CloseNow(k) \/ CloseLater(k) PROVE ReachInv'
    <3>1. /\ UNCHANGED <<inner.cancelReason, inner.cancelCompletions, inner.error>>
          /\ inner.state = "Readable" /\ inner'.state \in {"Readable", "Closed"}
      BY <1>0, <2>4 DEF CloseNow, CloseLater, Inner
    <3> QED
      BY <1>0, <1>1, <2>4, <3>1 DEF CloseNow, CloseLater
  <2>5. ASSUME NEW e \in Errors, ErrorArrives(e) PROVE ReachInv'
    <3>1. /\ UNCHANGED <<inner.cancelReason, inner.cancelCompletions>>
          /\ inner'.state = "Errored"
      BY <1>0, <2>5 DEF ErrorArrives, Errored, Inner
    <3> QED
      BY <1>1, <2>5, <3>1 DEF ErrorArrives
  <2>6. CASE StoreControllerError
    <3>1. UNCHANGED <<inner.cancelReason, inner.cancelCompletions, inner.state, inner.error>>
      BY <1>0, <2>6 DEF StoreControllerError, Emptied, Inner
    <3> QED
      BY <1>0, <1>1, <2>6, <3>1 DEF StoreControllerError
  <2>7. CASE ControlDrained
    BY <1>1, <2>7 DEF ControlDrained, callerVars
  <2> QED
    BY <1>3, <2>1, <2>2, <2>3, <2>4, <2>5, <2>6, <2>7 DEF MessageStep
<1> QED
  BY <1>2, <1>3

(* Nor do the commands. *)
LEMMA ReachCommandStep ==
    ASSUME Typed, CustodyInv, ReachInv, CommandStep
    PROVE  ReachInv'
<1> USE DEF taskVars, histVars, Takes
<1>0. inner \in Inner /\ WaitingReads \subseteq Reads /\ Cancels \cap Reads = {}
  BY WaitingReadsType, DisjointAssumption DEF Typed
\* Commands that settle at most a read.
<1>1. ASSUME NEW op, NEW id, Takes(op, id), NEW S \in SUBSET Reads, NEW o,
             result' = result \/ result' = Settle(result, S, o),
             UNCHANGED <<inner.cancelReason, inner.cancelCompletions, inner.error, cancelFuture, ended>>,
             inner'.state = inner.state \/ (inner.state = "Readable" /\ inner'.state = "Closed")
      PROVE  ReachInv'
  <2>1. \A x \in Cancels : result'[x] = result[x]
    BY <1>0, <1>1, SettleOthers
  <2>2. CancelsQueuedOnce'
    BY <1>1, <2>1, ChannelTail DEF ReachInv
  <2> QED
    BY <1>1, <2>1, <2>2, ReachFrame
<1>2. ASSUME NEW r \in Reads, CommandReadEnded(r) PROVE ReachInv'
  <2>1. {r} \in SUBSET Reads
    OBVIOUS
  <2>2. \E o : result' = Settle(result, {r}, o)
    BY <1>2 DEF CommandReadEnded
  <2>3. Takes("read", r) /\ UNCHANGED <<inner, cancelFuture, ended>>
    BY <1>2 DEF CommandReadEnded
  <2> QED
    BY <1>1, <2>1, <2>2, <2>3
<1>3. ASSUME NEW r \in Reads, CommandReadChunk(r) PROVE ReachInv'
  <2>1. {r} \in SUBSET Reads
    OBVIOUS
  <2>2. /\ UNCHANGED <<inner.cancelReason, inner.cancelCompletions, inner.error>>
        /\ inner'.state \in {inner.state, "Closed"}
    BY <1>0, <1>3 DEF CommandReadChunk, Inner
  <2>3. inner.state \in {"Readable", "Closed"}
    BY <1>0, <1>3 DEF CommandReadChunk, Inner
  <2> QED
    BY <1>1, <1>3, <2>1, <2>2, <2>3 DEF CommandReadChunk, Deliver
<1>4. ASSUME NEW r \in Reads, CommandReadParks(r) PROVE ReachInv'
  <2>1. UNCHANGED <<inner.cancelReason, inner.cancelCompletions, inner.error, inner.state>>
    BY <1>0, <1>4 DEF CommandReadParks, Park, Inner
  <2> QED
    BY <1>0, <1>1, <1>4, <2>1 DEF CommandReadParks
<1>5. ASSUME NEW x \in Cancels, CommandCancelMoot(x) PROVE ReachInv'
  <2>1. Head(cmds).id = x /\ cmds # <<>> /\ cmds' = Tail(cmds) /\ pc' = pc
    BY <1>5 DEF CommandCancelMoot
  <2>2. inner' = inner /\ UNCHANGED <<cancelFuture, ended>>
    BY <1>5 DEF CommandCancelMoot
  <2>3. \A y \in Cancels : y # x => result'[y] = result[y]
    BY <1>5, SettleOthers DEF CommandCancelMoot
  <2>4. CancelsQueuedOnce'
    BY <2>1, <2>2, <2>3, ChannelTail DEF ReachInv
  <2>5. inner.cancelReason # x /\ result[x] = "pending"
    <3>1. 1 \in 1..Len(cmds) /\ cmds[1].id = x
      BY <2>1 DEF Typed
    <3> QED
      BY <3>1 DEF ReachInv, CancelsQueuedOnce
  <2>6. CancelActedOn'
    <3>1. inner.cancelReason \in {None} \cup Cancels
      BY <1>0 DEF Inner
    <3> QED
      BY <2>2, <2>3, <2>5, <3>1 DEF ReachInv, CancelActedOn
  <2>7. PullErrorStays' /\ CancelReachesSource'
    BY <2>1, <2>2, <2>3, <2>5 DEF ReachInv, PullErrorStays, CancelReachesSource
  <2> QED
    BY <2>4, <2>6, <2>7 DEF ReachInv
<1>6. ASSUME NEW x \in Cancels, CommandCancel(x) PROVE ReachInv'
  <2>1. /\ Head(cmds).id = x /\ cmds # <<>> /\ cmds' = Tail(cmds) /\ pc = "commands"
        /\ pc' = pc /\ inner.state = "Readable"
    BY <1>6 DEF CommandCancel
  <2>2. /\ inner'.cancelReason = x /\ inner'.state = "Closed" /\ inner'.error = inner.error
        /\ inner'.cancelCompletions = inner.cancelCompletions \cup {x}
    BY <1>0, <1>6 DEF CommandCancel, Emptied, Inner
  <2>3. \A y \in Cancels : result'[y] = result[y]
    BY <1>0, <1>6, SettleOthers DEF CommandCancel
  <2>4. CancelsQueuedOnce'
    BY <2>1, <2>2, <2>3, ChannelTail DEF ReachInv
  <2>5. result[x] = "pending"
    <3>1. 1 \in 1..Len(cmds) /\ cmds[1].id = x
      BY <2>1 DEF Typed
    <3> QED
      BY <3>1 DEF ReachInv, CancelsQueuedOnce
  <2>6. inner.cancelReason = None /\ inner.cancelCompletions = {} /\ cancelFuture = None
    BY <1>6, <2>1 DEF ReachInv, CancelActedOn, CustodyInv, Custody, CancelLeavesReadable
  <2>7. cancelFuture' # None => ended' = x
    BY <1>6, <2>6 DEF CommandCancel
  <2>8. CancelActedOn'
    BY <2>2, <2>3, <2>5, <2>6, <2>7, NoneAssumption DEF CancelActedOn
  <2>9. PullErrorStays' /\ CancelReachesSource'
    BY <1>6, <2>1, <2>2, <2>3, <2>5 DEF ReachInv, PullErrorStays, CancelReachesSource,
       CommandCancel
  <2> QED
    BY <2>4, <2>8, <2>9 DEF ReachInv
<1>7. ASSUME NEW c \in Waiters, CommandRegisterReady(c) \/ CommandRegisterClosed(c)
      PROVE  ReachInv'
  <2>1. (\E op : Takes(op, c)) /\ UNCHANGED <<result, inner, cancelFuture, ended>>
    BY <1>7 DEF CommandRegisterReady, CommandRegisterClosed
  <2> QED
    BY <1>0, <1>1, <2>1
<1> QED
  BY <1>2, <1>3, <1>4, <1>5, <1>6, <1>7 DEF CommandStep, Waiters

(* Nor does what the source returns. *)
LEMMA ReachSourceStep ==
    ASSUME Typed, CustodyInv, ReachInv,
           SourceStep \/ TaskDropped \/ (\E r \in {"ok", "err"} : PullEnds(r) \/ CancelEnds(r))
    PROVE  ReachInv'
<1> USE DEF callerVars, taskVars, histVars
<1>0. /\ inner \in Inner /\ result \in [Calls -> Outcomes]
      /\ inner.cancelReason \in {None} \cup Cancels /\ Cancels \subseteq Calls
  BY DEF Typed, Inner, Calls
<1>1. ASSUME UNCHANGED <<cmds, result, inner.cancelReason, inner.cancelCompletions, inner.error,
                         inner.state, cancelFuture, ended>>,
             pc' # "pullFails" \/ pc' = pc
      PROVE  ReachInv'
  BY <1>1 DEF ReachInv, CancelsQueuedOnce, CancelActedOn, PullErrorStays, CancelReachesSource
<1>2. CASE CancelReturns
  <2>1. /\ inner'.cancelReason = inner.cancelReason /\ inner'.cancelCompletions = {}
        /\ UNCHANGED <<inner.state, inner.error>>
    BY <1>0, <1>2 DEF CancelReturns, Inner
  <2>2. cancelFuture # None /\ cancelFuture' = None /\ ended = inner.cancelReason
    BY <1>2 DEF CancelReturns, None, ReachInv, CancelActedOn
  <2>3. \A x \in Cancels : /\ x # inner.cancelReason => result'[x] = result[x]
                           /\ result[x] # "unsent" => result'[x] # "unsent"
    <3>1. inner.cancelCompletions \subseteq {inner.cancelReason}
      BY DEF ReachInv, CancelActedOn
    <3> QED
      BY <1>0, <1>2, <3>1 DEF CancelReturns, Settle
  <2>4. CancelsQueuedOnce'
    BY <1>2, <2>1, <2>3 DEF CancelReturns, ReachInv, CancelsQueuedOnce
  <2>5. CancelActedOn' /\ PullErrorStays'
    BY <1>0, <1>2, <2>1, <2>2, <2>3 DEF CancelReturns, ReachInv, CancelActedOn, PullErrorStays
  <2>6. CancelReachesSource'
    BY <1>2, <2>1, <2>2 DEF CancelReturns, CancelReachesSource
  <2> QED
    BY <2>4, <2>5, <2>6 DEF ReachInv
<1>3. CASE StartPull \/ PullNotWanted
  BY <1>0, <1>1, <1>3 DEF StartPull, PullNotWanted, Inner
<1>4. CASE PullPending
  BY <1>1, <1>4 DEF PullPending
<1>5. CASE PullReturns
  <2>1. CASE inner.cancelRequested /\ cancelFuture = None
    BY <1>5, <2>1 DEF PullReturns, ReachInv, CancelsQueuedOnce, CancelActedOn, PullErrorStays,
       CancelReachesSource
  <2>2. CASE ~(inner.cancelRequested /\ cancelFuture = None)
    BY <1>0, <1>1, <1>5, <2>2 DEF PullReturns, SourceBack, Inner
  <2> QED
    BY <2>1, <2>2
<1>6. CASE PullFails
  <2>1. /\ UNCHANGED <<inner.cancelReason, inner.cancelCompletions>>
        /\ inner'.state = "Errored" /\ inner'.error = "pull"
    BY <1>0, <1>6 DEF PullFails, Errored, Inner
  <2> QED
    BY <1>6, <2>1 DEF PullFails, ReachInv, CancelsQueuedOnce, CancelActedOn, PullErrorStays,
       CancelReachesSource
<1>7. CASE StorePullError
  <2>1. /\ UNCHANGED <<inner.cancelReason, inner.state, inner.error>>
        /\ inner'.cancelCompletions \in {{}, inner.cancelCompletions}
    BY <1>0, <1>7 DEF StorePullError, Inner
  <2>2. inner.error = "pull"
    BY <1>7 DEF StorePullError, ReachInv, PullErrorStays
  <2>3. \A x \in Cancels : /\ x # inner.cancelReason => result'[x] = result[x]
                           /\ result[x] # "unsent" => result'[x] # "unsent"
    <3>1. inner.cancelCompletions \subseteq {inner.cancelReason}
      BY DEF ReachInv, CancelActedOn
    <3>2. WaitingReads \cap Cancels = {}
      BY WaitingReadsType, DisjointAssumption
    <3> QED
      BY <1>0, <1>7, <3>1, <3>2 DEF StorePullError, Settle
  <2>4. CancelsQueuedOnce'
    BY <1>7, <2>1, <2>3 DEF StorePullError, ReachInv, CancelsQueuedOnce
  <2>5. CancelActedOn' /\ PullErrorStays' /\ CancelReachesSource'
    BY <1>0, <1>7, <2>1, <2>2, <2>3
    DEF StorePullError, ReachInv, CancelActedOn, PullErrorStays, CancelReachesSource
  <2> QED
    BY <2>4, <2>5 DEF ReachInv
<1>8. CASE TaskDropped
  <2>1. /\ UNCHANGED <<inner.cancelReason, inner.state, inner.error, ended>>
        /\ inner'.cancelCompletions = {} /\ cancelFuture' = None /\ cmds' = <<>>
    BY <1>0, <1>8 DEF TaskDropped, Inner
  <2>2. \A x \in Cancels : /\ result[x] # "unsent" => result'[x] # "unsent"
                           /\ result'[x] \in {"ok", "failed"} => result'[x] = result[x]
    BY <1>0, <1>8 DEF TaskDropped, Settle
  <2>3. CancelsQueuedOnce'
    BY <2>1 DEF CancelsQueuedOnce
  <2>4. CancelActedOn' /\ PullErrorStays' /\ CancelReachesSource'
    BY <1>0, <1>8, <2>1, <2>2
    DEF TaskDropped, ReachInv, CancelActedOn, PullErrorStays, CancelReachesSource
  <2> QED
    BY <2>3, <2>4 DEF ReachInv
<1>9. ASSUME NEW r \in {"ok", "err"}, PullEnds(r) PROVE ReachInv'
  BY <1>1, <1>9 DEF PullEnds
<1>10. ASSUME NEW r \in {"ok", "err"}, CancelEnds(r) PROVE ReachInv'
  BY <1>10 DEF CancelEnds, None, ReachInv, CancelsQueuedOnce, CancelActedOn, PullErrorStays,
     CancelReachesSource
<1> QED
  BY <1>2, <1>3, <1>4, <1>5, <1>6, <1>7, <1>8, <1>9, <1>10 DEF SourceStep

(* No step loses a cancel. *)
LEMMA ReachStep == Typed /\ CustodyInv /\ ReachInv /\ [Next]_vars => ReachInv'
<1> SUFFICES ASSUME Typed, CustodyInv, ReachInv, [Next]_vars PROVE ReachInv'
  OBVIOUS
<1>1. CASE UNCHANGED vars
  BY <1>1 DEF vars, callerVars, taskVars, histVars, ReachInv, CancelsQueuedOnce, CancelActedOn,
     PullErrorStays, CancelReachesSource
<1> QED
  BY <1>1, ReachCallerStep, ReachMessageStep, ReachCommandStep, ReachSourceStep
  DEF Next, PollStep

\* A cancel that ended a stream settles only once the source was told of it, in
\* its slot or after the pull it was in was cut short, unless that pull failed
\* and took the source with it.
THEOREM CancelReachesSourceHolds == Spec => []CancelReachesSource
<1>1. ReachInv => CancelReachesSource
  BY DEF ReachInv
<1> QED
  BY InitTyped, StepTyped, InitCustody, CustodyStep, InitReach, ReachStep, <1>1, PTL DEF Spec

-----------------------------------------------------------------------------
(* Pull requests                                                            *)

StallInv ==
    /\ NoStalledPull
    /\ pc = "drive" => pull.at # None

(* No step leaves a demand that nobody will look at. *)
LEMMA StallStep == Typed /\ CustodyInv /\ StallInv /\ [Next]_vars => StallInv'
<1> SUFFICES ASSUME Typed, CustodyInv, StallInv, [Next]_vars PROVE StallInv'
  OBVIOUS
<1> USE DEF callerVars, waitVars, taskVars, histVars
<1>0. inner \in Inner
  BY DEF Typed
<1>1. ASSUME UNCHANGED <<pc, inner, pull>>, scheduled => scheduled' PROVE StallInv'
  BY <1>1 DEF StallInv, NoStalledPull, Accepting
<1>2. ASSUME pc' \notin {"idle", "drive"} PROVE StallInv'
  BY <1>2 DEF StallInv, NoStalledPull
<1>3. CASE ControllerStep \/ ReaderStep \/ (\E c \in Waiters : WaiterStep(c))
  <2>1. scheduled => scheduled'
    <3>1. CASE ControllerStep
      BY <3>1 DEF ControllerStep, Enqueue, Close, Error, Checks, Sends
    <3>2. CASE ReaderStep
      BY <3>2 DEF ReaderStep, Read, Cancel, Request, Abandon, Send
    <3>3. CASE \E c \in Waiters : WaiterStep(c)
      BY <3>3 DEF WaiterStep, ReadyPoll, ClosedPoll, Register, Recheck, Send
    <3> QED
      BY <1>3, <3>1, <3>2, <3>3
  <2> QED
    BY <1>1, <1>3, <2>1, CallersLeaveTask
<1>4. CASE StartStep
  BY <1>2, <1>4 DEF StartStep, StartSucceeds, StartFails, StoreStartError
<1>5. CASE MessageStep
  BY <1>2, <1>5 DEF MessageStep, EnqueueToRead, EnqueueToQueue, MessageIgnored, CloseNow, CloseLater,
     ErrorArrives, StoreControllerError, ControlDrained
<1>6. CASE CommandStep
  <2>1. pc' = "commands"
    BY <1>6 DEF CommandStep, Takes, CommandReadEnded, CommandReadChunk, CommandReadParks,
       CommandCancelMoot, CommandCancel, CommandRegisterReady, CommandRegisterClosed
  <2> QED
    BY <1>2, <2>1
<1>7. CASE SourceStep
  <2>1. CASE CancelReturns
    BY <1>2, <2>1 DEF CancelReturns
  <2>2. CASE StartPull
    BY <2>2 DEF StartPull, StallInv, NoStalledPull, None
  <2>3. CASE PullNotWanted
    <3>1. ~inner'.needsPull
      BY <1>0, <2>3 DEF PullNotWanted, Inner
    <3> QED
      BY <2>3, <3>1 DEF PullNotWanted, StallInv, NoStalledPull
  <2>4. CASE PullPending
    <3>1. CASE pc = "drive"
      BY <2>4, <3>1 DEF PullPending, StallInv, NoStalledPull
    <3>2. CASE AtGate /\ ~PullDue
      <4>1. inner.state = "Readable" => ~inner.cancelRequested
        BY <3>2 DEF AtGate, CustodyInv, Custody, CancelLeavesReadable
      <4> QED
        BY <2>4, <3>2, <4>1 DEF PullPending, PullDue, StallInv, NoStalledPull, Accepting
    <3> QED
      BY <2>4, <3>1, <3>2 DEF PullPending, AtDrive
  <2>5. CASE PullReturns \/ StorePullError
    BY <2>5 DEF PullReturns, StorePullError, PollAgain, StallInv, NoStalledPull
  <2>6. CASE PullFails
    BY <1>2, <2>6 DEF PullFails
  <2> QED
    BY <1>7, <2>1, <2>2, <2>3, <2>4, <2>5, <2>6 DEF SourceStep
<1>8. CASE TaskDropped
  BY <1>2, <1>8 DEF TaskDropped
<1>9. ASSUME NEW r \in {"ok", "err"}, PullEnds(r) PROVE StallInv'
  <2>1. pull'.at = r
    BY <1>9 DEF PullEnds, Typed
  <2> QED
    BY <1>9, <2>1 DEF PullEnds, StallInv, NoStalledPull, None
<1>10. ASSUME NEW r \in {"ok", "err"}, CancelEnds(r) PROVE StallInv'
  BY <1>1, <1>10 DEF CancelEnds
<1>11. CASE UNCHANGED vars
  BY <1>1, <1>11 DEF vars
<1> QED
  BY <1>3, <1>4, <1>5, <1>6, <1>7, <1>8, <1>9, <1>10, <1>11 DEF Next, PollStep

\* The request flag is edge-triggered and used up even when nothing is pulled,
\* but a task that sleeps with its stream open and no pull running has none
\* left over.
THEOREM NoStalledPullHolds == Spec => []NoStalledPull
<1>1. Init => StallInv
  BY DEF Init, StallInv, NoStalledPull
<1>2. StallInv => NoStalledPull
  BY DEF StallInv
<1> QED
  BY InitTyped, StepTyped, InitCustody, CustodyStep, StallStep, <1>1, <1>2, PTL DEF Spec

-----------------------------------------------------------------------------
(* The size of the queue                                                    *)

\* The flags of a readable stream are down, and its sizes agree; only a task
\* that was dropped leaves a size behind.
AccountInv ==
    /\ flags.total = inner.total /\ inner.total >= 0
    /\ pc # "done" => inner.total = Total(inner.queue, Size)
    /\ inner.state = "Readable" => ~flags.closed /\ ~flags.errored
    /\ inner.state = "Readable" /\ ~inner.closePending => flags.desired = HWM - inner.total

(* The queue is empty when the task is spawned. *)
LEMMA InitAccount == Init => AccountInv
<1>1. <<>> \in Seq(Chunks)
  OBVIOUS
<1>2. Total(<<>>, Size) = 0
  BY <1>1, TotalType, NumbersAssumption
<1> QED
  BY <1>2, NumbersAssumption DEF Init, AccountInv

\* The state a step leaves of the queue and its size.
LEMMA AccountFrame ==
    ASSUME AccountInv, UNCHANGED <<inner.queue, inner.total, inner.closePending, flags.total>>,
           pc' # "done", pc # "done",
           \/ UNCHANGED <<inner.state, flags.desired, flags.closed, flags.errored>>
           \/ inner'.state # "Readable"
    PROVE  AccountInv'
  BY DEF AccountInv

(* Neither controllers, readers nor the start of the source change the size. *)
LEMMA AccountCallerStep ==
    ASSUME Typed, CustodyInv, AccountInv,
           ControllerStep \/ ReaderStep \/ (\E c \in Waiters : WaiterStep(c)) \/ StartStep
    PROVE  AccountInv'
<1> USE DEF callerVars, waitVars, taskVars, histVars
<1>0. inner \in Inner /\ flags \in Flags
  BY DEF Typed
<1>1. ASSUME UNCHANGED <<inner, pc>>,
             UNCHANGED <<flags.total, flags.desired, flags.closed, flags.errored>>
      PROVE  AccountInv'
  BY <1>1 DEF AccountInv
<1>2. CASE ControllerStep
  <2>1. /\ [flags EXCEPT !.closeRequested = TRUE].total = flags.total
        /\ [flags EXCEPT !.closeRequested = TRUE].desired = flags.desired
        /\ [flags EXCEPT !.closeRequested = TRUE].closed = flags.closed
        /\ [flags EXCEPT !.closeRequested = TRUE].errored = flags.errored
        /\ [flags EXCEPT !.errorRequested = TRUE].total = flags.total
        /\ [flags EXCEPT !.errorRequested = TRUE].desired = flags.desired
        /\ [flags EXCEPT !.errorRequested = TRUE].closed = flags.closed
        /\ [flags EXCEPT !.errorRequested = TRUE].errored = flags.errored
    BY <1>0 DEF Flags
  <2> QED
    BY <1>1, <1>2, <2>1 DEF ControllerStep, Enqueue, Close, Error, Checks, Sends
<1>3. CASE ReaderStep
  BY <1>1, <1>3 DEF ReaderStep, Read, Cancel, Request, Abandon
<1>4. CASE \E c \in Waiters : WaiterStep(c)
  BY <1>1, <1>4 DEF WaiterStep, ReadyPoll, ClosedPoll, Register, Recheck
<1>5. CASE StartSucceeds
  <2>1. UNCHANGED <<inner.queue, inner.total, inner.closePending, inner.state>>
    BY <1>0, <1>5 DEF StartSucceeds, SourceBack, Inner
  <2> QED
    BY <1>5, <2>1, AccountFrame DEF StartSucceeds
<1>6. CASE StartFails
  <2>1. UNCHANGED <<inner.queue, inner.total, inner.closePending>> /\ inner'.state = "Errored"
    BY <1>0, <1>6 DEF StartFails, Errored, Inner
  <2>2. flags'.total = flags.total
    BY <1>0, <1>6 DEF StartFails, Flags
  <2> QED
    BY <1>6, <2>1, <2>2 DEF StartFails, AccountInv
<1>7. CASE StoreStartError
  <2>1. flags'.total = flags.total /\ inner.state = "Errored"
    BY <1>0, <1>7 DEF StoreStartError, Flags, CustodyInv, WhileErring
  <2> QED
    BY <1>7, <2>1, AccountFrame DEF StoreStartError
<1> QED
  BY <1>2, <1>3, <1>4, <1>5, <1>6, <1>7 DEF StartStep

\* What a sum is made of.
LEMMA SizesType == Size \in [Chunks -> Nat] /\ HWM \in Nat
  BY NumbersAssumption

(* Messages keep the count. *)
LEMMA AccountMessageStep ==
    ASSUME Typed, CustodyInv, AccountInv, MessageStep
    PROVE  AccountInv'
<1> USE DEF callerVars, waitVars, taskVars, histVars
<1>0. inner \in Inner /\ flags \in Flags /\ inner.queue \in Seq(Chunks) /\ inner.total \in Int
  BY DEF Typed, Inner
<1>1. ASSUME NEW op, NEW id, MessageIgnored(op, id) PROVE AccountInv'
  BY <1>1, AccountFrame DEF MessageIgnored, Receives, InControl
<1>2. ASSUME NEW c \in Chunks, EnqueueToRead(c) PROVE AccountInv'
  <2>1. UNCHANGED <<inner.queue, inner.total, inner.closePending, inner.state>>
    BY <1>0, <1>2 DEF EnqueueToRead, Inner
  <2> QED
    BY <1>2, <2>1, AccountFrame DEF EnqueueToRead, Receives, InControl
<1>3. ASSUME NEW c \in Chunks, EnqueueToQueue(c) PROVE AccountInv'
  <2>1. /\ inner'.queue = Append(inner.queue, c) /\ inner'.total = inner.total + Size[c]
        /\ UNCHANGED <<inner.closePending, inner.state>>
    BY <1>0, <1>3 DEF EnqueueToQueue, Inner
  <2>2. Size[c] \in Nat
    BY SizesType
  <2>3. Total(inner'.queue, Size) = Total(inner.queue, Size) + Size[c]
    BY <1>0, <2>1, SizesType, TotalAppend
  <2>4. pc # "done" /\ pc' = "control" /\ Accepting
    BY <1>3 DEF EnqueueToQueue, Receives, InControl
  <2>5. inner'.total = Total(inner'.queue, Size) /\ inner'.total >= 0
    BY <1>0, <2>1, <2>2, <2>3, <2>4 DEF AccountInv
  <2> DEFINE f == [flags EXCEPT !.total = inner'.total]
  <2>6. f.total = inner'.total /\ f.closed = flags.closed /\ f.errored = flags.errored /\ f \in Flags
    BY <1>0, <2>1, <2>2 DEF Flags
  <2>7. flags' = UpdateDesiredSize(f)
    BY <1>3 DEF EnqueueToQueue
  <2>8. /\ flags'.total = inner'.total /\ flags'.desired = HWM - inner'.total
        /\ flags'.closed = flags.closed /\ flags'.errored = flags.errored
    <3>1. ~flags.closed /\ ~flags.errored
      BY <2>4 DEF AccountInv, Accepting
    <3> HIDE DEF f
    <3> QED
      BY <2>6, <2>7, <3>1 DEF UpdateDesiredSize, Flags
  <2> QED
    BY <2>1, <2>4, <2>5, <2>8 DEF AccountInv
<1>4. ASSUME NEW k \in Closings, CloseNow(k) PROVE AccountInv'
  <2>1. UNCHANGED <<inner.queue, inner.total, inner.closePending>> /\ inner'.state = "Closed"
    BY <1>0, <1>4 DEF CloseNow, Inner
  <2>2. flags'.total = flags.total
    BY <1>0, <1>4 DEF CloseNow, Flags
  <2> QED
    BY <1>4, <2>1, <2>2, AccountFrame DEF CloseNow, Receives, InControl
<1>5. ASSUME NEW k \in Closings, CloseLater(k) PROVE AccountInv'
  <2>1. UNCHANGED <<inner.queue, inner.total, inner.state>> /\ inner'.closePending
    BY <1>0, <1>5 DEF CloseLater, Inner
  <2>2. UNCHANGED <<flags.total, flags.closed, flags.errored>>
    BY <1>0, <1>5 DEF CloseLater, Flags
  <2> QED
    BY <1>5, <2>1, <2>2 DEF AccountInv, CloseLater, Receives, InControl
<1>6. ASSUME NEW e \in Errors, ErrorArrives(e) PROVE AccountInv'
  <2>1. UNCHANGED <<inner.queue, inner.total>> /\ inner'.state = "Errored"
    BY <1>0, <1>6 DEF ErrorArrives, Errored, Inner
  <2>2. flags'.total = flags.total
    BY <1>0, <1>6 DEF ErrorArrives, Flags
  <2> QED
    BY <1>6, <2>1, <2>2 DEF AccountInv, ErrorArrives, Receives, InControl
<1>7. CASE StoreControllerError
  <2>1. inner'.queue = <<>> /\ inner'.total = 0 /\ UNCHANGED <<inner.state, inner.closePending>>
    BY <1>0, <1>7 DEF StoreControllerError, Emptied, Inner
  <2>2. flags'.total = 0 /\ UNCHANGED <<flags.desired, flags.closed, flags.errored>>
    BY <1>0, <1>7 DEF StoreControllerError, Flags
  <2>3. Total(inner'.queue, Size) = 0 /\ inner.state # "Readable"
    <3>1. <<>> \in Seq(Chunks)
      OBVIOUS
    <3>2. Total(<<>>, Size) = 0
      BY <3>1, SizesType, TotalType
    <3> QED
      BY <1>7, <2>1, <3>2 DEF StoreControllerError, CustodyInv, WhileErring
  <2> QED
    BY <1>7, <2>1, <2>2, <2>3 DEF AccountInv, StoreControllerError
<1>8. CASE ControlDrained
  BY <1>8, AccountFrame DEF ControlDrained, InControl
<1> QED
  BY <1>1, <1>2, <1>3, <1>4, <1>5, <1>6, <1>7, <1>8 DEF MessageStep

(* A read that takes a chunk takes its size. *)
LEMMA AccountReadChunk ==
    ASSUME Typed, AccountInv, NEW r \in Reads, CommandReadChunk(r)
    PROVE  AccountInv'
<1> DEFINE c == Head(inner.queue)
           total == inner.total - Size[c]
           taken == [inner EXCEPT !.queue = Tail(@), !.total = total, !.needsPull = TRUE]
           drained == inner.closePending /\ taken.queue = <<>>
           sized == [flags EXCEPT !.total = total]
           counted == UpdateDesiredSize(sized)
<1>0. inner \in Inner /\ flags \in Flags /\ inner.queue \in Seq(Chunks) /\ inner.total \in Int
      /\ inner.queue # <<>> /\ inner.state \in {"Readable", "Closed"}
  BY DEF Typed, Inner, CommandReadChunk
<1>1. c \in Chunks /\ Size[c] \in Nat /\ total \in Int /\ Tail(inner.queue) \in Seq(Chunks)
  BY <1>0, SizesType
<1>2. pc # "done" /\ pc' = pc
  BY DEF CommandReadChunk, Takes
<1>3. total = Total(Tail(inner.queue), Size) /\ total >= 0
  <2>1. Total(inner.queue, Size) = Size[c] + Total(Tail(inner.queue), Size)
    BY <1>0, SizesType, TotalTail
  <2>2. Total(Tail(inner.queue), Size) \in Nat
    BY <1>1, SizesType, TotalType
  <2> QED
    BY <1>0, <1>1, <1>2, <2>1, <2>2 DEF AccountInv
<1> HIDE DEF total
<1>4. /\ taken.queue = Tail(inner.queue) /\ taken.total = total
      /\ taken.closePending = inner.closePending /\ taken.state = inner.state
      /\ [taken EXCEPT !.state = "Closed", !.closePending = FALSE].queue = taken.queue
      /\ [taken EXCEPT !.state = "Closed", !.closePending = FALSE].total = total
      /\ [taken EXCEPT !.state = "Closed", !.closePending = FALSE].state = "Closed"
  BY <1>0 DEF Inner
<1>5. /\ sized.total = total /\ sized.closed = flags.closed /\ sized.errored = flags.errored
      /\ sized \in Flags
  BY <1>0, <1>1 DEF Flags
<1> HIDE DEF sized
<1>6. /\ counted.total = total /\ counted.closed = flags.closed /\ counted.errored = flags.errored
      /\ (inner.state = "Readable" => counted.desired = HWM - total)
      /\ [counted EXCEPT !.closed = TRUE, !.desired = 0].total = total
  <2>1. counted \in Flags
    BY <1>5, UpdateDesiredSizeType
  <2>2. /\ counted.total = total /\ counted.closed = flags.closed /\ counted.errored = flags.errored
        /\ (inner.state = "Readable" => counted.desired = HWM - total)
    BY <1>5 DEF UpdateDesiredSize, Flags, AccountInv
  <2> HIDE DEF counted
  <2> QED
    BY <2>1, <2>2 DEF Flags
<1> HIDE DEF taken, counted
<1>7. /\ inner' = IF drained THEN [taken EXCEPT !.state = "Closed", !.closePending = FALSE] ELSE taken
      /\ flags' = IF drained THEN [counted EXCEPT !.closed = TRUE, !.desired = 0] ELSE counted
  BY DEF CommandReadChunk, taken, counted, total, sized
<1> HIDE DEF drained, c
<1>8. CASE drained
  BY <1>2, <1>3, <1>4, <1>6, <1>7, <1>8 DEF AccountInv
<1>9. CASE ~drained
  BY <1>2, <1>3, <1>4, <1>6, <1>7, <1>9 DEF AccountInv
<1> QED
  BY <1>8, <1>9

(* Commands keep the count. *)
LEMMA AccountCommandStep ==
    ASSUME Typed, CustodyInv, AccountInv, CommandStep
    PROVE  AccountInv'
<1> USE DEF callerVars, waitVars, taskVars, histVars
<1>0. inner \in Inner /\ flags \in Flags
  BY DEF Typed
<1>1. ASSUME NEW op, NEW id, Takes(op, id), UNCHANGED <<inner, flags>> PROVE AccountInv'
  BY <1>1, AccountFrame DEF Takes
<1>2. ASSUME NEW r \in Reads, CommandReadParks(r) PROVE AccountInv'
  <2>1. UNCHANGED <<inner.queue, inner.total, inner.closePending, inner.state>>
    BY <1>0, <1>2 DEF CommandReadParks, Park, Inner
  <2> QED
    BY <1>2, <2>1, AccountFrame DEF CommandReadParks, Takes
<1>3. ASSUME NEW x \in Cancels, CommandCancel(x) PROVE AccountInv'
  <2>1. inner'.queue = <<>> /\ inner'.total = 0 /\ inner'.state = "Closed"
    BY <1>0, <1>3 DEF CommandCancel, Emptied, Inner
  <2>2. flags'.total = 0
    BY <1>0, <1>3 DEF CommandCancel, Flags
  <2>3. Total(inner'.queue, Size) = 0
    <3>1. <<>> \in Seq(Chunks)
      OBVIOUS
    <3>2. Total(<<>>, Size) = 0
      BY <3>1, SizesType, TotalType
    <3> QED
      BY <2>1, <3>2
  <2> QED
    BY <2>1, <2>2, <2>3 DEF AccountInv
<1>4. ASSUME NEW r \in Reads, CommandReadEnded(r) PROVE AccountInv'
  BY <1>1, <1>4 DEF CommandReadEnded
<1>5. ASSUME NEW x \in Cancels, CommandCancelMoot(x) PROVE AccountInv'
  BY <1>1, <1>5 DEF CommandCancelMoot
<1>6. ASSUME NEW c \in Waiters, CommandRegisterReady(c) \/ CommandRegisterClosed(c) PROVE AccountInv'
  BY <1>1, <1>6 DEF CommandRegisterReady, CommandRegisterClosed
<1> QED
  BY <1>2, <1>3, <1>4, <1>5, <1>6, AccountReadChunk DEF CommandStep, Waiters

(* What the source returns keeps the count. *)
LEMMA AccountSourceStep ==
    ASSUME Typed, CustodyInv, AccountInv,
           SourceStep \/ (\E r \in {"ok", "err"} : PullEnds(r) \/ CancelEnds(r))
    PROVE  AccountInv'
<1> USE DEF callerVars, waitVars, taskVars, histVars
<1>0. inner \in Inner /\ flags \in Flags
  BY DEF Typed
<1>1. ASSUME pc # "done", pc' # "done", flags' = flags,
             UNCHANGED <<inner.queue, inner.total, inner.closePending, inner.state>>
      PROVE  AccountInv'
  BY <1>1, AccountFrame
<1>2. AtDrive \/ AtGate => pc # "done"
  BY DEF AtDrive, AtGate
<1>3. CASE CancelReturns
  BY <1>0, <1>1, <1>3 DEF CancelReturns, Inner
<1>4. CASE StartPull \/ PullNotWanted
  BY <1>0, <1>1, <1>2, <1>4 DEF StartPull, PullNotWanted, Inner
<1>5. CASE PullPending
  BY <1>1, <1>2, <1>5 DEF PullPending
<1>6. CASE PullReturns
  <2>1. UNCHANGED <<inner.queue, inner.total, inner.closePending, inner.state>>
    BY <1>0, <1>6 DEF PullReturns, SourceBack, Inner
  <2> QED
    BY <1>1, <1>2, <1>6, <2>1 DEF PullReturns
<1>7. CASE PullFails
  <2>1. UNCHANGED <<inner.queue, inner.total, inner.closePending>> /\ inner'.state = "Errored"
    BY <1>0, <1>7 DEF PullFails, Errored, Inner
  <2>2. flags'.total = flags.total
    BY <1>0, <1>7 DEF PullFails, Flags
  <2> QED
    BY <1>2, <1>7, <2>1, <2>2, AccountFrame DEF PullFails
<1>8. CASE StorePullError
  BY <1>0, <1>1, <1>8 DEF StorePullError, Inner
<1>9. ASSUME NEW r \in {"ok", "err"}, PullEnds(r) \/ CancelEnds(r) PROVE AccountInv'
  BY <1>1, <1>9 DEF PullEnds, CancelEnds
<1> QED
  BY <1>3, <1>4, <1>5, <1>6, <1>7, <1>8, <1>9 DEF SourceStep

(* Every step keeps the count. *)
LEMMA AccountStep == Typed /\ CustodyInv /\ AccountInv /\ [Next]_vars => AccountInv'
<1> SUFFICES ASSUME Typed, CustodyInv, AccountInv, [Next]_vars PROVE AccountInv'
  OBVIOUS
<1>1. CASE UNCHANGED vars
  BY <1>1 DEF vars, taskVars, AccountInv
<1>2. CASE TaskDropped
  <2>1. UNCHANGED <<inner.total, inner.state, inner.closePending>>
    BY <1>2 DEF TaskDropped, Typed, Inner
  <2> QED
    BY <1>2, <2>1 DEF TaskDropped, AccountInv
<1> QED
  BY <1>1, <1>2, AccountCallerStep, AccountMessageStep, AccountCommandStep, AccountSourceStep
  DEF Next, PollStep

\* queue_total_size never goes below zero, whatever chunks are sent, read, or
\* thrown away.
THEOREM TypesHold == Spec => []TypeOK
<1>1. Typed /\ AccountInv => TypeOK
  BY DEF AccountInv, TypeOK
<1> QED
  BY InitTyped, StepTyped, InitCustody, CustodyStep, InitAccount, AccountStep, <1>1, PTL DEF Spec

\* queue_total_size, its atomic and the desired size follow the queue, through
\* every order of enqueue, read, close, error and cancel.
THEOREM AccountingHolds == Spec => []Accounting
<1>1. AccountInv => Accounting
  BY DEF AccountInv, Accounting
<1> QED
  BY InitTyped, StepTyped, InitCustody, CustodyStep, InitAccount, AccountStep, <1>1, PTL DEF Spec

-----------------------------------------------------------------------------
(* Where the chunks are                                                     *)

\* Chunk c is in the channel, in the queue, or given.
Kept(c) ==
    \/ [op |-> "enqueue", id |-> c] \in Elements(ctrls)
    \/ c \in Elements(inner.queue)
    \/ \E k \in 1..Len(delivered) : delivered[k].chunk = c

(* What a sequence gains or loses when an element joins or leaves it.       *)
LEMMA ElementsMove ==
    ASSUME NEW T, NEW s \in Seq(T)
    PROVE  /\ \A x \in T : Elements(Append(s, x)) = Elements(s) \cup {x}
           /\ s # <<>> => Elements(s) = {Head(s)} \cup Elements(Tail(s))
           /\ Elements(<<>>) = {}
<1>1. ASSUME NEW x \in T PROVE Elements(Append(s, x)) = Elements(s) \cup {x}
  <2>1. /\ Len(Append(s, x)) = Len(s) + 1 /\ Append(s, x)[Len(s) + 1] = x
        /\ \A k \in 1..Len(s) : Append(s, x)[k] = s[k]
    OBVIOUS
  <2>2. 1..Len(s) + 1 = (1..Len(s)) \cup {Len(s) + 1}
    OBVIOUS
  <2> QED
    BY <2>1, <2>2 DEF Elements
<1>2. ASSUME s # <<>> PROVE Elements(s) = {Head(s)} \cup Elements(Tail(s))
  <2> DEFINE t == Tail(s)
  <2>1. /\ Head(s) = s[1] /\ Len(s) \in Nat \ {0} /\ Len(t) = Len(s) - 1
        /\ \A k \in 1..Len(t) : k + 1 \in 1..Len(s) /\ t[k] = s[k + 1]
    BY <1>2, OffTheFront
  <2>2. 1 \in 1..Len(s) /\ \A k \in 1..Len(s) : k = 1 \/ (k - 1 \in 1..Len(t) /\ t[k - 1] = s[k])
    <3> HIDE DEF t
    <3> QED
      BY <2>1
  <2> HIDE DEF t
  <2> QED
    BY <2>1, <2>2 DEF Elements
<1>3. Elements(<<>>) = {}
  BY DEF Elements
<1> QED
  BY <1>1, <1>2, <1>3

\* What the channel, the queue and the reads keep of a chunk stays there.
LEMMA LossFrame ==
    ASSUME NoChunkLost,
           Accepting' /\ pc' # "done" => Accepting /\ pc # "done",
           Accepting' /\ pc' # "done" => \A c \in Chunks : posted'[c] = "sent" =>
               Kept(c)' \/ (posted[c] = "sent" /\ (Kept(c) => Kept(c)'))
    PROVE  NoChunkLost'
<1> SUFFICES ASSUME Accepting', pc' # "done", NEW c \in Chunks, posted'[c] = "sent"
             PROVE  Kept(c)'
  BY DEF NoChunkLost, Accepting, Kept
<1>1. posted[c] = "sent" => Kept(c)
  BY DEF NoChunkLost, Accepting, Kept
<1> QED
  BY <1>1

(* A chunk that is sent is in the channel. *)
LEMMA LossCallerStep ==
    ASSUME Typed, NoChunkLost, ControllerStep \/ ReaderStep \/ (\E c \in Waiters : WaiterStep(c))
    PROVE  NoChunkLost'
<1> USE DEF callerVars, waitVars, taskVars, histVars
<1>0. UNCHANGED <<pc, inner, delivered>>
  BY CallersLeaveTask
<1>1. ASSUME NEW p \in Posts, NEW op \in {"enqueue", "close", "error"}, Sends(p, op),
             p \in Chunks => op = "enqueue"
      PROVE  NoChunkLost'
  <2>1. ctrls \in Seq(Messages) /\ [op |-> op, id |-> p] \in Messages
    BY DEF Typed, Messages
  <2>2. pc # "done" => Elements(ctrls') = Elements(ctrls) \cup {[op |-> op, id |-> p]}
    BY <1>1, <2>1, ElementsMove DEF Sends
  <2>3. \A c \in Chunks : posted'[c] = posted[c] \/ c = p
    BY <1>1 DEF Sends, Typed, Posts
  <2> QED
    BY <1>0, <1>1, <2>2, <2>3, LossFrame DEF Kept, Accepting
<1>2. ASSUME NEW p \in Posts, NEW refused \in BOOLEAN, Checks(p, refused)
      PROVE  NoChunkLost'
  <2>1. \A c \in Chunks : posted'[c] = "sent" => posted[c] = "sent"
    BY <1>2 DEF Checks, Typed, Posts
  <2> QED
    BY <1>0, <1>2, <2>1, LossFrame DEF Kept, Accepting, Checks
<1>3. ASSUME UNCHANGED <<posted, ctrls>> PROVE NoChunkLost'
  BY <1>0, <1>3 DEF NoChunkLost
<1>4. CASE ControllerStep
  <2>1. Unusable \in BOOLEAN /\ (flags.closed \/ flags.errored \/ flags.errorRequested) \in BOOLEAN
    BY DEF Unusable
  <2>2. ASSUME NEW c \in Chunks, Enqueue(c) PROVE NoChunkLost'
    BY <2>1, <2>2, <1>1, <1>2 DEF Enqueue, Posts
  <2>3. ASSUME NEW k \in Closings, Close(k) PROVE NoChunkLost'
    BY <2>1, <2>3, <1>1, <1>2, DisjointAssumption DEF Close, Posts
  <2>4. ASSUME NEW e \in Errors, Error(e) PROVE NoChunkLost'
    BY <2>1, <2>4, <1>1, <1>2, DisjointAssumption DEF Error, Posts
  <2> QED
    BY <1>4, <2>2, <2>3, <2>4 DEF ControllerStep
<1>5. CASE ReaderStep
  BY <1>3, <1>5 DEF ReaderStep, Read, Cancel, Request, Abandon
<1>6. CASE \E c \in Waiters : WaiterStep(c)
  BY <1>3, <1>6 DEF WaiterStep, ReadyPoll, ClosedPoll, Register, Recheck
<1> QED
  BY <1>4, <1>5, <1>6

(* A message the task takes leaves its chunk in the queue or with a read. *)
LEMMA LossMessageStep ==
    ASSUME Typed, CustodyInv, NoChunkLost, MessageStep
    PROVE  NoChunkLost'
<1> USE DEF callerVars, waitVars, taskVars, histVars
<1>0. /\ inner \in Inner /\ inner.queue \in Seq(Chunks) /\ inner.pendingReads \in Seq(Reads)
      /\ ctrls \in Seq(Messages) /\ delivered \in Seq([read : Reads, chunk : Chunks])
  BY DEF Typed, Inner
\* The head of the channel is gone; every other message is still in it.
<1>1. ASSUME NEW op, NEW id, Receives(op, id)
      PROVE  /\ posted' = posted /\ pc # "done"
             /\ \A c \in Chunks : [op |-> "enqueue", id |-> c] \in Elements(ctrls) =>
                    \/ [op |-> "enqueue", id |-> c] \in Elements(ctrls')
                    \/ op = "enqueue" /\ id = c
  <2>1. Elements(ctrls) = {[op |-> op, id |-> id]} \cup Elements(ctrls')
    BY <1>0, <1>1, ElementsMove DEF Receives
  <2>2. \A c : [op |-> "enqueue", id |-> c] = [op |-> op, id |-> id] => op = "enqueue" /\ id = c
    OBVIOUS
  <2> QED
    BY <1>1, <2>1, <2>2 DEF Receives, InControl
<1>2. ASSUME NEW op, NEW id, Receives(op, id), op # "enqueue", ~Accepting' \/ Accepting,
             UNCHANGED <<inner.queue, delivered>>
      PROVE  NoChunkLost'
  BY <1>1, <1>2, LossFrame DEF Kept
<1>3. ASSUME NEW c \in Chunks, EnqueueToRead(c) PROVE NoChunkLost'
  <2>1. UNCHANGED <<inner.queue, inner.state, inner.closePending>>
    BY <1>0, <1>3 DEF EnqueueToRead, Inner
  <2>2. Head(inner.pendingReads) \in Reads
    BY <1>0, <1>3 DEF EnqueueToRead
  <2> DEFINE d == [read |-> Head(inner.pendingReads), chunk |-> c]
  <2>3. delivered' = Append(delivered, d) /\ d \in [read : Reads, chunk : Chunks] /\ d.chunk = c
    BY <1>3, <2>2 DEF EnqueueToRead, Deliver
  <2> HIDE DEF d
  <2>4. /\ Len(delivered') = Len(delivered) + 1 /\ delivered'[Len(delivered) + 1] = d
        /\ \A k \in 1..Len(delivered) : k \in 1..Len(delivered') /\ delivered'[k] = delivered[k]
        /\ Len(delivered) + 1 \in 1..Len(delivered')
    BY <1>0, <2>3
  <2>5. Kept(c)'
    BY <2>3, <2>4 DEF Kept
  <2>6. \A b \in Chunks : Kept(b) => Kept(b)'
    BY <1>1, <1>3, <2>1, <2>4, <2>5 DEF Kept, EnqueueToRead
  <2>7. Accepting' = Accepting
    BY <2>1 DEF Accepting
  <2> QED
    BY <1>1, <1>3, <2>6, <2>7, LossFrame DEF EnqueueToRead
<1>4. ASSUME NEW c \in Chunks, EnqueueToQueue(c) PROVE NoChunkLost'
  <2>1. inner'.queue = Append(inner.queue, c) /\ UNCHANGED <<inner.state, inner.closePending>>
    BY <1>0, <1>4 DEF EnqueueToQueue, Inner
  <2>2. Elements(inner'.queue) = Elements(inner.queue) \cup {c}
    BY <1>0, <2>1, ElementsMove
  <2>3. \A b \in Chunks : Kept(b) => Kept(b)'
    BY <1>1, <1>4, <2>2 DEF Kept, EnqueueToQueue
  <2>4. Accepting' = Accepting
    BY <2>1 DEF Accepting
  <2> QED
    BY <1>1, <1>4, <2>3, <2>4, LossFrame DEF EnqueueToQueue
<1>5. ASSUME NEW c \in Chunks, MessageIgnored("enqueue", c) PROVE NoChunkLost'
  <2>1. ~Accepting'
    BY <1>5 DEF MessageIgnored, Accepting
  <2> QED
    BY <2>1 DEF NoChunkLost, Accepting
<1>6. ASSUME NEW id, MessageIgnored("close", id) \/ MessageIgnored("error", id) PROVE NoChunkLost'
  <2>1. ~Accepting'
    BY <1>6 DEF MessageIgnored, Accepting
  <2> QED
    BY <2>1 DEF NoChunkLost, Accepting
<1>7. ASSUME NEW k \in Closings, CloseNow(k) PROVE NoChunkLost'
  <2>1. inner'.state = "Closed"
    BY <1>0, <1>7 DEF CloseNow, Inner
  <2> QED
    BY <2>1 DEF NoChunkLost
<1>8. ASSUME NEW k \in Closings, CloseLater(k) PROVE NoChunkLost'
  <2>1. inner'.closePending
    BY <1>0, <1>8 DEF CloseLater, Inner
  <2> QED
    BY <2>1 DEF NoChunkLost
<1>9. ASSUME NEW e \in Errors, ErrorArrives(e) PROVE NoChunkLost'
  <2>1. inner'.state = "Errored"
    BY <1>0, <1>9 DEF ErrorArrives, Errored, Inner
  <2> QED
    BY <2>1 DEF NoChunkLost
<1>10. CASE StoreControllerError
  <2>1. inner'.state = "Errored"
    BY <1>0, <1>10 DEF StoreControllerError, Emptied, Inner, CustodyInv, WhileErring
  <2> QED
    BY <2>1 DEF NoChunkLost
<1>11. CASE ControlDrained
  <2>1. UNCHANGED <<posted, ctrls, inner, delivered>> /\ pc # "done"
    BY <1>11 DEF ControlDrained, InControl
  <2> QED
    BY <2>1, LossFrame DEF Kept, Accepting
<1> QED
  BY <1>3, <1>4, <1>5, <1>6, <1>7, <1>8, <1>9, <1>10, <1>11 DEF MessageStep

(* A command gives a chunk to a read, or ends the stream. *)
LEMMA LossCommandStep ==
    ASSUME Typed, NoChunkLost, CommandStep
    PROVE  NoChunkLost'
<1> USE DEF callerVars, waitVars, taskVars, histVars
<1>0. /\ inner \in Inner /\ inner.queue \in Seq(Chunks)
      /\ delivered \in Seq([read : Reads, chunk : Chunks])
  BY DEF Typed, Inner
<1>1. ASSUME NEW op, NEW id, Takes(op, id),
             UNCHANGED <<inner.queue, inner.state, inner.closePending, delivered>>
      PROVE  NoChunkLost'
  BY <1>1, LossFrame DEF Kept, Accepting, Takes
<1>2. ASSUME NEW r \in Reads, CommandReadChunk(r) PROVE NoChunkLost'
  <2> DEFINE d == [read |-> r, chunk |-> Head(inner.queue)]
  <2>1. Takes("read", r) /\ inner.queue # <<>>
    BY <1>2 DEF CommandReadChunk
  <2>2. inner'.queue = Tail(inner.queue) /\ (Accepting' => Accepting)
    BY <1>0, <1>2 DEF CommandReadChunk, Inner, Accepting
  <2>3. /\ delivered' = Append(delivered, d) /\ d \in [read : Reads, chunk : Chunks]
        /\ d.chunk = Head(inner.queue)
    BY <1>0, <1>2 DEF CommandReadChunk, Deliver
  <2> HIDE DEF d
  <2>4. /\ Len(delivered') = Len(delivered) + 1 /\ delivered'[Len(delivered) + 1] = d
        /\ \A k \in 1..Len(delivered) : k \in 1..Len(delivered') /\ delivered'[k] = delivered[k]
        /\ Len(delivered) + 1 \in 1..Len(delivered')
    BY <1>0, <2>3
  <2>5. Elements(inner.queue) = {Head(inner.queue)} \cup Elements(inner'.queue)
    BY <1>0, <2>1, <2>2, ElementsMove
  <2>6. UNCHANGED <<ctrls, posted, pc>>
    BY <2>1 DEF Takes
  <2>7. \A c \in Chunks : Kept(c) => Kept(c)'
    BY <2>3, <2>4, <2>5, <2>6 DEF Kept
  <2> QED
    BY <2>2, <2>6, <2>7, LossFrame
<1>3. ASSUME NEW r \in Reads, CommandReadParks(r) PROVE NoChunkLost'
  <2>1. UNCHANGED <<inner.queue, inner.state, inner.closePending>>
    BY <1>0, <1>3 DEF CommandReadParks, Park, Inner
  <2> QED
    BY <1>1, <1>3, <2>1 DEF CommandReadParks
<1>4. ASSUME NEW x \in Cancels, CommandCancel(x) PROVE NoChunkLost'
  <2>1. inner'.state = "Closed"
    BY <1>0, <1>4 DEF CommandCancel, Emptied, Inner
  <2> QED
    BY <2>1 DEF NoChunkLost
<1>5. ASSUME NEW r \in Reads, CommandReadEnded(r) PROVE NoChunkLost'
  BY <1>1, <1>5 DEF CommandReadEnded
<1>6. ASSUME NEW x \in Cancels, CommandCancelMoot(x) PROVE NoChunkLost'
  BY <1>1, <1>6 DEF CommandCancelMoot
<1>7. ASSUME NEW c \in Waiters, CommandRegisterReady(c) \/ CommandRegisterClosed(c) PROVE NoChunkLost'
  BY <1>1, <1>7 DEF CommandRegisterReady, CommandRegisterClosed
<1> QED
  BY <1>2, <1>3, <1>4, <1>5, <1>6, <1>7 DEF CommandStep, Waiters

(* The source takes nothing back. *)
LEMMA LossSourceStep ==
    ASSUME Typed, CustodyInv, NoChunkLost,
           StartStep \/ SourceStep \/ (\E r \in {"ok", "err"} : PullEnds(r) \/ CancelEnds(r))
    PROVE  NoChunkLost'
<1> USE DEF callerVars, waitVars, taskVars, histVars
<1>0. inner \in Inner
  BY DEF Typed
<1>1. ASSUME pc # "done", UNCHANGED <<posted, ctrls, delivered>>,
             UNCHANGED <<inner.queue, inner.state, inner.closePending>>
      PROVE  NoChunkLost'
  BY <1>1, LossFrame DEF Kept, Accepting
<1>2. ASSUME inner'.state = "Errored" PROVE NoChunkLost'
  BY <1>2 DEF NoChunkLost
<1>3. AtDrive \/ AtGate => pc # "done"
  BY DEF AtDrive, AtGate
<1>4. CASE StartSucceeds
  BY <1>0, <1>1, <1>4 DEF StartSucceeds, SourceBack, Inner
<1>5. CASE StartFails \/ PullFails
  BY <1>0, <1>2, <1>5 DEF StartFails, PullFails, Errored, Inner
<1>6. CASE StoreStartError
  BY <1>1, <1>6 DEF StoreStartError
<1>7. CASE CancelReturns
  BY <1>0, <1>1, <1>7 DEF CancelReturns, Inner
<1>8. CASE StartPull \/ PullNotWanted
  BY <1>0, <1>1, <1>3, <1>8 DEF StartPull, PullNotWanted, Inner
<1>9. CASE PullPending
  BY <1>1, <1>3, <1>9 DEF PullPending
<1>10. CASE PullReturns
  <2>1. UNCHANGED <<inner.queue, inner.state, inner.closePending>>
    BY <1>0, <1>10 DEF PullReturns, SourceBack, Inner
  <2> QED
    BY <1>1, <1>3, <1>10, <2>1 DEF PullReturns
<1>11. CASE StorePullError
  BY <1>0, <1>1, <1>11 DEF StorePullError, Inner
<1>12. ASSUME NEW r \in {"ok", "err"}, PullEnds(r) \/ CancelEnds(r) PROVE NoChunkLost'
  BY <1>1, <1>12 DEF PullEnds, CancelEnds
<1> QED
  BY <1>4, <1>5, <1>6, <1>7, <1>8, <1>9, <1>10, <1>11, <1>12 DEF StartStep, SourceStep

(* No step loses a chunk. *)
LEMMA LossStep == Typed /\ CustodyInv /\ NoChunkLost /\ [Next]_vars => NoChunkLost'
<1> SUFFICES ASSUME Typed, CustodyInv, NoChunkLost, [Next]_vars PROVE NoChunkLost'
  OBVIOUS
<1>1. CASE UNCHANGED vars
  BY <1>1 DEF vars, taskVars, histVars, NoChunkLost
<1>2. CASE TaskDropped
  BY <1>2 DEF TaskDropped, NoChunkLost
<1> QED
  BY <1>1, <1>2, LossCallerStep, LossMessageStep, LossCommandStep, LossSourceStep
  DEF Next, PollStep

\* While the stream is open no chunk that was sent is lost, whatever the order
\* in which clones of the controller send and readers read or give up.
THEOREM NoChunkLostHolds == Spec => []NoChunkLost
<1>1. Init => NoChunkLost
  BY DEF Init, NoChunkLost, Posts
<1> QED
  BY InitTyped, StepTyped, InitCustody, CustodyStep, LossStep, <1>1, PTL DEF Spec

-----------------------------------------------------------------------------
(* What a step may do to the fields the contract speaks of                  *)

Running == pc # "done" /\ pc' # "done"
OpenStream == Running /\ inner.state = "Readable" /\ inner.cancelReason = None
Keeps(st, cp) == inner'.state = st /\ inner'.closePending = cp
SameReason == inner'.cancelReason = inner.cancelReason
Gives(c) == \E r \in Reads : delivered' = Append(delivered, [read |-> r, chunk |-> c])

\* Nothing the contract speaks of, or only what a stream leaves behind.
Skips ==
    /\ pc' = "done" <=> pc = "done"
    /\ inner'.state = inner.state /\ SameReason /\ UNCHANGED delivered
    /\ \/ inner'.closePending = inner.closePending /\ inner'.queue = inner.queue
       \/ inner.state # "Readable"

Arrives(c) ==
    /\ OpenStream /\ ~inner.closePending
    /\ Keeps("Readable", FALSE) /\ SameReason /\ UNCHANGED delivered
    /\ inner'.queue = Append(inner.queue, c)

ArrivesToRead(c) ==
    /\ OpenStream /\ ~inner.closePending /\ inner.queue = <<>>
    /\ Keeps("Readable", FALSE) /\ SameReason /\ Gives(c)
    /\ inner'.queue = <<>>

GivesHead ==
    /\ OpenStream /\ inner.queue # <<>>
    /\ SameReason /\ Gives(Head(inner.queue)) /\ inner'.queue = Tail(inner.queue)
    /\ IF inner.closePending /\ Tail(inner.queue) = <<>>
       THEN Keeps("Closed", FALSE) ELSE Keeps("Readable", inner.closePending)

ClosesLater ==
    /\ OpenStream /\ inner.queue # <<>>
    /\ Keeps("Readable", TRUE) /\ SameReason /\ UNCHANGED delivered
    /\ inner'.queue = inner.queue

Ends ==
    /\ OpenStream /\ inner.queue = <<>> /\ ~inner.closePending
    /\ inner'.state = "Closed" /\ SameReason /\ UNCHANGED delivered

IsCancelled ==
    /\ OpenStream
    /\ inner'.state = "Closed" /\ inner'.cancelReason # None /\ UNCHANGED delivered

Errs == Running /\ inner'.state = "Errored" /\ UNCHANGED delivered

Drops == pc # "done" /\ pc' = "done" /\ inner'.state = inner.state /\ SameReason /\ UNCHANGED delivered

Effects ==
    \/ Skips \/ (\E c \in Chunks : Arrives(c) \/ ArrivesToRead(c)) \/ GivesHead
    \/ ClosesLater \/ Ends \/ IsCancelled \/ Errs \/ Drops

-----------------------------------------------------------------------------
(* The effects are steps of the contract                                    *)

(* An effect is a step of the contract, or none. *)
LEMMA EffectsImplement == ASSUME Typed, Effects PROVE [End!Next]_(End!vars)
<1> USE DEF EndState, Running, OpenStream, Keeps, SameReason, Gives, None, End!Open, End!Hands
<1>0. inner \in Inner
  BY DEF Typed
<1>1. ASSUME Skips PROVE UNCHANGED End!vars
  <2>1. EndState' = EndState /\ UNCHANGED delivered
    BY <1>1 DEF Skips
  <2>2. ASSUME EndState = "open"
        PROVE  inner'.queue = inner.queue /\ inner'.closePending = inner.closePending
    <3>1. inner.state = "Readable"
      BY <1>0, <2>2 DEF Inner
    <3>. QED
      BY <1>1, <3>1 DEF Skips
  <2> HIDE DEF EndState
  <2>3. (IF EndState = "open" THEN inner.queue ELSE <<>>)' = IF EndState = "open" THEN inner.queue ELSE <<>>
    BY <2>1, <2>2
  <2>4. (inner.closePending /\ EndState = "open")' = (inner.closePending /\ EndState = "open")
    <3>1. CASE EndState = "open"
      BY <2>1, <2>2, <3>1
    <3>2. CASE EndState # "open"
      BY <2>1, <3>2
    <3>. QED
      BY <3>1, <3>2
  <2>. QED
    BY <2>1, <2>3, <2>4 DEF End!vars
<1>2. ASSUME NEW c \in Chunks, Arrives(c) PROVE End!Arrive(c)
  BY <1>2 DEF Arrives, End!Arrive
<1>3. ASSUME NEW c \in Chunks, ArrivesToRead(c) PROVE End!ArriveToRead(c)
  BY <1>3 DEF ArrivesToRead, End!ArriveToRead
<1>4. ASSUME GivesHead PROVE End!Take
  BY <1>0, <1>4 DEF GivesHead, Inner, End!Take
<1>5. ASSUME ClosesLater PROVE End!CloseLater
  BY <1>5 DEF ClosesLater, End!CloseLater
<1>6. ASSUME Ends PROVE End!End
  BY <1>6 DEF Ends, End!End
<1>7. ASSUME IsCancelled PROVE End!Stop("canceled")
  BY <1>7 DEF IsCancelled, End!Stop
<1>8. ASSUME Errs PROVE End!Stop("errored") \/ End!FailLate \/ UNCHANGED End!vars
  BY <1>0, <1>8 DEF Errs, Inner, End!Stop, End!FailLate, End!vars
<1>9. ASSUME Drops PROVE End!Stop("gone") \/ UNCHANGED End!vars
  BY <1>0, <1>9 DEF Drops, Inner, End!Stop, End!vars
<1>. QED
  BY <1>1, <1>2, <1>3, <1>4, <1>5, <1>6, <1>7, <1>8, <1>9 DEF Effects, End!Next

-----------------------------------------------------------------------------
(* Every step has one of the effects                                        *)

(* A step that leaves the few fields alone is an effect. *)
LEMMA Untouched ==
    ASSUME UNCHANGED <<inner, delivered>>, pc' = "done" <=> pc = "done" PROVE Effects
  BY DEF Effects, Skips, SameReason

\* A chunk handed to a read.
LEMMA DeliverGives == ASSUME NEW r \in Reads, NEW c, Deliver(r, c) PROVE Gives(c)
  BY DEF Deliver, Gives

(* start() has no effect on the contract. *)
LEMMA StartEffects == ASSUME Typed, StartStep PROVE Effects
<1>0. inner \in Inner
  BY DEF Typed
<1> USE DEF SameReason, Running, histVars, taskVars
<1>1. CASE StartSucceeds
  BY <1>0, <1>1 DEF StartSucceeds, SourceBack, Inner, Skips, Effects
<1>2. CASE StartFails
  BY <1>0, <1>2 DEF StartFails, Errored, Inner, Errs, Effects
<1>3. CASE StoreStartError
  BY <1>3, Untouched DEF StoreStartError
<1>. QED
  BY <1>1, <1>2, <1>3 DEF StartStep

(* The effect of a controller's message. *)
LEMMA MessageEffects == ASSUME Typed, CustodyInv, QueueInv, ReachInv, MessageStep PROVE Effects
<1>0. inner \in Inner
  BY DEF Typed
<1>a. ASSUME NEW op, NEW id, Receives(op, id) PROVE pc \in {"idle", "control"}
  BY <1>a DEF Receives, InControl
<1>b. inner.state = "Readable" => inner.cancelReason = None
  BY DEF ReachInv, CancelActedOn
<1> USE DEF SameReason, Running, OpenStream, Keeps, histVars, taskVars
<1>1. ASSUME NEW c \in Chunks, EnqueueToRead(c) PROVE Effects
  <2>1. /\ inner'.state = inner.state /\ inner'.closePending = inner.closePending
        /\ inner'.cancelReason = inner.cancelReason /\ inner'.queue = inner.queue
    BY <1>0, <1>1 DEF EnqueueToRead, Inner
  <2>2. Accepting /\ inner.queue = <<>> /\ Receives("enqueue", c) /\ pc' = "control"
    BY <1>1, <1>a DEF EnqueueToRead, QueueInv, NoneLeftWaiting
  <2>3. Gives(c)
    <3>1. Head(inner.pendingReads) \in Reads
      BY <1>0, <1>1 DEF EnqueueToRead, Inner
    <3>. QED
      BY <1>1, <3>1, DeliverGives DEF EnqueueToRead
  <2>4. ArrivesToRead(c)
    BY <1>a, <1>b, <2>1, <2>2, <2>3 DEF Accepting, ArrivesToRead
  <2>. QED
    BY <2>4 DEF Effects
<1>2. ASSUME NEW c \in Chunks, EnqueueToQueue(c) PROVE Effects
  <2>1. Append(inner.queue, c) \in Seq(Chunks)
    BY <1>0 DEF Inner
  <2>2. /\ inner'.state = inner.state /\ inner'.closePending = inner.closePending
        /\ inner'.cancelReason = inner.cancelReason /\ inner'.queue = Append(inner.queue, c)
    BY <1>0, <1>2, <2>1 DEF EnqueueToQueue, Inner
  <2>3. Arrives(c)
    BY <1>2, <1>a, <1>b, <2>2 DEF EnqueueToQueue, Accepting, Arrives
  <2>. QED
    BY <2>3 DEF Effects
<1>3. ASSUME NEW k \in Closings, CloseNow(k) PROVE Effects
  <2>1. inner'.state = "Closed" /\ inner'.cancelReason = inner.cancelReason
    BY <1>0, <1>3 DEF CloseNow, Inner
  <2>2. ~inner.closePending
    BY <1>0, <1>3, <1>a DEF CloseNow, QueueInv, NoneLeftWaiting, Inner
  <2>3. Ends
    BY <1>3, <1>a, <1>b, <2>1, <2>2 DEF CloseNow, Ends
  <2>. QED
    BY <2>3 DEF Effects
<1>4. ASSUME NEW k \in Closings, CloseLater(k) PROVE Effects
  <2>1. /\ inner'.state = inner.state /\ inner'.closePending = TRUE
        /\ inner'.cancelReason = inner.cancelReason /\ inner'.queue = inner.queue
    BY <1>0, <1>4 DEF CloseLater, Inner
  <2>2. ClosesLater
    BY <1>4, <1>a, <1>b, <2>1 DEF CloseLater, ClosesLater
  <2>. QED
    BY <2>2 DEF Effects
<1>5. ASSUME NEW e \in Errors, ErrorArrives(e) PROVE Effects
  <2>1. inner'.state = "Errored"
    BY <1>0, <1>5 DEF ErrorArrives, Errored, Inner
  <2>. QED
    BY <1>5, <1>a, <2>1 DEF ErrorArrives, Receives, Errs, Effects
<1>6. CASE StoreControllerError
  <2>1. inner'.state = inner.state /\ inner'.cancelReason = inner.cancelReason
    BY <1>0, <1>6 DEF StoreControllerError, Emptied, Inner
  <2>2. inner.state = "Errored"
    BY <1>6 DEF StoreControllerError, CustodyInv, WhileErring
  <2>. QED
    BY <1>6, <2>1, <2>2 DEF StoreControllerError, Skips, Effects
<1>7. CASE ControlDrained
  BY <1>7, Untouched DEF ControlDrained, InControl
<1>8. ASSUME NEW op, NEW id, MessageIgnored(op, id) PROVE Effects
  <2>1. UNCHANGED <<inner, delivered>> /\ pc # "done" /\ pc' # "done"
    BY <1>8, <1>a DEF MessageIgnored
  <2>. QED
    BY <2>1, Untouched
<1>. QED
  BY <1>1, <1>2, <1>3, <1>4, <1>5, <1>6, <1>7, <1>8 DEF MessageStep

(* A command's effect on the contract. *)
LEMMA CommandEffects == ASSUME Typed, QueueInv, ReachInv, CommandStep PROVE Effects
<1>0. inner \in Inner
  BY DEF Typed
<1>a. ASSUME NEW op, NEW id, Takes(op, id) PROVE pc = "commands" /\ pc' = "commands"
  BY <1>a DEF Takes
<1>b. inner.state = "Readable" => inner.cancelReason = None
  BY DEF ReachInv, CancelActedOn
<1> USE DEF SameReason, Running, OpenStream, Keeps, histVars, taskVars
<1>1. ASSUME NEW r \in Reads, CommandReadChunk(r) PROVE Effects
  <2> DEFINE taken == [inner EXCEPT !.queue = Tail(@), !.total = inner.total - Size[Head(inner.queue)],
                                    !.needsPull = TRUE]
  <2>1. pc = "commands" /\ inner.state = "Readable" /\ inner.queue # <<>>
    BY <1>0, <1>1, <1>a DEF CommandReadChunk, QueueInv, NoneLeftWaiting, Inner
  <2>2. Tail(inner.queue) \in Seq(Chunks) /\ Head(inner.queue) \in Chunks
    BY <1>0, <2>1 DEF Inner
  <2>3. inner.total - Size[Head(inner.queue)] \in Int
    <3>1. inner.total \in Int
      BY <1>0 DEF Inner
    <3>2. Size[Head(inner.queue)] \in Nat
      BY <2>2, NumbersAssumption
    <3>. QED
      BY <3>1, <3>2
  <2>4. /\ taken \in Inner /\ taken.state = "Readable" /\ taken.closePending = inner.closePending
        /\ taken.cancelReason = inner.cancelReason /\ taken.queue = Tail(inner.queue)
    BY <1>0, <2>1, <2>2, <2>3 DEF Inner
  <2>5. inner' = IF inner.closePending /\ taken.queue = <<>>
                 THEN [taken EXCEPT !.state = "Closed", !.closePending = FALSE] ELSE taken
    BY <1>1 DEF CommandReadChunk
  <2> HIDE DEF taken
  <2>6. /\ inner'.queue = Tail(inner.queue) /\ inner'.cancelReason = inner.cancelReason
        /\ IF inner.closePending /\ Tail(inner.queue) = <<>>
           THEN Keeps("Closed", FALSE) ELSE Keeps("Readable", inner.closePending)
    BY <2>4, <2>5 DEF Inner
  <2>7. Gives(Head(inner.queue))
    BY <1>1, DeliverGives DEF CommandReadChunk
  <2>8. GivesHead
    BY <1>1, <1>a, <1>b, <2>1, <2>6, <2>7 DEF CommandReadChunk, GivesHead
  <2>. QED
    BY <2>8 DEF Effects
<1>2. ASSUME NEW r \in Reads, CommandReadParks(r) PROVE Effects
  <2>1. /\ inner'.state = inner.state /\ inner'.closePending = inner.closePending
        /\ inner'.cancelReason = inner.cancelReason /\ inner'.queue = inner.queue
    BY <1>0, <1>2 DEF CommandReadParks, Park, Inner
  <2>. QED
    BY <1>2, <1>a, <2>1 DEF CommandReadParks, Skips, Effects
<1>3. ASSUME NEW x \in Cancels, CommandCancel(x) PROVE Effects
  <2>1. inner'.state = "Closed" /\ inner'.cancelReason = x
    BY <1>0, <1>3 DEF CommandCancel, Emptied, Inner
  <2>2. IsCancelled
    BY <1>3, <1>a, <1>b, <2>1, NoneAssumption DEF CommandCancel, IsCancelled
  <2>. QED
    BY <2>2 DEF Effects
<1>4. ASSUME NEW q, CommandReadEnded(q) \/ CommandCancelMoot(q) \/ CommandRegisterReady(q)
                    \/ CommandRegisterClosed(q)
      PROVE  Effects
  <2>1. UNCHANGED <<inner, delivered>> /\ pc = "commands" /\ pc' = "commands"
    BY <1>4, <1>a DEF CommandReadEnded, CommandCancelMoot, CommandRegisterReady, CommandRegisterClosed
  <2>. QED
    BY <2>1, Untouched
<1>. QED
  BY <1>1, <1>2, <1>3, <1>4 DEF CommandStep

(* The effect of a pull and of what it returns. *)
LEMMA SourceEffects == ASSUME Typed, SourceStep PROVE Effects
<1>0. inner \in Inner
  BY DEF Typed
<1>a. AtGate \/ AtDrive => pc # "done"
  BY DEF AtGate, AtDrive
<1> USE DEF SameReason, Running, histVars, taskVars
<1>1. CASE CancelReturns
  BY <1>0, <1>1 DEF CancelReturns, Inner, Skips, Effects
<1>2. CASE StartPull
  BY <1>0, <1>2, <1>a DEF StartPull, Inner, Skips, Effects
<1>3. CASE PullNotWanted
  BY <1>0, <1>3, <1>a DEF PullNotWanted, Inner, Skips, Effects
<1>4. CASE PullPending
  BY <1>4, <1>a, Untouched DEF PullPending
<1>5. CASE PullReturns
  BY <1>0, <1>5, <1>a DEF PullReturns, SourceBack, Inner, Skips, Effects
<1>6. CASE PullFails
  BY <1>0, <1>6, <1>a DEF PullFails, Errored, Inner, Errs, Effects
<1>7. CASE StorePullError
  BY <1>0, <1>7 DEF StorePullError, Inner, Skips, Effects
<1>. QED
  BY <1>1, <1>2, <1>3, <1>4, <1>5, <1>6, <1>7 DEF SourceStep

-----------------------------------------------------------------------------
(* The refinement                                                           *)

(* Every step is one of the effects. *)
LEMMA StepEffects ==
    ASSUME Typed, CustodyInv, QueueInv, ReachInv, [Next]_vars PROVE Effects
<1>0. inner \in Inner
  BY DEF Typed
<1>1. CASE UNCHANGED vars
  BY <1>1, Untouched DEF vars, taskVars, histVars
<1>2. CASE ControllerStep \/ ReaderStep \/ (\E c \in Waiters : WaiterStep(c))
  BY <1>2, CallersLeaveTask, Untouched
<1>3. CASE TaskDropped
  <2>1. inner'.state = inner.state /\ inner'.cancelReason = inner.cancelReason
    BY <1>0, <1>3 DEF TaskDropped, Inner
  <2>. QED
    BY <1>3, <2>1 DEF TaskDropped, histVars, SameReason, Drops, Effects
<1>4. ASSUME NEW r \in {"ok", "err"}, PullEnds(r) \/ CancelEnds(r) PROVE Effects
  BY <1>4, Untouched DEF PullEnds, CancelEnds, histVars
<1>. QED
  BY <1>1, <1>2, <1>3, <1>4, StartEffects, MessageEffects, CommandEffects, SourceEffects
     DEF Next, PollStep

\* A readable stream keeps its contract: whatever its controllers, its readers
\* and its source do, chunks leave in the order they came, each to one read,
\* and the stream ends only when its line is empty.
THEOREM ReadableStreamImplementsEnd == Spec => ImplementsEnd
<1>1. Init => End!Init
  BY DEF Init, EndState, End!Init
<1>2. Typed /\ CustodyInv /\ QueueInv /\ ReachInv /\ [Next]_vars => [End!Next]_(End!vars)
  BY StepEffects, EffectsImplement
<1>. QED
  BY <1>1, <1>2, InitTyped, StepTyped, InitCustody, CustodyStep, InitQueue, QueueStep, InitReach, ReachStep,
     PTL DEF Spec, ImplementsEnd, End!Spec
=============================================================================
