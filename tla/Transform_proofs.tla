--------------------------- MODULE Transform_proofs ---------------------------
(***************************************************************************)
(* Proofs about Transform, for every set of plans: any high water mark,    *)
(* any number of calls of each kind, any number of chunks enqueued by one  *)
(* call of the transformer, and the tasks in one bundle or on threads of   *)
(* their own.                                                              *)
(***************************************************************************)
EXTENDS TransformProps, Facts

-----------------------------------------------------------------------------
(* Types                                                                    *)

(* transformer.cancel() runs only for a reason.                              *)
Typed == TypeOK /\ (task = "cancelling" => why # None)

(* The types, by the part of the state.                                      *)
WOK ==
    w \in [state : {"writable", "errored", "closed"}, queued : Nat, closing : BOOLEAN,
           aborting : BOOLEAN, op : {None, "write", "close", "abort"}, sink : BOOLEAN]
LinkOK == aborted \in BOOLEAN /\ wError \in BOOLEAN
CmdOK == cmd \in {None, "write", "close", "abort"} /\ answer \in {None, "ok", "err"}
TaskOK ==
    /\ task \in {"starting", "select", "space", "recheck", "parked", "transform", "flush",
                 "cancelling", "ending", "done"}
    /\ why \in {None, "close", "abort", "cancel"}
    /\ task = "cancelling" => why # None
    /\ given \in Nat /\ raised \in BOOLEAN
    /\ ran \in Seq({"flush", "cancel"})
TodoOK == todo \in [Threads -> Seq(Accesses)]
SignalOK ==
    /\ signal \in [space : BOOLEAN, pending : Nat, waker : BOOLEAN, pullWaker : BOOLEAN,
                   abortWaker : BOOLEAN]
WokenOK == woken \subseteq {"task", "readable"}
ROK ==
    r \in [state : {"open", "closing", "closed", "errored"}, queue : Nat, asked : Nat, reads : Nat,
           closeRequested : BOOLEAN, errorRequested : BOOLEAN, needsPull : BOOLEAN,
           phase : {"idle", "control", "commands", "drive"}]
CtlOK == rctl \in Seq({"chunk", "close", "error"})
PullOK ==
    /\ pull \in {None, "sync", "open", "shut", "check", "register", "parked"}
    /\ cancel \in {None, "asked", "cut", "fire", "send", "sent", "taken", "ok", "err"}
LeftOK == plan \in Plans /\ left \in [Calls -> Nat]

Parts == LeftOK /\ WOK /\ LinkOK /\ CmdOK /\ TaskOK /\ TodoOK /\ SignalOK /\ WokenOK /\ ROK /\ CtlOK /\ PullOK

(* The parts are TypeOK, and a reason for every cancel under way.            *)
LEMMA InParts == Typed <=> Parts
  BY DEF Typed, TypeOK, Parts, LeftOK, WOK, LinkOK, CmdOK, TaskOK, TodoOK, SignalOK, WokenOK, ROK, CtlOK, PullOK

(* The same of the next state.                                               *)
LEMMA PartsNext ==
  Parts' <=> /\ LeftOK' /\ WOK' /\ LinkOK' /\ CmdOK' /\ TaskOK' /\ TodoOK'
               /\ SignalOK' /\ WokenOK' /\ ROK' /\ CtlOK' /\ PullOK'
  BY DEF Parts

(* What a step leaves alone keeps its type.                                  *)
LEMMA Untouched ==
  ASSUME Parts
  PROVE  /\ UNCHANGED <<plan, left>> => LeftOK'
         /\ UNCHANGED w => WOK'
         /\ UNCHANGED <<aborted, wError>> => LinkOK'
         /\ UNCHANGED <<cmd, answer>> => CmdOK'
         /\ UNCHANGED <<task, why, given, raised, ran>> => TaskOK'
         /\ UNCHANGED todo => TodoOK'
         /\ UNCHANGED signal => SignalOK'
         /\ UNCHANGED woken => WokenOK'
         /\ UNCHANGED r => ROK'
         /\ UNCHANGED rctl => CtlOK'
         /\ UNCHANGED <<pull, cancel>> => PullOK'
<1>1. UNCHANGED <<plan, left>> => LeftOK'
  BY DEF Parts, LeftOK
<1>2. UNCHANGED w => WOK'
  BY DEF Parts, WOK
<1>3. UNCHANGED <<aborted, wError>> => LinkOK'
  BY DEF Parts, LinkOK
<1>4. UNCHANGED <<cmd, answer>> => CmdOK'
  BY DEF Parts, CmdOK
<1>5. UNCHANGED <<task, why, given, raised, ran>> => TaskOK'
  BY DEF Parts, TaskOK
<1>6. UNCHANGED todo => TodoOK'
  BY DEF Parts, TodoOK
<1>7. UNCHANGED signal => SignalOK'
  BY DEF Parts, SignalOK
<1>8. (UNCHANGED woken => WokenOK') /\ (UNCHANGED r => ROK')
  BY DEF Parts, WokenOK, ROK
<1>9. (UNCHANGED rctl => CtlOK') /\ (UNCHANGED <<pull, cancel>> => PullOK')
  BY DEF Parts, CtlOK, PullOK
<1>. QED
  BY <1>1, <1>2, <1>3, <1>4, <1>5, <1>6, <1>7, <1>8, <1>9

(* What the assumption says of the plan.                                     *)
LEMMA PlanType ==
  ASSUME Parts
  PROVE  HWM \in Nat /\ plan.calls \in [Calls -> Nat] /\ plan.spawn \in {"bundled", "parts"}
  BY TransformAssumption DEF Parts, LeftOK, HWM

(* The lists of accesses the code starts with.                               *)
LEMMA ListTypes ==
  /\ <<>> \in Seq(Accesses) /\ EnqueueCall \in Seq(Accesses) /\ ErrorCall \in Seq(Accesses)
  /\ TerminateCall \in Seq(Accesses) /\ <<"closeGate">> \in Seq(Accesses)
  /\ \A a, b \in Accesses : <<a>> \in Seq(Accesses) /\ <<a, b>> \in Seq(Accesses)
<1>1. <<>> \in Seq(Accesses)
  OBVIOUS
<1>2. EnqueueCall \in Seq(Accesses)
  BY DEF EnqueueCall, Accesses
<1>3. ErrorCall \in Seq(Accesses)
  BY DEF ErrorCall, Accesses
<1>4. TerminateCall \in Seq(Accesses)
  BY DEF TerminateCall, Accesses
<1>5. <<"closeGate">> \in Seq(Accesses)
  BY DEF Accesses
<1>6. \A a, b \in Accesses : <<a>> \in Seq(Accesses) /\ <<a, b>> \in Seq(Accesses)
  OBVIOUS
<1>. QED
  BY <1>1, <1>2, <1>3, <1>4, <1>5, <1>6

(* A call that is spent leaves a count.                                      *)
LEMMA SpendType ==
  ASSUME Parts, NEW k \in Calls, Spend(k), UNCHANGED plan
  PROVE  LeftOK'
  BY DEF Parts, LeftOK, Spend

(* The types, by the kind of step.                                           *)
LEMMA CallerTypes ==
  ASSUME Parts, CallerStep, UNCHANGED plan
  PROVE  Parts'
<1>0. "write" \in Calls /\ "close" \in Calls /\ "abort" \in Calls /\ "read" \in Calls /\ "cancel" \in Calls
  BY DEF Calls
<1>1. LeftOK'
  BY <1>0, SpendType DEF CallerStep, Write, Close, Abort, Read, Cancel
<1>2. WOK'
  <2>1. CASE Write
    BY <2>1 DEF Write, Parts, WOK
  <2>2. CASE Close
    BY <2>2 DEF Close, Parts, WOK
  <2>3. CASE Abort
    BY <2>3 DEF Abort, Parts, WOK
  <2>4. CASE Read \/ Cancel
    BY <2>4, Untouched DEF Read, Cancel, writableVars
  <2>. QED
    BY <2>1, <2>2, <2>3, <2>4 DEF CallerStep
<1>3. LinkOK' /\ CmdOK' /\ TaskOK' /\ TodoOK' /\ SignalOK' /\ CtlOK'
  BY Untouched DEF CallerStep, Write, Close, Abort, Read, Cancel, writableVars, taskVars, readableVars
<1>4. WokenOK'
  BY DEF CallerStep, Write, Close, Abort, Read, Cancel, Parts, WokenOK
<1>5. ROK'
  BY DEF CallerStep, Write, Close, Abort, Read, Cancel, Parts, ROK, readableVars
<1>6. PullOK'
  BY DEF CallerStep, Write, Close, Abort, Read, Cancel, Parts, PullOK, readableVars
<1>. QED
  BY <1>1, <1>2, <1>3, <1>4, <1>5, <1>6, PartsNext

(* The writable's task keeps the types.                                     *)
LEMMA WritableTypes ==
  ASSUME Parts, WritableStep, UNCHANGED plan
  PROVE  Parts'
<1>1. UNCHANGED <<left, taskVars, readableVars>>
  BY DEF WritableStep, WritableErrored, SignalAbort, SinkWrite, SinkClose, SinkAbort, Sends,
         AbortDuringClose, SinkReturns
<1>2. LeftOK' /\ TaskOK' /\ TodoOK' /\ ROK' /\ CtlOK' /\ PullOK'
  BY <1>1, Untouched DEF taskVars, readableVars
<1>3. LinkOK'
  BY DEF WritableStep, WritableErrored, SignalAbort, SinkWrite, SinkClose, SinkAbort, Sends,
         AbortDuringClose, SinkReturns, Parts, LinkOK
<1>4. CmdOK'
  BY DEF WritableStep, WritableErrored, SignalAbort, SinkWrite, SinkClose, SinkAbort, Sends,
         AbortDuringClose, SinkReturns, Parts, CmdOK
<1>5. SignalOK' /\ WokenOK'
  BY DEF WritableStep, WritableErrored, SignalAbort, SinkWrite, SinkClose, SinkAbort, Sends,
         AbortDuringClose, SinkReturns, Parts, SignalOK, WokenOK
<1>6. WOK'
  <2>1. CASE SinkWrite
    <3>1. w' = [w EXCEPT !.op = "write", !.queued = w.queued - 1] /\ w.queued > 0
      BY <2>1 DEF SinkWrite
    <3>2. w.queued - 1 \in Nat
      BY <3>1 DEF Parts, WOK
    <3>. QED
      BY <3>1, <3>2 DEF Parts, WOK
  <2>2. CASE SinkReturns
    <3>0. w.op \in {"write", "close", "abort"}
      BY <2>2 DEF SinkReturns, Parts, WOK
    <3>1. CASE w.op = "write"
      BY <2>2, <3>1 DEF SinkReturns, Parts, WOK
    <3>2. CASE w.op = "close"
      BY <2>2, <3>2 DEF SinkReturns, Parts, WOK
    <3>3. CASE w.op = "abort"
      BY <2>2, <3>3 DEF SinkReturns, Parts, WOK
    <3>. QED
      BY <3>0, <3>1, <3>2, <3>3
  <2>3. CASE WritableErrored
    BY <2>3 DEF WritableErrored, Parts, WOK
  <2>4. CASE SignalAbort \/ AbortDuringClose \/ SinkClose \/ SinkAbort
    BY <2>4 DEF SignalAbort, AbortDuringClose, SinkClose, SinkAbort, Parts, WOK
  <2>. QED
    BY <2>1, <2>2, <2>3, <2>4 DEF WritableStep
<1>. QED
  BY <1>2, <1>3, <1>4, <1>5, <1>6, PartsNext

(* An access leaves a list of accesses.                                      *)
LEMMA DoesTypes ==
  ASSUME Parts, NEW t \in Threads, NEW a, NEW more \in Seq(Accesses), DoesThen(t, a, more)
  PROVE  TodoOK' /\ left' = left
<1>1. Tail(todo[t]) \in Seq(Accesses)
  BY DEF Parts, TodoOK, DoesThen
<1>2. more \o Tail(todo[t]) \in Seq(Accesses)
  BY <1>1
<1>. QED
  BY <1>2 DEF Parts, TodoOK, DoesThen

(* A call drops what is left of its list when the readable refuses it.       *)
LEMMA DropTypes ==
  ASSUME NEW s \in Seq(Accesses), s # <<>>
  PROVE  SubSeq(s, 4, Len(s)) \in Seq(Accesses) /\ Tail(s) \in Seq(Accesses)
  OBVIOUS

(* So do the calls of the controller, on either thread.                     *)
LEMMA ThreadTypes ==
  ASSUME Parts, ThreadStep, UNCHANGED plan
  PROVE  Parts'
<1>0. "ok" # "err" /\ Task \in Threads
  BY DEF Threads
<1>1. TodoOK' /\ left' = left
  <2>0. <<>> \in Seq(Accesses) /\ <<"closeGate">> \in Seq(Accesses)
    BY ListTypes
  <2>1. ASSUME NEW t \in Threads, CloseReadable(t) PROVE TodoOK' /\ left' = left
    <3>1. SubSeq(todo[t], 4, Len(todo[t])) \in Seq(Accesses) /\ Tail(todo[t]) \in Seq(Accesses)
      BY <2>1, DropTypes DEF CloseReadable, Parts, TodoOK
    <3>. QED
      BY <2>1, <3>1 DEF CloseReadable, Parts, TodoOK
  <2>2. ASSUME NEW t \in Threads, Count(t) PROVE TodoOK' /\ left' = left
    BY <2>0, <2>2, DoesTypes DEF Count
  <2>3. ASSUME NEW t \in Threads, NEW a, Does(t, a) PROVE TodoOK' /\ left' = left
    BY <2>0, <2>3, DoesTypes DEF Does
  <2>4. \/ \E t \in Threads : CloseReadable(t) \/ Count(t)
        \/ \E t \in Threads : \E a \in Accesses : Does(t, a)
    BY <1>0 DEF ThreadStep, PostChunk, CloseGate, Raise, ErrorReadable, ErrorWritable, WakesPull, Completes,
                CompletesCancel, Drain, Stop, Accesses
  <2>. QED
    BY <2>1, <2>2, <2>3, <2>4
<1>2. LeftOK' /\ WOK'
  BY <1>1, Untouched DEF ThreadStep, PostChunk, Count, CloseGate, Raise, ErrorReadable, CloseReadable, ErrorWritable,
        WakesPull, Completes, CompletesCancel, Drain, Stop, writableVars
<1>3. LinkOK'
  BY DEF ThreadStep, PostChunk, Count, CloseGate, Raise, ErrorReadable, CloseReadable, ErrorWritable,
        WakesPull, Completes, CompletesCancel, Drain, Stop, writableVars, Parts, LinkOK
<1>4. CmdOK'
  BY DEF ThreadStep, PostChunk, Count, CloseGate, Raise, ErrorReadable, CloseReadable, ErrorWritable,
        WakesPull, Completes, CompletesCancel, Drain, Stop, writableVars, Parts, CmdOK
<1>5. TaskOK'
  <2>1. UNCHANGED <<why, given, ran>> /\ task' \in {task, "done"} /\ raised' \in {raised, TRUE}
    BY DEF ThreadStep, PostChunk, Count, CloseGate, Raise, ErrorReadable, CloseReadable, ErrorWritable,
        WakesPull, Completes, CompletesCancel, Drain, Stop
  <2>2. TaskOK
    BY DEF Parts
  <2>. QED
    BY <2>1, <2>2 DEF TaskOK
<1>6. SignalOK'
  <2>1. ASSUME NEW t \in Threads, Count(t) \/ CloseGate(t) \/ WakesPull(t) PROVE SignalOK'
    <3>1. CASE Count(t)
      BY <3>1 DEF Count, Parts, SignalOK
    <3>2. CASE CloseGate(t) \/ WakesPull(t)
      <4>. DEFINE T == [space : BOOLEAN, pending : Nat, waker : BOOLEAN, pullWaker : BOOLEAN,
                        abortWaker : BOOLEAN]
      <4>1. \A s \in T : WakePull(s) \in T /\ [s EXCEPT !.space = FALSE] \in T
        BY DEF WakePull
      <4>2. signal \in T
        BY DEF Parts, SignalOK
      <4>3. signal' \in T
        BY <3>2, <4>1, <4>2 DEF CloseGate, WakesPull
      <4>. QED
        BY <4>3 DEF SignalOK
    <3>. QED
      BY <2>1, <3>1, <3>2
  <2>2. (\E t \in Threads : Count(t) \/ CloseGate(t) \/ WakesPull(t)) \/ UNCHANGED signal
    BY DEF ThreadStep, PostChunk, Raise, ErrorReadable, CloseReadable, ErrorWritable, Completes,
           CompletesCancel, Drain, Stop
  <2>. QED
    BY <2>1, <2>2, Untouched
<1>7. WokenOK'
  BY DEF ThreadStep, PostChunk, Count, CloseGate, Raise, ErrorReadable, CloseReadable, ErrorWritable,
        WakesPull, Completes, CompletesCancel, Drain, Stop, Parts, WokenOK, Post, PullRoused
<1>8. ROK'
  <2>1. ASSUME NEW t \in Threads, ErrorReadable(t) \/ CloseReadable(t) PROVE ROK'
    BY <2>1 DEF ErrorReadable, CloseReadable, Parts, ROK
  <2>2. (\E t \in Threads : ErrorReadable(t) \/ CloseReadable(t)) \/ UNCHANGED r
    BY DEF ThreadStep, PostChunk, Count, CloseGate, WakesPull, Raise, ErrorWritable, Completes,
           CompletesCancel, Drain, Stop, readableVars
  <2>. QED
    BY <2>1, <2>2, Untouched
<1>9. CtlOK' /\ PullOK'
  <2>1. PullOK'
    BY DEF ThreadStep, PostChunk, Count, CloseGate, Raise, ErrorReadable, CloseReadable, ErrorWritable,
        WakesPull, Completes, CompletesCancel, Drain, Stop, Parts, PullOK, readableVars
  <2>2. UNCHANGED rctl \/ \E m \in {"chunk", "close", "error"} : rctl' = Append(rctl, m)
    BY DEF ThreadStep, PostChunk, Count, CloseGate, Raise, ErrorReadable, CloseReadable, ErrorWritable,
        WakesPull, Completes, CompletesCancel, Drain, Stop, Post, readableVars
  <2>. QED
    BY <2>1, <2>2 DEF Parts, CtlOK
<1>. QED
  BY <1>1, <1>2, <1>3, <1>4, <1>5, <1>6, <1>7, <1>8, <1>9, PartsNext

(* So do the callers.                                                       *)
LEMMA UserTypes ==
  ASSUME Parts, UserCall, UNCHANGED plan
  PROVE  Parts'
<1>0. {"enqueue", "error", "terminate", "capturedEnqueue", "capturedError", "capturedTerminate"} \subseteq Calls
  BY DEF Calls
<1>1. PICK k \in Calls, call \in Seq(Accesses) : TransformerCalls(k, call) \/ CloneCalls(k, call)
  <2>1. TransformerCalls("enqueue", EnqueueCall) \/ CloneCalls("capturedEnqueue", EnqueueCall)
        => \E k \in Calls, call \in Seq(Accesses) : TransformerCalls(k, call) \/ CloneCalls(k, call)
    BY <1>0, ListTypes
  <2>2. TransformerCalls("error", ErrorCall) \/ CloneCalls("capturedError", ErrorCall)
        => \E k \in Calls, call \in Seq(Accesses) : TransformerCalls(k, call) \/ CloneCalls(k, call)
    BY <1>0, ListTypes
  <2>3. TransformerCalls("terminate", TerminateCall) \/ CloneCalls("capturedTerminate", TerminateCall)
        => \E k \in Calls, call \in Seq(Accesses) : TransformerCalls(k, call) \/ CloneCalls(k, call)
    BY <1>0, ListTypes
  <2>. QED
    BY <2>1, <2>2, <2>3 DEF UserCall
<1>2. LeftOK'
  BY <1>1, SpendType DEF TransformerCalls, CloneCalls
<1>3. TodoOK'
  BY <1>1 DEF TransformerCalls, CloneCalls, Parts, TodoOK, Threads
<1>4. TaskOK'
  BY <1>1 DEF TransformerCalls, CloneCalls, Parts, TaskOK
<1>5. UNCHANGED <<writableVars, signal, woken, readableVars>>
  BY <1>1 DEF TransformerCalls, CloneCalls
<1>6. /\ WOK' /\ LinkOK' /\ CmdOK' /\ SignalOK' /\ WokenOK' /\ ROK' /\ CtlOK' /\ PullOK'
  BY <1>5, Untouched DEF writableVars, readableVars
<1>. QED
  BY <1>2, <1>3, <1>4, <1>6, PartsNext

(* So does the transform task.                                              *)
LEMMA TaskTypes ==
  ASSUME Parts, TaskStep, UNCHANGED plan
  PROVE  Parts'
<1>0. "fail" \in Calls /\ Task \in Threads
  BY DEF Calls, Threads
<1>1. LeftOK'
  <2>1. left' = left \/ Spend("fail")
    BY DEF TaskStep, StartReturns, TakeWrite, SpacePoll, SpaceRecheck, TransformReturns, TakeClose,
           FlushReturns, TakeAbort, TakeCancel, CallsCancel, CancelReturns, ChannelEnds
  <2>. QED
    BY <2>1, <1>0, SpendType, Untouched
<1>2. CmdOK'
  BY DEF TaskStep, StartReturns, TakeWrite, SpacePoll, SpaceRecheck, TransformReturns, TakeClose,
         FlushReturns, TakeAbort, TakeCancel, CallsCancel, CancelReturns, ChannelEnds, writableVars, Parts, CmdOK
<1>3. TaskOK'
  <2>1. ran' \in Seq({"flush", "cancel"})
    <3>1. ran \in Seq({"flush", "cancel"})
      BY DEF Parts, TaskOK
    <3>2. UNCHANGED ran \/ ran' = Append(ran, "flush") \/ ran' = Append(ran, "cancel")
      BY DEF TaskStep, StartReturns, TakeWrite, SpacePoll, SpaceRecheck, TransformReturns, TakeClose,
             FlushReturns, TakeAbort, TakeCancel, CallsCancel, CancelReturns, ChannelEnds
    <3>. QED
      BY <3>1, <3>2
  <2>2. given' \in Nat /\ raised' \in BOOLEAN
    BY DEF TaskStep, StartReturns, TakeWrite, SpacePoll, SpaceRecheck, TransformReturns, TakeClose,
           FlushReturns, TakeAbort, TakeCancel, CallsCancel, CancelReturns, ChannelEnds, Goes, EndsAfter,
           Parts, TaskOK
  <2>3. /\ task' \in {"starting", "select", "space", "recheck", "parked", "transform", "flush",
                     "cancelling", "ending", "done"}
        /\ why' \in {None, "close", "abort", "cancel"}
        /\ task' = "cancelling" => why' # None
    BY DEF TaskStep, StartReturns, TakeWrite, SpacePoll, SpaceRecheck, TransformReturns, TakeClose,
           FlushReturns, TakeAbort, TakeCancel, CallsCancel, CancelReturns, ChannelEnds, Goes, EndsAfter,
           Parts, TaskOK, None
  <2>. QED
    BY <2>1, <2>2, <2>3 DEF TaskOK
<1>4. TodoOK'
  <2>1. ASSUME NEW s \in Seq(Accesses), EndsAfter(s) PROVE TodoOK'
    BY <2>1, <1>0 DEF EndsAfter, Parts, TodoOK
  <2>2. \A a \in Accesses : <<a>> \in Seq(Accesses)
    BY ListTypes
  <2>3. \A a, b \in Accesses : ErrorCall \o <<a>> \in Seq(Accesses) /\ ErrorCall \o <<a, b>> \in Seq(Accesses)
                              /\ TerminateCall \o <<a, b>> \in Seq(Accesses)
    BY ListTypes
  <2>4. {"answerOk", "answerErr", "cancelOk", "cancelErr", "drain", "stop", "wError"} \subseteq Accesses
    BY DEF Accesses
  <2>5. CASE StartReturns
    BY <2>5, <2>1, <2>3, <2>4, Untouched DEF StartReturns, Goes
  <2>6. CASE TransformReturns
    <3>1. CASE todo' = [todo EXCEPT ![Task] = <<"answerOk">>]
      BY <3>1, <2>2, <2>4, <1>0 DEF Parts, TodoOK
    <3>. QED
      BY <3>1, <2>6, <2>1, <2>3, <2>4 DEF TransformReturns
  <2>7. CASE FlushReturns
    BY <2>7, <2>1, <2>3, <2>4 DEF FlushReturns
  <2>8. CASE CancelReturns
    <3>1. PICK ok \in BOOLEAN :
            LET clean == ok /\ ~raised
                told == IF clean THEN <<"cancelOk">> ELSE <<"cancelErr">>
            IN EndsAfter(CASE why = "close" -> told \o ErrorCall \o <<"answerErr", "stop">>
                           [] why = "abort" -> ErrorCall \o <<IF clean THEN "answerOk" ELSE "answerErr", "stop">>
                           [] why = "cancel" -> told \o (IF clean THEN <<"wError">> ELSE ErrorCall)
                                                     \o <<"drain", "stop">>)
      BY <2>8 DEF CancelReturns
    <3>. DEFINE clean == ok /\ ~raised
                told == IF clean THEN <<"cancelOk">> ELSE <<"cancelErr">>
                how == IF clean THEN "answerOk" ELSE "answerErr"
                then == IF clean THEN <<"wError">> ELSE ErrorCall
    <3>2. told \in Seq(Accesses) /\ then \in Seq(Accesses) /\ how \in Accesses
      BY <2>2, <2>4, ListTypes
    <3>3. EndsAfter(CASE why = "close" -> told \o ErrorCall \o <<"answerErr", "stop">>
                      [] why = "abort" -> ErrorCall \o <<how, "stop">>
                      [] why = "cancel" -> told \o then \o <<"drain", "stop">>)
      BY <3>1
    <3>. HIDE DEF clean, told, how, then
    <3>4. why \in {"close", "abort", "cancel"}
      BY <2>8 DEF CancelReturns, Parts, TaskOK
    <3>5. /\ <<"answerErr", "stop">> \in Seq(Accesses) /\ <<"drain", "stop">> \in Seq(Accesses)
          /\ ErrorCall \in Seq(Accesses)
      BY ListTypes, <2>4
    <3>6. CASE why = "close"
      <4>1. EndsAfter(told \o ErrorCall \o <<"answerErr", "stop">>)
        BY <3>3, <3>6
      <4>2. told \o ErrorCall \o <<"answerErr", "stop">> \in Seq(Accesses)
        BY <3>2, <3>5
      <4>. QED
        BY <4>1, <4>2, <2>1
    <3>7. CASE why = "abort"
      <4>1. EndsAfter(ErrorCall \o <<how, "stop">>)
        BY <3>3, <3>7
      <4>2. ErrorCall \o <<how, "stop">> \in Seq(Accesses)
        BY <3>2, <2>3, <2>4
      <4>. QED
        BY <4>1, <4>2, <2>1
    <3>8. CASE why = "cancel"
      <4>1. EndsAfter(told \o then \o <<"drain", "stop">>)
        BY <3>3, <3>8
      <4>2. told \o then \o <<"drain", "stop">> \in Seq(Accesses)
        BY <3>2, <3>5
      <4>. QED
        BY <4>1, <4>2, <2>1
    <3>. QED
      BY <3>4, <3>6, <3>7, <3>8
  <2>9. CASE ChannelEnds
    BY <2>9, <2>1, <2>2, <2>4 DEF ChannelEnds
  <2>10. CASE UNCHANGED todo
    BY <2>10, Untouched
  <2>11. StartReturns \/ TransformReturns \/ FlushReturns \/ CancelReturns \/ ChannelEnds \/ UNCHANGED todo
    BY DEF TaskStep, TakeWrite, SpacePoll, SpaceRecheck, TakeClose, TakeAbort, TakeCancel, CallsCancel, Goes
  <2>. QED
    BY <2>5, <2>6, <2>7, <2>8, <2>9, <2>10, <2>11
<1>5. SignalOK' /\ WokenOK'
  <2>1. /\ \/ UNCHANGED signal \/ signal' = [signal EXCEPT !.waker = TRUE]
           \/ signal' = [signal EXCEPT !.abortWaker = TRUE]
        /\ woken' \subseteq woken
    BY DEF TaskStep, StartReturns, TakeWrite, SpacePoll, SpaceRecheck, TransformReturns, TakeClose,
           FlushReturns, TakeAbort, TakeCancel, CallsCancel, CancelReturns, ChannelEnds
  <2>. QED
    BY <2>1 DEF Parts, SignalOK, WokenOK
<1>6. UNCHANGED <<w, aborted, wError, r, rctl>> /\ (UNCHANGED pull /\ cancel' \in {cancel, "taken"})
  BY DEF TaskStep, StartReturns, TakeWrite, SpacePoll, SpaceRecheck, TransformReturns, TakeClose,
         FlushReturns, TakeAbort, TakeCancel, CallsCancel, CancelReturns, ChannelEnds, writableVars, readableVars
<1>7. WOK' /\ LinkOK' /\ ROK' /\ CtlOK' /\ PullOK'
  BY <1>6, Untouched DEF Parts, PullOK
<1>. QED
  BY <1>1, <1>2, <1>3, <1>4, <1>5, <1>7, PartsNext

(* So does the readable's task.                                             *)
LEMMA ReadableTypes ==
  ASSUME Parts, ReadableStep, UNCHANGED plan
  PROVE  Parts'
<1>1. UNCHANGED <<left, w, aborted, cmd, answer, taskVars>> /\ (wError' = TRUE \/ UNCHANGED wError)
  BY DEF ReadableStep, ReadableControl, ControlDrained, ReadableRead, ReadableCancel, ReadableGate, NoPull,
         SourcePull, PullSyncs, PullOpens, PullChecks, PullRechecks, CancelFires, CancelSends, InPhase, writableVars
<1>2. LeftOK' /\ WOK' /\ LinkOK' /\ CmdOK' /\ TaskOK' /\ TodoOK'
  BY <1>1, Untouched DEF taskVars, Parts, LinkOK
<1>3. SignalOK'
  <2>. DEFINE T == [space : BOOLEAN, pending : Nat, waker : BOOLEAN, pullWaker : BOOLEAN,
                    abortWaker : BOOLEAN]
  <2>1. signal \in T
    BY DEF Parts, SignalOK
  <2>2. \A s \in T : WakeTask(s) \in T /\ [s EXCEPT !.space = TRUE] \in T /\ [s EXCEPT !.space = FALSE] \in T
                    /\ [s EXCEPT !.pullWaker = TRUE] \in T
    BY DEF WakeTask
  <2>3. \A s \in T : \A n \in Nat : [s EXCEPT !.pending = n] \in T /\ [s EXCEPT !.pending = 0, !.space = TRUE] \in T
    OBVIOUS
  <2>10. signal' \in T => SignalOK'
    BY DEF SignalOK
  <2>. HIDE DEF T
  <2>4. CASE PullSyncs
    <3>1. UNCHANGED signal \/ \E n \in Nat : signal' = [signal EXCEPT !.pending = n]
      <4>. DEFINE ds == IF r.state = "closed" \/ (r.closeRequested /\ r.queue = 0) THEN 0 ELSE Desired
      <4>1. ds \in Int /\ HWM \in Nat
        BY PlanType DEF Parts, ROK, Desired
      <4>2. (IF HWM > ds THEN HWM - ds ELSE 0) \in Nat
        <5>. HIDE DEF ds
        <5>. QED
          BY <4>1
      <4>3. UNCHANGED signal \/ signal' = [signal EXCEPT !.pending = IF HWM > ds THEN HWM - ds ELSE 0]
        BY <2>4 DEF PullSyncs
      <4>. QED
        BY <4>2, <4>3
    <3>. QED
      BY <3>1, <2>1, <2>3, <2>10
  <2>5. CASE PullOpens
    BY <2>5, <2>1, <2>2, <2>10 DEF PullOpens
  <2>6. CASE CancelFires
    BY <2>6, <2>1, <2>2, <2>3, <2>10 DEF CancelFires
  <2>7. CASE PullChecks
    BY <2>7, <2>1, <2>2, <2>10 DEF PullChecks
  <2>8. CASE UNCHANGED signal
    BY <2>8, Untouched
  <2>9. PullSyncs \/ PullOpens \/ CancelFires \/ PullChecks \/ UNCHANGED signal
    BY DEF ReadableStep, ReadableControl, ControlDrained, ReadableRead, ReadableCancel, ReadableGate, NoPull,
           SourcePull, PullRechecks, CancelSends
  <2>. QED
    BY <2>4, <2>5, <2>6, <2>7, <2>8, <2>9
<1>4. WokenOK'
  BY DEF ReadableStep, ReadableControl, ControlDrained, ReadableRead, ReadableCancel, ReadableGate, NoPull,
         SourcePull, PullSyncs, PullOpens, PullChecks, PullRechecks, CancelFires, CancelSends, Begun, PullOver,
         Roused, Parts, WokenOK
<1>5. CtlOK'
  <2>1. UNCHANGED rctl \/ (rctl # <<>> /\ rctl' = Tail(rctl))
    BY DEF ReadableStep, ReadableControl, ControlDrained, ReadableRead, ReadableCancel, ReadableGate, NoPull,
           SourcePull, PullSyncs, PullOpens, PullChecks, PullRechecks, CancelFires, CancelSends
  <2>. QED
    BY <2>1 DEF Parts, CtlOK
<1>6. PullOK'
  BY DEF ReadableStep, ReadableControl, ControlDrained, ReadableRead, ReadableCancel, ReadableGate, NoPull,
         SourcePull, PullSyncs, PullOpens, PullChecks, PullRechecks, CancelFires, CancelSends, PullOver,
         Parts, PullOK
<1>7. ROK'
  <2>. DEFINE R == [state : {"open", "closing", "closed", "errored"}, queue : Nat, asked : Nat, reads : Nat,
                 closeRequested : BOOLEAN, errorRequested : BOOLEAN, needsPull : BOOLEAN,
                 phase : {"idle", "control", "commands", "drive"}]
  <2>00. \A x \in R : x.reads \in Nat /\ x.queue \in Nat /\ x.state \in {"open", "closing", "closed", "errored"}
    OBVIOUS
  <2>01. \A x \in R : \A n \in Nat : [x EXCEPT !.reads = n, !.needsPull = TRUE] \in R
    OBVIOUS
  <2>02. \A x \in R : \A n \in Nat : [x EXCEPT !.queue = n, !.needsPull = TRUE] \in R
    OBVIOUS
  <2>03. \A x \in R : [x EXCEPT !.state = "closed", !.reads = 0] \in R /\ [x EXCEPT !.state = "closing"] \in R
    OBVIOUS
  <2>04. \A x \in R : [x EXCEPT !.state = "errored", !.queue = 0, !.reads = 0] \in R
    OBVIOUS
  <2>06. \A x \in R : \A n \in Nat : \A s \in {"open", "closing", "closed", "errored"} :
             [x EXCEPT !.queue = n, !.needsPull = TRUE, !.state = s] \in R
    OBVIOUS
  <2>05. \A x \in R : [x EXCEPT !.state = "closed", !.queue = 0, !.reads = 0] \in R
    OBVIOUS
  <2>07. \A x \in R : [x EXCEPT !.phase = "commands"] \in R /\ [x EXCEPT !.phase = "idle"] \in R
    OBVIOUS
  <2>09. \A x \in R : /\ [x EXCEPT !.phase = "drive"] \in R
                     /\ [x EXCEPT !.needsPull = FALSE, !.phase = "drive"] \in R
                     /\ [x EXCEPT !.needsPull = FALSE, !.phase = "idle"] \in R
    OBVIOUS
  <2>6. (ROK <=> r \in R) /\ (ROK' <=> r' \in R)
    BY DEF ROK
  <2>7. /\ \A x \in R : [x EXCEPT !.phase = "control"] \in R /\ [x EXCEPT !.phase = "control"].reads = x.reads
        /\ \A x \in R : x.asked > 0 => /\ [x EXCEPT !.asked = @ - 1] \in R
                                       /\ [x EXCEPT !.asked = @ - 1].queue = x.queue
                                       /\ [x EXCEPT !.asked = @ - 1].state = x.state
    OBVIOUS
  <2>8. r \in R
    BY <2>6 DEF Parts
  <2>. HIDE DEF R
  <2>1. CASE ReadableControl
    <3>. DEFINE i == [r EXCEPT !.phase = "control"]
    <3>1. i \in R
          /\ i.reads = r.reads
      BY <2>7, <2>8
    <3>2. \/ r.reads > 0 /\ r' = [i EXCEPT !.reads = @ - 1, !.needsPull = TRUE]
          \/ r' = [i EXCEPT !.queue = @ + 1, !.needsPull = TRUE]
          \/ r' = [i EXCEPT !.state = "closed", !.reads = 0]
          \/ r' = [i EXCEPT !.state = "closing"]
          \/ r' = [i EXCEPT !.state = "errored", !.queue = 0, !.reads = 0]
          \/ r' = i
      <4>. HIDE DEF i
      <4>1. r' = CASE Head(rctl) = "chunk" /\ r.state = "open" /\ r.reads > 0 ->
                      [i EXCEPT !.reads = @ - 1, !.needsPull = TRUE]
                 [] Head(rctl) = "chunk" /\ r.state = "open" /\ r.reads = 0 ->
                      [i EXCEPT !.queue = @ + 1, !.needsPull = TRUE]
                 [] Head(rctl) = "close" /\ r.state = "open" ->
                      IF r.queue = 0 THEN [i EXCEPT !.state = "closed", !.reads = 0]
                      ELSE [i EXCEPT !.state = "closing"]
                 [] Head(rctl) = "error" /\ ~Ended ->
                      [i EXCEPT !.state = "errored", !.queue = 0, !.reads = 0]
                 [] OTHER -> i
        BY <2>1 DEF ReadableControl, i
      <4>. QED
        BY <4>1
    <3>. HIDE DEF i
    <3>3. i.queue + 1 \in Nat /\ (r.reads > 0 => i.reads - 1 \in Nat)
      BY <3>1, <2>00
    <3>4. [i EXCEPT !.queue = @ + 1, !.needsPull = TRUE] \in R
      BY <3>1, <3>3, <2>02
    <3>5. r.reads > 0 => [i EXCEPT !.reads = @ - 1, !.needsPull = TRUE] \in R
      BY <3>1, <3>3, <2>01
    <3>6. r' \in R
      BY <3>1, <3>2, <3>4, <3>5, <2>03, <2>04
    <3>. QED
      BY <3>6, <2>6
  <2>2. CASE ReadableRead
    <3>. DEFINE i == [r EXCEPT !.asked = @ - 1]
    <3>1. i \in R
          /\ i.queue = r.queue /\ i.state = r.state
      BY <2>2, <2>7, <2>8 DEF ReadableRead
    <3>2. \/ /\ r.queue > 0
             /\ \E s \in {r.state, "closed"} : r' = [i EXCEPT !.queue = @ - 1, !.needsPull = TRUE, !.state = s]
          \/ r' = [i EXCEPT !.reads = @ + 1, !.needsPull = TRUE]
          \/ r' = i
      <4>. HIDE DEF i
      <4>1. r' = CASE r.queue > 0 ->
                      [i EXCEPT !.queue = @ - 1, !.needsPull = TRUE,
                                !.state = IF r.state = "closing" /\ r.queue = 1 THEN "closed" ELSE @]
                 [] r.queue = 0 /\ r.state = "open" -> [i EXCEPT !.reads = @ + 1, !.needsPull = TRUE]
                 [] OTHER -> i
        BY <2>2 DEF ReadableRead, i
      <4>2. ASSUME r.queue > 0
            PROVE  \E s \in {r.state, "closed"} : r' = [i EXCEPT !.queue = @ - 1, !.needsPull = TRUE, !.state = s]
        <5>. DEFINE end == IF r.state = "closing" /\ r.queue = 1 THEN "closed" ELSE i.state
        <5>1. r' = [i EXCEPT !.queue = @ - 1, !.needsPull = TRUE, !.state = end]
          BY <4>1, <4>2
        <5>2. end \in {r.state, "closed"}
          BY <3>1
        <5>. QED
          BY <5>1, <5>2
      <4>. QED
        BY <4>1, <4>2, <3>1
    <3>. HIDE DEF i
    <3>3. ASSUME r.queue > 0, NEW s \in {r.state, "closed"},
                 r' = [i EXCEPT !.queue = @ - 1, !.needsPull = TRUE, !.state = s]
          PROVE  ROK'
      <4>1. i.queue - 1 \in Nat /\ s \in {"open", "closing", "closed", "errored"}
        BY <3>1, <3>3, <2>00
      <4>. QED
        BY <4>1, <3>1, <3>3, <2>06, <2>6
    <3>4. ASSUME r' = [i EXCEPT !.reads = @ + 1, !.needsPull = TRUE]
          PROVE  ROK'
      <4>1. i.reads + 1 \in Nat
        BY <3>1, <2>00
      <4>. QED
        BY <4>1, <3>1, <3>4, <2>01, <2>6
    <3>. QED
      BY <3>1, <3>2, <3>3, <3>4, <2>6
  <2>3. CASE ReadableCancel
    BY <2>3, <2>05, <2>6, <2>8 DEF ReadableCancel
  <2>4. CASE ReadableGate
    <3>1. \/ r' = [r EXCEPT !.phase = "drive"]
          \/ r' = [r EXCEPT !.needsPull = FALSE, !.phase = "drive"]
          \/ r' = [r EXCEPT !.needsPull = FALSE, !.phase = "idle"]
      <4>. DEFINE wanted == Desired > 0 \/ r.reads > 0
      <4>1. CASE wanted
        BY <2>4, <4>1 DEF ReadableGate
      <4>2. CASE ~wanted
        BY <2>4, <4>2 DEF ReadableGate
      <4>. QED
        BY <4>1, <4>2
    <3>. QED
      BY <3>1, <2>6, <2>8, <2>09
  <2>5. UNCHANGED r \/ r' = [r EXCEPT !.phase = "commands"] \/ r' = [r EXCEPT !.phase = "idle"]
        \/ ReadableControl \/ ReadableRead \/ ReadableCancel \/ ReadableGate
    BY DEF ReadableStep, ControlDrained, NoPull, PullOver,
           SourcePull, PullSyncs, PullOpens, PullChecks, PullRechecks, CancelFires, CancelSends
  <2>. QED
    BY <2>1, <2>2, <2>3, <2>4, <2>5, <2>6, <2>8, <2>07
<1>. QED
  BY <1>2, <1>3, <1>4, <1>5, <1>6, <1>7, PartsNext

(* Every step keeps the types.                                               *)
LEMMA TypesNext ==
  ASSUME Parts, [Next]_vars
  PROVE  Parts'
<1>1. CASE UNCHANGED vars
  <2>1. UNCHANGED <<plan, left>> /\ UNCHANGED <<writableVars, taskVars, readableVars>> /\ UNCHANGED <<signal, woken>>
    BY <1>1 DEF vars
  <2>. QED
    BY <2>1, Untouched, PartsNext DEF writableVars, taskVars, readableVars
<1>2. CASE Next
  BY <1>2, CallerTypes, WritableTypes, ThreadTypes, UserTypes, TaskTypes, ReadableTypes
     DEF Next, Work, TransformRuns, ReadableRuns, WritableRuns
<1>. QED
  BY <1>1, <1>2

(* The types at the start.                                                   *)
LEMMA TypesInit ==
  ASSUME Init
  PROVE  Parts
<1>1. plan \in Plans /\ plan.calls \in [Calls -> Nat] /\ HWM \in Nat
  BY TransformAssumption DEF Init, HWM
<1>2. LeftOK /\ WOK /\ LinkOK /\ CmdOK
  BY <1>1 DEF Init, LeftOK, WOK, LinkOK, CmdOK
<1>3. TaskOK /\ TodoOK /\ CtlOK /\ PullOK
  <2>1. <<>> \in Seq(Accesses) /\ <<>> \in Seq({"flush", "cancel"}) /\ <<>> \in Seq({"chunk", "close", "error"})
    OBVIOUS
  <2>. QED
    BY <2>1 DEF Init, TaskOK, TodoOK, CtlOK, PullOK
<1>4. SignalOK /\ WokenOK
  BY <1>1 DEF Init, SignalOK, WokenOK
<1>5. ROK
  BY DEF Init, ROK
<1>. QED
  BY <1>2, <1>3, <1>4, <1>5 DEF Parts

(* The state keeps its types (TypeOK).                                       *)
THEOREM TransformTypes == Spec => []TypeOK
<1>1. Parts => TypeOK
  BY InParts DEF Typed
<1>. QED
  BY <1>1, TypesInit, TypesNext, PTL DEF Spec

(* The transformer is wound up once.                                         *)
Wound == ran = <<>> \/ (Len(ran) = 1 /\ task \in {"flush", "cancelling", "ending", "done"})

(* The ending methods exclude each other from one step to the next.          *)
LEMMA WoundNext ==
  ASSUME Wound, [Next]_vars
  PROVE  Wound'
<1>1. CASE UNCHANGED <<ran, task>>
  BY <1>1 DEF Wound
<1>2. CASE TaskStep
  <2>1. CASE task = "select" /\ (TakeClose \/ TakeAbort \/ TakeCancel)
    BY <2>1 DEF Wound, TakeClose, TakeAbort, TakeCancel, CallsCancel, Goes
  <2>2. CASE UNCHANGED ran /\ (task \in {"flush", "cancelling"} => task' = "ending") /\ task \notin {"ending", "done"}
    BY <2>2 DEF Wound
  <2>3. (task = "select" /\ (TakeClose \/ TakeAbort \/ TakeCancel))
        \/ (UNCHANGED ran /\ (task \in {"flush", "cancelling"} => task' = "ending") /\ task \notin {"ending", "done"})
    BY <1>2 DEF TaskStep, StartReturns, TakeWrite, SpacePoll, SpaceRecheck, TransformReturns, TakeClose,
         FlushReturns, TakeAbort, TakeCancel, CancelReturns, ChannelEnds, EndsAfter
  <2>. QED
    BY <2>1, <2>2, <2>3
<1>3. CASE Stop
  BY <1>3 DEF Wound, Stop
<1>4. UNCHANGED <<ran, task>> \/ TaskStep \/ Stop
  BY DEF Next, vars, CallerStep, Write, Close, Abort, Read, Cancel, UserCall, TransformerCalls, CloneCalls,
         Work, TransformRuns, ReadableRuns, WritableRuns, WritableStep, WritableErrored, SignalAbort, SinkWrite,
         SinkClose, SinkAbort, Sends, AbortDuringClose, SinkReturns, ThreadStep, PostChunk, Count, CloseGate,
         Raise, ErrorReadable, CloseReadable, ErrorWritable, WakesPull, Completes, CompletesCancel, Drain,
         ReadableStep, ReadableControl, ControlDrained, ReadableRead, ReadableCancel, ReadableGate, NoPull,
         SourcePull, PullSyncs, PullOpens, PullChecks, PullRechecks, CancelFires, CancelSends, InPhase, taskVars
<1>. QED
  BY <1>1, <1>2, <1>3, <1>4

(* After flush() or cancel() none of the transformer's methods runs again,   *)
(* and at most one of the two runs (run_transform_task).                     *)
THEOREM TransformWoundUpOnce == Spec => []WoundUpOnce
<1>1. Init => Wound
  BY DEF Init, Wound
<1>2. Wound => WoundUpOnce
  BY DEF Wound, WoundUpOnce
<1>. QED
  BY <1>1, <1>2, WoundNext, PTL DEF Spec

(* flush() never starts when a readable.cancel() has already reached the     *)
(* task: cancel wins over a close.                                           *)
THEOREM TransformCancelBeforeFlush == Spec => CancelBeforeFlush
<1>1. Init => Wound
  BY DEF Init, Wound
<1>2. ASSUME Wound, [Next]_vars, ran' # ran, cancel = "sent"
      PROVE  ran' = <<"cancel">>
  <2>1. TakeClose \/ TakeAbort \/ TakeCancel
    BY <1>2 DEF Next, vars, CallerStep, Write, Close, Abort, Read, Cancel, UserCall, TransformerCalls, CloneCalls,
         Work, TransformRuns, ReadableRuns, WritableRuns, WritableStep, WritableErrored, SignalAbort, SinkWrite,
         SinkClose, SinkAbort, Sends, AbortDuringClose, SinkReturns, ThreadStep, PostChunk, Count, CloseGate,
         Raise, ErrorReadable, CloseReadable, ErrorWritable, WakesPull, Completes, CompletesCancel, Drain, Stop,
         ReadableStep, ReadableControl, ControlDrained, ReadableRead, ReadableCancel, ReadableGate, NoPull,
         SourcePull, PullSyncs, PullOpens, PullChecks, PullRechecks, CancelFires, CancelSends, InPhase, taskVars,
         TaskStep, StartReturns, TakeWrite, SpacePoll, SpaceRecheck, TransformReturns,
         FlushReturns, CancelReturns, ChannelEnds
  <2>2. task = "select" /\ ran' = Append(ran, "cancel")
    BY <1>2, <2>1 DEF TakeClose, TakeAbort, TakeCancel, CallsCancel
  <2>3. ran = <<>>
    BY <1>2, <2>2 DEF Wound
  <2>. QED
    BY <2>2, <2>3
<1>. QED
  BY <1>1, <1>2, WoundNext, PTL DEF Spec, CancelBeforeFlush

(* Backpressure.  While the bound is in force, ...                           *)
Fresh == NoClone /\ ~aborted /\ ~Unusable /\ cancel = None
Serving == task \in {"starting", "select", "space", "recheck", "parked", "transform"}

(* No call is made more often than the plan says.                            *)
Spent == \A k \in Calls : left[k] <= plan.calls[k]

CallList == {EnqueueCall, <<"count">>, <<"closeGate">>, ErrorCall, Tail(ErrorCall), TerminateCall}

(* The readable of a stream nobody has ended.                                *)
Plain ==
    Fresh /\ Serving =>
      /\ todo[Clone] = <<>> /\ r.state = "open"
      /\ \A i \in 1..Len(rctl) : rctl[i] = "chunk"
      /\ r.reads > 0 => r.queue = 0
      /\ pull \notin {None, "parked"} => r.phase = "drive"
      /\ pull # "shut"
      /\ pull \in {"sync", "open"} => r.queue < Room

(* What the task may be in the middle of.                                    *)
Agenda ==
    Fresh /\ Serving =>
      /\ todo[Task] # <<>> => \/ task \in {"starting", "transform"} /\ todo[Task] \in CallList
                              \/ task = "select" /\ todo[Task] = <<"answerOk">>
      /\ given <= PerCall
      /\ todo[Task] = EnqueueCall => given >= 1

(* In a bundle the task and the readable take turns.                         *)
Rests == plan.spawn = "bundled" /\ r.phase # "idle" => todo[Task] = <<>> /\ task # "recheck"

-----------------------------------------------------------------------------
(* Backpressure: what stays as it is                                        *)

(* The lists of accesses, head and tail.                                     *)
LEMMA Heads ==
  /\ EnqueueCall # <<>> /\ Head(EnqueueCall) = "post" /\ Tail(EnqueueCall) = <<"count">>
  /\ <<"count">> # <<>> /\ Head(<<"count">>) = "count" /\ Tail(<<"count">>) = <<>>
  /\ <<"closeGate">> # <<>> /\ Head(<<"closeGate">>) = "closeGate" /\ Tail(<<"closeGate">>) = <<>>
  /\ ErrorCall # <<>> /\ Head(ErrorCall) = "raise"
  /\ Tail(ErrorCall) # <<>> /\ Head(Tail(ErrorCall)) = "rError"
  /\ TerminateCall # <<>> /\ Head(TerminateCall) = "rClose"
  /\ <<"answerOk">> # <<>> /\ Head(<<"answerOk">>) = "answerOk" /\ Tail(<<"answerOk">>) = <<>>
<1>1. EnqueueCall # <<>> /\ Head(EnqueueCall) = "post" /\ Tail(EnqueueCall) = <<"count">>
  BY DEF EnqueueCall
<1>2. \A a \in Accesses : <<a>> # <<>> /\ Head(<<a>>) = a /\ Tail(<<a>>) = <<>>
  OBVIOUS
<1>3. ErrorCall # <<>> /\ Head(ErrorCall) = "raise"
  BY DEF ErrorCall
<1>4. Tail(ErrorCall) # <<>> /\ Head(Tail(ErrorCall)) = "rError"
  BY DEF ErrorCall
<1>5. TerminateCall # <<>> /\ Head(TerminateCall) = "rClose"
  BY DEF TerminateCall
<1>6. {"count", "closeGate", "answerOk"} \subseteq Accesses
  BY DEF Accesses
<1>. QED
  BY <1>1, <1>2, <1>3, <1>4, <1>5, <1>6

(* The next access tells the list.                                           *)
LEMMA NextAccess ==
  ASSUME Fresh, Serving, Agenda, todo[Task] # <<>>
  PROVE  /\ Head(todo[Task]) \in {"post", "count", "closeGate", "raise", "rError", "rClose", "answerOk"}
         /\ Head(todo[Task]) = "post" => todo[Task] = EnqueueCall
         /\ Head(todo[Task]) = "count" => todo[Task] = <<"count">>
         /\ Head(todo[Task]) = "closeGate" => todo[Task] = <<"closeGate">>
         /\ Head(todo[Task]) = "raise" => todo[Task] = ErrorCall
         /\ Head(todo[Task]) = "answerOk" => todo[Task] = <<"answerOk">>
         /\ Head(todo[Task]) # "answerOk" => task \in {"starting", "transform"}
         /\ Head(todo[Task]) = "answerOk" => task = "select"
  BY Heads DEF Agenda, CallList

(* Calls are only ever spent.                                                *)
LEMMA LeftFalls ==
  ASSUME Parts, [Next]_vars
  PROVE  plan' = plan /\ \A k \in Calls : left'[k] <= left[k]
<1>0. left \in [Calls -> Nat]
  BY DEF Parts, LeftOK
<1>1. UNCHANGED left \/ \E k \in Calls : Spend(k)
  <2>1. CASE UNCHANGED vars
    BY <2>1 DEF vars
  <2>2. CASE CallerStep
    BY <2>2 DEF CallerStep, Write, Close, Abort, Read, Cancel, Calls
  <2>3. CASE UserCall
    BY <2>3 DEF UserCall, TransformerCalls, CloneCalls, Calls
  <2>4. CASE ThreadStep
    BY <2>4 DEF ThreadStep, PostChunk, Count, CloseGate, Raise, ErrorReadable, CloseReadable, ErrorWritable,
         WakesPull, Completes, CompletesCancel, Drain, Stop, Does, DoesThen
  <2>5. CASE TaskStep
    BY <2>5 DEF TaskStep, StartReturns, TakeWrite, SpacePoll, SpaceRecheck, TransformReturns, TakeClose,
           FlushReturns, TakeAbort, TakeCancel, CallsCancel, CancelReturns, ChannelEnds, Calls
  <2>6. CASE ReadableStep
    BY <2>6 DEF ReadableStep, ReadableControl, ControlDrained, ReadableRead, ReadableCancel, ReadableGate, NoPull,
         SourcePull, PullSyncs, PullOpens, PullChecks, PullRechecks, CancelFires, CancelSends, InPhase
  <2>7. CASE WritableStep
    BY <2>7 DEF WritableStep, WritableErrored, SignalAbort, SinkWrite, SinkClose, SinkAbort, Sends,
         AbortDuringClose, SinkReturns
  <2>. QED
    BY <2>1, <2>2, <2>3, <2>4, <2>5, <2>6, <2>7 DEF Next, Work, TransformRuns, ReadableRuns, WritableRuns
<1>2. plan' = plan
  BY DEF Next, Work, TransformRuns, ReadableRuns, WritableRuns, vars
<1>. QED
  BY <1>0, <1>1, <1>2 DEF Spend

(* Nothing gives a call back.                                                *)
LEMMA SpentNext ==
  ASSUME Parts, Spent, [Next]_vars
  PROVE  Spent'
<1>1. plan.calls \in [Calls -> Nat]
  BY PlanType
<1>2. left \in [Calls -> Nat] /\ left' \in [Calls -> Nat]
  BY TypesNext DEF Parts, LeftOK
<1>. QED
  BY <1>1, <1>2, LeftFalls DEF Spent

(* A clone that is used once is used for good, and so is an ending asked for.*)
LEMMA Lasting ==
  ASSUME Parts, Spent, [Next]_vars
  PROVE  (NoClone' => NoClone) /\ (Unusable => Unusable')
<1>0. plan.calls \in [Calls -> Nat] /\ left \in [Calls -> Nat] /\ left' \in [Calls -> Nat]
  BY TypesNext, PlanType DEF Parts, LeftOK
<1>1. NoClone' => NoClone
  <2>1. {"capturedEnqueue", "capturedError", "capturedTerminate"} \subseteq Calls
    BY DEF Calls
  <2>. QED
    BY <1>0, <2>1, LeftFalls DEF Spent, NoClone
<1>2. Unusable => Unusable'
  <2>0. r \in [state : {"open", "closing", "closed", "errored"}, queue : Nat, asked : Nat, reads : Nat,
               closeRequested : BOOLEAN, errorRequested : BOOLEAN, needsPull : BOOLEAN,
               phase : {"idle", "control", "commands", "drive"}]
    BY DEF Parts, ROK
  <2>. DEFINE Stays == /\ r.state \in {"closed", "errored"} => r'.state \in {"closed", "errored"}
                       /\ r.closeRequested => r'.closeRequested
                       /\ r.errorRequested => r'.errorRequested
  <2>. SUFFICES Stays
    BY DEF Unusable, Ended
  <2>1. CASE UNCHANGED r
    BY <2>1
  <2>2. ASSUME NEW t \in Threads, ErrorReadable(t) \/ CloseReadable(t) PROVE Stays
    BY <2>2, <2>0 DEF ErrorReadable, CloseReadable
  <2>3. CASE ReadableControl
    BY <2>3, <2>0 DEF ReadableControl, Ended
  <2>4. CASE ReadableRead
    BY <2>4, <2>0 DEF ReadableRead
  <2>5. CASE ReadableCancel \/ ReadableGate \/ Read \/ ControlDrained \/ NoPull \/ PullChecks \/ PullRechecks
    BY <2>5, <2>0 DEF ReadableCancel, ReadableGate, Read, ControlDrained, NoPull, PullChecks, PullRechecks, PullOver
  <2>6. \/ UNCHANGED r \/ ReadableControl \/ ReadableRead
        \/ ReadableCancel \/ ReadableGate \/ Read \/ ControlDrained \/ NoPull \/ PullChecks \/ PullRechecks
        \/ \E t \in Threads : ErrorReadable(t) \/ CloseReadable(t)
    BY DEF Next, vars, CallerStep, Write, Close, Abort, Cancel, UserCall, TransformerCalls, CloneCalls,
         Work, TransformRuns, ReadableRuns, WritableRuns, WritableStep, WritableErrored, SignalAbort, SinkWrite,
         SinkClose, SinkAbort, Sends, AbortDuringClose, SinkReturns, ThreadStep, PostChunk, Count, CloseGate,
         Raise, ErrorWritable, WakesPull, Completes, CompletesCancel, Drain, Stop,
         ReadableStep, SourcePull, PullSyncs, PullOpens, CancelFires, CancelSends, InPhase, readableVars,
         TaskStep, StartReturns, TakeWrite, SpacePoll, SpaceRecheck, TransformReturns, TakeClose, TakeAbort,
         TakeCancel, CallsCancel, FlushReturns, CancelReturns, ChannelEnds
  <2>. HIDE DEF Stays
  <2>. QED
    BY <2>1, <2>2, <2>3, <2>4, <2>5, <2>6
<1>. QED
  BY <1>1, <1>2

(* What ends the bound ends it for good.                                     *)
LEMMA Stale ==
  ASSUME Parts, Spent, [Next]_vars
  PROVE  /\ Fresh' => Fresh
         /\ Serving' => Serving
<1>1. (NoClone' => NoClone) /\ (Unusable => Unusable')
  BY Lasting
<1>2. aborted => aborted'
  BY DEF Next, vars, CallerStep, Write, Close, Abort, Read, Cancel, UserCall, TransformerCalls, CloneCalls,
         Work, TransformRuns, ReadableRuns, WritableRuns, WritableStep, WritableErrored, SignalAbort, SinkWrite,
         SinkClose, SinkAbort, Sends, AbortDuringClose, SinkReturns, ThreadStep, PostChunk, Count, CloseGate,
         Raise, ErrorReadable, CloseReadable, ErrorWritable, WakesPull, Completes, CompletesCancel, Drain, Stop,
         ReadableStep, ReadableControl, ControlDrained, ReadableRead, ReadableCancel, ReadableGate, NoPull,
         SourcePull, PullSyncs, PullOpens, PullChecks, PullRechecks, CancelFires, CancelSends, InPhase, writableVars,
         TaskStep, StartReturns, TakeWrite, SpacePoll, SpaceRecheck, TransformReturns, TakeClose, TakeAbort,
         TakeCancel, CallsCancel, FlushReturns, CancelReturns, ChannelEnds
<1>3. cancel # None => cancel' # None
  BY DEF Next, vars, CallerStep, Write, Close, Abort, Read, Cancel, UserCall, TransformerCalls, CloneCalls,
         Work, TransformRuns, ReadableRuns, WritableRuns, WritableStep, WritableErrored, SignalAbort, SinkWrite,
         SinkClose, SinkAbort, Sends, AbortDuringClose, SinkReturns, ThreadStep, PostChunk, Count, CloseGate,
         Raise, ErrorReadable, CloseReadable, ErrorWritable, WakesPull, Completes, CompletesCancel, Drain, Stop,
         ReadableStep, ReadableControl, ControlDrained, ReadableRead, ReadableCancel, ReadableGate, NoPull,
         SourcePull, PullSyncs, PullOpens, PullChecks, PullRechecks, CancelFires, CancelSends, InPhase, readableVars,
         TaskStep, StartReturns, TakeWrite, SpacePoll, SpaceRecheck, TransformReturns, TakeClose, TakeAbort,
         TakeCancel, CallsCancel, FlushReturns, CancelReturns, ChannelEnds, None
<1>4. Serving' => Serving
  BY DEF Next, vars, CallerStep, Write, Close, Abort, Read, Cancel, UserCall, TransformerCalls, CloneCalls,
         Work, TransformRuns, ReadableRuns, WritableRuns, WritableStep, WritableErrored, SignalAbort, SinkWrite,
         SinkClose, SinkAbort, Sends, AbortDuringClose, SinkReturns, ThreadStep, PostChunk, Count, CloseGate,
         Raise, ErrorReadable, CloseReadable, ErrorWritable, WakesPull, Completes, CompletesCancel, Drain, Stop,
         ReadableStep, ReadableControl, ControlDrained, ReadableRead, ReadableCancel, ReadableGate, NoPull,
         SourcePull, PullSyncs, PullOpens, PullChecks, PullRechecks, CancelFires, CancelSends, InPhase, taskVars,
         TaskStep, StartReturns, TakeWrite, SpacePoll, SpaceRecheck, TransformReturns, TakeClose, TakeAbort,
         TakeCancel, CallsCancel, FlushReturns, CancelReturns, ChannelEnds, Goes, EndsAfter, Serving
<1>. QED
  BY <1>1, <1>2, <1>3, <1>4 DEF Fresh

-----------------------------------------------------------------------------
(* What a step does while the bound is in force.                             *)

\* The readable, its channel and the gate are left alone.
ReadableKept == UNCHANGED <<r.queue, r.reads, r.phase, r.state, pull>>
GateKept == UNCHANGED <<signal.space, signal.pending>>
TaskKept == UNCHANGED <<task, given, todo[Task]>>

Elsewhere == TaskKept /\ ReadableKept /\ GateKept /\ UNCHANGED rctl

(* The transformer calls the controller.                                     *)
Calling ==
    /\ todo[Task] = <<>> /\ task \in {"starting", "transform"} /\ UNCHANGED task
    /\ \/ todo'[Task] = EnqueueCall /\ given < PerCall /\ given' = given + 1
       \/ todo'[Task] \in {ErrorCall, TerminateCall} /\ UNCHANGED given
    /\ GateKept /\ UNCHANGED rctl

(* The task goes on without a look at the gate.                              *)
Going ==
    /\ \/ todo[Task] = ErrorCall /\ todo'[Task] = Tail(ErrorCall) /\ UNCHANGED <<task, given>>
       \/ todo[Task] = <<"answerOk">> /\ todo'[Task] = <<>> /\ UNCHANGED <<task, given>>
       \/ /\ todo[Task] = <<>> /\ todo'[Task] \in {<<>>, <<"answerOk">>}
          /\ task \in {"starting", "transform"} /\ task' = "select" /\ given' = 0
       \/ /\ todo[Task] = <<>> /\ todo'[Task] = <<>> /\ UNCHANGED given
          /\ task \notin {"starting", "transform"} /\ task' \in {"space", "recheck", "parked"}
    /\ GateKept /\ UNCHANGED rctl

(* The gate lets the task into transform().                                  *)
Entering ==
    /\ todo[Task] = <<>> /\ todo'[Task] = <<>> /\ UNCHANGED given
    /\ task \in {"space", "recheck", "parked"} /\ task' = "transform" /\ signal.space
    /\ GateKept /\ UNCHANGED rctl

Posting ==
    /\ todo[Task] = EnqueueCall /\ todo'[Task] = <<"count">> /\ rctl' = Append(rctl, "chunk")
    /\ GateKept /\ UNCHANGED <<task, given>>

Tallying ==
    /\ todo[Task] = <<"count">> /\ signal'.pending = signal.pending + 1 /\ UNCHANGED signal.space
    /\ \/ todo'[Task] = <<"closeGate">>
       \/ todo'[Task] = <<>> /\ signal.pending + 1 < HWM
    /\ UNCHANGED <<task, given, rctl>>

Closing ==
    /\ todo[Task] = <<"closeGate">> /\ todo'[Task] = <<>> /\ ~signal'.space /\ UNCHANGED signal.pending
    /\ UNCHANGED <<task, given, rctl>>

TaskMove ==
    /\ ReadableKept
    /\ plan.spawn = "bundled" => r.phase = "idle"
    /\ Calling \/ Going \/ Entering \/ Posting \/ Tallying \/ Closing

(* The readable takes a chunk from its channel.                              *)
Taking ==
    /\ rctl # <<>> /\ rctl' = Tail(rctl) /\ r.phase \in {"idle", "control"} /\ r'.phase = "control"
    /\ \/ r.reads > 0 /\ r'.reads = r.reads - 1 /\ r'.queue = r.queue
       \/ r.reads = 0 /\ r'.reads = 0 /\ r'.queue = r.queue + 1
    /\ GateKept /\ UNCHANGED pull

Draining ==
    /\ rctl = <<>> /\ r.phase \in {"idle", "control"} /\ r'.phase = "commands"
    /\ GateKept /\ UNCHANGED <<rctl, pull, r.queue, r.reads>>

Reading ==
    /\ r.phase = "commands" /\ r'.phase = "commands"
    /\ \/ r.queue > 0 /\ r'.queue = r.queue - 1 /\ r'.reads = r.reads
       \/ r.queue = 0 /\ r'.queue = 0 /\ r'.reads = r.reads + 1
    /\ GateKept /\ UNCHANGED <<rctl, pull>>

(* The gate of the pull, and the pull.                                       *)
Starting ==
    /\ r.phase = "commands" /\ r'.phase = "drive" /\ pull = None /\ pull' = "sync"
    /\ r.queue < Room
    /\ GateKept /\ UNCHANGED <<rctl, r.queue, r.reads>>

Resting ==
    /\ \/ r'.phase = "idle" \/ (r.phase = "commands" /\ r'.phase = "drive" /\ pull \in {None, "parked"})
    /\ pull \in {None, "parked"} /\ UNCHANGED pull
    /\ GateKept /\ UNCHANGED <<rctl, r.queue, r.reads>>

Syncing ==
    /\ r.phase = "drive" /\ r'.phase = "drive" /\ pull = "sync" /\ pull' = "open"
    /\ signal'.pending = r.queue /\ UNCHANGED signal.space
    /\ UNCHANGED <<rctl, r.queue, r.reads>>

Opening ==
    /\ r.phase = "drive" /\ r'.phase = "drive" /\ pull = "open" /\ pull' = "check"
    /\ signal'.space /\ UNCHANGED signal.pending
    /\ UNCHANGED <<rctl, r.queue, r.reads>>

Watching ==
    /\ \/ r.phase = "commands" /\ r'.phase = "drive" /\ pull = "parked" /\ pull' = "check"
       \/ r.phase = "drive" /\ r'.phase = "drive" /\ pull = "check" /\ pull' = "register"
       \/ r.phase = "drive" /\ r'.phase = "idle" /\ pull = "register" /\ pull' = "parked"
    /\ GateKept /\ UNCHANGED <<rctl, r.queue, r.reads>>

Finishing ==
    /\ r.phase = "drive" /\ r'.phase = "idle" /\ pull \in {"check", "register"} /\ pull' = None /\ ~signal.space
    /\ GateKept /\ UNCHANGED <<rctl, r.queue, r.reads>>

ReadableMove ==
    /\ TaskKept
    /\ plan.spawn = "bundled" => todo[Task] = <<>> /\ task # "recheck"
    /\ r'.state = r.state
    /\ Taking \/ Draining \/ Reading \/ Starting \/ Resting \/ Syncing \/ Opening \/ Watching \/ Finishing

-----------------------------------------------------------------------------
RT == [state : {"open", "closing", "closed", "errored"}, queue : Nat, asked : Nat, reads : Nat,
       closeRequested : BOOLEAN, errorRequested : BOOLEAN, needsPull : BOOLEAN,
       phase : {"idle", "control", "commands", "drive"}]

(* The steps of each actor, as those moves.                                  *)
LEMMA CallerMoves ==
  ASSUME Parts, CallerStep
  PROVE  Elsewhere
<1>0. r \in RT
  BY DEF Parts, ROK, RT
<1>1. UNCHANGED <<taskVars, signal, rctl, pull>>
  BY DEF CallerStep, Write, Close, Abort, Read, Cancel, readableVars
<1>2. UNCHANGED r \/ r' = [r EXCEPT !.asked = @ + 1]
  BY DEF CallerStep, Write, Close, Abort, Read, Cancel, readableVars
<1>3. ReadableKept
  BY <1>0, <1>1, <1>2 DEF ReadableKept, RT
<1>. QED
  BY <1>1, <1>3 DEF Elsewhere, GateKept, TaskKept, taskVars

(* What the writable's task does is elsewhere.                              *)
LEMMA WritableMoves ==
  ASSUME Parts, WritableStep
  PROVE  Elsewhere
<1>1. UNCHANGED <<taskVars, readableVars>> /\ (UNCHANGED signal \/ signal' = [signal EXCEPT !.abortWaker = FALSE])
  BY DEF WritableStep, WritableErrored, SignalAbort, SinkWrite, SinkClose, SinkAbort, Sends,
         AbortDuringClose, SinkReturns
<1>2. GateKept
  BY <1>1 DEF GateKept, Parts, SignalOK
<1>. QED
  BY <1>1, <1>2 DEF Elsewhere, TaskKept, ReadableKept, taskVars, readableVars

(* A call of the users is one of the moves of the task.                     *)
LEMMA UserMoves ==
  ASSUME Parts, Fresh, Fresh', Serving, ReadableRests, UserCall, UNCHANGED plan
  PROVE  TaskMove /\ UNCHANGED todo[Clone]
<1>0. todo \in [Threads -> Seq(Accesses)] /\ Task # Clone /\ Task \in Threads /\ Clone \in Threads
  BY DEF Parts, TodoOK, Threads, Task, Clone
<1>1. ASSUME NEW k \in {"capturedEnqueue", "capturedError", "capturedTerminate"}, NEW call, CloneCalls(k, call)
      PROVE  FALSE
  <2>1. k \in Calls /\ left \in [Calls -> Nat] /\ plan.calls \in [Calls -> Nat]
    BY PlanType DEF Calls, Parts, LeftOK
  <2>2. left'[k] = left[k] - 1
    BY <1>1, <2>1 DEF CloneCalls, Spend
  <2>3. left[k] = plan.calls[k] /\ left'[k] = plan.calls[k]
    BY <1>1 DEF Fresh, NoClone
  <2>. QED
    BY <2>1, <2>2, <2>3
<1>2. TransformerCalls("enqueue", EnqueueCall) \/ TransformerCalls("error", ErrorCall)
        \/ TransformerCalls("terminate", TerminateCall)
  BY <1>1 DEF UserCall
<1>3. (InUserCode /\ task \in {"starting", "transform"}) \/ (task = "cancelling" /\ todo[Task] = <<>>)
  BY <1>2 DEF TransformerCalls, InUserCode, Serving
<1>4. todo[Task] = <<>> /\ task \in {"starting", "transform"}
  BY <1>3 DEF InUserCode, Serving
<1>5. UNCHANGED <<task, signal, readableVars>>
  BY <1>2 DEF TransformerCalls
<1>6. \/ todo' = [todo EXCEPT ![Task] = EnqueueCall] /\ given < PerCall /\ given' = given + 1
      \/ todo' = [todo EXCEPT ![Task] = ErrorCall] /\ given' = given
      \/ todo' = [todo EXCEPT ![Task] = TerminateCall] /\ given' = given
  BY <1>2 DEF TransformerCalls
<1>7. Calling /\ UNCHANGED todo[Clone]
  BY <1>0, <1>4, <1>5, <1>6 DEF Calling, GateKept, readableVars
<1>. QED
  BY <1>5, <1>7 DEF TaskMove, ReadableRests, ReadableKept, readableVars

(* A call of the controller is one of the moves.                            *)
LEMMA ThreadMoves ==
  ASSUME Parts, Plain, Agenda, Fresh, Fresh', Serving, Serving', ReadableRests, ThreadStep, UNCHANGED plan
  PROVE  TaskMove /\ UNCHANGED todo[Clone]
<1>0. todo \in [Threads -> Seq(Accesses)] /\ Task # Clone /\ Threads = {Task, Clone}
  BY DEF Parts, TodoOK, Threads, Task, Clone
<1>1. todo[Clone] = <<>>
  BY DEF Plain
<1>2. ASSUME NEW t \in Threads, NEW a, NEW more, DoesThen(t, a, more)
      PROVE  /\ t = Task /\ todo[Task] # <<>> /\ Head(todo[Task]) = a
             /\ todo'[Task] = more \o Tail(todo[Task]) /\ UNCHANGED todo[Clone]
  BY <1>0, <1>1, <1>2 DEF DoesThen
<1>3. ASSUME NEW t \in Threads, NEW a, Does(t, a)
      PROVE  /\ t = Task /\ todo[Task] # <<>> /\ Head(todo[Task]) = a
             /\ todo'[Task] = Tail(todo[Task]) /\ UNCHANGED todo[Clone]
  <2>1. t = Task /\ todo[Task] # <<>> /\ Head(todo[Task]) = a
        /\ todo'[Task] = <<>> \o Tail(todo[Task]) /\ UNCHANGED todo[Clone]
    BY <1>3, <1>2 DEF Does
  <2>2. Tail(todo[Task]) \in Seq(Accesses)
    BY <1>0, <2>1
  <2>. QED
    BY <2>1, <2>2
<1>5. ASSUME NEW t \in Threads, PostChunk(t) PROVE TaskMove /\ UNCHANGED todo[Clone]
  <2>1. /\ todo[Task] # <<>> /\ Head(todo[Task]) = "post"
        /\ todo'[Task] = Tail(todo[Task]) /\ UNCHANGED todo[Clone]
    BY <1>5, <1>3 DEF PostChunk
  <2>2. todo[Task] = EnqueueCall /\ todo'[Task] = <<"count">>
    BY <2>1, NextAccess, Heads
  <2>3. rctl' = Append(rctl, "chunk") /\ UNCHANGED <<task, given, signal, r, pull>>
    BY <1>5 DEF PostChunk, Post, Fresh
  <2>. QED
    BY <2>1, <2>2, <2>3 DEF TaskMove, Posting, ReadableKept, GateKept, ReadableRests
<1>6. ASSUME NEW t \in Threads, Count(t) PROVE TaskMove /\ UNCHANGED todo[Clone]
  <2>. DEFINE more == IF HWM = 0 \/ signal.pending + 1 >= HWM THEN <<"closeGate">> ELSE <<>>
  <2>1. /\ todo[Task] # <<>> /\ Head(todo[Task]) = "count"
        /\ todo'[Task] = more \o Tail(todo[Task]) /\ UNCHANGED todo[Clone]
    BY <1>6, <1>2 DEF Count
  <2>2. todo[Task] = <<"count">> /\ Tail(todo[Task]) = <<>>
    BY <2>1, NextAccess, Heads
  <2>3. more \o <<>> = more
    <3>1. more \in Seq(Accesses)
      BY ListTypes
    <3>. QED
      BY <3>1
  <2>4. todo'[Task] = more
    BY <2>1, <2>2, <2>3
  <2>5. signal'.pending = signal.pending + 1 /\ UNCHANGED signal.space /\ UNCHANGED <<task, given, readableVars>>
    BY <1>6 DEF Count, Parts, SignalOK
  <2>6. HWM \in Nat /\ signal.pending \in Nat
    BY PlanType DEF Parts, SignalOK
  <2>7. todo'[Task] = <<"closeGate">> \/ (todo'[Task] = <<>> /\ signal.pending + 1 < HWM)
    BY <2>4, <2>6
  <2>. HIDE DEF more
  <2>. QED
    BY <2>1, <2>2, <2>5, <2>7 DEF TaskMove, Tallying, ReadableKept, ReadableRests, readableVars
<1>7. ASSUME NEW t \in Threads, CloseGate(t) PROVE TaskMove /\ UNCHANGED todo[Clone]
  <2>1. /\ todo[Task] # <<>> /\ Head(todo[Task]) = "closeGate"
        /\ todo'[Task] = Tail(todo[Task]) /\ UNCHANGED todo[Clone]
    BY <1>7, <1>3 DEF CloseGate
  <2>2. todo[Task] = <<"closeGate">> /\ todo'[Task] = <<>>
    BY <2>1, NextAccess, Heads
  <2>3. UNCHANGED <<task, given, readableVars>> /\ signal' = WakePull([signal EXCEPT !.space = FALSE])
    BY <1>7 DEF CloseGate
  <2>4. ~signal'.space /\ UNCHANGED signal.pending
    BY <2>3 DEF WakePull, Parts, SignalOK
  <2>. QED
    BY <2>1, <2>2, <2>3, <2>4 DEF TaskMove, Closing, ReadableKept, ReadableRests, readableVars
<1>8. ASSUME NEW t \in Threads, Raise(t) PROVE TaskMove /\ UNCHANGED todo[Clone]
  <2>1. /\ todo[Task] # <<>> /\ Head(todo[Task]) = "raise"
        /\ todo'[Task] = Tail(todo[Task]) /\ UNCHANGED todo[Clone]
    BY <1>8, <1>3 DEF Raise
  <2>2. todo[Task] = ErrorCall /\ todo'[Task] = Tail(ErrorCall)
    BY <2>1, NextAccess
  <2>3. UNCHANGED <<task, given, signal, readableVars>>
    BY <1>8 DEF Raise
  <2>4. Going
    BY <2>2, <2>3 DEF Going, GateKept, readableVars
  <2>. QED
    BY <2>1, <2>3, <2>4 DEF TaskMove, ReadableKept, ReadableRests, readableVars
<1>9. ASSUME NEW t \in Threads, ErrorReadable(t) \/ CloseReadable(t) PROVE FALSE
  <2>1. r \in RT
    BY DEF Parts, ROK, RT
  <2>. QED
    BY <1>9, <2>1 DEF ErrorReadable, CloseReadable, Fresh, Unusable, RT
<1>10. ASSUME NEW t \in Threads, NEW a, Does(t, a)
       PROVE  a \in {"post", "count", "closeGate", "raise", "rError", "rClose", "answerOk"}
  BY <1>10, <1>3, NextAccess
<1>11. CASE Completes("ok")
  <2>1. /\ todo[Task] # <<>> /\ Head(todo[Task]) = "answerOk"
        /\ todo'[Task] = Tail(todo[Task]) /\ UNCHANGED todo[Clone]
    BY <1>11, <1>3, <1>0 DEF Completes
  <2>2. todo[Task] = <<"answerOk">> /\ todo'[Task] = <<>>
    BY <2>1, NextAccess, Heads
  <2>3. UNCHANGED <<task, given, signal, readableVars>>
    BY <1>11 DEF Completes
  <2>4. Going
    BY <2>2, <2>3 DEF Going, GateKept, readableVars
  <2>. QED
    BY <2>1, <2>3, <2>4 DEF TaskMove, ReadableKept, ReadableRests, readableVars
<1>12. /\ \A t \in Threads : ~ErrorWritable(t) /\ ~WakesPull(t)
       /\ ~Completes("err") /\ ~CompletesCancel("ok") /\ ~CompletesCancel("err") /\ ~Drain /\ ~Stop
  BY <1>0, <1>10 DEF ErrorWritable, WakesPull, Completes, CompletesCancel, Drain, Stop
<1>. QED
  BY <1>5, <1>6, <1>7, <1>8, <1>9, <1>11, <1>12 DEF ThreadStep

(* So is every step of the transform task.                                  *)
LEMMA TaskMoves ==
  ASSUME Parts, Agenda, Fresh, Fresh', Serving, Serving', ReadableRests, TaskStep, UNCHANGED plan
  PROVE  TaskMove /\ UNCHANGED todo[Clone]
<1>0. todo \in [Threads -> Seq(Accesses)] /\ Task # Clone /\ Task \in Threads /\ Clone \in Threads
  BY DEF Parts, TodoOK, Threads, Task, Clone
<1>1. UNCHANGED readableVars /\ GateKept
  <2>1. UNCHANGED <<r, rctl, pull>> /\ cancel' \in {cancel, "taken"}
    BY DEF TaskStep, StartReturns, TakeWrite, SpacePoll, SpaceRecheck, TransformReturns, TakeClose,
           FlushReturns, TakeAbort, TakeCancel, CallsCancel, CancelReturns, ChannelEnds, readableVars
  <2>2. UNCHANGED cancel
    BY <2>1 DEF Fresh, None
  <2>3. UNCHANGED signal \/ signal' = [signal EXCEPT !.waker = TRUE]
           \/ signal' = [signal EXCEPT !.abortWaker = TRUE]
    BY DEF TaskStep, StartReturns, TakeWrite, SpacePoll, SpaceRecheck, TransformReturns, TakeClose,
           FlushReturns, TakeAbort, TakeCancel, CallsCancel, CancelReturns, ChannelEnds
  <2>4. GateKept
    BY <2>3 DEF GateKept, Parts, SignalOK
  <2>. QED
    BY <2>1, <2>2, <2>4 DEF readableVars
<1>2. \/ StartReturns \/ TakeWrite \/ SpacePoll \/ SpaceRecheck \/ TransformReturns
  BY DEF TaskStep, TakeClose, TakeAbort, TakeCancel, CallsCancel, FlushReturns, CancelReturns, ChannelEnds,
         Goes, EndsAfter, Serving, Fresh
<1>3. (Going \/ Entering) /\ UNCHANGED todo[Clone]
  <2>1. CASE StartReturns
    BY <2>1, <1>1 DEF StartReturns, Goes, EndsAfter, Serving, Going, readableVars
  <2>2. CASE TransformReturns
    <3>1. task' = "select" /\ todo' = [todo EXCEPT ![Task] = <<"answerOk">>] /\ given' = 0 /\ task = "transform"
          /\ todo[Task] = <<>>
      BY <2>2 DEF TransformReturns, EndsAfter, Serving
    <3>. QED
      BY <3>1, <1>0, <1>1 DEF Going, readableVars
  <2>3. CASE TakeWrite
    BY <2>3, <1>1 DEF TakeWrite, Goes, Fresh, Going, readableVars
  <2>4. CASE SpacePoll
    <3>1. todo[Task] = <<>>
      BY <2>4 DEF SpacePoll, Agenda
    <3>. QED
      BY <2>4, <3>1, <1>1 DEF SpacePoll, Goes, Fresh, Going, Entering, readableVars
  <2>5. CASE SpaceRecheck
    <3>1. todo[Task] = <<>>
      BY <2>5 DEF SpaceRecheck, Agenda
    <3>. QED
      BY <2>5, <3>1, <1>1 DEF SpaceRecheck, Goes, Going, Entering, readableVars
  <2>. QED
    BY <1>2, <2>1, <2>2, <2>3, <2>4, <2>5
<1>. QED
  BY <1>1, <1>3 DEF TaskMove, ReadableKept, ReadableRests, readableVars

(* Every step of the readable's task is a move of the readable.             *)
LEMMA ReadableMoves ==
  ASSUME Parts, Plain, Fresh, Fresh', Serving, TaskRests, ReadableStep, UNCHANGED plan
  PROVE  ReadableMove /\ UNCHANGED todo[Clone]
<1>0. r \in RT /\ HWM \in Nat
  BY PlanType DEF Parts, ROK, RT
<1>1. TaskKept /\ UNCHANGED todo[Clone] /\ (plan.spawn = "bundled" => todo[Task] = <<>> /\ task # "recheck")
  <2>1. UNCHANGED taskVars
    BY DEF ReadableStep, ReadableControl, ControlDrained, ReadableRead, ReadableCancel, ReadableGate, NoPull,
         SourcePull, PullSyncs, PullOpens, PullChecks, PullRechecks, CancelFires, CancelSends, InPhase
  <2>. QED
    BY <2>1 DEF TaskKept, taskVars, TaskRests
<1>2. r.state = "open" /\ (r.reads > 0 => r.queue = 0) /\ pull # "shut"
      /\ (pull \in {"sync", "open"} => r.queue < Room)
      /\ (pull \notin {None, "parked"} => r.phase = "drive")
  BY DEF Plain
<1>3. ~Ended /\ ~Unusable /\ ~r.closeRequested /\ ~r.errorRequested /\ cancel = None /\ Room \in Nat /\ Room >= HWM
  BY <1>0 DEF Fresh, Unusable, Room
<1>4. ASSUME r'.state = r.state,
             Taking \/ Draining \/ Reading \/ Starting \/ Resting \/ Syncing \/ Opening \/ Watching \/ Finishing
      PROVE  ReadableMove /\ UNCHANGED todo[Clone]
  BY <1>1, <1>4 DEF ReadableMove
<1>5. CASE ReadableControl
  <2>1. rctl # <<>> /\ Head(rctl) = "chunk"
    <3>1. rctl # <<>> /\ rctl \in Seq({"chunk", "close", "error"})
      BY <1>5 DEF ReadableControl, Parts, CtlOK
    <3>2. rctl[1] = "chunk"
      BY <3>1 DEF Plain
    <3>. QED
      BY <3>1, <3>2
  <2>. DEFINE i == [r EXCEPT !.phase = "control"]
  <2>2. i \in RT /\ i.reads = r.reads /\ i.queue = r.queue /\ i.state = r.state /\ i.phase = "control"
    BY <1>0 DEF RT
  <2>3. IF r.reads > 0 THEN r' = [i EXCEPT !.reads = @ - 1, !.needsPull = TRUE]
        ELSE r' = [i EXCEPT !.queue = @ + 1, !.needsPull = TRUE]
    <3>1. r.reads > 0 \/ r.reads = 0
      BY <1>0 DEF RT
    <3>2. CASE r.reads > 0
      BY <1>5, <2>1, <1>2, <3>2 DEF ReadableControl
    <3>3. CASE r.reads = 0
      BY <1>5, <2>1, <1>2, <3>3 DEF ReadableControl
    <3>. QED
      BY <3>1, <3>2, <3>3
  <2>. HIDE DEF i
  <2>4. /\ r'.state = r.state /\ r'.phase = "control"
        /\ \/ r.reads > 0 /\ r'.reads = r.reads - 1 /\ r'.queue = r.queue
           \/ r.reads = 0 /\ r'.reads = 0 /\ r'.queue = r.queue + 1
    <3>1. r.reads \in Nat /\ r.queue \in Nat
      BY <1>0 DEF RT
    <3>2. CASE r.reads > 0
      BY <2>2, <2>3, <3>2 DEF RT
    <3>3. CASE ~(r.reads > 0)
      <4>1. r.reads = 0 /\ r' = [i EXCEPT !.queue = r.queue + 1, !.needsPull = TRUE]
        BY <2>2, <2>3, <3>1, <3>3
      <4>. QED
        BY <2>2, <4>1 DEF RT
    <3>. QED
      BY <3>2, <3>3
  <2>5. rctl' = Tail(rctl) /\ UNCHANGED <<signal, pull>> /\ r.phase \in {"idle", "control"}
    BY <1>5 DEF ReadableControl, InPhase
  <2>6. Taking
    BY <2>1, <2>4, <2>5 DEF Taking, GateKept
  <2>. QED
    BY <1>4, <2>4, <2>6
<1>6. CASE ControlDrained
  BY <1>4, <1>6, <1>0 DEF ControlDrained, InPhase, Draining, GateKept, RT
<1>7. CASE ReadableRead
  <2>. DEFINE i == [r EXCEPT !.asked = @ - 1]
  <2>1. i \in RT /\ i.reads = r.reads /\ i.queue = r.queue /\ i.state = r.state /\ i.phase = r.phase
    BY <1>7, <1>0 DEF RT, ReadableRead
  <2>2. IF r.queue > 0 THEN r' = [i EXCEPT !.queue = @ - 1, !.needsPull = TRUE, !.state = "open"]
        ELSE r' = [i EXCEPT !.reads = @ + 1, !.needsPull = TRUE]
    <3>1. r.queue > 0 \/ r.queue = 0
      BY <1>0 DEF RT
    <3>2. CASE r.queue > 0
      <4>. DEFINE end == IF r.state = "closing" /\ r.queue = 1 THEN "closed" ELSE i.state
      <4>1. r' = [i EXCEPT !.queue = @ - 1, !.needsPull = TRUE, !.state = end]
        BY <1>7, <3>2 DEF ReadableRead
      <4>2. end = "open"
        BY <1>2, <2>1
      <4>. QED
        BY <3>2, <4>1, <4>2
    <3>3. CASE r.queue = 0
      BY <1>7, <1>2, <3>3 DEF ReadableRead
    <3>. QED
      BY <3>1, <3>2, <3>3
  <2>. HIDE DEF i
  <2>4. /\ r'.state = r.state /\ r'.phase = r.phase
        /\ \/ r.queue > 0 /\ r'.queue = r.queue - 1 /\ r'.reads = r.reads
           \/ r.queue = 0 /\ r'.queue = 0 /\ r'.reads = r.reads + 1
    <3>1. r.reads \in Nat /\ r.queue \in Nat
      BY <1>0 DEF RT
    <3>2. CASE r.queue > 0
      <4>1. r' = [i EXCEPT !.queue = r.queue - 1, !.needsPull = TRUE, !.state = "open"]
        BY <2>1, <2>2, <3>2
      <4>. QED
        BY <2>1, <4>1, <3>2, <1>2 DEF RT
    <3>3. CASE ~(r.queue > 0)
      <4>1. r.queue = 0 /\ r' = [i EXCEPT !.reads = r.reads + 1, !.needsPull = TRUE]
        BY <2>1, <2>2, <3>1, <3>3
      <4>. QED
        BY <2>1, <4>1 DEF RT
    <3>. QED
      BY <3>2, <3>3
  <2>5. UNCHANGED <<rctl, signal, pull>> /\ r.phase = "commands"
    BY <1>7 DEF ReadableRead, InPhase
  <2>6. Reading
    BY <2>4, <2>5 DEF Reading, GateKept
  <2>. QED
    BY <1>4, <2>4, <2>6
<1>8. CASE ReadableGate
  <2>. DEFINE wanted == Desired > 0 \/ r.reads > 0
  <2>0. wanted => r.queue < Room
    BY <1>0, <1>2, <1>3 DEF RT, Desired, Room
  <2>1. r.phase = "commands" /\ UNCHANGED <<signal, rctl>>
    BY <1>8 DEF ReadableGate, InPhase
  <2>2. CASE r.needsPull /\ r.state = "open" /\ pull = None
    <3>1. CASE wanted
      <4>1. r' = [r EXCEPT !.needsPull = FALSE, !.phase = "drive"] /\ pull' = "sync"
        BY <1>8, <2>2, <3>1 DEF ReadableGate
      <4>2. Starting /\ r'.state = r.state
        BY <4>1, <2>0, <2>1, <2>2, <3>1, <1>0 DEF Starting, GateKept, RT
      <4>. QED
        BY <4>2, <1>4
    <3>2. CASE ~wanted
      <4>1. r' = [r EXCEPT !.needsPull = FALSE, !.phase = "idle"] /\ pull' = None
        BY <1>8, <2>2, <3>2 DEF ReadableGate
      <4>2. Resting /\ r'.state = r.state
        BY <4>1, <2>1, <2>2, <1>0 DEF Resting, GateKept, RT
      <4>. QED
        BY <4>2, <1>4
    <3>. QED
      BY <3>1, <3>2
  <2>3. CASE ~(r.needsPull /\ r.state = "open" /\ pull = None)
    <3>1. r' = [r EXCEPT !.phase = "drive"] /\ pull' = (IF pull = "parked" THEN "check" ELSE pull)
      BY <1>8, <2>3 DEF ReadableGate
    <3>2. pull \in {None, "parked"}
      BY <1>2, <2>1
    <3>3. r'.state = r.state /\ r'.queue = r.queue /\ r'.reads = r.reads /\ r'.phase = "drive"
      BY <3>1, <1>0 DEF RT
    <3>4. Resting \/ Watching
      BY <3>1, <3>2, <3>3, <2>1 DEF Resting, Watching, GateKept, None
    <3>. QED
      BY <3>3, <3>4, <1>4
  <2>. QED
    BY <2>2, <2>3
<1>9. CASE NoPull
  <2>1. pull = None /\ r' = [r EXCEPT !.phase = "idle"] /\ UNCHANGED <<pull, cancel, signal, rctl>>
    BY <1>9, <1>3 DEF NoPull, None
  <2>2. Resting /\ r'.state = r.state
    BY <2>1, <1>0 DEF Resting, GateKept, RT
  <2>. QED
    BY <2>2, <1>4
<1>10. CASE PullSyncs
  <2>1. pull = "sync" /\ r.phase = "drive" /\ UNCHANGED <<r, rctl>> /\ r.queue < Room
    BY <1>10, <1>2 DEF PullSyncs, InPhase
  <2>2. signal' = [signal EXCEPT !.pending = IF HWM > Desired THEN HWM - Desired ELSE 0]
        /\ pull' = IF Opens(Desired) THEN "open" ELSE "shut"
    BY <1>10, <1>2, <1>3 DEF PullSyncs
  <2>3. Opens(Desired) /\ (IF HWM > Desired THEN HWM - Desired ELSE 0) = r.queue
    BY <1>0, <2>1 DEF Opens, Desired, Room, RT
  <2>4. signal'.pending = r.queue /\ UNCHANGED signal.space /\ pull' = "open"
    BY <2>2, <2>3 DEF Parts, SignalOK
  <2>5. Syncing /\ r'.state = r.state
    BY <2>1, <2>4 DEF Syncing
  <2>. QED
    BY <2>5, <1>4
<1>11. CASE PullOpens
  <2>1. pull = "open" /\ r.phase = "drive" /\ UNCHANGED <<r, rctl>> /\ pull' = "check"
        /\ signal' = WakeTask([signal EXCEPT !.space = TRUE])
    BY <1>11, <1>2 DEF PullOpens, InPhase
  <2>2. signal'.space /\ UNCHANGED signal.pending
    BY <2>1 DEF WakeTask, Parts, SignalOK
  <2>3. Opening /\ r'.state = r.state
    BY <2>1, <2>2 DEF Opening
  <2>. QED
    BY <2>3, <1>4
<1>12. CASE PullChecks
  <2>1. pull = "check" /\ r.phase = "drive" /\ UNCHANGED rctl
    BY <1>12 DEF PullChecks, InPhase
  <2>2. CASE ~signal.space
    <3>1. pull' = None /\ r' = [r EXCEPT !.phase = "idle"] /\ UNCHANGED signal
      BY <1>12, <2>2 DEF PullChecks, PullOver
    <3>2. Finishing /\ r'.state = r.state
      BY <2>1, <2>2, <3>1, <1>0 DEF Finishing, GateKept, RT
    <3>. QED
      BY <3>2, <1>4
  <2>3. CASE signal.space
    <3>1. pull' = "register" /\ UNCHANGED r /\ signal' = [signal EXCEPT !.pullWaker = TRUE]
      BY <1>12, <2>3, <1>3 DEF PullChecks
    <3>2. GateKept
      BY <3>1 DEF GateKept, Parts, SignalOK
    <3>3. Watching /\ r'.state = r.state
      BY <2>1, <3>1, <3>2 DEF Watching
    <3>. QED
      BY <3>3, <1>4
  <2>. QED
    BY <2>2, <2>3
<1>13. CASE PullRechecks
  <2>1. pull = "register" /\ r.phase = "drive" /\ UNCHANGED <<rctl, signal>> /\ r' = [r EXCEPT !.phase = "idle"]
        /\ pull' = IF ~signal.space THEN None ELSE "parked"
    BY <1>13 DEF PullRechecks, PullOver, InPhase
  <2>2. (Finishing \/ Watching) /\ r'.state = r.state
    BY <2>1, <1>0 DEF Finishing, Watching, GateKept, RT
  <2>. QED
    BY <2>2, <1>4
<1>14. ~ReadableCancel /\ ~CancelFires /\ ~CancelSends
  BY <1>3 DEF ReadableCancel, CancelFires, CancelSends, None
<1>. QED
  BY <1>5, <1>6, <1>7, <1>8, <1>9, <1>10, <1>11, <1>12, <1>13, <1>14 DEF ReadableStep, SourcePull

(* Every step that leaves the bound in force is one of these.                *)
LEMMA Moves ==
  ASSUME Parts, Plain, Agenda, Fresh, Fresh', Serving, Serving', [Next]_vars
  PROVE  (Elsewhere \/ TaskMove \/ ReadableMove) /\ UNCHANGED <<plan, todo[Clone]>>
<1>1. CASE UNCHANGED vars
  BY <1>1 DEF vars, taskVars, readableVars, Elsewhere, TaskKept, ReadableKept, GateKept
<1>2. CASE CallerStep /\ UNCHANGED plan
  <2>1. UNCHANGED todo
    BY <1>2 DEF CallerStep, Write, Close, Abort, Read, Cancel, taskVars
  <2>. QED
    BY <1>2, <2>1, CallerMoves
<1>3. CASE WritableRuns
  <2>1. UNCHANGED todo
    BY <1>3 DEF WritableRuns, WritableStep, WritableErrored, SignalAbort, SinkWrite, SinkClose, SinkAbort, Sends,
         AbortDuringClose, SinkReturns, taskVars
  <2>. QED
    BY <1>3, <2>1, WritableMoves DEF WritableRuns
<1>4. CASE ReadableRests /\ UserCall /\ UNCHANGED plan
  BY <1>4, UserMoves
<1>5. CASE TransformRuns
  BY <1>5, ThreadMoves, TaskMoves DEF TransformRuns
<1>6. CASE ReadableRuns
  BY <1>6, ReadableMoves DEF ReadableRuns
<1>. QED
  BY <1>1, <1>2, <1>3, <1>4, <1>5, <1>6 DEF Next, Work

(* The turns of a bundle.                                                    *)
LEMMA RestsNext ==
  ASSUME Parts, Rests, [Next]_vars
  PROVE  Rests'
<1>1. CASE UNCHANGED <<plan, todo[Task], task, r.phase>>
  BY <1>1 DEF Rests
<1>2. CASE ReadableRests /\ r'.phase = r.phase /\ plan' = plan
  BY <1>2 DEF Rests, ReadableRests
<1>3. CASE TaskRests /\ UNCHANGED <<plan, todo, task>>
  BY <1>3 DEF Rests, TaskRests
<1>4. CASE CallerStep /\ UNCHANGED plan
  <2>1. UNCHANGED <<todo, task>> /\ (UNCHANGED r \/ r' = [r EXCEPT !.asked = @ + 1])
    BY <1>4 DEF CallerStep, Write, Close, Abort, Read, Cancel, taskVars, readableVars
  <2>2. r'.phase = r.phase
    BY <2>1 DEF Parts, ROK
  <2>. QED
    BY <1>1, <1>4, <2>1, <2>2
<1>5. CASE ReadableRests /\ UserCall /\ UNCHANGED plan
  BY <1>2, <1>5 DEF UserCall, TransformerCalls, CloneCalls, readableVars
<1>6. CASE TransformRuns
  <2>1. UNCHANGED r \/ r' = [r EXCEPT !.errorRequested = TRUE] \/ r' = [r EXCEPT !.closeRequested = TRUE]
    BY <1>6 DEF TransformRuns, ThreadStep, PostChunk, Count, CloseGate, Raise, ErrorReadable, CloseReadable,
         ErrorWritable, WakesPull, Completes, CompletesCancel, Drain, Stop, TaskStep, StartReturns, TakeWrite,
         SpacePoll, SpaceRecheck, TransformReturns, TakeClose, FlushReturns, TakeAbort, TakeCancel, CallsCancel,
         CancelReturns, ChannelEnds, readableVars
  <2>2. r'.phase = r.phase
    BY <2>1 DEF Parts, ROK
  <2>. QED
    BY <1>2, <1>6, <2>2 DEF TransformRuns
<1>7. CASE ReadableRuns \/ WritableRuns
  <2>1. UNCHANGED taskVars
    BY <1>7 DEF ReadableRuns, ReadableStep, ReadableControl, ControlDrained, ReadableRead, ReadableCancel,
         ReadableGate, NoPull, SourcePull, PullSyncs, PullOpens, PullChecks, PullRechecks, CancelFires, CancelSends,
         InPhase, WritableRuns, WritableStep, WritableErrored, SignalAbort, SinkWrite, SinkClose, SinkAbort, Sends,
         AbortDuringClose, SinkReturns
  <2>. QED
    BY <1>3, <1>7, <2>1 DEF ReadableRuns, WritableRuns, taskVars
<1>. QED
  BY <1>1, <1>4, <1>5, <1>6, <1>7 DEF Next, Work, vars, taskVars, readableVars

(* What holds of a readable nobody has ended goes on holding.                *)
LEMMA PlainNext ==
  ASSUME Parts, Spent, Plain, Agenda, [Next]_vars
  PROVE  Plain'
<1>. SUFFICES ASSUME Fresh', Serving' PROVE Plain'
  BY DEF Plain
<1>0. Fresh /\ Serving
  BY Stale
<1>1. (Elsewhere \/ TaskMove \/ ReadableMove) /\ UNCHANGED <<plan, todo[Clone]>>
  BY <1>0, Moves
<1>2. rctl \in Seq({"chunk", "close", "error"}) /\ r.queue \in Nat /\ r.reads \in Nat /\ Room' = Room
  BY <1>1, <1>0 DEF Parts, CtlOK, ROK, Room, HWM
<1>3. /\ todo[Clone] = <<>> /\ r.state = "open"
      /\ \A i \in 1..Len(rctl) : rctl[i] = "chunk"
      /\ r.reads > 0 => r.queue = 0
      /\ pull \notin {None, "parked"} => r.phase = "drive"
      /\ pull # "shut"
      /\ pull \in {"sync", "open"} => r.queue < Room
  BY <1>0 DEF Plain
<1>4. todo'[Clone] = <<>> /\ r'.state = "open"
  BY <1>1, <1>3 DEF Elsewhere, TaskMove, ReadableMove, ReadableKept
<1>5. \A i \in 1..Len(rctl') : rctl'[i] = "chunk"
  <2>1. UNCHANGED rctl \/ rctl' = Append(rctl, "chunk") \/ (rctl # <<>> /\ rctl' = Tail(rctl))
    BY <1>1 DEF Elsewhere, TaskMove, Calling, Going, Entering, Posting, Tallying, Closing, ReadableMove,
                Taking, Draining, Reading, Starting, Resting, Syncing, Opening, Watching, Finishing
  <2>2. CASE rctl' = Append(rctl, "chunk")
    BY <2>2, <1>2, <1>3
  <2>3. CASE rctl # <<>> /\ rctl' = Tail(rctl)
    <3>1. Len(rctl') = Len(rctl) - 1 /\ \A i \in 1..Len(rctl') : rctl'[i] = rctl[i + 1]
      BY <2>3, <1>2
    <3>. QED
      BY <3>1, <1>2, <1>3
  <2>. QED
    BY <2>1, <2>2, <2>3, <1>3
<1>6. r'.reads > 0 => r'.queue = 0
  BY <1>1, <1>2, <1>3 DEF Elsewhere, TaskMove, ReadableKept, ReadableMove,
              Taking, Draining, Reading, Starting, Resting, Syncing, Opening, Watching, Finishing
<1>7. (pull' \notin {None, "parked"} => r'.phase = "drive") /\ pull' # "shut"
  BY <1>1, <1>3 DEF Elsewhere, TaskMove, ReadableKept, ReadableMove, None,
              Taking, Draining, Reading, Starting, Resting, Syncing, Opening, Watching, Finishing
<1>8. pull' \in {"sync", "open"} => r'.queue < Room
  BY <1>1, <1>2, <1>3 DEF Elsewhere, TaskMove, ReadableKept, ReadableMove, None,
              Taking, Draining, Reading, Starting, Resting, Syncing, Opening, Watching, Finishing
<1>. QED
  BY <1>2, <1>4, <1>5, <1>6, <1>7, <1>8 DEF Plain

(* The task stays in the middle of what the code does.                       *)
LEMMA AgendaNext ==
  ASSUME Parts, Spent, Plain, Agenda, [Next]_vars
  PROVE  Agenda'
<1>. SUFFICES ASSUME Fresh', Serving' PROVE Agenda'
  BY DEF Agenda
<1>0. Fresh /\ Serving /\ PerCall \in Nat /\ given \in Nat
  BY Stale, TransformAssumption DEF Parts, TaskOK
<1>1. Elsewhere \/ TaskMove \/ ReadableMove
  BY <1>0, Moves
<1>2. CASE TaskKept
  BY <1>2, <1>0 DEF TaskKept, Agenda
<1>3. CASE TaskMove
  <2>0. /\ todo[Task] # <<>> => \/ task \in {"starting", "transform"} /\ todo[Task] \in CallList
                                \/ task = "select" /\ todo[Task] = <<"answerOk">>
        /\ given <= PerCall
        /\ todo[Task] = EnqueueCall => given >= 1
    BY <1>0 DEF Agenda
  <2>1. CASE Calling
    BY <2>0, <2>1, <1>0, Heads DEF Calling, Agenda, CallList
  <2>2. CASE Going
    <3>1. Tail(ErrorCall) # EnqueueCall /\ <<"answerOk">> # EnqueueCall /\ <<>> # EnqueueCall
      BY Heads
    <3>2. ErrorCall \notin {<<>>, <<"answerOk">>}
      BY Heads
    <3>3. CASE todo[Task] = ErrorCall /\ todo'[Task] = Tail(ErrorCall) /\ UNCHANGED <<task, given>>
      <4>1. task \in {"starting", "transform"}
        BY <2>0, <3>2, <3>3
      <4>2. Tail(ErrorCall) \in CallList
        BY DEF CallList
      <4>. QED
        BY <2>0, <3>1, <3>3, <4>1, <4>2 DEF Agenda
    <3>4. CASE todo'[Task] = <<>> /\ given' = given
      BY <2>0, <3>1, <3>4 DEF Agenda
    <3>5. CASE task' = "select" /\ todo'[Task] \in {<<>>, <<"answerOk">>} /\ given' = 0
      BY <3>1, <3>5, <1>0 DEF Agenda
    <3>. QED
      BY <2>2, <3>3, <3>4, <3>5 DEF Going
  <2>3. CASE Entering
    BY <2>0, <2>3, <1>0, Heads DEF Entering, Agenda
  <2>4. CASE Posting \/ Tallying \/ Closing
    <3>1. todo[Task] \in CallList /\ todo[Task] # <<"answerOk">> /\ todo[Task] # <<>>
      BY <2>4, Heads DEF Posting, Tallying, Closing, CallList
    <3>2. todo'[Task] \in {<<"count">>, <<"closeGate">>, <<>>} /\ UNCHANGED <<task, given>>
      BY <2>4 DEF Posting, Tallying, Closing
    <3>3. EnqueueCall \notin {<<"count">>, <<"closeGate">>, <<>>}
      BY Heads
    <3>. QED
      BY <2>0, <3>1, <3>2, <3>3 DEF Agenda, CallList
  <2>. QED
    BY <1>3, <2>1, <2>2, <2>3, <2>4 DEF TaskMove
<1>. QED
  BY <1>1, <1>2, <1>3 DEF Elsewhere, ReadableMove

-----------------------------------------------------------------------------
(* The numbers the bound is about: the chunks given and not read (U), those  *)
(* of them still on their way (L), what the signal counts (P), what the task *)
(* has posted and not counted (Cnt) and what it may still post (Rem).        *)
U == Undelivered
L == Len(rctl)
P == signal.pending
S == signal.space
Cnt == IF todo[Task] = <<"count">> THEN 1 ELSE 0
Rem == IF task \in {"starting", "transform"} THEN PerCall - given + (IF todo[Task] = EnqueueCall THEN 1 ELSE 0) ELSE 0
Shutting == todo[Task] = <<"closeGate">>
M == Room + PerCall - 1

(* With the tasks on their own threads.  Before the pull looks at the        *)
(* desired size an open gate means that what the signal counts is below the  *)
(* mark; the count it then takes may miss M chunks.                          *)
Bounds ==
    Fresh /\ Serving =>
      /\ pull \in {None, "sync"} /\ S => U <= P + Cnt /\ U + Rem <= M /\ (Shutting \/ P < Room)
      /\ pull \in {None, "sync"} /\ r.phase \in {"commands", "drive"} => L + Rem <= M
      /\ pull = "open" => U + Rem <= Room - 1 + M
      /\ pull = "open" /\ S /\ ~Shutting => U <= P + Cnt + Room - 1 /\ P < Room
      /\ pull \notin {None, "sync"} => U <= P + Cnt + M
      /\ S /\ Cnt = 0 /\ ~Shutting => U <= Room - 1 + M

(* In a bundle nothing is on its way while the pull counts.                  *)
BundleBounds ==
    Fresh /\ Serving /\ plan.spawn = "bundled" =>
      /\ r.phase \in {"commands", "drive"} => L = 0
      /\ U <= P + Cnt
      /\ S /\ ~Shutting => P < Room
      /\ pull = "open" => P < Room

Numbers == U \in Nat /\ L \in Nat /\ P \in Nat /\ Cnt \in {0, 1} /\ Rem \in Nat /\ Rem <= PerCall
           /\ Room \in Nat /\ Room > 0 /\ PerCall \in Nat /\ M = Room + PerCall - 1 /\ r.queue = U - L /\ L <= U
           /\ S \in BOOLEAN /\ Shutting \in BOOLEAN

(* The numbers are what they should be.                                      *)
LEMMA NumbersHold ==
  ASSUME Parts, Agenda, Fresh, Serving
  PROVE  Numbers
<1>1. HWM \in Nat /\ PerCall \in Nat /\ r.queue \in Nat /\ signal.pending \in Nat /\ given \in Nat
  BY PlanType, TransformAssumption DEF Parts, ROK, SignalOK, TaskOK
<1>2. Len(rctl) \in Nat
  BY DEF Parts, CtlOK
<1>3. Rem \in Nat /\ Rem <= PerCall
  <2>1. given <= PerCall /\ (todo[Task] = EnqueueCall => given >= 1)
    BY DEF Agenda
  <2>. QED
    BY <2>1, <1>1 DEF Rem
<1>4. Room \in Nat /\ Room > 0
  BY <1>1 DEF Room
<1>5. U \in Nat /\ r.queue = U - L /\ L <= U
  BY <1>1, <1>2 DEF U, L, Undelivered
<1>6. S \in BOOLEAN /\ Shutting \in BOOLEAN
  BY DEF Parts, SignalOK, S, Shutting
<1>. QED
  BY <1>1, <1>2, <1>3, <1>4, <1>5, <1>6 DEF Numbers, L, P, Cnt, M

(* The same moves, in numbers.                                               *)
Late == r.phase \in {"commands", "drive"}

Quiet == U' <= U /\ L' <= L /\ Rem' <= Rem /\ UNCHANGED <<P, S, Cnt, Shutting, pull>> /\ (Late' => Late)
Posts == /\ U' = U + 1 /\ L' = L + 1 /\ Cnt = 0 /\ Cnt' = 1 /\ Rem' = Rem - 1
         /\ UNCHANGED <<P, S, Shutting, pull, r.phase>> /\ (plan.spawn = "bundled" => r.phase = "idle")
Counts == /\ P' = P + 1 /\ Cnt = 1 /\ Cnt' = 0 /\ ~Shutting /\ (Shutting' \/ P + 1 < Room)
          /\ UNCHANGED <<U, L, S, Rem, pull, r.phase>> /\ (plan.spawn = "bundled" => r.phase = "idle")
Shuts == Shutting /\ ~S' /\ Cnt = 0 /\ Cnt' = 0 /\ UNCHANGED <<U, L, P, Rem, pull, r.phase>>
Enters == /\ S /\ Cnt = 0 /\ Cnt' = 0 /\ ~Shutting /\ ~Shutting'
          /\ UNCHANGED <<U, L, P, S, pull, r.phase>>
Drains == L = 0 /\ UNCHANGED <<U, L, P, S, Cnt, Rem, Shutting, pull>>
Begins == pull = None /\ pull' = "sync" /\ Late /\ UNCHANGED <<U, L, P, S, Cnt, Rem, Shutting>>
Syncs == /\ pull = "sync" /\ pull' = "open" /\ r.phase = "drive" /\ P' = U - L
         /\ (plan.spawn = "bundled" => Cnt = 0)
         /\ UNCHANGED <<U, L, S, Cnt, Rem, Shutting, r.phase>>
OpensUp == pull = "open" /\ pull' = "check" /\ S' /\ UNCHANGED <<U, L, P, Cnt, Rem, Shutting, r.phase>>
Waits == /\ pull \in {"check", "register", "parked"} /\ pull' \in {"check", "register", "parked"}
         /\ (Late' => Late) /\ UNCHANGED <<U, L, P, S, Cnt, Rem, Shutting>>
Overs == /\ pull \in {"check", "register"} /\ pull' = None /\ r'.phase = "idle" /\ ~S
         /\ UNCHANGED <<U, L, P, S, Cnt, Rem, Shutting>>

(* The moves of the task change the numbers so.                              *)
LEMMA TaskNumbers ==
  ASSUME Parts, Agenda, Fresh, Fresh', Serving, Serving', TaskMove, UNCHANGED plan
  PROVE  Quiet \/ Posts \/ Counts \/ Shuts \/ Enters
<1>0. /\ HWM \in Nat /\ PerCall \in Nat /\ r.queue \in Nat /\ signal.pending \in Nat /\ given \in Nat
      /\ rctl \in Seq({"chunk", "close", "error"}) /\ given <= PerCall /\ Room >= HWM
  BY PlanType, TransformAssumption DEF Parts, ROK, SignalOK, TaskOK, CtlOK, Agenda, Room
<1>1. ReadableKept /\ (plan.spawn = "bundled" => r.phase = "idle") /\ UNCHANGED <<pull, r.queue, r.phase>>
  BY DEF TaskMove, ReadableKept
<1>2. UNCHANGED rctl => UNCHANGED <<U, L>> /\ U' <= U /\ L' <= L
  <2>1. U \in Nat /\ L \in Nat
    BY <1>0 DEF U, L, Undelivered
  <2>. QED
    BY <1>1, <2>1 DEF U, L, Undelivered
<1>3. GateKept => UNCHANGED <<P, S>>
  BY DEF GateKept, P, S
<1>4. Late' => Late
  BY <1>1 DEF Late
<1>5. CASE Calling
  <2>1. Cnt' = Cnt /\ Shutting' = Shutting
    BY <1>5, Heads DEF Calling, Cnt, Shutting
  <2>2. Rem' <= Rem
    <3>1. CASE todo'[Task] = EnqueueCall /\ given' = given + 1
      BY <1>5, <3>1, <1>0, Heads DEF Calling, Rem
    <3>2. CASE todo'[Task] \in {ErrorCall, TerminateCall} /\ UNCHANGED given
      BY <1>5, <3>2, <1>0, Heads DEF Calling, Rem
    <3>. QED
      BY <1>5, <3>1, <3>2 DEF Calling
  <2>. QED
    BY <1>5, <2>1, <2>2, <1>1, <1>2, <1>3, <1>4 DEF Quiet, Calling
<1>6. CASE Going
  <2>1. Cnt' = Cnt /\ Shutting' = Shutting
    BY <1>6, Heads DEF Going, Cnt, Shutting
  <2>2. Rem' <= Rem
    <3>0. Rem \in Nat
      BY NumbersHold DEF Numbers
    <3>1. CASE todo[Task] = ErrorCall /\ todo'[Task] = Tail(ErrorCall) /\ UNCHANGED <<task, given>>
      BY <3>0, <3>1, Heads DEF Rem
    <3>2. CASE todo[Task] = <<"answerOk">> /\ todo'[Task] = <<>> /\ UNCHANGED <<task, given>>
      BY <3>0, <3>2, Heads DEF Rem
    <3>3. CASE task' \notin {"starting", "transform"}
      BY <3>0, <3>3 DEF Rem
    <3>. QED
      BY <1>6, <3>1, <3>2, <3>3 DEF Going
  <2>. QED
    BY <1>6, <2>1, <2>2, <1>1, <1>2, <1>3, <1>4 DEF Quiet, Going
<1>7. CASE Entering
  <2>1. Cnt = 0 /\ Cnt' = 0 /\ ~Shutting /\ ~Shutting' /\ S
    BY <1>7 DEF Entering, Cnt, Shutting, S
  <2>. QED
    BY <1>7, <2>1, <1>1, <1>2, <1>3 DEF Enters, Entering
<1>8. CASE Posting
  <2>1. Cnt = 0 /\ Cnt' = 1 /\ ~Shutting /\ ~Shutting'
    BY <1>8, Heads DEF Posting, Cnt, Shutting
  <2>2. U' = U + 1 /\ L' = L + 1
    <3>1. Len(rctl') = Len(rctl) + 1 /\ Len(rctl) \in Nat
      BY <1>8, <1>0 DEF Posting
    <3>2. \A q, n, m \in Nat : m = n + 1 => q + m = (q + n) + 1
      OBVIOUS
    <3>3. r'.queue = r.queue /\ r.queue \in Nat
      BY <1>0, <1>1
    <3>4. Len(rctl') \in Nat
      BY <3>1
    <3>. QED
      BY <3>1, <3>2, <3>3, <3>4 DEF U, L, Undelivered
  <2>3. Rem' = Rem - 1
    <3>1. task \in {"starting", "transform"} /\ EnqueueCall # <<"count">>
      BY <1>8, Heads DEF Posting, Agenda
    <3>. QED
      BY <1>8, <1>0, <3>1 DEF Posting, Rem
  <2>4. Shutting' = Shutting
    BY <2>1 DEF Shutting
  <2>. QED
    BY <1>8, <2>1, <2>2, <2>3, <2>4, <1>1, <1>3 DEF Posts, Posting
<1>9. CASE Tallying
  <2>1. Cnt = 1 /\ Cnt' = 0 /\ Rem' = Rem /\ P' = P + 1 /\ S' = S /\ ~Shutting
    BY <1>9, Heads DEF Tallying, Cnt, Rem, P, S, Shutting
  <2>2. Shutting' \/ P + 1 < Room
    <3>1. CASE todo'[Task] = <<"closeGate">>
      BY <3>1 DEF Shutting
    <3>2. CASE signal.pending + 1 < HWM
      BY <3>2, <1>0 DEF P, Room
    <3>. QED
      BY <1>9, <3>1, <3>2 DEF Tallying
  <2>. QED
    BY <1>9, <2>1, <2>2, <1>1, <1>2 DEF Counts, Tallying
<1>10. CASE Closing
  <2>1. Cnt = 0 /\ Cnt' = 0 /\ Rem' = Rem /\ P' = P /\ ~S' /\ Shutting
    BY <1>10, Heads DEF Closing, Cnt, Rem, P, S, Shutting
  <2>. QED
    BY <1>10, <2>1, <1>1, <1>2 DEF Shuts, Closing
<1>. QED
  BY <1>5, <1>6, <1>7, <1>8, <1>9, <1>10 DEF TaskMove

(* And those of the readable.                                                *)
LEMMA ReadableNumbers ==
  ASSUME Parts, Plain, Fresh, Fresh', Serving, ReadableMove, UNCHANGED plan
  PROVE  Quiet \/ Drains \/ Begins \/ Syncs \/ OpensUp \/ Waits \/ Overs
<1>0. /\ r.queue \in Nat /\ r.reads \in Nat /\ rctl \in Seq({"chunk", "close", "error"})
  BY DEF Parts, ROK, CtlOK
<1>1. /\ UNCHANGED <<Cnt, Rem, Shutting>>
      /\ Rem' <= Rem
  <2>1. UNCHANGED <<Cnt, Rem, Shutting>>
    BY DEF ReadableMove, TaskKept, Cnt, Rem, Shutting
  <2>2. Rem \in Int
    BY TransformAssumption DEF Rem, Parts, TaskOK
  <2>. QED
    BY <2>1, <2>2
<1>2. UNCHANGED <<rctl, r.queue>> => UNCHANGED <<U, L>> /\ U' <= U /\ L' <= L
  <2>1. U \in Nat /\ L \in Nat
    BY <1>0 DEF U, L, Undelivered
  <2>. QED
    BY <2>1 DEF U, L, Undelivered
<1>3. GateKept => UNCHANGED <<P, S>>
  BY DEF GateKept, P, S
<1>4. CASE Taking
  <2>1. Len(rctl') = Len(rctl) - 1 /\ Len(rctl) \in Nat
    BY <1>0, <1>4 DEF Taking
  <2>2. U' <= U /\ L' <= L
    BY <1>0, <1>4, <2>1 DEF Taking, U, L, Undelivered
  <2>3. ~Late'
    BY <1>4 DEF Taking, Late
  <2>. QED
    BY <1>1, <1>3, <1>4, <2>2, <2>3 DEF Quiet, Taking
<1>5. CASE Draining
  <2>1. L = 0
    BY <1>5 DEF Draining, L
  <2>. QED
    BY <1>1, <1>2, <1>3, <1>5, <2>1 DEF Drains, Draining
<1>6. CASE Reading
  <2>1. L' = L /\ L \in Nat
    BY <1>0, <1>6 DEF Reading, L
  <2>2. U' <= U
    BY <1>0, <1>6, <2>1 DEF Reading, U, L, Undelivered
  <2>3. Late
    BY <1>6 DEF Reading, Late
  <2>. QED
    BY <1>1, <1>3, <1>6, <2>1, <2>2, <2>3 DEF Quiet, Reading
<1>7. CASE Starting
  BY <1>1, <1>2, <1>3, <1>7 DEF Starting, Begins, Late
<1>8. CASE Resting
  BY <1>1, <1>2, <1>3, <1>8 DEF Resting, Quiet, Late
<1>9. CASE Syncing
  <2>1. P' = U - L /\ S' = S
    BY <1>0, <1>9 DEF Syncing, P, S, U, L, Undelivered
  <2>2. plan.spawn = "bundled" => Cnt = 0
    BY DEF ReadableMove, Cnt
  <2>. QED
    BY <1>1, <1>2, <1>9, <2>1, <2>2 DEF Syncing, Syncs
<1>10. CASE Opening
  BY <1>1, <1>2, <1>10 DEF Opening, OpensUp, P, S
<1>11. CASE Watching
  BY <1>1, <1>2, <1>3, <1>11 DEF Watching, Waits, Late
<1>12. CASE Finishing
  BY <1>1, <1>2, <1>3, <1>12 DEF Finishing, Overs, S
<1>. QED
  BY <1>4, <1>5, <1>6, <1>7, <1>8, <1>9, <1>10, <1>11, <1>12 DEF ReadableMove

(* Every step that leaves the bound in force, in numbers.                    *)
LEMMA NumberMoves ==
  ASSUME Parts, Plain, Agenda, Fresh, Fresh', Serving, Serving', [Next]_vars
  PROVE  /\ \/ Quiet \/ Posts \/ Counts \/ Shuts \/ Enters
            \/ Drains \/ Begins \/ Syncs \/ OpensUp \/ Waits \/ Overs
         /\ UNCHANGED <<plan, Room, M>>
<1>1. (Elsewhere \/ TaskMove \/ ReadableMove) /\ UNCHANGED plan
  BY Moves
<1>2. UNCHANGED <<Room, M>>
  BY <1>1 DEF Room, M, HWM
<1>3. CASE Elsewhere
  <2>1. U \in Nat /\ L \in Nat /\ Rem \in Int
    BY TransformAssumption DEF U, L, Undelivered, Rem, Parts, ROK, CtlOK, TaskOK
  <2>2. UNCHANGED <<U, L, Rem, P, S, Cnt, Shutting, pull, r.phase>>
    BY <1>3 DEF Elsewhere, TaskKept, ReadableKept, GateKept, U, L, Rem, P, S, Cnt, Shutting, Undelivered
  <2>. QED
    BY <1>1, <1>2, <2>1, <2>2 DEF Quiet, Late
<1>. QED
  BY <1>1, <1>2, <1>3, TaskNumbers, ReadableNumbers

(* The numbers of the next state.                                            *)
LEMMA NumbersNext == (Parts /\ Agenda /\ Fresh /\ Serving => Numbers)'
<1>1. Parts /\ Agenda /\ Fresh /\ Serving => Numbers
  BY NumbersHold
<1>. QED
  BY <1>1, PTL

(* Two steps of arithmetic the backends want spelt out.                      *)
LEMMA AddsUp ==
  ASSUME NEW a \in Int, NEW b \in Int, NEW c \in Int, NEW d \in Int, a <= b, c <= d
  PROVE  a + c <= b + d
  OBVIOUS
(* What is below a lower bound is below.                                    *)
LEMMA Through ==
  ASSUME NEW a \in Int, NEW b \in Int, NEW c \in Int, a <= b, b <= c
  PROVE  a <= c
  OBVIOUS

(* With the tasks on their own threads the bounds are kept.                  *)
LEMMA BoundsNext ==
  ASSUME Parts, Spent, Plain, Agenda, Bounds, [Next]_vars
  PROVE  Bounds'
<1>. SUFFICES ASSUME Fresh', Serving' PROVE Bounds'
  BY DEF Bounds
<1>0. Fresh /\ Serving
  BY Stale
<1>1. Parts' /\ Agenda' /\ Plain'
  BY TypesNext, AgendaNext, PlainNext
<1>2. Numbers /\ Numbers'
  BY <1>0, <1>1, NumbersHold, NumbersNext
<1>3. /\ \/ Quiet \/ Posts \/ Counts \/ Shuts \/ Enters
         \/ Drains \/ Begins \/ Syncs \/ OpensUp \/ Waits \/ Overs
      /\ UNCHANGED <<plan, Room, M>>
  BY <1>0, NumberMoves
<1>4. /\ pull \notin {None, "parked"} => r.phase = "drive"
      /\ pull \in {"sync", "open"} => r.queue < Room
  BY <1>0 DEF Plain
<1>5. /\ pull \in {None, "sync"} /\ S => U <= P + Cnt /\ U + Rem <= M /\ (Shutting \/ P < Room)
      /\ pull \in {None, "sync"} /\ r.phase \in {"commands", "drive"} => L + Rem <= M
      /\ pull = "open" => U + Rem <= Room - 1 + M
      /\ pull = "open" /\ S /\ ~Shutting => U <= P + Cnt + Room - 1 /\ P < Room
      /\ pull \notin {None, "sync"} => U <= P + Cnt + M
      /\ S /\ Cnt = 0 /\ ~Shutting => U <= Room - 1 + M
  BY <1>0 DEF Bounds
<1>6. pull \in {None, "sync", "open", "check", "register", "parked"} /\ None = "none"
  BY <1>0 DEF Plain, Parts, PullOK, None
<1>. DEFINE Holds == /\ pull \in {None, "sync"} /\ S => U <= P + Cnt /\ U + Rem <= M /\ (Shutting \/ P < Room)
                     /\ pull \in {None, "sync"} /\ r.phase \in {"commands", "drive"} => L + Rem <= M
                     /\ pull = "open" => U + Rem <= Room - 1 + M
                     /\ pull = "open" /\ S /\ ~Shutting => U <= P + Cnt + Room - 1 /\ P < Room
                     /\ pull \notin {None, "sync"} => U <= P + Cnt + M
                     /\ S /\ Cnt = 0 /\ ~Shutting => U <= Room - 1 + M
<1>. SUFFICES Holds'
  BY DEF Bounds
<1>7. CASE Quiet
  <2>0. /\ U' \in Int /\ U \in Int /\ L' \in Int /\ L \in Int /\ Rem' \in Int /\ Rem \in Int
        /\ M \in Int /\ Room \in Int
        /\ U' + Rem' \in Int /\ U + Rem \in Int /\ L' + Rem' \in Int /\ L + Rem \in Int /\ Room - 1 + M \in Int
        /\ M' = M /\ Room' = Room /\ Room' - 1 + M' = Room - 1 + M
    BY <1>2, <1>3 DEF Numbers
  <2>1. U' <= U /\ L' <= L /\ Rem' <= Rem
    BY <1>7 DEF Quiet
  <2>2. U' + Rem' <= U + Rem /\ L' + Rem' <= L + Rem
    BY <2>0, <2>1, AddsUp
  <2>3. /\ U + Rem <= M => U' + Rem' <= M'
        /\ L + Rem <= M => L' + Rem' <= M'
        /\ U + Rem <= Room - 1 + M => U' + Rem' <= Room' - 1 + M'
    <3>. HIDE DEF Numbers
    <3>1. U + Rem <= M => U' + Rem' <= M
      BY <2>0, <2>2, Through
    <3>2. L + Rem <= M => L' + Rem' <= M
      BY <2>0, <2>2, Through
    <3>3. U + Rem <= Room - 1 + M => U' + Rem' <= Room - 1 + M
      BY <2>0, <2>2, Through
    <3>. QED
      BY <2>0, <3>1, <3>2, <3>3
  <2>10. U <= P + Cnt => U' <= P' + Cnt'
    <3>1. P' + Cnt' = P + Cnt /\ P + Cnt \in Int
      BY <1>2, <1>7 DEF Quiet, Numbers
    <3>. QED
      BY <3>1, <2>0, <2>1, Through
  <2>4. (pull \in {None, "sync"} /\ S => U <= P + Cnt /\ U + Rem <= M /\ (Shutting \/ P < Room))'
    BY <1>3, <1>5, <1>7, <2>3, <2>10 DEF Quiet
  <2>5. (pull \in {None, "sync"} /\ r.phase \in {"commands", "drive"} => L + Rem <= M)'
    BY <1>3, <1>5, <1>7, <2>3 DEF Quiet, Late
  <2>6. (pull = "open" => U + Rem <= Room - 1 + M)'
    BY <1>3, <1>5, <1>7, <2>3 DEF Quiet
  <2>7. (pull = "open" /\ S /\ ~Shutting => U <= P + Cnt + Room - 1 /\ P < Room)'
    BY <1>2, <1>3, <1>5, <1>6, <1>7 DEF Quiet, Numbers, Late
  <2>8. (pull \notin {None, "sync"} => U <= P + Cnt + M)'
    BY <1>2, <1>3, <1>5, <1>6, <1>7 DEF Quiet, Numbers, Late
  <2>9. (S /\ Cnt = 0 /\ ~Shutting => U <= Room - 1 + M)'
    BY <1>2, <1>3, <1>5, <1>6, <1>7 DEF Quiet, Numbers, Late
  <2>. QED
    BY <2>4, <2>5, <2>6, <2>7, <2>8, <2>9
<1>8. CASE Posts
  BY <1>2, <1>3, <1>5, <1>6, <1>8 DEF Posts, Numbers
<1>9. CASE Counts
  <2>1. P' + Cnt' = P + Cnt /\ U' = U /\ ~Shutting /\ P' + Cnt' + Room' - 1 = P + Cnt + Room - 1
    BY <1>2, <1>3, <1>9 DEF Counts, Numbers
  <2>2. Shutting' \/ P' < Room'
    BY <1>3, <1>9 DEF Counts
  <2>3. (pull = "open" /\ S /\ ~Shutting => U <= P + Cnt + Room - 1 /\ P < Room)'
    BY <1>5, <1>9, <2>1, <2>2 DEF Counts
  <2>4. (pull \in {None, "sync"} /\ S => U <= P + Cnt /\ U + Rem <= M /\ (Shutting \/ P < Room))'
    BY <1>3, <1>5, <1>9, <2>1, <2>2 DEF Counts
  <2>5. (pull \in {None, "sync"} /\ r.phase \in {"commands", "drive"} => L + Rem <= M)'
    BY <1>3, <1>5, <1>9 DEF Counts
  <2>6. (pull = "open" => U + Rem <= Room - 1 + M)'
    BY <1>3, <1>5, <1>9 DEF Counts
  <2>7. (pull \notin {None, "sync"} => U <= P + Cnt + M)'
    BY <1>3, <1>5, <1>9, <2>1 DEF Counts
  <2>8. (S /\ Cnt = 0 /\ ~Shutting => U <= Room - 1 + M)'
    BY <1>2, <1>3, <1>5, <1>6, <1>9 DEF Counts, Numbers
  <2>. QED
    BY <2>3, <2>4, <2>5, <2>6, <2>7, <2>8
<1>10. CASE Shuts
  BY <1>2, <1>3, <1>5, <1>6, <1>10 DEF Shuts, Numbers
<1>11. CASE Enters
  <2>0. /\ U \in Int /\ L \in Int /\ Rem' \in Int /\ Rem' <= PerCall /\ PerCall \in Int /\ Room - 1 \in Int
        /\ Room - 1 + PerCall = M /\ L <= U /\ U + Rem' \in Int /\ L + Rem' \in Int
        /\ 2 * (Room - 1) + PerCall = Room - 1 + M /\ 2 * (Room - 1) \in Int
    BY <1>2 DEF Numbers
  <2>1. CASE pull \in {None, "sync"}
    <3>1. U <= Room - 1
      BY <1>2, <1>5, <1>11, <2>1 DEF Enters, Numbers
    <3>2. L <= Room - 1
      BY <2>0, <3>1, Through
    <3>3. U + Rem' <= M /\ L + Rem' <= M
      BY <2>0, <3>1, <3>2, AddsUp
    <3>. QED
      BY <1>3, <1>5, <1>6, <1>11, <2>1, <3>3 DEF Enters
  <2>2. CASE pull = "open"
    <3>1. U <= 2 * (Room - 1) /\ P < Room
      BY <1>2, <1>5, <1>11, <2>2 DEF Enters, Numbers
    <3>2. U + Rem' <= Room - 1 + M
      BY <2>0, <3>1, AddsUp
    <3>. QED
      BY <1>3, <1>5, <1>6, <1>11, <2>2, <3>1, <3>2 DEF Enters
  <2>3. CASE pull \notin {None, "sync", "open"}
    BY <1>3, <1>5, <1>11, <2>3 DEF Enters
  <2>. QED
    BY <2>1, <2>2, <2>3
<1>12. CASE Drains
  BY <1>2, <1>3, <1>5, <1>6, <1>12 DEF Drains, Numbers
<1>13. CASE Begins
  BY <1>2, <1>3, <1>5, <1>6, <1>13 DEF Begins, Numbers, Late
<1>14. CASE Syncs
  BY <1>2, <1>3, <1>4, <1>5, <1>6, <1>14 DEF Syncs, Numbers
<1>15. CASE OpensUp
  BY <1>2, <1>3, <1>4, <1>5, <1>6, <1>15 DEF OpensUp, Numbers
<1>16. CASE Waits
  BY <1>2, <1>3, <1>5, <1>6, <1>16 DEF Waits, Numbers
<1>17. CASE Overs
  BY <1>2, <1>3, <1>5, <1>6, <1>17 DEF Overs, Numbers
<1>. HIDE DEF Holds
<1>. QED
  BY <1>3, <1>7, <1>8, <1>9, <1>10, <1>11, <1>12, <1>13, <1>14, <1>15, <1>16, <1>17

(* And in a bundle.                                                          *)
LEMMA BundleNext ==
  ASSUME Parts, Spent, Plain, Agenda, BundleBounds, [Next]_vars
  PROVE  BundleBounds'
<1>. SUFFICES ASSUME Fresh', Serving', plan.spawn = "bundled", plan' = plan PROVE BundleBounds'
  BY LeftFalls DEF BundleBounds
<1>0. Fresh /\ Serving
  BY Stale
<1>1. Parts' /\ Agenda' /\ Plain'
  BY TypesNext, AgendaNext, PlainNext
<1>2. Numbers /\ Numbers'
  BY <1>0, <1>1, NumbersHold, NumbersNext
<1>3. /\ \/ Quiet \/ Posts \/ Counts \/ Shuts \/ Enters
         \/ Drains \/ Begins \/ Syncs \/ OpensUp \/ Waits \/ Overs
      /\ UNCHANGED <<plan, Room, M>>
  BY <1>0, NumberMoves
<1>4. /\ pull \notin {None, "parked"} => r.phase = "drive"
      /\ pull \in {"sync", "open"} => r.queue < Room
  BY <1>0 DEF Plain
<1>5. /\ r.phase \in {"commands", "drive"} => L = 0
      /\ U <= P + Cnt
      /\ S /\ ~Shutting => P < Room
      /\ pull = "open" => P < Room
  BY <1>0 DEF BundleBounds
<1>6. None = "none"
  BY DEF None
<1>. DEFINE Holds == /\ r.phase \in {"commands", "drive"} => L = 0
                     /\ U <= P + Cnt
                     /\ S /\ ~Shutting => P < Room
                     /\ pull = "open" => P < Room
<1>. SUFFICES Holds'
  BY DEF BundleBounds
<1>7. CASE Quiet
  BY <1>2, <1>3, <1>5, <1>6, <1>7 DEF Quiet, Numbers, Late
<1>8. CASE Posts
  BY <1>2, <1>3, <1>4, <1>5, <1>6, <1>8 DEF Posts, Numbers
<1>9. CASE Counts
  BY <1>2, <1>3, <1>4, <1>5, <1>6, <1>9 DEF Counts, Numbers
<1>10. CASE Shuts
  BY <1>2, <1>3, <1>5, <1>6, <1>10 DEF Shuts, Numbers
<1>11. CASE Enters
  BY <1>2, <1>3, <1>5, <1>6, <1>11 DEF Enters, Numbers
<1>12. CASE Drains
  BY <1>2, <1>3, <1>5, <1>6, <1>12 DEF Drains, Numbers
<1>13. CASE Begins
  BY <1>2, <1>3, <1>5, <1>6, <1>13 DEF Begins, Numbers, Late
<1>14. CASE Syncs
  BY <1>2, <1>3, <1>4, <1>5, <1>6, <1>14 DEF Syncs, Numbers
<1>15. CASE OpensUp
  BY <1>2, <1>3, <1>4, <1>5, <1>6, <1>15 DEF OpensUp, Numbers
<1>16. CASE Waits
  BY <1>2, <1>3, <1>5, <1>6, <1>16 DEF Waits, Numbers, Late
<1>17. CASE Overs
  BY <1>2, <1>3, <1>5, <1>6, <1>17 DEF Overs, Numbers
<1>. HIDE DEF Holds
<1>. QED
  BY <1>3, <1>7, <1>8, <1>9, <1>10, <1>11, <1>12, <1>13, <1>14, <1>15, <1>16, <1>17

(* What the proof of Backpressure keeps.                                     *)
FlowInv == Parts /\ Spent /\ Rests /\ Plain /\ Agenda /\ Bounds /\ BundleBounds

(* All of it holds at the start.                                             *)
LEMMA FlowInit ==
  ASSUME Init
  PROVE  FlowInv
<1>1. Parts
  BY TypesInit
<1>2. /\ todo = [t \in Threads |-> <<>>] /\ left = plan.calls /\ given = 0 /\ task = "starting"
      /\ rctl = <<>> /\ pull = None /\ r.queue = 0 /\ r.reads = 0 /\ r.state = "open" /\ r.phase = "idle"
      /\ signal.space = (HWM > 0) /\ signal.pending = 0
  BY DEF Init
<1>3. todo[Task] = <<>> /\ todo[Clone] = <<>>
  BY <1>2 DEF Threads
<1>4. HWM \in Nat /\ PerCall \in Nat /\ plan.calls \in [Calls -> Nat]
  BY <1>1, PlanType, TransformAssumption
<1>5. Spent /\ Rests
  BY <1>2, <1>4 DEF Spent, Rests
<1>6. Plain
  BY <1>2, <1>3 DEF Plain, None
<1>7. Agenda
  BY <1>2, <1>3, <1>4, Heads DEF Agenda
<1>8. U = 0 /\ L = 0 /\ P = 0 /\ Cnt = 0 /\ Rem = PerCall /\ ~Shutting /\ Room >= 1 /\ Room \in Nat
      /\ M = Room + PerCall - 1
  <2>1. U = 0 /\ L = 0 /\ P = 0
    BY <1>2 DEF U, L, P, Undelivered
  <2>2. Cnt = 0 /\ Rem = PerCall /\ ~Shutting
    <3>1. todo[Task] # <<"count">> /\ todo[Task] # <<"closeGate">> /\ todo[Task] # EnqueueCall
      BY <1>3, Heads
    <3>2. Rem = PerCall - given + 0
      BY <1>2, <3>1 DEF Rem
    <3>3. Rem = PerCall
      BY <1>2, <1>4, <3>2
    <3>4. Cnt = 0
      BY <3>1 DEF Cnt
    <3>5. ~Shutting
      BY <3>1 DEF Shutting
    <3>. QED
      BY <3>3, <3>4, <3>5
  <2>3. Room >= 1 /\ Room \in Nat /\ M = Room + PerCall - 1
    BY <1>4 DEF Room, M
  <2>. QED
    BY <2>1, <2>2, <2>3
<1>9. Bounds /\ BundleBounds
  BY <1>2, <1>4, <1>8 DEF Bounds, BundleBounds, None
<1>. QED
  BY <1>1, <1>5, <1>6, <1>7, <1>9 DEF FlowInv

(* And is kept.                                                              *)
LEMMA FlowNext ==
  ASSUME FlowInv, [Next]_vars
  PROVE  FlowInv'
  BY TypesNext, SpentNext, RestsNext, PlainNext, AgendaNext, BoundsNext, BundleNext DEF FlowInv

(* transform() begins only when the readable has room for another chunk, up  *)
(* to what a count of the pull may miss when the tasks have threads of their *)
(* own (SpaceSignal, wait_for_readable_space, TransformReadableSource).      *)
THEOREM TransformBackpressure == Spec => Backpressure
<1>1. ASSUME FlowInv, [Next]_vars, task # "transform", task' = "transform",
             NoClone, ~aborted, ~Unusable, cancel = None
      PROVE  Undelivered < Room + Slack
  <2>1. SpacePoll \/ SpaceRecheck
    BY <1>1 DEF Next, vars, CallerStep, Write, Close, Abort, Read, Cancel, UserCall, TransformerCalls, CloneCalls,
         Work, TransformRuns, ReadableRuns, WritableRuns, WritableStep, WritableErrored, SignalAbort, SinkWrite,
         SinkClose, SinkAbort, Sends, AbortDuringClose, SinkReturns, ThreadStep, PostChunk, Count, CloseGate,
         Raise, ErrorReadable, CloseReadable, ErrorWritable, WakesPull, Completes, CompletesCancel, Drain, Stop,
         ReadableStep, ReadableControl, ControlDrained, ReadableRead, ReadableCancel, ReadableGate, NoPull,
         SourcePull, PullSyncs, PullOpens, PullChecks, PullRechecks, CancelFires, CancelSends, InPhase, taskVars,
         TaskStep, StartReturns, TakeWrite, TransformReturns, TakeClose, TakeAbort, TakeCancel, CallsCancel,
         FlushReturns, CancelReturns, ChannelEnds, Goes, EndsAfter
  <2>2. task \in {"space", "recheck", "parked"} /\ S
    BY <1>1, <2>1 DEF SpacePoll, SpaceRecheck, Goes, S
  <2>3. Fresh /\ Serving
    BY <1>1, <2>2 DEF Fresh, Serving
  <2>4. Numbers
    BY <1>1, <2>3, NumbersHold DEF FlowInv
  <2>5. todo[Task] = <<>>
    BY <1>1, <2>2, <2>3 DEF FlowInv, Agenda
  <2>6. Cnt = 0 /\ ~Shutting
    BY <2>5 DEF Cnt, Shutting
  <2>7. CASE plan.spawn = "parts"
    <3>1. U <= Room - 1 + M
      BY <1>1, <2>2, <2>3, <2>6 DEF FlowInv, Bounds
    <3>2. Slack = M /\ U = Undelivered
      BY <2>7 DEF Slack, M, U
    <3>. QED
      BY <3>1, <3>2, <2>4 DEF Numbers
  <2>8. CASE plan.spawn = "bundled"
    <3>1. U <= P + Cnt /\ P < Room
      BY <1>1, <2>2, <2>3, <2>6, <2>8 DEF FlowInv, BundleBounds
    <3>2. Slack = 0 /\ U = Undelivered
      BY <2>8 DEF Slack, U
    <3>. QED
      BY <3>1, <3>2, <2>4, <2>6 DEF Numbers
  <2>. QED
    BY <1>1, <2>7, <2>8, PlanType DEF FlowInv
<1>. QED
  BY <1>1, FlowInit, FlowNext, PTL DEF Spec, Backpressure

-----------------------------------------------------------------------------
(* No lost wakeup: the lists of accesses                                    *)

(* NoneStuck says how the transform rests.  That it can rest in no other way *)
(* is an invariant of every state, StuckInv: whoever waits, somebody else    *)
(* has still to do what ends the wait, or has woken it.  It needs to know    *)
(* what the task has left to do, so the lists come first.                    *)

(* Whether access a is on a list, and where the accesses that matter may be. *)
Has(s, a) == \E k \in 1..Len(s) : s[k] = a
Fine(s) ==
    \A k \in 1..Len(s) :
       /\ s[k] = "stop" => k = Len(s)
       /\ s[k] = "rClose" => k = 1 /\ Len(s) >= 3 /\ s[2] = "wError" /\ s[3] = "wakePull"
       /\ s[k] = "count" => k = 1 \/ (k = 2 /\ s[1] = "post")
       /\ s[k] = "closeGate" => k = 1

(* What is left of a list after its first access.                            *)
LEMMA AfterTail ==
  ASSUME NEW s \in Seq(Accesses), s # <<>>
  PROVE  /\ \A a : Has(Tail(s), a) => Has(s, a)
         /\ \A a : Has(s, a) => a = Head(s) \/ Has(Tail(s), a)
         /\ Has(s, Head(s))
         /\ Fine(s) => /\ Fine(Tail(s)) /\ ~Has(Tail(s), "rClose")
                       /\ Head(s) = "stop" => Tail(s) = <<>>
                       /\ Tail(s) # <<>> => /\ Head(Tail(s)) = "count" => Head(s) = "post"
                                            /\ Head(Tail(s)) # "closeGate"
<1> DEFINE t == Tail(s)
<1>1. /\ Len(s) \in Nat /\ Len(s) >= 1 /\ Head(s) = s[1] /\ t \in Seq(Accesses)
      /\ Len(t) = Len(s) - 1
      /\ \A k \in 1..Len(t) : t[k] = s[k + 1] /\ k + 1 \in 1..Len(s)
  OBVIOUS
<1>. HIDE DEF t
<1>2. ASSUME NEW a, Has(t, a) PROVE Has(s, a)
  BY <1>1, <1>2 DEF Has
<1>3. ASSUME NEW a, Has(s, a), a # Head(s) PROVE Has(t, a)
  <2>1. PICK k \in 1..Len(s) : s[k] = a
    BY <1>3 DEF Has
  <2>2. k - 1 \in 1..Len(t) /\ (k - 1) + 1 = k
    BY <1>1, <1>3, <2>1
  <2>3. t[k - 1] = s[k]
    BY <1>1, <2>2
  <2>. QED
    BY <2>1, <2>2, <2>3 DEF Has
<1>4. Has(s, Head(s))
  BY <1>1 DEF Has
<1>5. ASSUME Fine(s) PROVE Fine(t) /\ ~Has(t, "rClose")
  <2>1. ASSUME NEW k \in 1..Len(t)
        PROVE  /\ t[k] = "stop" => k = Len(t)
               /\ t[k] # "rClose"
               /\ t[k] = "count" => k = 1
               /\ t[k] # "closeGate"
    BY <1>1, <1>5, <2>1 DEF Fine
  <2>. QED
    BY <2>1 DEF Fine, Has
<1>6. ASSUME Fine(s), Head(s) = "stop" PROVE t = <<>>
  <2>1. 1 \in 1..Len(s)
    BY <1>1
  <2>2. Len(s) = 1
    BY <1>1, <1>6, <2>1 DEF Fine
  <2>. QED
    BY <1>1, <2>2
<1>7. ASSUME Fine(s), t # <<>>
      PROVE  (Head(t) = "count" => Head(s) = "post") /\ Head(t) # "closeGate"
  <2>1. Head(t) = s[2] /\ 2 \in 1..Len(s)
    <3>1. 1 \in 1..Len(t) /\ Head(t) = t[1]
      BY <1>1, <1>7
    <3>. QED
      BY <1>1, <3>1
  <2>. QED
    BY <1>1, <1>7, <2>1 DEF Fine
<1>. QED
  BY <1>2, <1>3, <1>4, <1>5, <1>6, <1>7 DEF t

(* What is left of a terminate() that the readable refuses.                  *)
LEMMA AfterDrop ==
  ASSUME NEW s \in Seq(Accesses), s # <<>>, Fine(s), Head(s) = "rClose",
         NEW d, d = SubSeq(s, 4, Len(s))
  PROVE  /\ d \in Seq(Accesses) /\ Fine(d) /\ ~Has(d, "rClose")
         /\ \A a : Has(d, a) => Has(s, a)
         /\ \A a : Has(s, a) => a \in {"rClose", "wError", "wakePull"} \/ Has(d, a)
         /\ d # <<>> => Head(d) \notin {"count", "closeGate"}
<1>1. 1 \in 1..Len(s) /\ s[1] = "rClose" /\ Len(s) \in Nat
  OBVIOUS
<1>2. Len(s) >= 3 /\ s[2] = "wError" /\ s[3] = "wakePull"
  BY <1>1 DEF Fine
<1>3. d \in Seq(Accesses) /\ Len(d) = Len(s) - 3 /\ \A k \in 1..Len(d) : d[k] = s[k + 3] /\ k + 3 \in 1..Len(s)
  <2>1. d \in Seq(Accesses)
    BY DropTypes
  <2>2. 4 \in Int /\ Len(s) \in Int /\ \A k \in 4..Len(s) : s[k] \in Accesses
    BY <1>1
  <2>3. /\ Len(d) = IF 4 <= Len(s) THEN Len(s) - 4 + 1 ELSE 0
        /\ \A k \in 1..Len(s) - 4 + 1 : d[k] = s[4 + k - 1]
    BY <2>2, SubSeqProperties
  <2>4. Len(d) = Len(s) - 3
    <3>0. \A n \in Nat : n >= 3 => n = 3 \/ 4 <= n
      OBVIOUS
    <3>1. Len(s) \in Nat /\ (Len(s) = 3 \/ 4 <= Len(s))
      BY <1>1, <1>2, <3>0
    <3>2. CASE Len(s) = 3
      <4>1. ~(4 <= Len(s)) /\ Len(s) - 3 = 0
        BY <3>2
      <4>. QED
        BY <2>3, <4>1
    <3>3. CASE 4 <= Len(s)
      <4>1. Len(d) = Len(s) - 4 + 1
        BY <2>3, <3>3
      <4>2. \A n \in Nat : n - 4 + 1 = n - 3
        OBVIOUS
      <4>. QED
        BY <3>1, <4>1, <4>2
    <3>. QED
      BY <3>1, <3>2, <3>3
  <2>5. \A k \in 1..Len(d) : d[k] = s[k + 3] /\ k + 3 \in 1..Len(s)
    BY <1>1, <1>2, <2>3, <2>4
  <2>. QED
    BY <2>1, <2>4, <2>5
<1>4. ASSUME NEW k \in 1..Len(d)
      PROVE  /\ d[k] = "stop" => k = Len(d)
             /\ d[k] \notin {"rClose", "count", "closeGate"}
  BY <1>1, <1>2, <1>3 DEF Fine
<1>5. Fine(d) /\ ~Has(d, "rClose")
  BY <1>4 DEF Fine, Has
<1>6. \A a : Has(d, a) => Has(s, a)
  BY <1>3 DEF Has
<1>7. ASSUME NEW a, Has(s, a), a \notin {"rClose", "wError", "wakePull"} PROVE Has(d, a)
  <2>1. PICK k \in 1..Len(s) : s[k] = a
    BY <1>7 DEF Has
  <2>2. k > 3
    BY <1>1, <1>2, <1>7, <2>1
  <2>3. k - 3 \in 1..Len(d) /\ (k - 3) + 3 = k
    BY <1>1, <1>3, <2>1, <2>2
  <2>4. d[k - 3] = s[k]
    BY <1>3, <2>3
  <2>. QED
    BY <2>1, <2>3, <2>4 DEF Has
<1>8. d # <<>> => Head(d) \notin {"count", "closeGate"}
  <2>1. d # <<>> => 1 \in 1..Len(d) /\ Head(d) = d[1]
    BY <1>3
  <2>. QED
    BY <1>4, <2>1
<1>. QED
  BY <1>3, <1>5, <1>6, <1>7, <1>8

(* A count that closes the gate goes on to do so.                            *)
LEMMA AfterCount ==
  ASSUME NEW s \in Seq(Accesses), s # <<>>, Fine(s), Head(s) = "count",
         NEW d, d = <<"closeGate">> \o Tail(s)
  PROVE  /\ Fine(d) /\ ~Has(d, "rClose")
         /\ \A a : a # "closeGate" => (Has(d, a) <=> Has(Tail(s), a))
<1> DEFINE t == Tail(s)
<1>1. t \in Seq(Accesses) /\ Fine(t) /\ ~Has(t, "rClose")
  BY AfterTail
<1>2. t # <<>> => Head(t) # "count" /\ Head(t) # "closeGate"
  BY AfterTail
<1>3. Len(d) = Len(t) + 1 /\ d[1] = "closeGate" /\ \A k \in 1..Len(t) : d[k + 1] = t[k]
  BY <1>1 DEF Accesses
<1>. HIDE DEF t
<1>4. \A k \in 1..Len(d) : k = 1 \/ (k - 1 \in 1..Len(t) /\ d[k] = t[k - 1])
  <2>. SUFFICES ASSUME NEW k \in 1..Len(d), k # 1 PROVE k - 1 \in 1..Len(t) /\ d[k] = t[k - 1]
    OBVIOUS
  <2>1. k - 1 \in 1..Len(t) /\ (k - 1) + 1 = k
    BY <1>1, <1>3
  <2>. QED
    BY <1>3, <2>1
<1>5. \A a : a # "closeGate" => (Has(d, a) <=> Has(t, a))
  <2>. SUFFICES ASSUME NEW a, a # "closeGate" PROVE Has(d, a) <=> Has(t, a)
    OBVIOUS
  <2>1. Has(d, a) => Has(t, a)
    BY <1>3, <1>4 DEF Has
  <2>2. ASSUME Has(t, a) PROVE Has(d, a)
    <3>1. PICK k \in 1..Len(t) : t[k] = a
      BY <2>2 DEF Has
    <3>2. k + 1 \in 1..Len(d)
      BY <1>1, <1>3
    <3>. QED
      BY <1>3, <3>1, <3>2 DEF Has
  <2>. QED
    BY <2>1, <2>2
<1>6. Fine(d)
  <2>. SUFFICES ASSUME NEW k \in 1..Len(d), k # 1
                PROVE  /\ d[k] = "stop" => k = Len(d)
                       /\ d[k] # "rClose" /\ d[k] # "count" /\ d[k] # "closeGate"
    BY <1>3 DEF Fine
  <2>1. k - 1 \in 1..Len(t) /\ d[k] = t[k - 1]
    BY <1>4
  <2>2. d[k] # "rClose"
    BY <1>1, <2>1 DEF Has
  <2>3. k - 1 = 1 => Head(t) = t[k - 1] /\ t # <<>>
    BY <1>1, <2>1
  <2>4. d[k] = "closeGate" \/ d[k] = "count" => k - 1 = 1 \/ (k - 1 = 2 /\ t[1] = "post" /\ d[k] = "count")
    BY <1>1, <2>1 DEF Fine
  <2>5. ~(k - 1 = 2 /\ t[1] = "post" /\ d[k] = "count")
    <3>. SUFFICES ASSUME k - 1 = 2, t[2] = "count" PROVE FALSE
      BY <2>1
    <3>1. 3 \in 1..Len(s) /\ s[3] = t[2]
      BY <2>1 DEF t
    <3>. QED
      BY <3>1 DEF Fine
  <2>6. d[k] = "stop" => k = Len(d)
    BY <1>1, <1>3, <2>1 DEF Fine
  <2>. QED
    BY <1>2, <2>1, <2>2, <2>3, <2>4, <2>5, <2>6
<1>. QED
  BY <1>1, <1>5, <1>6 DEF t

(* No access of s is one that Fine speaks of, or only the last.              *)
Calm(s) == ~Has(s, "stop") /\ ~Has(s, "rClose") /\ ~Has(s, "count") /\ ~Has(s, "closeGate")
Tame(s) == (\A k \in 1..Len(s) : s[k] = "stop" => k = Len(s))
             /\ ~Has(s, "rClose") /\ ~Has(s, "count") /\ ~Has(s, "closeGate")

(* Where the accesses of two lists put together are.                         *)
LEMMA Places ==
  ASSUME NEW s \in Seq(Accesses), NEW t \in Seq(Accesses)
  PROVE  /\ s \o t \in Seq(Accesses) /\ Len(s \o t) = Len(s) + Len(t)
         /\ \A k \in 1..Len(s) : (s \o t)[k] = s[k]
         /\ \A k \in 1..Len(t) : (s \o t)[Len(s) + k] = t[k]
  OBVIOUS

(* What lists that are put together hold.                                    *)
LEMMA Join ==
  ASSUME NEW s \in Seq(Accesses), NEW t \in Seq(Accesses)
  PROVE  /\ s \o t \in Seq(Accesses)
         /\ \A a : Has(s \o t, a) <=> Has(s, a) \/ Has(t, a)
         /\ Calm(s) /\ Calm(t) => Calm(s \o t)
         /\ Calm(s) /\ Tame(t) => Tame(s \o t)
<1> DEFINE d == s \o t
<1>1. /\ d \in Seq(Accesses) /\ Len(d) = Len(s) + Len(t) /\ Len(s) \in Nat /\ Len(t) \in Nat
      /\ \A k \in 1..Len(s) : d[k] = s[k]
      /\ \A k \in 1..Len(t) : d[Len(s) + k] = t[k]
  BY Places
<1>. HIDE DEF d
<1>2. \A k \in 1..Len(d) : k \in 1..Len(s) \/ (k - Len(s) \in 1..Len(t) /\ d[k] = t[k - Len(s)])
  <2>. SUFFICES ASSUME NEW k \in 1..Len(d), k \notin 1..Len(s)
                PROVE  k - Len(s) \in 1..Len(t) /\ d[k] = t[k - Len(s)]
    OBVIOUS
  <2>1. k - Len(s) \in 1..Len(t) /\ Len(s) + (k - Len(s)) = k
    BY <1>1
  <2>. QED
    BY <1>1, <2>1
<1>3. ASSUME NEW a PROVE Has(d, a) <=> Has(s, a) \/ Has(t, a)
  <2>1. Has(s, a) => Has(d, a)
    BY <1>1 DEF Has
  <2>2. ASSUME Has(t, a) PROVE Has(d, a)
    <3>1. PICK k \in 1..Len(t) : t[k] = a
      BY <2>2 DEF Has
    <3>2. Len(s) + k \in 1..Len(d)
      BY <1>1
    <3>. QED
      BY <1>1, <3>1, <3>2 DEF Has
  <2>3. Has(d, a) => Has(s, a) \/ Has(t, a)
    BY <1>1, <1>2 DEF Has
  <2>. QED
    BY <2>1, <2>2, <2>3
<1>4. Calm(s) /\ Calm(t) => Calm(d)
  BY <1>3 DEF Calm
<1>5. ASSUME Calm(s), Tame(t) PROVE Tame(d)
  <2>1. ASSUME NEW k \in 1..Len(d), d[k] = "stop" PROVE k = Len(d)
    <3>1. k \notin 1..Len(s)
      BY <1>1, <1>5, <2>1 DEF Calm, Has
    <3>2. k - Len(s) \in 1..Len(t) /\ t[k - Len(s)] = "stop"
      BY <1>2, <2>1, <3>1
    <3>3. k - Len(s) = Len(t)
      BY <1>5, <3>2 DEF Tame
    <3>. QED
      BY <1>1, <3>3
  <2>. QED
    BY <1>3, <1>5, <2>1 DEF Calm, Tame
<1>. QED
  BY <1>1, <1>3, <1>4, <1>5 DEF d

(* A list a step of the task starts with.                                    *)
Started(s) == Fine(s) /\ (s # <<>> => Head(s) \notin {"count", "closeGate"})

(* A tame list is fine.                                                      *)
LEMMA TameFine ==
  ASSUME NEW s \in Seq(Accesses), Tame(s)
  PROVE  Started(s) /\ ~Has(s, "rClose")
<1>1. Fine(s) /\ ~Has(s, "rClose")
  BY DEF Fine, Tame, Has
<1>2. s # <<>> => 1 \in 1..Len(s) /\ Head(s) = s[1]
  OBVIOUS
<1>. QED
  BY <1>1, <1>2 DEF Started, Tame, Has

(* Short lists.                                                              *)
LEMMA Short ==
  ASSUME NEW a \in Accesses, NEW b \in Accesses
  PROVE  /\ \A x : Has(<<a>>, x) <=> x = a
         /\ \A x : Has(<<a, b>>, x) <=> x \in {a, b}
         /\ a \notin {"stop", "rClose", "count", "closeGate"} => Calm(<<a>>) /\ Tame(<<a, "stop">>)
         /\ Tame(<<"stop">>)
         /\ ~Has(<<>>, a)
<1>1. Len(<<a>>) = 1 /\ <<a>>[1] = a
  OBVIOUS
<1>2. Len(<<a, b>>) = 2 /\ <<a, b>>[1] = a /\ <<a, b>>[2] = b
  OBVIOUS
<1>3. \A x : Has(<<a>>, x) <=> x = a
  BY <1>1 DEF Has
<1>4. \A x : Has(<<a, b>>, x) <=> x \in {a, b}
  BY <1>2 DEF Has
<1>5. a \notin {"stop", "rClose", "count", "closeGate"} => Calm(<<a>>)
  BY <1>3 DEF Calm
<1>6. ASSUME a \notin {"stop", "rClose", "count", "closeGate"} PROVE Tame(<<a, "stop">>)
  <2> DEFINE s == <<a, "stop">>
  <2>1. Len(s) = 2 /\ s[1] = a /\ s[2] = "stop"
    OBVIOUS
  <2>. HIDE DEF s
  <2>2. \A k \in 1..Len(s) : k = 1 \/ k = 2
    BY <2>1
  <2>3. Tame(s)
    BY <1>6, <2>1, <2>2 DEF Tame, Has
  <2>. QED
    BY <2>3 DEF s
<1>7. Tame(<<"stop">>)
  <2> DEFINE s == <<"stop">>
  <2>1. Len(s) = 1 /\ s[1] = "stop"
    OBVIOUS
  <2>. HIDE DEF s
  <2>2. \A k \in 1..Len(s) : k = 1
    BY <2>1
  <2>3. Tame(s)
    BY <2>1, <2>2 DEF Tame, Has
  <2>. QED
    BY <2>3 DEF s
<1>8. ~Has(<<>>, a)
  BY DEF Has
<1>. QED
  BY <1>3, <1>4, <1>5, <1>6, <1>7, <1>8

(* The calls of the controller.                                              *)
LEMMA CallLists ==
  /\ Calm(ErrorCall) /\ Has(ErrorCall, "wError") /\ Started(<<>>)
  /\ \A s \in {ErrorCall, EnqueueCall, TerminateCall, <<"answerOk">>} : Started(s) /\ ~Has(s, "stop")
<1>1. Len(ErrorCall) = 4 /\ ErrorCall[1] = "raise" /\ ErrorCall[2] = "rError" /\ ErrorCall[3] = "wError"
      /\ ErrorCall[4] = "wakePull" /\ Head(ErrorCall) = "raise"
  BY DEF ErrorCall
<1>2. \A k \in 1..Len(ErrorCall) : k = 1 \/ k = 2 \/ k = 3 \/ k = 4
  BY <1>1
<1>3. Calm(ErrorCall) /\ Has(ErrorCall, "wError")
  BY <1>1, <1>2 DEF Calm, Has
<1>4. Started(ErrorCall) /\ ~Has(ErrorCall, "stop")
  BY <1>1, <1>2 DEF Started, Fine, Has
<1>5. Started(EnqueueCall) /\ ~Has(EnqueueCall, "stop")
  <2>1. Len(EnqueueCall) = 2 /\ EnqueueCall[1] = "post" /\ EnqueueCall[2] = "count" /\ Head(EnqueueCall) = "post"
    BY DEF EnqueueCall
  <2>2. \A k \in 1..Len(EnqueueCall) : k = 1 \/ k = 2
    BY <2>1
  <2>. QED
    BY <2>1, <2>2 DEF Started, Fine, Has
<1>6. Started(TerminateCall) /\ ~Has(TerminateCall, "stop")
  <2>1. Len(TerminateCall) = 3 /\ TerminateCall[1] = "rClose" /\ TerminateCall[2] = "wError"
        /\ TerminateCall[3] = "wakePull" /\ Head(TerminateCall) = "rClose"
    BY DEF TerminateCall
  <2>2. \A k \in 1..Len(TerminateCall) : k = 1 \/ k = 2 \/ k = 3
    BY <2>1
  <2>. QED
    BY <2>1, <2>2 DEF Started, Fine, Has
<1>7. Started(<<"answerOk">>) /\ ~Has(<<"answerOk">>, "stop")
  <2> DEFINE s == <<"answerOk">>
  <2>1. Len(s) = 1 /\ s[1] = "answerOk" /\ Head(s) = "answerOk"
    OBVIOUS
  <2>. HIDE DEF s
  <2>2. \A k \in 1..Len(s) : k = 1
    BY <2>1
  <2>3. Started(s) /\ ~Has(s, "stop")
    BY <2>1, <2>2 DEF Started, Fine, Has
  <2>. QED
    BY <2>3 DEF s
<1>8. Started(<<>>)
  BY DEF Started, Fine, Has
<1>. QED
  BY <1>3, <1>4, <1>5, <1>6, <1>7, <1>8

(* The lists with which the task ends.                                       *)
LEMMA EndLists ==
  ASSUME NEW a \in {"answerOk", "answerErr", "drain"}, NEW c \in {"cancelOk", "cancelErr"}
  PROVE  /\ \A s \in {ErrorCall \o <<"stop">>, ErrorCall \o <<a, "stop">>,
                      <<c>> \o ErrorCall \o <<a, "stop">>, <<c>> \o <<"wError">> \o <<"drain", "stop">>} :
              s \in Seq(Accesses) /\ Tame(s) /\ Has(s, "stop") /\ Has(s, "wError")
         /\ Has(ErrorCall \o <<a, "stop">>, a)
         /\ Has(<<c>> \o ErrorCall \o <<a, "stop">>, a) /\ Has(<<c>> \o ErrorCall \o <<a, "stop">>, c)
         /\ Has(<<c>> \o <<"wError">> \o <<"drain", "stop">>, c)
         /\ <<"stop">> \in Seq(Accesses) /\ Tame(<<"stop">>) /\ Has(<<"stop">>, "stop")
<1>1. {a, c, "stop", "wError", "drain"} \subseteq Accesses /\ a \notin {"stop", "rClose", "count", "closeGate"}
      /\ c \notin {"stop", "rClose", "count", "closeGate"}
      /\ "wError" \notin {"stop", "rClose", "count", "closeGate"}
      /\ "drain" \notin {"stop", "rClose", "count", "closeGate"}
  BY DEF Accesses
<1>2. /\ <<"stop">> \in Seq(Accesses) /\ <<a, "stop">> \in Seq(Accesses) /\ <<"drain", "stop">> \in Seq(Accesses)
      /\ <<c>> \in Seq(Accesses) /\ <<"wError">> \in Seq(Accesses) /\ ErrorCall \in Seq(Accesses)
  BY <1>1, ListTypes
<1>3. /\ Tame(<<"stop">>) /\ Tame(<<a, "stop">>) /\ Tame(<<"drain", "stop">>)
      /\ Calm(<<c>>) /\ Calm(<<"wError">>) /\ Calm(ErrorCall)
  BY <1>1, Short, CallLists
<1>4. /\ Has(<<"stop">>, "stop") /\ Has(<<a, "stop">>, "stop") /\ Has(<<"drain", "stop">>, "stop")
      /\ Has(<<a, "stop">>, a) /\ Has(<<c>>, c) /\ Has(<<"wError">>, "wError") /\ Has(ErrorCall, "wError")
  <2>1. \A x, y \in Accesses : Has(<<x>>, x) /\ Has(<<x, y>>, x) /\ Has(<<x, y>>, y)
    BY Short
  <2>2. Has(ErrorCall, "wError")
    BY CallLists
  <2>. QED
    BY <1>1, <2>1, <2>2
<1>5. /\ ErrorCall \o <<"stop">> \in Seq(Accesses) /\ Tame(ErrorCall \o <<"stop">>)
      /\ Has(ErrorCall \o <<"stop">>, "stop") /\ Has(ErrorCall \o <<"stop">>, "wError")
  BY <1>2, <1>3, <1>4, Join
<1>6. /\ ErrorCall \o <<a, "stop">> \in Seq(Accesses) /\ Tame(ErrorCall \o <<a, "stop">>)
      /\ Has(ErrorCall \o <<a, "stop">>, "stop") /\ Has(ErrorCall \o <<a, "stop">>, "wError")
      /\ Has(ErrorCall \o <<a, "stop">>, a)
  BY <1>2, <1>3, <1>4, Join
<1>7. <<c>> \o ErrorCall \in Seq(Accesses) /\ Calm(<<c>> \o ErrorCall) /\ Has(<<c>> \o ErrorCall, c)
      /\ Has(<<c>> \o ErrorCall, "wError")
  BY <1>2, <1>3, <1>4, Join
<1>8. <<c>> \o <<"wError">> \in Seq(Accesses) /\ Calm(<<c>> \o <<"wError">>) /\ Has(<<c>> \o <<"wError">>, c)
      /\ Has(<<c>> \o <<"wError">>, "wError")
  BY <1>2, <1>3, <1>4, Join
<1> DEFINE s == <<c>> \o ErrorCall \o <<a, "stop">>
           t == <<c>> \o <<"wError">> \o <<"drain", "stop">>
<1>9. s \in Seq(Accesses) /\ Tame(s) /\ Has(s, "stop") /\ Has(s, "wError") /\ Has(s, a) /\ Has(s, c)
  BY <1>2, <1>3, <1>4, <1>7, Join
<1>10. t \in Seq(Accesses) /\ Tame(t) /\ Has(t, "stop") /\ Has(t, "wError") /\ Has(t, c)
  BY <1>2, <1>3, <1>4, <1>8, Join
<1>. QED
  BY <1>2, <1>3, <1>4, <1>5, <1>6, <1>9, <1>10

(* flush() ended: terminate(), its answer, and the end.                      *)
LEMMA FlushList ==
  LET s == TerminateCall \o <<"answerOk", "stop">>
  IN  s \in Seq(Accesses) /\ Started(s) /\ Has(s, "stop") /\ Has(s, "answerOk")
<1> DEFINE s == TerminateCall \o <<"answerOk", "stop">>
<1>1. TerminateCall \in Seq(Accesses) /\ <<"answerOk", "stop">> \in Seq(Accesses)
  BY ListTypes DEF Accesses
<1>2. Len(TerminateCall) = 3 /\ TerminateCall[1] = "rClose" /\ TerminateCall[2] = "wError"
      /\ TerminateCall[3] = "wakePull"
  BY DEF TerminateCall
<1>3. s \in Seq(Accesses) /\ Len(s) = 5 /\ s[1] = "rClose" /\ s[2] = "wError" /\ s[3] = "wakePull"
      /\ s[4] = "answerOk" /\ s[5] = "stop"
  <2> DEFINE q == <<"answerOk", "stop">>
  <2>1. Len(q) = 2 /\ q[1] = "answerOk" /\ q[2] = "stop" /\ q \in Seq(Accesses)
    BY <1>1
  <2>. HIDE DEF q
  <2>2. /\ TerminateCall \o q \in Seq(Accesses) /\ Len(TerminateCall \o q) = Len(TerminateCall) + Len(q)
        /\ \A k \in 1..3 : (TerminateCall \o q)[k] = TerminateCall[k]
        /\ \A k \in 1..2 : (TerminateCall \o q)[3 + k] = q[k]
    <3>1. /\ TerminateCall \o q \in Seq(Accesses) /\ Len(TerminateCall \o q) = Len(TerminateCall) + Len(q)
          /\ \A k \in 1..Len(TerminateCall) : (TerminateCall \o q)[k] = TerminateCall[k]
          /\ \A k \in 1..Len(q) : (TerminateCall \o q)[Len(TerminateCall) + k] = q[k]
      BY <1>1, <2>1, Places
    <3>. QED
      BY <1>2, <2>1, <3>1
  <2>3. 3 + 1 = 4 /\ 3 + 2 = 5 /\ 1 \in 1..2 /\ 2 \in 1..2 /\ 1 \in 1..3 /\ 2 \in 1..3 /\ 3 \in 1..3
    OBVIOUS
  <2>4. (TerminateCall \o q)[4] = q[1] /\ (TerminateCall \o q)[5] = q[2]
    BY <2>2, <2>3
  <2>. QED
    BY <1>2, <2>1, <2>2, <2>3, <2>4 DEF q
<1>. HIDE DEF s
<1>4. \A k \in 1..Len(s) : k = 1 \/ k = 2 \/ k = 3 \/ k = 4 \/ k = 5
  BY <1>3
<1>5. Fine(s) /\ Has(s, "stop") /\ Has(s, "answerOk")
  BY <1>3, <1>4 DEF Fine, Has
<1>6. Head(s) = "rClose"
  BY <1>3
<1>. QED
  BY <1>3, <1>5, <1>6 DEF Started, s

-----------------------------------------------------------------------------
(* No lost wakeup: the invariant                                            *)

(* What the task has left to do; whether the tasks are in a bundle.          *)
Todo == todo[Task]
Bundled == plan.spawn = "bundled"

(* The writable has ended or is about to: a writer gets no more in.          *)
WEnds == w.closing \/ w.state # "writable"
SinkInv ==
    /\ ~w.sink => w.state # "writable"
    /\ w.op = "abort" \/ w.aborting => w.state # "writable"
    /\ cmd = "close" \/ task = "flush" => WEnds

(* The method of the sink in flight has its answer, its command waits, or the*)
(* task is at it.                                                            *)
Tells == Has(Todo, "answerOk") \/ Has(Todo, "answerErr")
AtWork ==
    \/ task \in {"space", "recheck", "parked", "transform", "flush"}
    \/ task = "cancelling" /\ why # "cancel"
AskInv == w.op # None => answer # None \/ cmd # None \/ AtWork \/ Tells

(* The task ends with a list that stops it, and with an error for a writable *)
(* that would go on.                                                         *)
Warned == WEnds \/ wError
EndInv ==
    /\ Fine(Todo)
    /\ Has(Todo, "stop") <=> task = "ending"
    /\ Bundled /\ task = "ending" => Warned \/ (Has(Todo, "wError") /\ ~Has(Todo, "rClose"))
    /\ Bundled /\ task = "done" => Warned
    /\ task = "done" => cmd = None /\ cancel # "sent"

(* A cancel is on its way.                                                   *)
Early == r.phase \in {"control", "commands"}
Roaming == "readable" \in woken \/ Early
Cuts == (r.phase = "commands" /\ pull = "parked") \/ (r.phase = "drive" /\ pull = "check")
CancelTold == Has(Todo, "cancelOk") \/ Has(Todo, "cancelErr")
CancelInv ==
    /\ cancel = "asked" => Roaming
    /\ cancel \in {"cut", "fire", "send", "sent", "taken"} => Ended
    /\ cancel = "cut" => Cuts
    /\ cancel = "taken" => (task = "cancelling" /\ why # "abort") \/ CancelTold

(* A clone that was not used does nothing.                                   *)
CloneInv == NoClone => todo[Clone] = <<>>

(* A task that waits for room waits for a readable nobody has ended, or is   *)
(* about to be told.                                                         *)
WaitInv ==
    Bundled /\ NoClone /\ task \in {"space", "recheck", "parked"} =>
      /\ Todo = <<>> /\ ~r.closeRequested /\ ~r.errorRequested
      /\ r.state # "open" => r.state = "closed" /\ (cancel \in {"cut", "fire"} \/ signal.space)
      /\ task = "recheck" => signal.waker /\ ~signal.space
      /\ task = "parked" => "task" \in woken \/ (signal.waker /\ ~signal.space)

(* An end in the control channel was asked for.                              *)
MsgInv ==
    /\ Has(rctl, "close") \/ r.state = "closing" => r.closeRequested
    /\ Has(rctl, "error") => r.errorRequested

(* The readable's task comes back to what is left to do.                     *)
PullInv ==
    /\ pull \notin {None, "parked"} => r.phase = "drive"
    /\ pull = "parked" => r.phase # "drive"
    /\ pull \in {"sync", "open", "shut"} => r.state = "open"
    /\ Bundled /\ pull = "parked" => Roaming \/ (signal.pullWaker /\ signal.space)
    /\ pull = "register" => "readable" \in woken \/ signal.pullWaker
    /\ pull = None /\ r.state = "open" /\ r.needsPull => Roaming
    /\ rctl # <<>> => "readable" \in woken \/ r.phase = "control"
    /\ r.state = "open" /\ r.reads > 0 => r.queue = 0

(* What is about to shut the gate has sent its chunk.                        *)
PostInv == Bundled /\ Todo # <<>> /\ Head(Todo) \in {"count", "closeGate"} => Unusable \/ rctl # <<>>

(* A gate that stays shut has nothing to open it: the queue is at the mark,  *)
(* and no read waits.                                                        *)
Full == Desired <= 0 /\ r.reads = 0
Settled == pull = "shut" \/ (~signal.space /\ ~r.needsPull /\ rctl = <<>> /\ pull \notin {"sync", "open"})
ShutInv == Bundled /\ NoClone /\ ~Unusable /\ Settled => Full

Core == SinkInv /\ AskInv /\ EndInv /\ CancelInv /\ CloneInv /\ WaitInv /\ MsgInv /\ PullInv /\ PostInv /\ ShutInv
StuckInv == Parts /\ Spent /\ Rests /\ Core

(* At rest the invariant says that nobody is stuck.                          *)
LEMMA RestedNoneStuck == StuckInv => NoneStuck
<1> SUFFICES ASSUME StuckInv, plan.spawn = "bundled", NoClone, AtRest
             PROVE  /\ w.op # None => task = "parked" /\ r.state = "open" /\ Desired <= 0 /\ r.reads = 0
                    /\ cancel \in {None, "ok", "err"}
                    /\ task = "done" => w.state # "writable"
  BY DEF NoneStuck
<1>1. Todo = <<>> /\ ~Tells /\ ~CancelTold
  BY DEF AtRest, TaskRestsAt, Todo, Threads, Tells, CancelTold, Has
<1>2. /\ task \in {"select", "parked", "done"}
      /\ task = "select" => cmd = None /\ cancel # "sent"
      /\ task = "parked" => "task" \notin woken
  BY DEF AtRest, TaskRestsAt
<1>3. r.phase = "idle" /\ "readable" \notin woken /\ cancel \notin {"fire", "send"} /\ ~Roaming
  BY DEF AtRest, ReadableIdle, Roaming, Early
<1>4. task = "parked" => r.state = "open" /\ ~signal.space /\ ~Unusable
  BY <1>2, <1>3 DEF StuckInv, Core, WaitInv, CancelInv, Cuts, Unusable, Ended, Bundled
<1>5. task = "parked" => Full
  <2> SUFFICES ASSUME task = "parked" PROVE Full
    OBVIOUS
  <2>1. pull = None
    BY <1>3, <1>4 DEF StuckInv, Core, PullInv, Bundled
  <2>2. ~r.needsPull /\ rctl = <<>>
    BY <1>3, <1>4, <2>1 DEF StuckInv, Core, PullInv
  <2>3. Settled
    BY <1>4, <2>1, <2>2 DEF Settled, None
  <2>. QED
    BY <1>4, <2>3 DEF StuckInv, Core, ShutInv, Bundled
<1>6. w.op # None => task = "parked"
  <2> SUFFICES ASSUME w.op # None PROVE task = "parked"
    OBVIOUS
  <2>1. answer = None
    BY DEF AtRest, WritableIdle
  <2>2. cmd # None => task = "parked"
    BY <1>2 DEF StuckInv, Core, EndInv
  <2>. QED
    BY <1>1, <1>2, <2>1, <2>2 DEF StuckInv, Core, AskInv, AtWork
<1>7. cancel \in {None, "ok", "err"}
  <2>1. cancel \in {None, "asked", "cut", "fire", "send", "sent", "taken", "ok", "err"}
    BY DEF StuckInv, Core, Parts, PullOK
  <2>2. cancel \notin {"asked", "cut", "taken"}
    BY <1>1, <1>2, <1>3 DEF StuckInv, Core, CancelInv, Cuts
  <2>3. cancel # "sent"
    <3>1. task = "parked" => cancel # "sent"
      BY <1>4 DEF StuckInv, Core, CancelInv, Ended, None
    <3>. QED
      BY <1>2, <3>1 DEF StuckInv, Core, EndInv
  <2>. QED
    BY <1>3, <2>1, <2>2, <2>3
<1>8. task = "done" => w.state # "writable"
  <2> SUFFICES ASSUME task = "done", w.state = "writable" PROVE FALSE
    OBVIOUS
  <2>1. w.op = None /\ ~wError
    BY <1>6 DEF AtRest, WritableIdle
  <2>2. w.closing /\ w.sink
    BY <2>1 DEF StuckInv, Core, EndInv, SinkInv, Warned, WEnds, Bundled
  <2>. QED
    BY <2>1, <2>2 DEF AtRest, WritableIdle
<1>. QED
  BY <1>4, <1>5, <1>6, <1>7, <1>8 DEF Full

-----------------------------------------------------------------------------
(* No lost wakeup: the controller's accesses                                *)

(* The next access of the task's list is a: it is done, and what is left.    *)
Strikes(a) ==
    /\ Todo # <<>> /\ Head(Todo) = a
    /\ Fine(Todo') /\ ~Has(Todo', "rClose")
    /\ \A x : Has(Todo', x) => Has(Todo, x) \/ x = "closeGate"
    /\ \A x : Has(Todo, x) => x = a \/ Has(Todo', x) \/ (a = "rClose" /\ x \in {"wError", "wakePull"})
    /\ a = "stop" => Todo' = <<>>
    /\ Todo' # <<>> /\ Head(Todo') \in {"count", "closeGate"} => a \in {"post", "count"}

(* What the accesses do, but for the list.                                   *)
ForTask == {"answerOk", "answerErr", "cancelOk", "cancelErr", "drain", "stop"}
ToSinkBy(a) ==
    /\ UNCHANGED <<w, aborted>>
    /\ wError' = (wError \/ a = "wError")
    /\ a \in {"answerOk", "answerErr"} => answer' # None /\ UNCHANGED cmd
    /\ a \in {"drain", "stop"} => cmd' = None /\ (answer' # None \/ (cmd = None /\ UNCHANGED answer))
    /\ a \notin {"answerOk", "answerErr", "drain", "stop"} => UNCHANGED <<cmd, answer>>
ToTaskBy(a) ==
    /\ UNCHANGED <<left, why, given, ran>>
    /\ task' = IF a = "stop" THEN "done" ELSE task
    /\ a \in {"cancelOk", "cancelErr"} => cancel' \in {"ok", "err"}
    /\ a = "stop" => cancel' = IF cancel = "sent" THEN "ok" ELSE cancel
    /\ a \notin {"cancelOk", "cancelErr", "stop"} => UNCHANGED cancel
ToGateBy(a) ==
    /\ UNCHANGED signal.waker
    /\ a = "closeGate" => ~signal'.space
    /\ a # "closeGate" => UNCHANGED signal.space
    /\ (signal.pullWaker /\ signal'.pullWaker /\ UNCHANGED signal.space) \/ ~signal.pullWaker \/ "readable" \in woken'
    /\ woken \subseteq woken'
Told(m) == rctl' = Append(rctl, m) /\ "readable" \in woken'
ToReadableBy(a) ==
    /\ UNCHANGED pull
    /\ \/ UNCHANGED <<r, rctl>> /\ (a = "post" => Unusable)
       \/ a = "post" /\ Told("chunk") /\ UNCHANGED r
       \/ a = "rError" /\ Told("error") /\ r' = [r EXCEPT !.errorRequested = TRUE]
       \/ a = "rClose" /\ Told("close") /\ r' = [r EXCEPT !.closeRequested = TRUE]
ThreadMove ==
    \E t \in Threads, a \in Accesses :
        /\ todo[t] # <<>>
        /\ t = Task \/ (UNCHANGED Todo /\ a \notin ForTask)
        /\ t = Task => Strikes(a)
        /\ ToSinkBy(a) /\ ToTaskBy(a) /\ ToGateBy(a) /\ ToReadableBy(a)

(* Three ways to leave the list.                                             *)
LEMMA Struck ==
  ASSUME Parts, Fine(Todo), NEW t \in Threads, NEW a,
         Does(t, a) \/ (a = "count" /\ Count(t)) \/ (a = "rClose" /\ CloseReadable(t))
  PROVE  /\ todo[t] # <<>>
         /\ t = Task \/ UNCHANGED Todo
         /\ t = Task => Strikes(a)
<1>0. todo \in [Threads -> Seq(Accesses)] /\ Task # Clone /\ Threads = {Task, Clone} /\ Todo \in Seq(Accesses)
  BY DEF Parts, TodoOK, Threads, Task, Clone, Todo
<1>1. todo[t] # <<>> /\ Head(todo[t]) = a
  BY DEF Does, DoesThen, Count, CloseReadable
<1>2. t = Task \/ UNCHANGED Todo
  BY <1>0 DEF Does, DoesThen, Count, CloseReadable, Todo
<1>3. ASSUME t = Task PROVE Strikes(a)
  <2>1. Todo # <<>> /\ Head(Todo) = a
    BY <1>1, <1>3 DEF Todo
  <2>2. CASE Todo' = Tail(Todo)
    <3>1. /\ Fine(Tail(Todo)) /\ ~Has(Tail(Todo), "rClose")
          /\ \A x : Has(Tail(Todo), x) => Has(Todo, x)
          /\ \A x : Has(Todo, x) => x = Head(Todo) \/ Has(Tail(Todo), x)
          /\ Head(Todo) = "stop" => Tail(Todo) = <<>>
          /\ Tail(Todo) # <<>> => /\ Head(Tail(Todo)) = "count" => Head(Todo) = "post"
                                  /\ Head(Tail(Todo)) # "closeGate"
      BY <1>0, <2>1, AfterTail
    <3>. QED
      BY <2>1, <2>2, <3>1 DEF Strikes
  <2>3. CASE a = "rClose" /\ Todo' = SubSeq(Todo, 4, Len(Todo))
    <3>1. /\ Fine(Todo') /\ ~Has(Todo', "rClose")
          /\ \A x : Has(Todo', x) => Has(Todo, x)
          /\ \A x : Has(Todo, x) => x \in {"rClose", "wError", "wakePull"} \/ Has(Todo', x)
          /\ Todo' # <<>> => Head(Todo') \notin {"count", "closeGate"}
      BY <1>0, <2>1, <2>3, AfterDrop
    <3>. QED
      BY <2>1, <2>3, <3>1 DEF Strikes
  <2>4. CASE a = "count" /\ Todo' = <<"closeGate">> \o Tail(Todo)
    <3>1. /\ Fine(Todo') /\ ~Has(Todo', "rClose")
          /\ \A x : x # "closeGate" => (Has(Todo', x) <=> Has(Tail(Todo), x))
      BY <1>0, <2>1, <2>4, AfterCount
    <3>2. /\ \A x : Has(Tail(Todo), x) => Has(Todo, x)
          /\ \A x : Has(Todo, x) => x = Head(Todo) \/ Has(Tail(Todo), x)
      BY <1>0, <2>1, AfterTail
    <3>3. Has(Todo', "closeGate")
      <4>1. Tail(Todo) \in Seq(Accesses) /\ <<"closeGate">> \in Seq(Accesses)
        BY <1>0, <2>1, ListTypes
      <4>2. Has(<<"closeGate">>, "closeGate")
        <5>1. \A x \in Accesses : Has(<<x>>, x)
          BY Short
        <5>. QED
          BY <5>1 DEF Accesses
      <4>. QED
        BY <2>4, <4>1, <4>2, Join
    <3>. QED
      BY <2>1, <2>4, <3>1, <3>2, <3>3 DEF Strikes
  <2>5. Todo' = Tail(Todo) \/ (a = "rClose" /\ Todo' = SubSeq(Todo, 4, Len(Todo)))
         \/ (a = "count" /\ Todo' = <<"closeGate">> \o Tail(Todo))
    <3>0. Tail(Todo) \in Seq(Accesses)
      BY <1>0, <2>1
    <3>1. <<>> \o Tail(Todo) = Tail(Todo)
      BY <3>0
    <3>2. CASE Does(t, a)
      BY <1>0, <1>3, <3>1, <3>2 DEF Does, DoesThen, Todo
    <3>3. CASE a = "count" /\ Count(t)
      BY <1>0, <1>3, <3>1, <3>3 DEF Count, DoesThen, Todo
    <3>4. CASE a = "rClose" /\ CloseReadable(t)
      BY <1>0, <1>3, <3>4 DEF CloseReadable, Todo
    <3>. QED
      BY <3>2, <3>3, <3>4
  <2>. QED
    BY <2>2, <2>3, <2>4, <2>5
<1>. QED
  BY <1>1, <1>2, <1>3

(* Every call of the controller, and every answer, is such a move.           *)
LEMMA ThreadMovesOn ==
  ASSUME Parts, Fine(Todo), ThreadStep
  PROVE  ThreadMove
<1>0. Task \in Threads /\ Accesses = {"post", "count", "closeGate", "raise", "rError", "rClose", "wError", "wakePull",
             "answerOk", "answerErr", "cancelOk", "cancelErr", "drain", "stop"}
  BY DEF Threads, Accesses
<1>1. r \in RT /\ SignalOK /\ WokenOK /\ wError \in BOOLEAN
  BY DEF Parts, ROK, RT, LinkOK
<1>2. ASSUME NEW t \in Threads, NEW a \in Accesses,
             Does(t, a) \/ (a = "count" /\ Count(t)) \/ (a = "rClose" /\ CloseReadable(t)),
             t = Task \/ a \notin ForTask,
             ToSinkBy(a), ToTaskBy(a), ToGateBy(a), ToReadableBy(a)
      PROVE  ThreadMove
  BY <1>2, Struck DEF ThreadMove
<1>3. ASSUME NEW t \in Threads, PostChunk(t) PROVE ThreadMove
  <2>1. ToGateBy("post")
    BY <1>3 DEF PostChunk, Post, ToGateBy
  <2>. QED
    BY <1>0, <1>1, <1>2, <1>3, <2>1 DEF PostChunk, Post, Does, DoesThen, writableVars, ForTask, ToSinkBy, ToTaskBy, ToReadableBy, Told
<1>4. ASSUME NEW t \in Threads, Count(t) PROVE ThreadMove
  <2>1. ToGateBy("count")
    BY <1>1, <1>4 DEF Count, ToGateBy, SignalOK
  <2>. QED
    BY <1>0, <1>1, <1>2, <1>4, <2>1 DEF Count, DoesThen, writableVars, readableVars, ForTask, ToSinkBy, ToTaskBy, ToReadableBy
<1>5. ASSUME NEW t \in Threads, CloseGate(t) PROVE ThreadMove
  <2>1. ToGateBy("closeGate")
    BY <1>1, <1>5 DEF CloseGate, ToGateBy, SignalOK, WakePull, PullRoused
  <2>. QED
    BY <1>0, <1>1, <1>2, <1>5, <2>1 DEF CloseGate, Does, DoesThen, writableVars, readableVars, ForTask, ToSinkBy, ToTaskBy, ToReadableBy
<1>6. ASSUME NEW t \in Threads, Raise(t) PROVE ThreadMove
  <2>1. ToGateBy("raise")
    BY <1>6 DEF Raise, ToGateBy
  <2>. QED
    BY <1>0, <1>1, <1>2, <1>6, <2>1 DEF Raise, Does, DoesThen, writableVars, readableVars, ForTask, ToSinkBy, ToTaskBy, ToReadableBy
<1>7. ASSUME NEW t \in Threads, ErrorReadable(t) PROVE ThreadMove
  <2>1. ToGateBy("rError")
    BY <1>7 DEF ErrorReadable, Post, ToGateBy
  <2>. QED
    BY <1>0, <1>1, <1>2, <1>7, <2>1 DEF ErrorReadable, Post, Does, DoesThen, writableVars, ForTask, ToSinkBy, ToTaskBy, ToReadableBy, Told
<1>8. ASSUME NEW t \in Threads, CloseReadable(t) PROVE ThreadMove
  <2>1. ToGateBy("rClose")
    BY <1>8 DEF CloseReadable, Post, ToGateBy
  <2>. QED
    BY <1>0, <1>1, <1>2, <1>8, <2>1 DEF CloseReadable, Post, writableVars, ForTask, ToSinkBy, ToTaskBy, ToReadableBy, Told
<1>9. ASSUME NEW t \in Threads, ErrorWritable(t) PROVE ThreadMove
  <2>1. ToGateBy("wError")
    BY <1>9 DEF ErrorWritable, ToGateBy
  <2>. QED
    BY <1>0, <1>1, <1>2, <1>9, <2>1 DEF ErrorWritable, Does, DoesThen, readableVars, ForTask, ToSinkBy, ToTaskBy, ToReadableBy
<1>10. ASSUME NEW t \in Threads, WakesPull(t) PROVE ThreadMove
  <2>1. ToGateBy("wakePull")
    BY <1>1, <1>10 DEF WakesPull, ToGateBy, SignalOK, WakePull, PullRoused
  <2>. QED
    BY <1>0, <1>1, <1>2, <1>10, <2>1 DEF WakesPull, Does, DoesThen, writableVars, readableVars, ForTask, ToSinkBy, ToTaskBy, ToReadableBy
<1>11. ASSUME NEW res \in {"ok", "err"}, Completes(res) PROVE ThreadMove
  <2> DEFINE a == IF res = "ok" THEN "answerOk" ELSE "answerErr"
  <2>1. ToGateBy(a)
    BY <1>11 DEF Completes, ToGateBy
  <2>2. a \in {"answerOk", "answerErr"}
    OBVIOUS
  <2>3. Does(Task, a)
    BY <1>11 DEF Completes
  <2>. HIDE DEF a
  <2>4. answer' # None
    BY <1>11 DEF Completes, None
  <2>. QED
    BY <1>0, <1>1, <1>2, <1>11, <2>1, <2>2, <2>3, <2>4 DEF Completes, Does, DoesThen, readableVars, ForTask, ToSinkBy, ToTaskBy, ToReadableBy
<1>12. ASSUME NEW res \in {"ok", "err"}, CompletesCancel(res) PROVE ThreadMove
  <2> DEFINE a == IF res = "ok" THEN "cancelOk" ELSE "cancelErr"
  <2>1. ToGateBy(a)
    BY <1>12 DEF CompletesCancel, ToGateBy
  <2>2. a \in {"cancelOk", "cancelErr"}
    OBVIOUS
  <2>3. Does(Task, a)
    BY <1>12 DEF CompletesCancel
  <2>. HIDE DEF a
  <2>. QED
    BY <1>0, <1>1, <1>2, <1>12, <2>1, <2>2, <2>3 DEF CompletesCancel, Does, DoesThen, writableVars, ForTask, ToSinkBy, ToTaskBy, ToReadableBy
<1>13. CASE Drain
  <2>1. ToGateBy("drain")
    BY <1>13 DEF Drain, ToGateBy
  <2>. QED
    BY <1>0, <1>1, <1>2, <1>13, <2>1 DEF Drain, Does, DoesThen, readableVars, ForTask, ToSinkBy, ToTaskBy, ToReadableBy, None
<1>14. CASE Stop
  <2>1. ToGateBy("stop")
    BY <1>14 DEF Stop, ToGateBy
  <2>. QED
    BY <1>0, <1>1, <1>2, <1>14, <2>1 DEF Stop, Does, DoesThen, ForTask, ToSinkBy, ToTaskBy, ToReadableBy, None
<1>. QED
  BY <1>3, <1>4, <1>5, <1>6, <1>7, <1>8, <1>9, <1>10, <1>11, <1>12, <1>13, <1>14 DEF ThreadStep

-----------------------------------------------------------------------------
(* No lost wakeup: the transform task                                       *)

(* The steps of the transform task.                                          *)
Idles == UNCHANGED <<cmd, cancel, signal, woken, why>>
EndList(s) ==
    /\ Started(s) /\ Has(s, "stop")
    /\ task = "flush" \/ ~w.sink \/ (Has(s, "wError") /\ ~Has(s, "rClose"))
    /\ task \in {"transform", "flush"} \/ (task = "cancelling" /\ why # "cancel")
         => Has(s, "answerOk") \/ Has(s, "answerErr")
    /\ task = "cancelling" /\ why # "abort" => Has(s, "cancelOk") \/ Has(s, "cancelErr")
Ending ==
    /\ task \in {"starting", "transform", "flush", "cancelling"} \/ (task = "select" /\ cmd = None /\ w.op = None)
    /\ task' = "ending" /\ Todo = <<>> /\ Idles /\ EndList(Todo')
Returning ==
    \/ task = "starting" /\ Todo = <<>> /\ Todo' = <<>> /\ task' = "select" /\ Idles
    \/ task = "transform" /\ Todo = <<>> /\ Todo' = <<"answerOk">> /\ task' = "select" /\ Idles
TakingIn ==
    /\ task = "select" /\ Todo = <<>> /\ UNCHANGED <<Todo, signal, woken>>
    /\ \/ cmd = "write" /\ cmd' = None /\ task' = "transform" /\ UNCHANGED <<cancel, why>>
       \/ cmd = "write" /\ cmd' = None /\ task' = "space" /\ UNCHANGED <<cancel, why>> /\ ~Unusable
       \/ cmd = "close" /\ cmd' = None /\ task' = "flush" /\ UNCHANGED <<cancel, why>>
       \/ cmd = "close" /\ cmd' = None /\ task' = "cancelling" /\ why' = "close" /\ cancel = "sent" /\ cancel' = "taken"
       \/ cmd = "abort" /\ cmd' = None /\ task' = "cancelling" /\ why' = "abort" /\ UNCHANGED cancel
       \/ UNCHANGED cmd /\ task' = "cancelling" /\ why' = "cancel" /\ cancel = "sent" /\ cancel' = "taken"
Polling ==
    /\ UNCHANGED <<Todo, cmd, cancel, why>>
    /\ \/ task \in {"space", "parked", "recheck"} /\ task' = "transform" /\ UNCHANGED <<signal.space, signal.pullWaker>>
          /\ woken' \in {woken, woken \ {"task"}}
       \/ task \in {"space", "parked"} /\ task' = "recheck" /\ signal'.waker /\ ~signal.space
          /\ UNCHANGED <<signal.space, signal.pullWaker>> /\ woken' \in {woken, woken \ {"task"}}
       \/ task = "recheck" /\ task' = "parked" /\ ~signal.space /\ UNCHANGED woken
          /\ UNCHANGED <<signal.space, signal.pullWaker, signal.waker>>
TaskGoes ==
    /\ UNCHANGED <<w, aborted, wError, answer, r, rctl, pull, todo[Clone]>>
    /\ Ending \/ Returning \/ TakingIn \/ Polling

(* Each of them is one of these.                                             *)
LEMMA TaskGoesOn ==
  ASSUME Parts, TaskStep
  PROVE  TaskGoes
<1>0. todo \in [Threads -> Seq(Accesses)] /\ Task # Clone /\ Threads = {Task, Clone}
  BY DEF Parts, TodoOK, Threads, Task, Clone
<1>1. SignalOK
  BY DEF Parts
<1>2. UNCHANGED <<w, aborted, wError, answer, r, rctl, pull, todo[Clone]>>
  BY <1>0 DEF TaskStep, StartReturns, TakeWrite, SpacePoll, SpaceRecheck, TransformReturns, TakeClose,
       FlushReturns, TakeAbort, TakeCancel, CallsCancel, CancelReturns, ChannelEnds, Goes, EndsAfter,
       writableVars, readableVars
<1>3. ASSUME NEW s, EndsAfter(s), Todo = <<>>, UNCHANGED <<cmd, cancel, signal, woken>>, EndList(s),
             task \in {"starting", "transform", "flush", "cancelling"} \/ (task = "select" /\ cmd = None /\ w.op = None)
      PROVE  Ending
  <2>1. Todo' = s /\ task' = "ending" /\ UNCHANGED why
    BY <1>0, <1>3 DEF EndsAfter, Todo
  <2>2. EndList(Todo')
    BY <1>3, <2>1
  <2>. QED
    BY <1>3, <2>1, <2>2 DEF Ending, Idles
<1>4. \A c \in {"cancelOk", "cancelErr"}, a \in {"answerOk", "answerErr", "drain"} :
         /\ \A s \in {ErrorCall \o <<"stop">>, ErrorCall \o <<a, "stop">>,
                      <<c>> \o ErrorCall \o <<a, "stop">>, <<c>> \o <<"wError">> \o <<"drain", "stop">>} :
              Started(s) /\ ~Has(s, "rClose") /\ Has(s, "stop") /\ Has(s, "wError")
         /\ Has(ErrorCall \o <<a, "stop">>, a)
         /\ Has(<<c>> \o ErrorCall \o <<a, "stop">>, a) /\ Has(<<c>> \o ErrorCall \o <<a, "stop">>, c)
         /\ Has(<<c>> \o <<"wError">> \o <<"drain", "stop">>, c)
         /\ Started(<<"stop">>) /\ Has(<<"stop">>, "stop")
  <2>. SUFFICES ASSUME NEW c \in {"cancelOk", "cancelErr"}, NEW a \in {"answerOk", "answerErr", "drain"}
                PROVE  /\ \A s \in {ErrorCall \o <<"stop">>, ErrorCall \o <<a, "stop">>,
                                     <<c>> \o ErrorCall \o <<a, "stop">>, <<c>> \o <<"wError">> \o <<"drain", "stop">>} :
                            Started(s) /\ ~Has(s, "rClose") /\ Has(s, "stop") /\ Has(s, "wError")
                       /\ Has(ErrorCall \o <<a, "stop">>, a)
                       /\ Has(<<c>> \o ErrorCall \o <<a, "stop">>, a) /\ Has(<<c>> \o ErrorCall \o <<a, "stop">>, c)
                       /\ Has(<<c>> \o <<"wError">> \o <<"drain", "stop">>, c)
                       /\ Started(<<"stop">>) /\ Has(<<"stop">>, "stop")
    OBVIOUS
  <2>1. \A s \in Seq(Accesses) : Tame(s) => Started(s) /\ ~Has(s, "rClose")
    BY TameFine
  <2>2. \A s \in {ErrorCall \o <<"stop">>, ErrorCall \o <<a, "stop">>,
                   <<c>> \o ErrorCall \o <<a, "stop">>, <<c>> \o <<"wError">> \o <<"drain", "stop">>} :
          s \in Seq(Accesses) /\ Tame(s) /\ Has(s, "stop") /\ Has(s, "wError")
    BY EndLists
  <2>3. /\ Has(ErrorCall \o <<a, "stop">>, a)
        /\ Has(<<c>> \o ErrorCall \o <<a, "stop">>, a) /\ Has(<<c>> \o ErrorCall \o <<a, "stop">>, c)
        /\ Has(<<c>> \o <<"wError">> \o <<"drain", "stop">>, c)
        /\ <<"stop">> \in Seq(Accesses) /\ Tame(<<"stop">>) /\ Has(<<"stop">>, "stop")
    BY EndLists
  <2>. QED
    BY <2>1, <2>2, <2>3
<1>5. CASE StartReturns
  <2>1. task = "starting" /\ Todo = <<>> /\ UNCHANGED <<cmd, cancel, signal, woken>>
    BY <1>5 DEF StartReturns, Todo, writableVars, readableVars
  <2>2. EndsAfter(ErrorCall \o <<"stop">>) => Ending
    <3>1. EndList(ErrorCall \o <<"stop">>)
      BY <1>4, <2>1 DEF EndList
    <3>. QED
      BY <1>3, <2>1, <3>1
  <2>3. Goes("select") => Returning
    BY <1>0, <2>1 DEF Goes, Returning, Idles, Todo
  <2>4. Goes("select") \/ EndsAfter(ErrorCall \o <<"stop">>)
    BY <1>5 DEF StartReturns
  <2>. QED
    BY <1>2, <2>2, <2>3, <2>4 DEF TaskGoes
<1>6. CASE TransformReturns
  <2>1. task = "transform" /\ Todo = <<>> /\ UNCHANGED <<cmd, cancel, signal, woken>>
    BY <1>6 DEF TransformReturns, Todo, writableVars, readableVars
  <2>2. CASE task' = "select" /\ todo' = [todo EXCEPT ![Task] = <<"answerOk">>] /\ UNCHANGED <<left, why, raised>>
    <3>1. Todo' = <<"answerOk">>
      BY <1>0, <2>2 DEF Todo
    <3>2. Returning
      BY <2>1, <2>2, <3>1 DEF Returning, Idles
    <3>. QED
      BY <1>2, <3>2 DEF TaskGoes
  <2>3. CASE EndsAfter(ErrorCall \o <<"answerErr", "stop">>)
    <3>1. EndList(ErrorCall \o <<"answerErr", "stop">>)
      BY <1>4, <2>1 DEF EndList
    <3>2. Ending
      BY <1>3, <2>1, <2>3, <3>1
    <3>. QED
      BY <1>2, <3>2 DEF TaskGoes
  <2>. QED
    BY <1>6, <2>2, <2>3 DEF TransformReturns
<1>7. CASE FlushReturns
  <2>1. task = "flush" /\ Todo = <<>> /\ UNCHANGED <<cmd, cancel, signal, woken>>
    BY <1>7 DEF FlushReturns, Todo, writableVars, readableVars
  <2>2. CASE EndsAfter(TerminateCall \o <<"answerOk", "stop">>)
    <3>1. EndList(TerminateCall \o <<"answerOk", "stop">>)
      BY FlushList, <2>1 DEF EndList
    <3>2. Ending
      BY <1>3, <2>1, <2>2, <3>1
    <3>. QED
      BY <1>2, <3>2 DEF TaskGoes
  <2>3. CASE EndsAfter(ErrorCall \o <<"answerErr", "stop">>)
    <3>1. EndList(ErrorCall \o <<"answerErr", "stop">>)
      BY <1>4, <2>1 DEF EndList
    <3>2. Ending
      BY <1>3, <2>1, <2>3, <3>1
    <3>. QED
      BY <1>2, <3>2 DEF TaskGoes
  <2>. QED
    BY <1>7, <2>2, <2>3 DEF FlushReturns
<1>8. CASE CancelReturns
  <2>1. task = "cancelling" /\ Todo = <<>> /\ UNCHANGED <<cmd, cancel, signal, woken>>
    BY <1>8 DEF CancelReturns, Todo, writableVars, readableVars
  <2>2. PICK ok \in BOOLEAN :
            LET clean == ok /\ ~raised
                told == IF clean THEN <<"cancelOk">> ELSE <<"cancelErr">>
            IN EndsAfter(CASE why = "close" -> told \o ErrorCall \o <<"answerErr", "stop">>
                           [] why = "abort" -> ErrorCall \o <<IF clean THEN "answerOk" ELSE "answerErr", "stop">>
                           [] why = "cancel" -> told \o (IF clean THEN <<"wError">> ELSE ErrorCall)
                                                     \o <<"drain", "stop">>)
    BY <1>8 DEF CancelReturns
  <2>. DEFINE clean == ok /\ ~raised
              c == IF clean THEN "cancelOk" ELSE "cancelErr"
              how == IF clean THEN "answerOk" ELSE "answerErr"
              then == IF clean THEN <<"wError">> ELSE ErrorCall
  <2>3. EndsAfter(CASE why = "close" -> <<c>> \o ErrorCall \o <<"answerErr", "stop">>
                    [] why = "abort" -> ErrorCall \o <<how, "stop">>
                    [] why = "cancel" -> <<c>> \o then \o <<"drain", "stop">>)
    BY <2>2
  <2>4. c \in {"cancelOk", "cancelErr"} /\ how \in {"answerOk", "answerErr"} /\ then \in {<<"wError">>, ErrorCall}
    OBVIOUS
  <2>. HIDE DEF clean, c, how, then
  <2>5. why \in {"close", "abort", "cancel"}
    BY <2>1 DEF Parts, TaskOK
  <2>6. CASE why = "close"
    <3>1. EndsAfter(<<c>> \o ErrorCall \o <<"answerErr", "stop">>)
      BY <2>3, <2>6
    <3>2. EndList(<<c>> \o ErrorCall \o <<"answerErr", "stop">>)
      BY <1>4, <2>1, <2>4, <2>6 DEF EndList
    <3>3. Ending
      BY <1>3, <2>1, <3>1, <3>2
    <3>. QED
      BY <1>2, <3>3 DEF TaskGoes
  <2>7. CASE why = "abort"
    <3>1. EndsAfter(ErrorCall \o <<how, "stop">>)
      BY <2>3, <2>7
    <3>2. EndList(ErrorCall \o <<how, "stop">>)
      BY <1>4, <2>1, <2>4, <2>7 DEF EndList
    <3>3. Ending
      BY <1>3, <2>1, <3>1, <3>2
    <3>. QED
      BY <1>2, <3>3 DEF TaskGoes
  <2>8. CASE why = "cancel"
    <3>1. EndsAfter(<<c>> \o then \o <<"drain", "stop">>)
      BY <2>3, <2>8
    <3>2. CASE then = ErrorCall
      <4>1. EndList(<<c>> \o ErrorCall \o <<"drain", "stop">>)
        BY <1>4, <2>1, <2>4, <2>8 DEF EndList
      <4>2. Ending
        BY <1>3, <2>1, <3>1, <3>2, <4>1
      <4>. QED
        BY <1>2, <4>2 DEF TaskGoes
    <3>3. CASE then = <<"wError">>
      <4>1. EndList(<<c>> \o <<"wError">> \o <<"drain", "stop">>)
        BY <1>4, <2>1, <2>4, <2>8 DEF EndList
      <4>2. Ending
        BY <1>3, <2>1, <3>1, <3>3, <4>1
      <4>. QED
        BY <1>2, <4>2 DEF TaskGoes
    <3>. QED
      BY <2>4, <3>2, <3>3
  <2>. QED
    BY <2>5, <2>6, <2>7, <2>8
<1>9. CASE ChannelEnds
  <2>1. task = "select" /\ cmd = None /\ w.op = None /\ ~w.sink /\ Todo = <<>> /\ UNCHANGED <<cmd, cancel, signal, woken>>
        /\ EndsAfter(<<"stop">>)
    BY <1>9 DEF ChannelEnds, Todo, writableVars, readableVars
  <2>2. EndList(<<"stop">>)
    BY <1>4, <2>1 DEF EndList
  <2>3. Ending
    BY <1>3, <2>1, <2>2
  <2>. QED
    BY <1>2, <2>3 DEF TaskGoes
<1>10. CASE TakeWrite \/ TakeClose \/ TakeAbort \/ TakeCancel
  <2>1. UNCHANGED todo /\ Todo = <<>> /\ UNCHANGED <<signal, woken>> /\ task = "select"
    BY <1>10 DEF TakeWrite, TakeClose, TakeAbort, TakeCancel, CallsCancel, Goes, Todo, writableVars
  <2>6. TakeWrite => TakingIn
    BY <2>1 DEF TakeWrite, Goes, TakingIn, Todo, readableVars
  <2>7. TakeClose => TakingIn
    BY <2>1 DEF TakeClose, CallsCancel, Goes, TakingIn, Todo, readableVars
  <2>8. (TakeAbort => TakingIn) /\ (TakeCancel => TakingIn)
    BY <2>1 DEF TakeAbort, TakeCancel, CallsCancel, TakingIn, Todo
  <2>. QED
    BY <1>2, <1>10, <2>6, <2>7, <2>8 DEF TaskGoes
<1>11. CASE SpacePoll
  <2>1. UNCHANGED <<Todo, cmd, cancel, why>> /\ task \in {"space", "parked"} /\ woken' = woken \ {"task"}
    BY <1>11 DEF SpacePoll, Goes, Todo, writableVars, readableVars
  <2>2. (task' = "transform" /\ UNCHANGED signal)
          \/ (task' = "recheck" /\ ~signal.space /\ signal' = [signal EXCEPT !.waker = TRUE])
    BY <1>11 DEF SpacePoll, Goes
  <2>3. Polling
    BY <1>1, <2>1, <2>2 DEF Polling, SignalOK
  <2>. QED
    BY <1>2, <2>3 DEF TaskGoes
<1>12. CASE SpaceRecheck
  <2>1. UNCHANGED <<Todo, cmd, cancel, why>> /\ task = "recheck" /\ woken' = woken
        /\ signal' = [signal EXCEPT !.abortWaker = TRUE]
        /\ task' \in {"transform", "parked"} /\ (task' = "parked" => ~signal.space)
    BY <1>12 DEF SpaceRecheck, Goes, Todo, writableVars, readableVars
  <2>2. UNCHANGED <<signal.space, signal.pullWaker, signal.waker>>
    BY <1>1, <2>1 DEF SignalOK
  <2>3. Polling
    BY <2>1, <2>2 DEF Polling
  <2>. QED
    BY <1>2, <2>3 DEF TaskGoes
<1>. QED
  BY <1>5, <1>6, <1>7, <1>8, <1>9, <1>10, <1>11, <1>12 DEF TaskStep

(* What the task's steps leave of what its waiting rests on.                 *)
LEMMA StuckTask ==
  ASSUME StuckInv, NoClone' => NoClone, UNCHANGED plan, TaskStep
  PROVE  Core'
<1>0. /\ SinkInv /\ AskInv /\ EndInv /\ CancelInv /\ CloneInv /\ WaitInv /\ MsgInv /\ PullInv /\ PostInv /\ ShutInv
      /\ Parts
  BY DEF StuckInv, Core
<1>1. TaskGoes
  BY <1>0, TaskGoesOn
<1>2. UNCHANGED <<w, aborted, wError, answer, r, rctl, pull, todo[Clone], plan>> /\ (Ending \/ Returning \/ TakingIn \/ Polling)
  BY <1>1 DEF TaskGoes
<1>3. /\ UNCHANGED <<signal.space, signal.pullWaker>>
      /\ woken' \in {woken, woken \ {"task"}}
      /\ UNCHANGED cancel \/ (cancel = "sent" /\ cancel' = "taken")
      /\ UNCHANGED cmd \/ cmd' = None
      /\ task' # "done"
  BY <1>2 DEF Ending, Returning, TakingIn, Polling, Idles
<1>4. (Bundled' <=> Bundled) /\ (WEnds' <=> WEnds) /\ (Unusable' <=> Unusable) /\ (Ended' <=> Ended) /\ (Early' <=> Early)
      /\ Desired' = Desired
  BY <1>2 DEF Bundled, WEnds, Unusable, Ended, Early, Desired, HWM
<1>5. Roaming' <=> Roaming
  BY <1>3, <1>4 DEF Roaming
<1>6. ~Has(<<>>, "answerOk") /\ ~Has(<<>>, "answerErr") /\ ~Has(<<>>, "cancelOk") /\ ~Has(<<>>, "cancelErr")
      /\ ~Has(<<>>, "stop") /\ Started(<<>>) /\ Started(<<"answerOk">>) /\ ~Has(<<"answerOk">>, "stop")
      /\ Has(<<"answerOk">>, "answerOk")
  <2>1. {"answerOk", "answerErr", "cancelOk", "cancelErr", "stop"} \subseteq Accesses
    BY DEF Accesses
  <2>2. \A a \in Accesses : ~Has(<<>>, a) /\ Has(<<a>>, a)
    BY Short
  <2>3. Started(<<"answerOk">>) /\ ~Has(<<"answerOk">>, "stop") /\ Started(<<>>)
    BY CallLists
  <2>. QED
    BY <2>1, <2>2, <2>3
<1>7. SinkInv'
  <2>1. task' = "flush" => cmd = "close"
    BY <1>2 DEF Ending, Returning, TakingIn, Polling
  <2>2. cmd' = "close" => cmd = "close"
    BY <1>3 DEF None
  <2>. QED
    BY <1>0, <1>2, <1>4, <2>1, <2>2 DEF SinkInv
<1>8. AskInv'
  <2>1. CASE Ending
    BY <1>0, <1>2, <1>6, <2>1 DEF Ending, EndList, Idles, AskInv, AtWork, Tells
  <2>2. CASE Returning
    BY <1>0, <1>2, <1>6, <2>2 DEF Returning, Idles, AskInv, AtWork, Tells
  <2>3. CASE TakingIn
    BY <1>0, <1>2, <1>6, <2>3 DEF TakingIn, AskInv, AtWork, Tells
  <2>4. CASE Polling
    BY <2>4 DEF Polling, AskInv, AtWork
  <2>. QED
    BY <1>2, <2>1, <2>2, <2>3, <2>4
<1>9. EndInv'
  <2>1. CASE Ending
    <3>1. EndList(Todo') /\ task' = "ending"
      BY <2>1 DEF Ending
    <3>2. Fine(Todo') /\ Has(Todo', "stop")
      BY <3>1 DEF EndList, Started
    <3>3. task = "flush" \/ ~w.sink => WEnds
      BY <1>0 DEF SinkInv, WEnds
    <3>4. Warned' \/ (Has(Todo', "wError") /\ ~Has(Todo', "rClose"))
      BY <1>4, <3>1, <3>3 DEF EndList, Warned
    <3>. QED
      BY <3>1, <3>2, <3>4 DEF EndInv
  <2>2. CASE Returning
    BY <1>3, <1>6, <2>2 DEF Returning, EndInv, Started
  <2>3. CASE TakingIn
    BY <1>0, <1>3, <2>3 DEF TakingIn, EndInv
  <2>4. CASE Polling
    BY <1>0, <1>3, <2>4 DEF Polling, EndInv
  <2>. QED
    BY <1>2, <2>1, <2>2, <2>3, <2>4
<1>10. CancelInv'
  <2>1. cancel' = "taken" => (task' = "cancelling" /\ why' # "abort") \/ CancelTold'
    <3>1. CASE Ending
      BY <1>0, <1>6, <3>1 DEF Ending, EndList, Idles, CancelInv, CancelTold
    <3>2. CASE Returning
      BY <1>0, <1>6, <3>2 DEF Returning, Idles, CancelInv, CancelTold
    <3>3. CASE TakingIn
      BY <1>0, <1>6, <3>3 DEF TakingIn, CancelInv, CancelTold
    <3>4. CASE Polling
      BY <1>0, <3>4 DEF Polling, CancelInv, CancelTold
    <3>. QED
      BY <1>2, <3>1, <3>2, <3>3, <3>4
  <2>2. cancel' \in {"cut", "fire", "send", "sent", "taken"} => Ended'
    BY <1>0, <1>3, <1>4 DEF CancelInv, None
  <2>3. (cancel' = "cut" => Cuts') /\ (cancel' = "asked" => Roaming')
    BY <1>0, <1>2, <1>3, <1>5 DEF CancelInv, Cuts
  <2>. QED
    BY <2>1, <2>2, <2>3 DEF CancelInv
<1>11. CloneInv'
  BY <1>0, <1>2 DEF CloneInv
<1>12. WaitInv'
  <2>. SUFFICES ASSUME Bundled, NoClone, task' \in {"space", "recheck", "parked"}
                PROVE  /\ Todo' = <<>> /\ ~r.closeRequested /\ ~r.errorRequested
                       /\ r.state # "open" => r.state = "closed" /\ (cancel' \in {"cut", "fire"} \/ signal.space)
                       /\ task' = "recheck" => signal'.waker /\ ~signal.space
                       /\ task' = "parked" => "task" \in woken' \/ (signal'.waker /\ ~signal.space)
    BY <1>2, <1>3, <1>4 DEF WaitInv
  <2>1. CASE TakingIn
    <3>1. Todo' = <<>> /\ ~Unusable /\ task' = "space" /\ UNCHANGED cancel
      BY <2>1 DEF TakingIn
    <3>2. r.state = "open"
      BY <1>0, <3>1 DEF Unusable, Ended, MsgInv, Parts, ROK
    <3>. QED
      BY <3>1, <3>2 DEF Unusable
  <2>2. CASE Polling
    BY <1>0, <2>2 DEF Polling, WaitInv
  <2>. QED
    BY <1>2, <2>1, <2>2 DEF Ending, Returning
<1>13. MsgInv'
  BY <1>0, <1>2 DEF MsgInv, Has
<1>14. PullInv'
  <2>1. "readable" \in woken' <=> "readable" \in woken
    BY <1>3
  <2>. QED
    BY <1>0, <1>2, <1>3, <1>4, <1>5, <2>1 DEF PullInv
<1>15. PostInv'
  <2>1. CASE Ending
    BY <2>1 DEF Ending, EndList, Started, PostInv
  <2>2. CASE Returning
    BY <2>2, <1>6 DEF Returning, Started, PostInv
  <2>3. CASE TakingIn \/ Polling
    BY <1>0, <1>2, <1>4, <2>3 DEF TakingIn, Polling, PostInv
  <2>. QED
    BY <1>2, <2>1, <2>2, <2>3
<1>16. ShutInv'
  BY <1>0, <1>2, <1>3, <1>4 DEF ShutInv, Settled, Full
<1>. QED
  BY <1>7, <1>8, <1>9, <1>10, <1>11, <1>12, <1>13, <1>14, <1>15, <1>16 DEF Core

(* A call of the transformer begins a list; a clone's call ends NoClone.     *)
LEMMA CloneUsed ==
  ASSUME Parts, Spent, UNCHANGED plan,
         NEW k \in {"capturedEnqueue", "capturedError", "capturedTerminate"}, NEW call, CloneCalls(k, call)
  PROVE  ~NoClone'
<1>1. k \in Calls /\ left \in [Calls -> Nat] /\ plan.calls \in [Calls -> Nat]
  BY PlanType DEF Calls, Parts, LeftOK
<1>2. left'[k] = left[k] - 1 /\ left[k] <= plan.calls[k]
  BY <1>1 DEF CloneCalls, Spend, Spent
<1>3. \A m, n \in Nat : m <= n => m - 1 # n
  OBVIOUS
<1>4. left'[k] # plan.calls[k]
  BY <1>1, <1>2, <1>3
<1>. QED
  BY <1>4 DEF NoClone

(* The users' calls of the controller.                                       *)
LEMMA StuckUser ==
  ASSUME StuckInv, NoClone' => NoClone, UNCHANGED plan, UserCall
  PROVE  Core'
<1>0. /\ SinkInv /\ AskInv /\ EndInv /\ CancelInv /\ CloneInv /\ WaitInv /\ MsgInv /\ PullInv /\ PostInv /\ ShutInv
      /\ Parts /\ Spent
  BY DEF StuckInv, Core
<1>1. todo \in [Threads -> Seq(Accesses)] /\ Task # Clone /\ Threads = {Task, Clone}
  BY <1>0 DEF Parts, TodoOK, Threads, Task, Clone
<1>2. UNCHANGED <<writableVars, task, why, signal, woken, readableVars, plan>>
  BY DEF UserCall, TransformerCalls, CloneCalls
<1>3. /\ UNCHANGED <<w, wError, cmd, answer, r, rctl, pull, cancel, task, why, signal, woken>>
      /\ (Bundled' <=> Bundled) /\ (WEnds' <=> WEnds) /\ (Unusable' <=> Unusable) /\ (Ended' <=> Ended) /\ (Early' <=> Early)
      /\ Desired' = Desired
  BY <1>2 DEF Bundled, WEnds, Unusable, Ended, Early, Desired, HWM, writableVars, readableVars
<1>4. \/ UNCHANGED Todo /\ ~NoClone'
      \/ /\ UNCHANGED todo[Clone] /\ Todo = <<>> /\ Started(Todo') /\ ~Has(Todo', "stop")
         /\ task \in {"starting", "transform", "flush", "cancelling"}
  <2>1. ASSUME NEW k \in {"capturedEnqueue", "capturedError", "capturedTerminate"}, NEW call, CloneCalls(k, call)
        PROVE  UNCHANGED Todo /\ ~NoClone'
    BY <1>0, <1>1, <2>1, CloneUsed DEF CloneCalls, Todo
  <2>2. ASSUME NEW k \in {"enqueue", "error", "terminate"}, NEW call \in {EnqueueCall, ErrorCall, TerminateCall},
               TransformerCalls(k, call)
        PROVE  /\ UNCHANGED todo[Clone] /\ Todo = <<>> /\ Started(Todo') /\ ~Has(Todo', "stop")
               /\ task \in {"starting", "transform", "flush", "cancelling"}
    <3>1. Started(call) /\ ~Has(call, "stop")
      BY CallLists
    <3>2. Todo' = call /\ UNCHANGED todo[Clone]
      BY <1>1, <2>2 DEF TransformerCalls, Todo
    <3>3. Todo = <<>> /\ task \in {"starting", "transform", "flush", "cancelling"}
      BY <2>2 DEF TransformerCalls, InUserCode, Todo
    <3>. QED
      BY <3>1, <3>2, <3>3
  <2>. QED
    BY <2>1, <2>2 DEF UserCall
<1>5. ~Has(<<>>, "answerOk") /\ ~Has(<<>>, "answerErr") /\ ~Has(<<>>, "cancelOk") /\ ~Has(<<>>, "cancelErr")
  BY DEF Has
<1>6. SinkInv' /\ MsgInv' /\ CloneInv'
  BY <1>0, <1>3, <1>4 DEF SinkInv, MsgInv, Has, CloneInv
<1>7. AskInv'
  BY <1>0, <1>3, <1>4, <1>5 DEF AskInv, AtWork, Tells
<1>8. EndInv'
  BY <1>0, <1>3, <1>4 DEF EndInv, Warned, Started
<1>9. CancelInv'
  BY <1>0, <1>3, <1>4, <1>5 DEF CancelInv, CancelTold, Cuts, Roaming
<1>10. WaitInv'
  BY <1>0, <1>3, <1>4 DEF WaitInv
<1>11. PullInv'
  BY <1>0, <1>3 DEF PullInv, Roaming
<1>12. PostInv'
  BY <1>0, <1>3, <1>4 DEF PostInv, Started
<1>13. ShutInv'
  BY <1>0, <1>3, NoClone' => NoClone DEF ShutInv, Settled, Full
<1>. QED
  BY <1>6, <1>7, <1>8, <1>9, <1>10, <1>11, <1>12, <1>13 DEF Core

-----------------------------------------------------------------------------
(* No lost wakeup: the callers and the writable                             *)

(* The callers.                                                              *)
LEMMA StuckCaller ==
  ASSUME StuckInv, NoClone' => NoClone, UNCHANGED plan, CallerStep
  PROVE  Core'
<1>0. /\ SinkInv /\ AskInv /\ EndInv /\ CancelInv /\ CloneInv /\ WaitInv /\ MsgInv /\ PullInv /\ PostInv /\ ShutInv
      /\ Parts
  BY DEF StuckInv, Core
<1>1. r \in RT /\ WOK
  BY <1>0 DEF Parts, ROK, RT
<1>2. UNCHANGED <<aborted, wError, cmd, answer, task, why, todo, signal, rctl, pull, plan, Todo, todo[Clone]>>
  BY DEF CallerStep, Write, Close, Abort, Read, Cancel, taskVars, readableVars, writableVars, Todo
<1>3. /\ w'.op = w.op /\ w'.sink = w.sink /\ (WEnds => WEnds')
      /\ (w.state # "writable" => w'.state # "writable") /\ (w'.aborting => w.aborting \/ w'.state # "writable")
  <2>1. CASE Write
    BY <1>1, <2>1 DEF Write, WOK, WEnds
  <2>2. CASE Close
    BY <1>1, <2>2 DEF Close, WOK, WEnds
  <2>3. CASE Abort
    BY <1>1, <2>3 DEF Abort, WOK, WEnds
  <2>4. CASE Read \/ Cancel
    BY <2>4 DEF Read, Cancel, writableVars, WEnds
  <2>. QED
    BY <2>1, <2>2, <2>3, <2>4 DEF CallerStep
<1>4. /\ UNCHANGED r \/ r' = [r EXCEPT !.asked = @ + 1]
      /\ woken \subseteq woken'
      /\ UNCHANGED cancel \/ (cancel = None /\ cancel' = "asked" /\ "readable" \in woken')
  BY DEF CallerStep, Write, Close, Abort, Read, Cancel, readableVars
<1>5. UNCHANGED <<r.state, r.queue, r.reads, r.closeRequested, r.errorRequested, r.needsPull, r.phase>>
  BY <1>1, <1>4 DEF RT
<1>6. /\ (Bundled' <=> Bundled) /\ (Unusable' <=> Unusable) /\ (Ended' <=> Ended) /\ (Early' <=> Early)
      /\ Desired' = Desired /\ (Roaming => Roaming')
  BY <1>2, <1>4, <1>5 DEF Bundled, Unusable, Ended, Early, Desired, HWM, Roaming
<1>7. SinkInv'
  BY <1>0, <1>2, <1>3 DEF SinkInv
<1>8. AskInv'
  BY <1>0, <1>2, <1>3 DEF AskInv, AtWork, Tells
<1>9. EndInv'
  BY <1>0, <1>2, <1>3, <1>4, <1>6 DEF EndInv, Warned, None
<1>10. CancelInv'
  BY <1>0, <1>2, <1>4, <1>5, <1>6 DEF CancelInv, CancelTold, Cuts, Roaming, None
<1>11. CloneInv'
  BY <1>0, <1>2 DEF CloneInv
<1>12. WaitInv'
  BY <1>0, <1>2, <1>4, <1>5, <1>6 DEF WaitInv, None
<1>13. MsgInv'
  BY <1>0, <1>2, <1>5 DEF MsgInv, Has
<1>14. PullInv'
  BY <1>0, <1>2, <1>4, <1>5, <1>6 DEF PullInv
<1>15. PostInv'
  BY <1>0, <1>2, <1>6 DEF PostInv
<1>16. ShutInv'
  BY <1>0, <1>2, <1>5, <1>6 DEF ShutInv, Settled, Full
<1>. QED
  BY <1>7, <1>8, <1>9, <1>10, <1>11, <1>12, <1>13, <1>14, <1>15, <1>16 DEF Core

(* The writable's task.                                                      *)
LEMMA StuckWritable ==
  ASSUME StuckInv, NoClone' => NoClone, UNCHANGED plan, WritableStep
  PROVE  Core'
<1>0. /\ SinkInv /\ AskInv /\ EndInv /\ CancelInv /\ CloneInv /\ WaitInv /\ MsgInv /\ PullInv /\ PostInv /\ ShutInv
      /\ Parts
  BY DEF StuckInv, Core
<1>1. SignalOK /\ WOK /\ wError \in BOOLEAN
  BY <1>0 DEF Parts, LinkOK
<1>2. UNCHANGED <<task, why, todo, r, rctl, pull, cancel, plan, Todo, todo[Clone]>>
  BY DEF WritableStep, WritableErrored, SignalAbort, SinkWrite, SinkClose, SinkAbort, Sends,
         AbortDuringClose, SinkReturns, taskVars, readableVars, Todo
<1>3. (UNCHANGED signal \/ signal' = [signal EXCEPT !.abortWaker = FALSE]) /\ woken \subseteq woken'
  BY DEF WritableStep, WritableErrored, SignalAbort, SinkWrite, SinkClose, SinkAbort, Sends,
         AbortDuringClose, SinkReturns
<1>4. UNCHANGED <<signal.space, signal.waker, signal.pullWaker>>
  BY <1>1, <1>3 DEF SignalOK
<1>5. /\ (Bundled' <=> Bundled) /\ (Unusable' <=> Unusable) /\ (Ended' <=> Ended) /\ (Early' <=> Early)
      /\ Desired' = Desired /\ (Roaming => Roaming')
  BY <1>2, <1>3 DEF Bundled, Unusable, Ended, Early, Desired, HWM, Roaming
<1>6. /\ WEnds => WEnds'
      /\ ~w'.sink \/ w'.op = "abort" \/ w'.aborting => w'.state # "writable"
      /\ cmd' = "close" => WEnds'
      /\ Warned => Warned'
      /\ w'.op # None => answer' # None \/ cmd' # None \/ (w.op # None /\ UNCHANGED <<answer, cmd>>)
      /\ task = "done" => UNCHANGED cmd
  <2>1. CASE WritableErrored
    BY <1>0, <1>1, <2>1 DEF WritableErrored, WOK, WEnds, Warned, SinkInv
  <2>2. CASE SignalAbort
    BY <1>0, <2>2 DEF SignalAbort, WEnds, Warned, SinkInv
  <2>3. CASE SinkWrite
    <3>1. Sends("write") /\ w' = [w EXCEPT !.op = "write", !.queued = w.queued - 1] /\ UNCHANGED wError
      BY <2>3 DEF SinkWrite, Sends
    <3>2. w'.op = "write" /\ UNCHANGED <<w.state, w.closing, w.aborting, w.sink>>
      BY <1>1, <3>1 DEF WOK
    <3>3. (answer' = "err" /\ UNCHANGED cmd) \/ (cmd' = "write" /\ task # "done")
      BY <3>1 DEF Sends
    <3>. QED
      BY <1>0, <3>1, <3>2, <3>3 DEF SinkInv, WEnds, Warned, None
  <2>4. CASE SinkClose
    <3>1. Sends("close") /\ w' = [w EXCEPT !.op = "close"] /\ w.closing /\ UNCHANGED wError
      BY <2>4 DEF SinkClose, Sends
    <3>2. w'.op = "close" /\ UNCHANGED <<w.state, w.closing, w.aborting, w.sink>>
      BY <1>1, <3>1 DEF WOK
    <3>3. (answer' = "err" /\ UNCHANGED cmd) \/ (cmd' = "close" /\ task # "done")
      BY <3>1 DEF Sends
    <3>. QED
      BY <1>0, <3>1, <3>2, <3>3 DEF SinkInv, WEnds, Warned, None
  <2>5. CASE SinkAbort
    <3>1. Sends("abort") /\ w' = [w EXCEPT !.op = "abort"] /\ w.aborting /\ UNCHANGED wError
      BY <2>5 DEF SinkAbort, Sends
    <3>2. w'.op = "abort" /\ UNCHANGED <<w.state, w.closing, w.aborting, w.sink>>
      BY <1>1, <3>1 DEF WOK
    <3>3. (answer' = "err" /\ UNCHANGED cmd) \/ (cmd' = "abort" /\ task # "done")
      BY <3>1 DEF Sends
    <3>. QED
      BY <1>0, <3>1, <3>2, <3>3 DEF SinkInv, WEnds, Warned, None
  <2>6. CASE AbortDuringClose
    <3>1. /\ w'.state = "errored" /\ w'.aborting = FALSE /\ UNCHANGED <<w.op, w.sink, w.closing>>
          /\ UNCHANGED <<cmd, answer, wError>>
      BY <1>1, <2>6 DEF AbortDuringClose, WOK
    <3>. QED
      BY <1>0, <3>1 DEF SinkInv, WEnds, Warned
  <2>7. CASE SinkReturns
    <3>0. w.op \in {"write", "close", "abort"} /\ UNCHANGED <<cmd, wError>>
      BY <1>1, <2>7 DEF SinkReturns, WOK
    <3>1. CASE w.op = "write"
      <4>1. w'.op = None /\ w'.aborting = w.aborting
            /\ (UNCHANGED <<w.state, w.closing, w.sink>> \/ w'.state = "errored")
        BY <1>1, <2>7, <3>1 DEF SinkReturns, WOK
      <4>. QED
        BY <1>0, <3>0, <4>1 DEF SinkInv, WEnds, Warned, None
    <3>2. CASE w.op = "close"
      <4>1. w'.op = None /\ w'.aborting = w.aborting /\ w'.state \in {"errored", "closed"}
        BY <1>1, <2>7, <3>2 DEF SinkReturns, WOK
      <4>. QED
        BY <1>0, <3>0, <4>1 DEF SinkInv, WEnds, Warned, None
    <3>3. CASE w.op = "abort"
      <4>1. w'.op = None /\ w'.aborting = FALSE /\ w'.state = w.state /\ w'.closing = w.closing
        BY <1>1, <2>7, <3>3 DEF SinkReturns, WOK
      <4>. QED
        BY <1>0, <3>0, <3>3, <4>1 DEF SinkInv, WEnds, Warned, None
    <3>. QED
      BY <3>0, <3>1, <3>2, <3>3
  <2>. QED
    BY <2>1, <2>2, <2>3, <2>4, <2>5, <2>6, <2>7 DEF WritableStep
<1>7. SinkInv'
  BY <1>0, <1>2, <1>6 DEF SinkInv
<1>8. AskInv'
  BY <1>0, <1>2, <1>6 DEF AskInv, AtWork, Tells
<1>9. EndInv'
  BY <1>0, <1>2, <1>5, <1>6 DEF EndInv
<1>10. CancelInv'
  BY <1>0, <1>2, <1>3, <1>5 DEF CancelInv, CancelTold, Cuts
<1>11. CloneInv'
  BY <1>0, <1>2 DEF CloneInv
<1>12. WaitInv'
  BY <1>0, <1>2, <1>3, <1>4, <1>5 DEF WaitInv
<1>13. MsgInv'
  BY <1>0, <1>2 DEF MsgInv, Has
<1>14. PullInv'
  BY <1>0, <1>2, <1>3, <1>4, <1>5 DEF PullInv
<1>15. PostInv'
  BY <1>0, <1>2, <1>5 DEF PostInv
<1>16. ShutInv'
  BY <1>0, <1>2, <1>4, <1>5 DEF ShutInv, Settled, Full
<1>. QED
  BY <1>7, <1>8, <1>9, <1>10, <1>11, <1>12, <1>13, <1>14, <1>15, <1>16 DEF Core

-----------------------------------------------------------------------------
(* No lost wakeup: the accesses                                             *)

(* A message more.                                                           *)
LEMMA OneMore ==
  ASSUME NEW s \in Seq({"chunk", "close", "error"}), NEW m
  PROVE  Append(s, m) # <<>> /\ \A x : Has(Append(s, m), x) => Has(s, x) \/ x = m
<1> DEFINE d == Append(s, m)
<1>1. Len(s) \in Nat /\ Len(d) = Len(s) + 1 /\ d[Len(s) + 1] = m /\ \A k \in 1..Len(s) : d[k] = s[k]
  OBVIOUS
<1>. HIDE DEF d
<1>2. d # <<>>
  BY <1>1
<1>3. \A k \in 1..Len(d) : k \in 1..Len(s) \/ k = Len(s) + 1
  BY <1>1
<1>4. \A x : Has(d, x) => Has(s, x) \/ x = m
  BY <1>1, <1>3 DEF Has
<1>. QED
  BY <1>2, <1>4 DEF d

(* The accesses to what is shared.                                           *)
LEMMA StuckThread ==
  ASSUME StuckInv, NoClone' => NoClone, Unusable => Unusable', UNCHANGED plan, ThreadStep
  PROVE  Core'
<1>0. /\ SinkInv /\ AskInv /\ EndInv /\ CancelInv /\ CloneInv /\ WaitInv /\ MsgInv /\ PullInv /\ PostInv /\ ShutInv
      /\ Parts
  BY DEF StuckInv, Core
<1>1. r \in RT /\ SignalOK /\ rctl \in Seq({"chunk", "close", "error"}) /\ wError \in BOOLEAN /\ Todo \in Seq(Accesses)
      /\ todo \in [Threads -> Seq(Accesses)] /\ Task # Clone /\ Threads = {Task, Clone}
  BY <1>0 DEF Parts, ROK, RT, CtlOK, LinkOK, TodoOK, Todo, Threads, Task, Clone
<1>2. ThreadMove
  BY <1>0, ThreadMovesOn DEF EndInv
<1>3. PICK t \in Threads, a \in Accesses :
        /\ todo[t] # <<>>
        /\ t = Task \/ (UNCHANGED Todo /\ a \notin ForTask)
        /\ t = Task => Strikes(a)
        /\ ToSinkBy(a) /\ ToTaskBy(a) /\ ToGateBy(a) /\ ToReadableBy(a)
  BY <1>2 DEF ThreadMove
<1>4. todo[Clone] = <<>> => todo'[Clone] = <<>>
  <2>1. \E u \in Threads : todo[u] # <<>> /\ \E s : todo' = [todo EXCEPT ![u] = s]
    BY <1>1 DEF ThreadStep, PostChunk, Count, CloseGate, Raise, ErrorReadable, CloseReadable, ErrorWritable, WakesPull,
            Completes, CompletesCancel, Drain, Stop, Does, DoesThen
  <2>. QED
    BY <1>1, <2>1
<1>6. /\ UNCHANGED <<w, why, pull, plan>>
      /\ wError => wError'
      /\ task' = task \/ (a = "stop" /\ task' = "done")
      /\ cmd' = cmd \/ cmd' = None
      /\ woken \subseteq woken'
  BY <1>1, <1>3 DEF ToSinkBy, ToTaskBy, ToGateBy, ToReadableBy
<1>7. /\ UNCHANGED <<r.state, r.queue, r.reads, r.needsPull, r.phase>>
      /\ r.closeRequested => r'.closeRequested
      /\ r.errorRequested => r'.errorRequested
      /\ (UNCHANGED <<r, rctl>> /\ (a = "post" => Unusable))
          \/ \E m : /\ Told(m)
                    /\ m = "close" => r'.closeRequested
                    /\ m = "error" => r'.errorRequested
                    /\ a \in {"post", "rError", "rClose"}
  BY <1>1, <1>3 DEF ToReadableBy, RT
<1>8. rctl' = rctl \/ (rctl' # <<>> /\ "readable" \in woken' /\ a \in {"post", "rError", "rClose"})
  BY <1>1, <1>7, OneMore DEF Told
<1>9. (Bundled' <=> Bundled) /\ (WEnds' <=> WEnds) /\ (Ended' <=> Ended) /\ (Early' <=> Early)
      /\ Desired' = Desired /\ (Roaming => Roaming') /\ (Warned => Warned')
  BY <1>6, <1>7 DEF Bundled, WEnds, Ended, Early, Desired, HWM, Roaming, Warned
<1>10. SinkInv'
  BY <1>0, <1>6, <1>9 DEF SinkInv, None
<1>11. \A x \in {"answerOk", "answerErr", "cancelOk", "cancelErr", "stop"} : Has(Todo, x) => x = a \/ Has(Todo', x)
  BY <1>3 DEF Strikes
<1>12. /\ Fine(Todo')
       /\ Has(Todo', "stop") => Has(Todo, "stop")
       /\ a = "stop" => Has(Todo, "stop") /\ Todo' = <<>> /\ ~Has(Todo', "stop") /\ ~Has(Todo', "wError")
       /\ t = Task => ~Has(Todo', "rClose")
       /\ t = Task => Has(Todo, a)
       /\ Has(Todo, "wError") => a \in {"wError", "rClose"} \/ Has(Todo', "wError")
  <2>1. ~Has(<<>>, "stop") /\ ~Has(<<>>, "wError")
    BY DEF Has
  <2>2. CASE t = Task
    <3>1. Strikes(a) /\ Todo # <<>> /\ Head(Todo) = a
      BY <1>3, <2>2 DEF Strikes
    <3>2. Has(Todo, a)
      BY <1>1, <3>1, AfterTail
    <3>. QED
      BY <2>1, <3>1, <3>2 DEF Strikes
  <2>3. CASE t # Task
    BY <1>0, <1>3, <2>3 DEF EndInv, ForTask
  <2>. QED
    BY <2>2, <2>3
<1>13. AskInv'
  <2>. SUFFICES ASSUME w.op # None, answer' = None, cmd' = None, ~AtWork'
                PROVE  Tells'
    BY <1>6 DEF AskInv
  <2>1. a \notin {"answerOk", "answerErr"} /\ answer = None /\ cmd = None
    BY <1>3 DEF ToSinkBy
  <2>2. ~AtWork
    <3>1. CASE task' = task
      BY <1>6, <3>1 DEF AtWork
    <3>2. CASE a = "stop"
      BY <1>0, <1>12, <3>2 DEF AtWork, EndInv
    <3>. QED
      BY <1>6, <3>1, <3>2
  <2>3. Tells
    BY <1>0, <2>1, <2>2 DEF AskInv
  <2>. QED
    BY <1>11, <2>1, <2>3 DEF Tells
<1>14. EndInv'
  <2>1. Has(Todo', "stop") <=> task' = "ending"
    <3>1. CASE a = "stop"
      BY <1>3, <1>12, <3>1 DEF ToTaskBy
    <3>2. CASE a # "stop"
      BY <1>0, <1>6, <1>11, <1>12, <3>2 DEF EndInv
    <3>. QED
      BY <3>1, <3>2
  <2>2. ASSUME Bundled, task' = "ending" PROVE Warned' \/ (Has(Todo', "wError") /\ ~Has(Todo', "rClose"))
    <3>1. task = "ending" /\ a # "stop"
      BY <1>3, <1>6, <2>2 DEF ToTaskBy
    <3>2. Warned \/ (Has(Todo, "wError") /\ ~Has(Todo, "rClose"))
      BY <1>0, <2>2, <3>1 DEF EndInv
    <3>3. ASSUME Has(Todo, "wError"), ~Has(Todo, "rClose")
          PROVE  Warned' \/ (Has(Todo', "wError") /\ ~Has(Todo', "rClose"))
      <4>1. CASE t = Task
        <5>1. a # "rClose"
          BY <1>12, <3>3, <4>1
        <5>2. a = "wError" => wError'
          BY <1>3 DEF ToSinkBy
        <5>. QED
          BY <1>12, <3>3, <4>1, <5>1, <5>2 DEF Warned
      <4>2. CASE t # Task
        BY <1>3, <3>3, <4>2
      <4>. QED
        BY <4>1, <4>2
    <3>. QED
      BY <1>9, <3>2, <3>3
  <2>3. ASSUME Bundled, task' = "done" PROVE Warned'
    <3>1. CASE task = "done"
      BY <1>0, <1>9, <2>3, <3>1 DEF EndInv
    <3>2. CASE task # "done"
      <4>1. a = "stop" /\ task = "ending"
        BY <1>0, <1>6, <1>12, <2>3, <3>2 DEF EndInv
      <4>2. ~Has(Todo, "wError")
        BY <1>12, <4>1
      <4>. QED
        BY <1>0, <1>9, <2>3, <4>1, <4>2 DEF EndInv
    <3>. QED
      BY <3>1, <3>2
  <2>4. ASSUME task' = "done" PROVE cmd' = None /\ cancel' # "sent"
    <3>1. CASE a = "stop"
      BY <1>3, <3>1 DEF ToSinkBy, ToTaskBy
    <3>2. CASE a # "stop"
      <4>1. task = "done" /\ cmd = None /\ cancel # "sent"
        BY <1>0, <1>6, <2>4, <3>2 DEF EndInv
      <4>. QED
        BY <1>3, <1>6, <3>2, <4>1 DEF ToTaskBy
    <3>. QED
      BY <3>1, <3>2
  <2>. QED
    BY <1>9, <1>12, <2>1, <2>2, <2>3, <2>4 DEF EndInv
<1>15. CancelInv'
  <2>1. cancel' = cancel \/ cancel' \in {"ok", "err"}
    BY <1>3 DEF ToTaskBy
  <2>2. cancel' = "taken" => (task' = "cancelling" /\ why' # "abort") \/ CancelTold'
    <3>. SUFFICES ASSUME cancel' = "taken" PROVE (task' = "cancelling" /\ why' # "abort") \/ CancelTold'
      OBVIOUS
    <3>1. cancel = "taken" /\ a \notin {"cancelOk", "cancelErr"}
      BY <1>3, <2>1 DEF ToTaskBy
    <3>2. CASE CancelTold
      BY <1>11, <3>1, <3>2 DEF CancelTold
    <3>3. CASE task = "cancelling" /\ why # "abort"
      BY <1>0, <1>6, <1>12, <3>3 DEF EndInv
    <3>. QED
      BY <1>0, <3>1, <3>2, <3>3 DEF CancelInv
  <2>. QED
    BY <1>0, <1>6, <1>7, <1>9, <2>1, <2>2 DEF CancelInv, Cuts
<1>16. CloneInv'
  BY <1>0, <1>4 DEF CloneInv
<1>17. NoClone' => t = Task
  BY <1>0, <1>1, <1>3 DEF CloneInv
<1>18. WaitInv'
  <2>. SUFFICES ASSUME Bundled, NoClone', task' \in {"space", "recheck", "parked"} PROVE FALSE
    BY <1>9 DEF WaitInv
  <2>1. Todo = <<>> /\ t = Task
    BY <1>0, <1>6, <1>17 DEF WaitInv
  <2>. QED
    BY <1>3, <2>1 DEF Todo
<1>19. MsgInv'
  BY <1>0, <1>1, <1>7, OneMore DEF MsgInv, Told
<1>20. PullInv'
  <2>1. signal.pullWaker => (signal'.pullWaker /\ signal'.space = signal.space) \/ "readable" \in woken'
    BY <1>3 DEF ToGateBy
  <2>2. Bundled /\ pull = "parked" => Roaming' \/ (signal'.pullWaker /\ signal'.space)
    BY <1>0, <1>9, <2>1 DEF PullInv, Roaming
  <2>3. pull = "register" => "readable" \in woken' \/ signal'.pullWaker
    BY <1>0, <1>6, <2>1 DEF PullInv
  <2>4. rctl' # <<>> => "readable" \in woken' \/ r'.phase = "control"
    BY <1>0, <1>6, <1>7, <1>8 DEF PullInv
  <2>5. pull = None /\ r.state = "open" /\ r.needsPull => Roaming'
    BY <1>0, <1>9 DEF PullInv
  <2>. QED
    BY <1>0, <1>6, <1>7, <1>9, <2>2, <2>3, <2>4, <2>5 DEF PullInv
<1>21. PostInv'
  <2>. SUFFICES ASSUME Bundled, Todo' # <<>>, Head(Todo') \in {"count", "closeGate"}, ~Unusable
                PROVE  rctl' # <<>>
    BY <1>9 DEF PostInv
  <2>1. CASE t = Task
    <3>1. a \in {"post", "count"} /\ Todo # <<>> /\ Head(Todo) = a
      BY <1>3, <2>1 DEF Strikes
    <3>2. CASE a = "post"
      BY <1>1, <1>3, <1>7, <3>2, OneMore DEF Told
    <3>3. CASE a = "count"
      BY <1>0, <1>8, <3>1, <3>3 DEF PostInv
    <3>. QED
      BY <3>1, <3>2, <3>3
  <2>2. CASE t # Task
    BY <1>0, <1>3, <1>8, <2>2 DEF PostInv
  <2>. QED
    BY <2>1, <2>2
<1>22. ShutInv'
  <2>. SUFFICES ASSUME Bundled, NoClone', ~Unusable', Settled' PROVE Full'
    BY <1>9 DEF ShutInv
  <2>1. NoClone /\ ~Unusable /\ t = Task
    BY <1>17
  <2>2. Settled
    <3>1. CASE pull = "shut"
      BY <3>1 DEF Settled
    <3>2. CASE pull # "shut"
      <4>1. ~signal'.space /\ ~r.needsPull /\ rctl' = <<>> /\ pull \notin {"sync", "open"}
        BY <1>6, <1>7, <3>2 DEF Settled
      <4>2. rctl = <<>>
        BY <1>8, <4>1
      <4>3. a # "closeGate"
        BY <1>0, <1>3, <2>1, <4>2 DEF Strikes, PostInv
      <4>. QED
        BY <1>3, <4>1, <4>2, <4>3 DEF ToGateBy, Settled
    <3>. QED
      BY <3>1, <3>2
  <2>3. Full
    BY <1>0, <2>1, <2>2 DEF ShutInv
  <2>. QED
    BY <1>7, <1>9, <2>3 DEF Full
<1>. QED
  BY <1>10, <1>13, <1>14, <1>15, <1>16, <1>18, <1>19, <1>20, <1>21, <1>22 DEF Core

-----------------------------------------------------------------------------
(* No lost wakeup: the readable                                             *)

(* The readable's task drains its control channel.                           *)
ForReadable ==
    /\ UNCHANGED <<w, cmd, answer, task, why, todo, plan>>
    /\ wError => wError'
    /\ NoClone' => NoClone
    /\ Unusable => Unusable'
    /\ Bundled => Todo = <<>> /\ task # "recheck"
OfReadable == CancelInv' /\ WaitInv' /\ MsgInv' /\ PullInv' /\ ShutInv'

(* A message taken keeps what the readable's side of the invariant says.     *)
LEMMA DrainsOn ==
  ASSUME StuckInv, ForReadable, ReadableControl
  PROVE  OfReadable
<1>0. /\ CancelInv /\ WaitInv /\ MsgInv /\ PullInv /\ ShutInv /\ r \in RT /\ rctl \in Seq({"chunk", "close", "error"})
  BY DEF StuckInv, Core, Parts, ROK, RT, CtlOK
<1>1. /\ UNCHANGED <<signal, pull, cancel, task, why, Todo, plan>> /\ rctl # <<>> /\ rctl' = Tail(rctl)
      /\ r.phase \in {"control", "idle"} /\ woken \ {"readable"} \subseteq woken'
      /\ (Bundled' <=> Bundled) /\ HWM' = HWM
  BY DEF ReadableControl, InPhase, Begun, ForReadable, Todo, Bundled, HWM
<1>2. Head(rctl) \in {"chunk", "close", "error"} /\ Has(rctl, Head(rctl))
      /\ \A x : Has(Tail(rctl), x) => Has(rctl, x)
  <2> DEFINE s == rctl
             t == Tail(rctl)
  <2>1. /\ Len(s) \in Nat /\ Len(s) >= 1 /\ Head(s) = s[1] /\ Len(t) = Len(s) - 1
        /\ \A k \in 1..Len(t) : t[k] = s[k + 1] /\ k + 1 \in 1..Len(s)
        /\ Head(s) \in {"chunk", "close", "error"}
    BY <1>0, <1>1
  <2>. HIDE DEF s, t
  <2>2. (\A x : Has(t, x) => Has(s, x)) /\ Has(s, Head(s))
    BY <2>1 DEF Has
  <2>. QED
    BY <2>1, <2>2 DEF s, t
<1>3. /\ r'.phase = "control"
      /\ UNCHANGED <<r.closeRequested, r.errorRequested>>
      /\ \/ Head(rctl) = "chunk" /\ r.state = "open" /\ r'.state = "open" /\ r'.needsPull
            /\ (r'.reads = 0 \/ r'.queue = r.queue)
         \/ Head(rctl) = "chunk" /\ r.state # "open" /\ UNCHANGED <<r.state, r.queue, r.reads>>
         \/ Head(rctl) = "close" /\ r'.state \in {r.state, "closed", "closing"} /\ (r.state # "open" => r'.state = r.state)
            /\ (r'.state = "open" => r.state # "open")
         \/ Head(rctl) = "error" /\ r'.state \in {r.state, "errored"} /\ (r'.state # r.state => ~Ended)
            /\ r'.state # "open"
  <2>. DEFINE i == [r EXCEPT !.phase = "control"]
              step == CASE Head(rctl) = "chunk" /\ r.state = "open" /\ r.reads > 0 ->
                      [i EXCEPT !.reads = @ - 1, !.needsPull = TRUE]
                 [] Head(rctl) = "chunk" /\ r.state = "open" /\ r.reads = 0 ->
                      [i EXCEPT !.queue = @ + 1, !.needsPull = TRUE]
                 [] Head(rctl) = "close" /\ r.state = "open" ->
                      IF r.queue = 0 THEN [i EXCEPT !.state = "closed", !.reads = 0]
                      ELSE [i EXCEPT !.state = "closing"]
                 [] Head(rctl) = "error" /\ ~Ended ->
                      [i EXCEPT !.state = "errored", !.queue = 0, !.reads = 0]
                 [] OTHER -> i
  <2>1. r' = step
    BY DEF ReadableControl
  <2>2. i \in RT /\ i.phase = "control" /\ i.state = r.state /\ i.queue = r.queue /\ i.reads = r.reads
        /\ i.closeRequested = r.closeRequested /\ i.errorRequested = r.errorRequested
    BY <1>0 DEF RT
  <2>3. r.reads > 0 \/ r.reads = 0
    BY <1>0 DEF RT
  <2>4. CASE Head(rctl) = "chunk" /\ r.state = "open" /\ r.reads > 0
    <3>1. r' = [i EXCEPT !.reads = @ - 1, !.needsPull = TRUE]
      BY <2>1, <2>4
    <3>. HIDE DEF i, step
    <3>. QED
      BY <2>2, <2>4, <3>1 DEF RT
  <2>5. CASE Head(rctl) = "chunk" /\ r.state = "open" /\ r.reads = 0
    <3>1. r' = [i EXCEPT !.queue = @ + 1, !.needsPull = TRUE]
      BY <2>1, <2>5
    <3>. HIDE DEF i, step
    <3>. QED
      BY <2>2, <2>5, <3>1 DEF RT
  <2>6. CASE Head(rctl) = "close" /\ r.state = "open"
    <3>1. r' = [i EXCEPT !.state = "closed", !.reads = 0] \/ r' = [i EXCEPT !.state = "closing"]
      BY <2>1, <2>6
    <3>. HIDE DEF i, step
    <3>. QED
      BY <2>2, <2>6, <3>1 DEF RT
  <2>7. CASE Head(rctl) = "error" /\ ~Ended
    <3>1. r' = [i EXCEPT !.state = "errored", !.queue = 0, !.reads = 0]
      BY <2>1, <2>7
    <3>. HIDE DEF i, step
    <3>. QED
      BY <2>2, <2>7, <3>1 DEF RT
  <2>8. CASE \/ Head(rctl) \in {"chunk", "close"} /\ r.state # "open"
             \/ Head(rctl) = "error" /\ Ended
    <3>1. r' = i
      BY <2>1, <2>8
    <3>. HIDE DEF i, step
    <3>. QED
      BY <1>2, <2>2, <2>8, <3>1 DEF Ended
  <2>. QED
    BY <1>2, <2>3, <2>4, <2>5, <2>6, <2>7, <2>8
<1>4. pull \in {None, "parked"} /\ cancel # "cut" /\ Roaming' /\ (Ended => Ended')
  <2>1. pull \in {None, "parked"}
    BY <1>0, <1>1 DEF PullInv
  <2>2. cancel # "cut"
    BY <1>0, <1>1 DEF CancelInv, Cuts
  <2>3. Roaming'
    BY <1>3 DEF Roaming, Early
  <2>4. Ended => Ended'
    BY <1>3 DEF Ended
  <2>. QED
    BY <2>1, <2>2, <2>3, <2>4
<1>5. CancelInv'
  BY <1>0, <1>1, <1>4 DEF CancelInv, CancelTold
<1>6. Head(rctl) = "close" => r.closeRequested
  BY <1>0, <1>2 DEF MsgInv
<1>7. Head(rctl) = "error" => r.errorRequested
  BY <1>0, <1>2 DEF MsgInv
<1>8. MsgInv'
  <2>1. r'.state = "closing" => r.closeRequested
    BY <1>0, <1>3, <1>6 DEF MsgInv
  <2>. QED
    BY <1>0, <1>1, <1>2, <1>3, <2>1 DEF MsgInv
<1>9. WaitInv'
  <2>. SUFFICES ASSUME Bundled, NoClone, task \in {"space", "recheck", "parked"}
                PROVE  /\ Todo = <<>> /\ ~r.closeRequested /\ ~r.errorRequested
                       /\ r'.state # "open" => r'.state = "closed" /\ (cancel \in {"cut", "fire"} \/ signal.space)
                       /\ task = "recheck" => signal.waker /\ ~signal.space
                       /\ task = "parked" => "task" \in woken' \/ (signal.waker /\ ~signal.space)
    BY <1>1, <1>3 DEF WaitInv, ForReadable
  <2>1. r'.state = r.state
    BY <1>0, <1>3, <1>6, <1>7 DEF WaitInv
  <2>. QED
    BY <1>0, <1>1, <2>1 DEF WaitInv
<1>10. PullInv'
  <2>1. r'.state = "open" /\ r'.reads > 0 => r'.queue = 0
    <3>. SUFFICES ASSUME r'.state = "open", r'.reads > 0, ~(r'.queue = 0) PROVE FALSE
      OBVIOUS
    <3>1. Head(rctl) = "chunk" /\ r.state = "open" /\ (r'.reads = 0 \/ r'.queue = r.queue)
      BY <1>3
    <3>2. r'.queue = r.queue /\ r.reads = 0
      BY <1>0, <3>1 DEF PullInv, RT
    <3>3. r' = [[r EXCEPT !.phase = "control"] EXCEPT !.queue = @ + 1, !.needsPull = TRUE]
      BY <3>1, <3>2 DEF ReadableControl
    <3>4. r'.queue = r.queue + 1
      BY <1>0, <3>3 DEF RT
    <3>. QED
      BY <1>0, <3>2, <3>4 DEF RT
  <2>. QED
    BY <1>3, <1>1, <1>4, <2>1 DEF PullInv, None
<1>11. ShutInv'
  <2>. SUFFICES ASSUME ~Unusable', Settled' PROVE FALSE
    BY DEF ShutInv
  <2>1. ~Unusable
    BY DEF ForReadable
  <2>2. Head(rctl) = "chunk" /\ r.state = "open"
    BY <1>0, <1>2, <1>6, <1>7, <2>1 DEF Unusable, Ended, MsgInv, RT
  <2>3. r'.needsPull
    BY <1>3, <2>2
  <2>. QED
    BY <1>1, <1>4, <2>3 DEF Settled, None
<1>. QED
  BY <1>5, <1>8, <1>9, <1>10, <1>11 DEF OfReadable

(* It takes the commands: reads and cancel.                                  *)
LEMMA DrainedOn ==
  ASSUME StuckInv, ForReadable, ControlDrained
  PROVE  OfReadable
<1>0. /\ CancelInv /\ WaitInv /\ MsgInv /\ PullInv /\ ShutInv /\ r \in RT
  BY DEF StuckInv, Core, Parts, ROK, RT
<1>1. /\ UNCHANGED <<signal, pull, cancel, task, why, Todo, plan, rctl>> /\ rctl = <<>>
      /\ r.phase \in {"control", "idle"} /\ woken \ {"readable"} \subseteq woken'
      /\ r' = [r EXCEPT !.phase = "commands"]
      /\ (Bundled' <=> Bundled) /\ HWM' = HWM
  BY DEF ControlDrained, InPhase, Begun, ForReadable, Todo, Bundled, HWM
<1>2. r'.phase = "commands" /\ UNCHANGED <<r.state, r.queue, r.reads, r.needsPull, r.closeRequested, r.errorRequested>>
  BY <1>0, <1>1 DEF RT
<1>3. pull \in {None, "parked"} /\ cancel # "cut" /\ Roaming' /\ (Ended' <=> Ended) /\ Desired' = Desired
      /\ (Unusable' <=> Unusable)
  BY <1>0, <1>1, <1>2 DEF PullInv, CancelInv, Cuts, Roaming, Early, Ended, Desired, Unusable
<1>4. CancelInv'
  BY <1>0, <1>1, <1>3 DEF CancelInv, CancelTold
<1>5. MsgInv'
  BY <1>0, <1>1, <1>2 DEF MsgInv, Has
<1>6. WaitInv'
  BY <1>0, <1>1, <1>2 DEF WaitInv, ForReadable
<1>7. PullInv'
  BY <1>0, <1>1, <1>2, <1>3 DEF PullInv, None
<1>8. ShutInv'
  BY <1>0, <1>1, <1>2, <1>3 DEF ShutInv, Settled, Full, ForReadable
<1>. QED
  BY <1>4, <1>5, <1>6, <1>7, <1>8 DEF OfReadable

(* A read taken keeps it.                                                    *)
LEMMA ReadsOn ==
  ASSUME StuckInv, ForReadable, ReadableRead
  PROVE  OfReadable
<1>0. /\ CancelInv /\ WaitInv /\ MsgInv /\ PullInv /\ ShutInv /\ r \in RT
  BY DEF StuckInv, Core, Parts, ROK, RT
<1>1. /\ UNCHANGED <<signal, woken, pull, cancel, task, why, Todo, plan, rctl>> /\ r.phase = "commands" /\ r.asked > 0
      /\ (Bundled' <=> Bundled) /\ HWM' = HWM
  BY DEF ReadableRead, InPhase, ForReadable, Todo, Bundled, HWM
<1>2. /\ r'.phase = "commands" /\ UNCHANGED <<r.closeRequested, r.errorRequested>>
      /\ r'.state = r.state \/ (r.state = "closing" /\ r'.state = "closed")
      /\ r.state = "open" => r'.needsPull
      /\ (r.reads > 0 => r.queue = 0) /\ r.state = "open" => (r'.reads > 0 => r'.queue = 0)
  <2>. DEFINE i == [r EXCEPT !.asked = @ - 1]
  <2>1. i \in RT /\ i.phase = "commands" /\ i.state = r.state /\ i.queue = r.queue /\ i.reads = r.reads
        /\ i.closeRequested = r.closeRequested /\ i.errorRequested = r.errorRequested
    BY <1>0, <1>1 DEF RT
  <2>2. r.queue \in Nat /\ r.reads \in Nat /\ (r.queue > 0 \/ r.queue = 0)
    BY <1>0 DEF RT
  <2>3. CASE r.queue > 0
    <3>1. \/ r' = [i EXCEPT !.queue = i.queue - 1, !.needsPull = TRUE]
          \/ r.state = "closing" /\ r' = [i EXCEPT !.queue = i.queue - 1, !.needsPull = TRUE, !.state = "closed"]
      <4>1. r' = [i EXCEPT !.queue = @ - 1, !.needsPull = TRUE,
                                !.state = IF r.state = "closing" /\ r.queue = 1 THEN "closed" ELSE @]
        BY <2>3 DEF ReadableRead
      <4>2. \A s \in RT : \A q : [s EXCEPT !.queue = q, !.needsPull = TRUE, !.state = s.state]
                                  = [s EXCEPT !.queue = q, !.needsPull = TRUE]
        BY DEF RT
      <4>. HIDE DEF i
      <4>. QED
        BY <2>1, <4>1, <4>2
    <3>. HIDE DEF i
    <3>2. r'.reads = r.reads /\ r'.phase = "commands" /\ r'.needsPull = TRUE
      BY <2>1, <3>1 DEF RT
    <3>3. r'.closeRequested = r.closeRequested /\ r'.errorRequested = r.errorRequested
      BY <2>1, <3>1 DEF RT
    <3>4. r'.state = r.state \/ (r.state = "closing" /\ r'.state = "closed")
      BY <2>1, <3>1 DEF RT
    <3>. QED
      BY <2>2, <2>3, <3>2, <3>3, <3>4
  <2>4. CASE r.queue = 0 /\ r.state = "open"
    <3>1. r' = [i EXCEPT !.reads = @ + 1, !.needsPull = TRUE]
      BY <2>4 DEF ReadableRead
    <3>. HIDE DEF i
    <3>. QED
      BY <2>1, <2>4, <3>1 DEF RT
  <2>5. CASE r.queue = 0 /\ r.state # "open"
    <3>1. r' = i
      BY <2>5 DEF ReadableRead
    <3>. HIDE DEF i
    <3>. QED
      BY <2>1, <2>5, <3>1
  <2>. QED
    BY <2>2, <2>3, <2>4, <2>5
<1>3. pull \in {None, "parked"} /\ Roaming' /\ (Ended => Ended')
  BY <1>0, <1>1, <1>2 DEF PullInv, Roaming, Early, Ended
<1>4. CancelInv'
  BY <1>0, <1>1, <1>2, <1>3 DEF CancelInv, CancelTold, Cuts
<1>5. MsgInv'
  BY <1>0, <1>1, <1>2 DEF MsgInv, Has
<1>6. WaitInv'
  BY <1>0, <1>1, <1>2 DEF WaitInv, ForReadable
<1>7. PullInv'
  <2>1. rctl # <<>> => "readable" \in woken
    BY <1>0, <1>1 DEF PullInv
  <2>2. r'.state = "open" /\ r'.reads > 0 => r'.queue = 0
    BY <1>0, <1>2 DEF PullInv
  <2>. QED
    BY <1>1, <1>2, <1>3, <2>1, <2>2 DEF PullInv, None
<1>8. ShutInv'
  <2>. SUFFICES ASSUME ~Unusable', Settled' PROVE FALSE
    BY DEF ShutInv
  <2>1. r.state = "open"
    BY <1>0 DEF ForReadable, Unusable, Ended, MsgInv, RT
  <2>. QED
    BY <1>1, <1>2, <1>3, <2>1 DEF Settled, None
<1>. QED
  BY <1>4, <1>5, <1>6, <1>7, <1>8 DEF OfReadable

(* So does a cancel, which is then cut or fired.                             *)
LEMMA CancelsOn ==
  ASSUME StuckInv, ForReadable, ReadableCancel
  PROVE  OfReadable
<1>0. /\ CancelInv /\ WaitInv /\ MsgInv /\ PullInv /\ ShutInv /\ r \in RT
  BY DEF StuckInv, Core, Parts, ROK, RT
<1>1. /\ UNCHANGED <<signal, woken, pull, task, why, Todo, plan, rctl>> /\ r.phase = "commands" /\ cancel = "asked"
      /\ (Bundled' <=> Bundled) /\ HWM' = HWM
  BY DEF ReadableCancel, InPhase, ForReadable, Todo, Bundled, HWM
<1>2. pull \in {None, "parked"}
  BY <1>0, <1>1 DEF PullInv
<1>3. \/ Ended /\ cancel' = "ok" /\ UNCHANGED r
      \/ /\ r'.state = "closed" /\ UNCHANGED <<r.closeRequested, r.errorRequested, r.phase>>
         /\ (pull = None /\ cancel' = "fire") \/ (pull = "parked" /\ cancel' = "cut")
  <2>1. (Ended /\ cancel' = "ok" /\ UNCHANGED r)
         \/ (r' = [r EXCEPT !.state = "closed", !.queue = 0, !.reads = 0] /\ cancel' = IF pull = None THEN "fire" ELSE "cut")
    BY DEF ReadableCancel
  <2>2. r' = [r EXCEPT !.state = "closed", !.queue = 0, !.reads = 0]
          => r'.state = "closed" /\ UNCHANGED <<r.closeRequested, r.errorRequested, r.phase>>
    BY <1>0 DEF RT
  <2>. QED
    BY <1>2, <2>1, <2>2 DEF None
<1>4. Ended' /\ Roaming' /\ r'.phase = "commands" /\ UNCHANGED <<r.closeRequested, r.errorRequested>>
  BY <1>1, <1>3 DEF Ended, Roaming, Early
<1>5. CancelInv'
  BY <1>1, <1>3, <1>4 DEF CancelInv, Cuts
<1>6. MsgInv'
  BY <1>0, <1>1, <1>3, <1>4 DEF MsgInv, Has
<1>7. WaitInv'
  <2>. SUFFICES ASSUME Bundled, NoClone, task \in {"space", "recheck", "parked"}
                PROVE  /\ Todo = <<>> /\ ~r.closeRequested /\ ~r.errorRequested
                       /\ r'.state # "open" => r'.state = "closed" /\ (cancel' \in {"cut", "fire"} \/ signal.space)
                       /\ task = "recheck" => signal.waker /\ ~signal.space
                       /\ task = "parked" => "task" \in woken \/ (signal.waker /\ ~signal.space)
    BY <1>1, <1>4 DEF WaitInv, ForReadable
  <2>1. CASE UNCHANGED r /\ Ended
    BY <1>0, <1>1, <2>1 DEF WaitInv, Ended
  <2>2. CASE r'.state = "closed" /\ cancel' \in {"fire", "cut"}
    BY <1>0, <2>2 DEF WaitInv
  <2>. QED
    BY <1>3, <2>1, <2>2
<1>8. PullInv'
  <2>1. r'.state # "open"
    BY <1>4 DEF Ended
  <2>2. rctl # <<>> => "readable" \in woken
    BY <1>0, <1>1 DEF PullInv
  <2>. QED
    BY <1>1, <1>2, <1>4, <2>1, <2>2 DEF PullInv, None
<1>9. ShutInv'
  BY <1>4 DEF ShutInv, Unusable
<1>. QED
  BY <1>5, <1>6, <1>7, <1>8, <1>9 DEF OfReadable

(* So does the decision whether to pull.                                     *)
LEMMA GatesOn ==
  ASSUME StuckInv, ForReadable, ReadableGate
  PROVE  OfReadable
<1>0. /\ CancelInv /\ WaitInv /\ MsgInv /\ PullInv /\ ShutInv /\ r \in RT /\ HWM \in Nat
  BY PlanType DEF StuckInv, Core, Parts, ROK, RT
<1>1. /\ UNCHANGED <<signal, woken, cancel, task, why, Todo, plan, rctl>> /\ r.phase = "commands" /\ cancel # "asked"
      /\ (Bundled' <=> Bundled) /\ HWM' = HWM
  BY DEF ReadableGate, InPhase, ForReadable, Todo, Bundled, HWM
<1>2. pull \in {None, "parked"}
  BY <1>0, <1>1 DEF PullInv
<1>3. \/ /\ pull = None /\ r.needsPull /\ r.state = "open" /\ r'.needsPull = FALSE
         /\ \/ r'.phase = "drive" /\ pull' = "sync"
            \/ r'.phase = "idle" /\ pull' = None /\ Desired <= 0 /\ r.reads = 0
      \/ /\ pull # None \/ ~r.needsPull \/ r.state # "open"
         /\ r'.phase = "drive" /\ r'.needsPull = r.needsPull
         /\ (pull = "parked" /\ pull' = "check") \/ (pull = None /\ pull' = None)
  <2>. DEFINE wanted == Desired > 0 \/ r.reads > 0
  <2>1. ~wanted => Desired <= 0 /\ r.reads = 0
    BY <1>0 DEF Desired, RT
  <2>2. CASE r.needsPull /\ r.state = "open" /\ pull = None
    <3>1. CASE wanted
      <4>1. r' = [r EXCEPT !.needsPull = FALSE, !.phase = "drive"] /\ pull' = "sync"
        BY <2>2, <3>1 DEF ReadableGate
      <4>. QED
        BY <1>0, <2>2, <4>1 DEF RT
    <3>2. CASE ~wanted
      <4>1. r' = [r EXCEPT !.needsPull = FALSE, !.phase = "idle"] /\ pull' = None
        BY <2>2, <3>2 DEF ReadableGate
      <4>2. r'.needsPull = FALSE /\ r'.phase = "idle"
        BY <1>0, <4>1 DEF RT
      <4>. QED
        BY <2>1, <2>2, <3>2, <4>1, <4>2
    <3>. QED
      BY <3>1, <3>2
  <2>3. CASE ~(r.needsPull /\ r.state = "open" /\ pull = None)
    <3>1. r' = [r EXCEPT !.phase = "drive"] /\ pull' = (IF pull = "parked" THEN "check" ELSE pull)
      BY <2>3 DEF ReadableGate
    <3>2. r'.phase = "drive" /\ r'.needsPull = r.needsPull
      BY <1>0, <3>1 DEF RT
    <3>. QED
      BY <1>2, <2>3, <3>1, <3>2 DEF None
  <2>. QED
    BY <2>2, <2>3
<1>4. UNCHANGED <<r.state, r.queue, r.reads, r.closeRequested, r.errorRequested>>
  <2>1. \E b, p : r' = [r EXCEPT !.needsPull = b, !.phase = p] \/ r' = [r EXCEPT !.phase = p]
    BY DEF ReadableGate
  <2>. QED
    BY <1>0, <2>1 DEF RT
<1>5. (Ended' <=> Ended) /\ Desired' = Desired /\ (Unusable' <=> Unusable)
  BY <1>1, <1>4 DEF Ended, Desired, Unusable
<1>6. CancelInv'
  BY <1>0, <1>1, <1>3, <1>5 DEF CancelInv, CancelTold, Cuts, None
<1>7. MsgInv'
  BY <1>0, <1>1, <1>4 DEF MsgInv, Has
<1>8. WaitInv'
  BY <1>0, <1>1, <1>4 DEF WaitInv, ForReadable
<1>9. PullInv'
  <2>1. rctl # <<>> => "readable" \in woken
    BY <1>0, <1>1 DEF PullInv
  <2>2. r'.state = "open" /\ r'.reads > 0 => r'.queue = 0
    BY <1>0, <1>4 DEF PullInv
  <2>. QED
    BY <1>1, <1>3, <1>4, <2>1, <2>2 DEF PullInv, None
<1>10. ShutInv'
  <2>. SUFFICES ASSUME Bundled, NoClone, ~Unusable, Settled' PROVE Full
    BY <1>1, <1>4, <1>5 DEF ShutInv, Full, ForReadable
  <2>1. CASE pull' = "check" \/ (pull' = None /\ r'.needsPull = r.needsPull)
    BY <1>0, <1>1, <1>3, <2>1 DEF ShutInv, Settled, None
  <2>. QED
    BY <1>1, <1>3, <2>1 DEF Settled, Full, None
<1>. QED
  BY <1>6, <1>7, <1>8, <1>9, <1>10 DEF OfReadable

(* It drives the pull.                                                       *)
Driving ==
    /\ r.phase = "drive"
    /\ UNCHANGED <<r.state, r.queue, r.reads, r.needsPull, r.closeRequested, r.errorRequested, rctl>>
    /\ woken \subseteq woken'

(* What a drive of the pull leaves.                                          *)
LEMMA Driven ==
  ASSUME StuckInv, ForReadable, Driving
  PROVE  /\ CancelInv /\ WaitInv /\ MsgInv /\ PullInv /\ ShutInv /\ r \in RT /\ HWM \in Nat /\ SignalOK
         /\ (Bundled' <=> Bundled) /\ HWM' = HWM /\ (Ended' <=> Ended) /\ Desired' = Desired
         /\ (Unusable' <=> Unusable) /\ (Full' <=> Full)
         /\ (NoClone' => NoClone)
         /\ UNCHANGED <<task, why, Todo>>
         /\ Bundled => task # "recheck"
         /\ pull # "parked"
         /\ cancel = "cut" => pull = "check"
         /\ cancel = "asked" \/ rctl # <<>> \/ (pull = None /\ r.state = "open" /\ r.needsPull) => "readable" \in woken'
         /\ MsgInv'
         /\ r'.state = "open" /\ r'.reads > 0 => r'.queue = 0
<1>0. /\ CancelInv /\ WaitInv /\ MsgInv /\ PullInv /\ ShutInv /\ r \in RT /\ HWM \in Nat /\ SignalOK
  BY PlanType DEF StuckInv, Core, Parts, ROK, RT
<1>1. (Bundled' <=> Bundled) /\ HWM' = HWM /\ (NoClone' => NoClone) /\ UNCHANGED <<task, why, Todo>>
      /\ (Bundled => task # "recheck")
  BY DEF ForReadable, Todo, Bundled, HWM
<1>2. (Ended' <=> Ended) /\ Desired' = Desired /\ (Unusable' <=> Unusable) /\ (Full' <=> Full)
  BY <1>1 DEF Driving, Ended, Desired, Unusable, Full
<1>3. pull # "parked" /\ (cancel = "cut" => pull = "check")
  BY <1>0 DEF Driving, PullInv, CancelInv, Cuts
<1>4. cancel = "asked" \/ rctl # <<>> \/ (pull = None /\ r.state = "open" /\ r.needsPull) => "readable" \in woken'
  BY <1>0 DEF Driving, PullInv, CancelInv, Roaming, Early
<1>5. MsgInv'
  BY <1>0 DEF Driving, MsgInv, Has
<1>6. r'.state = "open" /\ r'.reads > 0 => r'.queue = 0
  BY <1>0 DEF Driving, PullInv
<1>. QED
  BY <1>0, <1>1, <1>2, <1>3, <1>4, <1>5, <1>6

(* So does the end of the poll, and the pull the cancel drops.               *)
LEMMA RestsOn ==
  ASSUME StuckInv, ForReadable, NoPull
  PROVE  OfReadable
<1>0. r \in RT
  BY DEF StuckInv, Parts, ROK, RT
<1>1. /\ Driving /\ r'.phase = "idle" /\ UNCHANGED signal
      /\ \/ pull = None /\ UNCHANGED <<pull, cancel>>
         \/ pull # None /\ cancel = "cut" /\ pull' = None /\ "readable" \in woken' /\ cancel' = "fire"
  <2>1. r' = [r EXCEPT !.phase = "idle"] /\ r.phase = "drive" /\ UNCHANGED <<signal, rctl>> /\ woken \subseteq woken'
    BY DEF NoPull, PullOver, InPhase
  <2>2. Driving /\ r'.phase = "idle"
    BY <1>0, <2>1 DEF Driving, RT
  <2>. QED
    BY <2>1, <2>2 DEF NoPull, PullOver
<1>2. /\ CancelInv /\ WaitInv /\ PullInv /\ ShutInv
      /\ (Bundled' <=> Bundled) /\ (Ended' <=> Ended)
      /\ (Unusable' <=> Unusable) /\ (Full' <=> Full) /\ (NoClone' => NoClone)
      /\ UNCHANGED <<task, why, Todo>> /\ pull # "parked" /\ (cancel = "cut" => pull = "check")
      /\ cancel = "asked" \/ rctl # <<>> \/ (pull = None /\ r.state = "open" /\ r.needsPull) => "readable" \in woken'
      /\ MsgInv' /\ (r'.state = "open" /\ r'.reads > 0 => r'.queue = 0)
  BY <1>1, Driven
<1>3. CancelInv'
  BY <1>1, <1>2 DEF CancelInv, CancelTold, Roaming, None
<1>4. WaitInv'
  BY <1>1, <1>2 DEF WaitInv, Driving
<1>5. PullInv'
  BY <1>1, <1>2 DEF PullInv, Driving, Roaming, None
<1>6. ShutInv'
  <2>1. cancel = "cut" => Unusable
    BY <1>2 DEF CancelInv, Unusable
  <2>. QED
    BY <1>1, <1>2, <2>1 DEF ShutInv, Settled, Driving, None
<1>. QED
  BY <1>2, <1>3, <1>4, <1>5, <1>6 DEF OfReadable

(* A pull that keeps the gate shut has found the queue at its mark.          *)
LEMMA SyncsOn ==
  ASSUME StuckInv, ForReadable, PullSyncs
  PROVE  OfReadable
<1>0. r \in RT /\ SignalOK
  BY DEF StuckInv, Parts, ROK, RT
<1>1. /\ Driving /\ UNCHANGED <<woken, cancel, r.phase, signal.space, signal.waker, signal.pullWaker>>
      /\ pull = "sync" /\ pull' \in {"check", "open", "shut"}
      /\ pull' = "check" => r.state = "errored" \/ r.errorRequested
      /\ pull' = "shut" => r.state = "closed" \/ r.closeRequested \/ (~(Desired > 0) /\ HWM # 0)
  <2>1. UNCHANGED <<woken, r, rctl, cancel>> /\ r.phase = "drive" /\ pull = "sync"
    BY DEF PullSyncs, InPhase
  <2>2. UNCHANGED signal \/ \E n : signal' = [signal EXCEPT !.pending = n]
    BY DEF PullSyncs
  <2>3. UNCHANGED <<signal.space, signal.waker, signal.pullWaker>>
    BY <1>0, <2>2 DEF SignalOK
  <2>. DEFINE ds == IF r.state = "closed" \/ (r.closeRequested /\ r.queue = 0) THEN 0 ELSE Desired
  <2>4. \/ (r.state = "errored" \/ r.errorRequested) /\ pull' = "check"
        \/ pull' = IF Opens(ds) THEN "open" ELSE "shut"
    BY DEF PullSyncs
  <2>5. ds = Desired \/ r.state = "closed" \/ r.closeRequested
    OBVIOUS
  <2>. HIDE DEF ds
  <2>6. pull' = "shut" => ~(ds > 0) /\ HWM # 0
    BY <2>4 DEF Opens
  <2>7. pull' \in {"check", "open", "shut"} /\ (pull' = "check" => r.state = "errored" \/ r.errorRequested)
    BY <2>4
  <2>8. pull' = "shut" => r.state = "closed" \/ r.closeRequested \/ (~(Desired > 0) /\ HWM # 0)
    BY <2>5, <2>6
  <2>9. Driving
    BY <2>1 DEF Driving
  <2>. QED
    BY <2>1, <2>3, <2>7, <2>8, <2>9
<1>2. /\ CancelInv /\ WaitInv /\ PullInv /\ ShutInv /\ HWM \in Nat
      /\ (Bundled' <=> Bundled) /\ (Ended' <=> Ended)
      /\ (Unusable' <=> Unusable) /\ (Full' <=> Full) /\ (NoClone' => NoClone)
      /\ UNCHANGED <<task, why, Todo>> /\ pull # "parked" /\ (cancel = "cut" => pull = "check")
      /\ cancel = "asked" \/ rctl # <<>> \/ (pull = None /\ r.state = "open" /\ r.needsPull) => "readable" \in woken'
      /\ MsgInv' /\ (r'.state = "open" /\ r'.reads > 0 => r'.queue = 0)
  BY <1>1, Driven
<1>3. CancelInv'
  BY <1>1, <1>2 DEF CancelInv, CancelTold, Roaming
<1>4. WaitInv'
  BY <1>1, <1>2 DEF WaitInv, Driving
<1>5. PullInv'
  BY <1>1, <1>2 DEF PullInv, Driving, None
<1>6. ShutInv'
  <2>. SUFFICES ASSUME ~Unusable, Settled' PROVE Full
    BY <1>2 DEF ShutInv
  <2>1. pull' # "check" /\ pull' # "open"
    BY <1>1 DEF Unusable, Ended, Settled
  <2>2. ~(Desired > 0) /\ HWM # 0
    BY <1>1, <2>1 DEF Unusable, Ended
  <2>3. r.queue > 0
    BY <1>0, <1>2, <2>2 DEF Desired, RT
  <2>4. r.state = "open"
    BY <1>1, <1>2 DEF PullInv
  <2>5. r.reads = 0
    BY <1>0, <1>2, <2>3, <2>4 DEF PullInv, RT
  <2>. QED
    BY <1>0, <1>2, <2>2, <2>5 DEF Full, Desired, RT
<1>. QED
  BY <1>2, <1>3, <1>4, <1>5, <1>6 DEF OfReadable

(* A gate that opens wakes the task that waits for it.                       *)
LEMMA OpensOn ==
  ASSUME StuckInv, ForReadable, PullOpens
  PROVE  OfReadable
<1>0. r \in RT /\ SignalOK
  BY DEF StuckInv, Parts, ROK, RT
<1>1. /\ Driving /\ UNCHANGED <<cancel, r.phase>> /\ pull \in {"open", "shut"} /\ pull' = "check"
      /\ \/ pull = "open" /\ signal'.space /\ (signal.waker => "task" \in woken')
         \/ pull = "shut" /\ ~signal'.space /\ UNCHANGED signal.waker
  <2>1. UNCHANGED <<r, rctl, cancel>> /\ r.phase = "drive" /\ pull \in {"open", "shut"} /\ pull' = "check" /\ woken \subseteq woken'
    BY DEF PullOpens, InPhase
  <2>2. Driving
    BY <2>1 DEF Driving
  <2>3. CASE pull = "open"
    <3>1. signal' = WakeTask([signal EXCEPT !.space = TRUE]) /\ woken' = woken \cup Roused(signal)
      BY <2>3 DEF PullOpens
    <3>2. signal'.space = TRUE
      BY <1>0, <3>1 DEF WakeTask, SignalOK
    <3>3. signal.waker => "task" \in woken'
      BY <3>1 DEF Roused
    <3>. QED
      BY <2>1, <2>2, <2>3, <3>2, <3>3
  <2>4. CASE pull = "shut"
    <3>1. signal' = [signal EXCEPT !.space = FALSE]
      BY <2>4 DEF PullOpens
    <3>2. signal'.space = FALSE /\ UNCHANGED signal.waker
      BY <1>0, <3>1 DEF SignalOK
    <3>. QED
      BY <2>1, <2>2, <2>4, <3>2
  <2>. QED
    BY <2>1, <2>3, <2>4
<1>2. /\ CancelInv /\ WaitInv /\ PullInv /\ ShutInv
      /\ (Bundled' <=> Bundled) /\ (Ended' <=> Ended)
      /\ (Unusable' <=> Unusable) /\ (Full' <=> Full) /\ (NoClone' => NoClone)
      /\ UNCHANGED <<task, why, Todo>> /\ (Bundled => task # "recheck") /\ pull # "parked" /\ (cancel = "cut" => pull = "check")
      /\ cancel = "asked" \/ rctl # <<>> \/ (pull = None /\ r.state = "open" /\ r.needsPull) => "readable" \in woken'
      /\ MsgInv' /\ (r'.state = "open" /\ r'.reads > 0 => r'.queue = 0)
  BY <1>1, Driven
<1>3. CancelInv'
  BY <1>1, <1>2 DEF CancelInv, CancelTold, Roaming
<1>4. WaitInv'
  <2>1. r.state = "open"
    BY <1>1, <1>2 DEF PullInv
  <2>. QED
    BY <1>1, <1>2, <2>1 DEF WaitInv, Driving
<1>5. PullInv'
  BY <1>1, <1>2 DEF PullInv, Driving, None
<1>6. ShutInv'
  BY <1>1, <1>2 DEF ShutInv, Settled
<1>. QED
  BY <1>2, <1>3, <1>4, <1>5, <1>6 DEF OfReadable

(* A pull that parks has its waker stored, and the gate was open.            *)
LEMMA ChecksOn ==
  ASSUME StuckInv, ForReadable, PullChecks \/ PullRechecks
  PROVE  OfReadable
<1>0. r \in RT /\ SignalOK
  BY DEF StuckInv, Parts, ROK, RT
<1>1. /\ Driving /\ UNCHANGED <<cancel, signal.space, signal.waker>> /\ cancel # "cut" /\ pull \in {"check", "register"}
      /\ \/ pull' = None /\ "readable" \in woken' /\ UNCHANGED signal
         \/ pull' = "register" /\ signal'.pullWaker /\ signal.space /\ r'.phase = "drive"
         \/ /\ pull = "register" /\ pull' = "parked" /\ signal.space /\ r'.phase = "idle"
            /\ UNCHANGED <<signal, woken>>
  <2>1. r.phase = "drive" /\ UNCHANGED <<rctl, cancel>> /\ woken \subseteq woken'
        /\ (UNCHANGED r \/ r' = [r EXCEPT !.phase = "idle"])
        /\ (UNCHANGED signal \/ signal' = [signal EXCEPT !.pullWaker = TRUE]) /\ pull \in {"check", "register"}
    BY DEF PullChecks, PullRechecks, PullOver, InPhase
  <2>2. Driving
    BY <1>0, <2>1 DEF Driving, RT
  <2>3. UNCHANGED <<signal.space, signal.waker>>
    BY <1>0, <2>1 DEF SignalOK
  <2>4. CASE PullChecks
    <3>1. \/ pull' = None /\ "readable" \in woken' /\ UNCHANGED signal
          \/ pull' = "register" /\ signal' = [signal EXCEPT !.pullWaker = TRUE] /\ signal.space /\ UNCHANGED r
      BY <2>4 DEF PullChecks, PullOver
    <3>2. signal' = [signal EXCEPT !.pullWaker = TRUE] => signal'.pullWaker
      BY <1>0 DEF SignalOK
    <3>3. cancel # "cut"
      BY <2>4 DEF PullChecks
    <3>. QED
      BY <2>1, <2>2, <2>3, <3>1, <3>2, <3>3
  <2>5. CASE PullRechecks
    <3>1. \/ pull' = None /\ "readable" \in woken' /\ UNCHANGED signal
          \/ pull' = "parked" /\ signal.space /\ r' = [r EXCEPT !.phase = "idle"] /\ UNCHANGED <<signal, woken>>
      BY <2>5 DEF PullRechecks, PullOver
    <3>2. r' = [r EXCEPT !.phase = "idle"] => r'.phase = "idle"
      BY <1>0 DEF RT
    <3>3. cancel # "cut" /\ pull = "register"
      BY <2>1, <2>5 DEF PullRechecks, StuckInv, Core, CancelInv, Cuts
    <3>. QED
      BY <2>1, <2>2, <2>3, <3>1, <3>2, <3>3
  <2>. QED
    BY <2>4, <2>5
<1>2. /\ CancelInv /\ WaitInv /\ PullInv /\ ShutInv
      /\ (Bundled' <=> Bundled) /\ (Ended' <=> Ended)
      /\ (Unusable' <=> Unusable) /\ (Full' <=> Full) /\ (NoClone' => NoClone)
      /\ UNCHANGED <<task, why, Todo>> /\ pull # "parked" /\ (cancel = "cut" => pull = "check")
      /\ cancel = "asked" \/ rctl # <<>> \/ (pull = None /\ r.state = "open" /\ r.needsPull) => "readable" \in woken'
      /\ MsgInv' /\ (r'.state = "open" /\ r'.reads > 0 => r'.queue = 0)
  BY <1>1, Driven
<1>3. CancelInv'
  BY <1>1, <1>2 DEF CancelInv, CancelTold, Roaming
<1>4. WaitInv'
  BY <1>1, <1>2 DEF WaitInv, Driving
<1>5. PullInv'
  <2>1. pull' = "parked" => "readable" \in woken' \/ signal'.pullWaker
    BY <1>1, <1>2 DEF PullInv
  <2>. QED
    BY <1>1, <1>2, <2>1 DEF PullInv, Driving, Roaming, None
<1>6. ShutInv'
  BY <1>1, <1>2 DEF ShutInv, Settled, Driving, None
<1>. QED
  BY <1>2, <1>3, <1>4, <1>5, <1>6 DEF OfReadable

(* It tells the source of the cancel.                                        *)
LEMMA FiresOn ==
  ASSUME StuckInv, ForReadable, CancelFires \/ CancelSends
  PROVE  OfReadable
<1>0. /\ CancelInv /\ WaitInv /\ MsgInv /\ PullInv /\ ShutInv /\ SignalOK
  BY DEF StuckInv, Core, Parts
<1>1. /\ UNCHANGED <<r, rctl, pull, task, why, Todo, plan>> /\ woken \subseteq woken' /\ cancel \in {"fire", "send"}
      /\ (Bundled' <=> Bundled) /\ HWM' = HWM /\ (NoClone' => NoClone) /\ (Bundled => task # "recheck")
      /\ (Ended' <=> Ended) /\ (Unusable' <=> Unusable)
  BY DEF CancelFires, CancelSends, ForReadable, Todo, Bundled, HWM, Ended, Unusable
<1>2. \/ /\ cancel' = "send" /\ signal'.space /\ UNCHANGED signal.pullWaker
         /\ signal.waker => "task" \in woken'
      \/ cancel = "send" /\ cancel' \in {"ok", "sent"} /\ UNCHANGED <<signal, woken>>
  <2>1. CASE CancelFires
    <3>1. signal' = WakeTask([signal EXCEPT !.pending = 0, !.space = TRUE]) /\ woken' = woken \cup Roused(signal)
          /\ cancel' = "send"
      BY <2>1 DEF CancelFires
    <3>2. signal'.space = TRUE /\ UNCHANGED signal.pullWaker
      BY <1>0, <3>1 DEF WakeTask, SignalOK
    <3>. QED
      BY <3>1, <3>2 DEF Roused
  <2>2. CASE CancelSends
    BY <2>2 DEF CancelSends
  <2>. QED
    BY <2>1, <2>2
<1>3. Ended /\ (Roaming => Roaming')
  BY <1>0, <1>1 DEF CancelInv, Roaming, Early
<1>4. CancelInv'
  BY <1>1, <1>2, <1>3 DEF CancelInv
<1>5. WaitInv'
  BY <1>0, <1>1, <1>2 DEF WaitInv
<1>6. MsgInv' /\ ShutInv'
  BY <1>0, <1>1, <1>3 DEF MsgInv, Has, ShutInv, Unusable
<1>7. PullInv'
  BY <1>0, <1>1, <1>2, <1>3 DEF PullInv
<1>. QED
  BY <1>4, <1>5, <1>6, <1>7 DEF OfReadable

(* The readable's task.                                                      *)
LEMMA StuckReadable ==
  ASSUME StuckInv, NoClone' => NoClone, Unusable => Unusable', UNCHANGED plan, TaskRests, ReadableStep
  PROVE  Core'
<1>0. /\ SinkInv /\ AskInv /\ EndInv /\ CloneInv
  BY DEF StuckInv, Core
<1>1. /\ UNCHANGED <<w, cmd, answer, task, why, todo, plan>>
      /\ wError => wError'
      /\ task = "done" => cancel' # "sent" \/ cancel = "sent"
  BY DEF ReadableStep, ReadableControl, ControlDrained, ReadableRead, ReadableCancel, ReadableGate, NoPull,
         SourcePull, PullSyncs, PullOpens, PullChecks, PullRechecks, CancelFires, CancelSends, InPhase,
         writableVars, taskVars
<1>2. ForReadable
  BY <1>1 DEF ForReadable, TaskRests, Bundled, Todo
<1>3. OfReadable
  BY <1>2, DrainsOn, DrainedOn, ReadsOn, CancelsOn, GatesOn, RestsOn, SyncsOn, OpensOn, ChecksOn, FiresOn
     DEF ReadableStep, SourcePull
<1>4. Todo' = Todo /\ (Bundled' <=> Bundled) /\ (WEnds' <=> WEnds) /\ (Warned => Warned')
  BY <1>1 DEF Todo, Bundled, WEnds, Warned
<1>5. SinkInv' /\ AskInv' /\ CloneInv'
  BY <1>0, <1>1, <1>2, <1>4 DEF SinkInv, AskInv, AtWork, Tells, CloneInv, ForReadable
<1>6. EndInv'
  BY <1>0, <1>1, <1>4 DEF EndInv
<1>7. PostInv'
  BY <1>2, <1>4 DEF PostInv, ForReadable
<1>. QED
  BY <1>3, <1>5, <1>6, <1>7 DEF OfReadable, Core

-----------------------------------------------------------------------------
(* No lost wakeup: the theorem                                              *)

(* Nobody waits at the start.                                                *)
LEMMA StuckInit == Init => StuckInv
<1> SUFFICES ASSUME Init PROVE StuckInv
  OBVIOUS
<1>1. Parts /\ Spent /\ Rests
  BY FlowInit DEF FlowInv
<1>2. /\ w = [state |-> "writable", queued |-> 0, closing |-> FALSE, aborting |-> FALSE, op |-> None, sink |-> TRUE]
      /\ cmd = None /\ cancel = None /\ task = "starting" /\ rctl = <<>> /\ pull = None /\ "readable" \in woken
      /\ r = [state |-> "open", queue |-> 0, asked |-> 0, reads |-> 0, closeRequested |-> FALSE,
              errorRequested |-> FALSE, needsPull |-> TRUE, phase |-> "idle"]
  BY DEF Init
<1>3. Todo = <<>> /\ todo[Clone] = <<>>
  BY DEF Init, Todo, Threads
<1>4. SinkInv /\ AskInv /\ CancelInv /\ CloneInv /\ WaitInv /\ PostInv
  BY <1>2, <1>3 DEF SinkInv, AskInv, CancelInv, CloneInv, WaitInv, PostInv, None
<1>5. EndInv
  BY <1>2, <1>3 DEF EndInv, Fine, Has
<1>6. MsgInv /\ PullInv
  BY <1>2 DEF MsgInv, Has, PullInv, Roaming, None
<1>7. ShutInv
  BY <1>2 DEF ShutInv, Settled, None
<1>. QED
  BY <1>1, <1>4, <1>5, <1>6, <1>7 DEF StuckInv, Core

(* And every step keeps it.                                                  *)
LEMMA StuckNext ==
  ASSUME StuckInv, [Next]_vars
  PROVE  StuckInv'
<1>1. Parts /\ Spent /\ Rests /\ Core
  BY DEF StuckInv
<1>2. Parts' /\ Spent' /\ Rests'
  BY <1>1, TypesNext, SpentNext, RestsNext
<1>3. (NoClone' => NoClone) /\ (Unusable => Unusable')
  BY <1>1, Lasting
<1>4. ASSUME UNCHANGED vars PROVE Core'
  <2>1. UNCHANGED <<plan, left, w, aborted, wError, cmd, answer, task, why, todo, signal, woken, r, rctl, pull, cancel>>
    BY <1>4 DEF vars, writableVars, taskVars, readableVars
  <2>2. (SinkInv /\ AskInv /\ CancelInv /\ CloneInv)'
    BY <1>1, <2>1 DEF Core, SinkInv, AskInv, CancelInv, CloneInv, Todo, WEnds, Tells, AtWork, Early, Roaming, Cuts,
       CancelTold, Has, NoClone, Ended
  <2>3. EndInv'
    BY <1>1, <2>1 DEF Core, EndInv, Fine, Has, Todo, Bundled, Warned, WEnds
  <2>4. (WaitInv /\ MsgInv /\ PullInv /\ PostInv /\ ShutInv)'
    BY <1>1, <2>1 DEF Core, WaitInv, MsgInv, PullInv, PostInv, ShutInv, Todo, Bundled, Early, Roaming, Full, Settled,
       Has, NoClone, Unusable, Ended, Desired, HWM
  <2>. QED
    BY <2>2, <2>3, <2>4 DEF Core
<1>5. Core'
  BY <1>3, <1>4, StuckCaller, StuckUser, StuckThread, StuckTask, StuckReadable, StuckWritable
     DEF Next, Work, TransformRuns, ReadableRuns, WritableRuns
<1>. QED
  BY <1>2, <1>5 DEF StuckInv

(* When the task, the pull and the callers have all come to rest, a write, a *)
(* close or an abort is under way only because the queue of an open readable *)
(* is full, or its mark is zero and no read waits; no cancel is lost, and a  *)
(* task that ended has ended the writable (SpaceSignal, TransformSink,       *)
(* TransformReadableSource, transform_task).                                 *)
THEOREM TransformNoneStuck == Spec => []NoneStuck
<1>1. Init => StuckInv
  BY StuckInit
<1>2. StuckInv /\ [Next]_vars => StuckInv'
  BY StuckNext
<1>3. StuckInv => NoneStuck
  BY RestedNoneStuck
<1>. QED
  BY <1>1, <1>2, <1>3, PTL DEF Spec
=============================================================================
