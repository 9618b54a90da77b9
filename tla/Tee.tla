--------------------------------- MODULE Tee ---------------------------------
(***************************************************************************)
(* The tee of streams/readable.rs: a coordinator that reads the source and *)
(* enqueues every chunk into two branches, the TeeSource of each branch    *)
(* that asks it for data through one shared AsyncSignal, the four          *)
(* backpressure modes, and the coordination of the branches' cancels.      *)
(*                                                                         *)
(* A branch is a readable stream of its own, modelled in full by           *)
(* ReadableStream; here it keeps its queue, its control channel and the    *)
(* demand for a pull.  The coordinator and the two branch tasks run on     *)
(* threads of their own: a step is one access to what they share, one      *)
(* message, or one return of the source.                                   *)
(***************************************************************************)
EXTENDS Integers, Sequences

CONSTANT
    Plans  \* the instances: the backpressure mode, each branch's high water
           \* mark, how the source may end, and the bounds: the chunks it
           \* yields, the reads asked of each branch, the branches that may be
           \* cancelled or dropped

Branches == 1..2
Modes == {"SpecCompliant", "Unbounded", "SlowestConsumer", "Aggregate"}

ASSUME TeeAssumption ==
    Plans \subseteq [mode : Modes, hwm : [Branches -> Nat], ends : SUBSET {"Close", "Error"},
                     chunks : Nat, reads : [Branches -> Nat], quits : SUBSET Branches, drops : SUBSET Branches]

None == "none"

VARIABLES
    plan,      \* the instance
    b,         \* each branch's stream
    ctrl,      \* each branch's control channel
    at,        \* what each branch's task is doing with its TeeSource
    canceled,  \* branch_canceled of each branch
    first,     \* first_cancel_done
    signal,    \* AsyncSignal
    pc,        \* where the coordinator is
    ending,    \* how the source ended: the coordinator passes it on
    result,    \* TeeCancelResult
    source,    \* the source: chunks it has yielded, cancels it has seen
    got,       \* history: the chunks each branch's reads were given
    asked      \* history: how many reads each branch was asked

branchVars == <<b, ctrl, got, asked>>
sourceVars == <<at, canceled, first, signal>>
coordVars == <<pc, ending, result, source>>
vars == <<plan, branchVars, sourceVars, coordVars>>

\* ControllerMsg: a chunk, by its place in the source, Close or Error.
Close == 0
Error == -1
Messages == {m \in Int : m >= -1}

TypeOK ==
    /\ plan \in Plans
    /\ b \in [Branches -> [state : {"open", "closing", "closed", "errored", "gone"},
                           queue : Seq(Nat), reads : Nat, needsPull : BOOLEAN,
                           closeRequested : BOOLEAN, errorRequested : BOOLEAN]]
    /\ ctrl \in [Branches -> Seq(Messages)]
    /\ at \in [Branches -> {None, "pullStores", "pullWakes", "flag", "cancelStores", "cancelWakes", "swap",
                            "wait", "ok", "err"}]
    /\ canceled \in [Branches -> BOOLEAN] /\ first \in BOOLEAN
    /\ signal \in [signaled : BOOLEAN, waker : BOOLEAN, woken : BOOLEAN]
    /\ pc \in {"top", "wait", "recheck", "parked", "decide", "reading", "give1", "give2", "end1", "end2",
               "canceling", "complete", "done"}
    /\ ending \in {None, "Close", "Error"}
    /\ result \in {None, "ok", "err"}
    /\ source \in [yielded : Nat, canceled : Nat]
    /\ got \in [Branches -> Seq(Nat)]
    /\ asked \in [Branches -> Nat]

-----------------------------------------------------------------------------
(* The branches                                                             *)

\* The desired size the branch's task keeps, and what controller.desired_size
\* makes of it.  Dropping a branch ends nothing: the size stays as it was.
Room(i) == plan.hwm[i] - Len(b[i].queue)
Ended(i) ==
    \/ b[i].state \in {"closed", "errored"} \/ b[i].errorRequested
    \/ b[i].closeRequested /\ b[i].queue = <<>>
Desired(i) == IF Ended(i) THEN 0 ELSE Room(i)
Unusable(i) == b[i].state # "open" \/ b[i].closeRequested \/ b[i].errorRequested

\* Variant: a read is thought to wait when none does.
AwaitedAlways(i) == b[i].reads >= 0

\* A read waits in the branch.
Awaited(i) == b[i].reads > 0

\* A Close ends the branch once its queue is empty.
Closes(s) == IF s.queue = <<>> THEN [s EXCEPT !.state = "closed", !.reads = 0] ELSE [s EXCEPT !.state = "closing"]

\* A step of branch i's task, or of its reader.
BranchStep(i) == b[i].state # "gone" /\ UNCHANGED <<plan, coordVars>>

\* A read the task takes off its command channel.
Read(i) ==
    /\ BranchStep(i) /\ asked[i] < plan.reads[i]
    /\ asked' = [asked EXCEPT ![i] = @ + 1]
    /\ IF b[i].queue # <<>>
       THEN /\ got' = [got EXCEPT ![i] = Append(@, Head(b[i].queue))]
            /\ b' = [b EXCEPT ![i].queue = Tail(@), ![i].needsPull = TRUE,
                              ![i].state = IF @ = "closing" /\ Len(b[i].queue) = 1 THEN "closed" ELSE @]
       ELSE /\ b' = IF b[i].state = "open" THEN [b EXCEPT ![i].reads = @ + 1, ![i].needsPull = TRUE] ELSE b
            /\ UNCHANGED got
    /\ UNCHANGED <<ctrl, sourceVars>>

\* The coordinator's message: a chunk, or the end.
Receive(i) ==
    /\ BranchStep(i) /\ ctrl[i] # <<>>
    /\ ctrl' = [ctrl EXCEPT ![i] = Tail(@)]
    /\ LET m == Head(ctrl[i])
           s == b[i].state
       IN CASE m > 0 /\ s = "open" /\ Awaited(i) ->
                 /\ got' = [got EXCEPT ![i] = Append(@, m)]
                 /\ b' = [b EXCEPT ![i].reads = @ - 1, ![i].needsPull = TRUE]
            [] m > 0 /\ s = "open" /\ ~Awaited(i) ->
                 /\ b' = [b EXCEPT ![i].queue = Append(@, m), ![i].needsPull = TRUE]
                 /\ UNCHANGED got
            [] m = Close /\ s = "open" ->
                 /\ b' = [b EXCEPT ![i] = Closes(@)]
                 /\ UNCHANGED got
            [] m = Error /\ s \in {"open", "closing"} ->
                 /\ b' = [b EXCEPT ![i].state = "errored", ![i].queue = <<>>, ![i].reads = 0]
                 /\ UNCHANGED got
            [] OTHER -> UNCHANGED <<b, got>>
    /\ UNCHANGED <<asked, sourceVars>>

\* The pull gate: the request is used up, and TeeSource::pull runs if the
\* branch has room or a read waits.
Pull(i) ==
    /\ BranchStep(i)
    /\ b[i].needsPull /\ b[i].state = "open" /\ at[i] = None
    /\ b' = [b EXCEPT ![i].needsPull = FALSE]
    /\ at' = [at EXCEPT ![i] = IF Room(i) > 0 \/ Awaited(i) THEN "pullStores" ELSE None]
    /\ UNCHANGED <<ctrl, got, asked, canceled, first, signal>>

\* The branch is cancelled: its reads end, and cancel_coordinated runs.  (A
\* branch that has ended answers a cancel itself.)
Cancel(i) ==
    /\ BranchStep(i) /\ i \in plan.quits /\ at[i] = None
    /\ b[i].state \in {"open", "closing"}
    /\ b' = [b EXCEPT ![i].state = "closed", ![i].queue = <<>>, ![i].reads = 0]
    /\ at' = [at EXCEPT ![i] = "flag"]
    /\ UNCHANGED <<ctrl, got, asked, canceled, first, signal>>

\* The task has not run yet.
Fresh(i) == asked[i] = 0 /\ b[i].queue = <<>>

\* The branch's stream and task are dropped, between two polls: the task has
\* looked at its pull gate, unless it never ran.  (One that has ended is as
\* good as dropped.)
Drop(i) ==
    /\ BranchStep(i) /\ i \in plan.drops /\ at[i] = None
    /\ b[i].state \in {"open", "closing"}
    /\ b[i].state = "open" /\ b[i].needsPull => Fresh(i)
    /\ b' = [b EXCEPT ![i].state = "gone", ![i].reads = 0]
    /\ ctrl' = [ctrl EXCEPT ![i] = <<>>]
    /\ UNCHANGED <<got, asked, sourceVars>>

-----------------------------------------------------------------------------
(* TeeSource                                                                *)

SourceStep(i, from, to) ==
    /\ BranchStep(i) /\ at[i] = from
    /\ at' = [at EXCEPT ![i] = to]
    /\ UNCHANGED branchVars

\* The branch is flagged before the coordinator is told.
Flag(i) ==
    /\ SourceStep(i, "flag", "cancelStores")
    /\ canceled' = [canceled EXCEPT ![i] = TRUE]
    /\ UNCHANGED <<first, signal>>

\* AsyncSignal::signal: the flag, then the waker.
Stores(i) ==
    /\ SourceStep(i, "pullStores", "pullWakes") \/ SourceStep(i, "cancelStores", "cancelWakes")
    /\ signal' = [signal EXCEPT !.signaled = TRUE]
    /\ UNCHANGED <<canceled, first>>

Wakes(i) ==
    /\ SourceStep(i, "pullWakes", None) \/ SourceStep(i, "cancelWakes", "swap")
    /\ signal' = [signal EXCEPT !.waker = FALSE, !.woken = @ \/ signal.waker]
    /\ UNCHANGED <<canceled, first>>

\* Variant: the second cancel does not wait for the source's.
SwapAndGo(i) ==
    /\ SourceStep(i, "swap", "ok")
    /\ first' = TRUE
    /\ UNCHANGED <<canceled, signal>>

\* first_cancel_done.swap(true): the first cancel is done, the second waits.
Swap(i) ==
    /\ SourceStep(i, "swap", IF first THEN "wait" ELSE "ok")
    /\ first' = TRUE
    /\ UNCHANGED <<canceled, signal>>

Settle(i) ==
    /\ result # None
    /\ SourceStep(i, "wait", result)
    /\ UNCHANGED <<canceled, first, signal>>

-----------------------------------------------------------------------------
(* The coordinator                                                          *)

Moves(from, to) == pc = from /\ pc' = to /\ UNCHANGED plan

\* What a step of the coordinator that only looks leaves alone.
Looks == UNCHANGED <<branchVars, at, canceled, first, ending, result, source>>

BothDead == canceled[1] /\ canceled[2]

Top == Moves("top", IF BothDead THEN "canceling" ELSE "wait") /\ Looks /\ UNCHANGED signal

\* Variant: the waker is stored and the flag is not looked at again.
ParksAtOnce == Moves("recheck", "parked") /\ signal' = [signal EXCEPT !.waker = TRUE] /\ Looks

\* AsyncSignal::wait: the flag is taken, or the waker left and the flag looked
\* at once more.
Wait ==
    /\ \/ Moves("wait", IF signal.signaled THEN "decide" ELSE "recheck")
       \/ signal.woken /\ Moves("parked", IF signal.signaled THEN "decide" ELSE "recheck")
    /\ signal' = [signal EXCEPT !.signaled = FALSE, !.woken = FALSE]
    /\ Looks

Recheck ==
    \/ /\ ~signal.waker /\ pc = "recheck" /\ UNCHANGED <<pc, plan>>
       /\ signal' = [signal EXCEPT !.waker = TRUE] /\ Looks
    \/ /\ signal.waker /\ Moves("recheck", IF signal.signaled THEN "decide" ELSE "parked")
       /\ signal' = [signal EXCEPT !.signaled = FALSE] /\ Looks

\* A branch that was given up has no demand; one that was dropped and not yet
\* found out keeps the one it had.
Demand(i) == IF canceled[i] THEN 0 ELSE Desired(i)

ShouldPull ==
    CASE plan.mode = "Unbounded" -> \E i \in Branches : ~canceled[i]
      [] plan.mode = "SpecCompliant" -> \E i \in Branches : ~canceled[i] /\ Demand(i) > 0
      [] plan.mode = "SlowestConsumer" -> \A i \in Branches : canceled[i] \/ Demand(i) > 0
      [] plan.mode = "Aggregate" -> Demand(1) + Demand(2) > 0

Decide ==
    /\ Moves("decide", IF BothDead THEN "canceling" ELSE IF ShouldPull THEN "reading" ELSE "top")
    /\ Looks /\ UNCHANGED signal

\* The source's read() yields a chunk, ends or fails; it may also never return.
Yields ==
    /\ source.yielded < plan.chunks
    /\ Moves("reading", "give1")
    /\ source' = [source EXCEPT !.yielded = @ + 1]
    /\ UNCHANGED <<branchVars, sourceVars, ending, result>>

Ends(e) ==
    /\ e \in plan.ends
    /\ Moves("reading", "end1")
    /\ ending' = e
    /\ UNCHANGED <<branchVars, sourceVars, result, source>>

\* Variant: a first branch that is gone takes the second with it.
GivesWhileFirst(from, i, to) ==
    /\ Moves(from, to)
    /\ IF canceled[1] \/ canceled[i] THEN UNCHANGED <<canceled, ctrl>>
       ELSE IF Unusable(i) THEN canceled' = [canceled EXCEPT ![i] = TRUE] /\ UNCHANGED ctrl
       ELSE ctrl' = [ctrl EXCEPT ![i] = Append(@, source.yielded)] /\ UNCHANGED canceled
    /\ UNCHANGED <<b, got, asked, at, first, signal, ending, result, source>>

\* distribute_chunk: a branch that refuses the chunk is given up.
Gives(from, i, to) ==
    /\ Moves(from, to)
    /\ IF canceled[i] THEN UNCHANGED <<canceled, ctrl>>
       ELSE IF Unusable(i) THEN canceled' = [canceled EXCEPT ![i] = TRUE] /\ UNCHANGED ctrl
       ELSE ctrl' = [ctrl EXCEPT ![i] = Append(@, source.yielded)] /\ UNCHANGED canceled
    /\ UNCHANGED <<b, got, asked, at, first, signal, ending, result, source>>

\* close_branches and error_branches, one branch after the other.
EndsBranch(from, i, to) ==
    /\ Moves(from, to)
    /\ LET refused == IF ending = "Close" THEN Unusable(i)
                      ELSE b[i].state \in {"closed", "errored", "gone"} \/ b[i].errorRequested
       IN IF refused THEN UNCHANGED <<b, ctrl>>
          ELSE /\ ctrl' = [ctrl EXCEPT ![i] = Append(@, IF ending = "Close" THEN Close ELSE Error)]
               /\ b' = IF ending = "Close" THEN [b EXCEPT ![i].closeRequested = TRUE]
                       ELSE [b EXCEPT ![i].errorRequested = TRUE]
    /\ UNCHANGED <<got, asked, sourceVars, ending, result, source>>

\* TeeCancelResult: the first result stands.
Completed(res) == IF result = None THEN res ELSE result

\* finish_both_canceled: source.cancel() returns.
CancelsSource(res) ==
    /\ Moves("canceling", "complete")
    /\ source' = [source EXCEPT !.canceled = @ + 1]
    /\ result' = Completed(res)
    /\ UNCHANGED <<branchVars, sourceVars, ending>>

\* run() completes the cancel result in any case.
Complete ==
    /\ Moves("complete", "done")
    /\ result' = Completed("ok")
    /\ UNCHANGED <<branchVars, sourceVars, ending, source>>

-----------------------------------------------------------------------------
(* The specification                                                        *)

Init ==
    /\ plan \in Plans
    /\ b = [i \in Branches |-> [state |-> "open", queue |-> <<>>, reads |-> 0, needsPull |-> TRUE,
                                closeRequested |-> FALSE, errorRequested |-> FALSE]]
    /\ ctrl = [i \in Branches |-> <<>>]
    /\ at = [i \in Branches |-> None]
    /\ canceled = [i \in Branches |-> FALSE] /\ first = FALSE
    /\ signal = [signaled |-> FALSE, waker |-> FALSE, woken |-> FALSE]
    /\ pc = "top" /\ ending = None /\ result = None
    /\ source = [yielded |-> 0, canceled |-> 0]
    /\ got = [i \in Branches |-> <<>>] /\ asked = [i \in Branches |-> 0]

UserStep == \E i \in Branches : Read(i) \/ Cancel(i) \/ Drop(i)

SourceYieldsOrEnds == Yields \/ \E e \in {"Close", "Error"} : Ends(e)

BranchWork == \E i \in Branches : \/ Receive(i) \/ Pull(i)
                                  \/ Flag(i) \/ Stores(i) \/ Wakes(i) \/ Swap(i) \/ Settle(i)

CoordinatorWork ==
    \/ Top \/ Wait \/ Recheck \/ Decide
    \/ Gives("give1", 1, "give2") \/ Gives("give2", 2, "top")
    \/ EndsBranch("end1", 1, "end2") \/ EndsBranch("end2", 2, "complete")
    \/ \E res \in {"ok", "err"} : CancelsSource(res)
    \/ Complete

\* What goes on without another call and without the source.
Work == BranchWork \/ CoordinatorWork

Next == UserStep \/ SourceYieldsOrEnds \/ Work

Spec == Init /\ [][Next]_vars
=============================================================================
