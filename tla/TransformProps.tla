--------------------------- MODULE TransformProps ---------------------------
(***************************************************************************)
(* What the transform stream promises, as properties of Transform.         *)
(***************************************************************************)
EXTENDS Transform

\* Only the transformer has used the controller, not a clone on another thread.
NoClone == \A k \in {"capturedEnqueue", "capturedError", "capturedTerminate"} : left[k] = plan.calls[k]

(* Backpressure.  transform() begins only when the readable has room for    *)
(* another chunk, counting those still in its control channel, or, at a mark *)
(* of zero, when it holds none (wait_for_readable_space, SpaceSignal and the *)
(* pull that opens it).  With the tasks on several threads it may be off by  *)
(* what one call enqueues, and by what was sent up to the mark before:       *)
(* sync_from_desired_size counts anew from a desired size that counts none   *)
(* of the chunks under way.  Aborting, cancelling or ending lifts the bound. *)
Room == IF HWM = 0 THEN 1 ELSE HWM
Slack == IF plan.spawn = "parts" THEN Room + PerCall - 1 ELSE 0
Backpressure ==
    [][task # "transform" /\ task' = "transform" /\ NoClone /\ ~aborted /\ ~Unusable /\ cancel = None
         => Undelivered < Room + Slack]_vars

(* Nothing goes on without another call: the guards of Work, read as what    *)
(* each task waits for.                                                      *)
TaskRestsAt(p) ==
    /\ \A t \in Threads : todo[t] = <<>>
    /\ task = p
    /\ p = "select" => cmd = None /\ cancel # "sent" /\ (w.sink \/ w.op # None)
    /\ p = "parked" => "task" \notin woken
ReadableIdle == r.phase = "idle" /\ "readable" \notin woken /\ cancel \notin {"fire", "send"}
WritableIdle ==
    /\ ~wError /\ (w.aborting => aborted)
    /\ w.op # None => answer = None /\ ~(w.op = "close" /\ w.aborting)
    /\ w.op = None /\ w.sink =>
          /\ w.state = "writable" => w.queued = 0
          /\ w.closing => w.queued # 0
          /\ w.aborting => w.closing
AtRest == (\E p \in {"select", "parked", "done"} : TaskRestsAt(p)) /\ ReadableIdle /\ WritableIdle

(* No lost wakeup between the task, the pull and the callers: when all has  *)
(* come to rest, a method of the sink is under way only because the queue   *)
(* of an open readable is full, or because the mark is zero and no read     *)
(* waits.  No write, close or abort, and no readable.cancel(), waits for    *)
(* something that will not happen.                                          *)
NoneStuck ==
    (plan.spawn = "bundled" /\ NoClone /\ AtRest) =>
        /\ w.op # None => task = "parked" /\ r.state = "open" /\ Desired <= 0 /\ r.reads = 0
        /\ cancel \in {None, "ok", "err"}
        /\ task = "done" => w.state # "writable"

(* The transformer is wound up once: after flush() or cancel() none of its  *)
(* methods runs again, and flush() never starts when a readable.cancel()    *)
(* has already reached the task (cancel wins over a close).                 *)
WoundUpOnce ==
    /\ Len(ran) <= 1
    /\ ran # <<>> => task \in {"flush", "cancelling", "ending", "done"}
CancelBeforeFlush ==
    [][ran' # ran /\ cancel = "sent" => ran' = <<"cancel">>]_vars

(* A write never waits for room while a read waits for a chunk: the gate is *)
(* open whenever there is room for one more enqueue, or a read waits        *)
(* (transform.rs line 345).                                                 *)
NoMutualWait == AtRest => ~(task = "parked" /\ r.reads > 0)
=============================================================================
