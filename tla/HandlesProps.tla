----------------------------- MODULE HandlesProps -----------------------------
(***************************************************************************)
(* What the poll methods and the lock of a handle promise.                 *)
(***************************************************************************)
EXTENDS Handles, SeqFolds

UpTo(n) == [c \in 1..n |-> c]
Landed(c) == \E k \in 1..Len(wSunk) : wSunk[k] = c /\ (k < Len(wSunk) \/ wBusy # "write")

InSlot == IF slots["next"] = "ok" THEN <<item>> ELSE <<>>

(* An answer is true of the request whose receiver gave it -- which need not *)
(* be the request of the call it reaches: a call that finds the receiver of  *)
(* one given up sends nothing and returns the older answer.  Ok of           *)
(* poll_write is the length of the chunk that request sent, which the sink   *)
(* has taken; Ok of poll_flush means that every chunk sent before that       *)
(* request was taken or refused (later ones may be under way), Ok of         *)
(* poll_close that the stream is closed.  While the stream has no error      *)
(* every chunk sent is in the channel, in line or in the sink, in order, or  *)
(* was refused.                                                              *)
(* poll_next yields the source's chunks in order and loses none to a call    *)
(* that was given up: the next one finds it in the slot.                     *)
AnswersTrue ==
    /\ answer.res = "ok" =>
        /\ answer.method = "write" => Landed(answer.upto) /\ answer.len = length[answer.upto]
        /\ answer.method = "flush" => \A c \in 1..answer.upto : Landed(c) \/ c \in refused
        /\ answer.method = "close" => wState = "closed"
    /\ wState # "errored" =>
        wSunk \o wLine \o Filter(cmds, Chunks) = Filter(UpTo(Sent), Chunks \ refused)
    /\ answer.method = "next" /\ answer.res = "end" => Len(answer.items) = posted
    /\ answer.items = UpTo(Len(answer.items))
    /\ rState # "errored" => answer.items \o InSlot \o rLine = UpTo(posted)

(* A lock has one holder, beside whatever the handle itself sends.           *)
Exclusive == Lock!Exclusive

(* A poll that is not given up returns: a receiver or a waker that was left  *)
(* with the task always wakes it.  Exempt are a poll that waits for room on  *)
(* a stream that failed behind backpressure (the wake-up WritableStream      *)
(* loses), and a poll_next while the source gives nothing.                   *)
Forsaken ==
    /\ pc = "pending"
    /\ \/ call.method \in {"ready", "write"} /\ wState = "errored" /\ full
       \/ call.method = "next" /\ rState = "open" /\ rLine = <<>>
PollsSettle == []<>(pc = "idle" \/ Forsaken)
=============================================================================
