------------------------------ MODULE ReadableEnd ------------------------------
(***************************************************************************)
(* What a readable stream promises, whoever feeds it and whoever reads:    *)
(* the contract that ReadableStream implements and that Pipe builds on.    *)
(*                                                                         *)
(* The chunks that arrive leave in the order in which they came, each to   *)
(* one read; a chunk is handed straight to a read only when none is before *)
(* it; the stream ends only when its line is empty; an error, a cancel or  *)
(* the loss of the task empties the line for good.                         *)
(***************************************************************************)
EXTENDS Sequences

CONSTANTS Chunks, Reads

VARIABLES
    state,    \* ReadableStreamInner.state, with the ways of being Closed told apart
    closing,  \* a close waits for the line to empty
    line,     \* chunks that have arrived and not been read
    given     \* history: the reads answered with a chunk

vars == <<state, closing, line, given>>

Init == state = "open" /\ closing = FALSE /\ line = <<>> /\ given = <<>>

Open == state = "open"

Hands(r, c) == given' = Append(given, [read |-> r, chunk |-> c])

Arrive(c) ==
    /\ Open /\ ~closing
    /\ line' = Append(line, c)
    /\ UNCHANGED <<state, closing, given>>

ArriveToRead(c) ==
    /\ Open /\ ~closing /\ line = <<>>
    /\ \E r \in Reads : Hands(r, c)
    /\ UNCHANGED <<state, closing, line>>

\* The last chunk of a stream that is closing ends it.
Take ==
    /\ Open /\ line # <<>>
    /\ \E r \in Reads : Hands(r, Head(line))
    /\ line' = Tail(line)
    /\ IF closing /\ line' = <<>> THEN state' = "ended" /\ closing' = FALSE
       ELSE UNCHANGED <<state, closing>>

CloseLater ==
    /\ Open /\ line # <<>>
    /\ closing' = TRUE
    /\ UNCHANGED <<state, line, given>>

End ==
    /\ Open /\ line = <<>>
    /\ state' = "ended"
    /\ UNCHANGED <<closing, line, given>>

\* A cancel, an error, or the loss of the task.
Stop(s) ==
    /\ Open
    /\ state' = s /\ closing' = FALSE /\ line' = <<>>
    /\ UNCHANGED given

\* The pull that was under way when the stream ended fails.
FailLate ==
    /\ state \in {"ended", "canceled"}
    /\ state' = "errored"
    /\ UNCHANGED <<closing, line, given>>

Next ==
    \/ \E c \in Chunks : Arrive(c) \/ ArriveToRead(c)
    \/ Take \/ CloseLater \/ End
    \/ \E s \in {"canceled", "errored", "gone"} : Stop(s)
    \/ FailLate

Spec == Init /\ [][Next]_vars
=============================================================================
