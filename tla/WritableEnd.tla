------------------------------ MODULE WritableEnd ------------------------------
(***************************************************************************)
(* What a writable stream promises, whoever writes to it: the contract     *)
(* that WritableStream implements and that Pipe builds on.                 *)
(*                                                                         *)
(* Chunks that were accepted wait in a line and reach the sink one at a    *)
(* time, in order; the sink is closed only when the line is empty and      *)
(* nothing is under way; it is closed or aborted at most once, and given   *)
(* nothing afterwards; an error empties the line for good.                 *)
(***************************************************************************)
EXTENDS Sequences

CONSTANT Chunks

VARIABLES
    state,    \* WritableStreamInner.state; "gone": the task was dropped
    closing,  \* a close has been accepted
    line,     \* chunks accepted and not yet given to the sink
    busy,     \* the sink's method under way
    sunk,     \* history: the chunks the sink was given
    ended     \* history: the sink's close or abort, once called

vars == <<state, closing, line, busy, sunk, ended>>

None == "none"

Init ==
    /\ state = "writable" /\ closing = FALSE /\ line = <<>>
    /\ busy = None /\ sunk = <<>> /\ ended = None

Accept(c) ==
    /\ state = "writable" /\ ~closing
    /\ line' = Append(line, c)
    /\ UNCHANGED <<state, closing, busy, sunk, ended>>

AskClose ==
    /\ state = "writable" /\ ~closing
    /\ closing' = TRUE
    /\ UNCHANGED <<state, line, busy, sunk, ended>>

BeginWrite ==
    /\ state = "writable" /\ busy = None /\ ended = None /\ line # <<>>
    /\ busy' = "write"
    /\ line' = Tail(line)
    /\ sunk' = Append(sunk, Head(line))
    /\ UNCHANGED <<state, closing, ended>>

\* A write ends well, or after an error that spares it.
EndWrite ==
    /\ busy = "write" /\ busy' = None
    /\ UNCHANGED <<state, closing, line, sunk, ended>>

\* An error from the controller or an abort spares the operation under way; a
\* write's own error ends it; either may forget a close that waits.
Fail ==
    /\ state \in {"writable", "errored"}
    /\ state' = "errored" /\ line' = <<>>
    /\ busy' \in IF busy = "write" THEN {"write", None} ELSE {busy}
    /\ closing' \in {closing, FALSE}
    /\ UNCHANGED <<sunk, ended>>

BeginClose ==
    /\ closing /\ line = <<>> /\ busy = None /\ ended = None
    /\ busy' = "close" /\ ended' = "close"
    /\ UNCHANGED <<state, closing, line, sunk>>

\* The sink's close ends, or there is no sink left to close.
EndClose ==
    /\ closing /\ (busy = "close" \/ (busy = None /\ ended = "abort"))
    /\ state' \in {"closed", "errored"}
    /\ closing' = FALSE /\ line' = <<>> /\ busy' = None
    /\ UNCHANGED <<sunk, ended>>

\* The abort follows the write it waited for in one step.
BeginAbort ==
    /\ state = "errored" /\ busy \in {None, "write"} /\ ended = None
    /\ busy' = "abort" /\ ended' = "abort"
    /\ UNCHANGED <<state, closing, line, sunk>>

EndAbort ==
    /\ busy = "abort" /\ busy' = None
    /\ UNCHANGED <<state, closing, line, sunk, ended>>

\* The task is dropped, with whatever it held.
Drop ==
    /\ state' = (IF state = "writable" THEN "gone" ELSE state)
    /\ closing' = FALSE /\ line' = <<>> /\ busy' = None
    /\ UNCHANGED <<sunk, ended>>

Next ==
    \/ \E c \in Chunks : Accept(c)
    \/ AskClose \/ BeginWrite \/ EndWrite \/ Fail
    \/ BeginClose \/ EndClose \/ BeginAbort \/ EndAbort \/ Drop

Spec == Init /\ [][Next]_vars
=============================================================================
