------------------------------ MODULE PipeProps ------------------------------
(***************************************************************************)
(* What pipe_to promises, as properties of Pipe.                           *)
(***************************************************************************)
EXTENDS Pipe, SeqFolds

Writes == Filter(cmds, Chunks)
Given == [k \in 1..Len(sGiven) |-> sGiven[k].chunk]
InHand == IF reply = "chunk" THEN 1 ELSE 0

(* While the destination is writable nothing the source gave is lost,        *)
(* doubled or out of order: it is in the sink, in line, in the channel or in *)
(* the pipe's hand.                                                          *)
NothingLost ==
    wState = "writable" /\ ~wClosing =>
        wSunk \o wLine \o Writes = SubSeq(Given, 1, Len(Given) - InHand)

(* A pipe that closes its destination and resolves has brought it every      *)
(* chunk the source gave, and the sink has taken them all: writes that       *)
(* nobody waited for are waited for by the close.  (A pull that fails after   *)
(* the end was read changes nothing in that.)                                *)
OkMeansDelivered ==
    outcome = "ok" /\ ~Prevented("close") =>
        /\ sState \in {"ended", "errored"} /\ wState = "closed"
        /\ wSunk = Given /\ Len(Given) = posted

(* An end or an error is carried across unless that was prevented, and only  *)
(* then: a pipe that is over leaves no open source behind a broken           *)
(* destination and no writable destination behind a failed source, an abort  *)
(* reaches both, and what is prevented never happens.                        *)
Propagates ==
    /\ pc = "done" /\ failure \in {"write", "closed", "aborted"} /\ ~Prevented("cancel") => sState # "open"
    /\ pc = "done" /\ failure \in {"read", "aborted"} /\ ~Prevented("abort") => wState # "writable"
    /\ pc = "done" /\ outcome = "ok" => failure = None
    /\ Prevented("cancel") => sState # "canceled"
    /\ Prevented("close") => wEnded # "close" \/ plan.dest = "closed"
    /\ Prevented("abort") => wEnded # "abort"

(* Of two aborts that race the pipe reads the first one's reason, which      *)
(* stays the signal's, and no abort is missed while the pipe waits           *)
(* (AbortController::abort, aborted_future).                                 *)
FirstAbortWins == Signal!OneReason /\ Signal!AbortNotMissed

(* A pipe whose source or destination has ended, or whose signal has fired,  *)
(* settles, unless its ready() was registered on a destination that had      *)
(* already failed behind backpressure (the wake-up WritableStream loses).    *)
Over == sState # "open" \/ wState # "writable" \/ (plan.signal /\ aborted)
Forsaken == pc = "readyWaits" /\ wState = "errored" /\ full
Settles == []<>(~Over \/ pc = "done" \/ Forsaken)

(* "when the writer enters an errored state the closed arm fires             *)
(* immediately, we cancel the source, and the pipe terminates cleanly"       *)
(* (pipe_to_inner).                                                          *)
SettlesOnError == []<>(wState # "errored" \/ pc = "done")
=============================================================================
