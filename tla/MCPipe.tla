-------------------------------- MODULE MCPipe --------------------------------
(***************************************************************************)
(* Small instances of the pipe for TLC.                                    *)
(***************************************************************************)
EXTENDS PipeProps

Plan(prevent, signal, dest, hwm, chunks, faults) ==
    [prevent |-> prevent, signal |-> signal, dest |-> dest, hwm |-> hwm, chunks |-> chunks, faults |-> faults]

\* Every end and every error, with nothing and with everything prevented; a
\* destination already closed; an abort at any moment.
Mixed == {
    Plan({}, FALSE, "writable", 1, 2, {"sourceErrors", "sinkErrors", "controllerErrors", "cancelErrors", "abortErrors"}),
    Plan(Prevents, FALSE, "writable", 1, 2, {"sourceErrors", "sinkErrors"}),
    Plan({"close"}, FALSE, "writable", 2, 2, {"sinkErrors"}),
    Plan({}, FALSE, "closed", 1, 1, {"cancelErrors"}),
    Plan({}, TRUE, "writable", 1, 1, {"sinkErrors", "abortErrors"}),
    Plan({"abort"}, TRUE, "writable", 1, 1, {"cancelErrors"})}
=============================================================================
