----------------------------- MODULE MCTransform -----------------------------
(***************************************************************************)
(* Small instances of the transform stream for TLC.                        *)
(***************************************************************************)
EXTENDS TransformProps

\* How often each call is made: those in B, and no other.
Upto(B) == [k \in Calls |-> IF k \in DOMAIN B THEN B[k] ELSE 0]
Plan(hwm, spawn, B) == [hwm |-> hwm, spawn |-> spawn, calls |-> Upto(B)]

\* Tasks in one bundle: the two sides end in every way; nothing is ever
\* queued (the builder's default mark); the transformer ends the stream.
\* Tasks on their own threads: a longer delivery, a higher mark, an end from
\* either side, a captured clone of the controller.
Mixed == {
    Plan(1, "bundled", [write |-> 2, close |-> 1, abort |-> 1, cancel |-> 1, read |-> 1, fail |-> 1]),
    Plan(1, "bundled", [write |-> 2, abort |-> 1, cancel |-> 1, read |-> 1, enqueue |-> 1, fail |-> 1]),
    Plan(0, "bundled", [write |-> 2, close |-> 1, cancel |-> 1, read |-> 2, enqueue |-> 1]),
    Plan(1, "bundled", [write |-> 2, close |-> 1, read |-> 1, enqueue |-> 1, error |-> 1, terminate |-> 1]),
    Plan(1, "parts", [write |-> 3, read |-> 2, enqueue |-> 3]),
    Plan(2, "parts", [write |-> 4, enqueue |-> 4]),
    Plan(1, "parts", [write |-> 1, close |-> 1, abort |-> 1, cancel |-> 1, enqueue |-> 1, error |-> 1]),
    Plan(0, "parts", [capturedEnqueue |-> 1, capturedError |-> 1, capturedTerminate |-> 1])}

\* One writer and one reader, on threads of their own.
Racing == {Plan(1, "parts", [write |-> 1, read |-> 2, enqueue |-> 1])}
=============================================================================
