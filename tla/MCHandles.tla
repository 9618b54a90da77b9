------------------------------ MODULE MCHandles ------------------------------
(***************************************************************************)
(* Small instances of the handles for TLC.                                 *)
(***************************************************************************)
EXTENDS HandlesProps

CONSTANTS t1, t2

Plan(k, t, h, c, w, f) ==
    [kind |-> k, takers |-> t, hwm |-> h, calls |-> c, writers |-> w, faults |-> f]

\* Three calls on a stream that may fail; two beside a writer; the locks; three
\* calls of poll_next on a source that may close or fail.
Mixed == {
    Plan("writer", {}, 1, 3, 0, {"writeErrors", "closeErrors"}),
    Plan("writer", {t1}, 2, 2, 1, {}),
    Plan("writer", {t1, t2}, 1, 0, 2, {}),
    Plan("reader", {t1, t2}, 1, 0, 0, {}),
    Plan("reader", {}, 1, 3, 3, {"sourceErrors"})}
=============================================================================
