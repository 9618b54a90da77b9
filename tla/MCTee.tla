------------------------------- MODULE MCTee -------------------------------
(***************************************************************************)
(* Small instances of the tee for TLC.                                     *)
(***************************************************************************)
EXTENDS TeeProps

Plan(mode, hwm1, hwm2, chunks, reads1, reads2, quits, drops, ends) ==
    [mode |-> mode, hwm |-> <<hwm1, hwm2>>, chunks |-> chunks, reads |-> <<reads1, reads2>>,
     quits |-> quits, drops |-> drops, ends |-> ends]

Both == {1, 2}
Anyhow == {"Close", "Error"}

\* Every mode with two branches that read at their own pace; a branch that
\* leaves; both cancelled while the source yields and ends; a branch dropped
\* with room, which the next chunk finds out, or without, while the other is
\* cancelled.  In Aggregate mode one branch runs two chunks ahead of the other.
Mixed ==
    {Plan(mode, 1, 1, 2, 1, 1, {}, {}, {}) : mode \in Modes \ {"Aggregate"}}
    \cup {Plan(mode, 0, 1, 2, 1, 1, {2}, {}, {}) : mode \in {"SpecCompliant", "SlowestConsumer"}}
    \cup {Plan("Aggregate", 1, 1, 2, 3, 1, {}, {}, {}),
          Plan("Aggregate", 1, 0, 2, 1, 1, {}, {}, {"Close"}),
          Plan("SpecCompliant", 1, 1, 1, 1, 0, Both, {}, Anyhow),
          Plan("SlowestConsumer", 1, 0, 1, 1, 1, {1}, {2}, {"Error"}),
          Plan("SlowestConsumer", 1, 1, 2, 3, 1, {}, {2}, {}),
          Plan("Aggregate", 1, 0, 2, 2, 1, {}, {2}, {"Close"})}
=============================================================================
