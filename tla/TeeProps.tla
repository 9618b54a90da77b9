------------------------------ MODULE TeeProps ------------------------------
(***************************************************************************)
(* What the tee promises, as properties of Tee.                            *)
(***************************************************************************)
EXTENDS Tee, SeqFolds

Chunks == Nat \ {0}
Sent(i) == Filter(ctrl[i], Chunks)
Holds(i) == b[i].queue \o Sent(i)
UpTo(n) == [k \in 1..n |-> k]
Due(i) == IF pc = "give1" \/ (pc = "give2" /\ i = 2) THEN source.yielded - 1 ELSE source.yielded

(* Every branch that has not been given up sees the source's chunks once, in *)
(* order and without a gap, whatever the other branch does; only the chunk   *)
(* being distributed may be missing (distribute_chunk).  A branch ends only  *)
(* after the chunks before the end were taken: one that closed without being *)
(* cancelled has given its reads all of them (close_branches).               *)
BothSeeAll ==
    \A i \in Branches :
        /\ ~canceled[i] /\ b[i].state \in {"open", "closing"} => got[i] \o Holds(i) = UpTo(Due(i))
        /\ b[i].state = "closed" /\ at[i] = None => got[i] = UpTo(source.yielded)

(* The source is cancelled at most once, and only when both branches have     *)
(* been given up; of two cancels one answers for the source: when both have   *)
(* returned the coordinator is through, and a failure of the source's cancel  *)
(* reached one of them (cancel_coordinated).                                  *)
Answered(i) == at[i] \in {"ok", "err"}
CancelCoordinated ==
    /\ source.canceled <= 1
    /\ source.canceled = 1 => \A i \in Branches : canceled[i]
    /\ Answered(1) /\ Answered(2) => /\ result # None
                                    /\ result = "err" <=> \E i \in Branches : at[i] = "err"

(* No demand is lost: when nothing goes on by itself and the source is not   *)
(* being read, no cancel waits, and a read waits only because the mode tells  *)
(* the coordinator not to pull (should_pull) -- and in Aggregate mode while   *)
(* the other branch is at its mark: what that branch takes then may raise the *)
(* combined demand, and its pull does not run to say so.  A dropped branch    *)
(* that nobody has found out counts in that with the room it had.            *)
BranchRests(i) ==
    \/ b[i].state = "gone"
    \/ /\ ctrl[i] = <<>> /\ ~(b[i].needsPull /\ b[i].state = "open" /\ at[i] = None)
       /\ at[i] \in {None, "ok", "err"} \/ (at[i] = "wait" /\ result = None)
AtRest == (\A i \in Branches : BranchRests(i)) /\ (pc \in {"reading", "done"} \/ (pc = "parked" /\ ~signal.woken))
AtMark(i) == ~canceled[i] /\ Desired(i) <= 0
NoneForgotten ==
    AtRest /\ pc # "reading" =>
        \A i \in Branches :
            /\ at[i] # "wait"
            /\ b[i].reads > 0 =>
                  /\ pc = "parked"
                  /\ ~ShouldPull \/ (plan.mode = "Aggregate" /\ \E j \in Branches \ {i} : AtMark(j))
=============================================================================
