------------------------------- MODULE SeqFolds -------------------------------
(***************************************************************************)
(* Two folds over a sequence.  The recursion is a function, so that the    *)
(* proofs can unfold it.                                                   *)
(***************************************************************************)
EXTENDS Naturals, Sequences

\* The elements of s that belong to S, in their order.
Filter(s, S) ==
    LET kept[i \in 0..Len(s)] ==
          IF i = 0 THEN <<>>
          ELSE IF s[i] \in S THEN Append(kept[i - 1], s[i]) ELSE kept[i - 1]
    IN  kept[Len(s)]

\* The sum of the weights that w gives the elements of s.
Total(s, w) ==
    LET sum[i \in 0..Len(s)] == IF i = 0 THEN 0 ELSE sum[i - 1] + w[s[i]]
    IN  sum[Len(s)]
=============================================================================
