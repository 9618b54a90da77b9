------------------------------ MODULE Tee_proofs -------------------------------
(***************************************************************************)
(* Proofs about Tee, for every set of plans: any number of chunks, reads   *)
(* and high water marks, each backpressure mode, and every way in which    *)
(* the branches may be cancelled or dropped.                               *)
(***************************************************************************)
EXTENDS TeeProps, Facts

-----------------------------------------------------------------------------
(* The inductive invariant                                                  *)

\* The branch is being cancelled, or has been.
Canceling(i) == at[i] \in {"flag", "cancelStores", "cancelWakes", "swap", "wait", "ok", "err"}

\* The coordinator has passed branch i on its way out.
Passed(i) == pc \in {"complete", "done"} \/ (i = 1 /\ pc = "end2")

(* A branch that was given up has ended; a read waits only in an open        *)
(* branch with nothing in its queue.                                         *)
BranchInv(i) ==
    /\ canceled[i] => b[i].state \in {"closed", "gone"}
    /\ Canceling(i) => b[i].state = "closed"
    /\ Canceling(i) /\ at[i] # "flag" => canceled[i]
    /\ b[i].reads > 0 => b[i].state = "open" /\ b[i].queue = <<>>
    /\ b[i].state = "closing" => b[i].queue # <<>>
    /\ b[i].state = "closed" => b[i].queue = <<>>

(* The end comes last, and once: nothing follows a Close into the channel.   *)
EndInv(i) ==
    /\ b[i].closeRequested \/ b[i].errorRequested => Passed(i)
    /\ \A k \in 1..Len(ctrl[i]) : ctrl[i][k] = Close => b[i].closeRequested /\ k = Len(ctrl[i])
    /\ \A k \in 1..Len(ctrl[i]) : ctrl[i][k] = Error => b[i].errorRequested
    /\ b[i].state = "closing" => b[i].closeRequested /\ ctrl[i] = <<>>
    /\ b[i].state = "closed" /\ ~Canceling(i) => b[i].closeRequested
    /\ b[i].state = "errored" => b[i].errorRequested

(* What a branch has given, holds and is still to receive is what the        *)
(* source yielded, but for the chunk on its way to it.                       *)
SeenInv(i) ==
    /\ b[i].state \in {"open", "closing"} => got[i] \o Holds(i) = UpTo(Due(i))
    /\ b[i].state = "closed" /\ ~Canceling(i) => got[i] = UpTo(source.yielded)

(* The source is cancelled on the way out, once both branches are given up.  *)
SourceInv ==
    /\ pc \in {"give1", "give2"} => source.yielded > 0
    /\ source.canceled = 0 \/ (source.canceled = 1 /\ pc \in {"complete", "done"})
    /\ pc = "canceling" \/ source.canceled = 1 => BothDead

(* Of two cancels the first is told at once that all is well, the second     *)
(* is told the result.                                                       *)
CancelInv ==
    IF first
    THEN \E i \in Branches : /\ at[i] = "ok"
                             /\ \A j \in Branches : at[j] \in {"ok", "err"} /\ j # i => result # None /\ at[j] = result
    ELSE \A i \in Branches : at[i] \notin {"wait", "ok", "err"}

Inv ==
    /\ TypeOK /\ SourceInv /\ CancelInv
    /\ \A i \in Branches : BranchInv(i) /\ EndInv(i) /\ SeenInv(i)

-----------------------------------------------------------------------------
(* Sequences                                                                *)

(* What a sequence of the first n chunks is made of.                         *)
LEMMA UpToFacts ==
    /\ UpTo(0) = <<>>
    /\ \A n \in Nat : UpTo(n) \in Seq(Nat) /\ Len(UpTo(n)) = n /\ Append(UpTo(n), n + 1) = UpTo(n + 1)
  BY DEF UpTo

-----------------------------------------------------------------------------
(* A branch by itself                                                       *)

BranchType ==
    [state : {"open", "closing", "closed", "errored", "gone"}, queue : Seq(Nat), reads : Nat,
     needsPull : BOOLEAN, closeRequested : BOOLEAN, errorRequested : BOOLEAN]

(* The types of one branch's part of the state.                              *)
LEMMA OneBranch ==
    ASSUME TypeOK, NEW i \in Branches
    PROVE  /\ b[i] \in BranchType /\ ctrl[i] \in Seq(Messages) /\ got[i] \in Seq(Nat)
           /\ Sent(i) \in Seq(Messages) /\ b[i].queue \in Seq(Messages) /\ got[i] \in Seq(Messages)
           /\ source.yielded \in Nat /\ source.canceled \in Nat /\ canceled[i] \in BOOLEAN
<1>1. b[i] \in BranchType /\ ctrl[i] \in Seq(Messages) /\ got[i] \in Seq(Nat) /\ source.yielded \in Nat
      /\ source.canceled \in Nat /\ canceled[i] \in BOOLEAN
  BY DEF TypeOK, BranchType
<1>2. Filter(ctrl[i], Chunks) \in Seq(Messages)
  BY <1>1, FilterType
<1>3. Seq(Nat) \subseteq Seq(Messages)
  BY DEF Messages
<1>. QED
  BY <1>1, <1>2, <1>3 DEF Sent, BranchType

(* A step elsewhere leaves a branch's invariants alone.                      *)
LEMMA Elsewhere ==
    ASSUME NEW j, BranchInv(j), EndInv(j), SeenInv(j),
           b'[j] = b[j], ctrl'[j] = ctrl[j], got'[j] = got[j], canceled'[j] = canceled[j], at'[j] = at[j],
           Passed(j) => Passed(j)', Due(j)' = Due(j),
           source'.yielded = source.yielded \/ ~Passed(j)
    PROVE  BranchInv(j)' /\ EndInv(j)' /\ SeenInv(j)'
<1>1. Canceling(j)' = Canceling(j) /\ Sent(j)' = Sent(j) /\ Holds(j)' = Holds(j)
  BY DEF Canceling, Sent, Holds
<1>2. BranchInv(j)' /\ EndInv(j)'
  BY <1>1 DEF BranchInv, EndInv
<1>3. SeenInv(j)'
  <2>1. b[j].state = "closed" /\ ~Canceling(j) => Passed(j)
    BY DEF EndInv
  <2>. QED
    BY <1>1, <2>1 DEF SeenInv
<1>. QED
  BY <1>2, <1>3

(* Where the coordinator stands has no say in a step of a branch.            *)
LEMMA StandsStill ==
    ASSUME NEW j, UNCHANGED <<pc, source>>
    PROVE  /\ Passed(j)' = Passed(j) /\ Due(j)' = Due(j) /\ source'.yielded = source.yielded
  BY DEF Passed, Due

(* The invariant holds when tee() starts.                                    *)
LEMMA InitInv == Init => Inv
<1> SUFFICES ASSUME Init PROVE Inv
  OBVIOUS
<1>1. TypeOK
  <2>1. b \in [Branches -> BranchType]
    BY DEF Init, BranchType
  <2>2. <<>> \in Seq(Messages) /\ <<>> \in Seq(Nat)
    OBVIOUS
  <2>3. ctrl \in [Branches -> Seq(Messages)] /\ got \in [Branches -> Seq(Nat)]
    BY <2>2 DEF Init
  <2>. QED
    BY <2>1, <2>3 DEF Init, TypeOK, None, BranchType
<1>2. SourceInv /\ CancelInv
  BY DEF Init, SourceInv, CancelInv, None, BothDead
<1>3. ASSUME NEW i \in Branches PROVE BranchInv(i) /\ EndInv(i) /\ SeenInv(i)
  <2>1. BranchInv(i) /\ EndInv(i)
    BY DEF Init, BranchInv, EndInv, Canceling, None
  <2>2. got[i] = <<>> /\ Holds(i) = <<>> \o <<>> /\ Due(i) = 0 /\ b[i].state = "open"
    BY FilterEmpty DEF Init, Holds, Sent, Due
  <2>3. <<>> \o (<<>> \o <<>>) = <<>>
    OBVIOUS
  <2>. QED
    BY <2>1, <2>2, <2>3, UpToFacts DEF SeenInv
<1>. QED
  BY <1>1, <1>2, <1>3 DEF Inv

-----------------------------------------------------------------------------
(* The steps of a branch                                                    *)

\* What the invariant says of one branch.
OneInv(i) == BranchInv(i) /\ EndInv(i) /\ SeenInv(i)

(* Records that stay a branch's.                                             *)
LEMMA BranchRecords ==
    \A r \in BranchType :
        /\ \A n \in Nat : [r EXCEPT !.reads = n, !.needsPull = TRUE] \in BranchType
        /\ \A q \in Seq(Nat) : [r EXCEPT !.queue = q, !.needsPull = TRUE] \in BranchType
        /\ \A q \in Seq(Nat) : \A s \in {"open", "closing", "closed", "errored"} :
              [r EXCEPT !.queue = q, !.needsPull = TRUE, !.state = s] \in BranchType
  BY DEF BranchType

(* Where a step of branch i's task leaves its channel, its cancel flag and   *)
(* the coordinator alone, and what it is doing with its source is not a      *)
(* cancel before or after, only what happens to its queue matters.           *)
LEMMA BranchKeeps ==
    ASSUME Inv, NEW i \in Branches, UNCHANGED <<plan, coordVars, canceled, first, signal>>,
           b' = [b EXCEPT ![i] = b'[i]], ctrl' = [ctrl EXCEPT ![i] = ctrl'[i]],
           got' = [got EXCEPT ![i] = got'[i]], at' = [at EXCEPT ![i] = at'[i]],
           b'[i] \in BranchType, ctrl'[i] \in Seq(Messages), got'[i] \in Seq(Nat), asked' \in [Branches -> Nat],
           at'[i] = at[i] \/ (at[i] = None /\ at'[i] \in {None, "pullStores", "flag"}),
           OneInv(i)'
    PROVE  Inv'
<1>1. TypeOK'
  <2>1. /\ b' \in [Branches -> BranchType] /\ ctrl' \in [Branches -> Seq(Messages)]
        /\ got' \in [Branches -> Seq(Nat)]
    BY DEF Inv, TypeOK, BranchType
  <2>2. at' \in [Branches -> {None, "pullStores", "pullWakes", "flag", "cancelStores", "cancelWakes", "swap",
                              "wait", "ok", "err"}]
    BY DEF Inv, TypeOK
  <2>. QED
    BY <2>1, <2>2 DEF Inv, TypeOK, BranchType, coordVars
<1>2. ASSUME NEW j \in Branches, j # i PROVE OneInv(j)'
  <2>1. /\ b'[j] = b[j] /\ ctrl'[j] = ctrl[j] /\ got'[j] = got[j] /\ at'[j] = at[j] /\ canceled'[j] = canceled[j]
        /\ UNCHANGED <<pc, source>>
    BY <1>2 DEF Inv, TypeOK, coordVars
  <2>. QED
    BY <2>1, Elsewhere, StandsStill DEF Inv, OneInv
<1>3. SourceInv'
  BY DEF Inv, SourceInv, coordVars, BothDead
<1>4. CancelInv'
  <2>1. \A j \in Branches : \A v \in {"wait", "ok", "err"} : at'[j] = v <=> at[j] = v
    BY DEF Inv, TypeOK, None
  <2>. QED
    BY <2>1 DEF Inv, CancelInv, coordVars
<1>. QED
  BY <1>1, <1>2, <1>3, <1>4 DEF Inv, OneInv

(* Read: what is taken from the queue was the next chunk due.                *)
LEMMA ReadKeeps == ASSUME Inv, NEW i \in Branches, Read(i) PROVE Inv'
<1>0. TypeOK /\ OneInv(i)
  BY DEF Inv, OneInv
<1>1. UNCHANGED <<plan, coordVars, canceled, first, signal, ctrl, at>> /\ asked' \in [Branches -> Nat]
  BY <1>0 DEF Read, BranchStep, sourceVars, TypeOK
<1>2. ctrl' = [ctrl EXCEPT ![i] = ctrl'[i]] /\ at' = [at EXCEPT ![i] = at'[i]] /\ ctrl'[i] = ctrl[i] /\ at'[i] = at[i]
  BY <1>0, <1>1 DEF TypeOK
<1>3. Canceling(i)' = Canceling(i) /\ Sent(i)' = Sent(i) /\ Passed(i)' = Passed(i) /\ Due(i)' = Due(i)
      /\ source' = source /\ canceled' = canceled
  BY <1>1, <1>2, StandsStill DEF coordVars, Canceling, Sent
<1>4. /\ b[i] \in BranchType /\ ctrl[i] \in Seq(Messages) /\ got[i] \in Seq(Nat)
      /\ Sent(i) \in Seq(Messages) /\ b[i].queue \in Seq(Messages) /\ got[i] \in Seq(Messages)
      /\ b[i].queue \in Seq(Nat) /\ b[i].reads \in Nat
  BY <1>0, OneBranch DEF BranchType
<1>5. CASE b[i].queue # <<>>
  <2> DEFINE s == IF b[i].state = "closing" /\ Len(b[i].queue) = 1 THEN "closed" ELSE b[i].state
  <2>1. /\ b' = [b EXCEPT ![i] = [b[i] EXCEPT !.queue = Tail(b[i].queue), !.needsPull = TRUE, !.state = s]]
        /\ got' = [got EXCEPT ![i] = Append(@, Head(b[i].queue))] /\ b[i].state # "gone"
    BY <1>5, <1>0 DEF Read, BranchStep, TypeOK
  <2>2. /\ b'[i] = [b[i] EXCEPT !.queue = Tail(b[i].queue), !.needsPull = TRUE, !.state = s]
        /\ got'[i] = Append(got[i], Head(b[i].queue))
    BY <2>1, <1>0 DEF TypeOK
  <2>3. b' = [b EXCEPT ![i] = b'[i]] /\ got' = [got EXCEPT ![i] = got'[i]]
    BY <2>1, <2>2
  <2>4. Head(b[i].queue) \in Nat /\ Tail(b[i].queue) \in Seq(Nat) /\ (Len(b[i].queue) = 1 <=> Tail(b[i].queue) = <<>>)
    BY <1>4, <1>5, OffTheFront
  <2>7. b[i].state \in {"open", "closing", "errored"}
    BY <1>0, <1>4, <1>5, <2>1 DEF OneInv, BranchInv, BranchType
  <2>5. b'[i] \in BranchType /\ got'[i] \in Seq(Nat)
    <3>1. s \in {"open", "closing", "closed", "errored"}
      BY <2>7
    <3> HIDE DEF s
    <3>2. b'[i] \in BranchType
      <4>1. [b[i] EXCEPT !.queue = Tail(b[i].queue), !.needsPull = TRUE, !.state = s] \in BranchType
        BY <3>1, <1>4, <2>4, BranchRecords
      <4>. QED
        BY <4>1, <2>2
    <3>3. got'[i] \in Seq(Nat)
      BY <1>4, <2>2, <2>4
    <3>. QED
      BY <3>2, <3>3
  <2>6. /\ b'[i].queue = Tail(b[i].queue) /\ b'[i].state = s /\ b'[i].reads = b[i].reads
        /\ b'[i].closeRequested = b[i].closeRequested /\ b'[i].errorRequested = b[i].errorRequested
    BY <1>4, <2>2 DEF BranchType
  <2>8. BranchInv(i)' /\ EndInv(i)'
    BY <1>0, <1>2, <1>3, <1>5, <2>4, <2>6, <2>7 DEF OneInv, BranchInv, EndInv
  <2>9. got'[i] \o (b'[i].queue \o Sent(i)) = got[i] \o (b[i].queue \o Sent(i))
    <3>1. Append(got[i], Head(b[i].queue)) \o (Tail(b[i].queue) \o Sent(i)) = got[i] \o (b[i].queue \o Sent(i))
      <4>1. \A p, q, r \in Seq(Messages) : q # <<>> => Append(p, Head(q)) \o (Tail(q) \o r) = p \o (q \o r)
        BY Passing
      <4>. QED
        BY <1>4, <1>5, <4>1
    <3>. QED
      BY <3>1, <2>2, <2>6
  <2>10. SeenInv(i)'
    <3>1. CASE s = "closed"
      <4>1. b[i].state = "closing" /\ ctrl[i] = <<>> /\ Passed(i) /\ Tail(b[i].queue) = <<>>
        BY <3>1, <2>7, <2>4, <1>0 DEF OneInv, EndInv
      <4>2. Sent(i) = <<>> /\ Due(i) = source.yielded
        BY <4>1, FilterEmpty DEF Sent, Due, Passed
      <4>3. got'[i] \o (<<>> \o <<>>) = UpTo(source.yielded)
        BY <4>1, <4>2, <2>6, <2>9, <1>0 DEF OneInv, SeenInv, Holds
      <4>4. got'[i] \o (<<>> \o <<>>) = got'[i]
        BY <2>5
      <4>. QED
        BY <4>3, <4>4, <3>1, <2>6, <1>3 DEF SeenInv
    <3>2. CASE s # "closed"
      BY <3>2, <2>6, <2>7, <2>9, <1>0, <1>3 DEF OneInv, SeenInv, Holds
    <3>. QED
      BY <3>1, <3>2
  <2>. QED
    BY <1>1, <1>2, <1>4, <2>3, <2>5, <2>8, <2>10, BranchKeeps DEF OneInv
<1>6. CASE b[i].queue = <<>> /\ b[i].state = "open"
  <2>1. b' = [b EXCEPT ![i] = [b[i] EXCEPT !.reads = b[i].reads + 1, !.needsPull = TRUE]] /\ got' = got
    BY <1>6, <1>0 DEF Read, BranchStep, TypeOK
  <2>2. b'[i] = [b[i] EXCEPT !.reads = b[i].reads + 1, !.needsPull = TRUE] /\ got'[i] = got[i]
    BY <2>1, <1>0 DEF TypeOK
  <2>3. b' = [b EXCEPT ![i] = b'[i]] /\ got' = [got EXCEPT ![i] = got'[i]]
    BY <2>1, <2>2, <1>0 DEF TypeOK
  <2>5. b'[i] \in BranchType
    <3>1. b[i].reads + 1 \in Nat
      BY <1>4
    <3>. QED
      BY <3>1, <1>4, <2>2, BranchRecords, ZenonT(30)
  <2>6. /\ b'[i].queue = b[i].queue /\ b'[i].state = b[i].state
        /\ b'[i].closeRequested = b[i].closeRequested /\ b'[i].errorRequested = b[i].errorRequested
    BY <1>4, <2>2 DEF BranchType
  <2>7. OneInv(i)'
    BY ZenonT(30), <1>0, <1>2, <1>3, <1>6, <2>2, <2>6 DEF OneInv, BranchInv, EndInv, SeenInv, Holds
  <2>. QED
    BY <1>1, <1>2, <1>4, <2>2, <2>3, <2>5, <2>7, BranchKeeps
<1>7. CASE b[i].queue = <<>> /\ b[i].state # "open"
  <2>1. b' = b /\ got' = got
    BY <1>7 DEF Read
  <2>2. b' = [b EXCEPT ![i] = b'[i]] /\ got' = [got EXCEPT ![i] = got'[i]]
    BY <2>1, <1>0 DEF TypeOK
  <2>3. OneInv(i)'
    BY <1>0, <1>2, <1>3, <2>1 DEF OneInv, BranchInv, EndInv, SeenInv, Holds
  <2>. QED
    BY <1>1, <1>2, <1>4, <2>1, <2>2, <2>3, BranchKeeps
<1>. QED
  BY <1>5, <1>6, <1>7

(* Receive: a chunk goes to a read or to the queue, and keeps its place; an  *)
(* end finds nothing behind it.                                              *)
LEMMA ReceiveKeeps == ASSUME Inv, NEW i \in Branches, Receive(i) PROVE Inv'
<1>0. TypeOK /\ OneInv(i)
  BY DEF Inv, OneInv
<1>1. /\ UNCHANGED <<plan, coordVars, canceled, first, signal, at>> /\ asked' \in [Branches -> Nat]
      /\ b[i].state # "gone" /\ ctrl[i] # <<>> /\ ctrl' = [ctrl EXCEPT ![i] = Tail(@)]
  BY <1>0 DEF Receive, BranchStep, sourceVars, TypeOK
<1>2. ctrl' = [ctrl EXCEPT ![i] = ctrl'[i]] /\ at' = [at EXCEPT ![i] = at'[i]] /\ ctrl'[i] = Tail(ctrl[i]) /\ at'[i] = at[i]
  BY <1>0, <1>1 DEF TypeOK
<1>3. Canceling(i)' = Canceling(i) /\ Passed(i)' = Passed(i) /\ Due(i)' = Due(i) /\ source' = source /\ canceled' = canceled
  BY <1>1, <1>2, StandsStill DEF coordVars, Canceling
<1>4. /\ b[i] \in BranchType /\ ctrl[i] \in Seq(Messages) /\ got[i] \in Seq(Nat)
      /\ Sent(i) \in Seq(Messages) /\ b[i].queue \in Seq(Messages) /\ got[i] \in Seq(Messages)
      /\ b[i].queue \in Seq(Nat) /\ b[i].reads \in Nat
  BY <1>0, OneBranch DEF BranchType
<1> DEFINE m == Head(ctrl[i])
           rest == Filter(Tail(ctrl[i]), Chunks)
<1>5. /\ m \in Messages /\ m = ctrl[i][1] /\ Tail(ctrl[i]) \in Seq(Messages) /\ Len(ctrl[i]) \in Nat \ {0}
      /\ Len(Tail(ctrl[i])) = Len(ctrl[i]) - 1
      /\ \A k \in 1..Len(Tail(ctrl[i])) : k + 1 \in 1..Len(ctrl[i]) /\ Tail(ctrl[i])[k] = ctrl[i][k + 1]
  BY <1>1, <1>4, OffTheFront
<1>6. rest \in Seq(Messages) /\ Sent(i)' = rest
  BY <1>2, <1>5, FilterType DEF Sent
<1>7. Sent(i) = IF m \in Chunks THEN <<m>> \o rest ELSE rest
  BY <1>1, <1>4, FilterTail DEF Sent
<1>8. /\ \A k \in 1..Len(ctrl'[i]) : ctrl'[i][k] = Close => b[i].closeRequested /\ k = Len(ctrl'[i])
      /\ \A k \in 1..Len(ctrl'[i]) : ctrl'[i][k] = Error => b[i].errorRequested
      /\ m = Close => b[i].closeRequested /\ ctrl'[i] = <<>> /\ Len(ctrl[i]) = 1
      /\ m = Error => b[i].errorRequested
  <2>1. 1 \in 1..Len(ctrl[i])
    BY <1>5
  <2>2. m = Close => b[i].closeRequested /\ 1 = Len(ctrl[i])
    BY <1>0, <1>5, <2>1 DEF OneInv, EndInv
  <2>3. Len(ctrl[i]) = 1 => Tail(ctrl[i]) = <<>>
    BY <1>1, <1>4, OffTheFront
  <2>4. \A k \in 1..Len(ctrl'[i]) : ctrl'[i][k] = Close => b[i].closeRequested /\ k = Len(ctrl'[i])
    BY <1>0, <1>2, <1>5 DEF OneInv, EndInv
  <2>5. \A k \in 1..Len(ctrl'[i]) : ctrl'[i][k] = Error => b[i].errorRequested
    BY <1>0, <1>2, <1>5 DEF OneInv, EndInv
  <2>6. m = Error => b[i].errorRequested
    BY <1>0, <1>5, <2>1 DEF OneInv, EndInv
  <2>. QED
    BY <1>2, <2>2, <2>3, <2>4, <2>5, <2>6
<1>9. m \in Chunks <=> m > 0
  BY <1>5 DEF Messages, Chunks
<1>10. b[i].state = "closing" => FALSE
  BY <1>0, <1>1 DEF OneInv, EndInv
<1> HIDE DEF m, rest
<1>11. CASE m > 0 /\ b[i].state = "open" /\ Awaited(i)
  <2>0. b[i].reads - 1 \in Nat /\ b[i].queue = <<>>
    BY <1>0, <1>4, <1>11 DEF Awaited, OneInv, BranchInv
  <2>1. /\ b' = [b EXCEPT ![i] = [b[i] EXCEPT !.reads = b[i].reads - 1, !.needsPull = TRUE]]
        /\ got' = [got EXCEPT ![i] = Append(@, m)]
    <3>1. /\ b' = [b EXCEPT ![i].reads = @ - 1, ![i].needsPull = TRUE]
          /\ got' = [got EXCEPT ![i] = Append(@, m)]
      <4>1. m \in Int /\ b[i].reads \in Nat
        BY <1>5, <1>4 DEF Messages
      <4>. QED
        BY <4>1, <1>11 DEF Receive, m, Close, Error, Awaited
    <3>. QED
      BY <3>1, <1>0 DEF TypeOK
  <2>2. /\ b'[i] = [b[i] EXCEPT !.reads = b[i].reads - 1, !.needsPull = TRUE]
        /\ got'[i] = Append(got[i], m)
    BY <2>1, <1>0 DEF TypeOK
  <2>3. b' = [b EXCEPT ![i] = b'[i]] /\ got' = [got EXCEPT ![i] = got'[i]]
    BY <2>1, <2>2
  <2>4. b'[i] \in BranchType
    BY <2>0, <1>4, <2>2, BranchRecords, ZenonT(30)
  <2>5. got'[i] \in Seq(Nat)
    BY <2>2, <1>4, <1>9, <1>11 DEF Chunks
  <2>6. /\ b'[i].queue = b[i].queue /\ b'[i].state = b[i].state /\ b'[i].reads = b[i].reads - 1
        /\ b'[i].closeRequested = b[i].closeRequested /\ b'[i].errorRequested = b[i].errorRequested
    BY <1>4, <2>2 DEF BranchType
  <2>7. got'[i] \o (b'[i].queue \o rest) = got[i] \o (b[i].queue \o Sent(i))
    <3>1. Sent(i) = <<m>> \o rest /\ b[i].queue = <<>> /\ b'[i].queue = <<>>
      BY <1>7, <1>9, <1>11, <2>0, <2>6
    <3>2. \A p, r \in Seq(Messages) : \A x \in Messages : Append(p, x) \o r = p \o (<<x>> \o r)
      BY Joint
    <3>3. <<>> \o rest = rest /\ <<>> \o Sent(i) = Sent(i)
      BY <1>4, <1>6
    <3>4. Append(got[i], m) \o rest = got[i] \o (<<m>> \o rest)
      BY <3>2, <1>4, <1>5, <1>6
    <3>5. got'[i] \o (b'[i].queue \o rest) = Append(got[i], m) \o rest
      BY <3>1, <3>3, <2>2, Zenon
    <3>6. got[i] \o (b[i].queue \o Sent(i)) = got[i] \o (<<m>> \o rest)
      BY <3>1, <3>3, Zenon
    <3>. QED
      BY <3>4, <3>5, <3>6, Zenon
  <2>8. OneInv(i)'
    BY <1>0, <1>2, <1>3, <1>6, <1>8, <1>10, <1>11, <2>0, <2>6, <2>7 DEF OneInv, BranchInv, EndInv, SeenInv, Holds
  <2>. QED
    BY <1>1, <1>2, <1>5, <2>3, <2>4, <2>5, <2>8, BranchKeeps
<1>12. CASE m > 0 /\ b[i].state = "open" /\ ~Awaited(i)
  <2>1. /\ b' = [b EXCEPT ![i] = [b[i] EXCEPT !.queue = Append(b[i].queue, m), !.needsPull = TRUE]]
        /\ got' = got
    <3>1. b' = [b EXCEPT ![i].queue = Append(@, m), ![i].needsPull = TRUE] /\ got' = got
      <4>1. m \in Int /\ Awaited(i) \in BOOLEAN
        BY <1>5, <1>4 DEF Messages, Awaited
      <4>. QED
        BY SMTT(30), <4>1, <1>12 DEF Receive, m, Close, Error
    <3>. QED
      BY <3>1, <1>0 DEF TypeOK
  <2>2. /\ b'[i] = [b[i] EXCEPT !.queue = Append(b[i].queue, m), !.needsPull = TRUE]
        /\ got'[i] = got[i]
    BY <2>1, <1>0 DEF TypeOK
  <2>3. b' = [b EXCEPT ![i] = b'[i]] /\ got' = [got EXCEPT ![i] = got'[i]]
    BY <2>1, <2>2, <1>0 DEF TypeOK
  <2>4. b'[i] \in BranchType
    <3>1. Append(b[i].queue, m) \in Seq(Nat)
      BY <1>4, <1>9, <1>12 DEF Chunks
    <3>. QED
      BY <3>1, <1>4, <2>2, BranchRecords, ZenonT(30)
  <2>6. /\ b'[i].queue = Append(b[i].queue, m) /\ b'[i].state = b[i].state /\ b'[i].reads = b[i].reads
        /\ b'[i].closeRequested = b[i].closeRequested /\ b'[i].errorRequested = b[i].errorRequested
    BY <1>4, <2>2 DEF BranchType
  <2>7. got'[i] \o (b'[i].queue \o rest) = got[i] \o (b[i].queue \o Sent(i))
    <3>1. Sent(i) = <<m>> \o rest
      BY <1>7, <1>9, <1>12
    <3>2. \A q, r \in Seq(Messages) : \A x \in Messages : Append(q, x) \o r = q \o (<<x>> \o r)
      BY Joint
    <3>3. Append(b[i].queue, m) \o rest = b[i].queue \o (<<m>> \o rest)
      BY <3>2, <1>4, <1>5, <1>6
    <3>. QED
      BY <3>1, <3>3, <2>2, <2>6, Zenon
  <2>8. b[i].reads = 0
    BY <1>4, <1>12 DEF Awaited
  <2>9. OneInv(i)'
    <3>1. BranchInv(i)' /\ EndInv(i)'
      BY <1>0, <1>2, <1>3, <1>8, <1>12, <2>6, <2>8 DEF OneInv, BranchInv, EndInv
    <3>2. SeenInv(i)'
      BY <1>0, <1>3, <1>6, <1>12, <2>6, <2>7 DEF OneInv, SeenInv, Holds
    <3>. QED
      BY <3>1, <3>2 DEF OneInv
  <2>. QED
    BY <1>1, <1>2, <1>4, <1>5, <2>2, <2>3, <2>4, <2>9, BranchKeeps
<1>13. CASE m = Close /\ b[i].state = "open"
  <2>0. /\ rest = <<>> /\ Sent(i) = <<>> /\ Passed(i) /\ Due(i) = source.yielded /\ b[i].closeRequested
        /\ Tail(ctrl[i]) = <<>>
    <3>1. Tail(ctrl[i]) = <<>> /\ b[i].closeRequested /\ m \notin Chunks
      BY <1>2, <1>8, <1>9, <1>13 DEF Close
    <3>2. Passed(i)
      BY <3>1, <1>0 DEF OneInv, EndInv
    <3>. QED
      BY <3>1, <3>2, <1>7, FilterEmpty DEF rest, Passed, Due
  <2>1. b' = [b EXCEPT ![i] = Closes(b[i])] /\ got' = got
    BY <1>13, <1>0 DEF Receive, TypeOK, m, Close, Error
  <2>2. b'[i] = Closes(b[i]) /\ got'[i] = got[i]
    BY <2>1, <1>0 DEF TypeOK
  <2>3. b' = [b EXCEPT ![i] = b'[i]] /\ got' = [got EXCEPT ![i] = got'[i]]
    BY <2>1, <2>2, <1>0 DEF TypeOK
  <2>4. b'[i] \in BranchType
    <3>1. /\ [b[i] EXCEPT !.state = "closed", !.reads = 0] \in BranchType
          /\ [b[i] EXCEPT !.state = "closing"] \in BranchType
      BY <1>4 DEF BranchType
    <3>. QED
      BY <3>1, <2>2 DEF Closes
  <2>5. got[i] \o (b[i].queue \o <<>>) = UpTo(source.yielded)
    BY <1>0, <1>13, <2>0 DEF OneInv, SeenInv, Holds
  <2>6. CASE b[i].queue = <<>>
    <3>1. /\ b'[i].queue = <<>> /\ b'[i].state = "closed" /\ b'[i].reads = 0
          /\ b'[i].closeRequested = b[i].closeRequested /\ b'[i].errorRequested = b[i].errorRequested
      BY <1>4, <2>2, <2>6 DEF BranchType, Closes
    <3>2. <<>> \o <<>> = <<>> /\ got[i] \o <<>> = got[i]
      BY <1>4
    <3>3. got'[i] = UpTo(source.yielded)
      BY <2>2, <2>5, <2>6, <3>2
    <3>4. OneInv(i)'
      BY <1>0, <1>2, <1>3, <1>8, <1>13, <2>0, <3>1, <3>3 DEF OneInv, BranchInv, EndInv, SeenInv
    <3>. QED
      BY <1>1, <1>2, <1>4, <1>5, <2>2, <2>3, <2>4, <3>4, BranchKeeps
  <2>7. CASE b[i].queue # <<>>
    <3>1. /\ b'[i].queue = b[i].queue /\ b'[i].state = "closing" /\ b'[i].reads = b[i].reads
          /\ b'[i].closeRequested = b[i].closeRequested /\ b'[i].errorRequested = b[i].errorRequested
      BY <1>4, <2>2, <2>7 DEF BranchType, Closes
    <3>2. OneInv(i)'
      BY ZenonT(30), <1>0, <1>2, <1>3, <1>6, <1>8, <1>13, <2>0, <2>2, <2>5, <2>7, <3>1
      DEF OneInv, BranchInv, EndInv, SeenInv, Holds
    <3>. QED
      BY <1>1, <1>2, <1>4, <1>5, <2>2, <2>3, <2>4, <3>2, BranchKeeps
  <2>. QED
    BY <2>6, <2>7
<1>14. CASE m = Error /\ b[i].state \in {"open", "closing"}
  <2>1. b' = [b EXCEPT ![i] = [b[i] EXCEPT !.state = "errored", !.queue = <<>>, !.reads = 0]] /\ got' = got
    <3>1. b' = [b EXCEPT ![i].state = "errored", ![i].queue = <<>>, ![i].reads = 0] /\ got' = got
      BY SMTT(30), <1>14 DEF Receive, m, Close, Error
    <3>. QED
      BY <3>1, <1>0 DEF TypeOK
  <2>2. b'[i] = [b[i] EXCEPT !.state = "errored", !.queue = <<>>, !.reads = 0] /\ got'[i] = got[i]
    BY <2>1, <1>0 DEF TypeOK
  <2>3. b' = [b EXCEPT ![i] = b'[i]] /\ got' = [got EXCEPT ![i] = got'[i]]
    BY <2>1, <2>2, <1>0 DEF TypeOK
  <2>4. b'[i] \in BranchType
    <3>1. \A r \in BranchType : \A q \in Seq(Nat) : [r EXCEPT !.state = "errored", !.queue = q, !.reads = 0] \in BranchType
      BY DEF BranchType
    <3>2. <<>> \in Seq(Nat)
      OBVIOUS
    <3>. QED
      BY <3>1, <3>2, <1>4, <2>2
  <2>5. /\ b'[i].state = "errored" /\ b'[i].reads = 0
        /\ b'[i].closeRequested = b[i].closeRequested /\ b'[i].errorRequested = b[i].errorRequested
    BY <1>4, <2>2 DEF BranchType
  <2>6. OneInv(i)'
    BY <1>0, <1>2, <1>3, <1>8, <1>14, <2>5 DEF OneInv, BranchInv, EndInv, SeenInv
  <2>. QED
    BY <1>1, <1>2, <1>4, <1>5, <2>2, <2>3, <2>4, <2>6, BranchKeeps
<1>15. CASE ~(m > 0 /\ b[i].state = "open") /\ ~(m = Close /\ b[i].state = "open") /\ ~(m = Error /\ b[i].state \in {"open", "closing"})
  <2>1. b' = b /\ got' = got
    BY <1>15 DEF Receive, m
  <2>2. b' = [b EXCEPT ![i] = b'[i]] /\ got' = [got EXCEPT ![i] = got'[i]]
    BY <2>1, <1>0 DEF TypeOK
  <2>3. b[i].state # "open"
    BY <1>5, <1>15 DEF Messages, Close, Error
  <2>4. OneInv(i)'
    BY <1>0, <1>2, <1>3, <1>8, <1>10, <2>1, <2>3 DEF OneInv, BranchInv, EndInv, SeenInv
  <2>. QED
    BY <1>1, <1>2, <1>4, <1>5, <2>1, <2>2, <2>4, BranchKeeps
<1>. QED
  BY <1>11, <1>12, <1>13, <1>14, <1>15

(* Pull: the demand is used up.                                              *)
LEMMA PullKeeps == ASSUME Inv, NEW i \in Branches, Pull(i) PROVE Inv'
<1>0. TypeOK /\ OneInv(i)
  BY DEF Inv, OneInv
<1>1. /\ UNCHANGED <<plan, coordVars, canceled, first, signal, ctrl, got>> /\ asked' \in [Branches -> Nat]
      /\ b' = [b EXCEPT ![i] = [b[i] EXCEPT !.needsPull = FALSE]] /\ at[i] = None
      /\ at' = [at EXCEPT ![i] = IF Room(i) > 0 \/ Awaited(i) THEN "pullStores" ELSE None]
  BY <1>0 DEF Pull, BranchStep, TypeOK
<1>2. /\ b'[i] = [b[i] EXCEPT !.needsPull = FALSE] /\ at'[i] \in {None, "pullStores"} /\ at' = [at EXCEPT ![i] = at'[i]]
      /\ b' = [b EXCEPT ![i] = b'[i]] /\ ctrl' = [ctrl EXCEPT ![i] = ctrl'[i]] /\ got' = [got EXCEPT ![i] = got'[i]]
  BY <1>0, <1>1 DEF TypeOK
<1>3. ~Canceling(i) /\ ~Canceling(i)' /\ Sent(i)' = Sent(i) /\ Passed(i)' = Passed(i) /\ Due(i)' = Due(i)
      /\ source' = source /\ canceled' = canceled
  BY <1>1, <1>2, StandsStill DEF coordVars, Canceling, Sent, None
<1>4. b[i] \in BranchType /\ ctrl[i] \in Seq(Messages) /\ got[i] \in Seq(Nat)
  BY <1>0, OneBranch
<1>5. /\ b'[i] \in BranchType /\ b'[i].queue = b[i].queue /\ b'[i].state = b[i].state /\ b'[i].reads = b[i].reads
      /\ b'[i].closeRequested = b[i].closeRequested /\ b'[i].errorRequested = b[i].errorRequested
  <2>1. \A r \in BranchType : [r EXCEPT !.needsPull = FALSE] \in BranchType
    BY DEF BranchType
  <2>. QED
    BY <2>1, <1>2, <1>4 DEF BranchType
<1>6. OneInv(i)'
  BY <1>0, <1>1, <1>3, <1>5 DEF OneInv, BranchInv, EndInv, SeenInv, Holds
<1>. QED
  BY <1>1, <1>2, <1>4, <1>5, <1>6, BranchKeeps

(* Cancel: the branch closes, and its cancel begins.                         *)
LEMMA CancelKeeps == ASSUME Inv, NEW i \in Branches, Cancel(i) PROVE Inv'
<1>0. TypeOK /\ OneInv(i)
  BY DEF Inv, OneInv
<1>1. /\ UNCHANGED <<plan, coordVars, canceled, first, signal, ctrl, got>> /\ asked' \in [Branches -> Nat]
      /\ b' = [b EXCEPT ![i] = [b[i] EXCEPT !.state = "closed", !.queue = <<>>, !.reads = 0]] /\ at[i] = None
      /\ at' = [at EXCEPT ![i] = "flag"] /\ b[i].state \in {"open", "closing"}
  BY <1>0 DEF Cancel, BranchStep, TypeOK
<1>2. /\ b'[i] = [b[i] EXCEPT !.state = "closed", !.queue = <<>>, !.reads = 0] /\ at'[i] = "flag"
      /\ at' = [at EXCEPT ![i] = at'[i]]
      /\ b' = [b EXCEPT ![i] = b'[i]] /\ ctrl' = [ctrl EXCEPT ![i] = ctrl'[i]] /\ got' = [got EXCEPT ![i] = got'[i]]
  BY <1>0, <1>1 DEF TypeOK
<1>3. Canceling(i)' /\ Passed(i)' = Passed(i) /\ source' = source /\ canceled' = canceled
  BY <1>1, <1>2, StandsStill DEF coordVars, Canceling
<1>4. b[i] \in BranchType /\ ctrl[i] \in Seq(Messages) /\ got[i] \in Seq(Nat)
  BY <1>0, OneBranch
<1>5. /\ b'[i] \in BranchType /\ b'[i].queue = <<>> /\ b'[i].state = "closed" /\ b'[i].reads = 0
      /\ b'[i].closeRequested = b[i].closeRequested /\ b'[i].errorRequested = b[i].errorRequested
  <2>1. \A r \in BranchType : \A q \in Seq(Nat) : [r EXCEPT !.state = "closed", !.queue = q, !.reads = 0] \in BranchType
    BY DEF BranchType
  <2>2. <<>> \in Seq(Nat)
    OBVIOUS
  <2>3. [b[i] EXCEPT !.state = "closed", !.queue = <<>>, !.reads = 0] \in BranchType
    BY <2>1, <2>2, <1>4
  <2>. QED
    BY <2>3, <1>2, <1>4 DEF BranchType
<1>6. OneInv(i)'
  BY <1>0, <1>1, <1>2, <1>3, <1>5 DEF OneInv, BranchInv, EndInv, SeenInv
<1>. QED
  BY <1>1, <1>2, <1>4, <1>5, <1>6, BranchKeeps

(* Drop: a branch that is gone promises nothing more.                        *)
LEMMA DropKeeps == ASSUME Inv, NEW i \in Branches, Drop(i) PROVE Inv'
<1>0. TypeOK /\ OneInv(i)
  BY DEF Inv, OneInv
<1>1. /\ UNCHANGED <<plan, coordVars, canceled, first, signal, at, got>> /\ asked' \in [Branches -> Nat]
      /\ b' = [b EXCEPT ![i] = [b[i] EXCEPT !.state = "gone", !.reads = 0]] /\ at[i] = None
      /\ ctrl' = [ctrl EXCEPT ![i] = <<>>]
  BY <1>0 DEF Drop, BranchStep, TypeOK, sourceVars
<1>2. /\ b'[i] = [b[i] EXCEPT !.state = "gone", !.reads = 0] /\ ctrl'[i] = <<>> /\ at' = [at EXCEPT ![i] = at'[i]]
      /\ b' = [b EXCEPT ![i] = b'[i]] /\ ctrl' = [ctrl EXCEPT ![i] = ctrl'[i]] /\ got' = [got EXCEPT ![i] = got'[i]]
      /\ at'[i] = at[i]
  BY <1>0, <1>1 DEF TypeOK
<1>3. ~Canceling(i)' /\ Passed(i)' = Passed(i) /\ source' = source /\ canceled' = canceled
  BY <1>1, <1>2, StandsStill DEF coordVars, Canceling, None
<1>4. b[i] \in BranchType /\ ctrl[i] \in Seq(Messages) /\ got[i] \in Seq(Nat) /\ <<>> \in Seq(Messages)
  BY <1>0, OneBranch
<1>5. /\ b'[i] \in BranchType /\ b'[i].state = "gone" /\ b'[i].reads = 0
      /\ b'[i].closeRequested = b[i].closeRequested /\ b'[i].errorRequested = b[i].errorRequested
  <2>1. \A r \in BranchType : [r EXCEPT !.state = "gone", !.reads = 0] \in BranchType
    BY DEF BranchType
  <2>2. [b[i] EXCEPT !.state = "gone", !.reads = 0] \in BranchType
    BY <2>1, <1>4
  <2>. QED
    BY <2>2, <1>2, <1>4 DEF BranchType
<1>6. OneInv(i)'
  <2>1. Len(ctrl'[i]) = 0
    BY <1>2
  <2>. QED
    BY <1>0, <1>1, <1>2, <1>3, <1>5, <2>1 DEF OneInv, BranchInv, EndInv, SeenInv
<1>. QED
  BY <1>1, <1>2, <1>4, <1>5, <1>6, BranchKeeps

-----------------------------------------------------------------------------
(* The steps of a TeeSource                                                 *)

AtType ==
    {None, "pullStores", "pullWakes", "flag", "cancelStores", "cancelWakes", "swap", "wait", "ok", "err"}

(* A step of branch i's TeeSource leaves the streams and the coordinator     *)
(* alone: what matters is that a cancel stays a cancel, that no branch is    *)
(* taken back, and the agreement of the two cancels.                         *)
LEMMA SourceKeeps ==
    ASSUME Inv, NEW i \in Branches, UNCHANGED <<plan, coordVars, branchVars>>,
           NEW v \in AtType, at' = [at EXCEPT ![i] = v],
           Canceling(i) <=> v \in {"flag", "cancelStores", "cancelWakes", "swap", "wait", "ok", "err"},
           canceled' = canceled \/ (at[i] = "flag" /\ canceled' = [canceled EXCEPT ![i] = TRUE]),
           first' \in BOOLEAN, signal' \in [signaled : BOOLEAN, waker : BOOLEAN, woken : BOOLEAN],
           Canceling(i) /\ v # "flag" => canceled'[i], CancelInv'
    PROVE  Inv'
<1>0. /\ at'[i] = v /\ \A j \in Branches : j # i => at'[j] = at[j]
      /\ canceled' \in [Branches -> BOOLEAN] /\ \A j \in Branches : canceled[j] => canceled'[j]
      /\ \A j \in Branches : j # i => canceled'[j] = canceled[j]
  BY DEF Inv, TypeOK
<1>1. TypeOK'
  <2>1. at' \in [Branches -> AtType]
    BY DEF Inv, TypeOK, AtType
  <2>. QED
    BY <1>0, <2>1 DEF Inv, TypeOK, coordVars, branchVars, AtType
<1>2. ASSUME NEW j \in Branches, j # i PROVE OneInv(j)'
  BY <1>0, <1>2, Elsewhere, StandsStill DEF Inv, OneInv, coordVars, branchVars
<1>3. OneInv(i)'
  <2>1. Canceling(i)' = Canceling(i) /\ Sent(i)' = Sent(i) /\ Passed(i)' = Passed(i) /\ Due(i)' = Due(i)
        /\ source' = source /\ b' = b /\ ctrl' = ctrl /\ got' = got
    BY <1>0, StandsStill DEF coordVars, branchVars, Canceling, Sent
  <2>2. canceled'[i] => b[i].state \in {"closed", "gone"}
    BY ZenonT(30), <1>0 DEF Inv, BranchInv, Canceling, TypeOK
  <2>3. BranchInv(i)'
    BY <1>0, <2>1, <2>2 DEF Inv, BranchInv
  <2>. QED
    BY <2>1, <2>3 DEF Inv, OneInv, EndInv, SeenInv, Holds
<1>4. SourceInv'
  BY <1>0 DEF Inv, SourceInv, coordVars, BothDead, Branches
<1>. QED
  BY <1>1, <1>2, <1>3, <1>4 DEF Inv, OneInv

(* Flag: a branch that is given up has closed.                               *)
LEMMA FlagKeeps == ASSUME Inv, NEW i \in Branches, Flag(i) PROVE Inv'
<1>1. /\ UNCHANGED <<plan, coordVars, branchVars, first, signal>> /\ at[i] = "flag" /\ at' = [at EXCEPT ![i] = "cancelStores"]
      /\ canceled' = [canceled EXCEPT ![i] = TRUE] /\ canceled'[i] /\ Canceling(i)
      /\ first' \in BOOLEAN /\ signal' \in [signaled : BOOLEAN, waker : BOOLEAN, woken : BOOLEAN]
  BY DEF Flag, SourceStep, BranchStep, Canceling, Inv, TypeOK
<1>2. CancelInv'
  <2>1. \A j \in Branches : \A v \in {"wait", "ok", "err"} : at'[j] = v <=> at[j] = v
    BY <1>1 DEF Inv, TypeOK
  <2>. QED
    BY <1>1, <2>1 DEF Inv, CancelInv, coordVars
<1>3. "cancelStores" \in AtType
  BY DEF AtType
<1>. QED
  BY <1>1, <1>2, <1>3, SourceKeeps

(* Stores and Wakes: the signal of a pull, or of a cancel.                   *)
LEMMA SignalKeeps == ASSUME Inv, NEW i \in Branches, Stores(i) \/ Wakes(i) PROVE Inv'
<1>0. TypeOK /\ OneInv(i)
  BY DEF Inv, OneInv
<1>1. PICK v \in {None, "pullWakes", "cancelWakes", "swap"} :
          /\ at' = [at EXCEPT ![i] = v] /\ UNCHANGED <<plan, coordVars, branchVars, first, canceled>>
          /\ v \in {None, "pullWakes"} => at[i] \in {"pullStores", "pullWakes"}
          /\ v \in {"cancelWakes", "swap"} => at[i] \in {"cancelStores", "cancelWakes"}
          /\ signal' \in [signaled : BOOLEAN, waker : BOOLEAN, woken : BOOLEAN]
  <2>1. CASE Stores(i)
    <3>1. PICK v \in {"pullWakes", "cancelWakes"} :
              at' = [at EXCEPT ![i] = v] /\ at[i] = IF v = "pullWakes" THEN "pullStores" ELSE "cancelStores"
      BY <2>1 DEF Stores, SourceStep
    <3>2. UNCHANGED <<plan, coordVars, branchVars, first, canceled>>
      BY <2>1 DEF Stores, SourceStep, BranchStep
    <3>3. signal' \in [signaled : BOOLEAN, waker : BOOLEAN, woken : BOOLEAN]
      BY <2>1, <1>0 DEF Stores, TypeOK
    <3>. QED
      BY <3>1, <3>2, <3>3 DEF None
  <2>2. CASE Wakes(i)
    <3>1. PICK v \in {None, "swap"} :
              at' = [at EXCEPT ![i] = v] /\ at[i] = IF v = None THEN "pullWakes" ELSE "cancelWakes"
      BY <2>2 DEF Wakes, SourceStep, None
    <3>2. UNCHANGED <<plan, coordVars, branchVars, first, canceled>>
      BY <2>2 DEF Wakes, SourceStep, BranchStep
    <3>3. signal' \in [signaled : BOOLEAN, waker : BOOLEAN, woken : BOOLEAN]
      <4>1. (signal.woken \/ signal.waker) \in BOOLEAN
        OBVIOUS
      <4>. QED
        BY <2>2, <1>0, <4>1 DEF Wakes, TypeOK
    <3>. QED
      BY <3>1, <3>2, <3>3 DEF None
  <2>. QED
    BY <2>1, <2>2
<1>2. CancelInv'
  <2>1. \A j \in Branches : \A u \in {"wait", "ok", "err"} : at'[j] = u <=> at[j] = u
    BY <1>0, <1>1 DEF TypeOK, None
  <2>. QED
    BY <1>1, <2>1 DEF Inv, CancelInv, coordVars
<1>3. v \in AtType /\ (Canceling(i) <=> v \in {"flag", "cancelStores", "cancelWakes", "swap", "wait", "ok", "err"})
  BY <1>1 DEF AtType, Canceling, None
<1>4. Canceling(i) => canceled'[i]
  BY <1>0, <1>1 DEF OneInv, BranchInv, Canceling
<1>5. first' \in BOOLEAN
  BY <1>0, <1>1 DEF TypeOK
<1>. QED
  BY <1>1, <1>2, <1>3, <1>4, <1>5, SourceKeeps

(* Swap: of the two cancels one finds the flag down.                         *)
LEMMA SwapKeeps == ASSUME Inv, NEW i \in Branches, Swap(i) PROVE Inv'
<1>0. TypeOK /\ OneInv(i) /\ CancelInv
  BY DEF Inv, OneInv
<1> DEFINE v == IF first THEN "wait" ELSE "ok"
<1>1. /\ UNCHANGED <<plan, coordVars, branchVars, canceled, signal>> /\ at[i] = "swap" /\ at' = [at EXCEPT ![i] = v]
      /\ first' = TRUE /\ Canceling(i)
      /\ signal' \in [signaled : BOOLEAN, waker : BOOLEAN, woken : BOOLEAN]
  BY <1>0 DEF Swap, SourceStep, BranchStep, Canceling, TypeOK
<1>2. v \in {"wait", "ok"} /\ v \in AtType
  BY <1>0 DEF AtType, TypeOK
<1>3. at'[i] = v /\ \A j \in Branches : j # i => at'[j] = at[j]
  BY <1>0, <1>1 DEF TypeOK
<1>4. CancelInv'
  <2>1. CASE first
    <3>1. PICK k \in Branches : /\ at[k] = "ok"
                                /\ \A j \in Branches : at[j] \in {"ok", "err"} /\ j # k => result # None /\ at[j] = result
      BY <2>1, <1>0 DEF CancelInv
    <3>2. k # i /\ at'[k] = "ok" /\ at'[i] = "wait" /\ result' = result
      BY <3>1, <2>1, <1>1, <1>3 DEF coordVars
    <3>3. \A j \in Branches : at'[j] \in {"ok", "err"} /\ j # k => result' # None /\ at'[j] = result'
      BY <3>1, <3>2, <1>3
    <3>. QED
      BY <3>2, <3>3, <1>1 DEF CancelInv
  <2>2. CASE ~first
    <3>1. \A j \in Branches : at[j] \notin {"wait", "ok", "err"}
      BY <2>2, <1>0 DEF CancelInv
    <3>2. at'[i] = "ok" /\ \A j \in Branches : at'[j] \in {"ok", "err"} => j = i
      BY <3>1, <2>2, <1>3
    <3>. QED
      BY <3>2, <1>1 DEF CancelInv
  <2>. QED
    BY <2>1, <2>2
<1>5. canceled'[i]
  BY <1>0, <1>1 DEF OneInv, BranchInv
<1> HIDE DEF v
<1>. QED
  BY <1>1, <1>2, <1>4, <1>5, SourceKeeps

(* Settle: the cancel that waited takes over the result.                     *)
LEMMA SettleKeeps == ASSUME Inv, NEW i \in Branches, Settle(i) PROVE Inv'
<1>0. TypeOK /\ OneInv(i) /\ CancelInv
  BY DEF Inv, OneInv
<1>1. /\ UNCHANGED <<plan, coordVars, branchVars, canceled, first, signal>> /\ at[i] = "wait" /\ at' = [at EXCEPT ![i] = result]
      /\ Canceling(i) /\ result \in {"ok", "err"} /\ result # None /\ result' = result
      /\ first' \in BOOLEAN /\ signal' \in [signaled : BOOLEAN, waker : BOOLEAN, woken : BOOLEAN]
  BY <1>0 DEF Settle, SourceStep, BranchStep, Canceling, TypeOK, coordVars
<1>2. result \in AtType
  BY <1>1 DEF AtType
<1>3. at'[i] = result /\ \A j \in Branches : j # i => at'[j] = at[j]
  BY <1>0, <1>1 DEF TypeOK
<1>4. CancelInv'
  <2>1. first
    BY <1>0, <1>1 DEF CancelInv
  <2>2. PICK k \in Branches : /\ at[k] = "ok"
                              /\ \A j \in Branches : at[j] \in {"ok", "err"} /\ j # k => result # None /\ at[j] = result
    BY <2>1, <1>0 DEF CancelInv
  <2>3. k # i /\ at'[k] = "ok"
    BY <2>2, <1>1, <1>3
  <2>4. \A j \in Branches : at'[j] \in {"ok", "err"} /\ j # k => result' # None /\ at'[j] = result'
    BY <2>2, <2>3, <1>1, <1>3
  <2>. QED
    BY <2>1, <2>3, <2>4, <1>1 DEF CancelInv
<1>5. canceled'[i]
  BY <1>0, <1>1 DEF OneInv, BranchInv
<1>. QED
  BY <1>1, <1>2, <1>4, <1>5, SourceKeeps

-----------------------------------------------------------------------------
(* The steps of the coordinator                                             *)

PcType ==
    {"top", "wait", "recheck", "parked", "decide", "reading", "give1", "give2", "end1", "end2", "canceling",
     "complete", "done"}

(* A step of the coordinator that leaves the branches alone.                 *)
LEMMA CoordKeeps ==
    ASSUME Inv, UNCHANGED <<plan, branchVars, at, canceled, first>>,
           signal' \in [signaled : BOOLEAN, waker : BOOLEAN, woken : BOOLEAN], pc' \in PcType,
           ending' \in {None, "Close", "Error"}, result' \in {None, "ok", "err"}, result = None \/ result' = result,
           source' \in [yielded : Nat, canceled : Nat], SourceInv',
           \A j \in Branches : /\ Passed(j) => Passed(j)'
                               /\ Due(j)' = Due(j)
                               /\ source'.yielded = source.yielded \/ ~Passed(j)
    PROVE  Inv'
<1>1. TypeOK'
  BY DEF Inv, TypeOK, branchVars, PcType
<1>2. ASSUME NEW j \in Branches PROVE OneInv(j)'
  BY Elsewhere DEF Inv, OneInv, branchVars
<1>3. CancelInv'
  BY DEF Inv, CancelInv, None
<1>. QED
  BY <1>1, <1>2, <1>3 DEF Inv, OneInv

(* Records that stay the source's.                                           *)
LEMMA SourceRecords ==
    \A s \in [yielded : Nat, canceled : Nat] : \A n \in Nat :
        /\ [s EXCEPT !.yielded = n] \in [yielded : Nat, canceled : Nat]
        /\ [s EXCEPT !.yielded = n].yielded = n /\ [s EXCEPT !.yielded = n].canceled = s.canceled
        /\ [s EXCEPT !.canceled = n] \in [yielded : Nat, canceled : Nat]
        /\ [s EXCEPT !.canceled = n].canceled = n /\ [s EXCEPT !.canceled = n].yielded = s.yielded
  OBVIOUS

(* Top, Wait, Recheck and Decide: the coordinator only looks, and goes to    *)
(* cancel the source only when both branches were given up.                  *)
LEMMA LooksKeeps == ASSUME Inv, Top \/ Wait \/ Recheck \/ Decide PROVE Inv'
<1>0. TypeOK /\ SourceInv
  BY DEF Inv
<1>1. /\ UNCHANGED <<plan, branchVars, at, canceled, first, ending, result, source>>
      /\ pc \in {"top", "wait", "parked", "recheck", "decide"}
      /\ pc' \in {"top", "wait", "parked", "recheck", "decide", "reading", "canceling"}
      /\ pc' = "canceling" => BothDead
  BY DEF Top, Wait, Recheck, Decide, Moves, Looks
<1>2. signal' \in [signaled : BOOLEAN, waker : BOOLEAN, woken : BOOLEAN]
  BY <1>0 DEF Top, Wait, Recheck, Decide, TypeOK
<1>3. SourceInv' /\ pc' \in PcType
  BY <1>0, <1>1 DEF SourceInv, BothDead, PcType
<1>4. \A j \in Branches : ~Passed(j) /\ Due(j)' = Due(j)
  BY <1>1 DEF Passed, Due
<1>. QED
  BY <1>0, <1>1, <1>2, <1>3, <1>4, CoordKeeps DEF TypeOK

(* Yields and Ends: the source returns.                                      *)
LEMMA ReturnsKeep == ASSUME Inv, Yields \/ \E e \in {"Close", "Error"} : Ends(e) PROVE Inv'
<1>0. TypeOK /\ SourceInv
  BY DEF Inv
<1>1. CASE Yields
  <2>1. /\ UNCHANGED <<plan, branchVars, at, canceled, first, signal, ending, result>>
        /\ pc = "reading" /\ pc' = "give1" /\ source' = [source EXCEPT !.yielded = @ + 1]
    BY <1>1 DEF Yields, Moves, sourceVars
  <2>2. /\ source' \in [yielded : Nat, canceled : Nat] /\ source'.yielded = source.yielded + 1
        /\ source'.canceled = source.canceled /\ source.yielded \in Nat
    <3>1. source.yielded + 1 \in Nat /\ source \in [yielded : Nat, canceled : Nat]
      BY <1>0 DEF TypeOK
    <3>. QED
      BY <2>1, <3>1, SourceRecords
  <2>3. SourceInv' /\ pc' \in PcType
    BY <1>0, <2>1, <2>2 DEF SourceInv, BothDead, PcType
  <2>4. \A j \in Branches : ~Passed(j) /\ Due(j)' = Due(j)
    BY <2>1, <2>2 DEF Passed, Due, Branches
  <2>. QED
    BY <1>0, <2>1, <2>2, <2>3, <2>4, CoordKeeps DEF TypeOK
<1>2. ASSUME NEW e \in {"Close", "Error"}, Ends(e) PROVE Inv'
  <2>1. /\ UNCHANGED <<plan, branchVars, at, canceled, first, signal, result, source>>
        /\ pc = "reading" /\ pc' = "end1" /\ ending' = e
    BY <1>2 DEF Ends, Moves, sourceVars
  <2>2. SourceInv' /\ pc' \in PcType
    BY <1>0, <2>1 DEF SourceInv, BothDead, PcType
  <2>3. \A j \in Branches : ~Passed(j) /\ Due(j)' = Due(j)
    BY <2>1 DEF Passed, Due
  <2>. QED
    BY <1>0, <2>1, <2>2, <2>3, CoordKeeps DEF TypeOK
<1>. QED
  BY <1>1, <1>2

(* Gives: the chunk joins what the branch holds, or the branch has ended.    *)
LEMMA GivesKeeps ==
    ASSUME Inv, NEW i \in Branches, (i = 1 /\ Gives("give1", 1, "give2")) \/ (i = 2 /\ Gives("give2", 2, "top"))
    PROVE  Inv'
<1>0. TypeOK /\ SourceInv /\ OneInv(i) /\ CancelInv
  BY DEF Inv, OneInv
<1>1. PICK from \in {"give1", "give2"}, to \in {"give2", "top"} :
          /\ Gives(from, i, to) /\ (i = 1 => from = "give1" /\ to = "give2") /\ (i = 2 => from = "give2" /\ to = "top")
  OBVIOUS
<1>2. /\ UNCHANGED <<plan, b, got, asked, at, first, signal, ending, result, source>> /\ pc = from /\ pc' = to
      /\ source.yielded \in Nat /\ source.yielded > 0
  BY <1>0, <1>1 DEF Gives, Moves, SourceInv, TypeOK
<1>3. \A j \in Branches : ~Passed(j) /\ ~Passed(j)'
  BY <1>1, <1>2 DEF Passed
<1>4. /\ \A j \in Branches : j # i => Due(j)' = Due(j)
      /\ Due(i) = source.yielded - 1 /\ Due(i)' = source.yielded
  BY <1>1, <1>2 DEF Due, Branches
<1>5. /\ b[i] \in BranchType /\ ctrl[i] \in Seq(Messages) /\ got[i] \in Seq(Nat) /\ canceled[i] \in BOOLEAN
      /\ Sent(i) \in Seq(Messages) /\ b[i].queue \in Seq(Messages) /\ got[i] \in Seq(Messages)
  BY <1>0, OneBranch
<1>6. ~b[i].closeRequested /\ ~b[i].errorRequested /\ b[i].state \in {"open", "closed", "gone"}
      /\ (b[i].state = "closed" => Canceling(i))
  BY <1>0, <1>3, <1>5 DEF OneInv, EndInv, BranchType
<1>7. SourceInv'
  <2>1. source.canceled = 0 /\ pc' # "canceling"
    BY <1>0, <1>2 DEF SourceInv
  <2>. QED
    BY <1>2, <2>1 DEF SourceInv
<1>8. CancelInv'
  BY <1>0, <1>2 DEF CancelInv
<1>9. ASSUME NEW j \in Branches, ctrl'[j] = ctrl[j], canceled'[j] = canceled[j], j # i \/ b[j].state # "open"
      PROVE  OneInv(j)'
  <2>1. BranchInv(j) /\ EndInv(j) /\ SeenInv(j)
    BY DEF Inv
  <2>2. CASE j # i
    BY <2>1, <2>2, <1>2, <1>3, <1>4, <1>9, Elsewhere DEF OneInv
  <2>3. CASE j = i
    BY <2>1, <2>3, <1>2, <1>3, <1>6, <1>9 DEF OneInv, BranchInv, EndInv, SeenInv, Canceling
  <2>. QED
    BY <2>2, <2>3
<1>10. CASE canceled[i] \/ Unusable(i)
  <2>1. ctrl' = ctrl /\ canceled' \in [Branches -> BOOLEAN] /\ (canceled' = canceled \/ canceled' = [canceled EXCEPT ![i] = TRUE])
    BY <1>0, <1>1, <1>10 DEF Gives, TypeOK
  <2>2. b[i].state \in {"closed", "gone"}
    BY <1>0, <1>6, <1>10 DEF OneInv, BranchInv, Unusable
  <2>3. ASSUME NEW j \in Branches PROVE OneInv(j)'
    <3>1. CASE canceled'[j] = canceled[j]
      BY <3>1, <1>9, <2>1, <2>2
    <3>2. CASE canceled'[j] # canceled[j]
      <4>1. j = i /\ canceled'[i]
        BY <3>2, <2>1, <1>0 DEF TypeOK
      <4>2. BranchInv(i)' /\ EndInv(i)' /\ SeenInv(i)'
        BY <4>1, <1>0, <1>2, <1>3, <1>6, <2>1, <2>2 DEF OneInv, BranchInv, EndInv, SeenInv, Canceling
      <4>. QED
        BY <4>1, <4>2 DEF OneInv
    <3>. QED
      BY <3>1, <3>2
  <2>4. TypeOK'
    BY <1>0, <1>1, <1>2, <2>1 DEF TypeOK
  <2>. QED
    BY <1>7, <1>8, <2>3, <2>4 DEF Inv, OneInv
<1>11. CASE ~canceled[i] /\ ~Unusable(i)
  <2> DEFINE y == source.yielded
  <2>1. canceled' = canceled /\ ctrl' = [ctrl EXCEPT ![i] = Append(ctrl[i], y)] /\ b[i].state = "open"
    BY <1>0, <1>1, <1>11 DEF Gives, TypeOK, Unusable
  <2>2. ctrl'[i] = Append(ctrl[i], y) /\ (\A j \in Branches : j # i => ctrl'[j] = ctrl[j]) /\ ctrl' \in [Branches -> Seq(Messages)]
    <3>1. y \in Messages
      BY <1>2 DEF Messages
    <3>. QED
      BY <2>1, <3>1, <1>0 DEF TypeOK
  <2>3. Sent(i)' = Append(Sent(i), y)
    <3>1. y \in Messages /\ y \in Chunks
      BY <1>2 DEF Messages, Chunks
    <3>2. Filter(Append(ctrl[i], y), Chunks) = Append(Filter(ctrl[i], Chunks), y)
      <4> HIDE DEF y
      <4>1. \A s \in Seq(Messages) : \A x \in Messages :
                Filter(Append(s, x), Chunks) = IF x \in Chunks THEN Append(Filter(s, Chunks), x) ELSE Filter(s, Chunks)
        BY FilterAppend
      <4>. QED
        BY <3>1, <1>5, <4>1
    <3>. QED
      BY <2>2, <3>2 DEF Sent
  <2>4. got[i] \o (b[i].queue \o Sent(i)) = UpTo(y - 1)
    BY <1>0, <1>4, <2>1 DEF OneInv, SeenInv, Holds
  <2>5. Append(UpTo(y - 1), y) = UpTo(y)
    <3>1. y - 1 \in Nat /\ (y - 1) + 1 = y
      BY <1>2
    <3>. QED
      BY <3>1, UpToFacts
  <2>6. y \in Messages
    BY <1>2 DEF Messages
  <2> HIDE DEF y
  <2>7. got[i] \o (b[i].queue \o Append(Sent(i), y)) = Append(got[i] \o (b[i].queue \o Sent(i)), y)
    <3>1. \A s, t \in Seq(Messages) : s \o t \in Seq(Messages) /\ \A x \in Messages : s \o Append(t, x) = Append(s \o t, x)
      BY Joining
    <3>2. b[i].queue \o Append(Sent(i), y) = Append(b[i].queue \o Sent(i), y) /\ b[i].queue \o Sent(i) \in Seq(Messages)
      BY <3>1, <1>5, <2>6
    <3>3. got[i] \o Append(b[i].queue \o Sent(i), y) = Append(got[i] \o (b[i].queue \o Sent(i)), y)
      BY <3>1, <3>2, <1>5, <2>6
    <3>. QED
      BY <3>2, <3>3, Zenon
  <2>8. SeenInv(i)'
    <3>1. got[i] \o (b[i].queue \o Append(Sent(i), y)) = UpTo(y)
      BY <2>4, <2>5, <2>7
    <3>. QED
      BY <3>1, <1>2, <1>4, <2>1, <2>3 DEF SeenInv, Holds, y
  <2>9. EndInv(i)'
    <3>1. \A k \in 1..Len(ctrl'[i]) : ctrl'[i][k] # Close /\ ctrl'[i][k] # Error
      <4>1. \A k \in 1..Len(ctrl[i]) : ctrl[i][k] # Close /\ ctrl[i][k] # Error
        BY <1>0, <1>6 DEF OneInv, EndInv
      <4>2. y # Close /\ y # Error
        BY <1>2 DEF y, Close, Error
      <4>3. \A k \in 1..Len(ctrl'[i]) : ctrl'[i][k] = y \/ (k \in 1..Len(ctrl[i]) /\ ctrl'[i][k] = ctrl[i][k])
        BY <1>5, <2>2, <2>6
      <4>. QED
        BY <4>1, <4>2, <4>3
    <3>. QED
      BY <3>1, <1>2, <1>6, <2>1 DEF EndInv
  <2>10. BranchInv(i)'
    BY <1>0, <1>2, <2>1 DEF OneInv, BranchInv, Canceling
  <2>11. ASSUME NEW j \in Branches, j # i PROVE OneInv(j)'
    BY <2>11, <1>9, <2>1, <2>2
  <2>12. TypeOK'
    BY <1>0, <1>1, <1>2, <2>1, <2>2 DEF TypeOK
  <2>. QED
    BY <1>7, <1>8, <2>8, <2>9, <2>10, <2>11, <2>12 DEF Inv, OneInv
<1>. QED
  BY <1>10, <1>11

(* EndsBranch: the end is asked for once, behind the chunks.                 *)
LEMMA EndsBranchKeeps ==
    ASSUME Inv, NEW i \in Branches,
           (i = 1 /\ EndsBranch("end1", 1, "end2")) \/ (i = 2 /\ EndsBranch("end2", 2, "complete"))
    PROVE  Inv'
<1>0. TypeOK /\ SourceInv /\ OneInv(i) /\ CancelInv
  BY DEF Inv, OneInv
<1>1. PICK from \in {"end1", "end2"}, to \in {"end2", "complete"} :
          /\ EndsBranch(from, i, to) /\ (i = 1 => from = "end1" /\ to = "end2") /\ (i = 2 => from = "end2" /\ to = "complete")
  OBVIOUS
<1>2. /\ UNCHANGED <<plan, got, asked, at, canceled, first, signal, ending, result, source>> /\ pc = from /\ pc' = to
  BY <1>1 DEF EndsBranch, Moves, sourceVars
<1>3. ~Passed(i) /\ Passed(i)' /\ \A j \in Branches : (Passed(j) => Passed(j)') /\ Due(j)' = Due(j)
  BY <1>1, <1>2 DEF Passed, Branches, Due
<1>4. /\ b[i] \in BranchType /\ ctrl[i] \in Seq(Messages) /\ got[i] \in Seq(Nat) /\ Sent(i) \in Seq(Messages)
  BY <1>0, OneBranch
<1>5. ~b[i].closeRequested /\ ~b[i].errorRequested /\ b[i].state \in {"open", "closed", "gone"}
      /\ (b[i].state = "closed" => Canceling(i))
      /\ \A k \in 1..Len(ctrl[i]) : ctrl[i][k] # Close /\ ctrl[i][k] # Error
  BY <1>0, <1>3, <1>4 DEF OneInv, EndInv, BranchType
<1>6. SourceInv'
  BY <1>0, <1>1, <1>2 DEF SourceInv, BothDead
<1>7. CancelInv'
  BY <1>0, <1>2 DEF CancelInv
<1>8. ASSUME NEW j \in Branches, ctrl'[j] = ctrl[j], b'[j] = b[j]
      PROVE  OneInv(j)'
  BY <1>2, <1>3, <1>8, Elsewhere DEF Inv, OneInv
<1>9. CASE b' = b /\ ctrl' = ctrl
  <2>1. TypeOK'
    BY <1>0, <1>1, <1>2, <1>9 DEF TypeOK
  <2>. QED
    BY <1>6, <1>7, <1>8, <1>9, <2>1 DEF Inv, OneInv
<1>10. ASSUME NEW m \in {Close, Error}, ctrl' = [ctrl EXCEPT ![i] = Append(ctrl[i], m)], b[i].state # "closed", b[i].state # "gone",
              m = Close => b' = [b EXCEPT ![i] = [b[i] EXCEPT !.closeRequested = TRUE]],
              m = Error => b' = [b EXCEPT ![i] = [b[i] EXCEPT !.errorRequested = TRUE]]
       PROVE  Inv'
  <2>1. m \in Messages /\ m \notin Chunks /\ Close # Error
    BY DEF Messages, Chunks, Close, Error
  <2>2. ctrl'[i] = Append(ctrl[i], m) /\ (\A j \in Branches : j # i => ctrl'[j] = ctrl[j]) /\ ctrl' \in [Branches -> Seq(Messages)]
    BY <1>0, <1>10, <2>1 DEF TypeOK
  <2>3. /\ \A j \in Branches : j # i => b'[j] = b[j]
        /\ b' \in [Branches -> BranchType]
        /\ b'[i].state = b[i].state /\ b'[i].queue = b[i].queue /\ b'[i].reads = b[i].reads
        /\ m = Close => b'[i].closeRequested
        /\ m = Error => b'[i].errorRequested
    <3>1. b \in [Branches -> BranchType]
      BY <1>0 DEF TypeOK, BranchType
    <3>2. CASE m = Close
      <4> DEFINE r == [b[i] EXCEPT !.closeRequested = TRUE]
      <4>1. /\ r \in BranchType /\ r.closeRequested /\ r.state = b[i].state /\ r.queue = b[i].queue
            /\ r.reads = b[i].reads
        BY <1>4 DEF BranchType
      <4>2. b' = [b EXCEPT ![i] = r]
        BY <3>2, <1>10
      <4> HIDE DEF r
      <4>3. b'[i] = r /\ (\A j \in Branches : j # i => b'[j] = b[j]) /\ b' \in [Branches -> BranchType]
        BY <3>1, <4>1, <4>2
      <4>. QED
        BY <4>1, <4>3, <3>2, <2>1
    <3>3. CASE m = Error
      <4> DEFINE r == [b[i] EXCEPT !.errorRequested = TRUE]
      <4>1. /\ r \in BranchType /\ r.errorRequested /\ r.state = b[i].state /\ r.queue = b[i].queue
            /\ r.reads = b[i].reads
        BY <1>4 DEF BranchType
      <4>2. b' = [b EXCEPT ![i] = r]
        BY <3>3, <1>10
      <4> HIDE DEF r
      <4>3. b'[i] = r /\ (\A j \in Branches : j # i => b'[j] = b[j]) /\ b' \in [Branches -> BranchType]
        BY <3>1, <4>1, <4>2
      <4>. QED
        BY <4>1, <4>3, <3>3, <2>1
    <3>. QED
      BY <3>2, <3>3
  <2>4. Sent(i)' = Sent(i)
    BY <1>4, <2>1, <2>2, FilterAppend DEF Sent
  <2>5. BranchInv(i)' /\ SeenInv(i)'
    BY <1>0, <1>2, <1>3, <1>5, <1>10, <2>3, <2>4 DEF OneInv, BranchInv, SeenInv, Holds, Canceling
  <2>6. EndInv(i)'
    <3>1. \A k \in 1..Len(ctrl'[i]) : (ctrl'[i][k] = m /\ k = Len(ctrl'[i])) \/ (k \in 1..Len(ctrl[i]) /\ ctrl'[i][k] = ctrl[i][k])
      BY <1>4, <2>1, <2>2
    <3>2. \A k \in 1..Len(ctrl'[i]) : ctrl'[i][k] \in {Close, Error} => ctrl'[i][k] = m /\ k = Len(ctrl'[i])
      BY <1>5, <3>1
    <3>3. /\ \A k \in 1..Len(ctrl'[i]) : ctrl'[i][k] = Close => b'[i].closeRequested /\ k = Len(ctrl'[i])
          /\ \A k \in 1..Len(ctrl'[i]) : ctrl'[i][k] = Error => b'[i].errorRequested
      BY <2>3, <3>2
    <3>. QED
      BY <3>3, <1>3, <1>5, <1>10, <2>3 DEF EndInv
  <2>7. ASSUME NEW j \in Branches, j # i PROVE OneInv(j)'
    BY <2>7, <1>8, <2>2, <2>3
  <2>8. TypeOK'
    BY <1>0, <1>1, <1>2, <2>2, <2>3 DEF TypeOK, BranchType
  <2>. QED
    BY <1>6, <1>7, <2>5, <2>6, <2>7, <2>8 DEF Inv, OneInv
<1>11. ending = "Close" \/ ending # "Close"
  OBVIOUS
<1>12. \/ b' = b /\ ctrl' = ctrl
       \/ \E m \in {Close, Error} :
              /\ ctrl' = [ctrl EXCEPT ![i] = Append(ctrl[i], m)] /\ b[i].state # "closed" /\ b[i].state # "gone"
              /\ m = Close => b' = [b EXCEPT ![i] = [b[i] EXCEPT !.closeRequested = TRUE]]
              /\ m = Error => b' = [b EXCEPT ![i] = [b[i] EXCEPT !.errorRequested = TRUE]]
  <2>1. Close # Error
    BY DEF Close, Error
  <2>2. CASE ending = "Close"
    BY <1>0, <1>1, <2>1, <2>2 DEF EndsBranch, Unusable, TypeOK
  <2>3. CASE ending # "Close"
    BY <1>0, <1>1, <2>1, <2>3 DEF EndsBranch, Unusable, TypeOK
  <2>. QED
    BY <2>2, <2>3
<1>. QED
  BY <1>9, <1>10, <1>12

(* CancelsSource and Complete: the source is cancelled when both branches    *)
(* were given up, and the first result stands.                               *)
LEMMA CompletesKeep == ASSUME Inv, (\E res \in {"ok", "err"} : CancelsSource(res)) \/ Complete PROVE Inv'
<1>0. TypeOK /\ SourceInv
  BY DEF Inv
<1>1. ASSUME NEW res \in {"ok", "err"}, CancelsSource(res) PROVE Inv'
  <2>1. /\ UNCHANGED <<plan, branchVars, at, canceled, first, signal, ending>>
        /\ pc = "canceling" /\ pc' = "complete" /\ source' = [source EXCEPT !.canceled = @ + 1]
        /\ result' = Completed(res)
    BY <1>1 DEF CancelsSource, Moves, sourceVars
  <2>2. source' \in [yielded : Nat, canceled : Nat] /\ source'.yielded = source.yielded /\ source'.canceled = 1
    <3>1. source.canceled = 0
      BY <1>0, <2>1 DEF SourceInv
    <3>2. source \in [yielded : Nat, canceled : Nat] /\ source' = [source EXCEPT !.canceled = 1]
      BY <3>1, <2>1, <1>0 DEF TypeOK
    <3>. QED
      BY <3>2, SourceRecords
  <2>3. SourceInv' /\ pc' \in PcType
    BY <1>0, <2>1, <2>2 DEF SourceInv, BothDead, PcType
  <2>4. \A j \in Branches : (Passed(j) => Passed(j)') /\ Due(j)' = Due(j)
    BY <2>1, <2>2 DEF Passed, Due
  <2>5. result' \in {None, "ok", "err"} /\ (result = None \/ result' = result)
    BY <1>0, <2>1 DEF TypeOK, Completed
  <2>. QED
    BY <1>0, <2>1, <2>2, <2>3, <2>4, <2>5, CoordKeeps DEF TypeOK
<1>2. CASE Complete
  <2>1. /\ UNCHANGED <<plan, branchVars, at, canceled, first, signal, ending, source>>
        /\ pc = "complete" /\ pc' = "done" /\ result' = Completed("ok")
    BY <1>2 DEF Complete, Moves, sourceVars
  <2>2. SourceInv' /\ pc' \in PcType
    BY <1>0, <2>1 DEF SourceInv, BothDead, PcType
  <2>3. \A j \in Branches : (Passed(j) => Passed(j)') /\ Due(j)' = Due(j)
    BY <2>1 DEF Passed, Due
  <2>4. result' \in {None, "ok", "err"} /\ (result = None \/ result' = result)
    BY <1>0, <2>1 DEF TypeOK, Completed
  <2>. QED
    BY <1>0, <2>1, <2>2, <2>3, <2>4, CoordKeeps DEF TypeOK
<1>. QED
  BY <1>1, <1>2

-----------------------------------------------------------------------------
(* The theorems                                                             *)

(* Every step keeps the invariant.                                           *)
LEMMA NextInv == Inv /\ [Next]_vars => Inv'
<1> SUFFICES ASSUME Inv, [Next]_vars PROVE Inv'
  OBVIOUS
<1>1. ASSUME NEW i \in Branches, Read(i) \/ Cancel(i) \/ Drop(i) PROVE Inv'
  BY <1>1, ReadKeeps, CancelKeeps, DropKeeps
<1>2. ASSUME NEW i \in Branches,
             Receive(i) \/ Pull(i) \/ Flag(i) \/ Stores(i) \/ Wakes(i) \/ Swap(i) \/ Settle(i)
      PROVE  Inv'
  BY <1>2, ReceiveKeeps, PullKeeps, FlagKeeps, SignalKeeps, SwapKeeps, SettleKeeps
<1>3. CASE SourceYieldsOrEnds
  BY <1>3, ReturnsKeep DEF SourceYieldsOrEnds
<1>4. CASE CoordinatorWork
  <2>1. 1 \in Branches /\ 2 \in Branches
    BY DEF Branches
  <2>2. CASE Gives("give1", 1, "give2") \/ Gives("give2", 2, "top")
    <3>1. \A i \in Branches : (i = 1 /\ Gives("give1", 1, "give2")) \/ (i = 2 /\ Gives("give2", 2, "top")) => Inv'
      BY GivesKeeps
    <3>. QED
      BY <2>1, <2>2, <3>1
  <2>3. CASE EndsBranch("end1", 1, "end2") \/ EndsBranch("end2", 2, "complete")
    <3>1. \A i \in Branches :
              (i = 1 /\ EndsBranch("end1", 1, "end2")) \/ (i = 2 /\ EndsBranch("end2", 2, "complete")) => Inv'
      BY EndsBranchKeeps
    <3>. QED
      BY <2>1, <2>3, <3>1
  <2>. QED
    BY <1>4, <2>2, <2>3, LooksKeeps, CompletesKeep DEF CoordinatorWork
<1>5. CASE UNCHANGED vars
  <2>1. UNCHANGED <<plan, b, ctrl, got, asked, at, canceled, first, signal, pc, ending, result, source>>
    BY <1>5 DEF vars, branchVars, sourceVars, coordVars
  <2>2. \A i \in Branches : BranchInv(i)' /\ EndInv(i)' /\ SeenInv(i)'
    BY <2>1, Elsewhere, StandsStill DEF Inv
  <2>. QED
    BY <2>1, <2>2 DEF Inv, TypeOK, SourceInv, CancelInv, BothDead
<1>. QED
  BY <1>1, <1>2, <1>3, <1>4, <1>5 DEF Next, UserStep, Work, BranchWork

(* The state keeps its types (TypeOK).                                       *)
THEOREM TeeTypes == Spec => []TypeOK
<1>1. Inv => TypeOK
  BY DEF Inv
<1>. QED
  BY <1>1, InitInv, NextInv, PTL DEF Spec

(* Each branch that was not given up sees the source's chunks once, in order *)
(* and without a gap, and closes only after all of them, whatever the other  *)
(* branch does and whatever the mode (distribute_chunk, close_branches).     *)
THEOREM TeeBothSeeAll == Spec => []BothSeeAll
<1>1. Inv => BothSeeAll
  BY DEF Inv, SeenInv, BothSeeAll, Canceling, None
<1>. QED
  BY <1>1, InitInv, NextInv, PTL DEF Spec

(* The source is cancelled at most once and only when both branches were     *)
(* given up, and of two cancels one answers for it (cancel_coordinated).     *)
THEOREM TeeCancelCoordinated == Spec => []CancelCoordinated
<1>1. Inv => CancelCoordinated
  <2> SUFFICES ASSUME Inv PROVE CancelCoordinated
    OBVIOUS
  <2>1. source.canceled <= 1 /\ (source.canceled = 1 => \A i \in Branches : canceled[i])
    BY DEF Inv, SourceInv, BothDead, Branches
  <2>2. ASSUME Answered(1), Answered(2)
        PROVE  result # None /\ (result = "err" <=> \E i \in Branches : at[i] = "err")
    <3>1. first
      BY <2>2 DEF Inv, CancelInv, Answered, Branches
    <3>2. PICK k \in Branches : /\ at[k] = "ok"
                                /\ \A j \in Branches : at[j] \in {"ok", "err"} /\ j # k => result # None /\ at[j] = result
      BY <3>1 DEF Inv, CancelInv
    <3>3. PICK j \in Branches : j # k /\ \A i \in Branches : i = j \/ i = k
      BY DEF Branches
    <3>4. at[j] \in {"ok", "err"}
      BY <2>2 DEF Answered, Branches
    <3>. QED
      BY <3>2, <3>3, <3>4
  <2>. QED
    BY <2>1, <2>2 DEF CancelCoordinated
<1>. QED
  BY <1>1, InitInv, NextInv, PTL DEF Spec

-----------------------------------------------------------------------------
(* Nobody is forgotten                                                      *)

\* The coordinator will be told, or will look, once more.
Asked == signal.signaled \/ \E k \in Branches : at[k] \in {"pullStores", "cancelStores"}

\* The branch is about to receive something, or to look whether to ask.
Stirring(i) == b[i].needsPull \/ ctrl[i] # <<>>

\* Branch j has no room, or has made some and is about to look whether it has.
Sits(j) == ~canceled[j] /\ (Desired(j) <= 0 \/ (b[j].needsPull /\ b[j].state = "open" /\ ~Fresh(j)))

\* A read of branch i waits because of the mode, j being the other branch.
SitsOut(i, j) ==
    \/ plan.mode = "SpecCompliant" /\ plan.hwm[i] = 0 /\ (canceled[j] \/ Sits(j))
    \/ plan.mode = "SlowestConsumer" /\ (plan.hwm[i] = 0 \/ Sits(j))
    \/ plan.mode = "Aggregate" /\ (Sits(j) \/ (plan.hwm[i] = 0 /\ canceled[j]))

(* A read that waits is on the coordinator's way, unless the mode keeps it.  *)
DemandInv(i, j) ==
    b[i].reads > 0 /\ ~Asked /\ ~Stirring(i) =>
        /\ pc \in {"top", "wait", "recheck", "parked"} => SitsOut(i, j)
        /\ pc = "give2" => i # 1

(* The coordinator does not sleep through a signal, nor through the cancel   *)
(* of both branches.                                                         *)
WakeInv ==
    pc = "parked" => /\ signal.waker \/ signal.woken
                     /\ signal.signaled => signal.woken \/ \E k \in Branches : at[k] \in {"pullWakes", "cancelWakes"}
DeadInv == BothDead /\ pc \in {"wait", "recheck", "parked"} => Asked

(* A branch that the coordinator has passed was told of the end.             *)
Told(i) == \E k \in 1..Len(ctrl[i]) : ctrl[i][k] \in {Close, Error}
ToldInv(i) == Passed(i) /\ b[i].state = "open" => Told(i)

AwakeInv ==
    /\ WakeInv /\ DeadInv
    /\ pc = "done" => result # None
    /\ \A i \in Branches : /\ at[i] # None => b[i].state # "gone"
                           /\ ToldInv(i)
                           /\ \A j \in Branches : j # i => DemandInv(i, j)

(* The invariant holds when tee() starts.                                    *)
LEMMA InitAwake == Init => AwakeInv
<1> SUFFICES ASSUME Init PROVE AwakeInv
  OBVIOUS
<1>1. pc = "top" /\ (\A i \in Branches : at[i] = None /\ b[i].reads = 0 /\ b[i].state = "open")
  BY DEF Init
<1>. QED
  BY <1>1 DEF AwakeInv, WakeInv, DeadInv, ToldInv, DemandInv, Passed

(* A step of branch i, or of its reader, in the terms of the invariant.      *)
LEMMA BranchAwake ==
    ASSUME AwakeInv, NEW i \in Branches, UNCHANGED <<plan, pc, result>>,
           \A k \in Branches : k # i => /\ b'[k] = b[k] /\ ctrl'[k] = ctrl[k] /\ at'[k] = at[k]
                                        /\ canceled'[k] = canceled[k] /\ asked'[k] = asked[k],
           canceled[i] => canceled'[i], at'[i] # None => b'[i].state # "gone",
           Asked => Asked', WakeInv', BothDead' => BothDead \/ Asked',
           b'[i].reads > 0 => Stirring(i)' \/ Asked' \/ (b[i].reads > 0 /\ ~Stirring(i)),
           Sits(i) /\ ~Passed(i) => Sits(i)' \/ Asked',
           b'[i].state = "open" => b[i].state = "open" /\ (Told(i) => Told(i)')
    PROVE  AwakeInv'
<1>1. DeadInv' /\ (pc' = "done" => result' # None)
  BY DEF AwakeInv, DeadInv
<1>2. ASSUME NEW k \in Branches PROVE (at'[k] # None => b'[k].state # "gone") /\ ToldInv(k)'
  <2>1. CASE k = i
    BY <2>1 DEF AwakeInv, ToldInv, Passed
  <2>2. CASE k # i
    BY <2>2 DEF AwakeInv, ToldInv, Passed, Told
  <2>. QED
    BY <2>1, <2>2
<1>3. ASSUME NEW k \in Branches, k # i PROVE DemandInv(i, k)' /\ DemandInv(k, i)'
  <2>1. DemandInv(i, k) /\ DemandInv(k, i)
    BY <1>3 DEF AwakeInv
  <2>2. Sits(k)' = Sits(k) /\ Stirring(k)' = Stirring(k) /\ b'[k].reads = b[k].reads /\ canceled'[k] = canceled[k]
    BY <1>3 DEF Sits, Stirring, Desired, Ended, Room, Fresh
  <2>3. SitsOut(i, k) => SitsOut(i, k)'
    BY <2>2 DEF SitsOut
  <2>4. DemandInv(i, k)'
    BY <2>1, <2>3 DEF DemandInv
  <2>5. pc \in {"top", "wait", "recheck", "parked"} /\ SitsOut(k, i) => SitsOut(k, i)' \/ Asked'
    <3>1. pc \in {"top", "wait", "recheck", "parked"} => ~Passed(i)
      BY DEF Passed
    <3>2. SitsOut(k, i) /\ (Sits(i) => Sits(i)') => SitsOut(k, i)'
      BY DEF SitsOut
    <3>. QED
      BY <3>1, <3>2
  <2>6. DemandInv(k, i)'
    BY <2>1, <2>2, <2>5 DEF DemandInv
  <2>. QED
    BY <2>4, <2>6
<1>4. ASSUME NEW k \in Branches, NEW j \in Branches, j # k PROVE DemandInv(k, j)'
  <2>1. k = i \/ j = i
    BY <1>4 DEF Branches
  <2>. QED
    BY <1>3, <1>4, <2>1
<1>. QED
  BY <1>1, <1>2, <1>4 DEF AwakeInv

(* A step that neither signals nor is in the middle of signalling.           *)
LEMMA Quietly ==
    ASSUME AwakeInv, NEW i \in Branches, UNCHANGED <<pc, signal>>, \A k \in Branches : k # i => at'[k] = at[k],
           at[i] \notin {"pullStores", "cancelStores", "pullWakes", "cancelWakes"} \/ at'[i] = at[i]
    PROVE  (Asked => Asked') /\ WakeInv'
<1>1. ASSUME NEW k \in Branches, NEW s \in {"pullStores", "cancelStores", "pullWakes", "cancelWakes"}, at[k] = s
      PROVE  at'[k] = s
  BY <1>1
<1>2. Asked => Asked'
  BY <1>1 DEF Asked
<1>3. WakeInv'
  BY <1>1 DEF AwakeInv, WakeInv
<1>. QED
  BY <1>2, <1>3

(* Read: a read that waits asks for a pull, and so does one that makes room. *)
LEMMA ReadAwake == ASSUME Inv, AwakeInv, NEW i \in Branches, Read(i) PROVE AwakeInv'
<1>0. TypeOK /\ BranchInv(i) /\ EndInv(i)
  BY DEF Inv
<1>1. /\ UNCHANGED <<plan, pc, result, ctrl, canceled, signal, at>> /\ b[i].state # "gone"
      /\ b[i] \in BranchType
  BY <1>0, OneBranch DEF Read, BranchStep, coordVars, sourceVars
<1>2. \/ /\ b[i].queue # <<>> /\ b'[i].needsPull = TRUE /\ b'[i].reads = b[i].reads
         /\ b'[i].state \in {b[i].state, "closed"}
         /\ b[i].state # "closing" => b'[i].state = b[i].state
      \/ b[i].state = "open" /\ b'[i].needsPull = TRUE /\ b'[i].state = "open"
      \/ b'[i] = b[i]
  <2>1. CASE b[i].queue # <<>>
    BY <2>1, <1>0 DEF Read, TypeOK
  <2>2. CASE b[i].queue = <<>>
    BY <2>2, <1>0 DEF Read, TypeOK
  <2>. QED
    BY <2>1, <2>2
<1>3. /\ \A k \in Branches : k # i => b'[k] = b[k] /\ asked'[k] = asked[k]
      /\ asked'[i] # 0
  BY <1>0 DEF Read, TypeOK
<1>4. (Asked => Asked') /\ WakeInv'
  BY <1>1, Quietly
<1>5. b'[i].reads > 0 => Stirring(i)' \/ (b[i].reads > 0 /\ ~Stirring(i))
  BY <1>1, <1>2 DEF Stirring
<1>6. b'[i].state # "gone" /\ (b'[i].state = "open" => b[i].state = "open")
  BY <1>0, <1>1, <1>2 DEF BranchInv
<1>7. Sits(i) /\ ~Passed(i) => Sits(i)'
  <2>1. CASE b'[i] = b[i]
    BY <2>1, <1>1, <1>3 DEF Sits, Desired, Ended, Room, Fresh
  <2>2. ~Passed(i) /\ b'[i] # b[i] => b'[i].state = "open" /\ b'[i].needsPull
    BY <1>0, <1>1, <1>2 DEF EndInv, BranchInv, BranchType, Canceling
  <2>. QED
    BY <1>1, <1>3, <2>1, <2>2 DEF Sits, Fresh
<1>8. (Told(i) => Told(i)') /\ (BothDead' => BothDead)
  BY <1>1 DEF Told, BothDead
<1>. QED
  BY <1>0, <1>1, <1>3, <1>4, <1>5, <1>6, <1>7, <1>8, BranchAwake DEF AwakeInv

(* Receive: what was taken is asked for anew.                                *)
LEMMA ReceiveAwake == ASSUME Inv, AwakeInv, NEW i \in Branches, Receive(i) PROVE AwakeInv'
<1>0. TypeOK /\ BranchInv(i) /\ EndInv(i)
  BY DEF Inv
<1> DEFINE m == Head(ctrl[i])
<1>1. /\ UNCHANGED <<plan, pc, result, canceled, signal, at>> /\ b[i].state # "gone" /\ ctrl[i] # <<>>
      /\ b[i] \in BranchType /\ ctrl[i] \in Seq(Messages) /\ ctrl'[i] = Tail(ctrl[i]) /\ asked' = asked
      /\ \A k \in Branches : k # i => b'[k] = b[k] /\ ctrl'[k] = ctrl[k]
  BY <1>0, OneBranch DEF Receive, BranchStep, coordVars, sourceVars, TypeOK
<1>2. /\ m \in Messages /\ m = ctrl[i][1] /\ Len(ctrl[i]) \in Nat \ {0} /\ Len(Tail(ctrl[i])) = Len(ctrl[i]) - 1
      /\ \A k \in 1..Len(Tail(ctrl[i])) : k + 1 \in 1..Len(ctrl[i]) /\ Tail(ctrl[i])[k] = ctrl[i][k + 1]
  BY <1>1, OffTheFront
<1>3. m \in Int /\ (m > 0 \/ m = Close \/ m = Error) /\ Awaited(i) \in BOOLEAN
  BY <1>1, <1>2 DEF Messages, Close, Error, Awaited, BranchType
<1> HIDE DEF m
<1>4. \/ /\ m > 0 /\ b[i].state = "open" /\ b'[i].state = "open" /\ b'[i].needsPull = TRUE
         /\ b'[i].closeRequested = b[i].closeRequested /\ b'[i].errorRequested = b[i].errorRequested
         /\ b'[i].queue = b[i].queue \/ b'[i].queue # <<>>
      \/ b'[i] = b[i] /\ b[i].state # "open"
      \/ /\ m = Close /\ b[i].state = "open" /\ b'[i].state \in {"closed", "closing"}
         /\ b'[i].reads = 0 \/ (b'[i].reads = b[i].reads /\ b[i].queue # <<>>)
      \/ m = Error /\ b'[i].state = "errored" /\ b'[i].reads = 0
  <2>1. CASE m > 0 /\ b[i].state = "open"
    <3>1. b' = [b EXCEPT ![i].reads = @ - 1, ![i].needsPull = TRUE]
          \/ b' = [b EXCEPT ![i].queue = Append(@, m), ![i].needsPull = TRUE]
      <4>1. Awaited(i) => b' = [b EXCEPT ![i].reads = @ - 1, ![i].needsPull = TRUE]
        BY SMTT(30), <2>1, <1>3 DEF Receive, m, Close, Error
      <4>2. CASE ~Awaited(i)
        <5>1. b' = [b EXCEPT ![i].queue = Append(@, m), ![i].needsPull = TRUE] /\ got' = got
          <6>1. m > 0 /\ b[i].state = "open" /\ ~Awaited(i) /\ m \in Int /\ Awaited(i) \in BOOLEAN
            BY <2>1, <4>2, <1>3
          <6>2. ~(m = Close /\ b[i].state = "open") /\ ~(m = Error /\ b[i].state \in {"open", "closing"})
            BY <6>1 DEF Close, Error
          <6>. QED
            BY ZenonT(30), <6>1, <6>2 DEF Receive, m
        <5>. QED
          BY <5>1
      <4>. QED
        BY <4>1, <4>2
    <3>. QED
      BY <2>1, <3>1, <1>0, <1>1 DEF TypeOK
  <2>2. CASE m = Close /\ b[i].state = "open"
    <3>1. b' = [b EXCEPT ![i] = Closes(@)]
      BY SMTT(30), <2>2, <1>3 DEF Receive, m, Close, Error
    <3>2. b'[i] = Closes(b[i])
      BY <3>1, <1>0 DEF TypeOK
    <3>. QED
      BY <2>2, <3>2, <1>1 DEF Closes, BranchType
  <2>3. CASE m = Error /\ b[i].state \in {"open", "closing"}
    BY <2>3, <1>0, <1>1 DEF Receive, m, TypeOK, BranchType, Error
  <2>4. CASE b[i].state # "open" /\ ~(m = Error /\ b[i].state \in {"open", "closing"})
    BY <2>4, <1>0 DEF Receive, m
  <2>. QED
    BY <1>3, <2>1, <2>2, <2>3, <2>4
<1>5. m \in {Close, Error} => Passed(i)
  <2>1. 1 \in 1..Len(ctrl[i])
    BY <1>2
  <2>. QED
    BY <1>0, <1>2, <2>1 DEF EndInv
<1>6. (Asked => Asked') /\ WakeInv'
  BY <1>1, Quietly
<1>7. b'[i].reads > 0 => Stirring(i)'
  BY <1>0, <1>1, <1>4 DEF Stirring, BranchInv, BranchType
<1>8. b'[i].state # "gone" /\ (b'[i].state = "open" => b[i].state = "open" /\ m > 0)
  BY <1>1, <1>4
<1>9. Sits(i) /\ ~Passed(i) => Sits(i)'
  <2>1. CASE b'[i] = b[i]
    BY <2>1, <1>1 DEF Sits, Desired, Ended, Room, Fresh
  <2> SUFFICES ASSUME Sits(i), ~Passed(i), b'[i] # b[i] PROVE Sits(i)'
    BY <2>1
  <2>2. /\ b[i].state = "open" /\ b'[i].state = "open" /\ b'[i].needsPull = TRUE
        /\ b'[i].closeRequested = b[i].closeRequested /\ b'[i].errorRequested = b[i].errorRequested
        /\ b'[i].queue = b[i].queue \/ b'[i].queue # <<>>
    BY <1>4, <1>5
  <2>3. CASE b'[i].queue # <<>>
    BY <1>1, <2>2, <2>3 DEF Sits, Fresh
  <2>4. CASE b'[i].queue = b[i].queue
    BY <1>1, <2>2, <2>4 DEF Sits, Fresh, Desired, Ended, Room
  <2>. QED
    BY <2>2, <2>3, <2>4
<1>10. b'[i].state = "open" => (Told(i) => Told(i)')
  <2> SUFFICES ASSUME b'[i].state = "open", NEW k \in 1..Len(ctrl[i]), ctrl[i][k] \in {Close, Error} PROVE Told(i)'
    BY DEF Told
  <2>1. k # 1 /\ k - 1 \in 1..Len(Tail(ctrl[i]))
    BY <1>2, <1>8 DEF Close, Error
  <2>2. Tail(ctrl[i])[k - 1] = ctrl[i][k]
    BY <1>2, <2>1
  <2>. QED
    BY <1>1, <2>1, <2>2 DEF Told, Close, Error
<1>. QED
  BY <1>0, <1>1, <1>6, <1>7, <1>8, <1>9, <1>10, BranchAwake DEF AwakeInv, BothDead

(* A branch's desired size is a number.                                      *)
LEMMA DesiredType ==
    ASSUME TypeOK, NEW i \in Branches
    PROVE  Desired(i) \in Int /\ plan.hwm[i] \in Nat /\ (Desired(i) > 0 => Room(i) > 0)
<1>1. plan.hwm[i] \in Nat
  BY TeeAssumption DEF TypeOK
<1>2. Len(b[i].queue) \in Nat
  BY OneBranch DEF BranchType
<1>. QED
  BY <1>1, <1>2 DEF Desired, Room

(* Pull: a branch with room, or with a read that waits, asks.                *)
LEMMA PullAwake == ASSUME Inv, AwakeInv, NEW i \in Branches, Pull(i) PROVE AwakeInv'
<1>0. TypeOK /\ b[i] \in BranchType /\ Desired(i) \in Int /\ (Desired(i) > 0 => Room(i) > 0)
  BY OneBranch, DesiredType DEF Inv
<1>1. /\ UNCHANGED <<plan, pc, result, ctrl, canceled, signal, asked>> /\ at[i] = None /\ b[i].state = "open"
      /\ at'[i] = (IF Room(i) > 0 \/ Awaited(i) THEN "pullStores" ELSE None)
      /\ b'[i] = [b[i] EXCEPT !.needsPull = FALSE]
      /\ \A k \in Branches : k # i => b'[k] = b[k] /\ at'[k] = at[k]
  BY <1>0 DEF Pull, BranchStep, coordVars, TypeOK
<1>2. /\ b'[i].state = "open" /\ b'[i].queue = b[i].queue /\ b'[i].reads = b[i].reads
      /\ b'[i].closeRequested = b[i].closeRequested /\ b'[i].errorRequested = b[i].errorRequested
  BY <1>0, <1>1 DEF BranchType
<1>3. (Asked => Asked') /\ WakeInv'
  BY <1>1, Quietly DEF None
<1>4. Desired(i) > 0 \/ Awaited(i) => Asked'
  BY <1>0, <1>1 DEF Asked
<1>5. Desired(i)' = Desired(i)
  BY <1>1, <1>2 DEF Desired, Ended, Room
<1>6. b'[i].reads > 0 => Asked'
  BY <1>2, <1>4 DEF Awaited
<1>7. Sits(i) => Sits(i)' \/ Asked'
  BY <1>0, <1>1, <1>4, <1>5 DEF Sits
<1>8. (Told(i) => Told(i)') /\ (BothDead' => BothDead)
  BY <1>1 DEF Told, BothDead
<1>. QED
  BY <1>1, <1>2, <1>3, <1>6, <1>7, <1>8, BranchAwake

(* Cancel and Drop: the branch wants nothing any more; one that is cancelled  *)
(* has no room, and one that is dropped the room it had.                     *)
LEMMA LeaveAwake == ASSUME Inv, AwakeInv, NEW i \in Branches, Cancel(i) \/ Drop(i) PROVE AwakeInv'
<1>0. TypeOK /\ b[i] \in BranchType
  BY OneBranch DEF Inv
<1>1. /\ UNCHANGED <<plan, pc, result, canceled, signal, asked>> /\ at[i] = None
      /\ b'[i].reads = 0 /\ b'[i].state \in {"closed", "gone"}
      /\ \A k \in Branches : k # i => b'[k] = b[k] /\ at'[k] = at[k] /\ ctrl'[k] = ctrl[k]
      /\ at'[i] = None \/ b'[i].state = "closed"
  <2>1. CASE Cancel(i)
    BY <2>1, <1>0 DEF Cancel, BranchStep, coordVars, TypeOK, BranchType
  <2>2. CASE Drop(i)
    BY <2>2, <1>0 DEF Drop, BranchStep, coordVars, sourceVars, TypeOK, BranchType
  <2>. QED
    BY <2>1, <2>2
<1>2. (Asked => Asked') /\ WakeInv'
  BY <1>1, Quietly DEF None
<1>3. Sits(i) => Sits(i)'
  <2>1. CASE b'[i].state = "closed"
    BY <1>1, <2>1 DEF Sits, Desired, Ended
  <2>2. CASE Drop(i)
    <3>1. /\ b'[i].queue = b[i].queue /\ b'[i].state = "gone" /\ b[i].state \in {"open", "closing"}
          /\ b'[i].closeRequested = b[i].closeRequested /\ b'[i].errorRequested = b[i].errorRequested
          /\ b[i].state = "open" /\ b[i].needsPull => Fresh(i)
      BY <2>2, <1>0 DEF Drop, TypeOK, BranchType
    <3>. QED
      BY <1>1, <3>1 DEF Sits, Desired, Ended, Room
  <2>3. Cancel(i) => b'[i].state = "closed"
    BY <1>0 DEF Cancel, TypeOK
  <2>. QED
    BY <2>1, <2>2, <2>3
<1>4. (BothDead' => BothDead) /\ ~(b'[i].reads > 0)
  BY <1>1 DEF BothDead
<1>. QED
  BY <1>1, <1>2, <1>3, <1>4, BranchAwake DEF None

(* A step of a TeeSource: the signal of a cancel comes after its flag.       *)
LEMMA SourceAwake ==
    ASSUME AwakeInv, NEW i \in Branches, UNCHANGED <<plan, coordVars, branchVars>>, at[i] # None,
           \A k \in Branches : k # i => at'[k] = at[k] /\ canceled'[k] = canceled[k],
           canceled[i] => canceled'[i], canceled' = canceled \/ Asked',
           Asked => Asked', WakeInv'
    PROVE  AwakeInv'
<1>1. UNCHANGED <<plan, pc, result, b, ctrl>>
  BY DEF coordVars, branchVars
<1>2. b[i].state # "gone" /\ (Told(i) => Told(i)') /\ (BothDead' => BothDead \/ Asked') /\ Stirring(i)' = Stirring(i)
  BY <1>1 DEF AwakeInv, Told, BothDead, Stirring
<1>3. asked' = asked /\ (Sits(i) => Sits(i)' \/ Asked')
  BY <1>1 DEF Sits, Desired, Ended, Room, Fresh, branchVars
<1>4. b'[i].reads > 0 => Stirring(i)' \/ (b[i].reads > 0 /\ ~Stirring(i))
  BY <1>1, <1>2
<1>. QED
  BY <1>1, <1>2, <1>3, <1>4, BranchAwake

(* Flag, Swap and Settle neither raise nor take the signal.                  *)
LEMMA QuietSourceAwake ==
    ASSUME Inv, AwakeInv, NEW i \in Branches, Flag(i) \/ Swap(i) \/ Settle(i)
    PROVE  AwakeInv'
<1>1. /\ UNCHANGED <<plan, coordVars, branchVars, signal>> /\ at[i] \in {"flag", "swap", "wait"}
      /\ \A k \in Branches : k # i => at'[k] = at[k] /\ canceled'[k] = canceled[k]
      /\ canceled[i] => canceled'[i]
      /\ canceled' = canceled \/ at'[i] = "cancelStores"
  <2>1. CASE Flag(i)
    BY <2>1 DEF Flag, SourceStep, BranchStep, Inv, TypeOK
  <2>2. CASE Swap(i)
    BY <2>2 DEF Swap, SourceStep, BranchStep, Inv, TypeOK
  <2>3. CASE Settle(i)
    BY <2>3 DEF Settle, SourceStep, BranchStep, Inv, TypeOK
  <2>. QED
    BY <2>1, <2>2, <2>3
<1>2. (Asked => Asked') /\ WakeInv'
  BY <1>1, Quietly DEF coordVars
<1>3. at'[i] = "cancelStores" => Asked'
  BY DEF Asked
<1>. QED
  BY <1>1, <1>2, <1>3, SourceAwake DEF None

(* Stores: the flag is up, and the waker will be taken.                      *)
LEMMA StoresAwake == ASSUME Inv, AwakeInv, NEW i \in Branches, Stores(i) PROVE AwakeInv'
<1>1. /\ UNCHANGED <<plan, coordVars, branchVars, canceled>> /\ at[i] \in {"pullStores", "cancelStores"}
      /\ \A k \in Branches : k # i => at'[k] = at[k]
      /\ at'[i] \in {"pullWakes", "cancelWakes"}
      /\ signal' = [signal EXCEPT !.signaled = TRUE]
  BY DEF Stores, SourceStep, BranchStep, Inv, TypeOK
<1>2. signal'.signaled /\ signal'.waker = signal.waker
  BY <1>1 DEF Inv, TypeOK
<1>3. Asked' /\ WakeInv'
  BY <1>1, <1>2 DEF Asked, AwakeInv, WakeInv, coordVars
<1>. QED
  BY <1>1, <1>3, SourceAwake DEF None

(* Wakes: a coordinator that sleeps is woken.                                *)
LEMMA WakesAwake == ASSUME Inv, AwakeInv, NEW i \in Branches, Wakes(i) PROVE AwakeInv'
<1>1. /\ UNCHANGED <<plan, coordVars, branchVars, canceled>> /\ at[i] \in {"pullWakes", "cancelWakes"}
      /\ \A k \in Branches : k # i => at'[k] = at[k]
      /\ signal' = [signal EXCEPT !.waker = FALSE, !.woken = @ \/ signal.waker]
  BY DEF Wakes, SourceStep, BranchStep, Inv, TypeOK
<1>2. signal'.signaled = signal.signaled /\ (signal.woken \/ signal.waker => signal'.woken)
  <2>1. \A x \in BOOLEAN : [signal EXCEPT !.waker = FALSE, !.woken = x].woken = x
                           /\ [signal EXCEPT !.waker = FALSE, !.woken = x].signaled = signal.signaled
    BY DEF Inv, TypeOK
  <2>2. (signal.woken \/ signal.waker) \in BOOLEAN
    OBVIOUS
  <2>. QED
    BY <1>1, <2>1, <2>2
<1>3. Asked => Asked'
  <2>1. \A k \in Branches : at[k] \in {"pullStores", "cancelStores"} => at'[k] = at[k]
    BY <1>1
  <2>. QED
    BY <1>2, <2>1 DEF Asked
<1>4. WakeInv'
  BY <1>1, <1>2 DEF AwakeInv, WakeInv, coordVars
<1>. QED
  BY <1>1, <1>3, <1>4, SourceAwake DEF None

(* What should_pull says in each mode.                                       *)
LEMMA ModeSays ==
    /\ plan.mode = "Unbounded" => (ShouldPull <=> \E i \in Branches : ~canceled[i])
    /\ plan.mode = "SpecCompliant" => (ShouldPull <=> \E i \in Branches : ~canceled[i] /\ Demand(i) > 0)
    /\ plan.mode = "SlowestConsumer" => (ShouldPull <=> \A i \in Branches : canceled[i] \/ Demand(i) > 0)
    /\ plan.mode = "Aggregate" => (ShouldPull <=> Demand(1) + Demand(2) > 0)
  BY DEF ShouldPull

(* The demand of a branch in which a read waits, and of the other.           *)
LEMMA DemandOfWaiting ==
    ASSUME Inv, NEW i \in Branches, NEW j \in Branches, j # i, b[i].reads > 0, ~Passed(i), ~Passed(j)
    PROVE  /\ ~canceled[i] /\ Demand(i) = plan.hwm[i] /\ plan.hwm[i] \in Nat
           /\ Demand(j) = IF canceled[j] THEN 0 ELSE Desired(j)
           /\ Desired(j) \in Int /\ Desired(i) = plan.hwm[i]
           /\ \A k \in Branches : k = i \/ k = j
           /\ Demand(1) + Demand(2) = plan.hwm[i] + Demand(j)
<1>1. TypeOK /\ BranchInv(i) /\ EndInv(i) /\ EndInv(j) /\ b[i] \in BranchType
  BY OneBranch DEF Inv
<1>2. b[i].state = "open" /\ b[i].queue = <<>> /\ ~canceled[i] /\ ~b[i].errorRequested /\ ~b[i].closeRequested
  BY <1>1 DEF BranchInv, EndInv
<1>3. plan.hwm[i] \in Nat /\ Desired(j) \in Int /\ Desired(i) = plan.hwm[i]
  <2>1. Len(b[i].queue) = 0
    BY <1>2
  <2>. QED
    BY <1>1, <1>2, <2>1, DesiredType DEF Desired, Ended, Room
<1>4. Demand(i) = plan.hwm[i] /\ Demand(j) = IF canceled[j] THEN 0 ELSE Desired(j)
  BY <1>2, <1>3 DEF Demand
<1>5. (i = 1 /\ j = 2) \/ (i = 2 /\ j = 1)
  BY DEF Branches
<1>6. Demand(j) \in Int
  BY <1>3, <1>4
<1>7. Demand(1) + Demand(2) = plan.hwm[i] + Demand(j)
  <2>1. Demand(1) + Demand(2) = Demand(i) + Demand(j)
    <3>1. \A x, y \in Int : x + y = y + x
      OBVIOUS
    <3>. QED
      BY <1>3, <1>4, <1>5, <1>6, <3>1
  <2>. QED
    BY <1>4, <2>1
<1>. QED
  BY <1>2, <1>3, <1>4, <1>5, <1>7 DEF Branches

(* A coordinator that does not pull has looked: the mode keeps the read.     *)
LEMMA MayWait ==
    ASSUME Inv, ~ShouldPull, NEW i \in Branches, NEW j \in Branches, j # i, b[i].reads > 0, ~Passed(i), ~Passed(j)
    PROVE  SitsOut(i, j)
<1>1. plan.mode \in Modes
  BY TeeAssumption DEF Inv, TypeOK
<1>2. CASE plan.mode = "Unbounded"
  BY <1>2, ModeSays, DemandOfWaiting
<1>3. CASE plan.mode = "SpecCompliant"
  <2>1. ~(plan.hwm[i] > 0) /\ (canceled[j] \/ ~(Desired(j) > 0))
    BY <1>3, ModeSays, DemandOfWaiting
  <2>. QED
    BY <1>3, <2>1, DemandOfWaiting DEF SitsOut, Sits
<1>4. CASE plan.mode = "SlowestConsumer"
  <2>1. ~(plan.hwm[i] > 0) \/ (~canceled[j] /\ ~(Desired(j) > 0))
    BY <1>4, ModeSays, DemandOfWaiting
  <2>. QED
    BY <1>4, <2>1, DemandOfWaiting DEF SitsOut, Sits
<1>5. CASE plan.mode = "Aggregate"
  <2>1. ~(plan.hwm[i] + (IF canceled[j] THEN 0 ELSE Desired(j)) > 0)
    BY <1>5, ModeSays, DemandOfWaiting
  <2>2. plan.hwm[i] \in Nat /\ Desired(j) \in Int
    BY DemandOfWaiting
  <2>3. IF canceled[j] THEN plan.hwm[i] = 0 ELSE Desired(j) <= 0
    BY <2>1, <2>2
  <2>. QED
    BY <1>5, <2>3 DEF SitsOut, Sits
<1>. QED
  BY <1>1, <1>2, <1>3, <1>4, <1>5 DEF Modes

(* Top, Wait, Recheck and Decide: the flag is looked at after the waker is   *)
(* stored, and taken only on the way to a decision.                          *)
LEMMA LooksAwake == ASSUME Inv, AwakeInv, Top \/ Wait \/ Recheck \/ Decide PROVE AwakeInv'
<1>1. /\ UNCHANGED <<plan, b, ctrl, at, canceled, result, asked>>
      /\ pc \in {"top", "wait", "parked", "recheck", "decide"}
      /\ pc' \in {"top", "wait", "parked", "recheck", "decide", "reading", "canceling"}
  BY DEF Top, Wait, Recheck, Decide, Moves, Looks, branchVars
<1>2. pc' \in {"wait", "recheck", "parked"} =>
          /\ pc \in {"top", "wait", "recheck", "parked"} /\ (signal.signaled => signal'.signaled)
          /\ pc = "top" => ~BothDead
          /\ pc' = "parked" => signal'.waker /\ ~signal'.signaled
  <2>1. CASE Top
    BY <2>1 DEF Top, Moves
  <2>2. CASE Wait
    BY <2>2 DEF Wait, Moves
  <2>3. CASE Recheck
    BY <2>3 DEF Recheck, Moves, Inv, TypeOK
  <2>4. CASE Decide
    BY <2>4 DEF Decide, Moves
  <2>. QED
    BY <2>1, <2>2, <2>3, <2>4
<1>3. pc' = "top" => ~ShouldPull
  BY DEF Top, Wait, Recheck, Decide, Moves
<1>4. pc' \in {"wait", "recheck", "parked"} => (Asked => Asked')
  BY <1>1, <1>2 DEF Asked
<1>5. WakeInv' /\ DeadInv'
  BY <1>1, <1>2, <1>4 DEF AwakeInv, WakeInv, DeadInv, BothDead
<1>6. ASSUME NEW i \in Branches, NEW j \in Branches, j # i PROVE DemandInv(i, j)'
  <2>1. ~Passed(i) /\ ~Passed(j)
    BY <1>1 DEF Passed
  <2>2. SitsOut(i, j) => SitsOut(i, j)'
    BY <1>1 DEF SitsOut, Sits, Desired, Ended, Room, Fresh
  <2>3. CASE pc' = "top"
    BY <1>1, <1>3, <1>6, <2>1, <2>2, <2>3, MayWait DEF DemandInv
  <2>4. CASE pc' # "top"
    BY <1>1, <1>2, <1>4, <1>6, <2>2, <2>4 DEF AwakeInv, DemandInv, Stirring
  <2>. QED
    BY <2>3, <2>4
<1>7. ASSUME NEW i \in Branches PROVE (at'[i] # None => b'[i].state # "gone") /\ ToldInv(i)'
  BY <1>1 DEF AwakeInv, ToldInv, Passed
<1>. QED
  BY <1>1, <1>5, <1>6, <1>7 DEF AwakeInv

(* A step of the coordinator past its wait, or on its way out.               *)
LEMMA WalksAwake ==
    ASSUME AwakeInv, at' = at, pc' \notin {"top", "wait", "recheck", "parked", "give2"},
           \A i \in Branches : b'[i].state = b[i].state /\ ToldInv(i)',
           pc' = "done" => result' # None
    PROVE  AwakeInv'
  BY DEF AwakeInv, WakeInv, DeadInv, DemandInv

(* Yields, Ends, CancelsSource and Complete: on its way out the coordinator  *)
(* leaves only branches that have ended behind, and a result.                *)
LEMMA ReturnsAwake ==
    ASSUME Inv, AwakeInv,
           \/ Yields \/ \E e \in {"Close", "Error"} : Ends(e)
           \/ \E res \in {"ok", "err"} : CancelsSource(res)
           \/ Complete
    PROVE  AwakeInv'
<1>1. /\ UNCHANGED <<b, ctrl, at>>
      /\ \/ pc = "reading" /\ pc' \in {"give1", "end1"}
         \/ pc = "canceling" /\ pc' = "complete"
         \/ pc = "complete" /\ pc' = "done" /\ result' # None
  BY DEF Yields, Ends, CancelsSource, Complete, Moves, Completed, branchVars, sourceVars, None
<1>2. ASSUME NEW i \in Branches PROVE ToldInv(i)'
  <2>1. pc = "canceling" => b[i].state # "open"
    BY DEF Inv, SourceInv, BothDead, BranchInv, Branches
  <2>2. pc = "complete" => ToldInv(i)'
    BY <1>1 DEF AwakeInv, ToldInv, Told, Passed
  <2>. QED
    BY <1>1, <2>1, <2>2 DEF ToldInv, Passed
<1>. QED
  BY <1>1, <1>2, WalksAwake

(* Gives: a branch that waits is handed the chunk, and the one served before *)
(* it keeps what it was handed, or has taken it and asks anew.               *)
LEMMA GivesAwake ==
    ASSUME Inv, AwakeInv, NEW i \in Branches,
           (i = 1 /\ Gives("give1", 1, "give2")) \/ (i = 2 /\ Gives("give2", 2, "top"))
    PROVE  AwakeInv'
<1>0. TypeOK /\ BranchInv(i) /\ EndInv(i)
  BY DEF Inv
<1>1. /\ UNCHANGED <<plan, b, at, signal, result>>
      /\ (i = 1 /\ pc = "give1" /\ pc' = "give2") \/ (i = 2 /\ pc = "give2" /\ pc' = "top")
      /\ \A k \in Branches : k # i => ctrl'[k] = ctrl[k]
      /\ canceled[i] \/ Unusable(i) \/ ctrl'[i] = Append(ctrl[i], source.yielded)
  <2>1. UNCHANGED <<plan, b, at, signal, result>>
    BY DEF Gives, Moves
  <2>2. (i = 1 /\ pc = "give1" /\ pc' = "give2") \/ (i = 2 /\ pc = "give2" /\ pc' = "top")
    BY DEF Gives, Moves
  <2>3. ctrl' = ctrl \/ ctrl' = [ctrl EXCEPT ![i] = Append(@, source.yielded)]
    BY DEF Gives
  <2>4. ~canceled[i] /\ ~Unusable(i) => ctrl' = [ctrl EXCEPT ![i] = Append(@, source.yielded)]
    BY DEF Gives
  <2>. QED
    BY <1>0, <2>1, <2>2, <2>3, <2>4 DEF TypeOK
<1>2. Append(ctrl[i], source.yielded) # <<>>
  BY <1>0, OneBranch DEF Messages
<1>3. b[i].reads > 0 => ctrl'[i] # <<>>
  <2>1. ~Passed(i)
    BY <1>1 DEF Passed
  <2>. QED
    BY <1>0, <1>1, <1>2, <2>1 DEF BranchInv, EndInv, Unusable
<1>4. Asked' = Asked
  BY <1>1 DEF Asked
<1>5. WakeInv' /\ DeadInv' /\ pc' # "done"
  BY <1>1 DEF WakeInv, DeadInv
<1>6. ASSUME NEW k \in Branches PROVE (at'[k] # None => b'[k].state # "gone") /\ ToldInv(k)'
  BY <1>1 DEF AwakeInv, ToldInv, Passed
<1>7. ASSUME NEW k \in Branches, NEW j \in Branches, j # k PROVE DemandInv(k, j)'
  <2>1. CASE k = i
    BY <1>1, <1>3, <2>1 DEF DemandInv, Stirring
  <2>2. CASE k # i
    BY <1>1, <1>4, <1>7, <2>2 DEF AwakeInv, DemandInv, Stirring, Branches
  <2>. QED
    BY <2>1, <2>2
<1>. QED
  BY <1>5, <1>6, <1>7 DEF AwakeInv

(* EndsBranch: the branch is told, or has ended by itself.                   *)
LEMMA EndsAwake ==
    ASSUME Inv, AwakeInv, NEW i \in Branches,
           (i = 1 /\ EndsBranch("end1", 1, "end2")) \/ (i = 2 /\ EndsBranch("end2", 2, "complete"))
    PROVE  AwakeInv'
<1>0. TypeOK /\ EndInv(i) /\ b[i] \in BranchType /\ ctrl[i] \in Seq(Messages)
  BY OneBranch DEF Inv
<1> DEFINE m == IF ending = "Close" THEN Close ELSE Error
<1>1. /\ at' = at /\ pc \in {"end1", "end2"} /\ (i = 1 => pc = "end1") /\ (i = 2 => pc = "end2")
      /\ pc' = IF i = 1 THEN "end2" ELSE "complete"
      /\ \A k \in Branches : k # i => ctrl'[k] = ctrl[k] /\ b'[k] = b[k]
      /\ ~Unusable(i) => ctrl'[i] = Append(ctrl[i], m)
      /\ b'[i].state = b[i].state
  <2>1. at' = at /\ \A k \in Branches : k # i => ctrl'[k] = ctrl[k] /\ b'[k] = b[k]
    BY <1>0 DEF EndsBranch, sourceVars, TypeOK
  <2>2. ~Unusable(i) => ctrl'[i] = Append(ctrl[i], m)
    BY <1>0 DEF EndsBranch, TypeOK, Unusable
  <2>3. b'[i].state = b[i].state
    <3>1. b' = b \/ b' = [b EXCEPT ![i].closeRequested = TRUE] \/ b' = [b EXCEPT ![i].errorRequested = TRUE]
      BY DEF EndsBranch
    <3>. QED
      BY <3>1, <1>0 DEF TypeOK, BranchType
  <2>. QED
    BY <2>1, <2>2, <2>3 DEF EndsBranch, Moves
<1>2. m \in {Close, Error} /\ m \in Messages
  BY DEF Messages, Close, Error
<1> HIDE DEF m
<1>3. b[i].state = "open" => Told(i)'
  <2> SUFFICES ASSUME b[i].state = "open" PROVE Told(i)'
    OBVIOUS
  <2>1. ~Unusable(i)
    BY <1>0, <1>1 DEF EndInv, Unusable, Passed
  <2>2. ctrl'[i] = Append(ctrl[i], m)
    BY <1>1, <2>1
  <2>3. Len(ctrl'[i]) \in 1..Len(ctrl'[i]) /\ ctrl'[i][Len(ctrl'[i])] = m
    BY <1>0, <1>2, <2>2
  <2>. QED
    BY <1>2, <2>3 DEF Told, Close, Error
<1>4. ASSUME NEW k \in Branches PROVE b'[k].state = b[k].state /\ ToldInv(k)'
  <2>1. CASE k = i
    BY <1>1, <1>3, <2>1 DEF ToldInv
  <2>2. CASE k # i
    BY <1>1, <2>2 DEF AwakeInv, ToldInv, Told, Passed, Branches
  <2>. QED
    BY <2>1, <2>2
<1>. QED
  BY <1>1, <1>4, WalksAwake

(* Every step keeps the invariant.                                           *)
LEMMA NextAwake == Inv /\ AwakeInv /\ [Next]_vars => AwakeInv'
<1> SUFFICES ASSUME Inv, AwakeInv, [Next]_vars PROVE AwakeInv'
  OBVIOUS
<1>1. ASSUME NEW i \in Branches, Read(i) \/ Cancel(i) \/ Drop(i) PROVE AwakeInv'
  BY <1>1, ReadAwake, LeaveAwake
<1>2. ASSUME NEW i \in Branches,
             Receive(i) \/ Pull(i) \/ Flag(i) \/ Stores(i) \/ Wakes(i) \/ Swap(i) \/ Settle(i)
      PROVE  AwakeInv'
  BY <1>2, ReceiveAwake, PullAwake, QuietSourceAwake, StoresAwake, WakesAwake
<1>3. CASE SourceYieldsOrEnds
  BY <1>3, ReturnsAwake DEF SourceYieldsOrEnds
<1>4. CASE CoordinatorWork
  <2>1. 1 \in Branches /\ 2 \in Branches
    BY DEF Branches
  <2>2. CASE Gives("give1", 1, "give2") \/ Gives("give2", 2, "top")
    <3>1. \A i \in Branches : (i = 1 /\ Gives("give1", 1, "give2")) \/ (i = 2 /\ Gives("give2", 2, "top")) => AwakeInv'
      BY GivesAwake
    <3>. QED
      BY <2>1, <2>2, <3>1
  <2>3. CASE EndsBranch("end1", 1, "end2") \/ EndsBranch("end2", 2, "complete")
    <3>1. \A i \in Branches :
              (i = 1 /\ EndsBranch("end1", 1, "end2")) \/ (i = 2 /\ EndsBranch("end2", 2, "complete")) => AwakeInv'
      BY EndsAwake
    <3>. QED
      BY <2>1, <2>3, <3>1
  <2>. QED
    BY <1>4, <2>2, <2>3, LooksAwake, ReturnsAwake DEF CoordinatorWork
<1>5. CASE UNCHANGED vars
  <2>1. UNCHANGED <<plan, b, ctrl, at, canceled, signal, pc, result, asked>>
    BY <1>5 DEF vars, branchVars, sourceVars, coordVars
  <2>2. Asked' = Asked /\ WakeInv' /\ DeadInv' /\ \A i \in Branches : ToldInv(i)' = ToldInv(i)
    BY <2>1 DEF AwakeInv, Asked, WakeInv, DeadInv, BothDead, ToldInv, Told, Passed
  <2>3. \A i, j \in Branches : DemandInv(i, j)' = DemandInv(i, j)
    BY <2>1, <2>2 DEF DemandInv, Stirring, SitsOut, Sits, Desired, Ended, Room, Fresh
  <2>. QED
    BY <2>1, <2>2, <2>3 DEF AwakeInv
<1>. QED
  BY <1>1, <1>2, <1>3, <1>4, <1>5 DEF Next, UserStep, Work, BranchWork

(* No demand is lost, whatever the interleaving of the branches' signals     *)
(* with the coordinator's look at them: at rest no cancel waits, and a read  *)
(* waits only because should_pull says so or, in Aggregate mode, while the   *)
(* other branch is at its mark (AsyncSignal, should_pull).                   *)
THEOREM TeeNoneForgotten == Spec => []NoneForgotten
<1>1. Inv /\ AwakeInv => NoneForgotten
  <2> SUFFICES ASSUME Inv, AwakeInv, AtRest, pc # "reading", NEW i \in Branches
               PROVE  /\ at[i] # "wait"
                      /\ b[i].reads > 0 =>
                            /\ pc = "parked"
                            /\ ~ShouldPull \/ (plan.mode = "Aggregate" /\ \E j \in Branches \ {i} : AtMark(j))
    BY DEF NoneForgotten
  <2>1. TypeOK /\ BranchInv(i) /\ EndInv(i) /\ ToldInv(i) /\ BranchRests(i) /\ CancelInv
    BY DEF Inv, AwakeInv, AtRest
  <2>2. pc \in {"parked", "done"} /\ (pc = "parked" => ~signal.woken)
    BY DEF AtRest
  <2>3. \A k \in Branches : at[k] \notin {"pullStores", "cancelStores", "pullWakes", "cancelWakes"}
    BY DEF AtRest, BranchRests, AwakeInv, None
  <2>4. pc = "parked" => ~Asked
    BY <2>2, <2>3 DEF AwakeInv, WakeInv, Asked
  <2>5. at[i] # "wait"
    <3> SUFFICES ASSUME at[i] = "wait" PROVE FALSE
      OBVIOUS
    <3>1. result = None /\ pc = "parked"
      BY <2>1, <2>2 DEF BranchRests, AwakeInv, None
    <3>2. PICK k \in Branches : at[k] = "ok"
      BY <2>1 DEF CancelInv
    <3>3. BothDead
      BY <3>2 DEF Inv, BranchInv, Canceling, BothDead, Branches
    <3>. QED
      BY <2>4, <3>1, <3>3 DEF AwakeInv, DeadInv
  <2>6. ASSUME b[i].reads > 0 PROVE pc = "parked"
    <3>1. b[i].state = "open" /\ ctrl[i] = <<>>
      BY <2>1, <2>6 DEF BranchInv, BranchRests
    <3>2. ~Told(i)
      BY <3>1 DEF Told
    <3>. QED
      BY <2>1, <2>2, <3>1, <3>2 DEF ToldInv, Passed
  <2>7. ASSUME b[i].reads > 0, ShouldPull
        PROVE  plan.mode = "Aggregate" /\ \E j \in Branches \ {i} : AtMark(j)
    <3>1. PICK j \in Branches : j # i
      BY DEF Branches
    <3>2. ~Passed(i) /\ ~Passed(j) /\ pc = "parked"
      BY <2>6, <2>7 DEF Passed
    <3>3. \A k \in Branches : b[k].state = "open" => ctrl[k] = <<>> /\ ~b[k].needsPull
      BY DEF AtRest, BranchRests, Inv, BranchInv, Canceling
    <3>4. ~Stirring(i) /\ (Sits(j) => AtMark(j))
      BY <2>1, <2>7, <3>3 DEF BranchInv, Stirring, Sits, AtMark
    <3>5. SitsOut(i, j)
      BY <2>4, <2>7, <3>1, <3>2, <3>4 DEF AwakeInv, DemandInv
    <3>6. CASE plan.mode = "SpecCompliant"
      <4>1. plan.hwm[i] = 0 /\ (canceled[j] \/ Desired(j) <= 0)
        BY <3>4, <3>5, <3>6 DEF SitsOut, AtMark
      <4>. QED
        BY <2>7, <3>1, <3>2, <3>6, <4>1, ModeSays, DemandOfWaiting
    <3>7. CASE plan.mode = "SlowestConsumer"
      <4>1. plan.hwm[i] = 0 \/ (~canceled[j] /\ Desired(j) <= 0)
        BY <3>4, <3>5, <3>7 DEF SitsOut, AtMark
      <4>. QED
        BY <2>7, <3>1, <3>2, <3>7, <4>1, ModeSays, DemandOfWaiting
    <3>8. CASE plan.mode = "Aggregate"
      <4>1. plan.hwm[i] = 0 /\ canceled[j] => Demand(1) + Demand(2) = 0
        BY <2>7, <3>1, <3>2, DemandOfWaiting
      <4>2. ~(plan.hwm[i] = 0 /\ canceled[j])
        BY <2>7, <3>8, <4>1, ModeSays
      <4>. QED
        BY <3>1, <3>4, <3>5, <3>8, <4>2 DEF SitsOut
    <3>. QED
      BY <3>5, <3>6, <3>7, <3>8 DEF SitsOut
  <2>. QED
    BY <2>5, <2>6, <2>7
<1>. QED
  BY <1>1, InitInv, NextInv, InitAwake, NextAwake, PTL DEF Spec
=============================================================================
