--------------------------------- MODULE Facts ---------------------------------
(***************************************************************************)
(* Facts about sequences that the proofs of the streams share.             *)
(***************************************************************************)
EXTENDS SeqFolds, Integers, SequenceTheorems, WellFoundedInduction, TLAPS

(* Every set of naturals that is not empty has a least element.             *)
LEMMA Least ==
    ASSUME NEW T \in SUBSET Nat, T # {}
    PROVE  \E m \in T : \A k \in T : m <= k
<1> DEFINE R == OpToRel(<, Nat)
<1>1. IsWellFoundedOn(R, Nat)
  BY NatLessThanWellFounded
<1>2. \E x \in T : \A y \in T : ~(<<y, x>> \in R)
  <2> HIDE DEF R
  <2> QED BY <1>1, WFMin
<1>3. PICK x \in T : \A y \in T : ~(<<y, x>> \in R)
  BY <1>2
<1>4. \A y \in T : ~(y < x)
  BY <1>3 DEF OpToRel
<1>. QED
  BY <1>4

(* Induction, over a set instead of a predicate.                            *)
LEMMA Induct ==
    ASSUME NEW S, 0 \in S, \A n \in Nat : n \in S => n + 1 \in S
    PROVE  Nat \subseteq S
<1> DEFINE T == Nat \ S
<1> SUFFICES ASSUME T # {} PROVE FALSE
  OBVIOUS
<1>1. PICK m \in T : \A k \in T : m <= k
  BY Least
<1>2. m # 0 /\ m - 1 \in Nat
  OBVIOUS
<1>3. m - 1 \in S
  BY <1>1, <1>2
<1>. QED
  BY <1>2, <1>3, <1>1

-----------------------------------------------------------------------------
(* What moves from one sequence to the next                                 *)

(* An element at a joint belongs to either side.                            *)
LEMMA Joint ==
    ASSUME NEW T
    PROVE  \A s, t \in Seq(T) : \A x \in T : Append(s, x) \o t = s \o (<<x>> \o t)
<1> SUFFICES ASSUME NEW s \in Seq(T), NEW t \in Seq(T), NEW x \in T
             PROVE  Append(s, x) \o t = s \o (<<x>> \o t)
  OBVIOUS
<1>1. <<x>> \in Seq(T)
  OBVIOUS
<1>2. Append(s, x) = s \o <<x>>
  BY AppendIsConcat
<1>. QED
  BY <1>1, <1>2, ConcatAssociative

(* What joins the second part joins the whole.                              *)
LEMMA Joining ==
    ASSUME NEW T
    PROVE  \A s, t \in Seq(T) : \A x \in T : s \o Append(t, x) = Append(s \o t, x)
  OBVIOUS

(* The head of a part that joins the part before it.                        *)
LEMMA Passing ==
    ASSUME NEW T
    PROVE  \A p, q, r \in Seq(T) : q # <<>> => Append(p, Head(q)) \o (Tail(q) \o r) = p \o (q \o r)
<1> SUFFICES ASSUME NEW p \in Seq(T), NEW q \in Seq(T), NEW r \in Seq(T), q # <<>>
             PROVE  Append(p, Head(q)) \o (Tail(q) \o r) = p \o (q \o r)
  OBVIOUS
<1> DEFINE h == Head(q)
           t == Tail(q)
<1>1. h \in T /\ t \in Seq(T) /\ <<h>> \in Seq(T) /\ q = <<h>> \o t
  OBVIOUS
<1> HIDE DEF h, t
<1>2. q \o r = <<h>> \o (t \o r) /\ t \o r \in Seq(T)
  BY <1>1, ConcatAssociative
<1>3. Append(p, h) \o (t \o r) = p \o (<<h>> \o (t \o r))
  BY SMTT(30), <1>1, <1>2, Joint
<1>. QED
  BY <1>2, <1>3 DEF h, t

(* The head and the rest of a sequence.                                     *)
LEMMA OffTheFront ==
    ASSUME NEW T, NEW q \in Seq(T), q # <<>>
    PROVE  /\ Head(q) \in T /\ Head(q) = q[1] /\ Tail(q) \in Seq(T) /\ q = <<Head(q)>> \o Tail(q)
           /\ Len(q) \in Nat \ {0} /\ Len(Tail(q)) = Len(q) - 1
           /\ (Len(q) = 1 <=> Tail(q) = <<>>)
           /\ \A k \in 1..Len(Tail(q)) : k + 1 \in 1..Len(q) /\ Tail(q)[k] = q[k + 1]
<1>1. /\ Head(q) \in T /\ Head(q) = q[1] /\ Tail(q) \in Seq(T) /\ q = <<Head(q)>> \o Tail(q)
      /\ Len(q) \in Nat \ {0} /\ Len(Tail(q)) = Len(q) - 1
      /\ \A k \in 1..Len(Tail(q)) : k + 1 \in 1..Len(q) /\ Tail(q)[k] = q[k + 1]
  OBVIOUS
<1>2. Len(q) = 1 <=> Tail(q) = <<>>
  <2> DEFINE t == Tail(q)
  <2>1. t \in Seq(T) /\ Len(t) = Len(q) - 1
    BY <1>1
  <2> HIDE DEF t
  <2>2. Len(t) = 0 <=> t = <<>>
    BY <2>1
  <2>. QED
    BY <1>1, <2>1, <2>2 DEF t
<1>. QED
  BY <1>1, <1>2

-----------------------------------------------------------------------------
(* Filter                                                                   *)

\* f is the run of the filter over the first n elements of s.
Runs(f, s, S, n) ==
    /\ f[0] = <<>>
    /\ \A i \in 1..n : f[i] = IF s[i] \in S THEN Append(f[i - 1], s[i]) ELSE f[i - 1]

(* A filter has a run over any prefix.                                      *)
LEMMA RunExists ==
    ASSUME NEW T, NEW s \in Seq(T), NEW S, NEW m \in 0..Len(s)
    PROVE  \E f \in [0..m -> Seq(T)] : Runs(f, s, S, m)
<1> DEFINE P == {n \in Nat : n <= Len(s) => \E f \in [0..n -> Seq(T)] : Runs(f, s, S, n)}
<1>1. 0 \in P
  <2>1. [i \in 0..0 |-> <<>>] \in [0..0 -> Seq(T)]
    OBVIOUS
  <2>2. Runs([i \in 0..0 |-> <<>>], s, S, 0)
    BY DEF Runs
  <2>. QED
    BY <2>1, <2>2
<1>2. ASSUME NEW n \in Nat, n \in P PROVE n + 1 \in P
  <2> SUFFICES ASSUME n + 1 <= Len(s)
               PROVE  \E f \in [0..n + 1 -> Seq(T)] : Runs(f, s, S, n + 1)
    OBVIOUS
  <2>1. PICK f \in [0..n -> Seq(T)] : Runs(f, s, S, n)
    BY <1>2
  <2> DEFINE last == IF s[n + 1] \in S THEN Append(f[n], s[n + 1]) ELSE f[n]
             g == [i \in 0..n + 1 |-> IF i = n + 1 THEN last ELSE f[i]]
  <2>2. last \in Seq(T)
    OBVIOUS
  <2>3. g \in [0..n + 1 -> Seq(T)]
    BY <2>2
  <2>4. g[0] = <<>> /\ g[n + 1] = last /\ \A i \in 0..n : g[i] = f[i]
    BY <2>1 DEF Runs
  <2>5. ASSUME NEW i \in 1..n + 1
        PROVE  g[i] = IF s[i] \in S THEN Append(g[i - 1], s[i]) ELSE g[i - 1]
    <3>1. CASE i = n + 1
      <4>1. g[i - 1] = f[n]
        BY <3>1, <2>4
      <4>. QED
        BY <3>1, <2>4, <4>1
    <3>2. CASE i # n + 1
      <4>1. i \in 1..n /\ g[i] = f[i] /\ g[i - 1] = f[i - 1]
        BY <3>2, <2>4
      <4> HIDE DEF g
      <4>. QED
        BY <4>1, <2>1 DEF Runs
    <3>. QED
      BY <3>1, <3>2
  <2>6. Runs(g, s, S, n + 1)
    <3> HIDE DEF g
    <3>. QED
      BY <2>4, <2>5 DEF Runs
  <2>. QED
    BY <2>3, <2>6
<1>3. Nat \subseteq P
  <2> HIDE DEF P
  <2>. QED
    BY <1>1, <1>2, Induct
<1>. QED
  BY <1>3

(* Two runs agree.                                                          *)
LEMMA RunUnique ==
    ASSUME NEW s, NEW S, NEW m \in Nat, NEW f, NEW g, Runs(f, s, S, m), Runs(g, s, S, m)
    PROVE  \A i \in 0..m : f[i] = g[i]
<1> DEFINE P == {n \in Nat : n <= m => f[n] = g[n]}
<1>1. 0 \in P
  BY DEF Runs
<1>2. \A n \in Nat : n \in P => n + 1 \in P
  BY DEF Runs
<1>3. Nat \subseteq P
  <2> HIDE DEF P
  <2>. QED
    BY <1>1, <1>2, Induct
<1>. QED
  BY <1>3

(* The filter is the end of its run.                                        *)
LEMMA FilterIsRun ==
    ASSUME NEW T, NEW s \in Seq(T), NEW S
    PROVE  \E f \in [0..Len(s) -> Seq(T)] : Runs(f, s, S, Len(s)) /\ Filter(s, S) = f[Len(s)]
<1>1. PICK f \in [0..Len(s) -> Seq(T)] : Runs(f, s, S, Len(s))
  <2>1. Len(s) \in 0..Len(s)
    OBVIOUS
  <2>. QED
    BY <2>1, RunExists
<1> DEFINE K(h) == [i \in 0..Len(s) |->
                      IF i = 0 THEN <<>>
                      ELSE IF s[i] \in S THEN Append(h[i - 1], s[i]) ELSE h[i - 1]]
           c == CHOOSE h : h = K(h)
<1>2. f = K(f)
  <2>1. ASSUME NEW i \in 0..Len(s)
        PROVE  f[i] = IF i = 0 THEN <<>>
                      ELSE IF s[i] \in S THEN Append(f[i - 1], s[i]) ELSE f[i - 1]
    <3>1. i = 0 \/ i \in 1..Len(s)
      OBVIOUS
    <3>. QED
      BY <1>1, <3>1 DEF Runs
  <2>. QED
    BY <2>1
<1>3. c = K(c)
  <2> HIDE DEF K
  <2>. QED
    BY <1>2
<1>4. Runs(c, s, S, Len(s))
  <2> HIDE DEF c
  <2>1. ASSUME NEW i \in 0..Len(s)
        PROVE  c[i] = IF i = 0 THEN <<>>
                      ELSE IF s[i] \in S THEN Append(c[i - 1], s[i]) ELSE c[i - 1]
    BY <1>3
  <2>. QED
    BY <2>1 DEF Runs
<1>5. Filter(s, S) = c[Len(s)]
  BY DEF Filter
<1>6. \A i \in 0..Len(s) : f[i] = c[i]
  <2> HIDE DEF c
  <2>. QED
    BY <1>1, <1>4, RunUnique
<1>. QED
  <2> HIDE DEF c
  <2>1. Filter(s, S) = f[Len(s)]
    BY <1>5, <1>6
  <2>. QED
    BY <1>1, <2>1

(* A filter keeps elements of the sequence.                                 *)
LEMMA FilterType ==
    ASSUME NEW T, NEW s \in Seq(T), NEW S
    PROVE  Filter(s, S) \in Seq(T)
  BY FilterIsRun

(* Nothing is left of the empty sequence.                                   *)
LEMMA FilterEmpty == ASSUME NEW S PROVE Filter(<<>>, S) = <<>>
<1>1. <<>> \in Seq({}) /\ Len(<<>>) = 0
  OBVIOUS
<1>2. PICK f \in [0..Len(<<>>) -> Seq({})] : Runs(f, <<>>, S, Len(<<>>)) /\ Filter(<<>>, S) = f[Len(<<>>)]
  BY <1>1, FilterIsRun
<1>. QED
  BY <1>1, <1>2 DEF Runs

(* What is appended is kept or not, after what was kept before.             *)
LEMMA FilterAppend ==
    ASSUME NEW T, NEW s \in Seq(T), NEW S, NEW x \in T
    PROVE  Filter(Append(s, x), S) = IF x \in S THEN Append(Filter(s, S), x) ELSE Filter(s, S)
<1> DEFINE t == Append(s, x)
           n == Len(s)
<1>1. t \in Seq(T) /\ Len(t) = n + 1 /\ t[n + 1] = x /\ \A i \in 1..n : t[i] = s[i]
  OBVIOUS
<1>2. PICK f \in [0..n -> Seq(T)] : Runs(f, s, S, n) /\ Filter(s, S) = f[n]
  BY FilterIsRun
<1>3. PICK g \in [0..Len(t) -> Seq(T)] : Runs(g, t, S, Len(t)) /\ Filter(t, S) = g[Len(t)]
  BY <1>1, FilterIsRun
<1>4. Runs(g, s, S, n)
  <2> HIDE DEF t
  <2>1. ASSUME NEW i \in 1..n PROVE g[i] = IF s[i] \in S THEN Append(g[i - 1], s[i]) ELSE g[i - 1]
    <3>1. i \in 1..Len(t) /\ t[i] = s[i]
      BY <1>1
    <3>. QED
      BY <1>3, <3>1 DEF Runs
  <2>. QED
    BY <1>3, <2>1 DEF Runs
<1>5. g[n] = f[n]
  BY <1>2, <1>4, RunUnique
<1>6. g[n + 1] = IF t[n + 1] \in S THEN Append(g[n], t[n + 1]) ELSE g[n]
  <2> HIDE DEF t
  <2>. QED
    BY <1>1, <1>3 DEF Runs
<1>. QED
  BY <1>1, <1>2, <1>3, <1>5, <1>6

(* A filter takes the head off first.                                       *)
LEMMA FilterTail ==
    ASSUME NEW T, NEW s \in Seq(T), NEW S, s # <<>>
    PROVE  Filter(s, S) = IF Head(s) \in S THEN <<Head(s)>> \o Filter(Tail(s), S) ELSE Filter(Tail(s), S)
<1> DEFINE t == Tail(s)
           m == Len(t)
           h == IF s[1] \in S THEN <<s[1]>> ELSE <<>>
<1>1. t \in Seq(T) /\ m \in Nat /\ Len(s) = m + 1 /\ \A i \in 1..m : t[i] = s[i + 1]
  OBVIOUS
<1>2. PICK f \in [0..Len(s) -> Seq(T)] : Runs(f, s, S, Len(s)) /\ Filter(s, S) = f[Len(s)]
  BY FilterIsRun
<1>3. PICK g \in [0..m -> Seq(T)] : Runs(g, t, S, m) /\ Filter(t, S) = g[m]
  BY <1>1, FilterIsRun
<1>4. h \in Seq(T) /\ s[1] \in T
  BY <1>1
<1> DEFINE P == {n \in Nat : n <= m => f[n + 1] = h \o g[n]}
<1>5. 0 \in P
  <2>1. 1 \in 1..Len(s) /\ 1 - 1 = 0
    BY <1>1
  <2>2. f[0] = <<>> /\ g[0] = <<>> /\ f[1] = IF s[1] \in S THEN Append(f[0], s[1]) ELSE f[0]
    <3> HIDE DEF t
    <3>. QED
      BY <2>1, <1>2, <1>3 DEF Runs
  <2>3. f[1] = h /\ h \o <<>> = h
    BY <2>2, <1>4
  <2> HIDE DEF h
  <2>. QED
    BY SMTT(30), <2>2, <2>3
<1>6. ASSUME NEW n \in Nat, n \in P PROVE n + 1 \in P
  <2> SUFFICES ASSUME n + 1 <= m PROVE f[n + 2] = h \o g[n + 1]
    <3> HIDE DEF t, h
    <3>1. (n + 1) + 1 = n + 2
      OBVIOUS
    <3>. QED
      BY <3>1
  <2>1. f[n + 1] = h \o g[n]
    <3> HIDE DEF t, h
    <3>. QED
      BY <1>6, <1>1
  <2> HIDE DEF t, h, P
  <2>2. f[n + 2] = IF s[n + 2] \in S THEN Append(f[n + 1], s[n + 2]) ELSE f[n + 1]
    BY <1>1, <1>2 DEF Runs
  <2>3. g[n + 1] = IF t[n + 1] \in S THEN Append(g[n], t[n + 1]) ELSE g[n]
    BY <1>1, <1>3 DEF Runs
  <2>4. t[n + 1] = s[n + 2] /\ t[n + 1] \in T /\ g[n] \in Seq(T)
    <3>1. n \in 0..m /\ n + 1 \in 1..m /\ n + 1 + 1 = n + 2
      BY <1>1
    <3>2. t[n + 1] = s[n + 2]
      BY <3>1, <1>1
    <3>3. t[n + 1] \in T
      BY <3>1, <1>1
    <3>. QED
      BY <3>1, <3>2, <3>3
  <2>5. h \o Append(g[n], t[n + 1]) = Append(h \o g[n], t[n + 1])
    BY SMTT(30), <1>4, <2>4
  <2>. QED
    BY <2>1, <2>2, <2>3, <2>4, <2>5
<1>7. m \in P
  <2> HIDE DEF P
  <2>. QED
    BY <1>1, <1>5, <1>6, Induct
<1>8. h \o Filter(t, S) = IF Head(s) \in S THEN <<Head(s)>> \o Filter(t, S) ELSE Filter(t, S)
  <2>1. Head(s) = s[1] /\ <<>> \o Filter(t, S) = Filter(t, S)
    <3> HIDE DEF t
    <3>. QED
      BY <1>1, <1>3
  <2>. QED
    BY <2>1
<1>9. Filter(s, S) = h \o Filter(t, S)
  <2> HIDE DEF t, h
  <2>. QED
    BY <1>1, <1>2, <1>3, <1>7
<1>. QED
  BY <1>8, <1>9

(* Nothing is left when no element is to be kept.                           *)
LEMMA FilterNone ==
    ASSUME NEW T, NEW s \in Seq(T), NEW S, \A k \in 1..Len(s) : s[k] \notin S
    PROVE  Filter(s, S) = <<>>
<1>1. PICK f \in [0..Len(s) -> Seq(T)] : Runs(f, s, S, Len(s)) /\ Filter(s, S) = f[Len(s)]
  BY FilterIsRun
<1> DEFINE P == {n \in Nat : n <= Len(s) => f[n] = <<>>}
<1>2. 0 \in P
  BY <1>1 DEF Runs
<1>3. \A n \in Nat : n \in P => n + 1 \in P
  BY <1>1 DEF Runs
<1>4. Len(s) \in P
  <2> HIDE DEF P
  <2>. QED
    BY <1>2, <1>3, Induct
<1>. QED
  BY <1>1, <1>4

-----------------------------------------------------------------------------
(* Total                                                                    *)

\* f is the run of the sum over the first n elements of s.
Adds(f, s, w, n) ==
    /\ f[0] = 0
    /\ \A i \in 1..n : f[i] = f[i - 1] + w[s[i]]

(* A sum has a run over any prefix.                                         *)
LEMMA AddsExists ==
    ASSUME NEW T, NEW s \in Seq(T), NEW w \in [T -> Nat], NEW m \in 0..Len(s)
    PROVE  \E f \in [0..m -> Nat] : Adds(f, s, w, m)
<1> DEFINE P == {n \in Nat : n <= Len(s) => \E f \in [0..n -> Nat] : Adds(f, s, w, n)}
<1>1. 0 \in P
  <2>1. [i \in 0..0 |-> 0] \in [0..0 -> Nat] /\ Adds([i \in 0..0 |-> 0], s, w, 0)
    BY DEF Adds
  <2>. QED
    BY <2>1
<1>2. ASSUME NEW n \in Nat, n \in P PROVE n + 1 \in P
  <2> SUFFICES ASSUME n + 1 <= Len(s)
               PROVE  \E f \in [0..n + 1 -> Nat] : Adds(f, s, w, n + 1)
    OBVIOUS
  <2>1. PICK f \in [0..n -> Nat] : Adds(f, s, w, n)
    BY <1>2
  <2> DEFINE last == f[n] + w[s[n + 1]]
             g == [i \in 0..n + 1 |-> IF i = n + 1 THEN last ELSE f[i]]
  <2>2. last \in Nat
    <3>1. s[n + 1] \in T /\ f[n] \in Nat
      OBVIOUS
    <3>2. w[s[n + 1]] \in Nat
      BY <3>1
    <3>. QED
      BY <3>1, <3>2
  <2>3. g \in [0..n + 1 -> Nat]
    BY <2>2
  <2>4. g[0] = 0 /\ g[n + 1] = last /\ \A i \in 0..n : g[i] = f[i]
    BY <2>1 DEF Adds
  <2>5. ASSUME NEW i \in 1..n + 1 PROVE g[i] = g[i - 1] + w[s[i]]
    <3>1. CASE i = n + 1
      <4>1. g[i - 1] = f[n]
        BY <3>1, <2>4
      <4>. QED
        BY <3>1, <2>4, <4>1
    <3>2. CASE i # n + 1
      <4>1. i \in 1..n /\ g[i] = f[i] /\ g[i - 1] = f[i - 1]
        BY <3>2, <2>4
      <4> HIDE DEF g
      <4>. QED
        BY <4>1, <2>1 DEF Adds
    <3>. QED
      BY <3>1, <3>2
  <2>6. Adds(g, s, w, n + 1)
    <3> HIDE DEF g
    <3>. QED
      BY <2>4, <2>5 DEF Adds
  <2>. QED
    BY <2>3, <2>6
<1>3. Nat \subseteq P
  <2> HIDE DEF P
  <2>. QED
    BY <1>1, <1>2, Induct
<1>. QED
  BY SMTT(30), <1>3

(* Two runs agree.                                                          *)
LEMMA AddsUnique ==
    ASSUME NEW s, NEW w, NEW m \in Nat, NEW f, NEW g, Adds(f, s, w, m), Adds(g, s, w, m)
    PROVE  \A i \in 0..m : f[i] = g[i]
<1> DEFINE P == {n \in Nat : n <= m => f[n] = g[n]}
<1>1. 0 \in P
  BY DEF Adds
<1>2. \A n \in Nat : n \in P => n + 1 \in P
  BY DEF Adds
<1>3. Nat \subseteq P
  <2> HIDE DEF P
  <2>. QED
    BY <1>1, <1>2, Induct
<1>. QED
  BY <1>3

(* The total is the end of its run.                                         *)
LEMMA TotalAdds ==
    ASSUME NEW T, NEW s \in Seq(T), NEW w \in [T -> Nat]
    PROVE  \E f \in [0..Len(s) -> Nat] : Adds(f, s, w, Len(s)) /\ Total(s, w) = f[Len(s)]
<1>1. PICK f \in [0..Len(s) -> Nat] : Adds(f, s, w, Len(s))
  <2>1. Len(s) \in 0..Len(s)
    OBVIOUS
  <2>. QED
    BY <2>1, AddsExists
<1> DEFINE K(h) == [i \in 0..Len(s) |-> IF i = 0 THEN 0 ELSE h[i - 1] + w[s[i]]]
           c == CHOOSE h : h = K(h)
<1>2. f = K(f)
  <2>1. ASSUME NEW i \in 0..Len(s) PROVE f[i] = IF i = 0 THEN 0 ELSE f[i - 1] + w[s[i]]
    <3>1. i = 0 \/ i \in 1..Len(s)
      OBVIOUS
    <3>. QED
      BY <1>1, <3>1 DEF Adds
  <2>. QED
    BY <2>1
<1>3. c = K(c)
  <2> HIDE DEF K
  <2>. QED
    BY <1>2
<1>4. Adds(c, s, w, Len(s))
  <2> HIDE DEF c
  <2>1. ASSUME NEW i \in 0..Len(s) PROVE c[i] = IF i = 0 THEN 0 ELSE c[i - 1] + w[s[i]]
    BY <1>3
  <2>. QED
    BY <2>1 DEF Adds
<1>5. Total(s, w) = c[Len(s)]
  BY DEF Total
<1>6. \A i \in 0..Len(s) : f[i] = c[i]
  <2> HIDE DEF c
  <2>. QED
    BY <1>1, <1>4, AddsUnique
<1>. QED
  <2> HIDE DEF c
  <2>1. Total(s, w) = f[Len(s)]
    BY <1>5, <1>6
  <2>. QED
    BY <1>1, <2>1

(* A total is a natural number, and nothing for the empty sequence.         *)
LEMMA TotalType ==
    ASSUME NEW T, NEW s \in Seq(T), NEW w \in [T -> Nat]
    PROVE  Total(s, w) \in Nat /\ (s = <<>> => Total(s, w) = 0)
<1>1. PICK f \in [0..Len(s) -> Nat] : Adds(f, s, w, Len(s)) /\ Total(s, w) = f[Len(s)]
  BY TotalAdds
<1>. QED
  BY <1>1 DEF Adds

(* What is appended adds its weight.                                        *)
LEMMA TotalAppend ==
    ASSUME NEW T, NEW s \in Seq(T), NEW w \in [T -> Nat], NEW x \in T
    PROVE  Total(Append(s, x), w) = Total(s, w) + w[x]
<1> DEFINE t == Append(s, x)
           n == Len(s)
<1>1. t \in Seq(T) /\ Len(t) = n + 1 /\ t[n + 1] = x /\ \A i \in 1..n : t[i] = s[i]
  OBVIOUS
<1>2. PICK f \in [0..n -> Nat] : Adds(f, s, w, n) /\ Total(s, w) = f[n]
  BY TotalAdds
<1>3. PICK g \in [0..Len(t) -> Nat] : Adds(g, t, w, Len(t)) /\ Total(t, w) = g[Len(t)]
  BY <1>1, TotalAdds
<1>4. Adds(g, s, w, n)
  <2> HIDE DEF t
  <2>1. ASSUME NEW i \in 1..n PROVE g[i] = g[i - 1] + w[s[i]]
    <3>1. i \in 1..Len(t) /\ t[i] = s[i]
      BY <1>1
    <3>. QED
      BY <1>3, <3>1 DEF Adds
  <2>. QED
    BY <1>3, <2>1 DEF Adds
<1>5. g[n] = f[n]
  BY <1>2, <1>4, AddsUnique
<1>6. g[n + 1] = g[n] + w[t[n + 1]]
  <2> HIDE DEF t
  <2>1. n \in Nat /\ n + 1 \in 1..Len(t) /\ (n + 1) - 1 = n
    BY <1>1
  <2>2. \A i \in 1..Len(t) : g[i] = g[i - 1] + w[t[i]]
    BY <1>3 DEF Adds
  <2> HIDE DEF n
  <2>. QED
    BY <2>1, <2>2
<1>. QED
  BY <1>1, <1>2, <1>3, <1>5, <1>6

(* The head counts by itself.                                               *)
LEMMA TotalTail ==
    ASSUME NEW T, NEW s \in Seq(T), NEW w \in [T -> Nat], s # <<>>
    PROVE  Total(s, w) = w[Head(s)] + Total(Tail(s), w)
<1> DEFINE t == Tail(s)
           m == Len(t)
           h == w[s[1]]
<1>1. t \in Seq(T) /\ m \in Nat /\ Len(s) = m + 1 /\ \A i \in 1..m : t[i] = s[i + 1]
  OBVIOUS
<1>2. PICK f \in [0..Len(s) -> Nat] : Adds(f, s, w, Len(s)) /\ Total(s, w) = f[Len(s)]
  BY TotalAdds
<1>3. PICK g \in [0..m -> Nat] : Adds(g, t, w, m) /\ Total(t, w) = g[m]
  BY <1>1, TotalAdds
<1>4. h \in Nat /\ \A i \in 1..m : t[i] \in T /\ w[t[i]] \in Nat
  <2>1. s[1] \in T /\ \A i \in 1..m : t[i] \in T
    BY <1>1
  <2> HIDE DEF t, m
  <2>. QED
    BY <2>1
<1> DEFINE P == {n \in Nat : n <= m => f[n + 1] = h + g[n]}
<1>5. 0 \in P
  <2>1. 1 \in 1..Len(s) /\ 1 - 1 = 0
    BY <1>1
  <2>2. f[0] = 0 /\ g[0] = 0 /\ f[1] = f[0] + w[s[1]]
    <3> HIDE DEF t
    <3>. QED
      BY <2>1, <1>2, <1>3 DEF Adds
  <2>. QED
    BY <2>2, <1>4
<1>6. ASSUME NEW n \in Nat, n \in P PROVE n + 1 \in P
  <2> SUFFICES ASSUME n + 1 <= m PROVE f[n + 2] = h + g[n + 1]
    <3> HIDE DEF t, h
    <3>1. (n + 1) + 1 = n + 2
      OBVIOUS
    <3>. QED
      BY <3>1
  <2>1. f[n + 1] = h + g[n]
    <3> HIDE DEF t, h
    <3>. QED
      BY <1>6, <1>1
  <2> HIDE DEF t, h, P
  <2>2. f[n + 2] = f[n + 1] + w[s[n + 2]]
    BY <1>1, <1>2 DEF Adds
  <2>3. g[n + 1] = g[n] + w[t[n + 1]]
    <3>1. n + 1 \in 1..m /\ (n + 1) - 1 = n
      BY <1>1
    <3>2. \A i \in 1..m : g[i] = g[i - 1] + w[t[i]]
      BY <1>3 DEF Adds
    <3> HIDE DEF m
    <3>. QED
      BY <3>1, <3>2
  <2>4. t[n + 1] = s[n + 2] /\ w[t[n + 1]] \in Nat /\ g[n] \in Nat
    <3>1. n \in 0..m /\ n + 1 \in 1..m /\ n + 1 + 1 = n + 2
      BY <1>1
    <3>2. t[n + 1] = s[n + 2]
      BY <3>1, <1>1
    <3>. QED
      BY <3>1, <3>2, <1>4
  <2>. QED
    BY <2>1, <2>2, <2>3, <2>4, <1>4
<1>7. m \in P
  <2> HIDE DEF P
  <2>. QED
    BY <1>1, <1>5, <1>6, Induct
<1>8. Head(s) = s[1]
  OBVIOUS
<1>. QED
  <2> HIDE DEF t
  <2>. QED
    BY <1>1, <1>2, <1>3, <1>7, <1>8 DEF t
=============================================================================
