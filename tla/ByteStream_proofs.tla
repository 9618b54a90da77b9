--------------------------- MODULE ByteStream_proofs ---------------------------
(***************************************************************************)
(* Proofs about ByteStream, for any producers, readers, calls and chunks.   *)
(*                                                                         *)
(* The threads meet only in the shared state, so the invariant is about     *)
(* what each of them has still to do: the order of the operations on its    *)
(* list, the chunk a push is about, and that whatever ended the stream or   *)
(* brought bytes will settle the buffers in line and announce it.           *)
(***************************************************************************)
EXTENDS ByteStreamProps, Facts, FiniteSetTheorems


-----------------------------------------------------------------------------
(* Threads and what they have still to do                                   *)

\* A list has an operation of X; after each X comes a Y.
Has(s, X) == \E i \in 1..Len(s) : s[i] \in X
Follows(s, X, Y) == \A i \in 1..Len(s) : s[i] \in X => \E j \in i + 1..Len(s) : s[j] \in Y
\* Some thread has an operation of X still to do.
DueIn(f, X) == \E t \in Threads : Has(f[t], X)
Due(X) == DueIn(todo, X)

(* What a list has, of its head and of the rest.                            *)
LEMMA HasParts ==
    ASSUME NEW T, NEW s \in Seq(T), s # <<>>, NEW X
    PROVE  Has(s, X) <=> Head(s) \in X \/ Has(Tail(s), X)
<1>1. /\ Head(s) = s[1] /\ Len(s) \in Nat \ {0} /\ Len(Tail(s)) = Len(s) - 1
      /\ \A k \in 1..Len(Tail(s)) : k + 1 \in 1..Len(s) /\ Tail(s)[k] = s[k + 1]
  BY OffTheFront
<1> DEFINE q == Tail(s)
<1> HIDE DEF q
<1>2. ASSUME NEW i \in 1..Len(s), s[i] \in X PROVE s[1] \in X \/ \E k \in 1..Len(q) : q[k] \in X
  <2>1. CASE i = 1
    BY <2>1, <1>2
  <2>2. CASE i # 1
    <3>1. i - 1 \in 1..Len(q) /\ (i - 1) + 1 = i
      BY <1>1, <2>2 DEF q
    <3>2. q[i - 1] = s[i]
      BY <1>1, <3>1 DEF q
    <3>. QED
      BY <3>1, <3>2, <1>2
  <2>. QED
    BY <2>1, <2>2
<1>3. 1 \in 1..Len(s)
  BY <1>1
<1>. QED
  BY <1>1, <1>2, <1>3 DEF Has, q

(* What two lists have, put together.                                       *)
LEMMA HasConcat ==
    ASSUME NEW T, NEW m \in Seq(T), NEW s \in Seq(T), NEW X
    PROVE  Has(m \o s, X) <=> Has(m, X) \/ Has(s, X)
<1>1. /\ m \o s \in Seq(T) /\ Len(m) \in Nat /\ Len(s) \in Nat /\ Len(m \o s) = Len(m) + Len(s)
      /\ \A k \in 1..Len(m) : k \in 1..Len(m \o s) /\ (m \o s)[k] = m[k]
      /\ \A k \in 1..Len(s) : k + Len(m) \in 1..Len(m \o s) /\ (m \o s)[k + Len(m)] = s[k]
  OBVIOUS
<1> DEFINE q == m \o s
<1> HIDE DEF q
<1>2. ASSUME NEW i \in 1..Len(q), q[i] \in X
      PROVE  (\E k \in 1..Len(m) : m[k] \in X) \/ \E k \in 1..Len(s) : s[k] \in X
  <2>1. CASE i \in 1..Len(m)
    BY <2>1, <1>1, <1>2 DEF q
  <2>2. CASE i \notin 1..Len(m)
    <3>1. i - Len(m) \in 1..Len(s) /\ (i - Len(m)) + Len(m) = i
      BY <2>2, <1>1 DEF q
    <3>2. s[i - Len(m)] = q[i]
      BY <3>1, <1>1 DEF q
    <3>. QED
      BY <3>1, <3>2, <1>2
  <2>. QED
    BY <2>1, <2>2
<1>3. ASSUME NEW k \in 1..Len(m), m[k] \in X PROVE Has(q, X)
  <2>1. k \in 1..Len(q) /\ q[k] = m[k]
    BY <1>1 DEF q
  <2>. QED
    BY <2>1, <1>3 DEF Has
<1>4. ASSUME NEW k \in 1..Len(s), s[k] \in X PROVE Has(q, X)
  <2>1. k + Len(m) \in 1..Len(q) /\ q[k + Len(m)] = s[k]
    BY <1>1 DEF q
  <2>. QED
    BY <2>1, <1>4 DEF Has
<1>. QED
  BY <1>2, <1>3, <1>4 DEF Has, q

(* What an X is to be followed by is still there when the list goes on.      *)
LEMMA FollowsParts ==
    ASSUME NEW T, NEW s \in Seq(T), s # <<>>, NEW X, NEW Y, Follows(s, X, Y)
    PROVE  /\ Head(s) \in X => Has(Tail(s), Y)
           /\ Follows(Tail(s), X, Y)
<1>1. /\ Head(s) = s[1] /\ Len(s) \in Nat \ {0} /\ Len(Tail(s)) = Len(s) - 1
      /\ \A k \in 1..Len(Tail(s)) : k + 1 \in 1..Len(s) /\ Tail(s)[k] = s[k + 1]
  BY OffTheFront
<1> DEFINE q == Tail(s)
<1> HIDE DEF q
<1>2. ASSUME NEW i \in 1..Len(s), s[i] \in X PROVE \E j \in i..Len(q) : q[j] \in Y
  <2>1. PICK j \in i + 1..Len(s) : s[j] \in Y
    BY <1>2 DEF Follows
  <2>2. j - 1 \in i..Len(q) /\ j - 1 \in 1..Len(q) /\ (j - 1) + 1 = j
    BY <2>1, <1>1 DEF q
  <2>3. q[j - 1] = s[j]
    BY <2>2, <1>1 DEF q
  <2>. QED
    BY <2>1, <2>2, <2>3
<1>3. Head(s) \in X => Has(q, Y)
  <2>1. 1 \in 1..Len(s)
    BY <1>1
  <2>. QED
    BY <1>1, <1>2, <2>1 DEF Has
<1>4. Follows(q, X, Y)
  <2> SUFFICES ASSUME NEW i \in 1..Len(q), q[i] \in X PROVE \E j \in i + 1..Len(q) : q[j] \in Y
    BY DEF Follows
  <2>1. i + 1 \in 1..Len(s) /\ s[i + 1] = q[i]
    BY <1>1 DEF q
  <2>. QED
    BY <2>1, <1>2
<1>. QED
  BY <1>3, <1>4 DEF q

(* Putting a list with no X in front takes nothing from what follows.       *)
LEMMA FollowsConcat ==
    ASSUME NEW T, NEW m \in Seq(T), NEW s \in Seq(T), NEW X, NEW Y, ~Has(m, X), Follows(s, X, Y)
    PROVE  Follows(m \o s, X, Y)
<1>1. /\ m \o s \in Seq(T) /\ Len(m) \in Nat /\ Len(s) \in Nat /\ Len(m \o s) = Len(m) + Len(s)
      /\ \A k \in 1..Len(m) : k \in 1..Len(m \o s) /\ (m \o s)[k] = m[k]
      /\ \A k \in 1..Len(s) : k + Len(m) \in 1..Len(m \o s) /\ (m \o s)[k + Len(m)] = s[k]
  OBVIOUS
<1> DEFINE q == m \o s
<1> HIDE DEF q
<1> SUFFICES ASSUME NEW i \in 1..Len(q), q[i] \in X PROVE \E j \in i + 1..Len(q) : q[j] \in Y
  BY DEF Follows, q
<1>2. i \notin 1..Len(m)
  BY <1>1 DEF Has, q
<1>3. i - Len(m) \in 1..Len(s) /\ (i - Len(m)) + Len(m) = i
  BY <1>1, <1>2 DEF q
<1>4. s[i - Len(m)] \in X
  BY <1>1, <1>3 DEF q
<1>5. PICK j \in (i - Len(m)) + 1..Len(s) : s[j] \in Y
  BY <1>3, <1>4 DEF Follows
<1>6. j \in 1..Len(s) /\ j + Len(m) \in i + 1..Len(q)
  BY <1>3, <1>5, <1>1 DEF q
<1>7. q[j + Len(m)] = s[j]
  BY <1>1, <1>6 DEF q
<1>. QED
  BY <1>5, <1>6, <1>7

(* Two parts of a sequence, put together again.                             *)
LEMMA Rejoin ==
    ASSUME NEW T, NEW s \in Seq(T), NEW n \in 0..Len(s)
    PROVE  /\ SubSeq(s, 1, n) \in Seq(T) /\ SubSeq(s, n + 1, Len(s)) \in Seq(T)
           /\ Len(SubSeq(s, n + 1, Len(s))) = Len(s) - n
           /\ SubSeq(s, 1, n) \o SubSeq(s, n + 1, Len(s)) = s
<1> DEFINE p == SubSeq(s, 1, n)
           q == SubSeq(s, n + 1, Len(s))
           r == p \o q
<1>1. /\ p \in Seq(T) /\ Len(p) = n /\ \A k \in 1..n : p[k] = s[k]
      /\ q \in Seq(T) /\ Len(q) = Len(s) - n /\ \A k \in 1..Len(s) - n : q[k] = s[k + n]
  OBVIOUS
<1> HIDE DEF p, q
<1>2. /\ r \in Seq(T) /\ Len(r) = Len(s)
      /\ \A k \in 1..Len(s) : r[k] = IF k <= n THEN p[k] ELSE q[k - n]
  BY <1>1
<1>3. ASSUME NEW k \in 1..Len(s) PROVE r[k] = s[k]
  <2> HIDE DEF r
  <2>1. CASE k <= n
    <3>1. k \in 1..n
      BY <2>1
    <3>. QED
      BY <1>1, <1>2, <2>1, <3>1
  <2>2. CASE ~(k <= n)
    <3>1. k - n \in 1..Len(s) - n /\ (k - n) + n = k
      BY <2>2
    <3>2. q[k - n] = s[k]
      BY <3>1, <1>1
    <3>. QED
      BY <1>2, <2>2, <3>2
  <2>. QED
    BY <2>1, <2>2
<1>4. r = s
  <2> HIDE DEF r
  <2>. QED
    BY <1>2, <1>3, SeqEqual
<1>. QED
  BY <1>1, <1>4 DEF p, q

\* The operations that bear on what must be settled and announced.
Special == {"push", "settle", "recheck", "resettle", "close", "errored", "announce", "announceEnd"}

\* What is put in place of an operation, and the lists that begin at an idle thread.
Mores == {<<>>, <<"trigger">>, <<"force">>, <<"settle">>, <<"settle", "force">>, <<"recheck">>,
          <<"pollEmpty">>, <<"register">>, <<"register", "trigger">>, <<"join">>}
Begins == {CloseSteps, ErrorSteps, ErrorSteps \o <<"started">>, <<"clear", "reset">> \o CloseSteps,
           <<"resettle">>, <<"force">>, <<"trigger">>, <<>>, <<"pollEnd">>}

\* What every list obeys: reads begin with their own operation, a push comes first, an end
\* is settled and everything is announced.
Listed(t, s) ==
    /\ Has(s, {"into", "join"}) => t \in Owned
    /\ Has(s, {"poll"}) => t \in Intos
    /\ s # <<>> => ~Has(Tail(s), {"push"})
    /\ Follows(s, {"close", "errored"}, {"settle"})
    /\ Follows(s, {"push", "close", "errored"}, {"announce", "announceEnd"})

(* None of what replaces an operation is a push, an end or a first poll.     *)
LEMMA MoresType ==
    \A m \in Mores : /\ m \in Seq(Steps) /\ ~Has(m, {"push", "close", "errored", "into", "poll"})
                     /\ Has(m, {"into", "join"}) => m = <<"join">>
<1>1. Mores \subseteq Seq(Steps)
  BY DEF Mores, Steps
<1>2. \A m \in Mores : \A i \in 1..Len(m) : m[i] \notin {"push", "close", "errored", "into", "poll"}
  BY DEF Mores
<1>3. \A m \in Mores \ {<<"join">>} : \A i \in 1..Len(m) : m[i] \notin {"into", "join"}
  BY DEF Mores
<1>. QED
  BY <1>1, <1>2, <1>3 DEF Has

(* Every list a thread begins with is in order.                             *)
LEMMA BeginsType ==
    \A s \in Begins \cup {EnqueueSteps} : s \in Seq(Steps) /\ \A t : Listed(t, s)
<1>1. CloseSteps \in Seq(Steps) /\ \A t : Listed(t, CloseSteps)
  BY DEF CloseSteps, Steps, Listed, Has, Follows
<1>2. ErrorSteps \in Seq(Steps) /\ \A t : Listed(t, ErrorSteps)
  BY DEF ErrorSteps, Steps, Listed, Has, Follows
<1>3. EnqueueSteps \in Seq(Steps) /\ \A t : Listed(t, EnqueueSteps)
  BY DEF EnqueueSteps, Steps, Listed, Has, Follows
<1>4. ErrorSteps \o <<"started">> \in Seq(Steps) /\ \A t : Listed(t, ErrorSteps \o <<"started">>)
  BY DEF ErrorSteps, Steps, Listed, Has, Follows
<1>5. <<"clear", "reset">> \o CloseSteps \in Seq(Steps) /\ \A t : Listed(t, <<"clear", "reset">> \o CloseSteps)
  BY DEF CloseSteps, Steps, Listed, Has, Follows
<1>6. ASSUME NEW o \in {"resettle", "force", "trigger", "pollEnd"}
      PROVE  <<o>> \in Seq(Steps) /\ \A t : Listed(t, <<o>>)
  BY DEF Steps, Listed, Has, Follows
<1>7. <<>> \in Seq(Steps) /\ \A t : Listed(t, <<>>)
  BY DEF Listed, Has, Follows
<1>. QED
  BY <1>1, <1>2, <1>3, <1>4, <1>5, <1>6, <1>7 DEF Begins

(* So is the one operation a BYOB call begins with.                         *)
LEMMA FirstType ==
    ASSUME NEW c \in Byob
    PROVE  <<FirstStep(c)>> \in Seq(Steps) /\ Listed(c, <<FirstStep(c)>>)
  BY DEF FirstStep, Steps, Listed, Has, Follows

(* A thread does its first operation.                                       *)
LEMMA Doing ==
    ASSUME todo \in [Threads -> Seq(Steps)], NEW t \in Threads, NEW op, NEW m \in Seq(Steps), Does(t, op, m)
    PROVE  /\ todo' \in [Threads -> Seq(Steps)]
           /\ \A u \in Threads \ {t} : todo'[u] = todo[u]
           /\ op \in Steps /\ todo[t] # <<>> /\ Head(todo[t]) = op
           /\ todo'[t] = m \o Tail(todo[t]) /\ Tail(todo[t]) \in Seq(Steps)
           /\ \A X : Has(todo[t], X) <=> op \in X \/ Has(Tail(todo[t]), X)
           /\ \A X : Has(todo'[t], X) <=> Has(m, X) \/ Has(Tail(todo[t]), X)
           /\ \A X : Due(X) => op \in X \/ DueIn(todo', X)
           /\ \A X : Has(m, X) => DueIn(todo', X)
<1> DEFINE s == todo[t]
           q == Tail(s)
           r == m \o q
<1>1. s \in Seq(Steps) /\ s # <<>> /\ Head(s) = op /\ q \in Seq(Steps) /\ r \in Seq(Steps) /\ op \in Steps
  BY DEF Does
<1>2. todo' = [todo EXCEPT ![t] = r]
  BY DEF Does
<1>3. \A X : Has(s, X) <=> op \in X \/ Has(q, X)
  BY <1>1, HasParts
<1>4. \A X : Has(r, X) <=> Has(m, X) \/ Has(q, X)
  <2> HIDE DEF q
  <2>. QED
    BY <1>1, HasConcat
<1> HIDE DEF q, r
<1>5. todo' \in [Threads -> Seq(Steps)] /\ todo'[t] = r /\ \A u \in Threads \ {t} : todo'[u] = todo[u]
  BY <1>1, <1>2
<1>6. ASSUME NEW X, Due(X), op \notin X PROVE DueIn(todo', X)
  <2>1. PICK u \in Threads : Has(todo[u], X)
    BY <1>6 DEF Due, DueIn
  <2>2. Has(todo'[u], X)
    BY <2>1, <1>3, <1>4, <1>5, <1>6
  <2>. QED
    BY <2>2 DEF DueIn
<1>7. ASSUME NEW X, Has(m, X) PROVE DueIn(todo', X)
  BY <1>4, <1>5, <1>7 DEF DueIn
<1>. QED
  BY <1>1, <1>3, <1>4, <1>5, <1>6, <1>7 DEF q, r

(* An idle thread begins.                                                   *)
LEMMA Beginning ==
    ASSUME todo \in [Threads -> Seq(Steps)], NEW t \in Threads, NEW s \in Seq(Steps), Idle(t),
           todo' = [todo EXCEPT ![t] = s]
    PROVE  /\ todo' \in [Threads -> Seq(Steps)]
           /\ todo'[t] = s /\ \A u \in Threads \ {t} : todo'[u] = todo[u]
           /\ \A X : ~Has(todo[t], X)
           /\ \A X : Due(X) => DueIn(todo', X)
           /\ \A X : Has(s, X) => DueIn(todo', X)
<1>1. todo' \in [Threads -> Seq(Steps)] /\ todo'[t] = s /\ \A u \in Threads \ {t} : todo'[u] = todo[u]
  OBVIOUS
<1>2. \A X : ~Has(todo[t], X)
  BY DEF Idle, Has
<1>3. ASSUME NEW X, Due(X) PROVE DueIn(todo', X)
  <2>1. PICK u \in Threads : Has(todo[u], X)
    BY <1>3 DEF Due, DueIn
  <2>2. Has(todo'[u], X)
    BY <2>1, <1>1, <1>2
  <2>. QED
    BY <2>2 DEF DueIn
<1>4. ASSUME NEW X, Has(s, X) PROVE DueIn(todo', X)
  BY <1>1, <1>4 DEF DueIn
<1>. QED
  BY <1>1, <1>2, <1>3, <1>4

(* What replaces an operation keeps the order of what follows; only "into"   *)
(* goes on to join the line.                                                *)
LEMMA ListedOn ==
    ASSUME NEW t, NEW s \in Seq(Steps), s # <<>>, Listed(t, s), NEW m \in Mores,
           m = <<"join">> => Head(s) = "into"
    PROVE  Listed(t, m \o Tail(s))
<1> DEFINE q == Tail(s)
           r == m \o q
           P == {"push"}
           E == {"close", "errored"}
<1>1. q \in Seq(Steps) /\ m \in Seq(Steps) /\ r \in Seq(Steps)
  BY MoresType
<1>2. /\ \A X : Has(s, X) <=> Head(s) \in X \/ Has(q, X)
      /\ \A X : Has(r, X) <=> Has(m, X) \/ Has(q, X)
  <2>1. \A X : Has(s, X) <=> Head(s) \in X \/ Has(q, X)
    BY HasParts
  <2> HIDE DEF q
  <2>. QED
    BY <1>1, <2>1, HasConcat
<1>3. ~Has(m, {"push"}) /\ ~Has(m, {"poll"}) /\ ~Has(m, E) /\ ~Has(m, P \cup E)
  BY MoresType DEF Has
<1>4. Follows(q, E, {"settle"}) /\ Follows(q, P \cup E, {"announce", "announceEnd"})
  <2>1. P \cup E = {"push", "close", "errored"}
    OBVIOUS
  <2>. QED
    BY <2>1, FollowsParts DEF Listed
<1>5. Follows(r, E, {"settle"}) /\ Follows(r, P \cup E, {"announce", "announceEnd"})
  <2> HIDE DEF q
  <2>. QED
    BY <1>1, <1>3, <1>4, FollowsConcat
<1>6. r # <<>> => ~Has(Tail(r), {"push"})
  <2>1. ~Has(r, {"push"})
    BY <1>2, <1>3 DEF Listed
  <2> HIDE DEF r
  <2>. QED
    BY <1>1, <2>1, HasParts
<1>7. (Has(r, {"into", "join"}) => t \in Owned) /\ (Has(r, {"poll"}) => t \in Intos)
  <2>1. Has(m, {"into", "join"}) => Has(s, {"into", "join"})
    BY <1>2, MoresType
  <2>. QED
    BY <1>2, <1>3, <2>1 DEF Listed
<1>8. P \cup E = {"push", "close", "errored"}
  OBVIOUS
<1>. QED
  <2> HIDE DEF r
  <2>. QED
    BY <1>5, <1>6, <1>7, <1>8 DEF Listed, r


\* Every step but those that push, settle, end, announce or look again.
Plain ==
    \/ \E t \in Producers \cup {Task} : Close(t) \/ Error(t)
    \/ RequestStep
    \/ UserStep \/ SelectStep \/ PullStep \/ ServeStep \/ CommandStep
    \/ \E t \in Threads : Trigger(t)
    \/ \E c \in Byob : ByobStep(c)

\* It does one operation and leaves another, or begins with an idle thread.
TodoPlain ==
    \/ UNCHANGED todo
    \/ \E t \in Threads, m \in Mores, op \in Steps \ Special :
           Does(t, op, m) /\ (m = <<"join">> => op = "into")
    \/ \E t \in Producers \cup {Task}, s \in Begins : Idle(t) /\ todo' = [todo EXCEPT ![t] = s]
    \/ \E c \in Byob : Idle(c) /\ call'[c] # "unsent" /\ todo' = [todo EXCEPT ![c] = <<FirstStep(c)>>]

\* A call that was not made has nothing to do.
UnsentIdle == \A c \in Byob : call[c] = "unsent" => Idle(c)

(* Plain steps, and those that bear on what is to be announced or settled.  *)
LEMMA NextCases ==
    Next <=> \/ Plain
             \/ \E t \in Threads : \/ Push(t) \/ SettlePullIntos(t) \/ Announce(t) \/ SetClosed(t)
                                   \/ SetErrored(t) \/ Recheck(t)
             \/ \E t \in Producers \cup {Task} : Enqueue(t)
  BY DEF Next, ControllerStep, SharedStep, Plain

(* The task, the producers and the BYOB calls are threads.                  *)
LEMMA OfTask == Task \in Threads /\ Producers \cup {Task} \subseteq Threads /\ Byob \subseteq Threads
  BY DEF Threads

\* The operations Plain steps do, and what they leave in their place.
Nexts == {"trigger", "force", "started", "clear", "reset", "poll", "pollEmpty", "register", "into",
          "join", "pollEnd"}
(* None of them pushes, settles, ends or announces anything.                *)
LEMMA NextsPlain == Nexts \subseteq Steps \ Special
  BY DEF Nexts, Steps, Special

(* How a plain step changes the lists.                                      *)
LEMMA PlainMoves ==
    ASSUME UnsentIdle, call \in [Calls -> Outcomes], Plain
    PROVE  TodoPlain /\ UNCHANGED <<flags, pushed, made>>
<1> DEFINE D(t, op, m) == /\ t \in Threads /\ op \in Nexts /\ m \in Mores /\ Does(t, op, m)
                          /\ m = <<"join">> => op = "into"
           B(t, s) == t \in Producers \cup {Task} /\ s \in Begins /\ Idle(t) /\ todo' = [todo EXCEPT ![t] = s]
<1>0. /\ \A t, op, m : D(t, op, m) => TodoPlain
      /\ \A t, s : B(t, s) => TodoPlain
  BY NextsPlain DEF TodoPlain
<1>m. /\ <<>> \in Mores /\ <<"trigger">> \in Mores /\ <<"pollEmpty">> \in Mores /\ <<"register">> \in Mores
      /\ <<"register", "trigger">> \in Mores /\ <<"recheck">> \in Mores /\ <<"join">> \in Mores
  BY DEF Mores
<1>b. /\ CloseSteps \in Begins /\ ErrorSteps \in Begins /\ ErrorSteps \o <<"started">> \in Begins
      /\ <<"clear", "reset">> \o CloseSteps \in Begins /\ <<"resettle">> \in Begins /\ <<"force">> \in Begins
      /\ <<"trigger">> \in Begins /\ <<>> \in Begins
  BY DEF Begins
<1>1. ASSUME NEW t \in Producers \cup {Task}, Close(t) \/ Error(t) PROVE TodoPlain /\ UNCHANGED <<flags, pushed, made>>
  <2>1. B(t, CloseSteps) \/ B(t, ErrorSteps)
    BY <1>1, <1>b, OfTask DEF Close, Error, HasController
  <2>. QED
    BY <1>1, <1>0, <2>1 DEF Close, Error, sharedVars, histVars
<1>2. ASSUME NEW t, NEW c, TakeRequest(t) \/ Respond(c) PROVE TodoPlain /\ UNCHANGED <<flags, pushed, made>>
  BY <1>2 DEF TakeRequest, Respond, TodoPlain, histVars, userVars
<1>3. ASSUME NEW t \in Producers \cup {Task}, NEW c, DropRequest(t, c) PROVE TodoPlain /\ UNCHANGED <<flags, pushed, made>>
  <2>1. B(t, <<"resettle">>)
    BY <1>3, <1>b, OfTask DEF DropRequest, MayDropRequest, HasController
  <2>. QED
    BY <1>3, <1>0, <2>1 DEF DropRequest, histVars, userVars
<1>4. CASE UserStep
  <2>1. ASSUME NEW c \in Calls, Call(c) PROVE TodoPlain /\ UNCHANGED <<flags, pushed, made>>
    <3>1. c \in Byob /\ Idle(c) /\ call'[c] # "unsent" /\ todo' = [todo EXCEPT ![c] = <<FirstStep(c)>>]
      BY <2>1 DEF Call, MayCall, UnsentIdle
    <3>. QED
      BY <2>1, <3>1 DEF TodoPlain, Call, sharedVars, histVars
  <2>2. ASSUME NEW c \in Calls, Send(c) \/ Abandon(c) PROVE TodoPlain /\ UNCHANGED <<flags, pushed, made>>
    BY <2>2 DEF TodoPlain, Send, Abandon, sharedVars, histVars
  <2>3. CASE Drop
    BY <2>3 DEF TodoPlain, Drop, sharedVars, histVars
  <2>. QED
    BY <1>4, <2>1, <2>2, <2>3 DEF UserStep
<1>5. CASE SelectStep
  <2>1. CASE StartFails
    <3>1. B(Task, ErrorSteps \o <<"started">>)
      BY <2>1, <1>b, OfTask DEF StartFails, At
    <3>. QED
      BY <2>1, <1>0, <3>1 DEF StartFails, sharedVars, histVars, userVars
  <2>2. CASE Started
    <3>1. D(Task, "started", <<>>)
      BY <2>2, <1>m, OfTask DEF Started, Nexts
    <3>. QED
      BY <2>2, <1>0, <3>1 DEF Started, histVars, userVars
  <2>3. CASE StartSucceeds \/ PollPull \/ RegisterPull \/ ServeDue \/ RegisterServe \/ Wake
    BY <2>3 DEF StartSucceeds, PollPull, RegisterPull, ServeDue, RegisterServe, Wake, TodoPlain, sharedVars, histVars,
       userVars
  <2>. QED
    BY <1>5, <2>1, <2>2, <2>3 DEF SelectStep
<1>6. CASE PullStep
  <2>1. CASE PullFails
    <3>1. B(Task, ErrorSteps)
      BY <2>1, <1>b, OfTask DEF PullFails, At
    <3>. QED
      BY <2>1, <1>0, <3>1 DEF PullFails, sharedVars, histVars, userVars
  <2>2. CASE PullEnds
    <3>1. B(Task, <<"force">>) \/ B(Task, <<"trigger">>) \/ B(Task, <<>>)
      BY <2>2, <1>b, OfTask DEF PullEnds, At
    <3>. QED
      BY <2>2, <1>0, <3>1 DEF PullEnds, histVars, userVars
  <2>3. CASE TakeSource \/ PullReturns \/ PullSettlesReads \/ GiveBack
    BY <2>3 DEF TakeSource, PullReturns, PullSettlesReads, GiveBack, TodoPlain, sharedVars, histVars, userVars
  <2>. QED
    BY <1>6, <2>1, <2>2, <2>3 DEF PullStep
<1>7. CASE ServeStep
  <2>1. CASE NoReads \/ ReadEnds
    BY <2>1 DEF NoReads, ReadEnds, TodoPlain, sharedVars, histVars, userVars
  <2>2. CASE ReadWaits
    <3>1. B(Task, <<"trigger">>)
      BY <2>2, <1>b, OfTask DEF ReadWaits, At
    <3>. QED
      BY <2>2, <1>0, <3>1 DEF ReadWaits, sharedVars, histVars, userVars
  <2>3. CASE ParkRead
    <3>1. UNCHANGED todo \/ B(Task, <<"trigger">>) \/ B(Task, <<>>)
      BY <2>3, <1>b, OfTask DEF ParkRead, At
    <3>. QED
      BY <2>3, <1>0, <3>1 DEF ParkRead, sharedVars, histVars, TodoPlain
  <2>4. ASSUME NEW from \in {"drain", "serve", "read"}, ReadErrs(from) \/ ReadFindsNothing(from)
        PROVE  TodoPlain /\ UNCHANGED <<flags, pushed, made>>
    BY <2>4 DEF ReadErrs, ReadFindsNothing, TodoPlain, sharedVars, histVars, userVars
  <2>5. ASSUME NEW from \in {"drain", "serve", "read"}, ReadTakes(from)
        PROVE  TodoPlain /\ UNCHANGED <<flags, pushed, made>>
    <3>1. B(Task, <<"trigger">>)
      BY <2>5, <1>b, OfTask DEF ReadTakes, Popping, At
    <3>. QED
      BY <2>5, <1>0, <3>1 DEF ReadTakes
  <2>. QED
    BY <1>7, <2>1, <2>2, <2>3, <2>4, <2>5 DEF ServeStep
<1>8. CASE CommandStep
  <2>1. CASE CommandReadMoot \/ CommandRead \/ CommandCancelMoot \/ CancelTakesSource \/ CancelReturns \/ ChannelClosed
    BY <2>1 DEF CommandReadMoot, CommandRead, CommandCancelMoot, CancelTakesSource, CancelReturns, ChannelClosed,
       TodoPlain, sharedVars, histVars, userVars
  <2>2. CASE CommandCancel
    <3>1. B(Task, <<"clear", "reset">> \o CloseSteps)
      BY <2>2, <1>b, OfTask DEF CommandCancel, Receives, At
    <3>. QED
      BY <2>2, <1>0, <3>1 DEF CommandCancel, sharedVars, histVars, userVars
  <2>3. CASE ClearQueue
    <3>1. D(Task, "clear", <<>>) \/ D(Task, "reset", <<>>)
      BY <2>3, <1>m, OfTask DEF ClearQueue, Nexts
    <3>. QED
      BY <2>3, <1>0, <3>1 DEF ClearQueue, userVars
  <2>. QED
    BY <1>8, <2>1, <2>2, <2>3 DEF CommandStep
<1>9. ASSUME NEW t \in Threads, Trigger(t) PROVE TodoPlain /\ UNCHANGED <<flags, pushed, made>>
  <2>1. D(t, "trigger", <<>>) \/ D(t, "force", <<>>)
    BY <1>9, <1>m DEF Trigger, Nexts
  <2>. QED
    BY <1>9, <1>0, <2>1 DEF Trigger, histVars, userVars
<1>10. ASSUME NEW c \in Byob, ByobStep(c) PROVE TodoPlain /\ UNCHANGED <<flags, pushed, made>>
  <2>0. c \in Threads
    BY OfTask
  <2>1. CASE Repoll(c)
    <3>1. Idle(c) /\ call'[c] # "unsent" /\ todo' = [todo EXCEPT ![c] = <<FirstStep(c)>>]
      BY <2>1 DEF Repoll, userVars
    <3>. QED
      BY <2>1, <3>1 DEF Repoll, TodoPlain, sharedVars, histVars, userVars
  <2>2. CASE PollInto(c)
    <3>1. D(c, "poll", <<>>) \/ D(c, "poll", <<"trigger">>) \/ D(c, "poll", <<"pollEmpty">>)
      BY <2>2, <2>0, <1>m DEF PollInto, Nexts
    <3>. QED
      BY <2>2, <1>0, <3>1 DEF PollInto
  <2>3. CASE PollIntoEmpty(c)
    <3>1. D(c, "pollEmpty", <<>>) \/ D(c, "pollEmpty", <<"register", "trigger">>)
      BY <2>3, <2>0, <1>m DEF PollIntoEmpty, Nexts
    <3>. QED
      BY <2>3, <1>0, <3>1 DEF PollIntoEmpty, sharedVars, histVars
  <2>4. CASE Register(c)
    <3>1. D(c, "register", <<>>)
      BY <2>4, <2>0, <1>m DEF Register, Nexts
    <3>. QED
      BY <2>4, <1>0, <3>1 DEF Register, histVars, userVars
  <2>5. CASE BeginPullInto(c)
    <3>1. D(c, "into", <<>>) \/ D(c, "into", <<"join">>)
      BY <2>5, <2>0, <1>m DEF BeginPullInto, Nexts
    <3>. QED
      BY <2>5, <1>0, <3>1 DEF BeginPullInto, sharedVars, histVars
  <2>7. CASE JoinPullIntos(c)
    <3>1. D(c, "join", <<>>) \/ D(c, "join", <<"trigger">>) \/ D(c, "join", <<"recheck">>)
      BY <2>7, <2>0, <1>m DEF JoinPullIntos, Nexts
    <3>. QED
      BY <2>7, <1>0, <3>1 DEF JoinPullIntos
  <2>6. CASE PollEnd(c)
    <3>1. D(c, "pollEnd", <<>>) \/ D(c, "pollEnd", <<"register">>)
      BY <2>6, <2>0, <1>m DEF PollEnd, Nexts
    <3>. QED
      BY <2>6, <1>0, <3>1 DEF PollEnd, sharedVars, histVars
  <2>. QED
    BY <1>10, <2>1, <2>2, <2>3, <2>4, <2>5, <2>6, <2>7 DEF ByobStep
<1>. QED
  BY <1>1, <1>2, <1>3, <1>4, <1>5, <1>6, <1>7, <1>8, <1>9, <1>10 DEF Plain, RequestStep


(* A call that was made is never unsent again.                              *)
LEMMA CallsMove ==
    ASSUME call \in [Calls -> Outcomes], Next
    PROVE  /\ call' \in [Calls -> Outcomes]
           /\ \A c \in Calls : call'[c] = "unsent" => call[c] = "unsent"
<1> DEFINE G == call' \in [Calls -> Outcomes] /\ \A c \in Calls : call'[c] = "unsent" => call[c] = "unsent"
<1>1. ASSUME UNCHANGED call PROVE G
  BY <1>1
<1>2. ASSUME NEW c, NEW o \in Outcomes \ {"unsent"}, Answers(c, o) PROVE G
  BY <1>2 DEF Answers
<1>3. ASSUME NEW o \in Outcomes \ {"unsent"}, AnswersReads(o) PROVE G
  BY <1>3 DEF AnswersReads
<1>4. ASSUME NEW c, NEW o \in Outcomes \ {"unsent"}, CancelEnds(c, o) PROVE G
  <2>1. "eof" \in Outcomes \ {"unsent"}
    BY DEF Outcomes
  <2>. QED
    BY <1>4, <2>1 DEF CancelEnds
<1>5. ASSUME NEW c, call' = [call EXCEPT ![c] = "pending"] PROVE G
  <2>1. "pending" \in Outcomes \ {"unsent"}
    BY DEF Outcomes
  <2>. QED
    BY <1>5, <2>1
<1>6. {"eof", "err", "ok", "data", "failed", "abandoned", "pending"} \subseteq Outcomes \ {"unsent"}
  BY DEF Outcomes
<1> HIDE DEF G
<1> SUFFICES G
  BY DEF G
<1>7. ASSUME NEW t \in Threads, SettlePullIntos(t) PROVE G
  <2>1. \A i : Settles(i) \in {"err", "data", "eof", "pending"}
    BY DEF Settles
  <2>2. call' = [c \in Calls |-> IF \E i \in DOMAIN pending : pending[i] = c
                                 THEN Settles(CHOOSE i \in DOMAIN pending : pending[i] = c) ELSE call[c]]
    BY <1>7 DEF SettlePullIntos
  <2> HIDE DEF Settles
  <2>3. \A c \in Calls : call'[c] = call[c] \/ call'[c] \in {"err", "data", "eof", "pending"}
    BY <2>1, <2>2
  <2>. QED
    BY <2>2, <2>3, <1>6 DEF G
<1>8. CASE \E t \in Threads : Push(t) \/ Announce(t) \/ SetClosed(t) \/ SetErrored(t) \/ Recheck(t) \/ Trigger(t)
  BY <1>1, <1>8 DEF Push, Announce, SetClosed, SetErrored, Recheck, Trigger, userVars
<1>9. CASE ControllerStep
  BY <1>1, <1>2, <1>6, <1>9 DEF ControllerStep, Enqueue, Close, Error, RequestStep, TakeRequest,
     Respond, DropRequest, userVars
<1>10. CASE UserStep
  <2>1. ASSUME NEW c \in Calls, Call(c) \/ Send(c) PROVE G
    BY <2>1, <1>5 DEF Call, Send
  <2>2. ASSUME NEW c \in Calls, Abandon(c) PROVE G
    BY <2>2, <1>2, <1>6 DEF Abandon
  <2>3. CASE Drop
    BY <2>3, <1>1 DEF Drop
  <2>. QED
    BY <1>10, <2>1, <2>2, <2>3 DEF UserStep
<1>11. CASE SelectStep
  BY <1>11, <1>1 DEF SelectStep, StartSucceeds, StartFails, Started, PollPull, RegisterPull, ServeDue, RegisterServe, Wake,
     userVars
<1>12. CASE PullStep
  <2>1. CASE PullSettlesReads
    BY <2>1, <1>1, <1>3, <1>6 DEF PullSettlesReads
  <2>. QED
    BY <1>12, <2>1, <1>1 DEF PullStep, TakeSource, PullReturns, PullFails, PullEnds, GiveBack, userVars
<1>13. CASE ServeStep
  <2>1. ASSUME NEW from \in {"drain", "serve", "read"}, ReadErrs(from) \/ ReadTakes(from) \/ ReadFindsNothing(from)
        PROVE  G
    BY <2>1, <1>1, <1>2, <1>6 DEF ReadErrs, ReadTakes, ReadFindsNothing, userVars
  <2>. QED
    BY <1>13, <2>1, <1>1, <1>2, <1>6 DEF ServeStep, NoReads, ReadEnds, ReadWaits, ParkRead, userVars
<1>14. CASE CommandStep
  BY <1>14, <1>1, <1>2, <1>3, <1>4, <1>6 DEF CommandStep, CommandReadMoot, CommandRead, CommandCancelMoot, CommandCancel,
     ClearQueue, CancelTakesSource, CancelReturns, ChannelClosed, userVars
<1>15. ASSUME NEW c \in Byob, ByobStep(c) PROVE G
  <2>1. CASE PollInto(c) \/ BeginPullInto(c) \/ JoinPullIntos(c)
    BY <2>1, <1>1, <1>2, <1>6 DEF PollInto, BeginPullInto, JoinPullIntos
  <2>2. CASE PollIntoEmpty(c) \/ PollEnd(c)
    BY <2>2, <1>1, <1>2, <1>6 DEF PollIntoEmpty, PollEnd
  <2>3. CASE Repoll(c) \/ Register(c)
    BY <2>3, <1>1 DEF Repoll, Register, userVars
  <2>. QED
    BY <1>15, <2>1, <2>2, <2>3 DEF ByobStep
<1>. QED
  BY <1>7, <1>8, <1>9, <1>10, <1>11, <1>12, <1>13, <1>14, <1>15 DEF Next, SharedStep

\* Every list is in order.
Lists == UnsentIdle /\ \A t \in Threads : Listed(t, todo[t])

(* The lists keep their order, and begin only where they should.            *)
LEMMA ListsKept ==
    ASSUME call \in [Calls -> Outcomes], todo \in [Threads -> Seq(Steps)], Lists, Next
    PROVE  todo' \in [Threads -> Seq(Steps)] /\ Lists'
<1> DEFINE G == todo' \in [Threads -> Seq(Steps)] /\ Lists'
<1>0. \A c \in Byob : call'[c] = "unsent" => call[c] = "unsent"
  BY CallsMove DEF Calls
<1>1. ASSUME NEW t \in Threads, NEW op, NEW m \in Mores, Does(t, op, m), m = <<"join">> => op = "into" PROVE G
  <2>1. m \in Seq(Steps)
    BY MoresType
  <2>2. /\ todo' \in [Threads -> Seq(Steps)]
        /\ \A u \in Threads \ {t} : todo'[u] = todo[u]
        /\ todo[t] # <<>> /\ Head(todo[t]) = op /\ todo'[t] = m \o Tail(todo[t])
    BY <2>1, <1>1, Doing
  <2>3. Listed(t, todo'[t])
    BY <2>2, <1>1, ListedOn DEF Lists
  <2>4. \A u \in Threads : Listed(u, todo'[u])
    BY <2>2, <2>3 DEF Lists
  <2>5. \A c \in Byob : call'[c] = "unsent" => todo'[c] = <<>>
    BY <2>2, <1>0, OfTask DEF Lists, UnsentIdle, Idle
  <2>. QED
    BY <2>2, <2>4, <2>5 DEF Lists, UnsentIdle, Idle
<1>2. ASSUME NEW t \in Threads, NEW s \in Seq(Steps), Listed(t, s), Idle(t), todo' = [todo EXCEPT ![t] = s],
             t \in Byob => call'[t] # "unsent"
      PROVE  G
  <2>1. /\ todo' \in [Threads -> Seq(Steps)]
        /\ todo'[t] = s /\ \A u \in Threads \ {t} : todo'[u] = todo[u]
    BY <1>2
  <2>2. \A u \in Threads : Listed(u, todo'[u])
    BY <1>2, <2>1 DEF Lists
  <2>3. \A c \in Byob : call'[c] = "unsent" => todo'[c] = <<>>
    BY <1>2, <2>1, <1>0, OfTask DEF Lists, UnsentIdle, Idle
  <2>. QED
    BY <2>1, <2>2, <2>3 DEF Lists, UnsentIdle, Idle
<1>3. ASSUME UNCHANGED todo PROVE G
  BY <1>3, <1>0 DEF Lists, UnsentIdle, Idle
<1> HIDE DEF G
<1> SUFFICES G
  BY DEF G
<1>4. (Producers \cup {Task}) \cap Byob = {}
  BY ByteAssumption DEF Calls
<1>5. CASE Plain
  <2>1. TodoPlain
    BY <1>5, PlainMoves DEF Lists
  <2>2. ASSUME NEW t \in Producers \cup {Task}, NEW s \in Begins, Idle(t), todo' = [todo EXCEPT ![t] = s] PROVE G
    BY <2>2, <1>2, <1>4, OfTask, BeginsType
  <2>3. ASSUME NEW c \in Byob, Idle(c), call'[c] # "unsent", todo' = [todo EXCEPT ![c] = <<FirstStep(c)>>] PROVE G
    BY <2>3, <1>2, OfTask, FirstType
  <2>. QED
    BY <2>1, <2>2, <2>3, <1>1, <1>3 DEF TodoPlain
<1>6. ASSUME NEW t \in Threads, Push(t) \/ SettlePullIntos(t) \/ Announce(t) \/ SetClosed(t) \/ SetErrored(t) \/ Recheck(t)
      PROVE  G
  <2>1. <<>> \in Mores /\ <<"trigger">> \in Mores /\ <<"settle", "force">> \in Mores /\ <<"force">> \in Mores
        /\ <<"settle">> \in Mores
    BY DEF Mores
  <2>2. \E op, m : m \in Mores /\ m # <<"join">> /\ Does(t, op, m)
    BY <1>6, <2>1 DEF Push, SettlePullIntos, Announce, SetClosed, SetErrored, Recheck
  <2>. QED
    BY <2>2, <1>1
<1>7. ASSUME NEW t \in Producers \cup {Task}, Enqueue(t) PROVE G
  <2>1. Idle(t) /\ todo' = [todo EXCEPT ![t] = EnqueueSteps]
    BY <1>7 DEF Enqueue, HasController
  <2>. QED
    BY <2>1, <1>2, <1>4, OfTask, BeginsType
<1>. QED
  BY <1>5, <1>6, <1>7, NextCases


\* The threads with a push to do.
Pushing == {t \in Threads : Has(todo[t], {"push"})}

\* A chunk on its way is held by exactly one thread.
Counted == IsFiniteSet(Pushing) /\ pushed \in Nat /\ made \in Nat /\ pushed + Cardinality(Pushing) = made

(* A push that is done is one chunk more in the buffer.                     *)
LEMMA CountedKept ==
    ASSUME TypeOK, Lists, Counted, Next
    PROVE  Counted'
<1> DEFINE P(f) == {t \in Threads : Has(f[t], {"push"})}
<1>0. todo \in [Threads -> Seq(Steps)] /\ call \in [Calls -> Outcomes]
  BY DEF TypeOK
<1>1. ASSUME P(todo') = P(todo), UNCHANGED <<pushed, made>> PROVE Counted'
  BY <1>1 DEF Counted, Pushing
<1>2. ASSUME NEW t \in Threads, NEW op \in Steps \ {"push"}, NEW m \in Mores, Does(t, op, m) PROVE P(todo') = P(todo)
  <2>1. m \in Seq(Steps) /\ ~Has(m, {"push"})
    BY MoresType DEF Has
  <2>2. /\ \A u \in Threads \ {t} : todo'[u] = todo[u]
        /\ \A X : Has(todo[t], X) <=> op \in X \/ Has(Tail(todo[t]), X)
        /\ \A X : Has(todo'[t], X) <=> Has(m, X) \/ Has(Tail(todo[t]), X)
    BY <1>0, <1>2, <2>1, Doing
  <2>3. Has(todo[t], {"push"}) <=> Has(todo'[t], {"push"})
    BY <2>1, <2>2
  <2>. QED
    BY <2>2, <2>3
<1>3. ASSUME NEW t \in Threads, NEW s \in Seq(Steps), ~Has(s, {"push"}), Idle(t), todo' = [todo EXCEPT ![t] = s]
      PROVE  P(todo') = P(todo)
  <2>1. /\ todo'[t] = s /\ \A u \in Threads \ {t} : todo'[u] = todo[u]
        /\ ~Has(todo[t], {"push"})
    BY <1>0, <1>3, Beginning
  <2>. QED
    BY <1>3, <2>1
<1>4. \A s \in Begins : ~Has(s, {"push"})
  <2>1. ~Has(CloseSteps, {"push"}) /\ ~Has(ErrorSteps, {"push"}) /\ ~Has(ErrorSteps \o <<"started">>, {"push"})
        /\ ~Has(<<"clear", "reset">> \o CloseSteps, {"push"})
    BY DEF Has, CloseSteps, ErrorSteps
  <2>2. \A o \in {"resettle", "force", "trigger", "pollEnd"} : ~Has(<<o>>, {"push"})
    BY DEF Has
  <2>3. ~Has(<<>>, {"push"})
    BY DEF Has
  <2>. QED
    BY <2>1, <2>2, <2>3 DEF Begins
<1> HIDE DEF P
<1>5. CASE Plain
  <2>1. TodoPlain /\ UNCHANGED <<flags, pushed, made>>
    BY <1>5, <1>0, PlainMoves DEF Lists
  <2>2. CASE UNCHANGED todo
    BY <2>1, <2>2, <1>1 DEF P
  <2>3. ASSUME NEW t \in Threads, NEW op \in Steps \ Special, NEW m \in Mores, Does(t, op, m) PROVE Counted'
    BY <2>1, <2>3, <1>1, <1>2 DEF Special
  <2>4. ASSUME NEW t \in Producers \cup {Task}, NEW s \in Begins, Idle(t), todo' = [todo EXCEPT ![t] = s] PROVE Counted'
    <3>1. s \in Seq(Steps) /\ ~Has(s, {"push"}) /\ t \in Threads
      BY <1>4, BeginsType, OfTask
    <3>. QED
      BY <2>1, <2>4, <3>1, <1>1, <1>3
  <2>5. ASSUME NEW c \in Byob, Idle(c), todo' = [todo EXCEPT ![c] = <<FirstStep(c)>>] PROVE Counted'
    <3>1. <<FirstStep(c)>> \in Seq(Steps) /\ ~Has(<<FirstStep(c)>>, {"push"}) /\ c \in Threads
      BY FirstType, OfTask DEF Has, FirstStep
    <3>. QED
      BY <2>1, <2>5, <3>1, <1>1, <1>3
  <2>. QED
    BY <2>1, <2>2, <2>3, <2>4, <2>5 DEF TodoPlain
<1>6. ASSUME NEW t \in Threads, SettlePullIntos(t) \/ Announce(t) \/ SetClosed(t) \/ SetErrored(t) \/ Recheck(t)
      PROVE  Counted'
  <2>1. <<>> \in Mores /\ <<"trigger">> \in Mores /\ <<"settle", "force">> \in Mores /\ <<"force">> \in Mores
        /\ <<"settle">> \in Mores
    BY DEF Mores
  <2>2. {"settle", "announce", "announceEnd", "close", "errored", "recheck", "resettle"} \subseteq Steps \ {"push"}
    BY DEF Steps
  <2>3. \E op \in Steps \ {"push"}, m \in Mores : Does(t, op, m)
    BY <1>6, <2>1, <2>2 DEF SettlePullIntos, Announce, SetClosed, SetErrored, Recheck
  <2>4. UNCHANGED <<pushed, made>>
    BY <1>6 DEF SettlePullIntos, Announce, SetClosed, SetErrored, Recheck, userVars, histVars
  <2>. QED
    BY <2>3, <2>4, <1>1, <1>2
<1>7. ASSUME NEW t \in Threads, Push(t) PROVE Counted'
  <2>1. Does(t, "push", <<>>) /\ pushed' = pushed + 1 /\ made' = made /\ <<>> \in Seq(Steps) /\ ~Has(<<>>, {"push"})
    BY <1>7 DEF Push, userVars, Has
  <2>2. /\ \A u \in Threads \ {t} : todo'[u] = todo[u]
        /\ todo[t] # <<>>
        /\ \A X : Has(todo[t], X) <=> "push" \in X \/ Has(Tail(todo[t]), X)
        /\ \A X : Has(todo'[t], X) <=> Has(<<>>, X) \/ Has(Tail(todo[t]), X)
    BY <1>0, <2>1, Doing
  <2>3. ~Has(Tail(todo[t]), {"push"})
    BY <2>2 DEF Lists, Listed
  <2>4. Has(todo[t], {"push"}) /\ ~Has(todo'[t], {"push"})
    BY <2>1, <2>2, <2>3
  <2>5. Pushing' = Pushing \ {t} /\ t \in Pushing
    BY <2>2, <2>4 DEF Pushing
  <2>6. IsFiniteSet(Pushing \ {t}) /\ Cardinality(Pushing \ {t}) = Cardinality(Pushing) - 1 /\ Cardinality(Pushing) \in Nat
    BY <2>5, FS_RemoveElement, FS_CardinalityType DEF Counted
  <2>. QED
    BY <2>1, <2>5, <2>6 DEF Counted
<1>8. ASSUME NEW t \in Producers \cup {Task}, Enqueue(t) PROVE Counted'
  <2>1. Idle(t) /\ todo' = [todo EXCEPT ![t] = EnqueueSteps] /\ made' = made + 1 /\ pushed' = pushed
    BY <1>8 DEF Enqueue, HasController, histVars
  <2>2. /\ todo'[t] = EnqueueSteps /\ \A u \in Threads \ {t} : todo'[u] = todo[u]
        /\ ~Has(todo[t], {"push"})
    BY <1>0, <2>1, OfTask, BeginsType, Beginning
  <2>3. Has(EnqueueSteps, {"push"})
    BY DEF EnqueueSteps, Has
  <2>4. Pushing' = Pushing \cup {t} /\ t \notin Pushing
    BY <2>2, <2>3, OfTask DEF Pushing
  <2>5. IsFiniteSet(Pushing \cup {t}) /\ Cardinality(Pushing \cup {t}) = Cardinality(Pushing) + 1 /\ Cardinality(Pushing) \in Nat
    BY <2>4, FS_AddElement, FS_CardinalityType DEF Counted
  <2>. QED
    BY <2>1, <2>4, <2>5 DEF Counted
<1>. QED
  BY <1>5, <1>6, <1>7, <1>8, NextCases

(* A push finds the chunk it is about.                                       *)
LEMMA PushHasChunk ==
    ASSUME TypeOK, Counted, NEW t \in Threads, Push(t)
    PROVE  pushed + 1 \in 1..made /\ pushed + 1 \in DOMAIN Sizes
<1>1. todo \in [Threads -> Seq(Steps)] /\ Does(t, "push", <<>>) /\ <<>> \in Seq(Steps)
  BY DEF TypeOK, Push
<1>2. Has(todo[t], {"push"})
  BY <1>1, Doing
<1>3. t \in Pushing
  BY <1>2 DEF Pushing
<1>4. Cardinality(Pushing) # 0 /\ Cardinality(Pushing) \in Nat
  BY <1>3, FS_EmptySet, FS_CardinalityType DEF Counted
<1>. QED
  BY <1>4, ByteAssumption DEF Counted, TypeOK


-----------------------------------------------------------------------------
(* The bytes that were sent                                                 *)

\* f joins the first n chunks, one after the other.
Joins(f, n) == f[0] = <<>> /\ \A i \in 1..n : f[i] = f[i - 1] \o Chunk(i)

(* However many chunks, they can be joined, and in one way only.            *)
LEMMA JoinsExists == \A n \in Nat : \E f : Joins(f, n)
<1> DEFINE P == {n \in Nat : \E f : Joins(f, n)}
<1>1. 0 \in P
  <2>1. Joins([i \in {0} |-> <<>>], 0)
    BY DEF Joins
  <2>. QED
    BY <2>1
<1>2. ASSUME NEW n \in Nat, n \in P PROVE n + 1 \in P
  <2>1. PICK f : Joins(f, n)
    BY <1>2
  <2> DEFINE last == f[n] \o Chunk(n + 1)
             g == [i \in 0..n + 1 |-> IF i = n + 1 THEN last ELSE f[i]]
  <2>2. g[0] = <<>> /\ g[n + 1] = last /\ \A i \in 0..n : g[i] = f[i]
    <3>1. f[0] = <<>>
      BY <2>1 DEF Joins
    <3> HIDE DEF last
    <3>2. g[n + 1] = last
      OBVIOUS
    <3>3. \A i \in 0..n : i \in 0..n + 1 /\ i # n + 1
      OBVIOUS
    <3>4. \A i \in 0..n : g[i] = f[i]
      BY <3>3
    <3> HIDE DEF g
    <3>. QED
      BY <3>1, <3>2, <3>4
  <2>3. ASSUME NEW i \in 1..n + 1 PROVE g[i] = g[i - 1] \o Chunk(i)
    <3>1. CASE i = n + 1
      <4>1. g[i - 1] = f[n]
        BY <3>1, <2>2
      <4>. QED
        BY <3>1, <2>2, <4>1
    <3>2. CASE i # n + 1
      <4>1. i \in 1..n /\ g[i] = f[i] /\ g[i - 1] = f[i - 1]
        BY <3>2, <2>2
      <4> HIDE DEF g
      <4>. QED
        BY <4>1, <2>1 DEF Joins
    <3>. QED
      BY <3>1, <3>2
  <2>4. Joins(g, n + 1)
    <3> HIDE DEF g
    <3>. QED
      BY <2>2, <2>3 DEF Joins
  <2>. QED
    BY <2>4
<1>3. Nat \subseteq P
  <2> HIDE DEF P
  <2>. QED
    BY <1>1, <1>2, Induct
<1>. QED
  BY <1>3

(* Two ways of joining agree as far as both go.                             *)
LEMMA JoinsUnique ==
    ASSUME NEW f, NEW g, NEW m \in Nat, NEW n \in Nat, Joins(f, m), Joins(g, n)
    PROVE  \A i \in 0..m : i <= n => f[i] = g[i]
<1> DEFINE P == {i \in Nat : i <= m /\ i <= n => f[i] = g[i]}
<1>1. 0 \in P
  BY DEF Joins
<1>2. ASSUME NEW i \in Nat, i \in P PROVE i + 1 \in P
  <2> SUFFICES ASSUME i + 1 <= m, i + 1 <= n PROVE f[i + 1] = g[i + 1]
    OBVIOUS
  <2>1. i + 1 \in 1..m /\ i + 1 \in 1..n /\ (i + 1) - 1 = i /\ f[i] = g[i]
    BY <1>2
  <2>2. f[i + 1] = f[(i + 1) - 1] \o Chunk(i + 1) /\ g[i + 1] = g[(i + 1) - 1] \o Chunk(i + 1)
    BY <2>1 DEF Joins
  <2>. QED
    BY <2>1, <2>2
<1>3. Nat \subseteq P
  <2> HIDE DEF P
  <2>. QED
    BY <1>1, <1>2, Induct
<1>. QED
  BY <1>3

(* Sent is what its equation says.                                          *)
LEMMA SentFacts == Sent[0] = <<>> /\ \A n \in Nat : Sent[n + 1] = Sent[n] \o Chunk(n + 1)
<1> DEFINE J(n) == CHOOSE f : Joins(f, n)
           s == [n \in Nat |-> J(n)[n]]
           K(h) == [n \in Nat |-> IF n = 0 THEN <<>> ELSE h[n - 1] \o Chunk(n)]
           c == CHOOSE h : h = K(h)
<1>1. \A n \in Nat : Joins(J(n), n)
  BY JoinsExists
<1>2. s[0] = <<>>
  BY <1>1 DEF Joins
<1>3. ASSUME NEW n \in Nat, n # 0 PROVE s[n] = s[n - 1] \o Chunk(n)
  <2>1. n - 1 \in Nat /\ n - 1 \in 0..n - 1 /\ n - 1 <= n /\ n \in 1..n
    BY <1>3
  <2>2. J(n - 1)[n - 1] = J(n)[n - 1]
    <3> HIDE DEF J
    <3>. QED
      BY <1>1, <2>1, JoinsUnique
  <2>3. J(n)[n] = J(n)[n - 1] \o Chunk(n)
    <3> HIDE DEF J
    <3>. QED
      BY <1>1, <2>1 DEF Joins
  <2> HIDE DEF J
  <2>. QED
    BY <2>1, <2>2, <2>3
<1>4. s = K(s)
  <2>1. \A n \in Nat : s[n] = IF n = 0 THEN <<>> ELSE s[n - 1] \o Chunk(n)
    <3> HIDE DEF s
    <3>. QED
      BY <1>2, <1>3
  <2>2. s = [n \in Nat |-> s[n]]
    OBVIOUS
  <2> HIDE DEF s
  <2>. QED
    BY <2>1, <2>2
<1>5. c = K(c)
  <2> HIDE DEF K
  <2>. QED
    BY <1>4
<1>6. Sent = c
  BY DEF Sent
<1>7. \A n \in Nat : c[n] = IF n = 0 THEN <<>> ELSE c[n - 1] \o Chunk(n)
  <2> HIDE DEF c
  <2>. QED
    BY <1>5
<1> HIDE DEF c
<1>8. ASSUME NEW n \in Nat PROVE c[n + 1] = c[n] \o Chunk(n + 1)
  <2>1. n + 1 \in Nat /\ n + 1 # 0 /\ (n + 1) - 1 = n
    OBVIOUS
  <2>2. c[n + 1] = c[(n + 1) - 1] \o Chunk(n + 1)
    BY <1>7, <2>1
  <2>. QED
    BY <2>1, <2>2
<1>. QED
  BY <1>6, <1>7, <1>8

(* A chunk is made of bytes.                                                *)
LEMMA ChunkType ==
    ASSUME NEW k \in DOMAIN Sizes
    PROVE  Chunk(k) \in Seq(Bytes) /\ Len(Chunk(k)) = Sizes[k] /\ Sizes[k] \in Nat
<1>1. Sizes[k] \in Nat \ {0}
  BY ByteAssumption
<1>2. \A i \in 1..Sizes[k] : <<k, i>> \in Bytes
  BY DEF Bytes
<1>. QED
  BY <1>1, <1>2 DEF Chunk

-----------------------------------------------------------------------------
(* The buffer                                                               *)

Bounded == \A i, j \in Nat : Min2(i, j) \in 0..i
(* The smaller of two is no more than either.                               *)
LEMMA Min2Bounded == Bounded
  BY DEF Bounded, Min2

(* The numbers up to n are n.                                               *)
LEMMA Counting == \A n \in Nat : IsFiniteSet(1..n) /\ Cardinality(1..n) = n
  BY FS_Interval

(* What is shared out is there, and so are the buffers it goes to.          *)
LEMMA FillBounded == TypeOK => Fill \in 0..Len(queue.bytes) /\ Cardinality(Reached) \in 0..Len(pending)
<1> SUFFICES ASSUME TypeOK PROVE Fill \in 0..Len(queue.bytes) /\ Cardinality(Reached) \in 0..Len(pending)
  OBVIOUS
<1>1. Len(queue.bytes) \in Nat /\ Len(pending) \in Nat /\ DOMAIN pending = 1..Len(pending) /\ BufLen \in Nat
  BY ByteAssumption DEF TypeOK
<1>2. Reached \subseteq 1..Len(pending)
  BY <1>1 DEF Reached
<1>3. IsFiniteSet(1..Len(pending)) /\ Cardinality(1..Len(pending)) = Len(pending)
  BY <1>1, Counting
<1>4. Cardinality(Reached) \in Nat /\ Cardinality(Reached) <= Len(pending)
  BY <1>2, <1>3, FS_Subset, FS_CardinalityType
<1> DEFINE k == Cardinality(Reached)
<1> HIDE DEF k
<1>5. k * BufLen \in Nat
  BY <1>1, <1>4 DEF k
<1>6. Min2(Len(queue.bytes), k * BufLen) \in 0..Len(queue.bytes)
  BY <1>1, <1>5, Min2Bounded DEF Bounded
<1>. QED
  BY <1>1, <1>4, <1>6 DEF Fill, k

(* So is the front entry.                                                   *)
LEMMA FrontBounded == TypeOK => FrontLen \in 0..Len(queue.bytes)
<1> SUFFICES ASSUME TypeOK PROVE FrontLen \in 0..Len(queue.bytes)
  OBVIOUS
<1>1. Len(queue.bytes) \in Nat /\ DOMAIN queue.bytes = 1..Len(queue.bytes)
  BY DEF TypeOK
<1> DEFINE F == {i \in DOMAIN queue.bytes : queue.bytes[i][1] = queue.bytes[1][1]}
<1>2. F \subseteq 1..Len(queue.bytes)
  BY <1>1
<1>3. IsFiniteSet(1..Len(queue.bytes)) /\ Cardinality(1..Len(queue.bytes)) = Len(queue.bytes)
  BY <1>1, Counting
<1>4. Cardinality(F) \in Nat /\ Cardinality(F) <= Len(queue.bytes)
  BY <1>2, <1>3, FS_Subset, FS_CardinalityType
<1>. QED
  BY <1>1, <1>4 DEF FrontLen

\* Bytes stay, leave from the front, or are cleared by a cancel.
DataStep ==
    \/ UNCHANGED <<pushed, cleared, queue, taken>>
    \/ UNCHANGED <<pushed, cleared>> /\ \E n \in 0..Len(queue.bytes) : HandsOut(n)
    \/ /\ UNCHANGED <<pushed, taken>> /\ cleared' = TRUE
       /\ queue' = [queue EXCEPT !.bytes = <<>>] \/ queue' = [queue EXCEPT !.size = 0]

(* Who moves bytes.                                                         *)
LEMMA DataMoves ==
    ASSUME TypeOK, Next
    PROVE  (\E t \in Threads : Push(t)) \/ DataStep
<1> SUFFICES ASSUME ~\E t \in Threads : Push(t) PROVE DataStep
  OBVIOUS
<1>1. ASSUME UNCHANGED <<queue, histVars>> PROVE DataStep
  BY <1>1 DEF DataStep, histVars
<1>2. ASSUME UNCHANGED <<pushed, cleared>>, NEW n \in 0..Len(queue.bytes), HandsOut(n) PROVE DataStep
  BY <1>2 DEF DataStep
<1>3. \A k \in Nat : Min2(BufLen, k) \in 0..k
  BY ByteAssumption DEF Min2
<1>4. Len(queue.bytes) \in Nat
  BY DEF TypeOK
<1>5. ASSUME NEW t \in Threads, SharedStep(t) PROVE DataStep
  <2>1. CASE SettlePullIntos(t)
    <3>1. UNCHANGED <<pushed, cleared>> /\ (UNCHANGED <<queue, taken>> \/ HandsOut(Fill))
      BY <2>1 DEF SettlePullIntos
    <3>. QED
      BY <3>1, <1>2, FillBounded DEF DataStep
  <2>2. CASE Announce(t) \/ SetClosed(t) \/ SetErrored(t) \/ Trigger(t) \/ Recheck(t)
    BY <2>2, <1>1 DEF Announce, SetClosed, SetErrored, Trigger, Recheck, sharedVars
  <2>. QED
    BY <1>5, <2>1, <2>2 DEF SharedStep
<1>6. CASE ControllerStep
  BY <1>6, <1>1 DEF ControllerStep, Enqueue, Close, Error, RequestStep, TakeRequest,
     Respond, DropRequest, sharedVars
<1>7. CASE UserStep
  BY <1>7, <1>1 DEF UserStep, Call, Send, Abandon, Drop, sharedVars
<1>8. CASE SelectStep
  BY <1>8, <1>1 DEF SelectStep, StartSucceeds, StartFails, Started, PollPull, RegisterPull, ServeDue, RegisterServe, Wake,
     sharedVars
<1>9. CASE PullStep
  BY <1>9, <1>1 DEF PullStep, TakeSource, PullReturns, PullFails, PullSettlesReads, PullEnds, GiveBack, sharedVars
<1>10. CASE ServeStep
  <2>1. ASSUME NEW from \in {"drain", "serve", "read"}, ReadTakes(from) PROVE DataStep
    BY <2>1, <1>2, FrontBounded DEF ReadTakes
  <2>2. ASSUME NEW from \in {"drain", "serve", "read"}, ReadErrs(from) \/ ReadFindsNothing(from) PROVE DataStep
    BY <2>2, <1>1 DEF ReadErrs, ReadFindsNothing, sharedVars
  <2>. QED
    BY <1>10, <1>1, <2>1, <2>2 DEF ServeStep, NoReads, ReadEnds, ReadWaits, ParkRead, sharedVars
<1>11. CASE CommandStep
  <2>1. CASE ClearQueue
    BY <2>1 DEF ClearQueue, DataStep
  <2>2. CASE CancelTakesSource
    BY <2>2 DEF CancelTakesSource, DataStep, sharedVars
  <2>. QED
    BY <1>11, <1>1, <2>1, <2>2 DEF CommandStep, CommandReadMoot, CommandRead, CommandCancelMoot, CommandCancel,
     CancelReturns, ChannelClosed, sharedVars
<1>12. ASSUME NEW c \in Byob, ByobStep(c) PROVE DataStep
  <2>1. CASE PollInto(c) \/ JoinPullIntos(c)
    <3>1. UNCHANGED <<pushed, cleared>> /\ (UNCHANGED <<queue, taken>> \/ HandsOut(Min2(BufLen, Len(queue.bytes))))
      BY <2>1 DEF PollInto, JoinPullIntos
    <3>. QED
      BY <3>1, <1>2, <1>3, <1>4 DEF DataStep
  <2>2. CASE Repoll(c) \/ PollIntoEmpty(c) \/ Register(c) \/ BeginPullInto(c) \/ PollEnd(c)
    BY <2>2, <1>1 DEF Repoll, PollIntoEmpty, Register, BeginPullInto, PollEnd, sharedVars
  <2>. QED
    BY <1>12, <2>1, <2>2 DEF ByobStep
<1>. QED
  BY <1>5, <1>6, <1>7, <1>8, <1>9, <1>10, <1>11, <1>12 DEF Next

(* What is handed out was at the front.                                     *)
LEMMA HandOut ==
    ASSUME TypeOK, NEW n \in 0..Len(queue.bytes), HandsOut(n)
    PROVE  /\ queue' \in [bytes : Seq(Bytes), size : Nat] /\ taken' \in Seq(Bytes)
           /\ taken' \o queue'.bytes = taken \o queue.bytes
           /\ queue.size = Len(queue.bytes) => queue'.size = Len(queue'.bytes)
           /\ queue.bytes = <<>> => queue'.bytes = <<>>
<1> DEFINE b == queue.bytes
           p == SubSeq(b, 1, n)
           q == SubSeq(b, n + 1, Len(b))
<1>1. b \in Seq(Bytes) /\ taken \in Seq(Bytes) /\ queue.size \in Nat /\ Len(b) \in Nat
  BY DEF TypeOK
<1>2. p \in Seq(Bytes) /\ q \in Seq(Bytes) /\ Len(q) = Len(b) - n /\ p \o q = b
  <2> HIDE DEF b
  <2>. QED
    BY <1>1, Rejoin DEF b
<1>3. queue'.bytes = q /\ queue'.size = SaturatingSub(queue.size, n) /\ taken' = taken \o p
      /\ queue' = [bytes |-> q, size |-> SaturatingSub(queue.size, n)]
  BY DEF HandsOut
<1>4. SaturatingSub(queue.size, n) \in Nat /\ (queue.size = Len(b) => SaturatingSub(queue.size, n) = Len(b) - n)
  BY <1>1 DEF SaturatingSub
<1> HIDE DEF p, q
<1>5. (taken \o p) \o q = taken \o b
  <2>1. (taken \o p) \o q = taken \o (p \o q)
    <3>1. taken \in Seq(Bytes) /\ p \in Seq(Bytes) /\ q \in Seq(Bytes)
      BY <1>1, <1>2
    <3>. QED
      BY <3>1, ConcatAssociative
  <2>. QED
    BY <2>1, <1>2, Zenon
<1>6. b = <<>> => q = <<>>
  <2>1. ASSUME b = <<>> PROVE Len(q) = 0
    BY <2>1, <1>2, <1>1
  <2>. QED
    BY <2>1, <1>2
<1>. QED
  BY <1>1, <1>2, <1>3, <1>4, <1>5, <1>6

(* The bytes keep their order.                                              *)
LEMMA DataKept ==
    ASSUME TypeOK, Counted, Next
    PROVE  /\ queue' \in [bytes : Seq(Bytes), size : Nat] /\ taken' \in Seq(Bytes) /\ cleared' \in BOOLEAN
           /\ ByteOrder => ByteOrder'
<1>0. /\ queue \in [bytes : Seq(Bytes), size : Nat] /\ taken \in Seq(Bytes) /\ cleared \in BOOLEAN
      /\ queue.bytes \in Seq(Bytes) /\ queue.size \in Nat
  BY DEF TypeOK
<1>1. ASSUME NEW t \in Threads, Push(t)
      PROVE  /\ queue' \in [bytes : Seq(Bytes), size : Nat] /\ taken' = taken /\ cleared' = cleared
             /\ ByteOrder => ByteOrder'
  <2>1. pushed' = pushed + 1 /\ pushed \in Nat /\ pushed + 1 \in DOMAIN Sizes
    BY <1>1, PushHasChunk DEF Push, Counted
  <2> DEFINE h == Chunk(pushed + 1)
  <2>2. h \in Seq(Bytes) /\ Len(h) = Sizes[pushed + 1] /\ Sizes[pushed + 1] \in Nat
    BY <2>1, ChunkType
  <2>3. queue' = [bytes |-> queue.bytes \o h, size |-> queue.size + Sizes[pushed + 1]] /\ taken' = taken /\ cleared' = cleared
    BY <1>1, <2>1 DEF Push
  <2>4. Sent[pushed + 1] = Sent[pushed] \o h
    BY <2>1, SentFacts
  <2> HIDE DEF h
  <2>5. queue.bytes \o h \in Seq(Bytes) /\ Len(queue.bytes \o h) = Len(queue.bytes) + Len(h) /\ queue.size + Sizes[pushed + 1] \in Nat
    <3> DEFINE q == queue.bytes
               w == Sizes[pushed + 1]
    <3>1. q \in Seq(Bytes) /\ h \in Seq(Bytes) /\ queue.size \in Nat /\ w \in Nat
      BY <1>0, <2>2
    <3> HIDE DEF q, w
    <3>2. q \o h \in Seq(Bytes) /\ Len(q \o h) = Len(q) + Len(h)
      BY <3>1
    <3>3. queue.size + w \in Nat
      BY <3>1
    <3>. QED
      BY <3>2, <3>3 DEF q, w
  <2>6. taken \o (queue.bytes \o h) = (taken \o queue.bytes) \o h
    BY SMTT(30), <1>0, <2>2, ConcatAssociative
  <2>7. queue'.bytes = queue.bytes \o h /\ queue'.size = queue.size + Sizes[pushed + 1]
    BY <2>3
  <2>8. ASSUME ByteOrder PROVE ByteOrder'
    <3> SUFFICES ASSUME ~cleared PROVE taken \o (queue.bytes \o h) = Sent[pushed + 1] /\ queue.size + Sizes[pushed + 1] = Len(queue.bytes \o h)
      BY <2>1, <2>3, <2>7 DEF ByteOrder
    <3>1. taken \o queue.bytes = Sent[pushed] /\ queue.size = Len(queue.bytes)
      BY <2>8 DEF ByteOrder
    <3>2. taken \o (queue.bytes \o h) = Sent[pushed + 1]
      BY <2>4, <2>6, <3>1, Zenon
    <3>. QED
      BY <3>1, <3>2, <2>2, <2>5
  <2>. QED
    BY <2>3, <2>5, <2>8
<1>2. CASE UNCHANGED <<pushed, cleared, queue, taken>>
  BY <1>0, <1>2 DEF ByteOrder
<1>3. ASSUME UNCHANGED <<pushed, cleared>>, NEW n \in 0..Len(queue.bytes), HandsOut(n)
      PROVE  /\ queue' \in [bytes : Seq(Bytes), size : Nat] /\ taken' \in Seq(Bytes) /\ cleared' \in BOOLEAN
             /\ ByteOrder => ByteOrder'
  <2>1. /\ queue' \in [bytes : Seq(Bytes), size : Nat] /\ taken' \in Seq(Bytes)
        /\ taken' \o queue'.bytes = taken \o queue.bytes
        /\ queue.size = Len(queue.bytes) => queue'.size = Len(queue'.bytes)
    BY <1>3, HandOut
  <2>. QED
    BY <1>0, <1>3, <2>1, Zenon DEF ByteOrder
<1>4. CASE /\ UNCHANGED <<pushed, taken>> /\ cleared' = TRUE
           /\ queue' = [queue EXCEPT !.bytes = <<>>] \/ queue' = [queue EXCEPT !.size = 0]
  <2>1. <<>> \in Seq(Bytes) /\ 0 \in Nat
    OBVIOUS
  <2>2. queue' \in [bytes : Seq(Bytes), size : Nat]
    BY <1>0, <1>4, <2>1
  <2>. QED
    BY <1>0, <1>4, <2>2 DEF ByteOrder
<1>. QED
  BY <1>0, <1>1, <1>2, <1>3, <1>4, DataMoves DEF DataStep


GateType == [needsPull : BOOLEAN, pullWaker : BOOLEAN, serve : BOOLEAN, serveWaker : BOOLEAN, pulling : BOOLEAN]
StartedType == [done : BOOLEAN, wakers : SUBSET Intos]

\* Types of the flags, the gates and the wakers.
Signals ==
    /\ flags \in [closed : BOOLEAN, errored : BOOLEAN]
    /\ gate \in GateType /\ started \in StartedType
    /\ readWakers \subseteq Byob /\ woken \subseteq Threads

\* What the wakers and the gates hold is what they should.
LEMMA SignalsKept ==
    ASSUME TypeOK, Lists, Next
    PROVE  Signals'
<1>0. /\ Signals /\ todo \in [Threads -> Seq(Steps)] /\ Task \in Threads /\ Byob \subseteq Threads
      /\ flags.closed \in BOOLEAN /\ flags.errored \in BOOLEAN
      /\ gate.pullWaker \in BOOLEAN
  BY OfTask DEF TypeOK, Signals, GateType, StartedType
<1>1. /\ \A g \in GateType : \A b \in BOOLEAN :
           /\ [g EXCEPT !.needsPull = b] \in GateType /\ [g EXCEPT !.pullWaker = b] \in GateType
           /\ [g EXCEPT !.serve = b] \in GateType /\ [g EXCEPT !.pulling = b] \in GateType
           /\ [g EXCEPT !.needsPull = TRUE, !.pullWaker = FALSE] \in GateType
           /\ [g EXCEPT !.serveWaker = TRUE, !.serve = FALSE] \in GateType
           /\ [g EXCEPT !.serve = TRUE, !.serveWaker = FALSE, !.pullWaker = b] \in GateType
  BY DEF GateType
<1>2. ASSUME UNCHANGED <<flags, gate, started, readWakers>>, woken' \subseteq Threads PROVE Signals'
  BY <1>0, <1>2 DEF Signals
<1>3. ASSUME NEW t \in Threads, SharedStep(t) PROVE Signals'
  <2>1. CASE Push(t) \/ SettlePullIntos(t) \/ Recheck(t)
    BY <1>0, <1>2, <2>1 DEF Push, SettlePullIntos, Recheck, sharedVars, Signals
  <2>2. CASE Announce(t)
    <3>1. /\ \E b \in BOOLEAN : gate' = [gate EXCEPT !.serve = TRUE, !.serveWaker = FALSE, !.pullWaker = b]
          /\ woken' \subseteq woken \cup readWakers \cup {Task}
          /\ readWakers' = {} /\ UNCHANGED <<flags, started>>
      <4> DEFINE e == Head(todo[t]) = "announceEnd"
      <4>1. (gate.pullWaker /\ ~e) \in BOOLEAN
        BY <1>0
      <4>2. gate' = [gate EXCEPT !.serve = TRUE, !.serveWaker = FALSE, !.pullWaker = gate.pullWaker /\ ~e]
        BY <1>0, <2>2 DEF Announce, Signals, GateType
      <4>3. woken' \subseteq woken \cup readWakers \cup {Task} /\ readWakers' = {} /\ UNCHANGED <<flags, started>>
        BY <2>2 DEF Announce, Wakes
      <4> HIDE DEF e
      <4>. QED
        BY <4>1, <4>2, <4>3
    <3>2. gate' \in GateType
      <4>1. gate \in GateType
        BY <1>0 DEF Signals
      <4>. QED
        BY <4>1, <3>1, <1>1
    <3>3. woken' \subseteq Threads /\ readWakers' \subseteq Byob /\ UNCHANGED <<flags, started>>
      BY <3>1, <1>0 DEF Signals
    <3>. QED
      BY <3>2, <3>3, <1>0 DEF Signals
  <2>3. CASE SetClosed(t) \/ SetErrored(t)
    <3>1. /\ flags' = [flags EXCEPT !.closed = TRUE] \/ flags' = [flags EXCEPT !.errored = TRUE]
          /\ UNCHANGED <<gate, started, readWakers, woken>>
      BY <2>3 DEF SetClosed, SetErrored
    <3>2. flags' \in [closed : BOOLEAN, errored : BOOLEAN]
      BY <1>0, <3>1 DEF Signals
    <3>. QED
      BY <3>1, <3>2, <1>0 DEF Signals
  <2>4. CASE Trigger(t)
    <3>1. /\ UNCHANGED <<flags, started, readWakers>>
          /\ gate' = gate \/ gate' = [gate EXCEPT !.needsPull = TRUE, !.pullWaker = FALSE]
          /\ woken' \subseteq woken \cup {Task}
      BY <2>4 DEF Trigger, ArmsPull, Wakes
    <3>2. gate \in GateType
      BY <1>0 DEF Signals
    <3>3. [gate EXCEPT !.needsPull = TRUE, !.pullWaker = FALSE] \in GateType
      BY <3>2, <1>1
    <3>4. gate' \in GateType
      BY <3>1, <3>2, <3>3
    <3>. QED
      BY <3>1, <3>4, <1>0 DEF Signals
  <2>. QED
    BY <1>3, <2>1, <2>2, <2>3, <2>4 DEF SharedStep
<1>4. CASE ControllerStep
  BY <1>0, <1>2, <1>4 DEF ControllerStep, Enqueue, Close, Error, RequestStep, TakeRequest,
     Respond, DropRequest, sharedVars, Signals
<1>5. CASE UserStep
  BY <1>0, <1>2, <1>5 DEF UserStep, Call, Send, Abandon, Drop, Wakes, sharedVars, Signals
<1>6. CASE SelectStep
  <2>1. CASE StartSucceeds \/ Started
    <3>1. started' = [done |-> TRUE, wakers |-> {}] /\ woken' = woken \cup started.wakers /\ UNCHANGED <<flags, gate, readWakers>>
      BY <2>1 DEF StartSucceeds, Started, Starts, Wakes
    <3>2. started' \in StartedType /\ started.wakers \subseteq Threads
      BY <3>1, <1>0 DEF Signals, StartedType, Byob
    <3>. QED
      BY <3>1, <3>2, <1>0 DEF Signals
  <2>2. CASE StartFails \/ Wake
    BY <1>0, <1>2, <2>2 DEF StartFails, Wake, sharedVars, Signals
  <2>3. CASE PollPull \/ RegisterPull \/ ServeDue \/ RegisterServe
    <3>1. /\ UNCHANGED <<flags, started, readWakers, woken>>
          /\ \/ gate' = [gate EXCEPT !.needsPull = FALSE] \/ gate' = [gate EXCEPT !.pullWaker = TRUE]
             \/ gate' = [gate EXCEPT !.serve = FALSE] \/ gate' = [gate EXCEPT !.serveWaker = TRUE, !.serve = FALSE]
      BY <2>3 DEF PollPull, RegisterPull, ServeDue, RegisterServe
    <3>. QED
      BY <3>1, <1>0, <1>1 DEF Signals
  <2>. QED
    BY <1>6, <2>1, <2>2, <2>3 DEF SelectStep
<1>7. CASE PullStep
  <2>1. CASE TakeSource \/ PullEnds
    <3>1. /\ UNCHANGED <<flags, started, readWakers, woken>>
          /\ gate' = gate \/ gate' = [gate EXCEPT !.pulling = TRUE] \/ gate' = [gate EXCEPT !.pulling = FALSE]
      BY <2>1 DEF TakeSource, PullEnds
    <3>. QED
      BY <3>1, <1>0, <1>1 DEF Signals
  <2>. QED
    BY <1>0, <1>2, <1>7, <2>1 DEF PullStep, PullReturns, PullFails, PullSettlesReads, GiveBack, sharedVars, Signals
<1>8. CASE ServeStep
  <2>1. ASSUME NEW from \in {"drain", "serve", "read"}, ReadTakes(from) \/ ReadErrs(from) \/ ReadFindsNothing(from) PROVE Signals'
    BY <1>0, <1>2, <2>1 DEF ReadTakes, ReadErrs, ReadFindsNothing, sharedVars, Signals
  <2>. QED
    BY <1>0, <1>2, <1>8, <2>1 DEF ServeStep, NoReads, ReadEnds, ReadWaits, ParkRead, sharedVars, Signals
<1>9. CASE CommandStep
  BY <1>0, <1>2, <1>9 DEF CommandStep, ClearQueue, CancelTakesSource, CommandReadMoot, CommandRead, CommandCancelMoot,
     CommandCancel, CancelReturns, ChannelClosed, sharedVars, Signals
<1>10. ASSUME NEW c \in Byob, ByobStep(c) PROVE Signals'
  <2>1. CASE PollInto(c)
    <3>1. UNCHANGED <<flags, gate, readWakers, woken>>
      BY <2>1 DEF PollInto
    <3>2. started' = started \/ (Does(c, "poll", <<>>) /\ started' = [started EXCEPT !.wakers = started.wakers \cup {c}])
      BY <2>1, <1>0 DEF PollInto, Signals, StartedType
    <3>3. Does(c, "poll", <<>>) => c \in Intos
      <4>1. Does(c, "poll", <<>>) => Has(todo[c], {"poll"})
        <5>1. <<>> \in Seq(Steps) /\ c \in Threads
          BY <1>0
        <5>. QED
          BY <5>1, <1>0, Doing
      <4>. QED
        BY <4>1, <1>0 DEF Lists, Listed
    <3>4. \A s \in StartedType : c \in Intos => [s EXCEPT !.wakers = s.wakers \cup {c}] \in StartedType
      BY DEF StartedType
    <3>. QED
      BY <3>1, <3>2, <3>3, <3>4, <1>0 DEF Signals
  <2>2. CASE Register(c)
    BY <1>0, <2>2 DEF Register, Signals
  <2>3. CASE Repoll(c) \/ PollIntoEmpty(c) \/ BeginPullInto(c) \/ JoinPullIntos(c) \/ PollEnd(c)
    BY <1>0, <1>2, <2>3 DEF Repoll, PollIntoEmpty, BeginPullInto, JoinPullIntos, PollEnd, sharedVars, Signals
  <2>. QED
    BY <1>10, <2>1, <2>2, <2>3 DEF ByobStep
<1>. QED
  BY <1>3, <1>4, <1>5, <1>6, <1>7, <1>8, <1>9, <1>10 DEF Next


TaskType == [at : Places, cur : Commanded \cup {Nobody}, then : {"loop", "drain", "serve"}, before : Nat, progress : BOOLEAN]

\* The task has the source with it.
InPull ==
    \/ task.at \in {"pulling", "drain", "drained", "pullFailed", "pullEnds", "giveBack"}
    \/ task.at = "empty" /\ task.then = "drain"

\* The read the task has in hand.
HoldsRead == task.at \in {"read", "park"} \/ (task.at = "empty" /\ task.then = "loop")

\* What the task holds where it is.
Placed ==
    /\ HoldsRead => task.cur \in Reads
    /\ task.at = "empty" /\ task.then # "loop" => reads # <<>>
    /\ task.at \in {"takeSource", "cancelling"} => task.cur \in Cancels
    /\ InPull \/ task.at = "starting" => source = "away"
    /\ cancelRuns \in 0..1 /\ (cancelRuns = 1 => source = "gone")

(* The line changes when it is settled, joined, or gives to a request.      *)
LEMMA LineMoves ==
    ASSUME Next
    PROVE  \/ UNCHANGED <<pending, lent>>
           \/ \E t \in Threads : SettlePullIntos(t)
           \/ RequestStep
           \/ \E c \in Byob : JoinPullIntos(c)
<1> DEFINE G == UNCHANGED <<pending, lent>>
<1>3. ASSUME NEW t \in Threads, SharedStep(t), ~SettlePullIntos(t) PROVE G
  BY <1>3 DEF SharedStep, Push, Announce, SetClosed, SetErrored, Trigger, Recheck, sharedVars
<1>4. ASSUME ControllerStep, ~RequestStep PROVE G
  BY <1>4 DEF ControllerStep, Enqueue, Close, Error, sharedVars
<1>5. CASE UserStep
  BY <1>5 DEF UserStep, Call, Send, Abandon, Drop, sharedVars
<1>6. CASE SelectStep
  BY <1>6 DEF SelectStep, StartSucceeds, StartFails, Started, PollPull, RegisterPull, ServeDue, RegisterServe, Wake,
     sharedVars
<1>7. CASE PullStep
  BY <1>7 DEF PullStep, TakeSource, PullReturns, PullFails, PullSettlesReads, PullEnds, GiveBack, sharedVars
<1>8. CASE ServeStep
  <2>1. ASSUME NEW from \in {"drain", "serve", "read"}, ReadTakes(from) \/ ReadErrs(from) \/ ReadFindsNothing(from) PROVE G
    BY <2>1 DEF ReadTakes, ReadErrs, ReadFindsNothing, sharedVars
  <2>. QED
    BY <1>8, <2>1 DEF ServeStep, NoReads, ReadEnds, ReadWaits, ParkRead, sharedVars
<1>9. CASE CommandStep
  BY <1>9 DEF CommandStep, ClearQueue, CancelTakesSource, CommandReadMoot, CommandRead, CommandCancelMoot,
     CommandCancel, CancelReturns, ChannelClosed, sharedVars
<1>10. ASSUME NEW c \in Byob, ByobStep(c), ~JoinPullIntos(c) PROVE G
  BY <1>10 DEF ByobStep, PollInto, Repoll, PollIntoEmpty, Register, BeginPullInto, PollEnd, sharedVars
<1>. QED
  BY <1>3, <1>4, <1>5, <1>6, <1>7, <1>8, <1>9, <1>10 DEF Next

(* Who waits in line is a read_owned call.                                   *)
LEMMA PendingKept ==
    ASSUME TypeOK, Lists, Next
    PROVE  pending' \in Seq(Owned) /\ lent' \subseteq Owned
<1> DEFINE G == pending' \in Seq(Owned) /\ lent' \subseteq Owned
<1>0. pending \in Seq(Owned) /\ lent \subseteq Owned /\ todo \in [Threads -> Seq(Steps)]
  BY DEF TypeOK
<1>1. ASSUME NEW t \in Threads, SettlePullIntos(t) PROVE G
  <2>1. lent' = lent /\ (pending' = <<>> \/ pending' = SubSeq(pending, Cardinality(Reached) + 1, Len(pending)))
    BY <1>1 DEF SettlePullIntos
  <2>2. SubSeq(pending, Cardinality(Reached) + 1, Len(pending)) \in Seq(Owned)
    BY <1>0, FillBounded, Rejoin
  <2>3. <<>> \in Seq(Owned)
    OBVIOUS
  <2>. QED
    BY <2>1, <2>2, <2>3, <1>0 DEF G
<1>2. CASE RequestStep
  <2>1. ASSUME NEW t, TakeRequest(t) PROVE G
    <3>1. pending # <<>> /\ lent' = lent \cup {Head(pending)} /\ pending' = Tail(pending)
      BY <2>1 DEF TakeRequest
    <3>2. Head(pending) \in Owned /\ Tail(pending) \in Seq(Owned)
      BY <3>1, <1>0
    <3>. QED
      BY <3>1, <3>2, <1>0 DEF G
  <2>2. ASSUME NEW c, Respond(c) PROVE G
    BY <2>2, <1>0 DEF Respond, G
  <2>3. ASSUME NEW t, NEW c, DropRequest(t, c) PROVE G
    <3>1. c \in Owned /\ pending' = <<c>> \o pending /\ lent' = lent \ {c}
      BY <2>3, <1>0 DEF DropRequest
    <3>2. <<c>> \in Seq(Owned)
      BY <3>1
    <3>. QED
      BY <3>1, <3>2, <1>0 DEF G
  <2>. QED
    BY <1>2, <2>1, <2>2, <2>3 DEF RequestStep
<1>3. ASSUME NEW c \in Byob, JoinPullIntos(c) PROVE G
  <2>1. lent' = lent /\ (pending' = pending \/ (Does(c, "join", <<"recheck">>) /\ pending' = Append(pending, c)))
    BY <1>3 DEF JoinPullIntos
  <2>2. Does(c, "join", <<"recheck">>) => c \in Owned
    <3>1. <<"recheck">> \in Seq(Steps) /\ c \in Threads
      BY OfTask DEF Steps
    <3>2. Does(c, "join", <<"recheck">>) => Has(todo[c], {"into", "join"})
      BY <3>1, <1>0, Doing
    <3>. QED
      BY <3>1, <3>2 DEF Lists, Listed
  <2>. QED
    BY <2>1, <2>2, <1>0 DEF G
<1>4. CASE UNCHANGED <<pending, lent>>
  BY <1>4, <1>0
<1>. QED
  BY <1>1, <1>2, <1>3, <1>4, LineMoves DEF G


\* With the types of what the task keeps.
TaskPlaced ==
    /\ source \in {"here", "away", "gone"} /\ task \in TaskType
    /\ reads \in Seq(Reads) /\ commands \in Seq(Commanded)
    /\ Placed

(* The task is where it should be, with what it needs there.                 *)
LEMMA PlacedKept ==
    ASSUME TypeOK, Placed, Next
    PROVE  TaskPlaced'
<1>0. /\ TaskPlaced /\ task \in TaskType /\ task.at \in Places /\ task.then \in {"loop", "drain", "serve"}
      /\ task.cur \in Commanded \cup {Nobody} /\ task.progress \in BOOLEAN
      /\ reads \in Seq(Reads) /\ commands \in Seq(Commanded) /\ queue.size \in Nat
      /\ <<>> \in Seq(Reads)
  <2>1. <<>> \in Seq(Reads)
    OBVIOUS
  <2>. QED
    BY <2>1 DEF TypeOK, TaskPlaced, TaskType
<1>1. ASSUME UNCHANGED <<task, reads, source, cancelRuns>>, commands' \in Seq(Commanded) PROVE TaskPlaced'
  BY <1>0, <1>1 DEF TaskPlaced, Placed, InPull, HoldsRead
<1>2. ASSUME UNCHANGED <<taskVars, cancelRuns>> PROVE TaskPlaced'
  BY <1>0, <1>1, <1>2 DEF taskVars
<1>3. ASSUME NEW t \in Threads, SharedStep(t) PROVE TaskPlaced'
  BY <1>2, <1>3 DEF SharedStep, Push, SettlePullIntos, Announce, SetClosed, SetErrored, Trigger, Recheck, histVars
<1>4. CASE ControllerStep
  BY <1>2, <1>4 DEF ControllerStep, Enqueue, Close, Error, RequestStep, TakeRequest,
     Respond, DropRequest, histVars
<1>5. CASE UserStep
  <2>1. ASSUME NEW c, Send(c) PROVE TaskPlaced'
    BY <2>1, <1>0, <1>1 DEF Send, histVars
  <2>. QED
    BY <1>2, <1>5, <2>1 DEF UserStep, Call, Abandon, Drop, histVars
\* A step that goes to another place and does no more.
<1>6. ASSUME NEW p \in Places, GoTo(p), UNCHANGED <<reads, cancelRuns>>, commands' \in Seq(Commanded),
             source' \in {"here", "away", "gone"}, p \notin {"read", "park", "empty", "takeSource", "cancelling", "starting"},
             p \in {"pulling", "drain", "drained", "pullFailed", "pullEnds", "giveBack"} => source' = "away",
             cancelRuns = 1 => source' = "gone"
      PROVE  TaskPlaced'
  <2>1. task' \in TaskType /\ task'.at = p
    BY <1>0, <1>6 DEF GoTo, TaskType
  <2>. QED
    BY <1>0, <1>6, <2>1 DEF TaskPlaced, Placed, InPull, HoldsRead
<1>7. CASE SelectStep
  <2>1. CASE StartSucceeds
    BY <1>0, <1>6, <2>1 DEF StartSucceeds, At, histVars, TaskPlaced, Placed, Places
  <2>2. CASE StartFails
    BY <1>0, <1>6, <2>2 DEF StartFails, At, histVars, TaskPlaced, Placed, Places
  <2>3. CASE Started
    BY <1>2, <2>3 DEF Started, histVars
  <2>4. ASSUME NEW p \in {"loop", "pullDue", "registerPull", "registerServe", "serve", "command", "parked"}, GoTo(p),
               UNCHANGED <<reads, commands, source, histVars>>
        PROVE  TaskPlaced'
    BY <1>0, <1>6, <2>4 DEF histVars, TaskPlaced, Placed, Places
  <2>5. CASE PollPull \/ RegisterPull \/ ServeDue \/ Wake
    BY <2>4, <2>5 DEF PollPull, RegisterPull, ServeDue, Wake
  <2>6. CASE RegisterServe
    BY <2>4, <2>6 DEF RegisterServe
  <2>. QED
    BY <1>7, <2>1, <2>2, <2>3, <2>5, <2>6 DEF SelectStep
<1>8. CASE PullStep
  <2>1. CASE TakeSource
    <3>1. CASE GoTo("loop") /\ source' = source
      BY <1>0, <1>6, <2>1, <3>1 DEF TakeSource, histVars, TaskPlaced, Placed, Places
    <3>2. CASE source = "here" /\ source' = "away" /\ task' = [task EXCEPT !.at = "pulling", !.before = queue.size]
      <4>1. task' \in TaskType /\ task'.at = "pulling"
        BY <1>0, <3>2 DEF TaskType, Places
      <4>. QED
        BY <1>0, <2>1, <3>2, <4>1 DEF TakeSource, histVars, TaskPlaced, Placed, InPull, HoldsRead
    <3>. QED
      BY <2>1, <3>1, <3>2 DEF TakeSource
  <2>2. CASE PullReturns
    <3> DEFINE grew == queue.size > task.before
    <3>1. task' = [task EXCEPT !.at = IF grew THEN "drain" ELSE "drained", !.progress = grew, !.before = 0]
      BY <2>2 DEF PullReturns
    <3>2. task' \in TaskType /\ task'.at \in {"drain", "drained"}
      <4>1. CASE grew
        <5>1. task' = [task EXCEPT !.at = "drain", !.progress = TRUE, !.before = 0]
          BY <3>1, <4>1
        <5>. QED
          BY <1>0, <5>1 DEF TaskType, Places
      <4>2. CASE ~grew
        <5>1. task' = [task EXCEPT !.at = "drained", !.progress = FALSE, !.before = 0]
          <6>1. grew = FALSE
            BY <4>2, <1>0 DEF TaskType
          <6> HIDE DEF grew
          <6>. QED
            BY <3>1, <6>1
        <5>. QED
          BY <1>0, <5>1 DEF TaskType, Places
      <4>. QED
        BY <4>1, <4>2
    <3>3. task.at = "pulling" /\ UNCHANGED <<reads, commands, source, cancelRuns>>
      BY <2>2 DEF PullReturns, At, histVars
    <3>. QED
      BY <1>0, <3>2, <3>3 DEF TaskPlaced, Placed, InPull, HoldsRead
  <2>3. CASE PullFails
    <3>1. task' \in TaskType /\ task'.at = "pullFailed"
      BY <1>0, <2>3 DEF PullFails, TaskType, Places
    <3>2. task.at = "pulling" /\ UNCHANGED <<reads, commands, source, cancelRuns>>
      BY <2>3 DEF PullFails, At, histVars
    <3>. QED
      BY <1>0, <3>1, <3>2 DEF TaskPlaced, Placed, InPull, HoldsRead
  <2>4. CASE PullSettlesReads
    <3>1. task' \in TaskType /\ task'.at = "pullEnds"
      BY <1>0, <2>4 DEF PullSettlesReads, GoTo, TaskType, Places
    <3>2. task.at \in {"drained", "pullFailed"} /\ UNCHANGED <<commands, source, cancelRuns>> /\ (reads' = <<>> \/ reads' = reads)
      BY <2>4 DEF PullSettlesReads, AnswersReads, At, histVars
    <3>3. reads' \in Seq(Reads)
      BY <1>0, <3>2
    <3>. QED
      BY <1>0, <3>1, <3>2, <3>3 DEF TaskPlaced, Placed, InPull, HoldsRead
  <2>5. CASE PullEnds
    <3>1. task' \in TaskType /\ task'.at = "giveBack"
      BY <1>0, <2>5 DEF PullEnds, TaskType, Places
    <3>2. task.at = "pullEnds" /\ UNCHANGED <<reads, commands, source, cancelRuns>>
      BY <2>5 DEF PullEnds, At, histVars
    <3>. QED
      BY <1>0, <3>1, <3>2 DEF TaskPlaced, Placed, InPull, HoldsRead
  <2>6. CASE GiveBack
    <3>1. GoTo("loop") /\ source' \in {"here", "gone"} /\ source = "away" /\ UNCHANGED <<reads, commands, cancelRuns>>
      BY <2>6, <1>0 DEF GiveBack, At, histVars, TaskPlaced, Placed, InPull
    <3>2. cancelRuns # 1 /\ "loop" \in Places
      BY <3>1, <1>0 DEF TaskPlaced, Placed, Places
    <3>. QED
      BY <1>0, <1>6, <3>1, <3>2
  <2>. QED
    BY <1>8, <2>1, <2>2, <2>3, <2>4, <2>5, <2>6 DEF PullStep
\* The reads after the one that is done with.
<1>9. ASSUME reads # <<>> PROVE Head(reads) \in Reads /\ Tail(reads) \in Seq(Reads)
  BY <1>0, <1>9
<1>10. ASSUME NEW from \in {"drain", "serve", "read"}, NextRead(from), UNCHANGED <<commands, source, cancelRuns>>,
              from # "read" => reads # <<>>, from = "drain" => source = "away"
       PROVE  TaskPlaced'
  <2>1. task' \in TaskType /\ task'.at \in {"loop", "drain", "serve"} /\ (task'.at = "drain" => from = "drain")
    BY <1>0, <1>10 DEF NextRead, TaskType, Places
  <2>2. reads' \in Seq(Reads)
    BY <1>0, <1>9, <1>10 DEF NextRead
  <2>. QED
    BY <1>0, <1>10, <2>1, <2>2 DEF TaskPlaced, Placed, InPull, HoldsRead
<1>11. CASE ServeStep
  <2>0. task.at = "drain" => source = "away"
    BY <1>0 DEF TaskPlaced, Placed, InPull
  <2>1. CASE NoReads
    <3>1. UNCHANGED <<reads, commands, source, cancelRuns>> /\ (GoTo("loop") \/ (task.at = "drain" /\ GoTo("drained")))
      BY <2>1 DEF NoReads, At, histVars
    <3>. QED
      BY <3>1, <2>0, <1>0, <1>6 DEF TaskPlaced, Placed, Places
  <2>2. CASE ReadEnds
    <3>1. /\ task.at = "empty" /\ UNCHANGED <<commands, source, cancelRuns>>
          /\ NextRead(IF task.then = "loop" THEN "read" ELSE task.then)
      BY <2>2 DEF ReadEnds, At, histVars
    <3>2. /\ (IF task.then = "loop" THEN "read" ELSE task.then) \in {"drain", "serve", "read"}
          /\ (task.then = "drain" => source = "away") /\ (task.then # "loop" => reads # <<>>)
      BY <3>1, <1>0 DEF TaskPlaced, Placed, InPull
    <3>3. CASE task.then = "loop"
      BY <3>1, <3>3, <1>10
    <3>4. CASE task.then # "loop"
      BY <3>1, <3>2, <3>4, <1>10
    <3>. QED
      BY <3>3, <3>4
  <2>3. CASE ReadWaits
    <3>1. /\ task.at = "empty" /\ UNCHANGED <<reads, commands, source, cancelRuns>>
          /\ \/ task.then = "loop" /\ task' = [task EXCEPT !.at = "park", !.then = "loop"]
             \/ task.then = "drain" /\ task' = [task EXCEPT !.at = "drained", !.then = "loop"]
             \/ task.then = "serve" /\ task' = [task EXCEPT !.at = "loop", !.then = "loop"]
      BY <2>3, <1>0 DEF ReadWaits, At, histVars
    <3>2. /\ task' \in TaskType /\ task'.cur = task.cur
          /\ \/ task.then = "loop" /\ task'.at = "park"
             \/ task.then = "drain" /\ task'.at = "drained"
             \/ task'.at = "loop"
      BY <3>1, <1>0 DEF TaskType, Places
    <3>. QED
      BY <3>1, <3>2, <1>0 DEF TaskPlaced, Placed, InPull, HoldsRead
  <2>4. CASE ParkRead
    <3>1. /\ task.at = "park" /\ UNCHANGED <<commands, source, cancelRuns>>
          /\ task' = [task EXCEPT !.at = "loop", !.cur = Nobody]
          /\ reads' = reads \/ reads' = Append(reads, task.cur)
      BY <2>4 DEF ParkRead, At, histVars
    <3>2. task' \in TaskType /\ task'.at = "loop"
      BY <3>1, <1>0 DEF TaskType, Places
    <3>3. task.cur \in Reads
      BY <3>1, <1>0 DEF TaskPlaced, Placed, HoldsRead
    <3>4. reads' \in Seq(Reads)
      BY <3>1, <3>3, <1>0
    <3>. QED
      BY <3>1, <3>2, <3>4, <1>0 DEF TaskPlaced, Placed, InPull, HoldsRead
  <2>5. ASSUME NEW from \in {"drain", "serve", "read"}, ReadErrs(from) PROVE TaskPlaced'
    BY <2>5, <2>0, <1>10 DEF ReadErrs, Popping, At, histVars
  <2>6. ASSUME NEW from \in {"drain", "serve", "read"}, ReadTakes(from) PROVE TaskPlaced'
    <3>1. CASE from = "drain"
      <4>1. reads # <<>> /\ task.at = "drain" /\ UNCHANGED <<commands, source, cancelRuns>> /\ GoTo("drained") /\ reads' = Tail(reads)
        BY <2>6, <3>1 DEF ReadTakes, Popping, At
      <4>2. task' \in TaskType /\ task'.at = "drained"
        BY <4>1, <1>0 DEF GoTo, TaskType, Places
      <4>. QED
        BY <4>1, <4>2, <2>0, <1>0, <1>9 DEF TaskPlaced, Placed, InPull, HoldsRead
    <3>2. CASE from # "drain"
      BY <2>6, <3>2, <1>10 DEF ReadTakes, Popping, At
    <3>. QED
      BY <3>1, <3>2
  <2>7. ASSUME NEW from \in {"drain", "serve", "read"}, ReadFindsNothing(from) PROVE TaskPlaced'
    <3>1. /\ task.at = from /\ (from # "read" => reads # <<>>) /\ UNCHANGED <<reads, commands, source, cancelRuns>>
          /\ task' = [task EXCEPT !.at = "empty", !.then = IF from = "read" THEN "loop" ELSE from]
      BY <2>7 DEF ReadFindsNothing, Popping, At, histVars
    <3>2. task' \in TaskType /\ task'.at = "empty" /\ task'.cur = task.cur /\ task'.then = IF from = "read" THEN "loop" ELSE from
      BY <3>1, <1>0 DEF TaskType, Places
    <3>. QED
      BY <3>1, <3>2, <2>0, <1>0 DEF TaskPlaced, Placed, InPull, HoldsRead
  <2>. QED
    BY <1>11, <2>1, <2>2, <2>3, <2>4, <2>5, <2>6, <2>7 DEF ServeStep
<1>12. ASSUME NEW c, NEW o, CancelEnds(c, o), UNCHANGED <<commands, source, cancelRuns>> PROVE TaskPlaced'
  <2>1. task' \in TaskType /\ task'.at = "loop" /\ reads' \in Seq(Reads)
    BY <1>12, <1>0 DEF CancelEnds, TaskType, Places
  <2>. QED
    BY <1>12, <2>1, <1>0 DEF TaskPlaced, Placed, InPull, HoldsRead
<1>13. CASE CommandStep
  <2>0. ASSUME commands # <<>> PROVE Head(commands) \in Commanded /\ Tail(commands) \in Seq(Commanded)
    BY <1>0, <2>0
  <2>1. CASE CommandReadMoot
    <3>1. GoTo("loop") /\ UNCHANGED <<reads, source, cancelRuns>> /\ commands' \in Seq(Commanded)
      BY <2>0, <2>1 DEF CommandReadMoot, Receives, histVars
    <3>. QED
      BY <3>1, <1>0, <1>6 DEF TaskPlaced, Placed, Places
  <2>2. CASE CommandRead
    <3>1. /\ UNCHANGED <<reads, source, cancelRuns>> /\ commands' \in Seq(Commanded) /\ Head(commands) \in Reads
          /\ task' = [task EXCEPT !.at = "read", !.cur = Head(commands)]
      BY <2>0, <2>2 DEF CommandRead, Receives, histVars
    <3>2. task' \in TaskType /\ task'.at = "read" /\ task'.cur \in Reads
      BY <3>1, <1>0 DEF TaskType, Places, Commanded
    <3>. QED
      BY <3>1, <3>2, <1>0 DEF TaskPlaced, Placed, InPull, HoldsRead
  <2>3. CASE CommandCancelMoot
    <3>1. /\ UNCHANGED <<source, cancelRuns>> /\ commands' \in Seq(Commanded) /\ reads' = <<>>
          /\ task' = [task EXCEPT !.at = "loop", !.cur = Nobody]
      BY <2>0, <2>3 DEF CommandCancelMoot, Receives, CancelEnds, histVars
    <3>2. task' \in TaskType /\ task'.at = "loop" /\ reads' \in Seq(Reads)
      BY <3>1, <1>0 DEF TaskType, Places
    <3>. QED
      BY <3>1, <3>2, <1>0 DEF TaskPlaced, Placed, InPull, HoldsRead
  <2>4. CASE CommandCancel
    <3>1. /\ UNCHANGED <<reads, source, cancelRuns>> /\ commands' \in Seq(Commanded) /\ Head(commands) \in Cancels
          /\ task' = [task EXCEPT !.at = "takeSource", !.cur = Head(commands)]
      BY <2>0, <2>4 DEF CommandCancel, Receives, histVars
    <3>2. task' \in TaskType /\ task'.at = "takeSource" /\ task'.cur \in Cancels
      BY <3>1, <1>0 DEF TaskType, Places, Commanded
    <3>. QED
      BY <3>1, <3>2, <1>0 DEF TaskPlaced, Placed, InPull, HoldsRead
  <2>5. CASE ClearQueue
    BY <2>5, <1>2 DEF ClearQueue
  <2>6. CASE CancelTakesSource
    <3>1. CASE source = "here"
      <4>1. /\ task.at = "takeSource" /\ source' = "gone" /\ cancelRuns' = cancelRuns + 1 /\ GoTo("cancelling")
            /\ UNCHANGED <<reads, commands>>
        BY <2>6, <3>1 DEF CancelTakesSource, At
      <4>2. task' \in TaskType /\ task'.at = "cancelling" /\ task'.cur = task.cur
        BY <4>1, <1>0 DEF GoTo, TaskType, Places
      <4>. QED
        BY <3>1, <4>1, <4>2, <1>0 DEF TaskPlaced, Placed, InPull, HoldsRead
    <3>2. CASE source # "here"
      BY <2>6, <3>2, <1>12 DEF CancelTakesSource
    <3>. QED
      BY <3>1, <3>2
  <2>7. CASE CancelReturns
    BY <2>7, <1>12 DEF CancelReturns, histVars
  <2>8. CASE ChannelClosed
    <3>1. UNCHANGED <<source, commands, cancelRuns>> /\ (GoTo("done") \/ GoTo("loop")) /\ (reads' = <<>> \/ reads' = reads)
      BY <2>8 DEF ChannelClosed, AnswersReads, histVars
    <3>2. task' \in TaskType /\ task'.at \in {"done", "loop"} /\ reads' \in Seq(Reads)
      BY <3>1, <1>0 DEF GoTo, TaskType, Places
    <3>. QED
      BY <3>1, <3>2, <1>0 DEF TaskPlaced, Placed, InPull, HoldsRead
  <2>. QED
    BY <1>13, <2>1, <2>2, <2>3, <2>4, <2>5, <2>6, <2>7, <2>8 DEF CommandStep
<1>14. ASSUME NEW c \in Byob, ByobStep(c) PROVE TaskPlaced'
  BY <1>2, <1>14 DEF ByobStep, Repoll, PollInto, PollIntoEmpty, Register, BeginPullInto, JoinPullIntos, PollEnd, histVars
<1>. QED
  BY <1>3, <1>4, <1>5, <1>7, <1>8, <1>11, <1>13, <1>14 DEF Next

(* Calls and endings are counted.                                           *)
LEMMA CountersKept ==
    ASSUME TypeOK, Counted', Next
    PROVE  made' \in 0..Len(Sizes) /\ pushed' \in 0..made' /\ ended' \subseteq Endings /\ dropped' \in BOOLEAN
<1>0. made \in 0..Len(Sizes) /\ ended \subseteq Endings /\ dropped \in BOOLEAN /\ Len(Sizes) \in Nat
  BY ByteAssumption DEF TypeOK
<1>1. /\ made' = made \/ (made < Len(Sizes) /\ made' = made + 1)
      /\ ended' = ended \/ (\E e \in Endings : ended' = ended \cup {e})
      /\ dropped' = dropped \/ dropped' = TRUE
  <2>1. ASSUME NEW t, Enqueue(t) \/ Close(t) \/ Error(t)
        PROVE  /\ made' = made \/ (made < Len(Sizes) /\ made' = made + 1)
               /\ ended' = ended \/ (\E e \in Endings : ended' = ended \cup {e})
               /\ dropped' = dropped
    BY <2>1 DEF Enqueue, Close, Error, MayEnd
  <2>2. CASE ControllerStep
    BY <2>1, <2>2 DEF ControllerStep, RequestStep, TakeRequest, Respond, DropRequest, userVars
  <2>3. CASE UserStep
    BY <2>3 DEF UserStep, Call, Send, Abandon, Drop
  <2>4. ASSUME ~ControllerStep, ~UserStep PROVE UNCHANGED <<made, ended, dropped>>
    <3>1. CASE SelectStep
      BY <3>1 DEF SelectStep, StartSucceeds, StartFails, Started, PollPull, RegisterPull, ServeDue, RegisterServe, Wake, userVars
    <3>2. CASE PullStep
      BY <3>2 DEF PullStep, TakeSource, PullReturns, PullFails, PullSettlesReads, PullEnds, GiveBack, userVars
    <3>3. CASE ServeStep
      BY <3>3 DEF ServeStep, NoReads, ReadEnds, ReadWaits, ParkRead, ReadTakes, ReadErrs, ReadFindsNothing, userVars
    <3>4. CASE CommandStep
      BY <3>4 DEF CommandStep, ClearQueue, CancelTakesSource, CommandReadMoot, CommandRead, CommandCancelMoot,
         CommandCancel, CancelReturns, ChannelClosed, userVars
    <3>5. ASSUME NEW t \in Threads, SharedStep(t) PROVE UNCHANGED <<made, ended, dropped>>
      BY <3>5 DEF SharedStep, Push, SettlePullIntos, Announce, SetClosed, SetErrored, Trigger, Recheck, userVars
    <3>6. ASSUME NEW c \in Byob, ByobStep(c) PROVE UNCHANGED <<made, ended, dropped>>
      BY <3>6 DEF ByobStep, Repoll, PollInto, PollIntoEmpty, Register, BeginPullInto, JoinPullIntos, PollEnd, userVars
    <3>. QED
      BY <2>4, <3>1, <3>2, <3>3, <3>4, <3>5, <3>6 DEF Next
  <2>. QED
    BY <2>2, <2>3, <2>4
<1>2. made' \in 0..Len(Sizes)
  BY <1>0, <1>1
<1>3. pushed' \in 0..made'
  <2>1. Cardinality(Pushing') \in Nat /\ pushed' \in Nat /\ made' \in Nat /\ pushed' + Cardinality(Pushing') = made'
    BY FS_CardinalityType DEF Counted
  <2>. QED
    BY <2>1
<1>. QED
  BY <1>0, <1>1, <1>2, <1>3


-----------------------------------------------------------------------------
(* What plain steps leave to be done                                        *)

(* Plain steps leave to be done what was to be announced or settled.        *)
LEMMA DuePlain ==
    ASSUME TypeOK, Lists, Plain, NEW X \in SUBSET Special, Due(X)
    PROVE  DueIn(todo', X)
<1>0. todo \in [Threads -> Seq(Steps)] /\ call \in [Calls -> Outcomes] /\ TodoPlain
  BY PlainMoves DEF TypeOK, Lists
<1>1. ASSUME NEW t \in Threads, NEW m \in Mores, NEW op \in Steps \ Special, Does(t, op, m) PROVE DueIn(todo', X)
  BY <1>0, <1>1, MoresType, Doing
<1>2. ASSUME NEW t \in Producers \cup {Task}, NEW s \in Begins, Idle(t), todo' = [todo EXCEPT ![t] = s] PROVE DueIn(todo', X)
  BY <1>0, <1>2, OfTask, BeginsType, Beginning
<1>3. ASSUME NEW c \in Byob, Idle(c), todo' = [todo EXCEPT ![c] = <<FirstStep(c)>>] PROVE DueIn(todo', X)
  BY <1>0, <1>3, OfTask, FirstType, Beginning
<1>. QED
  BY <1>0, <1>1, <1>2, <1>3 DEF TodoPlain, Due

(* What the other steps leave to be done.                                   *)
LEMMA DueSpecial ==
    ASSUME TypeOK, Lists, NEW t \in Threads, NEW X \in SUBSET Special, Due(X)
    PROVE  /\ Push(t) /\ "push" \notin X => DueIn(todo', X)
           /\ SettlePullIntos(t) /\ "settle" \notin X => DueIn(todo', X)
           /\ SetClosed(t) /\ "close" \notin X => DueIn(todo', X)
           /\ SetErrored(t) /\ "errored" \notin X => DueIn(todo', X)
           /\ Announce(t) /\ X \cap {"announce", "announceEnd"} = {} => DueIn(todo', X)
           /\ Recheck(t) /\ X \cap {"recheck", "resettle"} = {} => DueIn(todo', X)
           /\ t \in Producers \cup {Task} /\ Enqueue(t) => DueIn(todo', X)
<1>0. todo \in [Threads -> Seq(Steps)] /\ call \in [Calls -> Outcomes]
  BY DEF TypeOK
<1>1. ASSUME NEW op, op \notin X, NEW m \in Mores, Does(t, op, m) PROVE DueIn(todo', X)
  BY <1>0, <1>1, MoresType, Doing
<1>2. <<>> \in Mores /\ <<"trigger">> \in Mores /\ <<"settle", "force">> \in Mores /\ <<"force">> \in Mores
      /\ <<"settle">> \in Mores
  BY DEF Mores
<1>3. Enqueue(t) => DueIn(todo', X)
  <2>1. Enqueue(t) => Idle(t) /\ todo' = [todo EXCEPT ![t] = EnqueueSteps]
    BY DEF Enqueue, HasController
  <2>. QED
    BY <1>0, <2>1, BeginsType, Beginning
<1>4. Push(t) /\ "push" \notin X => DueIn(todo', X)
  BY <1>1, <1>2 DEF Push
<1>5. SettlePullIntos(t) /\ "settle" \notin X => DueIn(todo', X)
  BY <1>1, <1>2 DEF SettlePullIntos
<1>6. (SetClosed(t) /\ "close" \notin X => DueIn(todo', X)) /\ (SetErrored(t) /\ "errored" \notin X => DueIn(todo', X))
  BY <1>1, <1>2 DEF SetClosed, SetErrored
<1>7. Announce(t) /\ X \cap {"announce", "announceEnd"} = {} => DueIn(todo', X)
  BY <1>1, <1>2 DEF Announce
<1>8. Recheck(t) /\ X \cap {"recheck", "resettle"} = {} => DueIn(todo', X)
  BY <1>1, <1>2 DEF Recheck
<1>. QED
  BY <1>3, <1>4, <1>5, <1>6, <1>7, <1>8

(* An end is settled and announced, and so is a chunk.                      *)
LEMMA EndsAreSettled ==
    ASSUME TypeOK, Lists, NEW t \in Threads
    PROVE  /\ SetClosed(t) \/ SetErrored(t) => DueIn(todo', {"settle", "recheck", "resettle"})
           /\ SetClosed(t) \/ SetErrored(t) \/ Push(t) => DueIn(todo', {"announce", "announceEnd"})
<1> DEFINE S == {"settle"}
           A == {"announce", "announceEnd"}
<1>0. todo \in [Threads -> Seq(Steps)] /\ <<>> \in Seq(Steps)
  BY DEF TypeOK
<1>1. ASSUME NEW op, Does(t, op, <<>>)
      PROVE  /\ op \in {"close", "errored"} => DueIn(todo', S)
             /\ op \in {"push", "close", "errored"} => DueIn(todo', A)
  <2>1. /\ todo[t] # <<>> /\ Head(todo[t]) = op
        /\ \A X : Has(todo'[t], X) <=> Has(<<>>, X) \/ Has(Tail(todo[t]), X)
    BY <1>0, <1>1, Doing
  <2>2. /\ op \in {"close", "errored"} => Has(Tail(todo[t]), S)
        /\ op \in {"push", "close", "errored"} => Has(Tail(todo[t]), A)
    <3>1. todo[t] \in Seq(Steps) /\ Follows(todo[t], {"close", "errored"}, S) /\ Follows(todo[t], {"push", "close", "errored"}, A)
      BY <1>0 DEF Lists, Listed
    <3> HIDE DEF S, A
    <3>. QED
      BY <2>1, <3>1, FollowsParts
  <2>. QED
    BY <2>1, <2>2 DEF DueIn
<1>2. DueIn(todo', S) => DueIn(todo', {"settle", "recheck", "resettle"})
  BY DEF DueIn, Has
<1>. QED
  BY <1>1, <1>2 DEF SetClosed, SetErrored, Push

-----------------------------------------------------------------------------
(* No buffer is left behind                                                 *)

\* Operations that settle the line, at once or after a look at the flags.
SettleOps == {"settle", "recheck", "resettle"}

\* An ended stream that still holds buffers has a thread on its way to settle them.
Settled == Over /\ pending # <<>> => Due(SettleOps)

(* Whoever ends the stream, or joins the line of an ended one, settles it.  *)
LEMMA SettledKept ==
    ASSUME TypeOK, Lists, Settled, Next
    PROVE  Settled'
<1>0. todo \in [Threads -> Seq(Steps)] /\ SettleOps \subseteq Special
  BY DEF TypeOK, SettleOps, Special
<1>1. ASSUME UNCHANGED flags, pending' # <<>> => pending # <<>>, Due(SettleOps) => DueIn(todo', SettleOps) PROVE Settled'
  BY <1>1 DEF Settled, Over, Due
<1>2. ASSUME DueIn(todo', SettleOps) PROVE Settled'
  BY <1>2 DEF Settled, Due
<1>3. ASSUME NEW t \in Threads, SettlePullIntos(t) PROVE Settled'
  BY <1>3 DEF SettlePullIntos, Settled, Over
<1>4. CASE Plain
  <2>1. flags' = flags /\ (Due(SettleOps) => DueIn(todo', SettleOps))
    BY <1>0, <1>4, PlainMoves, DuePlain DEF Lists, TypeOK
  <2>2. ASSUME NEW t \in Producers \cup {Task}, NEW c, DropRequest(t, c) PROVE Settled'
    <3>1. Idle(t) /\ todo' = [todo EXCEPT ![t] = <<"resettle">>] /\ t \in Threads /\ <<"resettle">> \in Seq(Steps)
      BY <2>2, OfTask DEF DropRequest, MayDropRequest, HasController, Steps
    <3>2. Has(<<"resettle">>, SettleOps)
      BY DEF Has, SettleOps
    <3>3. DueIn(todo', SettleOps)
      BY <1>0, <3>1, <3>2, Beginning
    <3>. QED
      BY <3>3, <1>2
  <2>3. ASSUME NEW c \in Byob, JoinPullIntos(c) PROVE Settled'
    <3>1. CASE pending' = pending
      BY <2>1, <3>1, <1>1
    <3>2. CASE pending' # pending
      <4>1. Does(c, "join", <<"recheck">>) /\ c \in Threads /\ <<"recheck">> \in Seq(Steps)
        BY <2>3, <3>2, OfTask DEF JoinPullIntos, Steps
      <4>2. Has(<<"recheck">>, SettleOps)
        BY DEF Has, SettleOps
      <4>3. DueIn(todo', SettleOps)
        BY <1>0, <4>1, <4>2, Doing
      <4>. QED
        BY <4>3, <1>2
    <3>. QED
      BY <3>1, <3>2
  <2>4. ASSUME NEW t, TakeRequest(t) PROVE Settled'
    BY <2>1, <2>4, <1>1 DEF TakeRequest
  <2>5. ASSUME NEW c, Respond(c) PROVE Settled'
    BY <2>1, <2>5, <1>1 DEF Respond
  <2>6. CASE pending' = pending
    BY <2>1, <2>6, <1>1
  <2>. QED
    BY <1>3, <2>2, <2>3, <2>4, <2>5, <2>6, LineMoves DEF RequestStep
<1>5. ASSUME NEW t \in Threads, SetClosed(t) \/ SetErrored(t) PROVE Settled'
  BY <1>5, <1>2, EndsAreSettled DEF SettleOps
<1>6. ASSUME NEW t \in Threads, Recheck(t) PROVE Settled'
  <2>1. UNCHANGED <<flags, pending>>
    BY <1>6 DEF Recheck, sharedVars
  <2>2. CASE ~Over
    BY <2>1, <2>2 DEF Settled, Over
  <2>3. CASE Over
    <3>1. \E m \in {<<"settle", "force">>, <<"settle">>} : \E op : Does(t, op, m)
      BY <1>6, <2>3 DEF Recheck
    <3>2. \A m \in {<<"settle", "force">>, <<"settle">>} : m \in Seq(Steps) /\ Has(m, SettleOps)
      <4>1. <<"settle", "force">> \in Seq(Steps) /\ <<"settle">> \in Seq(Steps)
        BY DEF Steps
      <4>2. Has(<<"settle", "force">>, SettleOps)
        BY DEF Has, SettleOps
      <4>3. Has(<<"settle">>, SettleOps)
        BY DEF Has, SettleOps
      <4>. QED
        BY <4>1, <4>2, <4>3
    <3>3. DueIn(todo', SettleOps)
      BY <1>0, <3>1, <3>2, Doing
    <3>. QED
      BY <3>3, <1>2
  <2>. QED
    BY <2>2, <2>3
<1>7. ASSUME NEW t \in Threads, Push(t) \/ Announce(t) \/ (t \in Producers \cup {Task} /\ Enqueue(t)) PROVE Settled'
  <2>1. Due(SettleOps) => DueIn(todo', SettleOps)
    BY <1>0, <1>7, DueSpecial DEF SettleOps
  <2>. QED
    BY <1>1, <1>7, <2>1 DEF Push, Announce, Enqueue, sharedVars
<1>. QED
  BY <1>3, <1>4, <1>5, <1>6, <1>7, NextCases, OfTask


-----------------------------------------------------------------------------
(* A read that waits is heard of                                            *)

\* The serve gate is armed, or a thread is on its way to arm it.
Heard == gate.serve \/ Due({"announce", "announceEnd"})
Serving == task.at = "serve" \/ (task.at = "empty" /\ task.then = "serve")

\* Parked reads that could be answered will be served; so will the one about to be parked.
Served ==
    /\ reads # <<>> /\ (Over \/ queue.bytes # <<>>) => Heard \/ Serving
    /\ task.at \in {"empty", "park"} /\ (flags.errored \/ queue.bytes # <<>>) => Heard

\* How a step outside the serve branch moves the task and its reads.
TaskMove ==
    \/ UNCHANGED <<task, reads>>
    \/ /\ task.at \notin {"serve", "empty", "park"} /\ task'.at \notin {"empty", "park"}
       /\ reads' # <<>> => reads # <<>>

(* A plain step clears the serve gate only on the way to the serve branch.  *)
LEMMA PlainTaskMoves ==
    ASSUME TypeOK, Plain
    PROVE  /\ TaskMove \/ ServeStep
           /\ gate'.serve = gate.serve \/ task'.at = "serve"
<1> DEFINE G == (TaskMove \/ ServeStep) /\ (gate'.serve = gate.serve \/ task'.at = "serve")
<1>0. /\ gate.serve \in BOOLEAN /\ task \in TaskType
      /\ \A g \in GateType : \A b \in BOOLEAN :
           /\ [g EXCEPT !.needsPull = b].serve = g.serve /\ [g EXCEPT !.pullWaker = b].serve = g.serve
           /\ [g EXCEPT !.pulling = b].serve = g.serve
           /\ [g EXCEPT !.needsPull = TRUE, !.pullWaker = FALSE].serve = g.serve
           /\ [g EXCEPT !.serve = FALSE].serve = FALSE
           /\ [g EXCEPT !.serveWaker = TRUE, !.serve = FALSE].serve = FALSE
      /\ gate \in GateType
  BY DEF TypeOK, TaskType, GateType
<1>1. ASSUME UNCHANGED <<gate, task, reads>> PROVE G
  BY <1>1 DEF TaskMove
\* A step of the task from one place to another.
<1>2. ASSUME NEW p \in Places \ {"empty", "park"}, task'.at = p, task.at \notin {"serve", "empty", "park"},
             reads' = reads \/ reads' = <<>>, gate'.serve = gate.serve \/ p = "serve"
      PROVE  G
  BY <1>2 DEF TaskMove
<1>3. \A p \in Places : GoTo(p) => task'.at = p
  BY <1>0 DEF GoTo, TaskType
<1> HIDE DEF G
<1> SUFFICES G
  BY DEF G
<1>4. ASSUME NEW t, Close(t) \/ Error(t) \/ Trigger(t) PROVE G
  <2>1. CASE Close(t) \/ Error(t)
    BY <1>1, <2>1 DEF Close, Error, sharedVars, taskVars
  <2>2. CASE Trigger(t)
    <3>1. UNCHANGED <<task, reads>> /\ (gate' = gate \/ gate' = [gate EXCEPT !.needsPull = TRUE, !.pullWaker = FALSE])
      BY <2>2 DEF Trigger, ArmsPull, taskVars
    <3>2. gate'.serve = gate.serve
      BY <3>1, <1>0
    <3>. QED
      BY <3>1, <3>2 DEF G, TaskMove
  <2>. QED
    BY <1>4, <2>1, <2>2
<1>5. CASE RequestStep \/ UserStep
  BY <1>1, <1>5 DEF RequestStep, TakeRequest, Respond, DropRequest, UserStep, Call, Send, Abandon, Drop, sharedVars, taskVars
<1>6. CASE SelectStep
  <2>1. CASE StartSucceeds \/ StartFails \/ Wake
    BY <1>2, <1>3, <2>1 DEF StartSucceeds, StartFails, Wake, At, Places, sharedVars
  <2>2. CASE Started
    BY <1>1, <2>2 DEF Started, taskVars
  <2>3. CASE PollPull \/ RegisterPull
    BY <1>0, <1>2, <1>3, <2>3 DEF PollPull, RegisterPull, At, Places
  <2>4. CASE ServeDue
    BY <1>2, <1>3, <2>4 DEF ServeDue, At, Places
  <2>5. CASE RegisterServe
    <3>1. task.at = "registerServe" /\ reads' = reads /\ gate'.serve = FALSE
      BY <1>0, <2>5 DEF RegisterServe, At
    <3>2. \E p \in {"serve", "command", "parked"} : task'.at = p /\ (gate.serve => p = "serve")
      BY <1>3, <2>5 DEF RegisterServe, Places
    <3>. QED
      BY <1>0, <1>2, <3>1, <3>2 DEF Places
  <2>. QED
    BY <1>6, <2>1, <2>2, <2>3, <2>4, <2>5 DEF SelectStep
<1>7. CASE PullStep
  <2>1. CASE TakeSource
    <3>1. task'.at \in {"loop", "pulling"} /\ gate'.serve = gate.serve
      BY <1>0, <1>3, <2>1 DEF TakeSource, TaskType, Places
    <3>. QED
      BY <3>1, <1>2, <2>1 DEF TakeSource, At, Places
  <2>2. CASE PullReturns
    <3>1. task'.at \in {"drain", "drained"}
      BY <1>0, <2>2 DEF PullReturns, TaskType
    <3>. QED
      BY <3>1, <1>2, <2>2 DEF PullReturns, At, Places, sharedVars
  <2>3. CASE PullFails
    <3>1. task'.at = "pullFailed"
      BY <1>0, <2>3 DEF PullFails, TaskType
    <3>. QED
      BY <3>1, <1>2, <2>3 DEF PullFails, At, Places, sharedVars
  <2>4. CASE PullSettlesReads
    BY <1>2, <1>3, <2>4 DEF PullSettlesReads, AnswersReads, At, Places, sharedVars
  <2>5. CASE PullEnds
    <3>1. task'.at = "giveBack" /\ gate'.serve = gate.serve
      BY <1>0, <2>5 DEF PullEnds, TaskType
    <3>. QED
      BY <3>1, <1>2, <2>5 DEF PullEnds, At, Places
  <2>6. CASE GiveBack
    BY <1>2, <1>3, <2>6 DEF GiveBack, At, Places, sharedVars
  <2>. QED
    BY <1>7, <2>1, <2>2, <2>3, <2>4, <2>5, <2>6 DEF PullStep
<1>8. CASE ServeStep
  <2>1. UNCHANGED gate
    BY <1>8 DEF ServeStep, NoReads, ReadEnds, ReadWaits, ParkRead, ReadErrs, ReadTakes, ReadFindsNothing, sharedVars
  <2>. QED
    BY <2>1, <1>8 DEF G
<1>9. CASE CommandStep
  <2>0. ASSUME NEW c, NEW o, CancelEnds(c, o) PROVE task'.at = "loop" /\ reads' = <<>>
    BY <1>0, <2>0 DEF CancelEnds, TaskType
  <2>1. CASE CommandReadMoot \/ ChannelClosed
    BY <1>2, <1>3, <2>1 DEF CommandReadMoot, ChannelClosed, AnswersReads, Receives, At, Places, sharedVars
  <2>2. CASE CommandRead \/ CommandCancel
    <3>1. task'.at \in {"read", "takeSource"}
      BY <1>0, <2>2 DEF CommandRead, CommandCancel, TaskType
    <3>. QED
      BY <3>1, <1>2, <2>2 DEF CommandRead, CommandCancel, Receives, At, Places, sharedVars
  <2>3. CASE CommandCancelMoot \/ CancelReturns
    <3>1. task'.at = "loop" /\ reads' = <<>>
      BY <2>0, <2>3 DEF CommandCancelMoot, CancelReturns
    <3>. QED
      BY <3>1, <1>2, <2>3 DEF CommandCancelMoot, CancelReturns, Receives, At, Places, sharedVars
  <2>4. CASE ClearQueue
    BY <1>1, <2>4 DEF ClearQueue, taskVars
  <2>5. CASE CancelTakesSource
    <3>1. task'.at \in {"loop", "cancelling"} /\ (reads' = <<>> \/ reads' = reads)
      BY <1>3, <2>0, <2>5 DEF CancelTakesSource, Places
    <3>. QED
      BY <3>1, <1>2, <2>5 DEF CancelTakesSource, At, Places, sharedVars
  <2>. QED
    BY <1>9, <2>1, <2>2, <2>3, <2>4, <2>5 DEF CommandStep
<1>10. ASSUME NEW c, ByobStep(c) PROVE G
  BY <1>1, <1>10 DEF ByobStep, Repoll, PollInto, PollIntoEmpty, Register, BeginPullInto, JoinPullIntos, PollEnd, sharedVars, taskVars
<1>. QED
  BY <1>4, <1>5, <1>6, <1>7, <1>8, <1>9, <1>10 DEF Plain

(* Only a push fills the buffer.                                            *)
LEMMA StaysEmpty ==
    ASSUME TypeOK, Next, queue.bytes = <<>>, \A t \in Threads : ~Push(t)
    PROVE  queue'.bytes = <<>>
<1>1. DataStep /\ queue \in [bytes : Seq(Bytes), size : Nat]
  BY DataMoves DEF TypeOK
<1>2. ASSUME NEW n \in 0..Len(queue.bytes), HandsOut(n) PROVE queue'.bytes = <<>>
  BY <1>2, HandOut
<1>. QED
  BY <1>1, <1>2 DEF DataStep

(* Nobody who waits for bytes that are there, or for the end, goes unheard.  *)
LEMMA ServedKept ==
    ASSUME TypeOK, Lists, Placed, Served, Next
    PROVE  Served'
<1>0. /\ todo \in [Threads -> Seq(Steps)] /\ {"announce", "announceEnd"} \subseteq Special
      /\ task \in TaskType /\ task.at \in Places /\ task.then \in {"loop", "drain", "serve"} /\ gate \in GateType
      /\ reads \in Seq(Reads)
  BY DEF TypeOK, Special, TaskType, GateType
<1>1. ASSUME Heard' \/ task'.at = "serve" PROVE Served'
  BY <1>1 DEF Served, Serving
<1>2. ASSUME NEW t \in Threads, Push(t) \/ SetClosed(t) \/ SetErrored(t) PROVE Served'
  BY <1>1, <1>2, EndsAreSettled DEF Heard, Due
<1>3. ASSUME NEW t \in Threads, Announce(t) PROVE Served'
  <2>1. gate'.serve = TRUE
    BY <1>0, <1>3 DEF Announce, GateType
  <2>. QED
    BY <2>1, <1>1 DEF Heard
<1>4. ASSUME NEW t \in Threads, SettlePullIntos(t) \/ Recheck(t) \/ (t \in Producers \cup {Task} /\ Enqueue(t)) PROVE Served'
  <2>1. Due({"announce", "announceEnd"}) => DueIn(todo', {"announce", "announceEnd"})
    BY <1>0, <1>4, DueSpecial
  <2>2. UNCHANGED <<gate, task, reads, flags>>
    BY <1>4 DEF SettlePullIntos, Recheck, Enqueue, sharedVars, taskVars
  <2>3. queue.bytes = <<>> => queue'.bytes = <<>>
    <3>1. ASSUME SettlePullIntos(t) PROVE queue' = queue \/ HandsOut(Fill)
      BY <3>1 DEF SettlePullIntos
    <3>2. Recheck(t) \/ Enqueue(t) => queue' = queue
      BY DEF Recheck, Enqueue, sharedVars
    <3>. QED
      BY <1>4, <3>1, <3>2, FillBounded, HandOut
  <2>. QED
    BY <2>1, <2>2, <2>3 DEF Served, Serving, Heard, Due, Over
<1>5. CASE Plain
  <2>1. /\ TaskMove \/ ServeStep
        /\ gate'.serve = gate.serve \/ task'.at = "serve"
        /\ Due({"announce", "announceEnd"}) => DueIn(todo', {"announce", "announceEnd"})
        /\ flags' = flags
    BY <1>0, <1>5, PlainTaskMoves, PlainMoves, DuePlain DEF TypeOK, Lists
  <2>2. Heard => Heard' \/ task'.at = "serve"
    BY <2>1 DEF Heard, Due
  <2> SUFFICES ASSUME ~Heard, task'.at # "serve" PROVE Served'
    BY <1>1, <2>2
  <2>3. /\ reads # <<>> /\ (Over \/ queue.bytes # <<>>) => Serving
        /\ task.at \in {"empty", "park"} => ~flags.errored /\ queue.bytes = <<>>
    BY DEF Served
  <2>4. /\ Over' = Over
        /\ queue.bytes = <<>> => queue'.bytes = <<>> \/ \E t \in Threads : Push(t)
    BY <2>1, StaysEmpty DEF Over
  <2>5. (\E t \in Threads : Push(t)) => Served'
    BY <1>2
  <2> SUFFICES ASSUME \A t \in Threads : ~Push(t) PROVE Served'
    BY <2>5
  <2>6. CASE UNCHANGED <<task, reads>>
    BY <2>1, <2>3, <2>4, <2>6 DEF Served, Serving
  <2>7. CASE /\ task.at \notin {"serve", "empty", "park"} /\ task'.at \notin {"empty", "park"}
             /\ reads' # <<>> => reads # <<>>
    BY <2>1, <2>3, <2>4, <2>7 DEF Served, Serving
  \* The serve branch itself.
  <2>8. ASSUME NEW from \in {"drain", "serve", "read"}, NextRead(from)
        PROVE  task'.at = (IF from = "read" THEN "loop" ELSE from) /\ (from = "read" => reads' = reads)
    BY <1>0, <2>8 DEF NextRead, TaskType
  <2>9. ASSUME NEW from \in {"drain", "serve", "read"}, task.at = from, NextRead(from), from # "read" => reads # <<>>
        PROVE  Served'
    <3>1. from # "serve" /\ task'.at \notin {"empty", "park"} /\ (reads' # <<>> => reads # <<>>)
      BY <2>8, <2>9
    <3>. QED
      BY <2>1, <2>3, <2>4, <2>9, <3>1 DEF Served, Serving
  <2>10. CASE ServeStep
    <3>1. CASE NoReads
      <4>1. reads' = <<>> /\ task'.at \in {"drained", "loop"}
        BY <1>0, <3>1 DEF NoReads, GoTo, TaskType
      <4>. QED
        BY <4>1 DEF Served
    <3>2. CASE ReadEnds
      <4>1. task.at = "empty" /\ NextRead(IF task.then = "loop" THEN "read" ELSE task.then)
        BY <3>2 DEF ReadEnds, At
      <4>2. CASE task.then = "serve"
        BY <1>0, <4>1, <4>2, <2>8
      <4>3. CASE task.then # "serve"
        <5>1. task'.at \in {"loop", "drain"} /\ (reads' # <<>> => reads # <<>>)
          BY <1>0, <4>1, <4>3, <2>8 DEF Placed
        <5>. QED
          BY <2>1, <2>3, <2>4, <4>1, <4>3, <5>1 DEF Served, Serving
      <4>. QED
        BY <4>2, <4>3
    <3>3. CASE ReadWaits
      <4>1. task.at = "empty" /\ ~flags.closed /\ reads' = reads
        BY <3>3 DEF ReadWaits, At
      <4>2. ~Over' /\ ~flags'.errored /\ queue'.bytes = <<>>
        BY <2>1, <2>3, <2>4, <4>1 DEF Over
      <4>. QED
        BY <4>2 DEF Served
    <3>4. CASE ParkRead
      <4>1. task.at = "park" /\ (flags.closed => reads' = reads) /\ task'.at = "loop"
        BY <1>0, <3>4 DEF ParkRead, At, TaskType
      <4>2. ~flags'.errored /\ queue'.bytes = <<>>
        BY <2>1, <2>3, <2>4, <4>1
      <4>3. CASE flags.closed
        BY <2>1, <2>3, <2>4, <4>1, <4>3 DEF Served, Serving
      <4>4. CASE ~flags.closed
        BY <2>1, <4>2, <4>4 DEF Served, Over
      <4>. QED
        BY <4>3, <4>4
    <3>5. ASSUME NEW from \in {"drain", "serve", "read"}, ReadErrs(from) PROVE Served'
      BY <3>5, <2>9 DEF ReadErrs, Popping, At
    <3>6. ASSUME NEW from \in {"drain", "serve", "read"}, ReadTakes(from) PROVE Served'
      <4>1. CASE from = "drain"
        <5>1. task.at = "drain" /\ reads # <<>> /\ task'.at = "drained"
          BY <1>0, <3>6, <4>1 DEF ReadTakes, Popping, At, GoTo, TaskType
        <5>. QED
          BY <2>1, <2>3, <2>4, <5>1 DEF Served, Serving
      <4>2. CASE from # "drain"
        BY <3>6, <4>2, <2>9 DEF ReadTakes, Popping, At
      <4>. QED
        BY <4>1, <4>2
    <3>7. ASSUME NEW from \in {"drain", "serve", "read"}, ReadFindsNothing(from) PROVE Served'
      <4>1. /\ task.at = from /\ ~flags.errored /\ queue.bytes = <<>> /\ reads' = reads
            /\ task'.at = "empty" /\ task'.then = IF from = "read" THEN "loop" ELSE from
        BY <1>0, <3>7 DEF ReadFindsNothing, Popping, At, TaskType
      <4>2. ~flags'.errored /\ queue'.bytes = <<>>
        BY <2>1, <2>4, <4>1
      <4>3. Serving => Serving'
        BY <4>1 DEF Serving
      <4>. QED
        BY <2>1, <2>3, <2>4, <4>1, <4>2, <4>3 DEF Served
    <3>. QED
      BY <2>10, <3>1, <3>2, <3>3, <3>4, <3>5, <3>6, <3>7 DEF ServeStep
  <2>. QED
    BY <2>1, <2>6, <2>7, <2>10 DEF TaskMove
<1>. QED
  BY <1>2, <1>3, <1>4, <1>5, NextCases, OfTask


-----------------------------------------------------------------------------
(* A parked task is woken                                                   *)

\* A task that sleeps has been woken, or waits at a gate that is not armed with no command.
WakeInv == task.at = "parked" => Task \in woken \/ (gate.serveWaker /\ ~gate.serve /\ commands = <<>>)

(* Whoever arms the serve gate or sends a command wakes the task.           *)
LEMMA WakeKept ==
    ASSUME TypeOK, WakeInv, Next
    PROVE  WakeInv'
<1>0. /\ task \in TaskType /\ task.at \in Places /\ gate \in GateType /\ gate.serve \in BOOLEAN
      /\ commands \in Seq(Commanded)
  BY DEF TypeOK, TaskType, GateType
<1>1. ASSUME task'.at # "parked" PROVE WakeInv'
  BY <1>1 DEF WakeInv
<1>2. ASSUME task'.at = task.at, UNCHANGED commands, woken \subseteq woken',
             gate'.serveWaker = gate.serveWaker, gate'.serve = gate.serve
      PROVE  WakeInv'
  BY <1>2 DEF WakeInv
<1>3. ASSUME UNCHANGED <<gate, task, commands>>, woken \subseteq woken' PROVE WakeInv'
  BY <1>2, <1>3
<1>4. ASSUME NEW p \in Places \ {"parked"}, GoTo(p) PROVE WakeInv'
  BY <1>0, <1>1, <1>4 DEF GoTo, TaskType
<1>5. ASSUME NEW t \in Threads, SharedStep(t) PROVE WakeInv'
  <2>1. CASE Push(t) \/ SettlePullIntos(t) \/ SetClosed(t) \/ SetErrored(t) \/ Recheck(t)
    BY <1>3, <2>1 DEF Push, SettlePullIntos, SetClosed, SetErrored, Recheck, sharedVars, taskVars
  <2>2. CASE Announce(t)
    <3>1. /\ UNCHANGED <<task, commands>> /\ woken \subseteq woken'
          /\ gate.serveWaker => Task \in woken'
      BY <2>2 DEF Announce, taskVars, Wakes
    <3>. QED
      BY <3>1 DEF WakeInv
  <2>3. CASE Trigger(t)
    <3>1. /\ UNCHANGED <<task, commands>> /\ woken \subseteq woken'
          /\ gate' = gate \/ gate' = [gate EXCEPT !.needsPull = TRUE, !.pullWaker = FALSE]
      BY <2>3 DEF Trigger, ArmsPull, Wakes, taskVars
    <3>2. gate'.serveWaker = gate.serveWaker /\ gate'.serve = gate.serve
      BY <1>0, <3>1 DEF GateType
    <3>. QED
      BY <3>1, <3>2, <1>2
  <2>. QED
    BY <1>5, <2>1, <2>2, <2>3 DEF SharedStep
<1>6. CASE ControllerStep
  BY <1>3, <1>6 DEF ControllerStep, Enqueue, Close, Error, RequestStep, TakeRequest,
     Respond, DropRequest, sharedVars, taskVars
<1>7. CASE UserStep
  <2>1. CASE (\E c \in Calls : Send(c)) \/ Drop
    BY <2>1 DEF Send, Drop, Wakes, WakeInv
  <2>2. ASSUME NEW c \in Calls, Call(c) \/ Abandon(c) PROVE WakeInv'
    BY <1>3, <2>2 DEF Call, Abandon, sharedVars, taskVars
  <2>. QED
    BY <1>7, <2>1, <2>2 DEF UserStep
<1>8. CASE SelectStep
  <2>1. CASE StartSucceeds \/ StartFails \/ PollPull \/ RegisterPull \/ ServeDue \/ Wake
    BY <1>4, <2>1 DEF StartSucceeds, StartFails, PollPull, RegisterPull, ServeDue, Wake, Places
  <2>2. CASE Started
    BY <1>3, <2>2 DEF Started, Starts, Wakes, taskVars
  <2>3. CASE RegisterServe
    <3>1. gate'.serveWaker = TRUE /\ gate'.serve = FALSE /\ UNCHANGED commands
      BY <1>0, <2>3 DEF RegisterServe, GateType
    <3>2. task'.at = "parked" => commands = <<>>
      BY <1>0, <2>3 DEF RegisterServe, GoTo, TaskType
    <3>. QED
      BY <3>1, <3>2 DEF WakeInv
  <2>. QED
    BY <1>8, <2>1, <2>2, <2>3 DEF SelectStep
<1>9. CASE PullStep
  <2>1. CASE TakeSource \/ PullSettlesReads \/ GiveBack
    <3>1. GoTo("loop") \/ GoTo("pullEnds") \/ task'.at = "pulling"
      BY <1>0, <2>1 DEF TakeSource, PullSettlesReads, GiveBack, TaskType
    <3>. QED
      BY <3>1, <1>1, <1>4 DEF Places
  <2>2. CASE PullReturns \/ PullFails \/ PullEnds
    <3>1. task'.at \in {"drain", "drained", "pullFailed", "giveBack"}
      BY <1>0, <2>2 DEF PullReturns, PullFails, PullEnds, TaskType
    <3>. QED
      BY <3>1, <1>1
  <2>. QED
    BY <1>9, <2>1, <2>2 DEF PullStep
<1>10. CASE ServeStep
  <2>1. ASSUME NEW from \in {"drain", "serve", "read"}, NextRead(from) PROVE WakeInv'
    <3>1. task'.at \in {"loop", "drain", "serve"}
      BY <1>0, <2>1 DEF NextRead, TaskType
    <3>. QED
      BY <3>1, <1>1
  <2>2. CASE NoReads
    <3>1. GoTo("drained") \/ GoTo("loop")
      BY <2>2 DEF NoReads
    <3>. QED
      BY <3>1, <1>4 DEF Places
  <2>3. CASE ReadEnds
    <3>1. NextRead(IF task.then = "loop" THEN "read" ELSE task.then)
      BY <2>3 DEF ReadEnds
    <3>2. (IF task.then = "loop" THEN "read" ELSE task.then) \in {"drain", "serve", "read"}
      BY DEF TypeOK
    <3>. QED
      BY <2>1, <3>1, <3>2
  <2>4. CASE ReadWaits
    <3>1. \/ task' = [task EXCEPT !.at = "park", !.then = "loop"]
          \/ task' = [task EXCEPT !.at = "drained", !.then = "loop"]
          \/ task' = [task EXCEPT !.at = "loop", !.then = "loop"]
      <4>1. task.then \in {"loop", "drain", "serve"}
        BY DEF TypeOK
      <4>. QED
        BY <2>4, <4>1 DEF ReadWaits
    <3>2. task'.at \in {"park", "drained", "loop"}
      BY <1>0, <3>1 DEF TaskType
    <3>. QED
      BY <3>2, <1>1
  <2>5. CASE ParkRead
    <3>1. task'.at = "loop"
      BY <1>0, <2>5 DEF ParkRead, TaskType
    <3>. QED
      BY <3>1, <1>1
  <2>6. ASSUME NEW from \in {"drain", "serve", "read"}, ReadErrs(from) \/ ReadTakes(from) \/ ReadFindsNothing(from)
        PROVE  WakeInv'
    <3>1. NextRead(from) \/ GoTo("drained") \/ task'.at = "empty"
      BY <1>0, <2>6 DEF ReadErrs, ReadTakes, ReadFindsNothing, TaskType
    <3>. QED
      BY <3>1, <2>1, <1>1, <1>4 DEF Places
  <2>. QED
    BY <1>10, <2>2, <2>3, <2>4, <2>5, <2>6 DEF ServeStep
<1>11. CASE CommandStep
  <2>1. ASSUME NEW c, NEW o, CancelEnds(c, o) PROVE WakeInv'
    <3>1. task'.at = "loop"
      BY <1>0, <2>1 DEF CancelEnds, TaskType
    <3>. QED
      BY <3>1, <1>1
  <2>2. CASE CommandReadMoot \/ ChannelClosed
    <3>1. GoTo("loop") \/ GoTo("done")
      BY <2>2 DEF CommandReadMoot, ChannelClosed
    <3>. QED
      BY <3>1, <1>4 DEF Places
  <2>3. CASE CommandRead \/ CommandCancel
    <3>1. task'.at \in {"read", "takeSource"}
      BY <1>0, <2>3 DEF CommandRead, CommandCancel, TaskType
    <3>. QED
      BY <3>1, <1>1
  <2>4. CASE CommandCancelMoot \/ CancelReturns
    BY <2>1, <2>4 DEF CommandCancelMoot, CancelReturns
  <2>5. CASE CancelTakesSource
    BY <2>1, <1>4, <2>5 DEF CancelTakesSource, Places
  <2>6. CASE ClearQueue
    BY <1>3, <2>6 DEF ClearQueue, taskVars
  <2>. QED
    BY <1>11, <2>2, <2>3, <2>4, <2>5, <2>6 DEF CommandStep
<1>12. ASSUME NEW c \in Byob, ByobStep(c) PROVE WakeInv'
  <2>1. CASE Repoll(c)
    <3>1. c # Task
      BY ByteAssumption DEF Calls
    <3>2. UNCHANGED <<gate, task, commands>> /\ woken' = woken \ {c}
      BY <2>1 DEF Repoll, sharedVars, taskVars
    <3>. QED
      BY <3>1, <3>2 DEF WakeInv
  <2>2. CASE PollInto(c) \/ PollIntoEmpty(c) \/ Register(c) \/ BeginPullInto(c) \/ JoinPullIntos(c) \/ PollEnd(c)
    BY <1>3, <2>2 DEF PollInto, PollIntoEmpty, Register, BeginPullInto, JoinPullIntos, PollEnd, sharedVars, taskVars
  <2>. QED
    BY <1>12, <2>1, <2>2 DEF ByobStep
<1>. QED
  BY <1>5, <1>6, <1>7, <1>8, <1>9, <1>10, <1>11, <1>12 DEF Next

-----------------------------------------------------------------------------
(* Every call that waits is held somewhere                                  *)

\* Where a read() or a cancel() is while its future waits.
HeldBy(x) ==
    \/ Has(commands, {x})
    \/ x \in Cancels /\ task.at \in {"takeSource", "cancelling"} /\ task.cur = x
    \/ x \in Reads /\ (Has(reads, {x}) \/ (HoldsRead /\ task.cur = x))

Held == \A x \in Commanded : Waiting(x) => HeldBy(x)

(* A call waits from the time it is made; one in line may wait on.          *)
LEMMA WaitsFrom ==
    ASSUME TypeOK, Next, NEW x \in Calls, Waiting(x)'
    PROVE  Waiting(x) \/ Send(x) \/ Call(x) \/ ((\E t \in Threads : SettlePullIntos(t)) /\ Has(pending, {x}))
<1>0. call \in [Calls -> Outcomes]
  BY DEF TypeOK
<1>1. ASSUME UNCHANGED call PROVE Waiting(x)
  BY <1>1 DEF Waiting
<1>2. ASSUME NEW c, NEW o, o # "pending", Answers(c, o) PROVE Waiting(x)
  BY <1>0, <1>2 DEF Answers, Waiting
<1>3. ASSUME NEW o, o # "pending", AnswersReads(o) PROVE Waiting(x)
  BY <1>0, <1>3 DEF AnswersReads, Waiting
<1>4. ASSUME NEW c, NEW o, o # "pending", CancelEnds(c, o) PROVE Waiting(x)
  BY <1>0, <1>4 DEF CancelEnds, Waiting
<1>5. ASSUME NEW t \in Threads, SharedStep(t), ~(SettlePullIntos(t) /\ Has(pending, {x})) PROVE Waiting(x)
  <2>1. CASE SettlePullIntos(t) /\ ~Has(pending, {x})
    <3>1. ~\E i \in DOMAIN pending : pending[i] = x
      BY <2>1 DEF TypeOK, Has
    <3>2. call'[x] = call[x]
      BY <1>0, <2>1, <3>1 DEF SettlePullIntos
    <3>. QED
      BY <3>2 DEF Waiting
  <2>. QED
    BY <1>1, <1>5, <2>1 DEF SharedStep, Push, Announce, SetClosed, SetErrored, Recheck, Trigger, userVars
<1>6. CASE ControllerStep
  BY <1>1, <1>2, <1>6 DEF ControllerStep, Enqueue, Close, Error, RequestStep, TakeRequest,
     Respond, DropRequest, userVars
<1>7. ASSUME UserStep, ~Send(x), ~Call(x) PROVE Waiting(x)
  <2>1. ASSUME NEW c \in Calls, Call(c) \/ Send(c), c # x PROVE Waiting(x)
    BY <1>0, <2>1 DEF Call, Send, Waiting
  <2>2. ASSUME NEW c \in Calls, Abandon(c) PROVE Waiting(x)
    BY <2>2, <1>2 DEF Abandon
  <2>3. CASE Drop
    BY <2>3, <1>1 DEF Drop
  <2>. QED
    BY <1>7, <2>1, <2>2, <2>3 DEF UserStep
<1>8. CASE SelectStep
  BY <1>8, <1>1 DEF SelectStep, StartSucceeds, StartFails, Started, PollPull, RegisterPull, ServeDue, RegisterServe, Wake,
     userVars
<1>9. CASE PullStep
  <2>1. CASE PullSettlesReads
    BY <2>1, <1>1, <1>3 DEF PullSettlesReads
  <2>. QED
    BY <1>9, <2>1, <1>1 DEF PullStep, TakeSource, PullReturns, PullFails, PullEnds, GiveBack, userVars
<1>10. CASE ServeStep
  <2>1. ASSUME NEW from \in {"drain", "serve", "read"}, ReadErrs(from) \/ ReadTakes(from) \/ ReadFindsNothing(from)
        PROVE  Waiting(x)
    BY <2>1, <1>1, <1>2 DEF ReadErrs, ReadTakes, ReadFindsNothing, userVars
  <2>. QED
    BY <1>10, <2>1, <1>1, <1>2 DEF ServeStep, NoReads, ReadEnds, ReadWaits, ParkRead, userVars
<1>11. CASE CommandStep
  BY <1>11, <1>1, <1>2, <1>3, <1>4 DEF CommandStep, CommandReadMoot, CommandRead, CommandCancelMoot, CommandCancel,
     ClearQueue, CancelTakesSource, CancelReturns, ChannelClosed, userVars
<1>12. ASSUME NEW c \in Byob, ByobStep(c) PROVE Waiting(x)
  <2>1. CASE PollInto(c) \/ BeginPullInto(c) \/ JoinPullIntos(c)
    BY <2>1, <1>1, <1>2 DEF PollInto, BeginPullInto, JoinPullIntos
  <2>2. CASE PollIntoEmpty(c) \/ PollEnd(c)
    BY <2>2, <1>1, <1>2 DEF PollIntoEmpty, PollEnd
  <2>3. CASE Repoll(c) \/ Register(c)
    BY <2>3, <1>1 DEF Repoll, Register, userVars
  <2>. QED
    BY <1>12, <2>1, <2>2, <2>3 DEF ByobStep
<1>. QED
  BY <1>5, <1>6, <1>7, <1>8, <1>9, <1>10, <1>11, <1>12 DEF Next


(* A call that still waits is where it was, or one place further.            *)
LEMMA HeldKept ==
    ASSUME TypeOK, Placed, Held, Next
    PROVE  Held'
<1> SUFFICES ASSUME NEW x \in Commanded, Waiting(x)' PROVE HeldBy(x)'
  BY DEF Held
<1>0. /\ x \in Calls /\ call \in [Calls -> Outcomes] /\ call'[x] = "pending"
      /\ task \in TaskType /\ task.at \in Places /\ task.then \in {"loop", "drain", "serve"}
      /\ reads \in Seq(Reads) /\ commands \in Seq(Commanded) /\ Reads \cap Cancels = {} /\ x \in Reads \cup Cancels
  BY ByteAssumption DEF TypeOK, Calls, Commanded, TaskType, Waiting
<1>a. \A s \in Seq(Commanded), c \in Commanded : \A y : Has(Append(s, c), {y}) <=> Has(s, {y}) \/ y = c
  <2> SUFFICES ASSUME NEW s \in Seq(Commanded), NEW c \in Commanded, NEW y
               PROVE  Has(Append(s, c), {y}) <=> Has(s, {y}) \/ y = c
    OBVIOUS
  <2>1. Append(s, c) = s \o <<c>> /\ <<c>> \in Seq(Commanded)
    OBVIOUS
  <2>2. Has(<<c>>, {y}) <=> y = c
    BY DEF Has
  <2>3. Has(s \o <<c>>, {y}) <=> Has(s, {y}) \/ Has(<<c>>, {y})
    <3> DEFINE m == <<c>>
    <3>1. m \in Seq(Commanded)
      BY <2>1
    <3> HIDE DEF m
    <3>2. Has(s \o m, {y}) <=> Has(s, {y}) \/ Has(m, {y})
      BY <3>1, HasConcat
    <3>. QED
      BY <3>2 DEF m
  <2>. QED
    BY <2>1, <2>2, <2>3
<1>1. CASE Send(x)
  <2>1. commands' = Append(commands, x)
    BY <1>1 DEF Send
  <2>. QED
    BY <1>0, <1>a, <2>1 DEF HeldBy
<1> SUFFICES ASSUME ~Send(x) PROVE HeldBy(x)'
  BY <1>1
<1>2. call[x] = "pending" /\ HeldBy(x)
  <2>1. x \in Calls /\ x \notin Byob /\ ~Call(x) /\ ~Has(pending, {x})
    BY ByteAssumption DEF TypeOK, Calls, Byob, Call, Has
  <2>. QED
    BY <2>1, WaitsFrom DEF Held, Waiting
<1>3. ASSUME UNCHANGED <<task, reads, commands>> PROVE HeldBy(x)'
  BY <1>2, <1>3 DEF HeldBy, HoldsRead
\* The task holds nobody, and moves on.
<1>4. ASSUME task.at \notin {"read", "park", "empty", "takeSource", "cancelling"}, UNCHANGED <<reads, commands>> PROVE HeldBy(x)'
  BY <1>2, <1>4 DEF HeldBy, HoldsRead
\* All who were parked are answered.
<1>5. ASSUME NEW o, o # "pending", AnswersReads(o) PROVE ~Has(reads, {x})
  <2>1. ASSUME \E i \in DOMAIN reads : reads[i] = x PROVE FALSE
    <3>1. call'[x] = o
      BY <1>0, <1>2, <1>5, <2>1 DEF AnswersReads
    <3>. QED
      BY <1>0, <1>5, <3>1
  <2>2. DOMAIN reads = 1..Len(reads)
    BY <1>0
  <2>. QED
    BY <2>1, <2>2 DEF Has
<1>6. ASSUME NEW c, NEW o, o # "pending", CancelEnds(c, o) PROVE ~Has(reads, {x}) /\ x # c
  <2>1. ASSUME x = c PROVE FALSE
    <3>1. call'[x] = o
      BY <1>0, <1>6, <2>1 DEF CancelEnds
    <3>. QED
      BY <1>0, <1>6, <3>1
  <2>2. ASSUME \E i \in DOMAIN reads : reads[i] = x PROVE FALSE
    <3>1. call'[x] = "eof"
      BY <1>0, <1>2, <1>6, <2>1, <2>2 DEF CancelEnds
    <3>. QED
      BY <1>0, <3>1
  <2>3. DOMAIN reads = 1..Len(reads)
    BY <1>0
  <2>. QED
    BY <2>1, <2>2, <2>3 DEF Has
<1>7. ASSUME NEW c, NEW o, o # "pending", Answers(c, o) PROVE x # c
  BY <1>0, <1>2, <1>7 DEF Answers
\* The first parked read, or the first command, goes.
<1>8. ASSUME reads # <<>>, x # Head(reads), Has(reads, {x}) PROVE Has(Tail(reads), {x})
  BY <1>0, <1>8, HasParts
<1>9. ASSUME commands # <<>>, x # Head(commands), Has(commands, {x}) PROVE Has(Tail(commands), {x})
  BY <1>0, <1>9, HasParts
<1>10. ASSUME NEW t \in Threads, SharedStep(t) PROVE HeldBy(x)'
  BY <1>3, <1>10 DEF SharedStep, Push, SettlePullIntos, Announce, SetClosed, SetErrored, Trigger, Recheck, taskVars
<1>11. CASE ControllerStep
  BY <1>3, <1>11 DEF ControllerStep, Enqueue, Close, Error, RequestStep, TakeRequest,
     Respond, DropRequest, taskVars
<1>12. CASE UserStep
  <2>1. ASSUME NEW c \in Calls, Send(c) PROVE HeldBy(x)'
    <3>1. c \in Commanded /\ commands' = Append(commands, c) /\ UNCHANGED <<task, reads>>
      BY <2>1 DEF Send
    <3>2. Has(commands, {x}) => Has(commands', {x})
      BY <1>0, <1>a, <3>1
    <3>. QED
      BY <1>2, <3>1, <3>2 DEF HeldBy, HoldsRead
  <2>. QED
    BY <1>3, <1>12, <2>1 DEF UserStep, Call, Abandon, Drop, taskVars
<1>13. CASE SelectStep
  <2>1. CASE Started
    BY <1>3, <2>1 DEF Started, taskVars
  <2>. QED
    BY <1>4, <1>13, <2>1 DEF SelectStep, StartSucceeds, StartFails, PollPull, RegisterPull, ServeDue, RegisterServe, Wake, At
<1>14. CASE PullStep
  <2>1. CASE PullSettlesReads
    <3>1. /\ task.at \in {"drained", "pullFailed"} /\ UNCHANGED commands
          /\ AnswersReads("eof") \/ AnswersReads("err") \/ reads' = reads
      BY <2>1 DEF PullSettlesReads, At
    <3>2. CASE reads' = reads
      BY <1>4, <3>1, <3>2
    <3>3. CASE AnswersReads("eof") \/ AnswersReads("err")
      BY <1>2, <1>5, <3>1, <3>3 DEF HeldBy, HoldsRead
    <3>. QED
      BY <3>1, <3>2, <3>3
  <2>. QED
    BY <1>4, <1>14, <2>1 DEF PullStep, TakeSource, PullReturns, PullFails, PullEnds, GiveBack, At
<1>15. ASSUME NEW c, NEW o, o # "pending", Answers(c, o), NEW from \in {"drain", "serve", "read"}, NextRead(from),
              UNCHANGED commands, task.at \notin {"takeSource", "cancelling"},
              c = IF from = "read" THEN task.cur ELSE Head(reads), from # "read" => reads # <<>> /\ ~HoldsRead
       PROVE  HeldBy(x)'
  <2>1. x # c
    BY <1>7, <1>15
  <2>2. CASE from = "read"
    <3>1. reads' = reads
      BY <1>15, <2>2 DEF NextRead
    <3>. QED
      BY <1>2, <1>15, <2>1, <2>2, <3>1 DEF HeldBy
  <2>3. CASE from # "read"
    <3>1. reads' = Tail(reads)
      BY <1>15, <2>3 DEF NextRead
    <3>. QED
      BY <1>2, <1>8, <1>15, <2>1, <2>3, <3>1 DEF HeldBy
  <2>. QED
    BY <2>2, <2>3
<1>16. CASE ServeStep
  <2>1. CASE NoReads
    BY <1>4, <2>1 DEF NoReads, At
  <2>2. CASE ReadEnds
    <3>1. /\ task.at = "empty" /\ UNCHANGED commands /\ Answers(InHand, "eof")
          /\ NextRead(IF task.then = "loop" THEN "read" ELSE task.then)
      BY <2>2 DEF ReadEnds, At
    <3>2. CASE task.then = "loop"
      <4>1. InHand = task.cur /\ NextRead("read")
        BY <3>1, <3>2 DEF InHand
      <4>. QED
        BY <1>15, <3>1, <4>1
    <3>3. CASE task.then # "loop"
      <4>1. InHand = Head(reads) /\ NextRead(task.then) /\ reads # <<>> /\ ~HoldsRead /\ task.then \in {"drain", "serve"}
        BY <1>0, <3>1, <3>3 DEF InHand, Placed, HoldsRead
      <4>. QED
        BY <1>15, <3>1, <4>1
    <3>. QED
      BY <3>2, <3>3
  <2>3. CASE ReadWaits
    <3>1. task.at = "empty" /\ UNCHANGED <<reads, commands>>
      BY <2>3 DEF ReadWaits, At
    <3>2. CASE task.then = "loop"
      <4>1. task' = [task EXCEPT !.at = "park", !.then = "loop"]
        BY <2>3, <3>2 DEF ReadWaits
      <4>2. task'.at = "park" /\ task'.cur = task.cur
        BY <1>0, <4>1 DEF TaskType
      <4>. QED
        BY <1>2, <3>1, <4>2 DEF HeldBy, HoldsRead
    <3>3. CASE task.then # "loop"
      BY <1>2, <3>1, <3>3 DEF HeldBy, HoldsRead
    <3>. QED
      BY <3>2, <3>3
  <2>4. CASE ParkRead
    <3>1. /\ task.at = "park" /\ UNCHANGED commands
          /\ (reads' = reads /\ Answers(task.cur, "eof")) \/ reads' = Append(reads, task.cur)
      BY <2>4 DEF ParkRead, At
    <3>2. task.cur \in Reads
      BY <3>1 DEF Placed, HoldsRead
    <3>3. CASE reads' = reads /\ Answers(task.cur, "eof")
      BY <1>2, <1>7, <3>1, <3>3 DEF HeldBy
    <3>4. CASE reads' = Append(reads, task.cur)
      <4>1. Has(reads', {x}) <=> Has(reads, {x}) \/ x = task.cur
        <5>1. reads \in Seq(Commanded) /\ task.cur \in Commanded
          BY <1>0, <3>2 DEF Commanded
        <5>. QED
          BY <1>a, <3>4, <5>1
      <4>. QED
        BY <1>2, <3>1, <4>1 DEF HeldBy
    <3>. QED
      BY <3>1, <3>3, <3>4
  <2>5. ASSUME NEW from \in {"drain", "serve", "read"}, Popping(from)
        PROVE  /\ task.at = from /\ Reading(from) = IF from = "read" THEN task.cur ELSE Head(reads)
               /\ from # "read" => reads # <<>> /\ ~HoldsRead
    BY <2>5 DEF Popping, At, Reading, HoldsRead
  <2>6. ASSUME NEW from \in {"drain", "serve", "read"}, ReadErrs(from) PROVE HeldBy(x)'
    <3>1. Popping(from) /\ Answers(Reading(from), "err") /\ NextRead(from) /\ UNCHANGED commands
      BY <2>6 DEF ReadErrs
    <3>. QED
      BY <1>15, <2>5, <3>1
  <2>7. ASSUME NEW from \in {"drain", "serve", "read"}, ReadTakes(from) PROVE HeldBy(x)'
    <3>1. Popping(from) /\ Answers(Reading(from), "data") /\ UNCHANGED commands
          /\ IF from = "drain" THEN reads' = Tail(reads) ELSE NextRead(from)
      BY <2>7 DEF ReadTakes
    <3>2. CASE from = "drain"
      <4>1. task.at = "drain" /\ reads # <<>> /\ x # Head(reads) /\ reads' = Tail(reads) /\ ~HoldsRead
        BY <1>7, <2>5, <3>1, <3>2
      <4>. QED
        BY <1>2, <1>8, <3>1, <4>1 DEF HeldBy
    <3>3. CASE from # "drain"
      BY <1>15, <2>5, <3>1, <3>3
    <3>. QED
      BY <3>2, <3>3
  <2>8. ASSUME NEW from \in {"drain", "serve", "read"}, ReadFindsNothing(from) PROVE HeldBy(x)'
    <3>1. task.at = from /\ UNCHANGED <<reads, commands>>
          /\ task' = [task EXCEPT !.at = "empty", !.then = IF from = "read" THEN "loop" ELSE from]
      BY <2>8 DEF ReadFindsNothing, Popping, At
    <3>2. task'.at = "empty" /\ task'.cur = task.cur /\ (from = "read" => task'.then = "loop")
      BY <1>0, <3>1 DEF TaskType
    <3>. QED
      BY <1>2, <3>1, <3>2 DEF HeldBy, HoldsRead
  <2>. QED
    BY <1>16, <2>1, <2>2, <2>3, <2>4, <2>6, <2>7, <2>8 DEF ServeStep
<1>17. CASE CommandStep
  <2>1. CASE CommandReadMoot
    <3>1. /\ task.at \in {"loop", "command"} /\ commands # <<>> /\ commands' = Tail(commands) /\ reads' = reads
          /\ Answers(Head(commands), "err") \/ Answers(Head(commands), "eof")
      BY <2>1 DEF CommandReadMoot, Receives, At
    <3>. QED
      BY <1>2, <1>7, <1>9, <3>1 DEF HeldBy, HoldsRead
  <2>2. CASE CommandRead \/ CommandCancel
    <3>1. /\ task.at \in {"loop", "command"} /\ commands # <<>> /\ commands' = Tail(commands) /\ reads' = reads
          /\ \/ Head(commands) \in Reads /\ task' = [task EXCEPT !.at = "read", !.cur = Head(commands)]
             \/ Head(commands) \in Cancels /\ task' = [task EXCEPT !.at = "takeSource", !.cur = Head(commands)]
      BY <2>2 DEF CommandRead, CommandCancel, Receives, At
    <3>2. \/ Head(commands) \in Reads /\ task'.at = "read" /\ task'.cur = Head(commands)
          \/ Head(commands) \in Cancels /\ task'.at = "takeSource" /\ task'.cur = Head(commands)
      BY <1>0, <3>1 DEF TaskType
    <3>3. CASE x = Head(commands)
      BY <3>2, <3>3 DEF HeldBy, HoldsRead
    <3>4. CASE x # Head(commands)
      BY <1>2, <1>9, <3>1, <3>4 DEF HeldBy, HoldsRead
    <3>. QED
      BY <3>3, <3>4
  <2>3. CASE CommandCancelMoot
    <3>1. /\ task.at \in {"loop", "command"} /\ commands # <<>> /\ commands' = Tail(commands)
          /\ CancelEnds(Head(commands), "ok") \/ CancelEnds(Head(commands), "err")
      BY <2>3 DEF CommandCancelMoot, Receives, At
    <3>. QED
      BY <1>2, <1>6, <1>9, <3>1 DEF HeldBy, HoldsRead
  <2>4. CASE ClearQueue
    BY <1>3, <2>4 DEF ClearQueue, taskVars
  <2>5. CASE CancelTakesSource
    <3>1. task.at = "takeSource" /\ UNCHANGED commands /\ ((GoTo("cancelling") /\ reads' = reads) \/ CancelEnds(task.cur, "ok"))
      BY <2>5 DEF CancelTakesSource, At
    <3>2. CASE GoTo("cancelling") /\ reads' = reads
      <4>1. task'.at = "cancelling" /\ task'.cur = task.cur
        BY <1>0, <3>2 DEF GoTo, TaskType
      <4>. QED
        BY <1>2, <3>1, <3>2, <4>1 DEF HeldBy, HoldsRead
    <3>3. CASE CancelEnds(task.cur, "ok")
      BY <1>2, <1>6, <3>1, <3>3 DEF HeldBy, HoldsRead
    <3>. QED
      BY <3>1, <3>2, <3>3
  <2>6. CASE CancelReturns
    <3>1. task.at = "cancelling" /\ UNCHANGED commands /\ (CancelEnds(task.cur, "ok") \/ CancelEnds(task.cur, "failed"))
      BY <2>6 DEF CancelReturns, At
    <3>. QED
      BY <1>2, <1>6, <3>1 DEF HeldBy, HoldsRead
  <2>7. CASE ChannelClosed
    <3>1. task.at \in {"loop", "command"} /\ UNCHANGED commands /\ (AnswersReads("eof") \/ reads' = reads)
      BY <2>7 DEF ChannelClosed, At
    <3>2. CASE reads' = reads
      BY <1>4, <3>1, <3>2
    <3>3. CASE AnswersReads("eof")
      BY <1>2, <1>5, <3>1, <3>3 DEF HeldBy, HoldsRead
    <3>. QED
      BY <3>1, <3>2, <3>3
  <2>. QED
    BY <1>17, <2>1, <2>2, <2>3, <2>4, <2>5, <2>6, <2>7 DEF CommandStep
<1>18. ASSUME NEW c \in Byob, ByobStep(c) PROVE HeldBy(x)'
  BY <1>3, <1>18 DEF ByobStep, Repoll, PollInto, PollIntoEmpty, Register, BeginPullInto, JoinPullIntos, PollEnd, taskVars
<1>. QED
  BY <1>10, <1>11, <1>12, <1>13, <1>14, <1>16, <1>17, <1>18 DEF Next


-----------------------------------------------------------------------------
(* Every BYOB call that waits is registered                                 *)

\* What a read(buf) or a closed() still does before it sleeps, and a read_owned before it waits.
AskOps == {"poll", "pollEmpty", "register", "pollEnd"}
JoinOps == {"into", "join"}

\* The task has begun, or is about to say so.
Begun == task.at # "starting" => started.done \/ Has(todo[Task], {"started"})

Registered(c) == c \in woken \cup readWakers \/ (c \in started.wakers /\ ~started.done)
Asked == \A c \in Intos \cup ClosedCalls : Waiting(c) => Has(todo[c], AskOps) \/ Registered(c)

\* The buffer of a read_owned is on its way to the line, in it, or lent.
InLine(o) == Has(todo[o], JoinOps) \/ o \in lent \/ Has(pending, {o})
Lined == \A o \in Owned : Waiting(o) => InLine(o)

(* Which steps change the list of a thread.                                 *)
LEMMA OwnMoves ==
    ASSUME todo \in [Threads -> Seq(Steps)], Next, NEW u \in Threads
    PROVE  \/ todo'[u] = todo[u]
           \/ SharedStep(u)
           \/ u \in Byob /\ (ByobStep(u) \/ Call(u))
           \/ u \in Producers \cup {Task} /\ Idle(u)
           \/ u = Task /\ (Started \/ ClearQueue)
<1> DEFINE G == \/ todo'[u] = todo[u]
                \/ u \in Producers \cup {Task} /\ Idle(u)
<1>1. ASSUME NEW t, NEW op, NEW m, Does(t, op, m), t # u PROVE G
  BY <1>1 DEF Does
<1>2. ASSUME NEW t, NEW q, todo' = [todo EXCEPT ![t] = q], t # u PROVE G
  BY <1>2
<1>3. ASSUME NEW q, Idle(Task), todo' = [todo EXCEPT ![Task] = q] PROVE G
  BY <1>3, <1>2
<1>4. ASSUME UNCHANGED todo PROVE G
  BY <1>4
<1> SUFFICES ASSUME ~SharedStep(u), ~(u \in Byob /\ (ByobStep(u) \/ Call(u))), ~(u = Task /\ (Started \/ ClearQueue))
             PROVE  G
  BY DEF G
<1> HIDE DEF G
<1>5. ASSUME NEW t \in Threads, SharedStep(t), t # u PROVE G
  <2>1. \E op, m : Does(t, op, m)
    BY <1>5 DEF SharedStep, Push, SettlePullIntos, Announce, SetClosed, SetErrored, Trigger, Recheck
  <2>. QED
    BY <2>1, <1>1, <1>5
<1>6. CASE ControllerStep
  <2>1. ASSUME NEW t, Enqueue(t) \/ Close(t) \/ Error(t), t \in Producers \cup {Task} PROVE G
    <3>1. Idle(t) /\ \E q : todo' = [todo EXCEPT ![t] = q]
      BY <2>1 DEF Enqueue, Close, Error, HasController
    <3>. QED
      BY <2>1, <3>1, <1>2 DEF G
  <2>2. ASSUME NEW t, NEW c, DropRequest(t, c), t \in Producers \cup {Task} PROVE G
    <3>1. Idle(t) /\ \E q : todo' = [todo EXCEPT ![t] = q]
      BY <2>2 DEF DropRequest, MayDropRequest, HasController
    <3>. QED
      BY <2>2, <3>1, <1>2 DEF G
  <2>3. ASSUME NEW t, TakeRequest(t) \/ Respond(t) PROVE G
    BY <2>3, <1>4 DEF TakeRequest, Respond
  <2>. QED
    BY <1>6, <2>1, <2>2, <2>3 DEF ControllerStep, RequestStep
<1>7. CASE UserStep
  <2>1. ASSUME NEW c, Call(c) PROVE G
    BY <2>1, <1>2 DEF Call
  <2>. QED
    BY <1>7, <2>1, <1>4 DEF UserStep, Send, Abandon, Drop
<1>8. CASE SelectStep
  <2>1. CASE Started
    BY <2>1, <1>1 DEF Started
  <2>. QED
    BY <1>8, <2>1, <1>3, <1>4 DEF SelectStep, StartSucceeds, StartFails, PollPull, RegisterPull, ServeDue, RegisterServe,
       Wake, At, sharedVars
<1>9. CASE PullStep
  BY <1>9, <1>3, <1>4 DEF PullStep, TakeSource, PullReturns, PullFails, PullSettlesReads, PullEnds, GiveBack, At
<1>10. CASE ServeStep
  <2>1. ASSUME NEW from, ReadTakes(from) \/ ReadErrs(from) \/ ReadFindsNothing(from) PROVE G
    BY <2>1, <1>3, <1>4 DEF ReadTakes, ReadErrs, ReadFindsNothing, Popping, At
  <2>2. CASE ParkRead
    BY <2>2, <1>3, <1>4 DEF ParkRead, At
  <2>. QED
    BY <1>10, <2>1, <2>2, <1>3, <1>4 DEF ServeStep, NoReads, ReadEnds, ReadWaits, At
<1>11. CASE CommandStep
  <2>1. CASE ClearQueue
    BY <2>1, <1>1 DEF ClearQueue
  <2>2. CASE CommandCancel
    BY <2>2, <1>3 DEF CommandCancel, Receives, At
  <2>. QED
    BY <1>11, <2>1, <2>2, <1>4 DEF CommandStep, CancelTakesSource, CommandReadMoot, CommandRead, CommandCancelMoot,
       CancelReturns, ChannelClosed
<1>12. ASSUME NEW c \in Byob, ByobStep(c), c # u PROVE G
  <2>1. CASE Repoll(c)
    BY <2>1, <1>2, <1>12 DEF Repoll
  <2>2. CASE ~Repoll(c)
    <3>1. \E op, m : Does(c, op, m)
      BY <1>12, <2>2 DEF ByobStep, PollInto, PollIntoEmpty, Register, BeginPullInto, JoinPullIntos, PollEnd
    <3>. QED
      BY <3>1, <1>1, <1>12
  <2>. QED
    BY <2>1, <2>2
<1>. QED
  BY <1>5, <1>6, <1>7, <1>8, <1>9, <1>10, <1>11, <1>12 DEF Next

(* An operation on the shared state leaves what a BYOB call has still to do. *)
LEMMA SharedKeeps ==
    ASSUME todo \in [Threads -> Seq(Steps)], NEW t \in Threads, SharedStep(t),
           NEW X, X \subseteq AskOps \cup JoinOps \cup {"started"}, Has(todo[t], X)
    PROVE  Has(todo'[t], X)
<1>1. <<>> \in Mores /\ <<"trigger">> \in Mores /\ <<"settle", "force">> \in Mores /\ <<"force">> \in Mores
      /\ <<"settle">> \in Mores
  BY DEF Mores
<1>2. \E m \in Mores, op \in {"push", "settle", "announce", "announceEnd", "close", "errored", "trigger", "force",
                             "recheck", "resettle"} : Does(t, op, m)
  BY <1>1 DEF SharedStep, Push, SettlePullIntos, Announce, SetClosed, SetErrored, Trigger, Recheck
<1>3. \A op \in {"push", "settle", "announce", "announceEnd", "close", "errored", "trigger", "force",
                 "recheck", "resettle"} : op \notin X
  BY DEF AskOps, JoinOps
<1>. QED
  BY <1>2, <1>3, MoresType, Doing

(* Which steps change what waits for start().                               *)
LEMMA StartMoves ==
    ASSUME Next
    PROVE  \/ started' = started \/ started' = [done |-> TRUE, wakers |-> {}]
           \/ \E c : started' = [started EXCEPT !.wakers = @ \cup {c}]
<1>1. ASSUME NEW t \in Threads, SharedStep(t) PROVE started' = started
  BY <1>1 DEF SharedStep, Push, SettlePullIntos, Announce, SetClosed, SetErrored, Trigger, Recheck, sharedVars
<1>2. CASE ControllerStep
  BY <1>2 DEF ControllerStep, Enqueue, Close, Error, RequestStep, TakeRequest, Respond, DropRequest, sharedVars
<1>3. CASE UserStep
  BY <1>3 DEF UserStep, Call, Send, Abandon, Drop, sharedVars
<1>4. CASE SelectStep
  BY <1>4 DEF SelectStep, StartSucceeds, StartFails, Started, Starts, PollPull, RegisterPull, ServeDue, RegisterServe, Wake,
     sharedVars
<1>5. CASE PullStep
  BY <1>5 DEF PullStep, TakeSource, PullReturns, PullFails, PullSettlesReads, PullEnds, GiveBack, sharedVars
<1>6. CASE ServeStep
  <2>1. ASSUME NEW from, ReadTakes(from) \/ ReadErrs(from) \/ ReadFindsNothing(from) PROVE started' = started
    BY <2>1 DEF ReadTakes, ReadErrs, ReadFindsNothing, sharedVars
  <2>. QED
    BY <1>6, <2>1 DEF ServeStep, NoReads, ReadEnds, ReadWaits, ParkRead, sharedVars
<1>7. CASE CommandStep
  BY <1>7 DEF CommandStep, ClearQueue, CancelTakesSource, CommandReadMoot, CommandRead, CommandCancelMoot,
     CommandCancel, CancelReturns, ChannelClosed, sharedVars
<1>8. ASSUME NEW c \in Byob, ByobStep(c) PROVE started' = started \/ started' = [started EXCEPT !.wakers = @ \cup {c}]
  BY <1>8 DEF ByobStep, PollInto, Repoll, PollIntoEmpty, Register, BeginPullInto, JoinPullIntos, PollEnd, sharedVars
<1>. QED
  BY <1>1, <1>2, <1>3, <1>4, <1>5, <1>6, <1>7, <1>8 DEF Next

(* The task leaves start() by the end of start().                           *)
LEMMA TaskLeaves ==
    ASSUME Next, ~StartSucceeds, ~StartFails, task.at = "starting"
    PROVE  task'.at = "starting"
<1>1. ASSUME NEW t \in Threads, SharedStep(t) PROVE task' = task
  BY <1>1 DEF SharedStep, Push, SettlePullIntos, Announce, SetClosed, SetErrored, Trigger, Recheck, taskVars
<1>2. CASE ControllerStep
  BY <1>2 DEF ControllerStep, Enqueue, Close, Error, RequestStep, TakeRequest, Respond, DropRequest, taskVars
<1>3. CASE UserStep
  BY <1>3 DEF UserStep, Call, Send, Abandon, Drop, taskVars
<1>4. CASE SelectStep
  BY <1>4 DEF SelectStep, Started, PollPull, RegisterPull, ServeDue, RegisterServe, Wake, At, taskVars
<1>5. ~PullStep
  BY DEF PullStep, TakeSource, PullReturns, PullFails, PullSettlesReads, PullEnds, GiveBack, At
<1>6. ~ServeStep
  BY DEF ServeStep, NoReads, ReadEnds, ReadWaits, ParkRead, ReadTakes, ReadErrs, ReadFindsNothing, Popping, At
<1>7. CASE CommandStep
  BY <1>7 DEF CommandStep, ClearQueue, CancelTakesSource, CommandReadMoot, CommandRead, CommandCancelMoot,
     CommandCancel, CancelReturns, ChannelClosed, Receives, At, taskVars
<1>8. ASSUME NEW c \in Byob, ByobStep(c) PROVE task' = task
  BY <1>8 DEF ByobStep, PollInto, Repoll, PollIntoEmpty, Register, BeginPullInto, JoinPullIntos, PollEnd, taskVars
<1>. QED
  BY <1>1, <1>2, <1>3, <1>4, <1>5, <1>6, <1>7, <1>8 DEF Next

(* The task says that start() is over before it does anything else.         *)
LEMMA BegunKept ==
    ASSUME TypeOK, Begun, Next
    PROVE  Begun'
<1>0. todo \in [Threads -> Seq(Steps)] /\ Task \in Threads /\ started \in [done : BOOLEAN, wakers : SUBSET Intos]
  BY OfTask DEF TypeOK
<1>1. Task \notin Byob
  BY ByteAssumption DEF Calls
<1>2. CASE Started \/ StartSucceeds
  BY <1>2 DEF Started, StartSucceeds, Starts, Begun
<1>3. CASE StartFails
  <2>1. todo'[Task] = ErrorSteps \o <<"started">>
    BY <1>0, <1>3 DEF StartFails
  <2>2. Has(ErrorSteps \o <<"started">>, {"started"})
    BY DEF Has, ErrorSteps
  <2>. QED
    BY <2>1, <2>2 DEF Begun
<1> SUFFICES ASSUME ~Started, ~StartSucceeds, ~StartFails PROVE Begun'
  BY <1>2, <1>3
<1>4. started.done => started'.done
  <2>1. started' = started \/ started' = [done |-> TRUE, wakers |-> {}] \/ \E c : started' = [started EXCEPT !.wakers = @ \cup {c}]
    BY StartMoves
  <2>. QED
    BY <1>0, <2>1
<1>5. task.at = "starting" => task'.at = "starting"
  BY TaskLeaves
<1>6. Has(todo[Task], {"started"}) => Has(todo'[Task], {"started"})
  <2>1. ASSUME Has(todo[Task], {"started"}), SharedStep(Task) PROVE Has(todo'[Task], {"started"})
    BY <1>0, <2>1, SharedKeeps
  <2>2. ASSUME Has(todo[Task], {"started"}), ClearQueue PROVE Has(todo'[Task], {"started"})
    <3>1. ASSUME NEW op, op # "started", Does(Task, op, <<>>) PROVE Has(todo'[Task], {"started"})
      <4>1. <<>> \in Seq(Steps)
        OBVIOUS
      <4>2. \A X : Has(todo[Task], X) <=> op \in X \/ Has(Tail(todo[Task]), X)
        BY <1>0, <3>1, <4>1, Doing
      <4>3. \A X : Has(todo'[Task], X) <=> Has(<<>>, X) \/ Has(Tail(todo[Task]), X)
        BY <1>0, <3>1, <4>1, Doing
      <4>4. op \notin {"started"}
        BY <3>1
      <4>. QED
        BY <2>2, <4>2, <4>3, <4>4
    <3>2. Does(Task, "clear", <<>>) \/ Does(Task, "reset", <<>>)
      BY <2>2 DEF ClearQueue
    <3>. QED
      BY <3>1, <3>2
  <2>3. Idle(Task) => ~Has(todo[Task], {"started"})
    BY DEF Idle, Has
  <2>4. todo'[Task] = todo[Task] \/ SharedStep(Task) \/ Idle(Task) \/ ClearQueue
    BY <1>0, <1>1, OwnMoves
  <2>. QED
    BY <2>1, <2>2, <2>3, <2>4
<1>. QED
  BY <1>4, <1>5, <1>6 DEF Begun

(* Nobody but the executor takes back a wakeup, and a registered waker is    *)
(* either kept or woken.                                                     *)
LEMMA RegisteredKept ==
    ASSUME TypeOK, Next, NEW c \in Intos \cup ClosedCalls, Registered(c), ~Repoll(c)
    PROVE  Registered(c)'
<1>0. c # Task /\ c \in Byob /\ started \in [done : BOOLEAN, wakers : SUBSET Intos]
  BY ByteAssumption DEF Byob, Calls, TypeOK
<1>1. ASSUME UNCHANGED <<started, readWakers>>, woken \ {Task} \subseteq woken' PROVE Registered(c)'
  BY <1>0, <1>1 DEF Registered
<1>2. ASSUME NEW S, Wakes(S), readWakers \subseteq S, UNCHANGED started PROVE Registered(c)'
  BY <1>2 DEF Registered, Wakes
<1>3. ASSUME Starts, UNCHANGED readWakers PROVE Registered(c)'
  BY <1>3 DEF Registered, Starts, Wakes
<1>4. ASSUME NEW t \in Threads, SharedStep(t) PROVE Registered(c)'
  <2>1. CASE Announce(t)
    BY <2>1, <1>2 DEF Announce
  <2>2. CASE Trigger(t)
    BY <2>2, <1>1 DEF Trigger, ArmsPull, Wakes
  <2>. QED
    BY <1>4, <1>1, <2>1, <2>2 DEF SharedStep, Push, SettlePullIntos, SetClosed, SetErrored, Recheck, sharedVars
<1>5. CASE ControllerStep
  BY <1>5, <1>1 DEF ControllerStep, Enqueue, Close, Error, RequestStep, TakeRequest, Respond, DropRequest, sharedVars
<1>6. CASE UserStep
  BY <1>6, <1>1 DEF UserStep, Call, Send, Abandon, Drop, Wakes, sharedVars
<1>7. CASE SelectStep
  <2>1. CASE StartSucceeds \/ Started
    BY <2>1, <1>3 DEF StartSucceeds, Started
  <2>. QED
    BY <1>7, <2>1, <1>1 DEF SelectStep, StartFails, PollPull, RegisterPull, ServeDue, RegisterServe, Wake, sharedVars
<1>8. CASE PullStep
  BY <1>8, <1>1 DEF PullStep, TakeSource, PullReturns, PullFails, PullSettlesReads, PullEnds, GiveBack, sharedVars
<1>9. CASE ServeStep
  <2>1. ASSUME NEW from, ReadTakes(from) \/ ReadErrs(from) \/ ReadFindsNothing(from) PROVE Registered(c)'
    BY <2>1, <1>1 DEF ReadTakes, ReadErrs, ReadFindsNothing, sharedVars
  <2>. QED
    BY <1>9, <2>1, <1>1 DEF ServeStep, NoReads, ReadEnds, ReadWaits, ParkRead, sharedVars
<1>10. CASE CommandStep
  BY <1>10, <1>1 DEF CommandStep, ClearQueue, CancelTakesSource, CommandReadMoot, CommandRead, CommandCancelMoot,
     CommandCancel, CancelReturns, ChannelClosed, sharedVars
<1>11. ASSUME NEW d \in Byob, ByobStep(d) PROVE Registered(c)'
  <2>1. CASE Repoll(d)
    BY <2>1, <1>11 DEF Repoll, Registered, sharedVars
  <2>2. CASE PollInto(d)
    <3>1. UNCHANGED <<readWakers, woken>> /\ (started' = started \/ started' = [started EXCEPT !.wakers = @ \cup {d}])
      BY <2>2 DEF PollInto
    <3>2. started'.done = started.done /\ started.wakers \subseteq started'.wakers
      BY <1>0, <3>1
    <3>. QED
      BY <3>1, <3>2 DEF Registered
  <2>3. CASE Register(d)
    BY <2>3 DEF Register, Registered
  <2>. QED
    BY <1>11, <2>1, <2>2, <2>3, <1>1 DEF ByobStep, PollIntoEmpty, BeginPullInto, JoinPullIntos, PollEnd, sharedVars
<1>. QED
  BY <1>4, <1>5, <1>6, <1>7, <1>8, <1>9, <1>10, <1>11 DEF Next

(* A read(buf) or closed() that waits was polled to the end, and registered. *)
LEMMA AskedKept ==
    ASSUME TypeOK, Asked, Next
    PROVE  Asked'
<1> SUFFICES ASSUME NEW c \in Intos \cup ClosedCalls, Waiting(c)' PROVE (Has(todo[c], AskOps) \/ Registered(c))'
  BY DEF Asked
<1>0. /\ c \in Byob /\ c \in Calls /\ c \in Threads /\ c \notin Commanded /\ c \notin Owned
      /\ c \notin Producers \cup {Task} /\ c # Task
      /\ todo \in [Threads -> Seq(Steps)] /\ pending \in Seq(Owned) /\ call \in [Calls -> Outcomes]
      /\ started \in [done : BOOLEAN, wakers : SUBSET Intos]
  BY OfTask, ByteAssumption DEF Byob, Calls, TypeOK
<1>1. CASE Call(c) \/ Repoll(c)
  <2>1. todo'[c] = <<FirstStep(c)>>
    BY <1>0, <1>1 DEF Call, Repoll
  <2>2. Has(<<FirstStep(c)>>, AskOps)
    BY <1>0 DEF FirstStep, Has, AskOps
  <2>. QED
    BY <2>1, <2>2
<1> SUFFICES ASSUME ~Call(c), ~Repoll(c) PROVE (Has(todo[c], AskOps) \/ Registered(c))'
  BY <1>1
<1>2. Waiting(c)
  <2>1. ~Has(pending, {c}) /\ ~Send(c)
    BY <1>0 DEF Has, Send
  <2>. QED
    BY <1>0, <2>1, WaitsFrom
<1>3. CASE Registered(c)
  BY <1>3, RegisteredKept
<1>4. CASE Has(todo[c], AskOps)
  <2>1. CASE SharedStep(c)
    <3>1. AskOps \subseteq AskOps \cup JoinOps \cup {"started"}
      OBVIOUS
    <3>. QED
      BY <1>0, <1>4, <2>1, <3>1, SharedKeeps
  <2>2. CASE todo'[c] = todo[c]
    BY <1>4, <2>2
  <2>3. ASSUME NEW o, o # "pending", Answers(c, o) PROVE FALSE
    BY <1>0, <2>3 DEF Answers, Waiting
  <2>4. ASSUME NEW op, NEW m \in Seq(Steps), Does(c, op, m), Has(m, AskOps) PROVE Has(todo'[c], AskOps)
    BY <1>0, <2>4, Doing
  <2>5. ASSUME NEW op, NEW m \in Seq(Steps), Does(c, op, m), op \notin AskOps PROVE Has(todo'[c], AskOps)
    BY <1>0, <1>4, <2>5, Doing
  <2>6. \A m \in Mores : m \in Seq(Steps)
    BY MoresType
  <2>7. <<>> \in Mores /\ <<"trigger">> \in Mores /\ <<"pollEmpty">> \in Mores /\ <<"register">> \in Mores
        /\ <<"register", "trigger">> \in Mores /\ <<"join">> \in Mores /\ <<"recheck">> \in Mores
    BY DEF Mores
  <2>8. Has(<<"pollEmpty">>, AskOps) /\ Has(<<"register">>, AskOps) /\ Has(<<"register", "trigger">>, AskOps)
    BY DEF Has, AskOps
  <2>9. CASE PollInto(c)
    <3>1. \/ ~started.done /\ started' = [started EXCEPT !.wakers = @ \cup {c}]
          \/ Does(c, "poll", <<"pollEmpty">>)
      BY <2>3, <2>9 DEF PollInto
    <3>2. CASE ~started.done /\ started' = [started EXCEPT !.wakers = @ \cup {c}]
      BY <1>0, <3>2 DEF Registered
    <3>. QED
      BY <3>1, <3>2, <2>4, <2>6, <2>7, <2>8
  <2>10. CASE PollIntoEmpty(c) \/ PollEnd(c)
    <3>1. Does(c, "pollEmpty", <<"register", "trigger">>) \/ Does(c, "pollEnd", <<"register">>)
      BY <2>3, <2>10 DEF PollIntoEmpty, PollEnd
    <3>. QED
      BY <3>1, <2>4, <2>6, <2>7, <2>8
  <2>11. CASE Register(c)
    BY <2>11 DEF Register, Registered
  <2>12. CASE BeginPullInto(c) \/ JoinPullIntos(c)
    <3>1. \E m \in Mores, op \in JoinOps : Does(c, op, m)
      BY <2>7, <2>12 DEF BeginPullInto, JoinPullIntos, JoinOps
    <3>2. \A op \in JoinOps : op \notin AskOps
      BY DEF JoinOps, AskOps
    <3>. QED
      BY <3>1, <3>2, <2>5, <2>6
  <2>. QED
    BY <1>0, <2>1, <2>2, <2>9, <2>10, <2>11, <2>12, OwnMoves DEF ByobStep
<1>. QED
  BY <1>0, <1>2, <1>3, <1>4 DEF Asked

(* Settling the line answers whom it takes out of it.                       *)
LEMMA SettleKeepsLine ==
    ASSUME TypeOK, NEW t \in Threads, SettlePullIntos(t), NEW o \in Owned, Has(pending, {o}), call'[o] = "pending"
    PROVE  Has(pending', {o})
<1> DEFINE j == CHOOSE i \in DOMAIN pending : pending[i] = o
           r == Cardinality(Reached)
<1>0. /\ o \in Calls /\ pending \in Seq(Owned) /\ DOMAIN pending = 1..Len(pending) /\ Len(pending) \in Nat
      /\ r \in 0..Len(pending) /\ BufLen \in Nat /\ Len(queue.bytes) \in Nat
  BY FillBounded, ByteAssumption DEF TypeOK, Calls, Byob
<1>1. j \in 1..Len(pending) /\ pending[j] = o
  BY <1>0 DEF Has
<1>2. call'[o] = Settles(j)
  BY <1>0, <1>1 DEF SettlePullIntos
<1> HIDE DEF j
<1>3. ~flags.errored /\ j \notin Reached /\ ~flags.closed
  BY <1>2 DEF Settles
<1>4. Reached \subseteq 1..j - 1
  <2> SUFFICES ASSUME NEW i \in Reached, i >= j PROVE FALSE
    BY <1>0, <1>1 DEF Reached
  <2>1. i \in Nat /\ (i - 1) * BufLen < Len(queue.bytes)
    BY <1>0 DEF Reached
  <2>2. (j - 1) * BufLen <= (i - 1) * BufLen
    <3>1. \A a, b, n \in Nat : a <= b => a * n <= b * n
      BY SMT
    <3>2. j - 1 \in Nat /\ i - 1 \in Nat /\ j - 1 <= i - 1
      BY <1>1, <2>1
    <3>. QED
      BY <1>0, <3>1, <3>2
  <2>3. (j - 1) * BufLen \in Nat /\ (i - 1) * BufLen \in Nat
    BY <1>0, <1>1, <2>1
  <2>. QED
    BY <1>0, <1>1, <1>3, <2>1, <2>2, <2>3 DEF Reached
<1>5. r <= j - 1
  <2>1. j - 1 \in Nat
    BY <1>1
  <2>2. IsFiniteSet(1..j - 1) /\ Cardinality(1..j - 1) = j - 1
    BY <2>1, Counting
  <2>. QED
    BY <1>4, <2>1, <2>2, FS_Subset
<1>6. pending' = SubSeq(pending, r + 1, Len(pending))
  BY <1>3 DEF SettlePullIntos
<1> HIDE DEF r
<1>7. j - r \in 1..Len(pending') /\ pending'[j - r] = pending[(j - r) + (r + 1) - 1]
  BY <1>0, <1>1, <1>5, <1>6
<1>8. pending'[j - r] = o
  BY <1>0, <1>1, <1>5, <1>7
<1>. QED
  BY <1>7, <1>8 DEF Has

(* The buffer of a read_owned that waits goes from the line to a request and *)
(* back, and is not lost between them.                                       *)
LEMMA LinedKept ==
    ASSUME TypeOK, Lined, Next
    PROVE  Lined'
<1> SUFFICES ASSUME NEW o \in Owned, Waiting(o)' PROVE InLine(o)'
  BY DEF Lined
<1>0. /\ o \in Byob /\ o \in Calls /\ o \in Threads /\ o \notin Commanded /\ o \notin Intos /\ o \notin ClosedCalls
      /\ o \notin Producers \cup {Task} /\ o # Task
      /\ todo \in [Threads -> Seq(Steps)] /\ pending \in Seq(Owned) /\ call \in [Calls -> Outcomes]
      /\ lent \subseteq Owned
  BY OfTask, ByteAssumption DEF Byob, Calls, TypeOK
<1>1. ASSUME NEW t \in Threads, SettlePullIntos(t), Has(pending, {o}) PROVE InLine(o)'
  BY <1>1, SettleKeepsLine DEF Waiting, InLine
<1>2. CASE Call(o)
  <2>1. todo'[o] = <<"into">>
    BY <1>0, <1>2 DEF Call, FirstStep
  <2>2. Has(<<"into">>, JoinOps)
    BY DEF Has, JoinOps
  <2>. QED
    BY <2>1, <2>2 DEF InLine
<1> SUFFICES ASSUME ~Call(o), ~(Has(pending, {o}) /\ \E t \in Threads : SettlePullIntos(t)) PROVE InLine(o)'
  BY <1>1, <1>2
<1>3. InLine(o)
  BY <1>0, WaitsFrom DEF Lined, Send
<1>4. ASSUME NEW k, k # "pending", Answers(o, k) PROVE FALSE
  BY <1>0, <1>4 DEF Answers, Waiting
<1>5. CASE Has(todo[o], JoinOps)
  <2>1. CASE SharedStep(o)
    <3>1. JoinOps \subseteq AskOps \cup JoinOps \cup {"started"}
      OBVIOUS
    <3>. QED
      BY <1>0, <1>5, <2>1, <3>1, SharedKeeps DEF InLine
  <2>2. CASE todo'[o] = todo[o]
    BY <1>5, <2>2 DEF InLine
  <2>3. \A m \in Mores : m \in Seq(Steps)
    BY MoresType
  <2>4. <<>> \in Mores /\ <<"trigger">> \in Mores /\ <<"pollEmpty">> \in Mores /\ <<"register">> \in Mores
        /\ <<"register", "trigger">> \in Mores /\ <<"join">> \in Mores /\ <<"recheck">> \in Mores
    BY DEF Mores
  <2>5. CASE PollInto(o) \/ PollIntoEmpty(o) \/ Register(o) \/ PollEnd(o)
    <3>1. \E m \in Mores, op \in AskOps : Does(o, op, m)
      BY <2>4, <2>5 DEF PollInto, PollIntoEmpty, Register, PollEnd, AskOps
    <3>2. \A op \in AskOps : op \notin JoinOps
      BY DEF JoinOps, AskOps
    <3>. QED
      BY <1>0, <1>5, <3>1, <3>2, <2>3, Doing DEF InLine
  <2>6. CASE BeginPullInto(o)
    <3>1. Does(o, "into", <<"join">>)
      BY <1>4, <2>6 DEF BeginPullInto
    <3>2. Has(<<"join">>, JoinOps)
      BY DEF Has, JoinOps
    <3>. QED
      BY <1>0, <3>1, <3>2, <2>3, <2>4, Doing DEF InLine
  <2>7. CASE JoinPullIntos(o)
    <3>1. pending' = Append(pending, o)
      BY <1>4, <2>7 DEF JoinPullIntos
    <3>2. Len(pending') \in 1..Len(pending') /\ pending'[Len(pending')] = o
      BY <1>0, <3>1
    <3>. QED
      BY <3>2 DEF InLine, Has
  <2>8. ~Repoll(o)
    BY <1>0 DEF Repoll
  <2>. QED
    BY <1>0, <2>1, <2>2, <2>5, <2>6, <2>7, <2>8, OwnMoves DEF ByobStep
<1>6. CASE o \in lent \/ Has(pending, {o})
  <2>1. CASE UNCHANGED <<pending, lent>>
    BY <1>6, <2>1 DEF InLine
  <2>2. ASSUME NEW t \in Threads, SettlePullIntos(t) PROVE InLine(o)'
    BY <1>6, <2>2 DEF SettlePullIntos, InLine
  <2>3. ASSUME NEW t, TakeRequest(t) PROVE InLine(o)'
    <3>1. pending # <<>> /\ lent' = lent \cup {Head(pending)} /\ pending' = Tail(pending)
      BY <2>3 DEF TakeRequest
    <3>2. Has(pending, {o}) <=> Head(pending) \in {o} \/ Has(Tail(pending), {o})
      BY <1>0, <3>1, HasParts
    <3>. QED
      BY <1>6, <3>1, <3>2 DEF InLine
  <2>4. ASSUME NEW c, Respond(c) PROVE InLine(o)'
    <3>1. c # o
      BY <1>4, <2>4 DEF Respond
    <3>. QED
      BY <1>6, <2>4, <3>1 DEF Respond, InLine
  <2>5. ASSUME NEW t, NEW c, DropRequest(t, c) PROVE InLine(o)'
    <3>1. pending' = <<c>> \o pending /\ lent' = lent \ {c} /\ <<c>> \in Seq(Owned)
      BY <1>0, <2>5 DEF DropRequest
    <3>2. Has(<<c>> \o pending, {o}) <=> Has(<<c>>, {o}) \/ Has(pending, {o})
      BY <1>0, <3>1, HasConcat
    <3>3. c = o => Has(<<c>>, {o})
      BY DEF Has
    <3>. QED
      BY <1>6, <3>1, <3>2, <3>3 DEF InLine
  <2>6. ASSUME NEW c \in Byob, JoinPullIntos(c) PROVE InLine(o)'
    <3>1. lent' = lent /\ (pending' = pending \/ pending' = Append(pending, c))
      BY <2>6 DEF JoinPullIntos
    <3>2. ASSUME pending' = Append(pending, c), Has(pending, {o}) PROVE Has(pending', {o})
      <4>1. PICK i \in 1..Len(pending) : pending[i] = o
        BY <3>2 DEF Has
      <4>2. i \in 1..Len(pending') /\ pending'[i] = o
        BY <1>0, <3>2, <4>1
      <4>. QED
        BY <4>2 DEF Has
    <3>. QED
      BY <1>6, <3>1, <3>2 DEF InLine
  <2>. QED
    BY <2>1, <2>2, <2>3, <2>4, <2>5, <2>6, LineMoves DEF RequestStep
<1>. QED
  BY <1>3, <1>5, <1>6 DEF InLine


-----------------------------------------------------------------------------
(* The inductive invariant                                                  *)

\* Lists in order, chunks on their way, the task's place; what is settled, served, woken, held;
\* which BYOB calls are registered.
Inv ==
    /\ TypeOK /\ Lists /\ Counted /\ Placed
    /\ ByteOrder /\ Settled /\ Served /\ WakeInv /\ Held
    /\ Begun /\ Asked /\ Lined

(* The invariant holds in the beginning.                                    *)
LEMMA InitInv == Init => Inv
<1> SUFFICES ASSUME Init PROVE Inv
  OBVIOUS
<1>1. /\ \A t \in Threads : todo[t] = <<>>
      /\ \A X : ~Has(<<>>, X)
      /\ \A X, Y : Follows(<<>>, X, Y)
      /\ Task \in Threads /\ Len(Sizes) \in Nat
      /\ <<>> \in Seq(Bytes) /\ <<>> \in Seq(Owned) /\ <<>> \in Seq(Reads) /\ <<>> \in Seq(Commanded) /\ <<>> \in Seq(Steps)
  BY OfTask, ByteAssumption DEF Init, Has, Follows
<1>2. TypeOK
  <2>1. call \in [Calls -> Outcomes] /\ todo \in [Threads -> Seq(Steps)] /\ task \in TaskType
    BY <1>1 DEF Init, Outcomes, TaskType, Places
  <2>2. queue \in [bytes : Seq(Bytes), size : Nat]
    BY <1>1 DEF Init
  <2>3. /\ flags \in [closed : BOOLEAN, errored : BOOLEAN]
        /\ gate \in [needsPull : BOOLEAN, pullWaker : BOOLEAN, serve : BOOLEAN, serveWaker : BOOLEAN, pulling : BOOLEAN]
        /\ started \in [done : BOOLEAN, wakers : SUBSET Intos]
    BY DEF Init
  <2>4. /\ pending \in Seq(Owned) /\ reads \in Seq(Reads) /\ commands \in Seq(Commanded) /\ taken \in Seq(Bytes)
        /\ readWakers \subseteq Byob /\ woken \subseteq Threads /\ lent \subseteq Owned
        /\ source \in {"here", "away", "gone"} /\ ended \subseteq Endings
    BY <1>1 DEF Init
  <2>5. made \in 0..Len(Sizes) /\ pushed \in 0..made /\ dropped \in BOOLEAN /\ cleared \in BOOLEAN /\ cancelRuns \in 0..1
    <3>1. made = 0 /\ pushed = 0 /\ cancelRuns = 0 /\ dropped = FALSE /\ cleared = FALSE
      BY DEF Init
    <3>2. 0 \in 0..Len(Sizes) /\ 0 \in 0..0 /\ 0 \in 0..1
      BY <1>1
    <3>. QED
      BY <3>1, <3>2
  <2>. QED
    BY <2>1, <2>2, <2>3, <2>4, <2>5 DEF TypeOK, TaskType
<1>3. Lists
  BY <1>1 DEF Init, Lists, UnsentIdle, Idle, Listed, Threads
<1>4. Counted
  <2>1. Pushing = {}
    BY <1>1 DEF Pushing
  <2>2. IsFiniteSet({}) /\ Cardinality({}) = 0
    BY FS_EmptySet
  <2>. QED
    BY <2>1, <2>2 DEF Init, Counted
<1>5. ByteOrder
  <2>1. <<>> \o <<>> = <<>> /\ Len(<<>>) = 0
    OBVIOUS
  <2>. QED
    BY <2>1, SentFacts DEF Init, ByteOrder
<1>6. Placed /\ Settled /\ Served /\ WakeInv /\ Held
  BY DEF Init, Placed, InPull, HoldsRead, Settled, Served, Serving, WakeInv, Held, Waiting, Commanded, Calls
<1>7. Begun /\ Asked /\ Lined
  BY DEF Init, Begun, Asked, Lined, Waiting, Calls, Byob
<1>. QED
  BY <1>2, <1>3, <1>4, <1>5, <1>6, <1>7 DEF Inv

(* Every step of every thread preserves it.                                 *)
LEMMA NextInv == Inv /\ [Next]_vars => Inv'
<1> SUFFICES ASSUME Inv, [Next]_vars PROVE Inv'
  OBVIOUS
<1>1. CASE Next
  <2>1. /\ TypeOK /\ Lists /\ Counted /\ Placed
        /\ ByteOrder /\ Settled /\ Served /\ WakeInv /\ Held /\ Begun /\ Asked /\ Lined
        /\ call \in [Calls -> Outcomes] /\ todo \in [Threads -> Seq(Steps)]
    BY DEF Inv, TypeOK
  <2>2. call' \in [Calls -> Outcomes] /\ todo' \in [Threads -> Seq(Steps)] /\ Lists'
    BY <1>1, <2>1, CallsMove, ListsKept
  <2>3. Counted'
    BY <1>1, <2>1, CountedKept
  <2>4. /\ queue' \in [bytes : Seq(Bytes), size : Nat] /\ taken' \in Seq(Bytes) /\ cleared' \in BOOLEAN
        /\ ByteOrder'
    BY <1>1, <2>1, DataKept
  <2>5. Signals' /\ pending' \in Seq(Owned) /\ lent' \subseteq Owned
    BY <1>1, <2>1, SignalsKept, PendingKept
  <2>6. TaskPlaced'
    BY <1>1, <2>1, PlacedKept
  <2>7. made' \in 0..Len(Sizes) /\ pushed' \in 0..made' /\ ended' \subseteq Endings /\ dropped' \in BOOLEAN
    BY <1>1, <2>1, <2>3, CountersKept
  <2>8. TypeOK'
    BY <2>2, <2>4, <2>5, <2>6, <2>7 DEF TypeOK, Signals, GateType, StartedType, TaskPlaced, TaskType, Placed
  <2>9. Settled' /\ Served' /\ WakeInv' /\ Held'
    BY <1>1, <2>1, SettledKept, ServedKept, WakeKept, HeldKept
  <2>10. Begun' /\ Asked' /\ Lined'
    BY <1>1, <2>1, BegunKept, AskedKept, LinedKept
  <2>. QED
    BY <2>2, <2>3, <2>4, <2>6, <2>8, <2>9, <2>10 DEF Inv, TaskPlaced
<1>2. CASE UNCHANGED vars
  <2>1. UNCHANGED <<queue, flags, gate, started, readWakers, pending, lent, source, todo, woken, task, reads, commands,
                    call, made, ended, dropped, pushed, taken, cleared, cancelRuns>>
    BY <1>2 DEF vars, sharedVars, taskVars, userVars, histVars
  <2>2. TypeOK' /\ Counted' /\ Placed' /\ ByteOrder'
    BY <2>1 DEF Inv, TypeOK, Counted, Pushing, Placed, InPull, HoldsRead, ByteOrder
  <2>3. Lists' /\ Settled' /\ Served' /\ WakeInv' /\ Held'
    BY <2>1 DEF Inv, Lists, UnsentIdle, Idle, Settled, Served, Serving, Heard, Due, WakeInv, Held, HeldBy, HoldsRead,
       Waiting, Over
  <2>4. Begun' /\ Asked' /\ Lined'
    BY <2>1 DEF Inv, Begun, Asked, Registered, Lined, InLine, Waiting
  <2>. QED
    BY <2>2, <2>3, <2>4 DEF Inv
<1>. QED
  BY <1>1, <1>2

-----------------------------------------------------------------------------
(* What follows                                                             *)

(* The shared state, the task's place and the calls keep their types; the    *)
(* source is cancelled at most once (cancel_source).                         *)
THEOREM ByteTypes == Spec => []TypeOK
<1>1. Inv => TypeOK
  BY DEF Inv
<1>. QED
  BY <1>1, InitInv, NextInv, PTL DEF Spec

(* Whatever producers and readers interleave, the bytes handed out and those *)
(* still buffered are, in order, the bytes of the chunks that reached the    *)
(* buffer, until a cancel empties it (enqueue_bytes, drain_queue_into).      *)
THEOREM ByteOrderHolds == Spec => []ByteOrder
<1>1. Inv => ByteOrder
  BY DEF Inv
<1>. QED
  BY <1>1, InitInv, NextInv, PTL DEF Spec

(* A buffer registered while another thread closes or errors the stream is   *)
(* settled: by that thread, or by the second look of begin_pull_into and     *)
(* return_pull_into.                                                         *)
THEOREM NoneStranded == Spec => []NoStrandedPullInto
<1>1. Inv => NoStrandedPullInto
  <2> SUFFICES ASSUME Inv, Quiet, Over PROVE pending = <<>>
    BY DEF NoStrandedPullInto
  <2>1. ~Due(SettleOps)
    BY DEF Due, DueIn, Quiet, Idle, Has
  <2>. QED
    BY <2>1 DEF Inv, Settled
<1>. QED
  BY <1>1, InitInv, NextInv, PTL DEF Spec

(* A stream at rest has taken every command, finished every cancel and holds *)
(* only reads of an open stream with no bytes (notify_serve, the select!     *)
(* loop, park of a read); a read(buf) or closed() that waits is where the    *)
(* next announcement wakes it (register_read_waker), though one that came    *)
(* before it registered may have passed it by; and no buffer of a read_owned *)
(* is lost between the line and a request (take_pull_into, return_pull_into).*)
THEOREM WaitingCallsHeld == Spec => []CallsHeld
<1>1. Inv => CallsHeld
  <2> SUFFICES ASSUME Inv, AtRest
               PROVE  /\ commands = <<>>
                      /\ \A x \in Cancels : ~Waiting(x)
                      /\ \A r \in Reads : Waiting(r) => ~Over /\ queue.bytes = <<>>
                      /\ \A c \in Intos \cup ClosedCalls : Waiting(c) => c \in readWakers
                      /\ \A o \in Owned : Waiting(o) => o \in lent \/ \E i \in DOMAIN pending : pending[i] = o
    BY DEF CallsHeld
  <2>1. task.at = "parked" /\ ~gate.serve /\ commands = <<>>
    BY DEF AtRest, Inv, WakeInv
  <2>2. ~Due({"announce", "announceEnd"})
    BY DEF AtRest, Due, DueIn, Quiet, Idle, Has
  <2>3. ~Heard /\ ~Serving /\ \A x : ~Has(commands, {x})
    BY <2>1, <2>2 DEF Heard, Serving, Has
  <2>4. reads # <<>> => ~Over /\ queue.bytes = <<>>
    BY <2>3 DEF Inv, Served
  <2>5. \A x \in Commanded : Waiting(x) => x \in Reads /\ Has(reads, {x})
    BY <2>1, <2>3 DEF Inv, Held, HeldBy, HoldsRead
  <2>6. \A x : Has(reads, {x}) => reads # <<>>
    BY DEF Has
  <2>7. Reads \cap Cancels = {}
    BY ByteAssumption
  <2>8. \A t \in Threads : \A X : ~Has(todo[t], X)
    BY DEF AtRest, Quiet, Idle, Has
  <2>9. ASSUME NEW c \in Intos \cup ClosedCalls, Waiting(c) PROVE c \in readWakers
    <3>1. started.done /\ c \in Threads
      BY <2>1, <2>8, OfTask DEF Inv, Begun, Byob
    <3>2. Registered(c)
      BY <2>8, <2>9, <3>1 DEF Inv, Asked
    <3>. QED
      BY <2>9, <3>1, <3>2 DEF Registered, AtRest
  <2>10. ASSUME NEW o \in Owned, Waiting(o) PROVE o \in lent \/ \E i \in DOMAIN pending : pending[i] = o
    <3>1. o \in lent \/ Has(pending, {o})
      BY <2>8, <2>10, OfTask DEF Inv, Lined, InLine, Byob
    <3>2. DOMAIN pending = 1..Len(pending)
      BY DEF Inv, TypeOK
    <3>. QED
      BY <3>1, <3>2 DEF Has
  <2>. QED
    BY <2>1, <2>4, <2>5, <2>6, <2>7, <2>9, <2>10 DEF Commanded
<1>. QED
  BY <1>1, InitInv, NextInv, PTL DEF Spec
=============================================================================
