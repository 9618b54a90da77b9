------------------------------ MODULE StreamLock ------------------------------
(***************************************************************************)
(* The lock of a stream: one AtomicBool that get_writer, get_reader and    *)
(* get_byob_reader take by compare-exchange.                               *)
(*                                                                         *)
(* A writer is a counted handle: ready() and closed() hold clones of it,   *)
(* and the guard they share clears the flag when the last one is dropped.  *)
(* A reader has no clones: release_lock clears the flag, and the Drop of   *)
(* the same reader, which ends that call, clears it again.                 *)
(***************************************************************************)
EXTENDS Naturals

CONSTANTS
    Threads, \* threads that take the lock
    MaxRefs  \* bound: handles of one writer

VARIABLES
    kind,   \* "writer" or "reader"
    locked, \* the flag
    at,     \* per thread: where it is
    refs,   \* per thread: the handles that share its guard
    robbed  \* history: a released reader's Drop has cleared another's lock

lockVars == <<kind, locked, at, refs, robbed>>

Live(t) == at[t] = "held"

LockTypeOK ==
    /\ kind \in {"writer", "reader"} /\ locked \in BOOLEAN /\ robbed \in BOOLEAN
    /\ at \in [Threads -> {"out", "held", "clearing", "released"}]
    /\ refs \in [Threads -> 0..MaxRefs]

LockInit ==
    /\ kind \in {"writer", "reader"}
    /\ locked = FALSE /\ robbed = FALSE
    /\ at = [t \in Threads |-> "out"]
    /\ refs = [t \in Threads |-> 0]

Goes(t, from, to) == at[t] = from /\ at' = [at EXCEPT ![t] = to]

\* A compare-exchange that fails changes nothing.
Acquire(t) ==
    /\ Goes(t, "out", "held")
    /\ ~locked /\ locked' = TRUE
    /\ refs' = [refs EXCEPT ![t] = 1]
    /\ UNCHANGED <<kind, robbed>>

\* A future of ready() or closed() is made.
Clone(t) ==
    /\ kind = "writer" /\ Live(t) /\ refs[t] < MaxRefs
    /\ refs' = [refs EXCEPT ![t] = @ + 1]
    /\ UNCHANGED <<kind, locked, at, robbed>>

\* Variant: the lock goes with the first handle.
ClearsAtFirstDrop(t) ==
    /\ kind = "writer" /\ Live(t)
    /\ refs' = [refs EXCEPT ![t] = @ - 1]
    /\ at' = IF refs[t] = 1 THEN [at EXCEPT ![t] = "clearing"] ELSE at
    /\ locked' = FALSE
    /\ UNCHANGED <<kind, robbed>>

\* The writer or a future of it is dropped; the guard's own Drop comes after.
DropHandle(t) ==
    /\ kind = "writer" /\ Live(t)
    /\ refs' = [refs EXCEPT ![t] = @ - 1]
    /\ at' = IF refs[t] = 1 THEN [at EXCEPT ![t] = "clearing"] ELSE at
    /\ UNCHANGED <<kind, locked, robbed>>

DropGuard(t) ==
    /\ Goes(t, "clearing", "out")
    /\ locked' = FALSE
    /\ UNCHANGED <<kind, refs, robbed>>

ReleaseLock(t) ==
    /\ kind = "reader"
    /\ Goes(t, "held", "released")
    /\ locked' = FALSE
    /\ UNCHANGED <<kind, refs, robbed>>

\* Drop clears the flag, whoever holds it.
DropReader(t) ==
    /\ kind = "reader"
    /\ Goes(t, "held", "out") \/ Goes(t, "released", "out")
    /\ locked' = FALSE
    /\ refs' = [refs EXCEPT ![t] = 0]
    /\ robbed' = (robbed \/ \E u \in Threads \ {t} : Live(u))
    /\ UNCHANGED kind

LockStep(t) ==
    Acquire(t) \/ Clone(t) \/ DropHandle(t) \/ DropGuard(t) \/ ReleaseLock(t) \/ DropReader(t)

LockNext == \E t \in Threads : LockStep(t)

LockSpec == LockInit /\ [][LockNext]_lockVars

(* A lock has one holder at a time, unless the second clear of a released    *)
(* reader took it from one, which never happens to a writer; and a flag that *)
(* is set belongs to somebody who will clear it (get_writer, get_reader,     *)
(* get_byob_reader, WriterLockGuard::drop, release_lock).                    *)
Exclusive ==
    /\ \A t, u \in Threads : Live(t) /\ Live(u) => t = u \/ robbed
    /\ robbed => kind = "reader"
    /\ locked => \E t \in Threads : at[t] \in {"held", "clearing"}
=============================================================================
