------------------------------ MODULE AbortSignal ------------------------------
(***************************************************************************)
(* AbortController and AbortSignal (streams/shared.rs): the calls of       *)
(* abort(), each with a reason of its own, and the futures that wait for   *)
(* the first of them.  Triggers and observers run on threads of their own; *)
(* a step is one access to the flag, to the reason or to the waker set.    *)
(***************************************************************************)
CONSTANTS
    Triggers,   \* calls of abort(); each gives itself as its reason
    Observers   \* futures of aborted_future()

VARIABLES
    aborted,   \* the flag
    reason,    \* the reason; read and written under its lock
    lock,      \* the call that holds the lock of the reason
    tpc,       \* where each call is
    opc,       \* where each future is
    wakers,    \* the futures registered in the waker set
    roused,    \* the futures whose waker has fired
    seen       \* history: the reason each observer read

vars == <<aborted, reason, lock, tpc, opc, wakers, roused, seen>>

None == "none"

TypeOK ==
    /\ aborted \in BOOLEAN
    /\ reason \in Triggers \cup {None} /\ lock \in Triggers \cup {None}
    /\ tpc \in [Triggers -> {"idle", "locked", "stores", "stored", "wakes", "done"}]
    /\ opc \in [Observers -> {"idle", "register", "recheck", "parked", "ready", "read"}]
    /\ wakers \subseteq Observers /\ roused \subseteq Observers
    /\ seen \in [Observers -> Triggers \cup {None}]

Init ==
    /\ aborted = FALSE /\ reason = None /\ lock = None
    /\ tpc = [t \in Triggers |-> "idle"]
    /\ opc = [o \in Observers |-> "idle"]
    /\ wakers = {} /\ roused = {}
    /\ seen = [o \in Observers |-> None]

-----------------------------------------------------------------------------
(* trigger                                                                  *)

TriggerGoes(t, from, to) ==
    /\ tpc[t] = from
    /\ tpc' = [tpc EXCEPT ![t] = to]
    /\ UNCHANGED <<opc, seen>>

Lock(t) ==
    /\ TriggerGoes(t, "idle", "locked")
    /\ lock = None /\ lock' = t
    /\ UNCHANGED <<aborted, reason, wakers, roused>>

\* Variant: a later call's reason replaces the first.
CheckNothing(t) ==
    /\ TriggerGoes(t, "locked", "stores")
    /\ reason' = t
    /\ UNCHANGED <<aborted, lock, wakers, roused>>

\* A call that comes after the first returns, and sets nothing.
Check(t) ==
    /\ TriggerGoes(t, "locked", IF aborted THEN "done" ELSE "stores")
    /\ IF aborted THEN lock' = None /\ UNCHANGED reason
       ELSE reason' = t /\ UNCHANGED lock
    /\ UNCHANGED <<aborted, wakers, roused>>

Store(t) ==
    /\ TriggerGoes(t, "stores", "stored")
    /\ aborted' = TRUE
    /\ UNCHANGED <<reason, lock, wakers, roused>>

Unlock(t) ==
    /\ TriggerGoes(t, "stored", "wakes")
    /\ lock' = None
    /\ UNCHANGED <<aborted, reason, wakers, roused>>

WakeAll(t) ==
    /\ TriggerGoes(t, "wakes", "done")
    /\ roused' = roused \cup wakers /\ wakers' = {}
    /\ UNCHANGED <<aborted, reason, lock>>

TriggerStep(t) == Lock(t) \/ Check(t) \/ Store(t) \/ Unlock(t) \/ WakeAll(t)

-----------------------------------------------------------------------------
(* aborted_future, and reason() once it has resolved                        *)

ObserverGoes(o, to) ==
    /\ opc' = [opc EXCEPT ![o] = to]
    /\ UNCHANGED <<aborted, reason, lock, tpc>>

Poll(o) ==
    /\ opc[o] = "idle" \/ (opc[o] = "parked" /\ o \in roused)
    /\ ObserverGoes(o, IF aborted THEN "ready" ELSE "register")
    /\ roused' = roused \ {o}
    /\ UNCHANGED <<wakers, seen>>

Register(o) ==
    /\ opc[o] = "register"
    /\ ObserverGoes(o, "recheck")
    /\ wakers' = wakers \cup {o}
    /\ UNCHANGED <<roused, seen>>

Recheck(o) ==
    /\ opc[o] = "recheck"
    /\ ObserverGoes(o, IF aborted THEN "ready" ELSE "parked")
    /\ UNCHANGED <<wakers, roused, seen>>

ReadReason(o) ==
    /\ opc[o] = "ready" /\ lock = None
    /\ ObserverGoes(o, "read")
    /\ seen' = [seen EXCEPT ![o] = reason]
    /\ UNCHANGED <<wakers, roused>>

ObserverStep(o) == Poll(o) \/ Register(o) \/ Recheck(o) \/ ReadReason(o)

Next ==
    \/ \E t \in Triggers : TriggerStep(t)
    \/ \E o \in Observers : ObserverStep(o)

Spec == Init /\ [][Next]_vars

-----------------------------------------------------------------------------
(* What it promises                                                         *)

\* The first abort wins: every observer reads the reason of one and the same
\* call, the one that raised the flag, however many calls race (trigger).
OneReason ==
    /\ \A o \in Observers : opc[o] = "read" => aborted /\ seen[o] = reason /\ reason # None
    /\ aborted => reason # None
ReasonPinned == [][aborted => reason' = reason]_vars

\* No abort is missed: once a call of abort() has returned, no future stays
\* parked with its waker unfired (aborted_future looks again after it registers).
AbortNotMissed ==
    \A o \in Observers : opc[o] = "parked" /\ aborted /\ o \notin roused =>
        \E t \in Triggers : tpc[t] \in {"stored", "wakes"}
=============================================================================
