---------------------------- MODULE ByteStreamProps ----------------------------
(***************************************************************************)
(* What the readable byte stream promises its readers and its source.      *)
(***************************************************************************)
EXTENDS ByteStream

-----------------------------------------------------------------------------
(* Invariants                                                               *)

\* The bytes of the first n chunks, in the order they were buffered.
Sent[n \in Nat] == IF n = 0 THEN <<>> ELSE Sent[n - 1] \o Chunk(n)

\* Until a cancel empties the buffer, every byte enqueued is handed out once,
\* whoever asks for it, and in order; queue_total_size counts what is left.
ByteOrder ==
    ~cleared => /\ taken \o queue.bytes = Sent[pushed]
                /\ queue.size = Len(queue.bytes)

Quiet == \A t \in Threads : Idle(t)

\* A buffer registered with read_owned while another thread closes or errors
\* the stream, or handed back by a request dropped then, is not left behind:
\* once every thread is through its operation, an ended stream holds none.
NoStrandedPullInto == Quiet /\ Over => pending = <<>>

Waiting(c) == call[c] = "pending"

\* Nothing will happen until somebody calls the stream again: no operation is
\* under way, the task is parked, and no future has been woken.
AtRest ==
    /\ Quiet /\ task.at = "parked" /\ Task \notin woken
    /\ \A c \in Intos \cup ClosedCalls : Waiting(c) => c \notin woken

\* What a stream at rest still owes.  It has taken every command and finished
\* every cancel; a read() waits only for bytes of an open stream.  A read(buf) or
\* a closed() that waits is registered, so that the next enqueue, close or error
\* wakes it (one that came before it registered may have passed it by: neither
\* looks again), and the buffer of a read_owned is in line or lent to the source.
CallsHeld ==
    AtRest =>
        /\ commands = <<>>
        /\ \A x \in Cancels : ~Waiting(x)
        /\ \A r \in Reads : Waiting(r) => ~Over /\ queue.bytes = <<>>
        /\ \A c \in Intos \cup ClosedCalls : Waiting(c) => c \in readWakers
        /\ \A o \in Owned : Waiting(o) => o \in lent \/ \E i \in DOMAIN pending : pending[i] = o

-----------------------------------------------------------------------------
(* What the documentation says and the code does not do                     *)

\* A registered pull-into forces a pull: a stream at rest has none.
PullIntoIsPulled == AtRest => pending = <<>>
=============================================================================
