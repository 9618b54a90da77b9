------------------------------ MODULE MCByteStream ------------------------------
(***************************************************************************)
(* Small instances of the readable byte stream for TLC.                    *)
(***************************************************************************)
EXTENDS ByteStreamProps

\* One chunk of two bytes.
OneChunk == <<2>>

CONSTANTS r1, i1, o1, d1, x1

\* Which calls meet: every kind with a cancel or a close, the ways of reading
\* with each other.
Pairs == {{r1, i1}, {r1, o1}, {r1, x1}, {i1, d1}, {i1, x1}, {o1, x1}}

\* One call of read_owned, alone.
OwnedOnly == {{o1}}

\* What tells two states apart: not which outcome an answered call had, nor a
\* waker that such a call left behind, which wakes nobody.
Told ==
    LET open == {c \in Calls : call[c] = "pending"}
        state == [c \in Calls |-> IF call[c] \in {"unsent", "pending"} THEN call[c] ELSE "answered"]
    IN  <<queue, flags, gate, started.done, started.wakers \cap open, readWakers \cap open, pending,
          lent, todo, woken \cap (open \cup {Task}), taskVars, state, made, ended, dropped, histVars>>
=============================================================================
