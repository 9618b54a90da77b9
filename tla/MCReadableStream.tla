--------------------------- MODULE MCReadableStream ---------------------------
(***************************************************************************)
(* Small instances of the default readable stream for TLC.                 *)
(***************************************************************************)
EXTENDS ReadableStreamProps

OneChunk == {1}
OneSize == [c \in OneChunk |-> 1]

\* Two chunks of unequal sizes.
TwoChunks == 1..2
TwoSizes == [c \in TwoChunks |-> c]

TwoReads == 1..2
=============================================================================
