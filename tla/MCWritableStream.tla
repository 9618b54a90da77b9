--------------------------- MODULE MCWritableStream ---------------------------
(***************************************************************************)
(* Small instances of the writable stream for TLC.                         *)
(***************************************************************************)
EXTENDS WritableStreamProps

\* One chunk as large as the high water mark.
OneWrite == {1}
OneSize == [w \in OneWrite |-> 1]

\* Three chunks of unequal sizes, the last of size zero.
ThreeWrites == 1..3
ThreeSizes == [w \in ThreeWrites |-> IF w = 3 THEN 0 ELSE w]
=============================================================================
