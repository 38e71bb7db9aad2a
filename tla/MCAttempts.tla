----------------------------- MODULE MCAttempts -----------------------------
(* An attempt "a" with both lanes; "b", another file, on the second; and "c", *)
(* the file of "a" again with a third lane, which the receiver does not have, *)
(* between the two.  "c" on lane 1 with "a" on lane 2 makes four chunks, one  *)
(* of them twice; "a" on lane 1 with "c" on lane 2 makes three.               *)
EXTENDS Attempts

MCLanes == {1, 2}
MCSenders == {"a", "b", "c"}
MCSenderLanes == [s \in MCSenders |-> IF s = "b" THEN {2} ELSE {1, 2}]
MCMeta == {"file", "other"}
MCMetaOf == [s \in MCSenders |-> IF s = "b" THEN "other" ELSE "file"]
MCChunks == 0..3

\* Equal weights: the chunks go round the lanes, two or three of them.
OfTwo == <<{0, 2}, {1, 3}>>
OfThree == <<{0, 3}, {2}>>

MCAssignOf == [c \in Client |-> IF c[1] = "c" THEN OfThree[c[2]] ELSE OfTwo[c[2]]]
=============================================================================
