----------------------------- MODULE MCEngines -----------------------------
(* Three lanes, the last without chunks; three chunks, the last one small. *)
EXTENDS Engines

MCLanes == {1, 2, 3}
MCChunks == 0..2
MCGiven == <<{0}, {1, 2}, {}>>
=============================================================================
