----------------------------- MODULE MCRmaLane -----------------------------
(* The lane that has weight 3 of 4, in the first two rounds and a half. *)
EXTENDS RmaLane

MCAssigned == <<0, 1, 3, 4, 5, 7, 8>>
=============================================================================
