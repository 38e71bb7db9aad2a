----------------------------- MODULE MCTransfer -----------------------------
(* Two lanes with weights 4 and 1 and the five chunks of one round; of the  *)
(* first lane two frames are sent eagerly, as many as it has slots, one     *)
(* frame is announced before the last is read, and one is never posted for  *)
(* if the lane loses both slots.                                            *)
EXTENDS Transfer

MCLanes == {1, 2}
MCChunks == 0..4
MCAssign == <<(<<0, 1, 3, 4>>), <<2>>>>
MCEager == {<<1, 1>>, <<1, 3>>}
=============================================================================
