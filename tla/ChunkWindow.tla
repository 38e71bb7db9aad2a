---------------------------- MODULE ChunkWindow ----------------------------
(***************************************************************************)
(* What a lane promises whichever side of it one looks at: its operations  *)
(* 1 .. Total are issued in order, each is retired once, and at most Depth *)
(* of them are issued and not yet retired, until all are retired or the    *)
(* lane fails.  README.md calls Depth "the per-lane in-flight chunk        *)
(* window".  SendLane and RecvLane implement it.                           *)
(***************************************************************************)
EXTENDS Integers, FiniteSets

CONSTANTS Total,    \* the operations of the lane
          Depth     \* how many may be outstanding

VARIABLES issued,   \* how many operations have been issued
          retired,  \* the set of those that have been retired
          open      \* the lane has not failed

wvars == <<issued, retired, open>>

Init == issued = 0 /\ retired = {} /\ open = TRUE

\* One step may retire an operation and issue the next in its place.
Moves ==
    \E n \in issued..Total : \E R \in SUBSET (1..n) :
        /\ retired \subseteq R
        /\ n - Cardinality(R) <= Depth
        /\ issued' = n
        /\ retired' = R

Advance == open /\ Moves /\ UNCHANGED open

Fail == open /\ Moves /\ open' = FALSE

Spec == Init /\ [][Advance \/ Fail]_wvars /\ WF_wvars(Advance)
=============================================================================
