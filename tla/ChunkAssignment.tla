-------------------------- MODULE ChunkAssignment --------------------------
(***************************************************************************)
(* assign_chunks of rnic_send.cpp: before any thread starts, the sender    *)
(* deals the chunks 0 .. TotalChunks-1 to its lanes by smooth weighted     *)
(* round robin.  Every lane earns its weight with every chunk, the lane    *)
(* that is richest takes the chunk and pays the sum of all weights.        *)
(*                                                                         *)
(* Lanes are numbered from 1; the weights are those of the --lane options, *)
(* which parse_lane_spec has checked to be positive.                       *)
(***************************************************************************)
EXTENDS Integers, Sequences

CONSTANTS NumLanes,     \* opt.lanes.size(); parse_args refuses an empty list
          Weights,      \* the weights a lane may be given
          TotalChunks   \* meta.total_chunks

ASSUME NumLanesAssumption == NumLanes \in Nat \ {0}
ASSUME WeightsAssumption == Weights \subseteq Nat \ {0}
ASSUME TotalChunksAssumption == TotalChunks \in Nat

Lane == 1..NumLanes

VARIABLES weight,       \* lanes[i].weight
          summed,       \* how many weights the first loop has added
          totalWeight,  \* total_weight
          chunk,        \* the chunk the second loop is about to assign
          current,      \* current[i], the credit of lane i
          out           \* out[i], the chunks of lane i

vars == <<weight, summed, totalWeight, chunk, current, out>>

TypeOK ==
    /\ weight \in [Lane -> Weights]
    /\ summed \in 0..NumLanes
    /\ totalWeight \in Nat
    /\ chunk \in 0..TotalChunks
    /\ current \in [Lane -> Int]
    /\ out \in [Lane -> Seq(0..TotalChunks-1)]
----------------------------------------------------------------------------
Init ==
    /\ weight \in [Lane -> Weights]
    /\ summed = 0
    /\ totalWeight = 0
    /\ chunk = 0
    /\ current = [l \in Lane |-> 0]
    /\ out = [l \in Lane |-> <<>>]

AddWeight ==
    /\ summed < NumLanes
    /\ summed' = summed + 1
    /\ totalWeight' = totalWeight + weight[summed + 1]
    /\ UNCHANGED <<weight, chunk, current, out>>

\* The credits at the end of the inner loop, which adds each lane's weight.
Credit == [l \in Lane |-> current[l] + weight[l]]

\* Mutation operator: the comparison looks at the weights, not the credits.
IsHeaviest(best) == \A l \in Lane : weight[best] >= weight[l]

\* `current[i] > current[best]' keeps the first of several richest lanes.
IsRichest(best) ==
    \A l \in Lane :
        /\ Credit[best] >= Credit[l]
        /\ l < best => Credit[best] > Credit[l]

\* Mutation operator: the winner pays its own weight instead of the total.
PaysOwnWeight(best) == [Credit EXCEPT ![best] = @ - weight[best]]

\* The winner pays for the chunk.
Pays(best) == [Credit EXCEPT ![best] = @ - totalWeight]

\* Mutation operator: the chunk replaces the lane's list.
PushesOnly(best) == [out EXCEPT ![best] = <<chunk>>]

Pushes(best) == [out EXCEPT ![best] = Append(@, chunk)]

AssignChunk ==
    /\ summed = NumLanes
    /\ chunk < TotalChunks
    /\ \E best \in Lane :
          /\ IsRichest(best)
          /\ current' = Pays(best)
          /\ out' = Pushes(best)
    /\ chunk' = chunk + 1
    /\ UNCHANGED <<weight, summed, totalWeight>>

\* assign_chunks has returned.
Assigned ==
    /\ summed = NumLanes
    /\ chunk = TotalChunks
    /\ UNCHANGED vars

Next == AddWeight \/ AssignChunk \/ Assigned

Spec == Init /\ [][Next]_vars
----------------------------------------------------------------------------
(* The lists the lane threads are given.                                   *)

\* Every chunk dealt so far is in exactly one lane's list, once: the
\* receiver counts chunks, it does not know which ones it has seen.
ExactlyOneLane ==
    \A c \in 0..chunk-1 :
        \E l \in Lane : \E i \in 1..Len(out[l]) :
            /\ out[l][i] = c
            /\ \A m \in Lane : \A j \in 1..Len(out[m]) :
                  out[m][j] = c => m = l /\ j = i

\* No lane runs ahead of its share by a whole chunk: it has fewer than
\* chunk * weight / total + 1 chunks.
NeverAheadByAChunk ==
    summed = NumLanes =>
        \A l \in Lane :
            totalWeight * Len(out[l]) < chunk * weight[l] + totalWeight

\* Whenever a multiple of the total weight has been dealt, every lane has
\* exactly its share (15 and 85 of every 100 chunks for --mode hybrid).
ExactShareEveryRound ==
    \A k \in 0..chunk :
        summed = NumLanes /\ chunk = k * totalWeight =>
            \A l \in Lane : Len(out[l]) = k * weight[l]
=============================================================================
