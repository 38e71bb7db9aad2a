\* Three lanes, every combination of the weights 1..4 (total at most 12).
CONSTANTS
    NumLanes = 3
    Weights = {1, 2, 3, 4}
    TotalChunks = 13
SPECIFICATION Spec
INVARIANTS
    ExactlyOneLane
    NeverAheadByAChunk
    ExactShareEveryRound
