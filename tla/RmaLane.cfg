\* A receiver with one slot less than the sender, so that two of the puts leave
\* the region; the last put, of a short chunk, may complete before it lands.
\* Depth times chunk size stays below the range of the product.
CONSTANTS
    SendDepth = 4
    RecvDepth = 3
    ChunkSize = 2
    Wrap = 9
    Assigned <- MCAssigned
    Early = {7}
SPECIFICATION RmaFairSpec
INVARIANTS
    InsideExactly
    CountedHaveLanded
PROPERTY LaneFinishes
