\* One fault of any kind, all combinations of --verify and --sink.  A failed
\* lane leaves its peer waiting for ever: the system may stop.
CONSTANTS
    Lanes <- MCLanes
    Chunks <- MCChunks
    Assign <- MCAssign
    SendDepth = 2
    RecvDepth = 2
    Eager <- MCEager
    MaxFaults = 1
SPECIFICATION FairSpec
INVARIANTS
    OkMeansFaithful
    DamageKeptOut
    SenderOkMeansFetched
PROPERTIES
    ImplementsCopy
    TransferEnds
CHECK_DEADLOCK FALSE
