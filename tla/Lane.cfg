\* A chunk that may be unreadable and one that may be refused; the receiver
\* has more receives than the sender has slots.
CONSTANTS
    SendDepth = 2
    RecvDepth = 3
    Total = 5
    Whole = {}
    Unreadable = {4}
    Bad = {2}
SPECIFICATION FairSpec
INVARIANTS
    ProcessedIntact
    NothingLeftToFetch
PROPERTIES
    ImplementsTransfer
    ImplementsBothEnds
    KeepsBothGoing
    BothEnd
