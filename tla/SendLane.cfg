\* More slots than the receiver has receives; one frame sent eagerly, one
\* that may be unreadable.
CONSTANTS
    Depth = 3
    RecvDepth = 2
    Total = 6
    Whole = {3}
    Unreadable = {5}
SPECIFICATION FairSpec
INVARIANTS
    DeliveredIntact
    DoneAfterAll
PROPERTIES
    ImplementsWindow
