\* Frames fetched by rendezvous, some of which are refused, and one in the
\* middle and the short one at the end sent eagerly.
CONSTANTS
    Depth = 3
    SendDepth = 2
    Expected = 7
    Whole = {2, 7}
    Bad = {2, 5, 7}
SPECIFICATION FairSpec
INVARIANTS
    FrameInOnePlace
    QuiescentBeforeUnmap
    WindowFull
PROPERTIES
    ImplementsWindow
