\* Small chunks: every frame is sent eagerly.
CONSTANTS
    Depth = 2
    SendDepth = 2
    Expected = 4
    Whole = {1, 2, 3, 4}
    Bad = {}
SPECIFICATION FairSpec
PROPERTY LaneFinishes
