\* Four options: enough for a check on two of them, a lane and an option that
\* is given twice.
CONSTANTS
    W16 = 4
    W32 = 8
    W64 = 32
    Numbers <- MCNumbers
    LaneTexts <- MCLaneTexts
    Strings <- MCStrings
    MaxArgs = 4
SPECIFICATION ArgsSpec
INVARIANTS
    OptionsUsable
    AsGiven
