\* All four combinations of --engine; one of the three puts may be complete
\* before it lands.  Ends that do not fit wait for each
\* other for ever: the system may stop.
CONSTANTS
    Lanes <- MCLanes
    Chunks <- MCChunks
    Given <- MCGiven
    Small = {2}
    EarlyPuts = {1}
SPECIFICATION FairSpec
INVARIANTS
    OkMeansArrived
    MismatchNeverSucceeds
PROPERTY SameEngineSucceeds
CHECK_DEADLOCK FALSE
