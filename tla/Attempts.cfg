\* An attempt with two lanes, one of another file, and one of the first file
\* with the two lanes and a third; one fault.  A lane whose sender has been
\* killed, and a sender nobody listens to, wait for ever: the system may stop.
CONSTANTS
    Lanes <- MCLanes
    Senders <- MCSenders
    SenderLanes <- MCSenderLanes
    Meta <- MCMeta
    NoMeta = NoMeta
    MetaOf <- MCMetaOf
    Backlog = 2
    MaxFaults = 1
    Chunks <- MCChunks
    AssignOf <- MCAssignOf
SPECIFICATION AttemptsFairSpec
INVARIANTS
    Paired
    GateAgrees
    OkMeansComplete
PROPERTIES
    GateStaysShut
    ClientLearns
    AttemptEnds
CHECK_DEADLOCK FALSE
