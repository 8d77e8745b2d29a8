\* Two requests on one port, of one packet or a transaction of two, with timeouts,
\* and a send that fails or a report that is lost.
SPECIFICATION FairSpec
CONSTANTS
    NumPorts = 1
    PerPort = 3
    BufferLen = 4
    Sizes = {1}
    Unknown = Unknown
    NoId = NoId
    MaxBatch = 2
    MaxRequests = 2
    MaxFaults = 1
CHECK_DEADLOCK FALSE
INVARIANTS TypeOK TrackersAccounted IdNotReused SpaceCovers ResultHonest
PROPERTIES RequestEnds AbandonedComesBack
