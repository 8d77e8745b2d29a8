\* A transaction of more packets than there are trackers of its port.
SPECIFICATION Spec
CONSTANTS
    NumPorts = 1
    PerPort = 2
    BufferLen = 8
    Sizes = {1}
    Unknown = Unknown
    NoId = NoId
    MaxBatch = 3
    MaxRequests = 1
    MaxFaults = 0
CHECK_DEADLOCK FALSE
INVARIANTS DoesNotRunOut
