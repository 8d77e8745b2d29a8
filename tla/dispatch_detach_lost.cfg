\* A packet comes in while its channel detaches.
SPECIFICATION Spec
CONSTANTS
    Channel = {p}
    NetChannel = {}
    ServedChannel = {}
    Entry = {e1, e2, e3, e4}
    Dispatcher = {d1, d2}
    User = {}
    Source = {s}
    Central = c
    NoEntry = NoEntry
    NoChannel = NoChannel
    NoThread = NoThread
    InMax = 2
    OutSoftMax = 2
    OutHardMax = 3
    DesiredIdle = 1
    Requests = {}
    Traffic = {"CHANNEL_BRIDGEPKT"}
    NestedIn = {}
    MayClose = FALSE
    MayFail = FALSE
    MayDetach = TRUE
    MayTimeout = FALSE
    MaxOps = 1
    MaxAttach = 1
SYMMETRY Symmetry
CHECK_DEADLOCK FALSE
PROPERTIES DetachDispatched
