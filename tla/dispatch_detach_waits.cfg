\* A user closes the channel while it attaches; then the device detaches.
SPECIFICATION FairSpec
CONSTANTS
    Channel = {p}
    NetChannel = {}
    ServedChannel = {}
    Entry = {e1, e2, e3}
    Dispatcher = {d1}
    User = {u}
    Source = {}
    Central = c
    NoEntry = NoEntry
    NoChannel = NoChannel
    NoThread = NoThread
    InMax = 2
    OutSoftMax = 2
    OutHardMax = 3
    DesiredIdle = 1
    Requests = {}
    Traffic = {}
    NestedIn = {}
    MayClose = TRUE
    MayFail = FALSE
    MayDetach = TRUE
    MayTimeout = FALSE
    MaxOps = 1
    MaxAttach = 1
CHECK_DEADLOCK FALSE
PROPERTIES DetachProceeds
