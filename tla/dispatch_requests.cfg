\* A user closes and opens the channel and issues synchronous and asynchronous
\* requests, which may time out, with queues of one entry and a pool of two, while
\* the channel attaches and detaches.
SPECIFICATION Spec
CONSTANTS
    Channel = {p}
    NetChannel = {}
    ServedChannel = {}
    Entry = {e1, e2}
    Dispatcher = {d1, d2}
    User = {u}
    Source = {}
    Central = c
    NoEntry = NoEntry
    NoChannel = NoChannel
    NoThread = NoThread
    InMax = 0
    OutSoftMax = 0
    OutHardMax = 0
    DesiredIdle = 1
    Requests = {"sync", "async"}
    Traffic = {}
    NestedIn = {}
    MayClose = TRUE
    MayFail = FALSE
    MayDetach = TRUE
    MayTimeout = TRUE
    MaxOps = 2
    MaxAttach = 1
SYMMETRY Symmetry
CHECK_DEADLOCK FALSE
INVARIANTS CallbackAtMostOnce RequestNotLost EntryInOnePlace FlagIsToken OneDispatcherPerQueue
