\* Three users, one dispatcher: a synchronous request meets a full queue.
SPECIFICATION Spec
CONSTANTS
    Channel = {p}
    NetChannel = {}
    ServedChannel = {}
    Entry = {e1, e2, e3}
    Dispatcher = {d1}
    User = {u, v, w}
    Source = {}
    Central = c
    NoEntry = NoEntry
    NoChannel = NoChannel
    NoThread = NoThread
    InMax = 1
    OutSoftMax = 2
    OutHardMax = 3
    DesiredIdle = 1
    Requests = {"sync"}
    Traffic = {}
    NestedIn = {}
    MayClose = FALSE
    MayFail = FALSE
    MayDetach = TRUE
    MayTimeout = FALSE
    MaxOps = 1
    MaxAttach = 1
SYMMETRY Symmetry
CHECK_DEADLOCK FALSE
INVARIANTS ReturnAssertion
