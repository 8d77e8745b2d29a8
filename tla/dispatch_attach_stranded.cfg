\* A network channel attaches again while a dispatcher ends its detach.
SPECIFICATION Spec
CONSTANTS
    Channel = {p}
    NetChannel = {p}
    ServedChannel = {}
    Entry = {e1, e2, e3, e4}
    Dispatcher = {d1, d2}
    User = {}
    Source = {}
    Central = c
    NoEntry = NoEntry
    NoChannel = NoChannel
    NoThread = NoThread
    InMax = 2
    OutSoftMax = 2
    OutHardMax = 3
    DesiredIdle = 1
    Requests = {}
    Traffic = {}
    NestedIn = {}
    MayClose = FALSE
    MayFail = FALSE
    MayDetach = TRUE
    MayTimeout = FALSE
    MaxOps = 1
    MaxAttach = 2
SYMMETRY Symmetry
CHECK_DEADLOCK FALSE
INVARIANTS NoEventStranded
