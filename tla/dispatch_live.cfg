\* One attach, which may fail, and a detach, while the callbacks of the attach and
\* of the initial events issue requests and hold their dispatcher, under
\* fairness.  No symmetry: liveness.
SPECIFICATION FairSpec
CONSTANTS
    Channel = {p}
    NetChannel = {}
    ServedChannel = {}
    Entry = {e1, e2, e3, e4}
    Dispatcher = {d1, d2}
    User = {}
    Source = {}
    Central = c
    NoEntry = NoEntry
    NoChannel = NoChannel
    NoThread = NoThread
    InMax = 2
    OutSoftMax = 2
    OutHardMax = 3
    DesiredIdle = 1
    Requests = {"sync"}
    Traffic = {}
    NestedIn = {"CHANNEL_ATTACH", "CHANNEL_INITEVENTS"}
    MayClose = FALSE
    MayFail = TRUE
    MayDetach = TRUE
    MayTimeout = FALSE
    MaxOps = 1
    MaxAttach = 1
CHECK_DEADLOCK FALSE
PROPERTIES AttachEnds DetachEnds RequestAnswered
