\* One of three channels attaches, which may fail, and detaches, while two packets
\* come for it: a local one, one that attaches over the network, and one that a
\* network client opened, whose server falls behind.
SPECIFICATION Spec
CONSTANTS
    Channel = {p, q, r}
    NetChannel = {q}
    ServedChannel = {r}
    Entry = {e1, e2, e3}
    Dispatcher = {d1, d2}
    User = {}
    Source = {s}
    Central = c
    NoEntry = NoEntry
    NoChannel = NoChannel
    NoThread = NoThread
    InMax = 1
    OutSoftMax = 2
    OutHardMax = 3
    DesiredIdle = 1
    Requests = {}
    Traffic = {"SERVERBRIDGEPACKET", "CHANNEL_BRIDGEPKT", "CLIENTBRIDGEPACKET"}
    NestedIn = {}
    MayClose = FALSE
    MayFail = TRUE
    MayDetach = TRUE
    MayTimeout = FALSE
    MaxOps = 2
    MaxAttach = 1
SYMMETRY Symmetry
CONSTRAINT OneChannel
CHECK_DEADLOCK FALSE
INVARIANTS TypeOK CallbacksInOrder NoEventStranded EntryInOnePlace
