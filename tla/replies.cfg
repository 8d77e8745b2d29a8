\* Two threads send four requests, events or replies over a connection whose
\* numbers repeat after two; writes fail, waits time out, the connection closes.
SPECIFICATION FairSpec
CONSTANTS
    User = {u, v}
    Nobody = Nobody
    SeqMod = 2
    MaxSeq = 4
    MayFail = TRUE
    MayTimeout = TRUE
    MayLeave = TRUE
CHECK_DEADLOCK FALSE
INVARIANTS TypeOK ListedIsLive StrayOnlyInClose
PROPERTIES KeepsPromise CloseWakes CloseEnds
