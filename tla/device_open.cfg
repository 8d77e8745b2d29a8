\* A user's channel and a network client's, on a VINT device and its hub, attach,
\* which may fail once, are closed, and are detached with the devices.
SPECIFICATION Spec
CONSTANTS
    hub = hub
    vint = vint
    own = own
    Device <- MCDevice
    Parent <- MCParent
    Index = {1, 2}
    Exclusive <- MCExclusive
    Channel = {own, n}
    Served = {n}
    Fits <- MCFits
    Central = c
    Server = {x}
    None = None
    MaxOpen = 1
    MaxFail = 1
CHECK_DEADLOCK FALSE
INVARIANTS
    TypeOK ClosingIsToken CloserFindsItOpen HeldIsOpen OpenIsHeld CloseGivesBack
    ExclusiveRespected 
