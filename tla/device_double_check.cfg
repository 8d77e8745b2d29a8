\* A network client and the central thread attach a channel to the same slot.
SPECIFICATION Spec
CONSTANTS
    hub = hub
    vint = vint
    own = own
    Device <- MCDevice
    Parent <- MCParent
    Index = {1, 2}
    Exclusive <- MCExclusive
    Channel = {own, n}
    Served = {n}
    Fits <- MCFits
    Central = c
    Server = {x}
    None = None
    MaxOpen = 1
    MaxFail = 0
CHECK_DEADLOCK FALSE
INVARIANTS DoubleChecked
