SPECIFICATION Spec
CONSTANTS
    p = p
    q = q
    Peer = {p}
    Sizes = {2}
    MaxFragEntries = 2
    MaxTotalParts = 4
    IdMod = 2
    FragTimeout = 1
    MaxDelay = 1
    Racing = FALSE
    MaxTime = 4
    MaxDatagrams = 3
INVARIANTS TypeOK WholePackets NoneLost KeysUnique
