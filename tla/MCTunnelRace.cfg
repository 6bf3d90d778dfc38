SPECIFICATION Spec
CONSTANTS
    p = p
    q = q
    Peer = {p}
    Sizes = {2}
    MaxFragEntries = 2
    MaxTotalParts = 4
    IdMod = 8
    FragTimeout = 1
    MaxDelay = 1
    Racing = TRUE
    MaxTime = 0
    MaxDatagrams = 3
INVARIANTS KeysUnique
