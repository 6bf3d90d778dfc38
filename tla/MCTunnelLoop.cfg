SPECIFICATION Spec
CONSTANTS
    p = p
    q = q
    Peer = {p}
    Sizes = {2, 3}
    MaxFragEntries = 1
    MaxTotalParts = 4
    IdMod = 3
    FragTimeout = 1
    MaxDelay = 1
    Racing = TRUE
    MaxTime = 0
    MaxDatagrams = 3
INVARIANT OneKeyPackets
VIEW NoHistory
CONSTRAINT OnePacket
