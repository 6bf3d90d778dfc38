SPECIFICATION FairSpec
CONSTANTS
    RxSize = 2
    PendingSize = 3
    MaxPackets = 6
INVARIANTS
    TypeOK
    EventTracksData
PROPERTIES
    RxIsQueue
    PendingIsQueue
    InOrder
    ReceiveReturns
