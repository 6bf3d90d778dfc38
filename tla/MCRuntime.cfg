SPECIFICATION FairSpec
CONSTANTS
    Fds <- TwoFds
    MaxServers = 2
INVARIANTS
    TypeOK
    RunSocketOpen
    StoppedIsClean
    NoSocketLost
PROPERTY
    StopReturns
