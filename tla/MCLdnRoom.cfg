SPECIFICATION SpecOpened
CONSTANTS
    h = h
    j = j
    k = k
    Console = {h, j, k}
    None = None
    Everyone = Everyone
    Hosts = {h}
    Joiners = {j, k}
    FirstSeq <- MCFirstSeq
    MaxSent <- MCMaxSent
    Flooding = TRUE
    MaxScanners = 1
    PeerTimeout = 1
    Restarting = {h}
    ScannerTimeout = 1
    SeqMod = 65536
    SeqWindow = 256
    StationCountMax = 2
    Unstamped = {}
CONSTRAINT InSession
SYMMETRY Joiner2
INVARIANTS OnlyScannersJoin HostTableAdvertised
