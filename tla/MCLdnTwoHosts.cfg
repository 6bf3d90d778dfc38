SPECIFICATION SpecOpened
CONSTANTS
    a = a
    b = b
    j = j
    Console = {a, b, j}
    None = None
    Everyone = Everyone
    Hosts = {a, b}
    Joiners = {j}
    FirstSeq <- MCFirstSeq
    MaxSent <- MCMaxSent
    Budget = 2
    Flooding = FALSE
    MaxScanners = 1
    PeerTimeout = 1
    Restarting = {}
    ScannerTimeout = 1
    SeqMod = 65536
    SeqWindow = 256
    StationCountMax = 2
    Unstamped = {}
CONSTRAINT InSession
ACTION_CONSTRAINT OneInterval
PROPERTIES SessionGate
