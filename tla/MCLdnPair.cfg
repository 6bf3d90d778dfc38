SPECIFICATION Spec
CONSTANTS
    h = h
    j = j
    Console = {h, j}
    None = None
    Everyone = Everyone
    Hosts = {h}
    Joiners = {j}
    FirstSeq <- MCFirstSeq
    MaxSent <- MCMaxSent
    Flooding = FALSE
    MaxScanners = 1
    PeerTimeout = 1
    Restarting = {}
    ScannerTimeout = 1
    SeqMod = 65536
    SeqWindow = 3
    StationCountMax = 2
    Unstamped = {}
INVARIANTS TypeOK OneSlotPerPeer HostTableAdvertised ConnectedListsSelf
PROPERTIES SyncsAdvance
VIEW NoReason
CONSTRAINT OneInSession
ACTION_CONSTRAINT ScanOnce
