SPECIFICATION Spec
CONSTANTS
    f1 = f1  f2 = f2  f3 = f3
    s1 = s1  s2 = s2
    p = p  w = w
    NoPort = NoPort
    Fd <- ThreeFds
    Session <- TwoSessions
    Kind <- BothKinds
    Ephemeral <- OnePoolPort
    WellKnown <- OneWellKnown
    LanPort <- LanPorts
    MaxProxySockets = 2
SYMMETRY Symmetry
INVARIANTS
    TypeOK
    PortsDistinct
    PortsHeld
    LeftoverHasNoPort
PROPERTIES
    BoundOnce
    ClosedByOwner
