SPECIFICATION Spec
CONSTANTS
    a = a  b = b
    Ip <- TwoIps
    Default = Default
    NoFile = NoFile
    Blank = Blank
SYMMETRY Symmetry
INVARIANTS
    TypeOK
    OneIdentity
PROPERTY KeptForever
