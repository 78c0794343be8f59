SPECIFICATION Spec
CONSTANTS
    n1 = n1
    c1 = c1
    c2 = c2
    c3 = c3
    i1 = i1
    i2 = i2
    Nick <- MCNick
    Conn <- MCConn
    Info <- MCInfo
    MaxConn = 2
    MaxResponses = 1
    NoInfo = NoInfo
SYMMETRY Symmetric
INVARIANTS
    ConnsSound
    RefcountExact
    KeysAreNames
    SentIsAwaited
CHECK_DEADLOCK FALSE
