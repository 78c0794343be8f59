SPECIFICATION Spec
CONSTANTS
    c1 = c1
    c2 = c2
    f1 = f1
    Conn <- MCConn
    File <- MCFile
    List = List
    MaxQueue = 1
    MaxText = 1
    NoFile = NoFile
INVARIANT QueuedValidMeansTransferred
