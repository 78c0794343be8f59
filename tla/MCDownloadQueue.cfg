SPECIFICATION FairSpec
CONSTANTS
    c1 = c1
    c2 = c2
    f1 = f1
    Conn <- MCConn
    File <- MCFile
    List = List
    MaxQueue = 5
    MaxText = 5
    NoFile = NoFile
INVARIANTS
    DownloadsSound
    OnePerDirection
    QueuePosTracksTransfer
    UnqueueRemovesNamed
PROPERTIES
    DownloadsEnd
    RenamedWasReceived
