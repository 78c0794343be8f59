SPECIFICATION PartsSpec
CONSTANTS
    c1 = c1
    c2 = c2
    s1 = s1
    h1 = h1
    None = None
    Nil = Nil
    Freed = Freed
    Conn <- MCConn
    Shell <- MCShell
    Hub <- MCHub
    Fd <- MCFd
    Port <- MCPort
    NoSocket = NoSocket
    MaxOut = 2
INVARIANTS
    PipeEndsSound
    SocketsSound
    CodesSound
PROPERTIES
    EndsAreNoticed
    AnswersInOrder
    MapsSound
    SearchesSound
CHECK_DEADLOCK FALSE
