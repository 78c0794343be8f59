SPECIFICATION ClientSpec
CONSTANTS
    a = a
    b = b
    Peer <- MCPeer
    Connector = a
    Rand = {1, 2}
    Width = 4
    MaxSize = 2
    Block = 2
    MaxFiles = 2
    s1 = s1
    s2 = s2
    Prompt <- MCPrompt
    Shell <- OneShell
    MaxMsgs = 3
    MaxCommands = 2
    u = u
    v = v
    Me = Me
    None = None
    Crash = Crash
INVARIANT HashIsFound
CHECK_DEADLOCK FALSE
