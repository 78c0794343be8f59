CONSTANTS
    c1 = c1
    c2 = c2
    c3 = c3
    p1 = p1
    p2 = p2
    p3 = p3
    NoPeer = NoPeer
    Conn = {c1, c2}
    Peer = {p1, p2}
    MiniCount = 1
    MaxSlots = 1
    PipeMax = 2
SPECIFICATION FairSpec
INVARIANTS
    TypeOK
    SlotAccounting
    OpenFileIsCharged
    ReplyOnlyOnRequest
PROPERTIES
    SlotsArePool
    UploadsGoOn
