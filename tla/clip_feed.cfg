\* uploads and a subscriber, with every failure
SPECIFICATION FairSpec
CONSTANTS
    t1 = t1
    t2 = t2
    p1 = p1
    p2 = p2
    c1 = c1
    Tasks = {t1, t2}
    Profiles = {p1, p2}
    Clients = {c1}
    Empty = Empty
    Unset = Unset
    Free = Free
    BufferCap = 1
    OutCap = 1
    ChannelCap = 1
    MaxItems = 1
    MaxSeq = 2
    Faults = {"cancel", "crash", "store"}
INVARIANTS
    ServiceTypeOK
    ServiceConsistent
    EventsInOrder
    ReplayHasRoom
    NoHoleWhileLive
PROPERTIES
    NeverBackwards
    RequestsFinish
