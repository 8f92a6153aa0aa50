\* a server process, two WebSocket clients, two attachments of one stem
SPECIFICATION Spec
CONSTANTS
    c1 = c1
    c2 = c2
    p1 = p1
    p2 = p2
    n1 = n1
    n2 = n2
    Conns = {c1, c2}
    Profiles = {p1, p2}
    Names = {n1, n2}
    None = None
    Empty = Empty
    ChannelCap = 1
    MaxSent = 2
SYMMETRY Symmetry
INVARIANTS
    TypeOK
    WsConverges
    FileWhole
