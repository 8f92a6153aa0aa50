SPECIFICATION Spec
CONSTANTS
    Procs = {p1, p2}
    Packages = {k1, k2}
    Files = {f1, f2}
    Requests = {"toggle", "show", "hide", "reload", "select", "key", "list", "index", "download", "install", "uninstall"}
    MaxOps = 4
    None = None
SYMMETRY Symmetry
INVARIANTS
    TypeOK
    RunningServes
    DataWhole
    TrayShowsMode
    MarketConsistent
CHECK_DEADLOCK FALSE
