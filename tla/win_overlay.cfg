\* the root overlay comes and goes under lists, repaints and changes of the DPI;
\* the two threads can block each other for good here (run win_root)
SPECIFICATION Spec
CONSTANTS
    x1 = x1
    x2 = x2
    r1 = r1
    Contexts = {x1, x2}
    Roots = {r1}
    Nothing = Nothing
    Commands = {"key", "hide", "page", "showRoot", "hideRoot"}
    UiEvents = {"paint", "dpi"}
    MaxQueue = 2
INVARIANTS
    TypeOK
    LastCommandShown
CHECK_DEADLOCK FALSE
