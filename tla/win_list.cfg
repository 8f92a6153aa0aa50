\* lists only, no root overlay: the two threads cannot block each other
SPECIFICATION FairSpec
CONSTANTS
    x1 = x1
    x2 = x2
    Contexts = {x1, x2}
    Roots = {}
    Nothing = Nothing
    Commands = {"key", "hide", "page"}
    UiEvents = {"paint"}
    MaxQueue = 2
INVARIANT NoLockCycle
PROPERTY CommandsFinish
