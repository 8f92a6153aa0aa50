\* a statement of the documentation the code does not keep
SPECIFICATION Spec
CONSTANTS
    x1 = x1
    r1 = r1
    Contexts = {x1}
    Roots = {r1}
    Nothing = Nothing
    Commands = {"key", "hide", "showRoot", "hideRoot"}
    UiEvents = {}
    MaxQueue = 3
INVARIANT NoLockCycle
