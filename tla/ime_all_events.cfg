\* one application and every event of its environment
SPECIFICATION FairSpec
CONSTANTS
    c1 = c1
    l1 = l1
    l2 = l2
    Clients = {c1}
    Letters = {l1, l2}
    Events = {"switch", "deactivate", "tray", "button", "redeploy", "fetch",
              "crash", "terminate", "release", "caps",
              "select", "away", "candidates"}
    MaxEdits = 2
    None = None
    Maint = Maint
INVARIANTS
    TypeOK
    NoHiddenComposition
    WindowExplained
    ComposingExplained
PROPERTY CallsReturn
