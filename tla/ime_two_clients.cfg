\* two applications, no maintenance and no crash: every interleaving of focus changes and keys
SPECIFICATION Spec
CONSTANTS
    c1 = c1
    c2 = c2
    l1 = l1
    l2 = l2
    Clients = {c1, c2}
    Letters = {l1, l2}
    Events = {"switch", "terminate"}
    MaxEdits = 1
    None = None
    Maint = Maint
INVARIANTS
    CommitAtMostOnce
    ComposingExplained
PROPERTY ImplementsLifecycle
SYMMETRY Symmetry
