\* the pages of the store and of the schemas, with a server that deploys beside them
SPECIFICATION Spec
CONSTANTS
    Schemas = {s1}
    Models = {m1, m2}
    Shipped = {s1}
    Base = base
    MaxLoads = 2
    MaxTasks = 3
    None = None
SYMMETRY Symmetry
CONSTRAINT Small
INVARIANTS
    TypeOK
    MarkHasThread
    LoadingHasRequest
    PageMatchesDisk
    IndexIsFresh
    DeployedIsCurrent
CHECK_DEADLOCK FALSE
