SPECIFICATION Spec
CONSTANTS
    Apps = {a1}
    Commands = {"register", "copyToSystem", "copyAndRegister", "unregister", "removeFromSystem", "unregisterAndRemove", "fullUninstall", "registerUser", "unregisterUser", "install", "uninstall", "registerOnly", "unregisterOnly", "r", "dll", "i", "d", "s", "u"}
    MaxRuns = 4
    InProgramFiles = TRUE
INVARIANTS
    TypeOK
    RegisteredDllExists
    CleanUninstall
CHECK_DEADLOCK FALSE
