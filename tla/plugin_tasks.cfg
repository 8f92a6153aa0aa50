SPECIFICATION Spec
CONSTANTS
  Plugins = {p1, p2}
  Workers = {w1, w2}
  MaxTasks = 3
  NoPlugin = NoPlugin
SYMMETRY Symmetry
INVARIANTS TypeOK RegistryMatchesDisk PageMatchesRegistry DownloadIsAlive
