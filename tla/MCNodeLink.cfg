SPECIFICATION Spec
CONSTANTS
  None = None
  Deleted = Deleted
  NODE_SHARE_PARTS = {"links"}
  Backups <- MCBackups
  Ids = {n1, n2}
  Hosts = {h1}
  Keys = {k1}
  KeyHost <- MCKeyHost
  Jobs = {j1, j2}
  MaxWrites = 1
SYMMETRY Symmetry
VIEW View
INVARIANTS CacheIsCurrent OneNodePerHost
