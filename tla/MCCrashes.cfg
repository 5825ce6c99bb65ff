SPECIFICATION CrashSpec
CONSTANTS
  None = None
  Uids = {u1}
  Ports = {p1}
  Tasks = {t1, t2}
  Procs = {q1, q2, q3}
  Backups <- MCBackups
  Updates = {w1, w2}
  Files = {f1, f2}
  Hashed = {f1}
  MaxVersion = 2
  NoVersion = NoVersion
INVARIANT VersionNotAhead
PROPERTIES CrashIsNoticed OperationsEnd FlagIsCleared
