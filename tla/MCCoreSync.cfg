SPECIFICATION Spec
CONSTANTS
  None = None
  CoreOrder <- MCCoreOrder
  Uids = {u1, u2}
  Protocol <- MCProtocol
  Backups <- MCBackups
  Syncs = {y1, y2}
  Procs = {q1, q2, q3}
SYMMETRY Symmetry
INVARIANTS SyncedIsRight NoStray
