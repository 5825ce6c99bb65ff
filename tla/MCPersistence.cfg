SPECIFICATION Spec
CONSTANTS
  None = None
  Pw = Pw
  DefaultUid = d
  Uids = {d, u1}
  Subs = {s1}
  Tokens = {t1, t2}
  Backups <- MCBackups
  Handlers = {h1, h2}
  MaxChanges = 2
  MaxBoots = 1
SYMMETRY Symmetry
INVARIANTS PasswordDurable SessionsOfCurrentPassword
PROPERTY ImplementsDurable
CHECK_DEADLOCK FALSE
