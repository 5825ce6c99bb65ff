SPECIFICATION Spec
CONSTANTS
  None = None
  Uids = {u1}
  Ports = {p1, p2}
  Tasks = {t1, t2}
  Procs = {q1, q2, q3}
  Backups <- MCBackups
SYMMETRY Symmetry
INVARIANTS TypeOK NoLostProcess UsedPortsCover AdvertisedPort
