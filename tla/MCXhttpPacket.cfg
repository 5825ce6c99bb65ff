SPECIFICATION Spec
CONSTANTS
  Reaper = Reaper
  None = None
  Sids = {i1}
  Gets = {}
  Sess = {s1}
  Conns = {c1, c2}
  Posts = {p1, p2}
  Modes = {"packet"}
  MaxSeq = 2
  QueueMax = 1
SYMMETRY Symmetry
VIEW Live
INVARIANT UplinkInOrder
