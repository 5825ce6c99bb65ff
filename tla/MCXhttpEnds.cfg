SPECIFICATION FairSpec
CONSTANTS
  Reaper = Reaper
  None = None
  Sids = {i1}
  Gets = {i1}
  Sess = {s1, s2}
  Conns = {c1}
  Posts = {p1}
  Modes = {"packet", "stream"}
  MaxSeq = 0
  QueueMax = 1
PROPERTIES TeardownsEnd IdleIsReaped DownlinkEnds
INVARIANT ListIsTrue
