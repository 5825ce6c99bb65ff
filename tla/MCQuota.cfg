SPECIFICATION FairSpec
CONSTANTS
  Links = {l1}
  Conns = {c1, c2}
  Mixes <- MCMixes
  Limits = {0, 2}
  Backups <- MCBackups
  MaxChunk = 2
  QUOTA_MIN_BATCH = 2
  QUOTA_MAX_BATCH = 2
  QUOTA_START_BATCH = 2
  MaxUsed = 3
INVARIANTS TypeOK UnbilledBounded EndedMeansBilled LateTrafficBounded
PROPERTIES OneSideEndsBoth BusyTunnelIsAllowed OvershootBounded
