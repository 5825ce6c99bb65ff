SPECIFICATION ListenersSpec
CONSTANTS
  Calls = {a1}
  Clients = {c1, c2}
  Ips = {i1}
  IpOf <- OneIp
  Configs <- TwoConfigs
  MaxServers = 2
  MaxUsed = 2
  None = None
  Uids = {v1, v2}
  Ports = {o1}
  Backups <- PortBackups
  NoUid = NoUid
  MaxJobs = 2
INVARIANTS CountsNeverHigh CountsExact TrafficBounded OneProxy RegistryMatchesSockets
SYMMETRY LinkSymmetry
PROPERTIES UsedUpIsDeleted SyncRebuilds
