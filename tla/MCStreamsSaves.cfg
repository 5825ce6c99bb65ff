SPECIFICATION BothSpec
CONSTANTS
  Tunnels = {t1}
  Protos <- Everywhere
  MaxChunks = 3
  MaxReplies = 3
  PackMax = 2
  None = None
  Pw = Pw
  DefaultUid = d
  Uids = {d, u1}
  Subs = {s1}
  Tokens = {k1}
  Backups <- OneBackup
  Handlers = {h1}
  MaxChanges = 2
  MaxBoots = 1
INVARIANTS ReplyOutlivesRequest NothingLostBeforeEof
PROPERTIES FailsOnlyOnSplit RefusedPassesNothing EndedStreamEndsTunnel ChangesReachDisk
