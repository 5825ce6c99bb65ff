SPECIFICATION StreamsSpec
CONSTANTS
  Tunnels = {t1}
  Protos <- Shadowsocks
  MaxChunks = 3
  MaxReplies = 3
  PackMax = 2
INVARIANT SplitsAreHarmless
