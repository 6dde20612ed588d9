CONSTANTS
  Kinds = {"background", "direct"}
  MaxConnects = 3
  Addrs = {a1, a2}
  RTTs = {20, 300}
  MaxFiles = 2
  Conns = {1, 2, 3}
  Servers = {1, 2}
  Links = {1, 2}
  Writers = {w1, w2}
SPECIFICATION MCTunnelsSpec
INVARIANTS NoProcessLeft NoConfigLeft NothingUnowned FramesReadable TunnelsTypeOK
PROPERTIES DownStaysDown ProxiesClose
CHECK_DEADLOCK FALSE
