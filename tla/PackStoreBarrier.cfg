SPECIFICATION Spec
CONSTANTS
  chunk = chunk
  node = node
  node2 = node2
  scan = scan
  session = session
  cli = cli
  daemon = daemon
  command = command
  delivered = delivered
  None = None
  Data = {chunk}
  Meta = {node}
  Proc = {daemon}
  Thread = {scan, session}
  ProcOf <- MCProcOf
  PeerPack = {}
  PeerBlobs <- MCPeerBlobs
  CompactAt = 3
  MaxPacks = 2
  MaxIndex = 3
  MaxCrashes = 0
  MaxFails = 0
INVARIANT FlushIsBarrier
CHECK_DEADLOCK FALSE
