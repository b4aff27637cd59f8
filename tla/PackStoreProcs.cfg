SPECIFICATION Spec
CONSTANTS
  chunk = chunk
  node = node
  node2 = node2
  scan = scan
  session = session
  cli = cli
  daemon = daemon
  command = command
  delivered = delivered
  None = None
  Data = {chunk}
  Meta = {node, node2}
  Proc = {daemon, command}
  Thread = {scan, cli}
  ProcOf <- MCProcOf
  PeerPack = {}
  PeerBlobs <- MCPeerBlobs
  CompactAt = 4
  MaxPacks = 3
  MaxIndex = 3
  MaxCrashes = 0
  MaxFails = 0
PROPERTY DurableStays
CHECK_DEADLOCK FALSE
