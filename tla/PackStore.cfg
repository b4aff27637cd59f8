SPECIFICATION Spec
CONSTANTS
  chunk = chunk
  node = node
  node2 = node2
  scan = scan
  session = session
  cli = cli
  daemon = daemon
  command = command
  delivered = delivered
  None = None
  Data = {chunk}
  Meta = {node}
  Proc = {daemon}
  Thread = {scan, session}
  ProcOf <- MCProcOf
  PeerPack = {delivered}
  PeerBlobs <- MCPeerBlobs
  CompactAt = 2
  MaxPacks = 2
  MaxIndex = 3
  MaxCrashes = 1
  MaxFails = 1
INVARIANTS IndexCovers FlushSeals
PROPERTY Implements
SYMMETRY Symmetry
CHECK_DEADLOCK FALSE
