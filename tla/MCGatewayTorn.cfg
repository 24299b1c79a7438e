CONSTANTS
  MaxScan = 2
  MaxMsg = 2
  MaxConn = 1
  NumNetconn = 1
  MboxCap = 2
  PbufPool = 2
  Chunks = 2
  Stalls = {}
  ScanLens = {2}
  TextLens = {1}
  SndBuf = 3
SPECIFICATION Spec
INVARIANT WriteIntact
