CONSTANTS
  MaxScan = 1
  MaxMsg = 1
  MaxConn = 1
  NumNetconn = 1
  MboxCap = 2
  PbufPool = 2
  Chunks = 2
  Stalls = {}
  ScanLens = {2}
  TextLens = {2}
  SndBuf = 3
SPECIFICATION FairSpec
PROPERTY ServerWaits
