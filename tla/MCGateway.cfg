CONSTANTS
  MaxScan = 2
  MaxMsg = 1
  MaxConn = 2
  NumNetconn = 1
  MboxCap = 2
  PbufPool = 2
  Chunks = 3
  SndBuf = 2
  Stalls = {1}
  ScanLens = {2}
  TextLens = {1, 3}
SPECIFICATION FairSpec
INVARIANTS TypeOK ScanIntact ScanComplete ScansInOrder EchoToSender
PROPERTIES Refinement LowerTasksRun PendingTaken CloseReleased
