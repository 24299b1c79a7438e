SPECIFICATION FairSpec
CONSTANTS
  Pool = 46
  EthMem <- Eth
  LwipMem <- Lwip
  Size <- Sizes
  RecvBlocks = 1
  MboxBlocks = 3
  TextBlocks = 2
  MaxEvents = 12
  MaxQs = 4
  Conn = {n1, n2, n3, n4, n5}
  AcceptCap = 2
PROPERTY RetrySucceeds
