SPECIFICATION FairSpec
CONSTANTS
  RxN = 3
  TxN = 2
  FifoCap = 1
  PbufPool = 3
  MaxPbufs = 2
  MsgPool = 2
  MboxCap = 4
  MaxFrame = 4
  MaxOut = 3
INVARIANTS TypeOK RingsSplit InOrder Conserved MailboxHasRoom AtMostOneSilent WireInOrder
PROPERTIES RingsDrain
