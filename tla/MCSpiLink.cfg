SPECIFICATION FairSpec
CONSTANTS
  PktLen = 30
  MaxReset = 3
INVARIANTS TypeOK PacketIntact
PROPERTIES Recovers LagIsForEver
