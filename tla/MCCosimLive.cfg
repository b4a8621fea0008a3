SPECIFICATION FairSpec
CONSTANTS
  N = 1
  NumVCs = 2
  AssignedVC <- FirstVC
  DestsOf <- Itself
  WriterDepth = 2
  VcBufSize = 2
  ReaderDepth = 2
  ClockSpeedup = 1
  Storage = 16
  None = None
  MayQuit = FALSE
  SamplePeriod = 1
  MaxPackets = 1
  MaxFlits = 4
  MaxSent = 4
PROPERTY EveryPacketDelivered
