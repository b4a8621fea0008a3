SPECIFICATION Spec
CONSTANTS
  N = 1
  NumVCs = 1
  AssignedVC <- FirstVC
  DestsOf <- Itself
  WriterDepth = 2
  VcBufSize = 2
  ReaderDepth = 2
  ClockSpeedup = 1
  Storage = 16
  None = None
  MayQuit = TRUE
  SamplePeriod = 3
  MaxPackets = 2
  MaxFlits = 2
  MaxSent = 3
CHECK_DEADLOCK FALSE
INVARIANT CreditsReadEveryCycle
