SPECIFICATION Spec
CONSTANTS
  N = 2
  NumVCs = 2
  AssignedVC <- OwnVC
  DestsOf <- Crossing
  WriterDepth = 2
  VcBufSize = 2
  ReaderDepth = 2
  ClockSpeedup = 1
  Storage = 16
  None = None
  MayQuit = TRUE
  SamplePeriod = 1
  MaxPackets = 2
  MaxFlits = 2
  MaxSent = 3
CHECK_DEADLOCK FALSE
INVARIANTS
  NothingOverwritten
  InjectionAdmitted
  CreditsAccounted
  DataFound
  PacketsArriveWhole
