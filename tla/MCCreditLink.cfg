SPECIFICATION Spec
CONSTANTS
  VCs = {v1, v2}
  Senders = {s1, s2}
  None = None
  BufSizeOption = 5
  VcBufSizeOption = 8
  WaitForTailCredit = FALSE
  VcBusyWhenFull = FALSE
  MaxFlits = 3
  MaxPackets = 4
SYMMETRY Symmetry
CHECK_DEADLOCK FALSE
INVARIANTS
  TypeOK
  CreditConservation
  VcWithinPrivateSlots
  NoOverflow
  SoleSender
  PacketsContiguous
PROPERTY ImplementsPacketFifo
