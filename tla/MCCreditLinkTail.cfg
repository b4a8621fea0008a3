SPECIFICATION FairSpec
CONSTANTS
  VCs = {v1, v2}
  Senders = {s1, s2}
  None = None
  BufSizeOption <- Unset
  VcBufSizeOption = 2
  WaitForTailCredit = TRUE
  VcBusyWhenFull = TRUE
  MaxFlits = 3
  MaxPackets = 3
CHECK_DEADLOCK FALSE
INVARIANTS
  TailCreditSeparatesPackets
PROPERTY HeldVcIsFreed
