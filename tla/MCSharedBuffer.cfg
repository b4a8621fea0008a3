SPECIFICATION SharedSpec
CONSTANTS
  v1 = v1
  v2 = v2
  v3 = v3
  pa = pa
  pb = pb
  VCs = {v1, v2, v3}
  Senders = {s1, s2}
  None = None
  BufSizeOption = 4
  VcBufSizeOption = 1
  WaitForTailCredit = FALSE
  VcBusyWhenFull = FALSE
  MaxFlits = 2
  MaxPackets = 3
  Pools = {pa, pb}
  PoolOf <- MCPoolOf
  PrivateSize <- MCPrivateSize
  MaxHeldOption = 2
  Policies <- AllPolicies
SYMMETRY Symmetry
CHECK_DEADLOCK FALSE
INVARIANTS
  SlotAccounting
  SharedNoOverflow
  BegunPacketKeepsSlot
  ActiveVcsCounted
