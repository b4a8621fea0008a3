SPECIFICATION Spec
SYMMETRY Interchangeable
CONSTANTS
  Inputs = {i1, i2}
  Outputs = {o1}
  VCs = {v1, v2}
  BufSize = 2
  Configs <- SlowVcAlloc
  None = None
  MaxFlits = 2
  MaxPackets = 2
INVARIANT
  EveryRequestStamped
