SPECIFICATION Spec
SYMMETRY Interchangeable
CONSTANTS
  Inputs = {i1, i2}
  Outputs = {o1}
  VCs = {v1, v2}
  BufSize = 2
  Configs <- Built
  None = None
  MaxFlits = 2
  MaxPackets = 2
INVARIANTS
  NothingForgotten
  RouterCreditsAccounted
  OwnersAgree
  GrantsStillHold
  PacketsStayWhole
