SPECIFICATION Spec
CONSTANTS
  VcBufSize = 1
  Batches = 2
  BatchSize = 2
  MaxOutstanding = 1
  MaxLive = 2
  Patterns = {"bitcomp", "transpose", "bitrev", "shuffle", "tornado", "neighbor", "stress", "randperm",
              "custom", "uniform", "background", "diagonal", "asymmetric", "taper64", "bad_dragon",
              "badperm_yarc", "hotspot"}
  Sizes = {4, 8, 9, 16, 64, 72}
  K = 2
  N = 2
  XR = 2
  InjectionNodes = {0, 2, 3}
  Excluded = {1, 6}
INVARIANTS
  BooksRight
  PacketsWhole
  NothingWedged
  DestinationsRight
PROPERTIES
  CleanStart
CHECK_DEADLOCK FALSE
