SPECIFICATION DevicesSpec
CONSTANTS
  Size = 4
  Groups = 2
  Priorities = {0, 1}
  Kinds = {"round_robin", "matrix", "priority", "tree_round_robin", "tree_matrix"}
INVARIANTS
  GrantsAsPromised
  NoStarvation
  AllocationsAsPromised
