SPECIFICATION NetworksSpec
CONSTANTS
  OutputSet <- MCOutputSet
  NextInput <- MCNextInput
  NodeBehind <- MCNodeBehind
  MaxHops <- MCMaxHops
  Walked <- MCWalked
  Entering <- MCEntering
  Blocked <- MCBlocked
  Waiting <- MCWaiting
INVARIANTS
  Delivered
  NoCyclicWait
  TablesMinimal
PROPERTIES
  Productive
  EventuallyEjected
CHECK_DEADLOCK FALSE
