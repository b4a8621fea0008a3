SPECIFICATION RoutersSpec
CONSTANTS
  Ports = 3
  Queues = 2
  BufferSize = 2
  Routes = {{2}}
  Sources = {0, 1}
INVARIANTS
  EventsAccounted
  BuffersAsStated
PROPERTIES
  Unbroken
