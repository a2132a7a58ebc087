SPECIFICATION StreamFairSpec
CONSTANTS
  Changes = {1, 2, 3}
  Deltas = {2}
  Traces = {3}
  Clients = {k1}
  NoEvent = NoEvent
  BusBuffer = 1
  SendBuffer = 1
  Faults = 1
INVARIANTS
  ViewIsComplete
PROPERTIES
  BusIsFifo
  EventsAreStored
CHECK_DEADLOCK FALSE
