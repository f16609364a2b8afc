SPECIFICATION Spec
CONSTANTS
  Controls = {k1}
  EventIds <- MCEventIds
  Generations <- MCGenerations
  Sessions = {s1}
  Window = 2
  AckWidth = 1
  AckReach = 1
  MaxRetransmissions = 0
  MaxEvents = 3
  MaxExpiries = 0
INVARIANTS EveryEventAccounted GenerationNamesHeldSet
PROPERTY KeepsPromise
CHECK_DEADLOCK FALSE
