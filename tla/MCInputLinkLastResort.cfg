SPECIFICATION FairSpec
CONSTANTS
  Controls = {k1}
  EventIds <- MCEventIds
  Generations <- MCGenerations
  Sessions = {s1}
  Window = 2
  AckWidth = 1
  AckReach = 1
  MaxRetransmissions = 1
  MaxEvents = 2
  MaxExpiries = 0
PROPERTY SnapshotIsLastResort
CHECK_DEADLOCK FALSE
