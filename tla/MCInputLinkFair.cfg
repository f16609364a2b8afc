SPECIFICATION FairSpec
CONSTANTS
  Controls = {k1}
  EventIds <- MCEventIds
  Generations <- MCGenerations
  Sessions = {s1}
  Window = 2
  AckWidth = 1
  AckReach = 1
  MaxRetransmissions = 2
  MaxEvents = 2
  MaxExpiries = 1
PROPERTIES LadderEnds ReleaseSettles FreshSnapshotRepairs
CHECK_DEADLOCK FALSE
