SPECIFICATION FairSpec
CONSTANTS
  FrameSamples = 2
  TargetFrames = 1
  CeilingFrames = 2
  SeqModulus = 8
  SeenWindow = 8
  Capacity = 3
  Streams <- MCStreams
  FirstSeq = 6
  Pulls = 3
  CycleFrames = 2
  MaxArrivals = 4
  MaxCycles = 1
INVARIANTS TimeIsAccounted RegionsAreDisjoint SamplesBalance HeardForward
PROPERTIES RingKeepsQueue RunEnds
CHECK_DEADLOCK FALSE
