SPECIFICATION FramesSpec
CONSTANTS
  SeqModulus = 16
  Window = 4
  ReadyCapacity = 2
  MaxPieces = 3
  None = None
  Shapes <- MCShapes
  Starts <- MCStarts
  MaxPackets = 8
  Frames = {1, 2, 3}
  Stages = {"drawn", "present"}
  PresentStage = "present"
  QueueCapacity = 2
  RingSlots = 2
  MaxMarks = 3
  MaxFolds = 3
  Period = 8333
  MarginFloor = 2000
  DeadZone = 250
  HarvestEvery = 2
  DecideEvery = 4
  Settle = 1
  MinSamples = 4
  Onsets = {0, 6167, 8332}
  Scatters = {0, 2000}
  Landings = {1, 3}
  Decisions = 7
  MaxFaults = 1
  TypeSpan = 8
  Types <- MCTypes
  LengthSize = 2
  Capacity = 20
  NalUnits <- MCNalUnits
  MaxNals = 3
  Paddings = {0, 2}
INVARIANTS ReceiverSound LossIsExact SnapshotsAreWhole PhaseIsHeld BytesSurvive
CHECK_DEADLOCK FALSE
