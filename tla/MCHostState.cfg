SPECIFICATION Spec
CONSTANTS
  Controls = {k1}
  EventIds <- MCEventIds
  Generations <- MCGenerations
  Sessions = {s1, s2}
  Window = 2
  WordBits = 2
  Words = 3
  AckBits = 4
  WordIds <- MCWordIds
  AckWidth = 2
  CodecSamples = 2
  PacketSizes = {3, 4}
  Skips <- MCSkips
  FirstPositions = {3}
  StampCircle = 8
  NumberCircle = 4
  FirstStamp = 6
  FirstNumber = 3
  MaxCaptured = 3
  MaxErrors = 1
  SlotCount = 4
  FrameCount = 6
  Buffers = 2
  MaxRendered = 5
  MaxRestarts = 2
  Slots = {p0}
  Slot = p0
  PadGenerations <- MCPadGenerations
  Modulus = 4
  Counts <- MCCounts
  ControlIds <- MCControlIds
  MaxSends = 5
  MaxRecovers = 1
INVARIANTS OsAgrees AtMostOnce WordsHoldTheWindow SoundIsAccounted StreamIsTrue SlotsAreSound NothingSleptThrough DevicesAreDrivenInOrder
PROPERTIES SupersededStaysOut PicturesEnd NewestStateWins NoControllerOutlivesItsSender
