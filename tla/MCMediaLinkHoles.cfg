SPECIFICATION Spec
CONSTANTS
  SeqModulus = 16
  Window = 4
  ReadyCapacity = 2
  MaxPieces = 3
  None = None
  Shapes <- MCShapes
  Starts <- MCStarts
  MaxPackets = 8
INVARIANTS HolesAreNotHandedOn
CHECK_DEADLOCK FALSE
