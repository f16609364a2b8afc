SPECIFICATION ScreenSpec
CONSTANTS
  Buffers = 2
  MaxRendered = 2
  MaxRestarts = 1
INVARIANTS ClosedWakesConsumer
CHECK_DEADLOCK FALSE
