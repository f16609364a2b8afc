SPECIFICATION CaptureSpec
CONSTANTS
  Keys <- MCKeys
  MemberOf <- MCMemberOf
  Tab = "tab"
  Buttons = {"left", "right"}
  CaptureButton = "left"
  MaxMade = 3
  Flags = {"shift", "option"}
  FlagOf <- MCFlagOf
  NoFlag = "no flag"
  LockKey = "caps lock"
  Letters = {"w"}
INVARIANTS QuietOutsideCapture SentInTheOrderMade NeverHalfCaptured ClickIsOwedExactly ModifiersMatch
CHECK_DEADLOCK FALSE
