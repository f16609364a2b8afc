SPECIFICATION SessionSpec
CONSTANTS
    Conns = {c1, c2}
    Acceptors = {a1}
    MaxSessions = 1
    MaxShifts = 2
    None = None
    MaxUnits = 2
    MaxTicks = 3
    GracePolls = 1
    IdlePolls = 2
    RunPolls = 4
    NoFrame = NoFrame
INVARIANTS MediaWaitsForReceiver ShiftsArriveWhole BacklogIsExact FramesAccounted
PROPERTIES EveryWaitEnds ClientRunEnds
CHECK_DEADLOCK FALSE
