SPECIFICATION SessionSpec
CONSTANTS
    Conns = {c1}
    Acceptors = {a1}
    MaxSessions = 1
    MaxShifts = 0
    None = None
    MaxUnits = 1
    MaxTicks = 2
    GracePolls = 1
    IdlePolls = 2
    RunPolls = 4
    NoFrame = NoFrame
INVARIANT DrainIsStill
CHECK_DEADLOCK FALSE
