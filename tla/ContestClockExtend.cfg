SPECIFICATION Spec
CONSTANTS
    o1 = o1
    o2 = o2
    r1 = r1
    None = None
    Organizers <- OneOrganizer
    Refreshers <- NoRefresher
    Res = 1
    Durations = {1}
    Extensions = {1}
    FreezeWindows = {0}
    DefaultDuration = 1
    DefaultFreeze = 0
    MaxNow = 4
    MaxCommands = 4
    MaxFailures = 0
CHECK_DEADLOCK FALSE
INVARIANTS
    ExtendAddsMinutes
