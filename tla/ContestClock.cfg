SPECIFICATION Spec
CONSTANTS
    o1 = o1
    o2 = o2
    r1 = r1
    None = None
    Organizers <- OneOrganizer
    Refreshers <- NoRefresher
    Res = 2
    Durations = {2}
    Extensions = {1}
    FreezeWindows = {0}
    DefaultDuration = 1
    DefaultFreeze = 0
    MaxNow = 6
    MaxCommands = 5
    MaxFailures = 0
CHECK_DEADLOCK FALSE
INVARIANTS
    TypeOK
    ClockKeepsTime
