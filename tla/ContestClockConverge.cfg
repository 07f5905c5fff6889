SPECIFICATION FairSpec
CONSTANTS
    o1 = o1
    o2 = o2
    r1 = r1
    None = None
    Organizers <- OneOrganizer
    Refreshers <- OneRefresher
    Res = 1
    Durations = {1}
    Extensions = {1}
    FreezeWindows = {0}
    DefaultDuration = 1
    DefaultFreeze = 0
    MaxNow = 1
    MaxCommands = 2
    MaxFailures = 1
CHECK_DEADLOCK FALSE
PROPERTIES
    SnapshotConverges
