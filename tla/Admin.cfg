SPECIFICATION Spec
CONSTANTS
    Pollers = {1, 2}
    TTL = 1
    MaxStale = 1
    MaxTime = 3
    MaxChanges = 1
    Pages = {"telemetry", "risk"}
    MaxFacts = 1
    MaxAnswers = 2
    MaxWalks = 2
    MaxMisses = 1
    Timelines <- MCTimelines
    FirstRows <- MCRows
    Filters = {"queued"}
    RowsPerPage = {1, 2}
    FirstSize = 1
    AuditLimit = 3
    MaxVersions = 3
    MaxCalls = 3
    MaxHandlers = 1
    MaxClicks = 2
    MaxFails = 1
    Length = 2
    FirstConfig <- MCConfig
    Titles = {"t2"}
    Windows = {1}
    DefaultWindow = 2
    Period <- MCPeriod
    MaxLag = 1
    MaxTimerTime = 4
    MaxActs = 2
    MaxLostOrders = 1
    Self = 1
    OtherAdmins = {2}
    Roster <- MCRoster
    FirstTeams = {1}
    Imports <- MCImports
    SingleTeam = 1
    Switches = {"web"}
    MaxMembers = 2
    UserSearches <- MCSearches
    MaxOps = 2
    MaxUnsure = 1
INVARIANTS
    TypeOK
    
    TimerHolds
PROPERTIES
    
    
    
    AgentHolds
CHECK_DEADLOCK FALSE
