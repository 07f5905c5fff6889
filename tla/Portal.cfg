SPECIFICATION Spec
CONSTANTS
    Boards <- MCBoards
    Found <- MCFound
    PageSizes = {1, 2}
    DefaultSize = 2
    MyTeam = 1
    MaxFlights = 2
    MaxFails = 1
    MaxBoardEvents = 2
    MaxChanges = 1
    MaxThrows = 1
    Subs = {1, 2}
    Start <- MCStart
    MaxTries <- MCMaxTries
    MaxTests = 1
    ChanCap = 1
    LatestCap = 2
    PollPeriod = 2
    MaxLost = 1
    MaxReviews = 1
    MaxLocks = 1
    Languages = {"cpp", "py"}
    Default = "cpp"
    Starter <- MCStarter
    Codes = {1}
    MaxSnaps = 2
    MaxSubs = 1
    MaxSaves = 1
    Histories <- MCHistories
    Elsewhere = TRUE
    Duration = 3
    Thresholds <- MCThresholds
    MaxClockTime = 4
    MaxCommands = 1
    MaxFlight = 2
    MaxLatency = 1
    MaxFailures = 1
    Submissions <- MCSubmissions
    Searches <- MCSearches
    ListSizes = {1, 8}
    FirstSize = 8
    Problems <- MCProblems
    Difficulties = {0, 1}
    DisabledSorts = {}
    RefreshGap = 1
    MaxListTime = 2
    ToastTime <- MCToastTime
    RestoredTime = 4
    MaxToasts = 3
    MaxCloses = 1
    MaxBannerChanges = 4
    Throttle = 4
    MaxNow = 6
    MaxEvents = 4
INVARIANTS
    TypeOK
    ListsAddUp
    ProctorHolds
PROPERTIES
    
    
    ClockHolds
    BoardHolds
    BannersHold
    PagesSettle
CHECK_DEADLOCK FALSE
