CONSTANTS
    w1 = w1
    w2 = w2
    None = None
    Workers <- MCOneWorker
    Submissions = {1, 2}
    Teams <- OneTeamTeams
    TeamOf <- OneTeamOf
    Problems <- OneProblems
    ProblemOf <- OneProblemOf
    MaxScore = 1
    MaxAttempts = 2
    LeaseTTL = 1
    CommitTries = 1
    TeamPenalty = 2
    Gaps <- MCLaterGap
    MaxClaims = 8
    MaxRejudges = 1
SPECIFICATION FairSpec
INVARIANTS
    ScoreboardExact
    OneFreshActive
PROPERTIES
    EverySubmissionFinishes
