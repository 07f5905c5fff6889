CONSTANTS
    w1 = w1
    w2 = w2
    None = None
    Workers <- MCWorkers
    Submissions = {1}
    Teams <- OneTeamTeams
    TeamOf <- OneTeamOf
    Problems <- OneProblems
    ProblemOf <- OneProblemOf
    MaxScore = 1
    MaxAttempts = 3
    LeaseTTL = 2
    CommitTries = 2
    TeamPenalty = 2
    Gaps <- MCGaps
    MaxClaims = 7
    MaxRejudges = 2
SPECIFICATION Spec
SYMMETRY MCSymmetry
INVARIANTS
    TypeOK
    PoisonPillCap
    FreshVerdict
    OneLeaseHolder
    ResultConsistent
PROPERTIES
    ResultSettled
