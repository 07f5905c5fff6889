SPECIFICATION Spec
CONSTANTS
    p1 = p1
    p2 = p2
    u1 = u1
    u2 = u2
    None = None
    Problems <- OneProblem
    Callers <- TwoCallers
    Entries <- FourEntries
    SuiteBytes <- Sizes
    MaxBytes = 2
    MaxEdits = 1
    MaxFailures = 0
INVARIANTS
    EditsInvalidate
