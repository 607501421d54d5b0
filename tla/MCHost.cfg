SPECIFICATION Spec
CONSTANTS
    Tasks = {t1}
    None = None
    MaxLaunches = 2
    MaxFaults = 2
    EmptyExitLimit = 1
    TotalLimit = 1
    MaxReleaseTries = 1
    Submissions = {s1}
    MaxReviews = 2
    MaxRestarts = 1
    MaxCallErrors = 1
    ReviewAttempts = 1
    Nothing = Nothing
    Passes = {loop, command}
    Rows = {1, 2, 3}
    Invalid = {3}
    Batch = 2
    MaxOutages = 2
    Idle = Idle
    p1 = p1
    p2 = p2
INVARIANTS
    LaunchesSound CostsSound VerdictsEarned
PROPERTIES
    RecordsSettle
CHECK_DEADLOCK FALSE
