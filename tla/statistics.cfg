SPECIFICATION Spec
CONSTANTS
    None = None
    Reservations = {r1}
    Slots <- TwoDays
    Tables = {"center", "staff"}
    Openings <- ManyOpenings
    Reviews = {v1}
    MaxJobs = 2
    FaultyJobs = {1}
    Workers = 1
    MaxAttempts = 2
INVARIANTS
    TypeOK
    StaleIsExplained
    QuietReports
CHECK_DEADLOCK FALSE
