SPECIFICATION FairSpec
CONSTANTS
    j1 = j1
    j2 = j2
    j3 = j3
    NoRow = NoRow
    Rows = {j1, j2, j3}
    Backlog = {j1, j2}
    Delayed = {}
    Outcomes = {"acked", "credited", "retried"}
    Verdicts = {"allow"}
    Mishaps = FALSE
    Stops = TRUE
    MaxJobs = 2
    MaxRuns = 2
PROPERTY BacklogDrains
CHECK_DEADLOCK FALSE
