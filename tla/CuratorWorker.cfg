SPECIFICATION WorkerSpec
CONSTANTS
    j1 = j1
    j2 = j2
    j3 = j3
    NoRow = NoRow
    Rows = {j1, j2, j3}
    Backlog = {j1}
    Delayed = {j2}
    Outcomes = {"acked", "credited", "retried", "parked", "lost", "parking_lost"}
    Verdicts = {"allow", "deny"}
    Mishaps = TRUE
    Stops = TRUE
    MaxJobs = 2
    MaxRuns = 2
 
PROPERTY NoRunAfterStop
CHECK_DEADLOCK FALSE
