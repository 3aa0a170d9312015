\* One schedule, one slot; a history of two cut to one; one death.
CONSTANTS
    Schedules = {s1}
    Plans <- MCPlans
    Day = 2
    MaxConcurrent = 1
    HistoryMax = 2
    HistoryKeep = 1
    MaxRuns = 4
    MaxTime = 3
    MaxEdits = 2
    MaxDeaths = 1
SPECIFICATION FairSpec
INVARIANT BoundedConcurrency
INVARIANT NoOccurrenceTwice
PROPERTY QueuedRunsLeave
CHECK_DEADLOCK FALSE
