\* The same engine with one tool call per turn, under fairness.
CONSTANTS
    Runs = {r1, r2}
    MaxIterations = 2
    MaxCalls = 1
    MaxMessages = 3
    MaxSessions = 2
SPECIFICATION FairSpec
PROPERTY AbortedRunsEnd
PROPERTY AnsweredRunsEnd
CHECK_DEADLOCK FALSE
