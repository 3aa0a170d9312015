\* Two roles in a chain: a retry, then a cancellation.
CONSTANTS
    Roles <- MCChain
    Files = {"f"}
    FilesByRole <- MCChainFiles
    MaxConcurrency = 2
SPECIFICATION Spec
INVARIANT CancelReachesEveryAgent
CHECK_DEADLOCK FALSE
