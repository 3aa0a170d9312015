\* The five roles of an implementation task, two at a time.
CONSTANTS
    Roles <- MCRoles
    Files = {"f", "g"}
    FilesByRole <- MCFilesByRole
    MaxConcurrency = 2
SPECIFICATION FairSpec
INVARIANT EveryTaskSettles
INVARIANT NoClaimContended
INVARIANT FirstAgentsReachable
PROPERTY ExecutionEnds
CHECK_DEADLOCK FALSE
