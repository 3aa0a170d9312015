\* Two evaluations of any operations, and every order of answers, timeouts,
\* dispose and reconfiguration around them.
CONSTANTS
    Requests = {c1, c2}
    MaxResolved = 1
    Actions = {"exec"}
    PolicySpecs <- MCPolicies
    Ops = {"test", "sudo", "wipe", "leave"}
    Profile <- MCProfile
    Origins <- MCOrigins
    AutoChoices = {"ask", "allow"}
SPECIFICATION FairSpec
INVARIANT OneAnswerPerRequest
 
INVARIANT NoApprovalPastBoundary
PROPERTY EveryEvaluationEnds
