\* Two runs over two sessions, two turns of two tool calls at most, and every
\* order of gate, tool, deadline, abort, stop and dispose around them.
CONSTANTS
    Runs = {r1, r2}
    MaxIterations = 2
    MaxCalls = 2
    MaxMessages = 3
    MaxSessions = 2
SPECIFICATION Spec
SYMMETRY RunSymmetry
INVARIANT OneRunPerTranscript
INVARIANT PairedUnlessAborted
INVARIANT AbandonedAreTold
PROPERTY NoToolOnceAborted
PROPERTY CompleteIsClean
CHECK_DEADLOCK FALSE
