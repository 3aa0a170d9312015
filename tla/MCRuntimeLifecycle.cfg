\* Two calls of startSession, one after the other, with every order
\* of outcomes, retries, tools, repairs, abort, stop, timeout and dispose.
CONSTANTS
    Runs = {r1, r2}
    None = None
    MaxRetries = 1
    Overlapping = FALSE
SPECIFICATION FairSpec
INVARIANT OneOwner
 
 
PROPERTY CancelWins
 
PROPERTY CancelledRunsEnd
CHECK_DEADLOCK FALSE
