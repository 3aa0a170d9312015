\* What the code documents and does not keep: OneOwner.
CONSTANTS
    Runs = {r1, r2}
    None = None
    MaxRetries = 1
    Overlapping = TRUE
SPECIFICATION Spec
INVARIANT OneOwner
CHECK_DEADLOCK FALSE
