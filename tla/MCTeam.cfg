\* Four runs and two hosts: overlapping starts, crashes and disposals.
CONSTANTS
    Runs = {r1, r2, r3, r4}
    MaxHosts = 2
SPECIFICATION TeamSpec
INVARIANT RunIsReachable
PROPERTY CancellationHolds
CHECK_DEADLOCK FALSE
