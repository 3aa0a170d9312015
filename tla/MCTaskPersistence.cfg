\* One task, three mutations, one cancel() or disposeAll(), one death of the host.
CONSTANTS
    Tasks = {t1}
    None = None
    MaxOps = 3
    MaxCancels = 1
    MaxCrashes = 1
SPECIFICATION FairSpec
INVARIANT QueuedNeverLost
INVARIANT RevokedLeavesNoTrace
INVARIANT NoPhantomRunning
PROPERTY DrainLeavesNothing
 
CHECK_DEADLOCK FALSE
