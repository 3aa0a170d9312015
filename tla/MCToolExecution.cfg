\* One call of an idempotent or a non-idempotent tool, either permission
\* system, and every change of the registry and the permissions around it.
CONSTANTS
    Execs = {e1}
    Tools = {reader, writer}
    Idempotent = {reader}
    MaxRetries = 1
SPECIFICATION FairSpec
INVARIANT NoLateSuccess
INVARIANT EveryCallReachable
PROPERTY NoAttemptAfterAbort
PROPERTY EveryCallEnds
PROPERTY ImplementsContract
