\* Two files, one task; accepts, undoing and edits of other programs in any order.
CONSTANTS
    Files = {f, g}
    Tasks = {t1}
    Contents = {empty, a, b}
    Empty = empty
    MaxTracked = 3
    MaxStaged = 1
    MaxCheckpoints = 2
    MaxEdits = 1
    MaxOps = 3
SPECIFICATION Spec
SYMMETRY WorkspaceSymmetry
INVARIANT RestoreIsExact
INVARIANT RevertIsExact
INVARIANT LedgerTellsDisk
PROPERTY NothingUnseenIsLost
CHECK_DEADLOCK FALSE
