SPECIFICATION Spec
CONSTANTS
    a = a
    b = b
    Tables <- MCTables
    TaskIds = {1, 2, 3, 4, 5}
    NoTask = NoTask
    ClientKinds = {"USER_QUERY", "IMPORT", "EXPORT"}
    ThrowingKinds = {}
    Scopes <- MCScopes
    Observed <- MCObserved
    MaxClientTasks = 3
CHECK_DEADLOCK FALSE
INVARIANTS
    ExecutesUnderLock
    Isolation
    LockOwnersAreLive
    NoLostWakeup
PROPERTIES
    ReaderNotOvertaken
    EveryTaskSettles
    RunsTasksIsolated
