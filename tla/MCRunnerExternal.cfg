SPECIFICATION Spec
CONSTANTS
    a = a
    b = b
    Tables <- MCTables
    TaskIds = {1, 2, 3, 4, 5}
    NoTask = NoTask
    ClientKinds = {"USER_QUERY", "EXTERNAL_CHANGE"}
    ThrowingKinds = {"EXTERNAL_CHANGE"}
    Scopes <- MCScopes
    Observed <- MCObserved
    MaxClientTasks = 3
CHECK_DEADLOCK FALSE
INVARIANTS
    LockTableConsistent
    WritersExcludeWriters
PROPERTIES
    EveryTaskSettlesUnlessThrown
