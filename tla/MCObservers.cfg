SPECIFICATION Spec
CONSTANTS
    Tables = {"a", "b"}
    Queries = {1, 2}
    From <- MCFrom
    Callbacks = {"f"}
    Bounds = {1, 2}
    Contents <- MCContents
    Stored <- MCStored
    TaskIds = {1, 2, 3, 4}
    MaxClientTasks = 2
    MaxCalls = 2
INVARIANTS ClientsFollow
PROPERTIES DeliveredAreCurrent ChangesAreTold
CHECK_DEADLOCK FALSE
