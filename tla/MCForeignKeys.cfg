SPECIFICATION Spec
CONSTANTS
    TableNames = {"P", "M", "C", "X"}
    Prelude <- ThreeTables
    Calls <- Declarations
    Studied <- SomeSchemas
    None = None
    RowIds = {r1, r2, r3, r4}
    Keys = {k1, k2}
    Null = null
SYMMETRY Symmetry
CHECK_DEADLOCK FALSE
INVARIANTS AcceptedSchemasAreSound ReferencesExist TouchesOnlyItsScope DeletionsAreClosed
