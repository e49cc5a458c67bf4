SPECIFICATION Spec
CONSTANTS
    TableNames = {"P", "M", "C"}
    Prelude <- ThreeTables
    Calls <- CascadeDeclarations
    Studied <- CascadeSchema
    None = None
    RowIds = {r1, r2, r3}
    Keys = {k1, k2}
    Null = null
SYMMETRY Symmetry
CHECK_DEADLOCK FALSE
INVARIANT ReferencesExist
