SPECIFICATION Spec
CONSTANTS
    RowIds = {r1, r2, r3}
    Keys = {k1, k2}
    Null = null
    Indices = {1, 2}
    Unique = {1, 2}
    Pk = 2
    None = none
    MaxRows = 2
SYMMETRY Symmetry
INVARIANTS IndicesMatchCache CacheKeysUnique DiffIsNet MemoryMatchesStore
PROPERTIES RollbackRefusedOnlyForMovedKeys TransactionsAtomic
