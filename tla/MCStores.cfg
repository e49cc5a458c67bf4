SPECIFICATION Spec
CONSTANTS
    Kinds = {"memory", "indexedDb", "bundled", "webSql", "localStorage"}
    Values = {1, 2}
    PageSize = 2
    MaxId = 4
    MaxVersion = 2
    MaxChanges = 2
INVARIANTS MemoryMatchesStore IndexMatchesRows FreshIds UpgradeComplete
PROPERTY StoreAtomic
CONSTRAINT NotTorn
