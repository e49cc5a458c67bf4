SPECIFICATION Spec
CONSTANTS
    Tx = {x1, x2}
    Tables = {a, b}
    Unscheduled = unscheduled
    NoTx = noTx
INVARIANTS UsableUnderLock ChangesUnderLock ScopeSeesOnlyCommitted CallbacksAreLegal
PROPERTIES CommitsAreAnswered TerminatedReleases
CHECK_DEADLOCK FALSE
