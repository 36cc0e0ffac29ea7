SPECIFICATION Spec
CONSTANTS
    Threads = {t1, t2}
    Ids <- MCIds
    Tags = {g}
    Values = {9, 100}
    MaxValue = 100
    Ttls <- MCTtls
    DefaultTtl <- MCNone
    CleanupInterval = 1
    Limits <- MCLimits
    MaxTime = 2
    MaxCalls = 3
SYMMETRY Symmetry
INVARIANTS BooksBalance
PROPERTIES ImplementsContract
\* Callers may stop calling.
CHECK_DEADLOCK FALSE
