SPECIFICATION Spec
CONSTANTS
    fwd = fwd
    rev = rev
    i1 = i1
    i2 = i2
    a = a
    b = b
    t1 = t1
    t2 = t2
    Tables = {fwd, rev}
    Keys = {i1, i2}
    Values = {a, b}
    NoValue = NoValue
    Threads = {t1, t2}
    MaxCacheSize = 2
    MayFail = TRUE
INVARIANTS
    OnlyDeletesUncommitted
    WrittenFound
PROPERTIES
    StaysDeleted
    ImplementsPairStore
