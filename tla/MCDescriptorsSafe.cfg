SPECIFICATION FairSpec
CONSTANTS
    r = r
    d = d
    e = e
    f = f
    g = g
    h = h
    k = k
    x = x
    Dirs = {r, d, e}
    Files = {f, g, h, k}
    Top = r
    Parent <- MCParent
    Inode <- MCLinked
    Extras = {x}
    ExtraIn <- MCExtraIn
    Blocked = {f, h}
    Sync = TRUE
    Crawlers = 3
    Finishers = 2
    Budgets = {6, 13}
    MaxFaults = 3
INVARIANTS
    BudgetExact
    StillOpen
    AllClosed
PROPERTIES
    EveryoneEnds
CHECK_DEADLOCK FALSE
