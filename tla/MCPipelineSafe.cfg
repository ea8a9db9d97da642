SPECIFICATION Spec
CONSTANTS
    root = root
    sub = sub
    x = x
    y = y
    z = z
    Nothing = Nothing
    Dirs = {root, sub}
    Root = root
    Files = {x, y, z}
    Parent <- MCParent
    Schedulers = {s1, s2}
    Finishers = {f1, f2}
    NCrawlers = 2
    NFileCopyJobs = 2
    MaxFDs = 3
    TeamSize = 4
    Decisions = {"transfer", "metadata", "error"}
SYMMETRY Threads
INVARIANTS
    JobsInOnePlace
    RefsExact
    NothingAfterFinish
    DirsClosed
PROPERTIES
    DirsStampedLast
