SPECIFICATION Spec
CONSTANTS
    root = root
    sub = sub
    x = x
    y = y
    z = z
    Nothing = Nothing
    Dirs = {root, sub}
    Root = root
    Files = {x, y}
    Parent <- MCParent
    Schedulers = {s1, s2}
    Finishers = {f1}
    NCrawlers = 2
    NFileCopyJobs = 1
    MaxFDs = 2
    TeamSize = 4
    Decisions = {"transfer"}
INVARIANTS
    NoJobLeft
