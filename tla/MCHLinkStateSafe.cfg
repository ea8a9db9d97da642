SPECIFICATION Spec
CONSTANTS
    a = a
    b = b
    c = c
    d = d
    Names = {a, b, c}
    NoName = NoName
    Sources <- MCSources
    OldInodes = {1, 3}
    Extra <- MCExtra
    NewInode <- MCNewInode
INVARIANTS
    OneRoot
    PendingServed
    NamesCopied
    CountedOnce
    LocksReleased
    EntriesKept
    NothingFreedUsed
PROPERTIES
    NeverSpoiled
