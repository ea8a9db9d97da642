SPECIFICATION FairSpec
CONSTANTS
    x = x
    k1 = k1
    k2 = k2
    k3 = k3
    Names = {x}
    Kids = {k1, k2, k3}
    KidParent <- MCKidParent
    KidDirs = {k2}
    Sparse = TRUE
    Holey = {x}
    OtherOwner = {x}
    SetId = {x}
    SrcKinds = {"file", "dir", "gone"}
    OldKinds = {"absent", "dir", "other", "same"}
    Outcomes = {"good", "errors", "silent"}
    MaxFaults = 2
    MaxCrashes = 1
    MaxChanges = 2
INVARIANTS
    FreshMeansEqual
    NeverHalfWritten
    PartialMeansRetry
    CleanRunMirrors
PROPERTIES
    RemovedOnlyForNew
    EventuallyMirrored
