SPECIFICATION FairSpec
CONSTANTS
    a = a
    b = b
    NoFile = NoFile
    Files = {a, b}
    ABlocks = 2
    AUnits = 1
    ArenaChunks = 2
    NBlocks <- MCNBlocks
    ZeroBlocks <- MCZeroBlocks
    Chunks <- MCChunks
    Buffers <- MCBuffers
    NFileCopyJobs = 1
    NBlockCopyJobs = 2
    Sparse = FALSE
    Readback = TRUE
    AioResults = {"ok", "err", "corrupt"}
    SubmitMayFail = TRUE
    MaxGrabs = 1
INVARIANTS
    CleanFilesIntact
PROPERTIES
    TakenFilesFinish
    ThreadEnds
