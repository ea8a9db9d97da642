SPECIFICATION Spec
CONSTANTS
    a = a
    b = b
    NoFile = NoFile
    Files = {a, b}
    ABlocks = 2
    AUnits = 1
    ArenaChunks = 2
    NBlocks <- MCNBlocks
    ZeroBlocks <- MCZeroBlocks
    Chunks <- MCChunks
    Buffers <- MCBuffers
    NFileCopyJobs = 1
    NBlockCopyJobs = 2
    Sparse = FALSE
    Readback = FALSE
    AioResults = {"ok", "err"}
    SubmitMayFail = TRUE
    MaxGrabs = 0
INVARIANTS
    FinishedFilesIntact
