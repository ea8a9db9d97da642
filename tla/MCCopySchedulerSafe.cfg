SPECIFICATION Spec
CONSTANTS
    a = a
    b = b
    NoFile = NoFile
    Files = {a, b}
    ABlocks = 3
    AUnits = 1
    ArenaChunks = 2
    NBlocks <- MCNBlocks
    ZeroBlocks <- MCZeroBlocks
    Chunks <- MCChunks
    Buffers <- MCBuffers
    NFileCopyJobs = 2
    NBlockCopyJobs = 2
    Sparse = TRUE
    Readback = FALSE
    AioResults = {"ok", "err", "eof"}
    SubmitMayFail = TRUE
    MaxGrabs = 0
INVARIANTS
    RequestsTracked
    BlocksOnce
    BuffersExclusive
    FilesConserved
    CleanFilesIntact
PROPERTIES
    FinishedUntouched
    ImplementsFileTransfer
