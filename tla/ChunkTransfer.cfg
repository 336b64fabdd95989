\* Whole files and files of two chunks, one or two at a time, in two calls.
CONSTANTS
    Actors = {0, 1, 2}
    MaxClients = 2
    Sizes = {4}
    ChunkSizes = {2, 3, 4}
    Parallels = {0, 1, 2}
    Buffer = 2
    MaxCalls = 2
    MaxChunks = 2
SPECIFICATION FairSpec
CHECK_DEADLOCK FALSE
INVARIANTS
    OpenIsCached
    DownloadSharesClient
    OkIsWhole
PROPERTIES
    ImplementsJobs
    TransferReturns
