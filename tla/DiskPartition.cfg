\* Writes of full blocks, any reads; writes to the drive may fail.
CONSTANTS
    NCaches = 3
    HashSize = 2
    Hash <- MCHash
    NBlocks = 8
    BlockSize = 2
    LbaSize = 2
    SizeT = 256
    Byte <- MCByte
    Request <- MCRequest
    InitialDisk <- MCInitialDisk
    WriteMayFail = TRUE
    ReadMayFail = FALSE
    GptHeader <- MCGptHeader
    GptEntry <- MCGptEntry
    Mbr <- MCMbr
    PartRequest <- MCPartRequest
SPECIFICATION PartSpec
INVARIANTS CacheConsistent PartitionsMatchTable
PROPERTIES ImplementsBlockDev PartitionConfined
\* A drive without a partition table gets no further request.
CHECK_DEADLOCK FALSE
