\* Initialisation and transfers; the controller completes in any order.
CONSTANTS
    Entries = 15
    MaxNs = 3
    NsList <- MCNsList
    Nn = 3
    Dword0 <- MCDword0
    VecCapacity = 2
    PageSize = 4
    Buffer = {1, 3}
    BufferLen = 2
    FrameOf <- MCFrameOf
SPECIFICATION DSpec
INVARIANTS CompletionFresh RingsExact DeviceUsable TransferCovers
