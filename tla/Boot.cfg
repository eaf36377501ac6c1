\* From the bootloader's memory map to a running system of three processors.
CONSTANTS
    PAGE_SIZE = 16
    SizeofEntry = 1
    SizeofPage = 1
    BUDDY_HIGH_ORDER = 2
    MaxAllocations = 8
    MemoryMaps <- MCMemoryMaps
    Fan = 4
    VA <- MCVA
    NCpu = 3
    Bsp = 2
    Lapic0 = 2
    PROBES = 2
    Hhdm = 64
    LapicPage = 54
    VirtualBase = 128
    Sections <- MCSections
    AcpiPages <- MCAcpiPages
    ConfigSpaces = {55}
    Bars <- MCBars
    UacpiMaps <- MCUacpiMaps
SPECIFICATION Spec
INVARIANTS EarlyExact MapExact TextReadOnly AllReady CalibrationExact
