SPECIFICATION Spec
CONSTANTS
    Regions <- TwoRegions
    Tcm <- CoreMemory
    ExtLower = 14
    ExtUpper = 30
    MaxWords = 7
    Null = Null
INVARIANTS TypeOK FreeListIsGaps FreeBytesExact
PROPERTIES ImplementsHeap ImplementsTcm
