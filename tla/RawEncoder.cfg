SPECIFICATION FairSpec
CONSTANTS
    BufferSize = 7
    SizeModulus = 16
    EntrySizes = {0, 2, 3, 8}
    Samples = {1, 2}
    ReadSizes = {2, 3, 4, 6}
    CrcSize = 2
INVARIANTS
    TypeOK
    ReadsTheEntries
PROPERTIES
    ImplementsWindow
    ReadingEnds
