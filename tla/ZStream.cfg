SPECIFICATION Spec
CONSTANTS
    Sizes = {0, 1, 2, 3, 4, 5, 6, 7}
    kStreamProcessSize = 3
    kDefaultCompressBuffer = 3
    MaxMatch = 3
    CompressFaults = {"read", "write"}
    kCompressStreamProcessSize = 2
    kDefaultDecompressBuffer = 2
    DecompressFaults = {"read", "write"}
    Damages = {"cut", "spoiled", "trailing"}
INVARIANTS
    TypeOK
    AddedIsWhole
    OutputInOrder
    WholeIsExtracted
    BadIsRejected
    RoundTrip
PROPERTIES
    LoopsEnd
CHECK_DEADLOCK FALSE
