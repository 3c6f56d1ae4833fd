SPECIFICATION Spec
CONSTANTS
    Sizes = {0, 1, 2, 3, 5}
    kStreamProcessSize = 3
    kDefaultCompressBuffer = 3
    MaxMatch = 3
    CompressFaults = {}
    kCompressStreamProcessSize = 2
    kDefaultDecompressBuffer = 2
    DecompressFaults = {"read", "write"}
    Damages = {}
INVARIANTS
    FinalBlockFlushes
CHECK_DEADLOCK FALSE
