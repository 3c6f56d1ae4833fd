SPECIFICATION Spec
CONSTANTS
    a = a
    b = b
    c = c
    x = x
    y = y
    Names = {a, b, c}
    Blocks = {x, y}
    Garbage = Garbage
    NoFile = NoFile
    Packages <- MCPackages
    InitialDisks <- MCDisks
    MaxEntries = 3
    Pattern = {a, b}
    CounterLimit = 3
    MaxRuns = 2
    Faults = {"open", "directory", "read", "write", "hold", "throw", "fast", "kill"}
INVARIANTS
    TypeOK
    DoneMeansQuiet
    CleanMeansSynced
    ProgressBounded
    OnlyKnownHangs
PROPERTIES
    GoodFilesSurvive
    JobEnds
CHECK_DEADLOCK FALSE
