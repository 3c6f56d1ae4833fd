SPECIFICATION Spec
CONSTANTS
    a = a
    b = b
    c = c
    x = x
    y = y
    Names = {a, b, c}
    Blocks = {x, y}
    Garbage = Garbage
    NoFile = NoFile
    Packages <- MCPackages
    InitialDisks <- MCDisks
    MaxEntries = 3
    Pattern = {a, b}
    CounterLimit = 4
    MaxRuns = 1
    Faults = {"fast"}
INVARIANTS
    ReportReturns
CHECK_DEADLOCK FALSE
