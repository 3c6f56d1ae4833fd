SPECIFICATION Spec
CONSTANTS
    base = base
    a = a
    b = b
    d = d
    x = x
    y = y
    Names <- MCNames
    NoName = NoName
    NoData = NoData
    Saturated = 100000
    kMaxSizeOfCDRec = 1024
    kMaxReasonableCDBytes = 50000
    kLocalHeader = 32
    kCDHeader = 48
    kOtherBlock = 9
    kRec64 = 56
    kLocator = 20
    kEndOfCD = 22
    SameLetter <- MCSameLetter
    Packages <- MCPackages
    MaxEntries = 2
    Paths = {base, a, b, d}
    Base = base
    Parent <- MCParent
    Blocks = {x, y}
    Folder = Folder
    NoFile = NoFile
    InitialDisks <- MCDisks
    NewContents <- MCNewContents
    MaxChanges = 1
    Bars <- MCBars
    ReadSize = 2
    CounterLimit = 5
    Spelling <- MCSpelling
    Characters <- MCCharacters
    Patterns <- MCPatterns
INVARIANTS
    TypeOK
    DirectoryIsRead
    VerdictsWereTrue
    ReportIsRight
    DiesOnlyOfChange
    ListIsComplete
PROPERTIES
    JobEnds
CHECK_DEADLOCK FALSE
