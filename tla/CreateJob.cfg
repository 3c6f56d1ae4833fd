SPECIFICATION Spec
CONSTANTS
  Names = {"dir", "dir/", "empty", "empty/", "small", "small/", "big", "big/"}
  Folders = {"dir"}
  EmptyFiles = {"empty"}
  NoName = ""
  FolderName <- MCFolderName
  NameLength <- MCNameLength
  Gap <- MCGap
  Jobs <- MCJobs
  kStaticDataSize = 1
  kExtendedFieldLength = 1
  kRec64Size = 2
  kLocatorSize = 1
  kEndOfCDSize = 2
  kMaxSizeOfCDRec = 12
  kMaxReasonableCDBytes = 12
  NoOffset = 99
  MaxOutput = 2
  MaxStream = 2
  DataTags = {"none", "eocd", "rec64"}
  FileFaults = {"write"}
  JobFaults = {"create", "open", "gone", "read", "throw", "kill"}
INVARIANTS TypeOK EntriesIntact FinishedIsReadable NeverHalfListed
PROPERTIES JobEnds
CHECK_DEADLOCK FALSE
