CONSTANTS
    BlockSize = 30
    HeaderSize = 7
    Lengths = {0, 16, 45}
    Offsets = {0, 8, 26}
    Pieces = {5}
    MaxRecords = 3
    MaxCrashes = 1
SPECIFICATION FairSpec
CHECK_DEADLOCK FALSE
INVARIANTS
    TypeOK
    ReadsWholeRecords
    ReadsWhatWasWritten
    NoFalseAlarm
    ChecksumsFit
PROPERTIES
    ReaderComesToTheEnd
