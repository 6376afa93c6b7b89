CONSTANTS
    Keys <- MCKeys
    MaxHeight = 3
    Readers = {r1}
    r1 = r1
SPECIFICATION FairSpec
INVARIANTS
    TypeOK
    LevelsAreSorted
    LevelsHoldMembers
    SearchIsLinearizable
PROPERTIES
    SearchEnds
