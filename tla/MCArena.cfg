CONSTANTS
    BlockSize = 16
    Align = 4
    Sizes = {1, 3, 4, 9, 17}
    MaxAllocations = 5
SPECIFICATION Spec
CHECK_DEADLOCK FALSE
INVARIANTS
    RegionsAreDisjoint
    RegionsAreInBlocks
    LittleIsLost
