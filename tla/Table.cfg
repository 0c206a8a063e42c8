CONSTANTS
    PAGE_SIZE = 20
    Val = {v1}
    Sizes = {3, 5}
    HASH_MAP_BLOCK_SIZE = 2
    MaxSize = 20
    MaxBlocks = 3
SPECIFICATION Spec
INVARIANTS TypeOK ReadBack BlocksTiled FsmWellFormed FsmNoRepeats IInv
PROPERTY RidsAreFresh
