CONSTANTS
    PAGE_SIZE = 36
    Val = {v1, v2}
    Sizes = {2, 3, 5}
SPECIFICATION Spec
INVARIANTS IInv TypeOK Tiled ReadBack
PROPERTY IndexesAreFresh
