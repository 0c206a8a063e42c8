CONSTANTS
    CACHE_PAGE = 3
    MaxPins = 2
    MaxPages = 3
    MaxRef = 2
    Val = {v1, v2}
    NoData = NoData
SPECIFICATION Spec
INVARIANTS TypeOK IInv PinnedPages OneSlotPerPage LastSlotUnused
PROPERTY Transparent
