CONSTANTS
    CACHE_PAGE = 2
    MaxPins = 1
    MaxPages = 3
    MaxRef = 2
    MaxFrame = 4
    Val = {v1, v2}
    NoData = NoData
SPECIFICATION AnySpec
INVARIANT PinnedPages
