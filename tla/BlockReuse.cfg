CONSTANTS
    PAGE_SIZE = 30
    Val = {v1}
    Sizes = {2, 3}
SPECIFICATION Spec
PROPERTY NewItemReuses
