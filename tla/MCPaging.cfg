SPECIFICATION Spec

CONSTANTS
    i1 = i1
    i2 = i2
    i3 = i3
    Items = {i1, i2, i3}
    Matching = {i1, i3}
    Nameless = {i3}
    Tops = {1, 2}
    DEFAULT_TOP = 2
    PAGESIZE = 2
    MaxChanges = 2
    MaxPages = 4

INVARIANTS
    TypeOK
    PagesAreTheListing
    PagingEnds

CHECK_DEADLOCK FALSE
