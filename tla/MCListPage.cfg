SPECIFICATION ListSpec
CONSTANTS
    Filters = {all, some}
    NoFilter = all
    Sizes = {1, 2}
    DefaultSize = 1
    LongSize = 2
    Cap = 2
    MaxRows = 2
    Fetches = {f1, f2}
    WriteSlots = {w1}
    Nothing = Nothing
INVARIANTS
    ListInv ShownIsCurrent AskedWithinCap
SYMMETRY Symmetry
