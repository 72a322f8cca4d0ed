SPECIFICATION Spec
CONSTANTS
    Unset = Unset
    Empty = Empty
    Spaces = Spaces
    Missing = Missing
    Malformed = Malformed
    Text <- MCText
    IntOf <- MCIntOf
    FloatOf <- MCFloatOf
    Off = {"0", "no"}
    Families <- MCFamilies
    Tables <- MCTables
CHECK_DEADLOCK FALSE
INVARIANTS
    CardAgrees
    BlanksAgree
    BudgetAgrees
    PassagesRead
