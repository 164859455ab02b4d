\* a constant or basic block v, two instructions, three use cells
CONSTANTS
    NULL = NULL
    Values = {v, a, b}
    Users = {a, b}
    Uses = {u1, u2, u3}
SPECIFICATION FairSpec
INVARIANTS
    TypeOK
    ListsWellFormed
    WalkMeetsEveryUse
    UseEmptyIsExact
    NoDanglingOperand
    OperandsOwnCells
PROPERTIES
    ImplementsUseSets
    DestructorEnds
\* a failed assert stops the program
CHECK_DEADLOCK FALSE
