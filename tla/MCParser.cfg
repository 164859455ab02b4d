SPECIFICATION FairSpec
CONSTANTS
    Files <- MCFiles
    Derivations <- MCDerivations
INVARIANTS
    TypeOK
    LookAheadInOrder
    DerivationsParse
PROPERTIES
    StopsOrOpenList
\* The parser returns.
CHECK_DEADLOCK FALSE
