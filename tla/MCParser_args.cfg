SPECIFICATION FairSpec
CONSTANTS
    Files <- MCFiles
    Derivations <- MCDerivations
INVARIANTS
    NothingDropped
\* The parser returns.
CHECK_DEADLOCK FALSE
