SPECIFICATION FairSpec
CONSTANTS
    Files <- MCFiles
    Derivations <- MCDerivations
INVARIANTS
    FieldsParse
\* The parser returns.
CHECK_DEADLOCK FALSE
