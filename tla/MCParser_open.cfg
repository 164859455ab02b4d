SPECIFICATION FairSpec
CONSTANTS
    Files <- MCFiles
    Derivations <- MCDerivations
PROPERTIES
    OpenClassReported
\* The parser returns.
CHECK_DEADLOCK FALSE
