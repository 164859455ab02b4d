CONSTANTS
    NULL = NULL
    WILD = WILD
    Names <- MCNames
    Programs <- MCPrograms
    Sources <- MCSources
SPECIFICATION FairMainSpec
INVARIANTS
    TreesWellFormed
    TreeAsWritten
    SuccessIsEarned
    IrTypeOK
    BlocksTerminated
    EdgesMatchBranches
    OperandsDominate
    AccessesOwnVariable
    StaleIteratorsExplained
    NullsAreReported
    AllGenerated
    TeardownAbortsExactly
PROPERTY ProcessEnds
\* the process ends
CHECK_DEADLOCK FALSE
