\* Code generation starts on what analysis has rejected.
CONSTANTS
    NULL = NULL
    WILD = WILD
    Names <- MCNames
    Programs <- MCPrograms
    Sources <- MCSources
SPECIFICATION MainSpec
INVARIANT FailedIsNotGenerated
\* the process ends
CHECK_DEADLOCK FALSE
