\* The destructor of a value that is still used is reached.
CONSTANTS
    NULL = NULL
    WILD = WILD
    Names <- MCNames
    Programs <- MCPrograms
    Sources <- MCSources
SPECIFICATION MainSpec
INVARIANT TeardownIsClean
\* the process ends
CHECK_DEADLOCK FALSE
