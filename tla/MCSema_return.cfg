\* A return outside every function, after one, is accepted.
CONSTANTS
    NULL = NULL
    WILD = WILD
    Names <- MCNames
    Programs <- MCPrograms
SPECIFICATION Spec
INVARIANT ReturnsInFunctions
\* the analysis ends
CHECK_DEADLOCK FALSE
