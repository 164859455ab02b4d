\* A name declared in a method's own scope is found after the method.
CONSTANTS
    NULL = NULL
    WILD = WILD
    Names <- MCNames
    Programs <- MCPrograms
SPECIFICATION Spec
INVARIANT BoundInScope
\* the analysis ends
CHECK_DEADLOCK FALSE
