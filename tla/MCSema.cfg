CONSTANTS
    NULL = NULL
    WILD = WILD
    Names <- MCNames
    Programs <- MCPrograms
SPECIFICATION FairSpec
INVARIANTS
    TypeOK
    CollectorScopeIsNearest
    BoundToNearest
    NoVariableShadows
    OverloadsDistinct
    CrashesExplained
    AcceptedIsTyped
PROPERTIES
    ImplementsLanguage
    AnalysisEnds
\* the analysis ends
CHECK_DEADLOCK FALSE
