CONSTANT Texts <- MCTexts
SPECIFICATION ReadSpec
INVARIANTS
    TypeOK
    FlagsExact
    LocationExact
    ErrorsExact
PROPERTIES
    ImplementsTokenSource
    LexingEnds
