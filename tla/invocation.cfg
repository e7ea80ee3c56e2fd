\* Two invocations delivered more than once, tokens that expire.
SPECIFICATION Spec
CONSTANTS
    Invocations = {i1, i2}
    Workers = {w1, w2}
    MaxRuns = 3
    MaxTokens = 2
    None = None
SYMMETRY Symmetry
CHECK_DEADLOCK FALSE
INVARIANT
    TypeOK
PROPERTIES
    ResultNeverReverts
    SuccessIsFinal
