SPECIFICATION Spec
CONSTANTS
    Requests = {q1, q2}
    MaxTokens = 3
    Grace = 1
    MaxDepth = 2
SYMMETRY MCSymmetry
INVARIANT
    GraceReuseIsARetry
