\* Every map of up to 4 pairs whose keys are byte strings of length <= 2
\* over two byte values.
CONSTANTS
    Bytes = {97, 98}
    MaxKeyLen = 2
    MaxPairs = 4

SPECIFICATION Spec

INVARIANT CanonicalResult
INVARIANT KeepsFirst
PROPERTY CanonicalUntouched
PROPERTY Terminates
