CONSTANTS
    KeyNames = {k1, k2}
    MaxDepth = 15
    MaxEntries = 2
SPECIFICATION Spec
INVARIANT TypedResult
