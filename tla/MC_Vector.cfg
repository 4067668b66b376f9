\* A vector of capacity 2; lists of up to 3 objects, two buffers and one
\* object of another type.
CONSTANTS
    Capacity = 2
    Bufs = {b1, b2}
    Others = {n1}
    MaxList = 3

SPECIFICATION Spec

INVARIANT WithinCapacity
PROPERTY AppendListPrefix
