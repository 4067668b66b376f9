\* ggl_str_to_int64 at 8-bit width: inputs of up to 4 bytes over '-', 'a'
\* and the digits needed to write 127, 128, -128, -129 and -13
\* (INT_MIN / 10 is -12 in C, -13 rounded down).
\* The helpers on a 3-byte array over two byte values, arguments of up to
\* 2 bytes, a 3-bit size_t (SIZE_MAX = 7) so that len - suffix.len and
\* end - start wrap within the bound.
CONSTANTS
    Width = 8
    Chars = {45, 48, 49, 50, 51, 55, 56, 57, 97}
    MaxLen = 4
    Bytes = {0, 1}
    ArrayLen = 3
    ArgLen = 2
    SizeBits = 3

SPECIFICATION Spec

INVARIANT ParsesExactly
INVARIANT NoOverflow
INVARIANT InBounds
PROPERTY HelpersExact
PROPERTY ImplementsWriter
