SPECIFICATION Spec
CONSTANTS
    Packets = {p1, p2}
    Buffers = {b1, b2}
    Null = Null
SYMMETRY Symmetry
INVARIANT NothingLeaks
