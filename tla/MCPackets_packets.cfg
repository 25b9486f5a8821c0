\* Sessions one after another on the same objects, queues of up to five packets,
\* and early packets that stay.
SPECIFICATION Spec
CONSTANTS
    Packets = {p1, p2, p3, p4, p5}
    Buffers = {b1, b2, b3, b4, b5}
    Null = Null
SYMMETRY Symmetry
INVARIANTS
    TypeOK
    NeverMisused
    CountsExact
    OnlyEarlyStay
    BuffersUnshared
