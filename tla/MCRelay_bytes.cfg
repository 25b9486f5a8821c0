\* Every interleaving of peers, short and interrupted writes: nothing is lost.
SPECIFICATION Spec
CONSTANTS
    Bytes = {x, y}
    MaxSent = 2
    RecvSize = 2
    SendSize = 1
    Interrupts = TRUE
SYMMETRY Symmetry
\* The peers may fall silent.
CHECK_DEADLOCK FALSE
INVARIANTS
    Conserved
    NoLostEdge
PROPERTY ImplementsStreams
