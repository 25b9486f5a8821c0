\* The destination speaks first.
SPECIFICATION FairSpec
CONSTANTS
    Bytes = {x}
    MaxSent = 1
    RecvSize = 1
    SendSize = 1
    Interrupts = FALSE
CHECK_DEADLOCK FALSE
PROPERTY DestinationHeard
