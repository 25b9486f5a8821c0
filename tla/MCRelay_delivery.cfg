\* What is sent is delivered.
SPECIFICATION FairSpec
CONSTANTS
    Bytes = {x}
    MaxSent = 2
    RecvSize = 1
    SendSize = 1
    Interrupts = TRUE
CHECK_DEADLOCK FALSE
PROPERTIES
    FrontDelivered
    BackDelivered
    FrontEndCloses
