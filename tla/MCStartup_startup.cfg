\* Every file of up to three lines, two destinations, and every failing call.
SPECIFICATION FairSpec
CONSTANTS
    DesKeys = {1, 2}
    Listen = Listen
    Other = Other
    Addresses = {x, y}
    NoAddress = NoAddress
    MaxLines = 3
INVARIANTS
    TypeOK
    DestinationsAsConfigured
    Balanced
    ListenerWhole
PROPERTY StartsUp
