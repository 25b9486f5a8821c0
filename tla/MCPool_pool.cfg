\* Versions of two bits; slots are given back, also twice, until they have gone round.
SPECIFICATION Spec
CONSTANTS
    MaxHash = 2
    Versions = 4
    None = None
    MaxGiven = 5
INVARIANTS
    TypeOK
    HandlesTell
PROPERTY ImplementsAllocator
