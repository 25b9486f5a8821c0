\* Three events of one epoll_wait, every fault, up to the first misfire.
SPECIFICATION Spec
CONSTANTS
    Accepts = {a1, a2, a3}
    Clients = {c1, c2}
    Fds = {f1, f2, f3, f4, f5}
    NoFd = NoFd
    Null = Null
    Listening = Listening
    Destinations = 1
    MaxEvents = 3
    Faults = {"setup", "write"}
SYMMETRY Symmetry
CONSTRAINT UpToMisfire
INVARIANTS
    TypeOK
    SessionsPaired
    ClosedClean
    PoolsSound
    NoDescriptorLeak
    IdentifyTimer
    BufferFirst
    NoLostWakeup
    DescriptorsExclusive
PROPERTIES
    SessionsAtomic
    OnlyStaleMisfire
