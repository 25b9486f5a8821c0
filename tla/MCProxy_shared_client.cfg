SPECIFICATION Spec
CONSTANTS
    Accepts = {a1, a2, a3}
    Clients = {c1, c2}
    Fds = {f1, f2, f3, f4, f5}
    NoFd = NoFd
    Null = Null
    Listening = Listening
    Destinations = 1
    MaxEvents = 2
    Faults = {}
SYMMETRY Symmetry
CONSTRAINT IdleBound
INVARIANT OneClientPerAccept
