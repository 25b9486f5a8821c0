\* One event per epoll_wait and no write fails: the identify timer closes what does not
\* connect, also while connectServer loses descriptors.
SPECIFICATION FairSpec
CONSTANTS
    Accepts = {a1, a2}
    Clients = {c1, c2}
    Fds = {f1, f2, f3, f4}
    NoFd = NoFd
    Null = Null
    Listening = Listening
    Destinations = 2
    MaxEvents = 1
    Faults = {"setup", "connect_fcntl"}
PROPERTY IdentifiedOrClosed
