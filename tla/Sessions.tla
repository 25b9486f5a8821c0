------------------------------ MODULE Sessions ------------------------------
(***************************************************************************)
(* The functions of the proxy that open, use and close its connections,    *)
(* as operators on a value, the heap: the objects of the two pools and the *)
(* descriptors they own.  An operator takes the heap a function finds and  *)
(* gives the heap it leaves, or the set of heaps it may leave when a       *)
(* system call has several outcomes, so that a handler is the composition  *)
(* of the functions it calls, in their order.                              *)
(*                                                                         *)
(* A session is an Accept (the front connection) and a Client (the         *)
(* connection to a destination) that are each other's m_pPartner.  Bytes   *)
(* are abstracted to "there are some": what becomes of each byte is left   *)
(* to the model of the data path.                                          *)
(***************************************************************************)
EXTENDS Naturals, Sequences

CONSTANTS
    Accepts,        \* the slots of m_pAcceptPool, m_maxHashNumber of them
    Clients,        \* the slots of m_pClientPool
    Fds,            \* the descriptors the process may hold beside the listener's
    NoFd,           \* m_fd = 0: no descriptor (and, to the kernel, standard input)
    Null,           \* the null pointer
    Destinations,   \* m_destinations.size()
    Faults          \* the calls that may fail for good, out of FaultKinds

Conns == Accepts \cup Clients
Kinds == {"accept", "client"}
Slots(k) == IF k = "accept" THEN Accepts ELSE Clients
Kind(o) == IF o \in Accepts THEN "accept" ELSE "client"

\* "setup": fcntl on an accepted descriptor, or epoll_ctl on a new one.
\* "connect_fcntl": fcntl in Client::connectServer.
\* "write": write, with an error other than EINTR and EAGAIN.
FaultKinds == {"setup", "connect_fcntl", "write"}

ASSUME SessionsAssumption ==
    /\ Accepts \cap Clients = {}
    /\ Null \notin Conns
    /\ NoFd \notin Fds
    /\ Destinations \in Nat
    /\ Faults \subseteq FaultKinds

Heaps ==
    [fd : [Conns -> Fds \cup {NoFd}],             \* m_fd
     partner : [Conns -> Conns \cup {Null}],      \* m_pPartner
     state : [Conns -> {"DISCONNECT", "START", "OK"}],  \* m_connectionState
     timer : SUBSET Conns,                        \* m_pTimerList is not NULL
     queued : SUBSET Conns,                       \* m_packetQueue is not empty
     hashed : SUBSET Conns,                       \* m_pBuffer is not NULL
     made : SUBSET Conns,                         \* constructed: in m_objects
     idle : [Kinds -> Seq(Conns)],                \* m_idleHandle
     open : SUBSET Fds,                           \* open descriptors
     watch : [Fds -> Conns \cup {Null}],          \* epoll's data.ptr
     armed : SUBSET Fds]                          \* EPOLLOUT is asked for

EmptyHeap ==
    [fd |-> [o \in Conns |-> NoFd],
     partner |-> [o \in Conns |-> Null],
     state |-> [o \in Conns |-> "DISCONNECT"],
     timer |-> {}, queued |-> {}, hashed |-> {}, made |-> {},
     idle |-> [k \in Kinds |-> <<>>],
     open |-> {}, watch |-> [f \in Fds |-> Null], armed |-> {}]

-----------------------------------------------------------------------------
(* ObjectPool, with a handle standing for the slot it names                *)

\* What ObjectPool::create may return: the slot of the last handle made idle,
\* or else any slot not constructed yet; nothing when the pool is at its limit.
Creatable(h, k) ==
    IF h.idle[k] # <<>> THEN {h.idle[k][Len(h.idle[k])]} ELSE Slots(k) \ h.made

CreateKeepingHandle(h, o) == [h EXCEPT !.made = @ \cup {o}]

\* create takes slot o: the handle leaves the idle list, or the object is made.
Create(h, o) ==
    [h EXCEPT !.made = @ \cup {o},
              !.idle[Kind(o)] = SubSeq(@, 1, Len(@) - 1)]

-----------------------------------------------------------------------------
(* Closing                                                                 *)

\* Mutated forms of the definitions that follow them, each a slip the code does
\* not make: m_fd without its close, a close that keeps m_fd, no releasePacket.
CloseSocketUnclosed(h, o) == [h EXCEPT !.fd[o] = NoFd]

CloseSocketKeepingFd(h, o) ==
    LET f == h.fd[o] IN
    [h EXCEPT !.open = @ \ {f},
              !.watch = [g \in Fds |-> IF g = f THEN Null ELSE @[g]],
              !.armed = @ \ {f}]

\* objectRemove and closeSocket.  No descriptor: nothing to forget or to close.
CloseSocket(h, o) ==
    LET f == h.fd[o] IN
    [h EXCEPT !.fd[o] = NoFd,
              !.open = @ \ {f},
              !.watch = [g \in Fds |-> IF g = f THEN Null ELSE @[g]],
              !.armed = @ \ {f}]

ResetDataKeepingQueue(h, o) ==
    [CloseSocket(h, o) EXCEPT !.partner[o] = Null,
                              !.state[o] = "DISCONNECT",
                              !.timer = @ \ {o},
                              !.hashed = @ \ {o}]

\* resetData past closePartner, with the objectRemove that goes before it.
ResetData(h, o) ==
    [CloseSocket(h, o) EXCEPT !.partner[o] = Null,
                              !.state[o] = "DISCONNECT",
                              !.timer = @ \ {o},
                              !.queued = @ \ {o},
                              !.hashed = @ \ {o}]

\* ObjectPool::idle with the object's own handle, which is always current: nothing
\* tells whether the object is idle already.
Idle(h, o) == [h EXCEPT !.idle[Kind(o)] = Append(@, o)]

\* closeAccept or closeClient of an object without a partner.
Reset(h, o) == Idle(ResetData(h, o), o)

CloseAlone(h, o) == Reset(h, o)

\* epollRemove: closePartner first forgets this object in its partner and
\* closes the partner, then the object itself is reset.
Close(h, o) ==
    LET p == h.partner[o] IN
    IF p = Null THEN Reset(h, o) ELSE Reset(Reset(h, p), o)

-----------------------------------------------------------------------------
(* Sending                                                                 *)

BacklogUnarmed(h, q) == [h EXCEPT !.queued = @ \cup {q}]

\* The write was short or would block: the rest becomes the head of the empty
\* queue and the descriptor, if there is one, is armed for EPOLLOUT.
Backlog(h, q) ==
    [h EXCEPT !.queued = @ \cup {q}, !.armed = @ \cup ({h.fd[q]} \ {NoFd})]

\* sendPacket: behind a queue the packet only joins it; otherwise it is written
\* at once, whole, in part or not at all, and a failed write closes the session.
SendPacket(h, q) ==
    IF q \in h.queued THEN {h}
    ELSE {h, Backlog(h, q)} \cup (IF "write" \in Faults THEN {Close(h, q)} ELSE {})

\* sendHashBufferToPartner: what a has received so far goes to its partner and
\* the buffer is released, whatever became of the packet.
SendHashBuffer(h, a) ==
    IF a \notin h.hashed \/ h.partner[a] = Null THEN {h}
    ELSE {[g EXCEPT !.hashed = @ \ {a}] : g \in SendPacket(h, h.partner[a])}

\* readSocket, when read has returned data of o: relayed to a partner that is
\* connected, kept in the buffer otherwise.  onReceiveMessage does nothing.
ReadData(h, o) ==
    LET q == h.partner[o] IN
    IF q # Null /\ h.state[q] = "OK" THEN SendPacket(h, q)
    ELSE {[h EXCEPT !.hashed = @ \cup {o}]}

\* epollCheck: EPOLLOUT is asked for exactly when packets are queued.
EpollCheck(h, o) ==
    [h EXCEPT !.armed = IF o \in h.queued THEN @ \cup ({h.fd[o]} \ {NoFd})
                                          ELSE @ \ {h.fd[o]}]

EpollOutClosingOneEnd(h, o) ==
    IF o \notin h.queued THEN {EpollCheck(h, o)}
    ELSE {EpollCheck([h EXCEPT !.queued = @ \ {o}], o), EpollCheck(h, o)}
         \cup (IF "write" \in Faults THEN {Reset(h, o)} ELSE {})

\* epollOut and the epollCheck after it: the queue is written out whole, or until
\* a write is short, or until one fails, which closes the session instead.
EpollOut(h, o) ==
    IF o \notin h.queued THEN {EpollCheck(h, o)}
    ELSE {EpollCheck([h EXCEPT !.queued = @ \ {o}], o), EpollCheck(h, o)}
         \cup (IF "write" \in Faults THEN {Close(h, o)} ELSE {})

-----------------------------------------------------------------------------
(* Opening                                                                 *)

OpenAcceptUntimed(h, a, f) ==
    LET g == Create(h, a) IN
    [g EXCEPT !.fd[a] = f,
              !.state[a] = "OK",
              !.open = @ \cup {f},
              !.watch[f] = a]

\* openAccept on slot a with descriptor f: registered for EPOLLIN, CS_CONNECT_OK
\* and the identify timer running.  A descriptor a held before is not closed.
OpenAccept(h, a, f) ==
    LET g == Create(h, a) IN
    [g EXCEPT !.fd[a] = f,
              !.state[a] = "OK",
              !.timer = @ \cup {a},
              !.open = @ \cup {f},
              !.watch[f] = a]

\* openAccept or openClient when setting up a new descriptor fails: it is closed
\* before closeAccept or closeClient gives the object back.
OpenFails(h, o) ==
    LET g == Create(h, o) IN Close([g EXCEPT !.fd[o] = NoFd], o)

\* openClient on slot c: connecting on f, registered for EPOLLIN and EPOLLOUT.
OpenClient(h, c, f) ==
    LET g == Create(h, c) IN
    [g EXCEPT !.fd[c] = f,
              !.state[c] = "START",
              !.open = @ \cup {f},
              !.watch[f] = c,
              !.armed = @ \cup {f}]

\* openClient on slot c when it returns 0.  connectServer fails at socket or
\* connect and leaves nothing open, but its failing fcntl leaves the descriptor.
OpenClientFails(h, c) ==
    LET g == Close(Create(h, c), c) IN
    {g} \cup (IF "setup" \in Faults THEN {OpenFails(h, c)} ELSE {})
        \cup (IF "connect_fcntl" \in Faults
              THEN {[g EXCEPT !.open = @ \cup {f}] : f \in Fds \ h.open} ELSE {})

SetPartners(h, a, c) ==
    [h EXCEPT !.partner[a] = c, !.partner[c] = a]

\* o has been made idle on the way from heap h to heap g, on which its pool has given
\* out none: the handle that o had is current no more.
WentIdle(h, g, o) ==
    LET k == Kind(o) IN
    \E i \in DOMAIN g.idle[k] : i > Len(h.idle[k]) /\ g.idle[k][i] = o

\* openPartner for a, which openAccept has just set up: openClient, and if it
\* returns 0, closeAccept by the handle onReceiveAccept got, which names a still
\* unless a went idle in between.
OpenPartner(h, a) ==
    IF Creatable(h, "client") = {} THEN {Close(h, a)}
    ELSE UNION {
        {IF WentIdle(h, g, a) THEN g ELSE Close(g, a) : g \in OpenClientFails(h, c)}
        \cup {SetPartners(OpenClient(h, c, f), a, c) : f \in Fds \ h.open}
      : c \in Creatable(h, "client")}

\* onReceiveAccept: a session unless a has a partner; without a destination, or
\* if the partner cannot be opened, a is closed again.
OnReceiveAccept(h, a) ==
    IF h.partner[a] # Null THEN {h}
    ELSE IF Destinations = 0 THEN {Close(h, a)}
    ELSE OpenPartner(h, a)

ReceiveClientKeepingTimer(h, c) ==
    LET g == [h EXCEPT !.state[c] = "OK", !.timer = @ \ {c}]
    IN IF h.partner[c] = Null THEN {g} ELSE SendHashBuffer(g, h.partner[c])

ReceiveClientUnsent(h, c) ==
    {[h EXCEPT !.state[c] = "OK", !.timer = @ \ {c, h.partner[c]}]}

\* receiveClient: c is connected; both timers stop and the buffer is sent.
ReceiveClient(h, c) ==
    LET a == h.partner[c]
        g == [h EXCEPT !.state[c] = "OK", !.timer = @ \ {c, a}]
    IN IF a = Null THEN {g} ELSE SendHashBuffer(g, a)

-----------------------------------------------------------------------------
(* What a heap must satisfy.  X is the set of objects in hand: taken from   *)
(* their pool by a function that has not finished opening them.            *)

IdleSlots(h, k) == {h.idle[k][i] : i \in DOMAIN h.idle[k]}

\* A session has two ends and no third: an object that holds a descriptor has a
\* partner of the other kind, whose partner it is; an object that holds none has
\* no partner.
Paired(h, X) ==
    \A o \in Conns :
        LET p == h.partner[o] IN
        IF h.fd[o] = NoFd \/ o \in X THEN p = Null
        ELSE p \in Conns /\ Kind(p) # Kind(o) /\ h.partner[p] = o /\ h.fd[p] # NoFd

\* Nothing of a session outlives it in its objects: neither packets nor a buffer,
\* which would go to the next session, nor a timer, which would close it.
Clean(h) ==
    \A o \in Conns : h.fd[o] = NoFd =>
        h.state[o] = "DISCONNECT" /\ o \notin h.timer \cup h.queued \cup h.hashed

\* The idle list holds each constructed object that is not in use, and once: no
\* object is given out while in use, none is given out twice, none is lost.
Pooled(h, X) ==
    /\ \A o \in Conns : h.fd[o] # NoFd => o \in h.made
    /\ \A k \in Kinds :
        /\ IdleSlots(h, k) = {o \in (h.made \cap Slots(k)) \ X : h.fd[o] = NoFd}
        /\ \A i, j \in DOMAIN h.idle[k] : h.idle[k][i] = h.idle[k][j] => i = j

\* A descriptor an object holds is open and registered for that object, and what
\* epoll watches or writes to is open: no handler reads or writes a descriptor of
\* another connection.
HeldOpen(h) ==
    /\ \A o \in Conns : h.fd[o] # NoFd => h.fd[o] \in h.open /\ h.watch[h.fd[o]] = o
    /\ \A f \in Fds \ h.open : h.watch[f] = Null /\ f \notin h.armed

\* A descriptor that is open, or that epoll reports, belongs to the object
\* registered with it: none leaks.
OpenHeld(h) ==
    /\ \A f \in Fds : h.watch[f] # Null => h.fd[h.watch[f]] = f
    /\ "connect_fcntl" \notin Faults => \A f \in h.open : h.watch[f] # Null

\* An object in use is connected, except a Client that still connects.
Connected(h, X) ==
    \A o \in Conns : h.fd[o] # NoFd /\ o \notin X =>
        h.state[o] = "OK" \/ (o \in Clients /\ h.state[o] = "START")

\* The Client of this Accept's session has not connected yet.
Connecting(h, a) == h.fd[a] # NoFd /\ h.state[h.partner[a]] = "START"

\* The identify timer runs for the sessions whose Client has not connected, and
\* for no other; D are the objects whose timer has fired.
Timed(h, D, X) ==
    \A o \in Conns \ X : o \in h.timer \cup D <=> o \in Accepts /\ Connecting(h, o)

\* Bytes are kept in the buffer only while the Client connects, so that none that
\* come later are sent before them, and none are forgotten there; the objects in B
\* are just being sent theirs.
Buffered(h, B) == \A o \in h.hashed \ B : o \in Accepts /\ Connecting(h, o)

\* Packets wait only where EPOLLOUT is asked for, so that they will be written.
QueuesArmed(h) == \A o \in h.queued : h.fd[o] \in h.armed

=============================================================================
