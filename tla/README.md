# betaProxy in TLA+

betaProxy is a TCP proxy for Linux: one process, one thread, one epoll
instance.  It accepts connections on one address and joins each of them to a
new connection to one of several destinations, taken in turn.  This directory
holds TLA+ models of it, TLC configurations that check them on small instances
and proofs that the TLA+ proof system (TLAPS) checks.  Source paths are relative
to the repository (`src/proxy.cpp` is the file in its `src` directory).

## The system

| part | source | state it keeps | operations |
|---|---|---|---|
| Proxy core | `proxy.h`, `proxy.cpp` | the pools, the destinations, `m_desIndex` | `openListener/Accept/Client`, `openPartner`, `receiveClient`, `closeListener/Accept/Client`, `getNextDestination`, `update` (the loop) |
| Epoll | `epoll.h`, `epoll.cpp` | the epoll descriptor, the last batch `m_events` | `objectAdd/Change/Remove`, `update` (one `epoll_wait` and its batch) |
| Listener | `listener.cpp` | the listening descriptor | `openSocket`, the accept loop `epollActive`, `epollRemove` |
| Accept | `accept.cpp` | descriptor, `m_pPartner`, `m_connectionState`, `m_packetQueue`, `m_pBuffer`, its timer | `epollIn`, `epollOut`, `epollCheck`, `epollRemove`, `sendPacket`, `sendHashBufferToPartner`, `resetData` |
| Client | `client.cpp` | as Accept | `connectServer`, `epollActive` |
| Logic | `main.cpp` | none | `onReceiveAccept`, `onReceiveMessage` (empty) |
| ObjectPool | `object.h` | `m_objects`, `m_idleHandle`, each object's handle and version | `create`, `get`, `idle`, `remove`, `clear` |
| Timer | `timer.h`, `timer.cpp` | a list of objects per time count, `m_waitTimeout` | `timerAdd`, `clearTimer`, `update` |
| Packet, Buffer | `packet.h`, `buffer.h` | bytes, cursor, reference count | `write`, `moveCursor`, `retain`, `release` |
| Token | `token.cpp` | none | `readConfig`, `split` |
| Log, signals, Thread, Sync | `log.cpp`, `systemsignal.cpp`, `common.cpp` | | not part of the proxy's logic |

How they interact.  `Proxy::update` repeats for ever: ask the Timer how long
to wait, run `Epoll::update`, run `Timer::update`.  `Epoll::update` takes a batch
of events; the data of each event is a pointer to a Listener, Accept or Client,
and its virtual handlers are called in turn.  The Listener calls
`Proxy::onAcceptSocket` for each connection it accepts, which takes an Accept from
its pool, registers it, starts its identify timer, and calls the logic's
`onReceiveAccept`; that takes the next destination and a Client from its pool
and makes the two each other's `m_pPartner`.  When the Client's connection is
established, `receiveClient` stops the timer and sends what the Accept has
buffered.  From then on each end writes what it reads to its partner and queues
what the kernel does not take.  Whatever closes one end closes the other
(`closePartner`), and both objects go back to their pools.

What is hard here.  Nothing runs in parallel, but much is reentrant and late: a
handler may close the object of another event in the same batch, or the very
object it is a method of; an object that is closed is reused at once by the
next connection; a timer that is due has left its list before its callback is
called; and any system call may fail halfway through a function.  The README's
promises (one destination connection per accepted connection, the bytes of one
going to the other, the load balanced between destinations) depend on all of these.

## The modules

| module | models | lines of code it stands for |
|---|---|---|
| `Sessions` | what each function does to the connections, as operators on a heap of objects and descriptors | `accept.cpp`, `client.cpp`, the openers and closers of `proxy.cpp`, `create` and `idle` of `object.h`, `onReceiveAccept` |
| `Proxy` | the event loop: which handler runs when, on which object; extends `Sessions` | `Epoll::update`, `Proxy::update`, `listener.cpp`, the structure of `epollIn`, the due timers |
| `Stream` | what a session promises: two byte streams, each in order and without loss until it closes | (abstract) |
| `Relay` | the data path of one session: bytes, short writes, buffer and queue, edge-triggered events | `readSocket`, `writeSocket`, `sendPacket`, `epollIn`, `epollOut`, `epollCheck`, `Client::epollActive`, `receiveClient` |
| `Timer` | the lists of timers, the clock, `m_waitTimeout`, the sleep of the loop | `timer.cpp`, `timer.h`, `Proxy::update` |
| `Allocator` | what a pool promises: one user per object, but for objects given back without a user; refusal only when all are out | (abstract) |
| `Pool` | a pool with the handles and versions of its objects | `object.h` |
| `Memory` | packets and buffers with their reference counts, as operators on a value | `RefObject` of `common.h`, `packet.cpp`, `buffer.h` |
| `Packets` | who owns the packets and buffers of sessions that follow each other; extends `Memory` | `sendPacket`, `sendHashBufferToPartner`, `epollOut`, `resetData` |
| `Startup` | the configuration file, the destinations, the opening and the removal of the Listener | `token.cpp`, `initConfig`, `initialize`, `openListener`, `openSocket`, `getNextDestination` |
| `MCProxy`, `MCRelay`, `MCTimer`, `MCPool`, `MCPackets`, `MCStartup` | instances for TLC: symmetry and constraints | |
| `SessionsProofs` | lemmas: every operator of `Sessions` keeps types, exclusive descriptors and the sessions in order | |
| `ProxyProofs` | the theorems about `Proxy` | |
| `RelayProofs` | lemmas on sequences; `Relay` keeps every byte and implements `Stream` | |
| `EdgeProofs` | `Relay` waits for no event that epoll will not report | |
| `PoolProofs` | lemmas on remainders; `Pool` tells handles apart and implements `Allocator` | |
| `PacketsProofs` | lemmas on queues and counts; the theorems about `Packets` | |
| `TimerProofs` | lemmas on sequences that lose members; the theorems about `Timer` | |
| `StartupProofs` | lemmas on numbers in order; the theorems about `Startup` | |

`Sessions` and `Proxy`.  A heap is a record: `fd` is `m_fd`, `partner` is
`m_pPartner`, `state` is `m_connectionState`, `timer`, `queued` and `hashed` are the
objects whose `m_pTimerList`, `m_packetQueue` and `m_pBuffer` are not empty, `made` and
`idle` are the pools' `m_objects` and `m_idleHandle`, and `open`, `watch`, `armed` are
what the kernel knows of each descriptor: open, the pointer registered, EPOLLOUT
asked for.  Handlers are compositions of the functions they call in the order of
the code; where a system call has several outcomes the operator gives the set of
heaps.  The loops of `Listener::epollActive` and `Accept::epollIn` are one step per
iteration, since each iteration acts on what the last one left.

A handler that runs on an object whose `m_fd` is 0, because an earlier event or
its own write closed it, is a *misfire*; the history variable `misfired` records
the first one, and `shut` which objects were closed while events of the batch still
referred to them.  The code does not prevent misfires and the model does not
either: it goes on with what the code does then (reads descriptor 0, closes the
object again, makes its slot idle a second time, uses an uninitialized `error`).

`Relay`.  One session from the opening of its Client on, with its two ends
`"front"` (the Accept) and `"back"` (the Client); what the many sessions of `Proxy`
abstract to "there are some bytes" is here byte by byte.  For each end the
kernel's side is what the peer has `sent`, what has arrived (`rx`), whether the peer
has closed (`eof`), the `room` of the send buffer, what has been written (`got`), and
`edge`: epoll will report the end once.  EPOLLET is modelled as the code depends on
it: an arrival, an end of stream, room where there was none (if EPOLLOUT is asked
for), a connection made or refused, and an `epoll_ctl` that finds an event true,
each make an edge; `epoll_wait` clears it.  The process's side is `phase` (the Client's
`m_connectionState`, or closed), `buffer` (`m_pBuffer` of the Accept), `queue`
(`m_packetQueue`, the packets run together), `armed`, the batch `reported`, and where
the loop is (`at`, `cur`).  `read` and `write` may give EINTR, and a write takes what there
is room for.  A session that has closed is over here; handlers that still run on
it are the subject of `Proxy`.

`Timer`.  `lists[n]` is the `TimerList` for time count n, from `m_pHead` to `m_pTail`,
`listed` the keys of `m_timerListMap`, `inList` the `m_pTimerList` of each object.  `m_index`
grows with each `add` and is used only to sort; it is kept as the `order` of the last
adds.  The loop is `"loop"` (about to ask `getWaitTimeout`), `"asleep"` in `epoll_wait`,
`"handlers"` (Epoll::update: timers are set and cleared) or `"updating"` (the callbacks of
`Timer::update`, which may set and clear timers too, their own and others').  Time may
pass between any two steps, and `SetClock` sets the time of day, forward or back.
`Timeout` is what becomes of the int64 wait when `Epoll::update` takes it as an int.
The proxy itself uses one time count and a callback that returns -1; the model is
of the component, with any counts and callbacks.  `latest`, `reset` and `updated` are
history variables.

`Pool`.  `objects` is `m_objects` from index 1 on, an object being its version, `idle` is
`m_idleHandle`.  Callers give objects back by any handle at all: the one they were given, one
that is out of date, or the object's own, which is current also when the object is idle
already.  That last is what `closeAccept` and `closeClient` do after a misfire (`accept.cpp:64`,
`client.cpp:72`), and the slot is then on the list twice.  The histories are `given`, how
often a slot has been given back, from which follows its handle (`HandleOf`), `users`, how
often it is out, and `extra`, how often it was given back while it was not.  `remove` has no
caller and is modelled as part of the component.  `Sessions` abstracts a handle to its slot;
`Pool` is about everyone who keeps one.

`Memory` and `Packets`.  `count` and `alive` are the reference counts and whether the object has
been deleted, `data` is a Packet's `m_pBuffer`; `misused` remembers that something was done to a
deleted object.  `Packets` follows one pair of Accept and Client through one session after
another: `hash` is the Accept's `m_pBuffer`, `queue` the two `m_packetQueue`s, and `closing`
the ends whose `resetData` has still to release what they hold, in the order of
`closePartner`.  `early` is a history variable.

`Startup`.  A line of the file is what its first 1023 characters say, and whether there are
more; `failed` is the stream's failbit.  The keys that start with "des" are numbers in the
order of `std::map`.  `initialize` is followed step by step to the loop; from there on the
Listener may be removed and destinations are given out.  `listener` has the process's
side (`held`: `m_fd`) and the kernel's (`open`, `watched`); `lead` is a history variable.

How the modules fit together.  `Proxy` starts from what `Startup` ends with, a Listener that
is open and a number of destinations.  It assumes that the timer of a connecting session
is found due (`FairSpec`), which is `NoneForgotten` of `Timer`; it takes the slots of a pool
from `Pool` and leaves to `Packets` who owns what is queued and buffered; it leaves the bytes to `Relay`, which in turn takes from `Proxy` that the two ends of a
session are opened and closed together (`SessionsAtomic`).

## What the runs check

| run | instance | result |
|---|---|---|
| `sessions` | 3 Accepts, 2 Clients, 5 descriptors, batches of 3, setup and write faults, up to the first misfire | all safety properties below hold, and a misfire comes only as `OnlyStaleMisfire` says |
| `oneevent` | 2 Accepts, 2 Clients, 4 descriptors, 2 destinations, batches of 1, setup and `connect_fcntl` faults | a connecting session is closed (`IdentifiedOrClosed`) |
| `shared_client` | batches of 2, no fault | **violated**: `OneClientPerAccept` |
| `fd_limit` | 4 descriptors, 3 Accepts, no fault | **violated**: `ListenerKept` |
| `bytes` | 2 bytes each way of 2 values, reads of 2, send buffers of 1, interrupts | the safety properties of `Relay` hold; it implements `Stream` |
| `delivery` | 2 bytes each way, reads and send buffers of 1, interrupts, fairness | `FrontDelivered`, `BackDelivered`, `FrontEndCloses` hold |
| `server_first` | 1 byte each way, no interrupts, fairness | **violated**: `DestinationHeard` |
| `timers` | 2 objects, 3 time counts, lists for 2, clock up to 3, set once, int up to 5, fairness | all properties of `Timer` hold |
| `pool` | 2 slots, versions of 2 bits, each slot given back up to 5 times, by any handle | `HandlesTell` holds; `Pool` implements `Allocator` |
| `packets` | 5 packets, 5 buffers, any number of sessions | all properties of `Packets` but `NothingLeaks` hold |
| `packet_leak` | 2 packets, 2 buffers | **violated**: `NothingLeaks` |
| `startup` | files of up to 3 lines, 2 "des" keys, 2 addresses, fairness | all properties of `Startup` hold |

Of `Sessions` and `Proxy`:

* `SessionsPaired`: a session has exactly two ends that know each other.
* `SessionsAtomic` (a property of steps): no step closes one end only, changes the
  partner of an open connection, or takes one back to connecting.
* `ClosedClean`: no packet, buffer or timer outlives its session in a reused object.
* `PoolsSound`: the idle lists hold the constructed objects not in use, each once.
* `NoDescriptorLeak`: every open descriptor can still be reached and closed.
* `DescriptorsExclusive`: no object holds another's descriptor or a closed one.
* `IdentifyTimer`: the timer runs for exactly the sessions that still connect.
* `BufferFirst`: bytes are buffered only while the Client connects, so early bytes
  are sent before later ones.
* `NoLostWakeup`: packets wait only where EPOLLOUT is asked for.
* `OnlyStaleMisfire` (a property of steps): a handler runs on a closed object only for an
  event that `epoll_wait` returned before the closing, and only if the handler of an
  earlier event of that batch closed it, or a write of the read loop that goes on.  So no timer calls a closed
  object, and no event that is taken later has one.  It presupposes nothing: batches of any size
  and failing writes are what it is about.
* `OneClientPerAccept`, `ListenerKept`: see the findings.
* `IdentifiedOrClosed` (liveness): a session does not stay connecting for ever.

Of `Relay`:

* `Conserved`: every byte a peer has sent is in exactly one place, in order.
* `ImplementsStreams`: the session is the two streams of `Stream` (a refinement: `open`
  is "the session is not closed").
* `NoLostEdge`: an end with something to do is, or will be, reported by epoll, but
  for the one case of finding 3.
* `FrontDelivered`, `BackDelivered`, `FrontEndCloses` (liveness): bytes arrive, and an end of
  stream of the front closes the session.
* `DestinationHeard`: `BackDelivered` without its condition; see the findings.

Of `Timer`:

* `TimersFiled`: the lists, the map and the objects' own pointers agree.
* `InOrder`: each list is in the order its objects are due.
* `NearestTimeout`: `m_waitTimeout` is not after any active timer.
* `NoneOverdue`: no update leaves a timer behind that was due when it looked.
* `NoOversleep`: the loop never sleeps past an active timer.
* `SleepBounded` (a property of steps): the loop does not go to sleep for longer than
  the clock is behind and a time count, beside a timer, unless `m_waitTimeout` is further
  off than an int can say.
* `NoneForgotten` (liveness): a timer that is due is called, cleared or set again.

The clock is the time of day and may be set, so these properties say what they
presuppose.  `TimersFiled` and `SleepBounded` do so of nothing.  `InOrder`, `NearestTimeout` and
`NoneOverdue` hold unless the clock was set back: a timer added after that can be due
before the head of its list, where `Timer::update` stops and which is all that it
records, so `m_waitTimeout` is then later than the nearest timeout (`timer.h:173`), and the
timer is late by as much as the clock was set back.  `NoOversleep` and `NoneForgotten` hold while
nobody sets it: `epoll_wait` measures its timeout by itself.  Set back by nearly an
int of milliseconds, 24 days, the clock makes the timeout negative, which is for ever until
an event comes.  The code does not prevent it; `SleepBounded` leaves that case out, and only
that: set back by less, the clock makes no sleep longer than it is behind.

Of `Pool`:

* `HandlesTell`: `get` finds a slot's object by its latest handle, or that waits on the idle
  list, and finds nothing by an older one, but for versions that have gone round.  It also
  holds of slots that were given back twice, removed, or both.
* `ImplementsAllocator` (a refinement): an object has one user at a time, and one more for
  each time it was given back without a user; none is lost; `create` fails only when
  all are out that often.  The pool does not keep callers from giving back what is not theirs
  (finding 1), so the specification says what that costs: each time, one more user, no more.

Of `Packets`:

* `NeverMisused`: nothing is read, retained or released after its deletion.
* `CountsExact`: between two functions each count is the number of references, plus one
  for a packet of early data.
* `OnlyEarlyStay`: nothing but those packets outlives its session.
* `BuffersUnshared`: early bytes are never added to the buffer of a packet.
* `NothingLeaks`: see the findings.

Of `Startup`:

* `DestinationsAsConfigured`: compared with a definition by the whole file: the
  destinations are, in the order of the keys, the values last assigned.
* `Balanced`: the destinations take turns.
* `ListenerWhole`: the Listener is listening or has left no descriptor and no slot behind.
* `StartsUp` (liveness): the loop is reached, if each line has at most 1023 characters.
  With a longer line it is not: `getline` sets failbit, reads nothing from then on, and
  `readConfig` waits for the end of the file for ever.

Bounds.  Three Accepts and two Clients make each pool run out, let a slot be
reused by a third session while a second is open, and let two sessions interact
through a batch; with five descriptors both the pools and the descriptors can be
what runs out.  Three events are the smallest batch in which one handler closes an
object, another opens it for a new session, and the third event was meant for the old
one.  `UpToMisfire` ends behaviours at the first misfire, where the
invariants say nothing more, but for `DescriptorsExclusive`, which is proved to hold after
misfires too (`ExclusiveDescriptors`).  After
misfires a slot can be idle any number of times; `IdleBound` cuts the idle lists
at three in the runs that go on.  Slots and descriptors of a kind are
interchangeable; symmetry is used in the runs without liveness.

Fairness of `FairSpec`.  The one thread keeps running (weak fairness of each place
it can be in).  The loops that wait for the kernel to have nothing more do end:
peers do not send, or connect, faster than the thread takes, for ever; the code
has no bound of its own there.  A timer that keeps running is found due by some
`Timer::update` (strong fairness of `Expires`): time passes, and the wait of epoll is
bounded by `getWaitTimeout`.

Bounds of `Relay`.  Two bytes are the shortest stream that can be reordered, and with
reads of two and room for one a read is written short, its rest queued, joined
by the next byte and written later.  The two values of a byte are
interchangeable, so symmetry is used in `bytes`.  Peers fall silent after their
last byte, so both runs may stop.

Fairness of `Relay`.  The loop runs; `epoll_wait` reports an end that stays ready
eventually (1024 events are taken at a time, in the order of readiness); signals
do not interrupt every read or every write; peers take what is written to them;
and the identify timer of a session that stays connecting expires.

Bounds of `Timer`.  Two objects and lists for two of three time counts let a list
hold two timers in and out of order, a list be removed and made again, and the pool
run out; a clock up to 3 lets the longest timer run out, one be set again while the
other waits, and the clock be set forward or back past either.  The clock is set once.
An int up to 5 holds every wait but that of the longest count after the clock was set back all the
way from 3 to 0, so `SleepBounded` says something of all other set-backs.
Liveness rules out symmetry.

Fairness of `Timer`.  Time passes, up to its bound; the thread goes on; handlers and
callbacks return; and `epoll_wait` returns when its time is up, not before.  Nothing
says that events come, so that a wrong timeout is not hidden by a lucky event.

Bounds of `Pool`.  With two slots and five returns of each, versions of two bits go
round, slots are idle several times, removed and made anew between, and the pool runs full.

Bounds of `Packets`.  Five addresses let early packets stay from several sessions while
both queues hold some.  Addresses are interchangeable.

Bounds and fairness of `Startup`.  Three lines are "listen" and two destinations, or a key
given twice and "listen", or a line that does not fit before or behind others.  The one
thread goes on; nothing else is assumed.

## Findings

1. *Two events of one batch* (`shared_client`).  Both ends of a session are in one
   batch.  The first handler closes both; the second runs on the closed object,
   reads descriptor 0, and closes it again: `ObjectPool::idle` compares the handle
   of the object with itself and puts the slot on the idle list a second time.
   The next two connections get the same Accept or Client; `proxy.h:69` promises
   a partnership of one accept and one client.
2. *The Listener at the descriptor limit* (`fd_limit`).  `accept` fails with EMFILE,
   the default branch removes the Listener, and nothing opens it again.
3. *A destination that speaks first* (`server_first`).  `Client::epollActive` returns
   true when the connection completes, so the event is not passed to `epollIn`. Bytes
   that have arrived by then were reported by the same edge and are not reported
   again: a destination that sends a greeting and waits is never heard.
4. *Packets of early data leak* (`packet_leak`).  `sendHashBufferToPartner` retains the packet
   before it calls `sendPacket`, which retains it again, each with the comment that this
   is for entering the queue; the packet is released once.  Every session whose front
   speaks before the Client is connected leaves a packet and its buffer in memory.

A second way into finding 1 needs no batch: when a write to the partner fails in
`sendPacket`, the partner and with it the very object whose `epollIn` is running are closed;
`readSocket` still returns 0 (`accept.cpp:204`), `epollIn` reads on with `m_fd` 0, and the end of that
read closes the object again.  `MisfiresAreStale` says that there is no third way.

## What is proved

The theorems of `ProxyProofs` hold for any number of slots, descriptors and
destinations, any batch size and any set of faults, from the assumptions
`SessionsAssumption` and `ProxyAssumption` (disjoint names, a positive batch size).

*Types and descriptors* (`TypeCorrect`, `ExclusiveDescriptors`) hold of every
reachable state, misfired or not.  The inductive invariant `SaneInv` adds to the two
only that a handler is at work on an event of the batch; `SessionsProofs` shows for
each operator that it keeps `Sane`.

*Integrity* (`SessionsArePaired`, `ClosedObjectsAreClean`, `PoolsAreSound`,
`DescriptorsDoNotLeak`, `TimersMatchSessions`, `BufferComesFirst`, `NoWakeupIsLost`)
holds until the first misfire.  None of these is inductive alone: a close is
sound because pairing says who the partner is, pairing survives because the pools
do not hand out an object in use, the pools are right because objects are closed
once, which needs the descriptor to say who is in use.  Their conjunction `HeapInv`
is, and it has parameters for the intermediate states inside a handler: `X`, the
objects taken from a pool and not yet in a session; `B`, the Accept whose buffer is
being sent; `D`, the objects whose timer is due.  `SessionsProofs` has one lemma per
operator.  `SessionsEndWhole` proves the step property from the same invariant.

*Misfires* (`MisfiresAreStale`): `OnlyStaleMisfire`, for batches of any size and any faults.  The
invariant adds to `HeapInv`, which has it that a due timer's object is open, that the
object of every event in the batch is open or in `shut` (`Known`).  The two ways into finding 1
are thus all there are.

The theorems of `RelayProofs` and `EdgeProofs` hold for any bytes, any number of bytes,
any sizes of the read and send buffers above zero, with and without interrupts
(`RelayAssumption`).

*Bytes* (`NothingIsLost`, `RelayImplementsStreams`).  `ByteInv` adds to
`Conserved` that the buffer is empty once the Client relays, without which a chunk
that is sent directly would overtake the buffer, and that no handler is at work
in a closed session.  The types of `Relay` (`TypeOK`) are proved with it, not checked by a run.  `WriteOutCarries` and `SendPacketCarries` say that whatever a
write takes, what is written and queued at an end grows by the data, at its end;
`PassingOn` turns that, by `Conserved`, into a step of `Stream`: what is got is a
longer beginning of what was sent.

*Edges* (`NoEdgeIsLost`).  `EdgeInv` adds to `NoLostEdge` that packets wait only where
EPOLLOUT is asked for, that there is room for the Client's first write until it
is connected (so that its connection is an event), that the Client's handlers run
only when it relays, and that no event is left over between batches.  The heart
is `NoEventIdle`: an end that `epoll_wait` finds without an event has nothing to do.

*The pool* (`PoolTypeCorrect`, `HandlesTellApart`, `PoolImplementsAllocator`) is proved for any
number of slots, any width of versions and any use of handles, from `PoolAssumption`.
`PoolInv` adds to `TypeOK` two facts.  `Placed`: an object's version is the number of times
its slot was given back, modulo the width, and a slot without an object has, as its last entry
on the idle list, the handle that follows; without it nothing relates a handle to
the object it finds, and a removed object would be made anew with an old version.
`Counted`: a slot's entries on the idle list and its users are one, and one for each time
it was given back without a user; so an entry to pop is a user to spare, and an
empty list leaves none.  The proof counts with the library's theorems on finite sets, and
rests on lemmas about remainders: two numbers with one remainder differ by a multiple of the
width.

*Packets and buffers* (`PacketsTypeCorrect`, `NothingIsMisused`, `CountsAreExact`,
`OnlyEarlyPacketsStay`, `BuffersAreUnshared`) is proved for any number of packets, buffers
and sessions, from `MemoryAssumption` (packets, buffers and the null pointer are not the
same).  `CountsExact` alone is not inductive: it counts the queues a packet is in, and
a `release` is right only if that is one place of one queue.  `PacketsInv` says so: `Sound`, the
counts of the queued packets, the early ones and the buffers, each buffer having one packet at most;
`Queues`, a packet waits once; `Phased`, what is empty in which phase; and, except while `resetData`
runs, `OwnBuffer`, no packet has the Accept's buffer.  While one `resetData` after the other runs, a
packet is in a queue that is half released; `Sound` has the set of the queued packets for
a parameter, so that each function of `Memory` has one lemma, for all its callers.

*Timers* (`TimerTypeCorrect`, `TimersAreFiled`, `ListsInOrder`, `NearestTimeoutIsNearest`,
`TheLoopNeverOversleeps`, `NoTimerLeftOverdue`, `SleepIsAlwaysBounded`) is proved for any
finite set of objects, any time counts above zero that an int can hold, any widths of the integers that
the times fit in, lists for any number of counts, and a clock that is set any number of times (`ClockSteps`
at 3 bounds nothing; `TimerAssumption`).
`TimerInv` adds four facts to the invariants the run checks.  `DueAfterSet`: a timer is due at most its time
count after the latest time the clock has shown; with `ClockOnward` (that is now, unless the clock
was set back) every timer of a list is due before one that is added, which makes `InOrder`
inductive.  `NextDue`: beside a timer, `m_waitTimeout` is at most a time count after the latest time;
so the int that `epoll_wait` gets is the wait that was meant, which `NearestTimeout` alone does not
say.  `NoneBehind` is `NoneOverdue` in every state.  The lists are handled
by two ideas: `Thins`, members are taken out and the others keep their order, and `Holding`, a list has
exactly the objects that point to it.  The heart is `UpdateKeeps`: what `Timer::update` leaves in the
lists begins with the objects whose conditions it has recorded.

*Startup* (`StartupTypeCorrect`, `DestinationsAreConfigured`, `DestinationsTakeTurns`,
`ListenerStaysWhole`) is proved for a file of any length and any keys and addresses, from
`StartupAssumption`.  `StartupInv` says what the map holds of the lines read so far
(`LinesRead`), that all are read before the map is used, what `initConfig` made of it, and which
destinations have been given out in this round (`TakingTurns`).  That the `i`-th key of the map is the one
with `i` keys up to it (`InItsPlace`), which `DestinationsAsConfigured` compares with, and that a finite set of
keys has an order at all (`InOrderExists`), are proved by counting, since induction over a set is not available.

Every invariant that a passing run checks is now a theorem, and so are the step properties
`SessionsAtomic`, `OnlyStaleMisfire`, `SleepBounded` and the refinements `ImplementsStreams` and `ImplementsAllocator`.

Only model-checked: the liveness properties `IdentifiedOrClosed`, `FrontDelivered`, `BackDelivered`,
`FrontEndCloses`, `NoneForgotten` and `StartsUp` (liveness under fairness and `ENABLED` are beyond the
prover).  The violated properties are refuted by a counterexample, not proved false of every instance.

## What is not modelled

The log is text and I/O that no state depends on; `log_level` belongs to it.  Trimming,
`atoi` and the layout of an address are abstracted in `Startup`.  Signals end the process, and
nothing is persisted, so there is no recovery to model.  Thread and Sync are never
used.  `Proxy::destroy` is not reached: `update` does not return, and so the pools are
never cleared.  `Buffer::read`, `Packet::read` and `Buffer::to` have no caller.

Not in `Timer`: a time count of 0, which nothing here asks for.  A callback could return it; its
object would be due again at once, which `NoneOverdue` excludes.

Not in `Relay`: the EPOLLERR branch (it is in `Proxy`) and the growth of a queue without bound: nothing stops reading from a fast
peer while a slow one is written to, and only the bound on what peers send keeps
the model finite.  A peer that closes only its sending side closes the session
and what is queued is lost: `Stream` allows that, since no source says otherwise.

## Plan

Done: all modules of the table, their runs, and a theorem for every invariant the passing
runs check.  Worth proving next:

1. `Proxy` beyond the first misfire: which of the integrity properties still hold with `misfired`
   set, besides the types and the exclusive descriptors.
2. That a packet leaks only by early data, with their number: at most one for each session.
3. What of `Timer` still holds for time counts of 0.
