---------------------------- MODULE ProxyProofs ----------------------------
(***************************************************************************)
(* The theorems about the event loop: its types, the exclusive descriptors *)
(* and the integrity of the sessions, for any number of slots, descriptors *)
(* and destinations, any batch size and any faults.                        *)
(***************************************************************************)
EXTENDS Proxy, SessionsProofs

-----------------------------------------------------------------------------
(* Types, and descriptors held exclusively: of every state, misfired or not *)

\* A handler runs on the object of the first event of the batch.
Handling ==
    /\ at \in {"accepting", "reading", "writing"} => batch # <<>>
    /\ at \in {"reading", "writing"} => Current \in Conns

SaneInv == TypeOK /\ Handling /\ Sane(heap)

LEMMA InitSane == Init => SaneInv
<1> SUFFICES ASSUME Init PROVE SaneInv
  OBVIOUS
<1>1. EmptyHeap \in Heaps /\ HeldOpen(EmptyHeap)
  <2>1. [k \in Kinds |-> <<>>] \in [Kinds -> Seq(Conns)]
    OBVIOUS
  <2>2. EmptyHeap \in Heaps
    BY <2>1 DEF EmptyHeap, Heaps
  <2> QED BY <2>2 DEF EmptyHeap, HeldOpen
<1>2. <<>> \in Seq(Events)
  OBVIOUS
<1>3. 0 \in 0 .. Destinations
  BY SessionsAssumption
<1> QED BY <1>1, <1>2, <1>3 DEF Init, SaneInv, TypeOK, Handling, Sane, Places

\* The event being handled is an object, and what is left of the batch is a batch.
LEMMA BatchType ==
    ASSUME batch \in Seq(Events), batch # <<>>
    PROVE  Current \in Conns \cup {Listening} /\ Tail(batch) \in Seq(Events)
<1>1. Head(batch) \in Events /\ Tail(batch) \in Seq(Events)
  OBVIOUS
<1> QED BY <1>1 DEF Current, Events

LEMMA NextSane == SaneInv /\ [Next]_vars => SaneInv'
<1> SUFFICES ASSUME SaneInv, [Next]_vars PROVE SaneInv'
  OBVIOUS
<1> USE DEF SaneInv, Places
<1>1. CASE Wait
  <2> DEFINE Watched == {g \in Fds : heap.watch[g] # Null} \cup (IF listening THEN {NoFd} ELSE {})
             event(f) == IF f = NoFd THEN [obj |-> Listening, out |-> FALSE] ELSE Report(f)
  <2>1. PICK n \in 0 .. MaxEvents :
          \E fs \in [1 .. n -> Watched] : batch' = [i \in 1 .. n |-> event(fs[i])]
    BY <1>1 DEF Wait
  <2>1a. PICK fs \in [1 .. n -> Watched] : batch' = [i \in 1 .. n |-> event(fs[i])]
    BY <2>1
  <2>2. ASSUME NEW f \in Watched
        PROVE  event(f) \in Events
    <3>1. CASE f = NoFd
      BY <3>1 DEF Events
    <3>2. CASE f # NoFd
      <4>1. f \in Fds /\ heap.watch[f] # Null
        BY <3>2
      <4>2. heap.watch[f] \in Conns
        BY <4>1 DEF TypeOK, Heaps
      <4> QED BY <3>2, <4>2 DEF Report, Events
    <3> QED BY <3>1, <3>2
  <2>3. n \in Nat
    BY <2>1, ProxyAssumption
  <2>4. batch' \in Seq(Events)
    <3> HIDE DEF event, Watched
    <3> QED BY <2>1a, <2>2, <2>3
  <2> QED BY <1>1, <2>4 DEF Wait, TypeOK, Handling
<1>2. CASE ListenerEvent
  BY <1>2 DEF ListenerEvent, TypeOK, Handling, Current
<1>3. CASE AcceptDropped
  <2>1. Creatable(heap, "accept") \subseteq Conns
    BY CreatableType DEF Kinds, Sane
  <2>2. Sane(heap')
    BY <1>3, <2>1, OpenFailsSane DEF AcceptDropped
  <2> QED BY <1>3, <2>2 DEF AcceptDropped, TypeOK, Handling, Sane
<1>4. CASE AcceptConnection
  <2>1. PICK f \in Fds \ heap.open, a \in Creatable(heap, "accept") :
          /\ heap' \in OnReceiveAccept(OpenAccept(heap, a, f), a)
          /\ desIndex' = IF OpenAccept(heap, a, f).partner[a] = Null /\ Destinations # 0
                         THEN NextDesIndex ELSE desIndex
    BY <1>4 DEF AcceptConnection
  <2>2. a \in Conns
    BY CreatableType DEF Kinds, Sane
  <2>3. Sane(heap')
    BY <2>1, <2>2, OpenAcceptSane, OnReceiveAcceptSane
  <2>4. desIndex' \in 0 .. Destinations
    BY <2>1, SessionsAssumption DEF NextDesIndex, TypeOK
  <2> QED BY <1>4, <2>3, <2>4 DEF AcceptConnection, TypeOK, Handling, Sane
<1>5. CASE AcceptDone
  <2> QED BY <1>5, BatchType DEF AcceptDone, NextEvent, Shutting, TypeOK, Handling
<1>6. CASE AcceptOutOfFds
  <2> QED BY <1>6, BatchType DEF AcceptOutOfFds, NextEvent, Shutting, TypeOK, Handling
<1>7. CASE ConnectEvent
  <2>1. Sane(heap')
    BY <1>7, ReceiveClientSane, CloseSane DEF ConnectEvent, Conns
  <2> QED BY <1>7, <2>1, BatchType DEF ConnectEvent, NextEvent, Shutting, TypeOK, Handling, Sane
<1>8. CASE StaleConnectEvent
  <2>1. Current \in Conns /\ Sane(Close(heap, Current))
    BY <1>8, CloseSane DEF StaleConnectEvent, Conns
  <2>2. Sane(heap')
    BY <1>8, <2>1, ReceiveClientSane, CloseSane DEF StaleConnectEvent
  <2> QED BY <1>8, <2>2, BatchType DEF StaleConnectEvent, NextEvent, Shutting, Touch, TypeOK, Handling, Sane
<1>9. CASE DataEvent
  BY <1>9 DEF DataEvent, Touch, TypeOK, Handling, Current
<1>10. CASE Read
  <2>1. Sane(heap')
    BY <1>10, ReadDataSane DEF Read, Handling
  <2> QED BY <1>10, <2>1 DEF Read, Shutting, Touch, TypeOK, Handling, Sane, Current
<1>11. CASE ReadAgain
  BY <1>11 DEF ReadAgain, Touch, TypeOK, Handling, Current
<1>12. CASE ReadEnd
  <2>1. Sane(heap')
    BY <1>12, CloseSane DEF ReadEnd, Handling
  <2> QED BY <1>12, <2>1, BatchType DEF ReadEnd, NextEvent, Shutting, Touch, TypeOK, Handling, Sane
<1>13. CASE Write
  <2>1. Sane(heap')
    BY <1>13, EpollOutSane DEF Write, Handling
  <2> QED BY <1>13, <2>1, BatchType DEF Write, NextEvent, Shutting, TypeOK, Handling, Sane
<1>14. CASE NoWrite
  <2>1. Sane(heap')
    BY <1>14, EpollCheckSane, CloseSane DEF NoWrite, Handling
  <2> QED BY <1>14, <2>1, BatchType DEF NoWrite, NextEvent, Shutting, TypeOK, Handling, Sane
<1>15. CASE TimerUpdate
  <2>1. PICK d \in SUBSET heap.timer : due' = d /\ heap' = [heap EXCEPT !.timer = @ \ d]
    BY <1>15 DEF TimerUpdate
  <2>2. d \subseteq Conns /\ heap' \in Heaps
    BY <2>1 DEF TypeOK, Heaps
  <2>3. HeldOpen(heap')
    BY <2>1 DEF Sane, HeldOpen, Heaps
  <2> QED BY <1>15, <2>1, <2>2, <2>3 DEF TimerUpdate, TypeOK, Handling, Sane
<1>16. CASE TimerCallback
  <2>1. PICK a \in due : due' = due \ {a} /\ heap' = Close(heap, a) /\ Touch(a)
    BY <1>16 DEF TimerCallback
  <2>2. Sane(heap')
    BY <2>1, CloseSane DEF TypeOK
  <2> QED BY <1>16, <2>1, <2>2 DEF TimerCallback, Touch, TypeOK, Handling, Sane
<1>17. CASE UNCHANGED vars
  BY <1>17 DEF vars, TypeOK, Handling, Current, Sane
<1> QED
  BY <1>1, <1>2, <1>3, <1>4, <1>5, <1>6, <1>7, <1>8, <1>9, <1>10, <1>11, <1>12, <1>13,
     <1>14, <1>15, <1>16, <1>17 DEF Next

\* Every variable keeps its type, after misfires too: in particular m_desIndex never
\* names a destination that is not there.
THEOREM TypeCorrect == Spec => []TypeOK
<1>1. SaneInv => TypeOK
  BY DEF SaneInv
<1> QED BY InitSane, NextSane, <1>1, PTL DEF Spec

\* No two objects ever hold the same descriptor and none holds a closed one, for
\* every batch size and all faults, even after handlers ran on closed objects.
THEOREM ExclusiveDescriptors == Spec => []DescriptorsExclusive
<1>1. SaneInv => DescriptorsExclusive
  BY DEF SaneInv, Sane, DescriptorsExclusive
<1> QED BY InitSane, NextSane, <1>1, PTL DEF Spec

-----------------------------------------------------------------------------
(* The integrity of the sessions, for as long as no handler has misfired    *)

\* Between the steps of the loop every session is in order; a handler that is past
\* its epollIn is still on an open object, and only while the timers are called are
\* there due ones.
Integrity ==
    /\ at # "timer" => due = {}
    /\ ~misfired => HeapInv(heap, due, {}, {})
    /\ ~misfired /\ at = "writing" => heap.fd[Current] # NoFd

LEMMA InitIntegrity == Init => Integrity
<1> SUFFICES ASSUME Init PROVE Integrity
  OBVIOUS
<1>1. EmptyHeap \in Heaps /\ HeldOpen(EmptyHeap)
  BY InitSane DEF SaneInv, Sane, Init
<1>2. Paired(EmptyHeap, {}) /\ Clean(EmptyHeap) /\ OpenHeld(EmptyHeap)
  BY DEF EmptyHeap, Paired, Clean, OpenHeld
<1>3. Connected(EmptyHeap, {}) /\ Timed(EmptyHeap, {}, {}) /\ InHand(EmptyHeap, {}, {})
  BY DEF EmptyHeap, Connected, Timed, Connecting, InHand
<1>4. Buffered(EmptyHeap, {}) /\ QueuesArmed(EmptyHeap) /\ Pooled(EmptyHeap, {})
  BY DEF EmptyHeap, Buffered, QueuesArmed, Pooled, IdleSlots
<1> QED BY <1>1, <1>2, <1>3, <1>4 DEF Init, Integrity, HeapInv

LEMMA NextIntegrity == SaneInv /\ Integrity /\ [Next]_vars => Integrity'
<1> SUFFICES ASSUME SaneInv, Integrity, [Next]_vars PROVE Integrity'
  OBVIOUS
<1>0. SaneInv'
  BY NextSane
<1> USE DEF Integrity
<1>1. CASE Wait
  BY <1>1 DEF Wait
<1>2. CASE ListenerEvent
  BY <1>2 DEF ListenerEvent
<1>3. CASE AcceptDropped
  <2>1. PICK h : h = heap
    OBVIOUS
  <2>2. ASSUME NEW a \in Creatable(h, "accept"), HeapInv(h, {}, {}, {})
        PROVE  HeapInv(OpenFails(h, a), {}, {}, {})
    BY <2>2, OpenFailsInv DEF Kinds
  <2> QED BY <1>3, <2>1, <2>2 DEF AcceptDropped
<1>4. CASE AcceptConnection
  <2>1. PICK f \in Fds \ heap.open, a \in Creatable(heap, "accept") :
          heap' \in OnReceiveAccept(OpenAccept(heap, a, f), a)
    BY <1>4 DEF AcceptConnection
  <2>2. PICK h, g : h = heap /\ g = OpenAccept(h, a, f)
    OBVIOUS
  <2>3. ASSUME HeapInv(h, {}, {}, {})
        PROVE  HeapInv(heap', {}, {}, {})
    <3>1. HeapInv(g, {}, {a}, {}) /\ a \in Accepts /\ g.fd[a] # NoFd
      BY <2>1, <2>2, <2>3, OpenAcceptInv
    <3> QED BY <2>1, <2>2, <3>1, OnReceiveAcceptInv
  <2> QED BY <1>4, <2>2, <2>3 DEF AcceptConnection
<1>5. CASE AcceptDone
  BY <1>5 DEF AcceptDone, NextEvent
<1>6. CASE AcceptOutOfFds
  BY <1>6 DEF AcceptOutOfFds, NextEvent
<1>7. CASE ConnectEvent
  <2>1. PICK h, c : h = heap /\ c = Current
    OBVIOUS
  <2>2. ASSUME HeapInv(h, {}, {}, {})
        PROVE  HeapInv(heap', {}, {}, {})
    <3>1. c \in Clients /\ c \in Conns /\ h.fd[c] # NoFd
      BY <1>7, <2>1 DEF ConnectEvent, Conns
    <3>2. HeapInv(Close(h, c), {}, {}, {})
      BY <2>2, <3>1, EpollOutInv
    <3> QED BY <1>7, <2>1, <2>2, <3>1, <3>2, ReceiveClientInv DEF ConnectEvent
  <2> QED BY <1>7, <2>1, <2>2 DEF ConnectEvent, NextEvent
<1>8. CASE StaleConnectEvent
  BY <1>8 DEF StaleConnectEvent, Touch, NextEvent
<1>9. CASE DataEvent
  BY <1>9 DEF DataEvent, Touch, Current
<1>10. CASE Read
  <2>1. PICK h, o : h = heap /\ o = Current
    OBVIOUS
  <2>2. ASSUME HeapInv(h, {}, {}, {}), h.fd[o] # NoFd
        PROVE  HeapInv(heap', {}, {}, {})
    BY <1>10, <2>1, <2>2, ReadDataInv DEF Read, SaneInv, Handling
  <2> QED BY <1>10, <2>1, <2>2 DEF Read, Touch
<1>11. CASE ReadAgain
  BY <1>11 DEF ReadAgain, Touch, Current
<1>12. CASE ReadEnd
  <2>1. PICK h, o : h = heap /\ o = Current
    OBVIOUS
  <2>2. ASSUME HeapInv(h, {}, {}, {}), h.fd[o] # NoFd
        PROVE  HeapInv(heap', {}, {}, {})
    BY <1>12, <2>1, <2>2, EpollOutInv DEF ReadEnd, SaneInv, Handling
  <2> QED BY <1>12, <2>1, <2>2 DEF ReadEnd, Touch, NextEvent
<1>13. CASE Write \/ NoWrite
  <2>1. PICK h, o : h = heap /\ o = Current
    OBVIOUS
  <2>2. at = "writing" /\ o \in Conns
    BY <1>13, <2>1 DEF Write, NoWrite, SaneInv, Handling
  <2>3. heap' \in EpollOut(h, o) \cup {EpollCheck(h, o), Close(h, o)}
    BY <1>13, <2>1 DEF Write, NoWrite
  <2>4. ASSUME HeapInv(h, {}, {}, {}), h.fd[o] # NoFd
        PROVE  HeapInv(heap', {}, {}, {})
    BY <2>2, <2>3, <2>4, EpollOutInv
  <2> QED BY <1>13, <2>1, <2>2, <2>4 DEF Write, NoWrite, NextEvent
<1>14. CASE TimerUpdate
  <2>1. PICK h, d : h = heap /\ d = due'
    OBVIOUS
  <2>2. ASSUME HeapInv(h, {}, {}, {})
        PROVE  HeapInv(heap', d, {}, {})
    BY <1>14, <2>1, <2>2, TimersDueInv DEF TimerUpdate
  <2> QED BY <1>14, <2>1, <2>2 DEF TimerUpdate
<1>15. CASE TimerCallback
  <2>1. PICK a \in due : due' = due \ {a} /\ heap' = Close(heap, a) /\ Touch(a)
    BY <1>15 DEF TimerCallback
  <2>2. PICK h, d : h = heap /\ d = due
    OBVIOUS
  <2>3. ASSUME HeapInv(h, d, {}, {})
        PROVE  HeapInv(heap', d \ {a}, {}, {})
    <3>1. /\ a \in Conns /\ a \in Accepts /\ h.fd[a] # NoFd
          /\ \A o \in d : o \in Accepts
      BY <2>1, <2>2, <2>3 DEF HeapInv, Timed, Connecting
    <3>2. h.partner[a] \notin d
      BY <2>3, <3>1, LiveFacts, SessionsAssumption
    <3>3. d \ {a, h.partner[a]} = d \ {a} /\ a \in Conns \ {}
      BY <3>1, <3>2
    <3>4. HeapInv(Close(h, a), d \ {a, h.partner[a]}, {}, {})
      BY <2>3, <3>1, <3>3, CloseInv
    <3> QED BY <2>1, <2>2, <3>3, <3>4
  <2> QED BY <1>15, <2>1, <2>2, <2>3 DEF TimerCallback, Touch
<1>16. CASE UNCHANGED vars
  BY <1>16 DEF vars, Current
<1> QED
  BY <1>1, <1>2, <1>3, <1>4, <1>5, <1>6, <1>7, <1>8, <1>9, <1>10, <1>11, <1>12, <1>13,
     <1>14, <1>15, <1>16 DEF Next

LEMMA AlwaysIntegrity == Spec => [](SaneInv /\ Integrity)
  BY InitSane, InitIntegrity, NextSane, NextIntegrity, PTL DEF Spec

\* Closing one end of a session always closes the other, and no third object is
\* ever attached to it.
THEOREM SessionsArePaired == Spec => []SessionsPaired
<1>1. SaneInv /\ Integrity => SessionsPaired
  BY DEF Integrity, HeapInv, SessionsPaired
<1> QED BY AlwaysIntegrity, <1>1, PTL

\* Packets, buffers and timers never outlive the session they belong to.
THEOREM ClosedObjectsAreClean == Spec => []ClosedClean
<1>1. SaneInv /\ Integrity => ClosedClean
  BY DEF Integrity, HeapInv, ClosedClean
<1> QED BY AlwaysIntegrity, <1>1, PTL

\* The pools hand out each slot once and get each one back once.
THEOREM PoolsAreSound == Spec => []PoolsSound
<1>1. SaneInv /\ Integrity => PoolsSound
  BY DEF Integrity, HeapInv, PoolsSound
<1> QED BY AlwaysIntegrity, <1>1, PTL

\* Every registered descriptor is held by the object it is registered with, and
\* every open one is registered unless connectServer's fcntl can fail.
THEOREM DescriptorsDoNotLeak == Spec => []NoDescriptorLeak
<1>1. SaneInv /\ Integrity => NoDescriptorLeak
  BY DEF Integrity, HeapInv, NoDescriptorLeak
<1> QED BY AlwaysIntegrity, <1>1, PTL

\* The identify timer runs for exactly the sessions that still connect.
THEOREM TimersMatchSessions == Spec => []IdentifyTimer
<1>1. SaneInv /\ Integrity => IdentifyTimer
  BY DEF Integrity, HeapInv, IdentifyTimer
<1> QED BY AlwaysIntegrity, <1>1, PTL

\* Bytes wait in a buffer only while their session connects.
THEOREM BufferComesFirst == Spec => []BufferFirst
<1>1. SaneInv /\ Integrity => BufferFirst
  BY DEF Integrity, HeapInv, BufferFirst
<1> QED BY AlwaysIntegrity, <1>1, PTL

\* No packet waits on a descriptor that EPOLLOUT is not asked for.
THEOREM NoWakeupIsLost == Spec => []NoLostWakeup
<1>1. SaneInv /\ Integrity => NoLostWakeup
  BY DEF Integrity, HeapInv, NoLostWakeup
<1> QED BY AlwaysIntegrity, <1>1, PTL

-----------------------------------------------------------------------------
(* Steps: no session is ever ended at one end only                          *)

LEMMA AcceptUntouched ==
    ASSUME NEW h, HeapInv(h, {}, {}, {}), NEW a \in Creatable(h, "accept"),
           NEW f \in Fds \ h.open, NEW g \in OnReceiveAccept(OpenAccept(h, a, f), a)
    PROVE  \E c \in Conns : Untouched(h, g, {a, c}) /\ h.fd[a] = NoFd /\ h.fd[c] = NoFd
<1>1. PICK e : e = OpenAccept(h, a, f)
  OBVIOUS
<1>2. HeapInv(e, {}, {a}, {}) /\ a \in Accepts
  BY <1>1, OpenAcceptInv
<1>3. PICK b : b = Create(h, a)
  OBVIOUS
<1>4. HeapInv(b, {}, {} \cup {a}, {}) /\ h.fd[a] = NoFd /\ a \in Conns
  BY <1>3, CreateInv DEF Kinds
<1>5. Untouched(h, e, {a})
  BY <1>1, <1>4, OpenAcceptUntouched DEF HeapInv
<1>6. PICK c \in Conns : Untouched(e, g, {a, c}) /\ (c = a \/ e.fd[c] = NoFd)
  BY <1>1, <1>2, OnReceiveAcceptAtomic
<1>7. Untouched(h, g, {a, c}) /\ h.fd[c] = NoFd
  BY <1>4, <1>5, <1>6 DEF Untouched
<1> QED BY <1>4, <1>7

\* A step of the accept loop leaves the connections that are open as they are.
LEMMA AcceptingTouchesNone ==
    ASSUME SaneInv, Integrity, ~misfired, AcceptDropped \/ AcceptConnection
    PROVE  \A o \in Conns : heap.fd[o] # NoFd =>
              /\ heap'.fd[o] = heap.fd[o] /\ heap'.partner[o] = heap.partner[o]
              /\ heap'.state[o] = heap.state[o]
<1>1. PICK h, g : h = heap /\ g = heap'
  OBVIOUS
<1>2. HeapInv(h, {}, {}, {})
  BY <1>1 DEF Integrity, AcceptDropped, AcceptConnection
<1>3. CASE g = h
  BY <1>1, <1>3
<1>4. CASE \E a \in Creatable(h, "accept") : g = OpenFails(h, a)
  <2>1. PICK a \in Creatable(h, "accept") : g = OpenFails(h, a)
    BY <1>4
  <2>2. Untouched(h, g, {a}) /\ h.fd[a] = NoFd
    BY <1>2, <2>1, OpenFailsUntouched DEF Kinds
  <2> QED BY <1>1, <2>2 DEF Untouched
<1>5. CASE AcceptConnection
  <2>1. PICK f \in Fds \ h.open, a \in Creatable(h, "accept") :
          g \in OnReceiveAccept(OpenAccept(h, a, f), a)
    BY <1>1, <1>5 DEF AcceptConnection
  <2>2. PICK c \in Conns : Untouched(h, g, {a, c}) /\ h.fd[a] = NoFd /\ h.fd[c] = NoFd
    BY <1>2, <2>1, AcceptUntouched
  <2> QED BY <1>1, <2>2 DEF Untouched
<1> QED BY <1>1, <1>3, <1>4, <1>5 DEF AcceptDropped

LEMMA NextAtomic ==
    ASSUME SaneInv, Integrity, [Next]_vars, ~misfired'
    PROVE  Atomic(heap, heap')
<1>1. PICK h, g, o : h = heap /\ g = heap' /\ o = Current
  OBVIOUS
<1>2. ~misfired
  BY DEF Next, vars, Wait, ListenerEvent, AcceptDropped, AcceptConnection, AcceptDone,
         AcceptOutOfFds, ConnectEvent, StaleConnectEvent, DataEvent, Read, ReadAgain, ReadEnd,
         Write, NoWrite, TimerUpdate, TimerCallback, Touch
<1>3. HeapInv(h, due, {}, {}) /\ (at # "timer" => HeapInv(h, {}, {}, {}))
      /\ (at = "writing" => h.fd[o] # NoFd)
  BY <1>1, <1>2 DEF Integrity
<1>4. h = g => Atomic(h, g)
  BY DEF Atomic
<1>5. CASE AcceptDropped \/ AcceptConnection
  BY <1>1, <1>2, <1>5, AcceptingTouchesNone DEF Atomic
<1>7. CASE ConnectEvent
  <2>1. o \in Clients /\ o \in Conns /\ h.fd[o] # NoFd
    BY <1>1, <1>7 DEF ConnectEvent, Conns
  <2>2. Atomic(h, Close(h, o))
    BY <1>3, <2>1, CloseAtomic
  <2> QED BY <1>1, <1>3, <1>4, <1>7, <2>1, <2>2, ReceiveClientAtomic DEF ConnectEvent
<1>8. CASE Read
  <2>1. o \in Conns /\ h.fd[o] # NoFd
    BY <1>1, <1>8 DEF Read, Touch, SaneInv, Handling
  <2> QED BY <1>1, <1>3, <1>8, <2>1, ReadDataAtomic DEF Read
<1>9. CASE ReadEnd
  <2>1. o \in Conns /\ h.fd[o] # NoFd
    BY <1>1, <1>9 DEF ReadEnd, Touch, SaneInv, Handling
  <2> QED BY <1>1, <1>3, <1>9, <2>1, CloseAtomic DEF ReadEnd
<1>10. CASE Write \/ NoWrite
  <2>1. at = "writing" /\ o \in Conns
    BY <1>1, <1>10 DEF Write, NoWrite, SaneInv, Handling
  <2>2. g \in EpollOut(h, o) \cup {EpollCheck(h, o), Close(h, o)}
    BY <1>1, <1>10 DEF Write, NoWrite
  <2> QED BY <1>1, <1>3, <2>1, <2>2, EpollOutAtomic
<1>11. CASE TimerUpdate
  BY <1>1, <1>3, <1>11 DEF TimerUpdate, Atomic, HeapInv, Heaps
<1>12. CASE TimerCallback
  <2>1. PICK a \in due : g = Close(h, a) /\ Touch(a)
    BY <1>1, <1>12 DEF TimerCallback
  <2>2. a \in Conns /\ h.fd[a] # NoFd
    BY <1>1, <1>3, <2>1 DEF Touch, HeapInv
  <2> QED BY <1>1, <1>3, <2>1, <2>2, CloseAtomic
<1>13. CASE \/ Wait \/ ListenerEvent \/ AcceptDone \/ AcceptOutOfFds \/ StaleConnectEvent
            \/ DataEvent \/ ReadAgain \/ UNCHANGED vars
  BY <1>1, <1>4, <1>13
     DEF Wait, ListenerEvent, AcceptDone, AcceptOutOfFds, StaleConnectEvent, Touch,
         DataEvent, ReadAgain, vars
<1> QED
  BY <1>1, <1>5, <1>7, <1>8, <1>9, <1>10, <1>11, <1>12, <1>13 DEF Next

\* A step that closes one end of a session closes the other with it, and no step
\* gives an open connection another partner or takes it back to connecting.
THEOREM SessionsEndWhole == Spec => SessionsAtomic
<1>1. SaneInv /\ Integrity /\ [Next]_vars => [SessionStep]_vars
  BY NextAtomic DEF SessionStep, Atomic
<1> QED BY AlwaysIntegrity, <1>1, PTL DEF Spec, SessionsAtomic

-----------------------------------------------------------------------------
(* Where misfires come from                                                 *)

\* Whatever an event of the batch refers to is open, or has been closed for a reason
\* the history knows of.
Known ==
    /\ at \in {"wait", "timer"} => batch = <<>>
    /\ ~misfired =>
        \A i \in DOMAIN batch :
            batch[i].obj \in Conns => heap.fd[batch[i].obj] # NoFd \/ batch[i].obj \in shut

\* The objects of the events in b are open, or in S.
Covered(b, h, S) ==
    \A i \in DOMAIN b : b[i].obj \in Conns => h.fd[b[i].obj] # NoFd \/ b[i].obj \in S

\* What is left of a batch is part of it.
LEMMA TailCovered ==
    ASSUME NEW b \in Seq(Events), b # <<>>, NEW h, NEW S, Covered(b, h, S)
    PROVE  Covered(Tail(b), h, S)
<1>1. ASSUME NEW i \in DOMAIN Tail(b)
      PROVE  i + 1 \in DOMAIN b /\ Tail(b)[i] = b[i + 1]
  BY <1>1
<1> QED BY <1>1 DEF Covered

\* A handler that has run to its end has put what it closed into shut.
LEMMA EventCovered ==
    ASSUME SaneInv, Known, NextEvent, batch # <<>>, ~misfired
    PROVE  Covered(batch', heap', shut')
<1>1. batch \in Seq(Events) /\ Covered(batch, heap, shut)
  BY DEF SaneInv, TypeOK, Known, Covered
<1>2. Covered(batch', heap, shut)
  BY <1>1, TailCovered DEF NextEvent
<1> QED BY <1>2 DEF Covered, NextEvent, Shutting

LEMMA NextKnown ==
    ASSUME SaneInv, Integrity, Known, [Next]_vars
    PROVE  Known'
<1>0. batch \in Seq(Events) /\ heap \in Heaps /\ SaneInv'
  BY NextSane DEF SaneInv, TypeOK
<1>1. SUFFICES ASSUME ~misfired'
               PROVE  /\ at' \in {"wait", "timer"} => batch' = <<>>
                      /\ Covered(batch', heap', shut')
  <2>1. CASE misfired'
    <3>1. at' \in {"wait", "timer"} => batch' = <<>>
      BY DEF Known, Next, vars, Wait, ListenerEvent, AcceptDropped, AcceptConnection, AcceptDone,
             AcceptOutOfFds, ConnectEvent, StaleConnectEvent, DataEvent, Read, ReadAgain, ReadEnd,
             Write, NoWrite, TimerUpdate, TimerCallback, NextEvent
    <3> QED BY <2>1, <3>1 DEF Known
  <2> QED BY <1>1, <2>1 DEF Known, Covered
<1>2. ~misfired
  BY <1>1 DEF Next, vars, Wait, ListenerEvent, AcceptDropped, AcceptConnection, AcceptDone,
         AcceptOutOfFds, ConnectEvent, StaleConnectEvent, DataEvent, Read, ReadAgain, ReadEnd,
         Write, NoWrite, TimerUpdate, TimerCallback, Touch
<1>3. Covered(batch, heap, shut) /\ (at \in {"wait", "timer"} => batch = <<>>)
  BY <1>2 DEF Known, Covered
<1>4. CASE Wait
  <2> DEFINE Watched == {g \in Fds : heap.watch[g] # Null} \cup (IF listening THEN {NoFd} ELSE {})
             event(f) == IF f = NoFd THEN [obj |-> Listening, out |-> FALSE] ELSE Report(f)
  <2>1. PICK n \in 0 .. MaxEvents :
          \E fs \in [1 .. n -> Watched] : batch' = [i \in 1 .. n |-> event(fs[i])]
    BY <1>4 DEF Wait
  <2>2. PICK fs \in [1 .. n -> Watched] : batch' = [i \in 1 .. n |-> event(fs[i])]
    BY <2>1
  <2>3. \A f \in Fds : heap.watch[f] # Null => heap.fd[heap.watch[f]] = f
    BY <1>2, <1>4 DEF Wait, Integrity, HeapInv, OpenHeld
  <2>4. ASSUME NEW f \in Watched, event(f).obj \in Conns
        PROVE  heap.fd[event(f).obj] # NoFd
    <3>1. f # NoFd
      BY <2>4, ProxyAssumption
    <3>2. f \in Fds /\ heap.watch[f] # Null
      BY <3>1
    <3> QED BY <3>1, <3>2, <2>3, SessionsAssumption DEF Report
  <2>5. ASSUME NEW i \in DOMAIN batch', batch'[i].obj \in Conns
        PROVE  heap.fd[batch'[i].obj] # NoFd
    <3> HIDE DEF event, Watched
    <3>1. i \in 1 .. n /\ fs[i] \in Watched /\ batch'[i] = event(fs[i])
      BY <2>2, <2>5
    <3> QED BY <2>4, <2>5, <3>1
  <2> QED BY <1>4, <2>5 DEF Wait, Covered
<1>5. CASE ListenerEvent \/ UNCHANGED vars
  BY <1>3, <1>5 DEF ListenerEvent, vars
<1>6. CASE AcceptDropped \/ AcceptConnection
  <2>1. \A o \in Conns : heap.fd[o] # NoFd => heap'.fd[o] # NoFd
    BY <1>2, <1>6, AcceptingTouchesNone
  <2> QED BY <1>3, <1>6, <2>1 DEF AcceptDropped, AcceptConnection, Covered
<1>7. CASE \/ AcceptDone \/ AcceptOutOfFds \/ ConnectEvent \/ StaleConnectEvent \/ ReadEnd
           \/ Write \/ NoWrite
  <2>1. NextEvent /\ batch # <<>>
    BY <1>7 DEF AcceptDone, AcceptOutOfFds, ConnectEvent, StaleConnectEvent, ReadEnd,
                Write, NoWrite, SaneInv, Handling
  <2>2. Covered(batch', heap', shut')
    BY <1>2, <2>1, EventCovered
  <2> QED BY <2>1, <2>2 DEF NextEvent
<1>8. CASE DataEvent \/ ReadAgain
  BY <1>3, <1>8 DEF DataEvent, ReadAgain
<1>9. CASE Read
  BY <1>3, <1>9 DEF Read, Shutting, Covered
<1>10. CASE TimerUpdate \/ TimerCallback
  <2>1. batch = <<>> /\ batch' = batch
    BY <1>3, <1>10 DEF TimerUpdate, TimerCallback
  <2> QED BY <2>1 DEF Covered
<1> QED
  BY <1>4, <1>5, <1>6, <1>7, <1>8, <1>9, <1>10 DEF Next

\* However many events a batch has and whatever fails, a handler runs on a closed object
\* only because the handler of an earlier event of the batch, or a write of the running
\* read loop, has closed it (epoll.h:126-130, accept.cpp:203-205).
THEOREM MisfiresAreStale == Spec => OnlyStaleMisfire
<1>1. Init => Known
  BY DEF Init, Known
<1>2. SaneInv /\ Integrity /\ Known /\ [Next]_vars => Known'
  BY NextKnown
<1>3. SaneInv /\ Integrity /\ Known /\ [Next]_vars => [MisfireStep]_vars
  <2> SUFFICES ASSUME SaneInv, Integrity, Known, Next, ~misfired, misfired'
               PROVE  at # "timer" /\ Current \in shut
    BY DEF MisfireStep
  <2>1. CASE TimerCallback
    <3>1. PICK a \in due : Touch(a)
      BY <2>1 DEF TimerCallback
    <3>2. a \in Conns /\ heap.fd[a] # NoFd
      BY <3>1 DEF Integrity, HeapInv, Timed, Connecting
    <3> QED BY <3>1, <3>2 DEF Touch
  <2>2. CASE StaleConnectEvent \/ DataEvent \/ Read \/ ReadAgain \/ ReadEnd
    <3>1. /\ at # "timer" /\ batch # <<>> /\ Current \in Conns
          /\ Touch(Current)
      BY <2>2 DEF StaleConnectEvent, DataEvent, Read, ReadAgain, ReadEnd, SaneInv, Handling, Conns
    <3>2. 1 \in DOMAIN batch /\ batch[1].obj = Current
      BY <3>1 DEF SaneInv, TypeOK, Current
    <3> QED BY <3>1, <3>2 DEF Known, Touch
  <2> QED
    BY <2>1, <2>2 DEF Next, Wait, ListenerEvent, AcceptDropped, AcceptConnection, AcceptDone,
       AcceptOutOfFds, ConnectEvent, Write, NoWrite, TimerUpdate
<1> QED BY AlwaysIntegrity, <1>1, <1>2, <1>3, PTL DEF Spec, OnlyStaleMisfire

=============================================================================
