------------------------------- MODULE Proxy -------------------------------
(***************************************************************************)
(* The event loop: one thread runs Proxy::update, which takes a batch of   *)
(* events from epoll_wait (Epoll::update), runs the handler of each        *)
(* event's object in turn, then calls the timers that are due              *)
(* (Timer::update), for ever.  What the handlers do to the connections is  *)
(* defined in Sessions; here is when they run, and on what.                *)
(*                                                                         *)
(* The kernel is a nondeterministic environment: any registered descriptor *)
(* may be reported, with any events asked for, and each system call gives  *)
(* any of the results the code tells apart.  The loops of                  *)
(* Listener::epollActive and Accept::epollIn are one step per iteration.   *)
(***************************************************************************)
EXTENDS Sessions

CONSTANTS
    Listening,      \* the one Listener object
    MaxEvents       \* MAX_WAIT_EVENT_SIZE

ASSUME ProxyAssumption ==
    /\ Listening \notin Conns \cup {Null}
    /\ MaxEvents \in Nat \ {0}

VARIABLES
    heap,       \* the connections, see Heaps
    listening,  \* the Listener's socket is open and registered
    batch,      \* the events of this Epoll::update not handled yet
    at,         \* where the thread is, see Places
    due,        \* objects Timer::update has taken off their list and not called yet
    desIndex,   \* m_desIndex
    misfired,   \* history: a handler has run on an object that holds no descriptor
    shut        \* history: the connections with events in the batch that the handler of
                \* an earlier one, or a write of the running read loop, has closed

vars == <<heap, listening, batch, at, due, desIndex, misfired, shut>>

\* "wait": in epoll_wait.  "event": about to handle Head(batch), or done with the
\* batch.  "accepting", "reading": in the loop of Listener::epollActive, of
\* Accept::epollIn.  "writing": past epollIn.  "timer": calling the due timers.
Places == {"wait", "event", "accepting", "reading", "writing", "timer"}

\* An event holds the pointer registered with its descriptor and whether EPOLLOUT
\* was asked for when it was reported.
Events == [obj : Conns \cup {Listening}, out : BOOLEAN]

TypeOK ==
    /\ heap \in Heaps
    /\ listening \in BOOLEAN
    /\ batch \in Seq(Events)
    /\ at \in Places
    /\ due \subseteq Conns
    /\ desIndex \in 0 .. Destinations
    /\ misfired \in BOOLEAN
    /\ shut \subseteq Conns

Init ==
    /\ heap = EmptyHeap
    /\ listening = TRUE
    /\ batch = <<>>
    /\ at = "wait"
    /\ due = {}
    /\ desIndex = 0
    /\ misfired = FALSE
    /\ shut = {}

-----------------------------------------------------------------------------
(* Epoll::update                                                           *)

\* What epoll_wait may report of descriptor f, or of the Listener's.
Report(f) == [obj |-> heap.watch[f], out |-> f \in heap.armed]

\* epoll_wait returns: each registered descriptor at most once, in any order, and
\* no more than MaxEvents of them; none when the timeout of the timers ran out.
\* (Two descriptors registered with the same object give two equal events.)
Wait ==
    /\ at = "wait"
    /\ \E n \in 0 .. MaxEvents :
        \E fs \in [1 .. n -> {g \in Fds : heap.watch[g] # Null}
                             \cup (IF listening THEN {NoFd} ELSE {})] :
          /\ \A i, j \in 1 .. n : i # j => fs[i] # fs[j]
          /\ batch' = [i \in 1 .. n |-> IF fs[i] = NoFd
                                        THEN [obj |-> Listening, out |-> FALSE]
                                        ELSE Report(fs[i])]
    /\ at' = "event"
    /\ UNCHANGED <<heap, listening, due, desIndex, misfired, shut>>

Current == Head(batch).obj

\* The connections closed by this step that events of the batch still refer to.
Shutting ==
    {o \in Conns : /\ heap.fd[o] # NoFd /\ heap'.fd[o] = NoFd
                   /\ \E i \in DOMAIN batch' : batch'[i].obj = o}

\* The current event has been handled: "continue", or the end of the for body.
NextEvent ==
    /\ batch' = Tail(batch)
    /\ at' = "event"
    /\ shut' = (shut \cup Shutting) \cap {batch'[i].obj : i \in DOMAIN batch'}

\* A handler runs on o.
Touch(o) == misfired' = (misfired \/ heap.fd[o] = NoFd)

-----------------------------------------------------------------------------
(* Listener::epollActive                                                   *)

ListenerEvent ==
    /\ at = "event" /\ batch # <<>> /\ Current = Listening
    /\ at' = "accepting"
    /\ UNCHANGED <<heap, listening, batch, due, desIndex, misfired, shut>>

\* accept returned a descriptor and onAcceptSocket ran without opening a session:
\* the pool is at its limit, or the descriptor could not be set up.
AcceptDropped ==
    /\ at = "accepting" /\ Fds \ heap.open # {}
    /\ \/ Creatable(heap, "accept") = {} /\ heap' = heap
       \/ /\ "setup" \in Faults
          /\ \E a \in Creatable(heap, "accept") : heap' = OpenFails(heap, a)
    /\ UNCHANGED <<listening, batch, at, due, desIndex, misfired, shut>>

NextDesIndexPastEnd == IF desIndex > Destinations THEN 1 ELSE desIndex + 1

\* getNextDestination: m_desIndex after it, one past the destination it names.
NextDesIndex == IF desIndex >= Destinations THEN 1 ELSE desIndex + 1

\* accept returned f: openAccept, then onReceiveAccept, which asks for the next
\* destination unless the object has a partner already.
AcceptConnection ==
    /\ at = "accepting"
    /\ \E f \in Fds \ heap.open, a \in Creatable(heap, "accept") :
        LET h == OpenAccept(heap, a, f) IN
        /\ heap' \in OnReceiveAccept(h, a)
        /\ desIndex' = IF h.partner[a] = Null /\ Destinations # 0
                       THEN NextDesIndex ELSE desIndex
    /\ UNCHANGED <<listening, batch, at, due, misfired, shut>>

\* accept would block: epollCheck asks for EPOLLIN again.
AcceptDone ==
    /\ at = "accepting" /\ Fds \ heap.open # {}
    /\ UNCHANGED <<heap, listening, due, desIndex, misfired>>
    /\ NextEvent

\* accept failed with EMFILE, one of the errors of the default branch: the
\* Listener is removed.
AcceptOutOfFds ==
    /\ at = "accepting" /\ Fds \subseteq heap.open
    /\ listening' = FALSE
    /\ UNCHANGED <<heap, due, desIndex, misfired>>
    /\ NextEvent

-----------------------------------------------------------------------------
(* Client::epollActive, before the connection is established               *)

\* SO_ERROR tells: connected, failed, or (EINTR, EINPROGRESS) not yet.
ConnectEvent ==
    /\ at = "event" /\ batch # <<>> /\ Current \in Clients
    /\ heap.state[Current] # "OK" /\ heap.fd[Current] # NoFd
    /\ heap' \in ReceiveClient(heap, Current) \cup {Close(heap, Current), heap}
    /\ NextEvent
    /\ UNCHANGED <<listening, due, desIndex, misfired>>

\* The event of a Client closed earlier in the batch: getsockopt fails on what
\* m_fd = 0 names and epollRemove runs.  error was never written, so whatever it
\* holds decides whether the handler stops there, closes again, or goes on as if
\* the connection were established.
StaleConnectEvent ==
    /\ at = "event" /\ batch # <<>> /\ Current \in Clients
    /\ heap.state[Current] # "OK" /\ heap.fd[Current] = NoFd
    /\ LET h == Close(heap, Current) IN
       heap' \in {h, Close(h, Current)} \cup ReceiveClient(h, Current)
    /\ Touch(Current)
    /\ NextEvent
    /\ UNCHANGED <<listening, due, desIndex>>

-----------------------------------------------------------------------------
(* Accept::epollIn, epollOut, epollRemove and epollCheck                   *)

\* An Accept's event, or an established Client's, with EPOLLIN or without.
DataEvent ==
    /\ at = "event" /\ batch # <<>> /\ Current \in Conns
    /\ Current \in Clients => heap.state[Current] = "OK"
    /\ at' \in {"reading", "writing"}
    /\ Touch(Current)
    /\ UNCHANGED <<heap, listening, batch, due, desIndex, shut>>

\* readSocket returns 0, and the loop of epollIn goes round again, on whatever
\* m_fd is by then: sendPacket may have closed this very object.
Read ==
    /\ at = "reading"
    /\ heap' \in ReadData(heap, Current)
    /\ Touch(Current)
    /\ UNCHANGED <<listening, batch, at, due, desIndex>>
    /\ shut' = shut \cup Shutting

\* read would block or was interrupted.
ReadAgain ==
    /\ at = "reading"
    /\ at' = "writing"
    /\ Touch(Current)
    /\ UNCHANGED <<heap, listening, batch, due, desIndex, shut>>

ReadEndLooping ==
    /\ at = "reading"
    /\ heap' = Close(heap, Current)
    /\ Touch(Current)
    /\ UNCHANGED <<listening, batch, at, due, desIndex, shut>>

\* read found the end of the stream, or failed.
ReadEnd ==
    /\ at = "reading"
    /\ heap' = Close(heap, Current)
    /\ Touch(Current)
    /\ NextEvent
    /\ UNCHANGED <<listening, due, desIndex>>

\* EPOLLOUT was reported.
Write ==
    /\ at = "writing" /\ Head(batch).out
    /\ heap' \in EpollOut(heap, Current)
    /\ NextEvent
    /\ UNCHANGED <<listening, due, desIndex, misfired>>

\* EPOLLOUT was not reported: EPOLLERR closes the session, else epollCheck.
NoWrite ==
    /\ at = "writing"
    /\ heap' \in {EpollCheck(heap, Current), Close(heap, Current)}
    /\ NextEvent
    /\ UNCHANGED <<listening, due, desIndex, misfired>>

-----------------------------------------------------------------------------
(* Timer::update                                                           *)

\* The batch is done.  The objects whose time has come leave their list together;
\* clearTimer does nothing for them from here on.
TimerUpdate ==
    /\ at = "event" /\ batch = <<>>
    /\ due' \in SUBSET heap.timer
    /\ heap' = [heap EXCEPT !.timer = @ \ due']
    /\ at' = IF due' = {} THEN "wait" ELSE "timer"
    /\ UNCHANGED <<listening, batch, desIndex, misfired, shut>>

\* checkAcceptIdentify: close the session, and no new timer.
TimerCallback ==
    /\ at = "timer"
    /\ \E a \in due :
        /\ due' = due \ {a}
        /\ heap' = Close(heap, a)
        /\ Touch(a)
    /\ at' = IF due' = {} THEN "wait" ELSE "timer"
    /\ UNCHANGED <<listening, batch, desIndex, shut>>

-----------------------------------------------------------------------------
Next ==
    \/ Wait \/ ListenerEvent
    \/ AcceptDropped \/ AcceptConnection \/ AcceptDone \/ AcceptOutOfFds
    \/ ConnectEvent \/ StaleConnectEvent
    \/ DataEvent \/ Read \/ ReadAgain \/ ReadEnd \/ Write \/ NoWrite
    \/ TimerUpdate \/ TimerCallback

Spec == Init /\ [][Next]_vars

-----------------------------------------------------------------------------
(* Safety.  A handler that runs on an object holding no descriptor can break *)
(* every one of these (see SharedClient), so they are stated for as long as  *)
(* none has.                                                               *)

\* Sessions have exactly two ends that know each other: closing one closes the
\* other, and bytes go to the peer they were meant for.
SessionsPaired == ~misfired => Paired(heap, {})

\* A closed object carries nothing into the next session it is opened for.
ClosedClean == ~misfired => Clean(heap)

\* The pools give out each slot at most once and lose none.
PoolsSound == ~misfired => Pooled(heap, {})

\* No descriptor leaks: what is open is reachable from the object that will
\* close it.
NoDescriptorLeak == ~misfired => OpenHeld(heap)

\* The identify timer is running for a session whose Client has not connected,
\* so that it is closed after CONNECT_IDENTIFY_TIME, and for no other, so that
\* an established session is never closed by it.
IdentifyTimer == ~misfired => Connected(heap, {}) /\ Timed(heap, due, {})

\* Bytes received before the Client is connected are sent before any later ones.
BufferFirst == ~misfired => Buffered(heap, {})

\* Packets are queued only while EPOLLOUT is asked for: none waits for ever.
NoLostWakeup == ~misfired => QueuesArmed(heap)

\* Whatever the handlers run on, no two objects hold the same descriptor, and
\* none holds a closed one.
DescriptorsExclusive == HeldOpen(heap)

\* What no step may do: end one half of a session, or change the partner of an
\* open connection, or take an established connection back to connecting.
SessionStep ==
    \A o \in Conns : ~misfired' /\ heap.fd[o] # NoFd =>
        IF heap'.fd[o] = heap.fd[o]
        THEN /\ heap'.partner[o] = heap.partner[o]
             /\ heap.state[o] = "OK" => heap'.state[o] = "OK"
        ELSE heap'.fd[o] = NoFd /\ heap'.fd[heap.partner[o]] = NoFd
SessionsAtomic == [][SessionStep]_vars

\* Two Accepts never share a Client.  (They do after a misfire.)
OneClientPerAccept ==
    \A a, b \in Accepts : heap.partner[a] = heap.partner[b] => a = b \/ heap.partner[a] = Null

\* A handler runs on a closed object only for an event that epoll_wait returned before
\* the closing, and only if the handler of an earlier event of that batch closed it, or
\* a write of the very read loop that goes on.  No timer calls a closed object, and no
\* pointer to one is left with epoll when the batch is done.
MisfireStep == ~misfired /\ misfired' => at # "timer" /\ Current \in shut
OnlyStaleMisfire == [][MisfireStep]_vars

\* The Listener is never removed: nothing opens it again.
ListenerKept == listening

-----------------------------------------------------------------------------
(* Liveness                                                                *)

\* The thread never stops running, and the loops that wait for the kernel to have
\* nothing more end: a peer does not send, and the backlog does not fill, faster
\* than the thread takes.
Progress ==
    /\ WF_vars(Wait) /\ WF_vars(ListenerEvent)
    /\ WF_vars(AcceptDone \/ AcceptOutOfFds)
    /\ WF_vars(ConnectEvent \/ StaleConnectEvent \/ DataEvent)
    /\ WF_vars(ReadAgain \/ ReadEnd) /\ WF_vars(Write \/ NoWrite)
    /\ WF_vars(TimerUpdate) /\ WF_vars(TimerCallback)

\* A timer that keeps running is found due by some Timer::update.
Expires(a) == TimerUpdate /\ a \in due'
Fairness == Progress /\ \A a \in Accepts : SF_vars(Expires(a))

FairSpec == Spec /\ Fairness

\* A session whose Client does not connect is closed: it never holds its two slots
\* and descriptors for good.
IdentifiedOrClosed ==
    \A a \in Accepts : Connecting(heap, a) ~> ~Connecting(heap, a)

=============================================================================
