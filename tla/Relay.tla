------------------------------- MODULE Relay -------------------------------
(***************************************************************************)
(* The data path of one session: what its Accept (the end "front") and its *)
(* Client (the end "back") read, buffer, queue and write, byte by byte,    *)
(* from the opening of the Client to the closing of both.                  *)
(*                                                                         *)
(* The kernel's part is modelled as the code depends on it: bytes received *)
(* and not yet read, room in the send buffer, and edge-triggered events.   *)
(* An end is reported by epoll_wait once after each edge, with the events  *)
(* that are true of it then and that were asked for: a byte, an end of     *)
(* stream, room after there was none, a connection made or refused, and    *)
(* each epoll_ctl that finds one of these true, make an edge.              *)
(*                                                                         *)
(* The packets of a queue are kept as the bytes in them.  Events on other  *)
(* sessions only make epoll_wait return some of the ends that are ready.   *)
(* What a handler does on an end that its batch has closed already is the  *)
(* subject of Proxy: here a closed session is over.                        *)
(***************************************************************************)
EXTENDS Naturals, Sequences

CONSTANTS
    Bytes,
    MaxSent,        \* bound: bytes each peer sends
    RecvSize,       \* size of recvBuffer
    SendSize,       \* size of a socket's send buffer
    Interrupts      \* whether read and write may give EINTR

ASSUME RelayAssumption ==
    /\ MaxSent \in Nat
    /\ RecvSize \in Nat \ {0}
    /\ SendSize \in Nat \ {0}
    /\ Interrupts \in BOOLEAN

VARIABLES
    (* the peers and the kernel *)
    sent,       \* sent[e]: bytes the peer of end e has sent
    got,        \* got[e]: bytes written to end e
    rx,         \* rx[e]: bytes that have arrived at end e and are not read
    eof,        \* the ends whose peer has closed
    room,       \* room[e]: bytes that write takes at end e
    link,       \* the Client's connection: "pending", "up" or "refused"
    edge,       \* the ends epoll_wait is to report
    (* the process *)
    phase,      \* "connecting": the Client's CS_CONNECT_START; "relaying"; "closed"
    buffer,     \* m_pBuffer of the Accept
    queue,      \* m_packetQueue of each end, as bytes
    armed,      \* the ends that EPOLLOUT is asked for
    reported,   \* reported[e]: the events of end e in the current batch
    at,         \* "wait", "event", "reading" or "writing"
    cur         \* the end whose event is being handled

peers == <<sent, got, rx, eof, room, link, edge>>
vars == <<sent, got, rx, eof, room, link, edge,
          phase, buffer, queue, armed, reported, at, cur>>

Ends == {"front", "back"}
Other(e) == IF e = "front" THEN "back" ELSE "front"
Events == {"IN", "OUT"}

TypeOK ==
    /\ sent \in [Ends -> Seq(Bytes)] /\ got \in [Ends -> Seq(Bytes)]
    /\ rx \in [Ends -> Seq(Bytes)] /\ queue \in [Ends -> Seq(Bytes)]
    /\ buffer \in Seq(Bytes)
    /\ eof \subseteq Ends /\ edge \subseteq Ends /\ armed \subseteq Ends
    /\ room \in [Ends -> 0 .. SendSize]
    /\ link \in {"pending", "up", "refused"}
    /\ phase \in {"connecting", "relaying", "closed"}
    /\ reported \in [Ends -> SUBSET Events]
    /\ at \in {"wait", "event", "reading", "writing"}
    /\ cur \in Ends

\* onReceiveAccept has opened the session: the Client is registered for EPOLLIN and
\* EPOLLOUT and connecting.
Init ==
    /\ sent = [e \in Ends |-> <<>>] /\ got = [e \in Ends |-> <<>>]
    /\ rx = [e \in Ends |-> <<>>] /\ queue = [e \in Ends |-> <<>>]
    /\ buffer = <<>>
    /\ eof = {} /\ edge = {} /\ armed = {"back"}
    /\ room = [e \in Ends |-> SendSize]
    /\ link = "pending" /\ phase = "connecting"
    /\ reported = [e \in Ends |-> {}]
    /\ at = "wait" /\ cur = "front"

First(s, n) == SubSeq(s, 1, n)
Rest(s, n) == SubSeq(s, n + 1, Len(s))
Least(m, n) == IF m <= n THEN m ELSE n

Up(e) == e = "front" \/ link = "up"
Readable(e) == rx[e] # <<>> \/ e \in eof

\* The events of end e that are true and asked for.  A refused connection has
\* them all.
Poll(e) ==
    {ev \in Events :
        \/ ev = "IN" /\ Readable(e)
        \/ ev = "OUT" /\ e \in armed /\ room[e] > 0 /\ Up(e)
        \/ e = "back" /\ link = "refused"}

-----------------------------------------------------------------------------
(* The peers and the network                                               *)

Process == <<phase, buffer, queue, armed, reported, at, cur>>

Arrive(e) ==
    /\ phase # "closed" /\ Up(e) /\ e \notin eof /\ Len(sent[e]) < MaxSent
    /\ \E b \in Bytes :
          /\ sent' = [sent EXCEPT ![e] = Append(@, b)]
          /\ rx' = [rx EXCEPT ![e] = Append(@, b)]
    /\ edge' = edge \cup {e}
    /\ UNCHANGED <<got, eof, room, link>> /\ UNCHANGED Process

\* The peer closes its side of the connection, or all of it.
Finish(e) ==
    /\ phase # "closed" /\ Up(e) /\ e \notin eof
    /\ eof' = eof \cup {e}
    /\ edge' = edge \cup {e}
    /\ UNCHANGED <<sent, got, rx, room, link>> /\ UNCHANGED Process

\* The peer takes bytes out of the way.
Drain(e) ==
    /\ phase # "closed" /\ room[e] < SendSize
    /\ \E r \in room[e] + 1 .. SendSize : room' = [room EXCEPT ![e] = r]
    /\ edge' = IF room[e] = 0 /\ e \in armed THEN edge \cup {e} ELSE edge
    /\ UNCHANGED <<sent, got, rx, eof, link>> /\ UNCHANGED Process

\* The connection to the destination is made, or refused.
Establish ==
    /\ phase = "connecting" /\ link = "pending"
    /\ link' \in {"up", "refused"}
    /\ edge' = edge \cup {"back"}
    /\ UNCHANGED <<sent, got, rx, eof, room>> /\ UNCHANGED Process

-----------------------------------------------------------------------------
(* Closing and sending, as the handlers do them                            *)

\* epollRemove of either end: both are closed, and what they still hold is dropped.
CloseSession ==
    /\ phase' = "closed"
    /\ buffer' = <<>>
    /\ queue' = [e \in Ends |-> <<>>]
    /\ armed' = {} /\ edge' = {}
    /\ reported' = [e \in Ends |-> {}]
    /\ rx' = [e \in Ends |-> <<>>]
    /\ at' = "wait"
    /\ UNCHANGED <<sent, got, eof, room, link, cur>>

\* How many of n bytes write takes at end e: what there is room for, or fewer if a
\* signal comes.
Written(e, n) ==
    LET most == Least(room[e], n) IN IF Interrupts THEN 0 .. most ELSE {most}

\* A write fails for good once the peer is gone.
WriteFails(e) == e \in eof

WriteOutUntrimmed(e, data, k) ==
    /\ got' = [got EXCEPT ![e] = @ \o First(data, k)]
    /\ room' = [room EXCEPT ![e] = @ - k]
    /\ queue' = [queue EXCEPT ![e] = IF k = Len(data) THEN <<>> ELSE data]

\* k bytes of data go to end e; the rest is its queue.
WriteOut(e, data, k) ==
    /\ got' = [got EXCEPT ![e] = @ \o First(data, k)]
    /\ room' = [room EXCEPT ![e] = @ - k]
    /\ queue' = [queue EXCEPT ![e] = Rest(data, k)]

\* objectChange(e, EPOLLIN | EPOLLOUT) after a write of e: an edge if either is true.
ArmAfterWrite(e) ==
    /\ armed' = armed \cup {e}
    /\ edge' = IF Readable(e) \/ room'[e] > 0 THEN edge \cup {e} ELSE edge

SendPacketOvertaking(e, data) ==
    \E k \in Written(e, Len(data)) :
        /\ got' = [got EXCEPT ![e] = @ \o First(data, k)]
        /\ room' = [room EXCEPT ![e] = @ - k]
        /\ queue' = [queue EXCEPT ![e] = @ \o Rest(data, k)]
        /\ IF k = Len(data) THEN UNCHANGED <<armed, edge>> ELSE ArmAfterWrite(e)

SendPacketUnarmed(e, data) ==
    IF queue[e] # <<>>
    THEN /\ queue' = [queue EXCEPT ![e] = @ \o data]
         /\ UNCHANGED <<got, room, armed, edge>>
    ELSE \E k \in Written(e, Len(data)) :
            WriteOut(e, data, k) /\ UNCHANGED <<armed, edge>>

\* sendPacket, unless its write fails: behind a queue the data only joins it.
SendPacket(e, data) ==
    IF queue[e] # <<>>
    THEN /\ queue' = [queue EXCEPT ![e] = @ \o data]
         /\ UNCHANGED <<got, room, armed, edge>>
    ELSE \E k \in Written(e, Len(data)) :
            /\ WriteOut(e, data, k)
            /\ IF k = Len(data) THEN UNCHANGED <<armed, edge>> ELSE ArmAfterWrite(e)

SendPacketFails(e) ==
    /\ queue[e] = <<>> /\ WriteFails(e)
    /\ CloseSession

-----------------------------------------------------------------------------
(* The event loop                                                          *)

\* epoll_wait reports some of the ends that are ready, each with what is true then.
Wait ==
    /\ at = "wait" /\ phase # "closed"
    /\ \E es \in (SUBSET edge) \ {{}} :
          /\ reported' = [e \in Ends |-> IF e \in es THEN Poll(e) ELSE {}]
          /\ edge' = edge \ es
    /\ at' = "event"
    /\ UNCHANGED <<sent, got, rx, eof, room, link, phase, buffer, queue, armed, cur>>

\* The batch is done.
EndBatch ==
    /\ at = "event" /\ \A e \in Ends : reported[e] = {}
    /\ at' = "wait"
    /\ UNCHANGED peers /\ UNCHANGED <<phase, buffer, queue, armed, reported, cur>>

\* Epoll::update on an event of end e that epollActive leaves to it: epollIn if
\* there is something to read, then the rest.
Event(e) ==
    /\ at = "event" /\ reported[e] # {}
    /\ e = "front" \/ phase = "relaying"
    /\ cur' = e
    /\ at' = IF "IN" \in reported[e] THEN "reading" ELSE "writing"
    /\ UNCHANGED peers /\ UNCHANGED <<phase, buffer, queue, armed, reported>>

Handled(e) == reported' = [reported EXCEPT ![e] = {}]

ConnectEvent == at = "event" /\ reported["back"] # {} /\ phase = "connecting"

\* Client::epollActive, connected: receiveClient sends the buffer, and the event is
\* done with, whatever else it says.
Connect ==
    /\ ConnectEvent /\ link = "up"
    /\ phase' = "relaying"
    /\ buffer' = <<>>
    /\ IF buffer = <<>> THEN UNCHANGED <<got, room, queue, armed, edge>>
       ELSE SendPacket("back", buffer)
    /\ Handled("back")
    /\ UNCHANGED <<sent, rx, eof, link, at, cur>>

\* Client::epollActive when the connection is refused, or breaks as the buffer is
\* sent.
ConnectFails ==
    /\ ConnectEvent
    /\ \/ link = "refused" /\ CloseSession
       \/ link = "up" /\ buffer # <<>> /\ SendPacketFails("back")

\* checkAcceptIdentify: the Client has not connected in time.
IdentifyTimeout ==
    /\ at = "wait" /\ phase = "connecting"
    /\ CloseSession

-----------------------------------------------------------------------------
(* epollIn: readSocket until it returns other than 0                       *)

\* What the current end's data goes to: its partner if that is connected.
Relaying == cur = "back" \/ phase = "relaying"

Chunk == First(rx[cur], Least(RecvSize, Len(rx[cur])))

ReadSome ==
    /\ at = "reading" /\ rx[cur] # <<>>
    /\ rx' = [rx EXCEPT ![cur] = Rest(@, Len(Chunk))]
    /\ IF Relaying
       THEN SendPacket(Other(cur), Chunk) /\ UNCHANGED buffer
       ELSE /\ buffer' = buffer \o Chunk
            /\ UNCHANGED <<got, room, queue, armed, edge>>
    /\ UNCHANGED <<sent, eof, link, phase, reported, at, cur>>

\* The partner's write fails: the session closes under the reading loop.
ReadSomeFails ==
    /\ at = "reading" /\ rx[cur] # <<>> /\ Relaying
    /\ SendPacketFails(Other(cur))

\* EAGAIN, or EINTR.
ReadNothing ==
    /\ at = "reading"
    /\ Interrupts \/ ~Readable(cur)
    /\ at' = "writing"
    /\ UNCHANGED peers /\ UNCHANGED <<phase, buffer, queue, armed, reported, cur>>

ReadEndIgnored ==
    /\ at = "reading" /\ rx[cur] = <<>> /\ cur \in eof
    /\ at' = "writing"
    /\ UNCHANGED peers /\ UNCHANGED <<phase, buffer, queue, armed, reported, cur>>

\* The peer has closed: so does the session.
ReadEnd ==
    /\ at = "reading" /\ rx[cur] = <<>> /\ cur \in eof
    /\ CloseSession

-----------------------------------------------------------------------------
(* epollOut and epollCheck                                                 *)

EpollCheckIfChanged ==
    IF queue'[cur] # <<>> <=> cur \in armed THEN UNCHANGED <<armed, edge>>
    ELSE /\ armed' = IF queue'[cur] # <<>> THEN armed \cup {cur} ELSE armed \ {cur}
         /\ edge' = IF Readable(cur) \/ (queue'[cur] # <<>> /\ room'[cur] > 0)
                    THEN edge \cup {cur} ELSE edge

EpollCheckReading ==
    /\ armed' = armed \ {cur}
    /\ edge' = IF Readable(cur) THEN edge \cup {cur} ELSE edge

\* EPOLLOUT is asked for if there is a queue; the change makes an edge if something
\* that is asked for is true.
EpollCheck ==
    /\ armed' = IF queue'[cur] # <<>> THEN armed \cup {cur} ELSE armed \ {cur}
    /\ edge' = IF Readable(cur) \/ (queue'[cur] # <<>> /\ room'[cur] > 0)
               THEN edge \cup {cur} ELSE edge

EpollOut ==
    /\ at = "writing"
    /\ IF "OUT" \in reported[cur] /\ queue[cur] # <<>>
       THEN \E k \in Written(cur, Len(queue[cur])) : WriteOut(cur, queue[cur], k)
       ELSE UNCHANGED <<got, room, queue>>
    /\ EpollCheck
    /\ Handled(cur) /\ at' = "event"
    /\ UNCHANGED <<sent, rx, eof, link, phase, buffer, cur>>

EpollOutFails ==
    /\ at = "writing" /\ "OUT" \in reported[cur]
    /\ SendPacketFails(cur)

-----------------------------------------------------------------------------
Environment ==
    \/ \E e \in Ends : Arrive(e) \/ Finish(e) \/ Drain(e)
    \/ Establish

Loop ==
    \/ Wait
    \/ EndBatch
    \/ \E e \in Ends : Event(e)
    \/ Connect
    \/ ConnectFails
    \/ ReadSome
    \/ ReadSomeFails
    \/ ReadNothing
    \/ ReadEnd
    \/ EpollOut
    \/ EpollOutFails

Next == Environment \/ Loop \/ IdentifyTimeout

Spec == Init /\ [][Next]_vars

\* The loop runs; epoll_wait returns every end that stays ready, if not at once; a
\* signal does not interrupt every read and every write; the peers take what is
\* written to them; and time passes for a Client that does not connect.
Fairness ==
    /\ WF_vars(Loop)
    /\ \A e \in Ends : SF_vars(Wait /\ e \in edge \ edge')
    /\ SF_vars(ReadSome \/ ReadEnd)
    /\ SF_vars(EpollOut /\ got' # got)
    /\ \A e \in Ends : WF_vars(Drain(e))
    /\ SF_vars(IdentifyTimeout)

FairSpec == Spec /\ Fairness

-----------------------------------------------------------------------------
(* Properties                                                              *)

\* Every byte that a peer has sent is in one place, in order: passed on, queued,
\* buffered or not read yet.  No interleaving of short writes, interrupted writes,
\* buffering and direct writes in accept.cpp loses, repeats or reorders any.
Conserved ==
    phase # "closed" =>
        /\ sent["front"] = got["back"] \o queue["back"] \o buffer \o rx["front"]
        /\ sent["back"] = got["front"] \o queue["front"] \o rx["back"]

\* Nothing that the destination has sent has been read yet.
Unheard == phase = "relaying" /\ got["front"] \o queue["front"] = <<>>

\* What an end has to do, it is or will be told of by epoll, although epoll tells
\* it once: a queue that can be written, a connection made or refused, bytes or an
\* end of stream to read.  The exception is the code's: the event that completes
\* the Client's connection is not passed to epollIn.
NoLostEdge ==
    phase # "closed" =>
        \A e \in Ends :
            \/ e \in edge \/ reported[e] # {}
            \/ /\ queue[e] # <<>> => room[e] = 0 /\ e \in armed
               /\ Readable(e) => e = "back" /\ Unheard
               /\ e = "back" /\ phase = "connecting" => link = "pending"

Streams == INSTANCE Stream WITH open <- phase # "closed"

\* The session implements the two ordered streams of Stream.
ImplementsStreams == Streams!StreamSpec

\* Whatever the front sends reaches the destination, unless the session closes:
\* early bytes wait in the buffer and short writes in the queue, neither for ever.
FrontDelivered ==
    \A n \in 1 .. MaxSent :
        Len(sent["front"]) >= n ~> Len(got["back"]) >= n \/ phase = "closed"

\* Once a byte of the destination has come through, all of them do.
BackDelivered ==
    \A n \in 1 .. MaxSent :
        Len(sent["back"]) >= n /\ got["front"] # <<>>
            ~> Len(got["front"]) >= n \/ phase = "closed"

\* A front that closes ends the session, whatever is queued or interrupted.
FrontEndCloses == "front" \in eof ~> phase = "closed"

\* What the destination sends is read: "epollIn: handle the data to be read"
\* (epoll.h:46).  The code does not keep this for bytes that arrive together with
\* the completion of the Client's connection.
DestinationHeard ==
    \A n \in 1 .. MaxSent :
        Len(sent["back"]) >= n ~> Len(got["front"]) >= n \/ phase = "closed"

=============================================================================
