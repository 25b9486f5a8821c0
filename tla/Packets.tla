------------------------------- MODULE Packets -------------------------------
(***************************************************************************)
(* Who owns the packets and buffers of a session.  The Accept (the end     *)
(* "front") keeps what it reads before the Client (the end "back") is      *)
(* connected in one buffer, which becomes a packet of the Client; each end *)
(* has a queue of packets that could not be written whole.  The session is *)
(* opened and closed again and again on the same two objects, and what was *)
(* not released stays in memory.                                           *)
(*                                                                         *)
(* Bytes are left to Relay, and handlers that run on closed objects to     *)
(* Proxy: here only which object refers to which, and the counts.          *)
(***************************************************************************)
EXTENDS Memory, Sequences, FiniteSets

VARIABLES
    mem,        \* packets and buffers, see Memory
    hash,       \* m_pBuffer of the Accept
    queue,      \* m_packetQueue of each end
    phase,      \* "closed", "connecting", "relaying" or "closing"
    closing,    \* the ends whose resetData has still to release what they hold
    early       \* history: the packets made by sendHashBufferToPartner

vars == <<mem, hash, queue, phase, closing, early>>

Ends == {"front", "back"}
Other(e) == IF e = "front" THEN "back" ELSE "front"
Members(s) == {s[i] : i \in DOMAIN s}

TypeOK ==
    /\ mem \in Memories
    /\ hash \in Buffers \cup {Null}
    /\ queue \in [Ends -> Seq(Packets)]
    /\ phase \in {"closed", "connecting", "relaying", "closing"}
    /\ closing \in Seq(Ends)
    /\ early \subseteq Packets

Init ==
    /\ mem = EmptyMemory /\ hash = Null
    /\ queue = [e \in Ends |-> <<>>]
    /\ phase = "closed" /\ closing = <<>>
    /\ early = {}

\* new may give any address not in use.
NewPackets == Packets \ mem.alive
NewBuffers == Buffers \ mem.alive

PushBack(e, p) == queue' = [queue EXCEPT ![e] = Append(@, p)]
PushFront(e, p) == queue' = [queue EXCEPT ![e] = <<p>> \o @]
PopFront(e) == queue' = [queue EXCEPT ![e] = Tail(@)]

\* epollRemove of end e: closePartner has the other end reset first.
Close(e) == phase' = "closing" /\ closing' = <<Other(e), e>>

-----------------------------------------------------------------------------
(* Opening                                                                 *)

Open ==
    /\ phase = "closed"
    /\ phase' = "connecting"
    /\ UNCHANGED <<mem, hash, queue, closing, early>>

\* readSocket of the Accept: getBuffer, and the bytes are put at its end.
ReadEarly ==
    /\ phase = "connecting"
    /\ IF hash # Null THEN mem' = Used(mem, hash) /\ UNCHANGED hash
       ELSE \E b \in NewBuffers : mem' = NewBuffer(mem, b) /\ hash' = b
    /\ UNCHANGED <<queue, phase, closing, early>>

\* receiveClient without anything to send.
ConnectIdle ==
    /\ phase = "connecting" /\ hash = Null
    /\ phase' = "relaying"
    /\ UNCHANGED <<mem, hash, queue, closing, early>>

\* What sendHashBufferToPartner does before its packet p is written: the packet is
\* retained once there and once by sendPacket.
EarlyPacket(p) == Read(Retain(Retain(NewPacket(mem, p, hash), p), p), p)

ConnectSentSharing(p) ==
    /\ mem' = ReleasePacket(EarlyPacket(p), p)
    /\ phase' = "relaying"
    /\ UNCHANGED <<hash, queue, closing>>

\* The packet is written whole, and the buffer no longer the Accept's.
ConnectSent(p) ==
    /\ mem' = ReleaseBuffer(ReleasePacket(EarlyPacket(p), p), hash)
    /\ hash' = Null
    /\ phase' = "relaying"
    /\ UNCHANGED <<queue, closing>>

\* The packet is queued.
ConnectQueued(p) ==
    /\ mem' = ReleaseBuffer(EarlyPacket(p), hash)
    /\ hash' = Null
    /\ PushFront("back", p)
    /\ phase' = "relaying"
    /\ UNCHANGED closing

\* The write fails: the buffer is left to resetData of the Accept.
ConnectFails(p) ==
    /\ mem' = ReleasePacket(EarlyPacket(p), p)
    /\ Close("back")
    /\ UNCHANGED <<hash, queue>>

\* receiveClient and sendHashBufferToPartner; the Client's queue is empty.
Connect ==
    /\ phase = "connecting" /\ hash # Null
    /\ \E p \in NewPackets :
        /\ ConnectSent(p) \/ ConnectQueued(p) \/ ConnectFails(p)
        /\ early' = early \cup {p}

-----------------------------------------------------------------------------
(* Relaying                                                                *)

RelayReleased(e) ==
    /\ phase = "relaying"
    /\ \E p \in NewPackets, b \in NewBuffers :
        /\ mem' = ReleasePacket(Retain(NewPacketOf(mem, p, b), p), p)
        /\ PushBack(e, p)
    /\ UNCHANGED <<hash, phase, closing, early>>

\* sendPacket to end e of bytes that do not go out at once: there is a queue, or the
\* write is short and makes one.  (Bytes that do make no packet.)
RelayQueued(e) ==
    /\ phase = "relaying"
    /\ \E p \in NewPackets, b \in NewBuffers :
        /\ mem' = Retain(NewPacketOf(mem, p, b), p)
        /\ PushBack(e, p)
    /\ UNCHANGED <<hash, phase, closing, early>>

\* A step of the loop of epollOut that writes a packet to its end.
WriteDone(e) ==
    /\ phase = "relaying" /\ queue[e] # <<>>
    /\ mem' = ReleasePacket(Read(mem, Head(queue[e])), Head(queue[e]))
    /\ PopFront(e)
    /\ UNCHANGED <<hash, phase, closing, early>>

\* The last one, that does not: the packet is taken out and put back.
WriteShort(e) ==
    /\ phase = "relaying" /\ queue[e] # <<>>
    /\ mem' = Read(mem, Head(queue[e]))
    /\ queue' = [queue EXCEPT ![e] = <<Head(@)>> \o Tail(@)]
    /\ UNCHANGED <<hash, phase, closing, early>>

WriteFailsUnreleased(e) ==
    /\ phase = "relaying" /\ queue[e] # <<>>
    /\ mem' = Read(mem, Head(queue[e]))
    /\ PopFront(e)
    /\ Close(e)
    /\ UNCHANGED <<hash, early>>

WriteFailsQueued(e) ==
    /\ phase = "relaying" /\ queue[e] # <<>>
    /\ mem' = ReleasePacket(Read(mem, Head(queue[e])), Head(queue[e]))
    /\ Close(e)
    /\ UNCHANGED <<hash, queue, early>>

\* The write fails: the packet has left the queue that resetData releases.
WriteFails(e) ==
    /\ phase = "relaying" /\ queue[e] # <<>>
    /\ mem' = ReleasePacket(Read(mem, Head(queue[e])), Head(queue[e]))
    /\ PopFront(e)
    /\ Close(e)
    /\ UNCHANGED <<hash, early>>

-----------------------------------------------------------------------------
(* Closing                                                                 *)

\* A read or a write that needs no packet fails, the peer has closed, the connection
\* is refused or does not come in time.
EndSession(e) ==
    /\ phase \in {"connecting", "relaying"}
    /\ Close(e)
    /\ UNCHANGED <<mem, hash, queue, early>>

\* A step of the loop of releasePacket.
ReleaseQueued ==
    /\ phase = "closing"
    /\ LET e == Head(closing) IN
        /\ queue[e] # <<>>
        /\ mem' = ReleasePacket(mem, Head(queue[e]))
        /\ PopFront(e)
    /\ UNCHANGED <<hash, phase, closing, early>>

\* The end of resetData: m_pBuffer is released.  Only the Accept can have one.
ResetDone ==
    /\ phase = "closing" /\ queue[Head(closing)] = <<>>
    /\ IF Head(closing) = "front"
       THEN mem' = ReleaseBuffer(mem, hash) /\ hash' = Null
       ELSE UNCHANGED <<mem, hash>>
    /\ closing' = Tail(closing)
    /\ phase' = IF closing' = <<>> THEN "closed" ELSE "closing"
    /\ UNCHANGED <<queue, early>>

Next ==
    \/ Open
    \/ ReadEarly
    \/ ConnectIdle
    \/ Connect
    \/ \E e \in Ends : RelayQueued(e) \/ WriteDone(e) \/ WriteShort(e)
                       \/ WriteFails(e) \/ EndSession(e)
    \/ ReleaseQueued
    \/ ResetDone

Spec == Init /\ [][Next]_vars

-----------------------------------------------------------------------------
(* Properties                                                              *)

\* No function reads, retains or releases a packet or buffer that has been deleted,
\* whichever way a write ends and wherever the session is closed.
NeverMisused == ~mem.misused

Queued == Members(queue["front"]) \cup Members(queue["back"])

References(x) ==
    IF x \in Packets
    THEN (IF x \in Queued THEN 1 ELSE 0) + (IF x \in early THEN 1 ELSE 0)
    ELSE Cardinality({p \in Packets \cap mem.alive : mem.data[p] = x})
         + (IF x = hash THEN 1 ELSE 0)

\* Between two functions the count of every packet and buffer is the number of what
\* refers to it, and 0 only if it has been deleted; a packet of early bytes counts
\* one more.
CountsExact == \A x \in Cells : mem.count[x] = References(x) /\ (x \in mem.alive <=> References(x) # 0)

\* Nothing but the packets of early bytes, with their buffers, is left of a session
\* that is closed.
OnlyEarlyStay ==
    phase = "closed" => mem.alive = early \cup {mem.data[p] : p \in early}

\* A buffer is the data of one packet or, unless the session is being closed, the
\* Accept's, not both and not of two packets: bytes that arrive are never added to a
\* packet that is being sent.
BuffersUnshared ==
    /\ \A p, q \in Packets \cap mem.alive : mem.data[p] = mem.data[q] => p = q
    /\ phase # "closing" => \A p \in Packets \cap mem.alive : mem.data[p] # hash

\* What is left of a closed session is nothing: a packet is released once it is
\* written ("release", accept.cpp:54, :122) or its session closed.
NothingLeaks == phase = "closed" => mem.alive = {}

=============================================================================
