----------------------------- MODULE EdgeProofs -----------------------------
(***************************************************************************)
(* Relay's use of edge-triggered epoll: for any bytes, buffer sizes and    *)
(* interleaving of the peers with the event loop, no end waits for an      *)
(* event that epoll will not report.                                       *)
(***************************************************************************)
EXTENDS RelayProofs

-----------------------------------------------------------------------------
(* The invariant                                                           *)

\* The Client is connected once it relays.
Linked == phase = "relaying" => link = "up"

\* Until then EPOLLOUT is asked for of the Client, nothing has been written to it,
\* and nothing of the destination has been passed on: so that the completion of the
\* connection is an event, and only that.
Fresh ==
    phase = "connecting" =>
        /\ "back" \in armed /\ room["back"] > 0 /\ queue["back"] = <<>>
        /\ got["front"] \o queue["front"] = <<>>

\* EPOLLOUT is asked for wherever packets wait.
QueueArmed == \A e \in Ends : queue[e] # <<>> => e \in armed

\* A handler is at work on an event of an end that relays; between batches there is
\* no event.
AtWork ==
    /\ at \in {"reading", "writing"} =>
          reported[cur] # {} /\ (cur = "front" \/ phase = "relaying")
    /\ at = "wait" => \A e \in Ends : reported[e] = {}

\* End e is or will be reported.
Told(e) == e \in edge \/ reported[e] # {}

\* End e has nothing to be told of.
Idle(e) ==
    /\ queue[e] # <<>> => room[e] = 0 /\ e \in armed
    /\ Readable(e) => e = "back" /\ Unheard
    /\ e = "back" /\ phase = "connecting" => link = "pending"

EndsTold == \A e \in Ends : Told(e) \/ Idle(e)

EdgeInv == phase # "closed" => Linked /\ Fresh /\ QueueArmed /\ AtWork /\ EndsTold

LEMMA EndsToldIsNoLostEdge == NoLostEdge <=> (phase # "closed" => EndsTold)
  BY DEF NoLostEdge, EndsTold, Told, Idle

LEMMA InitEdge == Init => EdgeInv
<1> SUFFICES ASSUME Init PROVE EdgeInv
  OBVIOUS
<1>1. SendSize \in Nat \ {0} /\ "front" \in Ends /\ "back" \in Ends
  BY RelayAssumption DEF Ends
<1>2. <<>> \o <<>> = <<>>
  BY EmptySeq, ConcatEmptySeq
<1>3. Linked /\ QueueArmed /\ AtWork
  BY DEF Init, Linked, QueueArmed, AtWork
<1>4. Fresh
  BY <1>1, <1>2 DEF Init, Fresh
<1>5. EndsTold
  BY <1>1 DEF Init, EndsTold, Idle, Readable
<1> QED
  BY <1>3, <1>4, <1>5 DEF EdgeInv

-----------------------------------------------------------------------------
(* The peers and the network                                               *)

\* What a peer does at end e is reported if there is anything to do there now.
LEMMA PeersEdge ==
    ASSUME ByteInv, EdgeInv, NEW e \in Ends, Arrive(e) \/ Finish(e) \/ Drain(e)
    PROVE  EdgeInv'
<1>1. /\ UNCHANGED <<got, link, phase, buffer, queue, armed, reported, at, cur>>
      /\ phase # "closed"
  BY DEF Arrive, Finish, Drain, Process
<1>2. Linked /\ Fresh /\ QueueArmed /\ AtWork /\ EndsTold /\ TypeOK
  BY <1>1 DEF EdgeInv, ByteInv
<1>3. Linked' /\ QueueArmed' /\ AtWork'
  BY <1>1, <1>2 DEF Linked, QueueArmed, AtWork
<1>4. Fresh'
  <2>1. room["back"] > 0 => room'["back"] > 0
    <3>1. CASE Drain(e)
      <4>1. room \in [Ends -> 0 .. SendSize] /\ SendSize \in Nat /\ "back" \in Ends
        BY <1>2, RelayAssumption DEF TypeOK, Ends
      <4>2. PICK r \in room[e] + 1 .. SendSize : room' = [room EXCEPT ![e] = r]
        BY <3>1 DEF Drain
      <4>3. room[e] \in Nat /\ r > 0
        <5>1. room[e] \in 0 .. SendSize
          BY <4>1
        <5> QED
          BY <4>1, <5>1
      <4> QED
        BY <4>1, <4>2, <4>3
    <3>2. CASE ~Drain(e)
      BY <3>2 DEF Arrive, Finish
    <3> QED
      BY <3>1, <3>2
  <2> QED
    BY <1>1, <1>2, <2>1 DEF Fresh
<1>5. ASSUME NEW x \in Ends PROVE (Told(x) \/ Idle(x))'
  <2>1. edge \subseteq edge'
    BY DEF Arrive, Finish, Drain
  <2>2. CASE Told(x)
    BY <1>1, <2>1, <2>2 DEF Told
  <2>3. CASE Idle(x) /\ (Arrive(e) \/ Finish(e)) /\ x = e
    BY <2>3 DEF Arrive, Finish, Told
  <2>4. CASE Idle(x) /\ (Arrive(e) \/ Finish(e)) /\ x # e
    <3>1. rx'[x] = rx[x] /\ room' = room /\ (x \in eof' <=> x \in eof)
      BY <1>2, <2>4 DEF Arrive, Finish, TypeOK
    <3>2. Idle(x)'
      BY <1>1, <2>4, <3>1 DEF Idle, Readable, Unheard
    <3> QED
      BY <3>2
  <2>5. CASE Idle(x) /\ Drain(e) /\ x = e /\ queue[e] # <<>>
    <3>1. room[e] = 0 /\ e \in armed
      BY <2>5 DEF Idle
    <3>2. e \in edge'
      BY <2>5, <3>1 DEF Drain
    <3> QED
      BY <2>5, <3>2 DEF Told
  <2>6. CASE Idle(x) /\ Drain(e) /\ (x # e \/ queue[e] = <<>>)
    <3>1. rx' = rx /\ eof' = eof
      BY <2>6 DEF Drain
    <3>2. queue[x] # <<>> => room'[x] = room[x]
      <4>1. PICK r \in room[e] + 1 .. SendSize : room' = [room EXCEPT ![e] = r]
        BY <2>6 DEF Drain
      <4> QED
        BY <1>2, <2>6, <4>1 DEF TypeOK
    <3>3. Idle(x)'
      BY <1>1, <2>6, <3>1, <3>2 DEF Idle, Readable, Unheard
    <3> QED
      BY <3>3
  <2> QED
    BY <1>2, <2>2, <2>3, <2>4, <2>5, <2>6 DEF EndsTold
<1>6. EndsTold'
  BY <1>5 DEF EndsTold
<1> QED
  BY <1>3, <1>4, <1>6 DEF EdgeInv

LEMMA EstablishEdge ==
    ASSUME EdgeInv, Establish
    PROVE  EdgeInv'
<1>1. /\ UNCHANGED <<got, rx, eof, room, phase, queue, armed, reported, at, cur>>
      /\ phase = "connecting" /\ edge' = edge \cup {"back"}
  BY DEF Establish, Process
<1>2. Linked /\ Fresh /\ QueueArmed /\ AtWork /\ EndsTold
  BY <1>1 DEF EdgeInv
<1>3. Linked' /\ Fresh' /\ QueueArmed' /\ AtWork'
  BY <1>1, <1>2 DEF Linked, Fresh, QueueArmed, AtWork
<1>4. EndsTold'
  BY <1>1, <1>2 DEF EndsTold, Told, Idle, Readable, Unheard, Ends
<1> QED
  BY <1>3, <1>4 DEF EdgeInv

-----------------------------------------------------------------------------
(* The loop                                                                *)

\* An end that epoll_wait takes from the ready list without an event has nothing to
\* be told of.
LEMMA NoEventIdle ==
    ASSUME TypeOK, Linked, Fresh, QueueArmed, phase # "closed", NEW e \in Ends, Poll(e) = {}
    PROVE  Idle(e)
<1>1. /\ ~Readable(e)
      /\ ~(e \in armed /\ room[e] > 0 /\ Up(e))
      /\ ~(e = "back" /\ link = "refused")
  BY DEF Poll, Events
<1>2. room[e] \in Nat
  <2>1. room[e] \in 0 .. SendSize /\ SendSize \in Nat
    BY RelayAssumption DEF TypeOK
  <2> QED
    BY <2>1
<1>3. phase \in {"connecting", "relaying"} /\ link \in {"pending", "up", "refused"}
  BY DEF TypeOK
<1>4. queue[e] # <<>> => room[e] = 0 /\ e \in armed
  <2> SUFFICES ASSUME queue[e] # <<>> PROVE room[e] = 0 /\ e \in armed
    OBVIOUS
  <2>1. e \in armed
    BY DEF QueueArmed
  <2>2. Up(e)
    BY <1>3 DEF Up, Linked, Fresh, Ends
  <2> QED
    BY <1>1, <1>2, <2>1, <2>2
<1>5. e = "back" /\ phase = "connecting" => link = "pending"
  BY <1>1, <1>3 DEF Fresh, Up
<1> QED
  BY <1>1, <1>4, <1>5 DEF Idle

LEMMA WaitEdge ==
    ASSUME ByteInv, EdgeInv, Wait
    PROVE  EdgeInv'
<1>1. /\ UNCHANGED <<sent, got, rx, eof, room, link, phase, buffer, queue, armed, cur>>
      /\ phase # "closed" /\ at' = "event"
  BY DEF Wait
<1>2. Linked /\ Fresh /\ QueueArmed /\ AtWork /\ EndsTold /\ TypeOK
  BY <1>1 DEF EdgeInv, ByteInv
<1>3. Linked' /\ Fresh' /\ QueueArmed' /\ AtWork'
  BY <1>1, <1>2 DEF Linked, Fresh, QueueArmed, AtWork
<1>4. PICK es \in (SUBSET edge) \ {{}} :
          /\ reported' = [e \in Ends |-> IF e \in es THEN Poll(e) ELSE {}]
          /\ edge' = edge \ es
  BY DEF Wait
<1>5. ASSUME NEW e \in Ends PROVE (Told(e) \/ Idle(e))'
  <2>1. Idle(e) => Idle(e)'
    BY <1>1 DEF Idle, Readable, Unheard
  <2>2. CASE e \in es
    <3>1. CASE Poll(e) # {}
      BY <1>4, <2>2, <3>1 DEF Told
    <3>2. CASE Poll(e) = {}
      BY <1>1, <1>2, <2>1, <3>2, NoEventIdle
    <3> QED
      BY <3>1, <3>2
  <2>3. CASE e \notin es /\ e \in edge
    BY <1>4, <2>3 DEF Told
  <2>4. reported[e] = {}
    BY <1>2 DEF Wait, AtWork
  <2>5. CASE e \notin es /\ Idle(e)
    BY <2>1, <2>5
  <2> QED
    BY <1>2, <2>2, <2>3, <2>4, <2>5 DEF EndsTold, Told
<1>6. EndsTold'
  BY <1>5 DEF EndsTold
<1> QED
  BY <1>3, <1>6 DEF EdgeInv

\* Steps that only move on in the loop.
LEMMA MoveEdge ==
    ASSUME EdgeInv, ClosedRests, EndBatch \/ (\E e \in Ends : Event(e)) \/ ReadNothing
    PROVE  EdgeInv'
<1>1. /\ UNCHANGED <<got, rx, eof, room, link, edge, phase, queue, armed, reported>>
      /\ phase # "closed"
  BY DEF EndBatch, Event, ReadNothing, peers, ClosedRests
<1>2. Linked /\ Fresh /\ QueueArmed /\ AtWork /\ EndsTold
  BY <1>1 DEF EdgeInv
<1>3. Linked' /\ Fresh' /\ QueueArmed'
  BY <1>1, <1>2 DEF Linked, Fresh, QueueArmed
<1>4. EndsTold'
  BY <1>1, <1>2 DEF EndsTold, Told, Idle, Readable, Unheard
<1>5. AtWork'
  <2>1. CASE EndBatch
    BY <1>1, <2>1 DEF EndBatch, AtWork
  <2>2. CASE \E e \in Ends : Event(e)
    BY <1>1, <2>2 DEF Event, AtWork, Ends
  <2>3. CASE ReadNothing
    BY <1>1, <1>2, <2>3 DEF ReadNothing, AtWork
  <2> QED
    BY <2>1, <2>2, <2>3
<1> QED
  BY <1>3, <1>4, <1>5 DEF EdgeInv

LEMMA CloseEdge ==
    ASSUME CloseSession
    PROVE  EdgeInv'
  BY DEF CloseSession, EdgeInv

\* What sendPacket leaves in an end's queue waits behind an older packet, or for an
\* event: EPOLLOUT is asked for, and there is an edge unless there is no room.
LEMMA SendPacketTells ==
    ASSUME TypeOK, QueueArmed, NEW e \in Ends, NEW data \in Seq(Bytes), SendPacket(e, data)
    PROVE  /\ edge \subseteq edge' /\ QueueArmed'
           /\ room'[Other(e)] = room[Other(e)]
           /\ queue'[e] # <<>> =>
                 \/ queue[e] # <<>> /\ room' = room
                 \/ e \in edge' \/ room'[e] = 0
<1>1. /\ queue \in [Ends -> Seq(Bytes)] /\ room \in [Ends -> 0 .. SendSize]
      /\ Other(e) \in Ends /\ Other(e) # e /\ Ends = {e, Other(e)}
  BY OtherEnd DEF TypeOK
<1>2. queue'[Other(e)] = queue[Other(e)] /\ room' \in [Ends -> 0 .. SendSize]
  BY SendPacketCarries
<1>3. CASE queue[e] # <<>>
  <2>1. UNCHANGED <<got, room, armed, edge>>
    BY <1>3 DEF SendPacket
  <2>2. QueueArmed'
    BY <1>1, <1>2, <1>3, <2>1 DEF QueueArmed
  <2> QED
    BY <1>3, <2>1, <2>2
<1>4. CASE queue[e] = <<>>
  <2>1. PICK k \in Written(e, Len(data)) :
            /\ WriteOut(e, data, k)
            /\ IF k = Len(data) THEN UNCHANGED <<armed, edge>> ELSE ArmAfterWrite(e)
    BY <1>4 DEF SendPacket
  <2>2. Len(data) \in Nat
    BY LenProperties
  <2>3. k \in 0 .. Len(data)
    BY <2>2, WrittenBounds
  <2>4. room'[Other(e)] = room[Other(e)]
    BY <1>1, <2>1 DEF WriteOut
  <2>5. CASE k = Len(data)
    <3>1. queue'[e] = <<>>
      <4>1. Rest(data, k) = <<>>
        BY <2>3, <2>5, FirstAndRest
      <4>2. queue' = [queue EXCEPT ![e] = Rest(data, k)]
        BY <2>1 DEF WriteOut
      <4> QED
        BY <1>1, <4>1, <4>2
    <3>2. UNCHANGED <<armed, edge>>
      BY <2>1, <2>5
    <3>3. QueueArmed'
      BY <1>1, <1>2, <3>1, <3>2 DEF QueueArmed
    <3> QED
      BY <2>4, <3>1, <3>2, <3>3
  <2>6. CASE k # Len(data)
    <3>1. armed' = armed \cup {e}
          /\ edge' = IF Readable(e) \/ room'[e] > 0 THEN edge \cup {e} ELSE edge
      BY <2>1, <2>6 DEF ArmAfterWrite
    <3>2. QueueArmed'
      BY <1>1, <1>2, <3>1 DEF QueueArmed
    <3>3. room'[e] > 0 \/ room'[e] = 0
      <4>1. room'[e] \in 0 .. SendSize /\ SendSize \in Nat
        BY <1>2, RelayAssumption
      <4> QED
        BY <4>1
    <3> QED
      BY <2>4, <3>1, <3>2, <3>3
  <2> QED
    BY <2>5, <2>6
<1> QED
  BY <1>3, <1>4

\* The buffer's last bytes, if they are not written at once, wait for an event.
LEMMA ConnectEdge ==
    ASSUME ByteInv, EdgeInv, Connect
    PROVE  EdgeInv'
<1>1. /\ UNCHANGED <<rx, eof, link, at, cur>>
      /\ phase = "connecting" /\ phase' = "relaying" /\ link = "up" /\ at = "event"
      /\ reported' = [reported EXCEPT !["back"] = {}]
  BY DEF Connect, ConnectEvent, Handled
<1>2. Linked /\ Fresh /\ QueueArmed /\ AtWork /\ EndsTold /\ TypeOK
  BY <1>1 DEF EdgeInv, ByteInv
<1>3. /\ "back" \in Ends /\ "front" \in Ends /\ Other("back") = "front"
      /\ buffer \in Seq(Bytes)
  BY <1>2 DEF Ends, Other, TypeOK
<1>4. queue["back"] = <<>> /\ got["front"] \o queue["front"] = <<>>
  BY <1>1, <1>2 DEF Fresh
<1>5. /\ edge \subseteq edge' /\ QueueArmed'
      /\ room'["front"] = room["front"]
      /\ got'["front"] = got["front"] /\ queue'["front"] = queue["front"]
      /\ queue'["back"] # <<>> => "back" \in edge' \/ room'["back"] = 0
  <2>1. CASE buffer = <<>>
    <3>1. UNCHANGED <<got, room, queue, armed, edge>>
      BY <2>1 DEF Connect
    <3> QED
      BY <1>2, <1>4, <3>1 DEF QueueArmed
  <2>2. CASE buffer # <<>>
    <3>1. SendPacket("back", buffer)
      BY <2>2 DEF Connect
    <3>2. got'["front"] = got["front"] /\ queue'["front"] = queue["front"]
      BY <1>2, <1>3, <3>1, SendPacketCarries
    <3> QED
      BY <1>2, <1>3, <1>4, <3>1, <3>2, SendPacketTells
  <2> QED
    BY <2>1, <2>2
<1>6. Linked' /\ Fresh' /\ AtWork'
  BY <1>1 DEF Linked, Fresh, AtWork
<1>7. (Told("back") \/ Idle("back"))'
  <2>1. Unheard'
    BY <1>1, <1>4, <1>5 DEF Unheard
  <2> QED
    BY <1>1, <1>3, <1>5, <2>1 DEF Told, Idle, QueueArmed
<1>8. (Told("front") \/ Idle("front"))'
  <2>1. reported'["front"] = reported["front"]
    BY <1>1, <1>2 DEF TypeOK, Ends
  <2>2. CASE Told("front")
    BY <1>5, <2>1, <2>2 DEF Told
  <2>3. CASE Idle("front")
    BY <1>1, <1>3, <1>5, <2>3 DEF Idle, Readable, QueueArmed
  <2> QED
    BY <1>2, <1>3, <2>2, <2>3 DEF EndsTold
<1>9. EndsTold'
  BY <1>7, <1>8 DEF EndsTold, Ends
<1> QED
  BY <1>5, <1>6, <1>9 DEF EdgeInv

\* While an end is read its event is at hand; what its partner is then sent waits
\* for an event of the partner.
LEMMA ReadSomeEdge ==
    ASSUME ByteInv, EdgeInv, ReadSome
    PROVE  EdgeInv'
<1> DEFINE o == Other(cur)
<1>1. /\ UNCHANGED <<eof, link, phase, reported, at, cur>>
      /\ at = "reading" /\ rx' = [rx EXCEPT ![cur] = Rest(rx[cur], Len(Chunk))]
  BY DEF ReadSome
<1>2. phase # "closed"
  BY <1>1 DEF ByteInv, ClosedRests
<1>3. Linked /\ Fresh /\ QueueArmed /\ AtWork /\ EndsTold /\ TypeOK
  BY <1>2 DEF EdgeInv, ByteInv
<1>4. /\ cur \in Ends /\ o \in Ends /\ o # cur /\ Ends = {cur, o} /\ Other(o) = cur
      /\ Chunk \in Seq(Bytes) /\ rx'[o] = rx[o]
  <2>1. cur \in Ends /\ Chunk \in Seq(Bytes)
    BY <1>3, ChunkSplits
  <2>2. o \in Ends /\ o # cur /\ Ends = {cur, o} /\ Other(o) = cur
    BY <2>1 DEF Other, Ends
  <2>3. rx'[o] = rx[o]
    BY <1>1, <1>3, <2>2 DEF TypeOK
  <2> QED
    BY <2>1, <2>2, <2>3
<1>5. Linked' /\ AtWork'
  BY <1>1, <1>3 DEF Linked, AtWork
<1>6. /\ reported[cur] # {} /\ (cur = "front" \/ phase = "relaying")
  BY <1>1, <1>3 DEF AtWork
<1>7. ASSUME NEW x \in Ends, x = cur PROVE Told(x)'
  BY <1>1, <1>6, <1>7 DEF Told
<1>8. CASE Relaying
  <2>1. SendPacket(o, Chunk) /\ phase = "relaying"
    BY <1>6, <1>8 DEF ReadSome, Relaying
  <2>2. /\ edge \subseteq edge' /\ QueueArmed'
        /\ room'[Other(o)] = room[Other(o)]
        /\ queue'[o] # <<>> =>
              \/ queue[o] # <<>> /\ room' = room
              \/ o \in edge' \/ room'[o] = 0
    BY <1>3, <1>4, <2>1, SendPacketTells
  <2>3. got'[cur] = got[cur] /\ queue'[cur] = queue[cur]
    BY <1>3, <1>4, <2>1, SendPacketCarries
  <2>4. Fresh'
    BY <1>1, <2>1 DEF Fresh
  <2>5. ASSUME NEW x \in Ends, x = o PROVE (Told(x) \/ Idle(x))'
    <3>1. CASE Told(x)
      BY <1>1, <2>2, <3>1 DEF Told
    <3>2. CASE Idle(x) /\ x \notin edge'
      <4>1. queue'[x] # <<>> => room'[x] = 0 /\ x \in armed'
        BY <2>2, <2>5, <3>2 DEF Idle, QueueArmed
      <4>2. rx'[x] = rx[x]
        BY <1>4, <2>5
      <4>3. x = "back" /\ Unheard => Unheard'
        <5>1. x = "back" => cur = "front"
          BY <1>4, <2>5 DEF Ends
        <5> QED
          BY <1>1, <2>3, <5>1 DEF Unheard
      <4> QED
        BY <1>1, <2>1, <3>2, <4>1, <4>2, <4>3 DEF Idle, Readable
    <3>3. CASE x \in edge'
      BY <3>3 DEF Told
    <3> QED
      BY <1>3, <3>1, <3>2, <3>3 DEF EndsTold
  <2>6. EndsTold'
    BY <1>4, <1>7, <2>5 DEF EndsTold
  <2> QED
    BY <1>5, <2>2, <2>4, <2>6 DEF EdgeInv
<1>9. CASE ~Relaying
  <2>1. UNCHANGED <<got, room, queue, armed, edge>>
    BY <1>9 DEF ReadSome
  <2>2. Fresh' /\ QueueArmed'
    BY <1>1, <1>3, <2>1 DEF Fresh, QueueArmed
  <2>3. ASSUME NEW x \in Ends, x = o PROVE (Told(x) \/ Idle(x))'
    <3>1. rx'[x] = rx[x]
      BY <1>4, <2>3
    <3> QED
      BY <1>1, <1>3, <2>1, <3>1 DEF EndsTold, Told, Idle, Readable, Unheard
  <2>4. EndsTold'
    BY <1>4, <1>7, <2>3 DEF EndsTold
  <2> QED
    BY <1>5, <2>2, <2>4 DEF EdgeInv
<1> QED
  BY <1>8, <1>9

\* epollCheck makes an edge of what the event has left to do.
LEMMA EpollOutEdge ==
    ASSUME ByteInv, ByteInv', EdgeInv, EpollOut
    PROVE  EdgeInv'
<1> DEFINE o == Other(cur)
<1>1. /\ UNCHANGED <<rx, eof, link, phase, cur>>
      /\ at = "writing" /\ at' = "event" /\ EpollCheck
      /\ reported' = [reported EXCEPT ![cur] = {}]
  BY DEF EpollOut, Handled
<1>2. phase # "closed"
  BY <1>1 DEF ByteInv, ClosedRests
<1>3. Linked /\ Fresh /\ QueueArmed /\ AtWork /\ EndsTold /\ TypeOK /\ TypeOK'
  BY <1>2 DEF EdgeInv, ByteInv
<1>4. /\ cur \in Ends /\ o \in Ends /\ o # cur /\ Ends = {cur, o}
      /\ reported'[o] = reported[o]
  <2>1. cur \in Ends
    BY <1>3 DEF TypeOK
  <2>2. o \in Ends /\ o # cur /\ Ends = {cur, o}
    BY <2>1, OtherEnd
  <2>3. reported'[o] = reported[o]
    BY <1>1, <1>3, <2>2 DEF TypeOK
  <2> QED
    BY <2>1, <2>2, <2>3
<1>5. cur = "front" \/ phase = "relaying"
  BY <1>1, <1>3 DEF AtWork
<1>6. /\ got'[cur] \o queue'[cur] = got[cur] \o queue[cur]
      /\ got'[o] = got[o] /\ queue'[o] = queue[o] /\ room'[o] = room[o]
  <2>1. got[cur] \in Seq(Bytes) /\ queue[cur] \in Seq(Bytes)
        /\ room \in [Ends -> 0 .. SendSize]
    BY <1>3, <1>4 DEF TypeOK
  <2>2. CASE "OUT" \in reported[cur] /\ queue[cur] # <<>>
    <3>1. PICK k \in Written(cur, Len(queue[cur])) : WriteOut(cur, queue[cur], k)
      BY <2>2 DEF EpollOut
    <3>2. Len(queue[cur]) \in Nat
      BY <2>1, LenProperties
    <3>3. k \in 0 .. Len(queue[cur]) /\ k <= room[cur]
      BY <1>3, <1>4, <3>2, WrittenBounds
    <3>4. room'[o] = room[o]
      BY <1>4, <2>1, <3>1 DEF WriteOut
    <3> QED
      BY <1>3, <1>4, <2>1, <3>1, <3>3, <3>4, WriteOutCarries
  <2>3. CASE ~("OUT" \in reported[cur] /\ queue[cur] # <<>>)
    BY <2>3 DEF EpollOut
  <2> QED
    BY <2>2, <2>3
<1>7. /\ armed' = IF queue'[cur] # <<>> THEN armed \cup {cur} ELSE armed \ {cur}
      /\ edge' = IF Readable(cur) \/ (queue'[cur] # <<>> /\ room'[cur] > 0)
                 THEN edge \cup {cur} ELSE edge
  BY <1>1 DEF EpollCheck
<1>8. Linked' /\ AtWork'
  BY <1>1, <1>3 DEF Linked, AtWork
<1>9. QueueArmed'
  <2>1. queue[o] # <<>> => o \in armed
    BY <1>3, <1>4 DEF QueueArmed
  <2>2. queue'[cur] # <<>> => cur \in armed'
    BY <1>7
  <2>3. queue'[o] # <<>> => o \in armed'
    BY <1>4, <1>6, <1>7, <2>1
  <2> QED
    BY <1>4, <2>2, <2>3 DEF QueueArmed
<1>10. Fresh'
  <2>1. CASE phase = "relaying"
    BY <1>1, <2>1 DEF Fresh
  <2>2. CASE cur = "front"
    <3>1. o = "back"
      BY <2>2 DEF Other
    <3> QED
      BY <1>1, <1>3, <1>4, <1>6, <1>7, <2>2, <3>1 DEF Fresh
  <2> QED
    BY <1>5, <2>1, <2>2
<1>11. ASSUME NEW x \in Ends, x = cur PROVE (Told(x) \/ Idle(x))'
  <2>1. room'[x] > 0 \/ room'[x] = 0
    <3>1. room'[x] \in 0 .. SendSize /\ SendSize \in Nat
      BY <1>3, RelayAssumption DEF TypeOK
    <3> QED
      BY <3>1
  <2>2. CASE x \in edge'
    BY <2>2 DEF Told
  <2>3. CASE x \notin edge'
    <3>1. ~Readable(x) /\ (queue'[x] # <<>> => room'[x] = 0)
      BY <1>7, <1>11, <2>1, <2>3
    <3>2. ~Readable(x)'
      BY <1>1, <3>1 DEF Readable
    <3>3. ~(x = "back" /\ phase = "connecting")
      BY <1>5, <1>11
    <3> QED
      BY <1>1, <1>9, <3>1, <3>2, <3>3 DEF Idle, QueueArmed
  <2> QED
    BY <2>2, <2>3
<1>12. ASSUME NEW x \in Ends, x = o PROVE (Told(x) \/ Idle(x))'
  <2>1. CASE Told(x)
    <3>1. edge \subseteq edge' /\ reported'[x] = reported[x]
      BY <1>4, <1>7, <1>12
    <3> QED
      BY <2>1, <3>1 DEF Told
  <2>2. CASE Idle(x)
    <3>1. queue'[x] # <<>> => room'[x] = 0 /\ x \in armed'
      BY <1>6, <1>9, <1>12, <2>2 DEF Idle, QueueArmed
    <3>2. x = "back" /\ Unheard => Unheard'
      <4>1. x = "back" => cur = "front"
        BY <1>4, <1>12 DEF Ends
      <4> QED
        BY <1>1, <1>6, <4>1 DEF Unheard
    <3> QED
      BY <1>1, <2>2, <3>1, <3>2 DEF Idle, Readable
  <2> QED
    BY <1>3, <2>1, <2>2 DEF EndsTold
<1>13. EndsTold'
  BY <1>4, <1>11, <1>12 DEF EndsTold
<1> QED
  BY <1>8, <1>9, <1>10, <1>13 DEF EdgeInv

-----------------------------------------------------------------------------
(* The theorem                                                             *)

LEMMA EdgeStep == ByteInv /\ ByteInv' /\ EdgeInv /\ [Next]_vars => EdgeInv'
<1> SUFFICES ASSUME ByteInv, ByteInv', EdgeInv, [Next]_vars PROVE EdgeInv'
  OBVIOUS
<1>1. ASSUME NEW e \in Ends, Arrive(e) \/ Finish(e) \/ Drain(e) PROVE EdgeInv'
  BY <1>1, PeersEdge
<1>2. CASE Establish
  BY <1>2, EstablishEdge
<1>3. CASE Wait
  BY <1>3, WaitEdge
<1>4. CASE EndBatch \/ (\E e \in Ends : Event(e)) \/ ReadNothing
  BY <1>4, MoveEdge DEF ByteInv
<1>5. CASE Connect
  BY <1>5, ConnectEdge
<1>6. CASE ReadSome
  BY <1>6, ReadSomeEdge
<1>7. CASE EpollOut
  BY <1>7, EpollOutEdge
<1>8. CASE ConnectFails \/ IdentifyTimeout \/ ReadEnd \/ ReadSomeFails \/ EpollOutFails
  <2>1. CloseSession
    BY <1>8 DEF ConnectFails, IdentifyTimeout, ReadEnd, ReadSomeFails, EpollOutFails,
                SendPacketFails
  <2> QED
    BY <2>1, CloseEdge
<1>9. CASE UNCHANGED vars
  BY <1>9 DEF vars, EdgeInv, Linked, Fresh, QueueArmed, AtWork, EndsTold, Told, Idle,
              Readable, Unheard
<1> QED
  BY <1>1, <1>2, <1>3, <1>4, <1>5, <1>6, <1>7, <1>8, <1>9 DEF Next, Environment, Loop

\* With edge-triggered epoll, EPOLLOUT asked for only while packets wait, and reads
\* that a signal can cut short, no end is ever left with something to do and no
\* event to come, but for what the destination sends before the Client's connection
\* is reported.
THEOREM NoEdgeIsLost == Spec => []NoLostEdge
<1>1. Init => EdgeInv
  BY InitEdge
<1>2. ByteInv /\ ByteInv' /\ EdgeInv /\ [Next]_vars => EdgeInv'
  BY EdgeStep
<1>3. EdgeInv => NoLostEdge
  BY EndsToldIsNoLostEdge DEF EdgeInv
<1> QED
  BY <1>1, <1>2, <1>3, ByteInvariant, PTL DEF Spec

=============================================================================
