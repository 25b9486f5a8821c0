---------------------------- MODULE PacketsProofs ----------------------------
(***************************************************************************)
(* Proofs about Packets, for any addresses and queues of any length.  Sound *)
(* relates a memory to what refers to it; each function of Memory takes a   *)
(* sound memory to a sound one, with one reference more or less.            *)
(***************************************************************************)
EXTENDS Packets, FiniteSetTheorems, TLAPS

-----------------------------------------------------------------------------
(* What the functions of Memory do to each cell                            *)

Alive(m, x) == x \in m.alive

\* n is m but for the cells X.
SameBut(m, n, X) ==
    /\ n \in Memories /\ n.misused = m.misused
    /\ \A y \in Cells \ X :
        /\ n.count[y] = m.count[y]
        /\ Alive(n, y) <=> Alive(m, y)
        /\ y \in Packets => n.data[y] = m.data[y]

LEMMA Apart ==
    ASSUME NEW p \in Packets, NEW b \in Buffers
    PROVE  p # b /\ p \in Cells /\ b \in Cells /\ b \notin Packets /\ p \notin Buffers
           /\ Null # p /\ Null # b
  BY MemoryAssumption DEF Cells

LEMMA SameTwice ==
    ASSUME NEW m, NEW n, NEW k, NEW X, NEW Y, SameBut(m, n, X), SameBut(n, k, Y)
    PROVE  SameBut(m, k, X \cup Y)
  BY DEF SameBut

LEMMA UsedAlive ==
    ASSUME NEW m \in Memories, NEW x \in Cells, Alive(m, x)
    PROVE  Used(m, x) = m
  BY DEF Memories, Used, Alive

LEMMA RetainCells ==
    ASSUME NEW m \in Memories, NEW x \in Cells, Alive(m, x)
    PROVE  /\ SameBut(m, Retain(m, x), {x})
           /\ Retain(m, x).count[x] = m.count[x] + 1
           /\ Alive(Retain(m, x), x)
           /\ Retain(m, x).data = m.data
<1> DEFINE n == Retain(m, x)
<1>1. n = [m EXCEPT !.count[x] = @ + 1]
  BY UsedAlive DEF Retain
<1> HIDE DEF n
<1>2. n \in Memories
  BY <1>1 DEF Memories
<1>3. n.alive = m.alive /\ n.data = m.data /\ n.misused = m.misused
      /\ n.count = [m.count EXCEPT ![x] = @ + 1]
  BY <1>1 DEF Memories
<1> QED BY <1>2, <1>3 DEF n, SameBut, Alive, Memories

LEMMA ReadNothing ==
    ASSUME NEW m \in Memories, NEW p \in Packets, Alive(m, p), Alive(m, m.data[p])
    PROVE  Read(m, p) = m
  BY DEF Memories, Read, Used, Alive

LEMMA ReleaseBufferCells ==
    ASSUME NEW m \in Memories, NEW b \in Buffers, Alive(m, b), m.count[b] # 0
    PROVE  /\ SameBut(m, ReleaseBuffer(m, b), {b})
           /\ ReleaseBuffer(m, b).count[b] = m.count[b] - 1
           /\ Alive(ReleaseBuffer(m, b), b) <=> m.count[b] # 1
           /\ ReleaseBuffer(m, b).data = m.data
<1> DEFINE n == ReleaseBuffer(m, b)
           a == IF m.count[b] = 1 THEN m.alive \ {b} ELSE m.alive
<1>1. n = [m EXCEPT !.count[b] = @ - 1, !.alive = a]
  BY UsedAlive, MemoryAssumption DEF ReleaseBuffer, Cells
<1>a. a \in SUBSET Cells /\ b \in Cells
  BY DEF Memories, Cells
<1>c. m.count \in [Cells -> Nat] /\ m.count[b] - 1 \in Nat
  BY DEF Memories, Cells
<1> HIDE DEF n
<1>2. n \in Memories
  BY <1>1, <1>a, <1>c DEF Memories
<1>3. n.alive = a /\ n.data = m.data /\ n.misused = m.misused
      /\ n.count = [m.count EXCEPT ![b] = @ - 1]
  BY <1>1, <1>c DEF Memories
<1>4. n.count[b] = m.count[b] - 1 /\ \A y \in Cells \ {b} : n.count[y] = m.count[y]
  BY <1>3, <1>c, <1>a
<1> QED BY <1>2, <1>3, <1>4 DEF n, SameBut, Alive, Memories

LEMMA NewBufferCells ==
    ASSUME NEW m \in Memories, NEW b \in Buffers, ~Alive(m, b)
    PROVE  /\ SameBut(m, NewBuffer(m, b), {b})
           /\ NewBuffer(m, b).count[b] = 1 /\ Alive(NewBuffer(m, b), b)
           /\ NewBuffer(m, b).data = m.data
<1> DEFINE n == [m EXCEPT !.alive = @ \cup {b}, !.count[b] = 0]
<1>1. n \in Memories /\ n.alive = m.alive \cup {b} /\ n.data = m.data
      /\ n.misused = m.misused /\ n.count = [m.count EXCEPT ![b] = 0]
  BY DEF Memories, Cells
<1>2. NewBuffer(m, b) = Retain(n, b)
  BY DEF NewBuffer
<1> HIDE DEF n
<1>3. Alive(n, b) /\ b \in Cells
  BY <1>1 DEF Alive, Cells
<1>4. SameBut(m, n, {b}) /\ n.count[b] = 0
  BY <1>1, <1>3 DEF SameBut, Alive, Memories
<1>5. /\ SameBut(n, Retain(n, b), {b}) /\ Retain(n, b).count[b] = 0 + 1
      /\ Alive(Retain(n, b), b) /\ Retain(n, b).data = n.data
  BY <1>1, <1>3, <1>4, RetainCells
<1>6. SameBut(m, Retain(n, b), {b} \cup {b})
  BY <1>4, <1>5, SameTwice
<1> QED BY <1>1, <1>2, <1>5, <1>6

\* A packet of buffer b, made and not retained yet.
Made(m, p, b) == [m EXCEPT !.alive = @ \cup {p}, !.count[p] = 0, !.data[p] = b]

LEMMA MadeCells ==
    ASSUME NEW m \in Memories, NEW p \in Packets, NEW b \in Buffers, ~Alive(m, p)
    PROVE  /\ SameBut(m, Made(m, p, b), {p}) /\ Made(m, p, b).count[p] = 0
           /\ Alive(Made(m, p, b), p) /\ Made(m, p, b).data[p] = b
<1> DEFINE n == Made(m, p, b)
<1>1. n \in Memories /\ n.alive = m.alive \cup {p} /\ n.data = [m.data EXCEPT ![p] = b]
      /\ n.misused = m.misused /\ n.count = [m.count EXCEPT ![p] = 0]
  BY DEF Memories, Cells, Made
<1> HIDE DEF n
<1>2. SameBut(m, n, {p}) /\ n.count[p] = 0 /\ Alive(n, p) /\ n.data[p] = b
  BY <1>1 DEF SameBut, Alive, Memories, Cells
<1> QED BY <1>2 DEF n

LEMMA NewPacketCells ==
    ASSUME NEW m \in Memories, NEW p \in Packets, NEW b \in Buffers,
           ~Alive(m, p), Alive(m, b)
    PROVE  /\ SameBut(m, NewPacket(m, p, b), {p, b})
           /\ NewPacket(m, p, b).count[p] = 0
           /\ NewPacket(m, p, b).count[b] = m.count[b] + 1
           /\ Alive(NewPacket(m, p, b), p) /\ Alive(NewPacket(m, p, b), b)
           /\ NewPacket(m, p, b).data[p] = b
<1> DEFINE n == Made(m, p, b)
<1>1. SameBut(m, n, {p}) /\ n.count[p] = 0 /\ Alive(n, p) /\ n.data[p] = b
  BY MadeCells, Zenon
<1>2. NewPacket(m, p, b) = Retain(n, b)
  BY DEF NewPacket, Made
<1> HIDE DEF n
<1>3. Alive(n, b) /\ n.count[b] = m.count[b]
  BY <1>1, Apart DEF SameBut
<1> QED BY <1>1, <1>2, <1>3, RetainCells, Apart DEF SameBut

LEMMA NewPacketOfCells ==
    ASSUME NEW m \in Memories, NEW p \in Packets, NEW b \in Buffers,
           ~Alive(m, p), ~Alive(m, b)
    PROVE  /\ SameBut(m, NewPacketOf(m, p, b), {p, b})
           /\ NewPacketOf(m, p, b).count[p] = 0 /\ NewPacketOf(m, p, b).count[b] = 1
           /\ Alive(NewPacketOf(m, p, b), p) /\ Alive(NewPacketOf(m, p, b), b)
           /\ NewPacketOf(m, p, b).data[p] = b
<1> DEFINE n == NewBuffer(m, b)
<1>1. SameBut(m, n, {b}) /\ n.count[b] = 1 /\ Alive(n, b)
  BY NewBufferCells
<1>2. NewPacketOf(m, p, b) = Made(n, p, b)
  BY DEF NewPacketOf, Made
<1> HIDE DEF n
<1>3. n \in Memories /\ ~Alive(n, p)
  BY <1>1, Apart DEF SameBut
<1> DEFINE k == Made(n, p, b)
<1>4. SameBut(n, k, {p}) /\ k.count[p] = 0 /\ Alive(k, p) /\ k.data[p] = b
  BY <1>3, MadeCells
<1> HIDE DEF k
<1>5. SameBut(m, k, {b} \cup {p})
  BY <1>1, <1>4, SameTwice
<1>6. k.count[b] = 1 /\ Alive(k, b)
  BY <1>1, <1>4, Apart DEF SameBut
<1>7. {p, b} = {b} \cup {p}
  OBVIOUS
<1> QED BY <1>2, <1>4, <1>5, <1>6, <1>7 DEF k

LEMMA ReleaseSharedCells ==
    ASSUME NEW m \in Memories, NEW p \in Packets, Alive(m, p), m.count[p] > 1
    PROVE  /\ SameBut(m, ReleasePacket(m, p), {p})
           /\ ReleasePacket(m, p).count[p] = m.count[p] - 1
           /\ Alive(ReleasePacket(m, p), p) /\ ReleasePacket(m, p).data = m.data
<1> DEFINE n == ReleasePacket(m, p)
<1>1. n = [m EXCEPT !.count[p] = @ - 1] /\ p \in Cells
  BY UsedAlive DEF ReleasePacket, Cells
<1>2. m.count[p] - 1 \in Nat
  BY DEF Memories, Cells
<1> HIDE DEF n
<1>3. n \in Memories
  BY <1>1, <1>2 DEF Memories
<1>4. n.alive = m.alive /\ n.data = m.data /\ n.misused = m.misused
      /\ n.count = [m.count EXCEPT ![p] = @ - 1]
  BY <1>1 DEF Memories
<1> QED BY <1>1, <1>3, <1>4 DEF n, SameBut, Alive, Memories

LEMMA ReleaseLastCells ==
    ASSUME NEW m \in Memories, NEW p \in Packets, Alive(m, p), m.count[p] = 1,
           NEW b \in Buffers, m.data[p] = b, Alive(m, b), m.count[b] # 0
    PROVE  /\ SameBut(m, ReleasePacket(m, p), {p, b})
           /\ ReleasePacket(m, p).count[p] = 0 /\ ~Alive(ReleasePacket(m, p), p)
           /\ ReleasePacket(m, p).count[b] = m.count[b] - 1
           /\ Alive(ReleasePacket(m, p), b) <=> m.count[b] # 1
<1> DEFINE n == [m EXCEPT !.count[p] = 0, !.alive = @ \ {p}, !.data[p] = Null]
<1>1. n \in Memories /\ n.alive = m.alive \ {p} /\ n.data = [m.data EXCEPT ![p] = Null]
      /\ n.misused = m.misused /\ n.count = [m.count EXCEPT ![p] = 0]
  BY DEF Memories, Cells
<1>2. ReleasePacket(m, p) = ReleaseBuffer(n, b)
  BY UsedAlive DEF ReleasePacket, Cells
<1> HIDE DEF n
<1>3. SameBut(m, n, {p}) /\ n.count[p] = 0 /\ ~Alive(n, p)
  BY <1>1 DEF SameBut, Alive, Memories, Cells
<1>4. Alive(n, b) /\ n.count[b] = m.count[b]
  BY <1>3, Apart DEF SameBut
<1> DEFINE k == ReleaseBuffer(n, b)
<1>5. SameBut(n, k, {b}) /\ k.count[b] = m.count[b] - 1 /\ (Alive(k, b) <=> m.count[b] # 1)
  <2>1. n \in Memories /\ n.count[b] # 0
    BY <1>1, <1>4
  <2>2. SameBut(n, k, {b}) /\ k.count[b] = n.count[b] - 1 /\ (Alive(k, b) <=> n.count[b] # 1)
    BY <2>1, <1>4, ReleaseBufferCells, Zenon
  <2> QED BY <2>2, <1>4
<1> HIDE DEF k
<1>6. SameBut(m, k, {p} \cup {b})
  BY <1>3, <1>5, SameTwice
<1>7. k.count[p] = 0 /\ ~Alive(k, p)
  BY <1>3, <1>5, Apart DEF SameBut
<1>8. {p, b} = {p} \cup {b}
  OBVIOUS
<1> QED BY <1>2, <1>5, <1>6, <1>7, <1>8 DEF k

-----------------------------------------------------------------------------
(* A sound memory                                                          *)

One(c) == IF c THEN 1 ELSE 0

HoldsData(m, b) == \E p \in Packets : Alive(m, p) /\ m.data[p] = b

\* h is the Accept's buffer, Q are the queued packets and E the early ones: each count
\* is the number of references, what is alive has one, and no buffer is the data of
\* two packets.
Sound(m, h, Q, E) ==
    /\ m \in Memories /\ ~m.misused
    /\ h \in Buffers \cup {Null} /\ Q \subseteq Packets /\ E \subseteq Packets
    /\ \A p \in Packets : m.count[p] = One(p \in Q) + One(p \in E)
    /\ \A b \in Buffers : m.count[b] = One(HoldsData(m, b)) + One(b = h)
    /\ \A x \in Cells : Alive(m, x) <=> m.count[x] # 0
    /\ \A p \in Packets : Alive(m, p) => m.data[p] \in Buffers
    /\ \A p, q \in Packets : Alive(m, p) /\ Alive(m, q) /\ m.data[p] = m.data[q] => p = q

\* The Accept's buffer is the data of no packet.
OwnBuffer(m, h) == \A p \in Packets : Alive(m, p) => m.data[p] # h

\* What soundness says of one packet or buffer.
LEMMA SoundCells ==
    ASSUME NEW m, NEW h, NEW Q, NEW E, Sound(m, h, Q, E)
    PROVE  /\ \A p \in Packets : Alive(m, p) <=> p \in Q \cup E
           /\ \A b \in Buffers : Alive(m, b) <=> HoldsData(m, b) \/ b = h
           /\ \A p \in Packets : Alive(m, p) =>
                m.data[p] \in Buffers /\ Alive(m, m.data[p]) /\ m.count[m.data[p]] # 0
           /\ h # Null => Alive(m, h) /\ m.count[h] # 0
<1>1. ASSUME NEW p \in Packets PROVE Alive(m, p) <=> p \in Q \cup E
  <2>1. m.count[p] = One(p \in Q) + One(p \in E)
    BY DEF Sound
  <2>2. Alive(m, p) <=> m.count[p] # 0
    BY DEF Sound, Cells
  <2> QED BY <2>1, <2>2 DEF One
<1>2. \A b \in Buffers : Alive(m, b) <=> HoldsData(m, b) \/ b = h
  BY Apart DEF Sound, One, Cells
<1>3. \A b \in Buffers : Alive(m, b) => m.count[b] # 0
  BY Apart DEF Sound, Cells
<1>4. \A p \in Packets : Alive(m, p) => m.data[p] \in Buffers /\ HoldsData(m, m.data[p])
  BY DEF Sound, HoldsData
<1>5. h # Null => h \in Buffers
  BY DEF Sound
<1> QED BY <1>1, <1>2, <1>3, <1>4, <1>5

\* A new packet is queued.
LEMMA QueueGains ==
    ASSUME NEW m, NEW h, NEW Q, NEW E, Sound(m, h, Q, E),
           NEW p \in Packets, NEW b \in Buffers, ~Alive(m, p), ~Alive(m, b)
    PROVE  /\ Sound(Retain(NewPacketOf(m, p, b), p), h, Q \cup {p}, E)
           /\ OwnBuffer(m, h) => OwnBuffer(Retain(NewPacketOf(m, p, b), p), h)
           /\ p \notin Q
<1> DEFINE k == NewPacketOf(m, p, b)   n == Retain(k, p)
<1>1. m \in Memories
  BY DEF Sound
<1>2. /\ SameBut(m, k, {p, b}) /\ k.count[p] = 0 /\ k.count[b] = 1
      /\ Alive(k, p) /\ Alive(k, b) /\ k.data[p] = b
  BY <1>1, NewPacketOfCells
<1> HIDE DEF k
<1>3. SameBut(k, n, {p}) /\ n.count[p] = 1 /\ Alive(n, p) /\ n.data = k.data
  BY <1>2, RetainCells, Apart DEF SameBut
<1> HIDE DEF n
<1>4. /\ n \in Memories /\ n.misused = m.misused /\ n.count[p] = 1 /\ n.count[b] = 1
      /\ Alive(n, p) /\ Alive(n, b) /\ n.data[p] = b
      /\ \A y \in Cells \ {p, b} : /\ n.count[y] = m.count[y]
                                   /\ Alive(n, y) <=> Alive(m, y)
                                   /\ y \in Packets => n.data[y] = m.data[y]
  BY <1>2, <1>3, Apart DEF SameBut
<1>5. p \notin Q /\ p \notin E /\ b # h /\ ~HoldsData(m, b)
  BY SoundCells
<1>6. \A q \in Packets \ {p} : /\ n.count[q] = m.count[q] /\ (Alive(n, q) <=> Alive(m, q))
                               /\ n.data[q] = m.data[q] /\ (Alive(m, q) => m.data[q] # b)
  BY <1>4, <1>5, Apart DEF HoldsData
<1>7. ASSUME NEW q \in Packets
      PROVE  n.count[q] = One(q \in Q \cup {p}) + One(q \in E)
  <2>1. m.count[q] = One(q \in Q) + One(q \in E)
    BY DEF Sound
  <2> QED BY <2>1, <1>4, <1>5, <1>6 DEF One
<1>8. \A c \in Buffers \ {b} : HoldsData(n, c) <=> HoldsData(m, c)
  BY <1>4, <1>6 DEF HoldsData
<1>9. \A c \in Buffers : n.count[c] = One(HoldsData(n, c)) + One(c = h)
  <2>1. HoldsData(n, b)
    BY <1>4 DEF HoldsData
  <2>2. \A c \in Buffers \ {b} : n.count[c] = m.count[c]
    BY <1>4, Apart
  <2> QED BY <2>1, <2>2, <1>4, <1>5, <1>8 DEF Sound, One
<1>10. \A x \in Cells : Alive(n, x) <=> n.count[x] # 0
  BY <1>4 DEF Sound
<1>11. /\ \A q \in Packets : Alive(n, q) => n.data[q] \in Buffers
       /\ \A q, r \in Packets : Alive(n, q) /\ Alive(n, r) /\ n.data[q] = n.data[r] => q = r
  BY <1>4, <1>6 DEF Sound
<1>12. Sound(n, h, Q \cup {p}, E)
  BY <1>4, <1>7, <1>9, <1>10, <1>11 DEF Sound
<1>13. OwnBuffer(m, h) => OwnBuffer(n, h)
  BY <1>4, <1>5, <1>6 DEF OwnBuffer
<1> QED BY <1>5, <1>12, <1>13 DEF n, k

\* A queued packet is released, for the last time unless it is an early one.
LEMMA QueueLoses ==
    ASSUME NEW m, NEW h, NEW Q, NEW E, Sound(m, h, Q, E), NEW p \in Q
    PROVE  /\ Sound(ReleasePacket(m, p), h, Q \ {p}, E)
           /\ OwnBuffer(m, h) => OwnBuffer(ReleasePacket(m, p), h)
<1> DEFINE n == ReleasePacket(m, p)
<1>1. m \in Memories /\ p \in Packets /\ Alive(m, p) /\ p \in Cells
  BY SoundCells DEF Sound, Cells
<1>2. CASE p \in E
  <2>1. m.count[p] = 2
    BY <1>1, <1>2 DEF Sound, One
  <2>2. SameBut(m, n, {p}) /\ n.count[p] = 1 /\ Alive(n, p) /\ n.data = m.data
    BY <1>1, <2>1, ReleaseSharedCells
  <2> HIDE DEF n
  <2>3. \A x \in Cells : Alive(n, x) <=> Alive(m, x)
    BY <1>1, <2>2 DEF SameBut
  <2>4. \A q \in Packets : /\ Alive(n, q) <=> Alive(m, q)
                           /\ q # p => n.count[q] = m.count[q]
    BY <2>2, <2>3 DEF SameBut, Cells
  <2>5. ASSUME NEW q \in Packets
        PROVE  n.count[q] = One(q \in Q \ {p}) + One(q \in E)
    <3>1. m.count[q] = One(q \in Q) + One(q \in E)
      BY DEF Sound
    <3> QED BY <3>1, <1>2, <2>2, <2>4 DEF One
  <2>6. \A c \in Buffers : n.count[c] = m.count[c] /\ (HoldsData(n, c) <=> HoldsData(m, c))
    BY <1>1, <2>2, <2>4, Apart DEF SameBut, HoldsData
  <2>7. \A x \in Cells : Alive(n, x) <=> n.count[x] # 0
    BY <2>2 DEF Sound, SameBut
  <2>10. /\ \A q \in Packets : Alive(n, q) => n.data[q] \in Buffers
         /\ \A q, r \in Packets : Alive(n, q) /\ Alive(n, r) /\ n.data[q] = n.data[r] => q = r
    BY <2>2, <2>4 DEF Sound
  <2>11. /\ n \in Memories /\ ~n.misused /\ h \in Buffers \cup {Null}
         /\ Q \ {p} \subseteq Packets /\ E \subseteq Packets
    BY <2>2 DEF Sound, SameBut
  <2>12. \A c \in Buffers : n.count[c] = One(HoldsData(n, c)) + One(c = h)
    BY <2>6 DEF Sound, One
  <2>8. Sound(n, h, Q \ {p}, E)
    BY <2>5, <2>7, <2>10, <2>11, <2>12, Zenon DEF Sound
  <2>9. OwnBuffer(m, h) => OwnBuffer(n, h)
    BY <2>2, <2>4 DEF OwnBuffer
  <2> QED BY <2>8, <2>9 DEF n
<1>3. CASE p \notin E
  <2>1. m.count[p] = 1
    BY <1>1, <1>3 DEF Sound, One
  <2> DEFINE b == m.data[p]
  <2>2. b \in Buffers /\ Alive(m, b) /\ m.count[b] # 0 /\ HoldsData(m, b)
    BY <1>1, SoundCells DEF HoldsData
  <2>3. m.count[b] = 1 + One(b = h)
    BY <2>2 DEF Sound, One
  <2>4. /\ SameBut(m, n, {p, b}) /\ n.count[p] = 0 /\ ~Alive(n, p)
        /\ n.count[b] = m.count[b] - 1 /\ (Alive(n, b) <=> m.count[b] # 1)
    BY <1>1, <2>1, <2>2, ReleaseLastCells
  <2> HIDE DEF n
  <2>5. \A q \in Packets \ {p} :
          /\ n.count[q] = m.count[q] /\ (Alive(n, q) <=> Alive(m, q))
          /\ n.data[q] = m.data[q] /\ (Alive(m, q) => m.data[q] # b)
    BY <1>1, <2>2, <2>4, Apart DEF SameBut, Sound
  <2>6. ASSUME NEW q \in Packets
        PROVE  n.count[q] = One(q \in Q \ {p}) + One(q \in E)
    <3>1. m.count[q] = One(q \in Q) + One(q \in E)
      BY DEF Sound
    <3> QED BY <3>1, <1>3, <2>4, <2>5 DEF One
  <2>7. ~HoldsData(n, b) /\ \A c \in Buffers \ {b} : HoldsData(n, c) <=> HoldsData(m, c)
    BY <1>1, <2>4, <2>5 DEF HoldsData
  <2>8. \A c \in Buffers : n.count[c] = One(HoldsData(n, c)) + One(c = h)
    <3>1. \A c \in Buffers \ {b} : n.count[c] = m.count[c]
      BY <1>1, <2>2, <2>4, Apart DEF SameBut
    <3> QED BY <3>1, <2>3, <2>4, <2>7 DEF Sound, One
  <2>9. \A x \in Cells : Alive(n, x) <=> n.count[x] # 0
    BY <2>2, <2>3, <2>4 DEF Sound, SameBut, One
  <2>10. /\ \A q \in Packets : Alive(n, q) => n.data[q] \in Buffers
         /\ \A q, r \in Packets : Alive(n, q) /\ Alive(n, r) /\ n.data[q] = n.data[r] => q = r
    BY <2>4, <2>5 DEF Sound
  <2>11. Sound(n, h, Q \ {p}, E)
    BY <2>4, <2>6, <2>8, <2>9, <2>10 DEF Sound, SameBut
  <2>12. OwnBuffer(m, h) => OwnBuffer(n, h)
    BY <2>4, <2>5 DEF OwnBuffer
  <2> QED BY <2>11, <2>12 DEF n
<1> QED BY <1>2, <1>3

\* getBuffer of the Accept.
LEMMA AcceptGains ==
    ASSUME NEW m, NEW Q, NEW E, Sound(m, Null, Q, E), NEW b \in Buffers, ~Alive(m, b)
    PROVE  Sound(NewBuffer(m, b), b, Q, E) /\ OwnBuffer(NewBuffer(m, b), b)
<1> DEFINE n == NewBuffer(m, b)
<1>1. SameBut(m, n, {b}) /\ n.count[b] = 1 /\ Alive(n, b) /\ n.data = m.data
  BY NewBufferCells DEF Sound
<1> HIDE DEF n
<1>2. \A q \in Packets : n.count[q] = m.count[q] /\ (Alive(n, q) <=> Alive(m, q))
  BY <1>1, Apart DEF SameBut
<1>3. ~HoldsData(m, b) /\ \A c \in Buffers : HoldsData(n, c) <=> HoldsData(m, c)
  <2>1. ~HoldsData(m, b)
    BY SoundCells
  <2> QED BY <1>1, <1>2, <2>1 DEF HoldsData
<1>4. \A c \in Buffers : n.count[c] = One(HoldsData(n, c)) + One(c = b)
  <2>1. \A c \in Buffers \ {b} : n.count[c] = m.count[c] /\ c # Null
    BY <1>1, MemoryAssumption DEF SameBut, Cells
  <2> QED BY <1>1, <1>3, <2>1 DEF Sound, One
<1>5. \A x \in Cells : Alive(n, x) <=> n.count[x] # 0
  BY <1>1 DEF Sound, SameBut
<1>6. Sound(n, b, Q, E)
  BY <1>1, <1>2, <1>4, <1>5 DEF Sound, SameBut
<1>7. OwnBuffer(n, b)
  BY <1>1, <1>2, <1>3 DEF OwnBuffer, HoldsData
<1> QED BY <1>6, <1>7 DEF n

\* SAFE_RELEASE of the Accept's buffer.
LEMMA AcceptLoses ==
    ASSUME NEW m, NEW h, NEW Q, NEW E, Sound(m, h, Q, E)
    PROVE  Sound(ReleaseBuffer(m, h), Null, Q, E) /\ OwnBuffer(ReleaseBuffer(m, h), Null)
<1> DEFINE n == ReleaseBuffer(m, h)
<1>1. CASE h = Null
  BY <1>1, Apart DEF ReleaseBuffer, OwnBuffer, Sound
<1>2. CASE h # Null
  <2>1. h \in Buffers /\ m \in Memories /\ Alive(m, h) /\ m.count[h] # 0
    BY <1>2, SoundCells DEF Sound
  <2>2. /\ SameBut(m, n, {h}) /\ n.count[h] = m.count[h] - 1
        /\ (Alive(n, h) <=> m.count[h] # 1) /\ n.data = m.data
    BY <2>1, ReleaseBufferCells
  <2> HIDE DEF n
  <2>3. \A q \in Packets : n.count[q] = m.count[q] /\ (Alive(n, q) <=> Alive(m, q))
    BY <2>1, <2>2, Apart DEF SameBut
  <2>4. \A c \in Buffers : HoldsData(n, c) <=> HoldsData(m, c)
    BY <2>2, <2>3 DEF HoldsData
  <2>5. \A c \in Buffers : n.count[c] = One(HoldsData(n, c)) + One(c = Null)
    <3>1. \A c \in Buffers \ {h} : n.count[c] = m.count[c]
      BY <2>2 DEF SameBut, Cells
    <3> QED BY <3>1, <2>1, <2>2, <2>4, MemoryAssumption DEF Sound, One
  <2>6. \A x \in Cells : Alive(n, x) <=> n.count[x] # 0
    BY <2>1, <2>2 DEF Sound, SameBut, Memories, Cells
  <2>7. Sound(n, Null, Q, E)
    BY <2>2, <2>3, <2>5, <2>6 DEF Sound, SameBut
  <2>8. OwnBuffer(n, Null)
    BY <2>7, Apart DEF OwnBuffer, Sound
  <2> QED BY <2>7, <2>8 DEF n
<1> QED BY <1>1, <1>2

\* The packet of early bytes shares the Accept's buffer while it is written.
LEMMA EarlyGains ==
    ASSUME NEW m, NEW h, NEW Q, NEW E, Sound(m, h, Q, E), OwnBuffer(m, h),
           NEW p \in Packets, ~Alive(m, p), h # Null
    PROVE  /\ Sound(Read(Retain(Retain(NewPacket(m, p, h), p), p), p),
                    h, Q \cup {p}, E \cup {p})
           /\ p \notin Q
<1>1. m \in Memories /\ h \in Buffers /\ Alive(m, h) /\ m.count[h] = 1
  <2>1. ~HoldsData(m, h)
    BY DEF OwnBuffer, HoldsData
  <2>2. h \in Buffers /\ m \in Memories
    BY DEF Sound
  <2>3. m.count[h] = One(HoldsData(m, h)) + One(h = h)
    BY <2>2 DEF Sound
  <2> QED BY <2>1, <2>2, <2>3, SoundCells DEF One
<1> DEFINE k == NewPacket(m, p, h)
<1>2. /\ SameBut(m, k, {p, h}) /\ k.count[p] = 0 /\ k.count[h] = 2
      /\ Alive(k, p) /\ Alive(k, h) /\ k.data[p] = h
  BY <1>1, NewPacketCells
<1> HIDE DEF k
<1>a. k \in Memories /\ p \in Cells
  BY <1>2 DEF SameBut, Cells
<1> DEFINE l == Retain(k, p)
<1>3. SameBut(k, l, {p}) /\ l.count[p] = 1 /\ Alive(l, p) /\ l.data = k.data
  BY <1>2, <1>a, RetainCells
<1> HIDE DEF l
<1>b. l \in Memories
  BY <1>3 DEF SameBut
<1> DEFINE n == Retain(l, p)
<1>4. SameBut(l, n, {p}) /\ n.count[p] = 2 /\ Alive(n, p) /\ n.data = l.data
  BY <1>3, <1>a, <1>b, RetainCells
<1> HIDE DEF n
<1>5. /\ n \in Memories /\ n.misused = m.misused /\ n.count[p] = 2 /\ n.count[h] = 2
      /\ Alive(n, p) /\ Alive(n, h) /\ n.data[p] = h
      /\ \A y \in Cells \ {p, h} : /\ n.count[y] = m.count[y]
                                   /\ Alive(n, y) <=> Alive(m, y)
                                   /\ y \in Packets => n.data[y] = m.data[y]
  BY <1>1, <1>2, <1>3, <1>4, Apart DEF SameBut
<1>6. Read(n, p) = n
  BY <1>5, ReadNothing
<1>7. p \notin Q /\ p \notin E
  BY SoundCells
<1>8. \A q \in Packets \ {p} : /\ n.count[q] = m.count[q] /\ (Alive(n, q) <=> Alive(m, q))
                               /\ n.data[q] = m.data[q] /\ (Alive(m, q) => m.data[q] # h)
  BY <1>1, <1>5, Apart DEF OwnBuffer
<1>9. ASSUME NEW q \in Packets
      PROVE  n.count[q] = One(q \in Q \cup {p}) + One(q \in E \cup {p})
  <2>1. m.count[q] = One(q \in Q) + One(q \in E)
    BY DEF Sound
  <2> QED BY <2>1, <1>5, <1>7, <1>8 DEF One
<1>10. HoldsData(n, h) /\ \A c \in Buffers \ {h} : HoldsData(n, c) <=> HoldsData(m, c)
  <2>1. HoldsData(n, h)
    BY <1>5 DEF HoldsData
  <2>2. \A c \in Buffers \ {h} : HoldsData(n, c) <=> HoldsData(m, c)
    BY <1>5, <1>8 DEF HoldsData
  <2> QED BY <2>1, <2>2
<1>11. \A c \in Buffers : n.count[c] = One(HoldsData(n, c)) + One(c = h)
  <2>1. \A c \in Buffers \ {h} : n.count[c] = m.count[c]
    BY <1>5, Apart
  <2> QED BY <2>1, <1>5, <1>10 DEF Sound, One
<1>12. \A x \in Cells : Alive(n, x) <=> n.count[x] # 0
  BY <1>5 DEF Sound
<1>13. /\ \A q \in Packets : Alive(n, q) => n.data[q] \in Buffers
       /\ \A q, r \in Packets : Alive(n, q) /\ Alive(n, r) /\ n.data[q] = n.data[r] => q = r
  BY <1>1, <1>5, <1>8 DEF Sound
<1>14. Sound(n, h, Q \cup {p}, E \cup {p})
  BY <1>5, <1>9, <1>11, <1>12, <1>13 DEF Sound
<1> QED BY <1>6, <1>7, <1>14 DEF n, l, k

-----------------------------------------------------------------------------
(* The queues                                                              *)

QueuedOf(q) == Members(q["front"]) \cup Members(q["back"])

\* No packet is in the queues twice.
Once(q) ==
    \A e, f \in Ends : \A i \in DOMAIN q[e], j \in DOMAIN q[f] :
        q[e][i] = q[f][j] => e = f /\ i = j

Queues(q) == q \in [Ends -> Seq(Packets)] /\ Once(q)

\* r is q but for the queue of end e, which is s.
Changes(q, r, e, s) ==
    /\ r \in [Ends -> Seq(Packets)] /\ r[e] = s
    /\ \A f \in Ends : f # e => r[f] = q[f]

LEMMA QueuedWhere ==
    ASSUME NEW q
    PROVE  \A p : p \in QueuedOf(q) <=> \E e \in Ends : \E i \in DOMAIN q[e] : q[e][i] = p
  BY DEF QueuedOf, Members, Ends

LEMMA PushBackKeeps ==
    ASSUME NEW q, Queues(q), NEW e \in Ends, NEW p \in Packets, p \notin QueuedOf(q),
           NEW r, Changes(q, r, e, Append(q[e], p))
    PROVE  Queues(r) /\ QueuedOf(r) = QueuedOf(q) \cup {p}
<1> DEFINE k == Len(q[e]) + 1
<1>1. /\ q \in [Ends -> Seq(Packets)]
      /\ r \in [Ends -> Seq(Packets)] /\ k \notin DOMAIN q[e]
      /\ DOMAIN r[e] = DOMAIN q[e] \cup {k} /\ r[e][k] = p
      /\ \A i \in DOMAIN q[e] : r[e][i] = q[e][i]
      /\ \A f \in Ends : f # e => r[f] = q[f]
  BY DEF Queues, Changes
<1> HIDE DEF k
<1>2. \A f \in Ends : \A i : i \in DOMAIN r[f] =>
        (f = e /\ i = k /\ r[f][i] = p) \/ (i \in DOMAIN q[f] /\ r[f][i] = q[f][i])
  BY <1>1
<1>3. \A f \in Ends : \A i : i \in DOMAIN q[f] => i \in DOMAIN r[f] /\ r[f][i] = q[f][i]
  BY <1>1
<1>4. QueuedOf(r) = QueuedOf(q) \cup {p}
  <2>1. ASSUME NEW x \in QueuedOf(r) PROVE x \in QueuedOf(q) \cup {p}
    BY <2>1, <1>2, QueuedWhere
  <2>2. ASSUME NEW x \in QueuedOf(q) PROVE x \in QueuedOf(r)
    BY <2>2, <1>3, QueuedWhere
  <2>3. p \in QueuedOf(r)
    BY <1>1, QueuedWhere
  <2> QED BY <2>1, <2>2, <2>3
<1>5. Once(r)
  BY <1>2, QueuedWhere DEF Once, Queues
<1> QED BY <1>1, <1>4, <1>5 DEF Queues

LEMMA PushFrontKeeps ==
    ASSUME NEW q, Queues(q), NEW e \in Ends, NEW p \in Packets, p \notin QueuedOf(q),
           NEW r, Changes(q, r, e, <<p>> \o q[e])
    PROVE  Queues(r) /\ QueuedOf(r) = QueuedOf(q) \cup {p}
<1>1. /\ q \in [Ends -> Seq(Packets)]
      /\ r \in [Ends -> Seq(Packets)] /\ r[e][1] = p /\ 1 \in DOMAIN r[e]
      /\ \A i \in DOMAIN q[e] : i \in Nat /\ i # 0 /\ i + 1 \in DOMAIN r[e] /\ r[e][i + 1] = q[e][i]
      /\ \A i \in DOMAIN r[e] \ {1} : i \in Nat /\ i - 1 \in DOMAIN q[e] /\ r[e][i] = q[e][i - 1]
      /\ \A f \in Ends : f # e => r[f] = q[f]
  BY DEF Queues, Changes
<1>4. QueuedOf(r) = QueuedOf(q) \cup {p}
  <2>1. ASSUME NEW x \in QueuedOf(r) PROVE x \in QueuedOf(q) \cup {p}
    <3>1. PICK f \in Ends : \E i \in DOMAIN r[f] : r[f][i] = x
      BY <2>1, QueuedWhere
    <3>2. PICK i \in DOMAIN r[f] : r[f][i] = x
      BY <3>1
    <3>3. CASE f # e
      BY <3>2, <3>3, <1>1, QueuedWhere
    <3>4. CASE f = e /\ i = 1
      BY <3>2, <3>4, <1>1
    <3>5. CASE f = e /\ i # 1
      <4>1. i - 1 \in DOMAIN q[e] /\ q[e][i - 1] = x
        BY <3>2, <3>5, <1>1
      <4> QED BY <4>1, QueuedWhere
    <3> QED BY <3>3, <3>4, <3>5
  <2>2. ASSUME NEW x \in QueuedOf(q) PROVE x \in QueuedOf(r)
    <3>1. PICK f \in Ends : \E i \in DOMAIN q[f] : q[f][i] = x
      BY <2>2, QueuedWhere
    <3>2. PICK i \in DOMAIN q[f] : q[f][i] = x
      BY <3>1
    <3>3. CASE f # e
      BY <3>2, <3>3, <1>1, QueuedWhere
    <3>4. CASE f = e
      <4>1. i + 1 \in DOMAIN r[e] /\ r[e][i + 1] = x
        BY <3>2, <3>4, <1>1
      <4> QED BY <4>1, QueuedWhere
    <3> QED BY <3>3, <3>4
  <2>3. p \in QueuedOf(r)
    BY <1>1, QueuedWhere
  <2> QED BY <2>1, <2>2, <2>3
<1>5. Once(r)
  <2> SUFFICES ASSUME NEW f \in Ends, NEW g \in Ends, NEW i \in DOMAIN r[f],
                      NEW j \in DOMAIN r[g], r[f][i] = r[g][j]
               PROVE  f = g /\ i = j
    BY DEF Once
  <2> DEFINE Old(c, a) == c # e \/ a # 1
             Was(c, a) == IF c = e THEN a - 1 ELSE a
  <2>1. \A c \in Ends : \A a \in DOMAIN r[c] :
          IF Old(c, a) THEN Was(c, a) \in DOMAIN q[c] /\ r[c][a] = q[c][Was(c, a)]
          ELSE r[c][a] = p
    BY <1>1
  <2>2. \A c \in Ends : \A a \in DOMAIN q[c] : q[c][a] # p
    BY QueuedWhere
  <2>3. CASE Old(f, i) /\ Old(g, j)
    <3>1. f = g /\ Was(f, i) = Was(g, j)
      BY <2>1, <2>3 DEF Once, Queues
    <3> QED BY <3>1, <1>1
  <2>4. CASE ~Old(f, i) \/ ~Old(g, j)
    BY <2>1, <2>2, <2>4
  <2> QED BY <2>3, <2>4
<1> QED BY <1>1, <1>4, <1>5 DEF Queues

LEMMA PopFrontKeeps ==
    ASSUME NEW q, Queues(q), NEW e \in Ends, q[e] # <<>>,
           NEW r, Changes(q, r, e, Tail(q[e]))
    PROVE  /\ Queues(r) /\ QueuedOf(r) = QueuedOf(q) \ {Head(q[e])}
           /\ Head(q[e]) \in QueuedOf(q)
<1>1. /\ q \in [Ends -> Seq(Packets)]
      /\ r \in [Ends -> Seq(Packets)] /\ q[e][1] = Head(q[e]) /\ 1 \in DOMAIN q[e]
      /\ \A i \in DOMAIN r[e] : i \in Nat /\ i # 0 /\ i + 1 \in DOMAIN q[e] /\ q[e][i + 1] = r[e][i]
      /\ \A i \in DOMAIN q[e] \ {1} : i \in Nat /\ i - 1 \in DOMAIN r[e] /\ q[e][i] = r[e][i - 1]
      /\ \A f \in Ends : f # e => r[f] = q[f]
  BY DEF Queues, Changes
<1> DEFINE h == Head(q[e])
<1> HIDE DEF h
<1>2. h \in QueuedOf(q)
  BY <1>1, QueuedWhere DEF h
<1>3. \A f \in Ends : \A i \in DOMAIN q[f] : q[f][i] = h => f = e /\ i = 1
  BY <1>1 DEF Queues, Once, h
<1>4. QueuedOf(r) = QueuedOf(q) \ {h}
  <2>1. ASSUME NEW x \in QueuedOf(r) PROVE x \in QueuedOf(q) /\ x # h
    <3>1. PICK f \in Ends : \E i \in DOMAIN r[f] : r[f][i] = x
      BY <2>1, QueuedWhere
    <3>2. PICK i \in DOMAIN r[f] : r[f][i] = x
      BY <3>1
    <3>3. CASE f # e
      BY <3>2, <3>3, <1>1, <1>3, QueuedWhere
    <3>4. CASE f = e
      <4>1. i + 1 \in DOMAIN q[e] /\ q[e][i + 1] = x /\ i + 1 # 1
        BY <3>2, <3>4, <1>1
      <4> QED BY <4>1, <1>3, QueuedWhere
    <3> QED BY <3>3, <3>4
  <2>2. ASSUME NEW x \in QueuedOf(q), x # h PROVE x \in QueuedOf(r)
    <3>1. PICK f \in Ends : \E i \in DOMAIN q[f] : q[f][i] = x
      BY <2>2, QueuedWhere
    <3>2. PICK i \in DOMAIN q[f] : q[f][i] = x
      BY <3>1
    <3>3. CASE f # e
      BY <3>2, <3>3, <1>1, QueuedWhere
    <3>4. CASE f = e
      <4>1. i # 1
        BY <1>1, <3>2, <3>4, <2>2 DEF h
      <4>2. i - 1 \in DOMAIN r[e] /\ r[e][i - 1] = x
        BY <3>2, <3>4, <4>1, <1>1
      <4> QED BY <4>2, QueuedWhere
    <3> QED BY <3>3, <3>4
  <2> QED BY <2>1, <2>2
<1>5. Once(r)
  <2> SUFFICES ASSUME NEW f \in Ends, NEW g \in Ends, NEW i \in DOMAIN r[f],
                      NEW j \in DOMAIN r[g], r[f][i] = r[g][j]
               PROVE  f = g /\ i = j
    BY DEF Once
  <2> DEFINE Was(c, a) == IF c = e THEN a + 1 ELSE a
  <2>1. \A c \in Ends : \A a \in DOMAIN r[c] :
          Was(c, a) \in DOMAIN q[c] /\ r[c][a] = q[c][Was(c, a)]
    BY <1>1
  <2>2. f = g /\ Was(f, i) = Was(g, j)
    BY <2>1 DEF Once, Queues
  <2> QED BY <2>2, <1>1
<1> QED BY <1>1, <1>2, <1>4, <1>5 DEF Queues, h

-----------------------------------------------------------------------------
(* The invariant                                                           *)

\* What an end can hold in each phase; closing says what is still to be released.
Phased ==
    /\ phase \in {"closed", "connecting", "relaying", "closing"}
    /\ phase # "closing" => closing = <<>>
    /\ phase = "closing" =>
        closing \in {<<"front", "back">>, <<"back", "front">>, <<"front">>, <<"back">>}
    /\ phase \in {"closed", "connecting"} => queue["front"] = <<>> /\ queue["back"] = <<>>
    /\ phase \in {"closed", "relaying"} => hash = Null
    /\ closing = <<"front">> => queue["back"] = <<>>
    /\ closing = <<"back">> => queue["front"] = <<>> /\ hash = Null

PacketsInv ==
    /\ Sound(mem, hash, Queued, early)
    /\ Queues(queue)
    /\ Phased
    /\ phase # "closing" => OwnBuffer(mem, hash)

LEMMA ClosingPairs ==
    /\ Head(<<"front", "back">>) = "front" /\ Tail(<<"front", "back">>) = <<"back">>
    /\ Head(<<"back", "front">>) = "back" /\ Tail(<<"back", "front">>) = <<"front">>
    /\ Head(<<"front">>) = "front" /\ Tail(<<"front">>) = <<>>
    /\ Head(<<"back">>) = "back" /\ Tail(<<"back">>) = <<>>
    /\ <<"front">> # <<>> /\ <<"back">> # <<>> /\ <<"front", "back">> # <<>>
    /\ <<"back", "front">> # <<>> /\ <<"front">> # <<"back">>
    /\ <<"front", "back">> \notin {<<"front">>, <<"back">>}
    /\ <<"back", "front">> \notin {<<"front">>, <<"back">>}
  OBVIOUS

LEMMA ClosesWhole ==
    ASSUME NEW e \in Ends, Close(e)
    PROVE  /\ phase' = "closing"
           /\ closing' \in {<<"front", "back">>, <<"back", "front">>}
  BY DEF Close, Other, Ends

\* A memory that is sound owns its buffer if the Accept has none.
LEMMA NoBufferOwn ==
    ASSUME NEW m, NEW Q, NEW E, Sound(m, Null, Q, E)
    PROVE  OwnBuffer(m, Null)
  BY Apart DEF Sound, OwnBuffer

LEMMA PacketsInit == Init => PacketsInv
<1> SUFFICES ASSUME Init PROVE PacketsInv
  OBVIOUS
<1>1. Queued = {} /\ Queues(queue)
  BY DEF Init, Queued, Members, Ends, Queues, Once
<1>2. /\ EmptyMemory \in Memories /\ EmptyMemory.misused = FALSE /\ EmptyMemory.alive = {}
      /\ \A x \in Cells : EmptyMemory.count[x] = 0
  BY DEF EmptyMemory, Memories
<1>3. ASSUME NEW p \in Packets PROVE EmptyMemory.count[p] = One(p \in {}) + One(p \in {})
  BY <1>2 DEF Cells, One
<1>4. ASSUME NEW b \in Buffers
      PROVE  EmptyMemory.count[b] = One(HoldsData(EmptyMemory, b)) + One(b = Null)
  BY <1>2, Apart, MemoryAssumption DEF Cells, One, HoldsData, Alive
<1>5. Sound(EmptyMemory, Null, {}, {})
  BY <1>2, <1>3, <1>4 DEF Sound, Alive
<1>6. Sound(mem, hash, Queued, early) /\ OwnBuffer(mem, hash)
  BY <1>1, <1>5, NoBufferOwn DEF Init
<1>7. Phased
  BY DEF Init, Phased, Ends
<1> QED BY <1>1, <1>6, <1>7 DEF PacketsInv

-----------------------------------------------------------------------------
(* The steps                                                               *)

LEMMA OpenKeeps == ASSUME PacketsInv, Open PROVE PacketsInv'
<1>1. Queued' = Queued
  BY DEF Open, Queued
<1>2. Phased'
  BY DEF Open, PacketsInv, Phased
<1> QED BY <1>1, <1>2 DEF Open, PacketsInv

LEMMA ReadEarlyKeeps == ASSUME PacketsInv, ReadEarly PROVE PacketsInv'
<1>1. Queued' = Queued /\ queue' = queue /\ early' = early /\ phase = "connecting" /\ phase' = phase
  BY DEF ReadEarly, Queued
<1>2. Phased'
  BY DEF ReadEarly, PacketsInv, Phased
<1>3. Sound(mem, hash, Queued, early) /\ OwnBuffer(mem, hash)
  BY <1>1 DEF PacketsInv
<1>4. CASE hash # Null
  <2>1. mem' = Used(mem, hash) /\ hash' = hash
    BY <1>4 DEF ReadEarly
  <2>2. mem \in Memories /\ hash \in Cells /\ Alive(mem, hash)
    <3>1. mem \in Memories /\ hash \in Cells
      BY <1>3, <1>4 DEF Sound, Cells
    <3>2. Alive(mem, hash)
      BY <1>3, <1>4, SoundCells
    <3> QED BY <3>1, <3>2
  <2>3. mem' = mem
    BY <2>1, <2>2, UsedAlive
  <2> QED BY <1>1, <1>2, <2>1, <2>3 DEF PacketsInv
<1>5. CASE hash = Null
  <2>1. PICK b \in NewBuffers : mem' = NewBuffer(mem, b) /\ hash' = b
    BY <1>5 DEF ReadEarly
  <2>2. b \in Buffers /\ ~Alive(mem, b)
    BY DEF NewBuffers, Alive
  <2>3. Sound(mem', hash', Queued, early) /\ OwnBuffer(mem', hash')
    BY <1>3, <1>5, <2>1, <2>2, AcceptGains
  <2> QED BY <1>1, <1>2, <2>3 DEF PacketsInv
<1> QED BY <1>4, <1>5

LEMMA ConnectIdleKeeps == ASSUME PacketsInv, ConnectIdle PROVE PacketsInv'
<1>1. Queued' = Queued
  BY DEF ConnectIdle, Queued
<1>2. Phased'
  BY DEF ConnectIdle, PacketsInv, Phased
<1> QED BY <1>1, <1>2 DEF ConnectIdle, PacketsInv

LEMMA ConnectKeeps == ASSUME PacketsInv, Connect PROVE PacketsInv'
<1>1. PICK p \in NewPackets :
        /\ ConnectSent(p) \/ ConnectQueued(p) \/ ConnectFails(p)
        /\ early' = early \cup {p}
  BY DEF Connect
<1>2. /\ phase = "connecting" /\ hash # Null /\ p \in Packets /\ ~Alive(mem, p)
      /\ closing = <<>> /\ queue["front"] = <<>> /\ queue["back"] = <<>>
      /\ Sound(mem, hash, Queued, early) /\ OwnBuffer(mem, hash) /\ Queues(queue)
  BY DEF Connect, NewPackets, Alive, PacketsInv, Phased
<1> DEFINE n == EarlyPacket(p)
<1>3. Sound(n, hash, Queued \cup {p}, early \cup {p}) /\ p \notin Queued
  BY <1>2, EarlyGains DEF EarlyPacket
<1> HIDE DEF n
<1>4. Sound(ReleasePacket(n, p), hash, Queued, early \cup {p})
  <2>1. Sound(ReleasePacket(n, p), hash, (Queued \cup {p}) \ {p}, early \cup {p})
    BY <1>3, QueueLoses
  <2>2. (Queued \cup {p}) \ {p} = Queued
    BY <1>3
  <2> QED BY <2>1, <2>2
<1>5. CASE ConnectSent(p)
  <2>1. /\ mem' = ReleaseBuffer(ReleasePacket(n, p), hash) /\ hash' = Null /\ queue' = queue
        /\ closing' = closing /\ phase' = "relaying" /\ Queued' = Queued
    BY <1>5 DEF ConnectSent, n, Queued
  <2>2. Sound(mem', hash', Queued', early') /\ OwnBuffer(mem', hash')
    BY <2>1, <1>1, <1>4, AcceptLoses
  <2>3. Phased'
    BY <2>1, <1>2, ClosingPairs DEF Phased
  <2> QED BY <2>1, <2>2, <2>3, <1>2 DEF PacketsInv
<1>6. CASE ConnectQueued(p)
  <2>1. /\ mem' = ReleaseBuffer(n, hash) /\ hash' = Null
        /\ queue' = [queue EXCEPT !["back"] = <<p>> \o @]
        /\ closing' = closing /\ phase' = "relaying"
    BY <1>6 DEF ConnectQueued, n, PushFront
  <2>2. Changes(queue, queue', "back", <<p>> \o queue["back"])
    BY <2>1, <1>2 DEF Changes, Queues, Ends
  <2>3. Queues(queue') /\ Queued' = Queued \cup {p}
    BY <2>2, <1>2, <1>3, PushFrontKeeps DEF Ends, Queued, QueuedOf
  <2>4. Sound(mem', hash', Queued', early') /\ OwnBuffer(mem', hash')
    BY <2>1, <2>3, <1>1, <1>3, AcceptLoses
  <2>5. Phased'
    BY <2>1, <1>2, ClosingPairs DEF Phased
  <2> QED BY <2>3, <2>4, <2>5 DEF PacketsInv
<1>7. CASE ConnectFails(p)
  <2>1. /\ mem' = ReleasePacket(n, p) /\ hash' = hash /\ queue' = queue /\ Queued' = Queued
        /\ Close("back")
    BY <1>7 DEF ConnectFails, n, Queued
  <2>2. phase' = "closing" /\ closing' \in {<<"front", "back">>, <<"back", "front">>}
    BY <2>1, ClosesWhole DEF Ends
  <2>3. Sound(mem', hash', Queued', early')
    BY <2>1, <1>1, <1>4
  <2>4. Phased'
    BY <2>2, ClosingPairs DEF Phased
  <2> QED BY <2>1, <2>2, <2>3, <2>4, <1>2 DEF PacketsInv
<1> QED BY <1>1, <1>5, <1>6, <1>7

LEMMA RelayQueuedKeeps ==
    ASSUME PacketsInv, NEW e \in Ends, RelayQueued(e) PROVE PacketsInv'
<1>1. PICK p \in NewPackets, b \in NewBuffers :
        mem' = Retain(NewPacketOf(mem, p, b), p) /\ PushBack(e, p)
  BY DEF RelayQueued
<1>2. /\ p \in Packets /\ ~Alive(mem, p) /\ b \in Buffers /\ ~Alive(mem, b)
      /\ Sound(mem, hash, Queued, early) /\ OwnBuffer(mem, hash) /\ Queues(queue)
      /\ phase = "relaying" /\ phase' = phase /\ hash' = hash /\ early' = early
      /\ closing' = closing /\ closing = <<>> /\ hash = Null
  BY DEF RelayQueued, NewPackets, NewBuffers, Alive, PacketsInv, Phased
<1>3. /\ Sound(mem', hash, Queued \cup {p}, early) /\ OwnBuffer(mem', hash)
      /\ p \notin Queued
  BY <1>1, <1>2, QueueGains
<1>4. Changes(queue, queue', e, Append(queue[e], p))
  BY <1>1, <1>2 DEF PushBack, Changes, Queues
<1>5. Queues(queue') /\ Queued' = Queued \cup {p}
  BY <1>2, <1>3, <1>4, PushBackKeeps DEF Queued, QueuedOf
<1>6. Phased'
  BY <1>2, ClosingPairs DEF Phased
<1> QED BY <1>2, <1>3, <1>5, <1>6 DEF PacketsInv

\* What the steps that take the first packet of a queue have in common.
LEMMA TakingOut ==
    ASSUME PacketsInv, NEW e \in Ends, queue[e] # <<>>
    PROVE  /\ Read(mem, Head(queue[e])) = mem
           /\ PopFront(e) => Queues(queue') /\ Queued' = Queued \ {Head(queue[e])}
           /\ Sound(ReleasePacket(mem, Head(queue[e])), hash,
                    Queued \ {Head(queue[e])}, early)
           /\ OwnBuffer(mem, hash) => OwnBuffer(ReleasePacket(mem, Head(queue[e])), hash)
<1> DEFINE p == Head(queue[e])
<1>1. Sound(mem, hash, Queued, early) /\ Queues(queue)
  BY DEF PacketsInv
<1>2. /\ Changes(queue, [queue EXCEPT ![e] = Tail(@)], e, Tail(queue[e]))
  BY <1>1 DEF Changes, Queues
<1> DEFINE q == [queue EXCEPT ![e] = Tail(@)]
<1>3. Queues(q) /\ QueuedOf(q) = QueuedOf(queue) \ {p} /\ p \in QueuedOf(queue)
  <2> HIDE DEF q
  <2>1. Changes(queue, q, e, Tail(queue[e]))
    BY <1>2 DEF q
  <2> QED BY <1>1, <2>1, PopFrontKeeps
<1>4. p \in Queued
  BY <1>3 DEF Queued, QueuedOf
<1> HIDE DEF p
<1>5. /\ Sound(ReleasePacket(mem, p), hash, Queued \ {p}, early)
      /\ OwnBuffer(mem, hash) => OwnBuffer(ReleasePacket(mem, p), hash)
  BY <1>1, <1>4, QueueLoses
<1>6. mem \in Memories /\ p \in Packets /\ Alive(mem, p) /\ Alive(mem, mem.data[p])
  <2>1. mem \in Memories /\ Queued \subseteq Packets
    BY <1>1 DEF Sound
  <2>2. \A r \in Packets : /\ Alive(mem, r) <=> r \in Queued \cup early
                           /\ Alive(mem, r) => Alive(mem, mem.data[r])
    BY <1>1, SoundCells
  <2> QED BY <2>1, <2>2, <1>4
<1>7. Read(mem, p) = mem
  BY <1>6, ReadNothing
<1>8. PopFront(e) => Queues(queue') /\ Queued' = Queued \ {p}
  BY <1>3 DEF PopFront, Queued, QueuedOf
<1> QED BY <1>5, <1>7, <1>8 DEF p

LEMMA WriteDoneKeeps ==
    ASSUME PacketsInv, NEW e \in Ends, WriteDone(e) PROVE PacketsInv'
<1>1. /\ queue[e] # <<>> /\ PopFront(e) /\ phase = "relaying" /\ phase' = phase
      /\ hash' = hash /\ early' = early /\ closing' = closing
      /\ mem' = ReleasePacket(Read(mem, Head(queue[e])), Head(queue[e]))
  BY DEF WriteDone
<1>2. /\ Sound(mem', hash', Queued', early') /\ Queues(queue')
      /\ OwnBuffer(mem, hash) => OwnBuffer(mem', hash')
  BY <1>1, TakingOut
<1>3. Phased'
  BY <1>1, ClosingPairs DEF PacketsInv, Phased
<1> QED BY <1>1, <1>2, <1>3 DEF PacketsInv

LEMMA WriteShortKeeps ==
    ASSUME PacketsInv, NEW e \in Ends, WriteShort(e) PROVE PacketsInv'
<1>1. queue[e] # <<>> /\ queue \in [Ends -> Seq(Packets)]
  BY DEF WriteShort, PacketsInv, Queues
<1>2. <<Head(queue[e])>> \o Tail(queue[e]) = queue[e]
  BY <1>1
<1>3. mem' = mem /\ queue' = queue /\ Queued' = Queued
  BY <1>1, <1>2, TakingOut DEF WriteShort, Queued
<1>4. Phased'
  BY <1>3 DEF WriteShort, PacketsInv, Phased
<1> QED BY <1>3, <1>4 DEF WriteShort, PacketsInv

LEMMA WriteFailsKeeps ==
    ASSUME PacketsInv, NEW e \in Ends, WriteFails(e) PROVE PacketsInv'
<1>1. /\ queue[e] # <<>> /\ PopFront(e) /\ Close(e) /\ hash' = hash /\ early' = early
      /\ mem' = ReleasePacket(Read(mem, Head(queue[e])), Head(queue[e]))
  BY DEF WriteFails
<1>2. Sound(mem', hash', Queued', early') /\ Queues(queue')
  BY <1>1, TakingOut
<1>3. phase' = "closing" /\ Phased'
  BY <1>1, ClosesWhole, ClosingPairs DEF Phased
<1> QED BY <1>2, <1>3 DEF PacketsInv

LEMMA EndSessionKeeps ==
    ASSUME PacketsInv, NEW e \in Ends, EndSession(e) PROVE PacketsInv'
<1>1. /\ mem' = mem /\ hash' = hash /\ queue' = queue /\ early' = early /\ Queued' = Queued
      /\ Close(e)
  BY DEF EndSession, Queued
<1>2. phase' = "closing" /\ Phased'
  BY <1>1, ClosesWhole, ClosingPairs DEF Phased
<1> QED BY <1>1, <1>2 DEF PacketsInv

LEMMA ReleaseQueuedKeeps == ASSUME PacketsInv, ReleaseQueued PROVE PacketsInv'
<1> DEFINE e == Head(closing)
<1>1. /\ phase = "closing" /\ phase' = phase /\ closing' = closing /\ hash' = hash
      /\ early' = early /\ queue[e] # <<>> /\ PopFront(e)
      /\ mem' = ReleasePacket(mem, Head(queue[e]))
  BY DEF ReleaseQueued
<1>2. /\ e \in Ends /\ (closing = <<"front">> => e = "front")
      /\ (closing = <<"back">> => e = "back")
  BY <1>1, ClosingPairs DEF PacketsInv, Phased, Ends
<1> HIDE DEF e
<1>3. Sound(mem', hash', Queued', early') /\ Queues(queue')
  BY <1>1, <1>2, TakingOut
<1>4. \A f \in Ends : f # e => queue'[f] = queue[f]
  BY <1>1 DEF PopFront, PacketsInv, Queues
<1>5. Phased'
  BY <1>1, <1>2, <1>4 DEF PacketsInv, Phased, Ends
<1> QED BY <1>1, <1>3, <1>5 DEF PacketsInv

LEMMA ResetDoneKeeps == ASSUME PacketsInv, ResetDone PROVE PacketsInv'
<1>1. /\ phase = "closing" /\ queue' = queue /\ early' = early /\ Queued' = Queued
      /\ closing' = Tail(closing) /\ queue[Head(closing)] = <<>>
      /\ phase' = IF closing' = <<>> THEN "closed" ELSE "closing"
  BY DEF ResetDone, Queued
<1>2. Sound(mem, hash, Queued, early)
  BY DEF PacketsInv
<1>3. CASE Head(closing) = "front"
  <2>1. mem' = ReleaseBuffer(mem, hash) /\ hash' = Null
    BY <1>3 DEF ResetDone
  <2>2. Sound(mem', hash', Queued', early') /\ OwnBuffer(mem', hash')
    BY <1>1, <1>2, <2>1, AcceptLoses
  <2>3. closing \in {<<"front", "back">>, <<"front">>}
    BY <1>1, <1>3, ClosingPairs DEF PacketsInv, Phased
  <2>4. Phased'
    BY <1>1, <1>3, <2>1, <2>3, ClosingPairs DEF PacketsInv, Phased
  <2> QED BY <1>1, <2>2, <2>4 DEF PacketsInv
<1>4. CASE Head(closing) # "front"
  <2>1. mem' = mem /\ hash' = hash
    BY <1>4 DEF ResetDone
  <2>2. closing \in {<<"back", "front">>, <<"back">>} /\ Head(closing) = "back"
    BY <1>1, <1>4, ClosingPairs DEF PacketsInv, Phased
  <2>3. Phased'
    BY <1>1, <2>1, <2>2, ClosingPairs DEF PacketsInv, Phased
  <2>4. phase' = "closed" => hash' = Null
    BY <2>3 DEF Phased
  <2>5. phase' # "closing" => OwnBuffer(mem', hash')
    BY <1>1, <1>2, <2>1, <2>4, NoBufferOwn
  <2> QED BY <1>1, <1>2, <2>1, <2>3, <2>5 DEF PacketsInv
<1> QED BY <1>3, <1>4

LEMMA PacketsStep == PacketsInv /\ [Next]_vars => PacketsInv'
<1> SUFFICES ASSUME PacketsInv, [Next]_vars PROVE PacketsInv'
  OBVIOUS
<1>1. CASE UNCHANGED vars
  BY <1>1 DEF vars, PacketsInv, Phased, Queued
<1>2. CASE Next
  BY <1>2, OpenKeeps, ReadEarlyKeeps, ConnectIdleKeeps, ConnectKeeps, RelayQueuedKeeps,
     WriteDoneKeeps, WriteShortKeeps, WriteFailsKeeps, EndSessionKeeps,
     ReleaseQueuedKeeps, ResetDoneKeeps
     DEF Next
<1> QED BY <1>1, <1>2

LEMMA PacketsInvariant == Spec => []PacketsInv
  BY PacketsInit, PacketsStep, PTL DEF Spec

-----------------------------------------------------------------------------
(* The theorems                                                            *)

\* Counts, addresses and queues keep their types; no count goes below 0
\* (common.h:116-125).
THEOREM PacketsTypeCorrect == Spec => []TypeOK
<1>1. PacketsInv => TypeOK
  <2> SUFFICES ASSUME PacketsInv PROVE TypeOK
    OBVIOUS
  <2>1. closing \in Seq(Ends)
    <3>1. <<"front">> \in Seq(Ends) /\ <<"back">> \in Seq(Ends) /\ <<>> \in Seq(Ends)
      BY DEF Ends
    <3>2. <<"front", "back">> \in Seq(Ends) /\ <<"back", "front">> \in Seq(Ends)
      BY DEF Ends
    <3> QED BY <3>1, <3>2 DEF PacketsInv, Phased
  <2>2. mem \in Memories /\ hash \in Buffers \cup {Null} /\ early \subseteq Packets
    BY DEF PacketsInv, Sound
  <2> QED BY <2>1, <2>2 DEF PacketsInv, TypeOK, Queues, Phased
<1> QED BY <1>1, PacketsInvariant, PTL

\* Nothing is done to a packet or buffer that has been deleted, however many sessions
\* have used the two objects (accept.cpp:36-178).
THEOREM NothingIsMisused == Spec => []NeverMisused
<1>1. PacketsInv => NeverMisused
  BY DEF PacketsInv, NeverMisused, Sound
<1> QED BY <1>1, PacketsInvariant, PTL

\* The count of a packet or buffer is the number of its references, and it is deleted
\* exactly when that is 0, but for one reference to each early packet that nobody has.
THEOREM CountsAreExact == Spec => []CountsExact
<1>1. PacketsInv => CountsExact
  <2> SUFFICES ASSUME PacketsInv, NEW x \in Cells
               PROVE  /\ mem.count[x] = References(x)
                      /\ x \in mem.alive <=> References(x) # 0
    BY DEF CountsExact
  <2>1. Sound(mem, hash, Queued, early)
    BY DEF PacketsInv
  <2>2. Alive(mem, x) <=> mem.count[x] # 0
    BY <2>1 DEF Sound
  <2>3. CASE x \in Packets
    <3>1. mem.count[x] = One(x \in Queued) + One(x \in early)
      BY <2>1, <2>3 DEF Sound
    <3>2. References(x) = One(x \in Queued) + One(x \in early)
      BY <2>3 DEF References, One
    <3> QED BY <3>1, <3>2, <2>2 DEF Alive
  <2>4. CASE x \notin Packets
    <3> DEFINE H == {p \in Packets \cap mem.alive : mem.data[p] = x}
    <3>1. x \in Buffers /\ mem.count[x] = One(HoldsData(mem, x)) + One(x = hash)
      BY <2>1, <2>4 DEF Sound, Cells
    <3>2. References(x) = Cardinality(H) + One(x = hash)
      BY <2>4 DEF References, One
    <3>3. Cardinality(H) = One(HoldsData(mem, x))
      <4>1. CASE HoldsData(mem, x)
        <5>1. PICK p \in Packets : Alive(mem, p) /\ mem.data[p] = x
          BY <4>1 DEF HoldsData
        <5>2. H = {p}
          BY <5>1, <2>1 DEF Sound, Alive
        <5> QED BY <5>2, <4>1, FS_Singleton DEF One
      <4>2. CASE ~HoldsData(mem, x)
        <5>1. H = {}
          BY <4>2 DEF HoldsData, Alive
        <5> QED BY <5>1, <4>2, FS_EmptySet DEF One
      <4> QED BY <4>1, <4>2
    <3> QED BY <3>1, <3>2, <3>3, <2>2 DEF Alive
  <2> QED BY <2>3, <2>4
<1> QED BY <1>1, PacketsInvariant, PTL

\* What a closed session leaves in memory is its early packet with its buffer, and
\* nothing else (accept.cpp:95-100, :173-179).
THEOREM OnlyEarlyPacketsStay == Spec => []OnlyEarlyStay
<1>1. PacketsInv => OnlyEarlyStay
  <2> SUFFICES ASSUME PacketsInv, phase = "closed"
               PROVE  mem.alive = early \cup {mem.data[p] : p \in early}
    BY DEF OnlyEarlyStay
  <2>1. Sound(mem, Null, {}, early)
    <3>1. hash = Null /\ queue["front"] = <<>> /\ queue["back"] = <<>>
      BY DEF PacketsInv, Phased
    <3>2. Queued = {}
      BY <3>1 DEF Queued, Members
    <3> QED BY <3>1, <3>2 DEF PacketsInv
  <2>2. mem.alive \subseteq Cells /\ early \subseteq Packets
    BY <2>1 DEF Sound, Memories
  <2>3. \A p \in Packets : Alive(mem, p) <=> p \in early
    BY <2>1, SoundCells
  <2>4. \A b \in Buffers : Alive(mem, b) <=> HoldsData(mem, b)
    BY <2>1, SoundCells, Apart, MemoryAssumption
  <2>5. \A p \in early : mem.data[p] \in Buffers
    BY <2>2, <2>3, <2>1 DEF Sound
  <2>6. ASSUME NEW b \in Buffers
        PROVE  Alive(mem, b) <=> \E p \in early : mem.data[p] = b
    BY <2>2, <2>3, <2>4 DEF HoldsData
  <2>7. ASSUME NEW x \in mem.alive PROVE x \in early \cup {mem.data[p] : p \in early}
    BY <2>7, <2>2, <2>3, <2>6 DEF Alive, Cells
  <2>8. ASSUME NEW x \in early \cup {mem.data[p] : p \in early} PROVE x \in mem.alive
    BY <2>8, <2>2, <2>3, <2>5, <2>6 DEF Alive
  <2> QED BY <2>7, <2>8
<1> QED BY <1>1, PacketsInvariant, PTL

\* No buffer is the data of two packets, nor of a packet and the Accept while a session
\* lasts, so that bytes that arrive are never added to a packet being sent.
THEOREM BuffersAreUnshared == Spec => []BuffersUnshared
<1>1. PacketsInv => BuffersUnshared
  BY DEF PacketsInv, BuffersUnshared, Sound, OwnBuffer, Alive
<1> QED BY <1>1, PacketsInvariant, PTL

=============================================================================
