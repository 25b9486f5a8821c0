------------------------------- MODULE Memory -------------------------------
(***************************************************************************)
(* The packets and buffers on the heap and their reference counts, as      *)
(* operators on a value: a function of RefObject, Packet or Buffer takes   *)
(* the memory it finds and gives the one it leaves.  An object is made     *)
(* with the count 0 and deleted when release takes it from 1 to 0.  What   *)
(* is done to an object that is no longer there is remembered, and nothing *)
(* else becomes of it.                                                     *)
(***************************************************************************)
EXTENDS Integers

CONSTANTS
    Packets,        \* what may be the address of a Packet
    Buffers,        \* what may be the address of a Buffer
    Null            \* the null pointer

ASSUME MemoryAssumption ==
    /\ Packets \cap Buffers = {}
    /\ Null \notin Packets \cup Buffers

Cells == Packets \cup Buffers

Memories ==
    [count : [Cells -> Nat],                     \* m_referenceCount
     alive : SUBSET Cells,                       \* made and not deleted
     data : [Packets -> Buffers \cup {Null}],    \* m_pBuffer of a Packet
     misused : BOOLEAN]                          \* history

EmptyMemory ==
    [count |-> [x \in Cells |-> 0], alive |-> {},
     data |-> [p \in Packets |-> Null], misused |-> FALSE]

\* Something is done to object x.
Used(m, x) == [m EXCEPT !.misused = @ \/ x \notin m.alive]

Retain(m, x) == [Used(m, x) EXCEPT !.count[x] = @ + 1]

\* SAFE_RELEASE of a Buffer.
ReleaseBuffer(m, b) ==
    IF b = Null THEN m
    ELSE [Used(m, b) EXCEPT !.count[b] = @ - 1,
                            !.alive = IF m.count[b] = 1 THEN @ \ {b} ELSE @]

\* release of a Packet, whose destructor releases its buffer.
ReleasePacket(m, p) ==
    IF m.count[p] # 1 THEN [Used(m, p) EXCEPT !.count[p] = @ - 1]
    ELSE ReleaseBuffer([Used(m, p) EXCEPT !.count[p] = 0, !.alive = @ \ {p}, !.data[p] = Null],
                       m.data[p])

\* getBuffer when there is none: new Buffer, and retain.
NewBuffer(m, b) == Retain([m EXCEPT !.alive = @ \cup {b}, !.count[b] = 0], b)

NewPacketUnretained(m, p, b) ==
    [m EXCEPT !.alive = @ \cup {p}, !.count[p] = 0, !.data[p] = b]

\* new Packet(pBuffer)
NewPacket(m, p, b) ==
    Retain([m EXCEPT !.alive = @ \cup {p}, !.count[p] = 0, !.data[p] = b], b)

\* new Packet(length), with a buffer of its own
NewPacketOf(m, p, b) ==
    [NewBuffer(m, b) EXCEPT !.alive = @ \cup {p}, !.count[p] = 0, !.data[p] = b]

\* writeSocket
Read(m, p) == Used(Used(m, p), m.data[p])

=============================================================================
