---------------------------- MODULE RelayProofs ----------------------------
(***************************************************************************)
(* Theorems about Relay, for any bytes, buffer sizes and bounds: no byte   *)
(* is lost, repeated or reordered, and the session implements the two      *)
(* ordered streams of Stream.                                              *)
(***************************************************************************)
EXTENDS Relay, SequenceTheorems, TLAPS

-----------------------------------------------------------------------------
(* Sequences                                                               *)

\* A write splits its data in two.
LEMMA FirstAndRest ==
    ASSUME NEW S, NEW s \in Seq(S), NEW n \in 0 .. Len(s)
    PROVE  /\ First(s, n) \in Seq(S)
           /\ Rest(s, n) \in Seq(S)
           /\ First(s, n) \o Rest(s, n) = s
           /\ n = Len(s) => Rest(s, n) = <<>>
<1>1. Len(s) \in Nat
  BY LenProperties
<1>2. \A i \in 1 .. Len(s) : s[i] \in S
  BY ElementOfSeq
<1>3. SubSeq(s, 1, n) \in Seq(S)
  BY <1>1, <1>2, SubSeqProperties
<1>4. SubSeq(s, n + 1, Len(s)) \in Seq(S)
  BY <1>1, <1>2, SubSeqProperties
<1>5. SubSeq(s, 1, n) \o SubSeq(s, n + 1, Len(s)) = SubSeq(s, 1, Len(s))
  <2>1. 1 \in 1 .. Len(s) + 1 /\ n \in 1 - 1 .. Len(s) /\ Len(s) \in n .. Len(s)
    BY <1>1
  <2> QED
    BY <2>1, ConcatAdjacentSubSeq, Zenon
<1>6. SubSeq(s, 1, Len(s)) = s
  BY SubSeqFull
<1>7. n = Len(s) => SubSeq(s, n + 1, Len(s)) = <<>>
  BY <1>1, SubSeqEmpty
<1> QED
  BY <1>3, <1>4, <1>5, <1>6, <1>7 DEF First, Rest

\* Concatenation of sequences of bytes is associative.
LEMMA Regroup ==
    ASSUME NEW a \in Seq(Bytes), NEW b \in Seq(Bytes), NEW c \in Seq(Bytes)
    PROVE  (a \o b) \o c = a \o (b \o c)
  BY ConcatAssociative

\* Concatenation of sequences of bytes is one.
LEMMA Joined ==
    ASSUME NEW a \in Seq(Bytes), NEW b \in Seq(Bytes)
    PROVE  a \o b \in Seq(Bytes)
  BY ConcatProperties

\* A sequence is the beginning of what follows it, of its own length.
LEMMA Beginning ==
    ASSUME NEW S, NEW a \in Seq(S), NEW b \in Seq(S)
    PROVE  /\ Len(a) \in Nat
           /\ Len(a) <= Len(a \o b)
           /\ SubSeq(a \o b, 1, Len(a)) = a
<1>1. Len(a) \in Nat /\ Len(b) \in Nat
  BY LenProperties
<1>2. Len(a \o b) = Len(a) + Len(b)
  BY ConcatProperties
<1>3. CASE Len(a) = 0
  <2>1. a = <<>>
    BY <1>3, EmptySeq
  <2>2. SubSeq(a \o b, 1, Len(a)) = <<>>
    BY <1>3, SubSeqEmpty
  <2> QED
    BY <1>1, <1>2, <2>1, <2>2
<1>4. CASE Len(a) # 0
  <2>1. SubSeq(a \o b, 1, Len(a)) = SubSeq(a, 1, Len(a))
    BY <1>1, <1>4, SubSeqOfConcat1
  <2> QED
    BY <1>1, <1>2, <2>1, SubSeqFull
<1> QED
  BY <1>3, <1>4

-----------------------------------------------------------------------------
(* Writing and reading                                                     *)

LEMMA OtherEnd ==
    ASSUME NEW e \in Ends
    PROVE  Other(e) \in Ends /\ Other(e) # e /\ Ends = {e, Other(e)}
  BY DEF Ends, Other

\* write takes no more than it is given and than there is room for.
LEMMA WrittenBounds ==
    ASSUME TypeOK, NEW e \in Ends, NEW n \in Nat, NEW k \in Written(e, n)
    PROVE  k \in 0 .. n /\ k <= room[e]
<1>1. room[e] \in 0 .. SendSize /\ SendSize \in Nat
  BY RelayAssumption DEF TypeOK
<1> QED
  BY <1>1 DEF Written, Least

\* What is passed on or queued at an end: what a write does not take is kept.
LEMMA WriteOutCarries ==
    ASSUME TypeOK, NEW e \in Ends, NEW data \in Seq(Bytes),
           NEW k \in 0 .. Len(data), k <= room[e], WriteOut(e, data, k)
    PROVE  /\ got' \in [Ends -> Seq(Bytes)]
           /\ queue' \in [Ends -> Seq(Bytes)]
           /\ room' \in [Ends -> 0 .. SendSize]
           /\ got'[e] \o queue'[e] = got[e] \o data
           /\ got'[Other(e)] = got[Other(e)] /\ queue'[Other(e)] = queue[Other(e)]
           /\ \E d \in Seq(Bytes) : got'[e] = got[e] \o d
<1>1. First(data, k) \in Seq(Bytes) /\ Rest(data, k) \in Seq(Bytes)
  BY FirstAndRest
<1>2. First(data, k) \o Rest(data, k) = data
  BY FirstAndRest
<1>3. got \in [Ends -> Seq(Bytes)] /\ queue \in [Ends -> Seq(Bytes)]
  BY DEF TypeOK
<1>4. room \in [Ends -> 0 .. SendSize] /\ SendSize \in Nat
  BY RelayAssumption DEF TypeOK
<1>5. Other(e) \in Ends /\ Other(e) # e
  BY OtherEnd
<1>6. got' = [got EXCEPT ![e] = got[e] \o First(data, k)]
  BY DEF WriteOut
<1>7. queue' = [queue EXCEPT ![e] = Rest(data, k)]
  BY DEF WriteOut
<1>8. room' = [room EXCEPT ![e] = room[e] - k]
  BY DEF WriteOut
<1>9. got[e] \in Seq(Bytes)
  BY <1>3
<1>10. got[e] \o First(data, k) \in Seq(Bytes)
  BY <1>1, <1>9, ConcatProperties
<1>11. got'[e] = got[e] \o First(data, k) /\ queue'[e] = Rest(data, k)
  BY <1>3, <1>6, <1>7
<1>12. got'[e] \o queue'[e] = got[e] \o data
  <2> DEFINE g == got[e]
             f == First(data, k)
             r == Rest(data, k)
  <2>1. g \in Seq(Bytes) /\ f \in Seq(Bytes) /\ r \in Seq(Bytes)
    BY <1>1, <1>9
  <2>2. f \o r = data /\ got'[e] = g \o f /\ queue'[e] = r
    BY <1>2, <1>11
  <2> HIDE DEF g, f, r
  <2>3. (g \o f) \o r = g \o (f \o r)
    BY <2>1, Regroup, ZenonT(60)
  <2>4. got'[e] \o queue'[e] = g \o data
    BY <2>2, <2>3
  <2> QED
    BY <2>4 DEF g
<1>13. Len(data) \in Nat /\ room[e] - k \in 0 .. SendSize
  <2>1. Len(data) \in Nat
    BY LenProperties
  <2>2. room[e] \in 0 .. SendSize
    BY <1>4
  <2> QED
    BY <1>4, <2>1, <2>2
<1>14. room' \in [Ends -> 0 .. SendSize]
  BY <1>4, <1>8, <1>13
<1>15. got' \in [Ends -> Seq(Bytes)] /\ queue' \in [Ends -> Seq(Bytes)]
  <2> DEFINE S == Seq(Bytes)
  <2>1. got \in [Ends -> S] /\ queue \in [Ends -> S]
        /\ got[e] \o First(data, k) \in S /\ Rest(data, k) \in S
    BY <1>1, <1>3, <1>10
  <2> HIDE DEF S
  <2>2. got' \in [Ends -> S] /\ queue' \in [Ends -> S]
    BY <1>6, <1>7, <2>1, Zenon
  <2> QED
    BY <2>2 DEF S
<1>16. got'[Other(e)] = got[Other(e)] /\ queue'[Other(e)] = queue[Other(e)]
  BY <1>3, <1>5, <1>6, <1>7
<1> QED
  BY <1>1, <1>11, <1>12, <1>14, <1>15, <1>16

\* sendPacket puts its data behind all that went to that end before.
LEMMA SendPacketCarries ==
    ASSUME TypeOK, NEW e \in Ends, NEW data \in Seq(Bytes), SendPacket(e, data)
    PROVE  /\ got' \in [Ends -> Seq(Bytes)]
           /\ queue' \in [Ends -> Seq(Bytes)]
           /\ room' \in [Ends -> 0 .. SendSize]
           /\ armed' \subseteq Ends /\ edge' \subseteq Ends
           /\ got'[e] \o queue'[e] = (got[e] \o queue[e]) \o data
           /\ got'[Other(e)] = got[Other(e)] /\ queue'[Other(e)] = queue[Other(e)]
           /\ \E d \in Seq(Bytes) : got'[e] = got[e] \o d
<1>1. got \in [Ends -> Seq(Bytes)] /\ queue \in [Ends -> Seq(Bytes)]
  BY DEF TypeOK
<1>2. got[e] \in Seq(Bytes) /\ queue[e] \in Seq(Bytes)
  BY <1>1
<1>3. Other(e) \in Ends /\ Other(e) # e
  BY OtherEnd
<1>4. armed \subseteq Ends /\ edge \subseteq Ends /\ room \in [Ends -> 0 .. SendSize]
  BY DEF TypeOK
<1>5. CASE queue[e] # <<>>
  <2>1. queue' = [queue EXCEPT ![e] = queue[e] \o data]
    BY <1>5 DEF SendPacket
  <2>2. got' = got /\ room' = room /\ armed' = armed /\ edge' = edge
    BY <1>5 DEF SendPacket
  <2>3. queue[e] \o data \in Seq(Bytes)
    BY <1>2, ConcatProperties
  <2>4. queue' \in [Ends -> Seq(Bytes)] /\ queue'[e] = queue[e] \o data
        /\ queue'[Other(e)] = queue[Other(e)]
    BY <1>1, <1>3, <2>1, <2>3
  <2>5. (got[e] \o queue[e]) \o data = got[e] \o (queue[e] \o data)
    <3> DEFINE g == got[e]
               q == queue[e]
    <3>1. g \in Seq(Bytes) /\ q \in Seq(Bytes)
      BY <1>2
    <3> HIDE DEF g, q
    <3>2. (g \o q) \o data = g \o (q \o data)
      BY <3>1, Regroup, ZenonT(60)
    <3> QED
      BY <3>2 DEF g, q
  <2>6. got[e] \o <<>> = got[e] /\ <<>> \in Seq(Bytes)
    BY <1>2, ConcatEmptySeq, EmptySeq
  <2>7. got'[e] \o queue'[e] = (got[e] \o queue[e]) \o data
    BY <2>2, <2>4, <2>5
  <2>8. \E d \in Seq(Bytes) : got'[e] = got[e] \o d
    BY <2>2, <2>6
  <2>9. got'[Other(e)] = got[Other(e)] /\ got' \in [Ends -> Seq(Bytes)]
    BY <1>1, <2>2
  <2>10. room' \in [Ends -> 0 .. SendSize] /\ armed' \subseteq Ends /\ edge' \subseteq Ends
    BY <1>4, <2>2
  <2> QED
    BY <2>4, <2>7, <2>8, <2>9, <2>10
<1>6. CASE queue[e] = <<>>
  <2>1. PICK k \in Written(e, Len(data)) :
            /\ WriteOut(e, data, k)
            /\ IF k = Len(data) THEN UNCHANGED <<armed, edge>> ELSE ArmAfterWrite(e)
    BY <1>6 DEF SendPacket
  <2>2. Len(data) \in Nat
    BY LenProperties
  <2>3. k \in 0 .. Len(data) /\ k <= room[e]
    BY <2>2, WrittenBounds
  <2>4. /\ got' \in [Ends -> Seq(Bytes)]
        /\ queue' \in [Ends -> Seq(Bytes)]
        /\ room' \in [Ends -> 0 .. SendSize]
        /\ got'[e] \o queue'[e] = got[e] \o data
        /\ got'[Other(e)] = got[Other(e)] /\ queue'[Other(e)] = queue[Other(e)]
        /\ \E d \in Seq(Bytes) : got'[e] = got[e] \o d
    BY <2>1, <2>3, WriteOutCarries
  <2>5. armed' \subseteq Ends /\ edge' \subseteq Ends
    BY <1>4, <2>1 DEF ArmAfterWrite
  <2>6. got[e] \o queue[e] = got[e]
    BY <1>2, <1>6, ConcatEmptySeq
  <2> QED
    BY <2>4, <2>5, <2>6
<1> QED
  BY <1>5, <1>6

\* A read splits what has arrived in two.
LEMMA ChunkSplits ==
    ASSUME TypeOK
    PROVE  /\ cur \in Ends
           /\ Chunk \in Seq(Bytes)
           /\ Rest(rx[cur], Len(Chunk)) \in Seq(Bytes)
           /\ Chunk \o Rest(rx[cur], Len(Chunk)) = rx[cur]
<1> DEFINE s == rx[cur]
           n == Least(RecvSize, Len(s))
<1>1. cur \in Ends /\ s \in Seq(Bytes)
  BY DEF TypeOK
<1>2. Len(s) \in Nat /\ \A i \in 1 .. Len(s) : s[i] \in Bytes
  BY <1>1, LenProperties, ElementOfSeq
<1>3. n \in 0 .. Len(s)
  BY <1>2, RelayAssumption DEF Least
<1>4. Chunk = SubSeq(s, 1, n)
  BY DEF Chunk, First
<1> HIDE DEF n
<1>5. Len(SubSeq(s, 1, n)) = n
  <2>1. n \in Int /\ \A i \in 1 .. n : s[i] \in Bytes
    BY <1>2, <1>3
  <2>2. Len(SubSeq(s, 1, n)) = IF 1 <= n THEN n - 1 + 1 ELSE 0
    BY <2>1, SubSeqProperties
  <2> QED
    BY <1>2, <1>3, <2>2
<1>6. Len(Chunk) = n
  BY <1>4, <1>5
<1>7. /\ First(s, n) \in Seq(Bytes)
      /\ Rest(s, n) \in Seq(Bytes)
      /\ First(s, n) \o Rest(s, n) = s
  BY <1>1, <1>3, FirstAndRest
<1>8. First(s, n) = Chunk
  BY <1>4 DEF First
<1> QED
  BY <1>1, <1>6, <1>7, <1>8

-----------------------------------------------------------------------------
(* The invariant, and what a step may do to the streams                    *)

\* Conserved is inductive together with the types and this: once the Client is
\* connected the buffer is empty, so that a read byte goes behind all others.
BufferSpent == phase = "relaying" => buffer = <<>>

\* No handler runs in a closed session.
ClosedRests == phase = "closed" => at = "wait"

ByteInv == TypeOK /\ Conserved /\ BufferSpent /\ ClosedRests

StreamStep == [Streams!StreamNext]_(Streams!streamVars)

LEMMA InitBytes == Init => ByteInv /\ Streams!StreamInit
<1> SUFFICES ASSUME Init PROVE ByteInv /\ Streams!StreamInit
  OBVIOUS
<1>1. <<>> \in Seq(Bytes)
  BY EmptySeq
<1>2. SendSize \in Nat /\ SendSize \in 0 .. SendSize
  BY RelayAssumption
<1>3. [e \in Ends |-> <<>>] \in [Ends -> Seq(Bytes)]
  BY <1>1
<1>4. "front" \in Ends /\ "back" \in Ends
  BY DEF Ends
<1>5. TypeOK
  BY <1>1, <1>2, <1>3, <1>4 DEF Init, TypeOK
<1>6. <<>> = ((<<>> \o <<>>) \o <<>>) \o <<>> /\ <<>> = (<<>> \o <<>>) \o <<>>
  BY <1>1, ConcatEmptySeq
<1>7. Conserved
  BY <1>4, <1>6 DEF Init, Conserved
<1>8. BufferSpent /\ ClosedRests
  BY DEF Init, BufferSpent, ClosedRests
<1>9. Streams!StreamInit
  BY DEF Init, Streams!StreamInit, Streams!Ends, Ends
<1> QED
  BY <1>5, <1>7, <1>8, <1>9 DEF ByteInv

\* Steps that pass nothing on and open or close nothing are no steps of Stream.
LEMMA Silent ==
    ASSUME sent' = sent, got' = got, (phase # "closed")' = (phase # "closed")
    PROVE  StreamStep
  BY DEF StreamStep, Streams!streamVars

\* Whatever is got at one end next, Conserved makes it the next of what was sent.
LEMMA PassingOn ==
    ASSUME TypeOK, TypeOK', Conserved', NEW e \in Ends, sent' = sent,
           phase # "closed", phase' # "closed",
           got'[Other(e)] = got[Other(e)],
           \E d \in Seq(Bytes) : got'[e] = got[e] \o d
    PROVE  StreamStep
<1> DEFINE g == got[e]
           h == got'[e]
           s == sent[Other(e)]
<1>1. got \in [Ends -> Seq(Bytes)] /\ got' \in [Ends -> Seq(Bytes)]
      /\ sent \in [Ends -> Seq(Bytes)]
  BY DEF TypeOK
<1>2. Other(e) \in Ends /\ Other(e) # e /\ Ends = {e, Other(e)}
  BY OtherEnd
<1>3. \E x \in Seq(Bytes) : s = h \o x
  <2>1. queue' \in [Ends -> Seq(Bytes)] /\ rx' \in [Ends -> Seq(Bytes)]
        /\ buffer' \in Seq(Bytes)
    BY DEF TypeOK
  <2>2. CASE e = "back"
    <3> DEFINE q == queue'["back"]
               b == buffer'
               r == rx'["front"]
               k == got'["back"]
    <3>1. q \in Seq(Bytes) /\ b \in Seq(Bytes) /\ r \in Seq(Bytes) /\ k \in Seq(Bytes)
      BY <1>1, <2>1 DEF Ends
    <3>2. sent'["front"] = ((k \o q) \o b) \o r
      BY DEF Conserved
    <3> HIDE DEF q, b, r, k
    <3>3. \E x \in Seq(Bytes) : ((k \o q) \o b) \o r = k \o x
      <4> DEFINE m == q \o b
                 x == m \o r
      <4>1. m \in Seq(Bytes)
        BY <3>1, Joined
      <4>2. (k \o q) \o b = k \o m
        BY <3>1, Regroup, ZenonT(60)
      <4> HIDE DEF m
      <4>3. (k \o m) \o r = k \o x
        BY <3>1, <4>1, Regroup, ZenonT(60)
      <4>4. x \in Seq(Bytes)
        BY <3>1, <4>1, Joined
      <4> HIDE DEF x
      <4> QED
        BY <4>2, <4>3, <4>4
    <3>4. s = sent'["front"] /\ h = k
      BY <2>2 DEF Other, k
    <3> HIDE DEF s, h
    <3> QED
      BY <3>2, <3>3, <3>4
  <2>3. CASE e = "front"
    <3> DEFINE q == queue'["front"]
               r == rx'["back"]
               k == got'["front"]
    <3>1. q \in Seq(Bytes) /\ r \in Seq(Bytes) /\ k \in Seq(Bytes)
      BY <1>1, <2>1 DEF Ends
    <3>2. sent'["back"] = (k \o q) \o r
      BY DEF Conserved
    <3> HIDE DEF q, r, k
    <3>3. (k \o q) \o r = k \o (q \o r)
      BY <3>1, Regroup, ZenonT(60)
    <3>4. q \o r \in Seq(Bytes)
      BY <3>1, Joined
    <3>5. s = sent'["back"] /\ h = k
      BY <2>3 DEF Other, k
    <3> HIDE DEF s, h
    <3> QED
      BY <3>2, <3>3, <3>4, <3>5
  <2> QED
    BY <2>2, <2>3 DEF Ends
<1>4. g \in Seq(Bytes) /\ h \in Seq(Bytes) /\ s \in Seq(Bytes)
  BY <1>1, <1>2
<1>5. PICK d \in Seq(Bytes) : h = g \o d
  OBVIOUS
<1> HIDE DEF g, h, s
<1>6. PICK tail \in Seq(Bytes) : s = h \o tail
  BY <1>3
<1>7. Len(h) \in Nat /\ Len(h) <= Len(s) /\ h = SubSeq(s, 1, Len(h))
  BY <1>4, <1>6, Beginning
<1>8. Len(g) \in Nat /\ Len(g) <= Len(h) /\ g = SubSeq(h, 1, Len(g))
  BY <1>4, <1>5, Beginning
<1>9. CASE Len(h) = Len(g)
  <2>1. g = h
    BY <1>4, <1>8, <1>9, SubSeqFull
  <2>2. \A x \in Ends : got'[x] = got[x]
    BY <1>2, <2>1 DEF g, h
  <2>3. got' = got
    BY <1>1, <2>2
  <2> QED
    BY <2>3, Silent
<1>10. CASE Len(h) # Len(g)
  <2>1. Len(s) \in Nat
    BY <1>4, LenProperties
  <2>2. Len(h) \in Len(g) + 1 .. Len(s)
    <3> DEFINE lg == Len(g)
               lh == Len(h)
               ls == Len(s)
    <3>1. lg \in Nat /\ lh \in Nat /\ ls \in Nat /\ lg <= lh /\ lh <= ls /\ lh # lg
      BY <1>7, <1>8, <1>10, <2>1
    <3> HIDE DEF lg, lh, ls
    <3>2. lh \in lg + 1 .. ls
      BY <3>1
    <3> QED
      BY <3>2 DEF lg, lh, ls
  <2>3. got' = [got EXCEPT ![e] = h]
    BY <1>1, <1>2 DEF h
  <2>4. got' = [got EXCEPT ![e] = SubSeq(s, 1, Len(h))]
    BY <1>7, <2>3
  <2>5. Len(h) \in Len(got[e]) + 1 .. Len(sent[Streams!Other(e)])
    BY <2>2 DEF g, s, Streams!Other, Other
  <2>6. got' = [got EXCEPT ![e] = SubSeq(sent[Streams!Other(e)], 1, Len(h))]
    BY <2>4 DEF s, Streams!Other, Other
  <2>7. Streams!Deliver(e)
    BY <2>5, <2>6 DEF Streams!Deliver
  <2> QED
    BY <2>7 DEF StreamStep, Streams!StreamNext, Streams!Ends, Ends
<1> QED
  BY <1>9, <1>10

-----------------------------------------------------------------------------
(* The invariant is kept, and every step is one of Stream                  *)

\* Adding a byte behind a stream adds it to its last part.
LEMMA AppendLast ==
    ASSUME NEW x \in Seq(Bytes), NEW r \in Seq(Bytes), NEW b \in Bytes
    PROVE  Append(x \o r, b) = x \o Append(r, b)
<1>1. x \o r \in Seq(Bytes) /\ <<b>> \in Seq(Bytes)
  BY ConcatProperties
<1>2. Append(x \o r, b) = (x \o r) \o <<b>>
  BY <1>1, AppendIsConcat
<1>3. Append(r, b) = r \o <<b>>
  BY AppendIsConcat
<1>4. (x \o r) \o <<b>> = x \o (r \o <<b>>)
  BY <1>1, ConcatAssociative
<1> QED
  BY <1>2, <1>3, <1>4

LEMMA SilentInv ==
    ASSUME ByteInv, TypeOK', ClosedRests', UNCHANGED <<sent, got, rx, queue, buffer, phase>>
    PROVE  ByteInv' /\ StreamStep
<1>1. Conserved' /\ BufferSpent'
  BY DEF ByteInv, Conserved, BufferSpent
<1>2. StreamStep
  BY Silent
<1> QED
  BY <1>1, <1>2 DEF ByteInv

LEMMA CloseSessionInv ==
    ASSUME ByteInv, CloseSession
    PROVE  ByteInv' /\ StreamStep
<1>1. <<>> \in Seq(Bytes)
  BY EmptySeq
<1>2. [e \in Ends |-> <<>>] \in [Ends -> Seq(Bytes)]
  BY <1>1
<1>3. TypeOK'
  BY <1>1, <1>2 DEF ByteInv, TypeOK, CloseSession
<1>4. Conserved' /\ BufferSpent' /\ ClosedRests'
  BY DEF CloseSession, Conserved, BufferSpent, ClosedRests
<1>5. sent' = sent /\ got' = got /\ phase' = "closed"
  BY DEF CloseSession
<1>6. StreamStep
  <2>1. CASE phase = "closed"
    BY <1>5, <2>1, Silent
  <2>2. CASE phase # "closed"
    <3>1. Streams!Close
      BY <1>5, <2>2 DEF Streams!Close
    <3> QED
      BY <3>1 DEF StreamStep, Streams!StreamNext
  <2> QED
    BY <2>1, <2>2
<1> QED
  BY <1>3, <1>4, <1>6 DEF ByteInv

LEMMA ArriveInv ==
    ASSUME ByteInv, NEW e \in Ends, Arrive(e)
    PROVE  ByteInv' /\ StreamStep
<1>1. PICK b \in Bytes :
          /\ sent' = [sent EXCEPT ![e] = Append(sent[e], b)]
          /\ rx' = [rx EXCEPT ![e] = Append(rx[e], b)]
  BY DEF Arrive
<1>2. UNCHANGED <<got, eof, room, link, phase, buffer, queue, armed, reported, at, cur>>
      /\ phase # "closed" /\ edge' = edge \cup {e}
  BY DEF Arrive, Process
<1>3. sent \in [Ends -> Seq(Bytes)] /\ rx \in [Ends -> Seq(Bytes)]
      /\ got \in [Ends -> Seq(Bytes)] /\ queue \in [Ends -> Seq(Bytes)]
      /\ buffer \in Seq(Bytes)
  BY DEF ByteInv, TypeOK
<1>4. Append(sent[e], b) \in Seq(Bytes) /\ Append(rx[e], b) \in Seq(Bytes)
  BY <1>3, AppendProperties
<1>5. TypeOK'
  <2>1. sent' \in [Ends -> Seq(Bytes)]
    BY <1>1, <1>3, <1>4
  <2>2. rx' \in [Ends -> Seq(Bytes)]
    BY <1>1, <1>3, <1>4
  <2>3. edge' \subseteq Ends
    BY <1>2 DEF ByteInv, TypeOK
  <2> QED
    BY <1>2, <2>1, <2>2, <2>3 DEF ByteInv, TypeOK
<1>6. Conserved'
  <2>1. /\ sent["front"] = ((got["back"] \o queue["back"]) \o buffer) \o rx["front"]
        /\ sent["back"] = (got["front"] \o queue["front"]) \o rx["back"]
    BY <1>2 DEF ByteInv, Conserved
  <2>2. CASE e = "front"
    <3> DEFINE x == (got["back"] \o queue["back"]) \o buffer
               r == rx["front"]
    <3>1. x \in Seq(Bytes) /\ r \in Seq(Bytes)
      <4>1. got["back"] \o queue["back"] \in Seq(Bytes)
        BY <1>3, ConcatProperties DEF Ends
      <4> QED
        BY <1>3, <4>1, ConcatProperties DEF Ends
    <3>2. sent'["front"] = Append(x \o r, b) /\ rx'["front"] = Append(r, b)
      BY <1>1, <1>3, <2>1, <2>2 DEF Ends
    <3>3. sent'["back"] = sent["back"] /\ rx'["back"] = rx["back"]
      BY <1>1, <1>3, <2>2 DEF Ends
    <3> HIDE DEF x, r
    <3>4. Append(x \o r, b) = x \o Append(r, b)
      BY <3>1, AppendLast
    <3>5. sent'["front"] = x \o rx'["front"]
      BY <3>2, <3>4
    <3> QED
      BY <1>2, <2>1, <3>3, <3>5 DEF Conserved, x
  <2>3. CASE e = "back"
    <3> DEFINE x == got["front"] \o queue["front"]
               r == rx["back"]
    <3>1. x \in Seq(Bytes) /\ r \in Seq(Bytes)
      BY <1>3, ConcatProperties DEF Ends
    <3>2. sent'["back"] = Append(x \o r, b) /\ rx'["back"] = Append(r, b)
      BY <1>1, <1>3, <2>1, <2>3 DEF Ends
    <3>3. sent'["front"] = sent["front"] /\ rx'["front"] = rx["front"]
      BY <1>1, <1>3, <2>3 DEF Ends
    <3> HIDE DEF x, r
    <3>4. Append(x \o r, b) = x \o Append(r, b)
      BY <3>1, AppendLast
    <3>5. sent'["back"] = x \o rx'["back"]
      BY <3>2, <3>4
    <3> QED
      BY <1>2, <2>1, <3>3, <3>5 DEF Conserved, x
  <2> QED
    BY <2>2, <2>3 DEF Ends
<1>7. BufferSpent' /\ ClosedRests'
  BY <1>2 DEF ByteInv, BufferSpent, ClosedRests
<1>8. Streams!Send(e)
  BY <1>1, <1>2 DEF Streams!Send
<1>9. StreamStep
  BY <1>8 DEF StreamStep, Streams!StreamNext, Streams!Ends, Ends
<1> QED
  BY <1>5, <1>6, <1>7, <1>9 DEF ByteInv

\* The other steps of the peers and of the network.
LEMMA PeersInv ==
    ASSUME ByteInv, NEW e \in Ends, Finish(e) \/ Drain(e) \/ Establish
    PROVE  ByteInv' /\ StreamStep
<1>1. UNCHANGED <<sent, got, rx, queue, buffer, phase, at>>
  BY DEF Finish, Drain, Establish, Process
<1>2. "back" \in Ends
  BY DEF Ends
<1>3. TypeOK'
  <2>1. CASE Finish(e)
    BY <2>1 DEF Finish, Process, ByteInv, TypeOK
  <2>2. CASE Drain(e)
    <3>1. room' \in [Ends -> 0 .. SendSize]
      <4>1. room \in [Ends -> 0 .. SendSize] /\ SendSize \in Nat
        BY RelayAssumption DEF ByteInv, TypeOK
      <4>2. PICK r \in room[e] + 1 .. SendSize : room' = [room EXCEPT ![e] = r]
        BY <2>2 DEF Drain
      <4>3. r \in 0 .. SendSize
        <5>1. room[e] \in 0 .. SendSize
          BY <4>1
        <5> QED
          BY <4>1, <5>1
      <4> QED
        BY <4>1, <4>2, <4>3
    <3>2. edge' \subseteq Ends
      BY <2>2 DEF Drain, ByteInv, TypeOK
    <3> QED
      BY <2>2, <3>1, <3>2 DEF Drain, Process, ByteInv, TypeOK
  <2>3. CASE Establish
    BY <1>2, <2>3 DEF Establish, Process, ByteInv, TypeOK
  <2> QED
    BY <2>1, <2>2, <2>3
<1>4. ClosedRests'
  BY <1>1 DEF ByteInv, ClosedRests
<1> QED
  BY <1>1, <1>3, <1>4, SilentInv

\* The steps of the loop that neither read nor write.
LEMMA LoopInv ==
    ASSUME ByteInv, Wait \/ EndBatch \/ (\E e \in Ends : Event(e)) \/ ReadNothing
    PROVE  ByteInv' /\ StreamStep
<1>1. UNCHANGED <<sent, got, rx, queue, buffer, phase>>
  BY DEF Wait, EndBatch, Event, ReadNothing, peers
<1>2. TypeOK /\ ClosedRests
  BY DEF ByteInv
<1>3. TypeOK'
  <2>1. CASE Wait
    <3>1. PICK es \in (SUBSET edge) \ {{}} :
              /\ reported' = [e \in Ends |-> IF e \in es THEN Poll(e) ELSE {}]
              /\ edge' = edge \ es
      BY <2>1 DEF Wait
    <3>2. \A e \in Ends : Poll(e) \in SUBSET Events
      BY DEF Poll
    <3>3. reported' \in [Ends -> SUBSET Events]
      BY <3>1, <3>2
    <3>4. edge' \subseteq Ends
      BY <1>2, <3>1 DEF TypeOK
    <3> QED
      BY <1>2, <2>1, <3>3, <3>4 DEF Wait, TypeOK
  <2>2. CASE EndBatch
    BY <1>2, <2>2 DEF EndBatch, peers, TypeOK
  <2>3. CASE \E e \in Ends : Event(e)
    BY <1>2, <2>3 DEF Event, peers, TypeOK
  <2>4. CASE ReadNothing
    BY <1>2, <2>4 DEF ReadNothing, peers, TypeOK
  <2> QED
    BY <2>1, <2>2, <2>3, <2>4
<1>4. ClosedRests'
  BY <1>2 DEF Wait, EndBatch, Event, ReadNothing, peers, ClosedRests
<1> QED
  BY <1>1, <1>3, <1>4, SilentInv

\* The steps that close the session.
LEMMA ClosingInv ==
    ASSUME ByteInv,
           ConnectFails \/ IdentifyTimeout \/ ReadEnd \/ ReadSomeFails \/ EpollOutFails
    PROVE  ByteInv' /\ StreamStep
<1>1. CloseSession
  BY DEF ConnectFails, IdentifyTimeout, ReadEnd, ReadSomeFails, EpollOutFails, SendPacketFails
<1> QED
  BY <1>1, CloseSessionInv

\* What is handled is reported no longer.
LEMMA HandledType ==
    ASSUME TypeOK, NEW e \in Ends, Handled(e)
    PROVE  reported' \in [Ends -> SUBSET Events]
  BY DEF TypeOK, Handled

\* The buffer goes to the destination, ahead of all that is not read yet.
LEMMA ConnectInv ==
    ASSUME ByteInv, Connect
    PROVE  ByteInv' /\ StreamStep
<1>1. /\ UNCHANGED <<sent, rx, eof, link, at, cur>>
      /\ phase = "connecting" /\ phase' = "relaying" /\ buffer' = <<>>
      /\ Handled("back") /\ at = "event"
  BY DEF Connect, ConnectEvent
<1>2. TypeOK /\ Conserved
  BY DEF ByteInv
<1>3. "back" \in Ends /\ "front" \in Ends /\ Other("back") = "front"
  BY DEF Ends, Other
<1>4. /\ got \in [Ends -> Seq(Bytes)] /\ queue \in [Ends -> Seq(Bytes)]
      /\ buffer \in Seq(Bytes)
      /\ armed \subseteq Ends /\ edge \subseteq Ends /\ room \in [Ends -> 0 .. SendSize]
  BY <1>2 DEF TypeOK
<1>5. got["back"] \in Seq(Bytes) /\ queue["back"] \in Seq(Bytes) /\ <<>> \in Seq(Bytes)
  BY <1>3, <1>4, EmptySeq
<1>6. got["back"] \o queue["back"] \in Seq(Bytes)
  BY <1>5, ConcatProperties
<1>7. /\ got' \in [Ends -> Seq(Bytes)]
      /\ queue' \in [Ends -> Seq(Bytes)]
      /\ room' \in [Ends -> 0 .. SendSize]
      /\ armed' \subseteq Ends /\ edge' \subseteq Ends
      /\ got'["back"] \o queue'["back"] = (got["back"] \o queue["back"]) \o buffer
      /\ got'["front"] = got["front"] /\ queue'["front"] = queue["front"]
      /\ \E d \in Seq(Bytes) : got'["back"] = got["back"] \o d
  <2>1. CASE buffer = <<>>
    <3>1. UNCHANGED <<got, room, queue, armed, edge>>
      BY <2>1 DEF Connect
    <3>2. (got["back"] \o queue["back"]) \o <<>> = got["back"] \o queue["back"]
      BY <1>6, ConcatEmptySeq
    <3>3. got["back"] = got["back"] \o <<>>
      BY <1>5, ConcatEmptySeq
    <3> QED
      BY <1>4, <1>5, <2>1, <3>1, <3>2, <3>3
  <2>2. CASE buffer # <<>>
    <3>1. SendPacket("back", buffer)
      BY <2>2 DEF Connect
    <3> QED
      BY <1>2, <1>3, <1>4, <3>1, SendPacketCarries
  <2> QED
    BY <2>1, <2>2
<1>8. TypeOK'
  <2>1. reported' \in [Ends -> SUBSET Events]
    BY <1>1, <1>2, <1>3, HandledType
  <2> QED
    BY <1>1, <1>2, <1>5, <1>7, <2>1 DEF TypeOK
<1>9. Conserved'
  <2> DEFINE x == got'["back"] \o queue'["back"]
  <2>1. x \in Seq(Bytes)
    BY <1>3, <1>7, ConcatProperties
  <2>2. sent["front"] = x \o rx["front"]
    BY <1>1, <1>2, <1>7 DEF Conserved
  <2> HIDE DEF x
  <2>3. x \o <<>> = x
    BY <2>1, ConcatEmptySeq
  <2>4. sent'["front"] = (x \o buffer') \o rx'["front"]
    BY <1>1, <2>2, <2>3
  <2>5. sent'["back"] = (got'["front"] \o queue'["front"]) \o rx'["back"]
    BY <1>1, <1>2, <1>7 DEF Conserved
  <2> QED
    BY <2>4, <2>5 DEF Conserved, x
<1>10. BufferSpent' /\ ClosedRests'
  BY <1>1 DEF BufferSpent, ClosedRests
<1>11. StreamStep
  <2>1. got'[Other("back")] = got[Other("back")]
    BY <1>3, <1>7
  <2> QED
    BY <1>1, <1>2, <1>3, <1>7, <1>8, <1>9, <2>1, PassingOn
<1> QED
  BY <1>8, <1>9, <1>10, <1>11 DEF ByteInv

\* What epollOut writes stays in its place in the stream, and so does the rest.
LEMMA EpollOutInv ==
    ASSUME ByteInv, EpollOut
    PROVE  ByteInv' /\ StreamStep
<1>1. /\ UNCHANGED <<sent, rx, eof, link, phase, buffer, cur>>
      /\ Handled(cur) /\ at = "writing" /\ at' = "event" /\ EpollCheck
  BY DEF EpollOut
<1>2. TypeOK /\ Conserved /\ BufferSpent /\ ClosedRests
  BY DEF ByteInv
<1>3. /\ got \in [Ends -> Seq(Bytes)] /\ queue \in [Ends -> Seq(Bytes)]
      /\ room \in [Ends -> 0 .. SendSize]
      /\ armed \subseteq Ends /\ edge \subseteq Ends /\ cur \in Ends
  BY <1>2 DEF TypeOK
<1>4. phase # "closed" /\ phase' # "closed"
  BY <1>1, <1>2 DEF ClosedRests
<1>5. got[cur] \in Seq(Bytes) /\ queue[cur] \in Seq(Bytes) /\ <<>> \in Seq(Bytes)
  BY <1>3, EmptySeq
<1>6. /\ got' \in [Ends -> Seq(Bytes)]
      /\ queue' \in [Ends -> Seq(Bytes)]
      /\ room' \in [Ends -> 0 .. SendSize]
      /\ got'[cur] \o queue'[cur] = got[cur] \o queue[cur]
      /\ got'[Other(cur)] = got[Other(cur)] /\ queue'[Other(cur)] = queue[Other(cur)]
      /\ \E d \in Seq(Bytes) : got'[cur] = got[cur] \o d
  <2>1. CASE "OUT" \in reported[cur] /\ queue[cur] # <<>>
    <3>1. PICK k \in Written(cur, Len(queue[cur])) : WriteOut(cur, queue[cur], k)
      BY <2>1 DEF EpollOut
    <3>2. Len(queue[cur]) \in Nat
      BY <1>5, LenProperties
    <3>3. k \in 0 .. Len(queue[cur]) /\ k <= room[cur]
      BY <1>2, <1>3, <3>2, WrittenBounds
    <3> QED
      BY <1>2, <1>3, <1>5, <3>1, <3>3, WriteOutCarries
  <2>2. CASE ~("OUT" \in reported[cur] /\ queue[cur] # <<>>)
    <3>1. UNCHANGED <<got, room, queue>>
      BY <2>2 DEF EpollOut
    <3>2. got[cur] = got[cur] \o <<>>
      BY <1>5, ConcatEmptySeq
    <3> QED
      BY <1>3, <1>5, <3>1, <3>2
  <2> QED
    BY <2>1, <2>2
<1>7. TypeOK'
  <2>1. reported' \in [Ends -> SUBSET Events]
    BY <1>1, <1>2, <1>3, HandledType
  <2>2. armed' \subseteq Ends /\ edge' \subseteq Ends
    BY <1>1, <1>3 DEF EpollCheck
  <2> QED
    BY <1>1, <1>2, <1>6, <2>1, <2>2 DEF TypeOK
<1>8. \A e \in Ends : got'[e] \o queue'[e] = got[e] \o queue[e]
  <2>1. Ends = {cur, Other(cur)}
    BY <1>3, OtherEnd
  <2> QED
    BY <1>6, <2>1
<1>9. Conserved'
  <2>1. "front" \in Ends /\ "back" \in Ends
    BY DEF Ends
  <2>2. /\ got'["front"] \o queue'["front"] = got["front"] \o queue["front"]
        /\ got'["back"] \o queue'["back"] = got["back"] \o queue["back"]
    BY <1>8, <2>1
  <2> QED
    BY <1>1, <1>2, <1>4, <2>2 DEF Conserved
<1>10. BufferSpent' /\ ClosedRests'
  BY <1>1, <1>2, <1>4 DEF BufferSpent, ClosedRests
<1>11. StreamStep
  BY <1>1, <1>2, <1>3, <1>4, <1>6, <1>7, <1>9, PassingOn
<1> QED
  BY <1>7, <1>9, <1>10, <1>11 DEF ByteInv

\* A chunk that is read goes behind all that was read before: to the partner, or
\* to the buffer of a front whose Client is not connected.
LEMMA ReadSomeInv ==
    ASSUME ByteInv, ReadSome
    PROVE  ByteInv' /\ StreamStep
<1> DEFINE rest == Rest(rx[cur], Len(Chunk))
<1>1. /\ UNCHANGED <<sent, eof, link, phase, reported, at, cur>>
      /\ at = "reading" /\ rx' = [rx EXCEPT ![cur] = rest]
  BY DEF ReadSome
<1>2. TypeOK /\ Conserved /\ BufferSpent /\ ClosedRests
  BY DEF ByteInv
<1>3. phase # "closed" /\ phase' # "closed"
  BY <1>1, <1>2 DEF ClosedRests
<1>4. /\ cur \in Ends /\ Chunk \in Seq(Bytes) /\ rest \in Seq(Bytes)
      /\ Chunk \o rest = rx[cur]
  BY <1>2, ChunkSplits
<1> HIDE DEF rest
<1>5. /\ got \in [Ends -> Seq(Bytes)] /\ queue \in [Ends -> Seq(Bytes)]
      /\ rx \in [Ends -> Seq(Bytes)] /\ buffer \in Seq(Bytes)
      /\ "front" \in Ends /\ "back" \in Ends
  BY <1>2 DEF TypeOK, Ends
<1>6. rx' \in [Ends -> Seq(Bytes)] /\ rx'[cur] = rest /\ rx'[Other(cur)] = rx[Other(cur)]
  <2> DEFINE S == Seq(Bytes)
  <2>1. rx \in [Ends -> S] /\ rest \in S /\ Other(cur) \in Ends /\ Other(cur) # cur
    BY <1>4, <1>5, OtherEnd
  <2> HIDE DEF S
  <2>2. rx' \in [Ends -> S] /\ rx'[cur] = rest /\ rx'[Other(cur)] = rx[Other(cur)]
    BY <1>1, <1>4, <2>1, Zenon
  <2> QED
    BY <2>2 DEF S
<1>7. /\ got["back"] \in Seq(Bytes) /\ queue["back"] \in Seq(Bytes)
      /\ got["front"] \in Seq(Bytes) /\ queue["front"] \in Seq(Bytes)
  BY <1>5
<1>8. /\ got["back"] \o queue["back"] \in Seq(Bytes)
      /\ got["front"] \o queue["front"] \in Seq(Bytes)
  BY <1>7, ConcatProperties
<1>9. /\ sent["front"] = ((got["back"] \o queue["back"]) \o buffer) \o rx["front"]
      /\ sent["back"] = (got["front"] \o queue["front"]) \o rx["back"]
  BY <1>2, <1>3 DEF Conserved
<1>10. CASE Relaying
  <2> DEFINE o == Other(cur)
  <2>1. SendPacket(o, Chunk) /\ buffer' = buffer /\ o \in Ends /\ Other(o) = cur
    <3>1. Other(cur) \in Ends /\ Other(Other(cur)) = cur
      BY <1>4 DEF Other, Ends
    <3> QED
      BY <1>10, <3>1 DEF ReadSome
  <2>2. /\ got' \in [Ends -> Seq(Bytes)]
        /\ queue' \in [Ends -> Seq(Bytes)]
        /\ room' \in [Ends -> 0 .. SendSize]
        /\ armed' \subseteq Ends /\ edge' \subseteq Ends
        /\ got'[o] \o queue'[o] = (got[o] \o queue[o]) \o Chunk
        /\ got'[Other(o)] = got[Other(o)] /\ queue'[Other(o)] = queue[Other(o)]
        /\ \E d \in Seq(Bytes) : got'[o] = got[o] \o d
    BY <1>2, <1>4, <2>1, SendPacketCarries
  <2>3. TypeOK'
    BY <1>1, <1>2, <1>6, <2>1, <2>2 DEF TypeOK
  <2>4. Conserved'
    <3>1. CASE cur = "front"
      <4> DEFINE x == got["back"] \o queue["back"]
                 c == Chunk
      <4>1. x \in Seq(Bytes) /\ c \in Seq(Bytes) /\ rest \in Seq(Bytes) /\ <<>> \in Seq(Bytes)
        BY <1>4, <1>8, EmptySeq
      <4>2. buffer = <<>> /\ buffer' = <<>>
        <5>1. phase = "relaying"
          BY <1>10, <3>1 DEF Relaying
        <5> QED
          BY <1>2, <2>1, <5>1 DEF BufferSpent
      <4>3. c \o rest = rx["front"] /\ rx'["front"] = rest /\ rx'["back"] = rx["back"]
        BY <1>4, <1>6, <3>1 DEF Other
      <4>4. /\ got'["back"] \o queue'["back"] = x \o c
            /\ got'["front"] = got["front"] /\ queue'["front"] = queue["front"]
        BY <2>2, <3>1 DEF Other
      <4>5. sent["front"] = (x \o <<>>) \o rx["front"]
        BY <1>9, <4>2
      <4> HIDE DEF x, c
      <4>6. (x \o c) \o rest = x \o (c \o rest)
        BY <4>1, Regroup, ZenonT(60)
      <4>7. x \o <<>> = x /\ (x \o c) \o <<>> = x \o c
        BY <4>1, <4>6, ConcatEmptySeq
      <4>8. sent["front"] = ((x \o c) \o <<>>) \o rest
        BY <4>3, <4>5, <4>6, <4>7
      <4>9. sent'["front"] = ((got'["back"] \o queue'["back"]) \o buffer') \o rx'["front"]
        BY <1>1, <4>2, <4>3, <4>4, <4>8
      <4>10. sent'["back"] = (got'["front"] \o queue'["front"]) \o rx'["back"]
        BY <1>1, <1>9, <4>3, <4>4
      <4> QED
        BY <4>9, <4>10 DEF Conserved
    <3>2. CASE cur = "back"
      <4> DEFINE x == got["front"] \o queue["front"]
                 c == Chunk
      <4>1. x \in Seq(Bytes) /\ c \in Seq(Bytes) /\ rest \in Seq(Bytes)
        BY <1>4, <1>8
      <4>2. c \o rest = rx["back"] /\ rx'["back"] = rest /\ rx'["front"] = rx["front"]
        BY <1>4, <1>6, <3>2 DEF Other
      <4>3. /\ got'["front"] \o queue'["front"] = x \o c
            /\ got'["back"] = got["back"] /\ queue'["back"] = queue["back"]
        BY <2>2, <3>2 DEF Other
      <4>4. sent["back"] = x \o rx["back"]
        BY <1>9
      <4> HIDE DEF x, c
      <4>5. (x \o c) \o rest = x \o (c \o rest)
        BY <4>1, Regroup, ZenonT(60)
      <4>6. sent'["back"] = (got'["front"] \o queue'["front"]) \o rx'["back"]
        BY <1>1, <4>2, <4>3, <4>4, <4>5
      <4>7. sent'["front"] = ((got'["back"] \o queue'["back"]) \o buffer') \o rx'["front"]
        BY <1>1, <1>9, <2>1, <4>2, <4>3
      <4> QED
        BY <4>6, <4>7 DEF Conserved
    <3> QED
      BY <1>4, <3>1, <3>2 DEF Ends
  <2>5. BufferSpent' /\ ClosedRests'
    BY <1>1, <1>2, <1>3, <2>1 DEF BufferSpent, ClosedRests
  <2>6. StreamStep
    BY <1>1, <1>2, <1>3, <2>1, <2>2, <2>3, <2>4, PassingOn
  <2> QED
    BY <2>3, <2>4, <2>5, <2>6 DEF ByteInv
<1>11. CASE ~Relaying
  <2>1. /\ cur = "front" /\ phase # "relaying" /\ buffer' = buffer \o Chunk
        /\ UNCHANGED <<got, room, queue, armed, edge>>
    BY <1>4, <1>11 DEF ReadSome, Relaying, Ends
  <2>2. TypeOK'
    <3>1. buffer \o Chunk \in Seq(Bytes)
      BY <1>4, <1>5, ConcatProperties
    <3> QED
      BY <1>1, <1>2, <1>6, <2>1, <3>1 DEF TypeOK
  <2>3. Conserved'
    <3> DEFINE x == got["back"] \o queue["back"]
               c == Chunk
               b == buffer
    <3>1. x \in Seq(Bytes) /\ c \in Seq(Bytes) /\ b \in Seq(Bytes) /\ rest \in Seq(Bytes)
      BY <1>4, <1>5, <1>8
    <3>2. c \o rest = rx["front"] /\ rx'["front"] = rest /\ rx'["back"] = rx["back"]
      BY <1>4, <1>6, <2>1 DEF Other
    <3>3. sent["front"] = (x \o b) \o rx["front"] /\ buffer' = b \o c
      BY <1>9, <2>1
    <3>4. got'["back"] \o queue'["back"] = x
      BY <2>1
    <3> HIDE DEF x, c, b
    <3>5. (x \o b) \o c = x \o (b \o c)
      BY <3>1, Regroup, ZenonT(60)
    <3>6. ((x \o b) \o c) \o rest = (x \o b) \o (c \o rest)
      <4> DEFINE y == x \o b
      <4>1. y \in Seq(Bytes)
        BY <3>1, Joined
      <4> HIDE DEF y
      <4>2. (y \o c) \o rest = y \o (c \o rest)
        BY <3>1, <4>1, Regroup, ZenonT(60)
      <4> QED
        BY <4>2 DEF y
    <3>7. sent["front"] = (x \o (b \o c)) \o rest
      BY <3>2, <3>3, <3>5, <3>6
    <3>8. sent'["front"] = ((got'["back"] \o queue'["back"]) \o buffer') \o rx'["front"]
      BY <1>1, <3>2, <3>3, <3>4, <3>7
    <3>9. sent'["back"] = (got'["front"] \o queue'["front"]) \o rx'["back"]
      BY <1>1, <1>9, <2>1, <3>2
    <3> QED
      BY <3>8, <3>9 DEF Conserved
  <2>4. BufferSpent' /\ ClosedRests'
    BY <1>1, <1>3, <2>1 DEF BufferSpent, ClosedRests
  <2>5. StreamStep
    BY <1>1, <2>1, Silent
  <2> QED
    BY <2>2, <2>3, <2>4, <2>5 DEF ByteInv
<1> QED
  BY <1>10, <1>11

-----------------------------------------------------------------------------
(* The theorems                                                            *)

LEMMA ByteStep == ByteInv /\ [Next]_vars => ByteInv' /\ StreamStep
<1> SUFFICES ASSUME ByteInv, [Next]_vars PROVE ByteInv' /\ StreamStep
  OBVIOUS
<1>1. ASSUME NEW e \in Ends, Arrive(e) PROVE ByteInv' /\ StreamStep
  BY <1>1, ArriveInv
<1>2. ASSUME NEW e \in Ends, Finish(e) \/ Drain(e) PROVE ByteInv' /\ StreamStep
  BY <1>2, PeersInv
<1>3. CASE Establish
  <2>1. "front" \in Ends
    BY DEF Ends
  <2> QED
    BY <1>3, <2>1, PeersInv
<1>4. CASE Wait \/ EndBatch \/ (\E e \in Ends : Event(e)) \/ ReadNothing
  BY <1>4, LoopInv
<1>5. CASE Connect
  BY <1>5, ConnectInv
<1>6. CASE ReadSome
  BY <1>6, ReadSomeInv
<1>7. CASE EpollOut
  BY <1>7, EpollOutInv
<1>8. CASE ConnectFails \/ IdentifyTimeout \/ ReadEnd \/ ReadSomeFails \/ EpollOutFails
  BY <1>8, ClosingInv
<1>9. CASE UNCHANGED vars
  <2>1. UNCHANGED <<sent, got, rx, queue, buffer, phase>>
    BY <1>9 DEF vars
  <2>2. TypeOK' /\ ClosedRests'
    BY <1>9 DEF ByteInv, TypeOK, ClosedRests, vars
  <2> QED
    BY <2>1, <2>2, SilentInv
<1> QED
  BY <1>1, <1>2, <1>3, <1>4, <1>5, <1>6, <1>7, <1>8, <1>9 DEF Next, Environment, Loop

\* The invariant holds in every state, and every step is a step of Stream or a
\* stutter of it.
LEMMA ByteInvariant == Spec => []ByteInv
<1>1. Init => ByteInv
  BY InitBytes
<1>2. ByteInv /\ [Next]_vars => ByteInv'
  BY ByteStep
<1> QED
  BY <1>1, <1>2, PTL DEF Spec

\* Buffers, queues and events are of their types whatever the sizes are: room never
\* goes below nothing or above the send buffer (Accept::writeSocket).
THEOREM RelayTypeCorrect == Spec => []TypeOK
<1>1. ByteInv => TypeOK
  BY DEF ByteInv
<1> QED
  BY <1>1, ByteInvariant, PTL

\* For any bytes and any sizes of the buffers, what sendPacket, epollIn, epollOut and
\* receiveClient do with a byte neither loses, repeats nor reorders it.
THEOREM NothingIsLost == Spec => []Conserved
<1>1. ByteInv => Conserved
  BY DEF ByteInv
<1> QED
  BY <1>1, ByteInvariant, PTL

\* The session implements the two ordered streams of Stream: what a peer gets is, at
\* all times, a beginning of what the other peer has sent.
THEOREM RelayImplementsStreams == Spec => ImplementsStreams
<1>1. Init => Streams!StreamInit
  BY InitBytes
<1>2. ByteInv /\ [Next]_vars => [Streams!StreamNext]_(Streams!streamVars)
  BY ByteStep DEF StreamStep
<1> QED
  BY <1>1, <1>2, ByteInvariant, PTL DEF Spec, ImplementsStreams, Streams!StreamSpec

=============================================================================
