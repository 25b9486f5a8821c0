----------------------------- MODULE PoolProofs -----------------------------
(***************************************************************************)
(* Proofs about Pool, for any number of slots and any width of versions.   *)
(* The invariant behind them says where the objects and their versions are *)
(* (Placed), and counts for each slot its entries on the idle list against *)
(* its users and the times it was given back without one (Counted); the    *)
(* arithmetic is that of remainders.                                       *)
(***************************************************************************)
EXTENDS Pool, FiniteSets, FiniteSetTheorems, TLAPS

-----------------------------------------------------------------------------
(* Remainders                                                              *)

LEMMA ModParts ==
    ASSUME NEW V \in Nat \ {0}, NEW a \in Nat
    PROVE  /\ a % V \in 0 .. V - 1
           /\ a \div V \in Nat
           /\ a = V * (a \div V) + (a % V)
  BY SMT

LEMMA SameQuotient ==
    ASSUME NEW V \in Nat \ {0}, NEW q \in Nat, NEW s \in Nat,
           NEW c \in 0 .. V - 1, NEW d \in 0 .. V - 1, V * q + c = V * s + d
    PROVE  c = d
<1>1. CASE q = s
  BY <1>1
<1>2. CASE q < s
  <2>1. V * s >= V * (q + 1)
    BY <1>2
  <2>2. V * (q + 1) = V * q + V
    OBVIOUS
  <2> QED BY <2>1, <2>2
<1>3. CASE s < q
  <2>1. V * q >= V * (s + 1)
    BY <1>3
  <2>2. V * (s + 1) = V * s + V
    OBVIOUS
  <2> QED BY <2>1, <2>2
<1> QED BY <1>1, <1>2, <1>3

LEMMA ModSucc ==
    ASSUME NEW V \in Nat \ {0}, NEW a \in Nat
    PROVE  ((a % V) + 1) % V = (a + 1) % V
<1> DEFINE q == a \div V   r == a % V   t == (r + 1) \div V   u == (r + 1) % V
           s == (a + 1) \div V    d == (a + 1) % V
<1>1. q \in Nat /\ r \in 0 .. V - 1 /\ a = V * q + r
  BY ModParts
<1>2. t \in Nat /\ u \in 0 .. V - 1 /\ r + 1 = V * t + u
  <2>1. r + 1 \in Nat
    BY <1>1
  <2> HIDE DEF r
  <2> QED BY <2>1, ModParts, Zenon
<1>3. s \in Nat /\ d \in 0 .. V - 1 /\ a + 1 = V * s + d
  <2>1. a + 1 \in Nat
    OBVIOUS
  <2> QED BY <2>1, ModParts, Zenon
<1> HIDE DEF q, r, t, u, s, d
<1>4. V * (q + t) = V * q + V * t
  BY <1>1, <1>2
<1>5. V * (q + t) + u = V * s + d
  BY <1>1, <1>2, <1>3, <1>4
<1>6. u = d
  BY <1>1, <1>2, <1>3, <1>5, SameQuotient
<1> QED BY <1>6 DEF u, d, r

LEMMA ModSmall ==
    ASSUME NEW V \in Nat \ {0}, NEW c \in 0 .. V - 1
    PROVE  c % V = c
  BY SMT

LEMMA ModApart ==
    ASSUME NEW V \in Nat \ {0}, NEW a \in Nat, NEW b \in Nat, b < a, a % V = b % V
    PROVE  (a - b) % V = 0
<1> DEFINE q == a \div V   r == a % V   s == b \div V
           t == (a - b) \div V   u == (a - b) % V
<1>1. q \in Nat /\ r \in 0 .. V - 1 /\ a = V * q + r
  BY ModParts
<1>2. s \in Nat /\ b = V * s + r
  BY ModParts
<1>3. t \in Nat /\ u \in 0 .. V - 1 /\ a - b = V * t + u
  <2>1. a - b \in Nat
    OBVIOUS
  <2> QED BY <2>1, ModParts, Zenon
<1> HIDE DEF q, r, t, u, s
<1>4. V * (s + t) = V * s + V * t
  BY <1>2, <1>3
<1>5. V * (s + t) + u = V * q + 0
  BY <1>1, <1>2, <1>3, <1>4
<1>6. u = 0
  BY <1>1, <1>2, <1>3, <1>5, SameQuotient
<1> QED BY <1>6 DEF u

-----------------------------------------------------------------------------
(* The inductive invariant                                                 *)

\* The entries of slot i on the idle list.
Waits(i) == {k \in DOMAIN idle : idle[k].index = i}

\* Where the objects are: each has its slot's version, and one that was removed waits to
\* be made anew with the entry of its slot that create pops first.
Placed ==
    /\ \A k \in DOMAIN idle : idle[k].index \in DOMAIN objects
    /\ \A i \in DOMAIN objects : objects[i] # None => objects[i] = given[i] % Versions
    /\ \A i \in DOMAIN objects : objects[i] = None =>
        \E k \in Waits(i) : idle[k] = HandleOf(i, given[i]) /\ \A j \in Waits(i) : j <= k

\* A slot is out or on the idle list once, and once more for each time it was given back
\* without a user; one that was not used yet has no history.
Counted ==
    /\ \A i \in DOMAIN objects : users[i] + Cardinality(Waits(i)) = 1 + extra[i]
    /\ \A i \in Indexes : i \notin DOMAIN objects =>
        given[i] = 0 /\ users[i] = 0 /\ extra[i] = 0

PoolInv == TypeOK /\ Placed /\ Counted

LEMMA HandleType ==
    ASSUME NEW i \in Indexes, NEW g \in Nat
    PROVE  HandleOf(i, g) \in Handles
  BY ModParts, PoolAssumption DEF HandleOf, Handles

LEMMA DomainType ==
    ASSUME TypeOK
    PROVE  /\ DOMAIN objects = 1 .. Len(objects) /\ Len(objects) \in Nat
           /\ DOMAIN objects \subseteq Indexes
           /\ DOMAIN idle = 1 .. Len(idle) /\ Len(idle) \in Nat
           /\ \A k \in DOMAIN idle : idle[k] \in Handles
<1>1. DOMAIN objects = 1 .. Len(objects) /\ Len(objects) \in Nat
  BY DEF TypeOK
<1>2. DOMAIN objects \subseteq Indexes
  BY <1>1, PoolAssumption DEF TypeOK, Indexes
<1>3. DOMAIN idle = 1 .. Len(idle) /\ Len(idle) \in Nat
  BY DEF TypeOK
<1>4. \A k \in DOMAIN idle : idle[k] \in Handles
  BY DEF TypeOK
<1> QED BY <1>1, <1>2, <1>3, <1>4

LEMMA WaitsFinite ==
    ASSUME TypeOK, NEW i
    PROVE  IsFiniteSet(Waits(i)) /\ Cardinality(Waits(i)) \in Nat
<1>1. IsFiniteSet(1 .. Len(idle))
  BY DomainType, FS_Interval
<1>2. Waits(i) \subseteq 1 .. Len(idle)
  BY DomainType DEF Waits
<1> QED BY <1>1, <1>2, FS_Subset, FS_CardinalityType

LEMMA HistoryType ==
    ASSUME TypeOK, NEW i \in Indexes
    PROVE  given[i] \in Nat /\ users[i] \in Nat /\ extra[i] \in Nat
  BY PoolAssumption DEF TypeOK

LEMMA PoolInit == Init => PoolInv
<1> SUFFICES ASSUME Init PROVE PoolInv
  OBVIOUS
<1>1. TypeOK
  BY PoolAssumption DEF Init, TypeOK, Indexes
<1>2. Placed
  BY DEF Init, Placed
<1>3. Counted
  BY DEF Init, Counted
<1> QED BY <1>1, <1>2, <1>3 DEF PoolInv

-----------------------------------------------------------------------------
(* create                                                                  *)

\* What create pops is the last entry; its slot waits once less, the rest stay.
LEMMA PopIdle ==
    ASSUME PoolInv, idle # <<>>, idle' = Popped, NEW i, i = idle[Len(idle)].index
    PROVE  /\ idle' \in Seq(Handles)
           /\ \A k \in DOMAIN idle' : k \in DOMAIN idle /\ idle'[k] = idle[k]
           /\ Len(idle) \in Waits(i)
           /\ i \in DOMAIN objects
           /\ Waits(i)' = Waits(i) \ {Len(idle)}
           /\ Cardinality(Waits(i)') = Cardinality(Waits(i)) - 1
           /\ \A j : j # i => Waits(j)' = Waits(j)
<1> DEFINE n == Len(idle)
<1>1. n \in Nat \ {0} /\ DOMAIN idle = 1 .. n /\ idle \in Seq(Handles)
  BY DEF PoolInv, TypeOK
<1>2. idle' \in Seq(Handles) /\ Len(idle') = n - 1
  BY <1>1 DEF Popped
<1>3. DOMAIN idle' = DOMAIN idle \ {n}
  <2>1. DOMAIN idle' = 1 .. (n - 1)
    BY <1>2
  <2> HIDE DEF n
  <2> QED BY <2>1, <1>1
<1>4. \A k \in DOMAIN idle' : k \in DOMAIN idle /\ idle'[k] = idle[k]
  BY <1>1, <1>2 DEF Popped
<1>5. n \in Waits(i)
  BY <1>1 DEF Waits
<1>6. i \in DOMAIN objects
  BY <1>1 DEF PoolInv, Placed
<1>7. idle[n].index = i
  OBVIOUS
<1> HIDE DEF n
<1>8. Waits(i)' = Waits(i) \ {n}
  BY <1>3, <1>4 DEF Waits
<1>9. \A j : j # i => Waits(j)' = Waits(j)
  BY <1>3, <1>4, <1>7 DEF Waits
<1>10. Cardinality(Waits(i) \ {n}) = Cardinality(Waits(i)) - 1
  <2>1. IsFiniteSet(Waits(i))
    BY WaitsFinite DEF PoolInv
  <2> QED BY <2>1, <1>5, FS_RemoveElement
<1> QED BY <1>2, <1>4, <1>5, <1>6, <1>8, <1>9, <1>10 DEF n

LEMMA CreateIdleKeeps ==
    ASSUME PoolInv, CreateIdle
    PROVE  PoolInv' /\ \E i \in Indexes : Abstract!Take(i)
<1>i. PICK i \in Indexes : i = idle[Len(idle)].index
  <2>1. idle # <<>>
    BY DEF CreateIdle
  <2>2. Len(idle) \in DOMAIN idle
    BY <2>1 DEF PoolInv, TypeOK
  <2> QED BY <2>2, DomainType DEF PoolInv, Handles
<1> DEFINE n == Len(idle)
           w == IF objects[i] = None THEN idle[n].version ELSE objects[i]
<1>0. /\ idle # <<>> /\ idle' = Popped /\ given' = given /\ answer' = i
      /\ users' = [users EXCEPT ![i] = @ + 1] /\ extra' = extra
      /\ objects' = [objects EXCEPT ![i] = w]
  BY <1>i DEF CreateIdle, Answers
<1>1. /\ idle' \in Seq(Handles)
      /\ \A k \in DOMAIN idle' : k \in DOMAIN idle /\ idle'[k] = idle[k]
      /\ n \in Waits(i) /\ i \in DOMAIN objects
      /\ Waits(i)' = Waits(i) \ {n}
      /\ Cardinality(Waits(i)') = Cardinality(Waits(i)) - 1
      /\ \A j : j # i => Waits(j)' = Waits(j)
  BY <1>i, <1>0, PopIdle
<1>2. /\ i \in Indexes /\ given[i] \in Nat /\ users[i] \in Nat /\ extra[i] \in Nat
      /\ given[i] % Versions \in 0 .. Versions - 1
      /\ DOMAIN objects \subseteq Indexes /\ DOMAIN idle = 1 .. n /\ n \in Nat
  <2>1. i \in Indexes /\ DOMAIN objects \subseteq Indexes /\ DOMAIN idle = 1 .. n /\ n \in Nat
    BY <1>1, DomainType DEF PoolInv
  <2>2. given[i] \in Nat /\ users[i] \in Nat /\ extra[i] \in Nat
    BY <2>1, HistoryType DEF PoolInv
  <2> QED BY <2>1, <2>2, ModParts, PoolAssumption
\* A removed object's slot is the one whose handle was kept last.
<1>3. w = given[i] % Versions
  <2>1. CASE objects[i] = None
    <3>1. PICK k \in Waits(i) : idle[k] = HandleOf(i, given[i]) /\ \A j \in Waits(i) : j <= k
      BY <2>1, <1>1 DEF PoolInv, Placed
    <3>2. k \in 1 .. n /\ n <= k
      BY <3>1, <1>1, <1>2 DEF Waits
    <3>3. k = n
      <4> HIDE DEF n
      <4> QED BY <3>2, <1>2
    <3> QED BY <2>1, <3>1, <3>3, <1>i DEF HandleOf
  <2>2. CASE objects[i] # None
    BY <2>2, <1>1 DEF PoolInv, Placed
  <2> QED BY <2>1, <2>2
<1> HIDE DEF n, w
<1>4. /\ DOMAIN objects' = DOMAIN objects /\ objects'[i] = given[i] % Versions
      /\ \A j \in DOMAIN objects : j # i => objects'[j] = objects[j]
  BY <1>0, <1>1, <1>3
<1>5. objects' \in Seq((0 .. Versions - 1) \cup {None}) /\ Len(objects') = Len(objects)
  BY <1>0, <1>1, <1>2, <1>3 DEF PoolInv, TypeOK
<1>6. /\ users' \in [Indexes -> Nat] /\ users'[i] = users[i] + 1
      /\ \A j \in Indexes : j # i => users'[j] = users[j]
  BY <1>0, <1>2 DEF PoolInv, TypeOK
<1>7. TypeOK'
  BY <1>0, <1>1, <1>2, <1>5, <1>6 DEF PoolInv, TypeOK, Indexes
<1>8. objects'[i] # None
  BY <1>2, <1>4, PoolAssumption
<1>9. Placed'
  <2>1. \A k \in DOMAIN idle' : idle'[k].index \in DOMAIN objects'
    BY <1>1, <1>4 DEF PoolInv, Placed
  <2>2. \A j \in DOMAIN objects' : objects'[j] # None => objects'[j] = given'[j] % Versions
    BY <1>0, <1>4 DEF PoolInv, Placed
  <2>3. ASSUME NEW j \in DOMAIN objects', objects'[j] = None
        PROVE  \E k \in Waits(j)' : /\ idle'[k] = HandleOf(j, given'[j])
                                    /\ \A l \in Waits(j)' : l <= k
    <3>1. j # i /\ j \in DOMAIN objects /\ objects[j] = None
      BY <2>3, <1>4, <1>8
    <3>2. PICK k \in Waits(j) : idle[k] = HandleOf(j, given[j]) /\ \A l \in Waits(j) : l <= k
      BY <3>1 DEF PoolInv, Placed
    <3>3. Waits(j)' = Waits(j)
      BY <3>1, <1>1
    <3>4. k \in DOMAIN idle'
      BY <3>2, <3>3 DEF Waits
    <3> QED BY <3>2, <3>3, <3>4, <1>0, <1>1
  <2> QED BY <2>1, <2>2, <2>3 DEF Placed, HandleOf
<1>10. Counted'
  <2>1. ASSUME NEW j \in DOMAIN objects'
        PROVE  users'[j] + Cardinality(Waits(j)') = 1 + extra'[j]
    <3>1. j \in DOMAIN objects /\ j \in Indexes
      BY <1>2, <1>4
    <3>2. users[j] + Cardinality(Waits(j)) = 1 + extra[j] /\ Cardinality(Waits(j)) \in Nat
      BY <3>1, WaitsFinite DEF PoolInv, Counted
    <3>3. CASE j = i
      <4> DEFINE c == Cardinality(Waits(i))   d == Cardinality(Waits(i)')
      <4>1. c \in Nat /\ users[i] + c = 1 + extra[i] /\ d = c - 1
        BY <3>2, <3>3, <1>1
      <4> HIDE DEF c, d
      <4>2. users'[i] + d = 1 + extra'[i]
        BY <4>1, <1>0, <1>2, <1>6
      <4> QED BY <4>2, <3>3 DEF d
    <3>4. CASE j # i
      BY <3>1, <3>2, <3>4, <1>0, <1>1, <1>6
    <3> QED BY <3>3, <3>4
  <2>2. \A j \in Indexes : j \notin DOMAIN objects' =>
            given'[j] = 0 /\ users'[j] = 0 /\ extra'[j] = 0
    BY <1>0, <1>1, <1>4, <1>6 DEF PoolInv, Counted
  <2> QED BY <2>1, <2>2 DEF Counted
<1>11. users[i] < 1 + extra[i]
  <2>1. users[i] + Cardinality(Waits(i)) = 1 + extra[i] /\ IsFiniteSet(Waits(i))
        /\ Cardinality(Waits(i)) \in Nat
    BY <1>1, WaitsFinite DEF PoolInv, Counted
  <2>2. Cardinality(Waits(i)) # 0
    BY <2>1, <1>1, FS_EmptySet
  <2> QED BY <2>1, <2>2, <1>2
<1>12. Abstract!Take(i)
  BY <1>0, <1>11 DEF Abstract!Take, Abstract!Free
<1> QED BY <1>2, <1>7, <1>9, <1>10, <1>12 DEF PoolInv

LEMMA CreateNewKeeps ==
    ASSUME PoolInv, CreateNew
    PROVE  PoolInv' /\ \E i \in Indexes : Abstract!Take(i)
<1> DEFINE i == NextIndex
<1>0. /\ idle = <<>> /\ NextIndex <= MaxHash /\ idle' = idle /\ given' = given
      /\ users' = [users EXCEPT ![i] = @ + 1] /\ extra' = extra
      /\ objects' = Append(objects, 0) /\ answer' = i
  BY DEF CreateNew, Answers
<1>1. /\ Len(objects) \in Nat /\ DOMAIN objects = 1 .. Len(objects)
      /\ i = Len(objects) + 1 /\ i \in Indexes /\ i \notin DOMAIN objects
      /\ objects \in Seq((0 .. Versions - 1) \cup {None})
  BY <1>0, PoolAssumption DEF PoolInv, TypeOK, NextIndex, Indexes
<1>2. 0 \in (0 .. Versions - 1) \cup {None} /\ 0 # None
  BY PoolAssumption
<1>3. /\ objects' \in Seq((0 .. Versions - 1) \cup {None}) /\ Len(objects') = i
      /\ DOMAIN objects' = DOMAIN objects \cup {i}
      /\ objects'[i] = 0
      /\ \A j \in DOMAIN objects : objects'[j] = objects[j]
  BY <1>0, <1>1, <1>2
<1> HIDE DEF i
<1>4. given[i] = 0 /\ users[i] = 0 /\ extra[i] = 0
  BY <1>1 DEF PoolInv, Counted
<1>5. 0 % Versions = 0
  BY ModSmall, PoolAssumption
<1>6. /\ users' \in [Indexes -> Nat] /\ users'[i] = 1
      /\ \A j \in Indexes : j # i => users'[j] = users[j]
  BY <1>0, <1>1, <1>4 DEF PoolInv, TypeOK
<1>7. TypeOK'
  BY <1>0, <1>1, <1>3, <1>6 DEF PoolInv, TypeOK, Indexes, NextIndex, i
<1>8. \A j : Waits(j) = {} /\ Waits(j)' = {}
  BY <1>0 DEF Waits
<1>9. Placed'
  BY <1>0, <1>2, <1>3, <1>4, <1>5, <1>8 DEF PoolInv, Placed
<1>10. Counted'
  <2>1. ASSUME NEW j \in DOMAIN objects'
        PROVE  users'[j] + Cardinality(Waits(j)') = 1 + extra'[j]
    <3>1. Cardinality(Waits(j)) = 0 /\ Cardinality(Waits(j)') = 0
      BY <1>8, FS_EmptySet
    <3>2. CASE j = i
      BY <3>1, <3>2, <1>0, <1>4, <1>6
    <3>3. CASE j # i
      <4>1. j \in DOMAIN objects /\ j \in Indexes
        BY <3>3, <1>3, DomainType DEF PoolInv
      <4>2. users[j] + Cardinality(Waits(j)) = 1 + extra[j]
        BY <4>1 DEF PoolInv, Counted
      <4> QED BY <3>1, <3>3, <4>1, <4>2, <1>0, <1>6
    <3> QED BY <3>2, <3>3
  <2>2. \A j \in Indexes : j \notin DOMAIN objects' =>
            given'[j] = 0 /\ users'[j] = 0 /\ extra'[j] = 0
    BY <1>0, <1>3, <1>6 DEF PoolInv, Counted
  <2> QED BY <2>1, <2>2 DEF Counted
<1>11. Abstract!Take(i)
  BY <1>0, <1>4 DEF Abstract!Take, Abstract!Free
<1> QED BY <1>1, <1>7, <1>9, <1>10, <1>11 DEF PoolInv

\* The list is empty and every slot has an object: they are all out.
LEMMA CreateFailsKeeps ==
    ASSUME PoolInv, CreateFails
    PROVE  PoolInv' /\ Abstract!Refuse
<1>1. UNCHANGED <<objects, idle, given, users, extra>> /\ answer' = 0 /\ idle = <<>>
      /\ NextIndex > MaxHash
  BY DEF CreateFails
<1>2. PoolInv'
  BY <1>1, PoolAssumption
     DEF PoolInv, TypeOK, Placed, Counted, Waits, HandleOf, Handles, Indexes
<1>3. DOMAIN objects = Indexes
  BY <1>1, PoolAssumption DEF PoolInv, TypeOK, NextIndex, Indexes
<1>4. ASSUME NEW i \in Indexes PROVE ~(users[i] < 1 + extra[i])
  <2>1. Cardinality(Waits(i)) = 0
    BY <1>1, FS_EmptySet DEF Waits
  <2> QED BY <2>1, <1>3, HistoryType DEF PoolInv, Counted
<1> QED BY <1>1, <1>2, <1>4 DEF Abstract!Refuse, Abstract!Free

-----------------------------------------------------------------------------
(* idle and remove                                                         *)

\* One more entry on the idle list goes with one user less, or with one more without.
LEMMA OneMore ==
    ASSUME TypeOK, NEW i \in Indexes, GivenBack(i),
           NEW c \in Nat, users[i] + c = 1 + extra[i]
    PROVE  users'[i] + (c + 1) = 1 + extra'[i]
<1>1. users[i] \in Nat /\ extra[i] \in Nat
  BY HistoryType
<1>2. CASE users[i] > 0
  <2>1. users'[i] = users[i] - 1 /\ extra'[i] = extra[i]
    BY <1>2 DEF GivenBack, TypeOK
  <2> QED BY <2>1, <1>1
<1>3. CASE ~(users[i] > 0)
  <2>1. users'[i] = users[i] /\ extra'[i] = extra[i] + 1
    BY <1>3 DEF GivenBack, TypeOK
  <2> QED BY <2>1, <1>1
<1> QED BY <1>2, <1>3

\* A slot with an object is given back, and the object stays or is removed.
LEMMA GivenBackKeeps ==
    ASSUME PoolInv, NEW i \in DOMAIN objects, GivenBack(i),
           idle' = Append(idle, HandleOf(i, given[i] + 1)),
           NEW v \in {None, (given[i] + 1) % Versions},
           objects' = [objects EXCEPT ![i] = v]
    PROVE  PoolInv' /\ (Abstract!GiveBack(i) \/ Abstract!GiveBackAgain(i))
<1>1. i \in Indexes /\ DOMAIN objects \subseteq Indexes
  BY DomainType DEF PoolInv
<1>2. given[i] \in Nat /\ given[i] + 1 \in Nat /\ users[i] \in Nat /\ extra[i] \in Nat
  BY <1>1, HistoryType DEF PoolInv
<1>3. given' \in [Indexes -> 0 .. MaxGiven] /\ given'[i] = given[i] + 1
      /\ \A j \in Indexes : j # i => given'[j] = given[j]
  BY <1>1, <1>2, PoolAssumption DEF PoolInv, TypeOK, GivenBack
<1>4. /\ users' \in [Indexes -> Nat] /\ extra' \in [Indexes -> Nat] /\ answer' = answer
      /\ \A j \in Indexes : j # i => users'[j] = users[j] /\ extra'[j] = extra[j]
  <2>1. CASE users[i] > 0
    <3>1. users[i] - 1 \in Nat
      BY <2>1, <1>2
    <3>2. users' = [users EXCEPT ![i] = users[i] - 1] /\ extra' = extra /\ answer' = answer
      BY <2>1 DEF GivenBack
    <3> QED BY <3>1, <3>2, <1>1 DEF PoolInv, TypeOK
  <2>2. CASE ~(users[i] > 0)
    <3>1. extra' = [extra EXCEPT ![i] = extra[i] + 1] /\ users' = users /\ answer' = answer
      BY <2>2 DEF GivenBack
    <3>2. extra[i] + 1 \in Nat
      BY <1>2
    <3> QED BY <3>1, <3>2, <1>1 DEF PoolInv, TypeOK
  <2> QED BY <2>1, <2>2
<1>5. HandleOf(i, given[i] + 1) \in Handles
  BY <1>1, <1>2, HandleType
<1>6. v \in (0 .. Versions - 1) \cup {None}
  <2>1. (given[i] + 1) % Versions \in 0 .. Versions - 1
    BY <1>2, ModParts, PoolAssumption
  <2> QED BY <2>1
<1>7. objects' \in Seq((0 .. Versions - 1) \cup {None}) /\ Len(objects') = Len(objects)
  BY <1>1, <1>6 DEF PoolInv, TypeOK
<1>8. DOMAIN objects' = DOMAIN objects /\ objects'[i] = v
      /\ \A j \in DOMAIN objects : j # i => objects'[j] = objects[j]
  OBVIOUS
<1> DEFINE n == Len(idle) + 1
<1>9. /\ idle' \in Seq(Handles) /\ idle'[n] = HandleOf(i, given[i] + 1)
      /\ n \in Nat /\ n \notin DOMAIN idle
      /\ \A k \in DOMAIN idle : k \in Nat /\ k <= n
      /\ DOMAIN idle' = DOMAIN idle \cup {n}
      /\ \A k \in DOMAIN idle : idle'[k] = idle[k]
  BY <1>5 DEF PoolInv, TypeOK
<1> HIDE DEF n
<1>10. idle'[n].index = i
  BY <1>9 DEF HandleOf
<1>11. Waits(i)' = Waits(i) \cup {n} /\ n \notin Waits(i)
       /\ \A j : j # i => Waits(j)' = Waits(j)
  BY <1>9, <1>10 DEF Waits
<1>12. Cardinality(Waits(i)') = Cardinality(Waits(i)) + 1 /\ Cardinality(Waits(i)) \in Nat
  <2>1. IsFiniteSet(Waits(i)) /\ Cardinality(Waits(i)) \in Nat
    BY WaitsFinite DEF PoolInv
  <2>2. Cardinality(Waits(i) \cup {n}) = Cardinality(Waits(i)) + 1
    BY <2>1, <1>11, FS_AddElement
  <2> QED BY <2>1, <2>2, <1>11
<1>13. TypeOK'
  BY <1>3, <1>4, <1>7, <1>9 DEF PoolInv, TypeOK, Indexes
<1>14. Placed'
  <2>1. \A k \in DOMAIN idle' : idle'[k].index \in DOMAIN objects'
    BY <1>8, <1>9, <1>10 DEF PoolInv, Placed
  <2>2. ASSUME NEW j \in DOMAIN objects', objects'[j] # None
        PROVE  objects'[j] = given'[j] % Versions
    <3>1. CASE j = i
      BY <2>2, <3>1, <1>3, <1>8
    <3>2. CASE j # i
      BY <2>2, <3>2, <1>1, <1>3, <1>8 DEF PoolInv, Placed
    <3> QED BY <3>1, <3>2
  <2>3. ASSUME NEW j \in DOMAIN objects', objects'[j] = None
        PROVE  \E k \in Waits(j)' : /\ idle'[k] = HandleOf(j, given'[j])
                                    /\ \A l \in Waits(j)' : l <= k
    <3>1. CASE j = i
      <4>1. n \in Waits(j)' /\ idle'[n] = HandleOf(j, given'[j])
        BY <3>1, <1>3, <1>9, <1>11
      <4>2. \A l \in Waits(j)' : l <= n
        BY <3>1, <1>9, <1>11 DEF Waits
      <4> QED BY <4>1, <4>2
    <3>2. CASE j # i
      <4>1. PICK k \in Waits(j) : idle[k] = HandleOf(j, given[j]) /\ \A l \in Waits(j) : l <= k
        BY <2>3, <3>2, <1>8 DEF PoolInv, Placed
      <4>2. Waits(j)' = Waits(j) /\ given'[j] = given[j]
        BY <3>2, <1>1, <1>3, <1>8, <1>11
      <4>3. k \in DOMAIN idle
        BY <4>1 DEF Waits
      <4> QED BY <4>1, <4>2, <4>3, <1>9
    <3> QED BY <3>1, <3>2
  <2> QED BY <2>1, <2>2, <2>3 DEF Placed, HandleOf
<1>15. Counted'
  <2>1. ASSUME NEW j \in DOMAIN objects'
        PROVE  users'[j] + Cardinality(Waits(j)') = 1 + extra'[j]
    <3>1. j \in DOMAIN objects /\ j \in Indexes
      BY <1>1, <1>8
    <3>2. users[j] + Cardinality(Waits(j)) = 1 + extra[j]
      BY <3>1 DEF PoolInv, Counted
    <3>3. CASE j = i
      <4>1. users[i] + Cardinality(Waits(i)) = 1 + extra[i]
        BY <3>2, <3>3
      <4>2. users'[i] + (Cardinality(Waits(i)) + 1) = 1 + extra'[i]
        BY <4>1, <1>1, <1>12, OneMore DEF PoolInv
      <4> QED BY <4>2, <3>3, <1>12
    <3>4. CASE j # i
      BY <3>1, <3>2, <3>4, <1>4, <1>11
    <3> QED BY <3>3, <3>4
  <2>2. \A j \in Indexes : j \notin DOMAIN objects' =>
            given'[j] = 0 /\ users'[j] = 0 /\ extra'[j] = 0
    BY <1>3, <1>4, <1>8 DEF PoolInv, Counted
  <2> QED BY <2>1, <2>2 DEF Counted
<1>16. Abstract!GiveBack(i) \/ Abstract!GiveBackAgain(i)
  BY <1>2 DEF GivenBack, Abstract!GiveBack, Abstract!GiveBackAgain
<1> QED BY <1>13, <1>14, <1>15, <1>16 DEF PoolInv

\* The handle that get takes is the one of the slot, whoever has it.
LEMMA IdleKeeps ==
    ASSUME PoolInv, NEW h \in Handles, Idle(h) \/ Remove(h)
    PROVE  PoolInv' /\ \E i \in Indexes : Abstract!GiveBack(i) \/ Abstract!GiveBackAgain(i)
<1> DEFINE i == h.index   w == (given[i] + 1) % Versions
<1>1. /\ i \in DOMAIN objects /\ objects[i] = h.version /\ GivenBack(i)
      /\ idle' = Append(idle, NextHandle(h))
  BY DEF Idle, Remove, Gets
<1>2. i \in Indexes /\ given[i] \in Nat
  BY <1>1, DomainType, HistoryType DEF PoolInv
<1>3. h.version = given[i] % Versions
  <2>1. h.version # None
    BY PoolAssumption DEF Handles
  <2> QED BY <2>1, <1>1 DEF PoolInv, Placed
<1>4. NextVersion(h.version) = w
  BY <1>2, <1>3, ModSucc, PoolAssumption DEF NextVersion
<1>5. NextHandle(h) = HandleOf(i, given[i] + 1)
  BY <1>4 DEF NextHandle, HandleOf, Handles
<1>6. CASE Idle(h)
  <2>1. objects' = [objects EXCEPT ![i] = w]
    BY <1>1, <1>4, <1>6 DEF Idle
  <2> QED BY <2>1, <1>1, <1>2, <1>5, GivenBackKeeps
<1>7. CASE Remove(h)
  <2>1. objects' = [objects EXCEPT ![i] = None]
    BY <1>7 DEF Remove
  <2> QED BY <2>1, <1>1, <1>2, <1>5, GivenBackKeeps
<1> QED BY <1>6, <1>7

LEMMA PoolStep == PoolInv /\ [Next]_vars => PoolInv'
<1> SUFFICES ASSUME PoolInv, [Next]_vars PROVE PoolInv'
  OBVIOUS
<1>1. CASE CreateIdle
  BY <1>1, CreateIdleKeeps
<1>2. CASE CreateNew
  BY <1>2, CreateNewKeeps
<1>3. CASE CreateFails
  BY <1>3, CreateFailsKeeps
<1>4. ASSUME NEW h \in Handles, Idle(h) \/ Remove(h) PROVE PoolInv'
  BY <1>4, IdleKeeps
<1>5. CASE UNCHANGED vars
  BY <1>5 DEF vars, PoolInv, TypeOK, Placed, Counted, Waits, HandleOf, Handles, Indexes
<1> QED BY <1>1, <1>2, <1>3, <1>4, <1>5 DEF Next

LEMMA PoolInvariant == Spec => []PoolInv
  BY PoolInit, PoolStep, PTL DEF Spec

-----------------------------------------------------------------------------
(* The theorems                                                            *)

\* Indexes, versions and the idle list keep their types, whatever handles the callers
\* give objects back by (object.h:111-216).
THEOREM PoolTypeCorrect == Spec => []TypeOK
  BY PoolInvariant, PTL DEF PoolInv

\* get tells handles apart by their versions, for versions of any width, and also of
\* slots that are idle more than once (object.h:151-165).
THEOREM HandlesTellApart == Spec => []HandlesTell
<1>1. PoolInv => HandlesTell
  <2> SUFFICES ASSUME PoolInv, NEW i \in Indexes
               PROVE  /\ i \in DOMAIN objects =>
                           \/ Gets(HandleOf(i, given[i]))
                           \/ \E k \in DOMAIN idle : idle[k] = HandleOf(i, given[i])
                      /\ \A g \in 0 .. MaxGiven :
                           g < given[i] /\ Gets(HandleOf(i, g))
                             => (given[i] - g) % Versions = 0
    BY DEF HandlesTell
  <2>1. given[i] \in Nat
    BY HistoryType DEF PoolInv
  <2>2. ASSUME i \in DOMAIN objects, objects[i] # None PROVE Gets(HandleOf(i, given[i]))
    BY <2>2 DEF PoolInv, Placed, Gets, HandleOf
  <2>3. ASSUME i \in DOMAIN objects, objects[i] = None
        PROVE  \E k \in DOMAIN idle : idle[k] = HandleOf(i, given[i])
    BY <2>3 DEF PoolInv, Placed, Waits
  <2>4. ASSUME NEW g \in 0 .. MaxGiven, g < given[i], Gets(HandleOf(i, g))
        PROVE  (given[i] - g) % Versions = 0
    <3>1. g \in Nat /\ i \in DOMAIN objects /\ objects[i] = g % Versions
      BY <2>4, PoolAssumption DEF Gets, HandleOf
    <3>2. g % Versions \in 0 .. Versions - 1
      BY <3>1, ModParts, PoolAssumption
    <3>3. g % Versions # None
      BY <3>2, PoolAssumption
    <3>4. given[i] % Versions = g % Versions
      BY <3>1, <3>3 DEF PoolInv, Placed
    <3> QED BY <3>1, <3>4, <2>1, <2>4, ModApart, PoolAssumption
  <2> QED BY <2>2, <2>3, <2>4
<1> QED BY <1>1, PoolInvariant, PTL

\* Every operation of a pool is one of an allocator, with callers that give back by any
\* handle, an idle object too: no object has two users at a time, but for one more each
\* time it was given back without a user, none is lost, and create fails only when all
\* are out (object.h:126-198).
THEOREM PoolImplementsAllocator == Spec => ImplementsAllocator
<1>1. Init => Abstract!Init
  BY DEF Init, Abstract!Init
<1>2. PoolInv /\ [Next]_vars => [Abstract!Next]_(Abstract!vars)
  <2> SUFFICES ASSUME PoolInv, [Next]_vars
               PROVE  Abstract!Next \/ UNCHANGED <<users, extra, answer>>
    BY DEF Abstract!vars
  <2>1. CASE CreateIdle
    BY <2>1, CreateIdleKeeps DEF Abstract!Next
  <2>2. CASE CreateNew
    BY <2>2, CreateNewKeeps DEF Abstract!Next
  <2>3. CASE CreateFails
    BY <2>3, CreateFailsKeeps DEF Abstract!Next
  <2>4. ASSUME NEW h \in Handles, Idle(h) \/ Remove(h)
        PROVE  Abstract!Next
    BY <2>4, IdleKeeps DEF Abstract!Next
  <2>5. CASE UNCHANGED vars
    BY <2>5 DEF vars
  <2> QED BY <2>1, <2>2, <2>3, <2>4, <2>5 DEF Next
<1> QED BY <1>1, <1>2, PoolInvariant, PTL DEF Spec, ImplementsAllocator, Abstract!Spec

=============================================================================
