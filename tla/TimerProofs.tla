----------------------------- MODULE TimerProofs -----------------------------
(***************************************************************************)
(* Proofs about Timer, for any objects, time counts and clock.  The lists   *)
(* only ever lose objects from anywhere and get them at the end; that they  *)
(* stay in order, and that m_waitTimeout is right about their heads, is     *)
(* what everything the loop relies on follows from.                         *)
(***************************************************************************)
EXTENDS Timer, FiniteSetTheorems, SequenceTheorems, TLAPS

-----------------------------------------------------------------------------
(* Numbers                                                                 *)

LEMMA LeastNumber ==
    ASSUME NEW T \in SUBSET Nat, T # {}
    PROVE  \E m \in T : \A n \in T : m <= n
<1>1. \A x, y \in Nat : x < y => <<x, y>> \in OpToRel(<, Nat)
  BY DEF OpToRel
<1>2. PICK m \in T : \A n \in T : ~(<<n, m>> \in OpToRel(<, Nat))
  BY NatLessThanWellFounded, WFMin
<1>3. ASSUME NEW n \in T PROVE m <= n
  <2>1. ~(n < m)
    BY <1>1, <1>2, Zenon
  <2> QED BY <2>1
<1> QED BY <1>3

LEMMA Remainder ==
    ASSUME NEW a \in Nat, NEW d \in Nat \ {0}
    PROVE  a % d \in Nat /\ a % d <= a /\ (a < d => a % d = a)
  BY SMT

-----------------------------------------------------------------------------
(* Sequences                                                               *)

\* t is what is left of s when some members are taken out.
Thins(t, s) ==
    \A i, j \in DOMAIN t : \E a, b \in DOMAIN s :
        t[i] = s[a] /\ t[j] = s[b] /\ (i < j => a < b) /\ (a = b => i = j)

Distinct(s) == \A i, j \in DOMAIN s : s[i] = s[j] => i = j

LEMMA RemoveAtWhere ==
    ASSUME NEW S, NEW s \in Seq(S), NEW k \in DOMAIN s
    PROVE  /\ RemoveAt(s, k) \in Seq(S) /\ Len(RemoveAt(s, k)) = Len(s) - 1
           /\ \A i \in 1 .. Len(s) - 1 :
                RemoveAt(s, k)[i] = IF i < k THEN s[i] ELSE s[i + 1]
<1>1. Len(s) \in Nat /\ DOMAIN s = 1 .. Len(s) /\ k \in 1 .. Len(s)
      /\ \A i \in 1 .. Len(s) : s[i] \in S
  BY LenProperties, ElementOfSeq
<1> DEFINE a == SubSeq(s, 1, k - 1)   b == SubSeq(s, k + 1, Len(s))
<1>2. a \in Seq(S) /\ Len(a) = k - 1 /\ \A i \in 1 .. k - 1 : a[i] = s[i]
  <2>1. 1 \in Int /\ k - 1 \in Int /\ \A i \in 1 .. k - 1 : s[i] \in S
    BY <1>1
  <2>2. /\ SubSeq(s, 1, k - 1) \in Seq(S)
        /\ Len(SubSeq(s, 1, k - 1)) = IF 1 <= k - 1 THEN k - 1 - 1 + 1 ELSE 0
        /\ \A i \in 1 .. k - 1 - 1 + 1 : SubSeq(s, 1, k - 1)[i] = s[1 + i - 1]
    BY <2>1, SubSeqProperties
  <2> QED BY <2>2, <1>1
<1>3. /\ b \in Seq(S) /\ Len(b) = Len(s) - k
      /\ \A i \in 1 .. Len(s) - k : b[i] = s[k + i]
  <2>1. k + 1 \in Int /\ Len(s) \in Int /\ \A i \in k + 1 .. Len(s) : s[i] \in S
    BY <1>1
  <2>2. /\ SubSeq(s, k + 1, Len(s)) \in Seq(S)
        /\ Len(SubSeq(s, k + 1, Len(s))) = IF k + 1 <= Len(s) THEN Len(s) - (k + 1) + 1 ELSE 0
        /\ \A i \in 1 .. Len(s) - (k + 1) + 1 : SubSeq(s, k + 1, Len(s))[i] = s[k + 1 + i - 1]
    BY <2>1, SubSeqProperties
  <2> QED BY <2>2, <1>1
<1>4. RemoveAt(s, k) = a \o b
  BY DEF RemoveAt
<1> HIDE DEF a, b
<1>5. /\ a \o b \in Seq(S) /\ Len(a \o b) = Len(a) + Len(b)
      /\ \A i \in 1 .. Len(a) + Len(b) : (a \o b)[i] = IF i <= Len(a) THEN a[i] ELSE b[i - Len(a)]
  BY <1>2, <1>3, ConcatProperties
<1> DEFINE c == a \o b
<1> HIDE DEF c
<1>6. c \in Seq(S) /\ Len(c) = Len(s) - 1
  BY <1>1, <1>2, <1>3, <1>5 DEF c
<1>7. ASSUME NEW i \in 1 .. Len(s) - 1 PROVE c[i] = IF i < k THEN s[i] ELSE s[i + 1]
  <2>1. c[i] = IF i <= k - 1 THEN a[i] ELSE b[i - (k - 1)]
    BY <1>1, <1>2, <1>3, <1>5 DEF c
  <2>2. CASE i < k
    BY <2>1, <2>2, <1>1, <1>2
  <2>3. CASE ~(i < k)
    <3>1. i - (k - 1) \in 1 .. Len(s) - k /\ k + (i - (k - 1)) = i + 1
      BY <2>3, <1>1
    <3> QED BY <3>1, <2>1, <2>3, <1>1, <1>3
  <2> QED BY <2>2, <2>3
<1> QED BY <1>4, <1>6, <1>7 DEF c

LEMMA WithoutThins ==
    ASSUME NEW s \in Seq(Objects), NEW o \in Objects
    PROVE  /\ Without(s, o) \in Seq(Objects) /\ Thins(Without(s, o), s)
           /\ Distinct(s) => \A x : x \in Members(Without(s, o)) <=> x \in Members(s) /\ x # o
<1>1. CASE o \notin Members(s)
  <2>1. Without(s, o) = s
    BY <1>1 DEF Without
  <2>2. Thins(s, s)
    BY DEF Thins
  <2> QED BY <1>1, <2>1, <2>2
<1>2. CASE o \in Members(s)
  <2> DEFINE k == Position(s, o)   t == Without(s, o)
             Was(i) == IF i < k THEN i ELSE i + 1
  <2>1. k \in DOMAIN s /\ s[k] = o
    BY <1>2 DEF Position, Members
  <2>2. t = RemoveAt(s, k)
    BY <1>2 DEF Without
  <2> HIDE DEF k, t
  <2>3. /\ t \in Seq(Objects) /\ Len(t) = Len(s) - 1
        /\ \A i \in 1 .. Len(s) - 1 : t[i] = IF i < k THEN s[i] ELSE s[i + 1]
    BY <2>1, <2>2, RemoveAtWhere
  <2>4. /\ DOMAIN t = 1 .. Len(s) - 1 /\ DOMAIN s = 1 .. Len(s) /\ Len(s) \in Nat
        /\ k \in 1 .. Len(s)
    BY <2>1, <2>3, LenProperties
  <2>5. \A i \in DOMAIN t : Was(i) \in DOMAIN s /\ Was(i) # k /\ t[i] = s[Was(i)]
    BY <2>3, <2>4
  <2>6. \A i, j \in DOMAIN t : (i < j => Was(i) < Was(j)) /\ (Was(i) = Was(j) => i = j)
    BY <2>4
  <2>7. Thins(t, s)
    BY <2>5, <2>6 DEF Thins
  <2>8. ASSUME NEW x \in Members(t), Distinct(s) PROVE x \in Members(s) /\ x # o
    <3>1. PICK i \in DOMAIN t : t[i] = x
      BY <2>8 DEF Members
    <3>2. Was(i) \in DOMAIN s /\ s[Was(i)] = x /\ Was(i) # k
      BY <3>1, <2>5
    <3> QED BY <3>2, <2>1, <2>8 DEF Members, Distinct
  <2>9. ASSUME NEW x \in Members(s), x # o PROVE x \in Members(t)
    <3>1. PICK a \in DOMAIN s : s[a] = x
      BY <2>9 DEF Members
    <3>2. a # k
      BY <3>1, <2>1, <2>9
    <3>3. CASE a < k
      <4>1. a \in DOMAIN t /\ t[a] = x
        BY <3>1, <3>3, <2>3, <2>4
      <4> QED BY <4>1 DEF Members
    <3>4. CASE k < a
      <4>1. a - 1 \in DOMAIN t /\ t[a - 1] = x
        BY <3>1, <3>4, <2>3, <2>4
      <4> QED BY <4>1 DEF Members
    <3> QED BY <3>2, <3>3, <3>4, <2>4
  <2> QED BY <2>3, <2>7, <2>8, <2>9 DEF t
<1> QED BY <1>1, <1>2

LEMMA Between ==
    ASSUME NEW n \in Nat, NEW k \in 0 .. n
    PROVE  /\ k \in Nat /\ k <= n
           /\ k + 1 <= n \/ k = n
           /\ (IF k + 1 <= n THEN n - (k + 1) + 1 ELSE 0) = n - k
           /\ \A i \in 1 .. n - k : i \in 1 .. n - (k + 1) + 1 /\ k + 1 + i - 1 = k + i
  BY SMT

\* The end of a sequence, from the k-th member on.
LEMMA EndThins ==
    ASSUME NEW s \in Seq(Objects), NEW k \in 0 .. Len(s)
    PROVE  LET t == SubSeq(s, k + 1, Len(s)) IN
           /\ t \in Seq(Objects) /\ Thins(t, s)
           /\ Len(s) \in Nat /\ DOMAIN s = 1 .. Len(s)
           /\ DOMAIN t = 1 .. Len(s) - k /\ \A i \in 1 .. Len(s) - k : t[i] = s[k + i]
           /\ t # <<>> => k < Len(s) /\ Head(t) = s[k + 1]
<1>0. Len(s) \in Nat /\ DOMAIN s = 1 .. Len(s) /\ \A i \in 1 .. Len(s) : s[i] \in Objects
  BY LenProperties, ElementOfSeq
<1>1. /\ Len(s) \in Nat /\ DOMAIN s = 1 .. Len(s) /\ k \in Nat /\ k <= Len(s)
      /\ \A i \in 1 .. Len(s) : s[i] \in Objects
  BY <1>0, Between
<1> DEFINE t == SubSeq(s, k + 1, Len(s))
<1>2. t \in Seq(Objects) /\ Len(t) = Len(s) - k /\ \A i \in 1 .. Len(s) - k : t[i] = s[k + i]
  <2>1. k + 1 \in Int /\ Len(s) \in Int /\ \A i \in k + 1 .. Len(s) : s[i] \in Objects
    BY <1>1
  <2>2. /\ t \in Seq(Objects)
        /\ Len(t) = IF k + 1 <= Len(s) THEN Len(s) - (k + 1) + 1 ELSE 0
        /\ \A i \in 1 .. Len(s) - (k + 1) + 1 : t[i] = s[k + 1 + i - 1]
    BY <2>1, SubSeqProperties
  <2> HIDE DEF t
  <2>3. \A i \in 1 .. Len(s) - k : i \in 1 .. Len(s) - (k + 1) + 1 /\ k + 1 + i - 1 = k + i
    BY <1>0, Between
  <2>4. (IF k + 1 <= Len(s) THEN Len(s) - (k + 1) + 1 ELSE 0) = Len(s) - k
    BY <1>0, Between
  <2>5. \A i \in 1 .. Len(s) - k : t[i] = s[k + i]
    BY <2>2, <2>3
  <2> QED BY <2>2, <2>4, <2>5
<1> HIDE DEF t
<1>3. DOMAIN t = 1 .. Len(s) - k
  BY <1>2, LenProperties
<1>4. \A i \in DOMAIN t : k + i \in DOMAIN s /\ t[i] = s[k + i]
  BY <1>1, <1>2, <1>3
<1>5. \A i, j \in DOMAIN t : (i < j => k + i < k + j) /\ (k + i = k + j => i = j)
  BY <1>1, <1>3
<1>6. Thins(t, s)
  BY <1>4, <1>5 DEF Thins
<1>7. t # <<>> => k < Len(s) /\ Head(t) = s[k + 1]
  BY <1>1, <1>2
<1> QED BY <1>1, <1>2, <1>3, <1>6, <1>7 DEF t

\* The first k members of a sequence.
LEMMA StartIs ==
    ASSUME NEW s \in Seq(Objects), NEW k \in 0 .. Len(s)
    PROVE  LET u == SubSeq(s, 1, k) IN
           DOMAIN u = 1 .. k /\ (\A i \in 1 .. k : u[i] = s[i]) /\ Members(u) \subseteq Members(s)
<1> DEFINE n == Len(s)   u == SubSeq(s, 1, k)
<1>1. n \in Nat /\ DOMAIN s = 1 .. n /\ \A i \in 1 .. n : s[i] \in Objects
  BY LenProperties, ElementOfSeq
<1>2. k \in Nat /\ k <= n
  <2> HIDE DEF n
  <2> QED BY <1>1, Between DEF n
<1>3. \A i \in 1 .. k : i \in 1 .. n
  <2> HIDE DEF n
  <2> QED BY <1>1, <1>2
<1>4. 1 \in Int /\ k \in Int /\ \A i \in 1 .. k : s[i] \in Objects
  <2> HIDE DEF n
  <2> QED BY <1>1, <1>2, <1>3
<1>5. /\ u \in Seq(Objects) /\ Len(u) = IF 1 <= k THEN k - 1 + 1 ELSE 0
      /\ \A i \in 1 .. k - 1 + 1 : u[i] = s[1 + i - 1]
  BY <1>4, SubSeqProperties
<1> HIDE DEF u, n
<1>6. Len(u) = k /\ \A i \in 1 .. k : u[i] = s[i]
  BY <1>5, <1>2
<1>7. DOMAIN u = 1 .. k
  BY <1>5, <1>6, LenProperties
<1>8. Members(u) \subseteq Members(s)
  BY <1>1, <1>3, <1>6, <1>7 DEF Members
<1> QED BY <1>6, <1>7, <1>8 DEF u

\* s loses its first k members.
LEMMA EndMembers ==
    ASSUME NEW s \in Seq(Objects), NEW k \in 0 .. Len(s), Distinct(s), NEW x
    PROVE  x \in Members(SubSeq(s, k + 1, Len(s)))
           <=> x \in Members(s) /\ x \notin Members(SubSeq(s, 1, k))
<1> DEFINE t == SubSeq(s, k + 1, Len(s))   u == SubSeq(s, 1, k)   n == Len(s)
<1>1. n \in Nat /\ DOMAIN s = 1 .. n /\ DOMAIN t = 1 .. n - k /\ \A i \in 1 .. n - k : t[i] = s[k + i]
  BY EndThins
<1>2. k \in Nat /\ k <= n
  <2> HIDE DEF n
  <2> QED BY <1>1, Between DEF n
<1>3. DOMAIN u = 1 .. k /\ \A i \in 1 .. k : u[i] = s[i]
  BY StartIs
<1> HIDE DEF t, u, n
<1>4. ASSUME x \in Members(t) PROVE x \in Members(s) /\ x \notin Members(u)
  <2>1. PICK i \in 1 .. n - k : x = s[k + i]
    BY <1>1, <1>4 DEF Members
  <2>2. k + i \in DOMAIN s /\ k + i \notin 1 .. k
    BY <1>1, <1>2, <2>1
  <2>3. ASSUME NEW j \in DOMAIN u PROVE u[j] # x
    <3>1. j \in 1 .. k /\ u[j] = s[j] /\ j \in DOMAIN s
      BY <1>1, <1>2, <1>3
    <3> QED BY <2>1, <2>2, <3>1 DEF Distinct
  <2> QED BY <2>1, <2>2, <2>3 DEF Members
<1>5. ASSUME x \in Members(s), x \notin Members(u) PROVE x \in Members(t)
  <2>1. PICK a \in DOMAIN s : s[a] = x
    BY <1>5 DEF Members
  <2>2. a \notin 1 .. k
    BY <1>3, <1>5, <2>1 DEF Members
  <2>3. a - k \in 1 .. n - k /\ k + (a - k) = a
    BY <1>1, <1>2, <2>1, <2>2
  <2> QED BY <2>1, <2>3, <1>1 DEF Members
<1> QED BY <1>4, <1>5 DEF t, u

LEMMA AppendedLast ==
    ASSUME NEW s \in Seq(Objects), NEW o \in Objects
    PROVE  LET t == Append(s, o) IN
           /\ t \in Seq(Objects) /\ t # <<>>
           /\ DOMAIN t = 1 .. Len(s) + 1 /\ DOMAIN s = 1 .. Len(s) /\ Len(s) \in Nat
           /\ \A i \in 1 .. Len(s) : t[i] = s[i]
           /\ t[Len(s) + 1] = o
<1> DEFINE t == Append(s, o)
<1>1. /\ t \in Seq(Objects) /\ Len(t) = Len(s) + 1
      /\ \A i \in 1 .. Len(s) : t[i] = s[i]
      /\ t[Len(s) + 1] = o
  BY AppendProperties
<1>2. t # <<>>
  BY AppendProperties
<1> HIDE DEF t
<1>3. DOMAIN t = 1 .. Len(s) + 1 /\ DOMAIN s = 1 .. Len(s) /\ Len(s) \in Nat
  BY <1>1, LenProperties
<1> QED BY <1>1, <1>2, <1>3 DEF t

-----------------------------------------------------------------------------
(* Lists of timers                                                         *)

\* A list of objects is in the order of their conditions c.
Sorted(s, c) == \A i, j \in DOMAIN s : i < j => c[s[i]] <= c[s[j]]

\* What Distinct and Sorted say of a list stays true when it gets shorter.
LEMMA ThinsKeeps ==
    ASSUME NEW s, NEW t, Thins(t, s), NEW c, NEW d,
           \A x \in Members(t) : d[x] = c[x]
    PROVE  /\ Members(t) \subseteq Members(s)
           /\ Distinct(s) => Distinct(t)
           /\ Sorted(s, c) => Sorted(t, d)
<1>1. Members(t) \subseteq Members(s)
  <2>1. ASSUME NEW i \in DOMAIN t PROVE t[i] \in Members(s)
    BY DEF Thins, Members
  <2> QED BY <2>1 DEF Members
<1>2. ASSUME Distinct(s), NEW i \in DOMAIN t, NEW j \in DOMAIN t, t[i] = t[j] PROVE i = j
  <2>1. PICK a, b \in DOMAIN s :
            t[i] = s[a] /\ t[j] = s[b] /\ (i < j => a < b) /\ (a = b => i = j)
    BY DEF Thins
  <2> QED BY <1>2, <2>1 DEF Distinct
<1>3. ASSUME Sorted(s, c), NEW i \in DOMAIN t, NEW j \in DOMAIN t, i < j
      PROVE  d[t[i]] <= d[t[j]]
  <2>1. PICK a, b \in DOMAIN s :
            t[i] = s[a] /\ t[j] = s[b] /\ (i < j => a < b) /\ (a = b => i = j)
    BY DEF Thins
  <2>2. c[s[a]] <= c[s[b]]
    BY <1>3, <2>1 DEF Sorted
  <2>3. d[t[i]] = c[t[i]] /\ d[t[j]] = c[t[j]]
    BY DEF Members
  <2> QED BY <2>1, <2>2, <2>3
<1>4. Distinct(s) => Distinct(t)
  BY <1>2 DEF Distinct
<1>5. Sorted(s, c) => Sorted(t, d)
  BY <1>3 DEF Sorted
<1> QED BY <1>1, <1>4, <1>5

\* What they say stays true when an object not in it yet comes last.
LEMMA AppendKeeps ==
    ASSUME NEW s \in Seq(Objects), NEW o \in Objects, o \notin Members(s), NEW c, NEW d,
           \A x \in Members(s) : d[x] = c[x]
    PROVE  /\ Append(s, o) \in Seq(Objects) /\ Append(s, o) # <<>>
           /\ \A x : x \in Members(Append(s, o)) <=> x \in Members(s) \/ x = o
           /\ Distinct(s) => Distinct(Append(s, o))
           /\ Sorted(s, c) /\ (\A x \in Members(s) : c[x] <= d[o]) => Sorted(Append(s, o), d)
<1> DEFINE t == Append(s, o)   n == Len(s)
<1>1. /\ t \in Seq(Objects) /\ t # <<>>
      /\ DOMAIN t = 1 .. n + 1 /\ DOMAIN s = 1 .. n /\ n \in Nat
      /\ \A i \in 1 .. n : t[i] = s[i]
      /\ t[n + 1] = o
  BY AppendedLast
<1> HIDE DEF t, n
<1>2. \A i \in DOMAIN t : \/ i \in DOMAIN s /\ t[i] = s[i] /\ i < n + 1
                          \/ i = n + 1 /\ t[i] = o
  BY <1>1
<1>3. \A i \in DOMAIN s : i \in DOMAIN t /\ t[i] = s[i] /\ s[i] # o
  BY <1>1 DEF Members
<1>4. ASSUME NEW x PROVE x \in Members(t) <=> x \in Members(s) \/ x = o
  <2>1. n + 1 \in DOMAIN t
    BY <1>1
  <2> QED BY <1>1, <1>2, <1>3, <2>1 DEF Members
<1>5. ASSUME Distinct(s), NEW i \in DOMAIN t, NEW j \in DOMAIN t, t[i] = t[j] PROVE i = j
  BY <1>2, <1>3, <1>5 DEF Distinct
<1>6. ASSUME Sorted(s, c), \A x \in Members(s) : c[x] <= d[o],
             NEW i \in DOMAIN t, NEW j \in DOMAIN t, i < j
      PROVE  d[t[i]] <= d[t[j]]
  <2>1. i \in DOMAIN s /\ t[i] = s[i]
    BY <1>1, <1>2, <1>6
  <2>2. s[i] \in Members(s) /\ d[s[i]] = c[s[i]]
    BY <2>1 DEF Members
  <2>3. CASE j = n + 1
    <3>1. t[j] = o
      BY <2>3, <1>1
    <3> QED BY <3>1, <2>1, <2>2, <1>6
  <2>4. CASE j # n + 1
    <3>1. j \in DOMAIN s /\ t[j] = s[j]
      BY <2>4, <1>2
    <3>2. d[s[j]] = c[s[j]]
      BY <3>1 DEF Members
    <3>3. c[s[i]] <= c[s[j]]
      BY <2>1, <3>1, <1>6 DEF Sorted
    <3> QED BY <2>1, <2>2, <3>1, <3>2, <3>3
  <2> QED BY <2>3, <2>4
<1>7. Distinct(s) => Distinct(t)
  BY <1>5 DEF Distinct
<1>8. Sorted(s, c) /\ (\A x \in Members(s) : c[x] <= d[o]) => Sorted(t, d)
  BY <1>6 DEF Sorted
<1> QED BY <1>1, <1>4, <1>7, <1>8 DEF t

\* TimersFiled, of lists ls, m_pTimerLists in and keys ld.
Filed(ls, in, ld) ==
    /\ \A n \in Counts :
        /\ \A i \in DOMAIN ls[n] : in[ls[n][i]] = n
        /\ \A i, j \in DOMAIN ls[n] : ls[n][i] = ls[n][j] => i = j
        /\ ls[n] # <<>> => n \in ld
    /\ \A o \in Objects : in[o] # None => o \in Members(ls[in[o]])

\* The same, list by list.
Holding(ls, in, ld) ==
    \A n \in Counts :
        /\ Distinct(ls[n])
        /\ ls[n] # <<>> => n \in ld
        /\ \A x : x \in Members(ls[n]) <=> x \in Objects /\ in[x] = n

LEMMA FiledListByList ==
    ASSUME NEW ls \in [Counts -> Seq(Objects)], NEW in \in [Objects -> Counts \cup {None}], NEW ld
    PROVE  Filed(ls, in, ld) <=> Holding(ls, in, ld)
<1>1. \A n \in Counts : \A x \in Members(ls[n]) : x \in Objects
  <2>1. ASSUME NEW n \in Counts, NEW i \in DOMAIN ls[n] PROVE ls[n][i] \in Objects
    <3>1. ls[n] \in Seq(Objects)
      OBVIOUS
    <3>2. DOMAIN ls[n] = 1 .. Len(ls[n])
      BY <3>1, LenProperties
    <3> QED BY <3>1, <3>2, ElementOfSeq
  <2> QED BY <2>1 DEF Members
<1>2. None \notin Counts
  BY TimerAssumption
<1>3. ASSUME Filed(ls, in, ld) PROVE Holding(ls, in, ld)
  <2> SUFFICES ASSUME NEW n \in Counts
               PROVE  /\ Distinct(ls[n])
                      /\ ls[n] # <<>> => n \in ld
                      /\ \A x : x \in Members(ls[n]) <=> x \in Objects /\ in[x] = n
    BY DEF Holding
  <2>1. Distinct(ls[n]) /\ (ls[n] # <<>> => n \in ld)
    BY <1>3 DEF Filed, Distinct
  <2>2. ASSUME NEW x \in Members(ls[n]) PROVE x \in Objects /\ in[x] = n
    BY <1>1, <1>3 DEF Filed, Members
  <2>3. ASSUME NEW x \in Objects, in[x] = n PROVE x \in Members(ls[n])
    BY <1>2, <1>3, <2>3 DEF Filed
  <2> QED BY <2>1, <2>2, <2>3
<1>4. ASSUME Holding(ls, in, ld) PROVE Filed(ls, in, ld)
  <2>1. ASSUME NEW n \in Counts, NEW i \in DOMAIN ls[n] PROVE in[ls[n][i]] = n
    <3>1. ls[n][i] \in Members(ls[n])
      BY DEF Members
    <3> QED BY <3>1, <1>4 DEF Holding
  <2>2. ASSUME NEW n \in Counts, NEW i \in DOMAIN ls[n], NEW j \in DOMAIN ls[n],
               ls[n][i] = ls[n][j]
        PROVE  i = j
    BY <1>4, <2>2 DEF Holding, Distinct
  <2>3. \A n \in Counts : ls[n] # <<>> => n \in ld
    BY <1>4 DEF Holding
  <2>4. ASSUME NEW o \in Objects, in[o] # None PROVE o \in Members(ls[in[o]])
    <3>1. in[o] \in Counts
      BY <2>4
    <3> QED BY <3>1, <1>4 DEF Holding
  <2> QED BY <2>1, <2>2, <2>3, <2>4 DEF Filed
<1> QED BY <1>3, <1>4

LEMMA FiledNow ==
    ASSUME TypeOK
    PROVE  TimersFiled <=> Holding(lists, inList, listed)
<1>1. TimersFiled <=> Filed(lists, inList, listed)
  BY DEF TimersFiled, Filed, Active
<1>2. lists \in [Counts -> Seq(Objects)] /\ inList \in [Objects -> Counts \cup {None}]
  BY DEF TypeOK
<1> QED BY <1>1, <1>2, FiledListByList

LEMMA FiledNext ==
    ASSUME TypeOK'
    PROVE  TimersFiled' <=> Holding(lists', inList', listed')
<1>1. TimersFiled' <=> Filed(lists', inList', listed')
  BY DEF TimersFiled, Filed, Active
<1>2. lists' \in [Counts -> Seq(Objects)] /\ inList' \in [Objects -> Counts \cup {None}]
  BY DEF TypeOK
<1> QED BY <1>1, <1>2, FiledListByList

\* TimerList::remove of o takes it out of the one list it is in.
LEMMA TakenOutLists ==
    ASSUME TypeOK, TimersFiled, NEW o \in Objects
    PROVE  /\ TakenOut(o) \in [Counts -> Seq(Objects)]
           /\ \A n \in Counts :
                /\ Thins(TakenOut(o)[n], lists[n])
                /\ \A x : x \in Members(TakenOut(o)[n]) <=> x \in Members(lists[n]) /\ x # o
<1>1. lists \in [Counts -> Seq(Objects)] /\ inList[o] \in Counts \cup {None}
  BY DEF TypeOK
<1>2. Holding(lists, inList, listed)
  BY FiledNow
<1>3. \A s : Thins(s, s)
  BY DEF Thins
<1>4. CASE inList[o] = None
  <2>1. TakenOut(o) = lists
    BY <1>4 DEF TakenOut
  <2>2. \A n \in Counts : o \notin Members(lists[n])
    BY <1>2, <1>4, TimerAssumption DEF Holding
  <2> QED BY <2>1, <2>2, <1>1, <1>3
<1>5. CASE inList[o] # None
  <2> DEFINE m == inList[o]   w == Without(lists[m], o)
  <2>1. m \in Counts /\ lists[m] \in Seq(Objects)
    BY <1>1, <1>5
  <2>2. Distinct(lists[m])
    BY <1>2, <2>1 DEF Holding
  <2>3. /\ w \in Seq(Objects) /\ Thins(w, lists[m])
        /\ \A x : x \in Members(w) <=> x \in Members(lists[m]) /\ x # o
    <3> HIDE DEF m
    <3> QED BY <2>1, <2>2, WithoutThins
  <2>4. TakenOut(o) = [lists EXCEPT ![m] = w]
    BY <1>5 DEF TakenOut
  <2> HIDE DEF w
  <2>5. TakenOut(o) \in [Counts -> Seq(Objects)] /\ TakenOut(o)[m] = w
    BY <1>1, <2>1, <2>3, <2>4
  <2>6. ASSUME NEW n \in Counts, n # m PROVE TakenOut(o)[n] = lists[n] /\ o \notin Members(lists[n])
    <3>1. TakenOut(o)[n] = lists[n]
      BY <1>1, <2>4, <2>6
    <3>2. o \notin Members(lists[n])
      BY <1>2, <2>6 DEF Holding
    <3> QED BY <3>1, <3>2
  <2>7. ASSUME NEW n \in Counts
        PROVE  /\ Thins(TakenOut(o)[n], lists[n])
               /\ \A x : x \in Members(TakenOut(o)[n]) <=> x \in Members(lists[n]) /\ x # o
    <3>1. CASE n = m
      BY <3>1, <2>3, <2>5
    <3>2. CASE n # m
      BY <3>2, <2>6, <1>3
    <3> QED BY <3>1, <3>2
  <2> QED BY <2>5, <2>7
<1> QED BY <1>4, <1>5

-----------------------------------------------------------------------------
(* The inductive invariant                                                 *)

\* A timer is due its time count after some time the clock has shown.
DueAfterSet == \A o \in Active : condition[o] <= latest + inList[o]

\* Unless it was set back, the clock shows the latest time it has shown.
ClockOnward == "back" \notin reset => latest = clock /\ updated <= clock

\* While a timer runs, m_waitTimeout is no further off than some time count.
NextDue == Active # {} => \E n \in Counts : waitTimeout <= latest + n

\* No timer is due at the time Timer::update last looked.
NoneBehind == "back" \notin reset => \A o \in Active : condition[o] > updated

TimerInv ==
    /\ TypeOK
    /\ TimersFiled
    /\ InOrder
    /\ NearestTimeout
    /\ NoOversleep
    /\ DueAfterSet
    /\ ClockOnward
    /\ NextDue
    /\ NoneBehind

-----------------------------------------------------------------------------
(* Setting and clearing a timer                                            *)

\* What these steps leave alone, or do not depend on.
Calm ==
    /\ UNCHANGED <<clock, left, updated, latest, reset>>
    /\ due' \in Seq(Objects)
    /\ at' \in {"loop", "handlers", "updating"}

\* o has no timer any more.
Stops(o) ==
    /\ lists' = TakenOut(o)
    /\ inList' = [inList EXCEPT ![o] = None]
    /\ UNCHANGED <<listed, condition, order, waitTimeout>>

\* o has a timer for n.
Starts(o, n) ==
    /\ Add(o, n)
    /\ listed' = listed \cup {n}
    /\ waitTimeout' = Least(waitTimeout, clock + n)

LEMMA StopsKeeps ==
    ASSUME TimerInv, NEW o \in Objects, Stops(o), Calm
    PROVE  TimerInv'
<1>1. /\ TypeOK /\ TimersFiled /\ InOrder /\ NearestTimeout /\ NoOversleep
      /\ DueAfterSet /\ ClockOnward /\ NextDue /\ NoneBehind
  BY DEF TimerInv
<1>2. /\ lists' \in [Counts -> Seq(Objects)]
      /\ \A n \in Counts :
            /\ Thins(lists'[n], lists[n])
            /\ \A x : x \in Members(lists'[n]) <=> x \in Members(lists[n]) /\ x # o
  <2>1. lists' = TakenOut(o)
    BY DEF Stops
  <2> QED BY <2>1, <1>1, TakenOutLists
<1>3. /\ inList' \in [Objects -> Counts \cup {None}]
      /\ inList'[o] = None
      /\ \A x \in Objects : x # o => inList'[x] = inList[x]
  BY <1>1 DEF TypeOK, Stops
<1>4. UNCHANGED <<listed, condition, order, waitTimeout, clock, left, updated, latest, reset>>
  BY DEF Stops, Calm
<1>5. TypeOK'
  BY <1>1, <1>2, <1>3, <1>4 DEF TypeOK, Calm
<1>6. TimersFiled'
  <2>1. Holding(lists, inList, listed)
    BY <1>1, FiledNow
  <2> SUFFICES ASSUME NEW n \in Counts
               PROVE  /\ Distinct(lists'[n])
                      /\ lists'[n] # <<>> => n \in listed'
                      /\ \A x : x \in Members(lists'[n]) <=> x \in Objects /\ inList'[x] = n
    BY <1>5, FiledNext DEF Holding
  <2>2. Distinct(lists[n]) /\ \A x : x \in Members(lists[n]) <=> x \in Objects /\ inList[x] = n
    BY <2>1 DEF Holding
  <2>3. Distinct(lists'[n])
    BY <1>2, <2>2, ThinsKeeps
  <2>4. lists'[n] # <<>> => n \in listed'
    <3>1. lists[n] = <<>> => lists'[n] = <<>>
      <4> SUFFICES ASSUME lists[n] = <<>>, lists'[n] # <<>> PROVE FALSE
        OBVIOUS
      <4>1. lists'[n] \in Seq(Objects) /\ lists[n] \in Seq(Objects)
        BY <1>1, <1>2 DEF TypeOK
      <4>2. 1 \in DOMAIN lists'[n]
        BY <4>1
      <4>3. DOMAIN lists[n] = {}
        OBVIOUS
      <4> QED BY <4>2, <4>3, <1>2 DEF Thins
    <3>2. lists[n] # <<>> => n \in listed
      BY <2>1 DEF Holding
    <3> QED BY <3>1, <3>2, <1>4
  <2>5. ASSUME NEW x PROVE x \in Members(lists'[n]) <=> x \in Objects /\ inList'[x] = n
    <3>1. x \in Members(lists'[n]) <=> x \in Members(lists[n]) /\ x # o
      BY <1>2
    <3>2. None # n
      BY TimerAssumption
    <3> QED BY <3>1, <3>2, <2>2, <1>3
  <2> QED BY <2>3, <2>4, <2>5
<1>7. InOrder'
  <2> SUFFICES ASSUME "back" \notin reset, NEW n \in Counts PROVE Sorted(lists'[n], condition')
    BY <1>4 DEF InOrder, Sorted
  <2>1. Sorted(lists[n], condition)
    BY <1>1 DEF InOrder, Sorted
  <2> QED BY <2>1, <1>2, <1>4, ThinsKeeps
<1>8. Active' \subseteq Active /\ \A x \in Active' : inList'[x] = inList[x]
  BY <1>3 DEF Active
<1>9. NearestTimeout' /\ DueAfterSet' /\ ClockOnward' /\ NextDue' /\ NoneBehind'
  <2>1. NearestTimeout'
    BY <1>1, <1>4, <1>8 DEF NearestTimeout
  <2>2. DueAfterSet'
    BY <1>1, <1>4, <1>8 DEF DueAfterSet
  <2>3. ClockOnward'
    BY <1>1, <1>4 DEF ClockOnward
  <2>4. NextDue'
    BY <1>1, <1>4, <1>8 DEF NextDue
  <2>5. NoneBehind'
    BY <1>1, <1>4, <1>8 DEF NoneBehind
  <2> QED BY <2>1, <2>2, <2>3, <2>4, <2>5
<1>10. NoOversleep'
  BY DEF NoOversleep, Calm
<1> QED BY <1>5, <1>6, <1>7, <1>9, <1>10 DEF TimerInv

LEMMA StartsKeeps ==
    ASSUME TimerInv, NEW o \in Objects, NEW n \in Counts, Starts(o, n), Calm
    PROVE  TimerInv'
<1>1. /\ TypeOK /\ TimersFiled /\ InOrder /\ NearestTimeout /\ NoOversleep
      /\ DueAfterSet /\ ClockOnward /\ NextDue /\ NoneBehind
  BY DEF TimerInv
<1>2. /\ TakenOut(o) \in [Counts -> Seq(Objects)]
      /\ \A m \in Counts :
            /\ Thins(TakenOut(o)[m], lists[m])
            /\ \A x : x \in Members(TakenOut(o)[m]) <=> x \in Members(lists[m]) /\ x # o
  BY <1>1, TakenOutLists
<1> DEFINE T == TakenOut(o)
<1>3. /\ lists' = [T EXCEPT ![n] = Append(@, o)]
      /\ inList' = [inList EXCEPT ![o] = n]
      /\ condition' = [condition EXCEPT ![o] = clock + n]
      /\ order' = Append(Without(order, o), o)
      /\ listed' = listed \cup {n}
      /\ waitTimeout' = Least(waitTimeout, clock + n)
  BY DEF Starts, Add
<1> HIDE DEF T
<1>4. /\ clock \in Nat /\ latest \in Nat /\ clock <= latest /\ clock <= MaxTime
      /\ MaxTime \in Nat /\ MaxInt64 \in Nat /\ waitTimeout \in 0 .. MaxInt64
      /\ n \in Nat /\ n > 0 /\ MaxTime + n < MaxInt64
      /\ updated \in Nat
  BY <1>1, TimerAssumption DEF TypeOK
<1>5. clock + n \in 0 .. MaxInt64 - 1 /\ clock + n > clock /\ clock + n <= latest + n
  BY <1>4
<1>6. UNCHANGED <<clock, left, updated, latest, reset>>
  BY DEF Calm
<1>7. /\ inList' \in [Objects -> Counts \cup {None}] /\ inList'[o] = n
      /\ \A x \in Objects : x # o => inList'[x] = inList[x]
  BY <1>1, <1>3 DEF TypeOK
<1>8. /\ condition' \in [Objects -> 0 .. MaxInt64 - 1] /\ condition'[o] = clock + n
      /\ \A x \in Objects : x # o => condition'[x] = condition[x]
  BY <1>1, <1>3, <1>5 DEF TypeOK
<1>9. /\ waitTimeout' \in 0 .. MaxInt64 /\ waitTimeout' <= waitTimeout
      /\ waitTimeout' <= clock + n
  BY <1>3, <1>4, <1>5 DEF Least
<1>10. T[n] \in Seq(Objects) /\ o \notin Members(T[n])
  BY <1>2 DEF T
<1>11. /\ lists' \in [Counts -> Seq(Objects)]
       /\ lists'[n] = Append(T[n], o)
       /\ \A m \in Counts : m # n => lists'[m] = T[m]
  <2>1. Append(T[n], o) \in Seq(Objects)
    BY <1>10
  <2>2. T \in [Counts -> Seq(Objects)]
    BY <1>2 DEF T
  <2> QED BY <1>3, <2>1, <2>2
<1>12. order' \in Seq(Objects)
  <2>1. Without(order, o) \in Seq(Objects)
    BY <1>1, WithoutThins DEF TypeOK
  <2> QED BY <2>1, <1>3
<1>13. listed' \subseteq Counts
  BY <1>1, <1>3 DEF TypeOK
<1>14. TypeOK'
  BY <1>1, <1>6, <1>7, <1>8, <1>9, <1>11, <1>12, <1>13 DEF TypeOK, Calm
<1>15. Holding(lists, inList, listed)
  BY <1>1, FiledNow
<1>16. \A m \in Counts : Distinct(T[m])
  BY <1>2, <1>15, ThinsKeeps DEF Holding, T
<1>17. \A m \in Counts : \A x : x \in Members(T[m]) <=> x \in Objects /\ inList[x] = m /\ x # o
  BY <1>2, <1>15 DEF Holding, T
<1>18. \A m \in Counts : T[m] # <<>> => m \in listed
  <2> SUFFICES ASSUME NEW m \in Counts, T[m] # <<>> PROVE m \in listed
    OBVIOUS
  <2>1. T[m] \in Seq(Objects) /\ lists[m] \in Seq(Objects)
    BY <1>1, <1>2 DEF TypeOK, T
  <2>2. 1 \in DOMAIN T[m]
    BY <2>1
  <2>3. lists[m] # <<>>
    <3>1. Thins(T[m], lists[m])
      BY <1>2 DEF T
    <3>2. DOMAIN lists[m] # {}
      BY <3>1, <2>2 DEF Thins
    <3> QED BY <3>2
  <2> QED BY <2>3, <1>15 DEF Holding
<1>19. TimersFiled'
  <2> SUFFICES ASSUME NEW m \in Counts
               PROVE  /\ Distinct(lists'[m])
                      /\ lists'[m] # <<>> => m \in listed'
                      /\ \A x : x \in Members(lists'[m]) <=> x \in Objects /\ inList'[x] = m
    BY <1>14, FiledNext DEF Holding
  <2>1. CASE m = n
    <3>1. Distinct(Append(T[n], o))
          /\ \A x : x \in Members(Append(T[n], o)) <=> x \in Members(T[n]) \/ x = o
      BY <1>10, <1>16, AppendKeeps
    <3>2. n \in listed'
      BY <1>3
    <3>3. ASSUME NEW x PROVE x \in Members(lists'[n]) <=> x \in Objects /\ inList'[x] = n
      BY <3>1, <1>7, <1>11, <1>17
    <3> QED BY <2>1, <3>1, <3>2, <3>3, <1>11
  <2>2. CASE m # n
    <3>1. lists'[m] = T[m]
      BY <2>2, <1>11
    <3>2. ASSUME NEW x PROVE x \in Members(T[m]) <=> x \in Objects /\ inList'[x] = m
      BY <2>2, <1>7, <1>17
    <3> QED BY <3>1, <3>2, <1>3, <1>16, <1>18
  <2> QED BY <2>1, <2>2
<1>20. InOrder'
  <2> SUFFICES ASSUME "back" \notin reset, NEW m \in Counts PROVE Sorted(lists'[m], condition')
    BY <1>6 DEF InOrder, Sorted
  <2>1. \A x \in Members(T[m]) : condition'[x] = condition[x]
    BY <1>8, <1>17
  <2>2. Sorted(lists[m], condition)
    BY <1>1 DEF InOrder, Sorted
  <2>3. Sorted(T[m], condition) /\ Sorted(T[m], condition')
    <3>1. Thins(T[m], lists[m])
      BY <1>2 DEF T
    <3> QED BY <2>1, <2>2, <3>1, ThinsKeeps
  <2>4. CASE m = n
    <3>1. ASSUME NEW x \in Members(T[n]) PROVE condition[x] <= condition'[o]
      <4>1. x \in Active /\ inList[x] = n
        BY <1>17, TimerAssumption DEF Active
      <4>2. latest = clock
        BY <1>1 DEF ClockOnward
      <4> QED BY <4>1, <4>2, <1>1, <1>8 DEF DueAfterSet
    <3>2. Sorted(Append(T[n], o), condition')
      BY <2>1, <2>3, <2>4, <3>1, <1>10, AppendKeeps
    <3> QED BY <2>4, <3>2, <1>11
  <2>5. CASE m # n
    BY <2>3, <2>5, <1>11
  <2> QED BY <2>4, <2>5
<1>21. \A x \in Active' :
            \/ x = o
            \/ x \in Active /\ inList'[x] = inList[x] /\ condition'[x] = condition[x]
  BY <1>7, <1>8 DEF Active
<1>22. \A x \in Active : condition[x] \in Nat
  BY <1>1, <1>4 DEF TypeOK, Active
<1>23. NearestTimeout'
  <2> SUFFICES ASSUME "back" \notin reset, NEW x \in Active' PROVE waitTimeout' <= condition'[x]
    BY <1>6 DEF NearestTimeout
  <2>1. CASE x = o
    BY <2>1, <1>8, <1>9
  <2>2. CASE x # o
    <3>1. x \in Active /\ condition'[x] = condition[x] /\ waitTimeout <= condition[x]
      BY <2>2, <1>21, <1>1 DEF NearestTimeout
    <3> QED BY <3>1, <1>4, <1>9, <1>22
  <2> QED BY <2>1, <2>2
<1>24. DueAfterSet'
  <2> SUFFICES ASSUME NEW x \in Active' PROVE condition'[x] <= latest + inList'[x]
    BY <1>6 DEF DueAfterSet
  <2>1. CASE x = o
    BY <2>1, <1>5, <1>7, <1>8
  <2>2. CASE x # o
    BY <2>2, <1>21, <1>1 DEF DueAfterSet
  <2> QED BY <2>1, <2>2
<1>25. ClockOnward'
  BY <1>1, <1>6 DEF ClockOnward
<1>26. NextDue'
  <2>1. waitTimeout' <= latest + n
    BY <1>4, <1>5, <1>9
  <2> QED BY <2>1, <1>6 DEF NextDue
<1>27. NoneBehind'
  <2> SUFFICES ASSUME "back" \notin reset, NEW x \in Active' PROVE condition'[x] > updated
    BY <1>6 DEF NoneBehind
  <2>1. CASE x = o
    <3>1. updated <= clock
      BY <1>1 DEF ClockOnward
    <3> QED BY <2>1, <3>1, <1>4, <1>8
  <2>2. CASE x # o
    BY <2>2, <1>21, <1>1 DEF NoneBehind
  <2> QED BY <2>1, <2>2
<1>28. NoOversleep'
  BY DEF NoOversleep, Calm
<1> QED BY <1>14, <1>19, <1>20, <1>23, <1>24, <1>25, <1>26, <1>27, <1>28 DEF TimerInv

LEMMA TimerAddKeeps ==
    ASSUME TimerInv, NEW o \in Objects, NEW n \in Counts, TimerAdd(o, n), Calm
    PROVE  TimerInv'
<1>1. Starts(o, n) \/ Stops(o)
  BY DEF TimerAdd, Starts, Stops
<1> QED BY <1>1, StartsKeeps, StopsKeeps

-----------------------------------------------------------------------------
(* Time                                                                    *)

LEMMA ActiveTimes ==
    ASSUME TypeOK, NEW o \in Active
    PROVE  /\ condition[o] \in Nat /\ condition[o] < MaxInt64
           /\ inList[o] \in Counts /\ inList[o] \in Nat
<1>1. condition[o] \in 0 .. MaxInt64 - 1 /\ inList[o] \in Counts
  BY DEF TypeOK, Active
<1>2. MaxInt64 \in Nat /\ Counts \subseteq Nat
  BY TimerAssumption
<1>3. condition[o] \in Nat /\ condition[o] < MaxInt64
  BY <1>1, <1>2
<1> QED BY <1>1, <1>2, <1>3

LEMMA StillNear ==
    ASSUME TypeOK, NextDue, Active # {}, NEW l \in Nat, latest <= l
    PROVE  \E n \in Counts : waitTimeout <= l + n
<1>1. PICK n \in Counts : waitTimeout <= latest + n
  BY DEF NextDue
<1>2. waitTimeout \in Nat /\ n \in Nat /\ latest \in Nat
  BY TimerAssumption DEF TypeOK
<1>3. waitTimeout <= l + n
  BY <1>1, <1>2
<1> QED BY <1>3

LEMMA TickKeeps ==
    ASSUME TimerInv, Tick
    PROVE  TimerInv'
<1>1. /\ TypeOK /\ TimersFiled /\ InOrder /\ NearestTimeout /\ NoOversleep
      /\ DueAfterSet /\ ClockOnward /\ NextDue /\ NoneBehind
  BY DEF TimerInv
<1>2. /\ UNCHANGED <<lists, listed, inList, condition, order, waitTimeout, due, at, updated, reset>>
      /\ clock < MaxTime /\ clock' = clock + 1
      /\ latest' = IF clock' > latest THEN clock' ELSE latest
      /\ left' = IF left \in {0, MaxInt64} THEN left ELSE left - 1
  BY DEF Tick, timers
<1>3. /\ MaxTime \in Nat /\ MaxInt64 \in Nat /\ clock \in 0 .. MaxTime /\ updated \in 0 .. MaxTime
      /\ latest \in clock .. MaxTime /\ left \in 0 .. MaxInt64
  BY <1>1, TimerAssumption DEF TypeOK
<1>4. /\ clock' \in 0 .. MaxTime /\ latest' \in clock' .. MaxTime /\ latest' >= latest
      /\ latest \in Nat /\ latest' \in Nat /\ updated \in Nat /\ clock \in Nat
  BY <1>2, <1>3
<1>5. left' \in 0 .. MaxInt64 /\ (left = 0 \/ left = MaxInt64 \/ left' = left - 1)
      /\ left \in Nat /\ left' \in Nat /\ (left = 0 => left' = 0)
  BY <1>2, <1>3
<1>6. TypeOK'
  BY <1>1, <1>2, <1>4, <1>5 DEF TypeOK
<1>7. Active' = Active
  BY <1>2 DEF Active
<1>8. TimersFiled' /\ InOrder' /\ NearestTimeout'
  BY <1>1, <1>2, <1>7 DEF TimersFiled, InOrder, NearestTimeout
<1>9. \A o \in Active :
        condition[o] \in Nat /\ condition[o] < MaxInt64 /\ inList[o] \in Nat
  BY <1>1, ActiveTimes
<1>10. NoOversleep'
  <2> SUFFICES ASSUME at = "asleep", reset = {}, NEW o \in Active
               PROVE  left' <= (IF condition[o] > clock' THEN condition[o] - clock' ELSE 0)
    BY <1>2, <1>7 DEF NoOversleep
  <2>1. left <= (IF condition[o] > clock THEN condition[o] - clock ELSE 0)
    BY <1>1 DEF NoOversleep
  <2>2. left # MaxInt64
    BY <2>1, <1>3, <1>4, <1>9
  <2> QED BY <2>1, <2>2, <1>2, <1>4, <1>5, <1>9
<1>11. DueAfterSet'
  <2> SUFFICES ASSUME NEW o \in Active PROVE condition[o] <= latest' + inList[o]
    BY <1>2, <1>7 DEF DueAfterSet
  <2>1. condition[o] <= latest + inList[o]
    BY <1>1 DEF DueAfterSet
  <2> QED BY <2>1, <1>4, <1>9
<1>12. ClockOnward'
  BY <1>1, <1>2, <1>4 DEF ClockOnward
<1>13. NextDue'
  <2>1. latest <= latest'
    BY <1>4
  <2>2. Active # {} => \E n \in Counts : waitTimeout <= latest' + n
    BY <2>1, <1>1, <1>4, StillNear
  <2> QED BY <2>2, <1>2, <1>7 DEF NextDue
<1>14. NoneBehind'
  BY <1>1, <1>2, <1>7 DEF NoneBehind
<1> QED BY <1>6, <1>8, <1>10, <1>11, <1>12, <1>13, <1>14 DEF TimerInv

LEMMA SetClockKeeps ==
    ASSUME TimerInv, SetClock
    PROVE  TimerInv'
<1>1. /\ TypeOK /\ TimersFiled /\ InOrder /\ NearestTimeout /\ NoOversleep
      /\ DueAfterSet /\ ClockOnward /\ NextDue /\ NoneBehind
  BY DEF TimerInv
<1>2. PICK t \in 0 .. MaxTime \ {clock} :
        /\ clock' = t
        /\ latest' = IF t > latest THEN t ELSE latest
        /\ reset' = reset \cup {IF t > clock THEN "forward" ELSE "back"}
  BY DEF SetClock
<1>3. UNCHANGED <<lists, listed, inList, condition, order, waitTimeout, due, left, at, updated>>
  BY DEF SetClock, timers
<1>4. /\ MaxTime \in Nat /\ clock \in 0 .. MaxTime /\ updated \in 0 .. MaxTime
      /\ latest \in clock .. MaxTime
  BY <1>1, TimerAssumption DEF TypeOK
<1>5. /\ clock' \in 0 .. MaxTime /\ latest' \in clock' .. MaxTime /\ latest' >= latest
      /\ latest \in Nat /\ latest' \in Nat /\ updated \in Nat /\ clock \in Nat /\ t \in Nat
  BY <1>2, <1>4
<1>6. reset' \subseteq {"forward", "back"} /\ reset' # {}
      /\ ("back" \notin reset' => t > clock /\ "back" \notin reset)
  BY <1>1, <1>2, <1>4 DEF TypeOK
<1>7. TypeOK'
  BY <1>1, <1>3, <1>5, <1>6 DEF TypeOK
<1>8. Active' = Active
  BY <1>3 DEF Active
<1>9. TimersFiled' /\ InOrder' /\ NearestTimeout' /\ NoneBehind'
  BY <1>1, <1>3, <1>6, <1>8 DEF TimersFiled, InOrder, NearestTimeout, NoneBehind
<1>10. NoOversleep'
  BY <1>6 DEF NoOversleep
<1>11. DueAfterSet'
  <2> SUFFICES ASSUME NEW o \in Active PROVE condition[o] <= latest' + inList[o]
    BY <1>3, <1>8 DEF DueAfterSet
  <2>1. condition[o] <= latest + inList[o]
    BY <1>1 DEF DueAfterSet
  <2>2. condition[o] \in Nat /\ inList[o] \in Nat
    BY <1>1, ActiveTimes
  <2> QED BY <2>1, <2>2, <1>5
<1>12. ClockOnward'
  <2> SUFFICES ASSUME "back" \notin reset' PROVE latest' = clock' /\ updated' <= clock'
    BY DEF ClockOnward
  <2>1. latest = clock /\ updated <= clock /\ t > clock
    BY <1>1, <1>6 DEF ClockOnward
  <2> QED BY <2>1, <1>2, <1>3, <1>5
<1>13. NextDue'
  <2>1. latest <= latest'
    BY <1>5
  <2>2. Active # {} => \E n \in Counts : waitTimeout <= latest' + n
    BY <2>1, <1>1, <1>5, StillNear
  <2> QED BY <2>2, <1>3, <1>8 DEF NextDue
<1> QED BY <1>7, <1>9, <1>10, <1>11, <1>12, <1>13 DEF TimerInv

\* An epoll_wait that gets a timeout in range waits until m_waitTimeout.
LEMMA TimeoutKept ==
    ASSUME TypeOK, waitTimeout # MaxInt64
    PROVE  /\ WaitTime \in Nat /\ WaitTime = (IF waitTimeout > clock THEN waitTimeout - clock ELSE 0)
           /\ WaitTime <= MaxInt => Timeout = WaitTime
<1>1. /\ clock \in Nat /\ waitTimeout \in Nat /\ MaxInt \in Nat /\ MaxInt64 \in Nat
      /\ waitTimeout <= MaxInt64
  BY TimerAssumption DEF TypeOK
<1>2. WaitTime = (IF waitTimeout > clock THEN waitTimeout - clock ELSE 0)
  BY DEF WaitTime
<1> DEFINE w == WaitTime   d == 2 * (MaxInt + 1)
<1>3. w \in Nat /\ w < MaxInt64
  BY <1>1, <1>2
<1>4. d \in Nat \ {0} /\ MaxInt < d
  BY <1>1
<1>5. ASSUME w <= MaxInt PROVE Timeout = w
  <2>1. w < d
    <3> HIDE DEF w, d
    <3> QED BY <1>1, <1>3, <1>4, <1>5
  <2>2. w % d = w
    <3> HIDE DEF w, d
    <3> QED BY <2>1, <1>3, <1>4, Remainder
  <2>3. Timeout = IF w = MaxInt64 \/ (w % d) > MaxInt THEN MaxInt64 ELSE w % d
    BY DEF Timeout
  <2>4. w # MaxInt64 /\ ~(w > MaxInt)
    <3> HIDE DEF w, d
    <3> QED BY <1>1, <1>3, <1>5
  <2> HIDE DEF w, d
  <2> QED BY <2>2, <2>3, <2>4
<1> QED BY <1>2, <1>3, <1>5

LEMMA TimeoutType ==
    ASSUME TypeOK
    PROVE  Timeout \in 0 .. MaxInt64
<1>1. /\ clock \in Nat /\ waitTimeout \in Nat /\ MaxInt \in Nat /\ MaxInt64 \in Nat
      /\ waitTimeout <= MaxInt64
  BY TimerAssumption DEF TypeOK
<1> DEFINE w == WaitTime   d == 2 * (MaxInt + 1)
<1>2. w \in Nat /\ w <= MaxInt64
  BY <1>1 DEF WaitTime
<1>3. d \in Nat \ {0}
  BY <1>1
<1>4. Timeout = IF w = MaxInt64 \/ (w % d) > MaxInt THEN MaxInt64 ELSE w % d
  BY DEF Timeout
<1> HIDE DEF w, d
<1>5. w % d \in Nat /\ w % d <= w
  BY <1>2, <1>3, Remainder
<1>6. w % d \in 0 .. MaxInt64
  BY <1>1, <1>2, <1>5
<1> QED BY <1>1, <1>4, <1>6

\* While a timer runs, m_waitTimeout is a time of day.
LEMMA WaitSet ==
    ASSUME TypeOK, NextDue, Active # {}
    PROVE  waitTimeout # MaxInt64
<1>1. PICK n \in Counts : waitTimeout <= latest + n
  BY DEF NextDue
<1>2. /\ latest \in Nat /\ latest <= MaxTime /\ MaxTime \in Nat /\ n \in Nat
      /\ MaxTime + n < MaxInt64 /\ MaxInt64 \in Nat
  BY TimerAssumption DEF TypeOK
<1> QED BY <1>1, <1>2

LEMMA SleepKeeps ==
    ASSUME TimerInv, Sleep
    PROVE  TimerInv'
<1>1. /\ TypeOK /\ TimersFiled /\ InOrder /\ NearestTimeout /\ NoOversleep
      /\ DueAfterSet /\ ClockOnward /\ NextDue /\ NoneBehind
  BY DEF TimerInv
<1>2. UNCHANGED <<lists, listed, inList, condition, order, waitTimeout, clock, due, updated,
                  latest, reset>>
      /\ left' = Timeout /\ at' = "asleep"
  BY DEF Sleep, timers
<1>3. TypeOK'
  BY <1>1, <1>2, TimeoutType DEF TypeOK
<1>4. Active' = Active
  BY <1>2 DEF Active
<1>5. TimersFiled' /\ InOrder' /\ NearestTimeout' /\ DueAfterSet'
  BY <1>1, <1>2, <1>4 DEF TimersFiled, InOrder, NearestTimeout, DueAfterSet
<1>6. ClockOnward' /\ NextDue' /\ NoneBehind'
  BY <1>1, <1>2, <1>4 DEF ClockOnward, NextDue, NoneBehind
<1>7. NoOversleep'
  <2> SUFFICES ASSUME reset = {}, NEW o \in Active
               PROVE  Timeout <= (IF condition[o] > clock THEN condition[o] - clock ELSE 0)
    BY <1>2, <1>4 DEF NoOversleep
  <2>1. PICK n \in Counts : waitTimeout <= latest + n
    BY <1>1 DEF NextDue
  <2>2. n \in Nat /\ n <= MaxInt /\ MaxInt \in Nat /\ clock \in Nat /\ MaxInt64 \in Nat
        /\ waitTimeout \in Nat
    BY <1>1, TimerAssumption DEF TypeOK
  <2>3. waitTimeout <= clock + n
    BY <2>1, <1>1 DEF ClockOnward
  <2>4. waitTimeout # MaxInt64
    BY <1>1, WaitSet
  <2>5. WaitTime = (IF waitTimeout > clock THEN waitTimeout - clock ELSE 0)
        /\ (WaitTime <= MaxInt => Timeout = WaitTime)
    BY <1>1, <2>4, TimeoutKept
  <2>6. Timeout = (IF waitTimeout > clock THEN waitTimeout - clock ELSE 0)
    BY <2>2, <2>3, <2>5
  <2>7. waitTimeout <= condition[o] /\ condition[o] \in Nat
    <3>1. condition[o] \in 0 .. MaxInt64 - 1
      BY <1>1 DEF TypeOK, Active
    <3> QED BY <3>1, <2>2, <1>1 DEF NearestTimeout
  <2> QED BY <2>2, <2>6, <2>7
<1> QED BY <1>3, <1>5, <1>6, <1>7 DEF TimerInv

LEMMA WakeKeeps ==
    ASSUME TimerInv, Wake
    PROVE  TimerInv'
<1>1. /\ TypeOK /\ TimersFiled /\ InOrder /\ NearestTimeout /\ NoOversleep
      /\ DueAfterSet /\ ClockOnward /\ NextDue /\ NoneBehind
  BY DEF TimerInv
<1>2. UNCHANGED <<lists, listed, inList, condition, order, waitTimeout, clock, due, latest, reset>>
      /\ left' = 0 /\ updated' = 0 /\ at' = "handlers"
  BY DEF Wake, timers
<1>3. MaxTime \in Nat /\ MaxInt64 \in Nat /\ clock \in Nat /\ updated \in Nat
  BY <1>1, TimerAssumption DEF TypeOK
<1>4. TypeOK'
  <2>1. 0 \in 0 .. MaxTime /\ 0 \in 0 .. MaxInt64
    BY <1>3
  <2> QED BY <2>1, <1>1, <1>2 DEF TypeOK
<1>5. Active' = Active
  BY <1>2 DEF Active
<1>6. TimersFiled' /\ InOrder' /\ NearestTimeout' /\ DueAfterSet'
  BY <1>1, <1>2, <1>5 DEF TimersFiled, InOrder, NearestTimeout, DueAfterSet
<1>7. ClockOnward' /\ NextDue' /\ NoOversleep'
  BY <1>1, <1>2, <1>3, <1>5 DEF ClockOnward, NextDue, NoOversleep
<1>8. NoneBehind'
  <2> SUFFICES ASSUME "back" \notin reset, NEW o \in Active PROVE condition[o] > 0
    BY <1>2, <1>5 DEF NoneBehind
  <2>1. condition[o] > updated /\ condition[o] \in 0 .. MaxInt64 - 1
    BY <1>1 DEF NoneBehind, TypeOK, Active
  <2> QED BY <2>1, <1>3
<1> QED BY <1>4, <1>6, <1>7, <1>8 DEF TimerInv

-----------------------------------------------------------------------------
(* Timer::update                                                           *)

LEMMA UpdateEarlyKeeps ==
    ASSUME TimerInv, UpdateEarly
    PROVE  TimerInv'
<1>1. /\ TypeOK /\ TimersFiled /\ InOrder /\ NearestTimeout /\ NoOversleep
      /\ DueAfterSet /\ ClockOnward /\ NextDue /\ NoneBehind
  BY DEF TimerInv
<1>2. UNCHANGED <<lists, listed, inList, condition, order, waitTimeout, clock, due, left,
                  latest, reset>>
      /\ updated' = clock /\ at' = "loop" /\ waitTimeout > clock
  BY DEF UpdateEarly, timers
<1>3. clock \in Nat /\ waitTimeout \in Nat
  BY <1>1, TimerAssumption DEF TypeOK
<1>4. TypeOK'
  BY <1>1, <1>2 DEF TypeOK
<1>5. Active' = Active
  BY <1>2 DEF Active
<1>6. TimersFiled' /\ InOrder' /\ NearestTimeout' /\ DueAfterSet'
  BY <1>1, <1>2, <1>5 DEF TimersFiled, InOrder, NearestTimeout, DueAfterSet
<1>7. ClockOnward' /\ NextDue' /\ NoOversleep'
  BY <1>1, <1>2, <1>3, <1>5 DEF ClockOnward, NextDue, NoOversleep
<1>8. NoneBehind'
  <2> SUFFICES ASSUME "back" \notin reset, NEW o \in Active PROVE condition[o] > clock
    BY <1>2, <1>5 DEF NoneBehind
  <2>1. waitTimeout <= condition[o]
    BY <1>1 DEF NearestTimeout
  <2> QED BY <2>1, <1>1, <1>2, <1>3, ActiveTimes
<1> QED BY <1>4, <1>6, <1>7, <1>8 DEF TimerInv

\* TimerList::update stops at the first node that is not due, or at the end.
LEMMA DueLengthIs ==
    ASSUME TypeOK, NEW n \in Counts
    PROVE  /\ DueLength(n) \in 0 .. Len(lists[n])
           /\ DueLength(n) < Len(lists[n]) => ~Passed(lists[n][DueLength(n) + 1])
<1> DEFINE s == lists[n]   L == Len(s)
           Stop(k) == k < L => ~Passed(s[k + 1])
<1>1. s \in Seq(Objects) /\ L \in Nat
  BY DEF TypeOK
<1> DEFINE T == {k \in 0 .. L : Stop(k)}
<1>2. L \in T /\ T \in SUBSET Nat
  <2> HIDE DEF L
  <2> QED BY <1>1
<1>3. PICK m \in T : \A k \in T : m <= k
  <2> HIDE DEF T
  <2> QED BY <1>2, LeastNumber
<1>4. m \in 0 .. L /\ m \in Nat /\ (m < L => ~Passed(s[m + 1]))
  BY <1>2, <1>3
<1>5. ASSUME NEW i \in 1 .. m PROVE Passed(s[i])
  <2>1. i - 1 \in 0 .. L /\ i - 1 < m /\ i - 1 < L /\ (i - 1) + 1 = i
    <3> HIDE DEF L
    <3> QED BY <1>1, <1>4
  <2>2. i - 1 \notin T
    <3>1. ASSUME i - 1 \in T PROVE FALSE
      <4>1. m <= i - 1
        BY <1>3, <3>1
      <4> QED BY <4>1, <2>1, <1>4
    <3> QED BY <3>1
  <2>3. ~Stop(i - 1)
    <3> HIDE DEF Stop
    <3> QED BY <2>1, <2>2
  <2>4. Passed(s[(i - 1) + 1])
    BY <2>3
  <2> QED BY <2>1, <2>4
<1>6. \E k \in 0 .. Len(lists[n]) :
        /\ \A i \in 1 .. k : Passed(lists[n][i])
        /\ k < Len(lists[n]) => ~Passed(lists[n][k + 1])
  <2>1. m \in 0 .. Len(lists[n])
    BY <1>4
  <2> QED BY <2>1, <1>4, <1>5
<1> QED BY <1>6 DEF DueLength

LEMMA RemainingIs ==
    ASSUME TypeOK, TimersFiled, NEW n \in Counts
    PROVE  /\ Remaining(n) \in Seq(Objects) /\ Thins(Remaining(n), lists[n])
           /\ \A x : x \in Members(Remaining(n)) <=> x \in Members(lists[n]) /\ x \notin DueIn(n)
           /\ DueIn(n) \subseteq Members(lists[n])
           /\ Remaining(n) # <<>> =>
                /\ Head(Remaining(n)) \in Members(Remaining(n))
                /\ ~Passed(Head(Remaining(n)))
                /\ InOrder /\ "back" \notin reset =>
                     \A x \in Members(Remaining(n)) : condition[Head(Remaining(n))] <= condition[x]
<1> DEFINE s == lists[n]   k == DueLength(n)   t == Remaining(n)   N == Len(s)
<1>1. s \in Seq(Objects) /\ k \in 0 .. N /\ (k < N => ~Passed(s[k + 1]))
  BY DueLengthIs DEF TypeOK
<1>2. Distinct(s)
  BY FiledNow DEF Holding
<1>3. t = SubSeq(s, k + 1, N)
  BY DEF Remaining
<1>4. DueIn(n) = Members(SubSeq(s, 1, k))
  BY DEF DueIn
<1> HIDE DEF s, k, t
<1>5. /\ t \in Seq(Objects) /\ Thins(t, s)
      /\ N \in Nat /\ DOMAIN s = 1 .. N
      /\ DOMAIN t = 1 .. N - k /\ \A i \in 1 .. N - k : t[i] = s[k + i]
      /\ t # <<>> => k < N /\ Head(t) = s[k + 1]
  BY <1>1, <1>3, EndThins
<1>6. \A x : x \in Members(t) <=> x \in Members(s) /\ x \notin DueIn(n)
  BY <1>1, <1>2, <1>3, <1>4, EndMembers
<1>7. DueIn(n) \subseteq Members(s)
  BY <1>1, <1>4, StartIs
<1> HIDE DEF N
<1>8. k \in Nat /\ k <= N
  BY <1>1, <1>5
<1>9. ASSUME t # <<>>
      PROVE  /\ Head(t) \in Members(t) /\ ~Passed(Head(t))
             /\ InOrder /\ "back" \notin reset => \A x \in Members(t) : condition[Head(t)] <= condition[x]
  <2>1. k < N /\ Head(t) = s[k + 1] /\ 1 \in DOMAIN t /\ t[1] = s[k + 1]
    BY <1>5, <1>8, <1>9
  <2>2. Head(t) \in Members(t) /\ ~Passed(Head(t))
    BY <2>1, <1>1 DEF Members
  <2>3. ASSUME InOrder, "back" \notin reset, NEW x \in Members(t) PROVE condition[Head(t)] <= condition[x]
    <3>1. PICK i \in 1 .. N - k : t[i] = x
      BY <1>5 DEF Members
    <3>2. CASE i = 1
      <4>1. Head(t) = x
        BY <2>1, <3>1, <3>2
      <4>2. x \in Objects
        BY <1>1, <1>5, <2>1, <4>1, ElementOfSeq DEF N
      <4>3. condition[x] \in Nat
        BY <4>2, TimerAssumption DEF TypeOK
      <4> QED BY <4>1, <4>3
    <3>3. CASE i # 1
      <4>1. k + 1 \in DOMAIN s /\ k + i \in DOMAIN s /\ k + 1 < k + i /\ s[k + i] = x
        BY <1>5, <1>8, <2>1, <3>1, <3>3
      <4>2. condition[s[k + 1]] <= condition[s[k + i]]
        BY <4>1, <2>3 DEF InOrder, s
      <4> QED BY <4>1, <4>2, <2>1
    <3> QED BY <3>2, <3>3
  <2> QED BY <2>2, <2>3
<1> QED BY <1>5, <1>6, <1>7, <1>9 DEF s, t

\* m_waitTimeout becomes the least condition at the head of a list, or for ever.
LEMMA NearestHeadIs ==
    ASSUME TypeOK, TimersFiled
    PROVE  /\ HeadConditions = {} => NearestHead = MaxInt64
           /\ HeadConditions # {} => /\ NearestHead \in HeadConditions
                                     /\ \A c \in HeadConditions : NearestHead <= c
           /\ HeadConditions \subseteq 0 .. MaxInt64 - 1
<1>1. ASSUME NEW n \in listed, Remaining(n) # <<>>
      PROVE  condition[Head(Remaining(n))] \in 0 .. MaxInt64 - 1
  <2>1. n \in Counts
    BY DEF TypeOK
  <2>2. Head(Remaining(n)) \in Objects
    BY <1>1, <2>1, RemainingIs
  <2> QED BY <2>2 DEF TypeOK
<1>2. HeadConditions \subseteq 0 .. MaxInt64 - 1
  BY <1>1 DEF HeadConditions
<1>3. HeadConditions \in SUBSET Nat
  BY <1>2, TimerAssumption
<1>4. HeadConditions # {} => \E c \in HeadConditions : \A d \in HeadConditions : c <= d
  BY <1>3, LeastNumber
<1> QED BY <1>2, <1>4 DEF NearestHead

LEMMA UpdateKeeps ==
    ASSUME TimerInv, Update
    PROVE  TimerInv'
<1>1. /\ TypeOK /\ TimersFiled /\ InOrder /\ NearestTimeout /\ NoOversleep
      /\ DueAfterSet /\ ClockOnward /\ NextDue /\ NoneBehind
  BY DEF TimerInv
<1>2. /\ UNCHANGED <<clock, listed, condition, order, left, latest, reset>>
      /\ waitTimeout' = NearestHead /\ due' \in ByIndex(DueObjects) /\ updated' = clock
      /\ lists' = [n \in Counts |-> IF n \in listed THEN Remaining(n) ELSE lists[n]]
      /\ inList' = [o \in Objects |-> IF o \in DueObjects THEN None ELSE inList[o]]
      /\ at' \in {"loop", "updating"}
  BY DEF Update
<1>3. /\ clock \in Nat /\ MaxInt64 \in Nat /\ MaxTime \in Nat /\ listed \subseteq Counts
      /\ lists \in [Counts -> Seq(Objects)] /\ inList \in [Objects -> Counts \cup {None}]
  BY <1>1, TimerAssumption DEF TypeOK
<1>4. Holding(lists, inList, listed)
  BY <1>1, FiledNow
<1>5. \A n \in Counts :
        /\ Remaining(n) \in Seq(Objects) /\ Thins(Remaining(n), lists[n])
        /\ \A x : x \in Members(Remaining(n)) <=> x \in Members(lists[n]) /\ x \notin DueIn(n)
        /\ DueIn(n) \subseteq Members(lists[n])
  BY <1>1, RemainingIs
<1>6. \A n \in Counts \ listed : lists[n] = <<>>
  BY <1>4 DEF Holding
<1>7. lists' \in [Counts -> Seq(Objects)] /\ \A n \in Counts : Thins(lists'[n], lists[n])
  <2>1. \A s : Thins(s, s)
    BY DEF Thins
  <2>2. \A n \in Counts : lists'[n] = IF n \in listed THEN Remaining(n) ELSE lists[n]
    BY <1>2
  <2>3. \A n \in Counts : Thins(lists'[n], lists[n])
    BY <1>5, <2>1, <2>2
  <2>4. \A n \in Counts : (IF n \in listed THEN Remaining(n) ELSE lists[n]) \in Seq(Objects)
    BY <1>3, <1>5
  <2> QED BY <2>3, <2>4, <1>2
<1>8. inList' \in [Objects -> Counts \cup {None}]
  BY <1>2, <1>3
<1>9. DueObjects \subseteq Objects
  <2>1. ASSUME NEW n \in listed, NEW x \in DueIn(n) PROVE x \in Objects
    BY <1>3, <1>4, <1>5 DEF Holding
  <2> QED BY <2>1 DEF DueObjects
<1>10. due' \in Seq(Objects)
  <2>1. Cardinality(DueObjects) \in Nat
    BY <1>9, TimerAssumption, FS_Subset, FS_CardinalityType
  <2>2. due' \in [1 .. Cardinality(DueObjects) -> DueObjects]
    BY <1>2 DEF ByIndex
  <2>3. due' \in [1 .. Cardinality(DueObjects) -> Objects]
    BY <1>9, <2>2
  <2> QED BY <2>1, <2>3, SeqDef
<1>11. waitTimeout' \in 0 .. MaxInt64
  BY <1>1, <1>2, <1>3, NearestHeadIs
<1>12. TypeOK'
  <2>1. updated' \in 0 .. MaxTime
    BY <1>1, <1>2 DEF TypeOK
  <2> QED BY <1>1, <1>2, <1>7, <1>8, <1>10, <1>11, <2>1 DEF TypeOK
<1>13. ASSUME NEW n \in Counts, NEW x
       PROVE  x \in Members(lists'[n]) <=> x \in Members(lists[n]) /\ x \notin DueObjects
  <2>1. CASE n \in listed
    <3>1. lists'[n] = Remaining(n)
      BY <1>2, <2>1
    <3>2. x \in DueIn(n) => x \in DueObjects
      BY <2>1 DEF DueObjects
    <3>3. ASSUME x \in Members(lists[n]), x \in DueObjects PROVE x \in DueIn(n)
      <4>1. PICK m \in listed : x \in DueIn(m)
        BY <3>3 DEF DueObjects
      <4>2. m \in Counts /\ x \in Members(lists[m])
        BY <4>1, <1>3, <1>5
      <4>3. m = n
        BY <4>2, <3>3, <1>4 DEF Holding
      <4> QED BY <4>1, <4>3
    <3> QED BY <3>1, <3>2, <3>3, <1>5
  <2>2. CASE n \notin listed
    <3>1. lists'[n] = <<>> /\ lists[n] = <<>>
      BY <1>2, <1>6, <2>2
    <3>2. Members(<<>>) = {}
      BY DEF Members
    <3> QED BY <3>1, <3>2
  <2> QED BY <2>1, <2>2
<1>14. TimersFiled'
  <2> SUFFICES ASSUME NEW n \in Counts
               PROVE  /\ Distinct(lists'[n])
                      /\ lists'[n] # <<>> => n \in listed'
                      /\ \A x : x \in Members(lists'[n]) <=> x \in Objects /\ inList'[x] = n
    BY <1>12, FiledNext DEF Holding
  <2>1. Distinct(lists'[n])
    BY <1>4, <1>7, ThinsKeeps DEF Holding
  <2>2. lists'[n] # <<>> => n \in listed'
    BY <1>2, <1>6
  <2>3. ASSUME NEW x PROVE x \in Members(lists'[n]) <=> x \in Objects /\ inList'[x] = n
    <3>1. x \in Members(lists[n]) <=> x \in Objects /\ inList[x] = n
      BY <1>4 DEF Holding
    <3>2. x \in Objects => inList'[x] = IF x \in DueObjects THEN None ELSE inList[x]
      BY <1>2
    <3>3. None # n
      BY TimerAssumption
    <3> QED BY <3>1, <3>2, <3>3, <1>13
  <2> QED BY <2>1, <2>2, <2>3
<1>15. InOrder'
  <2> SUFFICES ASSUME "back" \notin reset, NEW n \in Counts PROVE Sorted(lists'[n], condition)
    BY <1>2 DEF InOrder, Sorted
  <2>1. Sorted(lists[n], condition)
    BY <1>1 DEF InOrder, Sorted
  <2> QED BY <2>1, <1>7, ThinsKeeps
<1>16. ASSUME NEW o \in Active'
       PROVE  /\ o \in Active /\ inList'[o] = inList[o] /\ inList[o] \in listed
              /\ o \in Members(Remaining(inList[o])) /\ Remaining(inList[o]) # <<>>
  <2>1. o \in Objects /\ inList'[o] # None
    BY DEF Active
  <2>2. o \in Active /\ inList'[o] = inList[o] /\ o \notin DueObjects
    BY <2>1, <1>2 DEF Active
  <2>3. inList[o] \in Counts /\ o \in Members(lists[inList[o]])
    BY <2>2, <1>3, <1>4 DEF Active, Holding
  <2>4. Members(<<>>) = {}
    BY DEF Members
  <2>5. inList[o] \in listed
    BY <2>3, <2>4, <1>6
  <2>6. o \in Members(Remaining(inList[o]))
    BY <2>2, <2>3, <2>5, <1>5 DEF DueObjects
  <2> QED BY <2>2, <2>4, <2>5, <2>6
<1>17. ASSUME NEW n \in listed, Remaining(n) # <<>>
       PROVE  /\ condition[Head(Remaining(n))] \in HeadConditions
              /\ Head(Remaining(n)) \in Members(Remaining(n))
              /\ ~Passed(Head(Remaining(n)))
              /\ "back" \notin reset =>
                    \A x \in Members(Remaining(n)) : condition[Head(Remaining(n))] <= condition[x]
  <2>1. condition[Head(Remaining(n))] \in HeadConditions
    BY <1>17 DEF HeadConditions
  <2> QED BY <2>1, <1>1, <1>3, <1>17, RemainingIs
<1>18. NearestTimeout' /\ NoneBehind'
  <2> SUFFICES ASSUME "back" \notin reset, NEW o \in Active'
               PROVE  waitTimeout' <= condition[o] /\ condition[o] > clock
    BY <1>2 DEF NearestTimeout, NoneBehind
  <2> DEFINE h == Head(Remaining(inList[o]))
  <2>1. condition[h] \in HeadConditions /\ ~Passed(h) /\ condition[h] <= condition[o]
    BY <1>16, <1>17
  <2> HIDE DEF h
  <2>2. NearestHead <= condition[h] /\ NearestHead \in 0 .. MaxInt64 - 1
        /\ condition[h] \in 0 .. MaxInt64 - 1
    BY <2>1, <1>1, NearestHeadIs
  <2>3. condition[o] \in Nat
    BY <1>1, <1>16, ActiveTimes
  <2>4. condition[h] > clock
    BY <2>1, <2>2, <1>3 DEF Passed
  <2> QED BY <2>1, <2>2, <2>3, <2>4, <1>2, <1>3
<1>19. DueAfterSet'
  BY <1>1, <1>2, <1>16 DEF DueAfterSet
<1>20. ClockOnward'
  BY <1>1, <1>2, <1>3 DEF ClockOnward
<1>21. NextDue'
  <2> SUFFICES ASSUME Active' # {} PROVE \E n \in Counts : waitTimeout' <= latest + n
    BY <1>2 DEF NextDue
  <2>1. HeadConditions # {}
    BY <1>16, <1>17
  <2>2. PICK m \in listed : Remaining(m) # <<>> /\ NearestHead = condition[Head(Remaining(m))]
    BY <2>1, <1>1, NearestHeadIs DEF HeadConditions
  <2> DEFINE h == Head(Remaining(m))
  <2>3. m \in Counts /\ h \in Members(lists[m])
    BY <2>2, <1>3, <1>5, <1>17
  <2>4. h \in Active /\ inList[h] = m
    BY <2>3, <1>4, TimerAssumption DEF Holding, Active
  <2>5. condition[h] <= latest + m
    BY <2>4, <1>1 DEF DueAfterSet
  <2> QED BY <2>2, <2>3, <2>5, <1>2
<1>22. NoOversleep'
  BY <1>2 DEF NoOversleep
<1> QED BY <1>12, <1>14, <1>15, <1>18, <1>19, <1>20, <1>21, <1>22 DEF TimerInv

\* One callback less to make.
LEMMA TailType ==
    ASSUME due \in Seq(Objects), due # <<>>
    PROVE  Tail(due) \in Seq(Objects) /\ Head(due) \in Objects
  BY HeadTailProperties

LEMMA CallbackEndsKeeps ==
    ASSUME TimerInv, CallbackEnds
    PROVE  TimerInv'
<1>1. /\ TypeOK /\ TimersFiled /\ InOrder /\ NearestTimeout /\ NoOversleep
      /\ DueAfterSet /\ ClockOnward /\ NextDue /\ NoneBehind
  BY DEF TimerInv
<1>2. UNCHANGED <<lists, listed, inList, condition, order, waitTimeout, clock, left, at,
                  updated, latest, reset>>
      /\ due' = Tail(due) /\ due # <<>>
  BY DEF CallbackEnds, timers
<1>3. TypeOK'
  BY <1>1, <1>2, TailType DEF TypeOK
<1>4. Active' = Active
  BY <1>2 DEF Active
<1>5. TimersFiled' /\ InOrder' /\ NearestTimeout' /\ DueAfterSet'
  BY <1>1, <1>2, <1>4 DEF TimersFiled, InOrder, NearestTimeout, DueAfterSet
<1>6. ClockOnward' /\ NextDue' /\ NoOversleep' /\ NoneBehind'
  BY <1>1, <1>2, <1>4 DEF ClockOnward, NextDue, NoOversleep, NoneBehind
<1> QED BY <1>3, <1>5, <1>6 DEF TimerInv

LEMMA CallbackAgainKeeps ==
    ASSUME TimerInv, CallbackAgain
    PROVE  TimerInv'
<1>1. due \in Seq(Objects) /\ due # <<>> /\ due' = Tail(due)
  BY DEF TimerInv, TypeOK, CallbackAgain
<1>2. Head(due) \in Objects /\ Tail(due) \in Seq(Objects)
  BY <1>1, TailType
<1>3. Calm
  BY <1>1, <1>2 DEF Calm, CallbackAgain
<1>4. PICK n \in Returns : TimerAdd(Head(due), n)
  BY DEF CallbackAgain
<1>5. n \in Counts
  BY TimerAssumption
<1> QED BY <1>2, <1>3, <1>4, <1>5, TimerAddKeeps

LEMMA EndUpdateKeeps ==
    ASSUME TimerInv, EndUpdate
    PROVE  TimerInv'
<1>1. /\ TypeOK /\ TimersFiled /\ InOrder /\ NearestTimeout /\ NoOversleep
      /\ DueAfterSet /\ ClockOnward /\ NextDue /\ NoneBehind
  BY DEF TimerInv
<1>2. UNCHANGED <<lists, inList, condition, order, waitTimeout, clock, due, left,
                  updated, latest, reset>>
      /\ listed' = {n \in listed : lists[n] # <<>>} /\ at' = "loop"
  BY DEF EndUpdate
<1>3. TypeOK'
  BY <1>1, <1>2 DEF TypeOK
<1>4. Active' = Active
  BY <1>2 DEF Active
<1>5. TimersFiled'
  <2>1. \A n \in Counts : lists[n] # <<>> => n \in listed'
    BY <1>1, <1>2 DEF TimersFiled
  <2> QED BY <2>1, <1>1, <1>2, <1>4 DEF TimersFiled
<1>6. InOrder' /\ NearestTimeout' /\ DueAfterSet'
  BY <1>1, <1>2, <1>4 DEF InOrder, NearestTimeout, DueAfterSet
<1>7. ClockOnward' /\ NextDue' /\ NoOversleep' /\ NoneBehind'
  BY <1>1, <1>2, <1>4 DEF ClockOnward, NextDue, NoOversleep, NoneBehind
<1> QED BY <1>3, <1>5, <1>6, <1>7 DEF TimerInv

-----------------------------------------------------------------------------
(* The theorems                                                            *)

LEMMA InitTimerInv == Init => TimerInv
<1> SUFFICES ASSUME Init PROVE TimerInv
  OBVIOUS
<1>1. MaxTime \in Nat /\ MaxInt64 \in Nat /\ MaxTime < MaxInt64
  BY TimerAssumption
<1>2. /\ clock = 0 /\ updated = 0 /\ latest = 0 /\ reset = {} /\ waitTimeout = MaxInt64 /\ left = 0
      /\ lists = [n \in Counts |-> <<>>] /\ listed = {} /\ inList = [o \in Objects |-> None]
      /\ condition = [o \in Objects |-> 0] /\ order = <<>> /\ due = <<>> /\ at = "loop"
  BY DEF Init
<1>3. Active = {}
  BY <1>2 DEF Active
<1>4. \A n \in Counts : lists[n] = <<>>
  BY <1>2
<1>5. TimersFiled /\ InOrder
  BY <1>3, <1>4 DEF TimersFiled, InOrder
<1>6. NearestTimeout /\ NoOversleep /\ DueAfterSet /\ NextDue /\ NoneBehind /\ ClockOnward
  BY <1>2, <1>3 DEF NearestTimeout, NoOversleep, DueAfterSet, NextDue, NoneBehind, ClockOnward
<1>7. TypeOK
  <2>1. 0 \in 0 .. MaxTime /\ 0 \in 0 .. MaxInt64 /\ MaxInt64 \in 0 .. MaxInt64
    BY <1>1
  <2>2. condition \in [Objects -> 0 .. MaxInt64 - 1]
    <3>1. 0 \in 0 .. MaxInt64 - 1
      BY <1>1
    <3> QED BY <1>2, <3>1
  <2>3. lists \in [Counts -> Seq(Objects)] /\ inList \in [Objects -> Counts \cup {None}]
    BY <1>2
  <2> QED BY <1>2, <2>1, <2>2, <2>3 DEF TypeOK
<1> QED BY <1>5, <1>6, <1>7 DEF TimerInv

LEMMA StepTimerInv == TimerInv /\ [Next]_vars => TimerInv'
<1> SUFFICES ASSUME TimerInv, [Next]_vars PROVE TimerInv'
  OBVIOUS
<1>1. CASE Tick
  BY <1>1, TickKeeps
<1>2. CASE SetClock
  BY <1>2, SetClockKeeps
<1>3. CASE Sleep
  BY <1>3, SleepKeeps
<1>4. CASE Wake
  BY <1>4, WakeKeeps
<1>5. ASSUME NEW o \in Objects, ClearTimer(o) PROVE TimerInv'
  <2>1. Stops(o)
    BY <1>5 DEF ClearTimer, Stops
  <2>2. at' \in {"loop", "handlers", "updating"} /\ due' \in Seq(Objects)
    BY <1>5 DEF ClearTimer, Running, TimerInv, TypeOK
  <2>3. Calm
    BY <1>5, <2>2 DEF ClearTimer, Calm
  <2> QED BY <2>1, <2>3, StopsKeeps
<1>6. ASSUME NEW o \in Objects, NEW n \in Counts, SetTimer(o, n) PROVE TimerInv'
  <2>1. TimerAdd(o, n)
    BY <1>6 DEF SetTimer
  <2>2. at' \in {"loop", "handlers", "updating"} /\ due' \in Seq(Objects)
    BY <1>6 DEF SetTimer, Running, TimerInv, TypeOK
  <2>3. Calm
    BY <1>6, <2>2 DEF SetTimer, Calm
  <2> QED BY <2>1, <2>3, TimerAddKeeps
<1>7. CASE UpdateEarly
  BY <1>7, UpdateEarlyKeeps
<1>8. CASE Update
  BY <1>8, UpdateKeeps
<1>9. CASE CallbackEnds
  BY <1>9, CallbackEndsKeeps
<1>10. CASE CallbackAgain
  BY <1>10, CallbackAgainKeeps
<1>11. CASE EndUpdate
  BY <1>11, EndUpdateKeeps
<1>12. CASE UNCHANGED vars
  <2>1. /\ TypeOK /\ TimersFiled /\ InOrder /\ NearestTimeout /\ NoOversleep
        /\ DueAfterSet /\ ClockOnward /\ NextDue /\ NoneBehind
    BY DEF TimerInv
  <2>2. UNCHANGED <<clock, lists, listed, inList, condition, order, waitTimeout,
                    due, left, at, updated, latest, reset>>
    BY <1>12 DEF vars
  <2>3. Active' = Active
    BY <2>2 DEF Active
  <2>4. TypeOK'
    BY <2>1, <2>2 DEF TypeOK
  <2>5. TimersFiled' /\ InOrder' /\ NearestTimeout' /\ NoOversleep'
    BY <2>1, <2>2, <2>3 DEF TimersFiled, InOrder, NearestTimeout, NoOversleep
  <2>6. DueAfterSet' /\ ClockOnward' /\ NextDue' /\ NoneBehind'
    BY <2>1, <2>2, <2>3 DEF DueAfterSet, ClockOnward, NextDue, NoneBehind
  <2> QED BY <2>4, <2>5, <2>6 DEF TimerInv
<1> QED
  BY <1>1, <1>2, <1>3, <1>4, <1>5, <1>6, <1>7, <1>8, <1>9, <1>10, <1>11, <1>12 DEF Next

LEMMA TimerInvariance == Spec => []TimerInv
<1> QED BY InitTimerInv, StepTimerInv, PTL DEF Spec

\* Every variable stays of its type, m_waitTimeout and the conditions below INT64_MAX
\* among them.
THEOREM TimerTypeCorrect == Spec => []TypeOK
<1>1. TimerInv => TypeOK
  BY DEF TimerInv
<1> QED BY <1>1, TimerInvariance, PTL

\* timerAdd, clearTimer and Timer::update keep every active object in the one list its
\* m_pTimerList says, once, and that list in m_timerListMap.
THEOREM TimersAreFiled == Spec => []TimersFiled
<1>1. TimerInv => TimersFiled
  BY DEF TimerInv
<1> QED BY <1>1, TimerInvariance, PTL

\* Whatever is set, cleared and called, each TimerList stays in the order its objects
\* are due, unless the clock is set back.
THEOREM ListsInOrder == Spec => []InOrder
<1>1. TimerInv => InOrder
  BY DEF TimerInv
<1> QED BY <1>1, TimerInvariance, PTL

\* No active timer is due before m_waitTimeout, unless the clock was set back.
THEOREM NearestTimeoutIsNearest == Spec => []NearestTimeout
<1>1. TimerInv => NearestTimeout
  BY DEF TimerInv
<1> QED BY <1>1, TimerInvariance, PTL

\* epoll_wait never sleeps past a timer while nobody sets the clock, for any INT_MAX the
\* time counts fit in.
THEOREM TheLoopNeverOversleeps == Spec => []NoOversleep
<1>1. TimerInv => NoOversleep
  BY DEF TimerInv
<1> QED BY <1>1, TimerInvariance, PTL

\* Timer::update leaves no timer behind that was due when it looked.
THEOREM NoTimerLeftOverdue == Spec => []NoneOverdue
<1>1. TimerInv => NoneOverdue
  BY DEF TimerInv, NoneBehind, NoneOverdue
<1> QED BY <1>1, TimerInvariance, PTL

LEMMA SleepIsBounded ==
    ASSUME TimerInv, Sleep, Active # {}
    PROVE  \/ \E n \in Counts : left' <= n + (latest - clock)
           \/ waitTimeout > clock + MaxInt
<1>1. TypeOK /\ NextDue
  BY DEF TimerInv
<1>2. PICK n \in Counts : waitTimeout <= latest + n
  BY <1>1 DEF NextDue
<1>3. /\ n \in Nat /\ MaxInt \in Nat /\ clock \in Nat /\ latest \in Nat /\ clock <= latest
      /\ waitTimeout \in Nat
  BY <1>1, TimerAssumption DEF TypeOK
<1>4. waitTimeout # MaxInt64
  BY <1>1, WaitSet
<1>5. /\ WaitTime \in Nat /\ WaitTime = (IF waitTimeout > clock THEN waitTimeout - clock ELSE 0)
      /\ WaitTime <= MaxInt => Timeout = WaitTime
  BY <1>1, <1>4, TimeoutKept
<1>6. WaitTime <= n + (latest - clock)
  BY <1>2, <1>3, <1>5
<1>7. left' = WaitTime \/ waitTimeout > clock + MaxInt
  <2>1. waitTimeout <= clock + MaxInt => WaitTime <= MaxInt
    BY <1>3, <1>5
  <2>2. left' = Timeout
    BY DEF Sleep
  <2> QED BY <2>1, <2>2, <1>3, <1>5
<1> QED BY <1>6, <1>7

\* However the clock is set, the loop goes to sleep, while a timer runs, for no longer
\* than some time count and as long as the clock is behind, unless m_waitTimeout is
\* further off than an int can say.
THEOREM SleepIsAlwaysBounded == Spec => SleepBounded
<1>1. TimerInv /\ [Next]_vars =>
        [at = "loop" /\ at' = "asleep" /\ Active # {} =>
            \/ \E n \in Counts : left' <= n + (latest - clock)
            \/ waitTimeout > clock + MaxInt]_vars
  <2> SUFFICES ASSUME TimerInv, Next, at = "loop", at' = "asleep", Active # {}
               PROVE  \/ \E n \in Counts : left' <= n + (latest - clock)
                      \/ waitTimeout > clock + MaxInt
    OBVIOUS
  <2>1. Sleep
    BY DEF Next, Tick, SetClock, Wake, ClearTimer, SetTimer, UpdateEarly, Update,
           CallbackEnds, CallbackAgain, EndUpdate
  <2> QED BY <2>1, SleepIsBounded
<1> QED BY <1>1, TimerInvariance, PTL DEF Spec, SleepBounded

=============================================================================
