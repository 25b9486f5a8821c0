---------------------------- MODULE StartupProofs ----------------------------
(***************************************************************************)
(* Proofs about Startup, for any file, any keys and addresses: what the    *)
(* proxy has for destinations is what config.ini says, they take turns,    *)
(* and the Listener is whole.                                              *)
(***************************************************************************)
EXTENDS Startup, FiniteSetTheorems, SequenceTheorems, TLAPS

-----------------------------------------------------------------------------
(* Sets of numbers in order                                                *)

Increasing(s) == \A i, j \in DOMAIN s : i < j => s[i] < s[j]

UpTo(S, k) == {j \in S : j <= k}

\* A number's place in a set grows with the number.
LEMMA PlacesGrow ==
    ASSUME NEW S \in SUBSET Nat, IsFiniteSet(S)
    PROVE  /\ \A k \in S : Cardinality(UpTo(S, k)) \in 1 .. Cardinality(S)
           /\ \A j, k \in S : j < k => Cardinality(UpTo(S, j)) < Cardinality(UpTo(S, k))
<1>1. \A k \in S : /\ IsFiniteSet(UpTo(S, k)) /\ Cardinality(UpTo(S, k)) \in Nat
                   /\ Cardinality(UpTo(S, k)) <= Cardinality(S)
  <2> TAKE k \in S
  <2>1. UpTo(S, k) \in SUBSET S
    BY DEF UpTo
  <2> QED BY <2>1, FS_Subset, FS_CardinalityType
<1>2. Cardinality(S) \in Nat
  BY FS_CardinalityType
<1>3. ASSUME NEW k \in S PROVE Cardinality(UpTo(S, k)) \in 1 .. Cardinality(S)
  <2>1. k \in UpTo(S, k)
    BY DEF UpTo
  <2>2. Cardinality(UpTo(S, k)) # 0
    BY <1>1, <2>1, FS_EmptySet
  <2> QED BY <1>1, <1>2, <2>2
<1>4. ASSUME NEW j \in S, NEW k \in S, j < k
      PROVE  Cardinality(UpTo(S, j)) < Cardinality(UpTo(S, k))
  <2>1. UpTo(S, j) \in SUBSET UpTo(S, k)
    <3>1. \A x \in S : x <= j => x <= k
      <4>1. j \in Nat /\ k \in Nat /\ \A x \in S : x \in Nat
        OBVIOUS
      <4> QED BY <4>1, <1>4
    <3> QED BY <3>1 DEF UpTo
  <2>2. k \in UpTo(S, k) /\ k \notin UpTo(S, j)
    BY <1>4 DEF UpTo
  <2>3. /\ Cardinality(UpTo(S, j)) <= Cardinality(UpTo(S, k))
        /\ Cardinality(UpTo(S, j)) # Cardinality(UpTo(S, k))
    BY <1>1, <2>1, <2>2, FS_Subset
  <2> QED BY <1>1, <2>3
<1> QED BY <1>3, <1>4

\* A finite set of numbers can be put in order.
LEMMA InOrderExists ==
    ASSUME NEW S \in SUBSET Nat, IsFiniteSet(S)
    PROVE  \E s \in [1 .. Cardinality(S) -> S] : Increasing(s)
<1> DEFINE n == Cardinality(S)
           place == [k \in S |-> Cardinality(UpTo(S, k))]
           s == [i \in 1 .. n |-> CHOOSE k \in S : place[k] = i]
<1>1. n \in Nat
  BY FS_CardinalityType
<1>2. place \in [S -> 1 .. n] /\ \A j, k \in S : j < k => place[j] < place[k]
  BY PlacesGrow
<1> HIDE DEF place
<1>3. ASSUME NEW j \in S, NEW k \in S, place[j] = place[k] PROVE j = k
  <2>1. place[j] \in Int
    BY <1>2
  <2>2. ~(j < k) /\ ~(k < j)
    BY <1>2, <1>3, <2>1
  <2> QED BY <2>2
<1>4. place \in Injection(S, 1 .. n)
  BY <1>2, <1>3 DEF Injection, IsInjective
<1>5. IsFiniteSet(1 .. n) /\ Cardinality(1 .. n) = n
  <2>1. 1 \in Int /\ n \in Int
    BY <1>1
  <2> HIDE DEF n
  <2>2. IsFiniteSet(1 .. n) /\ Cardinality(1 .. n) = IF 1 > n THEN 0 ELSE n - 1 + 1
    BY <2>1, FS_Interval
  <2> QED BY <1>1, <2>2
<1>6. place \in Surjection(S, 1 .. n)
  BY <1>4, <1>5, FS_Injection
<1>7. \A i \in 1 .. n : s[i] \in S /\ place[s[i]] = i
  BY <1>6 DEF Surjection
<1> HIDE DEF s
<1>8. s \in [1 .. n -> S]
  BY <1>7 DEF s
<1> HIDE DEF n
<1>9. ASSUME NEW i \in 1 .. n, NEW j \in 1 .. n, i < j PROVE s[i] < s[j]
  <2>1. s[i] \in Nat /\ s[j] \in Nat /\ place[s[i]] = i /\ place[s[j]] = j
    BY <1>7
  <2>2. s[i] # s[j]
    BY <2>1, <1>9
  <2>3. ~(s[j] < s[i])
    <3>1. s[j] < s[i] => place[s[j]] < place[s[i]]
      BY <1>2, <1>7
    <3> QED BY <3>1, <2>1, <1>9
  <2> QED BY <2>1, <2>2, <2>3
<1>10. DOMAIN s = 1 .. n
  BY <1>8
<1> QED BY <1>8, <1>9, <1>10 DEF Increasing, n

\* In order, a number stands in its place.
LEMMA InItsPlace ==
    ASSUME NEW S \in SUBSET Nat, IsFiniteSet(S),
           NEW s \in [1 .. Cardinality(S) -> S], Increasing(s), NEW k \in S
    PROVE  Cardinality(UpTo(S, k)) \in 1 .. Cardinality(S) /\ s[Cardinality(UpTo(S, k))] = k
<1> DEFINE n == Cardinality(S)
<1>1. n \in Nat /\ DOMAIN s = 1 .. n
  BY FS_CardinalityType
<1>2. ASSUME NEW i \in 1 .. n, NEW j \in 1 .. n, s[i] = s[j] PROVE i = j
  <2>1. s[i] \in Nat
    OBVIOUS
  <2> HIDE DEF n
  <2>2. ~(i < j) /\ ~(j < i)
    BY <1>1, <1>2, <2>1 DEF Increasing
  <2> QED BY <2>2
<1>3. s \in Injection(1 .. n, S)
  BY <1>1, <1>2 DEF Injection, IsInjective
<1>4. IsFiniteSet(1 .. n) /\ Cardinality(1 .. n) = n
  <2>1. 1 \in Int /\ n \in Int
    BY <1>1
  <2> HIDE DEF n
  <2>2. IsFiniteSet(1 .. n) /\ Cardinality(1 .. n) = IF 1 > n THEN 0 ELSE n - 1 + 1
    BY <2>1, FS_Interval
  <2> QED BY <1>1, <2>2
<1>5. s \in Surjection(1 .. n, S)
  BY <1>3, <1>4, FS_Injection
<1>6. PICK i \in 1 .. n : s[i] = k
  BY <1>5 DEF Surjection
<1> DEFINE U == UpTo(S, k)   r == [a \in 1 .. i |-> s[a]]
<1>7. \A a \in 1 .. i : a \in 1 .. n
  <2> HIDE DEF n
  <2> QED BY <1>1
<1>8. \A a \in 1 .. n : s[a] \in S /\ s[a] \in Nat
  OBVIOUS
<1> HIDE DEF n
<1>9. ASSUME NEW a \in 1 .. i PROVE s[a] \in U
  <2>1. a = i \/ a < i
    BY <1>1
  <2>2. s[a] = k \/ s[a] < k
    BY <1>1, <1>6, <1>7, <2>1 DEF Increasing
  <2> QED BY <1>7, <1>8, <2>2 DEF UpTo
<1>10. ASSUME NEW x \in U PROVE \E a \in 1 .. i : s[a] = x
  <2>1. x \in S /\ x <= k
    BY DEF UpTo
  <2>2. PICK a \in 1 .. n : s[a] = x
    BY <1>5, <2>1 DEF Surjection
  <2>3. ~(i < a)
    <3>1. i < a => k < x
      BY <1>1, <1>6, <2>2 DEF Increasing
    <3> QED BY <2>1, <3>1
  <2>4. a \in 1 .. i
    BY <1>1, <2>3
  <2> QED BY <2>2, <2>4
<1> HIDE DEF U
<1>11. r \in Bijection(1 .. i, U)
  <2>1. r \in [1 .. i -> U]
    BY <1>9
  <2>2. r \in Injection(1 .. i, U)
    BY <2>1, <1>2, <1>7 DEF Injection, IsInjective
  <2>3. r \in Surjection(1 .. i, U)
    BY <2>1, <1>10 DEF Surjection
  <2> QED BY <2>2, <2>3 DEF Bijection
<1>12. Cardinality(U) = i
  <2>1. ExistsBijection(1 .. i, U)
    BY <1>11 DEF ExistsBijection
  <2>2. i \in Nat
    BY <1>1
  <2> QED BY <2>1, <2>2, FS_CountingElements
<1> QED BY <1>6, <1>12 DEF U, n

-----------------------------------------------------------------------------
(* The inductive invariant                                                 *)

\* The map has what the lines read so far assign, the last of them to a key.
LinesRead ==
    /\ found \/ line = 0
    /\ IsFiniteSet(DOMAIN configMap)
    /\ \A k \in Keys : k \in DOMAIN configMap <=> \E i \in 1 .. line : file[i].key = k
    /\ \A k \in DOMAIN configMap :
        \E i \in 1 .. line :
            /\ file[i].key = k /\ configMap[k] = file[i].value
            /\ \A j \in 1 .. line : file[j].key = k => j <= i

\* initialize goes on only at the end of the file, if there is one.
AllRead == at # "reading" /\ found => line = Len(file)

\* What initConfig has made of the map.
DestinationsMade ==
    IF at \in {"opening", "running"} /\ Listen \in DOMAIN configMap
    THEN /\ DOMAIN destinations = DOMAIN Marked
         /\ \A i \in DOMAIN destinations : destinations[i] \in Parsed(configMap[Marked[i]])
    ELSE destinations = <<>>

\* The destinations up to m_desIndex have been given out once more than the others,
\* unless all have.
TakingTurns ==
    /\ at # "running" => desIndex = 0
    /\ \A i \in DOMAIN lead : lead[i] = IF i <= desIndex /\ desIndex < Len(lead) THEN 1 ELSE 0

NotOpenedYet == at # "running" => listener = Unopened

StartupInv ==
    /\ TypeOK
    /\ LinesRead
    /\ AllRead
    /\ DestinationsMade
    /\ TakingTurns
    /\ NotOpenedYet
    /\ ListenerWhole

-----------------------------------------------------------------------------
(* Reading the file                                                        *)

LEMMA KeysApart == DesKeys \subseteq Keys /\ Listen \in Keys /\ Other \notin Keys
  BY StartupAssumption DEF Keys

LEMMA LineTypes ==
    ASSUME TypeOK, NEW i \in 1 .. Len(file)
    PROVE  /\ file[i] \in Lines
           /\ file[i].key \in Keys \cup {Other}
           /\ file[i].value \in Values /\ file[i].fits \in BOOLEAN
<1>1. file[i] \in Lines
  BY DEF TypeOK
<1> QED BY <1>1 DEF Lines, Values

LEMMA ReadLineKeeps ==
    ASSUME StartupInv, ReadLine
    PROVE  StartupInv'
<1> DEFINE l == file[line']
<1>1. /\ TypeOK /\ LinesRead /\ AllRead /\ DestinationsMade /\ TakingTurns /\ NotOpenedYet
      /\ ListenerWhole
  BY DEF StartupInv
<1>2. /\ UNCHANGED <<file, found, listenInfo, destinations, desIndex, lead, listener, at>>
      /\ at = "reading" /\ found /\ line < Len(file) /\ line' = line + 1
      /\ IF l.key = Other THEN UNCHANGED configMap ELSE Put(l.key, l.value)
      /\ failed' = ~l.fits
  BY DEF ReadLine
<1>3. /\ line \in Nat /\ line' \in Nat /\ line' \in 1 .. Len(file) /\ Len(file) \in Nat
      /\ 1 .. line' = (1 .. line) \cup {line'} /\ line' \notin 1 .. line
      /\ \A j \in 1 .. line : j <= line'
  BY <1>1, <1>2 DEF TypeOK
<1>4. l.key \in Keys \cup {Other} /\ l.value \in Values /\ l.fits \in BOOLEAN
  BY <1>1, <1>3, LineTypes
<1> HIDE DEF l
<1>5. CASE l.key = Other
  <2>1. UNCHANGED configMap
    BY <1>2, <1>5
  <2>2. TypeOK'
    BY <1>1, <1>2, <1>3, <1>4, <2>1 DEF TypeOK
  <2>3. \A k \in Keys : file[line'].key # k
    BY <1>5, KeysApart DEF l
  <2>4. LinesRead'
    <3>1. ASSUME NEW k \in Keys
          PROVE  k \in DOMAIN configMap <=> \E i \in 1 .. line' : file[i].key = k
      BY <1>1, <1>3, <2>3 DEF LinesRead
    <3>2. ASSUME NEW k \in DOMAIN configMap
          PROVE  \E i \in 1 .. line' :
                    /\ file[i].key = k /\ configMap[k] = file[i].value
                    /\ \A j \in 1 .. line' : file[j].key = k => j <= i
      <4>1. PICK i \in 1 .. line :
                /\ file[i].key = k /\ configMap[k] = file[i].value
                /\ \A j \in 1 .. line : file[j].key = k => j <= i
        BY <1>1 DEF LinesRead
      <4>2. k \in Keys
        BY <1>1 DEF TypeOK
      <4> QED BY <4>1, <4>2, <1>3, <2>3
    <3> QED BY <3>1, <3>2, <1>1, <1>2, <2>1 DEF LinesRead
  <2>5. AllRead' /\ DestinationsMade' /\ TakingTurns' /\ NotOpenedYet' /\ ListenerWhole'
    BY <1>1, <1>2, <2>1
       DEF AllRead, DestinationsMade, TakingTurns, NotOpenedYet, ListenerWhole
  <2> QED BY <2>2, <2>4, <2>5 DEF StartupInv
<1>6. CASE l.key # Other
  <2> DEFINE q == l.key
  <2>1. q \in Keys /\ file[line'].key = q /\ file[line'].value = l.value
    BY <1>4, <1>6 DEF l
  <2>2. configMap' = [j \in DOMAIN configMap \cup {q} |->
                         IF j = q THEN l.value ELSE configMap[j]]
    BY <1>2, <1>6 DEF Put
  <2> HIDE DEF q
  <2>3. /\ DOMAIN configMap' = DOMAIN configMap \cup {q}
        /\ configMap'[q] = l.value
        /\ \A k \in DOMAIN configMap : k # q => configMap'[k] = configMap[k]
    BY <2>2
  <2>4. TypeOK'
    <3>1. DOMAIN configMap' \subseteq Keys
      BY <1>1, <2>1, <2>3 DEF TypeOK
    <3>2. ASSUME NEW k \in DOMAIN configMap' PROVE configMap'[k] \in Values
      BY <1>1, <1>4, <2>3 DEF TypeOK
    <3> QED BY <1>1, <1>2, <1>3, <1>4, <3>1, <3>2 DEF TypeOK
  <2>5. IsFiniteSet(DOMAIN configMap')
    BY <1>1, <2>3, FS_AddElement DEF LinesRead
  <2>6. ASSUME NEW k \in Keys
        PROVE  k \in DOMAIN configMap' <=> \E i \in 1 .. line' : file[i].key = k
    BY <1>1, <1>3, <2>1, <2>3 DEF LinesRead
  <2>7. ASSUME NEW k \in DOMAIN configMap'
        PROVE  \E i \in 1 .. line' :
                  /\ file[i].key = k /\ configMap'[k] = file[i].value
                  /\ \A j \in 1 .. line' : file[j].key = k => j <= i
    <3>1. CASE k = q
      BY <3>1, <1>3, <2>1, <2>3
    <3>2. CASE k # q
      <4>1. k \in DOMAIN configMap /\ configMap'[k] = configMap[k]
        BY <3>2, <2>3
      <4>2. PICK i \in 1 .. line :
                /\ file[i].key = k /\ configMap[k] = file[i].value
                /\ \A j \in 1 .. line : file[j].key = k => j <= i
        BY <1>1, <4>1 DEF LinesRead
      <4> QED BY <4>1, <4>2, <3>2, <1>3, <2>1
    <3> QED BY <3>1, <3>2
  <2>8. LinesRead'
    BY <1>2, <2>5, <2>6, <2>7 DEF LinesRead
  <2>9. AllRead' /\ DestinationsMade' /\ TakingTurns' /\ NotOpenedYet' /\ ListenerWhole'
    BY <1>1, <1>2
       DEF AllRead, DestinationsMade, TakingTurns, NotOpenedYet, ListenerWhole
  <2> QED BY <2>4, <2>8, <2>9 DEF StartupInv
<1> QED BY <1>5, <1>6

\* The steps that only go on to the next function.
LEMMA GoingOnKeeps ==
    ASSUME StartupInv,
           NoFile \/ EndOfFile \/ ConfigFails
    PROVE  StartupInv'
<1>1. /\ TypeOK /\ LinesRead /\ AllRead /\ DestinationsMade /\ TakingTurns /\ NotOpenedYet
      /\ ListenerWhole
  BY DEF StartupInv
<1>2. UNCHANGED <<file, found, line, failed, configMap, listenInfo, destinations, desIndex, lead,
                  listener>>
  BY DEF NoFile, EndOfFile, ConfigFails, config
<1>3. /\ at \in {"reading", "parsing"} /\ at' \in {"parsing", "opening"}
      /\ at = "reading" => (found => line = Len(file))
      /\ at' = "opening" => Listen \notin DOMAIN configMap
  BY DEF NoFile, EndOfFile, ConfigFails
<1>4. TypeOK'
  BY <1>1, <1>2, <1>3 DEF TypeOK
<1>5. LinesRead' /\ AllRead'
  BY <1>1, <1>2, <1>3 DEF LinesRead, AllRead
<1>6. DestinationsMade'
  <2>1. destinations = <<>>
    BY <1>1, <1>3 DEF DestinationsMade
  <2> QED BY <2>1, <1>2, <1>3 DEF DestinationsMade
<1>7. TakingTurns' /\ NotOpenedYet' /\ ListenerWhole'
  BY <1>1, <1>2, <1>3 DEF TakingTurns, NotOpenedYet, ListenerWhole
<1> QED BY <1>4, <1>5, <1>6, <1>7 DEF StartupInv

-----------------------------------------------------------------------------
(* Making the destinations                                                 *)

LEMMA MarkedInOrder ==
    ASSUME LinesRead
    PROVE  /\ Given \in SUBSET Nat /\ IsFiniteSet(Given) /\ Cardinality(Given) \in Nat
           /\ Marked \in [1 .. Cardinality(Given) -> Given] /\ Increasing(Marked)
<1>1. Given \in SUBSET Nat /\ Given \in SUBSET DOMAIN configMap
  BY StartupAssumption DEF Given
<1>2. IsFiniteSet(Given) /\ Cardinality(Given) \in Nat
  BY <1>1, FS_Subset, FS_CardinalityType DEF LinesRead
<1>3. \E s \in [1 .. Cardinality(Given) -> Given] : Increasing(s)
  BY <1>1, <1>2, InOrderExists
<1> QED BY <1>1, <1>2, <1>3 DEF Marked, Increasing

LEMMA InitConfigKeeps ==
    ASSUME StartupInv, InitConfig
    PROVE  StartupInv'
<1> DEFINE n == Cardinality(Given)
<1>1. /\ TypeOK /\ LinesRead /\ AllRead /\ DestinationsMade /\ TakingTurns /\ NotOpenedYet
      /\ ListenerWhole
  BY DEF StartupInv
<1>2. /\ UNCHANGED <<file, found, line, failed, configMap, desIndex, listener>>
      /\ at = "parsing" /\ at' = "opening" /\ Listen \in DOMAIN configMap
      /\ listenInfo' = configMap[Listen]
      /\ destinations' \in [DOMAIN Marked -> Values]
      /\ \A i \in DOMAIN Marked : destinations'[i] \in Parsed(configMap[Marked[i]])
      /\ lead' = [i \in DOMAIN Marked |-> 0]
  BY DEF InitConfig, config
<1>3. DOMAIN Marked = 1 .. n /\ n \in Nat
  BY <1>1, MarkedInOrder
<1> HIDE DEF n
<1>4. desIndex = 0
  BY <1>1, <1>2 DEF TakingTurns
<1>5. destinations' \in Seq(Values) /\ lead' \in Seq(Nat) /\ Len(destinations') = n
      /\ Len(lead') = n
  BY <1>2, <1>3
<1>6. TypeOK'
  <2>1. desIndex' \in 0 .. Len(destinations')
    BY <1>2, <1>3, <1>4, <1>5
  <2> QED BY <2>1, <1>1, <1>2, <1>5 DEF TypeOK
<1>7. LinesRead' /\ AllRead'
  BY <1>1, <1>2 DEF LinesRead, AllRead
<1>8. DestinationsMade'
  <2>1. Marked' = Marked /\ DOMAIN destinations' = DOMAIN Marked
    BY <1>2 DEF Marked, Given
  <2>2. \A i \in DOMAIN destinations' : destinations'[i] \in Parsed(configMap'[Marked'[i]])
    BY <2>1, <1>2
  <2> QED BY <2>1, <2>2, <1>2 DEF DestinationsMade
<1>9. TakingTurns'
  <2>1. DOMAIN lead' = 1 .. n /\ \A i \in 1 .. n : lead'[i] = 0 /\ ~(i <= desIndex)
    BY <1>2, <1>3, <1>4
  <2> QED BY <2>1, <1>2, <1>4 DEF TakingTurns
<1>10. NotOpenedYet' /\ ListenerWhole'
  BY <1>1, <1>2 DEF NotOpenedYet, ListenerWhole
<1> QED BY <1>6, <1>7, <1>8, <1>9, <1>10 DEF StartupInv

-----------------------------------------------------------------------------
(* The Listener                                                            *)

LEMMA Runs ==
    ASSUME StartupInv,
           UNCHANGED <<file, found, line, failed, configMap, listenInfo, destinations>>,
           at \in {"opening", "running"}, at' = "running",
           lead' \in Seq(Nat), Len(lead') = Len(destinations),
           desIndex' \in 0 .. Len(destinations), TakingTurns',
           listener' \in Listeners, ListenerWhole'
    PROVE  StartupInv'
<1>1. /\ TypeOK /\ LinesRead /\ AllRead /\ DestinationsMade /\ TakingTurns /\ NotOpenedYet
  BY DEF StartupInv
<1>2. TypeOK'
  BY <1>1 DEF TypeOK
<1>3. LinesRead' /\ AllRead'
  BY <1>1 DEF LinesRead, AllRead
<1>4. Marked' = Marked
  BY DEF Marked, Given
<1>5. DestinationsMade'
  BY <1>1, <1>4 DEF DestinationsMade
<1>6. NotOpenedYet'
  BY DEF NotOpenedYet
<1> QED BY <1>2, <1>3, <1>5, <1>6 DEF StartupInv

\* A Listener that is closed holds nothing, if it held what it had opened.
LEMMA Closing ==
    ASSUME NEW l \in Listeners, l.held \/ (~l.open /\ ~l.watched)
    PROVE  /\ CloseListener(l) \in Listeners
           /\ ~CloseListener(l).held /\ ~CloseListener(l).open /\ ~CloseListener(l).watched
           /\ CloseListener(l).idle = l.idle + 1
<1> DEFINE c == CloseSocket(l)
<1>1. /\ l = [held |-> l.held, open |-> l.open, watched |-> l.watched, idle |-> l.idle]
      /\ l.held \in BOOLEAN /\ l.open \in BOOLEAN /\ l.watched \in BOOLEAN /\ l.idle \in Nat
  BY DEF Listeners
<1>2. c \in Listeners /\ ~c.held /\ ~c.open /\ ~c.watched /\ c.idle = l.idle
  <2>1. CASE l.held
    <3>1. c = [l EXCEPT !.held = FALSE, !.open = FALSE, !.watched = FALSE]
      BY <2>1 DEF CloseSocket
    <3> QED BY <3>1, <1>1 DEF Listeners
  <2>2. CASE ~l.held
    <3>1. c = l
      BY <2>2 DEF CloseSocket
    <3> QED BY <3>1, <2>2
  <2> QED BY <1>1, <2>1, <2>2
<1>3. CloseListener(l) = [c EXCEPT !.idle = @ + 1]
  BY DEF CloseListener
<1> HIDE DEF c
<1> QED BY <1>1, <1>2, <1>3 DEF Listeners

LEMMA OpenListenerKeeps ==
    ASSUME StartupInv, OpenListener
    PROVE  StartupInv'
<1>1. TypeOK /\ TakingTurns /\ listener = Unopened
  BY DEF StartupInv, NotOpenedYet, OpenListener
<1>2. /\ UNCHANGED <<file, found, line, failed, configMap, listenInfo, destinations, desIndex, lead>>
      /\ at = "opening" /\ at' = "running"
  BY DEF OpenListener, config
<1> DEFINE o == SocketOpened(listener)   w == [o EXCEPT !.watched = TRUE]
<1>3. /\ listener \in Listeners /\ ~listener.held /\ ~listener.open /\ ~listener.watched
      /\ listener.idle = 0
  BY <1>1 DEF Unopened, Listeners
<1>4. o \in Listeners /\ o.held /\ o.open /\ o.idle = 0
  BY <1>3 DEF SocketOpened, Listeners
<1>5. \/ listener' = CloseListener(listener)
      \/ listener' = CloseListener(CloseSocket(o))
      \/ listener' = w
  BY DEF OpenListener, SocketFailed
<1> HIDE DEF o
<1>6. listener' \in Listeners /\ ListenerWhole'
  <2>1. CASE listener' = CloseListener(listener)
    <3>1. /\ listener' \in Listeners /\ ~listener'.held /\ ~listener'.open /\ ~listener'.watched
          /\ listener'.idle = 1
      BY <1>3, <2>1, Closing
    <3> QED BY <3>1 DEF ListenerWhole
  <2>2. CASE listener' = CloseListener(CloseSocket(o))
    <3> DEFINE c == CloseSocket(o)
    <3>1. c = [o EXCEPT !.held = FALSE, !.open = FALSE, !.watched = FALSE]
      BY <1>4 DEF CloseSocket
    <3>2. c \in Listeners /\ ~c.open /\ ~c.watched /\ c.idle = 0
      BY <3>1, <1>4 DEF Listeners
    <3> HIDE DEF c
    <3>3. /\ CloseListener(c) \in Listeners /\ ~CloseListener(c).held /\ ~CloseListener(c).open
          /\ ~CloseListener(c).watched /\ CloseListener(c).idle = 1
      BY <3>2, Closing
    <3>4. listener' = CloseListener(c)
      BY <2>2 DEF c
    <3> QED BY <3>3, <3>4 DEF ListenerWhole
  <2>3. CASE listener' = w
    <3>1. w \in Listeners /\ w.held /\ w.open /\ w.watched /\ w.idle = 0
      BY <1>4 DEF Listeners
    <3> HIDE DEF w
    <3> QED BY <2>3, <3>1 DEF ListenerWhole
  <2> QED BY <1>5, <2>1, <2>2, <2>3
<1>7. TakingTurns'
  BY <1>1, <1>2 DEF TakingTurns
<1> QED BY <1>1, <1>2, <1>6, <1>7, Runs DEF TypeOK

LEMMA RemoveListenerKeeps ==
    ASSUME StartupInv, RemoveListener
    PROVE  StartupInv'
<1>1. TypeOK /\ TakingTurns /\ ListenerWhole /\ listener \in Listeners
  BY DEF StartupInv, TypeOK
<1>2. /\ UNCHANGED <<file, found, line, failed, configMap, listenInfo, destinations, desIndex,
                     lead, at>>
      /\ at = "running" /\ listener.watched /\ listener' = CloseListener(listener)
  BY DEF RemoveListener, config
<1>3. listener.held /\ listener.idle = 0
  BY <1>1, <1>2 DEF ListenerWhole
<1>4. /\ listener' \in Listeners /\ ~listener'.held /\ ~listener'.open /\ ~listener'.watched
      /\ listener'.idle = 1
  BY <1>1, <1>2, <1>3, Closing
<1>5. ListenerWhole'
  BY <1>4 DEF ListenerWhole
<1>6. TakingTurns'
  BY <1>1, <1>2 DEF TakingTurns
<1> QED BY <1>1, <1>2, <1>4, <1>5, <1>6, Runs DEF TypeOK

-----------------------------------------------------------------------------
(* Taking turns                                                            *)

LEMMA NextDestinationKeeps ==
    ASSUME StartupInv, NextDestination
    PROVE  StartupInv'
<1> DEFINE m == Len(lead)   d == NextIndex   l == [lead EXCEPT ![d + 1] = @ + 1]
<1>1. TypeOK /\ TakingTurns /\ ListenerWhole
  BY DEF StartupInv
<1>2. /\ UNCHANGED <<file, found, line, failed, configMap, listenInfo, destinations, listener, at>>
      /\ at = "running"
  BY DEF NextDestination, config
<1>3. ListenerWhole' /\ listener' \in Listeners
  BY <1>1, <1>2 DEF ListenerWhole, TypeOK
<1>4. /\ lead \in Seq(Nat) /\ m = Len(destinations) /\ m \in Nat /\ DOMAIN lead = 1 .. m
      /\ desIndex \in 0 .. m /\ desIndex \in Nat
  BY <1>1 DEF TypeOK
<1>5. CASE destinations = <<>>
  <2>1. UNCHANGED <<desIndex, lead>>
    BY <1>5 DEF NextDestination
  <2>2. TakingTurns'
    BY <1>1, <1>2, <2>1 DEF TakingTurns
  <2> QED BY <1>1, <1>2, <1>3, <2>1, <2>2, Runs DEF TypeOK
<1>6. CASE destinations # <<>>
  <2>1. desIndex' = d + 1 /\ lead' = IF \E j \in DOMAIN l : l[j] = 0 THEN l
                                     ELSE [j \in DOMAIN l |-> l[j] - 1]
    BY <1>6 DEF NextDestination, LeadAfter
  <2>2. m > 0
    <3>1. destinations \in Seq(Values)
      BY <1>1 DEF TypeOK
    <3>2. Len(destinations) # 0
      BY <1>6, <3>1
    <3> HIDE DEF m
    <3> QED BY <3>2, <1>4
  <2>3. d = IF desIndex >= m THEN 0 ELSE desIndex
    BY <1>4 DEF NextIndex
  <2>4. \A i \in 1 .. m : lead[i] = IF i <= desIndex /\ desIndex < m THEN 1 ELSE 0
    BY <1>1, <1>4 DEF TakingTurns
  <2> HIDE DEF m, d
  <2>5. d \in Nat /\ d < m /\ d + 1 \in 1 .. m
    BY <2>2, <2>3, <1>4
  <2>6. \A i \in 1 .. m : lead[i] = IF i <= d THEN 1 ELSE 0
    BY <2>2, <2>3, <2>4, <1>4
  <2>7. DOMAIN l = 1 .. m /\ \A i \in 1 .. m : l[i] = IF i <= d + 1 THEN 1 ELSE 0
    <3>1. l[d + 1] = 1
      BY <1>4, <2>5, <2>6
    <3>2. \A i \in 1 .. m : i # d + 1 => l[i] = lead[i]
      BY <1>4
    <3>3. ASSUME NEW i \in 1 .. m PROVE l[i] = IF i <= d + 1 THEN 1 ELSE 0
      <4>1. CASE i = d + 1
        BY <4>1, <3>1, <2>5
      <4>2. CASE i # d + 1
        <5>1. l[i] = IF i <= d THEN 1 ELSE 0
          BY <4>2, <3>2, <2>6
        <5>2. i <= d <=> i <= d + 1
          BY <4>2, <2>5
        <5> QED BY <5>1, <5>2
      <4> QED BY <4>1, <4>2
    <3> QED BY <3>3, <1>4
  <2> HIDE DEF l
  <2>8. /\ DOMAIN lead' = 1 .. m
        /\ \A i \in 1 .. m : lead'[i] = IF i <= d + 1 /\ d + 1 < m THEN 1 ELSE 0
        /\ lead' \in [1 .. m -> Nat]
    <3>1. CASE d + 1 < m
      <4>1. m \in 1 .. m /\ l[m] = 0
        BY <3>1, <1>4, <2>2, <2>5, <2>7
      <4>2. lead' = l
        BY <4>1, <2>1, <2>7
      <4>3. l \in [1 .. m -> Nat]
        <5>1. l = [i \in 1 .. m |-> l[i]]
          BY <2>1, <2>7 DEF l
        <5> QED BY <5>1, <2>7
      <4> QED BY <4>2, <4>3, <3>1, <2>7
    <3>2. CASE ~(d + 1 < m)
      <4>1. \A i \in 1 .. m : l[i] = 1
        BY <3>2, <1>4, <2>5, <2>7
      <4>2. lead' = [j \in 1 .. m |-> l[j] - 1]
        BY <4>1, <2>1, <2>7
      <4>3. \A i \in 1 .. m : l[i] - 1 = 0
        BY <4>1
      <4> QED BY <4>2, <4>3, <3>2
    <3> QED BY <3>1, <3>2
  <2>9. lead' \in Seq(Nat) /\ Len(lead') = m
    BY <1>4, <2>8
  <2>10. TakingTurns'
    BY <2>1, <2>8, <2>9, <1>2 DEF TakingTurns
  <2>11. desIndex' \in 0 .. Len(destinations)
    BY <2>1, <2>5, <1>4
  <2>12. Len(lead') = Len(destinations)
    BY <2>9, <1>4
  <2> QED BY <1>1, <1>2, <1>3, <2>9, <2>10, <2>11, <2>12, Runs
<1> QED BY <1>5, <1>6

-----------------------------------------------------------------------------
(* The theorems                                                            *)

LEMMA InitStartupInv == Init => StartupInv
<1> SUFFICES ASSUME Init PROVE StartupInv
  OBVIOUS
<1>1. /\ found \in BOOLEAN /\ line = 0 /\ failed = FALSE /\ configMap = <<>>
      /\ listenInfo = NoAddress /\ destinations = <<>> /\ lead = <<>> /\ desIndex = 0
      /\ listener = Unopened /\ at = "reading"
  BY DEF Init
<1>2. PICK n \in 0 .. MaxLines : file \in [1 .. n -> Lines]
  BY DEF Init
<1>3. file \in Seq(Lines) /\ Len(file) = n /\ n \in Nat /\ n <= MaxLines
  BY <1>2, StartupAssumption
<1>4. DOMAIN configMap = {} /\ DOMAIN lead = {}
  BY <1>1
<1>5. TypeOK
  <2>1. Unopened \in Listeners
    BY DEF Unopened, Listeners
  <2>2. destinations \in Seq(Values) /\ lead \in Seq(Nat) /\ Len(destinations) = 0 /\ Len(lead) = 0
    BY <1>1
  <2>3. 0 \in 0 .. Len(file) /\ 0 \in 0 .. Len(destinations) /\ NoAddress \in Values
    BY <1>3, <2>2 DEF Values
  <2> QED BY <1>1, <1>3, <1>4, <2>1, <2>2, <2>3 DEF TypeOK
<1>6. LinesRead
  <2>1. 1 .. line = {}
    BY <1>1
  <2>2. IsFiniteSet(DOMAIN configMap)
    BY <1>4, FS_EmptySet
  <2> QED BY <1>1, <1>4, <2>1, <2>2 DEF LinesRead
<1>7. AllRead /\ DestinationsMade /\ NotOpenedYet /\ ListenerWhole
  BY <1>1 DEF AllRead, DestinationsMade, NotOpenedYet, ListenerWhole
<1>8. TakingTurns
  BY <1>1, <1>4 DEF TakingTurns
<1> QED BY <1>5, <1>6, <1>7, <1>8 DEF StartupInv

LEMMA StepStartupInv == StartupInv /\ [Next]_vars => StartupInv'
<1> SUFFICES ASSUME StartupInv, [Next]_vars PROVE StartupInv'
  OBVIOUS
<1>1. CASE NoFile \/ EndOfFile \/ ConfigFails
  BY <1>1, GoingOnKeeps
<1>2. CASE ReadLine
  BY <1>2, ReadLineKeeps
<1>3. CASE InitConfig
  BY <1>3, InitConfigKeeps
<1>4. CASE OpenListener
  BY <1>4, OpenListenerKeeps
<1>5. CASE RemoveListener
  BY <1>5, RemoveListenerKeeps
<1>6. CASE NextDestination
  BY <1>6, NextDestinationKeeps
<1>7. CASE UNCHANGED vars
  <2>1. /\ TypeOK /\ LinesRead /\ AllRead /\ DestinationsMade /\ TakingTurns /\ NotOpenedYet
        /\ ListenerWhole
    BY DEF StartupInv
  <2>2. UNCHANGED <<file, found, line, failed, configMap, listenInfo, destinations, desIndex, lead,
                    listener, at>>
    BY <1>7 DEF vars, config
  <2>3. TypeOK'
    BY <2>1, <2>2 DEF TypeOK
  <2>4. LinesRead' /\ AllRead'
    BY <2>1, <2>2 DEF LinesRead, AllRead
  <2>5. DestinationsMade'
    BY <2>1, <2>2 DEF DestinationsMade, Marked, Given
  <2>6. TakingTurns' /\ NotOpenedYet' /\ ListenerWhole'
    BY <2>1, <2>2 DEF TakingTurns, NotOpenedYet, ListenerWhole
  <2> QED BY <2>3, <2>4, <2>5, <2>6 DEF StartupInv
<1>8. CASE ReadNothing \/ Idling
  BY <1>7, <1>8 DEF ReadNothing, Idling
<1> QED BY <1>1, <1>2, <1>3, <1>4, <1>5, <1>6, <1>7, <1>8 DEF Next

LEMMA StartupInvariance == Spec => []StartupInv
<1> QED BY InitStartupInv, StepStartupInv, PTL DEF Spec

\* Of each key that has a value, the last line for it is the one that gave it.
LEMMA AsLastLineSays ==
    ASSUME TypeOK, LinesRead, found, line = Len(file), NEW k \in Keys
    PROVE  /\ Assigned(k) <=> k \in DOMAIN configMap
           /\ k \in DOMAIN configMap => Configured(k) = configMap[k]
<1>1. DOMAIN file = 1 .. line /\ line \in Nat
  BY DEF TypeOK
<1>2. Assigned(k) <=> k \in DOMAIN configMap
  BY <1>1 DEF Assigned, LinesRead
<1>3. ASSUME k \in DOMAIN configMap PROVE Configured(k) = configMap[k]
  <2>1. PICK i \in 1 .. line :
            /\ file[i].key = k /\ configMap[k] = file[i].value
            /\ \A j \in 1 .. line : file[j].key = k => j <= i
    BY <1>3 DEF LinesRead
  <2>2. /\ LastLine(k) \in DOMAIN file /\ file[LastLine(k)].key = k
        /\ \A j \in DOMAIN file : file[j].key = k => j <= LastLine(k)
    BY <1>1, <2>1 DEF LastLine
  <2>3. LastLine(k) = i
    <3>1. LastLine(k) <= i /\ i <= LastLine(k) /\ i \in Nat /\ LastLine(k) \in Nat
      BY <1>1, <2>1, <2>2
    <3> QED BY <3>1
  <2> QED BY <2>1, <2>3 DEF Configured
<1> QED BY <1>2, <1>3

LEMMA ConfiguredDestinations == StartupInv => DestinationsAsConfigured
<1> SUFFICES ASSUME StartupInv, at = "running" PROVE DestinationsAsConfigured
  BY DEF DestinationsAsConfigured
<1> DEFINE given == {k \in DesKeys : Assigned(k) /\ Assigned(Listen)}
<1>1. TypeOK /\ LinesRead /\ AllRead /\ DestinationsMade
  BY DEF StartupInv
<1>2. \A k \in Keys : /\ Assigned(k) <=> k \in DOMAIN configMap
                      /\ k \in DOMAIN configMap => Configured(k) = configMap[k]
  <2>1. CASE found
    BY <1>1, <2>1, AsLastLineSays DEF AllRead
  <2>2. CASE ~found
    <3>1. 1 .. line = {}
      BY <1>1, <2>2 DEF LinesRead
    <3> QED BY <1>1, <2>2, <3>1 DEF LinesRead, Assigned
  <2> QED BY <2>1, <2>2
<1>3. given = IF Listen \in DOMAIN configMap THEN Given ELSE {}
  BY <1>2, KeysApart DEF Given
<1>4. destinations \in Seq(Values)
  BY <1>1 DEF TypeOK
<1>5. CASE Listen \notin DOMAIN configMap
  <2>1. given = {} /\ destinations = <<>>
    BY <1>1, <1>3, <1>5 DEF DestinationsMade
  <2>2. Cardinality(given) = 0 /\ Len(destinations) = 0
    BY <2>1, FS_EmptySet
  <2> QED BY <2>1, <2>2 DEF DestinationsAsConfigured
<1>6. CASE Listen \in DOMAIN configMap
  <2>1. given = Given
    BY <1>3, <1>6
  <2>2. /\ DOMAIN destinations = DOMAIN Marked
        /\ \A i \in DOMAIN destinations : destinations[i] \in Parsed(configMap[Marked[i]])
    BY <1>1, <1>6 DEF DestinationsMade
  <2>3. /\ Given \in SUBSET Nat /\ IsFiniteSet(Given) /\ Cardinality(Given) \in Nat
        /\ Marked \in [1 .. Cardinality(Given) -> Given] /\ Increasing(Marked)
    BY <1>1, MarkedInOrder
  <2>4. DOMAIN destinations = 1 .. Cardinality(Given)
    BY <2>2, <2>3
  <2>5. Len(destinations) = Cardinality(Given)
    BY <1>4, <2>3, <2>4, LenProperties
  <2>6. ASSUME NEW k \in Given
        PROVE  LET i == Cardinality({j \in Given : j <= k}) IN
               destinations[i] = Configured(k) \/ Configured(k) = NoAddress
    <3> DEFINE i == Cardinality({j \in Given : j <= k})
    <3>1. i \in 1 .. Cardinality(Given) /\ Marked[i] = k
      <4>1. i = Cardinality(UpTo(Given, k))
        BY DEF UpTo
      <4> HIDE DEF i
      <4> QED BY <4>1, <2>3, InItsPlace
    <3> HIDE DEF i
    <3>2. destinations[i] \in Parsed(configMap[k])
      BY <2>2, <2>4, <3>1
    <3>3. Configured(k) = configMap[k]
      BY <1>2, KeysApart DEF Given
    <3>4. destinations[i] = Configured(k) \/ Configured(k) = NoAddress
      BY <3>2, <3>3 DEF Parsed
    <3> QED BY <3>4 DEF i
  <2> HIDE DEF given
  <2>7. Len(destinations) = Cardinality(given)
        /\ \A k \in given :
            LET i == Cardinality({j \in given : j <= k}) IN
            destinations[i] = Configured(k) \/ Configured(k) = NoAddress
    BY <2>1, <2>5, <2>6
  <2> QED BY <2>7 DEF DestinationsAsConfigured, given
<1> QED BY <1>5, <1>6

\* Every variable keeps its type: getNextDestination never reads past m_destinations.
THEOREM StartupTypeCorrect == Spec => []TypeOK
<1>1. StartupInv => TypeOK
  BY DEF StartupInv
<1> QED BY <1>1, StartupInvariance, PTL

\* readConfig and initConfig give a running proxy the destinations that config.ini
\* assigns last, in the order of the keys, and no others, for any file.
THEOREM DestinationsAreConfigured == Spec => []DestinationsAsConfigured
<1> QED BY ConfiguredDestinations, StartupInvariance, PTL

\* getNextDestination gives no destination to two connections more than another.
THEOREM DestinationsTakeTurns == Spec => []Balanced
<1>1. StartupInv => Balanced
  BY DEF StartupInv, TakingTurns, Balanced
<1> QED BY <1>1, StartupInvariance, PTL

\* Whichever call of openListener fails and whenever the Listener is removed, it is open
\* and watched or has left no descriptor behind and its slot idle once.
THEOREM ListenerStaysWhole == Spec => []ListenerWhole
<1>1. StartupInv => ListenerWhole
  BY DEF StartupInv
<1> QED BY <1>1, StartupInvariance, PTL

=============================================================================
