--------------------------- MODULE SessionsProofs ---------------------------
(***************************************************************************)
(* Lemmas about the functions of Sessions: what closing and creating an    *)
(* object leave in each field, that the pools stay sound, what every       *)
(* function preserves whatever it is called on, and that it keeps the      *)
(* sessions in order when its object holds a descriptor.                   *)
(***************************************************************************)
EXTENDS Sessions, TLAPS

LEMMA KindType == \A o \in Conns : Kind(o) \in Kinds /\ o \in Slots(Kind(o))
  BY DEF Conns, Kind, Kinds, Slots

\* What Reset leaves in each field.
IsReset(h, o, g) ==
    /\ g.fd = [h.fd EXCEPT ![o] = NoFd]
    /\ g.partner = [h.partner EXCEPT ![o] = Null]
    /\ g.state = [h.state EXCEPT ![o] = "DISCONNECT"]
    /\ g.timer = h.timer \ {o}
    /\ g.queued = h.queued \ {o}
    /\ g.hashed = h.hashed \ {o}
    /\ g.made = h.made
    /\ g.idle = [h.idle EXCEPT ![Kind(o)] = Append(h.idle[Kind(o)], o)]
    /\ g.open = h.open \ {h.fd[o]}
    /\ g.watch = [f \in Fds |-> IF f = h.fd[o] THEN Null ELSE h.watch[f]]
    /\ g.armed = h.armed \ {h.fd[o]}
    /\ g \in Heaps

LEMMA ResetFields ==
    ASSUME NEW h \in Heaps, NEW o \in Conns, NEW g, g = Reset(h, o)
    PROVE  IsReset(h, o, g)
<1> DEFINE s == CloseSocket(h, o)
           d == ResetData(h, o)
<1>1. /\ s.fd = [h.fd EXCEPT ![o] = NoFd]
      /\ s.open = h.open \ {h.fd[o]}
      /\ s.watch = [f \in Fds |-> IF f = h.fd[o] THEN Null ELSE h.watch[f]]
      /\ s.armed = h.armed \ {h.fd[o]}
      /\ s.partner = h.partner /\ s.state = h.state /\ s.timer = h.timer
      /\ s.queued = h.queued /\ s.hashed = h.hashed /\ s.made = h.made
      /\ s.idle = h.idle
      /\ s \in Heaps
  BY DEF CloseSocket, Heaps
<1>2. /\ d.partner = [s.partner EXCEPT ![o] = Null]
      /\ d.state = [s.state EXCEPT ![o] = "DISCONNECT"]
      /\ d.timer = s.timer \ {o} /\ d.queued = s.queued \ {o}
      /\ d.hashed = s.hashed \ {o}
      /\ d.fd = s.fd /\ d.made = s.made /\ d.idle = s.idle /\ d.open = s.open
      /\ d.watch = s.watch /\ d.armed = s.armed
      /\ d \in Heaps
  <2> HIDE DEF s
  <2> QED BY <1>1 DEF ResetData, Heaps, s
<1>3. /\ g.idle = [d.idle EXCEPT ![Kind(o)] = Append(d.idle[Kind(o)], o)]
      /\ g.fd = d.fd /\ g.partner = d.partner /\ g.state = d.state
      /\ g.timer = d.timer /\ g.queued = d.queued /\ g.hashed = d.hashed
      /\ g.made = d.made /\ g.open = d.open /\ g.watch = d.watch
      /\ g.armed = d.armed
      /\ g \in Heaps
  <2>1. d.idle[Kind(o)] \in Seq(Conns) /\ d.idle \in [Kinds -> Seq(Conns)]
    BY <1>2, KindType DEF Heaps
  <2>2. Append(d.idle[Kind(o)], o) \in Seq(Conns)
    BY <2>1
  <2> HIDE DEF d
  <2> QED BY <1>2, <2>1, <2>2 DEF Reset, Idle, Heaps, d
<1> HIDE DEF s, d
<1> QED BY <1>1, <1>2, <1>3 DEF IsReset

\* Create changes nothing but the bookkeeping of the pool.
IsCreate(h, o, g) ==
    /\ g.made = h.made \cup {o}
    /\ g.idle = [h.idle EXCEPT ![Kind(o)] =
                   SubSeq(h.idle[Kind(o)], 1, Len(h.idle[Kind(o)]) - 1)]
    /\ g.fd = h.fd /\ g.partner = h.partner /\ g.state = h.state
    /\ g.timer = h.timer /\ g.queued = h.queued /\ g.hashed = h.hashed
    /\ g.open = h.open /\ g.watch = h.watch /\ g.armed = h.armed
    /\ g \in Heaps

LEMMA CreateFields ==
    ASSUME NEW h \in Heaps, NEW o \in Conns, NEW g, g = Create(h, o)
    PROVE  IsCreate(h, o, g)
<1>1. h.idle[Kind(o)] \in Seq(Conns)
  BY KindType DEF Heaps
<1>2. SubSeq(h.idle[Kind(o)], 1, Len(h.idle[Kind(o)]) - 1) \in Seq(Conns)
  BY <1>1
<1> QED BY <1>2, KindType DEF Create, Heaps, IsCreate

-----------------------------------------------------------------------------
\* An object that has a descriptor or is in hand is not in its idle list, so Idle
\* keeps the list free of duplicates.
LEMMA ResetPooled ==
    ASSUME NEW h \in Heaps, NEW X, Pooled(h, X),
           NEW o \in Conns, o \in h.made, h.fd[o] # NoFd \/ o \in X,
           NEW g, IsReset(h, o, g)
    PROVE  Pooled(g, X \ {o})
<1> DEFINE K == Kind(o)
           s == h.idle[K]
<1>1. /\ g.fd = [h.fd EXCEPT ![o] = NoFd] /\ g.made = h.made
      /\ g.idle = [h.idle EXCEPT ![K] = Append(s, o)]
  BY DEF IsReset
<1>2. s \in Seq(Conns) /\ K \in Kinds /\ h.idle \in [Kinds -> Seq(Conns)]
      /\ h.fd \in [Conns -> Fds \cup {NoFd}]
  BY KindType DEF Heaps
<1>3. o \notin IdleSlots(h, K)
  BY <1>2 DEF Pooled
<1>4. /\ Len(Append(s, o)) = Len(s) + 1 /\ Append(s, o) \in Seq(Conns)
      /\ \A i \in 1 .. Len(s) : Append(s, o)[i] = s[i]
      /\ Append(s, o)[Len(s) + 1] = o
  BY <1>2
<1>5. \A k \in Kinds : k # K => g.idle[k] = h.idle[k]
  BY <1>1, <1>2
<1>6. g.idle[K] = Append(s, o)
  BY <1>1, <1>2
<1>7. \A p \in Conns : g.fd[p] # NoFd => p \in g.made
  BY <1>1, <1>2 DEF Pooled
<1>8. ASSUME NEW k \in Kinds
      PROVE  /\ IdleSlots(g, k) = {p \in (g.made \cap Slots(k)) \ (X \ {o}) : g.fd[p] = NoFd}
             /\ \A i, j \in DOMAIN g.idle[k] : g.idle[k][i] = g.idle[k][j] => i = j
  <2>1. CASE k # K
    <3>1. IdleSlots(g, k) = IdleSlots(h, k)
      BY <2>1, <1>5 DEF IdleSlots
    <3>2. o \notin Slots(k)
      BY <2>1, SessionsAssumption DEF Kind, Slots, Kinds, Conns
    <3> QED BY <3>1, <3>2, <2>1, <1>1, <1>2, <1>5, SessionsAssumption DEF Pooled
  <2>2. CASE k = K
    <3> DEFINE t == Append(s, o)
    <3>1. DOMAIN t = 1 .. Len(s) + 1 /\ DOMAIN s = 1 .. Len(s)
      BY <1>2, <1>4
    <3>2. {t[i] : i \in DOMAIN t} = {s[i] : i \in DOMAIN s} \cup {o}
      <4> HIDE DEF t, s
      <4> QED BY <3>1, <1>4, <1>2 DEF t
    <3>3. IdleSlots(g, K) = IdleSlots(h, K) \cup {o}
      BY <3>2, <1>6 DEF IdleSlots
    <3>4. IdleSlots(h, K) = {p \in (h.made \cap Slots(K)) \ X : h.fd[p] = NoFd}
      BY <1>2 DEF Pooled
    <3>5. o \in Slots(K)
      BY KindType
    <3>5a. h.made \subseteq Conns
      BY DEF Heaps
    <3>6. IdleSlots(g, K) = {p \in (g.made \cap Slots(K)) \ (X \ {o}) : g.fd[p] = NoFd}
      <4> HIDE DEF K
      <4> QED BY <3>3, <3>4, <3>5, <3>5a, <1>1, <1>2
    <3>7. \A i \in DOMAIN s : s[i] # o
      BY <1>3 DEF IdleSlots
    <3>8. \A i, j \in DOMAIN s : s[i] = s[j] => i = j
      BY <1>2 DEF Pooled
    <3>9. \A i, j \in DOMAIN t : t[i] = t[j] => i = j
      <4> HIDE DEF t, s
      <4> QED BY <3>1, <3>7, <3>8, <1>4, <1>2 DEF t
    <3> QED BY <2>2, <3>6, <3>9, <1>6
  <2> QED BY <2>1, <2>2
<1> QED BY <1>7, <1>8 DEF Pooled

\* Create takes the last handle, or makes a slot not made before.
LEMMA CreatePooled ==
    ASSUME NEW h \in Heaps, NEW X, Pooled(h, X), NEW k \in Kinds,
           NEW o \in Creatable(h, k), NEW g, IsCreate(h, o, g)
    PROVE  /\ Pooled(g, X \cup {o})
           /\ o \in Slots(k) /\ Kind(o) = k /\ o \in Conns
           /\ h.fd[o] = NoFd /\ (o \in X => o \notin h.made)
<1> DEFINE s == h.idle[k]
           t == SubSeq(s, 1, Len(s) - 1)
<1>1. s \in Seq(Conns) /\ h.idle \in [Kinds -> Seq(Conns)] /\ h.made \subseteq Conns
      /\ h.fd \in [Conns -> Fds \cup {NoFd}] /\ Slots(k) \subseteq Conns
  BY DEF Heaps, Slots, Conns
<1>2. IdleSlots(h, k) = {p \in (h.made \cap Slots(k)) \ X : h.fd[p] = NoFd}
  BY DEF Pooled
<1>3. s # <<>> => Len(s) \in 1 .. Len(s) /\ DOMAIN s = 1 .. Len(s)
  BY <1>1
<1>4. s # <<>> => o = s[Len(s)] /\ o \in IdleSlots(h, k)
  BY <1>3 DEF Creatable, IdleSlots
<1>5. s = <<>> => o \in Slots(k) \ h.made
  BY DEF Creatable
<1>6. o \in Slots(k) /\ o \in Conns /\ h.fd[o] = NoFd /\ (o \in X => o \notin h.made)
  BY <1>1, <1>2, <1>4, <1>5 DEF Pooled
<1>7. Kind(o) = k
  BY <1>6, SessionsAssumption DEF Kind, Slots, Kinds
<1>8. /\ g.made = h.made \cup {o} /\ g.fd = h.fd
      /\ g.idle[k] = t
      /\ \A j \in Kinds : j # k => g.idle[j] = h.idle[j]
  BY <1>1, <1>7 DEF IsCreate
<1>9. {t[i] : i \in DOMAIN t} = {s[i] : i \in DOMAIN s} \ {o}
      /\ \A i, j \in DOMAIN t : t[i] = t[j] => i = j
  <2>1. \A i, j \in DOMAIN s : s[i] = s[j] => i = j
    BY DEF Pooled
  <2>2. CASE s = <<>>
    <3>1. t = <<>>
      BY <2>2
    <3> QED BY <2>2, <3>1
  <2>3. CASE s # <<>>
    <3>1. /\ t \in Seq(Conns) /\ Len(t) = Len(s) - 1
          /\ \A i \in 1 .. Len(s) - 1 : t[i] = s[i]
      BY <1>1, <1>3, <2>3
    <3>2. DOMAIN t = 1 .. Len(s) - 1 /\ DOMAIN s = 1 .. Len(s) /\ o = s[Len(s)]
          /\ Len(s) \in Nat
      BY <3>1, <1>1, <1>3, <1>4, <2>3
    <3> HIDE DEF t, s
    <3>3. \A i \in DOMAIN t : i \in DOMAIN s /\ t[i] = s[i] /\ i # Len(s) /\ Len(s) \in DOMAIN s
      BY <3>1, <3>2, <1>3, <2>3
    <3>4. \A i \in DOMAIN s : i # Len(s) => i \in DOMAIN t /\ t[i] = s[i]
      BY <3>1, <3>2
    <3>5. \A i \in DOMAIN t : t[i] # o
      BY <3>2, <3>3, <2>1
    <3> QED BY <3>2, <3>3, <3>4, <3>5, <2>1
  <2> QED BY <2>2, <2>3
<1>10. IdleSlots(g, k) = IdleSlots(h, k) \ {o}
  <2>1. IdleSlots(g, k) = {t[i] : i \in DOMAIN t}
    BY <1>8 DEF IdleSlots
  <2>2. IdleSlots(h, k) = {s[i] : i \in DOMAIN s}
    BY DEF IdleSlots
  <2> HIDE DEF t, s
  <2> QED BY <2>1, <2>2, <1>9
<1>11. ASSUME NEW j \in Kinds
       PROVE  /\ IdleSlots(g, j) = {p \in (g.made \cap Slots(j)) \ (X \cup {o}) : g.fd[p] = NoFd}
              /\ \A m, n \in DOMAIN g.idle[j] : g.idle[j][m] = g.idle[j][n] => m = n
  <2>1. CASE j = k
    <3> HIDE DEF t, s
    <3> QED BY <2>1, <1>2, <1>6, <1>8, <1>9, <1>10
  <2>2. CASE j # k
    <3>1. IdleSlots(g, j) = IdleSlots(h, j)
      BY <2>2, <1>8 DEF IdleSlots
    <3>2. o \notin Slots(j)
      BY <2>2, <1>6, SessionsAssumption DEF Slots, Kinds
    <3>3. IdleSlots(h, j) = {p \in (h.made \cap Slots(j)) \ X : h.fd[p] = NoFd}
          /\ \A m, n \in DOMAIN h.idle[j] : h.idle[j][m] = h.idle[j][n] => m = n
      BY DEF Pooled
    <3> QED BY <2>2, <3>1, <3>2, <3>3, <1>8
  <2> QED BY <2>1, <2>2
<1>12. \A p \in Conns : g.fd[p] # NoFd => p \in g.made
  BY <1>8 DEF Pooled
<1> QED BY <1>6, <1>7, <1>11, <1>12 DEF Pooled

-----------------------------------------------------------------------------
(* What every function preserves, whatever it is called on, so that it     *)
(* holds after misfires too: the types, and descriptors held exclusively.  *)

Sane(h) == h \in Heaps /\ HeldOpen(h)

LEMMA ResetSane ==
    ASSUME NEW h, Sane(h), NEW o \in Conns
    PROVE  Sane(Reset(h, o))
<1>1. PICK g : g = Reset(h, o)
  OBVIOUS
<1>2. IsReset(h, o, g)
  BY <1>1, ResetFields DEF Sane
<1>3. g \in Heaps /\ h \in Heaps /\ HeldOpen(h)
  BY <1>2 DEF IsReset, Sane
<1>4. /\ h.fd \in [Conns -> Fds \cup {NoFd}] /\ h.watch \in [Fds -> Conns \cup {Null}]
      /\ h.open \subseteq Fds
  BY <1>3 DEF Heaps
<1>5. /\ g.fd = [h.fd EXCEPT ![o] = NoFd]
      /\ g.open = h.open \ {h.fd[o]}
      /\ g.watch = [f \in Fds |-> IF f = h.fd[o] THEN Null ELSE h.watch[f]]
      /\ g.armed = h.armed \ {h.fd[o]}
  BY <1>2 DEF IsReset
<1>6. ASSUME NEW p \in Conns, g.fd[p] # NoFd
      PROVE  g.fd[p] \in g.open /\ g.watch[g.fd[p]] = p
  BY <1>3, <1>4, <1>5, <1>6 DEF HeldOpen
<1>7. ASSUME NEW f \in Fds \ g.open
      PROVE  g.watch[f] = Null /\ f \notin g.armed
  BY <1>3, <1>4, <1>5 DEF HeldOpen
<1> QED BY <1>1, <1>3, <1>6, <1>7 DEF Sane, HeldOpen

LEMMA CloseSane ==
    ASSUME NEW h, Sane(h), NEW o \in Conns
    PROVE  Sane(Close(h, o))
<1>1. h.partner[o] \in Conns \cup {Null}
  BY DEF Sane, Heaps
<1> QED BY <1>1, ResetSane DEF Close

LEMMA CreateSane ==
    ASSUME NEW h, Sane(h), NEW o \in Conns
    PROVE  Sane(Create(h, o))
<1>1. PICK g : g = Create(h, o)
  OBVIOUS
<1>2. IsCreate(h, o, g)
  BY <1>1, CreateFields DEF Sane
<1> QED BY <1>1, <1>2 DEF IsCreate, Sane, HeldOpen

LEMMA BacklogSane ==
    ASSUME NEW h, Sane(h), NEW q \in Conns
    PROVE  Sane(Backlog(h, q))
<1>1. h.armed \cup ({h.fd[q]} \ {NoFd}) \in SUBSET Fds
  BY DEF Sane, Heaps
<1>2. Backlog(h, q) \in Heaps
  BY <1>1 DEF Backlog, Sane, Heaps
<1> QED BY <1>2 DEF Backlog, Sane, HeldOpen, Heaps

LEMMA SendPacketSane ==
    ASSUME NEW h, Sane(h), NEW q \in Conns
    PROVE  \A g \in SendPacket(h, q) : Sane(g)
  BY BacklogSane, CloseSane DEF SendPacket

LEMMA SendHashBufferSane ==
    ASSUME NEW h, Sane(h), NEW a \in Conns
    PROVE  \A g \in SendHashBuffer(h, a) : Sane(g)
<1>1. h.partner[a] \in Conns \cup {Null}
  BY DEF Sane, Heaps
<1>2. ASSUME NEW g, Sane(g)
      PROVE  Sane([g EXCEPT !.hashed = @ \ {a}])
  <2>1. [g EXCEPT !.hashed = @ \ {a}] \in Heaps
    BY <1>2 DEF Sane, Heaps
  <2> QED BY <1>2, <2>1 DEF Sane, HeldOpen, Heaps
<1> QED BY <1>1, <1>2, SendPacketSane DEF SendHashBuffer

LEMMA ReadDataSane ==
    ASSUME NEW h, Sane(h), NEW o \in Conns
    PROVE  \A g \in ReadData(h, o) : Sane(g)
<1>1. h.partner[o] \in Conns \cup {Null}
  BY DEF Sane, Heaps
<1>2. [h EXCEPT !.hashed = @ \cup {o}] \in Heaps
  BY DEF Sane, Heaps
<1>3. Sane([h EXCEPT !.hashed = @ \cup {o}])
  BY <1>2 DEF Sane, HeldOpen, Heaps
<1> QED BY <1>1, <1>3, SendPacketSane DEF ReadData

LEMMA EpollCheckSane ==
    ASSUME NEW h, Sane(h), NEW o \in Conns
    PROVE  Sane(EpollCheck(h, o))
<1> DEFINE A == IF o \in h.queued THEN h.armed \cup ({h.fd[o]} \ {NoFd})
                                    ELSE h.armed \ {h.fd[o]}
           g == [h EXCEPT !.armed = A]
<1>1. A \in SUBSET Fds /\ h \in Heaps
  BY DEF Sane, Heaps
<1>2. A \subseteq h.open
  BY <1>1 DEF Sane, HeldOpen, Heaps
<1> HIDE DEF A
<1>3. g \in Heaps
  BY <1>1 DEF Heaps
<1>4. HeldOpen(g)
  BY <1>1, <1>2 DEF Sane, HeldOpen, Heaps
<1>5. g = EpollCheck(h, o)
  BY DEF EpollCheck, A
<1> QED BY <1>3, <1>4, <1>5 DEF Sane

LEMMA EpollOutSane ==
    ASSUME NEW h, Sane(h), NEW o \in Conns
    PROVE  \A g \in EpollOut(h, o) : Sane(g)
<1>1. [h EXCEPT !.queued = @ \ {o}] \in Heaps
  BY DEF Sane, Heaps
<1>2. Sane([h EXCEPT !.queued = @ \ {o}])
  BY <1>1 DEF Sane, HeldOpen, Heaps
<1> QED BY <1>2, EpollCheckSane, CloseSane DEF EpollOut

\* Giving a free descriptor to an object keeps descriptors exclusive, even if the
\* object held another one.
LEMMA GiveSane ==
    ASSUME NEW h, Sane(h), NEW o \in Conns, NEW f \in Fds \ h.open,
           NEW st \in {"DISCONNECT", "START", "OK"}, NEW T \in SUBSET Conns,
           NEW A \in SUBSET (h.open \cup {f}),
           NEW g, g = [h EXCEPT !.fd[o] = f, !.state[o] = st, !.timer = T,
                                !.open = @ \cup {f}, !.watch[f] = o, !.armed = A]
    PROVE  Sane(g)
<1>1. h \in Heaps /\ h.open \subseteq Fds
  BY DEF Sane, Heaps
<1>2. A \in SUBSET Fds
  BY <1>1
<1>3. /\ g \in Heaps
      /\ g.fd = [h.fd EXCEPT ![o] = f]
      /\ g.open = h.open \cup {f}
      /\ g.watch = [h.watch EXCEPT ![f] = o]
      /\ g.armed = A
  BY <1>1, <1>2 DEF Heaps
<1>4. h.fd \in [Conns -> Fds \cup {NoFd}] /\ h.watch \in [Fds -> Conns \cup {Null}]
  BY <1>1 DEF Heaps
<1>5. ASSUME NEW p \in Conns, g.fd[p] # NoFd
      PROVE  g.fd[p] \in g.open /\ g.watch[g.fd[p]] = p
  BY <1>3, <1>4, <1>5 DEF Sane, HeldOpen
<1>6. ASSUME NEW e \in Fds \ g.open
      PROVE  g.watch[e] = Null /\ e \notin g.armed
  BY <1>3, <1>4 DEF Sane, HeldOpen
<1> QED BY <1>3, <1>5, <1>6 DEF Sane, HeldOpen

LEMMA OpenAcceptSane ==
    ASSUME NEW h, Sane(h), NEW a \in Conns, NEW f \in Fds \ h.open
    PROVE  Sane(OpenAccept(h, a, f))
<1>1. PICK g : g = Create(h, a)
  OBVIOUS
<1>2. Sane(g) /\ IsCreate(h, a, g)
  BY <1>1, CreateSane, CreateFields DEF Sane
<1>3. g.open = h.open /\ g.timer \cup {a} \in SUBSET Conns /\ g.armed \in SUBSET (g.open \cup {f})
      /\ g \in Heaps
  BY <1>2 DEF IsCreate, Sane, HeldOpen, Heaps
<1>4. PICK T \in SUBSET Conns, A \in SUBSET (g.open \cup {f}) : T = g.timer \cup {a} /\ A = g.armed
  BY <1>3
<1>5. PICK e : e = OpenAccept(h, a, f)
  OBVIOUS
<1>6. e = [g EXCEPT !.fd[a] = f, !.state[a] = "OK", !.timer = T,
                    !.open = @ \cup {f}, !.watch[f] = a, !.armed = A]
  BY <1>1, <1>3, <1>4, <1>5 DEF OpenAccept, Heaps
<1>7. f \in Fds \ g.open
  BY <1>3
<1> QED BY <1>2, <1>3, <1>5, <1>6, <1>7, GiveSane

LEMMA OpenClientSane ==
    ASSUME NEW h, Sane(h), NEW c \in Conns, NEW f \in Fds \ h.open
    PROVE  Sane(OpenClient(h, c, f))
<1>1. PICK g : g = Create(h, c)
  OBVIOUS
<1>2. Sane(g) /\ IsCreate(h, c, g)
  BY <1>1, CreateSane, CreateFields DEF Sane
<1>3. g.open = h.open /\ g.timer \in SUBSET Conns /\ g \in Heaps
      /\ g.armed \cup {f} \in SUBSET (g.open \cup {f})
  BY <1>2 DEF IsCreate, Sane, HeldOpen, Heaps
<1>4. OpenClient(h, c, f) =
        [g EXCEPT !.fd[c] = f, !.state[c] = "START", !.timer = g.timer,
                  !.open = @ \cup {f}, !.watch[f] = c, !.armed = g.armed \cup {f}]
  BY <1>1, <1>3 DEF OpenClient, Heaps
<1> QED BY <1>2, <1>3, <1>4, GiveSane

LEMMA OpenFailsSane ==
    ASSUME NEW h, Sane(h), NEW o \in Conns
    PROVE  Sane(OpenFails(h, o))
<1>1. PICK g : g = Create(h, o)
  OBVIOUS
<1>2. Sane(g)
  BY <1>1, CreateSane
<1>3. [g EXCEPT !.fd[o] = NoFd] \in Heaps
  BY <1>2 DEF Sane, Heaps
<1>4. Sane([g EXCEPT !.fd[o] = NoFd])
  BY <1>2, <1>3 DEF Sane, HeldOpen, Heaps
<1> QED BY <1>1, <1>4, CloseSane DEF OpenFails

LEMMA OpenClientFailsSane ==
    ASSUME NEW h, Sane(h), NEW c \in Conns
    PROVE  \A g \in OpenClientFails(h, c) : Sane(g)
<1>1. PICK g : g = Close(Create(h, c), c)
  OBVIOUS
<1>2. Sane(g)
  BY <1>1, CreateSane, CloseSane
<1>3. ASSUME NEW f \in Fds
      PROVE  Sane([g EXCEPT !.open = @ \cup {f}])
  <2>1. [g EXCEPT !.open = @ \cup {f}] \in Heaps
    BY <1>2 DEF Sane, Heaps
  <2> QED BY <1>2, <2>1 DEF Sane, HeldOpen, Heaps
<1> QED BY <1>1, <1>2, <1>3, OpenFailsSane DEF OpenClientFails

LEMMA SetPartnersSane ==
    ASSUME NEW h, Sane(h), NEW a \in Conns, NEW c \in Conns
    PROVE  Sane(SetPartners(h, a, c))
<1>1. SetPartners(h, a, c) \in Heaps
  BY DEF SetPartners, Sane, Heaps
<1> QED BY <1>1 DEF SetPartners, Sane, HeldOpen, Heaps

LEMMA CreatableType ==
    ASSUME NEW h \in Heaps, NEW k \in Kinds
    PROVE  Creatable(h, k) \subseteq Conns
<1>1. h.idle[k] \in Seq(Conns) /\ Slots(k) \subseteq Conns
  BY DEF Heaps, Slots, Conns
<1>2. h.idle[k] # <<>> => h.idle[k][Len(h.idle[k])] \in Conns
  BY <1>1
<1> QED BY <1>1, <1>2 DEF Creatable

LEMMA OnReceiveAcceptSane ==
    ASSUME NEW h, Sane(h), NEW a \in Conns
    PROVE  \A g \in OnReceiveAccept(h, a) : Sane(g)
<1>1. Creatable(h, "client") \subseteq Conns
  BY CreatableType DEF Kinds, Sane
<1>2. Sane(Close(h, a))
  BY CloseSane
<1>3. ASSUME NEW c \in Conns, NEW g \in OpenClientFails(h, c)
      PROVE  Sane(g) /\ Sane(Close(g, a))
  BY OpenClientFailsSane, CloseSane
<1>4. ASSUME NEW c \in Conns, NEW f \in Fds \ h.open
      PROVE  Sane(SetPartners(OpenClient(h, c, f), a, c))
  BY OpenClientSane, SetPartnersSane
<1>5. \A g \in OpenPartner(h, a) : Sane(g)
  BY <1>1, <1>2, <1>3, <1>4 DEF OpenPartner
<1> QED BY <1>2, <1>5 DEF OnReceiveAccept

LEMMA ReceiveClientSane ==
    ASSUME NEW h, Sane(h), NEW c \in Conns
    PROVE  \A g \in ReceiveClient(h, c) : Sane(g)
<1> DEFINE g == [h EXCEPT !.state[c] = "OK", !.timer = @ \ {c, h.partner[c]}]
<1>1. h.partner[c] \in Conns \cup {Null}
  BY DEF Sane, Heaps
<1>2. g \in Heaps
  BY DEF Sane, Heaps
<1>3. Sane(g)
  BY <1>2 DEF Sane, HeldOpen, Heaps
<1> HIDE DEF g
<1> QED BY <1>1, <1>3, SendHashBufferSane DEF ReceiveClient, g

-----------------------------------------------------------------------------
(* Integrity: every function of Sessions keeps the sessions in order when it *)
(* is called on an object that holds a descriptor.  HeapInv gathers what a   *)
(* heap must satisfy, and one lemma per function says that the function      *)
(* preserves it, for any slots, descriptors and faults.                      *)

\* An object in hand is constructed and carries nothing; if it holds a descriptor
\* already, it is an Accept with its identify timer running.
InHand(h, D, X) ==
    \A o \in X :
        /\ o \in h.made
        /\ o \notin h.queued \cup h.hashed \cup D
        /\ h.fd[o] # NoFd => o \in Accepts /\ h.state[o] = "OK" /\ o \in h.timer

\* D: objects whose timer has fired; X: objects in hand; B: objects whose buffer is
\* being sent.
HeapInv(h, D, X, B) ==
    /\ h \in Heaps
    /\ X \subseteq Conns /\ InHand(h, D, X)
    /\ Paired(h, X) /\ Clean(h) /\ Pooled(h, X)
    /\ HeldOpen(h) /\ OpenHeld(h)
    /\ Connected(h, X) /\ Timed(h, D, X) /\ D \subseteq Conns
    /\ Buffered(h, B) /\ QueuesArmed(h)

-----------------------------------------------------------------------------
(* Objects in hand                                                         *)

LEMMA CreateInv ==
    ASSUME NEW h, NEW X, NEW B, HeapInv(h, {}, X, B), NEW k \in Kinds,
           NEW o \in Creatable(h, k), NEW g, g = Create(h, o)
    PROVE  /\ HeapInv(g, {}, X \cup {o}, B)
           /\ IsCreate(h, o, g)
           /\ o \in Conns \ X /\ o \in Slots(k) /\ Kind(o) = k /\ h.fd[o] = NoFd
<1>1. h \in Heaps /\ Pooled(h, X)
  BY DEF HeapInv
<1>2. o \in Conns
  BY <1>1, CreatableType
<1>3. IsCreate(h, o, g)
  BY <1>1, <1>2, CreateFields
<1>4. /\ Pooled(g, X \cup {o})
      /\ o \in Slots(k) /\ Kind(o) = k
      /\ h.fd[o] = NoFd /\ (o \in X => o \notin h.made)
  BY <1>1, <1>3, CreatePooled
<1>5. o \notin X
  BY <1>4 DEF HeapInv, InHand
<1>6. h.partner[o] = Null /\ o \notin h.timer \cup h.queued \cup h.hashed
  BY <1>2, <1>4 DEF HeapInv, Paired, Clean
<1>7. InHand(g, {}, X \cup {o})
  BY <1>3, <1>4, <1>6 DEF HeapInv, InHand, IsCreate
<1>8. Paired(g, X \cup {o})
  BY <1>3, <1>6 DEF HeapInv, Paired, IsCreate
<1>9. Timed(g, {}, X \cup {o}) /\ Buffered(g, B)
  BY <1>3 DEF HeapInv, Timed, Buffered, Connecting, IsCreate
<1>10. Clean(g) /\ HeldOpen(g) /\ OpenHeld(g) /\ Connected(g, X \cup {o}) /\ QueuesArmed(g)
  BY <1>3 DEF HeapInv, Clean, HeldOpen, OpenHeld, Connected, QueuesArmed, IsCreate
<1> QED BY <1>2, <1>3, <1>4, <1>5, <1>7, <1>8, <1>9, <1>10 DEF HeapInv, IsCreate

\* Giving up an object in hand undoes what opening it has done.
LEMMA ResetInHandInv ==
    ASSUME NEW h, NEW X, NEW B, HeapInv(h, {}, X, B), NEW o \in X,
           NEW g, g = Reset(h, o)
    PROVE  HeapInv(g, {}, X \ {o}, B) /\ IsReset(h, o, g)
<1>1. h \in Heaps /\ X \subseteq Conns /\ o \in Conns /\ Sane(h)
  BY DEF HeapInv, Sane
<1>2. IsReset(h, o, g)
  BY <1>1, ResetFields
<1>3. g \in Heaps /\ HeldOpen(g)
  BY <1>1, ResetSane DEF Sane
<1>4. /\ h.fd \in [Conns -> Fds \cup {NoFd}] /\ h.partner \in [Conns -> Conns \cup {Null}]
      /\ h.state \in [Conns -> {"DISCONNECT", "START", "OK"}]
      /\ h.watch \in [Fds -> Conns \cup {Null}] /\ h.armed \subseteq Fds /\ h.open \subseteq Fds
      /\ h.queued \subseteq Conns /\ h.hashed \subseteq Conns
  BY <1>1 DEF Heaps
<1>5. o \in h.made /\ o \notin h.queued \cup h.hashed /\ h.partner[o] = Null
  BY <1>1 DEF HeapInv, InHand, Paired
<1>6. Pooled(g, X \ {o})
  BY <1>1, <1>2, <1>5, ResetPooled DEF HeapInv
<1>7. InHand(g, {}, X \ {o})
  BY <1>1, <1>2, <1>4 DEF HeapInv, InHand, IsReset
<1>8. ASSUME NEW q \in Conns, h.fd[q] # NoFd, q \notin X
      PROVE  /\ h.partner[q] \in Conns /\ h.partner[q] # o /\ q # o
             /\ Kind(h.partner[q]) # Kind(q) /\ h.partner[h.partner[q]] = q
             /\ h.fd[h.partner[q]] # NoFd
  BY <1>5, <1>8, SessionsAssumption DEF HeapInv, Paired
<1>9. Paired(g, X \ {o})
  BY <1>1, <1>2, <1>4, <1>5, <1>8 DEF HeapInv, Paired, IsReset
<1>10. Clean(g) /\ Connected(g, X \ {o})
  BY <1>1, <1>2, <1>4 DEF HeapInv, Clean, Connected, IsReset
<1>11. OpenHeld(g)
  BY <1>1, <1>2, <1>4, SessionsAssumption DEF HeapInv, OpenHeld, HeldOpen, IsReset
<1>12. ASSUME NEW q \in Conns, q # o, q \notin X
       PROVE  Connecting(g, q) <=> Connecting(h, q)
  BY <1>2, <1>4, <1>8, <1>12 DEF Connecting, IsReset
<1>13. ~ Connecting(g, o)
  BY <1>1, <1>2, <1>4 DEF Connecting, IsReset
<1>14. Timed(g, {}, X \ {o})
  BY <1>1, <1>2, <1>12, <1>13 DEF HeapInv, Timed, IsReset
<1>15. Buffered(g, B)
  BY <1>1, <1>2, <1>4, <1>12 DEF HeapInv, Buffered, InHand, IsReset
<1>16. QueuesArmed(g)
  BY <1>1, <1>2, <1>4, <1>5, SessionsAssumption DEF HeapInv, QueuesArmed, HeldOpen, IsReset
<1> QED BY <1>1, <1>2, <1>3, <1>6, <1>7, <1>9, <1>10, <1>11, <1>14, <1>15, <1>16 DEF HeapInv

-----------------------------------------------------------------------------
(* Closing a session                                                       *)

\* Closing one end of a session closes both and disturbs no other session.
LEMMA CloseInv ==
    ASSUME NEW h, NEW D, NEW X, NEW B, HeapInv(h, D, X, B),
           NEW o \in Conns \ X, h.fd[o] # NoFd
    PROVE  HeapInv(Close(h, o), D \ {o, h.partner[o]}, X, B)
<1> DEFINE p == h.partner[o]
<1>1. h \in Heaps /\ Sane(h) /\ o \in Conns
  BY DEF HeapInv, Sane
<1>2. /\ p \in Conns /\ p # o /\ Kind(p) # Kind(o) /\ h.partner[p] = o /\ h.fd[p] # NoFd
      /\ p # Null
  BY SessionsAssumption DEF HeapInv, Paired
<1>3. PICK e : e = Reset(h, p)
  OBVIOUS
<1>4. PICK g : g = Reset(e, o)
  OBVIOUS
<1>5. g = Close(h, o)
  BY <1>2, <1>3, <1>4 DEF Close
<1>6. IsReset(h, p, e) /\ Sane(e)
  BY <1>1, <1>2, <1>3, ResetFields, ResetSane
<1>7. IsReset(e, o, g) /\ Sane(g)
  BY <1>1, <1>4, <1>6, ResetFields, ResetSane DEF Sane
<1>8. /\ h.fd \in [Conns -> Fds \cup {NoFd}] /\ h.partner \in [Conns -> Conns \cup {Null}]
      /\ h.state \in [Conns -> {"DISCONNECT", "START", "OK"}]
      /\ h.watch \in [Fds -> Conns \cup {Null}] /\ h.armed \subseteq Fds /\ h.open \subseteq Fds
      /\ h.queued \subseteq Conns /\ h.hashed \subseteq Conns
  BY <1>1 DEF Heaps
<1> HIDE DEF p
<1>9. /\ \A x \in Conns : g.fd[x] = IF x \in {o, p} THEN NoFd ELSE h.fd[x]
      /\ \A x \in Conns : g.partner[x] = IF x \in {o, p} THEN Null ELSE h.partner[x]
      /\ \A x \in Conns : g.state[x] = IF x \in {o, p} THEN "DISCONNECT" ELSE h.state[x]
      /\ g.timer = h.timer \ {o, p} /\ g.queued = h.queued \ {o, p}
      /\ g.hashed = h.hashed \ {o, p} /\ g.made = h.made
  BY <1>1, <1>2, <1>6, <1>7, <1>8 DEF IsReset
<1>10. /\ g.open = h.open \ {h.fd[o], h.fd[p]} /\ g.armed = h.armed \ {h.fd[o], h.fd[p]}
       /\ \A f \in Fds : g.watch[f] = IF f \in {h.fd[o], h.fd[p]} THEN Null ELSE h.watch[f]
  BY <1>1, <1>2, <1>6, <1>7, <1>8 DEF IsReset
<1>11. o \notin X /\ p \notin X
  BY <1>1, <1>2, SessionsAssumption DEF HeapInv, Paired
<1>12. Pooled(g, X)
  <2>1. o \in h.made /\ p \in h.made
    BY <1>1, <1>2 DEF HeapInv, Pooled
  <2>2. X \ {o} = X /\ X \ {p} = X
    BY <1>11
  <2>3. Pooled(e, X)
    BY <1>1, <1>2, <1>6, <2>1, <2>2, ResetPooled DEF HeapInv
  <2>4. e.fd[o] # NoFd /\ o \in e.made /\ e \in Heaps
    BY <1>1, <1>2, <1>6, <1>8, <2>1 DEF IsReset
  <2> QED BY <1>1, <1>7, <2>2, <2>3, <2>4, ResetPooled
<1>13. ASSUME NEW q \in Conns, h.fd[q] # NoFd, q \notin X, q \notin {o, p}
       PROVE  h.partner[q] \notin {o, p}
  BY <1>1, <1>2, <1>13 DEF HeapInv, Paired, p
<1>14. ASSUME NEW q \in Conns, q \notin X, q \notin {o, p}
       PROVE  Connecting(g, q) <=> Connecting(h, q)
  <2>1. CASE h.fd[q] = NoFd
    BY <1>9, <1>14, <2>1 DEF Connecting
  <2>2. CASE h.fd[q] # NoFd
    <3>1. h.partner[q] \in Conns /\ h.partner[q] \notin {o, p}
      BY <1>13, <1>14, <2>2 DEF HeapInv, Paired
    <3> QED BY <1>9, <1>14, <3>1 DEF Connecting
  <2> QED BY <2>1, <2>2
<1>15. ~ Connecting(g, o) /\ ~ Connecting(g, p)
  BY <1>1, <1>2, <1>9 DEF Connecting
<1>16. Paired(g, X)
  <2> SUFFICES ASSUME NEW q \in Conns
               PROVE  IF g.fd[q] = NoFd \/ q \in X THEN g.partner[q] = Null
                      ELSE /\ g.partner[q] \in Conns /\ Kind(g.partner[q]) # Kind(q)
                           /\ g.partner[g.partner[q]] = q /\ g.fd[g.partner[q]] # NoFd
    BY DEF Paired
  <2>1. CASE q \in {o, p}
    BY <1>9, <2>1
  <2>2. CASE q \notin {o, p}
    <3>1. g.fd[q] = h.fd[q] /\ g.partner[q] = h.partner[q]
      BY <1>9, <2>2
    <3>2. CASE h.fd[q] = NoFd \/ q \in X
      BY <3>1, <3>2 DEF HeapInv, Paired
    <3>3. CASE ~(h.fd[q] = NoFd \/ q \in X)
      <4>1. /\ h.partner[q] \in Conns /\ Kind(h.partner[q]) # Kind(q)
            /\ h.partner[h.partner[q]] = q /\ h.fd[h.partner[q]] # NoFd
        BY <3>3 DEF HeapInv, Paired
      <4> QED BY <1>9, <1>13, <2>2, <3>1, <3>3, <4>1
    <3> QED BY <3>2, <3>3
  <2> QED BY <2>1, <2>2
<1>17. Clean(g) /\ Connected(g, X)
  BY <1>9 DEF HeapInv, Clean, Connected
<1>18. InHand(g, D \ {o, p}, X)
  BY <1>9, <1>11 DEF HeapInv, InHand
<1>19. OpenHeld(g)
  <2>1. ASSUME NEW f \in Fds, g.watch[f] # Null
        PROVE  g.fd[g.watch[f]] = f
    <3>1. f \notin {h.fd[o], h.fd[p]} /\ g.watch[f] = h.watch[f] /\ h.watch[f] \in Conns
      BY <1>8, <1>10, <2>1
    <3>2. h.fd[h.watch[f]] = f
      BY <2>1, <3>1 DEF HeapInv, OpenHeld
    <3> QED BY <1>9, <3>1, <3>2
  <2>2. "connect_fcntl" \notin Faults => \A f \in g.open : g.watch[f] # Null
    BY <1>8, <1>10 DEF HeapInv, OpenHeld
  <2> QED BY <2>1, <2>2 DEF OpenHeld
<1>20. Timed(g, D \ {o, p}, X)
  <2> SUFFICES ASSUME NEW q \in Conns \ X
               PROVE  q \in g.timer \cup (D \ {o, p}) <=> q \in Accepts /\ Connecting(g, q)
    BY DEF Timed
  <2>1. CASE q \in {o, p}
    BY <1>9, <1>15, <2>1
  <2>2. CASE q \notin {o, p}
    BY <1>9, <1>14, <2>2 DEF HeapInv, Timed
  <2> QED BY <2>1, <2>2
<1>21. Buffered(g, B)
  BY <1>8, <1>9, <1>14 DEF HeapInv, Buffered, InHand
<1>22. QueuesArmed(g)
  <2> SUFFICES ASSUME NEW q \in g.queued
               PROVE  g.fd[q] \in g.armed
    BY DEF QueuesArmed
  <2>1. q \in Conns /\ q \notin {o, p} /\ q \in h.queued
    BY <1>8, <1>9
  <2>2. h.fd[q] # NoFd /\ h.fd[q] \in h.armed /\ g.fd[q] = h.fd[q]
    BY <1>9, <2>1 DEF HeapInv, Clean, QueuesArmed
  <2>3. h.watch[h.fd[q]] = q /\ h.watch[h.fd[o]] = o /\ h.watch[h.fd[p]] = p
    BY <1>1, <1>2, <2>1, <2>2 DEF HeapInv, HeldOpen
  <2> QED BY <1>10, <2>1, <2>2, <2>3
<1>23. g \in Heaps /\ HeldOpen(g)
  BY <1>7 DEF Sane
<1> QED
  BY <1>5, <1>12, <1>16, <1>17, <1>18, <1>19, <1>20, <1>21, <1>22, <1>23 DEF HeapInv, p

-----------------------------------------------------------------------------
(* Sending                                                                 *)

\* New sets of queued and hashed objects and of armed descriptors are in order.
Marks(h, Q, H, A, C) ==
    /\ Q \subseteq Conns /\ H \subseteq Conns /\ A \subseteq h.open
    /\ \A o \in Q : h.fd[o] # NoFd /\ h.fd[o] \in A
    /\ \A o \in H : h.fd[o] # NoFd
    /\ \A o \in H \ C : o \in Accepts /\ Connecting(h, o)

\* A change that leaves descriptors, pools and sessions alone needs to be checked
\* only against what it changes.
LEMMA MarksInv ==
    ASSUME NEW h, NEW B, HeapInv(h, {}, {}, B),
           NEW Q, NEW H, NEW A, NEW C, Marks(h, Q, H, A, C),
           NEW g, g = [h EXCEPT !.queued = Q, !.hashed = H, !.armed = A]
    PROVE  HeapInv(g, {}, {}, C)
<1>1. h \in Heaps /\ h.open \subseteq Fds
  BY DEF HeapInv, Heaps
<1>2. A \subseteq Fds /\ A \subseteq h.open /\ Q \subseteq Conns /\ H \subseteq Conns
  BY <1>1 DEF Marks
<1>3. /\ g \in Heaps
      /\ g.fd = h.fd /\ g.partner = h.partner /\ g.state = h.state /\ g.timer = h.timer
      /\ g.made = h.made /\ g.idle = h.idle /\ g.open = h.open /\ g.watch = h.watch
      /\ g.queued = Q /\ g.hashed = H /\ g.armed = A
  BY <1>1, <1>2 DEF Heaps
<1>4. Paired(g, {}) /\ Connected(g, {}) /\ Timed(g, {}, {}) /\ InHand(g, {}, {})
  BY <1>3 DEF HeapInv, Paired, Connected, Timed, Connecting, InHand
<1>5. Pooled(g, {}) /\ OpenHeld(g)
  BY <1>3 DEF HeapInv, Pooled, IdleSlots, OpenHeld
<1>6. Clean(g) /\ HeldOpen(g) /\ QueuesArmed(g)
  BY <1>1, <1>2, <1>3 DEF HeapInv, Clean, HeldOpen, QueuesArmed, Marks
<1>7. Buffered(g, C)
  BY <1>3 DEF Buffered, Connecting, Marks
<1> QED BY <1>3, <1>4, <1>5, <1>6, <1>7 DEF HeapInv

\* What the invariant says of an object in use.
LEMMA LiveFacts ==
    ASSUME NEW h, NEW D, NEW B, HeapInv(h, D, {}, B), NEW o \in Conns, h.fd[o] # NoFd
    PROVE  /\ h.fd[o] \in h.open /\ h.open \subseteq Fds
           /\ h.partner[o] \in Conns /\ h.partner[o] # Null /\ h.partner[o] # o
           /\ Kind(h.partner[o]) # Kind(o) /\ h.partner[h.partner[o]] = o
           /\ h.fd[h.partner[o]] # NoFd
           /\ (o \in Accepts <=> h.partner[o] \in Clients)
           /\ (o \in Clients <=> h.partner[o] \in Accepts)
  BY SessionsAssumption DEF HeapInv, Paired, HeldOpen, Heaps, Kind, Conns

LEMMA BacklogInv ==
    ASSUME NEW h, NEW B, HeapInv(h, {}, {}, B), NEW q \in Conns, h.fd[q] # NoFd
    PROVE  HeapInv(Backlog(h, q), {}, {}, B)
<1>0. h.fd[q] \in h.open
  BY LiveFacts
<1>1. h \in Heaps /\ h.open \subseteq Fds /\ h.fd[q] \in h.open /\ h.armed \subseteq Fds
      /\ h.queued \subseteq Conns /\ h.hashed \subseteq Conns
  BY <1>0 DEF HeapInv, Heaps
<1>2. h.armed \subseteq h.open
  BY <1>1 DEF HeapInv, HeldOpen
<1>3. PICK Q \in SUBSET Conns, H \in SUBSET Conns, A \in SUBSET h.open :
        Q = h.queued \cup {q} /\ H = h.hashed /\ A = h.armed \cup {h.fd[q]}
  BY <1>1, <1>2
<1>4. PICK g : g = Backlog(h, q)
  OBVIOUS
<1>5. g = [h EXCEPT !.queued = Q, !.hashed = H, !.armed = A]
  <2>1. h.armed \cup ({h.fd[q]} \ {NoFd}) = A
    BY <1>3
  <2>2. g = [h EXCEPT !.queued = Q, !.armed = A]
    BY <1>3, <1>4, <2>1 DEF Backlog
  <2> QED BY <1>1, <1>3, <2>2 DEF Heaps
<1>6. Marks(h, Q, H, A, B)
  BY <1>1, <1>3 DEF HeapInv, Clean, QueuesArmed, Buffered, Marks
<1>7. HeapInv(g, {}, {}, B)
  BY <1>5, <1>6, MarksInv
<1> QED BY <1>4, <1>7

LEMMA SendPacketInv ==
    ASSUME NEW h, NEW B, HeapInv(h, {}, {}, B), NEW q \in Conns, h.fd[q] # NoFd,
           NEW g \in SendPacket(h, q)
    PROVE  HeapInv(g, {}, {}, B)
<1>1. HeapInv(Close(h, q), {}, {}, B)
  <2>1. {} \ {q, h.partner[q]} = {} /\ q \in Conns \ {}
    OBVIOUS
  <2>2. HeapInv(Close(h, q), {} \ {q, h.partner[q]}, {}, B)
    BY <2>1, CloseInv
  <2> QED BY <2>1, <2>2
<1> QED BY <1>1, BacklogInv DEF SendPacket

LEMMA ReadDataInv ==
    ASSUME NEW h, HeapInv(h, {}, {}, {}), NEW o \in Conns, h.fd[o] # NoFd,
           NEW g \in ReadData(h, o)
    PROVE  HeapInv(g, {}, {}, {})
<1> DEFINE q == h.partner[o]
<1>1. /\ q \in Conns /\ q # Null /\ h.fd[q] # NoFd
      /\ (o \in Accepts <=> q \in Clients)
  BY LiveFacts
<1>2. CASE h.state[q] = "OK"
  BY <1>1, <1>2, SendPacketInv DEF ReadData
<1>3. CASE h.state[q] # "OK"
  <2>1. o \in Accepts /\ Connecting(h, o)
    BY <1>1, <1>3 DEF HeapInv, Connected, Connecting
  <2>2. h \in Heaps /\ h.armed \subseteq h.open /\ h.queued \subseteq Conns /\ h.hashed \subseteq Conns
    BY DEF HeapInv, HeldOpen, Heaps
  <2>3. PICK H \in SUBSET Conns, Q \in SUBSET Conns, A \in SUBSET h.open :
          H = h.hashed \cup {o} /\ Q = h.queued /\ A = h.armed
    BY <2>2
  <2>4. g = [h EXCEPT !.queued = Q, !.hashed = H, !.armed = A]
    BY <1>1, <1>3, <2>2, <2>3 DEF ReadData, Heaps
  <2>5. Marks(h, Q, H, A, {})
    BY <2>1, <2>2, <2>3 DEF HeapInv, Clean, QueuesArmed, Buffered, Marks
  <2> QED BY <2>3, <2>4, <2>5, MarksInv
<1> QED BY <1>2, <1>3

LEMMA EpollCheckInv ==
    ASSUME NEW h, HeapInv(h, {}, {}, {}), NEW o \in Conns, h.fd[o] # NoFd,
           NEW Q \in SUBSET h.queued, h.queued \ {o} \subseteq Q,
           NEW e, e = [h EXCEPT !.queued = Q]
    PROVE  HeapInv(EpollCheck(e, o), {}, {}, {})
<1>0. h.fd[o] \in h.open
  BY LiveFacts
<1>1. h \in Heaps /\ h.armed \subseteq h.open /\ h.queued \subseteq Conns /\ h.hashed \subseteq Conns
      /\ h.fd[o] \in h.open
  BY <1>0 DEF HeapInv, HeldOpen, Heaps
<1>2. PICK A \in SUBSET h.open :
        A = IF o \in Q THEN h.armed \cup {h.fd[o]} ELSE h.armed \ {h.fd[o]}
  BY <1>1
<1>3. e \in Heaps /\ e.queued = Q /\ e.fd = h.fd /\ e.armed = h.armed
  BY <1>1 DEF Heaps
<1>4. EpollCheck(e, o) = [h EXCEPT !.queued = Q, !.hashed = h.hashed, !.armed = A]
  <2>1. EpollCheck(e, o) = [e EXCEPT !.armed = A]
    BY <1>1, <1>2, <1>3 DEF EpollCheck
  <2> QED BY <1>1, <2>1 DEF Heaps
<1>5. \A x \in Q : h.fd[x] # NoFd /\ h.fd[x] \in A
  <2> SUFFICES ASSUME NEW x \in Q PROVE h.fd[x] # NoFd /\ h.fd[x] \in A
    OBVIOUS
  <2>1. x \in Conns /\ h.fd[x] # NoFd /\ h.fd[x] \in h.armed
    BY <1>1 DEF HeapInv, Clean, QueuesArmed
  <2>2. x # o => h.fd[x] # h.fd[o]
    BY <2>1 DEF HeapInv, HeldOpen
  <2> QED BY <1>2, <2>1, <2>2
<1>6. PICK H \in SUBSET Conns, R \in SUBSET Conns : H = h.hashed /\ R = Q
  BY <1>1
<1>7. PICK g : g = EpollCheck(e, o) /\ g = [h EXCEPT !.queued = R, !.hashed = H, !.armed = A]
  BY <1>4, <1>6
<1>8. Marks(h, R, H, A, {})
  BY <1>1, <1>2, <1>5, <1>6 DEF HeapInv, Clean, Buffered, Marks
<1> QED BY <1>7, <1>8, MarksInv

LEMMA EpollOutInv ==
    ASSUME NEW h, HeapInv(h, {}, {}, {}), NEW o \in Conns, h.fd[o] # NoFd,
           NEW g \in EpollOut(h, o) \cup {EpollCheck(h, o), Close(h, o)}
    PROVE  HeapInv(g, {}, {}, {})
<1>1. HeapInv(Close(h, o), {}, {}, {})
  <2>1. {} \ {o, h.partner[o]} = {} /\ o \in Conns \ {}
    OBVIOUS
  <2>2. HeapInv(Close(h, o), {} \ {o, h.partner[o]}, {}, {})
    BY <2>1, CloseInv
  <2> QED BY <2>1, <2>2
<1>2. HeapInv(EpollCheck(h, o), {}, {}, {})
  <2>1. h = [h EXCEPT !.queued = h.queued]
    BY DEF HeapInv, Heaps
  <2>2. PICK Q \in SUBSET h.queued : Q = h.queued
    OBVIOUS
  <2> QED BY <2>1, <2>2, EpollCheckInv
<1>3. HeapInv(EpollCheck([h EXCEPT !.queued = @ \ {o}], o), {}, {}, {})
  <2>1. PICK Q \in SUBSET h.queued : Q = h.queued \ {o}
    OBVIOUS
  <2>2. PICK e : e = [h EXCEPT !.queued = Q]
    OBVIOUS
  <2> QED BY <2>1, <2>2, EpollCheckInv
<1> QED BY <1>1, <1>2, <1>3 DEF EpollOut

-----------------------------------------------------------------------------
(* Opening                                                                 *)

\* openAccept: a is in hand, its timer running.
LEMMA OpenAcceptInv ==
    ASSUME NEW h, HeapInv(h, {}, {}, {}), NEW a \in Creatable(h, "accept"),
           NEW f \in Fds \ h.open, NEW g, g = OpenAccept(h, a, f)
    PROVE  HeapInv(g, {}, {a}, {}) /\ a \in Accepts /\ g.fd[a] # NoFd
<1>1. PICK e : e = Create(h, a)
  OBVIOUS
<1>2. "accept" \in Kinds /\ {} \cup {a} = {a}
  BY DEF Kinds
<1>3. /\ HeapInv(e, {}, {a}, {}) /\ IsCreate(h, a, e)
      /\ a \in Conns /\ a \in Slots("accept") /\ h.fd[a] = NoFd
  BY <1>1, <1>2, CreateInv
<1>4. a \in Accepts /\ e.open = h.open /\ e.fd[a] = NoFd /\ e \in Heaps
  BY <1>3 DEF Slots, IsCreate
<1>5. /\ e.fd \in [Conns -> Fds \cup {NoFd}] /\ e.watch \in [Fds -> Conns \cup {Null}]
      /\ e.state \in [Conns -> {"DISCONNECT", "START", "OK"}]
      /\ e.open \subseteq Fds
  BY <1>4 DEF Heaps
<1>6. /\ g.fd = [e.fd EXCEPT ![a] = f] /\ g.state = [e.state EXCEPT ![a] = "OK"]
      /\ g.timer = e.timer \cup {a} /\ g.open = e.open \cup {f}
      /\ g.watch = [e.watch EXCEPT ![f] = a]
      /\ g.partner = e.partner /\ g.queued = e.queued /\ g.hashed = e.hashed
      /\ g.made = e.made /\ g.idle = e.idle /\ g.armed = e.armed
  BY <1>1, <1>4 DEF OpenAccept, Heaps
<1>7. g \in Heaps /\ HeldOpen(g)
  <2>1. Sane(h)
    BY DEF HeapInv, Sane
  <2> QED BY <1>3, <2>1, OpenAcceptSane DEF Sane
<1>8. e.partner[a] = Null /\ a \in e.made /\ a \notin e.queued \cup e.hashed \cup e.timer
  BY <1>3, <1>4 DEF HeapInv, Paired, InHand, Clean
<1>9. InHand(g, {}, {a}) /\ Paired(g, {a})
  <2>1. InHand(g, {}, {a})
    BY <1>3, <1>4, <1>5, <1>6, <1>8 DEF InHand
  <2>2. Paired(g, {a})
    BY <1>3, <1>4, <1>5, <1>6, <1>8, SessionsAssumption DEF HeapInv, Paired
  <2> QED BY <2>1, <2>2
<1>10. Clean(g) /\ Connected(g, {a})
  BY <1>3, <1>4, <1>5, <1>6, SessionsAssumption DEF HeapInv, Clean, Connected
<1>11. Pooled(g, {a})
  BY <1>3, <1>4, <1>5, <1>6, <1>8, SessionsAssumption DEF HeapInv, Pooled, IdleSlots
<1>12. OpenHeld(g)
  BY <1>3, <1>4, <1>5, <1>6, SessionsAssumption DEF HeapInv, OpenHeld
<1>13. ASSUME NEW q \in Conns, q # a
       PROVE  Connecting(g, q) <=> Connecting(e, q)
  <2>1. CASE e.fd[q] = NoFd
    BY <1>5, <1>6, <1>13, <2>1 DEF Connecting
  <2>2. CASE e.fd[q] # NoFd
    <3>1. e.partner[q] \in Conns /\ e.partner[e.partner[q]] = q
      BY <1>3, <1>13, <2>2 DEF HeapInv, Paired
    <3>2. e.partner[q] # a
      BY <1>8, <1>13, <3>1, SessionsAssumption
    <3> QED BY <1>5, <1>6, <1>13, <3>1, <3>2 DEF Connecting
  <2> QED BY <2>1, <2>2
<1>14. Timed(g, {}, {a})
  BY <1>3, <1>6, <1>13 DEF HeapInv, Timed
<1>15. Buffered(g, {}) /\ QueuesArmed(g)
  <2>1. e.hashed \subseteq Conns /\ e.queued \subseteq Conns
    BY <1>4 DEF Heaps
  <2> QED BY <1>3, <1>5, <1>6, <1>8, <1>13, <2>1 DEF HeapInv, Buffered, QueuesArmed
<1> QED
  BY <1>3, <1>4, <1>5, <1>6, <1>7, <1>9, <1>10, <1>11, <1>12, <1>14, <1>15,
     SessionsAssumption DEF HeapInv

\* openClient for the Accept in hand, and setPartner both ways: a new session.
LEMMA OpenSessionInv ==
    ASSUME NEW h, NEW a, HeapInv(h, {}, {a}, {}), a \in Accepts, h.fd[a] # NoFd,
           NEW c \in Creatable(h, "client"), NEW f \in Fds \ h.open,
           NEW g, g = SetPartners(OpenClient(h, c, f), a, c)
    PROVE  HeapInv(g, {}, {}, {})
<1>1. PICK e : e = Create(h, c)
  OBVIOUS
<1>2. "client" \in Kinds
  BY DEF Kinds
<1>3. /\ HeapInv(e, {}, {a} \cup {c}, {}) /\ IsCreate(h, c, e)
      /\ c \in Conns \ {a} /\ c \in Slots("client") /\ h.fd[c] = NoFd
  BY <1>1, <1>2, CreateInv
<1>4. /\ c \in Clients /\ a \in Conns /\ c \in Conns /\ a # c /\ Kind(a) # Kind(c)
      /\ e.open = h.open /\ e.fd[c] = NoFd /\ e.fd[a] # NoFd
  BY <1>3, SessionsAssumption DEF Slots, IsCreate, Kind, Conns
<1>5. PICK m : m = OpenClient(h, c, f)
  OBVIOUS
<1>6. /\ e \in Heaps /\ Sane(h)
  BY <1>3 DEF HeapInv, Sane
<1>7. m \in Heaps /\ Sane(m)
  BY <1>4, <1>5, <1>6, OpenClientSane DEF Sane
<1>8. Sane(g)
  BY <1>4, <1>5, <1>7, SetPartnersSane
<1>9. /\ e.fd \in [Conns -> Fds \cup {NoFd}] /\ e.watch \in [Fds -> Conns \cup {Null}]
      /\ e.state \in [Conns -> {"DISCONNECT", "START", "OK"}]
      /\ e.partner \in [Conns -> Conns \cup {Null}]
      /\ e.open \subseteq Fds /\ e.hashed \subseteq Conns /\ e.queued \subseteq Conns
  BY <1>6 DEF Heaps
<1>10. /\ m.fd = [e.fd EXCEPT ![c] = f] /\ m.state = [e.state EXCEPT ![c] = "START"]
       /\ m.timer = e.timer /\ m.open = e.open \cup {f}
       /\ m.watch = [e.watch EXCEPT ![f] = c]
       /\ m.partner = e.partner /\ m.queued = e.queued /\ m.hashed = e.hashed
       /\ m.made = e.made /\ m.idle = e.idle /\ m.armed = e.armed \cup {f}
  BY <1>1, <1>5, <1>6 DEF OpenClient, Heaps
<1>11. /\ g.partner = [m.partner EXCEPT ![a] = c, ![c] = a]
       /\ g.fd = m.fd /\ g.state = m.state /\ g.timer = m.timer /\ g.open = m.open
       /\ g.watch = m.watch /\ g.queued = m.queued /\ g.hashed = m.hashed
       /\ g.made = m.made /\ g.idle = m.idle /\ g.armed = m.armed
  BY <1>5, <1>7 DEF SetPartners, Heaps
<1>12. /\ \A x \in Conns : g.partner[x] = IF x = a THEN c ELSE IF x = c THEN a ELSE e.partner[x]
       /\ \A x \in Conns : g.fd[x] = IF x = c THEN f ELSE e.fd[x]
       /\ \A x \in Conns : g.state[x] = IF x = c THEN "START" ELSE e.state[x]
       /\ \A x \in Fds : g.watch[x] = IF x = f THEN c ELSE e.watch[x]
       /\ g.timer = e.timer /\ g.queued = e.queued /\ g.hashed = e.hashed
       /\ g.made = e.made /\ g.idle = e.idle
       /\ g.open = e.open \cup {f} /\ g.armed = e.armed \cup {f}
  BY <1>4, <1>9, <1>10, <1>11
<1>13. /\ e.partner[a] = Null /\ e.partner[c] = Null
       /\ a \in e.made /\ c \in e.made /\ a \in e.timer /\ e.state[a] = "OK"
       /\ a \notin e.queued \cup e.hashed /\ c \notin e.queued \cup e.hashed \cup e.timer
  BY <1>3, <1>4 DEF HeapInv, Paired, InHand, Clean
<1>14. \A q \in Conns \ {a, c} : e.fd[q] # NoFd =>
          /\ e.partner[q] \in Conns \ {a, c} /\ Kind(e.partner[q]) # Kind(q)
          /\ e.partner[e.partner[q]] = q /\ e.fd[e.partner[q]] # NoFd
  BY <1>3, <1>4, <1>13, SessionsAssumption DEF HeapInv, Paired
<1>15. \A q \in Conns \ {a, c} : e.fd[q] = NoFd => e.partner[q] = Null
  BY <1>3 DEF HeapInv, Paired
<1>16. Paired(g, {})
  <2> SUFFICES ASSUME NEW q \in Conns
               PROVE  IF g.fd[q] = NoFd THEN g.partner[q] = Null
                      ELSE /\ g.partner[q] \in Conns /\ Kind(g.partner[q]) # Kind(q)
                           /\ g.partner[g.partner[q]] = q /\ g.fd[g.partner[q]] # NoFd
    BY DEF Paired
  <2>1. CASE q \in {a, c}
    BY <1>4, <1>12, <2>1, SessionsAssumption
  <2>2. CASE q \notin {a, c}
    BY <1>4, <1>12, <1>14, <1>15, <2>2
  <2> QED BY <2>1, <2>2
<1>17. \A q \in Conns \ {a, c} : Connecting(g, q) <=> Connecting(e, q)
  BY <1>12, <1>14 DEF Connecting
<1>18. Connecting(g, a) /\ c \notin Accepts
  BY <1>4, <1>12, SessionsAssumption DEF Connecting
<1>19. Timed(g, {}, {})
  <2> SUFFICES ASSUME NEW q \in Conns
               PROVE  q \in g.timer <=> q \in Accepts /\ Connecting(g, q)
    BY DEF Timed
  <2>1. CASE q \in {a, c}
    BY <1>4, <1>12, <1>13, <1>18, <2>1
  <2>2. CASE q \notin {a, c}
    BY <1>3, <1>12, <1>17, <2>2 DEF HeapInv, Timed
  <2> QED BY <2>1, <2>2
<1>20. Clean(g) /\ Connected(g, {})
  <2>1. f # NoFd /\ f \in Fds
    BY SessionsAssumption
  <2>2. Clean(g)
    BY <1>3, <1>12, <2>1 DEF HeapInv, Clean
  <2>3. g.state[a] = "OK" /\ g.state[c] = "START"
    BY <1>4, <1>12, <1>13
  <2>4. ASSUME NEW q \in Conns \ {a, c}, g.fd[q] # NoFd
        PROVE  g.state[q] = "OK" \/ (q \in Clients /\ g.state[q] = "START")
    BY <1>3, <1>12, <2>4 DEF HeapInv, Connected
  <2> QED BY <1>4, <2>2, <2>3, <2>4 DEF Connected
<1>21. Pooled(g, {})
  <2>1. \A q \in Conns : g.fd[q] # NoFd => q \in g.made
    BY <1>3, <1>12, <1>13 DEF HeapInv, Pooled
  <2>2. f # NoFd /\ e.made \subseteq Conns
    BY <1>6, SessionsAssumption DEF Heaps
  <2>3. ASSUME NEW k \in Kinds
        PROVE  {q \in (g.made \cap Slots(k)) \ {} : g.fd[q] = NoFd} =
               {q \in (e.made \cap Slots(k)) \ ({a} \cup {c}) : e.fd[q] = NoFd}
    BY <1>4, <1>12, <2>2
  <2> QED BY <1>3, <1>12, <2>1, <2>3 DEF HeapInv, Pooled, IdleSlots
<1>22. OpenHeld(g)
  BY <1>3, <1>4, <1>9, <1>12, SessionsAssumption DEF HeapInv, OpenHeld
<1>23. Buffered(g, {}) /\ QueuesArmed(g)
  BY <1>3, <1>4, <1>9, <1>12, <1>13, <1>17 DEF HeapInv, Buffered, QueuesArmed
<1>24. InHand(g, {}, {}) /\ g \in Heaps /\ HeldOpen(g)
  BY <1>8 DEF InHand, Sane
<1> QED BY <1>16, <1>19, <1>20, <1>21, <1>22, <1>23, <1>24 DEF HeapInv

\* The descriptor connectServer leaves open when its fcntl fails is nobody's.
LEMMA LeakInv ==
    ASSUME NEW h, NEW X, HeapInv(h, {}, X, {}), NEW f \in Fds, "connect_fcntl" \in Faults,
           NEW g, g = [h EXCEPT !.open = @ \cup {f}]
    PROVE  HeapInv(g, {}, X, {})
<1>1. h \in Heaps
  BY DEF HeapInv
<1>2. /\ g \in Heaps
      /\ g.fd = h.fd /\ g.partner = h.partner /\ g.state = h.state /\ g.timer = h.timer
      /\ g.made = h.made /\ g.idle = h.idle /\ g.watch = h.watch
      /\ g.queued = h.queued /\ g.hashed = h.hashed /\ g.armed = h.armed
      /\ g.open = h.open \cup {f}
  BY <1>1 DEF Heaps
<1>3. Paired(g, X) /\ Connected(g, X) /\ Timed(g, {}, X) /\ InHand(g, {}, X) /\ Clean(g)
  BY <1>2 DEF HeapInv, Paired, Connected, Timed, Connecting, InHand, Clean
<1>4. Pooled(g, X) /\ OpenHeld(g) /\ HeldOpen(g) /\ QueuesArmed(g) /\ Buffered(g, {})
  BY <1>2 DEF HeapInv, Pooled, IdleSlots, OpenHeld, HeldOpen, QueuesArmed, Buffered, Connecting
<1> QED BY <1>2, <1>3, <1>4 DEF HeapInv

\* A slot that could not be given a descriptor is back in its pool, and the pool of
\* the other kind has not changed.
LEMMA OpenFailsInv ==
    ASSUME NEW h, NEW X, HeapInv(h, {}, X, {}), NEW k \in Kinds, NEW o \in Creatable(h, k),
           NEW g \in {Close(Create(h, o), o), OpenFails(h, o)}
    PROVE  /\ HeapInv(g, {}, X, {})
           /\ \A j \in Kinds \ {k} : g.idle[j] = h.idle[j]
           /\ \A x \in X : g.fd[x] = h.fd[x]
           /\ g.open = h.open
<1>1. PICK e : e = Create(h, o)
  OBVIOUS
<1>2. /\ HeapInv(e, {}, X \cup {o}, {}) /\ IsCreate(h, o, e)
      /\ o \in Conns \ X /\ Kind(o) = k /\ h.fd[o] = NoFd
  BY <1>1, CreateInv
<1>3. e \in Heaps /\ e.fd[o] = NoFd /\ e.partner[o] = Null /\ h \in Heaps
  BY <1>2 DEF HeapInv, IsCreate, Paired
<1>4. [e EXCEPT !.fd[o] = NoFd] = e
  <2>1. e.fd \in [Conns -> Fds \cup {NoFd}] /\ o \in Conns
    BY <1>2, <1>3 DEF Heaps
  <2>2. [e.fd EXCEPT ![o] = NoFd] = e.fd
    BY <1>3, <2>1
  <2>3. [e EXCEPT !.fd = e.fd] = e
    BY <1>3 DEF Heaps
  <2> QED BY <2>2, <2>3
<1>5. g = Close(e, o)
  BY <1>1, <1>4 DEF OpenFails
<1>6. g = Reset(e, o)
  BY <1>3, <1>5 DEF Close
<1>7. HeapInv(g, {}, (X \cup {o}) \ {o}, {}) /\ IsReset(e, o, g)
  BY <1>2, <1>6, ResetInHandInv
<1>8. (X \cup {o}) \ {o} = X
  BY <1>2
<1>9. \A j \in Kinds \ {k} : g.idle[j] = h.idle[j]
  <2>1. h.idle \in [Kinds -> Seq(Conns)] /\ e.idle \in [Kinds -> Seq(Conns)]
    BY <1>3 DEF Heaps
  <2> QED BY <1>2, <1>7, <2>1 DEF IsCreate, IsReset
<1>10. \A x \in X : g.fd[x] = h.fd[x]
  <2>1. e.fd \in [Conns -> Fds \cup {NoFd}] /\ e.fd = h.fd /\ X \subseteq Conns
    BY <1>2, <1>3 DEF HeapInv, Heaps, IsCreate
  <2> QED BY <1>2, <1>7, <2>1 DEF IsReset
<1>11. g.open = h.open
  <2>1. h.open \subseteq Fds /\ e.open = h.open
    BY <1>2, <1>3 DEF Heaps, IsCreate
  <2> QED BY <1>3, <1>7, <2>1, SessionsAssumption DEF IsReset
<1> QED BY <1>7, <1>8, <1>9, <1>10, <1>11

LEMMA OpenClientFailsInv ==
    ASSUME NEW h, NEW X, HeapInv(h, {}, X, {}), NEW c \in Creatable(h, "client"),
           NEW g \in OpenClientFails(h, c)
    PROVE  /\ HeapInv(g, {}, X, {})
           /\ g.idle["accept"] = h.idle["accept"]
           /\ \A x \in X : g.fd[x] = h.fd[x]
<1>1. "client" \in Kinds /\ "accept" \in Kinds \ {"client"}
  BY DEF Kinds
<1>2. PICK r : r = Close(Create(h, c), c)
  OBVIOUS
<1>3. HeapInv(r, {}, X, {}) /\ r.idle["accept"] = h.idle["accept"] /\ \A x \in X : r.fd[x] = h.fd[x]
  BY <1>1, <1>2, OpenFailsInv
<1>4. CASE g \in {r, OpenFails(h, c)}
  BY <1>1, <1>2, <1>4, OpenFailsInv
<1>5. CASE g \notin {r, OpenFails(h, c)}
  <2>1. PICK f \in Fds : g = [r EXCEPT !.open = @ \cup {f}] /\ "connect_fcntl" \in Faults
    BY <1>2, <1>5 DEF OpenClientFails
  <2>2. HeapInv(g, {}, X, {})
    BY <1>3, <2>1, LeakInv
  <2>3. g.idle = r.idle /\ g.fd = r.fd
    BY <1>3, <2>1 DEF HeapInv, Heaps
  <2> QED BY <1>3, <2>2, <2>3
<1> QED BY <1>4, <1>5

\* onReceiveAccept takes the Accept out of hand: into a session, or back to its pool.
LEMMA OnReceiveAcceptInv ==
    ASSUME NEW h, NEW a, HeapInv(h, {}, {a}, {}), a \in Accepts, h.fd[a] # NoFd,
           NEW g \in OnReceiveAccept(h, a)
    PROVE  HeapInv(g, {}, {}, {})
<1>1. ASSUME NEW e, HeapInv(e, {}, {a}, {})
      PROVE  HeapInv(Close(e, a), {}, {}, {})
  <2>1. e.partner[a] = Null /\ a \in {a} /\ {a} \ {a} = {}
    BY <1>1 DEF HeapInv, Paired
  <2>2. PICK r : r = Reset(e, a)
    OBVIOUS
  <2>3. HeapInv(r, {}, {a} \ {a}, {})
    BY <1>1, <2>1, <2>2, ResetInHandInv
  <2> QED BY <2>1, <2>2, <2>3 DEF Close
<1>2. h.partner[a] = Null
  BY DEF HeapInv, Paired
<1>3. CASE g = Close(h, a)
  BY <1>1, <1>3
<1>4. CASE g # Close(h, a)
  <2>1. g \in OpenPartner(h, a) /\ Creatable(h, "client") # {}
    BY <1>2, <1>4 DEF OnReceiveAccept, OpenPartner
  <2>2. PICK c \in Creatable(h, "client") :
          \/ \E e \in OpenClientFails(h, c) :
               g = IF WentIdle(h, e, a) THEN e ELSE Close(e, a)
          \/ \E f \in Fds \ h.open : g = SetPartners(OpenClient(h, c, f), a, c)
    BY <2>1 DEF OpenPartner
  <2>3. CASE \E f \in Fds \ h.open : g = SetPartners(OpenClient(h, c, f), a, c)
    BY <2>3, OpenSessionInv
  <2>4. CASE \E e \in OpenClientFails(h, c) :
               g = IF WentIdle(h, e, a) THEN e ELSE Close(e, a)
    <3>1. PICK e \in OpenClientFails(h, c) :
               g = IF WentIdle(h, e, a) THEN e ELSE Close(e, a)
      BY <2>4
    <3>2. HeapInv(e, {}, {a}, {}) /\ e.idle["accept"] = h.idle["accept"]
      BY OpenClientFailsInv
    <3>3. ~WentIdle(h, e, a)
      <4>1. h.idle["accept"] \in Seq(Conns) /\ Kind(a) = "accept"
        BY DEF HeapInv, Heaps, Kinds, Kind
      <4> QED BY <3>2, <4>1 DEF WentIdle
    <3> QED BY <1>1, <3>1, <3>2, <3>3
  <2> QED BY <2>2, <2>3, <2>4
<1> QED BY <1>3, <1>4

-----------------------------------------------------------------------------
(* Connecting, and timers                                                  *)

\* receiveClient ends the connecting phase of one session: its timer stops and its
\* buffer is on its way.
LEMMA ConnectedInv ==
    ASSUME NEW h, HeapInv(h, {}, {}, {}), NEW c \in Clients, h.fd[c] # NoFd,
           NEW g, g = [h EXCEPT !.state[c] = "OK", !.timer = @ \ {c, h.partner[c]}]
    PROVE  HeapInv(g, {}, {}, {h.partner[c]})
<1> DEFINE a == h.partner[c]
<1>1. h \in Heaps /\ c \in Conns
  BY DEF HeapInv, Conns
<1>2. /\ g \in Heaps
      /\ g.fd = h.fd /\ g.partner = h.partner /\ g.open = h.open /\ g.watch = h.watch
      /\ g.made = h.made /\ g.idle = h.idle
      /\ g.queued = h.queued /\ g.hashed = h.hashed /\ g.armed = h.armed
      /\ g.state = [h.state EXCEPT ![c] = "OK"] /\ g.timer = h.timer \ {c, a}
  BY <1>1 DEF Heaps
<1>3. /\ h.state \in [Conns -> {"DISCONNECT", "START", "OK"}]
      /\ h.hashed \subseteq Conns /\ h.timer \subseteq Conns
  BY <1>1 DEF Heaps
<1>4. a \in Accepts /\ a \in Conns /\ h.partner[a] = c /\ h.fd[a] # NoFd
  BY <1>1, LiveFacts
<1>5. \A q \in Conns : Connecting(g, q) <=> Connecting(h, q) /\ q # a
  <2> SUFFICES ASSUME NEW q \in Conns
               PROVE  Connecting(g, q) <=> Connecting(h, q) /\ q # a
    OBVIOUS
  <2>1. CASE h.fd[q] = NoFd
    BY <1>2, <2>1 DEF Connecting
  <2>2. CASE h.fd[q] # NoFd
    <3>1. h.partner[q] \in Conns /\ (h.partner[q] = c => q = a) /\ (q = a => h.partner[q] = c)
      BY <1>4, <2>2, LiveFacts
    <3> QED BY <1>1, <1>2, <1>3, <2>2, <3>1 DEF Connecting
  <2> QED BY <2>1, <2>2
<1>6. c \notin Accepts
  BY SessionsAssumption
<1> HIDE DEF a
<1>7. Paired(g, {}) /\ Connected(g, {}) /\ InHand(g, {}, {}) /\ Clean(g)
  <2>1. Paired(g, {}) /\ InHand(g, {}, {})
    BY <1>2 DEF HeapInv, Paired, InHand
  <2>2. Connected(g, {})
    BY <1>1, <1>2, <1>3 DEF HeapInv, Connected
  <2>3. Clean(g)
    BY <1>1, <1>2, <1>3 DEF HeapInv, Clean
  <2> QED BY <2>1, <2>2, <2>3
<1>8. Timed(g, {}, {})
  <2> SUFFICES ASSUME NEW q \in Conns
               PROVE  q \in g.timer <=> q \in Accepts /\ Connecting(g, q)
    BY DEF Timed
  <2>1. q \in h.timer <=> q \in Accepts /\ Connecting(h, q)
    BY DEF HeapInv, Timed
  <2> QED BY <1>2, <1>5, <1>6, <2>1
<1>9. Pooled(g, {}) /\ OpenHeld(g) /\ HeldOpen(g) /\ QueuesArmed(g)
  BY <1>2 DEF HeapInv, Pooled, IdleSlots, OpenHeld, HeldOpen, QueuesArmed
<1>10. Buffered(g, {a})
  BY <1>2, <1>3, <1>5 DEF HeapInv, Buffered
<1> QED BY <1>2, <1>7, <1>8, <1>9, <1>10 DEF HeapInv, a

LEMMA ReceiveClientInv ==
    ASSUME NEW h, HeapInv(h, {}, {}, {}), NEW c \in Clients, h.fd[c] # NoFd,
           NEW g \in ReceiveClient(h, c)
    PROVE  HeapInv(g, {}, {}, {})
<1>1. PICK a : a = h.partner[c]
  OBVIOUS
<1>2. PICK e : e = [h EXCEPT !.state[c] = "OK", !.timer = @ \ {c, h.partner[c]}]
  OBVIOUS
<1>3. HeapInv(e, {}, {}, {a})
  BY <1>1, <1>2, ConnectedInv
<1>4. e.fd = h.fd /\ e.partner = h.partner
  BY <1>2 DEF HeapInv, Heaps
<1>5. a \in Conns /\ a # Null /\ h.partner[a] = c /\ c # Null /\ c \in Conns
  <2>1. c \in Conns
    BY DEF Conns
  <2> QED BY <1>1, <2>1, LiveFacts, SessionsAssumption
<1>6. g \in SendHashBuffer(e, a)
  BY <1>1, <1>2, <1>5 DEF ReceiveClient
<1>7. CASE a \notin e.hashed
  <2>1. g = e
    BY <1>6, <1>7 DEF SendHashBuffer
  <2>2. Buffered(e, {})
    BY <1>3, <1>7 DEF HeapInv, Buffered
  <2> QED BY <1>3, <2>1, <2>2 DEF HeapInv
<1>8. CASE a \in e.hashed
  <2>1. PICK s \in SendPacket(e, c) : g = [s EXCEPT !.hashed = @ \ {a}]
    BY <1>4, <1>5, <1>6, <1>8 DEF SendHashBuffer
  <2>2. HeapInv(s, {}, {}, {a})
    BY <1>3, <1>4, <1>5, <2>1, SendPacketInv
  <2>3. s \in Heaps /\ s.armed \subseteq s.open /\ s.queued \subseteq Conns /\ s.hashed \subseteq Conns
    BY <2>2 DEF HeapInv, HeldOpen, Heaps
  <2>4. PICK Q \in SUBSET Conns, H \in SUBSET Conns, A \in SUBSET s.open :
          Q = s.queued /\ H = s.hashed \ {a} /\ A = s.armed
    BY <2>3
  <2>5. g = [s EXCEPT !.queued = Q, !.hashed = H, !.armed = A]
    BY <2>1, <2>3, <2>4 DEF Heaps
  <2>6. Marks(s, Q, H, A, {})
    BY <2>2, <2>3, <2>4 DEF HeapInv, Clean, QueuesArmed, Buffered, Marks
  <2> QED BY <2>2, <2>5, <2>6, MarksInv
<1> QED BY <1>7, <1>8

\* Timer::update takes the timers that are due off their lists together.
LEMMA TimersDueInv ==
    ASSUME NEW h, HeapInv(h, {}, {}, {}), NEW d \in SUBSET h.timer,
           NEW g, g = [h EXCEPT !.timer = @ \ d]
    PROVE  HeapInv(g, d, {}, {})
<1>1. h \in Heaps /\ d \subseteq Conns
  BY DEF HeapInv, Heaps
<1>2. /\ g \in Heaps
      /\ g.fd = h.fd /\ g.partner = h.partner /\ g.open = h.open /\ g.watch = h.watch
      /\ g.made = h.made /\ g.idle = h.idle /\ g.state = h.state
      /\ g.queued = h.queued /\ g.hashed = h.hashed /\ g.armed = h.armed
      /\ g.timer = h.timer \ d
  BY <1>1 DEF Heaps
<1>3. Paired(g, {}) /\ Connected(g, {}) /\ InHand(g, d, {}) /\ Clean(g) /\ Timed(g, d, {})
  BY <1>2 DEF HeapInv, Paired, Connected, InHand, Clean, Timed, Connecting
<1>4. Pooled(g, {}) /\ OpenHeld(g) /\ HeldOpen(g) /\ QueuesArmed(g) /\ Buffered(g, {})
  BY <1>2 DEF HeapInv, Pooled, IdleSlots, OpenHeld, HeldOpen, QueuesArmed, Buffered, Connecting
<1> QED BY <1>1, <1>2, <1>3, <1>4 DEF HeapInv

-----------------------------------------------------------------------------
(* No function ends half of a session                                       *)

\* From h to g, an object in use keeps its descriptor and its partner and does not
\* go back to connecting, or both ends of its session are closed.
Atomic(h, g) ==
    \A o \in Conns : h.fd[o] # NoFd =>
        IF g.fd[o] = h.fd[o]
        THEN g.partner[o] = h.partner[o] /\ (h.state[o] = "OK" => g.state[o] = "OK")
        ELSE g.fd[o] = NoFd /\ g.fd[h.partner[o]] = NoFd

\* From h to g, only the objects in S change hands.
Untouched(h, g, S) ==
    \A o \in Conns \ S :
        g.fd[o] = h.fd[o] /\ g.partner[o] = h.partner[o] /\ g.state[o] = h.state[o]

LEMMA CloseAtomic ==
    ASSUME NEW h, NEW D, NEW B, HeapInv(h, D, {}, B), NEW o \in Conns, h.fd[o] # NoFd
    PROVE  Atomic(h, Close(h, o))
<1>1. PICK p : p = h.partner[o]
  OBVIOUS
<1>2. h \in Heaps /\ p \in Conns /\ p # Null /\ p # o /\ h.partner[p] = o
  BY <1>1, LiveFacts DEF HeapInv
<1>3. PICK e, g : e = Reset(h, p) /\ g = Reset(e, o)
  OBVIOUS
<1>4. IsReset(h, p, e) /\ e \in Heaps
  BY <1>2, <1>3, ResetFields DEF IsReset
<1>5. IsReset(e, o, g)
  BY <1>3, <1>4, ResetFields
<1>6. /\ h.fd \in [Conns -> Fds \cup {NoFd}] /\ h.partner \in [Conns -> Conns \cup {Null}]
      /\ h.state \in [Conns -> {"DISCONNECT", "START", "OK"}]
  BY <1>2 DEF Heaps
<1>7. /\ \A x \in Conns : g.fd[x] = IF x \in {o, p} THEN NoFd ELSE h.fd[x]
      /\ \A x \in Conns \ {o, p} : g.partner[x] = h.partner[x] /\ g.state[x] = h.state[x]
  BY <1>2, <1>4, <1>5, <1>6 DEF IsReset
<1>8. Atomic(h, g)
  BY <1>1, <1>2, <1>7 DEF Atomic
<1> QED BY <1>1, <1>2, <1>3, <1>8 DEF Close

LEMMA SendPacketAtomic ==
    ASSUME NEW h, NEW B, HeapInv(h, {}, {}, B), NEW q \in Conns, h.fd[q] # NoFd,
           NEW g \in SendPacket(h, q)
    PROVE  Atomic(h, g)
<1>1. Atomic(h, Close(h, q))
  BY CloseAtomic
<1>2. Atomic(h, h) /\ Atomic(h, Backlog(h, q))
  BY DEF Atomic, Backlog, HeapInv, Heaps
<1> QED BY <1>1, <1>2 DEF SendPacket

LEMMA ReadDataAtomic ==
    ASSUME NEW h, HeapInv(h, {}, {}, {}), NEW o \in Conns, h.fd[o] # NoFd,
           NEW g \in ReadData(h, o)
    PROVE  Atomic(h, g)
<1>1. h.partner[o] \in Conns /\ h.fd[h.partner[o]] # NoFd
  BY LiveFacts
<1>2. Atomic(h, [h EXCEPT !.hashed = @ \cup {o}])
  BY DEF Atomic, HeapInv, Heaps
<1> QED BY <1>1, <1>2, SendPacketAtomic DEF ReadData

LEMMA EpollOutAtomic ==
    ASSUME NEW h, HeapInv(h, {}, {}, {}), NEW o \in Conns, h.fd[o] # NoFd,
           NEW g \in EpollOut(h, o) \cup {EpollCheck(h, o), Close(h, o)}
    PROVE  Atomic(h, g)
<1>1. Atomic(h, Close(h, o))
  BY CloseAtomic
<1>2. Atomic(h, EpollCheck(h, o)) /\ Atomic(h, EpollCheck([h EXCEPT !.queued = @ \ {o}], o))
  BY DEF Atomic, EpollCheck, HeapInv, Heaps
<1> QED BY <1>1, <1>2 DEF EpollOut

LEMMA ReceiveClientAtomic ==
    ASSUME NEW h, HeapInv(h, {}, {}, {}), NEW c \in Clients, h.fd[c] # NoFd,
           NEW g \in ReceiveClient(h, c)
    PROVE  Atomic(h, g)
<1>1. PICK a : a = h.partner[c]
  OBVIOUS
<1>2. PICK e : e = [h EXCEPT !.state[c] = "OK", !.timer = @ \ {c, h.partner[c]}]
  OBVIOUS
<1>3. HeapInv(e, {}, {}, {a})
  BY <1>1, <1>2, ConnectedInv
<1>4. e.fd = h.fd /\ e.partner = h.partner /\ e.state = [h.state EXCEPT ![c] = "OK"]
      /\ h.state \in [Conns -> {"DISCONNECT", "START", "OK"}]
  BY <1>2 DEF HeapInv, Heaps
<1>5. a \in Conns /\ a # Null /\ h.partner[a] = c /\ c \in Conns
  <2>1. c \in Conns
    BY DEF Conns
  <2> QED BY <1>1, <2>1, LiveFacts
<1>6. g \in SendHashBuffer(e, a)
  BY <1>1, <1>2, <1>5 DEF ReceiveClient
<1>7. PICK s \in {e} \cup SendPacket(e, c) : g = s \/ g = [s EXCEPT !.hashed = @ \ {a}]
  BY <1>4, <1>5, <1>6 DEF SendHashBuffer
<1>8. Atomic(e, s) /\ HeapInv(s, {}, {}, {a})
  <2>1. Atomic(e, e)
    BY DEF Atomic
  <2> QED BY <1>3, <1>4, <1>5, <1>7, <2>1, SendPacketAtomic, SendPacketInv
<1>9. g.fd = s.fd /\ g.partner = s.partner /\ g.state = s.state
  BY <1>7, <1>8 DEF HeapInv, Heaps
<1>10. \A o \in Conns : h.state[o] = "OK" => e.state[o] = "OK"
  BY <1>4, <1>5
<1> QED BY <1>4, <1>8, <1>9, <1>10 DEF Atomic

LEMMA ResetUntouched ==
    ASSUME NEW h \in Heaps, NEW o \in Conns
    PROVE  Untouched(h, Reset(h, o), {o}) /\ Reset(h, o) \in Heaps
<1>1. PICK g : g = Reset(h, o)
  OBVIOUS
<1>2. IsReset(h, o, g)
  BY <1>1, ResetFields
<1> QED BY <1>1, <1>2 DEF Untouched, IsReset, Heaps

\* Opening an Accept touches no other object.
LEMMA OpenAcceptUntouched ==
    ASSUME NEW h \in Heaps, NEW a \in Conns, NEW f \in Fds
    PROVE  Untouched(h, OpenAccept(h, a, f), {a})
<1>1. PICK e : e = Create(h, a)
  OBVIOUS
<1>2. IsCreate(h, a, e) /\ e \in Heaps
  BY <1>1, CreateFields DEF IsCreate
<1>3. Untouched(e, OpenAccept(h, a, f), {a})
  BY <1>1, <1>2 DEF Untouched, OpenAccept, Heaps
<1> QED BY <1>2, <1>3 DEF Untouched, IsCreate

\* A failed opening touches only the object that was to be opened.
LEMMA OpenFailsUntouched ==
    ASSUME NEW h, NEW X, HeapInv(h, {}, X, {}), NEW k \in Kinds, NEW o \in Creatable(h, k),
           NEW g \in {Close(Create(h, o), o), OpenFails(h, o)}
    PROVE  Untouched(h, g, {o}) /\ h.fd[o] = NoFd
<1>1. PICK e : e = Create(h, o)
  OBVIOUS
<1>2. /\ HeapInv(e, {}, X \cup {o}, {}) /\ IsCreate(h, o, e)
      /\ o \in Conns \ X /\ h.fd[o] = NoFd
  BY <1>1, CreateInv
<1>3. PICK d : d = [e EXCEPT !.fd[o] = NoFd]
  OBVIOUS
<1>4. e \in Heaps /\ d \in Heaps /\ e.partner[o] = Null /\ d.partner[o] = Null
  BY <1>2, <1>3 DEF HeapInv, Paired, Heaps
<1>5. Untouched(h, d, {o}) /\ Untouched(h, e, {o})
  BY <1>2, <1>3, <1>4 DEF Untouched, IsCreate, Heaps
<1>6. g \in {Reset(d, o), Reset(e, o)}
  BY <1>1, <1>3, <1>4 DEF OpenFails, Close
<1>7. Untouched(d, Reset(d, o), {o}) /\ Untouched(e, Reset(e, o), {o})
  BY <1>2, <1>4, ResetUntouched
<1> QED BY <1>2, <1>5, <1>6, <1>7 DEF Untouched

LEMMA OnReceiveAcceptAtomic ==
    ASSUME NEW h, NEW a, HeapInv(h, {}, {a}, {}), a \in Accepts,
           NEW g \in OnReceiveAccept(h, a)
    PROVE  \E c \in Conns : Untouched(h, g, {a, c}) /\ (c = a \/ h.fd[c] = NoFd)
<1>1. h \in Heaps /\ a \in Conns /\ h.partner[a] = Null
  BY DEF HeapInv, Paired
<1>2. ASSUME NEW e, HeapInv(e, {}, {a}, {})
      PROVE  Untouched(e, Close(e, a), {a})
  BY <1>1, <1>2, ResetUntouched DEF HeapInv, Paired, Close
<1>3. CASE g = Close(h, a)
  BY <1>1, <1>2, <1>3 DEF Untouched
<1>4. CASE g # Close(h, a)
  <2>1. g \in OpenPartner(h, a) /\ Creatable(h, "client") # {}
    BY <1>1, <1>4 DEF OnReceiveAccept, OpenPartner
  <2>2. PICK c \in Creatable(h, "client") :
          \/ \E e \in OpenClientFails(h, c) :
               g = IF WentIdle(h, e, a) THEN e ELSE Close(e, a)
          \/ \E f \in Fds \ h.open : g = SetPartners(OpenClient(h, c, f), a, c)
    BY <2>1 DEF OpenPartner
  <2>3. PICK b : b = Create(h, c)
    OBVIOUS
  <2>4. "client" \in Kinds
    BY DEF Kinds
  <2>5. /\ HeapInv(b, {}, {a} \cup {c}, {}) /\ IsCreate(h, c, b)
        /\ c \in Conns \ {a} /\ h.fd[c] = NoFd
    BY <2>3, <2>4, CreateInv
  <2>6. CASE \E f \in Fds \ h.open : g = SetPartners(OpenClient(h, c, f), a, c)
    <3>1. PICK f \in Fds \ h.open : g = SetPartners(OpenClient(h, c, f), a, c)
      BY <2>6
    <3>2. Untouched(b, g, {a, c})
      BY <1>1, <2>3, <2>5, <3>1 DEF Untouched, SetPartners, OpenClient, IsCreate, Heaps
    <3> QED BY <2>5, <3>2 DEF Untouched, IsCreate
  <2>7. CASE \E e \in OpenClientFails(h, c) :
               g = IF WentIdle(h, e, a) THEN e ELSE Close(e, a)
    <3>1. PICK e \in OpenClientFails(h, c) :
               g = IF WentIdle(h, e, a) THEN e ELSE Close(e, a)
      BY <2>7
    <3>2. HeapInv(e, {}, {a}, {})
      BY OpenClientFailsInv
    <3>3. PICK r : r = Close(Create(h, c), c)
      OBVIOUS
    <3>4. /\ Untouched(h, r, {c}) /\ Untouched(h, OpenFails(h, c), {c})
          /\ HeapInv(r, {}, {a}, {})
      BY <2>4, <3>3, OpenFailsUntouched, OpenFailsInv
    <3>5. Untouched(h, e, {c})
      <4>1. \/ e \in {r, OpenFails(h, c)}
            \/ \E f \in Fds : e = [r EXCEPT !.open = @ \cup {f}]
        BY <3>1, <3>3 DEF OpenClientFails
      <4>2. \A f \in Fds : Untouched(h, [r EXCEPT !.open = @ \cup {f}], {c})
        BY <3>4 DEF Untouched, HeapInv, Heaps
      <4> QED BY <3>4, <4>1, <4>2
    <3>6. Untouched(e, g, {a})
      BY <1>2, <3>1, <3>2 DEF Untouched
    <3> QED BY <2>5, <3>5, <3>6 DEF Untouched
  <2> QED BY <2>2, <2>6, <2>7
<1> QED BY <1>3, <1>4

=============================================================================
