-------------------------------- MODULE Pool --------------------------------
(***************************************************************************)
(* ObjectPool.  A slot of m_objects is named by a handle: its index and a  *)
(* version of a few bits, which grows whenever the object is given back so *)
(* that the handles of its former users no longer fit.  A pool keeps the   *)
(* handles of the slots not in use, and may have deleted their objects.    *)
(*                                                                         *)
(* Callers keep handles, use them after the object is theirs no more, and  *)
(* give an object back by the handle they have, or by the one the object   *)
(* has, in ignorance of whether they still hold it, or anyone does.  What  *)
(* comes of that is part of the behaviour of the pool.                     *)
(***************************************************************************)
EXTENDS Naturals, Sequences

CONSTANTS
    MaxHash,        \* m_maxHashNumber
    Versions,       \* 2^16 in Object1616, 2^8 in Object0824
    None,           \* the null pointer
    MaxGiven        \* bound: how often a slot is given back

ASSUME PoolAssumption ==
    /\ MaxHash \in Nat
    /\ Versions \in Nat \ {0}
    /\ None \notin Nat
    /\ MaxGiven \in Nat

VARIABLES
    objects,        \* m_objects from index 1 on: the object's version, or None
    idle,           \* m_idleHandle
    answer,         \* the index of what create has returned last, 0 for NULL
    given,          \* history: how often each slot has been given back
    users,          \* history: how often each slot is out, given out and not given back
    extra           \* history: how often each has been given back while it was not out

vars == <<objects, idle, answer, given, users, extra>>

Indexes == 1 .. MaxHash
Handles == [index : Indexes, version : 0 .. Versions - 1]

TypeOK ==
    /\ objects \in Seq((0 .. Versions - 1) \cup {None})
    /\ Len(objects) <= MaxHash
    /\ idle \in Seq(Handles)
    /\ answer \in 0 .. MaxHash
    /\ given \in [Indexes -> 0 .. MaxGiven]
    /\ users \in [Indexes -> Nat] /\ extra \in [Indexes -> Nat]

Init ==
    /\ objects = <<>> /\ idle = <<>>
    /\ answer = 0
    /\ given = [i \in Indexes |-> 0]
    /\ users = [i \in Indexes |-> 0] /\ extra = [i \in Indexes |-> 0]

NextVersionUnwrapped(v) == v + 1

\* increaseVersion
NextVersion(v) == (v + 1) % Versions

\* get: the handle's object, if it is there and has this very handle.
Gets(h) == h.index \in DOMAIN objects /\ objects[h.index] = h.version

-----------------------------------------------------------------------------
(* create                                                                  *)

NotPopped == idle

Popped == SubSeq(idle, 1, Len(idle) - 1)

Answers(i) ==
    /\ answer' = i
    /\ users' = [users EXCEPT ![i] = @ + 1]
    /\ UNCHANGED <<given, extra>>

CreateIdleUnset ==
    /\ idle # <<>>
    /\ LET h == idle[Len(idle)] IN
        /\ objects' = [objects EXCEPT ![h.index] = IF @ = None THEN 0 ELSE @]
        /\ Answers(h.index)
    /\ idle' = Popped

\* The slot given back last, with its object or, if that was removed, a new one
\* with the handle kept for it.
CreateIdle ==
    /\ idle # <<>>
    /\ LET h == idle[Len(idle)] IN
        /\ objects' = [objects EXCEPT ![h.index] = IF @ = None THEN h.version ELSE @]
        /\ Answers(h.index)
    /\ idle' = Popped

NextIndex == Len(objects) + 1

CreateNew ==
    /\ idle = <<>> /\ NextIndex <= MaxHash
    /\ objects' = Append(objects, 0)
    /\ Answers(NextIndex)
    /\ UNCHANGED idle

CreateFails ==
    /\ idle = <<>> /\ NextIndex > MaxHash
    /\ answer' = 0
    /\ UNCHANGED <<objects, idle, given, users, extra>>

-----------------------------------------------------------------------------
(* idle and remove                                                         *)

GivenBack(i) ==
    /\ given[i] < MaxGiven /\ given' = [given EXCEPT ![i] = @ + 1]
    /\ IF users[i] > 0
       THEN users' = [users EXCEPT ![i] = @ - 1] /\ UNCHANGED extra
       ELSE extra' = [extra EXCEPT ![i] = @ + 1] /\ UNCHANGED users
    /\ UNCHANGED answer

\* What becomes of a handle when its object is given back.
NextHandle(h) == [h EXCEPT !.version = NextVersion(@)]

\* idle.  With a handle that is not current it does nothing; with one that is, the
\* object may be idle already.
Idle(h) ==
    /\ Gets(h)
    /\ objects' = [objects EXCEPT ![h.index] = NextVersion(@)]
    /\ idle' = Append(idle, NextHandle(h))
    /\ GivenBack(h.index)

\* remove: the object is deleted, and the slot is idle with its next handle.
Remove(h) ==
    /\ Gets(h)
    /\ objects' = [objects EXCEPT ![h.index] = None]
    /\ idle' = Append(idle, NextHandle(h))
    /\ GivenBack(h.index)

\* closeListener, closeAccept, closeClient and checkRemoveList give objects back by
\* any handle; nobody calls remove.
Next ==
    \/ CreateIdle
    \/ CreateNew
    \/ CreateFails
    \/ \E h \in Handles : Idle(h) \/ Remove(h)

Spec == Init /\ [][Next]_vars

-----------------------------------------------------------------------------
(* Properties                                                              *)

\* The handle slot i has, or had, when it has been given back g times.
HandleOf(i, g) == [index |-> i, version |-> g % Versions]

\* get finds a slot's object by the slot's latest handle, unless that still waits on the
\* idle list for a user, and no object by a handle from before the slot was last given
\* back, whatever has become of the slot: in use again, idle, idle twice, or removed
\* and made anew.  The exception is a handle out of date by all the versions, or a
\* multiple of that.
HandlesTell ==
    \A i \in Indexes :
        /\ i \in DOMAIN objects =>
            \/ Gets(HandleOf(i, given[i]))
            \/ \E k \in DOMAIN idle : idle[k] = HandleOf(i, given[i])
        /\ \A g \in 0 .. MaxGiven :
            g < given[i] /\ Gets(HandleOf(i, g)) => (given[i] - g) % Versions = 0

\* The pool is an allocator, whatever handles its callers use.  No object has two users,
\* but for one more each time that it was given back without a user, which idle and
\* remove do not notice; none is lost, and create fails only when all of
\* m_maxHashNumber objects are out.
Abstract == INSTANCE Allocator WITH Objects <- Indexes, Nothing <- 0
ImplementsAllocator == Abstract!Spec

=============================================================================
