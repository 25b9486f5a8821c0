------------------------------- MODULE Timer -------------------------------
(***************************************************************************)
(* The timers of the event loop.  Timer keeps one list per time count, in  *)
(* the order the objects were added, and m_waitTimeout, the time of day at *)
(* which the loop has to be awake.  Proxy::update asks how long that is,   *)
(* sleeps in epoll_wait at most so long, runs handlers, and calls the      *)
(* timers that are due.  Handlers and callbacks set and clear any timers.  *)
(*                                                                         *)
(* The clock is gettimeofday: it goes on between any two steps and may     *)
(* also be set, ClockSteps says how often.  epoll_wait measures its        *)
(* timeout by itself.  The links of a list are abstracted to a sequence,   *)
(* and m_index to the order in which the objects were last added.          *)
(***************************************************************************)
EXTENDS Integers, SequencesExt

CONSTANTS
    Objects,        \* the TimerObjects
    Counts,         \* the time counts asked for, in ms
    Returns,        \* the time counts callbacks return, when it is not -1
    PoolSize,       \* how many lists m_pPool may create
    None,           \* the null pointer
    MaxInt,         \* INT_MAX
    MaxInt64,
    MaxTime,        \* bound: the last time of day
    ClockSteps      \* bound: 0, the clock is never set; 1, once; 3, any number of times

ASSUME TimerAssumption ==
    /\ IsFiniteSet(Objects)
    /\ Counts \subseteq Nat \ {0}
    /\ Returns \subseteq Counts
    /\ PoolSize \in Nat
    /\ None \notin Counts
    /\ MaxTime \in Nat /\ MaxInt64 \in Nat /\ MaxInt \in Nat
    /\ MaxTime < MaxInt64
    /\ \A n \in Counts : n <= MaxInt /\ MaxTime + n < MaxInt64
    /\ ClockSteps \in Nat

VARIABLES
    clock,          \* get_time_ms()
    lists,          \* lists[n]: the objects of the list for n, from m_pHead on
    listed,         \* the keys of m_timerListMap
    inList,         \* m_pTimerList, as its time count
    condition,      \* m_condition: when the object is due
    order,          \* the objects by m_index
    waitTimeout,    \* m_waitTimeout
    due,            \* the objects of Timer::update not called yet
    left,           \* how long epoll_wait still waits; MaxInt64 for ever
    at,             \* "loop", "asleep", "handlers" or "updating"
    updated,        \* history: current_time of Timer::update, up to the next wake
    latest,         \* history: the latest time the clock has shown
    reset           \* history: how the clock has been set: "forward", "back"

timers == <<lists, listed, inList, condition, order, waitTimeout>>
vars == <<clock, lists, listed, inList, condition, order, waitTimeout,
          due, left, at, updated, latest, reset>>

Members(s) == {s[i] : i \in DOMAIN s}
Least(m, n) == IF m <= n THEN m ELSE n
Position(s, o) == CHOOSE i \in DOMAIN s : s[i] = o
Without(s, o) == IF o \in Members(s) THEN RemoveAt(s, Position(s, o)) ELSE s

\* isActive
Active == {o \in Objects : inList[o] # None}

TypeOK ==
    /\ clock \in 0 .. MaxTime /\ updated \in 0 .. MaxTime
    /\ latest \in clock .. MaxTime /\ reset \subseteq {"forward", "back"}
    /\ lists \in [Counts -> Seq(Objects)] /\ listed \subseteq Counts
    /\ inList \in [Objects -> Counts \cup {None}]
    /\ condition \in [Objects -> 0 .. MaxInt64 - 1]
    /\ order \in Seq(Objects) /\ due \in Seq(Objects)
    /\ waitTimeout \in 0 .. MaxInt64 /\ left \in 0 .. MaxInt64
    /\ at \in {"loop", "asleep", "handlers", "updating"}

Init ==
    /\ clock = 0 /\ updated = 0 /\ latest = 0 /\ reset = {}
    /\ lists = [n \in Counts |-> <<>>] /\ listed = {}
    /\ inList = [o \in Objects |-> None]
    /\ condition = [o \in Objects |-> 0]
    /\ order = <<>> /\ due = <<>>
    /\ waitTimeout = MaxInt64 /\ left = 0
    /\ at = "loop"

-----------------------------------------------------------------------------
(* Time                                                                    *)

Tick ==
    /\ clock < MaxTime
    /\ clock' = clock + 1
    /\ latest' = IF clock' > latest THEN clock' ELSE latest
    /\ left' = IF left \in {0, MaxInt64} THEN left ELSE left - 1
    /\ UNCHANGED timers /\ UNCHANGED <<due, at, updated, reset>>

\* The time of day is set.  Bound: the directions it has been set in.
SetClock ==
    /\ Cardinality(reset) < ClockSteps
    /\ \E t \in 0 .. MaxTime \ {clock} :
        /\ clock' = t
        /\ latest' = IF t > latest THEN t ELSE latest
        /\ reset' = reset \cup {IF t > clock THEN "forward" ELSE "back"}
    /\ UNCHANGED timers /\ UNCHANGED <<due, left, at, updated>>

-----------------------------------------------------------------------------
(* Proxy::update up to Timer::update                                       *)

WaitTimeAsStored == waitTimeout

WaitTimeUnclamped == IF waitTimeout = MaxInt64 THEN MaxInt64 ELSE waitTimeout - clock

\* getWaitTimeout.
WaitTime ==
    IF waitTimeout = MaxInt64 THEN MaxInt64
    ELSE IF waitTimeout > clock THEN waitTimeout - clock ELSE 0

TimeoutUnclamped == waitTimeout - clock

\* The timeout epoll_wait gets: Epoll::update takes the int64 as an int, and any
\* negative one means for ever.
Timeout ==
    LET w == WaitTime % (2 * (MaxInt + 1)) IN
    IF WaitTime = MaxInt64 \/ w > MaxInt THEN MaxInt64 ELSE w

Sleep ==
    /\ at = "loop"
    /\ left' = Timeout
    /\ at' = "asleep"
    /\ UNCHANGED timers /\ UNCHANGED <<clock, due, updated, latest, reset>>

\* epoll_wait returns: its time is up, or there are events, which may come at any
\* time.
Wake ==
    /\ at = "asleep"
    /\ at' = "handlers" /\ left' = 0 /\ updated' = 0
    /\ UNCHANGED timers /\ UNCHANGED <<clock, due, latest, reset>>

-----------------------------------------------------------------------------
(* Setting and clearing, by TimerList::add and remove and Timer::timerAdd  *)

TakenOut(o) ==
    IF inList[o] = None THEN lists
    ELSE [lists EXCEPT ![inList[o]] = Without(@, o)]

AddUnremoved(o, n) ==
    /\ lists' = [lists EXCEPT ![n] = Append(@, o)]
    /\ inList' = [inList EXCEPT ![o] = n]
    /\ condition' = [condition EXCEPT ![o] = clock + n]
    /\ order' = Append(Without(order, o), o)

AddFirst(o, n) ==
    /\ lists' = [TakenOut(o) EXCEPT ![n] = <<o>> \o @]
    /\ inList' = [inList EXCEPT ![o] = n]
    /\ condition' = [condition EXCEPT ![o] = clock + n]
    /\ order' = Append(Without(order, o), o)

\* TimerList::add: out of its old list, and last in the list for n.
Add(o, n) ==
    /\ lists' = [TakenOut(o) EXCEPT ![n] = Append(@, o)]
    /\ inList' = [inList EXCEPT ![o] = n]
    /\ condition' = [condition EXCEPT ![o] = clock + n]
    /\ order' = Append(Without(order, o), o)

\* timerAdd.  When the list for n has to be made and cannot, the object has lost
\* its old timer and gets no new one.
TimerAdd(o, n) ==
    \/ /\ n \in listed \/ Cardinality(listed) < PoolSize
       /\ Add(o, n)
       /\ listed' = listed \cup {n}
       /\ waitTimeout' = Least(waitTimeout, clock + n)
    \/ /\ n \notin listed /\ Cardinality(listed) >= PoolSize
       /\ lists' = TakenOut(o)
       /\ inList' = [inList EXCEPT ![o] = None]
       /\ UNCHANGED <<listed, condition, order, waitTimeout>>

\* A handler runs, or the timerCallback of Head(due).  It may set and clear the
\* timer of any object, its own too.
Running == at = "handlers" \/ (at = "updating" /\ due # <<>>)

SetTimer(o, n) ==
    /\ Running
    /\ TimerAdd(o, n)
    /\ UNCHANGED <<clock, due, left, at, updated, latest, reset>>

ClearTimer(o) ==
    /\ Running /\ inList[o] # None
    /\ lists' = TakenOut(o)
    /\ inList' = [inList EXCEPT ![o] = None]
    /\ UNCHANGED <<clock, listed, condition, order, waitTimeout, due, left, at, updated,
                   latest, reset>>

-----------------------------------------------------------------------------
(* Timer::update                                                           *)

PassedBefore(o) == condition[o] < clock

\* The test of TimerList::update on a node.
Passed(o) == condition[o] <= clock

\* How many nodes of list n are taken off: those before the first that is not due.
DueLength(n) ==
    CHOOSE k \in 0 .. Len(lists[n]) :
        /\ \A i \in 1 .. k : Passed(lists[n][i])
        /\ k < Len(lists[n]) => ~Passed(lists[n][k + 1])

DueIn(n) == Members(SubSeq(lists[n], 1, DueLength(n)))
DueObjects == UNION {DueIn(n) : n \in listed}

Remaining(n) == SubSeq(lists[n], DueLength(n) + 1, Len(lists[n]))

HeadConditions == {condition[Head(Remaining(n))] : n \in {m \in listed : Remaining(m) # <<>>}}

NearestForgotten == MaxInt64

\* m_waitTimeout after recordWaitTimeout of each list's getHeadCondition.
NearestHead ==
    IF HeadConditions = {} THEN MaxInt64
    ELSE CHOOSE c \in HeadConditions : \A d \in HeadConditions : c <= d

\* What std::sort makes of the objects O.
ByIndex(O) ==
    {s \in [1 .. Cardinality(O) -> O] : \A i, j \in DOMAIN s :
        i < j => Position(order, s[i]) < Position(order, s[j])}

\* It is not time yet.
UpdateEarly ==
    /\ at = "handlers" /\ waitTimeout > clock
    /\ at' = "loop" /\ updated' = clock
    /\ UNCHANGED timers /\ UNCHANGED <<clock, due, left, latest, reset>>

\* The due nodes leave their lists and are sorted by m_index, to be called.
Update ==
    /\ at = "handlers" /\ waitTimeout <= clock
    /\ waitTimeout' = NearestHead
    /\ due' \in ByIndex(DueObjects)
    /\ lists' = [n \in Counts |-> IF n \in listed THEN Remaining(n) ELSE lists[n]]
    /\ inList' = [o \in Objects |-> IF o \in DueObjects THEN None ELSE inList[o]]
    /\ at' = IF DueObjects = {} THEN "loop" ELSE "updating"
    /\ updated' = clock
    /\ UNCHANGED <<clock, listed, condition, order, left, latest, reset>>

\* timerCallback returned -1, or a time count for an object that has a timer again:
\* nothing more is done.
CallbackEnds ==
    /\ at = "updating" /\ due # <<>>
    /\ due' = Tail(due)
    /\ UNCHANGED timers /\ UNCHANGED <<clock, left, at, updated, latest, reset>>

\* timerCallback returned a time count and left the object without a timer: it is
\* added again, to its old list or by timerAdd.
CallbackAgain ==
    /\ at = "updating" /\ due # <<>> /\ inList[Head(due)] = None
    /\ \E n \in Returns : TimerAdd(Head(due), n)
    /\ due' = Tail(due)
    /\ UNCHANGED <<clock, left, at, updated, latest, reset>>

\* checkRemoveList: empty lists go back to the pool.
EndUpdate ==
    /\ at = "updating" /\ due = <<>>
    /\ listed' = {n \in listed : lists[n] # <<>>}
    /\ at' = "loop"
    /\ UNCHANGED <<clock, lists, inList, condition, order, waitTimeout,
                   due, left, updated, latest, reset>>

Next ==
    \/ Tick
    \/ SetClock
    \/ Sleep
    \/ Wake
    \/ \E o \in Objects : ClearTimer(o) \/ \E n \in Counts : SetTimer(o, n)
    \/ UpdateEarly
    \/ Update
    \/ CallbackEnds
    \/ CallbackAgain
    \/ EndUpdate

Spec == Init /\ [][Next]_vars

-----------------------------------------------------------------------------
(* Properties                                                              *)

\* An object is in the list that its m_pTimerList says, once, and in no other; an
\* object in a list can be found by m_timerListMap.  Otherwise clearTimer would
\* unlink it from a list it is not in.
TimersFiled ==
    /\ \A n \in Counts :
        /\ \A i \in DOMAIN lists[n] : inList[lists[n][i]] = n
        /\ \A i, j \in DOMAIN lists[n] : lists[n][i] = lists[n][j] => i = j
        /\ lists[n] # <<>> => n \in listed
    /\ \A o \in Active : o \in Members(lists[inList[o]])

\* A list is in the order its objects are due, unless the clock was set back:
\* TimerList::update stops at the first that is not, and Timer::update records only
\* the heads.
InOrder ==
    "back" \notin reset =>
        \A n \in Counts : \A i, j \in DOMAIN lists[n] :
            i < j => condition[lists[n][i]] <= condition[lists[n][j]]

\* m_waitTimeout is the nearest timeout (timer.h:173), or earlier: no active timer
\* is due before it.  (It is not once the clock was set back: a timer added then can
\* be due before the head of its list.)
NearestTimeout == "back" \notin reset => \A o \in Active : waitTimeout <= condition[o]

\* The loop does not sleep past a timer, whatever ran between its being set and
\* the sleep, while nobody sets the clock.
NoOversleep ==
    at = "asleep" /\ reset = {} =>
        \A o \in Active : left <= (IF condition[o] > clock THEN condition[o] - clock ELSE 0)

\* Timer::update leaves no timer behind that was due when it looked, also when it
\* returns early, and also when callbacks set and cleared timers in between.
NoneOverdue ==
    at \in {"loop", "asleep"} /\ "back" \notin reset =>
        \A o \in Active : condition[o] > updated

\* However the clock is set, while a timer runs the loop goes to sleep for no longer
\* than some time count and as long as the clock is behind; so it does not for ever.
\* The exception is the code's: m_waitTimeout is further off than an int can say, after
\* the clock was set back by nearly that.
SleepBounded ==
    [][at = "loop" /\ at' = "asleep" /\ Active # {} =>
        \/ \E n \in Counts : left' <= n + (latest - clock)
        \/ waitTimeout > clock + MaxInt]_vars

-----------------------------------------------------------------------------
(* Liveness                                                                *)

\* Time passes, the thread goes on, handlers and callbacks return, and epoll_wait
\* returns when its time is up.
Fairness ==
    /\ WF_vars(Tick)
    /\ WF_vars(Sleep) /\ WF_vars(Wake /\ left = 0)
    /\ WF_vars(UpdateEarly \/ Update)
    /\ WF_vars(CallbackEnds \/ CallbackAgain) /\ WF_vars(EndUpdate)

FairSpec == Spec /\ Fairness

Overdue(o) == inList[o] # None /\ condition[o] <= clock

\* A timer whose time has come is called, cleared or set again, even if no event ever
\* wakes the loop and whatever the callbacks before it do, if nobody sets the clock.
NoneForgotten == \A o \in Objects : Overdue(o) ~> ~Overdue(o) \/ reset # {}

=============================================================================
