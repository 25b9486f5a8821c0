\* Three time counts, lists for two of them; the clock may be set, and an int holds the
\* timeout but for the longest count and the clock set back all the way.
SPECIFICATION FairSpec
CONSTANTS
    Objects = {o1, o2}
    Counts = {1, 2, 3}
    Returns = {2}
    PoolSize = 2
    None = None
    MaxInt = 5
    MaxInt64 = 10
    MaxTime = 3
    ClockSteps = 1
INVARIANTS
    TypeOK
    TimersFiled
    InOrder
    NearestTimeout
    NoOversleep
    NoneOverdue
PROPERTIES
    SleepBounded
    NoneForgotten
