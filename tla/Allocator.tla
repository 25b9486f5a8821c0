------------------------------ MODULE Allocator ------------------------------
(***************************************************************************)
(* What a pool promises its callers.  An object is given to one of them at *)
(* a time, an object that is given back can be given out again, and a      *)
(* caller is turned away only when every object is in use.                 *)
(*                                                                         *)
(* It takes the callers' word for it that an object comes back: for each   *)
(* time one is given back though it has no user, it may have one more user *)
(* at a time from then on.                                                 *)
(***************************************************************************)
EXTENDS Naturals

CONSTANTS
    Objects,
    Nothing         \* the answer to a caller that is turned away

VARIABLES
    users,          \* users[o]: how often o is out: given out, and not given back
    extra,          \* extra[o]: how often o has been given back without a user
    answer          \* what the last caller got

vars == <<users, extra, answer>>

Init ==
    /\ users = [o \in Objects |-> 0]
    /\ extra = [o \in Objects |-> 0]
    /\ answer = Nothing

Free(o) == users[o] < 1 + extra[o]

Take(o) ==
    /\ Free(o)
    /\ users' = [users EXCEPT ![o] = @ + 1]
    /\ answer' = o
    /\ UNCHANGED extra

Refuse ==
    /\ \A o \in Objects : ~Free(o)
    /\ answer' = Nothing
    /\ UNCHANGED <<users, extra>>

GiveBack(o) ==
    /\ users[o] > 0
    /\ users' = [users EXCEPT ![o] = @ - 1]
    /\ UNCHANGED <<extra, answer>>

GiveBackAgain(o) ==
    /\ users[o] = 0
    /\ extra' = [extra EXCEPT ![o] = @ + 1]
    /\ UNCHANGED <<users, answer>>

Next ==
    \/ Refuse
    \/ \E o \in Objects : Take(o) \/ GiveBack(o) \/ GiveBackAgain(o)

Spec == Init /\ [][Next]_vars

=============================================================================
