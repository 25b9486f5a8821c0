------------------------------ MODULE MCProxy ------------------------------
(* Instances of Proxy for TLC. *)
EXTENDS Proxy, TLC

\* The slots of one kind, and the descriptors, are interchangeable.
Symmetry ==
    Permutations(Accepts) \cup Permutations(Clients) \cup Permutations(Fds)

\* What follows the first misfire is left to the runs that are about it.
UpToMisfire == ~misfired

\* After misfires an idle list can hold a slot any number of times.
IdleBound == \A k \in Kinds : Len(heap.idle[k]) <= 3

=============================================================================
