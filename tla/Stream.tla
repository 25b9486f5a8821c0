------------------------------- MODULE Stream -------------------------------
(***************************************************************************)
(* What a session promises: two byte streams in opposite directions, each  *)
(* delivered in order, without loss, duplication or invention, for as long *)
(* as the session is open.  A session that closes may drop what it has not *)
(* delivered, and delivers nothing more.                                   *)
(***************************************************************************)
EXTENDS Naturals, Sequences

CONSTANT Bytes      \* what a peer can send

VARIABLES
    sent,   \* sent[e]: what the peer at end e has sent to the proxy
    got,    \* got[e]: what the proxy has passed on to the peer at end e
    open    \* the session exists

streamVars == <<sent, got, open>>

\* The peers of a session: who connected to the proxy, and its destination.
Ends == {"front", "back"}
Other(e) == IF e = "front" THEN "back" ELSE "front"

StreamInit ==
    /\ sent = [e \in Ends |-> <<>>]
    /\ got = [e \in Ends |-> <<>>]
    /\ open = TRUE

Send(e) ==
    /\ open
    /\ \E b \in Bytes : sent' = [sent EXCEPT ![e] = Append(@, b)]
    /\ UNCHANGED <<got, open>>

\* Some bytes from the other end, the next ones in order, are delivered at end e.
Deliver(e) ==
    /\ open
    /\ \E n \in Len(got[e]) + 1 .. Len(sent[Other(e)]) :
          got' = [got EXCEPT ![e] = SubSeq(sent[Other(e)], 1, n)]
    /\ UNCHANGED <<sent, open>>

Close ==
    /\ open
    /\ open' = FALSE
    /\ UNCHANGED <<sent, got>>

StreamNext == \/ \E e \in Ends : Send(e) \/ Deliver(e)
              \/ Close

StreamSpec == StreamInit /\ [][StreamNext]_streamVars

=============================================================================
