------------------------------- MODULE Startup -------------------------------
(***************************************************************************)
(* How the proxy gets its destinations and its Listener.  readConfig reads *)
(* the lines of config.ini into a map, initConfig makes m_listenInfo and   *)
(* m_destinations of it, and openListener opens the one Listener.  Then    *)
(* the loop runs: every new connection gets the next destination, and the  *)
(* Listener may be removed.                                                *)
(*                                                                         *)
(* A line is what its first 1023 characters say: it assigns a value to a   *)
(* key, or it is a comment, is blank or assigns to a key nobody asks for.  *)
(* The keys that start with "des" are numbered in the order of the map.    *)
(***************************************************************************)
EXTENDS Naturals, Sequences, FiniteSets

CONSTANTS
    DesKeys,        \* the keys that start with "des", as numbers
    Listen,         \* the key "listen"
    Other,          \* what an ignored line assigns to
    Addresses,      \* the values "ip:port"
    NoAddress,      \* a value without ":"; an address nobody has set
    MaxLines        \* bound: the lines of the file

ASSUME StartupAssumption ==
    /\ DesKeys \subseteq Nat
    /\ Listen \notin DesKeys /\ Other \notin DesKeys \cup {Listen}
    /\ NoAddress \notin Addresses
    /\ MaxLines \in Nat

VARIABLES
    file,           \* config.ini, as its lines
    found,          \* it can be opened
    line,           \* how many lines have been read
    failed,         \* the stream's failbit is set
    configMap,      \* the keys that have a value, and it
    listenInfo,     \* m_listenInfo
    destinations,   \* m_destinations
    desIndex,       \* m_desIndex
    lead,           \* history: how often each destination has been given out, less the
                    \* number of times all of them have
    listener,       \* the Listener, its descriptor and its place in m_pListenerPool
    at              \* "reading", "parsing", "opening" or "running"

config == <<file, found, line, failed, configMap>>
vars == <<config, listenInfo, destinations, desIndex, lead, listener, at>>

Values == Addresses \cup {NoAddress}
Keys == DesKeys \cup {Listen}

\* fits: it has at most 1023 characters.
Lines ==
    [key : Keys, value : Values, fits : BOOLEAN]
    \cup [key : {Other}, value : {NoAddress}, fits : BOOLEAN]

Listeners == [held : BOOLEAN,       \* m_fd is not 0
              open : BOOLEAN,       \* its descriptor is open
              watched : BOOLEAN,    \* and registered with epoll
              idle : Nat]           \* how often its slot is in m_idleHandle

TypeOK ==
    /\ file \in Seq(Lines) /\ Len(file) <= MaxLines
    /\ found \in BOOLEAN /\ failed \in BOOLEAN
    /\ line \in 0 .. Len(file)
    /\ DOMAIN configMap \subseteq Keys
    /\ \A k \in DOMAIN configMap : configMap[k] \in Values
    /\ listenInfo \in Values
    /\ destinations \in Seq(Values) /\ lead \in Seq(Nat)
    /\ Len(lead) = Len(destinations) /\ desIndex \in 0 .. Len(destinations)
    /\ listener \in Listeners
    /\ at \in {"reading", "parsing", "opening", "running"}

Unopened == [held |-> FALSE, open |-> FALSE, watched |-> FALSE, idle |-> 0]

Init ==
    /\ \E n \in 0 .. MaxLines : file \in [1 .. n -> Lines]
    /\ found \in BOOLEAN
    /\ line = 0 /\ failed = FALSE
    /\ configMap = <<>>
    /\ listenInfo = NoAddress
    /\ destinations = <<>> /\ lead = <<>> /\ desIndex = 0
    /\ listener = Unopened
    /\ at = "reading"

-----------------------------------------------------------------------------
(* readConfig                                                              *)

NoFileUnchecked ==
    /\ at = "reading" /\ ~found
    /\ failed' = TRUE
    /\ UNCHANGED <<file, found, line, configMap, listenInfo, destinations, desIndex,
                   lead, listener, at>>

NoFile ==
    /\ at = "reading" /\ ~found
    /\ at' = "parsing"
    /\ UNCHANGED config /\ UNCHANGED <<listenInfo, destinations, desIndex, lead, listener>>

PutFirst(k, v) ==
    configMap' = [j \in DOMAIN configMap \cup {k} |->
                     IF j \in DOMAIN configMap THEN configMap[j] ELSE v]

\* tokenMap[key] = value
Put(k, v) ==
    configMap' = [j \in DOMAIN configMap \cup {k} |-> IF j = k THEN v ELSE configMap[j]]

\* A line that fits is followed by another or by the end of the file; getline of one
\* that does not fit sets failbit.
ReadLine ==
    /\ at = "reading" /\ found /\ ~failed /\ line < Len(file)
    /\ line' = line + 1
    /\ LET l == file[line'] IN
        /\ IF l.key = Other THEN UNCHANGED configMap ELSE Put(l.key, l.value)
        /\ failed' = ~l.fits
    /\ UNCHANGED <<file, found, listenInfo, destinations, desIndex, lead, listener, at>>

\* With failbit set getline reads nothing: the end of the file is not found.
ReadNothing ==
    /\ at = "reading" /\ failed
    /\ UNCHANGED vars

EndOfFile ==
    /\ at = "reading" /\ found /\ ~failed /\ line = Len(file)
    /\ at' = "parsing"
    /\ UNCHANGED config /\ UNCHANGED <<listenInfo, destinations, desIndex, lead, listener>>

-----------------------------------------------------------------------------
(* initConfig                                                              *)

\* What parse_ip_port may leave in a SocketInformation that nobody has set before.
Parsed(v) == IF v = NoAddress THEN Values ELSE {v}

\* The keys that start with "des" and have a value, in the order of the map.
Given == DesKeys \cap DOMAIN configMap
Marked ==
    CHOOSE s \in [1 .. Cardinality(Given) -> Given] :
        \A i, j \in DOMAIN s : i < j => s[i] < s[j]

\* Without "listen" nothing is configured.
ConfigFails ==
    /\ at = "parsing" /\ Listen \notin DOMAIN configMap
    /\ at' = "opening"
    /\ UNCHANGED config /\ UNCHANGED <<listenInfo, destinations, desIndex, lead, listener>>

InitConfig ==
    /\ at = "parsing" /\ Listen \in DOMAIN configMap
    /\ listenInfo' = configMap[Listen]
    /\ destinations' \in {d \in [DOMAIN Marked -> Values] :
                             \A i \in DOMAIN d : d[i] \in Parsed(configMap[Marked[i]])}
    /\ lead' = [i \in DOMAIN Marked |-> 0]
    /\ at' = "opening"
    /\ UNCHANGED config /\ UNCHANGED <<desIndex, listener>>

-----------------------------------------------------------------------------
(* openListener                                                            *)

CloseSocket(l) ==
    IF l.held THEN [l EXCEPT !.held = FALSE, !.open = FALSE, !.watched = FALSE] ELSE l

\* closeListener: objectRemove, resetData, and the slot is idle.
CloseListener(l) == [CloseSocket(l) EXCEPT !.idle = @ + 1]

SocketUnclosed(l) == [l EXCEPT !.open = TRUE]

\* openSocket fails, at socket, or later and closes the descriptor.
SocketFailed(l) == l

SocketOpened(l) == [l EXCEPT !.held = TRUE, !.open = TRUE]

\* What openListener may leave; initialize goes on in any case.
OpenListener ==
    /\ at = "opening"
    /\ listener' \in {CloseListener(SocketFailed(listener)),
                      CloseListener(CloseSocket(SocketOpened(listener))),
                      [SocketOpened(listener) EXCEPT !.watched = TRUE]}
    /\ at' = "running"
    /\ UNCHANGED config /\ UNCHANGED <<listenInfo, destinations, desIndex, lead>>

-----------------------------------------------------------------------------
(* Running                                                                 *)

\* accept fails for good: epollRemove.
RemoveListener ==
    /\ at = "running" /\ listener.watched
    /\ listener' = CloseListener(listener)
    /\ UNCHANGED config /\ UNCHANGED <<listenInfo, destinations, desIndex, lead, at>>

NextIndexEarly == IF desIndex >= Len(destinations) - 1 THEN 0 ELSE desIndex

NextIndexUnreset == desIndex

NextIndex == IF desIndex >= Len(destinations) THEN 0 ELSE desIndex

\* The count of each, once destination i is given out.
LeadAfter(i) ==
    LET l == [lead EXCEPT ![i] = @ + 1] IN
    IF \E j \in DOMAIN l : l[j] = 0 THEN l ELSE [j \in DOMAIN l |-> l[j] - 1]

\* getNextDestination, for a new connection.
NextDestination ==
    /\ at = "running" /\ listener.watched
    /\ IF destinations = <<>> THEN UNCHANGED <<desIndex, lead>>
       ELSE desIndex' = NextIndex + 1 /\ lead' = LeadAfter(NextIndex + 1)
    /\ UNCHANGED config /\ UNCHANGED <<listenInfo, destinations, listener, at>>

\* The loop without a Listener: nothing happens any more.
Idling == at = "running" /\ ~listener.watched /\ UNCHANGED vars

Next ==
    \/ NoFile
    \/ ReadLine
    \/ ReadNothing
    \/ EndOfFile
    \/ ConfigFails
    \/ InitConfig
    \/ OpenListener
    \/ RemoveListener
    \/ NextDestination
    \/ Idling

Spec == Init /\ [][Next]_vars

\* The thread goes on through initialize, whatever the file holds.
FairSpec ==
    Spec /\ WF_vars(NoFile \/ ReadLine \/ EndOfFile \/ ConfigFails \/ InitConfig \/ OpenListener)

-----------------------------------------------------------------------------
(* Properties                                                              *)

\* What the file assigns to key k: the last line for it says.
Assigned(k) == found /\ \E i \in DOMAIN file : file[i].key = k
LastLine(k) ==
    CHOOSE i \in DOMAIN file :
        file[i].key = k /\ \A j \in DOMAIN file : file[j].key = k => j <= i
Configured(k) == file[LastLine(k)].value

\* A running proxy has the destinations of config.ini and no others: one for each key
\* that starts with "des", in the order of the keys, with the address last assigned to
\* it; none at all, as long as nothing is assigned to "listen".  (An entry without an
\* address has one nobody can tell.)
DestinationsAsConfigured ==
    at = "running" =>
        LET given == {k \in DesKeys : Assigned(k) /\ Assigned(Listen)} IN
        /\ Len(destinations) = Cardinality(given)
        /\ \A k \in given :
            LET i == Cardinality({j \in given : j <= k}) IN
            destinations[i] = Configured(k) \/ Configured(k) = NoAddress

\* "Help you balance the network load" (README.md:6): no destination has been given to
\* two connections more than another.
Balanced == \A i \in DOMAIN lead : lead[i] <= 1

\* Once initialize is over the Listener is open, with a descriptor of its own that
\* epoll knows, or it is gone and has left no descriptor behind and its slot idle
\* once, whichever call failed and whenever it was removed.
ListenerWhole ==
    at = "running" =>
        IF listener.held THEN listener.open /\ listener.watched /\ listener.idle = 0
        ELSE ~listener.open /\ ~listener.watched /\ listener.idle = 1

\* If each line fits, initialize comes to its end, and the loop runs.  (One line that
\* does not, and readConfig never returns.)
StartsUp == (\A i \in DOMAIN file : file[i].fits) ~> at = "running"

=============================================================================
