------------------------------- MODULE Listens -------------------------------
(***************************************************************************)
(* The addresses a container listens on: onListenOpen, onListenClose,      *)
(* getListens, and revalidateListens with the socket tables gc reads       *)
(* (src/containers/container.go).                                          *)
(*                                                                         *)
(* The kernel says when a socket starts to listen and when it is closed;   *)
(* either may be lost.  A process may die before the registry hears of it. *)
(* Sockets of other containers in the same network namespace (Other) are   *)
(* in the tables gc reads, too.                                            *)
(***************************************************************************)
EXTENDS Naturals, Sequences, FiniteSets

CONSTANTS ListenPids, ListenAddrs, ListenWorlds

VARIABLES
    listenWorld,    \* whether events are lost and sockets inherited, and how many sockets at most
    listeners,      \* address to the pids that hold its socket
    heldBy,         \* history: the addresses each pid ever held
    listenProcs,    \* processes by where they are: "none", "alive", "dead"
    registered,     \* c.processes
    listenEvents,   \* listen events under way
    listensMade,
    listens         \* c.listens: address and pid to its details

listensVars == <<listenWorld, listeners, heldBy, listenProcs, registered, listenEvents, listensMade, listens>>

Other == 0
NoListen == [state |-> "none", ips |-> FALSE]
ListensInit ==
    /\ listenWorld \in ListenWorlds
    /\ listeners = [a \in ListenAddrs |-> {}] /\ heldBy = {}
    /\ listenProcs = [p \in ListenPids |-> "none"] /\ registered = {}
    /\ listenEvents = <<>> /\ listensMade = 0
    /\ listens = [a \in ListenAddrs, p \in ListenPids |-> NoListen]

AliveProcs == {p \in ListenPids : listenProcs[p] = "alive"}
-----------------------------------------------------------------------------
(* The host.                                                               *)

TellListen(type, a, p) ==
    \/ listenEvents' = Append(listenEvents, [type |-> type, addr |-> a, pid |-> p])
    \/ listenWorld.lossy /\ UNCHANGED listenEvents

\* A process starts, and is registered.
SpawnListener(p) ==
    /\ listenProcs[p] = "none"
    /\ listenProcs' = [listenProcs EXCEPT ![p] = "alive"]
    /\ registered' = registered \cup {p}
    /\ UNCHANGED <<listenWorld, listeners, heldBy, listenEvents, listensMade, listens>>

StartListen(p, a) ==
    /\ listeners[a] = {} /\ listensMade < listenWorld.sockets
    /\ p = Other \/ p \in AliveProcs
    /\ listeners' = [listeners EXCEPT ![a] = {p}]
    /\ heldBy' = heldBy \cup {<<a, p>>}
    /\ listensMade' = listensMade + 1
    /\ IF p = Other THEN UNCHANGED listenEvents ELSE TellListen("open", a, p)
    /\ UNCHANGED <<listenWorld, listenProcs, registered, listens>>

InheritListen(p, a) ==
    /\ listenWorld.inherits /\ p \in AliveProcs \ listeners[a] /\ listeners[a] \cap AliveProcs # {}
    /\ listeners' = [listeners EXCEPT ![a] = @ \cup {p}]
    /\ heldBy' = heldBy \cup {<<a, p>>}
    /\ UNCHANGED <<listenWorld, listenProcs, registered, listenEvents, listensMade, listens>>

\* Whoever closes a socket last closes it.
StopListen(p, a) ==
    /\ p \in listeners[a]
    /\ listeners' = [listeners EXCEPT ![a] = @ \ {p}]
    /\ IF listeners[a] = {p} /\ p # Other THEN TellListen("close", a, p) ELSE UNCHANGED listenEvents
    /\ UNCHANGED <<listenWorld, heldBy, listenProcs, registered, listensMade, listens>>

ListenerDies(p) ==
    /\ p \in AliveProcs /\ \A a \in ListenAddrs : p \notin listeners[a]
    /\ listenProcs' = [listenProcs EXCEPT ![p] = "dead"]
    /\ UNCHANGED <<listenWorld, listeners, heldBy, registered, listenEvents, listensMade, listens>>
-----------------------------------------------------------------------------
(* The container.                                                          *)

\* onListenOpen: the addresses of the namespace are read while the process
\* lives.
OpenDetails(p) == [state |-> "open", ips |-> p \in AliveProcs]

OnListenOpen(i) ==
    LET e == listenEvents[i] IN
    /\ i = 1 /\ e.type = "open"
    /\ listens' = IF e.pid \in registered THEN [listens EXCEPT ![e.addr, e.pid] = OpenDetails(e.pid)] ELSE listens
    /\ listenEvents' = Tail(listenEvents)
    /\ UNCHANGED <<listenWorld, listeners, heldBy, listenProcs, registered, listensMade>>

OnListenClose(i) ==
    LET e == listenEvents[i] IN
    /\ i = 1 /\ e.type = "close"
    /\ listens' = IF e.pid \in registered /\ listens[e.addr, e.pid].state # "none"
                  THEN [listens EXCEPT ![e.addr, e.pid].state = "closed"] ELSE listens
    /\ listenEvents' = Tail(listenEvents)
    /\ UNCHANGED <<listenWorld, listeners, heldBy, listenProcs, registered, listensMade>>

\* The exit of a process is handled.
OnListenerExit(p) ==
    /\ p \in registered /\ listenProcs[p] = "dead"
    /\ registered' = registered \ {p}
    /\ UNCHANGED <<listenWorld, listeners, heldBy, listenProcs, listenEvents, listensMade, listens>>

\* gc reads the socket table of one process of the namespace, whichever comes
\* first; that of a dead process, or of none, is empty.
ActualListens(p) == IF p \in AliveProcs THEN {a \in ListenAddrs : listeners[a] # {}} ELSE {}

\* The first loop of revalidateListens: an address that is gone was closed now.
Outdated(actual, d, a) == IF a \notin actual /\ d.state = "open" THEN [d EXCEPT !.state = "closing"] ELSE d

\* The processes of the container with the address's socket among their fds.
Holder(a) == listeners[a] \cap registered \cap AliveProcs

\* Mutant of Missing: only an address that was seen before is looked for.
MutantMissing(actual, a) ==
    /\ a \in actual /\ \E p \in ListenPids : listens[a, p].state # "none"
    /\ \A p \in ListenPids : listens[a, p].state # "open"

\* An address that is there but not open in c.listens.
Missing(actual, a) == a \in actual /\ \A p \in ListenPids : listens[a, p].state # "open"

\* Closed for longer than gcInterval: at the second pass after it was closed.
ListenExpired(d) == d.state = "old"

Aged(d) == CASE ListenExpired(d) -> NoListen
             [] ~ListenExpired(d) /\ d.state = "closed" -> [d EXCEPT !.state = "old"]
             [] ~ListenExpired(d) /\ d.state = "closing" -> [d EXCEPT !.state = "closed"]
             [] OTHER -> d

\* revalidateListens: outdated addresses, missing ones, old entries.
RevalidateListens ==
    /\ \E p \in IF registered = {} THEN {Other} ELSE registered : LET actual == ActualListens(p) IN
       \E found \in [ListenAddrs -> ListenPids \cup {Other}] :
         /\ \A a \in ListenAddrs : IF Missing(actual, a) /\ Holder(a) # {} THEN found[a] \in Holder(a) ELSE found[a] = Other
         /\ listens' = [ap \in DOMAIN listens |->
                          IF found[ap[1]] = ap[2] THEN OpenDetails(ap[2]) ELSE Aged(Outdated(actual, listens[ap], ap[1]))]
    /\ UNCHANGED <<listenWorld, listeners, heldBy, listenProcs, registered, listenEvents, listensMade>>

\* getListens: what a scrape reports as open.
Reported(a) ==
    /\ \E p \in registered : listens[a, p].state = "open"
    /\ \E p \in registered : listens[a, p].ips

ListensNext ==
    \/ \E p \in ListenPids : SpawnListener(p) \/ ListenerDies(p) \/ OnListenerExit(p)
    \/ \E p \in ListenPids \cup {Other}, a \in ListenAddrs : StartListen(p, a) \/ StopListen(p, a)
    \/ \E p \in ListenPids, a \in ListenAddrs : InheritListen(p, a)
    \/ \E i \in 1..Len(listenEvents) : OnListenOpen(i) \/ OnListenClose(i)
    \/ RevalidateListens

ListensSpec == ListensInit /\ [][ListensNext]_listensVars

\* The registry handles events, an exit is noticed, and gc runs every interval.
ListensLiveSpec ==
    /\ ListensSpec
    /\ WF_listensVars(\E i \in 1..Len(listenEvents) : OnListenOpen(i) \/ OnListenClose(i))
    /\ \A p \in ListenPids : WF_listensVars(OnListenerExit(p))
    /\ WF_listensVars(RevalidateListens)
-----------------------------------------------------------------------------
(* Properties.                                                             *)

\* revalidateListens takes the open entry of a process that is gone for the
\* address's listener, and getListens leaves it out.
Masked(a) == \E p \in ListenPids \ registered : listens[a, p].state = "open"

\* A container is given no address its processes never listened on, though gc
\* reads the sockets of the whole network namespace.
OnlyOwnListens == \A a \in ListenAddrs, p \in ListenPids : listens[a, p].state # "none" => <<a, p>> \in heldBy

\* An address a process of the container listens on is reported, whatever
\* events were lost and whichever process's socket table gc read, unless an
\* entry some process left open when it exited stands in its way (Masked).
ListenReported ==
    \A a \in ListenAddrs, p \in ListenPids :
      (listeners[a] = {p}) ~> (Reported(a) \/ Masked(a) \/ listeners[a] # {p})

\* An address nobody listens on any more is not reported as open for good.
ClosedNotReported == \A a \in ListenAddrs : (listeners[a] = {}) ~> (~Reported(a) \/ listeners[a] # {})

\* What is reported follows what the container's processes listen on: all of
\* it, nothing else, and not for longer.
ListensFollow == []OnlyOwnListens /\ ListenReported /\ ClosedNotReported
=============================================================================
