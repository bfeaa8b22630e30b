---------------------------- MODULE Destinations ----------------------------
(***************************************************************************)
(* The names and the counters of a container's connections: containers/    *)
(* container.go, tcp_metrics.go and the destination keys of common/net.go. *)
(*                                                                         *)
(* A connection is known by the address it goes to until DNS, a TLS        *)
(* ClientHello or a request header names that address; its bytes, its      *)
(* retransmissions and its place in the gauge are counted under the labels *)
(* it has at the time.  The names are those of an abstract cache           *)
(* (NameCache) that may lose any of them; the resolver's own copy is kept. *)
(* Connection events of one descriptor are handled in order, after any     *)
(* delay; L7 events as they come.  Module Connections has the lifecycle of *)
(* the entries, with reordered events.                                     *)
(***************************************************************************)
EXTENDS Naturals, FiniteSets

CONSTANTS
    Conns,              \* connections, numbered in the order they open
    MaxBytes,           \* bytes one sends
    TrafficWorlds,      \* the environments to consider, see TrafficWorld
    NoDomain

\* What does not change: the descriptor, destination, post-NAT destination
\* and host of each connection, the addresses with a Kubernetes workload, the
\* filtered connections, those that fail, that send, that follow a lookup
\* and that carry a request, whether L7 events carry the socket tuple, and the
\* protocol of the requests.
TrafficWorld == [fd : [Conns -> STRING], dst : [Conns -> STRING], actual : [Conns -> STRING],
                 host : [Conns -> STRING], kube : SUBSET STRING, external : SUBSET STRING,
                 filtered : SUBSET Conns, failing : SUBSET Conns, sends : SUBSET Conns,
                 dns : SUBSET Conns, asks : SUBSET Conns,
                 tuple : SUBSET BOOLEAN, proto : STRING]

VARIABLES
    traffic,            \* a member of TrafficWorlds
    socket,             \* [Conns -> "new", "open", "closed", "failed"]
    sent,               \* [Conns -> bytes the kernel counted]
    opens, closes,      \* connections whose open or close event is under way
    domains,            \* ip2fqdn: [addresses -> name]
    dnsResolved,        \* the resolver's copy
    byPidFd,            \* connectionsByPidFd: [descriptors -> an entry]
    activeConnections,  \* the entries made by open events
    dstKey,             \* [entries -> DestinationKey]
    bytesSent,          \* [entries -> ActiveConnection.BytesSent]
    closedConns,        \* the entries with Closed set
    tcpSeries, knownLabels,
    failedSeries, lastConnectionAttempts,
    handledRequests,    \* [Conns -> requests handled]
    observedRequests,   \* [Conns -> requests counted]
    countedBytes        \* [entries -> bytes counted for it]

kernelVars == <<traffic, socket, sent>>
nameVars == <<domains, dnsResolved>>
entryVars == <<byPidFd, activeConnections, dstKey, bytesSent, closedConns>>
counterVars == <<tcpSeries, knownLabels, failedSeries, lastConnectionAttempts, countedBytes>>
requestVars == <<handledRequests, observedRequests>>
trafficVars == <<kernelVars, opens, closes, nameVars, entryVars, counterVars, requestVars>>

\* A connection is tracked by its open event or from a socket tuple.
Entries == Conns \X {"open", "tuple"}
NoEntry == <<0, "none">>
ConnOf(o) == o[1]
Fds == {traffic.fd[c] : c \in Conns}
Addrs == {traffic.dst[c] : c \in Conns} \cup {traffic.actual[c] : c \in Conns}
NoKey == [destination |-> NoDomain, workload |-> NoDomain, actual |-> NoDomain]

TrafficInit ==
    /\ traffic \in TrafficWorlds
    /\ socket = [c \in Conns |-> "new"] /\ sent = [c \in Conns |-> 0]
    /\ opens = {} /\ closes = {}
    /\ domains = [a \in Addrs |-> NoDomain] /\ dnsResolved = domains
    /\ byPidFd = [f \in Fds |-> NoEntry] /\ activeConnections = {} /\ closedConns = {}
    /\ dstKey = [o \in Entries |-> NoKey] /\ bytesSent = [o \in Entries |-> 0]
    /\ tcpSeries = {} /\ knownLabels = {} /\ failedSeries = {} /\ lastConnectionAttempts = {}
    /\ handledRequests = [c \in Conns |-> 0] /\ observedRequests = handledRequests
    /\ countedBytes = [o \in Entries |-> 0]
-----------------------------------------------------------------------------
(* Destination keys.                                                       *)

IsIpExternal(a) == a \in traffic.external
NeedsFQDN(name) == name \in Addrs

\* ResolveIP: the workload, the captured name or the address itself.
ResolveDst(a) ==
    IF a \in traffic.kube THEN "workload" ELSE IF dnsResolved[a] # NoDomain THEN dnsResolved[a] ELSE a

IsKubernetesResolved(name) == name = "workload"

WithResolvedDomain(key, fqdn) ==
    [key EXCEPT !.destination = fqdn,
                !.workload = IF IsKubernetesResolved(key.workload) THEN key.workload ELSE fqdn]

\* The name is looked up by the address before NAT.
NewDestinationKey(c) ==
    LET key == [destination |-> traffic.dst[c], workload |-> ResolveDst(traffic.dst[c]), actual |-> traffic.actual[c]]
        d == domains[traffic.dst[c]]
    IN  IF IsIpExternal(traffic.actual[c]) /\ d # NoDomain THEN WithResolvedDomain(key, d) ELSE key

\* enrichDestinationKey and migrateConnectionKeyIfNeeded, by the address
\* after NAT.
Enriched(key) ==
    IF NeedsFQDN(key.workload) /\ IsIpExternal(key.actual) /\ domains[key.actual] # NoDomain
    THEN WithResolvedDomain(key, domains[key.actual]) ELSE key

\* destinationLabelValue collapses a destination without a name to its
\* workload, if it has one.
LabelValue(key) ==
    IF key.destination \in Addrs /\ ~NeedsFQDN(key.workload) THEN "workload/" ELSE key.destination

TcpLabels(key) == [destination |-> LabelValue(key), workload |-> key.workload]

\* Publish what a handler learnt: Put and CacheDNS.
PutDomain(a, d) ==
    /\ domains' = [domains EXCEPT ![a] = d]
    /\ dnsResolved' = [dnsResolved EXCEPT ![a] = d]
-----------------------------------------------------------------------------
(* The kernel and DNS.                                                     *)

Connect(c) ==
    /\ socket[c] = "new"
    /\ \A b \in Conns : (b < c => socket[b] # "new") /\ (traffic.fd[b] = traffic.fd[c] => socket[b] # "open")
    /\ socket' = [socket EXCEPT ![c] = IF c \in traffic.failing THEN "failed" ELSE "open"]
    /\ opens' = opens \cup {c}
    /\ UNCHANGED <<traffic, sent, closes, nameVars, entryVars, counterVars, requestVars>>

Send(c) ==
    /\ socket[c] = "open" /\ c \in traffic.sends /\ sent[c] < MaxBytes
    /\ sent' = [sent EXCEPT ![c] = @ + 1]
    /\ UNCHANGED <<traffic, socket, opens, closes, nameVars, entryVars, counterVars, requestVars>>

CloseSocket(c) ==
    /\ socket[c] = "open"
    /\ socket' = [socket EXCEPT ![c] = "closed"]
    /\ closes' = closes \cup {c}
    /\ UNCHANGED <<traffic, sent, opens, nameVars, entryVars, counterVars, requestVars>>

\* A DNS answer, to the container or (handleHostDNSRequest) to any process.
OnDNS(c) ==
    /\ c \in traffic.dns
    /\ PutDomain(traffic.actual[c], traffic.host[c])
    /\ UNCHANGED <<kernelVars, opens, closes, entryVars, counterVars, requestVars>>

\* The cache drops a name.
ForgetDomain(a) ==
    /\ domains[a] # NoDomain
    /\ domains' = [domains EXCEPT ![a] = NoDomain]
    /\ UNCHANGED <<kernelVars, opens, closes, dnsResolved, entryVars, counterVars, requestVars>>
-----------------------------------------------------------------------------
(* Connection events and the sweep of the kernel's map.                    *)

\* ObserveConnectionOpen, ObserveRetransmission and ObserveTraffic.
ObserveLabels(key) ==
    /\ tcpSeries' = tcpSeries \cup {TcpLabels(key)}
    /\ knownLabels' = knownLabels \cup {TcpLabels(key)}

\* The events of earlier sockets on the descriptor are handled.
FdInOrder(c) == \A b \in opens \cup closes : b < c => traffic.fd[b] # traffic.fd[c]

OnConnectionOpen(c) ==
    LET key == NewDestinationKey(c)  o == <<c, "open">>  prev == byPidFd[traffic.fd[c]] IN
    /\ c \in opens /\ c \notin traffic.failing /\ FdInOrder(c)
    /\ opens' = opens \ {c}
    /\ IF c \in traffic.filtered THEN UNCHANGED <<entryVars, tcpSeries, knownLabels, lastConnectionAttempts>>
       ELSE /\ ObserveLabels(key)
            /\ lastConnectionAttempts' = lastConnectionAttempts \cup {key.destination}
            /\ activeConnections' = activeConnections \cup {o}
            /\ dstKey' = [dstKey EXCEPT ![o] = key]
            /\ closedConns' = closedConns \cup ({prev} \ {NoEntry})
            /\ byPidFd' = [byPidFd EXCEPT ![traffic.fd[c]] = o]
            /\ UNCHANGED bytesSent
    /\ UNCHANGED <<kernelVars, closes, nameVars, failedSeries, countedBytes, requestVars>>

OnConnectionFailed(c) ==
    /\ c \in opens /\ c \in traffic.failing /\ FdInOrder(c)
    /\ opens' = opens \ {c}
    /\ LET key == NewDestinationKey(c) IN
       /\ failedSeries' = failedSeries \cup {key.destination}
       /\ lastConnectionAttempts' = lastConnectionAttempts \cup {key.destination}
    /\ UNCHANGED <<kernelVars, closes, nameVars, entryVars, tcpSeries, knownLabels, countedBytes, requestVars>>

\* updateConnectionTrafficStats.
UpdateTraffic(o, n) ==
    LET key == Enriched(dstKey[o])
        delta == IF n > bytesSent[o] THEN n - bytesSent[o] ELSE 0
    IN  /\ dstKey' = [dstKey EXCEPT ![o] = key]
        /\ bytesSent' = [bytesSent EXCEPT ![o] = n]
        /\ countedBytes' = [countedBytes EXCEPT ![o] = @ + delta]
        /\ IF delta > 0 THEN ObserveLabels(key) ELSE UNCHANGED <<tcpSeries, knownLabels>>

\* Mutant of OnConnectionClose: the bytes since the last sweep are left out.
MutantOnConnectionClose(c) ==
    LET o == byPidFd[traffic.fd[c]] IN
    /\ c \in closes \ opens
    /\ closes' = closes \ {c}
    /\ closedConns' = IF o = NoEntry \/ ConnOf(o) # c THEN closedConns ELSE closedConns \cup {o}
    /\ UNCHANGED <<dstKey, bytesSent, countedBytes, tcpSeries, knownLabels>>
    /\ UNCHANGED <<kernelVars, opens, nameVars, byPidFd, activeConnections, failedSeries, lastConnectionAttempts,
                   requestVars>>

OnConnectionClose(c) ==
    LET o == byPidFd[traffic.fd[c]] IN
    /\ c \in closes \ opens
    /\ closes' = closes \ {c}
    /\ IF o = NoEntry \/ ConnOf(o) # c \/ o \in closedConns
       THEN UNCHANGED <<closedConns, dstKey, bytesSent, countedBytes, tcpSeries, knownLabels>>
       ELSE UpdateTraffic(o, sent[c]) /\ closedConns' = closedConns \cup {o}
    /\ UNCHANGED <<kernelVars, opens, nameVars, byPidFd, activeConnections, failedSeries, lastConnectionAttempts,
                   requestVars>>

\* updateTrafficStats, for an open socket of the kernel's map: the entry is
\* found by pid and fd alone.
UpdateTrafficStats(c) ==
    /\ socket[c] = "open" /\ byPidFd[traffic.fd[c]] # NoEntry
    /\ UpdateTraffic(byPidFd[traffic.fd[c]], sent[c])
    /\ UNCHANGED <<kernelVars, opens, closes, nameVars, byPidFd, activeConnections, closedConns, failedSeries,
                   lastConnectionAttempts, requestVars>>

OnRetransmission(c) ==
    /\ <<c, "open">> \in activeConnections
    /\ ObserveLabels(dstKey[<<c, "open">>])
    /\ UNCHANGED <<kernelVars, opens, closes, nameVars, entryVars, failedSeries, lastConnectionAttempts,
                   countedBytes, requestVars>>
-----------------------------------------------------------------------------
(* L7 events.                                                              *)

\* Mutant of IsSocket: an entry on the descriptor is taken for the socket.
MutantIsSocket(o, c, tuple) == TRUE

\* Without a tuple there is nothing to compare.
IsSocket(o, c, tuple) == tuple => traffic.dst[ConnOf(o)] = traffic.dst[c]

\* onL7RequestWithResult, for a ClientHello.
OnClientHello(c, tuple) ==
    LET o == byPidFd[traffic.fd[c]]
        mine == o # NoEntry /\ IsSocket(o, c, tuple)
        destIP == IF mine THEN dstKey[o].actual ELSE IF tuple THEN traffic.dst[c] ELSE NoDomain
    IN  /\ socket[c] = "open"
        /\ IsIpExternal(destIP)
        /\ dstKey' = IF mine /\ NeedsFQDN(dstKey[o].workload)
                     THEN [dstKey EXCEPT ![o] = WithResolvedDomain(@, traffic.host[c])] ELSE dstKey
        /\ PutDomain(destIP, traffic.host[c])
        /\ UNCHANGED <<kernelVars, opens, closes, byPidFd, activeConnections, bytesSent, closedConns, counterVars,
                       requestVars>>

\* The entry a request of connection c is attributed to: the tracked one, or
\* one made from the tuple when that is missing or older.  No request is
\* handled on a newer one, or without a tuple before the open event.
EntryFor(c, tuple) ==
    LET o == byPidFd[traffic.fd[c]] IN
    IF o # NoEntry /\ ConnOf(o) >= c THEN o
    ELSE IF tuple /\ c \notin traffic.filtered THEN <<c, "tuple">> ELSE NoEntry

\* The entry's key once the tuple's entry is made (createConnectionFromSocketInfo)
\* and what the cache knows is applied.
KeyFor(c, o) == Enriched(IF o = byPidFd[traffic.fd[c]] THEN dstKey[o] ELSE NewDestinationKey(c))

\* HTTP/2 returns as soon as :authority has named the destination.
Observed(late) == ~(late /\ traffic.proto = "HTTP2")

\* A request whose header names the host; HTTP/1 counts it under the new key.
OnRequest(c, tuple) ==
    LET f == traffic.fd[c]
        o == EntryFor(c, tuple)
        key == KeyFor(c, o)
        late == NeedsFQDN(key.workload) /\ IsIpExternal(key.actual)
    IN  /\ socket[c] \in {"open", "closed"} /\ c \in traffic.asks /\ handledRequests[c] = 0
        /\ o # NoEntry /\ ConnOf(o) = c
        /\ handledRequests' = [handledRequests EXCEPT ![c] = 1]
        /\ observedRequests' = [observedRequests EXCEPT ![c] = IF Observed(late) THEN @ + 1 ELSE @]
        /\ dstKey' = [dstKey EXCEPT ![o] = IF late THEN WithResolvedDomain(key, traffic.host[c]) ELSE key]
        /\ closedConns' = closedConns \cup (IF o # byPidFd[f] THEN {byPidFd[f]} \ {NoEntry} ELSE {})
        /\ byPidFd' = [byPidFd EXCEPT ![f] = o]
        /\ IF late THEN PutDomain(key.actual, traffic.host[c]) ELSE UNCHANGED nameVars
        /\ UNCHANGED <<kernelVars, opens, closes, activeConnections, bytesSent, counterVars>>
-----------------------------------------------------------------------------
(* Eviction and garbage collection.                                        *)

OpenEntries == activeConnections \ closedConns

\* activeCounterLabelKeys.
ActiveLabels == {TcpLabels(Enriched(dstKey[o])) : o \in OpenEntries}

\* evictStaleCounterLabels.
EvictStaleLabels ==
    /\ tcpSeries' = tcpSeries \ (knownLabels \ ActiveLabels)
    /\ knownLabels' = knownLabels \cap ActiveLabels
    /\ failedSeries' = failedSeries \cap lastConnectionAttempts
    /\ UNCHANGED <<kernelVars, opens, closes, nameVars, entryVars, lastConnectionAttempts, countedBytes, requestVars>>

\* gc, once gcInterval has passed since the events it looks at: closed
\* entries go, and attempts to destinations without an open entry.
GcConnections ==
    LET established == {dstKey[o].destination : o \in OpenEntries} IN
    /\ activeConnections' = OpenEntries
    /\ byPidFd' = [f \in Fds |-> IF byPidFd[f] \in closedConns THEN NoEntry ELSE byPidFd[f]]
    /\ lastConnectionAttempts' = lastConnectionAttempts \cap established
    /\ <<activeConnections, byPidFd, lastConnectionAttempts>> # <<activeConnections, byPidFd, lastConnectionAttempts>>'
    /\ UNCHANGED <<kernelVars, opens, closes, nameVars, dstKey, bytesSent, closedConns, tcpSeries, knownLabels,
                   failedSeries, countedBytes, requestVars>>

TrafficNext ==
    \/ \E c \in Conns :
         \/ Connect(c) \/ Send(c) \/ CloseSocket(c) \/ OnDNS(c)
         \/ OnConnectionOpen(c) \/ OnConnectionFailed(c) \/ OnConnectionClose(c)
         \/ UpdateTrafficStats(c) \/ OnRetransmission(c)
         \/ \E tuple \in traffic.tuple : OnClientHello(c, tuple) \/ OnRequest(c, tuple)
    \/ \E a \in Addrs : ForgetDomain(a)
    \/ EvictStaleLabels \/ GcConnections
-----------------------------------------------------------------------------
(* Properties.                                                             *)

HostsOf(a) == {traffic.host[c] : c \in {b \in Conns : a \in {traffic.actual[b], traffic.dst[b]}}}

\* An address is only ever named after a host it serves, and a connection
\* after one its own address serves: "Naming its address after this
\* ClientHello's host is how a resolver came to be named after whatever host
\* was connected to right after resolving it" (container.go:1212).  Events
\* carry the socket tuple.
NamedAfterOwnHost ==
    FALSE \notin traffic.tuple =>
       /\ \A a \in Addrs : domains[a] \in HostsOf(a) \cup {NoDomain}
       /\ \A o \in Entries :
            dstKey[o].destination \in HostsOf(dstKey[o].actual) \cup Addrs \cup {NoDomain}

\* "removes CounterVec entries for destinations that no longer have active
\* connections" (registry.go:840): the series a named, open connection counts
\* under stays, so its counters never restart.
OpenSeriesKept ==
    \A o \in OpenEntries :
      (TcpLabels(dstKey[o]) \in tcpSeries /\ ~NeedsFQDN(dstKey[o].workload)) =>
         TcpLabels(dstKey[o]) \in tcpSeries'

AloneOnFd(c) == \A b \in Conns \ {c} : traffic.fd[b] # traffic.fd[c]

\* Between the sweeps, which count while it is open, and the close event,
\* which counts the rest, each byte of a connection counts once.  (Of one
\* that has its descriptor to itself and is tracked by its open event only: an
\* entry made from a request's tuple counts the same bytes again.)
ClosedBytesExact ==
    \A c \in Conns :
      (AloneOnFd(c) /\ socket[c] = "closed" /\ c \notin opens \cup closes /\ c \notin traffic.filtered
         /\ dstKey[<<c, "tuple">>] = NoKey) => countedBytes[<<c, "open">>] = sent[c]

\* The bytes of a connection count once, under a series that stays while the
\* connection is open.
TrafficCounted == [][ClosedBytesExact' /\ OpenSeriesKept]_trafficVars

\* "lets those late resolutions reach the span, which is what l7Stats.observe
\* already gets by running after the migration" (container.go:1369): a
\* request is counted, whichever header named its destination.
RequestsObserved == handledRequests = observedRequests

\* "Migrate connection key from IP to FQDN if DNS is now available"
\* (container.go:1328): an open connection whose address keeps its name gets
\* it, traffic or not, because the sweep visits it.
OpenConnectionNamed ==
    \A c \in Conns :
      (/\ byPidFd[traffic.fd[c]] = <<c, "open">> /\ socket[c] = "open" /\ IsIpExternal(traffic.actual[c])
       /\ domains[traffic.actual[c]] # NoDomain)
      ~> (\/ ~NeedsFQDN(dstKey[<<c, "open">>].workload)
          \/ socket[c] # "open" \/ domains[traffic.actual[c]] = NoDomain)
=============================================================================
