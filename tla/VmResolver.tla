----------------------------- MODULE VmResolver -----------------------------
(***************************************************************************)
(* The resolver of a host that is no Kubernetes node,                      *)
(* src/common/vm_resolver.go.                                              *)
(*                                                                         *)
(* The host's addresses move, MaxMoves times; the resolver lists them when *)
(* it starts and every minute until it is stopped.  A listing may fail,    *)
(* and what it returns may be old when it is stored.                       *)
(***************************************************************************)
EXTENDS Naturals

CONSTANTS
    HostAddresses,  \* addresses the host may have
    Private,        \* those in private ranges
    DnsNames,
    MaxMoves, MaxListFailures

VARIABLES
    hostAddrs,      \* the addresses the host has
    moves, listFailures,
    watcher,        \* "new", "listing", "listed", "waiting", "stopped"
    listed,         \* what the listing under way returned
    localIPs,       \* the set the resolver publishes
    hostStop,       \* the stop signal
    vmDns           \* [addresses with a captured name -> name]

vmVars == <<hostAddrs, moves, listFailures, watcher, listed, localIPs, hostStop, vmDns>>

\* NewVMIPResolver.
VmInit ==
    /\ hostAddrs \in SUBSET HostAddresses
    /\ moves = 0 /\ listFailures = 0
    /\ watcher = "new" /\ listed = {} /\ localIPs = {} /\ hostStop = FALSE
    /\ vmDns = <<>>

\* DHCP or an interface change.
MoveAddress ==
    /\ moves < MaxMoves
    /\ moves' = moves + 1
    /\ hostAddrs' \in SUBSET HostAddresses \ {hostAddrs}
    /\ UNCHANGED <<listFailures, watcher, listed, localIPs, hostStop, vmDns>>

\* StartWatching, and each tick of its loop.  When the stop signal is up as
\* well, the select may take either.
StartListing ==
    /\ watcher \in {"new", "waiting"}
    /\ watcher' = "listing"
    /\ UNCHANGED <<hostAddrs, moves, listFailures, listed, localIPs, hostStop, vmDns>>

ListLocalIPs ==
    /\ watcher = "listing"
    /\ watcher' = "listed" /\ listed' = hostAddrs
    /\ UNCHANGED <<hostAddrs, moves, listFailures, localIPs, hostStop, vmDns>>

ListFails ==
    /\ watcher = "listing" /\ listFailures < MaxListFailures
    /\ listFailures' = listFailures + 1
    /\ watcher' = "waiting"
    /\ UNCHANGED <<hostAddrs, moves, listed, localIPs, hostStop, vmDns>>

StoreLocalIPs ==
    /\ watcher = "listed"
    /\ localIPs' = listed /\ watcher' = "waiting" /\ listed' = {}
    /\ UNCHANGED <<hostAddrs, moves, listFailures, hostStop, vmDns>>

StopWatching ==
    /\ watcher # "new" /\ ~hostStop
    /\ hostStop' = TRUE
    /\ UNCHANGED <<hostAddrs, moves, listFailures, watcher, listed, localIPs, vmDns>>

WatchLoopEnds ==
    /\ watcher = "waiting" /\ hostStop
    /\ watcher' = "stopped"
    /\ UNCHANGED <<hostAddrs, moves, listFailures, listed, localIPs, hostStop, vmDns>>

CacheVmDNS(a, d) ==
    /\ vmDns' = [x \in DOMAIN vmDns \cup {a} |-> IF x = a THEN d ELSE vmDns[x]]
    /\ UNCHANGED <<hostAddrs, moves, listFailures, watcher, listed, localIPs, hostStop>>

VmNext ==
    \/ MoveAddress \/ StartListing \/ ListLocalIPs \/ ListFails \/ StoreLocalIPs
    \/ StopWatching \/ WatchLoopEnds
    \/ \E a \in HostAddresses, d \in DnsNames : CacheVmDNS(a, d)
-----------------------------------------------------------------------------
\* ResolveIP and ResolveActualIP.  Loopback addresses are left out.
ResolveVmIP(a) ==
    IF a \in localIPs THEN [name |-> "host", kind |-> "vm"]
    ELSE [name |-> IF a \in DOMAIN vmDns THEN vmDns[a] ELSE a,
          kind |-> IF a \in Private THEN "private" ELSE "external"]

\* ResolveSource: the container, whichever address it sends from.
ResolveVmSource(a, container) == IF container = "" THEN ResolveVmIP(a) ELSE [name |-> container, kind |-> "container"]
-----------------------------------------------------------------------------
(* Properties.                                                             *)

\* "it is re-read periodically because DHCP and interface changes move them"
\* (vm_resolver.go:40): unless the agent stops, the host's name ends up on
\* exactly the addresses the host has, whatever name DNS gave them, and an
\* address it gave up is named as a peer's again.
HostAddressesNamed ==
    <>[](hostStop \/ {a \in HostAddresses : ResolveVmIP(a).kind = "vm"} = hostAddrs)
=============================================================================
