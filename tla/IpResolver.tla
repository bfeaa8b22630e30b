----------------------------- MODULE IpResolver -----------------------------
(***************************************************************************)
(* How addresses get names in a cluster (src/common/ip_resolver.go).       *)
(*                                                                         *)
(* An informer per kind of object calls its handlers from a goroutine of   *)
(* its own.  The handlers keep a snapshot of the objects and two maps from *)
(* addresses to workloads: ipsMap (a pod's top-level owner, a node, a      *)
(* service) and podIpsMap (the pod itself).  Beside them StartWatching     *)
(* builds the maps once more from the snapshot, and the collector asks for *)
(* the owner of a pod by name.                                             *)
(*                                                                         *)
(* There is one node and one service.  A pod is its UID.  A workload is    *)
(* its kind and name (id), whether region and zone are known (zoned), and  *)
(* the object it was made from (by).                                       *)
(***************************************************************************)
EXTENDS Naturals, FiniteSets

CONSTANTS
    Pods, Owners, Ips,
    maxOwnerChainDepth,
    ClusterWorlds       \* the clusters explored, see ClusterWorld

NoOne == "none"

(* What is in a cluster: pods, their addresses and names, the controller   *)
(* of a pod or an owner, the owners' kinds, which ReplicaSets carry a pod   *)
(* template hash, the address of the node and of the service, the addresses *)
(* DNS answers name, whether owners come and go, and whether a pod deleted  *)
(* and created again under its name reaches the agent as one update.        *)
ClusterWorld ==
    [pods : SUBSET Pods, ips : SUBSET Ips, name : [Pods -> STRING],
     owner : [Pods \cup Owners -> Owners \cup {NoOne}], kind : [Owners -> STRING],
     hashed : SUBSET Owners, nodeIp : Ips \cup {NoOne}, serviceIp : Ips \cup {NoOne},
     dns : SUBSET Ips, owned : BOOLEAN, relisted : BOOLEAN]

VARIABLES
    cluster,        \* the world chosen at the start
    \* the objects in the API server
    pod,            \* [Pods -> state and address]
    node, service,  \* "none", "up" or "gone"
    owners,         \* [Owners -> the same]
    \* what the informers have delivered
    seenPod,        \* [Pods -> delivered or not, and the address]
    \* the resolver
    Snapshot,       \* snapshot.Pods: [Pods -> stored or not, and the address]
    PodNameIndex, PodDescriptors,
    nodeKnown, nodeMeta, serviceKnown, ownerCache,
    ipsMap, podIpsMap,
    dnsResolvedIps, \* the addresses with a name from DNS
    \* goroutines between two steps
    publishing,     \* handlePodAdd
    owning,         \* ResolvePodOwner
    building,       \* updateIpMapping
    ghosts          \* history: what updateIpMapping may store though it is gone

clusterVars == <<cluster, pod, node, service, owners, dnsResolvedIps>>
snapshotVars == <<seenPod, Snapshot, PodNameIndex, PodDescriptors, nodeKnown, nodeMeta, serviceKnown, ownerCache>>
mapVars == <<ipsMap, podIpsMap>>
resolverVars == <<clusterVars, snapshotVars, mapVars, publishing, owning, building, ghosts>>

NoWorkload == [id |-> <<NoOne, NoOne>>, zoned |-> FALSE, by |-> NoOne]
Unset == [uid |-> NoOne, ip |-> NoOne, entry |-> NoWorkload]
Unknown == [known |-> FALSE, ip |-> NoOne]
Absent == [state |-> "none", ip |-> NoOne]
Names == {cluster.name[u] : u \in Pods}

ResolverInit ==
    /\ cluster \in ClusterWorlds
    /\ pod = [u \in Pods |-> Absent]
    /\ node = "none" /\ service = "none" /\ owners = [o \in Owners |-> "none"]
    /\ seenPod = [u \in Pods |-> Unknown]
    /\ Snapshot = [u \in Pods |-> Unknown]
    /\ PodNameIndex = [n \in Names |-> NoOne]
    /\ PodDescriptors = [u \in Pods |-> NoWorkload]
    /\ nodeKnown = FALSE /\ nodeMeta = FALSE /\ serviceKnown = FALSE /\ ownerCache = {}
    /\ ipsMap = [ip \in Ips |-> NoWorkload]
    /\ podIpsMap = [ip \in Ips |-> NoOne]
    /\ dnsResolvedIps = {}
    /\ publishing = Unset
    /\ owning = Unset
    /\ building = [pc |-> IF cluster.serviceIp = NoOne /\ cluster.nodeIp = NoOne THEN "pods" ELSE "services",
                  seen |-> {}, hold |-> Unset]
    /\ ghosts = {}
-----------------------------------------------------------------------------
(* External: the API server.                                               *)

InCluster(u) == pod[u].state \in {"running", "done"}

ChangePod(u, p) ==
    /\ pod' = [pod EXCEPT ![u] = p]
    /\ UNCHANGED <<cluster, node, service, owners, dnsResolvedIps, snapshotVars, mapVars, publishing, owning, building, ghosts>>

PodCreated(u) ==
    /\ u \in cluster.pods /\ pod[u].state = "none"
    /\ \A v \in Pods : InCluster(v) => cluster.name[v] # cluster.name[u]
    /\ ChangePod(u, [state |-> "running", ip |-> NoOne])

\* A pod that is done keeps its address in its status, which is free again.
PodStarted(u, ip) ==
    /\ pod[u].state = "running"
    /\ \A v \in Pods : pod[v].state = "running" => pod[v].ip # ip
    /\ ChangePod(u, [pod[u] EXCEPT !.ip = ip])

PodDone(u) ==
    /\ pod[u].state = "running" /\ pod[u].ip # NoOne
    /\ ChangePod(u, [pod[u] EXCEPT !.state = "done"])

PodDeleted(u) ==
    /\ InCluster(u)
    /\ ChangePod(u, [state |-> "gone", ip |-> NoOne])

Lifecycle(s) == CASE s = "none" -> "up" [] s = "up" -> "gone" [] OTHER -> s

NodeChanged ==
    /\ cluster.nodeIp # NoOne
    /\ node' = Lifecycle(node) /\ node' # node
    /\ UNCHANGED <<cluster, pod, service, owners, dnsResolvedIps, snapshotVars, mapVars, publishing, owning, building, ghosts>>

ServiceChanged ==
    /\ cluster.serviceIp # NoOne
    /\ service' = Lifecycle(service) /\ service' # service
    /\ UNCHANGED <<cluster, pod, node, owners, dnsResolvedIps, snapshotVars, mapVars, publishing, owning, building, ghosts>>

OwnerChanged(o) ==
    /\ cluster.owned
    /\ owners' = [owners EXCEPT ![o] = Lifecycle(@)] /\ owners' # owners
    /\ UNCHANGED <<cluster, pod, node, service, dnsResolvedIps, snapshotVars, mapVars, publishing, owning, building, ghosts>>
-----------------------------------------------------------------------------
(* The name of a pod's workload.                                           *)

\* The kinds getControllerOfOwner keeps a map of.
Tracked == {"ReplicaSet", "DaemonSet", "StatefulSet", "Job", "Deployment", "CronJob"}

\* Mutant of Climb: an owner missing from the cache is taken as the top.
MutantClimb(u, cache) ==
    LET climb[d \in 0..maxOwnerChainDepth] ==
          IF d = 0 THEN [at |-> cluster.owner[u], cacheable |-> TRUE]
          ELSE LET c == climb[d - 1]
                   next == IF c.at \in cache THEN cluster.owner[c.at] ELSE NoOne
               IN  IF next = NoOne THEN c ELSE [c EXCEPT !.at = next]
    IN  climb[maxOwnerChainDepth]

\* The climb from a pod's controller to the top of the chain: it stops where
\* there is no controller, where the kind is not tracked, and where an owner
\* is not cached, which may be different the next time.
Climb(u, cache) ==
    LET climb[d \in 0..maxOwnerChainDepth] ==
          IF d = 0 THEN [at |-> cluster.owner[u], cacheable |-> TRUE]
          ELSE LET c == climb[d - 1] IN
               CASE cluster.kind[c.at] \notin Tracked -> c
                 [] cluster.kind[c.at] \in Tracked /\ c.at \notin cache -> [c EXCEPT !.cacheable = FALSE]
                 [] OTHER -> IF cluster.owner[c.at] = NoOne THEN c ELSE [c EXCEPT !.at = cluster.owner[c.at]]
    IN  climb[maxOwnerChainDepth]

\* Bare pods and standalone Jobs share a name taken from labels.
Aggregated(kind, name) == <<kind, IF kind \in {"pod", "Job"} THEN "ephemeral" ELSE name>>

\* A ReplicaSet named by a Deployment goes by the Deployment's name, a runner
\* by its scale set's.
Identity(o) ==
    IF cluster.kind[o] = "ReplicaSet" /\ o \in cluster.hashed
    THEN <<"Deployment", cluster.owner[o]>>
    ELSE IF cluster.kind[o] = "EphemeralRunner" THEN <<"AutoscalingRunnerSet", "scale set">>
    ELSE Aggregated(cluster.kind[o], o)

\* resolvePodDescriptor without the memo: the workload, and may it be kept.
Describe(u, cache, zoned) ==
    IF cluster.owner[u] = NoOne
    THEN [workload |-> [id |-> Aggregated("pod", cluster.name[u]), zoned |-> zoned, by |-> u],
          cacheable |-> TRUE]
    ELSE LET c == Climb(u, cache) IN
         [workload |-> [id |-> Identity(c.at), zoned |-> zoned, by |-> u], cacheable |-> c.cacheable]

\* resolvePodDescriptor
ResolvedTo(u) ==
    IF PodDescriptors[u] # NoWorkload
    THEN [workload |-> PodDescriptors[u], cacheable |-> FALSE]
    ELSE Describe(u, ownerCache, nodeMeta)

Memoize(u, r) ==
    PodDescriptors' = IF r.cacheable THEN [PodDescriptors EXCEPT ![u] = r.workload] ELSE PodDescriptors

\* storeWorkloadsIP: a node is only replaced by a node.
StoreWorkload(map, ip, w) ==
    IF map[ip].id[1] = "node" /\ w.id[1] # "node" THEN map ELSE [map EXCEPT ![ip] = w]
-----------------------------------------------------------------------------
(* Handlers.                                                               *)

\* A field of the object an update or delete no longer has.
Without(map, ip) == IF ip = NoOne THEN map ELSE [map EXCEPT ![ip] = NoOne]

\* handlePodAdd up to the descriptor; the addresses are stored by PublishPod.
\* old is the pod the informer had under the name, or NoOne; an address it
\* had and u has not leaves podIpsMap.
PodStored(u, old) ==
    LET r == ResolvedTo(u) IN
    /\ publishing = Unset
    /\ podIpsMap' = IF old # NoOne /\ seenPod[old].ip # pod[u].ip
                    THEN Without(podIpsMap, seenPod[old].ip)
                    ELSE podIpsMap
    /\ seenPod' = [v \in Pods |-> IF v = u THEN [known |-> TRUE, ip |-> pod[u].ip]
                                  ELSE IF v = old THEN Unknown
                                  ELSE seenPod[v]]
    /\ Snapshot' = [Snapshot EXCEPT ![u] = [known |-> TRUE, ip |-> pod[u].ip]]
    /\ PodNameIndex' = [PodNameIndex EXCEPT ![cluster.name[u]] = u]
    /\ Memoize(u, r)
    /\ publishing' = [uid |-> u, ip |-> pod[u].ip, entry |-> r.workload]
    /\ ghosts' = ghosts \cup (IF old \notin {NoOne, u} THEN {old}
                            ELSE IF old = u /\ seenPod[u].ip # pod[u].ip THEN {building.hold.uid} \cap {u}
                            ELSE {})
    /\ UNCHANGED <<clusterVars, nodeKnown, nodeMeta, serviceKnown, ownerCache, ipsMap, owning, building>>

\* AddFunc.  The informer knows one object under a name.
OnPodAdd(u) ==
    /\ InCluster(u) /\ ~seenPod[u].known
    /\ \A v \in Pods : seenPod[v].known => cluster.name[v] # cluster.name[u]
    /\ PodStored(u, NoOne)

\* Mutant of OnPodUpdate: an update that changes nothing is skipped.
MutantOnPodUpdate(u, old) ==
    /\ InCluster(u) /\ seenPod[old].known
    /\ u = old \/ (cluster.relisted /\ cluster.name[u] = cluster.name[old] /\ ~InCluster(old))
    /\ seenPod[u] # [known |-> TRUE, ip |-> pod[u].ip]
    /\ PodStored(u, old)

\* UpdateFunc: a change of the pod, the resync of every ten minutes, or, if
\* the watch was interrupted, another pod of the same name.
OnPodUpdate(u, old) ==
    /\ InCluster(u) /\ seenPod[old].known
    /\ u = old \/ (cluster.relisted /\ cluster.name[u] = cluster.name[old] /\ ~InCluster(old))
    /\ PodStored(u, old)

PublishPod ==
    LET p == publishing IN
    /\ p # Unset
    /\ IF p.ip = NoOne THEN UNCHANGED mapVars
       ELSE /\ ipsMap' = StoreWorkload(ipsMap, p.ip, p.entry)
            /\ podIpsMap' = [podIpsMap EXCEPT ![p.ip] = p.uid]
    /\ publishing' = Unset
    /\ UNCHANGED <<clusterVars, snapshotVars, owning, building, ghosts>>

\* Mutant of OnPodDelete: the pod's addresses are kept.
MutantOnPodDelete(u) ==
    /\ publishing = Unset
    /\ seenPod[u].known /\ ~InCluster(u)
    /\ seenPod' = [seenPod EXCEPT ![u] = Unknown]
    /\ Snapshot' = [Snapshot EXCEPT ![u] = Unknown]
    /\ PodDescriptors' = [PodDescriptors EXCEPT ![u] = NoWorkload]
    /\ PodNameIndex' = [PodNameIndex EXCEPT ![cluster.name[u]] = NoOne]
    /\ ghosts' = ghosts \cup ({building.hold.uid} \cap {u})
    /\ UNCHANGED <<clusterVars, nodeKnown, nodeMeta, serviceKnown, ownerCache, mapVars, publishing, owning, building>>

\* DeleteFunc, also with a tombstone: the addresses leave podIpsMap, whoever
\* has them now, and stay in ipsMap.
OnPodDelete(u) ==
    /\ publishing = Unset
    /\ seenPod[u].known /\ ~InCluster(u)
    /\ seenPod' = [seenPod EXCEPT ![u] = Unknown]
    /\ Snapshot' = [Snapshot EXCEPT ![u] = Unknown]
    /\ PodDescriptors' = [PodDescriptors EXCEPT ![u] = NoWorkload]
    /\ PodNameIndex' = [PodNameIndex EXCEPT ![cluster.name[u]] = NoOne]
    /\ podIpsMap' = Without(podIpsMap, seenPod[u].ip)
    /\ ghosts' = ghosts \cup ({building.hold.uid} \cap {u})
    /\ UNCHANGED <<clusterVars, nodeKnown, nodeMeta, serviceKnown, ownerCache, ipsMap, publishing, owning, building>>

NodeWorkload == [id |-> <<"node", "node">>, zoned |-> TRUE, by |-> "node"]

\* handleNodeEvent, for an add, a change or a resync.
OnNodeEvent ==
    /\ node = "up"
    /\ nodeKnown' = TRUE /\ nodeMeta' = TRUE
    /\ ipsMap' = StoreWorkload(ipsMap, cluster.nodeIp, NodeWorkload)
    /\ UNCHANGED <<clusterVars, seenPod, Snapshot, PodNameIndex, PodDescriptors, serviceKnown, ownerCache,
                   podIpsMap, publishing, owning, building, ghosts>>

OnNodeDelete ==
    /\ node = "gone" /\ nodeKnown
    /\ nodeKnown' = FALSE /\ nodeMeta' = FALSE
    /\ UNCHANGED <<clusterVars, seenPod, Snapshot, PodNameIndex, PodDescriptors, serviceKnown, ownerCache,
                   mapVars, publishing, owning, building, ghosts>>

\* The owner kinds' handlers: the object is stored, or deleted.
OnOwnerEvent(o) ==
    /\ ownerCache' = IF owners[o] = "up" THEN ownerCache \cup {o} ELSE ownerCache \ {o}
    /\ ownerCache' # ownerCache
    /\ UNCHANGED <<clusterVars, seenPod, Snapshot, PodNameIndex, PodDescriptors, nodeKnown, nodeMeta, serviceKnown,
                   mapVars, publishing, owning, building, ghosts>>
-----------------------------------------------------------------------------
(* Owners by name.                                                         *)

\* ResolvePodOwner: the pod indexed under the name, else the API server's,
\* else the bare name.
OwnerOf(n) ==
    LET indexed == {u \in Pods : PodNameIndex[n] = u /\ Snapshot[u].known}
        served == {u \in Pods : InCluster(u) /\ cluster.name[u] = n}
        found == IF indexed # {} THEN indexed ELSE served
    IN  IF found = {}
        THEN [uid |-> NoOne, cacheable |-> FALSE,
              workload |-> [id |-> <<"pod", n>>, zoned |-> FALSE, by |-> NoOne]]
        ELSE LET u == CHOOSE u \in found : TRUE IN
             [uid |-> u, cacheable |-> ResolvedTo(u).cacheable, workload |-> ResolvedTo(u).workload]

\* The collector asks for the owner of a pod; what it finds it may memoize
\* after the pod is gone.
AskOwner(n) ==
    LET r == OwnerOf(n) IN
    /\ cluster.owned
    /\ owning = Unset /\ r.uid # NoOne /\ r.cacheable
    /\ owning' = [Unset EXCEPT !.uid = r.uid, !.entry = r.workload]
    /\ UNCHANGED <<clusterVars, snapshotVars, mapVars, publishing, building, ghosts>>

OwnerFound ==
    /\ owning # Unset
    /\ PodDescriptors' = [PodDescriptors EXCEPT ![owning.uid] = owning.entry]
    /\ owning' = Unset
    /\ UNCHANGED <<clusterVars, seenPod, Snapshot, PodNameIndex, nodeKnown, nodeMeta, serviceKnown, ownerCache,
                   mapVars, publishing, building, ghosts>>

\* resolveServiceWorkload: the name is that of the owner of a pod the selector
\* matches, the first met.
ServiceWorkloads ==
    LET plain == [id |-> <<"Service", "service">>, zoned |-> FALSE, by |-> "service"]
        stored == {u \in Pods : Snapshot[u].known}
    IN  IF stored = {}
        THEN {[owner |-> [uid |-> NoOne, cacheable |-> FALSE, workload |-> NoWorkload], entry |-> plain]}
        ELSE {[owner |-> r, entry |-> [plain EXCEPT !.id = r.workload.id, !.zoned = r.workload.zoned]] :
                r \in {OwnerOf(cluster.name[u]) : u \in stored}}

MemoizeOwner(r) == IF r.cacheable THEN Memoize(r.uid, r) ELSE UNCHANGED PodDescriptors

\* AddFunc and UpdateFunc of services; the addresses of a service are fixed.
OnServiceEvent ==
    /\ service = "up"
    /\ \E w \in ServiceWorkloads :
         /\ MemoizeOwner(w.owner)
         /\ ipsMap' = StoreWorkload(ipsMap, cluster.serviceIp, w.entry)
    /\ serviceKnown' = TRUE
    /\ UNCHANGED <<clusterVars, seenPod, Snapshot, PodNameIndex, nodeKnown, nodeMeta, ownerCache,
                   podIpsMap, publishing, owning, building, ghosts>>

OnServiceDelete ==
    /\ service = "gone" /\ serviceKnown
    /\ serviceKnown' = FALSE
    /\ ipsMap' = [ipsMap EXCEPT ![cluster.serviceIp] = NoWorkload]
    /\ ghosts' = ghosts \cup ({building.hold.uid} \cap {"service"})
    /\ UNCHANGED <<clusterVars, seenPod, Snapshot, PodNameIndex, PodDescriptors, nodeKnown, nodeMeta, ownerCache,
                   podIpsMap, publishing, owning, building>>
-----------------------------------------------------------------------------
(* updateIpMapping, while the handlers run: services, then nodes, then     *)
(* pods.  Range hands over an object that may be gone when it is stored.   *)

Take(h) == building' = [building EXCEPT !.hold = h, !.seen = @ \cup {h.uid}]

BuildService ==
    /\ building.pc = "services" /\ building.hold = Unset
    /\ serviceKnown /\ "service" \notin building.seen
    /\ \E w \in ServiceWorkloads :
         /\ MemoizeOwner(w.owner)
         /\ Take([uid |-> "service", ip |-> cluster.serviceIp, entry |-> w.entry])
    /\ UNCHANGED <<clusterVars, seenPod, Snapshot, PodNameIndex, nodeKnown, nodeMeta, serviceKnown, ownerCache,
                   mapVars, publishing, owning, ghosts>>

BuildNode ==
    /\ building.pc = "nodes" /\ building.hold = Unset
    /\ nodeKnown /\ "node" \notin building.seen
    /\ Take([uid |-> "node", ip |-> cluster.nodeIp, entry |-> NodeWorkload])
    /\ UNCHANGED <<clusterVars, snapshotVars, mapVars, publishing, owning, ghosts>>

BuildPod(u) ==
    /\ building.pc = "pods" /\ building.hold = Unset
    /\ Snapshot[u].known /\ u \notin building.seen
    /\ Memoize(u, ResolvedTo(u))
    /\ Take([uid |-> u, ip |-> Snapshot[u].ip, entry |-> ResolvedTo(u).workload])
    /\ UNCHANGED <<clusterVars, seenPod, Snapshot, PodNameIndex, nodeKnown, nodeMeta, serviceKnown, ownerCache,
                   mapVars, publishing, owning, ghosts>>

BuildStore ==
    LET h == building.hold IN
    /\ h # Unset
    /\ IF h.ip = NoOne THEN UNCHANGED mapVars
       ELSE /\ ipsMap' = StoreWorkload(ipsMap, h.ip, h.entry)
            /\ podIpsMap' = IF h.uid \in Pods THEN [podIpsMap EXCEPT ![h.ip] = h.uid] ELSE podIpsMap
    /\ nodeMeta' = (nodeMeta \/ h.uid = "node")
    /\ building' = [building EXCEPT !.hold = Unset]
    /\ UNCHANGED <<clusterVars, seenPod, Snapshot, PodNameIndex, PodDescriptors, nodeKnown, serviceKnown, ownerCache,
                   publishing, owning, ghosts>>

BuildNext ==
    /\ building.hold = Unset
    /\ \/ building.pc = "services" /\ (serviceKnown => "service" \in building.seen)
          /\ building' = [building EXCEPT !.pc = "nodes"]
       \/ building.pc = "nodes" /\ (nodeKnown => "node" \in building.seen)
          /\ building' = [building EXCEPT !.pc = "pods"]
       \/ building.pc = "pods" /\ (\A u \in Pods : Snapshot[u].known => u \in building.seen)
          /\ building' = [building EXCEPT !.pc = "done", !.seen = {}]
    /\ UNCHANGED <<clusterVars, snapshotVars, mapVars, publishing, owning, ghosts>>

Build == BuildService \/ BuildNode \/ (\E u \in Pods : BuildPod(u)) \/ BuildStore \/ BuildNext

-----------------------------------------------------------------------------
(* Lookups.                                                                *)

\* CacheDNS
CacheDNS(ip) ==
    /\ ip \in cluster.dns \ dnsResolvedIps
    /\ dnsResolvedIps' = dnsResolvedIps \cup {ip}
    /\ UNCHANGED <<cluster, pod, node, service, owners, snapshotVars, mapVars, publishing, owning, building, ghosts>>

\* ResolveActualIP: the pod with the address, else the name DNS gave it.
ResolveActualIP(ip) ==
    IF podIpsMap[ip] # NoOne
    THEN [id |-> <<"pod", cluster.name[podIpsMap[ip]]>>, by |-> podIpsMap[ip]]
    ELSE [id |-> <<"external", IF ip \in dnsResolvedIps THEN "name" ELSE ip>>, by |-> NoOne]

\* ResolveIP, and ResolveSource
ResolveIP(ip) ==
    IF ipsMap[ip] # NoWorkload THEN [id |-> ipsMap[ip].id, by |-> ipsMap[ip].by] ELSE ResolveActualIP(ip)

ApiServer ==
    \/ \E u \in Pods : PodCreated(u) \/ PodDone(u) \/ PodDeleted(u) \/ (\E ip \in cluster.ips : PodStarted(u, ip))
    \/ NodeChanged \/ ServiceChanged \/ (\E o \in Owners : OwnerChanged(o))

PodInformer(u) == OnPodAdd(u) \/ (\E old \in Pods : OnPodUpdate(u, old)) \/ OnPodDelete(u)

ResolverNext ==
    \/ ApiServer
    \/ \E u \in Pods : PodInformer(u)
    \/ PublishPod
    \/ OnNodeEvent \/ OnNodeDelete \/ OnServiceEvent \/ OnServiceDelete
    \/ \E o \in Owners : OnOwnerEvent(o)
    \/ \E n \in Names : AskOwner(n)
    \/ OwnerFound
    \/ Build
    \/ \E ip \in Ips : CacheDNS(ip)
-----------------------------------------------------------------------------
(* Properties.                                                             *)

\* The name of the pod's workload when all its owners are known.
TrueId(u) == Describe(u, Owners, TRUE).workload.id

\* "Only memoize a fully-resolved identity" (ip_resolver.go:1245): whatever
\* order the informers deliver pods and owners in, and whoever asks first, a
\* descriptor is only kept once it names the top of the ownership chain.
MemoIsTop ==
    \A u \in Pods : PodDescriptors[u] # NoWorkload => PodDescriptors[u].id = TrueId(u)

\* A pod of a Deployment never goes by another name, also while its ReplicaSet
\* or Deployment is not cached: it gives one series (ip_resolver.go:1139).
OneNamePerDeployment ==
    \A ip \in Ips : LET w == ResolveIP(ip) IN
        w.id[1] # "pod" /\ w.by \in Pods /\ TrueId(w.by)[1] = "Deployment" => w.id = TrueId(w.by)

\* A pod goes by the name of the top of its ownership chain, both in what is
\* kept of it and, if that is a Deployment, in what is answered meanwhile.
NamedAfterTop == MemoIsTop /\ OneNamePerDeployment

\* ResolveActualIP never names a pod that no longer has the address as far as
\* the informer knows, unless updateIpMapping held the pod when it went or
\* another pod replaced it under its name in one update.
PodIpIsCurrent ==
    \A ip \in Ips : LET u == ResolveActualIP(ip).by IN
        u # NoOne => seenPod[u] = [known |-> TRUE, ip |-> ip] \/ u \in ghosts

\* The address of a deleted service does not go by its name, unless
\* updateIpMapping held the service when it was deleted.
ServiceIpReleased ==
    \A ip \in Ips : ipsMap[ip].by = "service" => serviceKnown \/ "service" \in ghosts

\* No address goes by the name of what no longer has it: neither in the map
\* of pods nor in the map of services, which two goroutines write, the
\* informers' handlers and updateIpMapping's rebuild.
NamesAreCurrent == PodIpIsCurrent /\ ServiceIpReleased

\* Nobody else in the cluster has the pod's address.
SoleHolder(u, ip) ==
    /\ pod[u] = [state |-> "running", ip |-> ip]
    /\ \A v \in Pods \ {u} : InCluster(v) => pod[v].ip # ip
    /\ ip # cluster.nodeIp
    /\ \A o \in Owners : owners[o] = "up" \/ ~cluster.owned

\* A running pod's address is in the end resolved to the pod and to its
\* top-level owner and stays so, although a late delete of the address's
\* previous pod takes the entry away and owners arrive late: the resync of
\* the informers repairs both maps.
AddressResolved ==
    \A u \in Pods, ip \in Ips :
        <>[]SoleHolder(u, ip) =>
            <>[](ResolveActualIP(ip).by = u /\ ResolveIP(ip).by = u /\ (cluster.owned => ResolveIP(ip).id = TrueId(u)))
=============================================================================
