------------------------------ MODULE MCNames -------------------------------
(***************************************************************************)
(* Small instances of the modules that name endpoints and count under      *)
(* those names.  A behaviour is one of one of the modules: "part" says     *)
(* which, and the state of the others stays as it was at the start.        *)
(***************************************************************************)
EXTENDS IpResolver, FqdnCache, L7Series, Destinations

VARIABLE part

namesVars == <<resolverVars, cacheVars, seriesVars, trafficVars, part>>
-----------------------------------------------------------------------------
(* Clusters.                                                               *)

Bare ==
    [pods |-> {"p1"}, ips |-> {"x"}, name |-> [u \in Pods |-> u],
     owner |-> [x \in Pods \cup Owners |-> NoOne], kind |-> [o \in Owners |-> "StatefulSet"],
     hashed |-> {}, nodeIp |-> NoOne, serviceIp |-> NoOne, dns |-> {}, owned |-> FALSE, relisted |-> FALSE]

\* A pod owned by o1, itself owned by top.
Owned(kinds, top) ==
    [Bare EXCEPT !.owner = [x \in Pods \cup Owners |-> IF x \in Pods THEN "o1" ELSE top[x]],
                 !.owned = TRUE, !.kind = kinds]

Chained == [o1 |-> "o2", o2 |-> NoOne]

MCClusterWorlds ==
    { \* two pods that share an address, or follow each other under one name
      [Bare EXCEPT !.pods = Pods],
      [Bare EXCEPT !.pods = Pods, !.name = [u \in Pods |-> "web-0"], !.relisted = TRUE],
      \* a node, and a service with a name from DNS
      [Bare EXCEPT !.nodeIp = "x", !.serviceIp = "y", !.dns = {"y"}],
      \* chains of owners: of a deployment, of a cron job, in a circle, ephemeral
      [Owned([o1 |-> "ReplicaSet", o2 |-> "Deployment"], Chained) EXCEPT !.hashed = {"o1"}, !.ips = Ips],
      Owned([o1 |-> "Job", o2 |-> "CronJob"], Chained),
      Owned([o1 |-> "StatefulSet", o2 |-> "DaemonSet"], [o1 |-> "o2", o2 |-> "o1"]),
      Owned([o1 |-> "EphemeralRunner", o2 |-> "Rollout"], Chained) }
-----------------------------------------------------------------------------
(* Requests.                                                               *)

Request(pr, d, p, v) == [proto |-> pr, dst |-> d, path |-> p, variant |-> v]

MCCallsOf(h) ==
    IF h = "events"
    THEN {Request("http", "d1", "/a", "200"), Request("http2", "d1", "/b", "200"),
          Request("dns", "d1", "x", "ok"), Request("dns", "d1", "y", "ok")}
    ELSE {Request("http", "d1", "/a", "500"), Request("http", "d2", "/a", "200"), Request("http", "d2", "", "200")}
-----------------------------------------------------------------------------
(* Connections.                                                            *)

\* Two sockets in turn on one descriptor: a resolver's and an API's.
InTurn ==
    [fd |-> <<"f", "f">>, dst |-> <<"r", "e">>, actual |-> <<"r", "e">>, host |-> <<"dns", "api">>,
     kube |-> {}, external |-> {"r", "e"}, filtered |-> {}, failing |-> {}, sends |-> Conns, dns |-> Conns,
     asks |-> Conns, tuple |-> {TRUE}, proto |-> "HTTP"]

\* Two hosts behind one address.
Shared == [InTurn EXCEPT !.fd = <<"f", "g">>, !.dst = <<"e", "e">>, !.actual = <<"e", "e">>]

MCTrafficWorlds ==
    { [InTurn EXCEPT !.sends = {}, !.dns = {}],
      [Shared EXCEPT !.tuple = {TRUE, FALSE}, !.failing = {2}],
      [Shared EXCEPT !.sends = {}, !.asks = {}],
      \* a service with an external endpoint, and a filtered connection
      [Shared EXCEPT !.dst = <<"s", "e">>, !.kube = {"s"}, !.filtered = {2}] }

\* HTTP/2 requests.
Http2TrafficWorlds == {[InTurn EXCEPT !.proto = "HTTP2"]}
-----------------------------------------------------------------------------
NamesInit ==
    /\ part \in {"resolver", "cache", "series", "traffic"}
    /\ ResolverInit /\ (part # "resolver" => cluster = CHOOSE w \in ClusterWorlds : TRUE)
    /\ CacheInit
    /\ SeriesInit
    /\ TrafficInit /\ (part # "traffic" => traffic = CHOOSE w \in TrafficWorlds : TRUE)

NamesNext ==
    /\ UNCHANGED part
    /\ \/ part = "resolver" /\ ResolverNext /\ UNCHANGED <<cacheVars, seriesVars, trafficVars>>
       \/ part = "cache" /\ CacheNext /\ UNCHANGED <<resolverVars, seriesVars, trafficVars>>
       \/ part = "series" /\ SeriesNext /\ UNCHANGED <<resolverVars, cacheVars, trafficVars>>
       \/ part = "traffic" /\ TrafficNext /\ UNCHANGED <<resolverVars, cacheVars, seriesVars>>

NamesSpec == NamesInit /\ [][NamesNext]_namesVars
=============================================================================
