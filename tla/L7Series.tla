------------------------------ MODULE L7Series ------------------------------
(***************************************************************************)
(* The request counters of a container: L7Stats in                         *)
(* src/containers/l7.go with the path labels of                            *)
(* src/common/http_path_series.go.                                         *)
(*                                                                         *)
(* Two goroutines count requests, the event handler and that of an LLM     *)
(* capture; the event handler also evicts.  A series is the destination,   *)
(* the path or domain label and the rest of the label values (status,      *)
(* method, source), a variant.                                             *)
(***************************************************************************)
EXTENDS Naturals, FiniteSets

CONSTANTS
    Handlers,                   \* the goroutines
    CallsOf(_),                 \* what each counts: protocol, destination, path or
                                \* domain, and variant
    MaxHTTPPathsPerDestination,
    MaxFQDNsPerContainer

Overflow == "~other"
NotObserving == [step |-> "idle"]

VARIABLES
    initialized,    \* protocols with a counter vector
    l7Requests,     \* the series in the vectors: [protocol -> set of series]
    seenFQDNs,
    admitted,       \* labelled <<destination, path>>
    candidates,     \* <<destination, path>> seen once
    series,         \* tracked HTTP series: [series -> key and idle]
    refs, destRefs,
    observing       \* [Handlers -> what the call is about to do]

pathVars == <<admitted, candidates, series, refs, destRefs>>
seriesVars == <<initialized, l7Requests, seenFQDNs, pathVars, observing>>

Protocols == {"http", "http2", "dns"}
Calls == UNION {CallsOf(h) : h \in Handlers}
Keys == {<<c.dst, c.path>> : c \in {c \in Calls : c.path # ""}}
Dsts == {c.dst : c \in Calls}

SeriesInit ==
    /\ initialized = {} /\ l7Requests = [p \in Protocols |-> {}] /\ seenFQDNs = {}
    /\ admitted = {} /\ candidates = {} /\ series = <<>>
    /\ refs = [k \in Keys |-> 0] /\ destRefs = [d \in Dsts |-> 0]
    /\ observing = [h \in Handlers |-> NotObserving]
-----------------------------------------------------------------------------
\* HTTP/1 and HTTP/2 are one set of metrics.
MetricsProtocol(p) == IF p = "http2" THEN "http" ELSE p

\* observe, the protocol's vector missing when ensureInitialized looks under
\* the read lock.
ObserveFirst(h, c) ==
    /\ observing[h] = NotObserving /\ MetricsProtocol(c.proto) \notin initialized
    /\ observing' = [observing EXCEPT ![h] = [call |-> c, step |-> "initialize"]]
    /\ UNCHANGED <<initialized, l7Requests, seenFQDNs, pathVars>>

\* ensureInitialized under the write lock: a new vector unless there is one.
EnsureInitialized(h) ==
    /\ observing[h].step = "initialize"
    /\ LET p == MetricsProtocol(observing[h].call.proto) IN
         /\ l7Requests' = IF p \in initialized THEN l7Requests ELSE [l7Requests EXCEPT ![p] = {}]
         /\ initialized' = initialized \cup {p}
    /\ observing' = [observing EXCEPT ![h].step = "count"]
    /\ UNCHANGED <<seenFQDNs, pathVars>>
-----------------------------------------------------------------------------
PathsOf(d) == {k \in admitted : k[1] = d}

PathsFull(d) == Cardinality(PathsOf(d)) >= MaxHTTPPathsPerDestination

\* pathLabel: the label.  A path has its own from its second request on, if
\* its destination has room for it; the path "" is none.
PathLabel(d, p) ==
    CASE p = "" \/ <<d, p>> \in admitted -> p
      [] p # "" /\ <<d, p>> \notin admitted /\ PathsFull(d) -> Overflow
      [] OTHER -> IF <<d, p>> \in candidates THEN p ELSE Overflow

\* pathLabel: what it remembers.
PathLabelled(d, p) ==
    IF p = "" THEN UNCHANGED <<admitted, candidates>>
    ELSE IF PathLabel(d, p) = p
    THEN admitted' = admitted \cup {<<d, p>>} /\ candidates' = candidates \ {<<d, p>>}
    ELSE /\ UNCHANGED admitted
         /\ candidates' = IF PathsFull(d) THEN candidates
                          ELSE IF Cardinality(candidates) >= MaxHTTPPathsPerDestination THEN {<<d, p>>}
                          ELSE candidates \cup {<<d, p>>}

\* HTTPPathSeries.Observe after the label is chosen: the series is seen now,
\* and a new one holds its path, if that is its label, and its destination.
Recorded(v, k) ==
    /\ series' = [w \in DOMAIN series \cup {v} |-> IF w = v THEN [key |-> k, idle |-> FALSE] ELSE series[w]]
    /\ refs' = IF v \in DOMAIN series \/ k[2] = "" THEN refs ELSE [refs EXCEPT ![k] = @ + 1]
    /\ destRefs' = IF v \in DOMAIN series THEN destRefs ELSE [destRefs EXCEPT ![k[1]] = @ + 1]

CountHTTP(c) ==
    LET label == PathLabel(c.dst, c.path)
        v == [dst |-> c.dst, label |-> label, rest |-> c.variant]
    IN  /\ PathLabelled(c.dst, c.path)
        /\ Recorded(v, <<c.dst, IF label = c.path THEN label ELSE "">>)
        /\ l7Requests' = [l7Requests EXCEPT ![MetricsProtocol(c.proto)] = @ \cup {v}]
        /\ UNCHANGED seenFQDNs

\* dnsDomainLabel
DnsDomainLabel(fqdn) ==
    IF fqdn \notin seenFQDNs /\ Cardinality(seenFQDNs) >= MaxFQDNsPerContainer THEN Overflow ELSE fqdn

CountDNS(c) ==
    LET label == DnsDomainLabel(c.path) IN
    /\ seenFQDNs' = seenFQDNs \cup ({label} \ {Overflow})
    /\ l7Requests' = [l7Requests EXCEPT !["dns"] = @ \cup {[dst |-> c.dst, label |-> label, rest |-> c.variant]}]
    /\ UNCHANGED pathVars

\* observe after ensureInitialized.  The increment follows Observe at once:
\* a series just seen is not idle before it is counted.
Count(c) == IF c.proto = "dns" THEN CountDNS(c) ELSE CountHTTP(c)

Observe(h, c) ==
    /\ observing[h] = NotObserving /\ MetricsProtocol(c.proto) \in initialized
    /\ Count(c)
    /\ UNCHANGED <<initialized, observing>>

CountFirst(h) ==
    /\ observing[h].step = "count"
    /\ Count(observing[h].call)
    /\ observing' = [observing EXCEPT ![h] = NotObserving]
    /\ UNCHANGED initialized
-----------------------------------------------------------------------------
\* Time passes: a series has not been seen for HTTPPathIdleTTL.
GrowIdle(v) ==
    /\ v \in DOMAIN series /\ ~series[v].idle
    /\ series' = [series EXCEPT ![v].idle = TRUE]
    /\ UNCHANGED <<initialized, l7Requests, seenFQDNs, admitted, candidates, refs, destRefs, observing>>

IdleSeries == {v \in DOMAIN series : series[v].idle}
HoldingPath(S, k) == {v \in S : series[v].key = k}
HoldingDst(S, d) == {v \in S : series[v].key[1] = d}

\* Mutant of EvictIdleHTTP: the series stays in the vector.
MutantEvictIdleHTTP ==
    /\ "http" \in initialized /\ IdleSeries # {}
    /\ series' = [v \in DOMAIN series \ IdleSeries |-> series[v]]
    /\ refs' = [k \in Keys |-> refs[k] - Cardinality(HoldingPath(IdleSeries, k))]
    /\ destRefs' = [d \in Dsts |-> destRefs[d] - Cardinality(HoldingDst(IdleSeries, d))]
    /\ admitted' = {k \in admitted : refs'[k] > 0 /\ destRefs'[k[1]] > 0}
    /\ UNCHANGED <<initialized, l7Requests, seenFQDNs, candidates, observing>>

\* EvictIdleHTTP: idle series leave the vector, a path goes with its last
\* series, and a destination with its last.
EvictIdleHTTP ==
    /\ "http" \in initialized /\ IdleSeries # {}
    /\ l7Requests' = [l7Requests EXCEPT !["http"] = @ \ IdleSeries]
    /\ series' = [v \in DOMAIN series \ IdleSeries |-> series[v]]
    /\ refs' = [k \in Keys |-> refs[k] - Cardinality(HoldingPath(IdleSeries, k))]
    /\ destRefs' = [d \in Dsts |-> destRefs[d] - Cardinality(HoldingDst(IdleSeries, d))]
    /\ LET released == {k \in admitted : HoldingPath(IdleSeries, k) # {} /\ refs'[k] = 0}
           forgotten == {d \in Dsts : HoldingDst(IdleSeries, d) # {} /\ destRefs'[d] = 0}
       IN  admitted' = {k \in admitted \ released : k[1] \notin forgotten}
    /\ UNCHANGED <<initialized, seenFQDNs, candidates, observing>>

SeriesNext ==
    \/ \E h \in Handlers : EnsureInitialized(h) \/ CountFirst(h) \/ (\E c \in CallsOf(h) : ObserveFirst(h, c) \/ Observe(h, c))
    \/ \E v \in DOMAIN series : GrowIdle(v)
    \/ EvictIdleHTTP
-----------------------------------------------------------------------------
(* Properties.                                                             *)

\* Every exported HTTP series is tracked, so that it can be deleted, and the
\* other way round: a series nothing tracks "was exported until the container
\* or the agent restarted" (l7.go:107).
SeriesTracked ==
    l7Requests["http"] \cup l7Requests["http2"] = DOMAIN series

\* A labelled path has a series and so frees its slot when it is idle, and a
\* series of its own label belongs to a labelled path: a path does not change
\* its label while its series is exported.
PathHasSeries ==
    admitted = {series[v].key : v \in {v \in DOMAIN series : v.label \notin {"", Overflow}}}

\* A scrape holds no series twice: "a duplicate series fails the whole scrape"
\* (l7.go:143).
ScrapeUnique ==
    l7Requests["http"] \cap l7Requests["http2"] = {}

\* Vectors, tracked series and labelled paths agree, whichever of two
\* goroutines counts and whatever eviction takes away: every series exported
\* once, and each can be evicted with its path.
SeriesAccounted == SeriesTracked /\ PathHasSeries /\ ScrapeUnique
=============================================================================
