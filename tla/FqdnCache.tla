----------------------------- MODULE FqdnCache ------------------------------
(***************************************************************************)
(* The cache from addresses to domain names, src/common/fqdn_cache.go.     *)
(*                                                                         *)
(* The event handler puts and gets, the goroutines of LLM captures get.  A *)
(* Get that refreshes the recency of an entry takes the lock a second time *)
(* and writes the time it read before the first.  Time is a counter up to  *)
(* MaxNow.                                                                 *)
(***************************************************************************)
EXTENDS Naturals, FiniteSets

CONSTANTS
    Addresses, Domains, NoName,
    Getters,                    \* goroutines that get
    FQDNCacheTTL, FQDNCacheMaxEntries,
    EvictBatch,                 \* FQDNCacheMaxEntries / 10, at least 1
    RecencyResolution,
    MaxNow

VARIABLES
    cacheNow,       \* the clock
    entries,        \* [addresses in the cache -> domain, expires, lastUsed]
    getting,        \* [Getters -> the stamp a Get is about to write]
    told            \* the name each address was last put with

cacheVars == <<cacheNow, entries, getting, told>>

NoGet == [ip |-> NoName, now |-> 0, entry |-> [domain |-> NoName, expires |-> 0, lastUsed |-> 0]]

CacheInit ==
    /\ cacheNow = 0 /\ entries = <<>>
    /\ getting = [g \in Getters |-> NoGet]
    /\ told = [a \in Addresses |-> NoName]

Expired(e) == cacheNow > e.expires
Expiring == {ip \in DOMAIN entries : Expired(entries[ip])}
Only(S) == [ip \in S |-> entries[ip]]
-----------------------------------------------------------------------------
Tick ==
    /\ cacheNow < MaxNow
    /\ cacheNow' = cacheNow + 1
    /\ UNCHANGED <<entries, getting, told>>

\* Get, of an entry whose recency is to be refreshed.  Other Gets change
\* nothing.
Get(g, ip) ==
    /\ getting[g] = NoGet
    /\ ip \in DOMAIN entries \ Expiring
    /\ cacheNow - entries[ip].lastUsed > RecencyResolution
    /\ getting' = [getting EXCEPT ![g] = [ip |-> ip, now |-> cacheNow, entry |-> entries[ip]]]
    /\ UNCHANGED <<cacheNow, entries, told>>

\* Mutant of GetRefresh: the entry read before is written back.
MutantGetRefresh(g) ==
    LET s == getting[g] IN
    /\ s # NoGet
    /\ entries' = IF s.ip \in DOMAIN entries
                  THEN [entries EXCEPT ![s.ip] = [s.entry EXCEPT !.lastUsed = s.now]] ELSE entries
    /\ getting' = [getting EXCEPT ![g] = NoGet]
    /\ UNCHANGED <<cacheNow, told>>

\* The second half of Get.  The entry may be gone, or newer than the stamp.
GetRefresh(g) ==
    LET s == getting[g] IN
    /\ s # NoGet
    /\ entries' = IF s.ip \in DOMAIN entries THEN [entries EXCEPT ![s.ip].lastUsed = s.now] ELSE entries
    /\ getting' = [getting EXCEPT ![g] = NoGet]
    /\ UNCHANGED <<cacheNow, told>>
-----------------------------------------------------------------------------
LessRecent(live, ip) == {j \in live : entries[j].lastUsed < entries[ip].lastUsed}

\* evictLocked: the entries last used no later than the EvictBatch-th oldest
\* stamp.
Evictable(live) == {ip \in live : Cardinality(LessRecent(live, ip)) < EvictBatch}

\* What evictLocked may leave: all that is not expired, if that makes room,
\* else that without a batch of evictable entries, whichever the map yields.
Kept ==
    LET live == DOMAIN entries \ Expiring IN
    IF Cardinality(live) < FQDNCacheMaxEntries THEN {live}
    ELSE {live \ out : out \in {S \in SUBSET Evictable(live) : Cardinality(S) = EvictBatch}}

MustEvict(ip) == ip \notin DOMAIN entries /\ Cardinality(DOMAIN entries) >= FQDNCacheMaxEntries

Put(ip, d) ==
    /\ \E kept \in (IF MustEvict(ip) THEN Kept ELSE {DOMAIN entries}) :
         entries' = [j \in kept \cup {ip} |->
                       IF j = ip THEN [domain |-> d, expires |-> cacheNow + FQDNCacheTTL, lastUsed |-> cacheNow]
                       ELSE entries[j]]
    /\ told' = [told EXCEPT ![ip] = d]
    /\ UNCHANGED <<cacheNow, getting>>

GC ==
    /\ Expiring # {}
    /\ entries' = Only(DOMAIN entries \ Expiring)
    /\ UNCHANGED <<cacheNow, getting, told>>

CacheNext ==
    \/ Tick \/ GC
    \/ \E g \in Getters : GetRefresh(g) \/ (\E ip \in Addresses : Get(g, ip))
    \/ \E ip \in Addresses, d \in Domains : Put(ip, d)
-----------------------------------------------------------------------------
(* Properties.                                                             *)

\* "expired entries first, then the least recently used" (fqdn_cache.go:20):
\* no live name goes while an expired one is there, and one that does go has
\* fewer than a batch of entries used before it, although stamps are coarse,
\* shared and written late.
EvictsLeastRecent ==
    [][\A ip \in DOMAIN entries \ Expiring :
         ip \notin DOMAIN entries' =>
            /\ Cardinality(DOMAIN entries \ Expiring) >= FQDNCacheMaxEntries
            /\ Cardinality(LessRecent(DOMAIN entries \ Expiring, ip)) < EvictBatch]_cacheVars

\* What Get returns.
LiveNames == [a \in Addresses |-> IF a \in DOMAIN entries \ Expiring THEN entries[a].domain ELSE NoName]

NameCache == INSTANCE NameCache WITH names <- LiveNames

\* Get gives an address its latest name or none: neither the late write of a
\* Get nor eviction brings back an earlier or an expired one.
LatestNameOrNone == NameCache!NameCacheSpec

\* The cache forgets the right names and never gives a wrong one.
CacheFaithful == LatestNameOrNone /\ EvictsLeastRecent
=============================================================================
