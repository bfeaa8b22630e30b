----------------------------- MODULE SymbolCache -----------------------------
(***************************************************************************)
(* The cache of probe targets: LookupSymbols                               *)
(* (src/ebpftracer/symbol_cache.go).                                       *)
(*                                                                         *)
(* Several goroutines look symbols up in the file at one path.  The file   *)
(* is identified once, the cache read under the lock, the missing names    *)
(* read from the file without it, and stored under the lock again.         *)
(***************************************************************************)
EXTENDS Naturals, Sequences, SequencesExt

CONSTANTS Seekers, SymbolWorlds,
          symbolCacheSize,
          MaxLookups, MaxReplaced   \* bounds

VARIABLES
    symbolWorld,  \* the names each goroutine asks for, the symbols of each
                  \* binary, and calm: no file is replaced while it is looked at
    binary,       \* the binary at the path now
    symbolCache,  \* entries, the least recently used first
    lookups,      \* a goroutine's lookup: where it is, the binary it identified,
                  \* what it found
    lookupsMade

symbolVars == <<symbolWorld, binary, symbolCache, lookups, lookupsMade>>

Idle == [at |-> "idle", bin |-> 0, found |-> {}]
SymbolInit ==
    /\ symbolWorld \in SymbolWorlds
    /\ binary = 1 /\ symbolCache = <<>> /\ lookupsMade = 0
    /\ lookups = [k \in Seekers |-> Idle]

\* Mutant of SymbolKey: what the first caller asked for stands for the binary.
MutantSymbolKey(bin, name) == <<bin, "">>

\* symbolKey.
SymbolKey(bin, name) == <<bin, name>>

Cached(bin, name) == {i \in DOMAIN symbolCache : symbolCache[i].key = SymbolKey(bin, name)}

\* The least recently used entry makes room.
Added(c, e) ==
    LET rest == SelectSeq(c, LAMBDA x : x.key # e.key)
    IN Append(IF Len(rest) >= symbolCacheSize THEN Tail(rest) ELSE rest, e)
AddedAll(c, es) == FoldLeft(Added, c, es)

\* readProbeTargets of a name; a symbol the binary lacks is an answer, too.
ProbeTarget(bin, name) == IF name \in symbolWorld.has[bin] THEN bin ELSE 0
-----------------------------------------------------------------------------
ReplaceBinary ==
    /\ binary < MaxReplaced /\ (symbolWorld.calm => \A k \in Seekers : lookups[k].at # "read")
    /\ binary' = binary + 1
    /\ UNCHANGED <<symbolWorld, symbolCache, lookups, lookupsMade>>

\* binaryKeyFor, and what the cache holds.
BeginLookup(k) ==
    LET hits == {n \in symbolWorld.asks[k] : Cached(binary, n) # {}}
        hit == [i \in DOMAIN SetToSeq(hits) |->
                  symbolCache[CHOOSE j \in Cached(binary, SetToSeq(hits)[i]) : TRUE]] IN
    /\ lookups[k].at # "read" /\ lookupsMade < MaxLookups
    /\ lookupsMade' = lookupsMade + 1
    /\ symbolCache' = AddedAll(symbolCache, hit)
    /\ lookups' = [lookups EXCEPT ![k] =
                     [at |-> IF hits = symbolWorld.asks[k] THEN "done" ELSE "read", bin |-> binary,
                      found |-> {<<n, symbolCache[CHOOSE j \in Cached(binary, n) : TRUE].target>> : n \in hits}]]
    /\ UNCHANGED <<symbolWorld, binary>>

\* The file is read and the answers stored; a file that cannot be read is no
\* answer.
ReadTargets(k) ==
    LET l == lookups[k]
        missing == {n \in symbolWorld.asks[k] : \A f \in l.found : f[1] # n}
        targets == {<<n, ProbeTarget(binary, n)>> : n \in missing} IN
    /\ l.at = "read"
    /\ \/ /\ lookups' = [lookups EXCEPT ![k] = [l EXCEPT !.at = "done", !.found = @ \cup targets]]
          /\ symbolCache' = AddedAll(symbolCache, [i \in DOMAIN SetToSeq(targets) |->
                              [key |-> SymbolKey(l.bin, SetToSeq(targets)[i][1]), target |-> SetToSeq(targets)[i][2]]])
       \/ lookups' = [lookups EXCEPT ![k] = Idle] /\ UNCHANGED symbolCache
    /\ UNCHANGED <<symbolWorld, binary, lookupsMade>>

SymbolNext == ReplaceBinary \/ \E k \in Seekers : BeginLookup(k) \/ ReadTargets(k)
SymbolSpec == SymbolInit /\ [][SymbolNext]_symbolVars
-----------------------------------------------------------------------------
(* Properties.                                                             *)

\* A lookup answers every name it was asked for as the binary it identified
\* does, whatever others asked of the same binary, was evicted since or is
\* being read at the same time; a binary replaced between its identification
\* and its reading is left out.
LookupRight ==
    symbolWorld.calm =>
      \A k \in Seekers : lookups[k].at = "done" =>
        lookups[k].found = {<<n, ProbeTarget(lookups[k].bin, n)>> : n \in symbolWorld.asks[k]}
=============================================================================
