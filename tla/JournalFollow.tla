---------------------------- MODULE JournalFollow ----------------------------
(***************************************************************************)
(* The journald reader and the log parsers of systemd units                *)
(* (src/logs/journald_reader.go; runLogParser, Close in                    *)
(* src/containers/container.go).                                           *)
(*                                                                         *)
(* One goroutine reads the journal of the host, looks up who subscribed to *)
(* an entry's unit, and sends the entry to that channel, which is not      *)
(* buffered, after it released the lock.                                   *)
(***************************************************************************)
EXTENDS Naturals, Sequences

CONSTANTS UnitContainers, Units, JournalWorlds,
          MaxEntries    \* bound: entries in the journal

VARIABLES
    journalWorld,  \* the unit of each container; calm: none is closed while an
                   \* entry for it is being sent
    entriesRead,
    follower,      \* follow: where it is, and the container whose channel it holds
    subscribers,   \* unit to the container whose channel is subscribed
    unitParser,    \* a container's parser: none, subscribed, running, stopping, stopped
    gotEntries     \* entries each parser received

journalVars == <<journalWorld, entriesRead, follower, subscribers, unitParser, gotEntries>>

Nobody == 0
JournalInit ==
    /\ journalWorld \in JournalWorlds
    /\ entriesRead = 0 /\ follower = [at |-> "next", to |-> Nobody]
    /\ subscribers = [u \in Units |-> Nobody]
    /\ unitParser = [c \in UnitContainers |-> "none"]
    /\ gotEntries = [c \in UnitContainers |-> 0]

UnitOf(c) == journalWorld.unit[c]
-----------------------------------------------------------------------------
(* follow.                                                                 *)

\* An entry of some unit is read; one nobody subscribed to is passed over.
NextEntry(u) ==
    /\ follower.at = "next" /\ entriesRead < MaxEntries
    /\ entriesRead' = entriesRead + 1
    /\ follower' = IF subscribers[u] = Nobody THEN follower ELSE [at |-> "send", to |-> subscribers[u]]
    /\ UNCHANGED <<journalWorld, subscribers, unitParser, gotEntries>>

\* The parser takes the entry.
SendEntry ==
    /\ follower.at = "send" /\ unitParser[follower.to] \in {"running", "stopping"}
    /\ gotEntries' = [gotEntries EXCEPT ![follower.to] = @ + 1]
    /\ follower' = [at |-> "next", to |-> Nobody]
    /\ UNCHANGED <<journalWorld, entriesRead, subscribers, unitParser>>

\* The journal cannot be read: nothing is read any more.
FollowEnds ==
    /\ follower.at = "next" /\ follower' = [follower EXCEPT !.at = "ended"]
    /\ UNCHANGED <<journalWorld, entriesRead, subscribers, unitParser, gotEntries>>
-----------------------------------------------------------------------------
(* The registry.                                                           *)

\* runLogParser subscribes the container, unless the unit has a subscriber.
SubscribeUnit(c) ==
    /\ unitParser[c] = "none"
    /\ IF subscribers[UnitOf(c)] # Nobody
       THEN unitParser' = [unitParser EXCEPT ![c] = "refused"] /\ UNCHANGED subscribers
       ELSE /\ unitParser' = [unitParser EXCEPT ![c] = "subscribed"]
            /\ subscribers' = [subscribers EXCEPT ![UnitOf(c)] = c]
    /\ UNCHANGED <<journalWorld, entriesRead, follower, gotEntries>>

\* Then the parser is started.
StartUnitParser(c) ==
    /\ unitParser[c] = "subscribed" /\ unitParser' = [unitParser EXCEPT ![c] = "running"]
    /\ UNCHANGED <<journalWorld, entriesRead, follower, subscribers, gotEntries>>

\* Mutant of UnsubscribeUnit: the parser is stopped first.
MutantUnsubscribeUnit(c) ==
    /\ unitParser[c] = "running"
    /\ journalWorld.calm => follower.to # c
    /\ unitParser' = [unitParser EXCEPT ![c] = "stopped"]
    /\ UNCHANGED <<journalWorld, entriesRead, follower, subscribers, gotEntries>>

\* Close stops the parser: the unit is unsubscribed first.
UnsubscribeUnit(c) ==
    /\ unitParser[c] = "running"
    /\ journalWorld.calm => follower.to # c
    /\ subscribers' = [subscribers EXCEPT ![UnitOf(c)] = Nobody]
    /\ unitParser' = [unitParser EXCEPT ![c] = "stopping"]
    /\ UNCHANGED <<journalWorld, entriesRead, follower, gotEntries>>

StopUnitParser(c) ==
    /\ unitParser[c] = "stopping" /\ unitParser' = [unitParser EXCEPT ![c] = "stopped"]
    /\ UNCHANGED <<journalWorld, entriesRead, follower, subscribers, gotEntries>>

JournalNext ==
    \/ (\E u \in Units : NextEntry(u)) \/ SendEntry \/ FollowEnds
    \/ \E c \in UnitContainers : SubscribeUnit(c) \/ StartUnitParser(c) \/ UnsubscribeUnit(c) \/ StopUnitParser(c)

JournalSpec == JournalInit /\ [][JournalNext]_journalVars
-----------------------------------------------------------------------------
(* Properties.                                                             *)

\* The one goroutine that reads the journal never waits for a parser that was
\* stopped, which would end the logs of every unit: a channel is unsubscribed
\* before its parser is stopped (LogParser.Stop).  A container that is closed
\* while an entry for it is being sent is left out.
NeverSendsToStopped ==
    journalWorld.calm /\ follower.at = "send" => unitParser[follower.to] # "stopped"
=============================================================================
