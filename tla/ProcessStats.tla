---------------------------- MODULE ProcessStats -----------------------------
(***************************************************************************)
(* The delay counters a container sums over its processes: updateDelays,   *)
(* onProcessExitLocked and onProcessStart (src/containers/container.go).   *)
(*                                                                         *)
(* A scrape takes the pids under the lock, reads each process's total      *)
(* without it, and adds the differences under the lock again, while        *)
(* processes exit and their pid is used again.                             *)
(***************************************************************************)
EXTENDS Integers, FiniteSetsExt

CONSTANTS StatsWorlds, MaxTurns, MaxDelay   \* bounds: processes under the pid, a process's total

VARIABLES
    statsWorld,   \* calm: starts and exits keep clear of scrapes, and a pid is
                  \* not used again before its exit is handled
    turn,         \* the process under the pid, and whether it lives
    total,        \* the delay each process has had
    tracked,      \* c.processes[pid]: a turn, 0 none
    delaysByPid,  \* the total last added for the pid
    delays,       \* c.delays
    scraping,     \* a scrape in updateDelays: what it took and read
    added         \* history: the latest total of each process that was added

statsVars == <<statsWorld, turn, total, tracked, delaysByPid, delays, scraping, added>>

Turns == 1..MaxTurns
NoScrape == [at |-> "idle", of |-> 0, read |-> 0]

StatsInit ==
    /\ statsWorld \in StatsWorlds
    /\ turn = [no |-> 0, alive |-> FALSE]
    /\ total = [t \in Turns |-> 0] /\ tracked = 0
    /\ delaysByPid = 0 /\ delays = 0 /\ scraping = NoScrape
    /\ added = [t \in Turns |-> 0]

TurnBegins ==
    /\ ~turn.alive /\ turn.no < MaxTurns /\ (statsWorld.calm => tracked = 0)
    /\ turn' = [no |-> turn.no + 1, alive |-> TRUE]
    /\ UNCHANGED <<statsWorld, total, tracked, delaysByPid, delays, scraping, added>>

TurnEnds ==
    /\ turn.alive /\ turn' = [turn EXCEPT !.alive = FALSE]
    /\ UNCHANGED <<statsWorld, total, tracked, delaysByPid, delays, scraping, added>>

IsDelayed ==
    /\ turn.alive /\ total[turn.no] < MaxDelay
    /\ total' = [total EXCEPT ![turn.no] = @ + 1]
    /\ UNCHANGED <<statsWorld, turn, tracked, delaysByPid, delays, scraping, added>>
-----------------------------------------------------------------------------
\* In a calm world the event loop does not act during a scrape.
Allowed == statsWorld.calm => scraping = NoScrape

\* onProcessStart; a process it replaces leaves its last total behind.
TrackTurn ==
    /\ turn.alive /\ tracked # turn.no /\ Allowed
    /\ tracked' = turn.no
    /\ UNCHANGED <<statsWorld, turn, total, delaysByPid, delays, scraping, added>>

\* Mutant of ExitTurn: the pid's last total is kept.
MutantExitTurn ==
    /\ tracked # 0 /\ ~(turn.alive /\ turn.no = tracked) /\ Allowed
    /\ tracked' = 0
    /\ UNCHANGED <<statsWorld, turn, total, delaysByPid, delays, scraping, added>>

\* onProcessExitLocked.
ExitTurn ==
    /\ tracked # 0 /\ ~(turn.alive /\ turn.no = tracked) /\ Allowed
    /\ tracked' = 0 /\ delaysByPid' = 0
    /\ UNCHANGED <<statsWorld, turn, total, delays, scraping, added>>

\* updateDelays takes the pids.
TakePids ==
    /\ scraping.at = "idle" /\ tracked # 0
    /\ scraping' = [NoScrape EXCEPT !.at = "read"]
    /\ UNCHANGED <<statsWorld, turn, total, tracked, delaysByPid, delays, added>>

\* TaskstatsTGID, which fails for a pid that is gone.
ReadTotal ==
    /\ scraping.at = "read"
    /\ scraping' = IF turn.alive THEN [at |-> "add", of |-> turn.no, read |-> total[turn.no]] ELSE NoScrape
    /\ UNCHANGED <<statsWorld, turn, total, tracked, delaysByPid, delays, added>>

\* What the pid has had since it was last read.
Difference(read) == read - delaysByPid

\* The differences are added.
AddDelays ==
    /\ scraping.at = "add"
    /\ delays' = delays + Difference(scraping.read)
    /\ delaysByPid' = scraping.read
    /\ added' = [added EXCEPT ![scraping.of] = scraping.read]
    /\ scraping' = NoScrape
    /\ UNCHANGED <<statsWorld, turn, total, tracked>>

StatsNext == TurnBegins \/ TurnEnds \/ IsDelayed \/ TrackTurn \/ ExitTurn
             \/ TakePids \/ ReadTotal \/ AddDelays

StatsSpec == StatsInit /\ [][StatsNext]_statsVars
-----------------------------------------------------------------------------
(* Properties.                                                             *)

\* When no start or exit falls into a scrape, a container's delay is the sum of
\* what each process of the pid was last seen with: nothing is counted twice,
\* and the next process under the pid takes nothing back (updateDelays,
\* onProcessExitLocked).
DelaysExact == statsWorld.calm => delays = MapThenSumSet(LAMBDA t : added[t], Turns)
=============================================================================
