----------------------------- MODULE Containers -----------------------------
(***************************************************************************)
(* The registry's containers: getOrCreateContainer, handleEvents for the   *)
(* process events and its gc ticker (src/containers/registry.go), and the  *)
(* processes and the zombie state of a container                           *)
(* (src/containers/container.go).                                          *)
(*                                                                         *)
(* Processes start, are moved to another cgroup, exec and exit; pids are   *)
(* reused.  The kernel tells the registry by events that carry only a pid, *)
(* may be lost, and may overtake each other.  The registry looks the rest  *)
(* up in /proc when it handles the event.  A container is a number.        *)
(***************************************************************************)
EXTENDS Naturals, Sequences, FiniteSets

CONSTANTS
    OsPids,
    ContainerWorlds,    \* the id calcId gives a cgroup ("" for none), and the faults
    MaxStarts,          \* bound: processes started
    MaxContainers,      \* bound: containers created
    MaxTold             \* bound: process events under way

VARIABLES
    hostWorld,
    running,        \* /proc: the start number of a pid's process (0: none) and its cgroup
    starts,         \* processes started so far
    toldEvents,     \* process events under way
    containers,     \* the containers created, closed ones included
    containersByPid, containersByCgroupId, containersById,
    containersByPidIgnored,
    registering     \* between getOrCreateContainer and the process's registration, and
                    \* whether that is for a start event

containersVars == <<hostWorld, running, starts, toldEvents, containers, containersByPid,
                    containersByCgroupId, containersById, containersByPidIgnored, registering>>
registryVars == <<containersByPid, containersByCgroupId, containersById, containersByPidIgnored>>
osVars == <<running, starts>>

NoContainer == 0
NotRunning == [start |-> 0, cg |-> ""]
NotRegistering == [pid |-> 0, c |-> NoContainer, start |-> FALSE]
Cgs == DOMAIN hostWorld.ids
CgIds == {hostWorld.ids[g] : g \in Cgs} \ {""}

ContainersInit ==
    /\ hostWorld \in ContainerWorlds
    /\ running = [p \in OsPids |-> NotRunning] /\ starts = 0 /\ toldEvents = <<>>
    /\ containers = <<>>
    /\ containersByPid = [p \in OsPids |-> NoContainer]
    /\ containersByCgroupId = [g \in Cgs |-> NoContainer]
    /\ containersById = [i \in CgIds |-> NoContainer]
    /\ containersByPidIgnored = {}
    /\ registering = NotRegistering
-----------------------------------------------------------------------------
(* The host.                                                               *)

Tell(type, pid) ==
    /\ Len(toldEvents) < MaxTold
    /\ \/ toldEvents' = Append(toldEvents, [type |-> type, pid |-> pid])
       \/ hostWorld.lossy /\ toldEvents' = toldEvents
HostStep == UNCHANGED <<hostWorld, containers, registryVars, registering>>

StartProcess(p, g) ==
    /\ running[p] = NotRunning /\ starts < MaxStarts
    /\ starts' = starts + 1
    /\ running' = [running EXCEPT ![p] = [start |-> starts + 1, cg |-> g]]
    /\ Tell("start", p) /\ HostStep

\* systemd moves a unit's process out of its own scope before it execs.
MoveAndExec(p, g) ==
    /\ running[p].cg = "/init.scope" /\ g # "/init.scope"
    /\ running' = [running EXCEPT ![p].cg = g]
    /\ Tell("exec", p) /\ HostStep /\ UNCHANGED starts

ExitProcess(p) ==
    /\ running[p] # NotRunning
    /\ running' = [running EXCEPT ![p] = NotRunning]
    /\ Tell("exit", p) /\ HostStep /\ UNCHANGED starts
-----------------------------------------------------------------------------
(* A container.                                                            *)

Procs(c) == containers[c].processes

\* NewContainer.
NewContainer(g, id) ==
    [cg |-> g, id |-> id, processes |-> [p \in OsPids |-> 0], zombie |-> FALSE, age |-> 0, closed |-> 0]

\* onProcessStart: a registered process is kept, one with another start time
\* replaced.
StartedIn(c, p, start) == [c EXCEPT !.processes[p] = start, !.zombie = FALSE, !.age = 0]

\* onProcessExit.
Exited(c, p) ==
    LET left == [c EXCEPT !.processes[p] = 0] IN
    IF \A q \in OsPids : left.processes[q] = 0 THEN [left EXCEPT !.zombie = TRUE, !.age = 0] ELSE left

\* Close.
ClosedContainer(c) == [c EXCEPT !.closed = @ + 1]

\* Dead: a zombie for longer than gcInterval; age counts the ticks since.
IsDead(c) == c.zombie /\ c.age >= 1
-----------------------------------------------------------------------------
(* getOrCreateContainer.                                                   *)

\* Mutant of ByPidWithout: the pids stay.
MutantByPidWithout(c) == containersByPid

\* The maps without a container.
ByPidWithout(c) == [p \in OsPids |-> IF containersByPid[p] = c THEN NoContainer ELSE containersByPid[p]]
ByCgroupWithout(c) == [g \in Cgs |-> IF containersByCgroupId[g] = c THEN NoContainer ELSE containersByCgroupId[g]]

\* A container of the same id is closed, and replaced if NewContainer succeeds.
CreateContainer(p, g, id, isStart) ==
    LET new == Len(containers) + 1
        old == containersById[id]
        others == IF old = NoContainer THEN containers ELSE [containers EXCEPT ![old] = ClosedContainer(@)]
        byPid == IF old = NoContainer THEN containersByPid ELSE ByPidWithout(old)
        byCgroup == IF old = NoContainer THEN containersByCgroupId ELSE ByCgroupWithout(old) IN
    /\ IF new <= MaxContainers
       THEN /\ containers' = Append(others, NewContainer(g, id))
            /\ containersByPid' = [byPid EXCEPT ![p] = new]
            /\ containersByCgroupId' = [byCgroup EXCEPT ![g] = new]
            /\ containersById' = [containersById EXCEPT ![id] = new]
            /\ registering' = [pid |-> p, c |-> new, start |-> isStart]
       ELSE /\ containers' = others /\ containersByPid' = byPid /\ containersByCgroupId' = byCgroup
            /\ containersById' = [containersById EXCEPT ![id] = NoContainer]
            /\ registering' = NotRegistering
    /\ UNCHANGED containersByPidIgnored

NoneFound == UNCHANGED <<containers, registryVars>> /\ registering' = NotRegistering

\* A pid that belongs to no container is remembered, unless it is about to be
\* moved.
Remembered(g) == g # "/init.scope"

\* The container of a pid: the one it is mapped to, the one of its cgroup, or
\* a new one.  Its process is registered next.
GetOrCreateContainer(p, isStart) ==
    LET known == containersByPid[p]
        g == running[p].cg IN
    CASE known # NoContainer ->
           UNCHANGED <<containers, registryVars>> /\ registering' = [pid |-> p, c |-> known, start |-> isStart]
      [] known = NoContainer /\ (p \in containersByPidIgnored \/ running[p] = NotRunning) -> NoneFound
      [] OTHER ->
           IF containersByCgroupId[g] # NoContainer
           THEN /\ containersByPid' = [containersByPid EXCEPT ![p] = containersByCgroupId[g]]
                /\ registering' = [pid |-> p, c |-> containersByCgroupId[g], start |-> isStart]
                /\ UNCHANGED <<containers, containersByCgroupId, containersById, containersByPidIgnored>>
           ELSE IF hostWorld.ids[g] # "" THEN CreateContainer(p, g, hostWorld.ids[g], isStart)
           ELSE /\ containersByPidIgnored' = IF Remembered(g) THEN containersByPidIgnored \cup {p} ELSE containersByPidIgnored
                /\ registering' = NotRegistering
                /\ UNCHANGED <<containers, containersByPid, containersByCgroupId, containersById>>
-----------------------------------------------------------------------------
(* handleEvents.                                                           *)

\* The next event: of one pid they come in order, unless the host reorders.
Taken(i) == SubSeq(toldEvents, 1, i - 1) \o SubSeq(toldEvents, i + 1, Len(toldEvents))
InOrder(i) == hostWorld.reorders \/ \A j \in 1..(i - 1) : toldEvents[j].pid # toldEvents[i].pid

HandleStep(i, type) == registering = NotRegistering /\ toldEvents[i].type = type /\ InOrder(i) /\ toldEvents' = Taken(i)

\* A process start: a pid that is mapped is checked against its cgroup first,
\* and unmapped if that is another one; then it is looked up.
OnStart(i) ==
    LET p == toldEvents[i].pid
        c == containersByPid[p] IN
    /\ HandleStep(i, "start")
    /\ IF c # NoContainer /\ (running[p] = NotRunning \/ running[p].cg # containers[c].cg)
       THEN /\ containers' = [containers EXCEPT ![c] = Exited(@, p)]
            /\ containersByPid' = [containersByPid EXCEPT ![p] = NoContainer]
            /\ registering' = [pid |-> p, c |-> NoContainer, start |-> TRUE]
            /\ UNCHANGED <<containersByCgroupId, containersById, containersByPidIgnored>>
       ELSE GetOrCreateContainer(p, TRUE)
    /\ UNCHANGED <<hostWorld, osVars>>

\* The look-up after the pid was unmapped.
LookUp ==
    /\ registering.pid # 0 /\ registering.c = NoContainer
    /\ GetOrCreateContainer(registering.pid, TRUE)
    /\ UNCHANGED <<hostWorld, osVars, toldEvents>>

OnExec(i) == HandleStep(i, "exec") /\ GetOrCreateContainer(toldEvents[i].pid, FALSE) /\ UNCHANGED <<hostWorld, osVars>>

\* ensureProcess registers a process that is not, if it is still there; the
\* onProcessStart of a start event also replaces one with another start time.
RegisterProcess ==
    LET p == registering.pid
        c == registering.c IN
    /\ c # NoContainer
    /\ IF running[p] # NotRunning /\ Procs(c)[p] # running[p].start /\ (registering.start \/ Procs(c)[p] = 0)
       THEN containers' = [containers EXCEPT ![c] = StartedIn(@, p, running[p].start)]
       ELSE UNCHANGED containers
    /\ registering' = NotRegistering
    /\ UNCHANGED <<hostWorld, osVars, toldEvents, registryVars>>

OnExit(i) ==
    LET p == toldEvents[i].pid
        c == containersByPid[p] IN
    /\ HandleStep(i, "exit")
    /\ containers' = IF c # NoContainer THEN [containers EXCEPT ![c] = Exited(@, p)] ELSE containers
    /\ containersByPid' = [containersByPid EXCEPT ![p] = NoContainer]
    /\ UNCHANGED <<hostWorld, osVars, containersByCgroupId, containersById, containersByPidIgnored, registering>>

\* A scrape finds that a registered pid is gone: updateDelays, onProcessExitIf.
NoticeGone(c, p) ==
    /\ containers[c].closed = 0 /\ containers[c].processes[p] # 0 /\ running[p] = NotRunning
    /\ containers' = [containers EXCEPT ![c] = Exited(@, p)]
    /\ UNCHANGED <<hostWorld, osVars, toldEvents, registryVars, registering>>

\* Mutant of Stray: a pid that is gone is left to its exit event.
MutantStray(p) == containersByPid[p] # NoContainer /\ running[p] # NotRunning /\ running[p].cg # containers[containersByPid[p]].cg

\* A mapped pid that is gone, or in another cgroup.
Stray(p) ==
    containersByPid[p] # NoContainer /\ (running[p] = NotRunning \/ running[p].cg # containers[containersByPid[p]].cg)
AfterTick(c) ==
    LET o == containers[c]
        strays == {p \in OsPids : Stray(p) /\ containersByPid[p] = c}
        left == [o EXCEPT !.processes = [p \in OsPids |-> IF p \in strays THEN 0 ELSE @[p]]] IN
    IF strays # {} /\ \A p \in OsPids : left.processes[p] = 0 THEN [left EXCEPT !.zombie = TRUE, !.age = 0]
    ELSE IF left.zombie THEN [left EXCEPT !.age = 1] ELSE left
DroppedFrom(c) == c \in DOMAIN containers /\ containers[c].closed = 0 /\ IsDead(containers[c])
              /\ ~\E p \in OsPids : Stray(p) /\ containersByPid[p] = c

\* The gc ticker: stray pids are unmapped, then the dead containers dropped from
\* the maps and closed.
GcTick ==
    /\ registering = NotRegistering
    /\ containers' = [c \in DOMAIN containers |-> IF DroppedFrom(c) THEN ClosedContainer(containers[c]) ELSE AfterTick(c)]
    /\ containersByPid' = [p \in OsPids |-> IF Stray(p) \/ DroppedFrom(containersByPid[p]) THEN NoContainer ELSE containersByPid[p]]
    /\ containersByCgroupId' = [g \in Cgs |-> IF DroppedFrom(containersByCgroupId[g]) THEN NoContainer ELSE containersByCgroupId[g]]
    /\ containersById' = [i \in CgIds |-> IF DroppedFrom(containersById[i]) THEN NoContainer ELSE containersById[i]]
    /\ containersByPidIgnored' = {}
    /\ UNCHANGED <<hostWorld, osVars, toldEvents, registering>>

\* IgnoredContainersCacheTTL passes.
ForgetIgnored(p) ==
    /\ p \in containersByPidIgnored
    /\ containersByPidIgnored' = containersByPidIgnored \ {p}
    /\ UNCHANGED <<hostWorld, osVars, toldEvents, containers, containersByPid, containersByCgroupId, containersById, registering>>

ContainersNext ==
    \/ \E p \in OsPids, g \in Cgs : StartProcess(p, g) \/ MoveAndExec(p, g)
    \/ \E p \in OsPids : ExitProcess(p) \/ ForgetIgnored(p)
    \/ \E i \in 1..Len(toldEvents) : OnStart(i) \/ OnExec(i) \/ OnExit(i)
    \/ LookUp \/ RegisterProcess \/ GcTick
    \/ \E c \in DOMAIN containers, p \in OsPids : NoticeGone(c, p)

HandleProcessEvent == (\E i \in 1..Len(toldEvents) : OnStart(i) \/ OnExec(i) \/ OnExit(i)) \/ LookUp \/ RegisterProcess

ContainersSpec == ContainersInit /\ [][ContainersNext]_containersVars
ContainersLiveSpec == ContainersSpec /\ WF_containersVars(HandleProcessEvent) /\ SF_containersVars(GcTick)
-----------------------------------------------------------------------------
(* Properties.                                                             *)

\* No map of the registry leads to a closed container, and a container is
\* closed once: Close closes a channel, and a second one would be a panic.
MapsLeadToOpen ==
    /\ \A c \in DOMAIN containers : containers[c].closed <= 1
    /\ \A p \in OsPids : containersByPid[p] # NoContainer =>
         /\ containers[containersByPid[p]].closed = 0
         /\ containersById[containers[containersByPid[p]].id] = containersByPid[p]
    /\ \A g \in Cgs : containersByCgroupId[g] # NoContainer => containers[containersByCgroupId[g]].closed = 0

HasRunning(c) == \E p \in OsPids : running[p].cg = containers[c].cg

\* A container none of whose processes is left is closed in the end, whatever
\* events of them were lost.
DeadContainerClosed ==
    \A c \in 1..MaxContainers :
      (c \in DOMAIN containers /\ ~HasRunning(c)) ~> (c \in DOMAIN containers /\ (containers[c].closed = 1 \/ HasRunning(c)))
=============================================================================
