---------------------------- MODULE TracerStart ------------------------------
(***************************************************************************)
(* How the tracer starts: NewRegistry, Run, ebpf and init                  *)
(* (src/containers/registry.go, src/ebpftracer/tracer.go, init.go).  The   *)
(* hooks are attached one by one, then the processes and sockets that are  *)
(* there are scanned, while processes start, connect and exit; the readers *)
(* of the perf buffers (runEventsReader) and the scan send to one bounded  *)
(* channel, which handleEvents drains.                                     *)
(***************************************************************************)
EXTENDS Naturals, Sequences, FiniteSets

CONSTANTS HostPids,
          EventsCap,     \* capacity of r.events
          MaxConnects    \* bound: connections opened

VARIABLES
    procs,        \* the host's processes: "none", "alive" or "dead"
    conn,         \* the connection each has open, 0 none
    connects,     \* connections opened so far
    hooks,        \* the eBPF programs attached
    inKernel,     \* active_connections: the stamp of a process's connection, 0 none
    perf,         \* the perf buffers
    scan,         \* the scan: where it is, and what it has read
    events,       \* r.events
    knownProcs,   \* processes the registry tracks
    knownConns,   \* stamp of the connection the registry has for a process, 0 none
    scanDone      \* InitialScanDone was handled

startVars == <<procs, conn, connects, hooks, inKernel, perf, scan, events, knownProcs, knownConns, scanDone>>

Hooks == {"start", "exit", "tcp"}
Buffers == {"proc", "tcp"}
ScanStamp == MaxConnects + 1
Ev(type, p, stamp) == [type |-> type, pid |-> p, stamp |-> stamp]
AliveOnHost == {p \in HostPids : procs[p] = "alive"}

TracerStartInit ==
    /\ procs \in [HostPids -> {"none", "alive"}]
    /\ \E open \in SUBSET AliveOnHost :
         /\ Cardinality(open) <= 1
         /\ conn = [p \in HostPids |-> IF p \in open THEN 1 ELSE 0]
         /\ connects = Cardinality(open)
    /\ hooks = {}
    /\ inKernel = [p \in HostPids |-> 0]
    /\ perf = [b \in Buffers |-> <<>>]
    /\ scan = [at |-> "attach", pids |-> {}, left |-> {}, table |-> {}, socks |-> {}]
    /\ events = <<>>
    /\ knownProcs = {} /\ knownConns = [p \in HostPids |-> 0] /\ scanDone = FALSE
-----------------------------------------------------------------------------
(* The host, and what the attached hooks tell of it.                       *)

Told(hook, b, e) == perf' = IF hook \in hooks THEN [perf EXCEPT ![b] = Append(@, e)] ELSE perf

HostStarts(p) ==
    /\ procs[p] = "none"
    /\ procs' = [procs EXCEPT ![p] = "alive"]
    /\ Told("start", "proc", Ev("start", p, 0))
    /\ UNCHANGED <<conn, connects, hooks, inKernel, scan, events, knownProcs, knownConns, scanDone>>

HostConnects(p) ==
    /\ p \in AliveOnHost /\ conn[p] = 0 /\ connects < MaxConnects
    /\ connects' = connects + 1
    /\ conn' = [conn EXCEPT ![p] = connects']
    /\ inKernel' = IF "tcp" \in hooks THEN [inKernel EXCEPT ![p] = connects'] ELSE inKernel
    /\ Told("tcp", "tcp", Ev("open", p, connects'))
    /\ UNCHANGED <<procs, hooks, scan, events, knownProcs, knownConns, scanDone>>

\* A close is told of when active_connections has the connection.
HostCloses(p) ==
    /\ conn[p] # 0
    /\ conn' = [conn EXCEPT ![p] = 0]
    /\ IF "tcp" \in hooks /\ inKernel[p] # 0
       THEN Told("tcp", "tcp", Ev("close", p, inKernel[p])) /\ inKernel' = [inKernel EXCEPT ![p] = 0]
       ELSE UNCHANGED <<perf, inKernel>>
    /\ UNCHANGED <<procs, connects, hooks, scan, events, knownProcs, knownConns, scanDone>>

HostExits(p) ==
    /\ p \in AliveOnHost /\ conn[p] = 0
    /\ procs' = [procs EXCEPT ![p] = "dead"]
    /\ Told("exit", "proc", Ev("exit", p, 0))
    /\ UNCHANGED <<conn, connects, hooks, inKernel, scan, events, knownProcs, knownConns, scanDone>>
-----------------------------------------------------------------------------
(* The start.                                                              *)

Enqueue(e) == Len(events) < EventsCap /\ events' = Append(events, e)

\* Mutant of AttachHook: the scan does not wait for the last hook.
MutantAttachHook(h) ==
    /\ scan.at = "attach" /\ h \notin hooks
    /\ hooks' = hooks \cup {h}
    /\ scan' = [scan EXCEPT !.at = IF Cardinality(hooks') = 2 THEN "list" ELSE @]
    /\ UNCHANGED <<procs, conn, connects, inKernel, perf, events, knownProcs, knownConns, scanDone>>

\* ebpf: the readers run before the first program is attached.
AttachHook(h) ==
    /\ scan.at = "attach" /\ h \notin hooks
    /\ hooks' = hooks \cup {h}
    /\ scan' = [scan EXCEPT !.at = IF hooks' = Hooks THEN "list" ELSE @]
    /\ UNCHANGED <<procs, conn, connects, inKernel, perf, events, knownProcs, knownConns, scanDone>>

\* init lists the processes, and sends a start event for each.
ListPids ==
    /\ scan.at = "list"
    /\ scan' = [scan EXCEPT !.at = "starts", !.pids = AliveOnHost, !.left = AliveOnHost]
    /\ UNCHANGED <<procs, conn, connects, hooks, inKernel, perf, events, knownProcs, knownConns, scanDone>>

SendStart ==
    /\ scan.at = "starts" /\ scan.left # {}
    /\ LET p == CHOOSE p \in scan.left : \A q \in scan.left : p <= q IN
       Enqueue(Ev("start", p, 0)) /\ scan' = [scan EXCEPT !.left = @ \ {p}]
    /\ UNCHANGED <<procs, conn, connects, hooks, inKernel, perf, knownProcs, knownConns, scanDone>>

\* The socket table of the network namespace, once.
ReadSocketTable ==
    /\ scan.at = "starts" /\ scan.left = {}
    /\ scan' = [scan EXCEPT !.at = IF scan.pids = {} THEN "opens" ELSE "fds", !.left = scan.pids,
                            !.table = {conn[p] : p \in HostPids} \ {0}]
    /\ UNCHANGED <<procs, conn, connects, hooks, inKernel, perf, events, knownProcs, knownConns, scanDone>>

\* The fds of each process, which are matched with the table's sockets.
ReadFds(p) ==
    /\ scan.at = "fds" /\ p \in scan.left
    /\ scan' = [scan EXCEPT !.left = @ \ {p},
                            !.at = IF scan.left = {p} THEN "opens" ELSE @,
                            !.socks = IF conn[p] \in scan.table THEN @ \cup {p} ELSE @]
    /\ UNCHANGED <<procs, conn, connects, hooks, inKernel, perf, events, knownProcs, knownConns, scanDone>>

\* Each socket is sent as a connection; then it is put into
\* active_connections, unless the kernel has put it there.
SendOpen(p) ==
    /\ scan.at = "opens" /\ p \in scan.socks
    /\ Enqueue(Ev("open", p, ScanStamp))
    /\ scan' = [scan EXCEPT !.at = "update", !.left = {p}]
    /\ UNCHANGED <<procs, conn, connects, hooks, inKernel, perf, knownProcs, knownConns, scanDone>>

UpdateMap ==
    /\ scan.at = "update"
    /\ inKernel' = [p \in HostPids |-> IF p \in scan.left /\ inKernel[p] = 0 THEN ScanStamp ELSE inKernel[p]]
    /\ scan' = [scan EXCEPT !.at = "opens", !.left = {}, !.socks = @ \ scan.left]
    /\ UNCHANGED <<procs, conn, connects, hooks, perf, events, knownProcs, knownConns, scanDone>>

\* NewRegistry queues InitialScanDone behind what Run sent.
SendScanDone ==
    /\ scan.at = "opens" /\ scan.socks = {}
    /\ Enqueue(Ev("scanDone", 0, 0))
    /\ scan' = [scan EXCEPT !.at = "ready"]
    /\ UNCHANGED <<procs, conn, connects, hooks, inKernel, perf, knownProcs, knownConns, scanDone>>

Scan == (\E h \in Hooks : AttachHook(h)) \/ ListPids \/ SendStart \/ ReadSocketTable
        \/ (\E p \in HostPids : ReadFds(p) \/ SendOpen(p)) \/ UpdateMap \/ SendScanDone
-----------------------------------------------------------------------------
(* The readers and the event loop.                                         *)

\* runEventsReader sends on what the kernel wrote.
RunEventsReader(b) ==
    /\ perf[b] # <<>>
    /\ Enqueue(Head(perf[b]))
    /\ perf' = [perf EXCEPT ![b] = Tail(@)]
    /\ UNCHANGED <<procs, conn, connects, hooks, inKernel, scan, knownProcs, knownConns, scanDone>>

\* An event of a process that is gone, and not known, is dropped; a
\* connection's event may come before its process's.
Handle(e) ==
    LET tracked == e.pid \in knownProcs \/ (e.pid \in HostPids /\ e.pid \in AliveOnHost) IN
    /\ knownProcs' = CASE e.type = "exit" -> knownProcs \ {e.pid}
                       [] e.type \in {"start", "open"} /\ tracked -> knownProcs \cup {e.pid}
                       [] OTHER -> knownProcs
    /\ knownConns' = CASE e.type = "open" /\ tracked -> [knownConns EXCEPT ![e.pid] = e.stamp]
                       [] e.type = "close" /\ knownConns[e.pid] = e.stamp -> [knownConns EXCEPT ![e.pid] = 0]
                       [] OTHER -> knownConns
    /\ scanDone' = (scanDone \/ e.type = "scanDone")

\* handleEvents takes one event.
HandleEvents ==
    /\ events # <<>> /\ events' = Tail(events)
    /\ Handle(Head(events))
    /\ UNCHANGED <<procs, conn, connects, hooks, inKernel, perf, scan>>

TracerStartNext ==
    \/ \E p \in HostPids : HostStarts(p) \/ HostConnects(p) \/ HostCloses(p) \/ HostExits(p)
    \/ Scan
    \/ \E b \in Buffers : RunEventsReader(b)
    \/ HandleEvents

TracerStartSpec == TracerStartInit /\ [][TracerStartNext]_startVars

-----------------------------------------------------------------------------
(* Properties.                                                             *)

Quiet == scan.at = "ready" /\ events = <<>> /\ \A b \in Buffers : perf[b] = <<>>

\* Once the start is over and every event is handled, every process that runs
\* and every connection that is open is known, whenever it began: before the
\* hooks, between two steps of the scan, or after it (Run calls ebpf before
\* init).
NothingMissed ==
    Quiet => /\ AliveOnHost \subseteq knownProcs
             /\ \A p \in HostPids : conn[p] # 0 => knownConns[p] # 0

\* A connection open since before the hooks were attached is known to kernel
\* and registry under one stamp, so that its close and its requests are
\* accepted (UpdateNoExist in init).
OldConnectionShared ==
    \A p \in HostPids : Quiet /\ conn[p] = 1 /\ inKernel[p] # 1 => inKernel[p] = knownConns[p]

\* When log reading is told that the initial scan is done, every process the
\* scan found is tracked or gone.
ScanDoneMeansTracked == scanDone => \A p \in scan.pids : p \in knownProcs \/ p \notin AliveOnHost

\* The start misses nothing and announces nothing too early.
StartComplete == NothingMissed /\ OldConnectionShared /\ ScanDoneMeansTracked
=============================================================================
