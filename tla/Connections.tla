---------------------------- MODULE Connections ----------------------------
(***************************************************************************)
(* How the agent follows the connections of one container                  *)
(* (containers/registry.go, containers/container.go).                      *)
(*                                                                         *)
(* The goroutine of handleEvents takes one event after the other: any      *)
(* event of the perf buffers, or the oldest of the ring buffer.  After     *)
(* each it retries the L7 events that found no connection.  Beside it run  *)
(* the container's gc and a scrape that notices processes that are gone,   *)
(* each under the container's lock.                                        *)
(***************************************************************************)
EXTENDS Sockets

CONSTANTS
    MaxTracked,         \* maxConnectionsPerContainer
    MaxParsers,         \* maxHTTP2ParsersPerContainer
    MaxPending,         \* maxPendingEvents
    ParseFailThreshold

ASSUME BoundsAssumption ==
    /\ Worlds \subseteq World
    /\ {MaxTracked, MaxParsers, MaxPending, ParseFailThreshold} \subseteq Nat

VARIABLES
    phase,              \* "idle", "open" (in onConnectionOpen) or "retry"
    opening,            \* the open event in onConnectionOpen
    mapped,             \* pids in containersByPid
    processes,          \* pid to the epoch of the registered process, 0 if none
    heap,               \* the ActiveConnection objects in use
    activeConnections,  \* tuple to object, 0 if none
    connectionsByPidFd, \* pid and fd to object, 0 if none
    parsers,            \* googleHTTP2Parsers
    pending,            \* L7 events to retry after the next event
    todo,               \* L7 events being retried
    last,               \* what the last step did with an event or an entry
    upTo                \* per socket, the number of the last event counted

tables == <<heap, activeConnections, connectionsByPidFd, parsers>>

agentVars == <<phase, opening, mapped, processes, tables, pending, todo, last, upTo>>

vars == <<kernelVars, agentVars>>

None == [sock |-> 0]

Objects == 1..(Cardinality(Keys) + Cardinality(Tuples) + 1)

NoParser == [held |-> FALSE, ts |-> 0, fed |-> {}, busy |-> FALSE]

Nothing == [counted |-> None, conn |-> 0, swept |-> {}]

ConnectionsInit ==
    /\ KernelInit
    /\ phase = "idle"
    /\ opening = None
    /\ mapped = Pids
    /\ processes = [p \in Pids |-> 1]
    /\ heap = [o \in Objects |-> None]
    /\ activeConnections = [t \in Tuples |-> 0]
    /\ connectionsByPidFd = [k \in Keys |-> 0]
    /\ parsers = [k \in Keys |-> NoParser]
    /\ pending = <<>>
    /\ todo = <<>>
    /\ last = Nothing
    /\ upTo = [s \in 1..MaxSockets |-> 0]

(***************************************************************************)
(* The tables of the container, as one value: the handlers below are       *)
(* functions from tables to tables.                                        *)
(***************************************************************************)
Tables == [heap |-> heap, act |-> activeConnections,
           byFd |-> connectionsByPidFd, parsers |-> parsers]

InUse(c) == ({c.act[t] : t \in Tuples} \cup {c.byFd[k] : k \in Keys}) \ {0}

(* Objects that neither map holds are garbage.                             *)
SetTables(c) ==
    /\ heap' = [o \in Objects |-> IF o \in InUse(c) THEN c.heap[o] ELSE None]
    /\ activeConnections' = c.act
    /\ connectionsByPidFd' = c.byFd
    /\ parsers' = c.parsers

FreeObject(c) == CHOOSE o \in Objects \ InUse(c) : TRUE

(* The object built for socket s: key, tuple and stamp of the event.       *)
NewConnection(s, stamp) ==
    [sock |-> s, ts |-> stamp, closed |-> "no", fails |-> 0]

KeyOf(s) == sockets[s].key

MarkClosed(c, o) ==
    IF o = 0 THEN c ELSE [c EXCEPT !.heap[o].closed = "recently"]

DropParser(c, k) == [c EXCEPT !.parsers[k] = NoParser]

dropStaleHTTP2Parser(c, k, stamp) ==
    IF c.parsers[k].held /\ c.parsers[k].ts # stamp THEN DropParser(c, k) ELSE c

canTrackConnection(c, k) ==
    c.byFd[k] # 0 \/ Cardinality({x \in Keys : c.byFd[x] # 0}) < MaxTracked

(***************************************************************************)
(* Connection and process events.                                          *)
(***************************************************************************)

(* processPendingL7Events, after every event: what is pending is taken     *)
(* over and retried.                                                       *)
AfterEvent(queue) ==
    /\ phase' = IF queue = <<>> THEN "idle" ELSE "retry"
    /\ todo' = queue
    /\ pending' = <<>>

(* getOrCreateContainer: a pid that is not mapped is looked up in /proc.   *)
GetOrCreate(p) == IF p \in mapped \cup alive THEN mapped \cup {p} ELSE mapped

(* ensureProcess: register the running process unless one is registered.   *)
EnsureProcess(p) ==
    IF processes[p] = 0 /\ p \in alive
    THEN [processes EXCEPT ![p] = epoch[p]]
    ELSE processes

TakePerf(e) ==
    /\ phase = "idle"
    /\ perf' = perf \ {e}
    /\ UNCHANGED <<world, epoch, alive, sockets, kernelConns, clock, ring>>

(* An event whose handler touches no connection.                           *)
Handled == AfterEvent(pending) /\ last' = Nothing /\ UNCHANGED <<opening, tables, upTo>>

(* The pid may stand for a process that is gone (the container is          *)
(* revalidated) and the registered process may be another one              *)
(* (onProcessStart replaces it).                                           *)
OnProcessStart(e) ==
    /\ e.type = "start"
    /\ TakePerf(e)
    /\ mapped' = IF e.pid \in alive THEN mapped \cup {e.pid} ELSE mapped \ {e.pid}
    /\ processes' = [processes EXCEPT ![e.pid] = IF e.pid \in alive THEN epoch[e.pid] ELSE 0]
    /\ Handled

(* The exit event names a pid, whatever process is registered for it now.  *)
OnProcessExit(e) ==
    /\ e.type = "exit"
    /\ TakePerf(e)
    /\ mapped' = mapped \ {e.pid}
    /\ processes' = IF e.pid \in mapped THEN [processes EXCEPT ![e.pid] = 0] ELSE processes
    /\ Handled

(* A failed connect: the process is registered, and only metrics change.   *)
OnConnectionError(e) ==
    /\ e.type = "error"
    /\ TakePerf(e)
    /\ mapped' = GetOrCreate(e.pid)
    /\ processes' = IF e.pid \in mapped' THEN EnsureProcess(e.pid) ELSE processes
    /\ Handled

(* onConnectionOpen up to its Lock: the process is looked up under the     *)
(* read lock, the filters are applied, and the connection is stored later  *)
(* (StoreConnection).                                                      *)
OnConnectionOpen(e) ==
    /\ e.type = "open"
    /\ TakePerf(e)
    /\ mapped' = GetOrCreate(e.pid)
    /\ processes' = IF e.pid \in mapped' THEN EnsureProcess(e.pid) ELSE processes
    /\ last' = Nothing
    /\ UNCHANGED <<tables, upTo>>
    /\ IF e.pid \in mapped' /\ processes'[e.pid] # 0 /\ sockets[e.sock].tuple \notin world.filtered
       THEN phase' = "open" /\ opening' = e /\ UNCHANGED <<pending, todo>>
       ELSE AfterEvent(pending) /\ UNCHANGED opening

(* The connection replaces whatever pid and fd hold.                       *)
Opened(c, e) ==
    LET k == KeyOf(e.sock)
        o == FreeObject(c)
        closed == MarkClosed(c, c.byFd[k])
    IN dropStaleHTTP2Parser(
          [closed EXCEPT !.heap[o] = NewConnection(e.sock, e.ts),
                         !.act[sockets[e.sock].tuple] = o,
                         !.byFd[k] = o],
          k, e.ts)

StoreConnection ==
    /\ phase = "open"
    /\ SetTables(Opened(Tables, opening))
    /\ last' = Nothing
    /\ opening' = None
    /\ AfterEvent(pending)
    /\ UNCHANGED <<kernelVars, mapped, processes, upTo>>

(* onConnectionClose: the entry is only stamped, gc removes it.            *)
Closed(c, e) ==
    LET o == c.byFd[KeyOf(e.sock)]
    IN IF o = 0 \/ c.heap[o].ts \notin {0, e.ts} \/ c.heap[o].closed # "no"
       THEN c
       ELSE MarkClosed(c, o)

OnConnectionClose(e) ==
    /\ e.type = "close"
    /\ TakePerf(e)
    /\ SetTables(IF e.pid \in mapped THEN Closed(Tables, e) ELSE Tables)
    /\ last' = Nothing
    /\ AfterEvent(pending)
    /\ UNCHANGED <<opening, mapped, processes, upTo>>
(***************************************************************************)
(* L7 events.                                                              *)
(***************************************************************************)

(* onL7RequestWithResult ends in one of these: "processed" (counted on     *)
(* conn, or dropped when conn is 0) or "not found", to be retried.         *)
Answer(c, result, o) == [c |-> c, result |-> result, conn |-> o]

Dropped(c) == Answer(c, "processed", 0)

NotFound(c, ev) ==
    IF sockets[ev.sock].proto = "http2" THEN Dropped(c) ELSE Answer(c, "not found", 0)

(* createConnectionFromSocketInfo: entered for pid and fd only.            *)
FromSocketInfo(c, ev) ==
    LET o == FreeObject(c)
    IN [c EXCEPT !.heap[o] = NewConnection(ev.sock, ev.ts), !.byFd[KeyOf(ev.sock)] = o]

IsFiltered(ev) == sockets[ev.sock].tuple \in world.filtered

(* trackParseFail: the connection is given up at the threshold.            *)
trackParseFail(c, k, o) ==
    LET failed == [c EXCEPT !.heap[o].fails = @ + 1]
    IN IF failed.heap[o].fails = ParseFailThreshold THEN DropParser(failed, k) ELSE failed

(* HTTP/2 frames go to the parser of pid and fd, made on first use.        *)
Parsed(c, ev, o) ==
    LET k == KeyOf(ev.sock)
        old == c.parsers[k]
        parser == [held |-> TRUE,
                   ts   |-> IF c.heap[o].ts # 0 THEN c.heap[o].ts ELSE old.ts,
                   fed  |-> IF ev.own THEN old.fed \cup {ev.sock} ELSE old.fed,
                   busy |-> ev.data = "partial"]
        fed == [c EXCEPT !.parsers[k] = parser]
    IN IF ev.data = "junk"
       THEN trackParseFail(fed, k, o)
       ELSE [fed EXCEPT !.heap[o].fails = 0]

ParserFull(c, k) ==
    ~c.parsers[k].held /\ Cardinality({x \in Keys : c.parsers[x].held}) >= MaxParsers

(* The request is counted on the connection, unless the connection was     *)
(* given up or no parser can be had.                                       *)
Counted(c, ev, o) ==
    IF sockets[ev.sock].proto # "http2"
    THEN Answer(c, "processed", o)
    ELSE IF c.heap[o].fails >= ParseFailThreshold \/ ParserFull(c, KeyOf(ev.sock))
    THEN Dropped(c)
    ELSE Answer(Parsed(c, ev, o), "processed", o)

(* Mutant: the entry of the fd is taken for the event's connection.        *)
MutantSuperseded(c, ev, prev) == Counted(c, ev, prev)

(* A newer connection on a reused fd: it comes from the event's tuple, the *)
(* entry is its closed predecessor, the parser goes.                       *)
Superseded(c, ev, prev) ==
    LET k == KeyOf(ev.sock)
        closed == DropParser(MarkClosed(c, prev), k)
        fresh == FromSocketInfo(closed, ev)
    IN IF IsFiltered(ev) THEN Dropped(closed) ELSE Counted(fresh, ev, fresh.byFd[k])

onL7RequestWithResult(c, ev) ==
    LET k == KeyOf(ev.sock)
        o == c.byFd[k]
        fresh == FromSocketInfo(c, ev)
    IN CASE o = 0 /\ world.hasTuple /\ IsFiltered(ev) -> Dropped(c)
         [] o = 0 /\ world.hasTuple /\ ~IsFiltered(ev) /\ canTrackConnection(c, k) ->
               Counted(fresh, ev, fresh.byFd[k])
         [] o = 0 /\ ~(world.hasTuple /\ (IsFiltered(ev) \/ canTrackConnection(c, k))) -> NotFound(c, ev)
         [] o # 0 /\ ev.ts > c.heap[o].ts ->
               IF world.hasTuple THEN Superseded(c, ev, o) ELSE NotFound(c, ev)
         [] o # 0 /\ ev.ts # 0 /\ ev.ts < c.heap[o].ts -> Dropped(c)
         [] o # 0 /\ ev.ts \in {0, c.heap[o].ts} -> Counted(c, ev, o)

Outcome(ev, a) ==
    /\ last' = [Nothing EXCEPT !.counted = ev,
                               !.conn = IF a.conn = 0 THEN 0 ELSE a.c.heap[a.conn].sock]
    /\ upTo' = IF a.conn = 0 THEN upTo ELSE [upTo EXCEPT ![ev.sock] = ev.seq]

MayQueue == Len(pending) < MaxPending

(* processL7Event: the oldest event of the ring buffer.  The event of a    *)
(* pid without a container is ignored.                                     *)
OnL7Event ==
    /\ phase = "idle"
    /\ ring # <<>>
    /\ ring' = Tail(ring)
    /\ LET ev == Head(ring)
           a == IF KeyOf(ev.sock)[1] \in mapped
                THEN onL7RequestWithResult(Tables, ev)
                ELSE Dropped(Tables)
           queued == a.result = "not found" /\ MayQueue
       IN /\ SetTables(a.c)
          /\ Outcome(ev, a)
          /\ AfterEvent(IF queued THEN Append(pending, [ev |-> ev, retries |-> 0]) ELSE pending)
    /\ UNCHANGED <<world, epoch, alive, sockets, kernelConns, clock, perf, opening, mapped, processes>>

EndRetry == phase' = IF Len(todo) = 1 THEN "idle" ELSE "retry"

(* Mutant: events still pending are put back in front of the others.       *)
MutantRequeue(p) == <<[p EXCEPT !.retries = @ + 1]>> \o pending

Requeue(p) == Append(pending, [p EXCEPT !.retries = @ + 1])

(* processPendingL7Events, one event of the queue it took over.            *)
Retry ==
    /\ phase = "retry"
    /\ LET p == Head(todo)
           a == IF KeyOf(p.ev.sock)[1] \in mapped
                THEN onL7RequestWithResult(Tables, p.ev)
                ELSE Answer(Tables, "not found", 0)
           again == a.result = "not found" /\ p.retries < world.retries
       IN /\ SetTables(a.c)
          /\ Outcome(p.ev, a)
          /\ pending' = IF again THEN Requeue(p) ELSE pending
    /\ todo' = Tail(todo)
    /\ EndRetry
    /\ UNCHANGED <<kernelVars, opening, mapped, processes>>

(* It waited for more than maxAge.                                         *)
Expire ==
    /\ phase = "retry"
    /\ todo' = Tail(todo)
    /\ last' = Nothing
    /\ EndRetry
    /\ UNCHANGED <<kernelVars, tables, opening, mapped, processes, pending, upTo>>
(***************************************************************************)
(* Collection.                                                             *)
(***************************************************************************)
Registered == {p \in Pids : processes[p] # 0}

EstablishedTuples == {sockets[s].tuple : s \in {x \in SocketIds : sockets[x].state = "established"}}

(* gc reads the socket table of one registered process per network         *)
(* namespace, the first it meets in the map.  The table of a pid that is   *)
(* gone reads as empty.                                                    *)
ReadSockets ==
    {IF p \in alive THEN EstablishedTuples ELSE {} : p \in Registered}
        \cup (IF Registered = {} THEN {{}} ELSE {})

(* The sweep of activeConnections.                                         *)
Sweep(c, established) ==
    LET gone == {t \in Tuples : c.act[t] # 0
                   /\ (t \notin established \/ c.heap[c.act[t]].closed = "long ago")}
        objects == {c.act[t] : t \in gone}
    IN [c EXCEPT !.act = [t \in Tuples |-> IF t \in gone THEN 0 ELSE c.act[t]],
                 !.byFd = [k \in Keys |-> IF c.byFd[k] \in objects THEN 0 ELSE c.byFd[k]]]

(* Mutant: only the entries of dead processes are reclaimed.               *)
MutantReclaim(c) ==
    [c EXCEPT !.byFd = [k \in Keys |-> IF k[1] \in Registered THEN c.byFd[k] ELSE 0]]

reclaimStaleConnections(c) ==
    [c EXCEPT !.byFd = [k \in Keys |->
        IF c.byFd[k] # 0 /\ k[1] \in Registered /\ c.heap[c.byFd[k]].closed # "long ago"
        THEN c.byFd[k]
        ELSE 0]]

(* A parser without a connection is kept while its process runs and it is  *)
(* in the middle of something.                                             *)
SweepParsers(c) ==
    [c EXCEPT !.parsers = [k \in Keys |->
        IF c.byFd[k] # 0 \/ (k[1] \in Registered /\ c.parsers[k].busy)
        THEN c.parsers[k]
        ELSE NoParser]]

Gc(c, established) == SweepParsers(reclaimStaleConnections(Sweep(c, established)))

GC ==
    \E established \in ReadSockets :
       /\ SetTables(Gc(Tables, established))
       /\ last' = [Nothing EXCEPT
             !.swept = {heap[activeConnections[t]].sock :
                          t \in {x \in Tuples : /\ activeConnections[x] # 0
                                                 /\ activeConnections'[x] = 0
                                                 /\ heap[activeConnections[x]].closed = "no"}}]
       /\ UNCHANGED <<kernelVars, phase, opening, mapped, processes, pending, todo, upTo>>

(* gcInterval passes.                                                      *)
Elapse ==
    /\ \E o \in Objects : heap[o] # None /\ heap[o].closed = "recently"
    /\ heap' = [o \in Objects |->
                   IF heap[o] # None /\ heap[o].closed = "recently"
                   THEN [heap[o] EXCEPT !.closed = "long ago"]
                   ELSE heap[o]]
    /\ last' = Nothing
    /\ UNCHANGED <<kernelVars, phase, opening, mapped, processes, activeConnections,
                   connectionsByPidFd, parsers, pending, todo, upTo>>

(* A scrape found the registered process gone (updateDelays,               *)
(* onProcessExitIf).                                                       *)
NoticeExit(p) ==
    /\ processes[p] # 0
    /\ p \notin alive \/ processes[p] # epoch[p]
    /\ processes' = [processes EXCEPT ![p] = 0]
    /\ last' = Nothing
    /\ UNCHANGED <<kernelVars, phase, opening, mapped, tables, pending, todo, upTo>>

(* The gc ticker of handleEvents: pids that are gone leave the registry.   *)
RegistryGC ==
    /\ phase = "idle"
    /\ mapped \ alive # {}
    /\ mapped' = mapped \cap alive
    /\ processes' = [p \in Pids |-> IF p \in mapped \ alive THEN 0 ELSE processes[p]]
    /\ last' = Nothing
    /\ UNCHANGED <<kernelVars, phase, opening, tables, pending, todo, upTo>>

EventLoop ==
    \/ \E e \in perf : \/ OnProcessStart(e)
                       \/ OnProcessExit(e)
                       \/ OnConnectionError(e)
                       \/ OnConnectionOpen(e)
                       \/ OnConnectionClose(e)
    \/ StoreConnection
    \/ OnL7Event
    \/ Retry
    \/ Expire

Next ==
    \/ KernelNext /\ UNCHANGED agentVars
    \/ EventLoop
    \/ GC
    \/ Elapse
    \/ \E p \in Pids : NoticeExit(p)
    \/ RegistryGC

Spec == ConnectionsInit /\ [][Next]_vars

(* The goroutines of the agent keep running; the tickers keep ticking.     *)
FairSpec == Spec /\ WF_vars(EventLoop) /\ WF_vars(GC) /\ WF_vars(Elapse)
                 /\ WF_vars(\E p \in Pids : NoticeExit(p)) /\ WF_vars(RegistryGC)

(* A request is only counted on a connection object made for its own       *)
(* socket, if the kernel stamped it with that socket's time: however late  *)
(* the open and close events of the fd's earlier sockets come, the         *)
(* timestamp checks of onL7RequestWithResult tell them apart.              *)
OwnConnection ==
    last.counted # None /\ last.conn # 0 /\ last.counted.own =>
        last.conn = last.counted.sock

(* One HTTP/2 parser decodes the stamped frames of one socket only: its    *)
(* HPACK table never holds headers of an earlier socket on the fd.         *)
ParserOneSocket == \A k \in Keys : Cardinality(parsers[k].fed) <= 1

(* The sockets that use an fd in turn are kept apart, in what is counted   *)
(* and in what is decoded.                                                 *)
SocketsApart == OwnConnection /\ ParserOneSocket

(* The requests of a socket are counted in the order of the ring buffer,   *)
(* though those that came before the open event wait in the retry queue.   *)
CountedInOrder == [][\A s \in 1..MaxSockets : upTo'[s] >= upTo[s]]_vars

(* The retry queue keeps its limit: only new events are checked against    *)
(* it, but those queued again were counted in it before.                   *)
PendingBounded == Len(pending) + Len(todo) <= MaxPending

(* The retry queue keeps the order of each socket within its limit.        *)
RetryInOrder == CountedInOrder /\ []PendingBounded

(* gc does not take an established connection that nobody closed out of    *)
(* activeConnections while its process runs: connection_gc_test.go says    *)
(* that a connection whose process is alive is kept until it has been      *)
(* closed for longer than gcInterval.                                      *)
EstablishedKept ==
    \A s \in last.swept : sockets[s].state = "established" => KeyOf(s)[1] \notin Registered

(* An entry of activeConnections leaves it after its socket has closed,    *)
(* whatever became of the close event, unless a new socket has the same    *)
(* addresses.                                                              *)
ActiveReclaimed ==
    \A t \in Tuples, s \in 1..MaxSockets :
        (activeConnections[t] # 0 /\ heap[activeConnections[t]].sock = s /\ ~IsOpen(s))
            ~> (activeConnections[t] = 0 \/ heap[activeConnections[t]].sock # s \/ ~TupleFree(t))

(* An entry that was stamped Closed leaves connectionsByPidFd, also one    *)
(* made from an L7 event, which the sweep of activeConnections never sees. *)
ClosedReclaimed ==
    \A k \in Keys :
        (connectionsByPidFd[k] # 0 /\ heap[connectionsByPidFd[k]].closed # "no")
            ~> (connectionsByPidFd[k] = 0 \/ heap[connectionsByPidFd[k]].closed = "no")

(* What a process that is gone left behind is released: its connections    *)
(* and its parsers, even those in the middle of a frame.                   *)
DeadReleased ==
    \A k \in Keys :
        k[1] \notin alive
            ~> (k[1] \in alive \/ (connectionsByPidFd[k] = 0 /\ ~parsers[k].held))

(* Nothing of a connection or a process outlives it for good, and nothing  *)
(* is taken from one that goes on.                                         *)
Reclaimed == ActiveReclaimed /\ ClosedReclaimed /\ DeadReleased /\ []EstablishedKept
=============================================================================
