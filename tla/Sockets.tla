------------------------------ MODULE Sockets ------------------------------
(***************************************************************************)
(* What the eBPF programs of ebpftracer/ebpf see of the TCP sockets of one *)
(* container, and the two channels on which they report it:                *)
(*                                                                         *)
(*   - tcp/state.c and proc.c write connection and process events to       *)
(*     per-CPU perf buffers.  Buffers of different CPUs are read           *)
(*     independently, so these events reach the agent in any order, and a  *)
(*     full buffer loses some;                                             *)
(*   - l7/l7.c writes one event per request to a ring buffer, which keeps  *)
(*     their order.                                                        *)
(*                                                                         *)
(* A socket is its index in sockets.  The kernel clock is a counter that   *)
(* every stamp advances; stamp 0 is "no timestamp".                        *)
(***************************************************************************)
EXTENDS Integers, Sequences, FiniteSets

CONSTANTS
    Pids, Fds, Tuples,
    MaxSockets,         \* bound: sockets ever made
    Worlds              \* the situations explored, see World

(* What a world has: the fds and addresses in use, what a socket speaks,   *)
(* with or without a TLS library, what the bytes of an event hold; whether *)
(* there are sockets the connect hooks never saw, fds closed by something  *)
(* else than close(2), full perf buffers; writes per socket and starts per *)
(* pid; whether L7 events carry the socket's addresses, the addresses the  *)
(* agent is told not to track, and maxRetries.                             *)
World == [fds : SUBSET Fds, tuples : SUBSET Tuples, protocols : SUBSET {"http", "http2"},
          tlsModes : SUBSET BOOLEAN, payloads : SUBSET {"frame", "partial", "junk"},
          untracked : BOOLEAN, unseenCloses : BOOLEAN, lossy : BOOLEAN,
          writes : Nat, starts : Nat,
          hasTuple : BOOLEAN, filtered : SUBSET Tuples, retries : Nat]

VARIABLES
    world,              \* the world chosen at the start; it does not change
    epoch,              \* how many processes had this pid so far
    alive,              \* pids of running processes
    sockets,
    kernelConns,        \* active_connections: pid and fd to the stamp, 0 if absent
    clock,
    perf,               \* events in the perf buffers
    ring                \* events in the l7_events ring buffer

kernelVars == <<world, epoch, alive, sockets, kernelConns, clock, perf, ring>>

Keys == Pids \X Fds

SocketIds == 1..Len(sockets)

IsOpen(s) == sockets[s].state # "closed"

FdFree(k) == \A s \in SocketIds : sockets[s].key = k => ~IsOpen(s)

TupleFree(t) == \A s \in SocketIds : sockets[s].tuple = t => ~IsOpen(s)

(* The agent starts after one process of the container.                    *)
KernelInit ==
    /\ world \in Worlds
    /\ epoch = [p \in Pids |-> 1]
    /\ alive = Pids
    /\ sockets = <<>>
    /\ kernelConns = [k \in Keys |-> 0]
    /\ clock = 0
    /\ perf = {}
    /\ ring = <<>>

TcpEvent(type, s, stamp) ==
    [type |-> type, pid |-> sockets[s].key[1], sock |-> s, ts |-> stamp]

ProcEvent(type, p) == [type |-> type, pid |-> p, epoch |-> epoch[p]]

NewSocket(k, t, proto, tls, state, stamp) ==
    [key |-> k, tuple |-> t, proto |-> proto, tls |-> tls,
     state |-> state, stamp |-> stamp, writes |-> 0]

(* sys_enter_connect and the SYN_SENT transition: the connection is        *)
(* entered for pid and fd, whatever was there, with the time.              *)
Connect(k, t, proto, tls) ==
    /\ Len(sockets) < MaxSockets
    /\ k[1] \in alive
    /\ FdFree(k)
    /\ TupleFree(t)
    /\ sockets' = Append(sockets, NewSocket(k, t, proto, tls, "syn_sent", clock + 1))
    /\ kernelConns' = [kernelConns EXCEPT ![k] = clock + 1]
    /\ clock' = clock + 1
    /\ UNCHANGED <<world, epoch, alive, perf, ring>>

(* A socket the connect hooks did not see: accepted, or older than the     *)
(* agent.                                                                  *)
AppearUntracked(k, t, proto, tls) ==
    /\ world.untracked
    /\ Len(sockets) < MaxSockets
    /\ k[1] \in alive
    /\ FdFree(k)
    /\ TupleFree(t)
    /\ sockets' = Append(sockets, NewSocket(k, t, proto, tls, "established", 0))
    /\ UNCHANGED <<world, epoch, alive, kernelConns, clock, perf, ring>>

(* SYN_SENT to ESTABLISHED: an open event with the connection's stamp.     *)
Establish(s) ==
    /\ sockets[s].state = "syn_sent"
    /\ sockets' = [sockets EXCEPT ![s].state = "established"]
    /\ LET stamp == kernelConns[sockets[s].key]
       IN perf' = IF stamp = 0 THEN perf ELSE perf \cup {TcpEvent("open", s, stamp)}
    /\ UNCHANGED <<world, epoch, alive, kernelConns, clock, ring>>

(* SYN_SENT to CLOSE: the entry goes, and an error event without a stamp.  *)
Refuse(s) ==
    /\ sockets[s].state = "syn_sent"
    /\ sockets' = [sockets EXCEPT ![s].state = "closed"]
    /\ kernelConns' = [kernelConns EXCEPT ![sockets[s].key] = 0]
    /\ perf' = IF kernelConns[sockets[s].key] = 0
               THEN perf
               ELSE perf \cup {TcpEvent("error", s, 0)}
    /\ UNCHANGED <<world, epoch, alive, clock, ring>>

(* The peer closes first: the fd stays open, the state is CLOSE_WAIT.      *)
PeerClose(s) ==
    /\ sockets[s].state = "established"
    /\ sockets' = [sockets EXCEPT ![s].state = "close_wait"]
    /\ UNCHANGED <<world, epoch, alive, kernelConns, clock, perf, ring>>

(* close(2): sys_enter_close reports and removes the entry, if any.        *)
Close(s) ==
    LET k == sockets[s].key
    IN /\ IsOpen(s)
       /\ sockets' = [sockets EXCEPT ![s].state = "closed"]
       /\ perf' = IF kernelConns[k] = 0
                  THEN perf
                  ELSE perf \cup {TcpEvent("close", s, kernelConns[k])}
       /\ kernelConns' = [kernelConns EXCEPT ![k] = 0]
       /\ UNCHANGED <<world, epoch, alive, clock, ring>>

(* An fd closed by dup2, close_range and the like: no hook runs and the    *)
(* entry stays.                                                            *)
CloseUnseen(s) ==
    /\ world.unseenCloses
    /\ sockets[s].state \in {"established", "close_wait"}
    /\ sockets' = [sockets EXCEPT ![s].state = "closed"]
    /\ UNCHANGED <<world, epoch, alive, kernelConns, clock, perf, ring>>

(* sched_process_exit.  The fds are closed without close(2).               *)
Exit(p) ==
    /\ p \in alive
    /\ alive' = alive \ {p}
    /\ sockets' = [s \in SocketIds |->
                      IF sockets[s].key[1] = p
                      THEN [sockets[s] EXCEPT !.state = "closed"]
                      ELSE sockets[s]]
    /\ perf' = perf \cup {ProcEvent("exit", p)}
    /\ UNCHANGED <<world, epoch, kernelConns, clock, ring>>

(* A new process gets the pid.                                             *)
Start(p) ==
    /\ p \notin alive
    /\ epoch[p] < world.starts
    /\ epoch' = [epoch EXCEPT ![p] = @ + 1]
    /\ alive' = alive \cup {p}
    /\ perf' = perf \cup {[ProcEvent("start", p) EXCEPT !.epoch = @ + 1]}
    /\ UNCHANGED <<world, sockets, kernelConns, clock, ring>>

(* The stamp of an L7 event: the entry's.  TLS on a socket without one     *)
(* enters it now (ensure_connection_tracked, trace_enter_write); without   *)
(* TLS a socket without an entry is only traced on its port, unstamped.    *)
WriteStamp(s) ==
    LET entry == kernelConns[sockets[s].key]
    IN IF entry # 0 THEN entry ELSE IF sockets[s].tls THEN clock + 1 ELSE 0

(* A request on the socket.  own: the stamp was given to this socket.      *)
(* data: a "frame" that is whole, the "partial" beginning of one, or       *)
(* "junk" that the protocol's parser refuses.                              *)
Write(s, data) ==
    LET k     == sockets[s].key
        fresh == kernelConns[k] = 0 /\ sockets[s].tls
        stamp == WriteStamp(s)
        mine  == IF fresh THEN stamp ELSE sockets[s].stamp
    IN /\ sockets[s].state \in {"established", "close_wait"}
       /\ sockets[s].writes < world.writes
       /\ sockets' = [sockets EXCEPT ![s].writes = @ + 1, ![s].stamp = mine]
       /\ kernelConns' = [kernelConns EXCEPT ![k] = IF fresh THEN stamp ELSE @]
       /\ clock' = IF fresh THEN stamp ELSE clock
       /\ ring' = Append(ring, [sock |-> s, ts |-> stamp, data |-> data,
                                seq |-> sockets[s].writes + 1,
                                own |-> stamp # 0 /\ stamp = mine])
       /\ UNCHANGED <<world, epoch, alive, perf>>

(* A perf buffer was full.                                                 *)
Lose(e) ==
    /\ world.lossy
    /\ perf' = perf \ {e}
    /\ UNCHANGED <<world, epoch, alive, sockets, kernelConns, clock, ring>>

KernelNext ==
    \/ \E k \in Pids \X world.fds, t \in world.tuples,
          proto \in world.protocols, tls \in world.tlsModes :
          \/ Connect(k, t, proto, tls)
          \/ AppearUntracked(k, t, proto, tls)
    \/ \E s \in SocketIds :
          \/ Establish(s)
          \/ Refuse(s)
          \/ PeerClose(s)
          \/ Close(s)
          \/ CloseUnseen(s)
          \/ \E data \in world.payloads : Write(s, data)
    \/ \E p \in Pids : Exit(p) \/ Start(p)
    \/ \E e \in perf : Lose(e)
=============================================================================
