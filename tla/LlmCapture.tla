----------------------------- MODULE LlmCapture -----------------------------
(***************************************************************************)
(* The captures of a container's LLM connections, by process and file      *)
(* descriptor: src/containers/llm_capture.go.                              *)
(*                                                                         *)
(* A descriptor is used by one socket after another.  Events of the        *)
(* generic path and copied chunks come through one ring buffer, in order,  *)
(* and closes through another one.  The connection's timestamp is the      *)
(* socket's number.                                                        *)
(* What a capture makes of its chunks is LlmConn.                          *)
(***************************************************************************)
EXTENDS Naturals, Sequences, FiniteSets

CONSTANTS
    LlmSockets,         \* numbers, in the order they are opened
    FdOf(_),            \* the descriptor of a socket
    MaxChunks,          \* bound: chunks a socket carries
    maxLLMCaptures,     \* per container
    Peers               \* what the sockets talk to: those that name an LLM provider
                        \* in their ClientHello, and those of an LLM endpoint that is
                        \* found by a request

VARIABLES
    peers,
    marked,             \* the endpoint is marked in the kernel (TagLLMDestination)
    sockets,            \* per socket "idle", "open" or "closed"
    sentChunks,
    copied,             \* sockets the kernel copies
    channels,           \* the events under way, by buffer
    captures,           \* llmCaptures: descriptor to an index of conns
    conns,              \* the llm.Conns made: the socket (ts), the sockets chunks
                        \* came from, closedAt set, and what closed it
    processAlive

capVars == <<peers, marked, sockets, sentChunks, copied, channels, captures, conns, processAlive>>

LlmBuffers == {"l7", "conn"}

CapInit ==
    /\ peers \in Peers /\ marked = FALSE
    /\ sockets = [k \in LlmSockets |-> "idle"] /\ sentChunks = [k \in LlmSockets |-> 0]
    /\ copied = {} /\ channels = [b \in LlmBuffers |-> <<>>]
    /\ captures = << >> /\ conns = <<>> /\ processAlive = TRUE
-----------------------------------------------------------------------------
(* The program and the kernel.                                             *)

EmitChunk(b, kind, k) == channels' = [channels EXCEPT ![b] = Append(@, [kind |-> kind, sock |-> k])]

\* A socket is opened; its first write may be a ClientHello.
OpenSocket(k) ==
    /\ processAlive /\ sockets[k] = "idle"
    /\ \A j \in LlmSockets : FdOf(j) = FdOf(k) => (j < k => sockets[j] = "closed")
    /\ sockets' = [sockets EXCEPT ![k] = "open"]
    /\ copied' = IF marked /\ k \in peers.endpoint THEN copied \cup {k} ELSE copied
    /\ IF k \in peers.hello THEN EmitChunk("l7", "hello", k) ELSE UNCHANGED channels
    /\ UNCHANGED <<peers, marked, sentChunks, captures, conns, processAlive>>

\* A chunk is copied, or takes the generic path.
SendChunk(k) ==
    /\ processAlive /\ sockets[k] = "open" /\ sentChunks[k] < MaxChunks
    /\ sentChunks' = [sentChunks EXCEPT ![k] = @ + 1]
    /\ EmitChunk("l7", IF k \in copied THEN "copied" ELSE "chunk", k)
    /\ UNCHANGED <<peers, marked, sockets, copied, captures, conns, processAlive>>

CloseLlmSocket(k) ==
    /\ sockets[k] = "open"
    /\ sockets' = [sockets EXCEPT ![k] = "closed"]
    /\ copied' = copied \ {k}
    /\ EmitChunk("conn", "close", k)
    /\ UNCHANGED <<peers, marked, sentChunks, captures, conns, processAlive>>

ProcessExits ==
    /\ processAlive /\ processAlive' = FALSE
    /\ UNCHANGED <<peers, marked, sockets, sentChunks, copied, channels, captures, conns>>
-----------------------------------------------------------------------------
(* The agent, with the container's lock held.                              *)

Captured(fd) == fd \in DOMAIN captures
Full(c) == Cardinality(DOMAIN c) >= maxLLMCaptures
Removed(fd) == [f \in DOMAIN captures \ {fd} |-> captures[f]]
PutCapture(c, fd, i) == [f \in DOMAIN c \cup {fd} |-> IF f = fd THEN i ELSE c[f]]

\* conn.Close, of the capture of fd if there is one.
ClosedConns(fd, why) ==
    IF Captured(fd) THEN [conns EXCEPT ![captures[fd]].closedBy = IF @ = "" THEN why ELSE @] ELSE conns

NewConn(k) == [ts |-> k, from |-> {}, closing |-> FALSE, closedBy |-> ""]

\* startLLMCapture; TagLLMConnection marks the socket in the kernel.
StartLLMCapture(k) ==
    LET fd == FdOf(k) IN
    IF Full(Removed(fd))
    THEN captures' = Removed(fd) /\ conns' = ClosedConns(fd, "start") /\ UNCHANGED copied
    ELSE /\ conns' = Append(ClosedConns(fd, "start"), NewConn(k))
         /\ captures' = PutCapture(Removed(fd), fd, Len(conns) + 1)
         /\ copied' = IF sockets[k] = "open" THEN copied \cup {k} ELSE copied

\* Mutant of Feeds: a chunk goes to whatever is captured.
MutantFeeds(fd, k) == Captured(fd)

\* feedLLMCapture: whether a chunk of socket k is of the capture.
Feeds(fd, k) == Captured(fd) /\ conns[captures[fd]].ts = k

\* feedLLMCaptureFromL7, and otherwise detectLLMEndpoint: a request to the
\* endpoint starts a capture, and marks the endpoint.
OnRequestChunk(k) ==
    IF Feeds(FdOf(k), k)
    THEN conns' = [conns EXCEPT ![captures[FdOf(k)]].from = @ \cup {k}] /\ UNCHANGED <<captures, copied, marked>>
    ELSE IF k \in peers.endpoint THEN StartLLMCapture(k) /\ marked' = TRUE
    ELSE UNCHANGED <<conns, captures, copied, marked>>

\* onLLMData: a chunk of another socket than the captured one ends the
\* capture, and one of a socket without capture starts one.
OnLLMData(k) ==
    LET fd == FdOf(k)
        other == Captured(fd) /\ conns[captures[fd]].ts # k
        closed == IF other THEN ClosedConns(fd, "data") ELSE conns
    IN CASE Captured(fd) /\ ~other ->
              conns' = [conns EXCEPT ![captures[fd]].from = @ \cup {k}] /\ UNCHANGED captures
         [] (other \/ ~Captured(fd)) /\ Full(Removed(fd)) -> conns' = closed /\ captures' = Removed(fd)
         [] (other \/ ~Captured(fd)) /\ ~Full(Removed(fd)) ->
              /\ conns' = Append(closed, [NewConn(k) EXCEPT !.from = {k}])
              /\ captures' = PutCapture(Removed(fd), fd, Len(conns) + 1)

\* closeLLMCapture.
CloseLLMCapture(k) ==
    /\ conns' = IF Captured(FdOf(k)) /\ conns[captures[FdOf(k)]].ts = k
                THEN [conns EXCEPT ![captures[FdOf(k)]].closing = TRUE] ELSE conns
    /\ UNCHANGED captures

\* The next event of a buffer.
HandleEvent(b) ==
    /\ channels[b] # <<>>
    /\ channels' = [channels EXCEPT ![b] = Tail(@)]
    /\ LET e == Head(channels[b]) IN
       \/ e.kind = "hello" /\ StartLLMCapture(e.sock) /\ UNCHANGED marked
       \/ e.kind = "chunk" /\ OnRequestChunk(e.sock)
       \/ e.kind = "copied" /\ OnLLMData(e.sock) /\ UNCHANGED <<copied, marked>>
       \/ e.kind = "close" /\ CloseLLMCapture(e.sock) /\ UNCHANGED <<copied, marked>>
    /\ UNCHANGED <<peers, sockets, sentChunks, processAlive>>

\* The timer of closeLLMCapture.
GraceEnds(i) ==
    LET fd == FdOf(conns[i].ts) IN
    /\ conns[i].closing /\ Captured(fd) /\ captures[fd] = i
    /\ conns' = ClosedConns(fd, "timer") /\ captures' = Removed(fd)
    /\ UNCHANGED <<peers, marked, sockets, sentChunks, copied, channels, processAlive>>

\* Mutant of Releasable: only captures of dead processes are.
MutantReleasable(fd) == ~processAlive

\* What gcLLMCaptures releases.  A capture may turn out idle when it has no
\* event under way.
Releasable(fd) ==
    \/ ~processAlive
    \/ conns[captures[fd]].closing
    \/ \A b \in LlmBuffers : \A i \in 1..Len(channels[b]) : FdOf(channels[b][i].sock) # fd

GcLLMCaptures(fd) ==
    /\ Captured(fd) /\ Releasable(fd)
    /\ conns' = ClosedConns(fd, "gc") /\ captures' = Removed(fd)
    /\ UNCHANGED <<peers, marked, sockets, sentChunks, copied, channels, processAlive>>

\* closeAllLLMCaptures, when the container goes.
CloseAllLLMCaptures ==
    /\ ~processAlive /\ captures # << >>
    /\ conns' = [i \in 1..Len(conns) |->
                   IF \E fd \in DOMAIN captures : captures[fd] = i
                   THEN [conns[i] EXCEPT !.closedBy = IF @ = "" THEN "all" ELSE @] ELSE conns[i]]
    /\ captures' = << >>
    /\ UNCHANGED <<peers, marked, sockets, sentChunks, copied, channels, processAlive>>

CapNext ==
    \/ \E k \in LlmSockets : OpenSocket(k) \/ SendChunk(k) \/ CloseLlmSocket(k)
    \/ ProcessExits
    \/ \E b \in LlmBuffers : HandleEvent(b)
    \/ \E i \in 1..Len(conns) : GraceEnds(i)
    \/ \E fd \in DOMAIN captures : GcLLMCaptures(fd)
    \/ CloseAllLLMCaptures

\* The event loop goes on and gc runs at every tick of its timer.
CapFairness ==
    /\ \A b \in LlmBuffers : WF_capVars(HandleEvent(b))
    /\ \A fd \in {FdOf(k) : k \in LlmSockets} : WF_capVars(GcLLMCaptures(fd))

CapSpec == CapInit /\ [][CapNext]_capVars
CapLiveSpec == CapSpec /\ CapFairness
-----------------------------------------------------------------------------
(* Properties.                                                             *)

\* What one parser is fed is of one connection, however events of two that
\* share a descriptor are mixed.
OneConnectionPerCapture ==
    \A i \in 1..Len(conns) : conns[i].from \subseteq {conns[i].ts}

\* The timer of a closed connection releases that connection's capture and
\* none that came after it on the descriptor.
TimerSparesSuccessor ==
    \A i \in 1..Len(conns) : conns[i].closedBy = "timer" => sockets[conns[i].ts] = "closed"

\* Captures stay within their limit, and one that is no longer held is
\* closed: its goroutines end.
CapturesBounded ==
    /\ Cardinality(DOMAIN captures) <= maxLLMCaptures
    /\ \A i \in 1..Len(conns) :
         conns[i].closedBy = "" => \E fd \in DOMAIN captures : captures[fd] = i

\* A capture is of one connection, from its first chunk to its release, and
\* what the map has let go of is closed.
CapturesOwned == OneConnectionPerCapture /\ TimerSparesSuccessor /\ CapturesBounded

\* The capture of a socket that is closed is released in the end, also when
\* its last chunk comes after its close.
CapturesReleased ==
    \A k \in LlmSockets : (sockets[k] = "closed") ~>
       (\A i \in 1..Len(conns) : conns[i].ts = k => conns[i].closedBy # "")
=============================================================================
