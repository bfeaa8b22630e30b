--------------------------- MODULE Http2Streams -----------------------------
(***************************************************************************)
(* The requests Http2Parser (src/ebpftracer/l7/http2.go) is waiting to see *)
(* complete: activeRequests, as header blocks and DATA frames of both      *)
(* directions reach it.                                                    *)
(*                                                                         *)
(* A read carries one frame here.  Kernel times are uint64 in the code and *)
(* wrap at KernelWrap; an event may come with an earlier time than the one *)
(* before it only in connections delivered late.  The node has been up   *)
(* for longer than the interval of the collection.                         *)
(***************************************************************************)
EXTENDS Integers, FiniteSets

CONSTANTS
    H2Ids,                  \* streams of the connection
    maxActiveRequests,
    http2DecoderGcInterval,
    KernelWrap, MaxKernelTime,
    Manners                 \* of delivery: "late", "lossy" or "partial"

VARIABLES
    manner,                 \* events come late, get lost, or blocks decode in part
    clock,                  \* the kernel's
    active,                 \* activeRequests
    lastGcTime,
    clientSide, serverSide, \* what each side has sent on a stream
    unseen,                 \* streams a frame of which was lost
    dropped,                \* streams whose request was evicted or collected
    lastRead,               \* when the parser last had a read
    reports                 \* how often a stream was returned by Parse

h2Vars == <<manner, clock, active, lastGcTime, clientSide, serverSide, unseen, dropped, lastRead, reports>>

H2Init ==
    /\ manner \in Manners
    /\ clock = http2DecoderGcInterval + 1 /\ active = << >> /\ lastGcTime = 0
    /\ clientSide = [s \in H2Ids |-> "idle"] /\ serverSide = [s \in H2Ids |-> "idle"]
    /\ unseen = {} /\ dropped = {} /\ lastRead = clock /\ reports = [s \in H2Ids |-> 0]
-----------------------------------------------------------------------------
ordered == manner # "late"

WithoutStream(f, S) == [s \in DOMAIN f \ S |-> f[s]]
With(f, s, v) == [t \in DOMAIN f \cup {s} |-> IF t = s THEN v ELSE f[t]]
Elapsed(now, then) == (now - then) % KernelWrap

\* evictsBefore.
EvictsBefore(a, b) == IF a.status # b.status THEN ~a.status ELSE a.time < b.time

\* evictOldestRequest: the streams that it may pick, ranging over a map.
Victims == {s \in DOMAIN active : \A t \in DOMAIN active : ~EvictsBefore(active[t], active[s])}

\* A client block that starts a request.
Create(s, kt, victim) ==
    With(IF Cardinality(DOMAIN active) >= maxActiveRequests THEN WithoutStream(active, {victim}) ELSE active,
         s, [time |-> kt, status |-> FALSE, ended |-> FALSE])

\* Mutant of Complete: a request is complete at the end of its stream.
MutantComplete(a) == {s \in DOMAIN a : a[s].status}

\* Requests that have their response status and the end of their stream.
Complete(a) == {s \in DOMAIN a : a[s].status /\ a[s].ended}

\* Requests the collection at time kt drops.
Collected(a, kt) ==
    IF Elapsed(kt, lastGcTime) > http2DecoderGcInterval /\ lastGcTime > 0
    THEN {s \in DOMAIN a : Elapsed(kt, a[s].time) > http2DecoderGcInterval}
    ELSE {}

GcTime(kt) == IF Elapsed(kt, lastGcTime) > http2DecoderGcInterval THEN kt ELSE lastGcTime

\* The end of Parse, once its frames have made the requests a.
EndParse(a, kt) ==
    LET waiting == WithoutStream(a, Complete(a)) IN
    /\ reports' = [s \in H2Ids |-> IF s \in Complete(a) THEN reports[s] + 1 ELSE reports[s]]
    /\ active' = WithoutStream(waiting, Collected(waiting, kt))
    /\ dropped' = dropped \cup Collected(waiting, kt) \cup (DOMAIN active \ DOMAIN a)
    /\ lastGcTime' = GcTime(kt)
    /\ lastRead' = clock

\* The time an event has.
KernelTimes == IF ordered THEN {clock} ELSE {clock, clock - 1} \ {0}

\* decodeHeaderBlock, for a client's block.  One without pseudo-headers on a
\* stream that is not tracked is trailers, if all of it decodes.
ClientBlock(s, kind, whole) ==
    \E kt \in KernelTimes :
      IF s \notin DOMAIN active /\ (kind = "request" \/ ~whole)
      THEN \E victim \in (IF Victims = {} THEN {s} ELSE Victims) : EndParse(Create(s, kt, victim), kt)
      ELSE EndParse(active, kt)

\* A server's HEADERS (with the status unless they are trailers) or DATA.
ServerFrame(s, status, ends) ==
    \E kt \in KernelTimes :
      EndParse(IF s \in DOMAIN active
               THEN With(active, s, [active[s] EXCEPT !.status = @ \/ status, !.ended = @ \/ ends])
               ELSE active, kt)

Unparsed(s) == manner = "lossy" /\ unseen' = unseen \cup {s} /\ UNCHANGED <<active, lastGcTime, dropped, lastRead, reports>>
-----------------------------------------------------------------------------
(* The connection: what the peers send, seen by the parser or not.         *)

\* Streams open in the order of their ids.
SendRequest(s) ==
    /\ clientSide[s] = "idle" /\ \A t \in H2Ids : t < s => clientSide[t] # "idle"
    /\ clientSide' = [clientSide EXCEPT ![s] = "open"]
    /\ \/ (\E whole \in {TRUE, manner # "partial"} : ClientBlock(s, "request", whole)) /\ UNCHANGED unseen
       \/ Unparsed(s)
    /\ UNCHANGED <<manner, clock, serverSide>>

SendTrailers(s) ==
    /\ manner = "partial" /\ clientSide[s] = "open"
    /\ clientSide' = [clientSide EXCEPT ![s] = "ended"]
    /\ (\E whole \in {TRUE, manner # "partial"} : ClientBlock(s, "trailers", whole)) /\ UNCHANGED unseen
    /\ UNCHANGED <<manner, clock, serverSide>>

RespondHeaders(s) ==
    /\ clientSide[s] # "idle" /\ serverSide[s] = "idle"
    /\ \E ends \in BOOLEAN :
         /\ serverSide' = [serverSide EXCEPT ![s] = IF ends THEN "ended" ELSE "open"]
         /\ (ServerFrame(s, TRUE, ends) /\ UNCHANGED unseen) \/ Unparsed(s)
    /\ UNCHANGED <<manner, clock, clientSide>>

\* The last frame of a response: DATA, trailers.
RespondEnd(s) ==
    /\ serverSide[s] = "open"
    /\ serverSide' = [serverSide EXCEPT ![s] = "ended"]
    /\ (ServerFrame(s, FALSE, TRUE) /\ UNCHANGED unseen) \/ Unparsed(s)
    /\ UNCHANGED <<manner, clock, clientSide>>

\* Time passes.
TickKernel ==
    /\ clock < MaxKernelTime
    /\ clock' = clock + 1
    /\ UNCHANGED <<manner, active, lastGcTime, clientSide, serverSide, unseen, dropped, lastRead, reports>>

H2Next ==
    \/ \E s \in H2Ids : SendRequest(s) \/ SendTrailers(s) \/ RespondHeaders(s) \/ RespondEnd(s)
    \/ TickKernel

H2Spec == H2Init /\ [][H2Next]_h2Vars
-----------------------------------------------------------------------------
(* Properties.                                                             *)

\* A stream is reported once its response has ended, and only once, when the
\* parser saw all of it and did not give it up: also if trailers come on a
\* stream that was reported, and if the response ends before the request.
ReportedExactlyOnce ==
    \A s \in H2Ids :
      /\ reports[s] <= 1
      /\ reports[s] = 1 => serverSide[s] = "ended"
      /\ (serverSide[s] = "ended" /\ s \notin unseen \cup dropped) => reports[s] = 1

\* What makes way for a new stream has no response headers while there is
\* one that has none: "the oldest stream overall is often a live long-lived
\* one" (http2.go:257).
LongLivedKept ==
    [][\A s \in DOMAIN active \ DOMAIN active' :
         (ordered /\ active[s].status /\ reports'[s] = reports[s]
          /\ Elapsed(clock, active[s].time) <= http2DecoderGcInterval) =>
            \A t \in DOMAIN active : active[t].status]_h2Vars

\* A request is given up only for want of room, or when it has waited for
\* longer than the interval: not by a collection that it is too young for.
YoungKept ==
    [][\A s \in DOMAIN active \ DOMAIN active' :
         (ordered /\ reports'[s] = reports[s] /\ Cardinality(DOMAIN active) < maxActiveRequests) =>
            Elapsed(clock, active[s].time) > http2DecoderGcInterval]_h2Vars

\* A request whose response never comes is gone, after a read, when twice
\* the interval has passed: "Orphans are still reclaimed by the stream GC".
OrphansReclaimed ==
    ordered => \A s \in DOMAIN active : lastRead - active[s].time <= 2 * http2DecoderGcInterval

\* A request leaves the table when it is reported, or is given up for the
\* reasons the parser has: it is too old, or newer ones need the room.
RequestsAccounted == [](ReportedExactlyOnce /\ OrphansReclaimed) /\ LongLivedKept /\ YoungKept
=============================================================================
