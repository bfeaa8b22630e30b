------------------------------ MODULE LlmConn -------------------------------
(***************************************************************************)
(* One captured LLM connection: src/llm/conn.go over src/llm/stream.go.    *)
(*                                                                         *)
(* Feed puts chunks into two streams, each read by a goroutine of its own; *)
(* exchanges complete when both have got there.  A chunk carries one item: *)
(* a frame of an HTTP/2 stream, or a part of an HTTP/1.1 message.  What is *)
(* in bodies and headers is left out.                                      *)
(***************************************************************************)
EXTENDS Naturals, Sequences, FiniteSets

CONSTANTS
    Talks,          \* connections: the items of each direction, whether it is
                    \* HTTP/2, and the items a stream holds
    maxRequests     \* the capacity of the channel of requests

VARIABLES
    talk,           \* the connection
    toFeed,         \* per direction, the items still to come
    connState,      \* "new", "http1", "http2" or "dead"
    missedStart,
    buffered,       \* per direction, the items the parser has not read
    closed,         \* the streams are closed
    parser,         \* per direction, where its goroutine is
    h2streams,      \* HTTP/2: the streams being put together, by id
    requests,       \* HTTP/1.1: requests waiting for their response
    exchanges,      \* finished: the request's id (0 for none) and the response's
    outcomes,       \* reported
    closer,         \* the goroutine of Close
    accepted,       \* items written to a stream, ever
    unpaired        \* a request was given up or dropped

convVars == <<toFeed, connState, missedStart, buffered, closed, parser, h2streams, requests,
              exchanges, outcomes, closer, accepted, unpaired>>
llmConnVars == <<talk, convVars>>

Egress == "egress"
Ingress == "ingress"
Directions == {Egress, Ingress}

\* A goroutine: not started, reading, about to see whether a stream is
\* complete, waiting for a request, in a body, or ended; with the request and
\* the response it is at.
At(pc, req, resp) == [pc |-> pc, req |-> req, resp |-> resp]

NoStream == [req |-> FALSE, status |-> FALSE, done |-> FALSE]

LlmConnInit ==
    /\ talk \in Talks
    /\ toFeed = [d \in Directions |-> talk.items[d]]
    /\ connState = "new" /\ missedStart = FALSE
    /\ buffered = [d \in Directions |-> <<>>] /\ closed = FALSE
    /\ parser = [d \in Directions |-> At("off", 0, 0)]
    /\ h2streams = << >> /\ requests = <<>> /\ exchanges = <<>>
    /\ outcomes = {} /\ closer = "no" /\ accepted = {} /\ unpaired = FALSE
-----------------------------------------------------------------------------
\* failLocked.
Fail(o) ==
    IF connState = "dead" THEN UNCHANGED <<connState, closed, outcomes>>
    ELSE connState' = "dead" /\ closed' = TRUE /\ outcomes' = outcomes \cup {o}

\* write, of a chunk to an open connection.
Write(d, item) ==
    IF Len(buffered[d]) >= talk.limit
    THEN /\ connState' = "dead" /\ closed' = TRUE /\ outcomes' = outcomes \cup {"overflow"}
         /\ UNCHANGED <<buffered, accepted>>
    ELSE /\ buffered' = [buffered EXCEPT ![d] = Append(@, item)]
         /\ accepted' = accepted \cup {<<d, item>>}
         /\ UNCHANGED <<closed, outcomes>>

Dropped == UNCHANGED <<connState, closed, outcomes, buffered, accepted, parser, missedStart>>

\* Feed, with the next chunk of direction d.  Chunks come in capture order:
\* those of a response after those that began its request.
Feed(d) ==
    LET item == Head(toFeed[d]) IN
    /\ toFeed[d] # <<>>
    /\ d = Ingress => \A i \in 1..Len(toFeed[Egress]) :
                        ~(toFeed[Egress][i].kind = "request" /\ toFeed[Egress][i].id = item.id)
    /\ toFeed' = [toFeed EXCEPT ![d] = Tail(@)]
    /\ CASE connState = "dead" \/ (connState = "new" /\ (d = Ingress \/ item.kind = "tls")) -> Dropped
         [] connState = "new" /\ d = Egress /\ item.kind = "mid" ->
              /\ missedStart' = TRUE
              /\ outcomes' = IF missedStart THEN outcomes ELSE outcomes \cup {"missed_start"}
              /\ UNCHANGED <<connState, closed, buffered, accepted, parser>>
         [] connState = "new" /\ d = Egress /\ item.kind \notin {"tls", "mid"} ->
              /\ Write(d, item)
              /\ connState' = IF talk.h2 THEN "http2" ELSE "http1"
              /\ parser' = [e \in Directions |-> At("read", 0, 0)]
              /\ UNCHANGED missedStart
         [] connState \in {"http1", "http2"} ->
              /\ Write(d, item)
              /\ (Len(buffered[d]) < talk.limit => UNCHANGED connState)
              /\ UNCHANGED <<parser, missedStart>>
    /\ UNCHANGED <<h2streams, requests, exchanges, closer, unpaired>>
-----------------------------------------------------------------------------
\* A goroutine's Read: an item, or the end of a closed stream.
Reads(d, item) == parser[d].pc = "read" /\ buffered[d] # <<>> /\ item = Head(buffered[d])
Consume(d) == buffered' = [buffered EXCEPT ![d] = Tail(@)]
Goto(d, pc, req, resp) == parser' = [parser EXCEPT ![d] = At(pc, req, resp)]
AtHand(d) == [req |-> parser[d].req, resp |-> parser[d].resp]
FedUnchanged == UNCHANGED <<toFeed, missedStart, closer, accepted>>

\* The end of the stream ends the goroutine; in the middle of a request or
\* of a frame that is an error, but the connection is dead by then.
ReadEnds(d) ==
    /\ parser[d].pc \in {"read", "inBody"} /\ buffered[d] = <<>> /\ closed
    /\ Goto(d, "done", 0, 0)
    \* h1Responses reports the response that was cut.
    /\ exchanges' = IF parser[d].pc = "inBody" /\ d = Ingress
                    THEN Append(exchanges, AtHand(d)) ELSE exchanges
    /\ FedUnchanged
    /\ UNCHANGED <<connState, buffered, closed, h2streams, requests, outcomes, unpaired>>

\* Bytes that do not parse: the kernel dropped some, or a body without its head.
Unparsable(item) == item.kind = "bad" \/ (~talk.h2 /\ item.kind = "body")

ReadFails(d) ==
    /\ parser[d].pc = "read" /\ buffered[d] # <<>> /\ Unparsable(Head(buffered[d]))
    /\ Consume(d) /\ Goto(d, "done", 0, 0)
    /\ Fail("unrecoverable")
    /\ FedUnchanged
    /\ UNCHANGED <<h2streams, requests, exchanges, unpaired>>
-----------------------------------------------------------------------------
(* HTTP/2.                                                                 *)

Stream(id) == IF id \in DOMAIN h2streams THEN h2streams[id] ELSE NoStream
PutStream(id, s) == h2streams' = [i \in DOMAIN h2streams \cup {id} |-> IF i = id THEN s ELSE h2streams[i]]
DropStream(id) == h2streams' = [i \in DOMAIN h2streams \ {id} |-> h2streams[i]]

\* h2Egress and h2Ingress, up to the call of h2MaybeFinish.
H2Read(d) ==
    /\ connState # "http1" /\ talk.h2
    /\ buffered[d] # <<>>
    /\ LET item == Head(buffered[d]) IN
       /\ Reads(d, item) /\ item.kind # "bad"
       /\ Goto(d, "maybe", item.id, item.id)
       /\ IF d = Egress
          THEN IF item.kind = "rst"
               THEN IF item.id \in DOMAIN h2streams
                    THEN PutStream(item.id, [h2streams[item.id] EXCEPT !.done = TRUE])
                    ELSE UNCHANGED h2streams
               ELSE PutStream(item.id, [Stream(item.id) EXCEPT !.req = TRUE])
          ELSE PutStream(item.id, [Stream(item.id) EXCEPT
                           !.status = @ \/ item.kind = "headers", !.done = @ \/ item.ends])
    /\ Consume(d)
    /\ FedUnchanged
    /\ UNCHANGED <<connState, closed, requests, exchanges, outcomes, unpaired>>

\* h2MaybeFinish.
H2MaybeFinish(d) ==
    LET id == parser[d].resp  s == Stream(id) IN
    /\ parser[d].pc = "maybe"
    /\ Goto(d, "read", 0, 0)
    /\ IF s.done /\ s.req
       THEN DropStream(id) /\ exchanges' = Append(exchanges, [req |-> id, resp |-> id])
       ELSE UNCHANGED <<h2streams, exchanges>>
    /\ FedUnchanged
    /\ UNCHANGED <<connState, buffered, closed, requests, outcomes, unpaired>>
-----------------------------------------------------------------------------
(* HTTP/1.1.                                                               *)

\* h1Requests: the head of a request, and then its body to the end, before
\* the request goes to the channel.
H1ReadRequest ==
    /\ ~talk.h2 /\ buffered[Egress] # <<>>
    /\ LET item == Head(buffered[Egress]) IN
       \/ /\ Reads(Egress, item) /\ item.kind = "request"
          /\ Goto(Egress, "inBody", item.id, 0)
          /\ UNCHANGED <<requests, unpaired>>
       \/ /\ parser[Egress].pc = "inBody" /\ item.kind = "body"
          /\ Goto(Egress, "read", 0, 0)
          /\ IF Len(requests) < maxRequests
             THEN requests' = Append(requests, parser[Egress].req) /\ UNCHANGED unpaired
             ELSE unpaired' = TRUE /\ UNCHANGED requests
    /\ Consume(Egress)
    /\ FedUnchanged
    /\ UNCHANGED <<connState, closed, h2streams, exchanges, outcomes>>

\* Mutant of H1ReadResponse: an interim response takes a request too.
MutantH1ReadResponse ==
    /\ ~talk.h2 /\ buffered[Ingress] # <<>>
    /\ LET item == Head(buffered[Ingress]) IN
       \/ /\ Reads(Ingress, item) /\ item.kind = "continue" /\ UNCHANGED parser
          /\ requests' = IF requests = <<>> THEN requests ELSE Tail(requests)
       \/ Reads(Ingress, item) /\ item.kind = "response" /\ Goto(Ingress, "await", 0, item.id) /\ UNCHANGED requests
    /\ Consume(Ingress)
    /\ FedUnchanged
    /\ UNCHANGED <<connState, closed, h2streams, exchanges, outcomes, unpaired>>

\* h1Responses: the head of a response.
H1ReadResponse ==
    /\ ~talk.h2 /\ buffered[Ingress] # <<>>
    /\ LET item == Head(buffered[Ingress]) IN
       \/ Reads(Ingress, item) /\ item.kind = "continue" /\ UNCHANGED parser
       \/ Reads(Ingress, item) /\ item.kind = "response" /\ Goto(Ingress, "await", 0, item.id)
    /\ Consume(Ingress)
    /\ FedUnchanged
    /\ UNCHANGED <<connState, closed, h2streams, requests, exchanges, outcomes, unpaired>>

\* It takes the oldest request.
H1TakeRequest ==
    /\ parser[Ingress].pc = "await" /\ requests # <<>>
    /\ requests' = Tail(requests)
    /\ Goto(Ingress, "inBody", Head(requests), parser[Ingress].resp)
    /\ FedUnchanged
    /\ UNCHANGED <<connState, buffered, closed, h2streams, exchanges, outcomes, unpaired>>

\* After a second without one it goes on with none.
H1Timeout ==
    /\ parser[Ingress].pc = "await" /\ requests = <<>>
    /\ unpaired' = TRUE
    /\ Goto(Ingress, "inBody", 0, parser[Ingress].resp)
    /\ FedUnchanged
    /\ UNCHANGED <<connState, buffered, closed, h2streams, requests, exchanges, outcomes>>

\* The end of a response's body.
H1FinishResponse ==
    /\ parser[Ingress].pc = "inBody" /\ ~talk.h2 /\ buffered[Ingress] # <<>>
    /\ Head(buffered[Ingress]).kind = "body"
    /\ exchanges' = Append(exchanges, AtHand(Ingress))
    /\ Consume(Ingress) /\ Goto(Ingress, "read", 0, 0)
    /\ FedUnchanged
    /\ UNCHANGED <<connState, closed, h2streams, requests, outcomes, unpaired>>
-----------------------------------------------------------------------------
\* Close: a connection that is not in use has nothing to wait for.
CloseConn ==
    /\ closer = "no"
    /\ connState' = "dead" /\ closed' = TRUE
    /\ closer' = IF connState \in {"http1", "http2"} THEN "waiting" ELSE "done"
    /\ UNCHANGED <<toFeed, missedStart, buffered, parser, h2streams, requests, exchanges, outcomes,
                   accepted, unpaired>>

\* The streams whose response had started, when the connection went away.
Started == {id \in DOMAIN h2streams : h2streams[id].req /\ h2streams[id].status}

\* The exchanges of a set of streams, in some order.
RECURSIVE Finished(_)
Finished(S) ==
    IF S = {} THEN <<>>
    ELSE LET id == CHOOSE i \in S : TRUE IN <<[req |-> id, resp |-> id]>> \o Finished(S \ {id})

\* The goroutine of Close, once the parsers have ended.
Judge ==
    /\ closer = "waiting" /\ \A d \in Directions : parser[d].pc = "done"
    /\ h2streams' = [id \in DOMAIN h2streams \ Started |-> h2streams[id]]
    /\ exchanges' = exchanges \o Finished(Started)
    /\ outcomes' = IF exchanges' = <<>> THEN outcomes \cup {"abandoned"} ELSE outcomes
    /\ closer' = "done"
    /\ UNCHANGED <<toFeed, connState, missedStart, buffered, closed, parser, requests, accepted, unpaired>>

ParserStep(d) ==
    \/ ReadEnds(d) \/ ReadFails(d) \/ H2Read(d) \/ H2MaybeFinish(d)
    \/ d = Egress /\ H1ReadRequest
    \/ d = Ingress /\ (H1ReadResponse \/ H1TakeRequest \/ H1Timeout \/ H1FinishResponse)

LlmConnNext ==
    /\ \/ \E d \in Directions : Feed(d) \/ ParserStep(d)
       \/ CloseConn
       \/ Judge
    /\ UNCHANGED talk

\* The goroutines run on.
LlmConnFairness == WF_llmConnVars(Judge /\ UNCHANGED talk)
                   /\ \A d \in Directions : WF_llmConnVars(ParserStep(d) /\ UNCHANGED talk)

LlmConnSpec == LlmConnInit /\ [][LlmConnNext]_llmConnVars
LlmConnLiveSpec == LlmConnSpec /\ LlmConnFairness
-----------------------------------------------------------------------------
(* Properties.                                                             *)

\* No response is reported twice, whichever of the two parsers and Close
\* gets to its end first.
ExchangeOnce ==
    \A i, j \in 1..Len(exchanges) : exchanges[i].resp = exchanges[j].resp => i = j

\* While no request was dropped and no response went on without one, every
\* exchange has a response with its own request ("requests waiting for their
\* response, in order").
PairedInOrder ==
    ~unpaired => \A i \in 1..Len(exchanges) : exchanges[i].req = exchanges[i].resp

\* Once Close has judged the connection, every HTTP/2 stream whose request
\* and response headers were captured is reported (of a connection without
\* gaps), and a connection that is
\* abandoned has reported none: "judge after they finish".
NothingLeftBehind ==
    /\ (closer = "done" /\ talk.h2 /\ "overflow" \notin outcomes /\ \A a \in accepted : a[2].kind # "bad") =>
         \A id \in {a[2].id : a \in {b \in accepted : b[2].kind = "request"}} :
           (\E b \in accepted : b[1] = Ingress /\ b[2].kind = "headers" /\ b[2].id = id) =>
              \E i \in 1..Len(exchanges) : exchanges[i].resp = id
    /\ "abandoned" \in outcomes => exchanges = <<>>

\* Each response captured is reported once, with the request it answers.
ExchangesReported == ExchangeOnce /\ PairedInOrder /\ NothingLeftBehind

\* A connection that is closed is judged: no goroutine of it waits for ever.
ClosedIsJudged == (closer = "waiting") ~> (closer = "done")
=============================================================================
