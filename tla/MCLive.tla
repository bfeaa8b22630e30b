------------------------------- MODULE MCLive -------------------------------
(***************************************************************************)
(* What must happen in the end, on small instances: a behaviour is one of  *)
(* one of the modules ("part"), with the fairness its module's code has.   *)
(***************************************************************************)
EXTENDS IpResolver, VmResolver, Destinations, LlmConn, LlmCapture,
        MetricsSpool, Containers, Listens, Uprobes

VARIABLE part

liveVars == <<resolverVars, vmVars, trafficVars, llmConnVars, capVars, spoolVars,
              containersVars, listensVars, uprobesVars, part>>

Parts == {"resolver", "vm", "traffic", "conversation", "captures", "spool",
          "containers", "listens", "uprobes"}
-----------------------------------------------------------------------------
(* Names.                                                                  *)

\* Two pods in turn on one address.
MCClusterWorlds ==
    { [pods |-> Pods, ips |-> Ips, name |-> [u \in Pods |-> u], owner |-> [u \in Pods |-> NoOne], kind |-> <<>>,
       hashed |-> {}, nodeIp |-> NoOne, serviceIp |-> NoOne, dns |-> {}, owned |-> FALSE, relisted |-> FALSE] }

\* Two sockets in turn on one descriptor.
MCTrafficWorlds ==
    { [fd |-> <<"f", "f">>, dst |-> <<"r", "e">>, actual |-> <<"r", "e">>, host |-> <<"dns", "api">>,
       kube |-> {}, external |-> {"r", "e"}, filtered |-> {}, failing |-> {}, sends |-> {}, dns |-> {1},
       asks |-> {}, tuple |-> {TRUE}, proto |-> "HTTP"] }
-----------------------------------------------------------------------------
(* LLM conversations and captures, and the spool.                          *)

Item(k, n) == [kind |-> k, id |-> n, ends |-> FALSE]
Talk(h, l, e, i) == [h2 |-> h, limit |-> l, items |-> [d \in {"egress", "ingress"} |-> IF d = "egress" THEN e ELSE i]]

MCTalks ==
    { Talk(TRUE, 3, <<Item("request", 1)>>, <<Item("headers", 1), [Item("data", 1) EXCEPT !.ends = TRUE]>>),
      Talk(FALSE, 3, <<Item("request", 1), Item("body", 1), Item("request", 2)>>,
                     <<Item("response", 1), Item("body", 1), Item("response", 2)>>) }

MCFdOf(k) == 1
MCPeers == {[hello |-> {1}, endpoint |-> {}], [hello |-> {}, endpoint |-> {1, 2}]}

MCSpoolWorlds ==
    { [size |-> <<1, 1>>, accepts |-> <<TRUE, FALSE>>, found |-> f, crashes |-> 1] : f \in {<<>>, <<1>>} }
-----------------------------------------------------------------------------
(* Processes.                                                              *)

MCContainerWorlds ==
    { [ids |-> [g \in {"a", "b"} |-> "A"], lossy |-> TRUE, reorders |-> FALSE],
      [ids |-> [g \in {"a", "b"} |-> IF g = "a" THEN "A" ELSE "B"], lossy |-> FALSE, reorders |-> TRUE] }

MCListenWorlds == {[lossy |-> TRUE, inherits |-> FALSE, sockets |-> 2], [lossy |-> FALSE, inherits |-> TRUE, sockets |-> 1]}
MCUprobeWorlds == [lossy : {TRUE}, calm : BOOLEAN]
-----------------------------------------------------------------------------
Fixed(p, world, worlds) == part # p => world = CHOOSE w \in worlds : TRUE

LiveInit ==
    /\ part \in Parts
    /\ ResolverInit /\ Fixed("resolver", cluster, ClusterWorlds)
    /\ VmInit /\ (part # "vm" => hostAddrs = {})
    /\ TrafficInit /\ Fixed("traffic", traffic, TrafficWorlds)
    /\ LlmConnInit /\ Fixed("conversation", talk, Talks)
    /\ CapInit /\ Fixed("captures", peers, Peers)
    /\ SpoolInit /\ (part # "spool" => spoolWorld.found = <<>>)
    /\ ContainersInit /\ Fixed("containers", hostWorld, ContainerWorlds)
    /\ ListensInit /\ Fixed("listens", listenWorld, ListenWorlds)
    /\ UprobesInit /\ Fixed("uprobes", uprobeWorld, UprobeWorlds)

\* The other modules stand still.
Rest ==
    /\ UNCHANGED part
    /\ part # "resolver" => UNCHANGED resolverVars
    /\ part # "vm" => UNCHANGED vmVars
    /\ part # "traffic" => UNCHANGED trafficVars
    /\ part # "conversation" => UNCHANGED llmConnVars
    /\ part # "captures" => UNCHANGED capVars
    /\ part # "spool" => UNCHANGED spoolVars
    /\ part # "containers" => UNCHANGED containersVars
    /\ part # "listens" => UNCHANGED listensVars
    /\ part # "uprobes" => UNCHANGED uprobesVars

LiveNext ==
    \/ part = "resolver" /\ ResolverNext /\ Rest
    \/ part = "vm" /\ VmNext /\ Rest
    \/ part = "traffic" /\ TrafficNext /\ Rest
    \/ part = "conversation" /\ LlmConnNext /\ Rest
    \/ part = "captures" /\ CapNext /\ Rest
    \/ part = "spool" /\ SpoolNext /\ Rest
    \/ part = "containers" /\ ContainersNext /\ Rest
    \/ part = "listens" /\ ListensNext /\ Rest
    \/ part = "uprobes" /\ UprobesNext /\ Rest
-----------------------------------------------------------------------------
(* Fairness.  One module moves in a behaviour, so fairness of one action   *)
(* of each module is fairness of their disjunction.                        *)

\* The state of the module that moves.
moving ==
    CASE part = "resolver" -> resolverVars [] part = "vm" -> vmVars
      [] part = "traffic" -> trafficVars [] part = "conversation" -> llmConnVars [] part = "captures" -> capVars
      [] part = "spool" -> spoolVars [] part = "containers" -> containersVars [] part = "listens" -> listensVars
      [] part = "uprobes" -> uprobesVars

\* Goroutines that can run do; the tickers of the resolver and the registry
\* go on ticking; events that were sent are handled.
Weak1 ==
    /\ UNCHANGED part
    /\ \/ part = "resolver" /\ (PublishPod \/ Build)
       \/ part = "vm" /\ (StartListing \/ WatchLoopEnds \/ ListFails \/ ListLocalIPs \/ StoreLocalIPs)
       \/ part = "traffic" /\ UpdateTrafficStats(1)
       \/ part = "conversation" /\ Judge /\ UNCHANGED talk
       \/ part = "captures" /\ GcLLMCaptures(1)
       \/ part = "spool" /\ (PickFile \/ ReadFile \/ RemoveSent)
       \/ part = "containers" /\ HandleProcessEvent
       \/ part = "listens" /\ RevalidateListens
       \/ part = "uprobes" /\ (RegisterLife \/ AttachOpenSsl \/ IdentifyExe \/ AttachGoTls \/ AddGoTls)

Weak2 ==
    /\ UNCHANGED part
    /\ \/ part = "traffic" /\ UpdateTrafficStats(2)
       \/ part = "conversation" /\ ParserStep("egress") /\ UNCHANGED talk
       \/ part = "listens" /\ (\E i \in 1..Len(listenEvents) : OnListenOpen(i) \/ OnListenClose(i))
       \/ part = "uprobes" /\ CloseLife

Weak3(n) ==
    /\ UNCHANGED part
    /\ \/ part = "conversation" /\ n = 1 /\ ParserStep("ingress") /\ UNCHANGED talk
       \/ part = "captures" /\ HandleEvent(IF n = 1 THEN "l7" ELSE "conn")
       \/ part = "listens" /\ OnListenerExit(n)
       \/ part = "uprobes" /\ n \in Lives /\ Instrument(n)

\* Informers resync, the collector is reachable again and again, and the
\* select of handleEvents takes the ticker of gc in turn.
Strong1 ==
    /\ UNCHANGED part
    /\ \/ part = "resolver" /\ PodInformer("p1")
       \/ part = "spool" /\ SendAccepted
       \/ part = "containers" /\ GcTick
       \/ part = "uprobes" /\ AttachTls(TRUE)

Strong2 ==
    /\ UNCHANGED part
    /\ \/ part = "resolver" /\ PodInformer("p2")
       \/ part = "spool" /\ SendRejected

LiveSpec ==
    /\ LiveInit /\ [][LiveNext]_liveVars
    /\ WF_moving(Weak1) /\ WF_moving(Weak2) /\ WF_moving(Weak3(1)) /\ WF_moving(Weak3(2))
    /\ SF_moving(Strong1) /\ SF_moving(Strong2)
-----------------------------------------------------------------------------
(* Properties of several modules.                                          *)

\* Endpoints get their names in the end: a pod's address that of its workload
\* (IPResolver), the host's own addresses the host's (VMResolver), and an open
\* connection the name its address is known by (updateConnectionTrafficStats).
EndpointsNamed == AddressResolved /\ HostAddressesNamed /\ OpenConnectionNamed

\* What an LLM connection holds is released once its socket is closed: the
\* capture (llmCaptures) and the goroutines of its parsers (Conn.Close).
LlmReleased == CapturesReleased /\ ClosedIsJudged
=============================================================================
