------------------------------ MODULE MCAgent -------------------------------
(***************************************************************************)
(* Small instances of the modules for what the agent does beside tailing   *)
(* logs, tracking connections and naming endpoints.  A behaviour is one of *)
(* one of the modules: "part" says which, and the state of the others      *)
(* stays as it was at the start.                                           *)
(***************************************************************************)
EXTENDS Hpack, Http2Framing, Http2Streams, LlmConn, LlmCapture, MetricsSpool,
        Containers, Uprobes, TracerStart, ProcessStats,
        Pinger, SymbolCache, JournalFollow, GpuSamples, Mounts

VARIABLE part

http2Vars == <<hpackVars, frameVars, h2Vars>>
llmVars == <<llmConnVars, capVars>>
procVars == <<containersVars, uprobesVars, startVars, statsVars>>
hostVars == <<pingVars, symbolVars, journalVars, gpuVars, mountVars>>
agentVars == <<http2Vars, llmVars, procVars, hostVars, spoolVars, part>>

Parts == {"hpack", "frames", "streams", "conversation", "captures", "spool",
          "containers", "uprobes", "start", "stats",
          "ping", "symbols", "journal", "gpu", "mounts"}
-----------------------------------------------------------------------------
(* HTTP/2.                                                                 *)

MCNameLen(n) == IF n = "long" THEN 2 ELSE 1
MCValueLen(v) == 0
MCTableSizes == {{0, 4}, {6, 8}}

Frame(k, l, e) == [kind |-> k, len |-> l, ends |-> e]

\* Two connections: with a header block of three frames, and with frames
\* longer than what is captured of a read.
MCFrameLists ==
    { <<Frame("headers", 2, TRUE), Frame("data", 5, TRUE), Frame("headers", 2, FALSE), Frame("cont", 2, FALSE),
        Frame("cont", 1, TRUE), Frame("data", 1, TRUE), Frame("headers", 1, TRUE), Frame("headers", 2, TRUE)>>,
      <<Frame("headers", 1, TRUE), Frame("headers", 4, TRUE), Frame("headers", 2, TRUE), Frame("data", 7, TRUE),
        Frame("headers", 1, TRUE), Frame("headers", 1, TRUE)>> }

\* What the bytes inside a frame read as, as frame headers: 0 is invalid.
MCGarbage == {[i \in 1..8 |-> 0], [i \in 1..8 |-> IF i % 2 = 0 THEN 2 ELSE 3]}

MCFrameWorlds ==
    { [frames |-> f, units |-> UnitsOf(f), slow |-> y, garbage |-> g, capture |-> c, longest |-> 5, lossy |-> y] :
        f \in MCFrameLists, g \in MCGarbage, c \in {2, 3, 5}, y \in BOOLEAN }
-----------------------------------------------------------------------------
(* LLM conversations and captures.                                         *)

More(k, n) == [kind |-> k, id |-> n, ends |-> FALSE]
Final(k, n) == [kind |-> k, id |-> n, ends |-> TRUE]
Talk(h, l, e, i) == [h2 |-> h, limit |-> l, items |-> [d \in {"egress", "ingress"} |-> IF d = "egress" THEN e ELSE i]]

MCTalks ==
    { Talk(TRUE, 3, <<More("request", 1), More("request", 3), More("rst", 3)>>,
                    <<More("headers", 1), Final("data", 1), More("headers", 3), Final("rst", 3)>>),
      Talk(TRUE, 2, <<More("tls", 0), More("request", 1), More("request", 3)>>,
                    <<Final("headers", 1), More("bad", 3), Final("headers", 3)>>),
      Talk(FALSE, 3, <<More("mid", 0), More("request", 1), More("body", 1), More("request", 2), More("body", 2)>>,
                     <<More("continue", 1), More("response", 1), More("body", 1), More("response", 2), More("body", 2)>>) }

\* The first two sockets follow each other on one descriptor.
MCFdOf(k) == IF k = 3 THEN 2 ELSE 1
MCPeers == {[hello |-> {1}, endpoint |-> {}], [hello |-> {1, 2}, endpoint |-> {}], [hello |-> {}, endpoint |-> {1, 2, 3}]}
-----------------------------------------------------------------------------
(* The spool.                                                              *)

Found(n, empty) == [t \in 1..n |-> IF t = empty THEN 0 ELSE 1]

MCSpoolWorlds ==
    { [size |-> [t \in 1..5 |-> 1 + (t % 2)], accepts |-> [t \in 1..5 |-> TRUE], found |-> Found(3, 0), crashes |-> 0],
      [size |-> [t \in 1..5 |-> 1], accepts |-> [t \in 1..5 |-> t # 3], found |-> Found(2, 2), crashes |-> 1] }
-----------------------------------------------------------------------------
(* Processes.                                                              *)

Host(ids, lossy, reorders) == [ids |-> ids, lossy |-> lossy, reorders |-> reorders]

\* Two cgroups of one container, one to be skipped or ignored, or two
\* containers.
MCContainerWorlds ==
    { Host([g \in {"a", "b"} |-> "A"], TRUE, FALSE),
      Host([g \in {"a", "root"} |-> IF g = "a" THEN "A" ELSE ""], TRUE, FALSE),
      Host([g \in {"a", "/init.scope"} |-> IF g = "a" THEN "A" ELSE ""], FALSE, FALSE),
      Host([g \in {"a", "b"} |-> IF g = "a" THEN "A" ELSE "B"], FALSE, TRUE) }

MCUprobeWorlds == {[lossy |-> TRUE, calm |-> FALSE]}
MCStatsWorlds == [calm : BOOLEAN]
-----------------------------------------------------------------------------
(* The host.                                                               *)

MCPingWorlds == {[prompt |-> TRUE, strays |-> FALSE], [prompt |-> FALSE, strays |-> FALSE], [prompt |-> TRUE, strays |-> TRUE]}

\* Two goroutines that share a name, of binaries that have some of them.
MCSymbolWorlds ==
    { [asks |-> [k \in 1..2 |-> IF k = 1 THEN {"a", "b"} ELSE {"b", "c"}],
       has |-> [b \in 1..2 |-> IF b = 1 THEN {"a", "c"} ELSE {"b"}], calm |-> calm] : calm \in BOOLEAN }

\* Two containers of one unit, or of one each.
MCJournalWorlds == {[unit |-> [c \in 1..2 |-> IF shared THEN "u" ELSE IF c = 1 THEN "u" ELSE "v"], calm |-> calm]
                      : shared, calm \in BOOLEAN}
MCMountWorlds == [calm : BOOLEAN]
-----------------------------------------------------------------------------
Fixed(p, world, worlds) == part # p => world = CHOOSE w \in worlds : TRUE

AgentInit ==
    /\ part \in Parts
    /\ HpackInit /\ Fixed("hpack", sizes, TableSizes)
    /\ FrameInit /\ Fixed("frames", wire, FrameWorlds)
    /\ H2Init /\ Fixed("streams", manner, Manners)
    /\ LlmConnInit /\ Fixed("conversation", talk, Talks)
    /\ CapInit /\ Fixed("captures", peers, Peers)
    /\ SpoolInit /\ Fixed("spool", spoolWorld, SpoolWorlds)
    /\ ContainersInit /\ Fixed("containers", hostWorld, ContainerWorlds)
    /\ UprobesInit /\ Fixed("uprobes", uprobeWorld, UprobeWorlds)
    /\ TracerStartInit /\ (part # "start" => AliveOnHost = {})
    /\ StatsInit /\ Fixed("stats", statsWorld, StatsWorlds)
    /\ PingInit /\ Fixed("ping", pingWorld, PingWorlds)
    /\ SymbolInit /\ Fixed("symbols", symbolWorld, SymbolWorlds)
    /\ JournalInit /\ Fixed("journal", journalWorld, JournalWorlds)
    /\ GpuInit
    /\ MountInit /\ Fixed("mounts", mountWorld, MountWorlds)

Http2Next ==
    \/ part = "hpack" /\ HpackNext /\ UNCHANGED <<frameVars, h2Vars>>
    \/ part = "frames" /\ FrameNext /\ UNCHANGED <<hpackVars, h2Vars>>
    \/ part = "streams" /\ H2Next /\ UNCHANGED <<hpackVars, frameVars>>

LlmNext ==
    \/ part = "conversation" /\ LlmConnNext /\ UNCHANGED capVars
    \/ part = "captures" /\ CapNext /\ UNCHANGED llmConnVars

ProcNext ==
    \/ part = "containers" /\ ContainersNext /\ UNCHANGED <<uprobesVars, startVars, statsVars>>
    \/ part = "uprobes" /\ UprobesNext /\ UNCHANGED <<containersVars, startVars, statsVars>>
    \/ part = "start" /\ TracerStartNext /\ UNCHANGED <<containersVars, uprobesVars, statsVars>>
    \/ part = "stats" /\ StatsNext /\ UNCHANGED <<containersVars, uprobesVars, startVars>>

HostNext ==
    \/ part = "ping" /\ PingNext /\ UNCHANGED <<symbolVars, journalVars, gpuVars, mountVars>>
    \/ part = "symbols" /\ SymbolNext /\ UNCHANGED <<pingVars, journalVars, gpuVars, mountVars>>
    \/ part = "journal" /\ JournalNext /\ UNCHANGED <<pingVars, symbolVars, gpuVars, mountVars>>
    \/ part = "gpu" /\ GpuNext /\ UNCHANGED <<pingVars, symbolVars, journalVars, mountVars>>
    \/ part = "mounts" /\ MountNext /\ UNCHANGED <<pingVars, symbolVars, journalVars, gpuVars>>

AgentNext ==
    /\ UNCHANGED part
    /\ \/ Http2Next /\ UNCHANGED <<llmVars, procVars, hostVars, spoolVars>>
       \/ LlmNext /\ UNCHANGED <<http2Vars, procVars, hostVars, spoolVars>>
       \/ ProcNext /\ UNCHANGED <<http2Vars, llmVars, hostVars, spoolVars>>
       \/ HostNext /\ UNCHANGED <<http2Vars, llmVars, procVars, spoolVars>>
       \/ part = "spool" /\ SpoolNext /\ UNCHANGED <<http2Vars, llmVars, procVars, hostVars>>

AgentSpec == AgentInit /\ [][AgentNext]_agentVars
=============================================================================
