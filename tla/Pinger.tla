------------------------------- MODULE Pinger --------------------------------
(***************************************************************************)
(* The round trip times of a container's destinations: Ping                *)
(* (src/pinger/pinger.go), called by a scrape (ping in                     *)
(* src/containers/container.go).                                           *)
(*                                                                         *)
(* Each round opens a raw socket of its own.  The kernel puts the time a   *)
(* packet was sent into the socket's error queue, sooner or later, with    *)
(* nothing that says which packet it was.  A raw socket hears every reply  *)
(* that reaches the namespace, those of earlier rounds included.           *)
(***************************************************************************)
EXTENDS Integers, Sequences, FiniteSets

CONSTANTS PingTargets, PingWorlds,
          MaxPingClock, MaxRounds     \* bounds

VARIABLES
    pingWorld,   \* prompt: a packet's time is queued when it is asked for;
                 \* strays: replies arrive in later rounds, too
    pingClock,
    pinging,     \* the round: its number, where it is, the targets left, the
                 \* packet whose time is to be read
    sentPackets, \* ids: target to sequence number and time sent
    stamping,    \* times of packets not yet queued
    txQueue,     \* the error queue
    echoes,      \* packets under way or answered late
    inbox,       \* replies the socket has received, with their time
    rttByIp

pingVars == <<pingWorld, pingClock, pinging, sentPackets, stamping, txQueue, echoes, inbox, rttByIp>>

NoRtts == [ip \in {} |-> 0]
PingInit ==
    /\ pingWorld \in PingWorlds
    /\ pingClock = 0
    /\ pinging = [round |-> 0, at |-> "idle", left |-> {}, ip |-> "", seq |-> 0]
    /\ sentPackets = NoRtts /\ stamping = <<>> /\ txQueue = <<>> /\ echoes = {} /\ inbox = <<>>
    /\ rttByIp = NoRtts

Put(f, k, v) == [x \in DOMAIN f \cup {k} |-> IF x = k THEN v ELSE f[x]]
-----------------------------------------------------------------------------
(* The network and the kernel.                                             *)

PingTick ==
    /\ pinging.at # "idle" /\ pingClock < MaxPingClock /\ pingClock' = pingClock + 1
    /\ UNCHANGED <<pingWorld, pinging, sentPackets, stamping, txQueue, echoes, inbox, rttByIp>>

QueueStamp ==
    /\ stamping # <<>> /\ stamping' = Tail(stamping) /\ txQueue' = Append(txQueue, Head(stamping))
    /\ UNCHANGED <<pingWorld, pingClock, pinging, sentPackets, echoes, inbox, rttByIp>>

Reply(e) ==
    /\ e \in echoes /\ pinging.at # "idle"
    /\ echoes' = echoes \ {e} /\ inbox' = Append(inbox, [echo |-> e, rx |-> pingClock])
    /\ UNCHANGED <<pingWorld, pingClock, pinging, sentPackets, stamping, txQueue, rttByIp>>
-----------------------------------------------------------------------------
(* Ping.                                                                   *)

\* ping opens the socket in the container's namespace.
BeginPing ==
    /\ pinging.at = "idle" /\ pinging.round < MaxRounds
    /\ pinging' = [round |-> pinging.round + 1, at |-> "send", left |-> PingTargets, ip |-> "", seq |-> 0]
    /\ sentPackets' = NoRtts /\ rttByIp' = NoRtts
    /\ UNCHANGED <<pingWorld, pingClock, stamping, txQueue, echoes, inbox>>

AfterTarget(left) == [pinging EXCEPT !.at = IF left = {} THEN "receive" ELSE "send", !.left = left]

\* A packet is sent to the next target, or there is no room for it now.
SendPacket(ip) ==
    LET seq == pinging.seq + 1 IN
    /\ pinging.at = "send" /\ ip \in pinging.left
    /\ \/ /\ pinging' = [pinging EXCEPT !.at = "stamp", !.ip = ip, !.seq = seq]
          /\ echoes' = echoes \cup {[ip |-> ip, seq |-> seq, round |-> pinging.round, sent |-> pingClock]}
          /\ IF pingWorld.prompt THEN txQueue' = Append(txQueue, pingClock) /\ UNCHANGED stamping
             ELSE stamping' = Append(stamping, pingClock) /\ UNCHANGED txQueue
       \/ /\ pinging' = [AfterTarget(pinging.left \ {ip}) EXCEPT !.seq = seq]
          /\ UNCHANGED <<echoes, stamping, txQueue>>
    /\ UNCHANGED <<pingWorld, pingClock, sentPackets, inbox, rttByIp>>

\* Mutant of GetTxTimestamp: the agent's own clock is read.
MutantGetTxTimestamp == pingClock

\* What the error queue holds first.
GetTxTimestamp == Head(txQueue)

\* The packet's time is read; a target whose packet has none yet is given up.
TakeStamp ==
    /\ pinging.at = "stamp"
    /\ IF txQueue = <<>> THEN UNCHANGED <<sentPackets, txQueue>>
       ELSE /\ sentPackets' = Put(sentPackets, pinging.ip, [seq |-> pinging.seq, tx |-> GetTxTimestamp])
            /\ txQueue' = Tail(txQueue)
    /\ pinging' = AfterTarget(pinging.left \ {pinging.ip})
    /\ UNCHANGED <<pingWorld, pingClock, stamping, echoes, inbox, rttByIp>>

\* A reply with the sequence number of the packet sent to that address.
ReceiveReply ==
    LET e == Head(inbox).echo
        rtt == Head(inbox).rx - sentPackets[e.ip].tx IN
    /\ pinging.at = "receive" /\ inbox # <<>> /\ DOMAIN rttByIp # PingTargets
    /\ inbox' = Tail(inbox)
    /\ rttByIp' = IF e.ip \in DOMAIN sentPackets /\ sentPackets[e.ip].seq = e.seq
                  THEN Put(rttByIp, e.ip, [rtt |-> IF rtt < 0 THEN 0 ELSE rtt, echo |-> e, rx |-> Head(inbox).rx])
                  ELSE rttByIp
    /\ UNCHANGED <<pingWorld, pingClock, pinging, sentPackets, stamping, txQueue, echoes>>

\* The timeout, or the last reply, or an error of the socket ends the round.
EndPing ==
    /\ pinging.at # "idle"
    /\ pinging' = [pinging EXCEPT !.at = "idle", !.left = {}]
    /\ rttByIp' = IF pinging.at = "receive" THEN rttByIp ELSE NoRtts
    /\ stamping' = <<>> /\ txQueue' = <<>> /\ inbox' = <<>>
    /\ echoes' = IF pingWorld.strays THEN echoes ELSE {}
    /\ UNCHANGED <<pingWorld, pingClock, sentPackets>>

PingNext ==
    \/ PingTick \/ QueueStamp \/ (\E e \in echoes : Reply(e))
    \/ BeginPing \/ (\E ip \in PingTargets : SendPacket(ip)) \/ TakeStamp \/ ReceiveReply \/ EndPing

PingSpec == PingInit /\ [][PingNext]_pingVars
-----------------------------------------------------------------------------
(* Properties.                                                             *)

\* A round trip time is never below the one the reply really took, and equals
\* it when the kernel's times are prompt: a time read for the wrong packet is
\* that of an earlier one (getTxTimestamp).  Rounds that hear replies of others
\* are left out.
RttHonest ==
    ~pingWorld.strays =>
      \A ip \in DOMAIN rttByIp :
        LET r == rttByIp[ip] IN
        r.rtt >= r.rx - r.echo.sent /\ (pingWorld.prompt => r.rtt = r.rx - r.echo.sent)
=============================================================================
