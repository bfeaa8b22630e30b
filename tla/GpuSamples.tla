----------------------------- MODULE GpuSamples ------------------------------
(***************************************************************************)
(* GPU utilization by process: processUtilizationPoller (src/gpu/gpu.go),  *)
(* the registry's channel of samples, and the window of samples a Process  *)
(* keeps (addGpuUsageSample, getGPUUsage, removeOldGpuUsageSamples in      *)
(* src/containers/process.go).                                             *)
(*                                                                         *)
(* One goroutine asks each device in turn for the samples since the last   *)
(* one it saw; the event loop adds them to the process; a scrape sums the  *)
(* last ones.                                                              *)
(***************************************************************************)
EXTENDS Naturals, Sequences, FiniteSets

CONSTANTS Gpus,          \* devices, in the order they are asked: 1..n
          GpuChanCap, gpuStatsWindow,
          MaxGpuClock, MaxSamples     \* bounds

VARIABLES
    gpuClock,
    recorded,      \* samples each device recorded: times, at most one each
    poll,          \* the poller: the device it asks and the samples it has of it
    lastTs,        \* the last time seen, as each device is asked with it: one for all
    sampleChan,    \* ProcessUsageSampleCh
    gpuSamples,    \* p.gpuUsageSamples
    gpuScrape,     \* the latest scrape: when, and which samples it summed
    addedSamples   \* history: how often each sample was added

gpuVars == <<gpuClock, recorded, poll, lastTs, sampleChan, gpuSamples, gpuScrape, addedSamples>>

Sample(d, t) == [dev |-> d, ts |-> t]
GpuInit ==
    /\ gpuClock = 1
    /\ recorded = [d \in Gpus |-> <<>>]
    /\ poll = [dev |-> 0, batch |-> <<>>] /\ lastTs = [d \in Gpus |-> 1]
    /\ sampleChan = <<>> /\ gpuSamples = <<>>
    /\ gpuScrape = [at |-> 0, samples |-> <<>>]
    /\ addedSamples = <<>>
-----------------------------------------------------------------------------
(* The devices.                                                            *)

GpuTick ==
    /\ gpuClock < MaxGpuClock /\ gpuClock' = gpuClock + 1
    /\ UNCHANGED <<recorded, poll, lastTs, sampleChan, gpuSamples, gpuScrape, addedSamples>>

RecordSample(d) ==
    /\ Len(recorded[d]) < MaxSamples /\ \A i \in DOMAIN recorded[d] : recorded[d][i] < gpuClock
    /\ recorded' = [recorded EXCEPT ![d] = Append(@, gpuClock)]
    /\ UNCHANGED <<gpuClock, poll, lastTs, sampleChan, gpuSamples, gpuScrape, addedSamples>>

\* GetProcessUtilization: the samples since a time, that time's included.
ProcessUtilization(d, since) == SelectSeq(recorded[d], LAMBDA t : t >= since)
-----------------------------------------------------------------------------
(* processUtilizationPoller.                                               *)

\* The next device is asked; after the last one a new round begins.
PollDevice ==
    /\ poll.batch = <<>>
    /\ LET d == (poll.dev % Cardinality(Gpus)) + 1 IN
       poll' = [dev |-> d, batch |-> ProcessUtilization(d, lastTs[d])]
    /\ UNCHANGED <<gpuClock, recorded, lastTs, sampleChan, gpuSamples, gpuScrape, addedSamples>>

\* A sample that is not newer than the last one, of whichever device.
SeenBefore(d, t) == t <= lastTs[d]

\* Mutant of Advance: each device has a time of its own.
MutantAdvance(d, t) == [lastTs EXCEPT ![d] = t]

Advance(d, t) == [x \in Gpus |-> t]

\* The next sample is skipped, or sent if the process used the device; the
\* channel may be full.
SendSample(used) ==
    LET t == Head(poll.batch) IN
    /\ poll.batch # <<>> /\ poll' = [poll EXCEPT !.batch = Tail(@)]
    /\ IF SeenBefore(poll.dev, t) THEN UNCHANGED <<lastTs, sampleChan>>
       ELSE /\ lastTs' = Advance(poll.dev, t)
            /\ IF used THEN Len(sampleChan) < GpuChanCap /\ sampleChan' = Append(sampleChan, Sample(poll.dev, t))
               ELSE UNCHANGED sampleChan
    /\ UNCHANGED <<gpuClock, recorded, gpuSamples, gpuScrape, addedSamples>>
-----------------------------------------------------------------------------
(* The Process.                                                            *)

\* removeOldGpuUsageSamples stops at the first sample after the cutoff, given
\* by the time the window ends.
RemoveOld(samples, now) ==
    LET kept == {i \in DOMAIN samples : samples[i].ts + gpuStatsWindow > now} IN
    IF kept = {} THEN <<>> ELSE SubSeq(samples, CHOOSE i \in kept : \A j \in kept : i <= j, Len(samples))

\* addGpuUsageSample, unless the process is not tracked (yet).
AddGpuUsageSample(tracked) ==
    LET s == Head(sampleChan) IN
    /\ sampleChan # <<>> /\ sampleChan' = Tail(sampleChan)
    /\ IF tracked THEN /\ gpuSamples' = Append(RemoveOld(gpuSamples, s.ts), s)
                       /\ addedSamples' = Append(addedSamples, s)
       ELSE UNCHANGED <<gpuSamples, addedSamples>>
    /\ UNCHANGED <<gpuClock, recorded, poll, lastTs, gpuScrape>>

\* getGPUUsage.
GetGPUUsage ==
    /\ gpuSamples' = RemoveOld(gpuSamples, gpuClock)
    /\ gpuScrape' = [at |-> gpuClock, samples |-> gpuSamples']
    /\ UNCHANGED <<gpuClock, recorded, poll, lastTs, sampleChan, addedSamples>>

GpuNext ==
    \/ GpuTick \/ (\E d \in Gpus : RecordSample(d))
    \/ PollDevice \/ (\E used \in BOOLEAN : SendSample(used))
    \/ (\E tracked \in BOOLEAN : AddGpuUsageSample(tracked)) \/ GetGPUUsage

GpuSpec == GpuInit /\ [][GpuNext]_gpuVars
-----------------------------------------------------------------------------
(* Properties.                                                             *)

\* What a scrape sums lies in the window, though removeOldGpuUsageSamples
\* stops at the first sample that does: the samples come in the order of their
\* times because the devices share lastTs.
WindowExact ==
    \A i \in DOMAIN gpuScrape.samples : gpuScrape.samples[i].ts + gpuStatsWindow > gpuScrape.at

\* No sample is added to a process twice, though a device may give its last
\* one again.
SampleOnce == \A i, j \in DOMAIN addedSamples : addedSamples[i] = addedSamples[j] => i = j

\* A scrape sums each sample of its window once.
SamplesExact == WindowExact /\ SampleOnce
=============================================================================
