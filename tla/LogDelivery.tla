---------------------------- MODULE LogDelivery ----------------------------
(***************************************************************************)
(* Delivery of log records to the collector: src/logs/delivery.go, with    *)
(* Shutdown of src/logs/otel.go.                                           *)
(*                                                                         *)
(* Each file reader waits until few records are pending, reads a line and  *)
(* hands it to its parser, which collects lines into a message and emits   *)
(* it: the record is appended to pending and then put in the batch         *)
(* processor's queue.  The exporter sends one batch at a time, retries a   *)
(* transient failure, and reports a finished batch with done(n), which     *)
(* pops the n oldest pending records and acknowledges their offsets.       *)
(* Journald messages have no file to wait in and no position.              *)
(***************************************************************************)
EXTENDS Integers, Sequences, FiniteSets

CONSTANTS
    Readers,            \* the log files that are read
    MaxPendingRecords,  \* maxPendingRecords
    MaxPendingBytes,    \* maxPendingBytes
    MaxBatch,           \* the batch processor's batch size
    Sizes,              \* bytes of a message
    MaxLines            \* bound: lines in each file

ASSUME LimitsAssumption ==
    /\ MaxPendingRecords \in Nat \ {0}
    /\ MaxPendingBytes \in Nat \ {0}
    /\ MaxBatch \in Nat \ {0}
    /\ MaxLines \in Nat
    /\ Sizes \subseteq Nat

\* A line per reader and a message per parser fit above the unpaused limit.
ASSUME ReadersAssumption ==
    /\ IsFiniteSet(Readers)
    /\ Cardinality(Readers) <= MaxPendingRecords

queueSize == 4 * MaxPendingRecords
maxPendingUnpaused == 2 * MaxPendingRecords

NoFile == "journald"            \* src == nil
ASSUME NoFileAssumption == NoFile \notin Readers

\* pendingRecord: the file, the offset its last line ends at, its bytes.
Record == [src : Readers \union {NoFile}, offset : 0..MaxLines, bytes : Sizes]
NoRecord == <<>>
Opt(S) == {NoRecord} \union {<<x>> : x \in S}

VARIABLES
    reader,     \* [Readers -> where its goroutine is]
    line,       \* [Readers -> offset of the last line read]
    held,       \* [Readers -> the message its parser is collecting, if any]
    pending,    \* delivery.pending
    bytes,      \* delivery.bytes
    emitting,   \* the record emitted by the holder of emitMu, appended, not queued
    queue,      \* the batch processor's queue
    batch,      \* the batch in Export
    attempt,    \* where Export is: "idle", "request" or "backoff"
    stopping,   \* delivery.stopping
    shutdown,   \* where logs.Shutdown is
    stopC,      \* retryingExporter.stopC is closed
    acked,      \* [Readers -> offset acknowledged to the file's Source]
    collected,  \* the records the collector has accepted at least once
    rejected    \* the records dropped as rejected

readerVars == <<reader, line, held>>
queueVars == <<emitting, queue>>
exportVars == <<batch, attempt, collected, rejected>>
stopVars == <<stopping, shutdown, stopC>>
vars == <<reader, line, held, pending, bytes, emitting, queue, batch, attempt,
          stopping, shutdown, stopC, acked, collected, rejected>>

settled == collected \union rejected
Elems(s) == {s[i] : i \in 1..Len(s)}

\* The values the variables take (bytes apart).
TypeOK ==
    /\ reader \in [Readers -> {"wait", "select", "read", "send", "stopped"}]
    /\ line \in [Readers -> 0..MaxLines]
    /\ held \in [Readers -> Opt(Record)]
    /\ pending \in Seq(Record)
    /\ emitting \in Opt(Record)
    /\ queue \in Seq(Record)
    /\ batch \in Seq(Record)
    /\ attempt \in {"idle", "request", "backoff"}
    /\ stopping \in BOOLEAN
    /\ shutdown \in {"running", "grace", "drain", "select", "save", "stopped"}
    /\ stopC \in BOOLEAN
    /\ acked \in [Readers -> 0..MaxLines]
    /\ collected \subseteq Record
    /\ rejected \subseteq Record

Init ==
    /\ reader = [r \in Readers |-> "wait"]
    /\ line = [r \in Readers |-> 0]
    /\ held = [r \in Readers |-> NoRecord]
    /\ pending = <<>>
    /\ bytes = 0
    /\ emitting = NoRecord
    /\ queue = <<>>
    /\ batch = <<>>
    /\ attempt = "idle"
    /\ stopping = FALSE
    /\ shutdown = "running"
    /\ stopC = FALSE
    /\ acked = [r \in Readers |-> 0]
    /\ collected = {}
    /\ rejected = {}
-----------------------------------------------------------------------------
(* Readers: the goroutine of NewTailReader, and delivery.wait.             *)

MayRead == ~stopping /\ Len(pending) < MaxPendingRecords /\ bytes < MaxPendingBytes

\* One turn of wait's loop.  A reader that may not read selects on the
\* channel `changed` it saw under the lock.
Wait(r) ==
    /\ reader[r] = "wait"
    /\ reader' = [reader EXCEPT ![r] = IF MayRead THEN "read" ELSE "select"]
    /\ UNCHANGED <<line, held, pending, bytes, acked, queueVars, exportVars, stopVars>>

\* The next whole line; or the end of the file, and after a poll wait again.
ReadLine(r) ==
    /\ reader[r] = "read"
    /\ \/ /\ line[r] < MaxLines
          /\ line' = [line EXCEPT ![r] = @ + 1]
          /\ reader' = [reader EXCEPT ![r] = "send"]
       \/ /\ reader' = [reader EXCEPT ![r] = "wait"]
          /\ UNCHANGED line
    /\ UNCHANGED <<held, pending, bytes, acked, queueVars, exportVars, stopVars>>

\* The parser takes the line: it starts a message, or joins the one held.
ParserReceive(r) ==
    /\ reader[r] = "send"
    /\ \E b \in Sizes :
         held' = [held EXCEPT ![r] = <<[src |-> r, offset |-> line[r], bytes |-> b]>>]
    /\ reader' = [reader EXCEPT ![r] = "wait"]
    /\ UNCHANGED <<line, pending, bytes, acked, queueVars, exportVars, stopVars>>

\* LogParser.Stop: the reader's context ends, in wait, in send or at a poll,
\* and the parser stops with the message it holds.
StopReader(r) ==
    /\ reader[r] # "stopped"
    /\ reader' = [reader EXCEPT ![r] = "stopped"]
    /\ held' = [held EXCEPT ![r] = NoRecord]
    /\ UNCHANGED <<line, pending, bytes, acked, queueVars, exportVars, stopVars>>

\* Mutant of WakeReaders: `changed` is replaced, and never closed.
MutantWakeReaders == UNCHANGED reader

\* Closing `changed` wakes every goroutine that selects on it.
WakeReaders == reader' = [r \in Readers |-> IF reader[r] = "select" THEN "wait" ELSE reader[r]]
Woken(pc) == IF pc = "select" THEN "drain" ELSE pc
-----------------------------------------------------------------------------
(* delivery.emit: the record is appended under mu, then queued, all under  *)
(* emitMu, so no other emit comes between.                                 *)

AppendPending(rec) ==
    /\ emitting = NoRecord
    /\ pending' = Append(pending, rec)
    /\ bytes' = bytes + rec.bytes
    /\ emitting' = <<rec>>

ParserEmit(r) ==
    /\ held[r] # NoRecord
    /\ AppendPending(held[r][1])
    /\ held' = [held EXCEPT ![r] = NoRecord]
    /\ UNCHANGED <<reader, line, acked, queue, exportVars, stopVars>>

\* Mutants of JournaldEmit: no limit; and no stop.
MutantJournaldUnlimited ==
    /\ ~stopping
    /\ \E b \in Sizes : AppendPending([src |-> NoFile, offset |-> 0, bytes |-> b])
    /\ UNCHANGED <<readerVars, acked, queue, exportVars, stopVars>>

\* A message from no file is dropped once stopping, or past the limit.
JournaldEmit ==
    /\ ~stopping /\ Len(pending) < maxPendingUnpaused
    /\ \E b \in Sizes : AppendPending([src |-> NoFile, offset |-> 0, bytes |-> b])
    /\ UNCHANGED <<readerVars, acked, queue, exportVars, stopVars>>

\* send(): the batch processor's queue blocks the emitter while it is full.
Enqueue ==
    /\ emitting # NoRecord
    /\ Len(queue) < queueSize
    /\ queue' = queue \o emitting
    /\ emitting' = NoRecord
    /\ UNCHANGED <<readerVars, pending, bytes, acked, exportVars, stopVars>>

\* Mutant of TakeBatch: the newest records first.
MutantTakeBatch ==
    /\ attempt = "idle"
    /\ \E n \in 1..Len(queue) :
         /\ n <= MaxBatch
         /\ batch' = SubSeq(queue, Len(queue) - n + 1, Len(queue))
         /\ queue' = SubSeq(queue, 1, Len(queue) - n)
    /\ attempt' = "request"
    /\ UNCHANGED <<readerVars, pending, bytes, acked, emitting, collected, rejected, stopVars>>

\* The batch processor takes the oldest queued records to export them.
TakeBatch ==
    /\ attempt = "idle"
    /\ \E n \in 1..Len(queue) :
         /\ n <= MaxBatch
         /\ batch' = SubSeq(queue, 1, n)
         /\ queue' = SubSeq(queue, n + 1, Len(queue))
    /\ attempt' = "request"
    /\ UNCHANGED <<readerVars, pending, bytes, acked, emitting, collected, rejected, stopVars>>
-----------------------------------------------------------------------------
(* delivery.done and retryingExporter.Export.                              *)

AckedBy(recs, r) == {recs[i].offset : i \in {j \in 1..Len(recs) : recs[j].src = r}}

\* Source.ack keeps the largest offset of a generation.
AckAll(recs) ==
    acked' = [r \in Readers |->
        LET offs == AckedBy(recs, r) \union {acked[r]}
        IN  CHOOSE o \in offs : \A p \in offs : p <= o]

BytesOf(recs) ==
    LET sum[i \in 0..Len(recs)] == IF i = 0 THEN 0 ELSE sum[i - 1] + recs[i].bytes
    IN  sum[Len(recs)]

Done(count) ==
    LET n == IF count <= Len(pending) THEN count ELSE Len(pending) IN
    /\ bytes' = bytes - BytesOf(SubSeq(pending, 1, n))
    /\ AckAll(SubSeq(pending, 1, n))
    /\ pending' = SubSeq(pending, n + 1, Len(pending))
    /\ WakeReaders
    /\ shutdown' = Woken(shutdown)

EndExport ==
    /\ batch' = <<>>
    /\ attempt' = "idle"

ExportAccepted ==
    /\ attempt = "request"
    /\ collected' = collected \union Elems(batch)
    /\ Done(Len(batch))
    /\ EndExport
    /\ UNCHANGED <<line, held, queueVars, rejected, stopping, stopC>>

\* An error that resending would not change: the batch is dropped and done.
ExportRejected ==
    /\ attempt = "request"
    /\ rejected' = rejected \union Elems(batch)
    /\ Done(Len(batch))
    /\ EndExport
    /\ UNCHANGED <<line, held, queueVars, collected, stopping, stopC>>

\* Mutants of ExportTransient: the batch counts as done; and the batch is
\* given up, its records pending.
MutantTransientDone ==
    /\ attempt = "request"
    /\ Done(Len(batch))
    /\ EndExport
    /\ UNCHANGED <<line, held, queueVars, collected, rejected, stopping, stopC>>

MutantTransientGivesUp ==
    /\ attempt = "request"
    /\ EndExport
    /\ UNCHANGED <<readerVars, pending, bytes, acked, queueVars, collected, rejected, stopVars>>

\* A transient error; the collector may have taken the batch all the same.
ExportTransient ==
    /\ attempt = "request"
    /\ attempt' = "backoff"
    /\ collected' \in {collected, collected \union Elems(batch)}
    /\ UNCHANGED <<readerVars, pending, bytes, acked, queueVars, batch, rejected, stopVars>>

Retry ==
    /\ attempt = "backoff"
    /\ attempt' = "request"
    /\ UNCHANGED <<readerVars, pending, bytes, acked, queueVars, batch, collected, rejected, stopVars>>

\* Stopped: Export returns, its records stay pending, and the batch processor
\* goes on with the next batch.
ExportStopped ==
    /\ stopC /\ attempt # "idle"
    /\ EndExport
    /\ UNCHANGED <<readerVars, pending, bytes, acked, queueVars, collected, rejected, stopVars>>
-----------------------------------------------------------------------------
(* logs.Shutdown                                                           *)

StopReading ==
    /\ shutdown = "running"
    /\ stopping' = TRUE
    /\ shutdown' = "grace"
    /\ WakeReaders
    /\ UNCHANGED <<line, held, pending, bytes, acked, queueVars, exportVars, stopC>>

\* flushGrace is over, or the timeout is.
EndGrace ==
    /\ shutdown = "grace"
    /\ shutdown' = "drain"
    /\ UNCHANGED <<readerVars, pending, bytes, acked, queueVars, exportVars, stopping, stopC>>

\* One turn of drain's loop.
Drain ==
    /\ shutdown = "drain"
    /\ shutdown' = IF pending = <<>> THEN "save" ELSE "select"
    /\ UNCHANGED <<readerVars, pending, bytes, acked, queueVars, exportVars, stopping, stopC>>

DrainTimeout ==
    /\ shutdown = "select"
    /\ shutdown' = "save"
    /\ UNCHANGED <<readerVars, pending, bytes, acked, queueVars, exportVars, stopping, stopC>>

\* The positions are saved, then retrying.stop().
StopExporter ==
    /\ shutdown = "save"
    /\ shutdown' = "stopped"
    /\ stopC' = TRUE
    /\ UNCHANGED <<readerVars, pending, bytes, acked, queueVars, exportVars, stopping>>
-----------------------------------------------------------------------------
\* The process exits after Shutdown.
Exited ==
    /\ shutdown = "stopped"
    /\ UNCHANGED vars

Next ==
    \/ \E r \in Readers :
         Wait(r) \/ ReadLine(r) \/ ParserReceive(r) \/ ParserEmit(r) \/ StopReader(r)
    \/ JournaldEmit \/ Enqueue \/ TakeBatch
    \/ ExportAccepted \/ ExportRejected \/ ExportTransient \/ Retry \/ ExportStopped
    \/ StopReading \/ EndGrace \/ Drain \/ DrainTimeout \/ StopExporter \/ Exited

Spec == Init /\ [][Next]_vars

\* Goroutines that can run do run, emitMu is granted to a goroutine that keeps
\* asking (Go's mutex does not starve one), and an outage ends: a batch sent
\* again and again is at last accepted.  Nothing is assumed of journald, of
\* file growth, of rejections, nor that anyone stops a reader or the agent.
Fairness ==
    /\ \A r \in Readers : WF_vars(Wait(r)) /\ WF_vars(ParserReceive(r)) /\ SF_vars(ParserEmit(r))
    /\ WF_vars(Enqueue) /\ WF_vars(TakeBatch) /\ WF_vars(Retry)
    /\ SF_vars(ExportAccepted)
    /\ WF_vars(EndGrace) /\ WF_vars(Drain) /\ WF_vars(StopExporter)

FairSpec == Spec /\ Fairness
-----------------------------------------------------------------------------
(* Safety.                                                                 *)

\* The accounting of done(n): until the exporter is stopped, the pending
\* records are exactly the batch in Export, then the queue, then the record
\* being emitted, in that order, so the n oldest are the batch's n records.
PendingIsExportOrder ==
    ~stopC => pending = batch \o queue \o emitting

\* The pending records of file r, and the last of its lines handed on.
RecordsOf(r) == {i \in 1..Len(pending) : pending[i].src = r}
LastPassed(r) == IF reader[r] = "send" THEN line[r] - 1 ELSE line[r]

\* The offsets of a file's records increase from the acknowledged one through
\* pending, the message being collected and the line being sent: Source.ack
\* of the oldest record never skips a younger one.
OffsetsIncrease ==
    \A r \in Readers :
      /\ acked[r] <= LastPassed(r)
      /\ \A i, j \in RecordsOf(r) : i < j => pending[i].offset < pending[j].offset
      /\ \A i \in RecordsOf(r) : acked[r] < pending[i].offset /\ pending[i].offset <= LastPassed(r)
      /\ held[r] # NoRecord =>
           /\ held[r][1].src = r
           /\ acked[r] < held[r][1].offset /\ held[r][1].offset <= LastPassed(r)
           /\ \A i \in RecordsOf(r) : pending[i].offset < held[r][1].offset

\* An acknowledged offset is the offset of a record the collector answered.
AcksAreSettled ==
    \A r \in Readers : acked[r] > 0 => \E rec \in settled : rec.src = r /\ rec.offset = acked[r]

\* "a file's position is saved only up to the lines whose records the
\* collector has accepted" (delivery.go:21): until the exporter is stopped,
\* the acknowledged offset of a file is that of a settled record, and none of
\* the file's records up to it is outstanding, across retries, interleaved
\* readers and messages of several lines.
AckedOnlySettled ==
    ~stopC =>
      /\ AcksAreSettled
      /\ \A r \in Readers : \A i \in RecordsOf(r) : pending[i].offset > acked[r]

\* "stopping: the records stay pending, their lines unacknowledged"
\* (delivery.go:235): the same, once the exporter is stopped too.
AckedOnlySettledAlways == AcksAreSettled

\* Emitting never blocks: the overshoot of the readers that passed wait
\* before the limit was reached never fills the queue (delivery.go:34-36).
EmitNeverBlocks ==
    emitting # NoRecord => Len(queue) < queueSize

\* "the overshoot (a line per reader plus a message per parser)"
\* (delivery.go:34): records pending, and those the readers past wait and
\* the parsers are about to add, stay within two per reader of the limit.
OvershootBounded ==
    Len(pending) + Cardinality({r \in Readers : reader[r] \in {"read", "send"}})
                 + Cardinality({r \in Readers : held[r] # NoRecord})
        <= maxPendingUnpaused + 2 * Cardinality(Readers)

-----------------------------------------------------------------------------
(* Records are settled in the order they are emitted.                      *)
Ordered == INSTANCE OrderedDelivery WITH outstanding <- pending, abandoned <- stopC
SettlesInOrder == Ordered!Spec
-----------------------------------------------------------------------------
(* Liveness.                                                               *)

\* A reader held back by a full queue reads on once records are delivered,
\* unless it or the agent is stopped: no wakeup is lost.
ReaderResumes ==
    \A r \in Readers : reader[r] = "select" ~> (reader[r] # "select" \/ stopping)

\* Every message the parser holds or emits is settled, unless its reader or
\* the exporter is stopped first.
MessagesSettle ==
    \A r \in Readers : held[r] # NoRecord ~>
        \/ reader[r] = "stopped" \/ stopC
        \/ acked[r] = line[r]
=============================================================================
