------------------------- MODULE LogDeliveryProofs -------------------------
(***************************************************************************)
(* Proofs about LogDelivery, for any number of readers, any limits and any *)
(* batch size.                                                             *)
(***************************************************************************)
EXTENDS LogDelivery, FiniteSetTheorems, SequenceTheorems, WellFoundedInduction, TLAPS

\* A nonempty set of numbers up to k has a largest element.
LEMMA LargestExists ==
    ASSUME NEW k \in Nat, NEW S, S \subseteq 0..k, S # {}
    PROVE  \E o \in S : \A p \in S : p <= o
PROOF
  <1> DEFINE T == {k - o : o \in S}
  <1>1. T \subseteq Nat /\ T # {}
    <2>1. \A o \in S : k - o \in Nat
      OBVIOUS
    <2>2. PICK o \in S : TRUE
      OBVIOUS
    <2>3. k - o \in T
      BY <2>2
    <2> QED  BY <2>1, <2>3
  <1>2. \E x \in T : \A y \in T : ~(<<y, x>> \in OpToRel(<, Nat))
    BY <1>1, NatLessThanWellFounded, WFMin
  <1>3. PICK x \in T : \A y \in T : ~(y < x)
    <2>1. PICK x \in T : \A y \in T : ~(<<y, x>> \in OpToRel(<, Nat))
      BY <1>2
    <2>2. \A y \in T : y < x => <<y, x>> \in OpToRel(<, Nat)
      BY <1>1 DEF OpToRel
    <2> QED  BY <2>1, <2>2
  <1>4. PICK o \in S : x = k - o
    BY <1>3
  <1>5. \A p \in S : ~(k - p < k - o)
    BY <1>3, <1>4
  <1>6. \A p \in S : p <= o
    BY <1>5
  <1> QED  BY <1>6
-----------------------------------------------------------------------------
(* What the operators do.                                                  *)

\* A record waiting alone is a sequence of records.
LEMMA OptIsSeq ==
    ASSUME NEW x \in Opt(Record)
    PROVE  x \in Seq(Record) /\ (x # NoRecord => Len(x) = 1 /\ x[1] \in Record /\ x = <<x[1]>>)
PROOF
  <1>1. CASE x = NoRecord
    BY <1>1 DEF NoRecord
  <1>2. CASE x # NoRecord
    <2>1. PICK y \in Record : x = <<y>>
      BY <1>2 DEF Opt
    <2>2. Len(x) = 1 /\ x[1] = y
      BY <2>1
    <2>3. x \in Seq(Record)
      BY <2>1
    <2> QED  BY <2>1, <2>2, <2>3
  <1> QED  BY <1>1, <1>2

\* Source.ack of a batch: each file keeps the largest offset it was given.
LEMMA AckAllLargest ==
    ASSUME TypeOK, NEW recs \in Seq(Record), AckAll(recs)
    PROVE  /\ acked' \in [Readers -> 0..MaxLines]
           /\ \A r \in Readers :
                /\ acked'[r] \in AckedBy(recs, r) \union {acked[r]}
                /\ \A o \in AckedBy(recs, r) \union {acked[r]} : o <= acked'[r]
PROOF
  <1> DEFINE offs(r) == AckedBy(recs, r) \union {acked[r]}
             big(r) == CHOOSE o \in offs(r) : \A p \in offs(r) : p <= o
  <1>1. acked' = [r \in Readers |-> big(r)]
    BY DEF AckAll
  <1>2. ASSUME NEW r \in Readers
        PROVE  big(r) \in offs(r) /\ (\A p \in offs(r) : p <= big(r)) /\ big(r) \in 0..MaxLines
    <2>1. offs(r) \subseteq 0..MaxLines
      <3>1. \A i \in 1..Len(recs) : recs[i] \in Record
        OBVIOUS
      <3>2. \A i \in 1..Len(recs) : recs[i].offset \in 0..MaxLines
        BY <3>1 DEF Record
      <3>3. AckedBy(recs, r) \subseteq 0..MaxLines
        BY <3>2 DEF AckedBy
      <3>4. acked[r] \in 0..MaxLines
        BY DEF TypeOK
      <3> QED  BY <3>3, <3>4
    <2>2. offs(r) # {}
      OBVIOUS
    <2>3. \E o \in offs(r) : \A p \in offs(r) : p <= o
      BY <2>1, <2>2, LargestExists, LimitsAssumption
    <2> HIDE DEF offs
    <2>4. big(r) \in offs(r) /\ \A p \in offs(r) : p <= big(r)
      BY <2>3
    <2> QED  BY <2>1, <2>4
  <1> HIDE DEF big
  <1> QED  BY <1>1, <1>2

\* done(n) keeps a suffix of pending and acknowledges the prefix before it.
LEMMA DoneEffect ==
    ASSUME TypeOK, NEW count \in Nat, Done(count)
    PROVE  \E n \in 0..Len(pending) :
             /\ count <= Len(pending) => n = count
             /\ pending' = SubSeq(pending, n + 1, Len(pending))
             /\ pending' \in Seq(Record)
             /\ Len(pending') = Len(pending) - n
             /\ \A i \in 1..Len(pending') : pending'[i] = pending[i + n]
             /\ SubSeq(pending, 1, n) \in Seq(Record)
             /\ Len(SubSeq(pending, 1, n)) = n
             /\ \A i \in 1..n : SubSeq(pending, 1, n)[i] = pending[i]
             /\ AckAll(SubSeq(pending, 1, n))
PROOF
  <1> DEFINE n == IF count <= Len(pending) THEN count ELSE Len(pending)
  <1>1. n \in 0..Len(pending) /\ (count <= Len(pending) => n = count) /\ Len(pending) \in Nat
    BY DEF TypeOK
  <1>2. pending' = SubSeq(pending, n + 1, Len(pending)) /\ AckAll(SubSeq(pending, 1, n))
    BY DEF Done
  <1> HIDE DEF n
  <1>3. \A i \in 1..Len(pending) : pending[i] \in Record
    BY DEF TypeOK
  <1>4. /\ pending' \in Seq(Record)
        /\ Len(pending') = Len(pending) - n
        /\ \A i \in 1..Len(pending') : pending'[i] = pending[i + n]
    BY <1>1, <1>2, <1>3, SubSeqProperties
  <1>5. /\ SubSeq(pending, 1, n) \in Seq(Record)
        /\ Len(SubSeq(pending, 1, n)) = n
        /\ \A i \in 1..n : SubSeq(pending, 1, n)[i] = pending[i]
    BY <1>1, <1>3, SubSeqProperties
  <1> QED  BY <1>1, <1>2, <1>4, <1>5
-----------------------------------------------------------------------------
(* Type correctness.                                                       *)

LEMMA InitType == Init => TypeOK
PROOF
  <1> SUFFICES ASSUME Init PROVE TypeOK
    OBVIOUS
  <1>1. NoRecord \in Opt(Record) /\ <<>> \in Seq(Record) /\ 0 \in 0..MaxLines
    BY LimitsAssumption DEF Opt
  <1> QED  BY <1>1 DEF Init, TypeOK

\* A batch of records is a set of records.
LEMMA ElemsType ==
    ASSUME NEW s \in Seq(Record)
    PROVE  Elems(s) \subseteq Record
BY DEF Elems

LEMMA DoneType ==
    ASSUME TypeOK, Done(Len(batch))
    PROVE  /\ pending' \in Seq(Record)
           /\ acked' \in [Readers -> 0..MaxLines]
           /\ reader' \in [Readers -> {"wait", "select", "read", "send", "stopped"}]
           /\ shutdown' \in {"running", "grace", "drain", "select", "save", "stopped"}
PROOF
  <1>1. Len(batch) \in Nat
    BY DEF TypeOK
  <1>2. pending' \in Seq(Record)
    BY <1>1, DoneEffect
  <1>3. acked' \in [Readers -> 0..MaxLines]
    BY <1>1, DoneEffect, AckAllLargest
  <1>4. reader' \in [Readers -> {"wait", "select", "read", "send", "stopped"}]
    BY DEF Done, WakeReaders, TypeOK
  <1>5. shutdown' \in {"running", "grace", "drain", "select", "save", "stopped"}
    BY DEF Done, Woken, TypeOK
  <1> QED  BY <1>2, <1>3, <1>4, <1>5

\* One step per action of Next.
LEMMA NextType == TypeOK /\ [Next]_vars => TypeOK'
PROOF
  <1> SUFFICES ASSUME TypeOK, [Next]_vars PROVE TypeOK'
    OBVIOUS
  <1> USE DEF readerVars, queueVars, exportVars, stopVars
  <1>none. NoRecord \in Opt(Record) /\ <<>> \in Seq(Record)
    BY DEF Opt
  <1>some. \A rec \in Record : <<rec>> \in Opt(Record) /\ Append(pending, rec) \in Seq(Record)
    BY DEF Opt, TypeOK
  <1>1. ASSUME NEW r \in Readers, Wait(r) PROVE TypeOK'
    BY <1>1 DEF Wait, TypeOK
  <1>2. ASSUME NEW r \in Readers, ReadLine(r) PROVE TypeOK'
    <2>1. line' \in [Readers -> 0..MaxLines]
      <3>1. CASE UNCHANGED line
        BY <3>1 DEF TypeOK
      <3>2. CASE line[r] < MaxLines /\ line' = [line EXCEPT ![r] = @ + 1]
        <4>1. line[r] + 1 \in 0..MaxLines
          BY <3>2, LimitsAssumption DEF TypeOK
        <4> QED  BY <3>2, <4>1 DEF TypeOK
      <3> QED  BY <1>2, <3>1, <3>2 DEF ReadLine
    <2>2. reader' \in [Readers -> {"wait", "select", "read", "send", "stopped"}]
      BY <1>2 DEF ReadLine, TypeOK
    <2> QED  BY <1>2, <2>1, <2>2 DEF ReadLine, TypeOK
  <1>3. ASSUME NEW r \in Readers, ParserReceive(r) PROVE TypeOK'
    <2>1. PICK b \in Sizes :
            held' = [held EXCEPT ![r] = <<[src |-> r, offset |-> line[r], bytes |-> b]>>]
      BY <1>3 DEF ParserReceive
    <2>2. [src |-> r, offset |-> line[r], bytes |-> b] \in Record
      BY DEF Record, TypeOK
    <2>3. held' \in [Readers -> Opt(Record)]
      BY <2>1, <2>2, <1>some DEF TypeOK
    <2> QED  BY <1>3, <2>3 DEF ParserReceive, TypeOK
  <1>4. ASSUME NEW r \in Readers, ParserEmit(r) PROVE TypeOK'
    <2>1. held[r][1] \in Record
      BY <1>4, OptIsSeq DEF ParserEmit, TypeOK
    <2>2. pending' \in Seq(Record) /\ emitting' \in Opt(Record)
      BY <1>4, <2>1, <1>some DEF ParserEmit, AppendPending
    <2>3. held' \in [Readers -> Opt(Record)]
      BY <1>4, <1>none DEF ParserEmit, TypeOK
    <2> QED  BY <1>4, <2>2, <2>3 DEF ParserEmit, AppendPending, TypeOK
  <1>5. ASSUME NEW r \in Readers, StopReader(r) PROVE TypeOK'
    BY <1>5, <1>none DEF StopReader, TypeOK
  <1>6. ASSUME JournaldEmit PROVE TypeOK'
    <2>1. PICK b \in Sizes : AppendPending([src |-> NoFile, offset |-> 0, bytes |-> b])
      BY <1>6 DEF JournaldEmit
    <2>2. [src |-> NoFile, offset |-> 0, bytes |-> b] \in Record
      BY LimitsAssumption DEF Record
    <2>3. pending' \in Seq(Record) /\ emitting' \in Opt(Record)
      BY <2>1, <2>2, <1>some DEF AppendPending
    <2> QED  BY <1>6, <2>3 DEF JournaldEmit, TypeOK
  <1>7. ASSUME Enqueue PROVE TypeOK'
    <2>1. queue' \in Seq(Record)
      BY <1>7, OptIsSeq, ConcatProperties DEF Enqueue, TypeOK
    <2> QED  BY <1>7, <2>1, <1>none DEF Enqueue, TypeOK
  <1>8. ASSUME TakeBatch PROVE TypeOK'
    <2>1. PICK n \in 1..Len(queue) :
            batch' = SubSeq(queue, 1, n) /\ queue' = SubSeq(queue, n + 1, Len(queue))
      BY <1>8 DEF TakeBatch
    <2>2. \A i \in 1..Len(queue) : queue[i] \in Record
      BY DEF TypeOK
    <2>3. batch' \in Seq(Record) /\ queue' \in Seq(Record)
      BY <2>1, <2>2, SubSeqProperties DEF TypeOK
    <2> QED  BY <1>8, <2>3 DEF TakeBatch, TypeOK
  <1>9. ASSUME ExportAccepted PROVE TypeOK'
    <2>1. Elems(batch) \subseteq Record
      BY ElemsType DEF TypeOK
    <2> QED  BY <1>9, <2>1, DoneType, <1>none DEF ExportAccepted, EndExport, TypeOK
  <1>10. ASSUME ExportRejected PROVE TypeOK'
    <2>1. Elems(batch) \subseteq Record
      BY ElemsType DEF TypeOK
    <2> QED  BY <1>10, <2>1, DoneType, <1>none DEF ExportRejected, EndExport, TypeOK
  <1>11. ASSUME ExportTransient PROVE TypeOK'
    <2>1. Elems(batch) \subseteq Record
      BY ElemsType DEF TypeOK
    <2> QED  BY <1>11, <2>1 DEF ExportTransient, TypeOK
  <1>12. ASSUME Retry \/ ExportStopped PROVE TypeOK'
    BY <1>12, <1>none DEF Retry, ExportStopped, EndExport, TypeOK
  <1>13. ASSUME StopReading \/ EndGrace \/ Drain \/ DrainTimeout \/ StopExporter PROVE TypeOK'
    BY <1>13 DEF StopReading, EndGrace, Drain, DrainTimeout, StopExporter, WakeReaders, TypeOK
  <1>14. ASSUME Exited \/ UNCHANGED vars PROVE TypeOK'
    BY <1>14 DEF Exited, vars, TypeOK
  <1> QED
    BY <1>1, <1>2, <1>3, <1>4, <1>5, <1>6, <1>7, <1>8, <1>9, <1>10, <1>11, <1>12, <1>13, <1>14
    DEF Next

\* The variables keep their types.
THEOREM TypeCorrect == Spec => []TypeOK
BY InitType, NextType, PTL DEF Spec
-----------------------------------------------------------------------------
(* The accounting: pending is the export order.                            *)

\* The two halves of a concatenation.
LEMMA ConcatHalves ==
    ASSUME NEW S, NEW s \in Seq(S), NEW t \in Seq(S)
    PROVE  /\ SubSeq(s \o t, 1, Len(s)) = s
           /\ SubSeq(s \o t, Len(s) + 1, Len(s \o t)) = t
PROOF
  <1> DEFINE u == s \o t
  <1>1. u \in Seq(S) /\ Len(u) = Len(s) + Len(t) /\ Len(s) \in Nat /\ Len(t) \in Nat
    BY ConcatProperties
  <1>2. \A i \in 1..Len(u) : u[i] \in S
    BY <1>1
  <1>a. \A i \in 1..Len(s) : i \in 1..Len(u) /\ u[i] = s[i]
    BY <1>1, ConcatProperties
  <1>b. \A i \in 1..Len(t) : Len(s) + i \in 1..Len(u) /\ u[Len(s) + i] = t[i]
    <2>1. ASSUME NEW i \in 1..Len(t) PROVE u[Len(s) + i] = t[i]
      <3> DEFINE k == Len(s) + i
      <3>1. k \in 1..(Len(s) + Len(t)) /\ ~(k <= Len(s)) /\ k - Len(s) = i
        BY <1>1
      <3>2. u[k] = IF k <= Len(s) THEN s[k] ELSE t[k - Len(s)]
        BY <3>1, ConcatProperties
      <3> QED  BY <3>1, <3>2
    <2> QED  BY <1>1, <2>1
  <1> HIDE DEF u
  <1>3. /\ SubSeq(u, 1, Len(s)) \in Seq(S)
        /\ Len(SubSeq(u, 1, Len(s))) = Len(s)
        /\ \A i \in 1..Len(s) : SubSeq(u, 1, Len(s))[i] = s[i]
    <2> DEFINE m == Len(s)
    <2>1. m \in Nat /\ \A i \in 1..m : u[i] \in S
      BY <1>1, <1>2, <1>a
    <2> HIDE DEF m
    <2>2. /\ SubSeq(u, 1, m) \in Seq(S)
          /\ Len(SubSeq(u, 1, m)) = IF 1 <= m THEN m - 1 + 1 ELSE 0
          /\ \A i \in 1..(m - 1 + 1) : SubSeq(u, 1, m)[i] = u[1 + i - 1]
      BY <2>1, SubSeqProperties
    <2>3. Len(SubSeq(u, 1, m)) = m /\ \A i \in 1..m : SubSeq(u, 1, m)[i] = u[i]
      BY <2>1, <2>2
    <2> QED  BY <1>a, <2>2, <2>3 DEF m
  <1>4. /\ SubSeq(u, Len(s) + 1, Len(u)) \in Seq(S)
        /\ Len(SubSeq(u, Len(s) + 1, Len(u))) = Len(t)
        /\ \A i \in 1..Len(t) : SubSeq(u, Len(s) + 1, Len(u))[i] = t[i]
    <2> DEFINE m == Len(s) + 1
               n == Len(u)
    <2>1. m \in Int /\ n \in Int /\ n - m + 1 = Len(t) /\ (IF m <= n THEN n - m + 1 ELSE 0) = Len(t)
      BY <1>1
    <2>2. \A i \in m..n : u[i] \in S
      BY <1>1, <1>2
    <2>3. \A i \in 1..Len(t) : m + i - 1 = Len(s) + i
      BY <1>1
    <2> HIDE DEF m, n
    <2>4. /\ SubSeq(u, m, n) \in Seq(S)
          /\ Len(SubSeq(u, m, n)) = IF m <= n THEN n - m + 1 ELSE 0
          /\ \A i \in 1..(n - m + 1) : SubSeq(u, m, n)[i] = u[m + i - 1]
      BY <2>1, <2>2, SubSeqProperties
    <2>5. \A i \in 1..Len(t) : SubSeq(u, m, n)[i] = t[i]
      BY <2>1, <2>3, <2>4, <1>b
    <2> QED  BY <2>1, <2>4, <2>5 DEF m, n
  <1>5. SubSeq(u, 1, Len(s)) = s
    BY <1>3, SeqEqual
  <1>6. SubSeq(u, Len(s) + 1, Len(u)) = t
    BY <1>4, SeqEqual
  <1> QED  BY <1>5, <1>6 DEF u

\* The inductive invariant: an idle exporter has no batch.
Accounting ==
    /\ TypeOK
    /\ attempt = "idle" => batch = <<>>
    /\ PendingIsExportOrder

\* A finished batch is the oldest part of pending.
LEMMA BatchIsOldest ==
    ASSUME Accounting, ~stopC
    PROVE  /\ pending = batch \o (queue \o emitting)
           /\ queue \o emitting \in Seq(Record)
           /\ Len(batch) \in 0..Len(pending)
           /\ SubSeq(pending, 1, Len(batch)) = batch
           /\ SubSeq(pending, Len(batch) + 1, Len(pending)) = queue \o emitting
PROOF
  <1>1. batch \in Seq(Record) /\ queue \in Seq(Record) /\ emitting \in Seq(Record)
    BY OptIsSeq DEF Accounting, TypeOK
  <1>2. pending = batch \o (queue \o emitting) /\ queue \o emitting \in Seq(Record)
    <2>1. pending = (batch \o queue) \o emitting
      BY DEF Accounting, PendingIsExportOrder
    <2>2. (batch \o queue) \o emitting = batch \o (queue \o emitting)
      BY <1>1, ConcatAssociative
    <2>3. queue \o emitting \in Seq(Record)
      BY <1>1, ConcatProperties
    <2> QED  BY <2>1, <2>2, <2>3
  <1>3. Len(batch) \in 0..Len(pending)
    BY <1>1, <1>2, ConcatProperties
  <1> QED  BY <1>1, <1>2, <1>3, ConcatHalves

LEMMA InitAccounting == Init => Accounting
PROOF
  <1> SUFFICES ASSUME Init PROVE Accounting
    OBVIOUS
  <1>1. <<>> \o <<>> \o <<>> = <<>>
    OBVIOUS
  <1> QED  BY <1>1, InitType DEF Init, Accounting, PendingIsExportOrder, NoRecord

\* done(len(batch)) removes the batch from pending, and nothing else.
LEMMA DoneAccounting ==
    ASSUME Accounting, Done(Len(batch)), EndExport, UNCHANGED <<queue, emitting, stopC>>
    PROVE  /\ attempt' = "idle" /\ batch' = <<>>
           /\ ~stopC' => pending' = batch' \o queue' \o emitting'
PROOF
  <1>1. attempt' = "idle" /\ batch' = <<>>
    BY DEF EndExport
  <1>2. ASSUME ~stopC PROVE pending' = queue \o emitting
    BY <1>2, BatchIsOldest DEF Done
  <1>3. ASSUME ~stopC PROVE <<>> \o queue \o emitting = queue \o emitting
    <2>1. queue \in Seq(Record)
      BY DEF Accounting, TypeOK
    <2> QED  BY <2>1, ConcatEmptySeq
  <1> QED  BY <1>1, <1>2, <1>3

LEMMA NextAccounting == Accounting /\ [Next]_vars => Accounting'
PROOF
  <1> SUFFICES ASSUME Accounting, [Next]_vars
               PROVE  (attempt' = "idle" => batch' = <<>>) /\ PendingIsExportOrder'
    BY NextType DEF Accounting
  <1> USE DEF readerVars, queueVars, exportVars, stopVars, NoRecord
  <1>seq. batch \in Seq(Record) /\ queue \in Seq(Record) /\ emitting \in Seq(Record)
    BY OptIsSeq DEF Accounting, TypeOK
  \* Actions that leave the records and the exporter alone.
  <1>same. ASSUME UNCHANGED <<pending, queue, emitting, batch, stopC>>, attempt' = "idle" => attempt = "idle"
           PROVE  (attempt' = "idle" => batch' = <<>>) /\ PendingIsExportOrder'
    BY <1>same DEF Accounting, PendingIsExportOrder
  <1>append. ASSUME NEW rec \in Record, AppendPending(rec), UNCHANGED <<queue, batch, attempt, stopC>>
             PROVE  (attempt' = "idle" => batch' = <<>>) /\ PendingIsExportOrder'
    <2>1. emitting = <<>> /\ pending' = Append(pending, rec) /\ emitting' = <<rec>>
      BY <1>append DEF AppendPending
    <2>2. batch \o queue \in Seq(Record)
      BY <1>seq, ConcatProperties
    <2>3. ~stopC => pending = batch \o queue
      BY <2>1, <2>2, ConcatEmptySeq DEF Accounting, PendingIsExportOrder
    <2>4. ~stopC => pending' = batch \o queue \o <<rec>>
      BY <2>1, <2>2, <2>3, AppendIsConcat
    <2> QED  BY <1>append, <2>1, <2>4 DEF Accounting, PendingIsExportOrder
  <1>1. ASSUME NEW r \in Readers, Wait(r) \/ ReadLine(r) \/ ParserReceive(r) \/ StopReader(r)
        PROVE  (attempt' = "idle" => batch' = <<>>) /\ PendingIsExportOrder'
    BY <1>1, <1>same DEF Wait, ReadLine, ParserReceive, StopReader
  <1>2. ASSUME NEW r \in Readers, ParserEmit(r)
        PROVE  (attempt' = "idle" => batch' = <<>>) /\ PendingIsExportOrder'
    <2>1. held[r][1] \in Record
      BY <1>2, OptIsSeq DEF ParserEmit, Accounting, TypeOK
    <2> QED  BY <1>2, <2>1, <1>append DEF ParserEmit
  <1>3. ASSUME JournaldEmit
        PROVE  (attempt' = "idle" => batch' = <<>>) /\ PendingIsExportOrder'
    <2>1. PICK b \in Sizes : AppendPending([src |-> NoFile, offset |-> 0, bytes |-> b])
      BY <1>3 DEF JournaldEmit
    <2>2. [src |-> NoFile, offset |-> 0, bytes |-> b] \in Record
      BY LimitsAssumption DEF Record
    <2> QED  BY <1>3, <2>1, <2>2, <1>append DEF JournaldEmit
  <1>4. ASSUME Enqueue
        PROVE  (attempt' = "idle" => batch' = <<>>) /\ PendingIsExportOrder'
    <2>1. queue' = queue \o emitting /\ emitting' = <<>> /\ UNCHANGED <<pending, batch, attempt, stopC>>
      BY <1>4 DEF Enqueue
    <2>2. batch \o (queue \o emitting) \in Seq(Record)
      BY <1>seq, ConcatProperties
    <2>3. batch \o queue \o emitting = batch \o (queue \o emitting)
      BY <1>seq, ConcatAssociative
    <2>4. (batch \o (queue \o emitting)) \o <<>> = batch \o (queue \o emitting)
      BY <2>2, ConcatEmptySeq
    <2>5. batch \o queue' \o emitting' = batch \o queue \o emitting
      BY <2>1, <2>3, <2>4
    <2> QED  BY <2>1, <2>5 DEF Accounting, PendingIsExportOrder
  <1>5. ASSUME TakeBatch
        PROVE  (attempt' = "idle" => batch' = <<>>) /\ PendingIsExportOrder'
    <2>1. PICK n \in 1..Len(queue) :
            batch' = SubSeq(queue, 1, n) /\ queue' = SubSeq(queue, n + 1, Len(queue))
      BY <1>5 DEF TakeBatch
    <2>2. batch' \o queue' = queue
      BY <1>seq, <2>1, ConcatAdjacentSubSeq, SubSeqFull
    <2>3. batch = <<>> /\ batch \o queue = queue
      BY <1>5, <1>seq, ConcatEmptySeq DEF TakeBatch, Accounting
    <2> QED  BY <1>5, <2>2, <2>3 DEF TakeBatch, Accounting, PendingIsExportOrder
  <1>6. ASSUME ExportAccepted \/ ExportRejected
        PROVE  (attempt' = "idle" => batch' = <<>>) /\ PendingIsExportOrder'
    BY <1>6, DoneAccounting DEF ExportAccepted, ExportRejected, PendingIsExportOrder
  <1>7. ASSUME ExportTransient \/ Retry
        PROVE  (attempt' = "idle" => batch' = <<>>) /\ PendingIsExportOrder'
    BY <1>7, <1>same DEF ExportTransient, Retry
  <1>8. ASSUME ExportStopped \/ StopExporter
        PROVE  (attempt' = "idle" => batch' = <<>>) /\ PendingIsExportOrder'
    BY <1>8 DEF ExportStopped, StopExporter, EndExport, Accounting, PendingIsExportOrder
  <1>9. ASSUME StopReading \/ EndGrace \/ Drain \/ DrainTimeout \/ Exited \/ UNCHANGED vars
        PROVE  (attempt' = "idle" => batch' = <<>>) /\ PendingIsExportOrder'
    BY <1>9, <1>same DEF StopReading, EndGrace, Drain, DrainTimeout, Exited, vars
  <1> QED  BY <1>1, <1>2, <1>3, <1>4, <1>5, <1>6, <1>7, <1>8, <1>9 DEF Next

\* delivery.go relies on the batch processor exporting records in the order
\* they were emitted.  Under it, and for any readers, limits and batches, the
\* n oldest pending records are the n records of the batch in Export, until
\* the exporter is stopped.
THEOREM PendingOrder == Spec => []PendingIsExportOrder
PROOF
  <1>1. Accounting => PendingIsExportOrder
    BY DEF Accounting
  <1> QED  BY <1>1, InitAccounting, NextAccounting, PTL DEF Spec
-----------------------------------------------------------------------------
(* Acknowledged means settled.                                             *)

\* An action on one reader that leaves pending and acked alone, hands on no
\* line that was not read, and drops or keeps what the parser holds.
LEMMA ReaderStepOrder ==
    ASSUME TypeOK, TypeOK', OffsetsIncrease, UNCHANGED <<pending, acked>>,
           NEW r \in Readers,
           \A q \in Readers \ {r} : reader'[q] = reader[q] /\ line'[q] = line[q] /\ held'[q] = held[q],
           LastPassed(r) <= LastPassed(r)',
           held'[r] = held[r] \/ held'[r] = NoRecord
    PROVE  OffsetsIncrease'
PROOF
  <1> SUFFICES ASSUME NEW q \in Readers
               PROVE  /\ acked'[q] <= LastPassed(q)'
                      /\ \A i, j \in RecordsOf(q)' : i < j => pending'[i].offset < pending'[j].offset
                      /\ \A i \in RecordsOf(q)' : acked'[q] < pending'[i].offset /\ pending'[i].offset <= LastPassed(q)'
                      /\ held'[q] # NoRecord =>
                           /\ held'[q][1].src = q
                           /\ acked'[q] < held'[q][1].offset /\ held'[q][1].offset <= LastPassed(q)'
                           /\ \A i \in RecordsOf(q)' : pending'[i].offset < held'[q][1].offset
    BY DEF OffsetsIncrease
  <1>1. RecordsOf(q)' = RecordsOf(q) /\ pending' = pending /\ acked' = acked
    BY DEF RecordsOf
  <1>2. LastPassed(q) <= LastPassed(q)' /\ LastPassed(q) \in Int /\ LastPassed(q)' \in Int
    BY SMTT(30) DEF LastPassed, TypeOK
  <1>3. held'[q] = held[q] \/ held'[q] = NoRecord
    OBVIOUS
  <1>4. \A i \in RecordsOf(q) : pending[i].offset \in Int
    <2>1. \A i \in 1..Len(pending) : pending[i] \in Record
      BY DEF TypeOK
    <2> QED  BY <2>1 DEF RecordsOf, Record
  <1>5. held[q] # NoRecord => held[q][1].offset \in Int
    <2>1. held[q] # NoRecord => held[q][1] \in Record
      BY OptIsSeq DEF TypeOK
    <2> QED  BY <2>1 DEF Record
  <1>6. acked[q] \in Int
    BY DEF TypeOK
  <1> QED  BY <1>1, <1>2, <1>3, <1>4, <1>5, <1>6 DEF OffsetsIncrease

\* The offsets OffsetsIncrease compares are integers.
LEMMA OffsetTypes ==
    ASSUME TypeOK
    PROVE  \A q \in Readers :
             /\ acked[q] \in 0..MaxLines /\ line[q] \in 0..MaxLines
             /\ LastPassed(q) \in Int /\ LastPassed(q) <= line[q]
             /\ held[q] # NoRecord => held[q][1] \in Record /\ held[q][1].offset \in Int
             /\ \A i \in 1..Len(pending) : pending[i] \in Record /\ pending[i].offset \in Int
PROOF
  <1> SUFFICES ASSUME NEW q \in Readers
               PROVE  /\ acked[q] \in 0..MaxLines /\ line[q] \in 0..MaxLines
                      /\ LastPassed(q) \in Int /\ LastPassed(q) <= line[q]
                      /\ held[q] # NoRecord => held[q][1] \in Record /\ held[q][1].offset \in Int
                      /\ \A i \in 1..Len(pending) : pending[i] \in Record /\ pending[i].offset \in Int
    OBVIOUS
  <1>1. acked[q] \in 0..MaxLines /\ line[q] \in 0..MaxLines
    BY DEF TypeOK
  <1>2. LastPassed(q) \in Int /\ LastPassed(q) <= line[q]
    BY <1>1 DEF LastPassed
  <1>3. held[q] # NoRecord => held[q][1] \in Record
    BY OptIsSeq DEF TypeOK
  <1>4. \A i \in 1..Len(pending) : pending[i] \in Record
    BY DEF TypeOK
  <1>5. \A rec \in Record : rec.offset \in Int
    BY DEF Record
  <1> QED  BY <1>1, <1>2, <1>3, <1>4, <1>5

\* Emitting the held message keeps the order: it is younger than the pending
\* ones of its file.  A journald record is of no file.
LEMMA EmitOrder ==
    ASSUME TypeOK, OffsetsIncrease, NEW rec \in Record, AppendPending(rec),
           UNCHANGED <<reader, line, acked>>,
           \/ rec.src = NoFile /\ held' = held
           \/ \E r \in Readers : /\ held[r] # NoRecord /\ rec = held[r][1]
                                 /\ held' = [held EXCEPT ![r] = NoRecord]
    PROVE  OffsetsIncrease'
PROOF
  <1> SUFFICES ASSUME NEW q \in Readers
               PROVE  /\ acked'[q] <= LastPassed(q)'
                      /\ \A i, j \in RecordsOf(q)' : i < j => pending'[i].offset < pending'[j].offset
                      /\ \A i \in RecordsOf(q)' : acked'[q] < pending'[i].offset /\ pending'[i].offset <= LastPassed(q)'
                      /\ held'[q] # NoRecord =>
                           /\ held'[q][1].src = q
                           /\ acked'[q] < held'[q][1].offset /\ held'[q][1].offset <= LastPassed(q)'
                           /\ \A i \in RecordsOf(q)' : pending'[i].offset < held'[q][1].offset
    BY DEF OffsetsIncrease
  <1> DEFINE n == Len(pending)
  <1>1. /\ n \in Nat /\ Len(pending') = n + 1
        /\ \A i \in 1..n : pending'[i] = pending[i]
        /\ pending'[n + 1] = rec
    BY AppendProperties DEF AppendPending, TypeOK
  <1> HIDE DEF n
  <1>2. LastPassed(q)' = LastPassed(q) /\ acked' = acked
    BY DEF LastPassed
  <1>3. CASE rec.src # q
    <2>1. RecordsOf(q)' = RecordsOf(q) /\ \A i \in RecordsOf(q) : pending'[i] = pending[i]
      BY <1>1, <1>3 DEF RecordsOf, n
    <2>2. held'[q] = held[q]
      <3>1. ASSUME NEW r \in Readers, held[r] # NoRecord, rec = held[r][1] PROVE r # q
        BY <1>3, <3>1 DEF OffsetsIncrease
      <3> QED  BY <3>1 DEF TypeOK
    <2> QED  BY <1>2, <2>1, <2>2 DEF OffsetsIncrease
  <1>4. CASE rec.src = q
    <2>1. held[q] # NoRecord /\ rec = held[q][1] /\ held'[q] = NoRecord
      <3>1. rec.src # NoFile
        BY <1>4, NoFileAssumption
      <3>2. PICK r \in Readers : held[r] # NoRecord /\ rec = held[r][1] /\ held' = [held EXCEPT ![r] = NoRecord]
        BY <3>1
      <3>3. r = q
        BY <1>4, <3>2 DEF OffsetsIncrease
      <3> QED  BY <3>2, <3>3 DEF TypeOK
    <2>2. RecordsOf(q)' = RecordsOf(q) \union {n + 1} /\ RecordsOf(q) \subseteq 1..n
      BY <1>1, <1>4 DEF RecordsOf, n
    <2>3. \A i \in RecordsOf(q) : pending'[i] = pending[i] /\ pending[i].offset < rec.offset
      BY <1>1, <2>1, <2>2 DEF OffsetsIncrease
    <2>4. acked[q] < rec.offset /\ rec.offset <= LastPassed(q)
      BY <2>1 DEF OffsetsIncrease
    <2>5. \A i, j \in RecordsOf(q)' : i < j => pending'[i].offset < pending'[j].offset
      <3> SUFFICES ASSUME NEW i \in RecordsOf(q)', NEW j \in RecordsOf(q)', i < j
                   PROVE  pending'[i].offset < pending'[j].offset
        OBVIOUS
      <3>1. i \in RecordsOf(q)
        BY <1>1, <2>2
      <3>2. CASE j = n + 1
        BY <1>1, <2>3, <3>1, <3>2
      <3>3. CASE j \in RecordsOf(q)
        BY <2>3, <3>1, <3>3 DEF OffsetsIncrease
      <3> QED  BY <2>2, <3>2, <3>3
    <2>6. \A i \in RecordsOf(q)' : acked[q] < pending'[i].offset /\ pending'[i].offset <= LastPassed(q)
      BY <1>1, <2>2, <2>3, <2>4 DEF OffsetsIncrease
    <2>7. acked[q] <= LastPassed(q)
      BY DEF OffsetsIncrease
    <2> QED  BY <1>2, <2>1, <2>5, <2>6, <2>7
  <1> QED  BY <1>3, <1>4

\* done(n) acknowledges the n oldest records; the younger ones stay above.
LEMMA DoneOrder ==
    ASSUME TypeOK, OffsetsIncrease, Done(Len(batch)), UNCHANGED <<line, held>>
    PROVE  OffsetsIncrease'
PROOF
  <1> SUFFICES ASSUME NEW q \in Readers
               PROVE  /\ acked'[q] <= LastPassed(q)'
                      /\ \A i, j \in RecordsOf(q)' : i < j => pending'[i].offset < pending'[j].offset
                      /\ \A i \in RecordsOf(q)' : acked'[q] < pending'[i].offset /\ pending'[i].offset <= LastPassed(q)'
                      /\ held'[q] # NoRecord =>
                           /\ held'[q][1].src = q
                           /\ acked'[q] < held'[q][1].offset /\ held'[q][1].offset <= LastPassed(q)'
                           /\ \A i \in RecordsOf(q)' : pending'[i].offset < held'[q][1].offset
    BY DEF OffsetsIncrease
  <1>0. Len(batch) \in Nat /\ Len(pending) \in Nat
    BY DEF TypeOK
  <1>1. PICK n \in 0..Len(pending) :
             /\ Len(pending') = Len(pending) - n
             /\ \A i \in 1..Len(pending') : pending'[i] = pending[i + n]
             /\ SubSeq(pending, 1, n) \in Seq(Record)
             /\ Len(SubSeq(pending, 1, n)) = n
             /\ \A i \in 1..n : SubSeq(pending, 1, n)[i] = pending[i]
             /\ AckAll(SubSeq(pending, 1, n))
    BY <1>0, DoneEffect
  <1> DEFINE popped == SubSeq(pending, 1, n)
  <1>2. LastPassed(q)' = LastPassed(q)
    BY DEF Done, WakeReaders, LastPassed, TypeOK
  <1>3. acked'[q] = acked[q] \/ \E i \in RecordsOf(q) : i <= n /\ acked'[q] = pending[i].offset
    <2>1. acked'[q] \in AckedBy(popped, q) \union {acked[q]}
      BY <1>1, AckAllLargest
    <2>2. AckedBy(popped, q) = {pending[i].offset : i \in {j \in 1..n : pending[j].src = q}}
      BY <1>1 DEF AckedBy
    <2>3. \A i \in 1..n : i \in 1..Len(pending)
      BY <1>0, <1>1
    <2> QED  BY <2>1, <2>2, <2>3 DEF RecordsOf
  <1>4. \A i \in RecordsOf(q)' : i + n \in RecordsOf(q) /\ n < i + n /\ pending'[i] = pending[i + n]
    BY <1>0, <1>1 DEF RecordsOf
  <1>5. \A i \in RecordsOf(q)' : acked'[q] < pending'[i].offset /\ pending'[i].offset <= LastPassed(q)
    <2> SUFFICES ASSUME NEW i \in RecordsOf(q)'
                 PROVE  acked'[q] < pending'[i].offset /\ pending'[i].offset <= LastPassed(q)
      OBVIOUS
    <2>1. i + n \in RecordsOf(q) /\ n < i + n /\ pending'[i] = pending[i + n] /\ i + n \in Int
      BY <1>0, <1>1, <1>4 DEF RecordsOf
    <2>2. CASE acked'[q] = acked[q]
      BY <2>1, <2>2 DEF OffsetsIncrease
    <2>3. CASE \E k \in RecordsOf(q) : k <= n /\ acked'[q] = pending[k].offset
      <3>1. PICK k \in RecordsOf(q) : k <= n /\ acked'[q] = pending[k].offset
        BY <2>3
      <3>2. k < i + n
        BY <2>1, <3>1, <1>0 DEF RecordsOf
      <3> QED  BY <2>1, <3>1, <3>2 DEF OffsetsIncrease
    <2> QED  BY <1>3, <2>2, <2>3
  <1>6. \A i, j \in RecordsOf(q)' : i < j => pending'[i].offset < pending'[j].offset
    <2> SUFFICES ASSUME NEW i \in RecordsOf(q)', NEW j \in RecordsOf(q)', i < j
                 PROVE  pending'[i].offset < pending'[j].offset
      OBVIOUS
    <2>1. i + n < j + n
      BY <1>0, <1>1 DEF RecordsOf
    <2> QED  BY <1>4, <2>1 DEF OffsetsIncrease
  <1>7. acked'[q] <= LastPassed(q)
    BY <1>3 DEF OffsetsIncrease
  <1>8. held[q] # NoRecord => acked'[q] < held[q][1].offset
    BY <1>3 DEF OffsetsIncrease
  <1>9. held[q] # NoRecord => \A i \in RecordsOf(q)' : pending'[i].offset < held[q][1].offset
    BY <1>4 DEF OffsetsIncrease
  <1>10. held[q] # NoRecord => held[q][1].src = q /\ held[q][1].offset <= LastPassed(q)
    BY DEF OffsetsIncrease
  <1> QED  BY <1>2, <1>5, <1>6, <1>7, <1>8, <1>9, <1>10

\* The parser takes the line in hand: it is younger than everything before.
LEMMA ReceiveOrder ==
    ASSUME TypeOK, OffsetsIncrease, NEW r \in Readers, ParserReceive(r)
    PROVE  OffsetsIncrease'
PROOF
  <1> SUFFICES ASSUME NEW q \in Readers
               PROVE  /\ acked'[q] <= LastPassed(q)'
                      /\ \A i, j \in RecordsOf(q)' : i < j => pending'[i].offset < pending'[j].offset
                      /\ \A i \in RecordsOf(q)' : acked'[q] < pending'[i].offset /\ pending'[i].offset <= LastPassed(q)'
                      /\ held'[q] # NoRecord =>
                           /\ held'[q][1].src = q
                           /\ acked'[q] < held'[q][1].offset /\ held'[q][1].offset <= LastPassed(q)'
                           /\ \A i \in RecordsOf(q)' : pending'[i].offset < held'[q][1].offset
    BY DEF OffsetsIncrease
  <1>1. pending' = pending /\ acked' = acked /\ line' = line /\ RecordsOf(q)' = RecordsOf(q)
    BY DEF ParserReceive, RecordsOf
  <1>2. CASE q # r
    <2>1. reader'[q] = reader[q] /\ held'[q] = held[q]
      BY <1>2 DEF ParserReceive, TypeOK
    <2>2. LastPassed(q)' = LastPassed(q)
      BY <1>1, <2>1 DEF LastPassed
    <2> QED  BY <1>1, <2>1, <2>2, SMTT(30) DEF OffsetsIncrease
  <1>3. CASE q = r
    <2>1. PICK b \in Sizes : held'[q] = <<[src |-> q, offset |-> line[q], bytes |-> b]>>
      BY <1>3 DEF ParserReceive, TypeOK
    <2>2. held'[q][1].src = q /\ held'[q][1].offset = line[q]
      BY <2>1, SMTT(30)
    <2>3. reader[q] = "send" /\ reader'[q] = "wait"
      BY <1>3 DEF ParserReceive, TypeOK
    <2>4. LastPassed(q) = line[q] - 1 /\ LastPassed(q)' = line[q] /\ line[q] \in Int
      BY <1>1, <2>3 DEF LastPassed, TypeOK
    <2>5. acked[q] < line[q] /\ acked[q] \in Int
      BY <2>4 DEF OffsetsIncrease, TypeOK
    <2>6. \A i \in RecordsOf(q) : pending[i].offset < line[q] /\ pending[i].offset \in Int
      BY <2>4, OffsetTypes DEF OffsetsIncrease, RecordsOf
    <2>7. \A i, j \in RecordsOf(q) : i < j => pending[i].offset < pending[j].offset
      BY DEF OffsetsIncrease
    <2>8. \A i \in RecordsOf(q) : acked[q] < pending[i].offset
      BY DEF OffsetsIncrease
    <2> QED  BY <1>1, <2>2, <2>4, <2>5, <2>6, <2>7, <2>8, SMTT(30)
  <1> QED  BY <1>2, <1>3

LEMMA InitOrder == Init => OffsetsIncrease
PROOF
  <1> SUFFICES ASSUME Init, NEW r \in Readers
               PROVE  acked[r] <= LastPassed(r) /\ RecordsOf(r) = {} /\ held[r] = NoRecord
    BY DEF OffsetsIncrease
  <1> QED  BY DEF Init, LastPassed, RecordsOf

LEMMA NextOrder == TypeOK /\ OffsetsIncrease /\ [Next]_vars => OffsetsIncrease'
PROOF
  <1> SUFFICES ASSUME TypeOK, OffsetsIncrease, [Next]_vars PROVE OffsetsIncrease'
    OBVIOUS
  <1>t. TypeOK'
    BY NextType
  <1> USE DEF readerVars, queueVars, exportVars, stopVars
  <1>1. ASSUME NEW r \in Readers, Wait(r) PROVE OffsetsIncrease'
    <2>1. reader[r] = "wait" /\ reader'[r] # "send" /\ line' = line /\ held' = held
      BY <1>1 DEF Wait, TypeOK
    <2>2. LastPassed(r)' = LastPassed(r) /\ LastPassed(r) \in Int
      BY <2>1, OffsetTypes DEF LastPassed
    <2>3. \A q \in Readers \ {r} : reader'[q] = reader[q]
      BY <1>1 DEF Wait, TypeOK
    <2>4. UNCHANGED <<pending, acked>>
      BY <1>1 DEF Wait
    <2> QED  BY <1>t, <2>1, <2>2, <2>3, <2>4, ReaderStepOrder
  <1>2. ASSUME NEW r \in Readers, ReadLine(r) PROVE OffsetsIncrease'
    <2>1. /\ reader[r] = "read" /\ held' = held /\ UNCHANGED <<pending, acked>>
          /\ \/ line'[r] = line[r] + 1 /\ reader'[r] = "send"
             \/ line'[r] = line[r] /\ reader'[r] = "wait"
      BY <1>2 DEF ReadLine, TypeOK
    <2>2. LastPassed(r)' = LastPassed(r) /\ LastPassed(r) \in Int
      BY <2>1, OffsetTypes DEF LastPassed
    <2>3. \A q \in Readers \ {r} : reader'[q] = reader[q] /\ line'[q] = line[q]
      BY <1>2 DEF ReadLine, TypeOK
    <2> QED  BY <1>t, <2>1, <2>2, <2>3, ReaderStepOrder
  <1>3. ASSUME NEW r \in Readers, ParserReceive(r) PROVE OffsetsIncrease'
    BY <1>3, ReceiveOrder
  <1>4. ASSUME NEW r \in Readers, ParserEmit(r) PROVE OffsetsIncrease'
    <2>1. held[r][1] \in Record
      BY <1>4, OptIsSeq DEF ParserEmit, TypeOK
    <2> QED  BY <1>4, <2>1, EmitOrder DEF ParserEmit
  <1>5. ASSUME NEW r \in Readers, StopReader(r) PROVE OffsetsIncrease'
    <2>1. reader'[r] = "stopped" /\ line' = line /\ held'[r] = NoRecord /\ UNCHANGED <<pending, acked>>
      BY <1>5 DEF StopReader, TypeOK
    <2>2. LastPassed(r) <= LastPassed(r)'
      BY <2>1, OffsetTypes DEF LastPassed
    <2>3. \A q \in Readers \ {r} : reader'[q] = reader[q] /\ held'[q] = held[q]
      BY <1>5 DEF StopReader, TypeOK
    <2> QED  BY <1>t, <2>1, <2>2, <2>3, ReaderStepOrder
  <1>6. ASSUME JournaldEmit PROVE OffsetsIncrease'
    <2>1. PICK b \in Sizes : AppendPending([src |-> NoFile, offset |-> 0, bytes |-> b])
      BY <1>6 DEF JournaldEmit
    <2>2. [src |-> NoFile, offset |-> 0, bytes |-> b] \in Record
      BY LimitsAssumption DEF Record
    <2> QED  BY <1>6, <2>1, <2>2, EmitOrder DEF JournaldEmit
  <1>7. ASSUME ExportAccepted \/ ExportRejected PROVE OffsetsIncrease'
    BY <1>7, DoneOrder DEF ExportAccepted, ExportRejected
  <1>8. ASSUME UNCHANGED <<line, held, pending, acked>>,
               \A q \in Readers : (reader'[q] = "send") <=> (reader[q] = "send")
        PROVE  OffsetsIncrease'
    <2>1. \A q \in Readers : LastPassed(q)' = LastPassed(q) /\ RecordsOf(q)' = RecordsOf(q)
      BY <1>8 DEF LastPassed, RecordsOf
    <2> QED  BY <1>8, <2>1, SMTT(30) DEF OffsetsIncrease
  <1>9. ASSUME Enqueue \/ TakeBatch \/ ExportTransient \/ Retry \/ ExportStopped PROVE OffsetsIncrease'
    BY <1>9, <1>8 DEF Enqueue, TakeBatch, ExportTransient, Retry, ExportStopped
  <1>10. ASSUME StopReading PROVE OffsetsIncrease'
    BY <1>10, <1>8 DEF StopReading, WakeReaders
  <1>11. ASSUME EndGrace \/ Drain \/ DrainTimeout \/ StopExporter \/ Exited \/ UNCHANGED vars
         PROVE  OffsetsIncrease'
    BY <1>11, <1>8 DEF EndGrace, Drain, DrainTimeout, StopExporter, Exited, vars
  <1> QED  BY <1>1, <1>2, <1>3, <1>4, <1>5, <1>6, <1>7, <1>9, <1>10, <1>11 DEF Next

\* The inductive invariant of the position's safety.
SafePosition ==
    /\ Accounting
    /\ OffsetsIncrease
    /\ ~stopC => AcksAreSettled

\* A batch is settled before it is acknowledged, and it is what is popped.
LEMMA DoneSettled ==
    ASSUME SafePosition, ~stopC, Done(Len(batch)), Elems(batch) \subseteq settled', settled \subseteq settled'
    PROVE  AcksAreSettled'
PROOF
  <1> SUFFICES ASSUME NEW r \in Readers, acked'[r] > 0
               PROVE  \E rec \in settled' : rec.src = r /\ rec.offset = acked'[r]
    BY DEF AcksAreSettled
  <1>1. TypeOK /\ Accounting
    BY DEF SafePosition, Accounting
  <1>2. Len(batch) \in 0..Len(pending) /\ SubSeq(pending, 1, Len(batch)) = batch
    BY <1>1, BatchIsOldest
  <1>3. AckAll(batch)
    <2>1. Len(batch) \in Nat /\ Len(batch) <= Len(pending)
      BY <1>1, <1>2 DEF TypeOK
    <2>2. PICK n \in 0..Len(pending) : n = Len(batch) /\ AckAll(SubSeq(pending, 1, n))
      BY <1>1, <2>1, DoneEffect
    <2> QED  BY <1>2, <2>2
  <1>4. acked'[r] \in AckedBy(batch, r) \union {acked[r]}
    BY <1>1, <1>3, AckAllLargest DEF TypeOK
  <1>5. CASE acked'[r] = acked[r]
    BY <1>5 DEF SafePosition, AcksAreSettled
  <1>6. CASE acked'[r] \in AckedBy(batch, r)
    <2>1. PICK i \in 1..Len(batch) : batch[i].src = r /\ acked'[r] = batch[i].offset
      BY <1>6 DEF AckedBy
    <2>2. batch[i] \in settled'
      BY <2>1 DEF Elems
    <2> QED  BY <2>1, <2>2
  <1> QED  BY <1>4, <1>5, <1>6

LEMMA InitSafe == Init => SafePosition
PROOF
  <1> SUFFICES ASSUME Init PROVE AcksAreSettled
    BY InitAccounting, InitOrder DEF SafePosition
  <1> QED  BY DEF Init, AcksAreSettled

LEMMA NextSafe == SafePosition /\ [Next]_vars => SafePosition'
PROOF
  <1> SUFFICES ASSUME SafePosition, [Next]_vars, ~stopC' PROVE AcksAreSettled'
    BY NextAccounting, NextOrder DEF SafePosition, Accounting
  <1> USE DEF readerVars, queueVars, exportVars, stopVars
  <1>0. ~stopC
    BY DEF Next, Wait, ReadLine, ParserReceive, ParserEmit, StopReader, JournaldEmit, Enqueue,
           TakeBatch, ExportAccepted, ExportRejected, ExportTransient, Retry, ExportStopped,
           StopReading, EndGrace, Drain, DrainTimeout, StopExporter, Exited, vars
  <1>1. CASE UNCHANGED acked /\ settled \subseteq settled'
    BY <1>0, <1>1 DEF SafePosition, AcksAreSettled
  <1>2. CASE ExportAccepted
    BY <1>0, <1>2, DoneSettled DEF ExportAccepted, settled
  <1>3. CASE ExportRejected
    BY <1>0, <1>3, DoneSettled DEF ExportRejected, settled
  <1>4. CASE ~ExportAccepted /\ ~ExportRejected
    BY <1>1, <1>4 DEF Next, Wait, ReadLine, ParserReceive, ParserEmit, StopReader, JournaldEmit,
           Enqueue, TakeBatch, ExportTransient, Retry, ExportStopped, StopReading, EndGrace, Drain,
           DrainTimeout, StopExporter, Exited, vars, settled
  <1> QED  BY <1>2, <1>3, <1>4

\* For any readers, limits, batches and lines: until the exporter is stopped,
\* a file's acknowledged offset is that of a record the collector answered,
\* and no record of the file up to it is outstanding.
THEOREM PositionSafe == Spec => []AckedOnlySettled
PROOF
  <1>1. SafePosition => AckedOnlySettled
    <2> SUFFICES ASSUME SafePosition, ~stopC,
                        NEW r \in Readers, NEW i \in RecordsOf(r)
                 PROVE  pending[i].offset > acked[r]
      BY DEF SafePosition, AckedOnlySettled
    <2>1. acked[r] < pending[i].offset
      BY DEF SafePosition, OffsetsIncrease
    <2>2. acked[r] \in Int /\ pending[i].offset \in Int
      BY OffsetTypes DEF SafePosition, Accounting, RecordsOf
    <2> QED  BY <2>1, <2>2
  <1> QED  BY <1>1, InitSafe, NextSafe, PTL DEF Spec

\* The offsets of a file's records stay in order from the reader to the
\* collector, the exporter's stop included.
THEOREM OrderOfOffsets == Spec => []OffsetsIncrease
BY InitType, NextType, InitOrder, NextOrder, PTL DEF Spec
-----------------------------------------------------------------------------
(* Emitting never blocks.  The records on their way to the collector are at *)
(* most the pending ones, also after the exporter is stopped; and the      *)
(* pending ones are at most twice the limit and two per reader.            *)

Past == {r \in Readers : reader[r] \in {"read", "send"}}
Holding == {r \in Readers : held[r] # NoRecord}
Fits == Len(batch) + Len(queue) + Len(emitting) <= Len(pending)

\* Sets of readers are finite and at most all of them.
LEMMA SubsetCard ==
    ASSUME NEW S, S \subseteq Readers
    PROVE  /\ IsFiniteSet(S) /\ Cardinality(S) \in Nat
           /\ Cardinality(S) <= Cardinality(Readers) /\ Cardinality(Readers) \in Nat
BY ReadersAssumption, FS_Subset, FS_CardinalityType

\* One reader more, one reader less, and fewer readers.
LEMMA CardSteps ==
    ASSUME NEW S, S \subseteq Readers, NEW T, T \subseteq Readers, NEW r \in Readers
    PROVE  /\ T \subseteq S => Cardinality(T) <= Cardinality(S)
           /\ T \subseteq S \union {r} => Cardinality(T) <= Cardinality(S) + 1
           /\ T \subseteq S \ {r} /\ r \in S => Cardinality(T) <= Cardinality(S) - 1
PROOF
  <1>1. IsFiniteSet(S) /\ IsFiniteSet(T) /\ Cardinality(S) \in Nat /\ Cardinality(T) \in Nat
    BY SubsetCard
  <1>2. T \subseteq S => Cardinality(T) <= Cardinality(S)
    BY <1>1, FS_Subset
  <1>3. ASSUME T \subseteq S \union {r} PROVE Cardinality(T) <= Cardinality(S) + 1
    <2>1. IsFiniteSet(S \union {r}) /\ Cardinality(S \union {r}) \in {Cardinality(S), Cardinality(S) + 1}
      BY <1>1, FS_AddElement
    <2>2. Cardinality(T) <= Cardinality(S \union {r})
      BY <1>3, <2>1, FS_Subset
    <2> QED  BY <1>1, <2>1, <2>2
  <1>4. ASSUME T \subseteq S \ {r}, r \in S PROVE Cardinality(T) <= Cardinality(S) - 1
    <2>1. IsFiniteSet(S \ {r}) /\ Cardinality(S \ {r}) = Cardinality(S) - 1
      BY <1>1, <1>4, FS_RemoveElement
    <2>2. Cardinality(T) <= Cardinality(S \ {r})
      BY <1>4, <2>1, FS_Subset
    <2> QED  BY <2>1, <2>2
  <1> QED  BY <1>2, <1>3, <1>4

LEMMA InitFits == Init => Fits
BY DEF Init, Fits, NoRecord

LEMMA NextFits == TypeOK /\ Fits /\ [Next]_vars => Fits'
PROOF
  <1> SUFFICES ASSUME TypeOK, Fits, [Next]_vars PROVE Fits'
    OBVIOUS
  <1> USE DEF readerVars, queueVars, exportVars, stopVars
  <1>0. /\ Len(batch) \in Nat /\ Len(queue) \in Nat /\ Len(pending) \in Nat
        /\ Len(emitting) \in Nat /\ emitting \in Seq(Record)
    BY OptIsSeq DEF TypeOK
  <1>1. ASSUME NEW rec \in Record, AppendPending(rec), UNCHANGED <<batch, queue>> PROVE Fits'
    <2>1. Len(pending') = Len(pending) + 1
      BY <1>1 DEF AppendPending, TypeOK
    <2>2. Len(emitting) = 0 /\ Len(emitting') = 1
      BY <1>1 DEF AppendPending, NoRecord
    <2> QED  BY <1>0, <1>1, <2>1, <2>2 DEF Fits
  <1>2. ASSUME NEW r \in Readers, ParserEmit(r) PROVE Fits'
    <2>1. held[r][1] \in Record
      BY <1>2, OptIsSeq DEF ParserEmit, TypeOK
    <2> QED  BY <1>1, <1>2, <2>1 DEF ParserEmit
  <1>3. ASSUME JournaldEmit PROVE Fits'
    <2>1. PICK b \in Sizes : AppendPending([src |-> NoFile, offset |-> 0, bytes |-> b])
      BY <1>3 DEF JournaldEmit
    <2>2. [src |-> NoFile, offset |-> 0, bytes |-> b] \in Record
      BY LimitsAssumption DEF Record
    <2> QED  BY <1>1, <1>3, <2>1, <2>2 DEF JournaldEmit
  <1>4. ASSUME Enqueue PROVE Fits'
    <2>1. Len(queue') = Len(queue) + Len(emitting)
      BY <1>0, <1>4 DEF Enqueue, TypeOK
    <2>2. Len(emitting') = 0
      BY <1>4 DEF Enqueue, NoRecord
    <2> QED  BY <1>0, <1>4, <2>1, <2>2 DEF Fits, Enqueue
  <1>5. ASSUME TakeBatch PROVE Fits'
    <2>1. PICK n \in 1..Len(queue) :
            batch' = SubSeq(queue, 1, n) /\ queue' = SubSeq(queue, n + 1, Len(queue))
      BY <1>5 DEF TakeBatch
    <2>2. Len(batch') = n /\ Len(queue') = Len(queue) - n
      BY <1>0, <2>1 DEF TypeOK
    <2> QED  BY <1>0, <1>5, <2>2 DEF Fits, TakeBatch
  <1>6. ASSUME ExportAccepted \/ ExportRejected PROVE Fits'
    <2>1. Done(Len(batch)) /\ Len(batch') = 0 /\ UNCHANGED queueVars
      BY <1>6 DEF ExportAccepted, ExportRejected, EndExport
    <2>2. Len(batch) <= Len(pending)
      BY <1>0 DEF Fits
    <2>3. Len(pending') = Len(pending) - Len(batch)
      BY <1>0, <2>1, <2>2, DoneEffect
    <2> QED  BY <1>0, <2>1, <2>3 DEF Fits
  <1>7. ASSUME ExportStopped PROVE Fits'
    <2>1. Len(batch') = 0 /\ UNCHANGED <<queueVars, pending>>
      BY <1>7 DEF ExportStopped, EndExport
    <2> QED  BY <1>0, <2>1 DEF Fits
  <1>8. CASE UNCHANGED <<batch, queue, emitting, pending>>
    BY <1>8 DEF Fits
  <1> QED  BY <1>2, <1>3, <1>4, <1>5, <1>6, <1>7, <1>8 DEF Next, Wait, ReadLine, ParserReceive,
           StopReader, ExportTransient, Retry, StopReading, EndGrace, Drain, DrainTimeout,
           StopExporter, Exited, vars

LEMMA InitOvershoot == Init => OvershootBounded
PROOF
  <1> SUFFICES ASSUME Init PROVE OvershootBounded
    OBVIOUS
  <1>1. Past = {} /\ Holding = {} /\ Len(pending) = 0
    BY DEF Init, Past, Holding
  <1>2. Cardinality({}) = 0
    BY FS_EmptySet
  <1>3. Cardinality(Readers) \in Nat
    BY SubsetCard
  <1>4. 0 + Cardinality(Past) + Cardinality(Holding) = 0
    BY <1>1, <1>2
  <1>5. maxPendingUnpaused \in Nat
    BY LimitsAssumption DEF maxPendingUnpaused
  <1>6. Len(pending) + Cardinality(Past) + Cardinality(Holding)
          <= maxPendingUnpaused + 2 * Cardinality(Readers)
    BY <1>1, <1>3, <1>4, <1>5
  <1> QED  BY <1>6 DEF OvershootBounded, Past, Holding

LEMMA NextOvershoot == TypeOK /\ OvershootBounded /\ [Next]_vars => OvershootBounded'
PROOF
  <1> SUFFICES ASSUME TypeOK, OvershootBounded, [Next]_vars PROVE OvershootBounded'
    OBVIOUS
  <1> USE DEF readerVars, queueVars, exportVars, stopVars
  <1> DEFINE R == Cardinality(Readers)
             Room(p, a, h) == p + a + h <= maxPendingUnpaused + 2 * R
  <1>a. OvershootBounded <=> Room(Len(pending), Cardinality(Past), Cardinality(Holding))
    BY DEF OvershootBounded, Past, Holding
  <1>b. OvershootBounded' <=> Room(Len(pending'), Cardinality(Past'), Cardinality(Holding'))
    BY DEF OvershootBounded, Past, Holding
  <1>0. /\ Past \subseteq Readers /\ Holding \subseteq Readers
        /\ Past' \subseteq Readers /\ Holding' \subseteq Readers
    BY DEF Past, Holding
  <1>c. /\ R \in Nat /\ maxPendingUnpaused \in Nat /\ Len(pending) \in Nat
        /\ Cardinality(Past) \in Nat /\ Cardinality(Holding) \in Nat
        /\ Cardinality(Past') \in Nat /\ Cardinality(Holding') \in Nat
        /\ Cardinality(Past') <= R /\ Cardinality(Holding') <= R
    BY <1>0, SubsetCard, LimitsAssumption DEF TypeOK, maxPendingUnpaused
  <1> HIDE DEF R
  <1>1. ASSUME Len(pending') \in Nat, Len(pending') <= Len(pending),
               Past' \subseteq Past, Holding' \subseteq Holding
        PROVE  OvershootBounded'
    <2>1. Cardinality(Past') <= Cardinality(Past) /\ Cardinality(Holding') <= Cardinality(Holding)
      BY <1>0, <1>1, FS_Subset, SubsetCard
    <2> QED  BY <1>1, <2>1, <1>a, <1>b, <1>c
  <1>2. ASSUME Len(pending') \in Nat, Len(pending') <= maxPendingUnpaused PROVE OvershootBounded'
    BY <1>2, <1>b, <1>c
  <1>3. ASSUME NEW r \in Readers, Wait(r) PROVE OvershootBounded'
    <2>1. pending' = pending /\ held' = held
      BY <1>3 DEF Wait
    <2>2. CASE MayRead
      <3>1. Len(pending') < MaxPendingRecords
        BY <2>1, <2>2 DEF MayRead
      <3> QED  BY <2>1, <3>1, <1>2, <1>c, LimitsAssumption DEF maxPendingUnpaused
    <2>3. CASE ~MayRead
      <3>1. Past' \subseteq Past /\ Holding' = Holding
        BY <1>3, <2>1, <2>3 DEF Wait, Past, Holding, TypeOK
      <3> QED  BY <2>1, <3>1, <1>1, <1>c
    <2> QED  BY <2>2, <2>3
  <1>4. ASSUME NEW r \in Readers, ReadLine(r) PROVE OvershootBounded'
    <2>1. pending' = pending /\ Past' \subseteq Past /\ Holding' = Holding
      BY <1>4 DEF ReadLine, Past, Holding, TypeOK
    <2> QED  BY <2>1, <1>1, <1>c
  <1>5. ASSUME NEW r \in Readers, ParserReceive(r) PROVE OvershootBounded'
    <2>1. pending' = pending /\ r \in Past /\ Past' \subseteq Past \ {r}
      BY <1>5 DEF ParserReceive, Past, TypeOK
    <2>2. Holding' \subseteq Holding \union {r}
      BY <1>5 DEF ParserReceive, Holding, TypeOK
    <2>3. Cardinality(Past') <= Cardinality(Past) - 1
      BY <1>0, <2>1, CardSteps
    <2>4. Cardinality(Holding') <= Cardinality(Holding) + 1
      BY <1>0, <2>2, CardSteps
    <2> QED  BY <2>1, <2>3, <2>4, <1>a, <1>b, <1>c
  <1>6. ASSUME NEW r \in Readers, ParserEmit(r) PROVE OvershootBounded'
    <2>1. Len(pending') = Len(pending) + 1
      BY <1>6 DEF ParserEmit, AppendPending, TypeOK
    <2>2. Past' = Past
      BY <1>6 DEF ParserEmit, Past
    <2>3. r \in Holding /\ Holding' \subseteq Holding \ {r}
      BY <1>6 DEF ParserEmit, Holding, TypeOK
    <2>4. Cardinality(Holding') <= Cardinality(Holding) - 1
      BY <1>0, <2>3, CardSteps
    <2> QED  BY <2>1, <2>2, <2>4, <1>a, <1>b, <1>c
  <1>7. ASSUME NEW r \in Readers, StopReader(r) PROVE OvershootBounded'
    <2>1. pending' = pending /\ Past' \subseteq Past /\ Holding' \subseteq Holding
      BY <1>7 DEF StopReader, Past, Holding, TypeOK
    <2> QED  BY <2>1, <1>1, <1>c
  <1>8. ASSUME JournaldEmit PROVE OvershootBounded'
    <2>1. Len(pending') = Len(pending) + 1 /\ Len(pending) < maxPendingUnpaused
      BY <1>8 DEF JournaldEmit, AppendPending, TypeOK
    <2> QED  BY <2>1, <1>2, <1>c
  <1>9. ASSUME ExportAccepted \/ ExportRejected PROVE OvershootBounded'
    <2>1. Done(Len(batch)) /\ held' = held
      BY <1>9 DEF ExportAccepted, ExportRejected
    <2>2. Len(batch) \in Nat
      BY DEF TypeOK
    <2>3. PICK n \in 0..Len(pending) : Len(pending') = Len(pending) - n
      BY <2>1, <2>2, DoneEffect
    <2>4. Past' \subseteq Past /\ Holding' = Holding
      BY <2>1 DEF Done, WakeReaders, Past, Holding
    <2> QED  BY <2>3, <2>4, <1>1, <1>c
  <1>10. ASSUME StopReading PROVE OvershootBounded'
    <2>1. pending' = pending /\ Past' \subseteq Past /\ Holding' = Holding
      BY <1>10 DEF StopReading, WakeReaders, Past, Holding
    <2> QED  BY <2>1, <1>1, <1>c
  <1>11. CASE UNCHANGED <<reader, held, pending>>
    <2>1. Past' = Past /\ Holding' = Holding
      BY <1>11 DEF Past, Holding
    <2> QED  BY <2>1, <1>11, <1>1, <1>c
  <1> QED  BY <1>3, <1>4, <1>5, <1>6, <1>7, <1>8, <1>9, <1>10, <1>11 DEF Next, Enqueue, TakeBatch,
           ExportTransient, Retry, ExportStopped, EndGrace, Drain, DrainTimeout, StopExporter, Exited, vars

\* For any readers no more than the limit: the records pending, and those the
\* readers and parsers are about to add, stay within two per reader of it.
THEOREM Overshoot == Spec => []OvershootBounded
BY InitType, NextType, InitOvershoot, NextOvershoot, PTL DEF Spec

\* With it, the batch processor's queue never fills: emit, which holds emitMu
\* while it queues the record, is never blocked by the collector.
THEOREM NeverBlocks == Spec => []EmitNeverBlocks
PROOF
  <1>1. TypeOK /\ Fits /\ OvershootBounded => EmitNeverBlocks
    <2> SUFFICES ASSUME TypeOK, Fits, OvershootBounded, emitting # NoRecord
                 PROVE  Len(queue) < queueSize
      BY DEF EmitNeverBlocks
    <2>1. Len(emitting) = 1
      BY OptIsSeq DEF TypeOK
    <2>2. Len(batch) \in Nat /\ Len(queue) \in Nat /\ Len(pending) \in Nat
      BY DEF TypeOK
    <2>3. Len(queue) + 1 <= Len(pending)
      BY <2>1, <2>2 DEF Fits
    <2>4. /\ Cardinality(Past) \in Nat /\ Cardinality(Holding) \in Nat
          /\ Cardinality(Readers) \in Nat
      BY SubsetCard DEF Past, Holding
    <2>5. Len(pending) + Cardinality(Past) + Cardinality(Holding)
            <= maxPendingUnpaused + 2 * Cardinality(Readers)
      BY DEF OvershootBounded, Past, Holding
    <2>6. Len(pending) <= maxPendingUnpaused + 2 * Cardinality(Readers)
      BY <2>2, <2>4, <2>5, LimitsAssumption DEF maxPendingUnpaused
    <2> QED  BY <2>2, <2>3, <2>4, <2>6, LimitsAssumption, ReadersAssumption DEF maxPendingUnpaused, queueSize
  <1> QED  BY <1>1, InitType, NextType, InitFits, NextFits, InitOvershoot, NextOvershoot, PTL DEF Spec
-----------------------------------------------------------------------------
(* The delivery implements OrderedDelivery.                                *)

LEMMA InitOrdered == Init => Ordered!Init
BY DEF Init, Ordered!Init, settled

\* A batch's answer settles the oldest records, all at once.
LEMMA AnswerOrdered ==
    ASSUME Accounting, ~stopC, Done(Len(batch)), settled' = settled \union Elems(batch), stopC' = stopC
    PROVE  [Ordered!Next]_(Ordered!vars)
PROOF
  <1> DEFINE n == Len(batch)
  <1>1. n \in 0..Len(pending) /\ SubSeq(pending, 1, n) = batch
    BY BatchIsOldest
  <1>2. TypeOK /\ n \in Nat /\ n <= Len(pending) /\ Len(pending) \in Nat
    BY <1>1 DEF Accounting, TypeOK
  <1>3. pending' = SubSeq(pending, n + 1, Len(pending))
    BY <1>2, DoneEffect
  <1>4. \A i \in 1..n : batch[i] = pending[i]
    <2>1. PICK m \in 0..Len(pending) : m = n /\ \A i \in 1..m : SubSeq(pending, 1, m)[i] = pending[i]
      BY <1>2, DoneEffect
    <2> QED  BY <1>1, <2>1
  <1>5. Elems(batch) = {pending[i] : i \in 1..n}
    BY <1>4 DEF Elems
  <1>6. CASE n = 0
    <2>1. settled' = settled
      BY <1>6 DEF Elems
    <2>2. pending' = SubSeq(pending, 1, Len(pending))
      BY <1>3, <1>6
    <2>3. SubSeq(pending, 1, Len(pending)) = pending
      BY <1>2 DEF TypeOK
    <2> QED  BY <2>1, <2>2, <2>3 DEF Ordered!vars
  <1>7. CASE n # 0
    <2>1. n \in 1..Len(pending)
      BY <1>2, <1>7
    <2>2. Ordered!Settle(n)
      BY <1>3, <1>5 DEF Ordered!Settle
    <2> QED  BY <2>1, <2>2 DEF Ordered!Next
  <1> QED  BY <1>6, <1>7

\* A transient failure leaves the records outstanding, accepted or not.
LEMMA TransientOrdered ==
    ASSUME Accounting, ~stopC, ExportTransient
    PROVE  [Ordered!Next]_(Ordered!vars)
PROOF
  <1> DEFINE n == Len(batch)
  <1>1. n \in 0..Len(pending) /\ SubSeq(pending, 1, n) = batch
    BY BatchIsOldest
  <1>2. pending \in Seq(Record) /\ n \in Nat /\ n <= Len(pending) /\ Len(pending) \in Nat
    BY <1>1 DEF Accounting, TypeOK
  <1>3. pending' = pending /\ stopC' = stopC /\ rejected' = rejected
    BY DEF ExportTransient, stopVars
  <1>4. \A i \in 1..n : batch[i] = pending[i]
    BY <1>1, <1>2
  <1>5. Elems(batch) = {pending[i] : i \in 1..n}
    BY <1>4 DEF Elems
  <1>6. settled' = settled \/ settled' = settled \union Elems(batch)
    BY <1>3 DEF ExportTransient, settled
  <1>7. CASE settled' = settled
    BY <1>3, <1>7 DEF Ordered!vars
  <1>8. CASE settled' = settled \union Elems(batch) /\ n # 0
    <2>1. n \in 1..Len(pending)
      BY <1>2, <1>8
    <2>2. Ordered!Unanswered(n)
      BY <1>3, <1>5, <1>8 DEF Ordered!Unanswered
    <2> QED  BY <2>1, <2>2 DEF Ordered!Next
  <1>9. CASE settled' = settled \union Elems(batch) /\ n = 0
    <2>1. Elems(batch) = {}
      BY <1>9 DEF Elems
    <2> QED  BY <1>3, <1>9, <2>1 DEF Ordered!vars
  <1> QED  BY <1>6, <1>7, <1>8, <1>9

LEMMA NextOrdered == Accounting /\ [Next]_vars => [Ordered!Next]_(Ordered!vars)
PROOF
  <1> SUFFICES ASSUME Accounting, [Next]_vars PROVE [Ordered!Next]_(Ordered!vars)
    OBVIOUS
  <1> USE DEF readerVars, queueVars, exportVars, stopVars
  <1>1. ASSUME stopC, stopC' PROVE Ordered!Next
    BY <1>1 DEF Ordered!Next, Ordered!Released
  <1>2. stopC => stopC'
    BY DEF Next, Wait, ReadLine, ParserReceive, ParserEmit, StopReader, JournaldEmit, Enqueue,
           TakeBatch, ExportAccepted, ExportRejected, ExportTransient, Retry, ExportStopped,
           StopReading, EndGrace, Drain, DrainTimeout, StopExporter, Exited, vars
  <1>3. CASE UNCHANGED <<pending, collected, rejected, stopC>>
    BY <1>3 DEF Ordered!vars, settled
  <1>4. ASSUME NEW rec \in Record, AppendPending(rec), UNCHANGED <<collected, rejected, stopC>>
        PROVE  Ordered!Next
    BY <1>4 DEF AppendPending, Ordered!Next, Ordered!Emit, settled
  <1>5. ASSUME NEW r \in Readers, ParserEmit(r) PROVE Ordered!Next
    <2>1. held[r][1] \in Record
      BY <1>5, OptIsSeq DEF ParserEmit, Accounting, TypeOK
    <2> QED  BY <1>4, <1>5, <2>1 DEF ParserEmit
  <1>6. ASSUME JournaldEmit PROVE Ordered!Next
    <2>1. PICK b \in Sizes : AppendPending([src |-> NoFile, offset |-> 0, bytes |-> b])
      BY <1>6 DEF JournaldEmit
    <2>2. [src |-> NoFile, offset |-> 0, bytes |-> b] \in Record
      BY LimitsAssumption DEF Record
    <2> QED  BY <1>4, <1>6, <2>1, <2>2 DEF JournaldEmit
  <1>7. ASSUME ~stopC, ExportAccepted \/ ExportRejected PROVE [Ordered!Next]_(Ordered!vars)
    BY <1>7, AnswerOrdered DEF ExportAccepted, ExportRejected, settled
  <1>8. ASSUME ~stopC, ExportTransient PROVE [Ordered!Next]_(Ordered!vars)
    BY <1>8, TransientOrdered
  <1>9. ASSUME StopExporter PROVE Ordered!Next
    BY <1>9 DEF StopExporter, Ordered!Next, Ordered!Abandon, settled
  <1> QED  BY <1>1, <1>2, <1>3, <1>5, <1>6, <1>7, <1>8, <1>9 DEF Next, Wait, ReadLine, ParserReceive,
           StopReader, Enqueue, TakeBatch, Retry, ExportStopped, StopReading, EndGrace, Drain,
           DrainTimeout, Exited, vars

\* For any readers, limits and batches: through retries, rejections and the
\* shutdown, records are settled strictly in the order they are emitted.
THEOREM Refinement == Spec => SettlesInOrder
BY InitAccounting, NextAccounting, InitOrdered, NextOrdered, PTL DEF Spec, SettlesInOrder, Ordered!Spec
=============================================================================
