-------------------------- MODULE OrderedDelivery --------------------------
(***************************************************************************)
(* What the log delivery of src/logs/delivery.go promises its callers.     *)
(* Records are emitted one at a time.  The collector settles them (accepts *)
(* them, or rejects them for good) strictly in the order they were         *)
(* emitted, and a record leaves the outstanding ones only when it is       *)
(* settled.  So the position of a log file may follow the settled records. *)
(*                                                                         *)
(* The promise ends when the agent stops its exporter, as the last step of *)
(* its shutdown: records outstanding then are abandoned, and their lines   *)
(* are read again on the next start.                                       *)
(***************************************************************************)
EXTENDS Naturals, Sequences

CONSTANT Record         \* everything that may be emitted

VARIABLES
    outstanding,        \* emitted and not settled, oldest first
    settled,            \* the records the collector accepted or rejected
    abandoned           \* TRUE once the exporter is stopped

vars == <<outstanding, settled, abandoned>>

Init ==
    /\ outstanding = <<>>
    /\ settled = {}
    /\ abandoned = FALSE

Emit(r) ==
    /\ outstanding' = Append(outstanding, r)
    /\ UNCHANGED <<settled, abandoned>>

\* The oldest n outstanding records reach the collector, but not its answer.
Unanswered(n) ==
    /\ settled' = settled \union {outstanding[i] : i \in 1..n}
    /\ UNCHANGED <<outstanding, abandoned>>

\* The oldest n outstanding records are settled together (one batch).
Settle(n) ==
    /\ outstanding' = SubSeq(outstanding, n + 1, Len(outstanding))
    /\ settled' = settled \union {outstanding[i] : i \in 1..n}
    /\ UNCHANGED abandoned

Abandon ==
    /\ abandoned' = TRUE
    /\ UNCHANGED <<outstanding, settled>>

\* After the exporter is stopped nothing more is promised.
Released == abandoned /\ abandoned'

Next ==
    \/ \E r \in Record : Emit(r)
    \/ \E n \in 1..Len(outstanding) : Settle(n) \/ Unanswered(n)
    \/ Abandon
    \/ Released

Spec == Init /\ [][Next]_vars
=============================================================================
