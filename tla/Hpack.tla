------------------------------- MODULE Hpack --------------------------------
(***************************************************************************)
(* The HPACK decoder of src/ebpftracer/l7/hpack.go, against the encoder of *)
(* the connection it watches.                                              *)
(*                                                                         *)
(* The decoder may join late and lose header blocks; it then skips the     *)
(* references it cannot resolve.  A table is a sequence, newest entry      *)
(* first, as HPACK indexes it.  Fields that are not indexed change nothing *)
(* and are left out, and so is the static table.                           *)
(***************************************************************************)
EXTENDS Naturals, Sequences, FiniteSets

CONSTANTS
    FieldNames, FieldValues,
    NameLen(_), ValueLen(_),
    hpackEntryOverhead,
    hpackDefaultTableSize, hpackMaxTableSize,
    TableSizes              \* sets of sizes an encoder may use, one is chosen

ASSUME HpackAssumption ==
    /\ hpackEntryOverhead \in Nat /\ hpackDefaultTableSize \in Nat /\ hpackMaxTableSize \in Nat
    /\ \A n \in FieldNames : NameLen(n) \in Nat
    /\ \A v \in FieldValues : ValueLen(v) \in Nat
    /\ \A S \in TableSizes : S \subseteq Nat

VARIABLES
    sizes,              \* the sizes this encoder uses
    encTable, encMax,   \* the encoder's entries: name, value and whether
                        \* the decoder saw it inserted
    decTable, decMax    \* the decoder's: name, value and whether the name
                        \* is known

hpackVars == <<sizes, encTable, encMax, decTable, decMax>>

HpackInit ==
    /\ sizes \in TableSizes
    /\ encTable = <<>> /\ encMax = hpackDefaultTableSize
    /\ decTable = <<>> /\ decMax = hpackDefaultTableSize
-----------------------------------------------------------------------------
EncLen(e) == NameLen(e.name) + ValueLen(e.value) + hpackEntryOverhead

\* Mutant of DecLen: a name that is not known is taken for a long one.
MutantDecLen(e) == (IF e.known THEN NameLen(e.name) ELSE 2) + ValueLen(e.value) + hpackEntryOverhead

\* The name of an entry that has none is empty.
DecLen(e) == (IF e.known THEN NameLen(e.name) ELSE 0) + ValueLen(e.value) + hpackEntryOverhead

\* The lengths of a table's entries.
EncLens(table) == [i \in 1..Len(table) |-> EncLen(table[i])]
DecLens(table) == [i \in 1..Len(table) |-> DecLen(table[i])]

\* The total length of the k newest entries.
Upto(lens, k) ==
    LET sum[i \in 0..Len(lens)] == IF i = 0 THEN 0 ELSE sum[i - 1] + lens[i] IN sum[k]

\* How many entries evict leaves when room more is to fit.
Left(lens, room, max) == Cardinality({k \in 1..Len(lens) : Upto(lens, k) + room <= max})

\* evict(0).
Evict(table, lens, max) == SubSeq(table, 1, Left(lens, 0, max))

\* insert.
Insert(table, lens, max, e, len) ==
    IF len > max THEN <<>>
    ELSE [i \in 1..(Left(lens, len, max) + 1) |-> IF i = 1 THEN e ELSE table[i - 1]]

InsertEnc(e) == encTable' = Insert(encTable, EncLens(encTable), encMax, e, EncLen(e))
InsertDec(e) == decTable' = Insert(decTable, DecLens(decTable), decMax, e, DecLen(e))

\* reset.
ResetTable == decTable' = <<>> /\ decMax' = hpackDefaultTableSize
-----------------------------------------------------------------------------
\* The name at a dynamic index, for the encoder (a literal name has none).
NameAt(ref, name) == IF ref = 0 THEN name ELSE encTable[ref].name

\* field, and a name that is known.
Resolved(ref) == ref = 0 \/ (ref <= Len(decTable) /\ decTable[ref].known)

\* Mutant of DecodeLiteral: a field without a name takes no place.
MutantDecodeLiteral(ref, name, value) ==
    IF Resolved(ref)
    THEN InsertDec([name |-> IF ref = 0 THEN name ELSE decTable[ref].name, value |-> value, known |-> TRUE])
    ELSE UNCHANGED decTable

\* decode, for a literal with incremental indexing: its name is literal or
\* that of entry ref.
DecodeLiteral(ref, name, value) ==
    InsertDec([name |-> IF ref = 0 THEN name ELSE IF Resolved(ref) THEN decTable[ref].name ELSE "",
               value |-> value, known |-> Resolved(ref)])

\* The encoder's part.
Encode(ref, name, value, seen) ==
    InsertEnc([name |-> NameAt(ref, name), value |-> value, seen |-> seen])

Literal(ref, name, value) ==
    /\ ref <= Len(encTable)
    /\ Encode(ref, name, value, TRUE)
    /\ DecodeLiteral(ref, name, value)
    /\ UNCHANGED <<sizes, encMax, decMax>>

\* A block the decoder does not get, and knows it: the parser resets it.
LoseLiteral(ref, name, value) ==
    /\ ref <= Len(encTable)
    /\ Encode(ref, name, value, FALSE)
    /\ ResetTable
    /\ UNCHANGED <<sizes, encMax>>

SmallerOf(a, b) == IF a < b THEN a ELSE b

\* A dynamic table size update.
SizeUpdate(n) ==
    /\ n \in sizes
    /\ encMax' = n /\ encTable' = Evict(encTable, EncLens(encTable), n)
    /\ decMax' = SmallerOf(n, hpackMaxTableSize)
    /\ decTable' = Evict(decTable, DecLens(decTable), decMax')
    /\ UNCHANGED sizes

\* A block that does not decode resets the decoder, and the entries it saw
\* are forgotten.
DecodeError ==
    /\ ResetTable
    /\ encTable' = [i \in 1..Len(encTable) |-> [encTable[i] EXCEPT !.seen = FALSE]]
    /\ UNCHANGED <<sizes, encMax>>

HpackNext ==
    \/ \E ref \in 0..Len(encTable), name \in FieldNames, value \in FieldValues :
         Literal(ref, name, value) \/ LoseLiteral(ref, name, value)
    \/ \E n \in sizes : SizeUpdate(n)
    \/ DecodeError

HpackSpec == HpackInit /\ [][HpackNext]_hpackVars
-----------------------------------------------------------------------------
(* Properties.                                                             *)

\* A reference resolves to the field the encoder meant or to none, whatever
\* was missed, evicted or clamped: "entries the encoder still has, which then
\* read as unknown rather than wrong" (hpack.go:111).
NeverWrong ==
    \A i \in 1..Len(encTable) :
      i <= Len(decTable) =>
         /\ decTable[i].value = encTable[i].value
         /\ decTable[i].known => decTable[i].name = encTable[i].name

\* "converges on the encoder's table as its older entries are evicted"
\* (hpack.go:25): an entry inserted since the decoder last lost track is not
\* given up before the encoder does.  Of encoders that keep to the default
\* size: reset goes back to that.
Converges ==
    (\A s \in sizes : s <= hpackDefaultTableSize) =>
       \A i \in 1..Len(encTable) :
         (\A j \in 1..i : encTable[j].seen) => i <= Len(decTable)
=============================================================================
