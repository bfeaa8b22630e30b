---------------------------- MODULE HpackProofs -----------------------------
(***************************************************************************)
(* That the HPACK decoder never resolves a reference to the wrong field,   *)
(* for every set of names and values, every length and every table size.   *)
(***************************************************************************)
EXTENDS Hpack, FiniteSetTheorems, TLAPS

EncEntry == [name : FieldNames, value : FieldValues, seen : BOOLEAN]
DecEntry == [name : FieldNames \cup {""}, value : FieldValues, known : BOOLEAN]

\* The tables are sequences of entries; NeverWrong is inductive with this.
TablesTyped == encTable \in Seq(EncEntry) /\ decTable \in Seq(DecEntry)

\* evict leaves some of the newest entries: a number of them between none
\* and all.
LEMMA LeftBounded ==
    ASSUME NEW n \in Nat, NEW lens, Len(lens) = n, NEW room, NEW max
    PROVE  Left(lens, room, max) \in 0..n
<1> DEFINE S == {k \in 1..n : Upto(lens, k) + room <= max}
<1>1. IsFiniteSet(1..n) /\ Cardinality(1..n) = n
  BY FS_Interval
<1>2. IsFiniteSet(S) /\ Cardinality(S) <= Cardinality(1..n)
  BY <1>1, FS_Subset
<1>3. Cardinality(S) \in Nat
  BY <1>2, FS_CardinalityType
<1>4. Left(lens, room, max) = Cardinality(S)
  BY DEF Left
<1> QED
  BY <1>1, <1>2, <1>3, <1>4

\* insert gives a table that has the new entry first and then the newest of
\* the old ones, or an empty one.
LEMMA InsertShape ==
    ASSUME NEW E, NEW table \in Seq(E), NEW lens, Len(lens) = Len(table),
           NEW max, NEW e \in E, NEW len
    PROVE  LET new == Insert(table, lens, max, e, len) IN
             /\ new \in Seq(E)
             /\ Len(new) <= Len(table) + 1
             /\ \A i \in 1..Len(new) : new[i] = IF i = 1 THEN e ELSE table[i - 1]
<1> DEFINE k == Left(lens, len, max)
<1>1. Len(table) \in Nat
  OBVIOUS
<1>2. k \in 0..Len(table)
  BY <1>1, LeftBounded
<1>3. CASE len > max
  BY <1>1, <1>3 DEF Insert
<1>4. CASE ~(len > max)
  <2> HIDE DEF k
  <2> DEFINE new == [i \in 1..(k + 1) |-> IF i = 1 THEN e ELSE table[i - 1]]
  <2>1. Insert(table, lens, max, e, len) = new
    BY <1>4 DEF Insert, k
  <2>2. \A i \in 1..(k + 1) : new[i] \in E
    BY <1>1, <1>2
  <2>3. new \in Seq(E) /\ Len(new) = k + 1
    BY <1>1, <1>2, <2>2
  <2> QED
    BY <1>1, <1>2, <2>1, <2>3
<1> QED
  BY <1>3, <1>4

\* evict(0) gives the newest entries of the table.
LEMMA EvictShape ==
    ASSUME NEW E, NEW table \in Seq(E), NEW lens, Len(lens) = Len(table), NEW max
    PROVE  LET new == Evict(table, lens, max) IN
             /\ new \in Seq(E)
             /\ Len(new) <= Len(table)
             /\ \A i \in 1..Len(new) : new[i] = table[i]
<1> DEFINE k == Left(lens, 0, max)
<1>1. Len(table) \in Nat
  OBVIOUS
<1>2. k \in 0..Len(table)
  BY <1>1, LeftBounded
<1> HIDE DEF k
<1>3. Evict(table, lens, max) = SubSeq(table, 1, k)
  BY DEF Evict, k
<1> QED
  BY <1>1, <1>2, <1>3

\* The two tables stay aligned when each inserts its form of the same field.
LEMMA BothInsert ==
    ASSUME TablesTyped, NeverWrong,
           NEW e \in EncEntry, NEW d \in DecEntry,
           d.value = e.value, d.known => d.name = e.name,
           InsertEnc(e), InsertDec(d)
    PROVE  TablesTyped' /\ NeverWrong'
<1>1. Len(EncLens(encTable)) = Len(encTable) /\ Len(DecLens(decTable)) = Len(decTable)
  BY DEF EncLens, DecLens, TablesTyped
<1>2. /\ encTable' \in Seq(EncEntry) /\ Len(encTable') <= Len(encTable) + 1
      /\ \A i \in 1..Len(encTable') : encTable'[i] = IF i = 1 THEN e ELSE encTable[i - 1]
  <2>1. encTable \in Seq(EncEntry)
    BY DEF TablesTyped
  <2> QED
    BY <1>1, <2>1, InsertShape DEF InsertEnc
<1>3. /\ decTable' \in Seq(DecEntry) /\ Len(decTable') <= Len(decTable) + 1
      /\ \A i \in 1..Len(decTable') : decTable'[i] = IF i = 1 THEN d ELSE decTable[i - 1]
  <2>1. decTable \in Seq(DecEntry)
    BY DEF TablesTyped
  <2> QED
    BY <1>1, <2>1, InsertShape DEF InsertDec
<1>4. ASSUME NEW i \in 1..Len(encTable'), i <= Len(decTable')
      PROVE  /\ decTable'[i].value = encTable'[i].value
             /\ decTable'[i].known => decTable'[i].name = encTable'[i].name
  <2>1. Len(encTable) \in Nat /\ Len(decTable) \in Nat /\ Len(encTable') \in Nat /\ Len(decTable') \in Nat
    BY <1>2, <1>3 DEF TablesTyped
  <2>2. CASE i = 1
    BY <1>2, <1>3, <1>4, <2>1, <2>2
  <2>3. CASE i # 1
    <3>1. i - 1 \in 1..Len(encTable) /\ i - 1 <= Len(decTable)
      BY <1>2, <1>3, <1>4, <2>1, <2>3
    <3>2. encTable'[i] = encTable[i - 1] /\ decTable'[i] = decTable[i - 1]
      BY <1>2, <1>3, <1>4, <2>1, <2>3
    <3> QED
      BY <3>1, <3>2 DEF NeverWrong
  <2> QED
    BY <2>2, <2>3
<1> QED
  BY <1>2, <1>3, <1>4 DEF TablesTyped, NeverWrong

\* What the encoder's index of a name gives is a name.
LEMMA NameAtTyped ==
    ASSUME TablesTyped, NEW ref \in 0..Len(encTable), NEW name \in FieldNames
    PROVE  NameAt(ref, name) \in FieldNames
<1>1. CASE ref = 0
  BY <1>1 DEF NameAt
<1>2. CASE ref # 0
  <2>1. encTable \in Seq(EncEntry) /\ ref \in 1..Len(encTable)
    BY <1>2 DEF TablesTyped
  <2>2. encTable[ref] \in EncEntry
    BY <2>1
  <2> QED
    BY <1>2, <2>2 DEF NameAt, EncEntry
<1> QED
  BY <1>1, <1>2

\* A literal keeps the tables aligned: the decoder inserts an entry whether
\* or not it knows the name, and knows only the name the encoder means.
LEMMA LiteralAligned ==
    ASSUME TablesTyped, NeverWrong,
           NEW ref \in 0..Len(encTable), NEW name \in FieldNames, NEW value \in FieldValues,
           Literal(ref, name, value)
    PROVE  TablesTyped' /\ NeverWrong'
<1> DEFINE e == [name |-> NameAt(ref, name), value |-> value, seen |-> TRUE]
           d == [name |-> IF ref = 0 THEN name ELSE IF Resolved(ref) THEN decTable[ref].name ELSE "",
                 value |-> value, known |-> Resolved(ref)]
<1>1. Len(encTable) \in Nat /\ Len(decTable) \in Nat
  BY DEF TablesTyped
<1>2. e \in EncEntry
  BY NameAtTyped DEF EncEntry
<1>3. Resolved(ref) \in BOOLEAN
  <2>1. CASE ref = 0
    BY <2>1 DEF Resolved
  <2>2. CASE ref # 0 /\ ref <= Len(decTable)
    <3>1. decTable[ref] \in DecEntry
      BY <1>1, <2>2 DEF TablesTyped
    <3>2. decTable[ref].known \in BOOLEAN
      BY <3>1 DEF DecEntry
    <3> QED
      BY <2>2, <3>2 DEF Resolved
  <2>3. CASE ref # 0 /\ ~(ref <= Len(decTable))
    BY <2>3 DEF Resolved
  <2> QED
    BY <2>1, <2>2, <2>3
<1>4. d.name \in FieldNames \cup {""}
  <2>1. ASSUME ref # 0, Resolved(ref) PROVE decTable[ref].name \in FieldNames \cup {""}
    <3>1. decTable \in Seq(DecEntry) /\ ref \in 1..Len(decTable)
      BY <1>1, <2>1 DEF Resolved, TablesTyped
    <3>2. decTable[ref] \in DecEntry
      BY <3>1
    <3> QED
      BY <3>2 DEF DecEntry
  <2> QED
    BY <2>1
<1>5. d \in DecEntry
  BY <1>3, <1>4 DEF DecEntry
<1>6. ASSUME Resolved(ref) PROVE d.name = e.name
  <2>1. CASE ref = 0
    BY <2>1 DEF NameAt
  <2>2. CASE ref # 0
    <3>1. ref \in 1..Len(encTable) /\ ref <= Len(decTable) /\ decTable[ref].known
      BY <1>1, <1>6, <2>2 DEF Resolved
    <3>2. decTable[ref].name = encTable[ref].name
      BY <3>1 DEF NeverWrong
    <3> QED
      BY <1>6, <2>2, <3>2 DEF NameAt
  <2> QED
    BY <2>1, <2>2
<1>7. InsertEnc(e) /\ InsertDec(d)
  BY DEF Literal, Encode, DecodeLiteral
<1>8. d.value = e.value /\ (d.known => d.name = e.name)
  BY <1>6
<1> HIDE DEF e, d
<1> QED
  BY <1>2, <1>5, <1>7, <1>8, BothInsert

\* A block the decoder knows it missed leaves it with nothing to be wrong
\* about.
LEMMA LoseAligned ==
    ASSUME TablesTyped, NEW ref \in 0..Len(encTable), NEW name \in FieldNames, NEW value \in FieldValues,
           LoseLiteral(ref, name, value)
    PROVE  TablesTyped' /\ NeverWrong'
<1> DEFINE e == [name |-> NameAt(ref, name), value |-> value, seen |-> FALSE]
<1>1. encTable \in Seq(EncEntry) /\ Len(encTable) \in Nat
  BY DEF TablesTyped
<1>2. e \in EncEntry
  BY NameAtTyped DEF EncEntry
<1>3. Len(EncLens(encTable)) = Len(encTable)
  BY <1>1 DEF EncLens
<1>4. encTable' = Insert(encTable, EncLens(encTable), encMax, e, EncLen(e))
  BY DEF LoseLiteral, Encode, InsertEnc
<1> HIDE DEF e
<1>5. encTable' \in Seq(EncEntry)
  BY <1>1, <1>2, <1>3, <1>4, InsertShape
<1>6. decTable' = <<>>
  BY DEF LoseLiteral, ResetTable
<1> QED
  BY <1>5, <1>6 DEF TablesTyped, NeverWrong

\* A size update evicts from the old end of each table, and so moves no index.
LEMMA SizeUpdateAligned ==
    ASSUME TablesTyped, NeverWrong, NEW n, SizeUpdate(n)
    PROVE  TablesTyped' /\ NeverWrong'
<1>1. /\ encTable \in Seq(EncEntry) /\ decTable \in Seq(DecEntry)
      /\ Len(EncLens(encTable)) = Len(encTable) /\ Len(DecLens(decTable)) = Len(decTable)
  BY DEF TablesTyped, EncLens, DecLens
<1>2. /\ encTable' \in Seq(EncEntry) /\ Len(encTable') <= Len(encTable)
      /\ \A i \in 1..Len(encTable') : encTable'[i] = encTable[i]
  BY <1>1, EvictShape DEF SizeUpdate
<1>3. /\ decTable' \in Seq(DecEntry) /\ Len(decTable') <= Len(decTable)
      /\ \A i \in 1..Len(decTable') : decTable'[i] = decTable[i]
  BY <1>1, EvictShape DEF SizeUpdate
<1>4. ASSUME NEW i \in 1..Len(encTable'), i <= Len(decTable')
      PROVE  i \in 1..Len(encTable) /\ i <= Len(decTable) /\ i \in 1..Len(decTable')
  BY <1>1, <1>2, <1>3, <1>4
<1> QED
  BY <1>2, <1>3, <1>4 DEF TablesTyped, NeverWrong

\* hpackDecoder never resolves a reference to a field other than the one the
\* encoder means: not after a block it knows it missed, a size update it
\* clamps, or a literal whose name it does not hold.
THEOREM DecoderNeverWrong == HpackSpec => []NeverWrong
<1>1. HpackInit => TablesTyped /\ NeverWrong
  BY DEF HpackInit, TablesTyped, NeverWrong
<1>2. TablesTyped /\ NeverWrong /\ [HpackNext]_hpackVars => TablesTyped' /\ NeverWrong'
  <2> SUFFICES ASSUME TablesTyped, NeverWrong, [HpackNext]_hpackVars
               PROVE  TablesTyped' /\ NeverWrong'
    OBVIOUS
  <2>1. ASSUME NEW ref \in 0..Len(encTable), NEW name \in FieldNames, NEW value \in FieldValues,
               Literal(ref, name, value)
        PROVE  TablesTyped' /\ NeverWrong'
    BY <2>1, LiteralAligned
  <2>2. ASSUME NEW ref \in 0..Len(encTable), NEW name \in FieldNames, NEW value \in FieldValues,
               LoseLiteral(ref, name, value)
        PROVE  TablesTyped' /\ NeverWrong'
    BY <2>2, LoseAligned
  <2>3. ASSUME NEW n \in sizes, SizeUpdate(n) PROVE TablesTyped' /\ NeverWrong'
    BY <2>3, SizeUpdateAligned
  <2>4. CASE DecodeError
    <3>1. decTable' = <<>>
      BY <2>4 DEF DecodeError, ResetTable
    <3>2. encTable' \in Seq(EncEntry)
      <4>1. encTable \in Seq(EncEntry) /\ Len(encTable) \in Nat
        BY DEF TablesTyped
      <4>2. ASSUME NEW i \in 1..Len(encTable) PROVE [encTable[i] EXCEPT !.seen = FALSE] \in EncEntry
        <5>1. encTable[i] \in EncEntry
          BY <4>1
        <5> QED
          BY <5>1 DEF EncEntry
      <4> QED
        BY <2>4, <4>1, <4>2 DEF DecodeError
    <3> QED
      BY <3>1, <3>2 DEF TablesTyped, NeverWrong
  <2>5. CASE UNCHANGED hpackVars
    BY <2>5 DEF hpackVars, TablesTyped, NeverWrong
  <2> QED
    BY <2>1, <2>2, <2>3, <2>4, <2>5 DEF HpackNext
<1> QED
  BY <1>1, <1>2, PTL DEF HpackSpec
=============================================================================
