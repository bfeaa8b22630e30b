------------------------------ MODULE LogTail ------------------------------
(***************************************************************************)
(* One container log path from the bytes the runtime writes to the saved   *)
(* position: src/logs/tail_reader.go (TailReader), src/logs/positions.go   *)
(* (Source, positions), with the parser and the delivery of records        *)
(* between them, across rotations, truncations, reader restarts, crashes   *)
(* and restarts of the agent.                                              *)
(*                                                                         *)
(* A file's content is a number of pieces.  A line is two pieces, so a     *)
(* read may find half a line at the end of the file; the second piece ends *)
(* with the newline.  The n-th piece of file f, since its e-th truncation, *)
(* is <<f, e, n>>.  Offsets count pieces.                                  *)
(*                                                                         *)
(* Records are delivered in the order they are emitted (see                *)
(* OrderedDelivery and LogDelivery): pending, and how many of its oldest   *)
(* records the collector has answered, stand for the whole exporter.       *)
(***************************************************************************)
EXTENDS Integers, Sequences, FiniteSets, SequencesExt

CONSTANTS
    MaxFiles,           \* bound: files created at the path
    MaxPieces,          \* bound: pieces written to a file
    MaxPending,         \* maxPendingRecords
    MaxPrefix,          \* maxPrefixLen, in pieces
    MaxTruncations,     \* bound: truncations of a file
    Worlds              \* what may happen to the path, see World

\* The bounds of one world (files, starts of the agent, readers opened,
\* truncations), whether a rotation renames the file before it creates the
\* next one, and whether the agent runs on the node for the first time.
World == [files : 1..MaxFiles, starts : Nat, readers : Nat, truncations : 0..MaxTruncations,
          renameGap : BOOLEAN, firstRun : BOOLEAN]

ASSUME BoundsAssumption ==
    /\ MaxFiles \in Nat \ {0} /\ MaxPieces \in Nat /\ MaxPending \in Nat \ {0}
    /\ MaxPrefix \in Nat \ {0} /\ MaxTruncations \in Nat
    /\ Worlds \subseteq World

File == 1..MaxFiles
NoFile == 0

VARIABLES
    world,      \* the world chosen at the start; it does not change
    \* the log directory
    created,    \* files created so far; file number `created` is being written
    size,       \* [File -> pieces in it]
    place,      \* [File -> "none", "path", "rotated" or "gz"]
    epoch,      \* [File -> times it was truncated]
    \* what became of the pieces
    settled,    \* pieces in records the collector accepted or rejected
    excused,    \* pieces the code says it does not deliver
    \* the agent
    up,         \* the agent runs
    starts,     \* times it was started
    readers,    \* readers opened so far
    existed,    \* positions.existed
    scanned,    \* positions.scanned
    saved,      \* positions.saved[path]
    disk,       \* the positions file
    saving,     \* the snapshot a running save() works on
    \* the reader, its Source, its parser, the delivery
    rd,         \* TailReader and the local variables of its goroutine
    src,        \* its Source
    held,       \* the message the parser is collecting
    pending,    \* delivery.pending
    answered    \* how many of them the collector has answered

fsVars == <<world, created, size, place, epoch>>
posVars == <<existed, scanned, saved, disk, saving>>
agentVars == <<up, starts, readers>>
pipeVars == <<held, pending, answered>>
vars == <<world, created, size, place, epoch, settled, excused, up, starts, readers, existed,
          scanned, saved, disk, saving, rd, src, held, pending, answered>>

NoPos == [file |-> NoFile, off |-> 0]           \* no entry, or Ino == 0
NoEntry == [gen |-> 0, pos |-> 0, pieces |-> {}]
NoReader == [pc |-> "none", file |-> NoFile, info |-> [file |-> NoFile, size |-> 0],
             next |-> <<>>, gen |-> 0, pos |-> 0, prefix |-> {}, entry |-> NoEntry]
NoSource == [gen |-> 0, files |-> <<>>]

PiecesOf(f, a, b) == {<<f, epoch[f], n>> : n \in a..b}
Written == UNION {PiecesOf(f, 1, size[f]) : f \in File}
AtPath == {f \in File : place[f] = "path"}
Current == IF AtPath = {} THEN NoFile ELSE CHOOSE f \in AtPath : TRUE

Init ==
    /\ world \in Worlds
    /\ created \in {0, 1}        \* the container may not have logged yet
    /\ \E s \in 0..MaxPieces : size = [f \in File |-> IF f <= created THEN s ELSE 0]
    /\ place = [f \in File |-> IF f <= created THEN "path" ELSE "none"]
    /\ epoch = [f \in File |-> 0]
    /\ settled = {}
    /\ excused = IF world.firstRun THEN Written ELSE {}
    /\ up = FALSE /\ starts = 0 /\ readers = 0
    /\ existed = FALSE /\ scanned = FALSE
    /\ saved = NoPos
    /\ disk = [exists |-> ~world.firstRun, pos |-> NoPos]
    /\ saving = [on |-> FALSE, pos |-> NoPos, gone |-> FALSE]
    /\ rd = NoReader
    /\ src = NoSource
    /\ held = NoEntry
    /\ pending = <<>>
    /\ answered = 0
-----------------------------------------------------------------------------
(* External: the container runtime writes, the kubelet rotates.            *)

Write ==
    /\ starts > 0 /\ created > 0 /\ size[created] < MaxPieces
    /\ size' = [size EXCEPT ![created] = @ + 1]
    /\ UNCHANGED <<world, created, place, epoch, settled, excused, agentVars, posVars, rd, src, pipeVars>>

HeldOpen == {rd.file} \union {rd.next[i] : i \in 1..Len(rd.next)}

\* A rotation renames the file at the path and gzips those rotated before,
\* which only a reader that has them open can still read.  It comes after
\* the path's first position is saved (a rotation takes longer than
\* positionsSaveInterval to come round).
Rename ==
    /\ Current # NoFile /\ created < world.files
    /\ disk.pos # NoPos
    /\ LET gz == {f \in File : place[f] = "rotated"} IN
       /\ excused' = excused \union UNION {PiecesOf(f, 1, size[f]) : f \in gz \ HeldOpen}
       /\ place' = [f \in File |-> CASE f = Current -> "rotated"
                                     [] f \in gz -> "gz"
                                     [] f = created + 1 /\ ~world.renameGap -> "path"
                                     [] OTHER -> place[f]]
    /\ created' = IF world.renameGap THEN created ELSE created + 1
    /\ UNCHANGED <<world, size, epoch, settled, agentVars, posVars, rd, src, pipeVars>>

\* The runtime reopens its log, some time after the rename.
Create ==
    /\ Current = NoFile
    /\ created' = created + 1
    /\ place' = [place EXCEPT ![created + 1] = "path"]
    /\ UNCHANGED <<world, size, epoch, settled, excused, agentVars, posVars, rd, src, pipeVars>>

\* The file at the path is truncated in place: what it held is gone.
Truncate ==
    /\ Current # NoFile /\ size[Current] > 0 /\ epoch[Current] < world.truncations
    /\ excused' = excused \union PiecesOf(Current, 1, size[Current])
    /\ size' = [size EXCEPT ![Current] = 0]
    /\ epoch' = [epoch EXCEPT ![Current] = @ + 1]
    /\ UNCHANGED <<world, created, place, settled, agentVars, posVars, rd, src, pipeVars>>
-----------------------------------------------------------------------------
(* Source: the files at the path that may have undelivered lines.          *)

\* Source.newFile; the new generation is the Source's gen.
NewFile(s, f, pos) ==
    LET entry == [gen |-> s.gen + 1, file |-> f, off |-> pos]
        n == Len(s.files)
    IN  [gen |-> s.gen + 1,
         files |-> IF n > 0 /\ s.files[n].file = f
                   THEN [s.files EXCEPT ![n] = entry]
                   ELSE Append(s.files, entry)]

\* Source.ack: an unknown generation is ignored.
AckSource(s, gen, pos) ==
    LET known == {i \in 1..Len(s.files) : s.files[i].gen = gen} IN
    IF known = {} THEN s
    ELSE LET i == CHOOSE i \in known : TRUE
             kept == SubSeq(s.files, i, Len(s.files))
         IN  [s EXCEPT !.files = [kept EXCEPT ![1].off = IF @ >= pos THEN @ ELSE pos]]

\* Mutant of Position: the file being read, not the oldest with lines pending.
MutantPosition(s) ==
    IF s.files = <<>> THEN NoPos
    ELSE [file |-> s.files[Len(s.files)].file, off |-> s.files[Len(s.files)].off]

\* Source.position
Position(s) ==
    IF s.files = <<>> THEN NoPos
    ELSE [file |-> s.files[1].file, off |-> s.files[1].off]

\* useFile: the reader r on file f from pos, with info; and its Source.
UseFile(r, f, info, pos) ==
    /\ rd' = [r EXCEPT !.file = f, !.info = info, !.pos = pos, !.gen = src.gen + 1]
    /\ src' = NewFile(src, info.file, pos)
-----------------------------------------------------------------------------
(* The reader.                                                             *)

Stat(f) == [file |-> f, size |-> size[f]]

\* Mutant of StartOffset: reading starts at the end, as without positions.
MutantStartOffset(f) == size[f]

\* positions.startOffset
StartOffset(f) ==
    IF saved # NoPos /\ saved.file = f /\ saved.off <= size[f] THEN saved.off
    ELSE IF saved # NoPos \/ existed \/ scanned THEN 0
    ELSE size[f]

\* positions.rotatedFile: the saved file, still in the directory.
RotatedFile(f) ==
    /\ saved # NoPos /\ saved.file # f
    /\ place[saved.file] = "rotated"
    /\ size[saved.file] >= saved.off

\* NewTailReader.  Files rotated between the saved one and the current one
\* are not read (savedPosition.Skipped), nor are the lines from before the
\* agent was installed.
StartReader ==
    /\ up /\ rd.pc = "none" /\ readers < world.readers
    /\ readers' = readers + 1
    /\ LET f == Current
           r == [NoReader EXCEPT !.pc = "loop"]
           skipped == {g \in File : saved # NoPos /\ saved.file < g /\ g < f}
           installing == starts = 1 /\ saved = NoPos /\ ~existed /\ ~scanned
       IN  IF f = NoFile
           THEN /\ rd' = r
                /\ src' = NoSource
                /\ UNCHANGED excused
           ELSE /\ excused' = excused
                      \union UNION {PiecesOf(g, 1, size[g]) : g \in skipped}
                      \union (IF installing THEN PiecesOf(f, 1, size[f]) ELSE {})
                /\ LET g == IF RotatedFile(f) THEN saved.file ELSE f
                       pos == IF RotatedFile(f) THEN saved.off ELSE StartOffset(f)
                   IN  /\ rd' = [r EXCEPT !.file = g, !.info = Stat(g), !.pos = pos, !.gen = 1,
                                          !.next = IF RotatedFile(f) THEN <<f>> ELSE <<>>]
                       /\ src' = NewFile(NoSource, g, pos)
    /\ UNCHANGED <<fsVars, settled, up, starts, posVars, pipeVars>>

MayRead == Len(pending) < MaxPending

\* Mutant of SwitchToNext: half a line is kept for the next file.
MutantSwitchToNext(r) ==
    UseFile([r EXCEPT !.pc = "loop", !.next = Tail(r.next)],
            Head(r.next), Stat(Head(r.next)), 0)

\* switchToNext: the next file, from its start.
SwitchToNext(r) ==
    UseFile([r EXCEPT !.pc = "loop", !.prefix = {}, !.next = Tail(r.next)],
            Head(r.next), Stat(Head(r.next)), 0)

LineEnd(pos) == 2 * (pos \div 2) + 2

\* A turn of the reader's loop with a file open: wait, ReadString, and what
\* follows up to the next send or poll.
ReadLine ==
    /\ rd.pc = "loop" /\ MayRead /\ rd.file # NoFile
    /\ LET end == LineEnd(rd.pos)
           avail == size[rd.file]
           text == PiecesOf(rd.file, rd.pos + 1, IF end <= avail THEN end ELSE avail)
           whole == rd.prefix \union text
           pos == IF end <= avail THEN end ELSE IF rd.pos <= avail THEN avail ELSE rd.pos
           r == [rd EXCEPT !.pos = pos]
           entry == [gen |-> rd.gen, pos |-> pos, pieces |-> whole]
       IN  IF end <= avail
           THEN /\ rd' = [r EXCEPT !.pc = "send", !.prefix = {}, !.entry = entry]
                /\ UNCHANGED src
           ELSE LET prefix == IF Cardinality(whole) > MaxPrefix THEN {} ELSE whole IN
                IF rd.next = <<>>
                THEN /\ rd' = [r EXCEPT !.pc = "poll", !.prefix = prefix]
                     /\ UNCHANGED src
                ELSE IF prefix # {}
                THEN /\ rd' = [r EXCEPT !.pc = "sendLast", !.prefix = prefix, !.entry = entry]
                     /\ UNCHANGED src
                ELSE SwitchToNext(r)
    /\ UNCHANGED <<fsVars, settled, excused, agentVars, posVars, pipeVars>>

\* With no file open the loop goes straight to poll.
PollForFile ==
    /\ rd.pc = "loop" /\ MayRead /\ rd.file = NoFile
    /\ rd' = [rd EXCEPT !.pc = "poll"]
    /\ UNCHANGED <<fsVars, settled, excused, agentVars, posVars, src, pipeVars>>

\* The parser takes the line: it starts a message, or joins the one it holds.
SendLine ==
    /\ rd.pc \in {"send", "sendLast"}
    /\ held' = [rd.entry EXCEPT !.pieces = @ \union held.pieces]
    /\ LET r == [rd EXCEPT !.pc = "loop", !.entry = NoEntry] IN
       IF rd.pc = "send"
       THEN rd' = r /\ UNCHANGED src
       ELSE SwitchToNext(r)
    /\ UNCHANGED <<fsVars, settled, excused, agentVars, posVars, pending, answered>>

\* Mutant of RotatedAfter: the reader goes straight to the file at the path.
MutantRotatedAfter(cur) == <<>>

\* rotatedAfter: the readable files rotated after the reader's and before cur.
\* The reader's file is found by its inode or, gzipped, by its size.
RotatedAfter(cur) ==
    LET inDir == {f \in File : place[f] \in {"rotated", "gz"}}
        isOld(f) == \/ place[f] = "rotated" /\ f = rd.info.file
                    \/ place[f] = "gz" /\ size[f] = size[rd.file]
        olds == {f \in inDir : isOld(f)}
        after == IF olds = {} THEN inDir
                 ELSE LET o == CHOOSE o \in olds : \A p \in olds : o <= p
                      IN  {f \in inDir : f > o}
        readable == {f \in after : place[f] = "rotated" /\ f # cur}
    IN  SetToSortSeq(readable, LAMBDA a, b : a < b)

\* A tick of poll.
Poll ==
    /\ rd.pc = "poll"
    /\ LET cur == Current IN
       \/ /\ cur = NoFile                               \* stat fails
          /\ rd.file # NoFile
          /\ rd' = [rd EXCEPT !.file = NoFile]
          /\ UNCHANGED src
       \/ /\ cur # NoFile /\ rd.file = NoFile           \* the file appeared
          /\ UseFile([rd EXCEPT !.pc = "loop"], cur, Stat(cur), 0)
       \/ /\ cur # NoFile /\ rd.file # NoFile
          /\ \/ /\ cur # rd.info.file                   \* moved
                /\ rd' = [rd EXCEPT !.pc = "loop", !.next = Append(RotatedAfter(cur), cur)]
                /\ UNCHANGED src
             \/ /\ cur = rd.info.file /\ size[cur] < rd.info.size   \* truncated
                /\ UseFile([rd EXCEPT !.pc = "loop"], cur, Stat(cur), 0)
             \/ /\ cur = rd.info.file /\ size[cur] > rd.info.size   \* appended
                /\ rd' = [rd EXCEPT !.pc = "loop", !.info = Stat(cur)]
                /\ UNCHANGED src
    /\ UNCHANGED <<fsVars, settled, excused, agentVars, posVars, pipeVars>>
\* LogParser.Stop: the reader returns from wait, send or poll, and untrack
\* keeps its position.  The parser drops what it holds; pending records stay,
\* but their Source is no longer the path's.
StopReader ==
    /\ up /\ rd.pc # "none" /\ readers < world.readers
    /\ saved' = IF Position(src) # NoPos THEN Position(src) ELSE saved
    /\ excused' = excused \union UNION {PiecesOf(f, 1, size[f]) : f \in {g \in File : place[g] = "gz"}}
    /\ rd' = NoReader
    /\ src' = NoSource
    /\ held' = NoEntry
    /\ pending' = [i \in 1..Len(pending) |-> [pending[i] EXCEPT !.live = FALSE]]
    /\ UNCHANGED <<fsVars, settled, agentVars, existed, scanned, disk, saving, answered>>
-----------------------------------------------------------------------------
(* The delivery, as OrderedDelivery promises it.                           *)

\* External parser: it passes the message on, with the offset of its last line.
ParserEmit ==
    /\ held # NoEntry
    /\ pending' = Append(pending, [live |-> TRUE, gen |-> held.gen, pos |-> held.pos,
                                   pieces |-> held.pieces])
    /\ held' = NoEntry
    /\ UNCHANGED <<fsVars, settled, excused, agentVars, posVars, rd, src, answered>>

\* The collector accepts or rejects a batch: the oldest n records.
Answer ==
    /\ up /\ answered = 0
    /\ \E n \in 1..Len(pending) :
         /\ answered' = n
         /\ settled' = settled \union UNION {pending[i].pieces : i \in 1..n}
    /\ UNCHANGED <<fsVars, excused, agentVars, posVars, rd, src, held, pending>>

\* done() acknowledges them to their Sources one after the other.
DoneNext ==
    /\ up /\ answered > 0
    /\ LET rec == Head(pending) IN
       src' = IF rec.live THEN AckSource(src, rec.gen, rec.pos) ELSE src
    /\ pending' = Tail(pending)
    /\ answered' = answered - 1
    /\ UNCHANGED <<fsVars, settled, excused, agentVars, posVars, rd, held>>
-----------------------------------------------------------------------------
(* positions: save, load and the initial scan.                             *)

\* positions.stillThere
StillThere(f) == place[f] \in {"path", "rotated"}

\* save() clones saved and stats the file outside the lock.
SaveBegin ==
    /\ up /\ ~saving.on
    /\ saving' = [on |-> TRUE, pos |-> saved,
                  gone |-> saved # NoPos /\ ~StillThere(saved.file)]
    /\ UNCHANGED <<fsVars, settled, excused, agentVars, existed, scanned, saved, disk, rd, src, pipeVars>>

\* Then, under the lock, it drops a file that is gone, unless its position
\* changed meanwhile, and writes the file, replacing the last one at once.
\* Without a saved position the files rotated after it are not read either.
SaveEnd ==
    /\ up /\ saving.on
    /\ saved' = IF saving.gone /\ saved = saving.pos THEN NoPos ELSE saved
    /\ excused' = IF saved' = saved THEN excused
                  ELSE excused \union UNION {PiecesOf(f, 1, size[f]) : f \in {g \in File : place[g] = "rotated"}}
    /\ disk' = [exists |-> TRUE,
                pos |-> IF Position(src) # NoPos THEN Position(src) ELSE saved']
    /\ saving' = [on |-> FALSE, pos |-> NoPos, gone |-> FALSE]
    /\ UNCHANGED <<fsVars, settled, agentVars, existed, scanned, rd, src, pipeVars>>

InitialScanDone ==
    /\ up /\ ~scanned
    /\ scanned' = TRUE
    /\ UNCHANGED <<fsVars, settled, excused, agentVars, existed, saved, disk, saving, rd, src, pipeVars>>

\* Init: loadPositions.
Start ==
    /\ ~up /\ starts < world.starts
    /\ up' = TRUE
    /\ starts' = starts + 1
    /\ existed' = disk.exists
    /\ saved' = disk.pos
    /\ UNCHANGED <<fsVars, settled, excused, readers, scanned, disk, saving, rd, src, pipeVars>>

\* The agent dies, or exits after Shutdown: what it had in memory is gone,
\* and a gzipped file it had open cannot be opened again.
Crash ==
    /\ up /\ starts < world.starts /\ readers < world.readers
    /\ up' = FALSE
    /\ excused' = excused \union UNION {PiecesOf(f, 1, size[f]) : f \in {g \in File : place[g] = "gz"}}
    /\ existed' = FALSE /\ scanned' = FALSE
    /\ saved' = NoPos
    /\ saving' = [on |-> FALSE, pos |-> NoPos, gone |-> FALSE]
    /\ rd' = NoReader /\ src' = NoSource
    /\ held' = NoEntry /\ pending' = <<>> /\ answered' = 0
    /\ UNCHANGED <<fsVars, settled, starts, readers, disk>>
-----------------------------------------------------------------------------
FileSystem == Write \/ Rename \/ Create \/ Truncate
Reader == StartReader \/ ReadLine \/ PollForFile \/ SendLine \/ Poll
Delivery == ParserEmit \/ Answer \/ DoneNext
Positions == SaveBegin \/ SaveEnd \/ InitialScanDone

Next == FileSystem \/ Reader \/ StopReader \/ Delivery \/ Positions \/ Start \/ Crash

Spec == Init /\ [][Next]_vars

\* The agent is restarted, its goroutines run, the collector answers, and the
\* runtime reopens its log after a rename.  Files need not grow or rotate.
FairSpec ==
    /\ Spec
    /\ WF_vars(Start) /\ WF_vars(StartReader) /\ WF_vars(Create)
    /\ WF_vars(ReadLine) /\ WF_vars(PollForFile) /\ WF_vars(SendLine) /\ WF_vars(Poll)
    /\ WF_vars(ParserEmit) /\ WF_vars(Answer) /\ WF_vars(DoneNext)
-----------------------------------------------------------------------------
(* Properties.                                                             *)

\* The pieces before a position, which a reader resuming there does not read.
Before(pos) ==
    UNION {PiecesOf(f, 1, IF f < pos.file THEN size[f] ELSE IF f = pos.file THEN pos.off ELSE 0) : f \in File}

\* Where the next reader of the path would resume: from the tracked Source,
\* the kept position, or after a crash the positions file.
ResumePositions ==
    {disk.pos} \union (IF up THEN {saved, Position(src)} ELSE {})

\* "a file's position is saved only up to the lines whose records the
\* collector has accepted" (delivery.go:21): nothing before any position a
\* reader may resume from is undelivered, in the same file or an older one
\* (a position in a file that was truncated is one in its earlier content).
PositionNeverAhead ==
    world.truncations = 0 =>
        \A pos \in ResumePositions : Before(pos) \subseteq settled \union excused

\* Pieces read and not settled, and pieces the running reader is yet to read.
InPipe == rd.prefix \union rd.entry.pieces \union held.pieces
            \union UNION {pending[i].pieces : i \in 1..Len(pending)}
Ahead ==
    LET last == IF src.files = <<>> THEN NoFile ELSE src.files[Len(src.files)].file IN
    UNION {PiecesOf(f, IF f = last THEN rd.pos + 1 ELSE 1, size[f]) : f \in last..MaxFiles \ {NoFile}}

\* "an agent restart or a collector or ClickHouse outage delays lines rather
\* than dropping them" (delivery.go:22): while a reader runs, every piece
\* written was settled, is on its way, or is ahead of the reader, unless the
\* code says it is not delivered.  It is so if the path never goes missing.
NothingDropped ==
    rd.pc # "none" /\ ~world.renameGap => Written \subseteq settled \union excused \union InPipe \union Ahead

\* A record's text comes from one file: half a line read at the end of one is
\* not joined to the first line of the next, if the path never goes missing.
LinesNotSpliced ==
    ~world.renameGap /\ world.truncations = 0 =>
        \A p, q \in rd.prefix \union rd.entry.pieces : p[1] = q[1]

\* Whole lines, and what a rotated file ends with.
Lines == UNION {PiecesOf(f, 1, IF f = created THEN 2 * (size[f] \div 2) ELSE size[f]) : f \in File}

\* Delivery is at least once: every line is in the end accepted or rejected
\* by the collector, through outages, rotations, crashes and reader restarts,
\* unless the code says it is not delivered.
AllLinesSettle == <>[](Lines \subseteq settled \union excused)
=============================================================================
