--------------------------- MODULE Http2Framing -----------------------------
(***************************************************************************)
(* How Http2Parser.Parse (src/ebpftracer/l7/http2.go) keeps its place in   *)
(* one direction of an HTTP/2 connection of which the kernel captures only *)
(* the first bytes of each read, and some reads not at all.                *)
(*                                                                         *)
(* The connection is a sequence of frames; the first unit of a frame is    *)
(* its header.  A parser that is not at the start of a frame takes what it *)
(* finds for a frame header: what that says is part of the connection      *)
(* (garbage), and so is the outcome of the choice.  That garbage is taken  *)
(* for a frame with HPACK data is left out.                                *)
(***************************************************************************)
EXTENDS Naturals, Sequences, FiniteSets

CONSTANTS
    FrameWorlds,     \* connections: frames and their units, the units captured of a read,
                     \* the longest read, the length a unit has as a frame header, whether
                     \* reads are lost and whether it is slow enough for GC
    maxPartial       \* units of a partial frame that are kept

VARIABLES
    wire,            \* the connection
    pos,             \* units the program has read
    lostReads,       \* reads were lost since the last one captured
    partialFrame,    \* units that wait for the rest of their frame
    skipUnits,       \* units to skip at the start of the next read
    pendingHeaders,  \* the frame that began the header block being put together, or 0
    aligned,         \* the last header block in the HPACK table, 0 after a reset
    missedBlock      \* a block was decoded with another missing before it

frameVars == <<wire, pos, lostReads, partialFrame, skipUnits, pendingHeaders, aligned, missedBlock>>

\* The units of the connection: the frame each is of and its place there.
UnitsOf(frames) ==
    LET until[k \in 0..Len(frames)] == IF k = 0 THEN 0 ELSE until[k - 1] + frames[k].len
        frameOf(i) == CHOOSE k \in 1..Len(frames) : until[k - 1] < i /\ i <= until[k]
    IN [i \in 1..until[Len(frames)] |-> [frame |-> frameOf(i), at |-> i - until[frameOf(i) - 1]]]

FrameInit ==
    /\ wire \in FrameWorlds
    /\ pos = 0 /\ lostReads = FALSE
    /\ partialFrame = <<>> /\ skipUnits = 0 /\ pendingHeaders = 0
    /\ aligned = 0 /\ missedBlock = FALSE
-----------------------------------------------------------------------------
(* The parser's state, as Parse's steps pass it on.                        *)

ParserState == [partial |-> partialFrame, skip |-> skipUnits, pending |-> pendingHeaders,
                aligned |-> aligned, missed |-> missedBlock]

\* resetDecoder.
ResetDecoder(p) == [p EXCEPT !.aligned = 0]

\* dropPendingHeaders.
DropPendingHeaders(p) == IF p.pending = 0 THEN p ELSE ResetDecoder([p EXCEPT !.pending = 0])

\* Lost.
LostEvents(p) ==
    IF lostReads THEN ResetDecoder([p EXCEPT !.partial = <<>>, !.skip = 0, !.pending = 0]) ELSE p

\* Which header block a frame ends: the number of those that end with it.
BlockOf(k) == Cardinality({j \in 1..k : wire.frames[j].kind \in {"headers", "cont"} /\ wire.frames[j].ends})

\* decodeHeaderBlock, for the table: block b is decoded.
DecodeBlock(p, b) ==
    [p EXCEPT !.aligned = b, !.missed = @ \/ (p.aligned # 0 /\ p.aligned # b - 1)]

\* What the frame header at a unit says.
FrameLen(u) == IF u.at = 1 THEN wire.frames[u.frame].len ELSE wire.garbage[u.at]
FrameKind(u) == IF u.at = 1 THEN wire.frames[u.frame].kind ELSE "data"

\* A HEADERS frame.
OnHeaders(p, k) ==
    LET q == DropPendingHeaders(p)
    IN IF wire.frames[k].ends THEN DecodeBlock(q, BlockOf(k)) ELSE [q EXCEPT !.pending = k]

\* A CONTINUATION frame (every frame of the model is of one stream at a time).
OnContinuation(p, k) ==
    IF p.pending = 0 THEN ResetDecoder(p)
    ELSE IF wire.frames[k].ends THEN DecodeBlock([p EXCEPT !.pending = 0], BlockOf(k)) ELSE p

OnFrame(p, u) ==
    CASE FrameKind(u) = "headers" -> OnHeaders(p, u.frame)
      [] FrameKind(u) = "cont"    -> OnContinuation(p, u.frame)
      [] OTHER                    -> p

\* The loop over the frames of payload: the state, and the units left over.
\* A length of 0 is that of no frame: the rest is consumed.
RECURSIVE FrameLoop(_, _)
FrameLoop(p, payload) ==
    IF payload = <<>> THEN [state |-> p, rest |-> <<>>]
    ELSE LET u == payload[1]
             len == FrameLen(u)
         IN CASE len = 0           -> [state |-> p, rest |-> <<>>]
              [] len > Len(payload) -> [state |-> p, rest |-> payload]
              [] OTHER             -> FrameLoop(OnFrame(p, u), SubSeq(payload, len + 1, Len(payload)))

\* Mutant of AfterCut: the table is kept whenever the cut frame's end is known.
MutantAfterCut(p, rest, missing) ==
    LET inside == rest # <<>> /\ FrameLen(rest[1]) >= Len(rest) + missing
        q == [p EXCEPT !.partial = <<>>, !.skip = IF inside THEN FrameLen(rest[1]) - Len(rest) - missing ELSE @]
    IN DropPendingHeaders(IF inside THEN q ELSE ResetDecoder(q))

\* The end of Parse, for a read whose tail was not captured.
AfterCut(p, rest, missing) ==
    LET inside == rest # <<>> /\ FrameLen(rest[1]) >= Len(rest) + missing
        q == [p EXCEPT !.partial = <<>>, !.skip = IF inside THEN FrameLen(rest[1]) - Len(rest) - missing ELSE @]
    IN DropPendingHeaders(
         IF inside /\ FrameKind(rest[1]) \notin {"headers", "cont"} THEN q ELSE ResetDecoder(q))

\* The rest of Parse, after the skip.
ParseFrames(p, payload, missing) ==
    LET kept == Len(p.partial) <= maxPartial
        q == IF kept THEN p ELSE ResetDecoder(p)
        loop == FrameLoop([q EXCEPT !.partial = <<>>], IF kept THEN p.partial \o payload ELSE payload)
    IN IF missing > 0 THEN AfterCut(loop.state, loop.rest, missing)
       ELSE [loop.state EXCEPT !.partial = loop.rest]

\* Parse.
Parse(p, payload, missing) ==
    CASE p.skip = 0            -> ParseFrames(p, payload, missing)
      [] p.skip > 0 /\ p.skip >= Len(payload) + missing -> [p EXCEPT !.skip = @ - Len(payload) - missing]
      [] p.skip > 0 /\ p.skip <= Len(payload) /\ p.skip < Len(payload) + missing ->
           ParseFrames([p EXCEPT !.skip = 0], SubSeq(payload, p.skip + 1, Len(payload)), missing)
      [] OTHER                 -> ResetDecoder([p EXCEPT !.skip = 0])
-----------------------------------------------------------------------------
CaptureLen(n) == IF n <= wire.capture THEN n ELSE wire.capture

\* The program reads n units, of which the kernel captures the first.
ReadUnits(n) ==
    LET payload == SubSeq(wire.units, pos + 1, pos + CaptureLen(n))
        p == Parse(LostEvents(ParserState), payload, n - CaptureLen(n))
    IN /\ n <= wire.longest /\ pos + n <= Len(wire.units)
       /\ pos' = pos + n /\ lostReads' = FALSE
       /\ partialFrame' = p.partial /\ skipUnits' = p.skip /\ pendingHeaders' = p.pending
       /\ aligned' = p.aligned /\ missedBlock' = p.missed
       /\ UNCHANGED wire

\* A read whose event is lost; the next one's event says so.
LoseRead(n) ==
    /\ wire.lossy
    /\ n <= wire.longest /\ pos + n < Len(wire.units)
    /\ pos' = pos + n /\ lostReads' = TRUE
    /\ UNCHANGED <<wire, partialFrame, skipUnits, pendingHeaders, aligned, missedBlock>>

\* GC drops a header block that waits.
GcPendingHeaders ==
    /\ wire.slow
    /\ pendingHeaders # 0
    /\ pendingHeaders' = 0 /\ aligned' = 0
    /\ UNCHANGED <<wire, pos, lostReads, partialFrame, skipUnits, missedBlock>>

FrameNext ==
    \/ \E n \in 1..wire.longest : ReadUnits(n) \/ LoseRead(n)
    \/ GcPendingHeaders

FrameSpec == FrameInit /\ [][FrameNext]_frameVars
-----------------------------------------------------------------------------
(* Properties.                                                             *)

\* No header block is decoded after one that was missed, however reads are
\* split, cut and lost: the table was reset in between.  The HPACK decoder
\* relies on it (hpack.go:25, "callers reset the decoder when they know a
\* block was lost").
NoSilentGap == ~missedBlock

\* When every read is captured, the table has every header block the program
\* has read to its end: frames split over reads are put together, and nothing
\* is skipped.
EveryBlockDecoded ==
    (/\ wire.longest <= wire.capture /\ ~wire.lossy /\ ~wire.slow
     /\ \A k \in 1..Len(wire.frames) : wire.frames[k].len <= maxPartial + 1) =>
       aligned = Cardinality({i \in 1..pos : LET k == wire.units[i].frame IN
                                /\ wire.frames[k].kind \in {"headers", "cont"} /\ wire.frames[k].ends
                                /\ wire.units[i].at = wire.frames[k].len})

\* The HPACK table follows the blocks of the connection: no block is decoded
\* on a table that missed one, and none is missed without need.
TableFollows == NoSilentGap /\ EveryBlockDecoded
=============================================================================
