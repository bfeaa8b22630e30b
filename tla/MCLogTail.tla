----------------------------- MODULE MCLogTail -----------------------------
(* LogTail for TLC: the worlds of its runs.                                *)
EXTENDS LogTail

(* Two rotations, with a restart of the agent and two of the reader.       *)
Rotated == [files |-> 3, starts |-> 2, readers |-> 3, truncations |-> 0,
            renameGap |-> FALSE, firstRun |-> FALSE]

(* A truncation in place, a gap in a rotation, on the agent's first run.   *)
Truncated == [files |-> 2, starts |-> 1, readers |-> 1, truncations |-> 1,
              renameGap |-> TRUE, firstRun |-> TRUE]

SafetyWorlds == {Rotated, Truncated}
LiveWorlds == {[Rotated EXCEPT !.files = 2]}
=============================================================================
