--------------------------- MODULE MCConnections ---------------------------
(* Connections on small instances: the worlds of its runs.                 *)
EXTENDS Connections, TLC

CONSTANTS f1, f2, t1, t2

(* One plain socket after another on one fd.                               *)
Plain == [fds |-> {f1}, tuples |-> {t1, t2}, protocols |-> {"http"}, tlsModes |-> {FALSE},
          payloads |-> {"frame"}, untracked |-> FALSE, unseenCloses |-> FALSE, lossy |-> FALSE,
          writes |-> 1, starts |-> 1, hasTuple |-> TRUE, filtered |-> {}, retries |-> 1]

(* Two fds, sockets with and without TLS, some unseen, one filtered.       *)
Mixed == [Plain EXCEPT !.fds = {f1, f2}, !.tlsModes = BOOLEAN, !.untracked = TRUE,
                       !.unseenCloses = TRUE, !.filtered = {t2}]

(* Events without addresses wait in the retry queue; the pid is reused.    *)
Retried == [Plain EXCEPT !.tuples = {t1}, !.hasTuple = FALSE, !.writes = 2, !.starts = 2,
                         !.retries = 3]

(* HTTP/2 frames, whole or junk.                                           *)
Framed == [Plain EXCEPT !.protocols = {"http2"}, !.payloads = {"frame", "junk"}, !.writes = 2]

(* Frames cut at the end of an event.                                      *)
Cut == [Plain EXCEPT !.protocols = {"http2"}, !.payloads = {"partial"}]

SafetyWorlds == {Mixed, Framed}
RetryWorlds == {Retried}
CutWorlds == {Cut}
LiveWorlds == {[Cut EXCEPT !.tuples = {t1}, !.lossy = TRUE]}

(* Fds and addresses are only compared.                                    *)
Symmetry == Permutations(Fds) \cup Permutations(Tuples)
=============================================================================
