------------------------------ MODULE Uprobes --------------------------------
(***************************************************************************)
(* The probes of one pid: Process (src/containers/process.go), the TLS     *)
(* probes attachTlsUprobes, attachGoTls, onProcessExec and                 *)
(* recheckTlsAfterExec attach (src/containers/container.go) with what      *)
(* AttachOpenSslUprobes and AttachGoTlsUprobes give                        *)
(* (src/ebpftracer/tls.go).                                                *)
(*                                                                         *)
(* The event loop attaches TLS probes, one step after another, while the   *)
(* instrument goroutine of each Process attaches its own, the process      *)
(* execs another executable, exits, and its pid is used again.             *)
(***************************************************************************)
EXTENDS Naturals

CONSTANTS Executables,
          openSslMaxChecks,
          UprobeWorlds,
          MaxLives, MaxExecs      \* bounds

VARIABLES
    uprobeWorld,  \* whether exec events are lost, and whether a process execs
                  \* while its probes are being attached
    life,         \* the pid's process: which one, whether it lives, its
                  \* executable, whether libssl is mapped, execs so far
    execTold,     \* an exec event under way
    current,      \* c.processes[pid]: a life, 0 none
    process,      \* the Process of each life
    attaching,    \* the event loop in attachTlsUprobes or onProcessExec
    openLinks     \* the probes the kernel holds

uprobesVars == <<uprobeWorld, life, execTold, current, process, attaching, openLinks>>

Lives == 1..MaxLives
FreshProcess == [closed |-> FALSE, uprobes |-> {}, goChecked |-> FALSE, goTried |-> 0, tlsExe |-> 0,
                sslChecked |-> FALSE, sslChecks |-> 0, sslMissed |-> {}, instrument |-> "none", read |-> 0]
NotAttaching == [at |-> "idle", of |-> 0, links |-> {}]
Link(g, x, kind) == [life |-> g, exe |-> x, kind |-> kind]

UprobesInit ==
    /\ uprobeWorld \in UprobeWorlds
    /\ life = [no |-> 0, alive |-> FALSE, exe |-> 0, mapped |-> FALSE, execs |-> 0]
    /\ execTold = FALSE /\ current = 0
    /\ process = [g \in Lives |-> FreshProcess]
    /\ attaching = NotAttaching /\ openLinks = {}

Runs(g) == life.alive /\ life.no = g
-----------------------------------------------------------------------------
(* The host.                                                               *)

\* A process begins as a fork of the first executable.
BeginLife(x) ==
    /\ ~life.alive /\ life.no < MaxLives /\ \A y \in Executables : x <= y
    /\ life' = [life EXCEPT !.no = @ + 1, !.alive = TRUE, !.exe = x, !.mapped = FALSE]
    /\ UNCHANGED <<uprobeWorld, execTold, current, process, attaching, openLinks>>

\* An exec of a file not run before under this pid.
Exec(x) ==
    /\ life.alive /\ life.execs < MaxExecs /\ x > life.exe
    /\ uprobeWorld.calm => attaching = NotAttaching
    /\ life' = [life EXCEPT !.exe = x, !.mapped = FALSE, !.execs = @ + 1]
    /\ execTold' = TRUE \/ (uprobeWorld.lossy /\ UNCHANGED execTold)
    /\ UNCHANGED <<uprobeWorld, current, process, attaching, openLinks>>

\* The loader, or a dlopen, maps libssl.
MapLibssl ==
    /\ life.alive /\ ~life.mapped
    /\ life' = [life EXCEPT !.mapped = TRUE]
    /\ UNCHANGED <<uprobeWorld, execTold, current, process, attaching, openLinks>>

EndLife ==
    /\ life.alive
    /\ life' = [life EXCEPT !.alive = FALSE]
    /\ UNCHANGED <<uprobeWorld, execTold, current, process, attaching, openLinks>>
-----------------------------------------------------------------------------
(* The Process.                                                            *)

\* Mutant of AddUprobes: links that come after Close are kept.
MutantAddUprobes(g, links) ==
    /\ process' = [process EXCEPT ![g].uprobes = @ \cup links]
    /\ openLinks' = openLinks \cup links

\* addUprobes, of links the kernel just made or held since.
AddUprobes(g, links) ==
    /\ process' = IF process[g].closed THEN process ELSE [process EXCEPT ![g].uprobes = @ \cup links]
    /\ openLinks' = IF process[g].closed THEN openLinks \ links ELSE openLinks \cup links

\* Close; what a closed Process remembers matters no more.
ClosedProcess(g) ==
    [process EXCEPT ![g] = [FreshProcess EXCEPT !.closed = TRUE, !.instrument = process[g].instrument, !.read = process[g].read]]

\* onProcessStart: a Process of an earlier life is closed.
RegisterLife ==
    /\ attaching = NotAttaching /\ life.alive /\ current # life.no
    /\ current' = life.no
    /\ process' = [(IF current = 0 THEN process ELSE ClosedProcess(current)) EXCEPT ![life.no].instrument = "begun"]
    /\ openLinks' = IF current = 0 THEN openLinks ELSE openLinks \ process[current].uprobes
    /\ UNCHANGED <<uprobeWorld, life, execTold, attaching>>

\* onProcessExit, or onProcessExitIf when a scrape finds the process gone.
CloseLife ==
    /\ current # 0 /\ ~Runs(current)
    /\ current' = 0
    /\ process' = ClosedProcess(current)
    /\ openLinks' = openLinks \ process[current].uprobes
    /\ UNCHANGED <<uprobeWorld, life, execTold, attaching>>

\* The instrument goroutine reads the executable; it gives up when the
\* Process was closed or the process is gone.
ReadExe(g) ==
    /\ process[g].instrument = "begun"
    /\ process' = IF process[g].closed \/ ~Runs(g) THEN [process EXCEPT ![g].instrument = "done"]
                  ELSE [process EXCEPT ![g].instrument = "read", ![g].read = life.exe]
    /\ UNCHANGED <<uprobeWorld, life, execTold, current, attaching, openLinks>>

\* instrumentNodejs or instrumentPython attaches.
AttachRuntime(g) ==
    /\ process[g].instrument = "read"
    /\ process' = [process EXCEPT ![g].instrument = "attached"]
    /\ openLinks' = openLinks \cup {Link(g, process[g].read, "runtime")}
    /\ UNCHANGED <<uprobeWorld, life, execTold, current, attaching>>

AddRuntime(g) ==
    /\ process[g].instrument = "attached"
    /\ LET link == Link(g, process[g].read, "runtime") IN
       /\ process' = [process EXCEPT ![g].instrument = "done",
                                     ![g].uprobes = IF process[g].closed THEN @ ELSE @ \cup {link}]
       /\ openLinks' = IF process[g].closed THEN openLinks \ {link} ELSE openLinks
    /\ UNCHANGED <<uprobeWorld, life, execTold, current, attaching>>
-----------------------------------------------------------------------------
(* The event loop.                                                         *)

\* resetTlsForNewImage.
ResetTls(p) == [p EXCEPT !.uprobes = {}, !.goChecked = FALSE, !.sslChecked = FALSE, !.sslChecks = 0]

\* Another executable than the one probed.
NewImage(g) == process[g].goChecked /\ Runs(g) /\ life.exe # process[g].tlsExe

\* attachTlsUprobes begins with recheckTlsAfterExec, when that is due.
AttachTls(due) ==
    /\ attaching = NotAttaching /\ current # 0
    /\ attaching' = [at |-> "ssl", of |-> current, links |-> {}]
    /\ IF due /\ NewImage(current)
       THEN /\ process' = [process EXCEPT ![current] = ResetTls(@)]
            /\ openLinks' = openLinks \ process[current].uprobes
       ELSE UNCHANGED <<process, openLinks>>
    /\ UNCHANGED <<uprobeWorld, life, execTold, current>>

\* AttachOpenSslUprobes finds libssl or not, while checks are left.
AttachOpenSsl ==
    LET g == attaching.of
        links == IF Runs(g) /\ life.mapped THEN {Link(g, life.exe, "ssl")} ELSE {}
        checked == [process EXCEPT ![g].sslChecks = @ + 1,
                                   ![g].sslMissed = IF links = {} THEN @ \cup {life.exe} ELSE @,
                                   ![g].sslChecked = links # {} \/ process[g].sslChecks + 1 >= openSslMaxChecks]
    IN
    /\ attaching.at = "ssl"
    /\ attaching' = IF process[g].goChecked THEN NotAttaching ELSE [attaching EXCEPT !.at = "identify"]
    /\ IF process[g].sslChecked THEN UNCHANGED <<process, openLinks>>
       ELSE /\ process' = IF process[g].closed THEN checked ELSE [checked EXCEPT ![g].uprobes = @ \cup links]
            /\ openLinks' = IF process[g].closed THEN openLinks ELSE openLinks \cup links
    /\ UNCHANGED <<uprobeWorld, life, execTold, current>>

\* onProcessExec: an image that was already probed is left alone.
OnProcessExec ==
    /\ attaching = NotAttaching /\ execTold /\ execTold' = FALSE
    /\ IF current = 0 \/ ~Runs(current) \/ (process[current].goChecked /\ ~NewImage(current))
       THEN UNCHANGED <<process, attaching, openLinks>>
       ELSE /\ process' = [process EXCEPT ![current] = IF @.goChecked THEN ResetTls(@) ELSE @]
            /\ openLinks' = IF process[current].goChecked THEN openLinks \ process[current].uprobes ELSE openLinks
            /\ attaching' = [at |-> "identify", of |-> current, links |-> {}]
    /\ UNCHANGED <<uprobeWorld, life, current>>

\* attachGoTls notes the executable before it opens it.
IdentifyExe ==
    /\ attaching.at = "identify"
    /\ process' = [process EXCEPT ![attaching.of].tlsExe = IF Runs(attaching.of) THEN life.exe ELSE 0]
    /\ attaching' = [attaching EXCEPT !.at = "attach"]
    /\ UNCHANGED <<uprobeWorld, life, execTold, current, openLinks>>

\* AttachGoTlsUprobes, which may find nothing to probe or fail.
AttachGoTls ==
    LET g == attaching.of IN
    /\ attaching.at = "attach"
    /\ \E links \in SUBSET (IF Runs(g) THEN {Link(g, life.exe, "go")} ELSE {}) :
         /\ attaching' = [attaching EXCEPT !.at = "add", !.links = links]
         /\ openLinks' = openLinks \cup links
    /\ process' = [process EXCEPT ![g].goTried = IF Runs(g) THEN life.exe ELSE @, ![g].goChecked = TRUE]
    /\ UNCHANGED <<uprobeWorld, life, execTold, current>>

\* Mutant of AddGoTls: the executable is noted once it has been probed.
MutantAddGoTls ==
    /\ attaching.at = "add" /\ attaching' = NotAttaching
    /\ process' = [process EXCEPT ![attaching.of].uprobes = IF process[attaching.of].closed THEN @ ELSE @ \cup attaching.links,
                                  ![attaching.of].tlsExe = life.exe]
    /\ openLinks' = IF process[attaching.of].closed THEN openLinks \ attaching.links ELSE openLinks
    /\ UNCHANGED <<uprobeWorld, life, execTold, current>>

\* The links are handed to the Process.
AddGoTls ==
    /\ attaching.at = "add" /\ attaching' = NotAttaching
    /\ AddUprobes(attaching.of, attaching.links)
    /\ UNCHANGED <<uprobeWorld, life, execTold, current>>

LoopStep == RegisterLife \/ AttachTls(TRUE) \/ AttachOpenSsl \/ OnProcessExec \/ IdentifyExe \/ AttachGoTls \/ AddGoTls
Instrument(g) == ReadExe(g) \/ AttachRuntime(g) \/ AddRuntime(g)

UprobesNext ==
    \/ \E x \in Executables : BeginLife(x) \/ Exec(x)
    \/ MapLibssl \/ EndLife \/ CloseLife \/ LoopStep \/ AttachTls(FALSE)
    \/ \E g \in Lives : Instrument(g)

UprobesSpec == UprobesInit /\ [][UprobesNext]_uprobesVars

\* The event loop goes on, walks the open connections every so often, and has
\* the start and exit of a process handled; the process keeps a connection
\* open.
UprobesFairness ==
    /\ WF_uprobesVars(RegisterLife \/ AttachOpenSsl \/ IdentifyExe \/ AttachGoTls \/ AddGoTls)
    /\ SF_uprobesVars(AttachTls(TRUE))
    /\ WF_uprobesVars(CloseLife)
    /\ \A g \in Lives : WF_uprobesVars(Instrument(g))
UprobesLiveSpec == UprobesSpec /\ UprobesFairness
-----------------------------------------------------------------------------
(* Properties.                                                             *)

\* Every probe the kernel holds is held by a Process that is not closed, or by
\* the goroutine that is about to add it: none is left behind by a process
\* that exits, or whose pid is used again, while its probes are attached
\* (addUprobes, Close, dropUprobes).
LinksOwned ==
    openLinks = UNION {IF process[g].closed THEN {} ELSE process[g].uprobes : g \in Lives}
                \cup (IF attaching.at = "add" THEN attaching.links ELSE {})
                \cup {Link(g, process[g].read, "runtime") : g \in {h \in Lives : process[h].instrument = "attached"}}

\* The executable a process runs is the one Go TLS probes were looked for in,
\* eventually, though the exec event may be lost or overtaken and the
\* executable may change while the probes are attached.
GoTlsFollowsExec ==
    \A g \in Lives, x \in Executables :
      (Runs(g) /\ life.exe = x) ~> (~Runs(g) \/ life.exe # x \/ (current = g /\ process[g].goTried = x))

\* A libssl the process maps is probed in the end, unless it was looked for
\* too often before it was mapped, if no exec falls into the attaching.
LibsslProbed ==
    \A g \in Lives, x \in Executables :
      (uprobeWorld.calm /\ Runs(g) /\ life.exe = x /\ life.mapped)
        ~> \/ ~Runs(g) \/ life.exe # x
           \/ Link(g, x, "ssl") \in process[g].uprobes
           \/ x \in process[g].sslMissed /\ process[g].sslChecks >= openSslMaxChecks

\* A process's probes follow the executable and the library it runs.
TlsFollowsExec == GoTlsFollowsExec /\ LibsslProbed
=============================================================================
