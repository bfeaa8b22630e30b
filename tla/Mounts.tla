------------------------------- MODULE Mounts --------------------------------
(***************************************************************************)
(* The mounts of a container: onFileOpen, which records the mount of a     *)
(* file the first time one of it is opened, and getMounts, which drops the *)
(* ones that are gone (src/containers/container.go).                       *)
(*                                                                         *)
(* The event loop and a scrape read /proc without the container's lock,    *)
(* while volumes are mounted and unmounted and processes exit.             *)
(***************************************************************************)
EXTENDS Naturals, FiniteSets

CONSTANTS MountIds, MountPids, MountWorlds,
          MaxOpens    \* bound: file opens

VARIABLES
    mountWorld,   \* calm: file opens and scrapes do not overlap, and a process
                  \* keeps running, and its file open, while the open is handled
    mounted,      \* the mounts of block devices in the container's namespace
    unmounted,    \* those that are gone
    mountProcs,   \* processes that are running
    mountDead,    \* those that have exited
    opensMade,
    fileOpen,     \* the open being handled: its process, mount, and where onFileOpen is
    mounts,       \* c.mounts
    seenMounts,
    mountScrape   \* getMounts: where it is, what it read, what was gone before it
                  \* began, and what it reported

mountVars == <<mountWorld, mounted, unmounted, mountProcs, mountDead, opensMade, fileOpen, mounts, seenMounts, mountScrape>>

NoOpen == [at |-> "idle", pid |-> 0, mnt |-> 0, log |-> FALSE]
MountInit ==
    /\ mountWorld \in MountWorlds
    /\ mounted = {} /\ unmounted = {} /\ mountProcs = {} /\ mountDead = {} /\ opensMade = 0
    /\ fileOpen = NoOpen /\ mounts = {} /\ seenMounts = {}
    /\ mountScrape = [at |-> "idle", pids |-> {}, current |-> {}, gone |-> {}, reported |-> {}]

Apart == mountWorld.calm => fileOpen = NoOpen /\ mountScrape.at = "idle"
-----------------------------------------------------------------------------
(* The container.                                                          *)

Mount(m) ==
    /\ m \notin mounted \cup unmounted /\ mounted' = mounted \cup {m}
    /\ UNCHANGED <<mountWorld, unmounted, mountProcs, mountDead, opensMade, fileOpen, mounts, seenMounts, mountScrape>>

Unmount(m) ==
    /\ m \in mounted /\ mounted' = mounted \ {m} /\ unmounted' = unmounted \cup {m}
    /\ UNCHANGED <<mountWorld, mountProcs, mountDead, opensMade, fileOpen, mounts, seenMounts, mountScrape>>

MountProcStarts(p) ==
    /\ p \notin mountProcs \cup mountDead /\ mountProcs' = mountProcs \cup {p}
    /\ UNCHANGED <<mountWorld, mounted, unmounted, mountDead, opensMade, fileOpen, mounts, seenMounts, mountScrape>>

MountProcExits(p) ==
    /\ p \in mountProcs /\ mountProcs' = mountProcs \ {p} /\ mountDead' = mountDead \cup {p}
    /\ mountWorld.calm => fileOpen = NoOpen
    /\ UNCHANGED <<mountWorld, mounted, unmounted, opensMade, fileOpen, mounts, seenMounts, mountScrape>>

\* log: the file is under /var/log/.
OpenFile(p, m, log) ==
    /\ p \in mountProcs /\ m \in mounted /\ opensMade < MaxOpens /\ fileOpen = NoOpen /\ Apart
    /\ opensMade' = opensMade + 1
    /\ fileOpen' = [at |-> "event", pid |-> p, mnt |-> m, log |-> log]
    /\ UNCHANGED <<mountWorld, mounted, unmounted, mountProcs, mountDead, mounts, seenMounts, mountScrape>>
-----------------------------------------------------------------------------
(* onFileOpen.                                                             *)

\* GetFdInfo and resolveFd: the mount the descriptor leads to, another one if it
\* was reused, none (0) if it is closed, or not open for writing, or its process
\* is gone.
ResolveFd(found) ==
    /\ found # 0 => fileOpen.pid \in mountProcs /\ found \in mounted \cup unmounted
    /\ mountWorld.calm => found \in {0, fileOpen.mnt}

\* A mount seen before is passed over, but for a log file.
ResolveOpen(found) ==
    /\ fileOpen.at = "event"
    /\ found # 0 => fileOpen.log \/ fileOpen.mnt \notin seenMounts
    /\ ResolveFd(found)
    /\ seenMounts' = IF found = 0 THEN seenMounts ELSE seenMounts \cup {fileOpen.mnt}
    /\ fileOpen' = IF found \notin mounts \cup {0} THEN [fileOpen EXCEPT !.at = "info", !.mnt = found] ELSE NoOpen
    /\ UNCHANGED <<mountWorld, mounted, unmounted, mountProcs, mountDead, opensMade, mounts, mountScrape>>

\* GetMountInfo of the process.
ReadMountInfo ==
    /\ fileOpen.at = "info"
    /\ fileOpen' = IF fileOpen.pid \in mountProcs /\ fileOpen.mnt \in mounted
                   THEN [fileOpen EXCEPT !.at = "store"] ELSE NoOpen
    /\ UNCHANGED <<mountWorld, mounted, unmounted, mountProcs, mountDead, opensMade, mounts, seenMounts, mountScrape>>

StoreMount ==
    /\ fileOpen.at = "store" /\ fileOpen' = NoOpen
    /\ mounts' = mounts \cup {fileOpen.mnt}
    /\ UNCHANGED <<mountWorld, mounted, unmounted, mountProcs, mountDead, opensMade, seenMounts, mountScrape>>
-----------------------------------------------------------------------------
(* getMounts.                                                              *)

BeginMounts ==
    /\ mountScrape.at = "idle" /\ Apart /\ mounts # {}
    /\ mountScrape' = [at |-> "read", pids |-> mountProcs, current |-> {}, gone |-> unmounted, reported |-> {}]
    /\ UNCHANGED <<mountWorld, mounted, unmounted, mountProcs, mountDead, opensMade, fileOpen, mounts, seenMounts>>

Accessible == mountScrape.pids \cap mountProcs

\* GetMountInfo of the first of its processes that is still there.
ReadCurrent ==
    /\ mountScrape.at = "read"
    /\ mountScrape' = [mountScrape EXCEPT !.at = "prune", !.current = IF Accessible = {} THEN {} ELSE mounted]
    /\ UNCHANGED <<mountWorld, mounted, unmounted, mountProcs, mountDead, opensMade, fileOpen, mounts, seenMounts>>

\* Mutant of Pruned: a namespace that could not be read has no mounts.
MutantPruned(current) == mounts \cap current

\* The mounts that are still there; all of them if there is no telling.
Pruned(current) == IF current = {} THEN mounts ELSE mounts \cap current

\* They are reported, as far as a process gives access to them.
PruneMounts ==
    /\ mountScrape.at = "prune"
    /\ mounts' = Pruned(mountScrape.current)
    /\ mountScrape' = [mountScrape EXCEPT !.at = "idle", !.reported = IF Accessible = {} THEN {} ELSE mounts']
    /\ UNCHANGED <<mountWorld, mounted, unmounted, mountProcs, mountDead, opensMade, fileOpen, seenMounts>>

MountNext ==
    \/ \E m \in MountIds : Mount(m) \/ Unmount(m)
    \/ \E p \in MountPids : MountProcStarts(p) \/ MountProcExits(p)
    \/ \E p \in MountPids, m \in MountIds, log \in BOOLEAN : OpenFile(p, m, log)
    \/ \E found \in MountIds \cup {0} : ResolveOpen(found)
    \/ ReadMountInfo \/ StoreMount \/ BeginMounts \/ ReadCurrent \/ PruneMounts

MountSpec == MountInit /\ [][MountNext]_mountVars
-----------------------------------------------------------------------------
(* Properties.                                                             *)

\* A mount a file was opened on is known for as long as it is mounted: onFileOpen
\* looks at it once and never again (seenMounts), so whatever drops it drops it
\* for good.  File opens that overlap a scrape, or outlive their process, are
\* left out.
MountsKept ==
    mountWorld.calm /\ fileOpen = NoOpen => seenMounts \cap mounted \subseteq mounts

\* A scrape reports no mount that was gone before it began, whatever file opens
\* are being handled meanwhile: a remounted volume is not reported twice.  With
\* nothing left mounted there is no telling.
GoneNotReported ==
    mountScrape.at = "idle" /\ mountScrape.current # {} => mountScrape.reported \cap mountScrape.gone = {}

\* The mounts of a container are those its processes use and that exist.
MountsExact == MountsKept /\ GoneNotReported
=============================================================================
