---------------------------- MODULE MetricsSpool ----------------------------
(***************************************************************************)
(* The metrics on their way to the collector: src/prom/remote_writer.go.   *)
(*                                                                         *)
(* One goroutine scrapes and spools a payload per interval, one sends the  *)
(* oldest spool file.  They share the directory and nothing else.  A       *)
(* payload is the timestamp of its scrape.  The agent may crash.           *)
(***************************************************************************)
EXTENDS Naturals, Sequences, FiniteSets, FiniteSetsExt

CONSTANTS
    SpoolWorlds,    \* the size and the collector's verdict of each payload, the files
                    \* found at the start and how many crashes there are
    MaxScrapes,     \* bound: scrapes
    maxSpoolSize

VARIABLES
    spoolWorld,
    scrapes,        \* scrapes so far: the last timestamp
    spool,          \* the .done files: timestamp to size
    temps,          \* the temporary files
    scraper,        \* where scrape is, with the files it listed
    sender,         \* where sendLoop is, with the file it picked
    delivered,      \* what the collector accepted, in order
    discarded,      \* payloads given up, with the reason
    crashes

spoolVars == <<spoolWorld, scrapes, spool, temps, scraper, sender, delivered, discarded, crashes>>

NoFile == 0
SpoolInit ==
    /\ spoolWorld \in SpoolWorlds
    /\ scrapes = Cardinality(DOMAIN spoolWorld.found) /\ spool = spoolWorld.found /\ temps = {}
    /\ scraper = [pc |-> "idle", listed |-> {}] /\ sender = [pc |-> "idle", file |-> NoFile]
    /\ delivered = <<>> /\ discarded = {} /\ crashes = 0

Spooled == DOMAIN spool
Deleted(ts) == [t \in Spooled \ {ts} |-> spool[t]]
-----------------------------------------------------------------------------
(* scrapeLoop.                                                             *)

ToScraper(pc, listed) == scraper' = [pc |-> pc, listed |-> listed]
ScraperOnly == UNCHANGED <<spoolWorld, sender, delivered, crashes>>

\* scrape, up to the listing of truncateSpoolIfNeeded.
Scrape ==
    /\ scraper.pc = "idle" /\ scrapes < MaxScrapes
    /\ scrapes' = scrapes + 1
    /\ ToScraper(IF Cardinality(Spooled) <= 1 THEN "write" ELSE "truncate", Spooled)
    /\ ScraperOnly /\ UNCHANGED <<spool, temps, discarded>>

\* The size of the listed files that are still there.
TotalSize(files) == MapThenSumSet(LAMBDA t : spool[t], files \cap Spooled)

\* The rest of truncateSpoolIfNeeded.
TruncateSpool ==
    /\ scraper.pc = "truncate"
    /\ LET oldest == Min(scraper.listed) IN
       IF TotalSize(scraper.listed) > maxSpoolSize
       THEN /\ spool' = Deleted(oldest)
            /\ discarded' = IF oldest \in Spooled THEN discarded \cup {<<oldest, "truncated">>} ELSE discarded
       ELSE UNCHANGED <<spool, discarded>>
    /\ ToScraper("write", {})
    /\ ScraperOnly /\ UNCHANGED <<scrapes, temps>>

\* The rest of writeToSpool: a temporary file is written and synced, which may
\* fail, and renamed.
CreateTemp ==
    /\ scraper.pc = "write"
    /\ \/ temps' = temps \cup {scrapes} /\ ToScraper("rename", {})
       \/ UNCHANGED temps /\ ToScraper("idle", {})
    /\ ScraperOnly /\ UNCHANGED <<scrapes, spool, discarded>>

RenameTemp ==
    /\ scraper.pc = "rename"
    /\ spool' = [t \in Spooled \cup {scrapes} |-> IF t = scrapes THEN spoolWorld.size[t] ELSE spool[t]]
    /\ temps' = temps \ {scrapes}
    /\ ToScraper("idle", {})
    /\ ScraperOnly /\ UNCHANGED <<scrapes, discarded>>
-----------------------------------------------------------------------------
(* sendLoop.                                                               *)

ToSender(pc, file) == sender' = [pc |-> pc, file |-> file]
SenderOnly == UNCHANGED <<spoolWorld, scrapes, temps, scraper, crashes>>

\* Mutant of Oldest: the directory's order is not looked at.
MutantOldest == Max(Spooled)

\* getOldestSpoolFile.
Oldest == Min(Spooled)

PickFile ==
    /\ sender.pc = "idle" /\ Spooled # {}
    /\ ToSender("picked", Oldest)
    /\ SenderOnly /\ UNCHANGED <<spool, delivered, discarded>>

\* An empty file is removed, one that was removed meanwhile passed over, and
\* another one read.
ReadFile ==
    /\ sender.pc = "picked"
    /\ CASE sender.file \notin Spooled -> ToSender("idle", NoFile) /\ UNCHANGED <<spool, discarded>>
         [] sender.file \in Spooled /\ spool[sender.file] = 0 ->
              /\ spool' = Deleted(sender.file) /\ discarded' = discarded \cup {<<sender.file, "empty">>}
              /\ ToSender("idle", NoFile)
         [] sender.file \in Spooled /\ spool[sender.file] # 0 ->
              ToSender("sending", sender.file) /\ UNCHANGED <<spool, discarded>>
    /\ SenderOnly /\ UNCHANGED delivered

\* The collector takes the payload, and the agent hears of it.
SendAccepted ==
    /\ sender.pc = "sending" /\ spoolWorld.accepts[sender.file]
    /\ delivered' = Append(delivered, sender.file)
    /\ ToSender("remove", sender.file)
    /\ SenderOnly /\ UNCHANGED <<spool, discarded>>

\* Mutant of SendRejected: it is tried again.
MutantSendRejected ==
    /\ sender.pc = "sending" /\ ~spoolWorld.accepts[sender.file]
    /\ ToSender("idle", NoFile)
    /\ SenderOnly /\ UNCHANGED <<spool, delivered, discarded>>

\* The collector refuses it for good: 400 or 413.
SendRejected ==
    /\ sender.pc = "sending" /\ ~spoolWorld.accepts[sender.file]
    /\ discarded' = discarded \cup {<<sender.file, "rejected">>}
    /\ ToSender("remove", sender.file)
    /\ SenderOnly /\ UNCHANGED <<spool, delivered>>

\* No answer, or another error: the payload may have been taken.
SendFails ==
    /\ sender.pc = "sending"
    /\ \/ UNCHANGED delivered
       \/ spoolWorld.accepts[sender.file] /\ delivered' = Append(delivered, sender.file)
    /\ Len(delivered') <= 2 * MaxScrapes
    /\ ToSender("idle", NoFile)
    /\ SenderOnly /\ UNCHANGED <<spool, discarded>>

RemoveSent ==
    /\ sender.pc = "remove"
    /\ spool' = Deleted(sender.file)
    /\ ToSender("idle", NoFile)
    /\ SenderOnly /\ UNCHANGED <<delivered, discarded>>

\* The agent dies, and is started again: the directory is what is left.
CrashAgent ==
    /\ crashes < spoolWorld.crashes /\ crashes' = crashes + 1
    /\ ToScraper("idle", {}) /\ ToSender("idle", NoFile)
    /\ UNCHANGED <<spoolWorld, scrapes, spool, temps, delivered, discarded>>

SendStep == PickFile \/ ReadFile \/ SendAccepted \/ SendRejected \/ RemoveSent
SpoolNext == Scrape \/ TruncateSpool \/ CreateTemp \/ RenameTemp \/ SendStep \/ SendFails \/ CrashAgent

\* The goroutines run on, and the collector answers again and again.
SpoolFairness == WF_spoolVars(PickFile \/ ReadFile \/ RemoveSent) /\ SF_spoolVars(SendAccepted) /\ SF_spoolVars(SendRejected)

SpoolSpec == SpoolInit /\ [][SpoolNext]_spoolVars
SpoolLiveSpec == SpoolSpec /\ SpoolFairness
-----------------------------------------------------------------------------
(* Properties.                                                             *)

\* A spool file goes only when the collector has its payload, refused it, or
\* room was needed for newer ones: not by a crash, by a failed send, or by
\* the two goroutines meeting on one file.
NoSilentLoss ==
    \A t \in Spooled \ DOMAIN spool' :
      (\E i \in 1..Len(delivered) : delivered[i] = t) \/ (\E why \in {"truncated", "empty", "rejected"} : <<t, why>> \in discarded')

\* The collector gets payloads in the order of their scrapes; one may come
\* again, if its answer was lost, but never after a newer one.
DeliveredInOrder ==
    \A i, j \in 1..Len(delivered) : i < j => delivered[i] <= delivered[j]

\* The spool hands over what it was given, in order and without a loss that
\* was not called for.
SpoolFaithful == [][DeliveredInOrder' /\ NoSilentLoss]_spoolVars

\* A spool file leaves the directory: a payload the collector will never take
\* does not hold up the ones behind it.
SpoolDrains == \A t \in 1..MaxScrapes : (t \in Spooled) ~> (t \notin Spooled)
=============================================================================
