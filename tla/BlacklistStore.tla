--------------------------- MODULE BlacklistStore ---------------------------
(***************************************************************************)
(* AbuseIPDB's blacklist held locally: AbuseIPDBClient.sync_blacklist      *)
(* downloads the list on the event loop and has a worker thread write it   *)
(* into a BlacklistStore, one JSON file replaced whole and a copy of it in *)
(* memory. The host runs one sync at a time, syncs fail or are cancelled,  *)
(* and the process may be killed between any two steps and started again.  *)
(***************************************************************************)
EXTENDS Naturals

CONSTANTS
  Syncs,        \* calls of sync_blacklist the host makes
  Overlap,      \* whether a sync may start while a cancelled one still writes
  MaxNow,       \* bound: how far the wall clock goes
  MaxCrashes    \* bound: how often the process is killed

ASSUME BoundsAssumption ==
  Overlap \in BOOLEAN /\ MaxNow \in Nat /\ MaxCrashes \in Nat
\* No sync goes by the name of what the file holds when none has written it.
ASSUME NobodyAssumption == "nobody" \notin Syncs

VARIABLES
  alive,      \* the host's process runs
  phase,      \* where each sync is
  told,       \* what its caller was told
  doc,        \* the list a sync holds, with its stamps
  temp,       \* its temporary file: "none", "partial" or "whole"
  disk,       \* the store's file
  memory,     \* the list each attribute of the store in memory was taken from
  unread,     \* history: this process could not read its file when it loaded
  listed,     \* when AbuseIPDB generated the list it now serves
  now,        \* the wall clock
  crashes     \* how often the process was killed

process == <<alive, crashes>>
store == <<disk, memory, unread>>
world == <<listed, now>>
vars == <<alive, phase, told, doc, temp, disk, memory, unread, listed, now, crashes>>

Phases == {"idle", "downloading", "answered", "threaded", "writing", "written",
           "replaced", "entries", "generated_at", "synced_at", "over"}
\* The phases the worker thread runs, out of the event loop's reach; in the
\* last four the file is replaced, and the copy in memory is not yet.
Publishing == {"replaced", "entries", "generated_at", "synced_at"}
InThread == {"threaded", "writing", "written"} \cup Publishing

\* The store's copy in memory: readers on the loop see each attribute for itself.
Attributes == {"entries", "generated_at", "synced_at", "confidence_minimum"}

\* A document: which sync wrote it, the list's generated_at, its synced_at.
Document == [by : Syncs, generated : 0 .. MaxNow, synced : 0 .. MaxNow]
Nothing == [by |-> "nobody", generated |-> 0, synced |-> 0]
Broken == [by |-> "broken", generated |-> 0, synced |-> 0]
AllOf(d) == [a \in Attributes |-> d]

Init ==
  /\ alive = TRUE
  /\ phase = [s \in Syncs |-> "idle"]
  /\ told = [s \in Syncs |-> "nothing"]
  /\ doc = [s \in Syncs |-> Nothing]
  /\ temp = [s \in Syncs |-> "none"]
  /\ disk = Nothing
  /\ memory = AllOf(Nothing)
  /\ unread = FALSE
  /\ listed = 0
  /\ now = 0
  /\ crashes = 0

-----------------------------------------------------------------------------
(* A sync.                                                                 *)

To(s, p) == phase' = [phase EXCEPT ![s] = p]

\* The host asks for a sync once it was told how the others ended; syncs far
\* apart find no thread of a cancelled one still at work.
Start(s) ==
  /\ alive
  /\ phase[s] = "idle"
  /\ \A t \in Syncs : told[t] # "waiting" /\ (Overlap \/ phase[t] \notin InThread)
  /\ To(s, "downloading")
  /\ told' = [told EXCEPT ![s] = "waiting"]
  /\ UNCHANGED <<doc, temp, store, world, process>>

\* AbuseIPDB answers with the list it serves at that moment.
Download(s) ==
  /\ phase[s] = "downloading"
  /\ To(s, "answered")
  /\ doc' = [doc EXCEPT ![s] = [by |-> s, generated |-> listed, synced |-> 0]]
  /\ UNCHANGED <<told, temp, store, world, process>>

\* Back on the loop: synced_at is read here, before the thread is started.
HandOver(s) ==
  /\ phase[s] = "answered"
  /\ To(s, "threaded")
  /\ doc' = [doc EXCEPT ![s] = [by |-> s, generated |-> @.generated, synced |-> now]]
  /\ UNCHANGED <<told, temp, store, world, process>>

\* mkstemp beside the file, then json.dump into it: partial until it is done.
OpenTemporary(s) ==
  /\ phase[s] = "threaded"
  /\ To(s, "writing")
  /\ temp' = [temp EXCEPT ![s] = "partial"]
  /\ UNCHANGED <<told, doc, store, world, process>>

\* Mutant: the list is written over the file itself.
DumpInPlace(s) ==
  /\ phase[s] = "writing"
  /\ To(s, "written")
  /\ disk' = Broken
  /\ temp' = [temp EXCEPT ![s] = "whole"]
  /\ UNCHANGED <<told, doc, memory, unread, world, process>>

Dump(s) ==
  /\ phase[s] = "writing"
  /\ To(s, "written")
  /\ temp' = [temp EXCEPT ![s] = "whole"]
  /\ UNCHANGED <<told, doc, store, world, process>>

\* os.replace: the new copy takes the old one's place in one step.
Replace(s) ==
  /\ phase[s] = "written"
  /\ To(s, "replaced")
  /\ disk' = doc[s]
  /\ temp' = [temp EXCEPT ![s] = "none"]
  /\ UNCHANGED <<told, doc, memory, unread, world, process>>

\* What the caller is told, if it still waits.
Tell(s, what) ==
  told' = [told EXCEPT ![s] = IF @ = "waiting" THEN what ELSE @]

\* Mutant: the stamps are assigned before the entries.
FollowingStampsFirst ==
  [replaced |-> "generated_at", generated_at |-> "synced_at",
   synced_at |-> "entries", entries |-> "confidence_minimum"]

\* The order in which the thread assigns the store's attributes: which one is
\* assigned after the file was replaced, and after each of the others.
Following ==
  [replaced |-> "entries", entries |-> "generated_at",
   generated_at |-> "synced_at", synced_at |-> "confidence_minimum"]

\* The copy in memory follows the file, one attribute after another, each in
\* view of the loop as soon as it is assigned.
Publish(s) ==
  /\ phase[s] \in DOMAIN Following
  /\ LET a == Following[phase[s]]
     IN  /\ memory' = [memory EXCEPT ![a] = doc[s]]
         /\ IF a = "confidence_minimum"
              THEN To(s, "over") /\ Tell(s, "synced")
              ELSE To(s, a) /\ UNCHANGED told
  /\ unread' = FALSE
  /\ UNCHANGED <<doc, temp, disk, world, process>>

\* Mutant: a write that fails leaves its temporary file behind.
FailUncleaned(s) ==
  /\ phase[s] \in {"downloading", "answered", "threaded", "writing", "written"}
  /\ To(s, "over")
  /\ Tell(s, "failed")
  /\ UNCHANGED <<doc, temp, store, world, process>>

\* Arguments out of range, an HTTP error, an answer that is not a list, an
\* entry that cannot be read, a disk that refuses: the sync raises, and the
\* temporary file it may have opened is removed.
Fail(s) ==
  /\ phase[s] \in {"downloading", "answered", "threaded", "writing", "written"}
  /\ To(s, "over")
  /\ Tell(s, "failed")
  /\ temp' = [temp EXCEPT ![s] = "none"]
  /\ UNCHANGED <<doc, store, world, process>>

\* The host cancels the call: before the thread is started that ends the sync,
\* afterwards only the wait for it.
Cancel(s) ==
  /\ told[s] = "waiting"
  /\ To(s, IF phase[s] \in InThread THEN phase[s] ELSE "over")
  /\ Tell(s, "cancelled")
  /\ UNCHANGED <<doc, temp, store, world, process>>

-----------------------------------------------------------------------------
(* The process and the world around it.                                    *)

\* The process is killed: syncs end where they are, memory is gone, and a
\* temporary file stays where it was written.
Crash ==
  /\ alive
  /\ crashes < MaxCrashes
  /\ alive' = FALSE
  /\ crashes' = crashes + 1
  /\ phase' = [s \in Syncs |-> IF phase[s] = "idle" THEN "idle" ELSE "over"]
  /\ told' = [s \in Syncs |-> IF told[s] = "waiting" THEN "killed" ELSE told[s]]
  /\ memory' = AllOf(Nothing)
  /\ unread' = FALSE
  /\ UNCHANGED <<doc, temp, disk, world>>

\* The host starts again: the store loads its file, or stays empty when there
\* is none, when it is not a list of its format, or when reading it fails.
Load ==
  /\ ~ alive
  /\ alive' = TRUE
  /\ unread' \in IF disk \in Document THEN BOOLEAN ELSE {FALSE}
  /\ memory' = AllOf(IF disk \in Document /\ ~ unread' THEN disk ELSE Nothing)
  /\ UNCHANGED <<phase, told, doc, temp, disk, world, crashes>>

ClockTick ==
  /\ now < MaxNow
  /\ now' = now + 1
  /\ UNCHANGED <<phase, told, doc, temp, store, listed, process>>

\* AbuseIPDB regenerates its list.
Regenerate ==
  /\ listed < now
  /\ listed' = now
  /\ UNCHANGED <<phase, told, doc, temp, store, now, process>>

-----------------------------------------------------------------------------
Sync(s) ==
  \/ Start(s) \/ Download(s) \/ HandOver(s) \/ OpenTemporary(s) \/ Dump(s)
  \/ Replace(s) \/ Publish(s) \/ Fail(s) \/ Cancel(s)

Next ==
  \/ Crash \/ Load \/ ClockTick \/ Regenerate
  \/ \E s \in Syncs : Sync(s)

Spec == Init /\ [][Next]_vars

-----------------------------------------------------------------------------
(* What the store guarantees.                                              *)

Copies == Document \cup {Nothing}

TypeOK ==
  /\ alive \in BOOLEAN
  /\ phase \in [Syncs -> Phases]
  /\ told \in [Syncs -> {"nothing", "waiting", "synced", "failed", "cancelled", "killed"}]
  /\ doc \in [Syncs -> Copies]
  /\ temp \in [Syncs -> {"none", "partial", "whole"}]
  /\ disk \in Copies
  /\ memory \in [Attributes -> Copies]
  /\ unread \in BOOLEAN
  /\ listed \in 0 .. now /\ now \in 0 .. MaxNow
  /\ crashes \in 0 .. MaxCrashes

NoOlder(a, b) == a.generated <= b.generated /\ a.synced <= b.synced

HoldsList == disk \in Document

\* A good copy on disk is only ever replaced by another good copy, generated
\* and synced no earlier: not by a sync that fails, nor by one that is killed
\* half way (blacklist.py:7-9).
GoodCopyKept ==
  [][HoldsList => disk' \in Document /\ NoOlder(disk, disk')]_vars

\* "On any failure the store keeps its last good copy" (client.py:183): what a
\* sync that raised had downloaded is neither in the file nor in memory.
FailureKeepsCopy ==
  \A s \in Syncs :
    told[s] = "failed" => s # disk.by /\ \A a \in Attributes : s # memory[a].by

Quiet == alive /\ \A s \in Syncs : phase[s] \notin InThread

\* While no sync writes, every attribute is the file's: after a sync, a failure,
\* a cancellation or a restart alike. A store that could not read its file when
\* it loaded is empty instead, never part of a list.
StoreIsItsFile ==
  Quiet => memory = IF unread THEN AllOf(Nothing) ELSE AllOf(disk)

\* "The local copy of the blacklist, in one file the host names"
\* (blacklist.py:55): with no sync at work, what the store answers from is what
\* is in the file, which it could read.
AnswersFromItsFile == Quiet /\ ~ unread => memory["entries"] = disk

\* In no state does the store claim a list fresher than the one it answers
\* from, nor answer from one fresher than a restart would load.
FreshnessInOrder ==
  /\ \A a \in Attributes : NoOlder(memory[a], memory["entries"])
  /\ NoOlder(memory["entries"], disk)

\* Memory follows the file: behind it while a sync publishes, and the same as
\* it otherwise.
MemoryFollowsFile == StoreIsItsFile /\ FreshnessInOrder

\* Temporary files stay behind only where the process was killed.
CleanedUp(s) ==
  phase[s] = "over" /\ temp[s] # "none" =>
    told[s] = "killed" \/ (told[s] = "cancelled" /\ crashes > 0)

NoLitter == \A s \in Syncs : CleanedUp(s)

\* A sync that fails leaves nothing: neither its list nor a temporary file.
FailureLeavesNothing == FailureKeepsCopy /\ NoLitter

-----------------------------------------------------------------------------
(* Why they hold: an inductive invariant, used by AbuseIPDBProofs.         *)

Active(s) == phase[s] \notin {"idle", "over"}
Published(s) == phase[s] \in Publishing
\* The attributes a sync has yet to assign.
Left(s) ==
  CASE phase[s] = "replaced" -> Attributes
    [] phase[s] = "entries" -> Attributes \ {"entries"}
    [] phase[s] = "generated_at" -> {"synced_at", "confidence_minimum"}
    [] phase[s] = "synced_at" -> {"confidence_minimum"}
    [] OTHER -> {}

\* What a caller was told, and where its sync can then be.
ToldKnown(s) ==
  /\ phase[s] = "idle" => told[s] = "nothing"
  /\ phase[s] \in {"downloading", "answered"} => told[s] = "waiting"
  /\ phase[s] \in InThread => told[s] \in {"waiting", "cancelled"}
  /\ phase[s] = "over" => told[s] \notin {"nothing", "waiting"}

TempKnown(s) == phase[s] \notin {"writing", "written", "over"} => temp[s] = "none"

\* Only a sync that got past its file's replacement is found in the store.
InStoreKnown(s) ==
  /\ s = disk.by \/ (\E a \in Attributes : s = memory[a].by) =>
       (Published(s) \/ phase[s] = "over") /\ told[s] # "failed"
  /\ phase[s] \in InThread \cup {"answered"} => doc[s].by = s

\* Holds whether or not syncs overlap.
Inductive ==
  /\ TypeOK
  /\ NoLitter
  /\ \A s \in Syncs : ToldKnown(s) /\ TempKnown(s) /\ InStoreKnown(s)
  /\ ~ alive => (\A s \in Syncs : ~ Active(s)) /\ memory = AllOf(Nothing)

\* What a sync brings is no older than what the file holds; what it has yet to
\* assign is of one list, the one the store held before.
DocKnown(s) ==
  /\ phase[s] \in InThread \cup {"answered"} =>
       disk.generated <= doc[s].generated /\ doc[s].generated <= listed
  /\ phase[s] \in InThread =>
       disk.synced <= doc[s].synced /\ doc[s].synced <= now
  /\ Published(s) =>
       /\ disk = doc[s]
       /\ \A a \in Attributes \ Left(s) : memory[a] = doc[s]
       /\ \A a, b \in Left(s) : memory[a] = memory[b]

\* Holds when syncs do not overlap.
Serial ==
  /\ \A s, t \in Syncs : Active(s) /\ Active(t) => s = t
  /\ \A s \in Syncs : DocKnown(s)
  /\ disk.generated <= listed /\ disk.synced <= now
  /\ FreshnessInOrder
  /\ alive /\ (\A s \in Syncs : ~ Published(s)) =>
       memory = IF unread THEN AllOf(Nothing) ELSE AllOf(disk)

=============================================================================
