-------------------------- MODULE AbuseIPDBProofs --------------------------
(***************************************************************************)
(* Proofs about the AbuseIPDB client: of its blacklist (BlacklistStore),   *)
(* for any number of syncs and crashes and any course of the clock; of its *)
(* checks (AbuseCheck) for any number of callers, any addresses and        *)
(* windows, any allowance, any length of the day and of the cache's term.  *)
(* Nothing is said of the two together.                                    *)
(***************************************************************************)
EXTENDS BlacklistStore, AbuseCheck, TLAPS

-----------------------------------------------------------------------------
(* The store: the inductive invariant that holds however syncs overlap,    *)
(* the one that holds while they do not.                                   *)

USE BoundsAssumption, NobodyAssumption

\* What the file, or memory, may hold.
LEMMA CopiesHave ==
  ASSUME NEW d \in Copies
  PROVE  /\ d.generated \in 0 .. MaxNow /\ d.synced \in 0 .. MaxNow
         /\ d.by \in Syncs <=> d \in Document
         /\ d \notin Document => d = Nothing
BY DEF Copies, Document, Nothing

\* A store all of one list.
LEMMA AllOfIs ==
  ASSUME NEW d \in Copies
  PROVE  AllOf(d) \in [Attributes -> Copies] /\ \A a \in Attributes : AllOf(d)[a] = d
BY DEF AllOf

LEMMA NothingHeld ==
  Nothing \in Copies /\ Nothing.by \notin Syncs /\ Nothing.generated = 0 /\ Nothing.synced = 0
BY DEF Copies, Nothing

\* What a step of the publishing thread assigns, and where it leaves the thread.
LEMMA PublishAssigns ==
  ASSUME NEW s \in Syncs, TypeOK, Publish(s)
  PROVE  \E a \in Attributes, p \in Phases :
           /\ memory' = [memory EXCEPT ![a] = doc[s]]
           /\ unread' = FALSE
           /\ Published(s) /\ a \in Left(s)
           /\ phase[s] = "replaced" <=> a = "entries"
           /\ phase' = [phase EXCEPT ![s] = p]
           /\ Left(s)' = Left(s) \ {a}
           /\ \/ p \in Publishing /\ told' = told
              \/ p = "over" /\ Left(s)' = {} /\ Tell(s, "synced")
           /\ UNCHANGED <<doc, temp, disk, world, process>>
<1>. USE DEF Publish, To, Following, Attributes, Published, Publishing, Left, TypeOK, Phases
<1>1. CASE phase[s] = "replaced"
  <2>. WITNESS "entries" \in Attributes, "entries" \in Phases
  <2>. QED BY <1>1
<1>2. CASE phase[s] = "entries"
  <2>. WITNESS "generated_at" \in Attributes, "generated_at" \in Phases
  <2>. QED BY <1>2
<1>3. CASE phase[s] = "generated_at"
  <2>. WITNESS "synced_at" \in Attributes, "synced_at" \in Phases
  <2>. QED BY <1>3
<1>4. CASE phase[s] = "synced_at"
  <2>. WITNESS "confidence_minimum" \in Attributes, "over" \in Phases
  <2>. QED BY <1>4
<1>. QED BY <1>1, <1>2, <1>3, <1>4

\* The store starts empty, with no sync under way.
LEMMA InitInductive == Init => Inductive /\ Serial
<1>. SUFFICES ASSUME Init PROVE Inductive /\ Serial
  OBVIOUS
<1>. USE AllOfIs, NothingHeld DEF Init
<1>1. TypeOK
  <2>1. alive \in BOOLEAN /\ phase \in [Syncs -> Phases]
    BY DEF Phases
  <2>2. doc \in [Syncs -> Copies]
    OBVIOUS
  <2>3. told \in [Syncs -> {"nothing", "waiting", "synced", "failed", "cancelled", "killed"}]
    OBVIOUS
  <2>4. temp \in [Syncs -> {"none", "partial", "whole"}]
    OBVIOUS
  <2>5. disk \in Copies /\ memory \in [Attributes -> Copies] /\ unread \in BOOLEAN
    OBVIOUS
  <2>6. listed \in 0 .. now /\ now \in 0 .. MaxNow /\ crashes \in 0 .. MaxCrashes
    OBVIOUS
  <2>. QED BY <2>1, <2>2, <2>3, <2>4, <2>5, <2>6 DEF TypeOK
<1>2. Inductive
  BY <1>1 DEF Inductive, NoLitter, CleanedUp, ToldKnown, TempKnown, InStoreKnown, InThread,
              Published, Publishing, Active
<1>3. Serial
  BY DEF Serial, Active, DocKnown, InThread, Published, Publishing, FreshnessInOrder, NoOlder,
         Attributes
<1>. QED BY <1>2, <1>3

-----------------------------------------------------------------------------
(* What holds however syncs overlap.                                       *)

\* Every step keeps the invariant, overlapping syncs included.
LEMMA InductiveStep == Inductive /\ [Next]_vars => Inductive'
<1>. SUFFICES ASSUME Inductive, [Next]_vars
             PROVE  Inductive'
  OBVIOUS
<1>. USE DEF Inductive, TypeOK, Phases, NoLitter, CleanedUp, ToldKnown, TempKnown,
            InStoreKnown, InThread, Published, Publishing, Active, To, Tell,
            store, world, process
<1>1. ASSUME NEW s \in Syncs, Start(s) PROVE Inductive'
  BY <1>1 DEF Start, Copies, Document
<1>2. ASSUME NEW s \in Syncs, Download(s) PROVE Inductive'
  BY <1>2 DEF Download, Copies, Document
<1>3. ASSUME NEW s \in Syncs, HandOver(s) PROVE Inductive'
  <2>. DEFINE d == [by |-> s, generated |-> doc[s].generated, synced |-> now]
  <2>1. d \in Copies
    BY CopiesHave DEF Copies, Document
  <2>. HIDE DEF d
  <2>2. doc' = [doc EXCEPT ![s] = d]
    BY <1>3 DEF HandOver, d
  <2>3. d.by = s
    BY DEF d
  <2>. QED BY <1>3, <2>1, <2>2, <2>3 DEF HandOver
<1>4. ASSUME NEW s \in Syncs, OpenTemporary(s) PROVE Inductive'
  BY <1>4 DEF OpenTemporary, Copies, Document
<1>5. ASSUME NEW s \in Syncs, Dump(s) PROVE Inductive'
  BY <1>5 DEF Dump, Copies, Document
<1>6. ASSUME NEW s \in Syncs, Replace(s) PROVE Inductive'
  BY <1>6 DEF Replace, Copies, Document
<1>7. ASSUME NEW s \in Syncs, Publish(s) PROVE Inductive'
  <2>0. TypeOK
    OBVIOUS
  <2>1. PICK a \in Attributes, p \in Phases :
          /\ memory' = [memory EXCEPT ![a] = doc[s]]
          /\ unread' = FALSE
          /\ Published(s) /\ a \in Left(s)
          /\ phase[s] = "replaced" <=> a = "entries"
          /\ phase' = [phase EXCEPT ![s] = p]
          /\ Left(s)' = Left(s) \ {a}
          /\ \/ p \in Publishing /\ told' = told
             \/ p = "over" /\ Left(s)' = {} /\ Tell(s, "synced")
          /\ UNCHANGED <<doc, temp, disk, world, process>>
    BY <1>7, <2>0, PublishAssigns
  <2>2. memory' \in [Attributes -> Copies]
    BY <2>1
  <2>3. TypeOK'
    BY <2>1, <2>2
  <2>4. ASSUME NEW t \in Syncs
        PROVE  CleanedUp(t)' /\ ToldKnown(t)' /\ TempKnown(t)'
    BY <2>1
  <2>5. ASSUME NEW t \in Syncs
        PROVE  InStoreKnown(t)'
    BY <2>1
  <2>6. alive'
    BY <2>1
  <2>. QED BY <2>3, <2>4, <2>5, <2>6
<1>8. ASSUME NEW s \in Syncs, Fail(s) PROVE Inductive'
  BY <1>8 DEF Fail, Copies, Document
<1>9. ASSUME NEW s \in Syncs, Cancel(s) PROVE Inductive'
  BY <1>9 DEF Cancel, Copies, Document
<1>10. CASE Crash
  <2>1. /\ \A s \in Syncs : /\ phase'[s] = IF phase[s] = "idle" THEN "idle" ELSE "over"
                          /\ told'[s] = IF told[s] = "waiting" THEN "killed" ELSE told[s]
        /\ crashes' = crashes + 1
        /\ UNCHANGED <<doc, temp, disk, world>>
        /\ memory' = AllOf(Nothing) /\ unread' = FALSE /\ alive' = FALSE
    BY <1>10 DEF Crash
  <2>2. TypeOK'
    <3>1. crashes' \in 0 .. MaxCrashes
      BY <1>10 DEF Crash
    <3>2. phase' \in [Syncs -> Phases]
      BY <1>10 DEF Crash
    <3>3. told' \in [Syncs -> {"nothing", "waiting", "synced", "failed", "cancelled", "killed"}]
      BY <1>10 DEF Crash
    <3>. QED BY <2>1, <3>1, <3>2, <3>3, AllOfIs, NothingHeld
  <2>3. ASSUME NEW s \in Syncs
        PROVE  CleanedUp(s)' /\ ToldKnown(s)' /\ TempKnown(s)' /\ InStoreKnown(s)' /\ ~ Active(s)'
    BY <2>1, AllOfIs, NothingHeld
  <2>. QED BY <2>1, <2>2, <2>3
<1>11. CASE Load
  <2>1. /\ memory' \in [Attributes -> Copies]
        /\ \A a \in Attributes : memory'[a] \in {disk, Nothing}
        /\ unread' \in BOOLEAN
    <3>1. unread' \in BOOLEAN
      BY <1>11 DEF Load
    <3>2. memory' = AllOf(disk) \/ memory' = AllOf(Nothing)
      BY <1>11 DEF Load
    <3>. QED BY <3>1, <3>2, AllOfIs, NothingHeld
  <2>. QED BY <1>11, <2>1, NothingHeld DEF Load
<1>12. CASE ClockTick
  BY <1>12 DEF ClockTick, Copies, Document
<1>13. CASE Regenerate
  BY <1>13 DEF Regenerate, Copies, Document
<1>14. CASE UNCHANGED vars
  BY <1>14 DEF vars
<1>. QED BY <1>1, <1>2, <1>3, <1>4, <1>5, <1>6, <1>7, <1>8,
            <1>9, <1>10, <1>11, <1>12, <1>13, <1>14 DEF Next, Sync

-----------------------------------------------------------------------------
(* What holds while syncs do not overlap.                                  *)

\* While a sync only starts once the others' threads are over, what it brings
\* is no older than what the file and the memory hold.
LEMMA SerialStep ==
  ASSUME Overlap = FALSE
  PROVE  Inductive /\ Serial /\ [Next]_vars => Serial'
<1>. SUFFICES ASSUME Inductive, Serial, [Next]_vars
             PROVE  Serial'
  OBVIOUS
<1>. USE DEF Serial, DocKnown, FreshnessInOrder, NoOlder, Published, Publishing, Left, InThread,
            Active, To, Tell, store, world, process
<1>0. \A d \in Copies : d.generated \in 0 .. MaxNow /\ d.synced \in 0 .. MaxNow
  BY CopiesHave
<1>. USE <1>0 DEF Inductive, TypeOK, Phases, ToldKnown, InStoreKnown
<1>1. ASSUME NEW s \in Syncs, Start(s) PROVE Serial'
  BY <1>1 DEF Start
<1>2. ASSUME NEW s \in Syncs, Download(s) PROVE Serial'
  BY <1>2 DEF Download
<1>3. ASSUME NEW s \in Syncs, HandOver(s) PROVE Serial'
  BY <1>3 DEF HandOver
<1>4. ASSUME NEW s \in Syncs, OpenTemporary(s) PROVE Serial'
  BY <1>4 DEF OpenTemporary
<1>5. ASSUME NEW s \in Syncs, Dump(s) PROVE Serial'
  BY <1>5 DEF Dump
<1>6. ASSUME NEW s \in Syncs, Replace(s) PROVE Serial'
  <2>1. \A t \in Syncs : Active(t) => t = s
    BY <1>6 DEF Replace
  <2>2. FreshnessInOrder'
    BY <1>6 DEF Replace, Attributes
  <2>3. memory = IF unread THEN AllOf(Nothing) ELSE AllOf(disk)
    BY <1>6, <2>1 DEF Replace
  <2>4. \A a, b \in Attributes : memory[a] = memory[b]
    BY <2>3, AllOfIs, NothingHeld
  <2>5. DocKnown(s)'
    BY <1>6, <2>4 DEF Replace
  <2>. QED BY <1>6, <2>1, <2>2, <2>5 DEF Replace
<1>7. ASSUME NEW s \in Syncs, Publish(s) PROVE Serial'
  <2>0. TypeOK
    OBVIOUS
  <2>. DEFINE kept == Left(s)
  <2>1. PICK a \in Attributes, p \in Phases :
          /\ memory' = [memory EXCEPT ![a] = doc[s]]
          /\ unread' = FALSE
          /\ Published(s) /\ a \in kept
          /\ phase[s] = "replaced" <=> a = "entries"
          /\ phase' = [phase EXCEPT ![s] = p]
          /\ kept' = kept \ {a}
          /\ \/ p \in Publishing /\ told' = told
             \/ p = "over" /\ kept' = {} /\ Tell(s, "synced")
          /\ UNCHANGED <<doc, temp, disk, world, process>>
    BY <1>7, <2>0, PublishAssigns
  <2>2. \A t \in Syncs : Active(t) => t = s
    BY <2>1
  <2>3. /\ disk = doc[s]
        /\ \A b \in Attributes \ kept : memory[b] = doc[s]
        /\ \A b, c \in kept : memory[b] = memory[c]
    BY <2>1
  <2>4. "entries" \in Attributes /\ ("entries" \in kept => phase[s] = "replaced")
    BY <2>1 DEF Attributes
  <2>. HIDE DEF kept
  <2>5. FreshnessInOrder'
    BY <2>1, <2>3, <2>4
  <2>6. /\ \A b \in Attributes \ kept' : memory'[b] = doc[s]
        /\ \A b, c \in kept' : memory'[b] = memory'[c]
    BY <2>1, <2>3
  <2>7. DocKnown(s)'
    <3>1. kept' = Left(s)'
      BY DEF kept
    <3>. QED BY <2>1, <2>3, <2>6, <3>1
  <2>8. p = "over" => memory' = AllOf(disk)
    <3>. SUFFICES ASSUME p = "over" PROVE memory' = AllOf(disk)
      OBVIOUS
    <3>1. \A b \in Attributes : memory'[b] = disk
      BY <2>1, <2>3, <2>6
    <3>2. memory' \in [Attributes -> Copies]
      BY <2>1
    <3>. QED BY <3>1, <3>2 DEF AllOf
  <2>. QED BY <2>1, <2>2, <2>5, <2>7, <2>8
<1>8. ASSUME NEW s \in Syncs, Fail(s) PROVE Serial'
  BY <1>8 DEF Fail
<1>9. ASSUME NEW s \in Syncs, Cancel(s) PROVE Serial'
  BY <1>9 DEF Cancel
<1>10. CASE Crash
  <2>1. FreshnessInOrder'
    BY <1>10, AllOfIs, NothingHeld DEF Crash, Attributes
  <2>. QED BY <1>10, <2>1 DEF Crash
<1>11. CASE Load
  <2>1. memory' = IF unread' THEN AllOf(Nothing) ELSE AllOf(disk)
    BY <1>11, CopiesHave DEF Load
  <2>2. FreshnessInOrder'
    <3>1. /\ memory' = AllOf(disk) \/ memory' = AllOf(Nothing)
          /\ disk' = disk /\ disk \in Copies
      BY <1>11 DEF Load
    <3>. QED BY <3>1, AllOfIs, NothingHeld DEF Attributes
  <2>. QED BY <1>11, <2>1, <2>2 DEF Load
<1>12. CASE ClockTick
  BY <1>12 DEF ClockTick
<1>13. CASE Regenerate
  BY <1>13 DEF Regenerate
<1>14. CASE UNCHANGED vars
  BY <1>14 DEF vars
<1>. QED BY <1>1, <1>2, <1>3, <1>4, <1>5, <1>6, <1>7, <1>8,
            <1>9, <1>10, <1>11, <1>12, <1>13, <1>14 DEF Next, Sync

\* The file only changes when a sync replaces it, by what that sync downloaded.
LEMMA ReplacedByNewer ==
  ASSUME Overlap = FALSE
  PROVE  Inductive /\ Serial /\ [Next]_vars
           => (HoldsList => disk' \in Document /\ NoOlder(disk, disk'))
<1>. SUFFICES ASSUME Inductive, Serial, [Next]_vars, HoldsList
             PROVE  disk' \in Document /\ NoOlder(disk, disk')
  OBVIOUS
<1>. USE DEF HoldsList, NoOlder
<1>1. ASSUME NEW s \in Syncs, Replace(s)
      PROVE  disk' \in Document /\ NoOlder(disk, disk')
  <2>1. disk' = doc[s] /\ doc[s] \in Copies /\ doc[s].by = s
    BY <1>1 DEF Replace, Inductive, TypeOK, InStoreKnown, InThread
  <2>2. doc[s] \in Document
    BY <2>1, CopiesHave
  <2>. QED BY <1>1, <2>1, <2>2 DEF Replace, Serial, DocKnown, InThread
<1>2. disk' = disk => disk' \in Document /\ NoOlder(disk, disk')
  BY DEF Document
<1>3. CASE disk' = disk
  BY <1>2, <1>3
<1>4. (\E s \in Syncs : Replace(s)) \/ disk' = disk
  BY DEF Next, Sync, vars, Start, Download, HandOver, OpenTemporary, Dump, Publish, Fail,
     Cancel, Crash, Load, ClockTick, Regenerate, store, world
<1>. QED BY <1>1, <1>3, <1>4

-----------------------------------------------------------------------------
(* The theorems.                                                           *)

\* However syncs overlap, fail, are cancelled or killed, the invariant holds.
THEOREM InvariantHolds == Spec => []Inductive
<1>1. Init => Inductive
  BY InitInductive
<1>. QED BY <1>1, InductiveStep, PTL DEF Spec

\* Every variable of the store and of its syncs keeps its type: in no state is
\* half a document what the file or the memory of the store holds.
THEOREM TypeCorrect == Spec => []TypeOK
<1>1. Inductive => TypeOK
  BY DEF Inductive
<1>. QED BY <1>1, InvariantHolds, PTL

\* "On any failure the store keeps its last good copy" (client.py:183), for any
\* number of syncs, overlapping or not: nothing of a sync that failed is kept.
THEOREM FailuresLeaveNothing == Spec => []FailureKeepsCopy
<1>1. Inductive => FailureKeepsCopy
  BY DEF Inductive, InStoreKnown, FailureKeepsCopy
<1>. QED BY <1>1, InvariantHolds, PTL

\* A temporary file is left behind only where the process was killed.
THEOREM OnlyKillsLitter == Spec => []NoLitter
<1>1. Inductive => NoLitter
  BY DEF Inductive
<1>. QED BY <1>1, InvariantHolds, PTL

\* Both: a sync that fails leaves nothing behind.
THEOREM FailuresLeaveNothingBehind == Spec => []FailureLeavesNothing
<1>1. FailureKeepsCopy /\ NoLitter => FailureLeavesNothing
  BY DEF FailureLeavesNothing
<1>. QED BY <1>1, FailuresLeaveNothing, OnlyKillsLitter, PTL

\* The invariant that holds while the host lets no two syncs overlap.
THEOREM SerialHolds ==
  ASSUME Overlap = FALSE
  PROVE  Spec => []Serial
<1>1. Init => Serial
  BY InitInductive
<1>. QED BY <1>1, SerialStep, InvariantHolds, PTL DEF Spec

\* Between syncs the store answers from its file, with the file's stamps.
THEOREM MemoryFollowsTheFile ==
  ASSUME Overlap = FALSE
  PROVE  Spec => []StoreIsItsFile
<1>1. Serial => StoreIsItsFile
  BY DEF Serial, StoreIsItsFile, Quiet, Published, Publishing, InThread
<1>. QED BY <1>1, SerialHolds, PTL

\* The stamps are never ahead of the list, nor the list ahead of the file.
THEOREM StampsNeverAhead ==
  ASSUME Overlap = FALSE
  PROVE  Spec => []FreshnessInOrder
<1>1. Serial => FreshnessInOrder
  BY DEF Serial
<1>. QED BY <1>1, SerialHolds, PTL

\* Both: memory follows the file.
THEOREM MemoryFollows ==
  ASSUME Overlap = FALSE
  PROVE  Spec => []MemoryFollowsFile
<1>1. StoreIsItsFile /\ FreshnessInOrder => MemoryFollowsFile
  BY DEF MemoryFollowsFile
<1>. QED BY <1>1, MemoryFollowsTheFile, StampsNeverAhead, PTL

\* A good copy is only replaced by a good copy that is no older, whatever
\* fails, is cancelled or is killed in between.
THEOREM GoodCopySurvives ==
  ASSUME Overlap = FALSE
  PROVE  Spec => GoodCopyKept
<1>1. Inductive /\ Serial /\ [Next]_vars
        => [HoldsList => disk' \in Document /\ NoOlder(disk, disk')]_vars
  BY ReplacedByNewer
<1>. QED BY <1>1, InvariantHolds, SerialHolds, PTL DEF Spec, GoodCopyKept

-----------------------------------------------------------------------------
(* The checks.                                                             *)

USE SetsAssumption, NumbersAssumption

\* The day a moment is of is a number; the next moment is of the same day or,
\* when a day starts with it, of a later one.
LEMMA DaysPass ==
  ASSUME NEW t \in Nat
  PROVE  /\ t \div DayLength \in Nat
         /\ (t + 1) \div DayLength \in Nat
         /\ (t + 1) % DayLength # 0 => (t + 1) \div DayLength = t \div DayLength
         /\ (t + 1) % DayLength = 0 => (t + 1) \div DayLength > t \div DayLength
<1>. DEFINE q == t \div DayLength
            p == (t + 1) \div DayLength
            r == t % DayLength
            s == (t + 1) % DayLength
<1>1. q \in Int /\ p \in Int /\ r \in 0 .. DayLength - 1 /\ s \in 0 .. DayLength - 1
  OBVIOUS
<1>2. t = DayLength * q + r /\ t + 1 = DayLength * p + s
  OBVIOUS
<1>. QED BY <1>1, <1>2

\* The idle caller's question is a question.
LEMMA NoQuestionIs == NoQuestion \in Questions
<1>1. \E q : q \in Questions
  <2>1. PICK a \in Addresses, w \in Windows : TRUE
    OBVIOUS
  <2>2. [address |-> a, window |-> w] \in Questions
    BY DEF Questions
  <2>. QED BY <2>2
<1>. QED BY <1>1 DEF NoQuestion

\* What the callers, the cache and the quotas start with keeps the invariant.
LEMMA CheckInitInductive == CheckInit => CheckInductive
<1>. SUFFICES ASSUME CheckInit PROVE CheckInductive
  OBVIOUS
<1>. USE DEF CheckInit, NoEntry, NoQuota, NoResponse, NotTold
<1>1. 0 \div DayLength = 0
  BY DaysPass
<1>2. CheckTypeOK
  BY NoQuestionIs DEF CheckTypeOK, Quota, Endpoints
<1>3. EntriesExpire /\ RecentAnswers
  BY DEF EntriesExpire, RecentAnswers
<1>4. \A e \in Endpoints : QuotaTrue(e, quotas[e])
  BY <1>1 DEF QuotaTrue, Today
<1>. QED BY <1>2, <1>3, <1>4 DEF CheckInductive, AskedBefore, ReadSince

\* An accepted input is a question about a public address, and has a key.
LEMMA AcceptedHasKey ==
  ASSUME NEW q \in Inputs, Accepted(q)
  PROVE  /\ KeyOf(q) \in Keys
         /\ [address |-> q.address, window |-> q.window] \in Questions
         /\ q.address \in Public /\ q.window \in 1 .. 365
BY DEF Inputs, Accepted, IsSent, KeyOf, Keys, Questions

\* A quota that was true stays so when something more is spent.
LEMMA SpendingKeepsQuotas ==
  ASSUME NEW e \in Endpoints, NEW f \in Endpoints, NEW n \in {0, 1},
         CheckTypeOK, n <= left[e], Spend(e, n), clock' = clock,
         NEW quota \in Quota, QuotaTrue(f, quota)
  PROVE  QuotaTrue(f, quota)' /\ left' \in [Endpoints -> Nat]
<1>1. left \in [Endpoints -> Nat] /\ clock \in Nat
  BY DEF CheckTypeOK
<1>2. left' \in [Endpoints -> Nat] /\ left'[f] <= left[f]
  BY <1>1 DEF Spend
<1>3. quota.day = Today => quota.remaining \in Nat
  BY <1>1, DaysPass DEF Quota, NoQuota, Today
<1>4. Today' = Today
  BY DEF Today
<1>. QED BY <1>1, <1>2, <1>3, <1>4 DEF QuotaTrue

\* And when time passes, a new day's allowance included.
LEMMA TimeKeepsQuotas ==
  ASSUME Tick, CheckTypeOK, NEW f \in Endpoints,
         NEW quota \in Quota, QuotaTrue(f, quota)
  PROVE  QuotaTrue(f, quota)'
<1>1. clock \in Nat /\ clock' = clock + 1 /\ quota.day \in Int
  BY DEF Tick, CheckTypeOK, Quota, NoQuota
<1>2. /\ Today \in Nat /\ Today' \in Nat
      /\ clock' % DayLength # 0 => Today' = Today
      /\ clock' % DayLength = 0 => Today' > Today
  BY <1>1, DaysPass DEF Today
<1>3. CASE clock' % DayLength = 0
  BY <1>1, <1>2, <1>3 DEF QuotaTrue
<1>4. CASE clock' % DayLength # 0
  <2>1. left' = left
    BY <1>4 DEF Tick
  <2>. QED BY <1>1, <1>2, <1>4, <2>1 DEF QuotaTrue
<1>. QED BY <1>3, <1>4

-----------------------------------------------------------------------------
(* Every step keeps the invariant.                                         *)

\* A check that is refused, answered from the cache or under way.
LEMMA CallStep ==
  ASSUME CheckInductive, NEW c \in Callers,
         Refuse(c) \/ Hit(c) \/ Ask(c) \/ AskForList(c) \/ BreakOff(c)
  PROVE  CheckInductive'
<1>. USE DEF CheckInductive, CheckTypeOK, EntriesExpire, RecentAnswers,
             AskedBefore, ReadSince, QuotaTrue,
             Today, EndpointOf, Goto, NotTold, client
<1>1. CASE Refuse(c)
  BY <1>1 DEF Refuse
<1>2. CASE Hit(c)
  <2>1. PICK q \in Inputs : /\ Accepted(q)
                                  /\ cache[KeyOf(q)].expires > clock
                                  /\ Answer(cache[KeyOf(q)], clock)
    BY <1>2 DEF Hit
  <2>2. KeyOf(q) \in Keys
    BY <2>1, AcceptedHasKey
  <2>3. /\ cache[KeyOf(q)] \in [expires : Nat, read : Nat]
        /\ cache[KeyOf(q)].expires <= cache[KeyOf(q)].read + CacheSeconds
        /\ cache[KeyOf(q)].read <= clock
    BY <2>2
  <2>4. /\ answered' \in [age : Nat, waited : Nat]
        /\ answered'.age < CacheSeconds
    <3>1. answered' = [age |-> clock - cache[KeyOf(q)].read, waited |-> clock - clock]
      BY <2>1 DEF Answer
    <3>. QED BY <2>1, <2>3, <3>1
  <2>. QED BY <1>2, <2>4 DEF Hit
<1>3. CASE Ask(c)
  <2>1. PICK q \in Inputs :
          /\ Accepted(q)
          /\ question' = [question EXCEPT ![c] = [address |-> q.address, window |-> q.window]]
    BY <1>3 DEF Ask
  <2>2. /\ [address |-> q.address, window |-> q.window] \in Questions
        /\ q.address \in Public /\ q.window \in 1 .. 365
    BY <2>1, AcceptedHasKey
  <2>. QED BY <1>3, <2>1, <2>2 DEF Ask
<1>4. CASE AskForList(c)
  BY <1>4 DEF AskForList
<1>5. CASE BreakOff(c)
  BY <1>5, NoQuestionIs DEF BreakOff, End, NoResponse, NoQuota, Quota
<1>. QED BY <1>1, <1>2, <1>3, <1>4, <1>5

\* The service reads a request.
LEMMA ServeStep ==
  ASSUME CheckInductive, NEW c \in Callers, Serve(c)
  PROVE  CheckInductive'
<1>. DEFINE e == EndpointOf(c)
<1>. USE DEF client, Goto
<1>1. PICK ok \in BOOLEAN, n \in {0, 1} :
        /\ n <= left[e]
        /\ Spend(e, n)
        /\ response' = [response EXCEPT ![c] =
             [answers |-> ok, read |-> clock,
              quota |-> [remaining |-> left[e] - n, day |-> Today]]]
  BY DEF Serve
<1>2. /\ pc[c] = "asking" /\ pc' = [pc EXCEPT ![c] = "arriving"] /\ answered' = NotTold
      /\ UNCHANGED <<question, asked, cache, quotas, clock>>
  BY DEF Serve
<1>3. CheckTypeOK /\ e \in Endpoints /\ Today \in Nat /\ Today' = Today
  BY <1>2, DaysPass DEF CheckInductive, CheckTypeOK, EndpointOf, Endpoints,
                        Today
<1>4. \A f \in Endpoints, quota \in Quota :
        QuotaTrue(f, quota) => QuotaTrue(f, quota)'
  BY <1>1, <1>2, <1>3, SpendingKeepsQuotas
<1>5. left' \in [Endpoints -> Nat]
  BY <1>1, <1>3 DEF Spend, CheckTypeOK
<1>6. [remaining |-> left[e] - n, day |-> Today] \in Quota
  BY <1>1, <1>3 DEF Quota, CheckTypeOK
<1>7. CheckTypeOK'
  BY <1>1, <1>2, <1>3, <1>5, <1>6 DEF CheckTypeOK, NotTold
<1>8. QuotaTrue(e, response[c].quota)'
  BY <1>1, <1>3 DEF QuotaTrue, Spend, CheckTypeOK
<1>9. \A d \in Callers :
        pc'[d] = "arriving" => QuotaTrue(EndpointOf(d), response[d].quota)'
  <2>. SUFFICES ASSUME NEW d \in Callers, pc'[d] = "arriving", d # c
                PROVE  QuotaTrue(EndpointOf(d), response[d].quota)'
    BY <1>8
  <2>1. pc[d] = "arriving" /\ response'[d] = response[d] /\ response[d].quota \in Quota
    BY <1>1, <1>2, <1>3 DEF CheckTypeOK
  <2>2. /\ EndpointOf(d) \in Endpoints
        /\ QuotaTrue(EndpointOf(d), response[d].quota)
    BY <2>1 DEF CheckInductive, EndpointOf, Endpoints
  <2>. QED BY <1>4, <2>1, <2>2 DEF QuotaTrue, EndpointOf
<1>10. \A f \in Endpoints : QuotaTrue(f, quotas[f])'
  <2>. SUFFICES ASSUME NEW f \in Endpoints PROVE QuotaTrue(f, quotas[f])'
    OBVIOUS
  <2>1. quotas[f] \in Quota /\ QuotaTrue(f, quotas[f])
    BY DEF CheckInductive, CheckTypeOK
  <2>2. quotas'[f] = quotas[f]
    BY <1>2
  <2>. QED BY <1>4, <2>1, <2>2 DEF QuotaTrue
<1>11. \A d \in Callers : AskedBefore(d)' /\ ReadSince(d)'
  BY <1>1, <1>2, <1>3 DEF CheckInductive, CheckTypeOK, AskedBefore, ReadSince
<1>. QED
  BY <1>2, <1>7, <1>9, <1>10, <1>11 DEF CheckInductive, EntriesExpire,
                                        RecentAnswers

\* The client reads a response.
LEMMA ReceiveStep ==
  ASSUME CheckInductive, NEW c \in Callers, Receive(c)
  PROVE  CheckInductive'
<1>. DEFINE e == EndpointOf(c)
<1>. USE DEF Goto, NotTold
<1>1. /\ pc[c] = "arriving" /\ UNCHANGED <<left, clock>>
      /\ pc' = [pc EXCEPT ![c] = "idle"]
      /\ question' = [question EXCEPT ![c] = NoQuestion]
      /\ asked' = [asked EXCEPT ![c] = 0]
      /\ response' = [response EXCEPT ![c] = NoResponse]
  BY DEF Receive, End
<1>2. /\ CheckTypeOK /\ e \in Endpoints
      /\ response[c] \in [answers : BOOLEAN, quota : Quota, read : Nat]
      /\ response[c].read <= clock
      /\ QuotaTrue(e, response[c].quota)
  BY <1>1 DEF CheckInductive, CheckTypeOK, EndpointOf, Endpoints, ReadSince
<1>3. /\ quotas' \in [Endpoints -> Quota]
      /\ \A f \in Endpoints : QuotaTrue(f, quotas[f])'
  <2>1. quotas' = quotas \/ quotas' = [quotas EXCEPT ![e] = response[c].quota]
    BY DEF Receive, ReadQuota, QuotaOf
  <2>. QED BY <1>1, <1>2, <2>1 DEF CheckInductive, CheckTypeOK, QuotaTrue, Today
<1>4. /\ cache' \in [Keys -> [expires : Nat, read : Nat]]
      /\ answered' \in [age : Nat, waited : Nat] \cup {NotTold}
      /\ EntriesExpire' /\ RecentAnswers'
      /\ \A k \in Keys : cache'[k].read <= clock
  <2>1. CASE response[c].answers /\ c \notin Downloaders
    <3>1. /\ KeyOf(question[c]) \in Keys
          /\ asked[c] \in Nat /\ asked[c] <= response[c].read
      BY <1>1, <1>2, <2>1 DEF CheckInductive, CheckTypeOK, ReadSince, KeyOf,
                              Keys, Questions
    <3>2. /\ cache' = [cache EXCEPT ![KeyOf(question[c])] = Entry(c)]
          /\ answered' = [age |-> clock - response[c].read, waited |-> clock - asked[c]]
      BY <2>1 DEF Receive, Answer, Result
    <3>3. Entry(c) = [expires |-> asked[c] + CacheSeconds, read |-> response[c].read]
      BY DEF Entry, Expiry, Result
    <3>. QED BY <1>1, <1>2, <3>1, <3>2, <3>3
         DEF CheckInductive, CheckTypeOK, EntriesExpire, RecentAnswers
  <2>2. CASE ~ (response[c].answers /\ c \notin Downloaders)
    <3>1. answered' = NotTold /\ cache' = cache
      BY <2>2 DEF Receive
    <3>. QED BY <1>1, <1>2, <3>1
         DEF CheckInductive, CheckTypeOK, EntriesExpire, RecentAnswers
  <2>. QED BY <2>1, <2>2
<1>5. CheckTypeOK'
  BY <1>1, <1>2, <1>3, <1>4, NoQuestionIs DEF CheckTypeOK, NoResponse, NoQuota,
                                              Quota
<1>6. \A d \in Callers : /\ AskedBefore(d)' /\ ReadSince(d)'
                         /\ (pc[d] = "arriving" =>
                               QuotaTrue(EndpointOf(d), response[d].quota))'
  BY <1>1, <1>2 DEF CheckInductive, CheckTypeOK, AskedBefore, ReadSince,
                    QuotaTrue, Today, EndpointOf
<1>. QED
  BY <1>1, <1>3, <1>4, <1>5, <1>6 DEF CheckInductive

\* Time passes.
LEMMA TickStep == CheckInductive /\ Tick => CheckInductive'
<1>. SUFFICES ASSUME CheckInductive, Tick PROVE CheckInductive'
  OBVIOUS
<1>1. /\ clock \in Nat /\ clock' = clock + 1 /\ answered' = NotTold
      /\ UNCHANGED <<pc, question, asked, response, cache, quotas>>
      /\ left' \in [Endpoints -> Nat]
  BY DEF CheckInductive, CheckTypeOK, Tick, client
<1>2. CheckTypeOK'
  BY <1>1 DEF CheckInductive, CheckTypeOK, NotTold
<1>3. \A f \in Endpoints : QuotaTrue(f, quotas[f])'
  <2>. SUFFICES ASSUME NEW f \in Endpoints PROVE QuotaTrue(f, quotas[f])'
    OBVIOUS
  <2>1. CheckTypeOK /\ quotas[f] \in Quota /\ QuotaTrue(f, quotas[f])
    BY DEF CheckInductive, CheckTypeOK
  <2>. QED BY <1>1, <2>1, TimeKeepsQuotas DEF QuotaTrue
<1>4. \A d \in Callers :
        (pc[d] = "arriving" => QuotaTrue(EndpointOf(d), response[d].quota))'
  <2>. SUFFICES ASSUME NEW d \in Callers, pc[d] = "arriving"
                PROVE  QuotaTrue(EndpointOf(d), response[d].quota)'
    BY <1>1 DEF EndpointOf
  <2>1. /\ CheckTypeOK /\ EndpointOf(d) \in Endpoints
        /\ response[d].quota \in Quota
        /\ QuotaTrue(EndpointOf(d), response[d].quota)
    BY DEF CheckInductive, CheckTypeOK, EndpointOf, Endpoints
  <2>. QED BY <1>1, <2>1, TimeKeepsQuotas DEF QuotaTrue, EndpointOf
<1>5. /\ \A k \in Keys : cache'[k].read <= clock'
      /\ \A d \in Callers : AskedBefore(d)' /\ ReadSince(d)'
  BY <1>1 DEF CheckInductive, CheckTypeOK, AskedBefore, ReadSince
<1>. QED
  BY <1>1, <1>2, <1>3, <1>4, <1>5 DEF CheckInductive, EntriesExpire, RecentAnswers

\* Every step keeps the invariant.
LEMMA CheckStep == CheckInductive /\ [CheckNext]_checkVars => CheckInductive'
<1>. SUFFICES ASSUME CheckInductive, [CheckNext]_checkVars PROVE CheckInductive'
  OBVIOUS
<1>1. CASE \E c \in Callers : \/ Refuse(c) \/ Hit(c) \/ Ask(c)
                               \/ AskForList(c) \/ BreakOff(c)
  BY <1>1, CallStep
<1>2. CASE \E c \in Callers : Serve(c)
  BY <1>2, ServeStep
<1>3. CASE \E c \in Callers : Receive(c)
  BY <1>3, ReceiveStep
<1>4. CASE Tick
  BY <1>4, TickStep
<1>5. CASE UNCHANGED checkVars
  BY <1>5 DEF checkVars, CheckInductive, CheckTypeOK, EntriesExpire,
              RecentAnswers, AskedBefore, ReadSince,
              QuotaTrue, Today, EndpointOf
<1>. QED BY <1>1, <1>2, <1>3, <1>4, <1>5 DEF CheckNext

\* So it holds always.
LEMMA CheckAlwaysInductive == CheckSpec => []CheckInductive
BY CheckInitInductive, CheckStep, PTL DEF CheckSpec

-----------------------------------------------------------------------------
(* What follows.                                                           *)

\* Every variable keeps its type, and a check only asks the service about a
\* public address and a window of 1 to 365 days (public_address, check).
THEOREM CheckTypeCorrect == CheckSpec => []CheckTypeOK
<1>1. CheckInductive => CheckTypeOK
  BY DEF CheckInductive
<1>. QED BY <1>1, CheckAlwaysInductive, PTL

\* What a check returns was read by the service during the check or within
\* CACHE_SECONDS of it, for any number of overlapping checks (client.py, check).
THEOREM AnswersAreRecent == CheckSpec => []RecentAnswers
<1>1. CheckInductive => RecentAnswers
  BY DEF CheckInductive
<1>. QED BY <1>1, CheckAlwaysInductive, PTL

\* The quota kept for an endpoint never understates what is left of its day's
\* allowance, in whatever order the answers arrive (client.py, _read_quota).
THEOREM QuotaNeverUnderstates == CheckSpec => []QuotaAsStated
<1>1. CheckInductive => QuotaAsStated
  BY DEF CheckInductive, QuotaAsStated, QuotaTrue
<1>. QED BY <1>1, CheckAlwaysInductive, PTL

=============================================================================
