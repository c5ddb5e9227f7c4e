------------------------ MODULE CapabilityProbeProofs ------------------------
(***************************************************************************)
(* Proofs about CapabilityProbe for any number of callers, checks and      *)
(* outages and any width of the semaphore: an outage is never remembered,  *)
(* and one probe serves everybody.                                         *)
(***************************************************************************)
EXTENDS CapabilityProbe, FiniteSetTheorems, SequenceTheorems, TLAPS

USE ConstantsAssumption

\* A queue without its n-th entry has the others, in their order.
LEMMA QueueWithoutOne ==
  ASSUME NEW q \in Seq(Callers), NEW n \in DOMAIN q
  PROVE  /\ RemoveAt(q, n) \in Seq(Callers)
         /\ DOMAIN RemoveAt(q, n) = 1 .. Len(q) - 1
         /\ \A m \in DOMAIN RemoveAt(q, n) :
              RemoveAt(q, n)[m] = q[IF m < n THEN m ELSE m + 1]
<1>. DEFINE before == SubSeq(q, 1, n - 1)
            after == SubSeq(q, n + 1, Len(q))
<1>1. n \in 1 .. Len(q) /\ Len(q) \in Nat /\ \A m \in 1 .. Len(q) : q[m] \in Callers
  BY LenProperties, ElementOfSeq
<1>2. /\ before \in Seq(Callers) /\ Len(before) = n - 1
      /\ \A m \in 1 .. n - 1 : before[m] = q[m]
  <2>1. \A m \in 1 .. n - 1 : q[m] \in Callers
    BY <1>1
  <2>2. /\ before \in Seq(Callers)
        /\ Len(before) = IF 1 <= n - 1 THEN n - 1 - 1 + 1 ELSE 0
        /\ \A m \in 1 .. n - 1 - 1 + 1 : before[m] = q[1 + m - 1]
    BY <1>1, <2>1, SubSeqProperties
  <2>. QED BY <1>1, <2>2
<1>3. /\ after \in Seq(Callers) /\ Len(after) = Len(q) - n
      /\ \A m \in 1 .. Len(q) - n : after[m] = q[n + m]
  <2>1. \A m \in n + 1 .. Len(q) : q[m] \in Callers
    BY <1>1
  <2>2. /\ after \in Seq(Callers)
        /\ Len(after) = IF n + 1 <= Len(q) THEN Len(q) - (n + 1) + 1 ELSE 0
        /\ \A m \in 1 .. Len(q) - (n + 1) + 1 : after[m] = q[n + 1 + m - 1]
    BY <1>1, <2>1, SubSeqProperties
  <2>. QED BY <1>1, <2>2
<1>4. /\ before \o after \in Seq(Callers)
      /\ Len(before \o after) = Len(q) - 1
      /\ \A m \in 1 .. Len(q) - 1 :
           (before \o after)[m] = IF m <= n - 1 THEN before[m] ELSE after[m - (n - 1)]
  <2>. HIDE DEF before, after
  <2>1. /\ before \o after \in Seq(Callers)
        /\ Len(before \o after) = Len(before) + Len(after)
        /\ \A m \in 1 .. Len(before) + Len(after) :
             (before \o after)[m] = IF m <= Len(before) THEN before[m] ELSE after[m - Len(before)]
    BY <1>2, <1>3, ConcatProperties
  <2>2. Len(before) + Len(after) = Len(q) - 1
    BY <1>1, <1>2, <1>3
  <2>. QED BY <1>2, <2>1, <2>2
<1>5. RemoveAt(q, n) = before \o after
  BY DEF RemoveAt
<1>6. DOMAIN RemoveAt(q, n) = 1 .. Len(q) - 1
  BY <1>1, <1>4, <1>5, LenProperties
<1>. HIDE DEF before, after
<1>7. ASSUME NEW m \in 1 .. Len(q) - 1
      PROVE  (before \o after)[m] = q[IF m < n THEN m ELSE m + 1]
  <2>. DEFINE joined == before \o after
  <2>0. joined[m] = IF m <= n - 1 THEN before[m] ELSE after[m - (n - 1)]
    BY <1>4
  <2>. HIDE DEF joined
  <2>1. CASE m < n
    <3>1. joined[m] = before[m] /\ before[m] = q[m]
      BY <1>1, <1>2, <2>0, <2>1
    <3>. QED BY <2>1, <3>1 DEF joined
  <2>2. CASE m >= n
    <3>1. m - (n - 1) \in 1 .. Len(q) - n /\ n + (m - (n - 1)) = m + 1
      BY <1>1, <2>2
    <3>2. joined[m] = after[m - (n - 1)] /\ after[m - (n - 1)] = q[m + 1]
      BY <1>1, <1>3, <2>0, <2>2, <3>1
    <3>3. ~ m < n
      BY <1>1, <2>2
    <3>. QED BY <3>2, <3>3 DEF joined
  <2>3. m < n \/ m >= n
    BY <1>1
  <2>. QED BY <2>1, <2>2, <2>3
<1>. QED BY <1>4, <1>5, <1>6, <1>7

\* So has its tail.
LEMMA TailOfQueue ==
  ASSUME NEW q \in Seq(Callers), q # <<>>
  PROVE  /\ Tail(q) \in Seq(Callers)
         /\ DOMAIN Tail(q) = 1 .. Len(q) - 1
         /\ \A m \in DOMAIN Tail(q) : Tail(q)[m] = q[m + 1]
         /\ Head(q) = q[1] /\ 1 \in DOMAIN q /\ Head(q) \in Callers
         /\ DOMAIN q = 1 .. Len(q) /\ Len(q) \in Nat \ {0}
BY HeadTailProperties, LenProperties, EmptySeq

\* A queue that lost the entry of c holds callers that still wait.
LEMMA ShrunkQueueWaits ==
  ASSUME TypeOK, QueueWaits, NEW n \in DOMAIN queue, NEW q \in Seq(Callers),
         DOMAIN q = 1 .. Len(queue) - 1,
         \A m \in DOMAIN q : q[m] = queue[IF m < n THEN m ELSE m + 1],
         queue' = q,
         \A d \in Callers \ {queue[n]} : stage'[d] = stage[d]
  PROVE  QueueWaits'
<1>1. DOMAIN queue = 1 .. Len(queue) /\ Len(queue) \in Nat
      /\ \A m \in DOMAIN queue : queue[m] \in Callers
  BY LenProperties, ElementOfSeq DEF TypeOK
<1>. DEFINE at(m) == IF m < n THEN m ELSE m + 1
<1>2. \A m \in DOMAIN q : at(m) \in DOMAIN queue /\ at(m) # n /\ q[m] = queue[at(m)]
  BY <1>1
<1>3. \A l, m \in DOMAIN q : at(l) = at(m) => l = m
  BY <1>1
<1>. HIDE DEF at
<1>4. \A m \in DOMAIN q : stage'[q[m]] = "queued"
  BY <1>1, <1>2 DEF QueueWaits
<1>5. \A l, m \in DOMAIN q : q[l] = q[m] => l = m
  BY <1>1, <1>2, <1>3 DEF QueueWaits
<1>. QED BY <1>4, <1>5 DEF QueueWaits

-----------------------------------------------------------------------------
(* Every step keeps the invariant.                                         *)

\* At the start nobody called and nothing is kept.
LEMMA InitInductive == Init => Inductive
<1>. SUFFICES ASSUME Init PROVE Inductive
  OBVIOUS
<1>. USE DEF Init
<1>1. TypeOK
  BY EmptySeq DEF TypeOK, Stages
<1>2. QueueWaits
  BY DEF QueueWaits
<1>3. HolderProbes /\ ChecksAreCounted
  BY DEF HolderProbes, ChecksAreCounted, Probing
<1>4. BindingsAreBuilt /\ OutagesAreNotKept /\ NothingFailed /\ FirstIsKept
  BY DEF BindingsAreBuilt, BuiltBy, OutagesAreNotKept, NothingFailed, FirstIsKept
<1>5. MetProbes /\ WaitersShare /\ RefreshIsNew
  BY DEF MetProbes, WaitersShare, RefreshIsNew
<1>. QED BY <1>1, <1>2, <1>3, <1>4, <1>5 DEF Inductive

\* A caller arrives.
LEMMA CallStep ==
  ASSUME Inductive, NEW c \in Callers, Call(c)
  PROVE  Inductive'
<1>. USE DEF Inductive
<1>. DEFINE r == refresh'[c]
<1>1. /\ stage[c] = "idle" /\ stage' = [stage EXCEPT ![c] = "queued"]
      /\ refresh' = [refresh EXCEPT ![c] = r] /\ r \in BOOLEAN
      /\ met' = [met EXCEPT ![c] = holder]
      /\ queue' = Append(queue, c)
      /\ UNCHANGED <<holder, checks, kept, given, tenant>>
  BY DEF Call, TypeOK
<1>. USE DEF checks, tenant
<1>. HIDE DEF r
<1>2. /\ queue' \in Seq(Callers) /\ DOMAIN queue' = 1 .. Len(queue) + 1
      /\ DOMAIN queue = 1 .. Len(queue) /\ Len(queue) \in Nat
      /\ \A n \in DOMAIN queue : queue'[n] = queue[n]
      /\ queue'[Len(queue) + 1] = c
  BY <1>1, AppendProperties, LenProperties, SMTT(20) DEF TypeOK
<1>3. TypeOK'
  BY <1>1, <1>2 DEF TypeOK, Stages
<1>4. QueueWaits'
  <2>1. \A n \in DOMAIN queue : queue[n] \in Callers /\ queue[n] # c
    BY <1>1, ElementOfSeq DEF TypeOK, QueueWaits
  <2>2. \A n \in DOMAIN queue' : n \in DOMAIN queue \/ n = Len(queue) + 1
    BY <1>2
  <2>3. \A n \in DOMAIN queue' : stage'[queue'[n]] = "queued"
    BY <1>1, <1>2, <2>1, <2>2 DEF TypeOK, QueueWaits
  <2>4. \A m, n \in DOMAIN queue' : queue'[m] = queue'[n] => m = n
    BY <1>2, <2>1, <2>2 DEF QueueWaits
  <2>. QED BY <2>3, <2>4 DEF QueueWaits
<1>5. HolderProbes' /\ ChecksAreCounted'
  BY <1>1 DEF TypeOK, HolderProbes, ChecksAreCounted, Probing
<1>6. BindingsAreBuilt'
  BY <1>1 DEF TypeOK, BindingsAreBuilt, BuiltBy
<1>7. OutagesAreNotKept' /\ NothingFailed'
  BY <1>1 DEF TypeOK, OutagesAreNotKept, NothingFailed
<1>8. FirstIsKept'
  BY <1>1 DEF TypeOK, FirstIsKept, MetProbes
<1>9. MetProbes'
  BY <1>1 DEF TypeOK, MetProbes, HolderProbes, OtherFailed, Probing, Ended
<1>10. WaitersShare' /\ RefreshIsNew'
  BY <1>1 DEF TypeOK, WaitersShare, RefreshIsNew
<1>. QED BY <1>3, <1>4, <1>5, <1>6, <1>7, <1>8, <1>9, <1>10

\* What is the same in all steps that take the first caller out of the queue.
LEMMA Entering ==
  ASSUME TypeOK, QueueWaits, NEW c \in Callers, MayEnter(c),
         queue' = Tail(queue), \A d \in Callers \ {c} : stage'[d] = stage[d]
  PROVE  /\ queue' \in Seq(Callers) /\ QueueWaits'
         /\ stage[c] = "queued" /\ holder = Nobody
<1>1. queue \in Seq(Callers) /\ queue # <<>> /\ Head(queue) = c /\ holder = Nobody
  BY DEF TypeOK, MayEnter
<1>2. /\ Tail(queue) \in Seq(Callers)
      /\ DOMAIN Tail(queue) = 1 .. Len(queue) - 1
      /\ \A m \in DOMAIN Tail(queue) : Tail(queue)[m] = queue[m + 1]
      /\ Head(queue) = queue[1] /\ 1 \in DOMAIN queue
  BY <1>1, TailOfQueue
<1>3. \A m \in DOMAIN Tail(queue) : Tail(queue)[m] = queue[IF m < 1 THEN m ELSE m + 1]
  BY <1>1, <1>2
<1>4. QueueWaits'
  BY <1>1, <1>2, <1>3, ShrunkQueueWaits
<1>. QED BY <1>1, <1>2, <1>4 DEF QueueWaits

\* A caller is answered with what is kept.
LEMMA ShareStep ==
  ASSUME Inductive, NEW c \in Callers, Share(c)
  PROVE  Inductive'
<1>. USE DEF Inductive
<1>1. /\ MayEnter(c) /\ kept # Nobody /\ ~ refresh[c]
      /\ queue' = Tail(queue)
      /\ stage' = [stage EXCEPT ![c] = "answered"]
      /\ given' = [given EXCEPT ![c] = kept]
      /\ UNCHANGED <<refresh, met, holder, waiting, running, failed, kept, up, outages>>
  BY DEF Share, MustProbe, callers, checks, tenant
<1>2. /\ queue' \in Seq(Callers) /\ QueueWaits' /\ stage[c] = "queued" /\ holder = Nobody
  BY <1>1, Entering DEF TypeOK
<1>3. TypeOK'
  BY <1>1, <1>2 DEF TypeOK, Stages
<1>4. kept # c /\ kept \in Callers /\ stage[kept] = "answered" /\ given[kept] = kept
  BY <1>1, <1>2 DEF TypeOK, BindingsAreBuilt, BuiltBy
<1>5. HolderProbes' /\ ChecksAreCounted'
  BY <1>1, <1>2 DEF TypeOK, HolderProbes, ChecksAreCounted, Probing
<1>6. BindingsAreBuilt'
  BY <1>1, <1>2, <1>4 DEF TypeOK, BindingsAreBuilt, BuiltBy
<1>7. OutagesAreNotKept' /\ NothingFailed'
  BY <1>1, <1>4 DEF TypeOK, OutagesAreNotKept, NothingFailed
<1>8. FirstIsKept'
  BY <1>1, <1>4 DEF TypeOK, FirstIsKept
<1>11. \A d \in Callers : stage[d] \notin Probing
  BY <1>2 DEF HolderProbes
<1>9. MetProbes'
  BY <1>1, <1>2, <1>11 DEF TypeOK, MetProbes, OtherFailed, Probing, Ended
<1>10. WaitersShare' /\ RefreshIsNew'
  BY <1>1, <1>4, <1>2, ZenonT(30) DEF TypeOK, WaitersShare, RefreshIsNew, MetProbes, Probing, Ended
<1>. QED BY <1>2, <1>3, <1>5, <1>6, <1>7, <1>8, <1>9, <1>10

\* A caller takes the lock and begins its probe.
LEMMA ProbeStep ==
  ASSUME Inductive, NEW c \in Callers, Probe(c)
  PROVE  Inductive'
<1>. USE DEF Inductive
<1>1. /\ MayEnter(c) /\ (kept = Nobody \/ refresh[c])
      /\ queue' = Tail(queue)
      /\ holder' = c
      /\ stage' = [stage EXCEPT ![c] = "probing"]
      /\ waiting' = [waiting EXCEPT ![c] = Checks]
      /\ UNCHANGED <<refresh, met, running, failed, kept, given, up, outages>>
  BY DEF Probe, MustProbe, callers, tenant
<1>2. /\ queue' \in Seq(Callers) /\ QueueWaits' /\ stage[c] = "queued" /\ holder = Nobody
  BY <1>1, Entering DEF TypeOK
<1>3. TypeOK'
  BY <1>1, <1>2 DEF TypeOK, Stages
<1>4. \A d \in Callers : stage[d] \notin Probing
  BY <1>2 DEF HolderProbes
<1>5. HolderProbes' /\ ChecksAreCounted'
  BY <1>1, <1>2, <1>4 DEF TypeOK, HolderProbes, ChecksAreCounted, Probing
<1>6. BindingsAreBuilt'
  BY <1>1, <1>2 DEF TypeOK, BindingsAreBuilt, BuiltBy
<1>7. OutagesAreNotKept' /\ NothingFailed'
  BY <1>1 DEF TypeOK, OutagesAreNotKept, NothingFailed
<1>8. FirstIsKept'
  BY <1>1 DEF TypeOK, FirstIsKept
<1>9. MetProbes'
  BY <1>1, <1>2, <1>4 DEF TypeOK, MetProbes, OtherFailed, Probing, Ended
<1>10. WaitersShare' /\ RefreshIsNew'
  BY <1>1, <1>2 DEF TypeOK, WaitersShare, RefreshIsNew, MetProbes, Probing, Ended
<1>. QED BY <1>2, <1>3, <1>5, <1>6, <1>7, <1>8, <1>9, <1>10

\* A check starts, or is over.
LEMMA CheckStep ==
  ASSUME Inductive, NEW c \in Callers, StartCheck(c) \/ EndCheck(c)
  PROVE  Inductive'
<1>. USE DEF Inductive
<1>1. UNCHANGED <<stage, refresh, met, queue, holder, kept, given, up, outages>>
  BY DEF StartCheck, EndCheck, callers, lock, tenant
<1>2. /\ waiting[c] + running[c] > 0
      /\ waiting' \in [Callers -> 0 .. Checks] /\ running' \in [Callers -> 0 .. Checks]
      /\ \A d \in Callers \ {c} : waiting'[d] = waiting[d] /\ running'[d] = running[d]
      /\ waiting'[c] + running'[c] <= waiting[c] + running[c]
      /\ running'[c] <= Concurrency
  <2>1. /\ waiting \in [Callers -> 0 .. Checks] /\ running \in [Callers -> 0 .. Checks]
        /\ waiting[c] + running[c] <= Checks /\ running[c] <= Concurrency
    BY DEF TypeOK, ChecksAreCounted
  <2>2. CASE StartCheck(c)
    BY <2>1, <2>2 DEF StartCheck, HasRoom
  <2>3. CASE EndCheck(c)
    BY <2>1, <2>3 DEF EndCheck
  <2>. QED BY <2>2, <2>3
<1>3. /\ failed' \in [Callers -> BOOLEAN]
      /\ \A d \in Callers : d # c \/ up => failed'[d] = failed[d]
      /\ \A d \in Callers : failed[d] => failed'[d]
  BY DEF TypeOK, StartCheck, EndCheck
<1>4. stage[c] \notin {"idle", "queued", "claims", "answered"}
  BY <1>2, SMTT(20) DEF TypeOK, ChecksAreCounted
<1>5. TypeOK'
  BY <1>1, <1>2, <1>3 DEF TypeOK
<1>6. QueueWaits' /\ HolderProbes'
  BY <1>1 DEF QueueWaits, HolderProbes
<1>7. ChecksAreCounted'
  <2>1. ASSUME NEW d \in Callers, d # c
        PROVE  /\ waiting'[d] + running'[d] <= Checks /\ running'[d] <= Concurrency
               /\ stage'[d] \in {"idle", "queued", "claims", "answered"}
                    => waiting'[d] + running'[d] = 0
    BY <1>1, <1>2, <2>1 DEF ChecksAreCounted
  <2>2. waiting[c] \in Nat /\ running[c] \in Nat /\ waiting[c] + running[c] <= Checks
    BY DEF TypeOK, ChecksAreCounted
  <2>3. waiting'[c] \in Nat /\ running'[c] \in Nat /\ waiting'[c] + running'[c] <= Checks
    BY <1>2, <2>2
  <2>. QED BY <1>1, <1>2, <1>4, <2>1, <2>3 DEF ChecksAreCounted
<1>8. BindingsAreBuilt' /\ FirstIsKept' /\ RefreshIsNew'
  BY <1>1 DEF BindingsAreBuilt, BuiltBy, FirstIsKept, RefreshIsNew
<1>9. OutagesAreNotKept'
  BY <1>1, <1>3, <1>4 DEF TypeOK, OutagesAreNotKept, BindingsAreBuilt, BuiltBy
<1>10. NothingFailed'
  BY <1>1, <1>3 DEF NothingFailed
<1>11. MetProbes' /\ WaitersShare'
  BY <1>1, <1>3 DEF TypeOK, MetProbes, OtherFailed, WaitersShare
<1>. QED BY <1>5, <1>6, <1>7, <1>8, <1>9, <1>10, <1>11

\* A caller leaves its probe without an answer, or one of its checks raises
\* after it left.
LEMMA LeaveStep ==
  ASSUME Inductive, NEW c \in Callers,
         RaiseCheck(c) \/ RaiseClaims(c) \/ (stage[c] \in Probing /\ Cancel(c))
  PROVE  Inductive'
<1>. USE DEF Inductive
<1>1. /\ UNCHANGED <<refresh, met, queue, failed, kept, given, up, outages>>
      /\ stage[c] \notin {"idle", "queued", "answered"}
      /\ \/ UNCHANGED <<stage, holder>> /\ stage[c] \notin {"idle", "queued", "claims", "answered"}
         \/ /\ stage[c] \in Probing /\ holder' = Nobody
            /\ \E end \in {"raised", "cancelled"} : stage' = [stage EXCEPT ![c] = end]
  <2>1. CASE RaiseCheck(c)
    BY <2>1 DEF RaiseCheck, TypeOK, ChecksAreCounted, Leave, callers, tenant, Probing
  <2>2. CASE RaiseClaims(c)
    BY <2>2 DEF RaiseClaims, Leave, callers, checks, tenant, Probing
  <2>3. CASE stage[c] \in Probing /\ Cancel(c)
    BY <2>3 DEF Cancel, Leave, callers, tenant, Probing
  <2>. QED BY <2>1, <2>2, <2>3
<1>2. /\ waiting' \in [Callers -> 0 .. Checks] /\ running' \in [Callers -> 0 .. Checks]
      /\ \A d \in Callers \ {c} : waiting'[d] = waiting[d] /\ running'[d] = running[d]
      /\ waiting'[c] + running'[c] <= waiting[c] + running[c]
      /\ running'[c] <= running[c]
  <2>1. waiting \in [Callers -> 0 .. Checks] /\ running \in [Callers -> 0 .. Checks]
    BY DEF TypeOK
  <2>2. CASE RaiseCheck(c)
    BY <2>1, <2>2 DEF RaiseCheck
  <2>3. CASE RaiseClaims(c)
    BY <2>1, <2>3 DEF RaiseClaims, checks
  <2>4. CASE stage[c] \in Probing /\ Cancel(c)
    BY <2>1, <2>4 DEF Cancel, Probing
  <2>. QED BY <2>2, <2>3, <2>4
<1>3. TypeOK'
  BY <1>1, <1>2 DEF TypeOK, Stages
<1>4. QueueWaits'
  BY <1>1, LenProperties, ElementOfSeq DEF TypeOK, QueueWaits
<1>5. HolderProbes'
  BY <1>1 DEF TypeOK, HolderProbes, Probing
<1>6. ChecksAreCounted'
  <2>1. ASSUME NEW d \in Callers, d # c
        PROVE  /\ waiting'[d] + running'[d] <= Checks /\ running'[d] <= Concurrency
               /\ stage'[d] \in {"idle", "queued", "claims", "answered"}
                    => waiting'[d] + running'[d] = 0
    BY <1>1, <1>2, <2>1 DEF TypeOK, ChecksAreCounted
  <2>2. /\ waiting[c] \in Nat /\ running[c] \in Nat /\ waiting[c] + running[c] <= Checks
        /\ running[c] <= Concurrency
    BY DEF TypeOK, ChecksAreCounted
  <2>3. /\ waiting'[c] \in Nat /\ running'[c] \in Nat /\ waiting'[c] + running'[c] <= Checks
        /\ running'[c] <= Concurrency
    BY <1>2, <2>2
  <2>4. stage'[c] \notin {"idle", "queued", "claims", "answered"}
    BY <1>1 DEF TypeOK
  <2>. QED BY <2>1, <2>3, <2>4 DEF ChecksAreCounted
<1>7. BindingsAreBuilt' /\ OutagesAreNotKept' /\ NothingFailed'
  BY <1>1 DEF TypeOK, BindingsAreBuilt, BuiltBy, OutagesAreNotKept, NothingFailed
<1>8. FirstIsKept'
  BY <1>1 DEF TypeOK, FirstIsKept, HolderProbes
<1>9. MetProbes'
  BY <1>1 DEF TypeOK, MetProbes, OtherFailed, Probing, Ended
<1>10. WaitersShare' /\ RefreshIsNew'
  BY <1>1 DEF TypeOK, WaitersShare, RefreshIsNew
<1>. QED BY <1>3, <1>4, <1>5, <1>6, <1>7, <1>8, <1>9, <1>10

\* A caller leaves the queue.
LEMMA CancelWaitingStep ==
  ASSUME Inductive, NEW c \in Callers, stage[c] = "queued", Cancel(c)
  PROVE  Inductive'
<1>. USE DEF Inductive
<1>1. /\ UNCHANGED <<refresh, met, holder, waiting, running, failed, kept, given, up, outages>>
      /\ stage' = [stage EXCEPT ![c] = "cancelled"]
      /\ \E n \in DOMAIN queue : queue[n] = c /\ queue' = RemoveAt(queue, n)
  BY DEF Cancel, Probing, callers, checks, tenant
<1>2. PICK n \in DOMAIN queue : queue[n] = c /\ queue' = RemoveAt(queue, n)
  BY <1>1
<1>3. /\ queue' \in Seq(Callers) /\ DOMAIN queue' = 1 .. Len(queue) - 1
      /\ \A m \in DOMAIN queue' : queue'[m] = queue[IF m < n THEN m ELSE m + 1]
  BY <1>2, QueueWithoutOne, ZenonT(30) DEF TypeOK
<1>4. QueueWaits'
  <2>1. \A d \in Callers \ {queue[n]} : stage'[d] = stage[d]
    BY <1>1, <1>2 DEF TypeOK
  <2>. QED BY <1>3, <2>1, ShrunkQueueWaits
<1>5. TypeOK'
  BY <1>1, <1>3 DEF TypeOK, Stages
<1>6. HolderProbes' /\ ChecksAreCounted'
  BY <1>1 DEF TypeOK, HolderProbes, ChecksAreCounted, Probing
<1>7. BindingsAreBuilt' /\ OutagesAreNotKept' /\ NothingFailed' /\ FirstIsKept'
  BY <1>1 DEF TypeOK, BindingsAreBuilt, BuiltBy, OutagesAreNotKept, NothingFailed, FirstIsKept
<1>8. MetProbes'
  BY <1>1, SMTT(20) DEF TypeOK, MetProbes, OtherFailed, Probing, Ended
<1>9. WaitersShare' /\ RefreshIsNew'
  BY <1>1 DEF TypeOK, WaitersShare, RefreshIsNew
<1>. QED BY <1>4, <1>5, <1>6, <1>7, <1>8, <1>9

\* Every check of a probe is over, or the tenant's services come or go.
LEMMA PassingStep ==
  ASSUME Inductive, (\E c \in Callers : Gathered(c)) \/ Outage \/ Recover
  PROVE  Inductive'
<1>. USE DEF Inductive
<1>1. CASE \E c \in Callers : Gathered(c)
  <2>1. PICK c \in Callers : Gathered(c)
    BY <1>1
  <2>2. /\ UNCHANGED <<refresh, met, queue, holder, waiting, running, failed, kept, given, up,
                       outages>>
        /\ stage[c] = "probing" /\ stage' = [stage EXCEPT ![c] = "claims"]
        /\ waiting[c] = 0 /\ running[c] = 0
    BY <2>1 DEF Gathered, callers, lock, checks, tenant
  <2>3. TypeOK'
    BY <2>2 DEF TypeOK, Stages
  <2>4. QueueWaits'
    BY <2>2, ElementOfSeq, LenProperties DEF TypeOK, QueueWaits
  <2>5. HolderProbes'
    BY <2>2 DEF TypeOK, HolderProbes, Probing
  <2>9. ChecksAreCounted'
    <3>1. \A d \in Callers \ {c} : stage'[d] = stage[d]
      BY <2>2 DEF TypeOK
    <3>2. waiting[c] + running[c] = 0
      BY <2>2
    <3>. QED BY <2>2, <3>1, <3>2 DEF ChecksAreCounted
  <2>6. BindingsAreBuilt' /\ OutagesAreNotKept' /\ NothingFailed' /\ FirstIsKept'
    BY <2>2 DEF TypeOK, BindingsAreBuilt, BuiltBy, OutagesAreNotKept, NothingFailed, FirstIsKept
  <2>7. MetProbes'
    BY <2>2 DEF TypeOK, MetProbes, OtherFailed, Probing, Ended
  <2>8. WaitersShare' /\ RefreshIsNew'
    BY <2>2 DEF TypeOK, WaitersShare, RefreshIsNew
  <2>. QED BY <2>3, <2>4, <2>5, <2>6, <2>7, <2>8, <2>9
<1>2. CASE Outage \/ Recover
  <2>1. /\ UNCHANGED <<stage, refresh, met, queue, holder, waiting, running, failed, kept, given>>
        /\ up' \in BOOLEAN
        /\ \/ up' /\ outages' = outages
           \/ outages' = outages + 1 /\ outages < MaxOutages
    BY <1>2 DEF Outage, Recover, callers, lock, checks
  <2>5. outages' \in 0 .. MaxOutages /\ (outages' = 0 => outages = 0 /\ up')
    BY <2>1 DEF TypeOK
  <2>2. TypeOK'
    BY <2>1, <2>5 DEF TypeOK
  <2>3. QueueWaits' /\ HolderProbes' /\ ChecksAreCounted' /\ BindingsAreBuilt'
        /\ OutagesAreNotKept'
    BY <2>1 DEF QueueWaits, HolderProbes, ChecksAreCounted, BindingsAreBuilt, BuiltBy,
                OutagesAreNotKept
  <2>4. NothingFailed' /\ FirstIsKept' /\ MetProbes' /\ WaitersShare' /\ RefreshIsNew'
    BY <2>1, <2>5 DEF NothingFailed, FirstIsKept, MetProbes, OtherFailed, WaitersShare, RefreshIsNew
  <2>. QED BY <2>2, <2>3, <2>4
<1>. QED BY <1>1, <1>2

\* A binding is built, answered with, and kept or not.
LEMMA BindStep ==
  ASSUME Inductive, NEW c \in Callers, Bind(c)
  PROVE  Inductive'
<1>. USE DEF Inductive
<1>1. /\ UNCHANGED <<refresh, met, queue, waiting, running, failed, up, outages>>
      /\ stage[c] = "claims" /\ stage' = [stage EXCEPT ![c] = "answered"]
      /\ holder' = Nobody
      /\ kept' = IF failed[c] THEN Nobody ELSE c
      /\ given' = [given EXCEPT ![c] = c]
  BY DEF Bind, Complete, Leave, callers, checks, tenant
<1>2. holder = c
  BY <1>1 DEF HolderProbes, Probing
<1>3. TypeOK'
  BY <1>1 DEF TypeOK, Stages
<1>4. QueueWaits'
  BY <1>1, ElementOfSeq, LenProperties DEF TypeOK, QueueWaits
<1>5. HolderProbes' /\ ChecksAreCounted'
  BY <1>1, <1>2 DEF TypeOK, HolderProbes, ChecksAreCounted, Probing
<1>6. BindingsAreBuilt'
  BY <1>1 DEF TypeOK, BindingsAreBuilt, BuiltBy
<1>7. OutagesAreNotKept' /\ NothingFailed'
  BY <1>1 DEF TypeOK, OutagesAreNotKept, NothingFailed
<1>8. FirstIsKept'
  BY <1>1, <1>2 DEF TypeOK, FirstIsKept, NothingFailed
<1>9. MetProbes'
  BY <1>1 DEF TypeOK, MetProbes, OtherFailed, Probing, Ended
<1>10. WaitersShare'
  <2>. SUFFICES ASSUME NEW d \in Callers,
                       stage'[d] = "answered", ~ refresh[d], given'[d] = d,
                       met[d] # Nobody, stage'[met[d]] = "answered"
                PROVE  OtherFailed(d)
    BY <1>1 DEF WaitersShare, OtherFailed
  <2>1. met[d] \in Callers /\ met[d] # d
    BY DEF TypeOK, MetProbes
  <2>2. CASE d = c
    BY <1>1, <2>1, <2>2 DEF TypeOK, MetProbes, Probing
  <2>3. CASE d # c
    <3>1. stage[d] = "answered" /\ given[d] = d
      BY <1>1, <2>3 DEF TypeOK
    <3>2. met[d] # c
      BY <1>1, <2>1, <3>1 DEF MetProbes, Ended
    <3>. QED BY <1>1, <2>1, <3>1, <3>2 DEF TypeOK, WaitersShare, OtherFailed
  <2>. QED BY <2>2, <2>3
<1>11. RefreshIsNew'
  BY <1>1 DEF TypeOK, RefreshIsNew
<1>. QED BY <1>3, <1>4, <1>5, <1>6, <1>7, <1>8, <1>9, <1>10, <1>11

\* No step breaks the invariant.
LEMMA StepInductive == Inductive /\ [Next]_vars => Inductive'
<1>. SUFFICES ASSUME Inductive, [Next]_vars PROVE Inductive'
  OBVIOUS
<1>1. CASE UNCHANGED vars
  BY <1>1 DEF vars, Inductive, TypeOK, QueueWaits, HolderProbes, ChecksAreCounted,
     BindingsAreBuilt, BuiltBy, OutagesAreNotKept, NothingFailed, FirstIsKept, MetProbes,
     OtherFailed, WaitersShare, RefreshIsNew
<1>2. ASSUME NEW c \in Callers, Cancel(c) PROVE Inductive'
  <2>1. stage[c] = "queued" \/ stage[c] \in Probing
    BY <1>2 DEF Cancel
  <2>. QED BY <1>2, <2>1, CancelWaitingStep, LeaveStep
<1>3. ASSUME NEW c \in Callers, Progress(c) PROVE Inductive'
  BY <1>3, ShareStep, ProbeStep, PassingStep, BindStep, LeaveStep DEF Progress
<1>4. ASSUME NEW c \in Callers, CheckProgress(c) PROVE Inductive'
  BY <1>4, CheckStep, LeaveStep DEF CheckProgress
<1>. QED BY <1>1, <1>2, <1>3, <1>4, CallStep, PassingStep DEF Next

-----------------------------------------------------------------------------
(* The theorems.                                                           *)

\* The invariant holds of every behaviour.
THEOREM InductiveHolds == Spec => []Inductive
<1>1. Init => Inductive
  BY InitInductive
<1>2. Inductive /\ [Next]_vars => Inductive'
  BY StepInductive
<1>. QED BY <1>1, <1>2, PTL DEF Spec

\* Every variable keeps its type; no semaphore is released more often than it
\* was acquired (run_probe).
THEOREM TypeCorrect == Spec => []TypeOK
<1>1. Inductive => TypeOK
  BY DEF Inductive
<1>. QED BY <1>1, InductiveHolds, PTL

\* No binding that is kept, or given to a caller that did not build it, is from
\* a probe one of whose checks met an outage (capability_probe.py:55).
THEOREM NoOutageIsRemembered == Spec => []OutagesAreNotKept
<1>1. Inductive => OutagesAreNotKept
  BY DEF Inductive
<1>. QED BY <1>1, InductiveHolds, PTL

\* A set no two elements of which differ has at most one.
LEMMA AtMostOne ==
  ASSUME NEW S, \A x, y \in S : x = y
  PROVE  Cardinality(S) <= 1
<1>1. CASE S = {}
  <2>1. Cardinality({}) = 0
    BY FS_EmptySet
  <2>. QED BY <1>1, <2>1
<1>2. CASE S # {}
  <2>1. PICK x : x \in S
    BY <1>2
  <2>2. S = {x}
    BY <2>1
  <2>3. Cardinality({x}) = 1
    BY FS_Singleton
  <2>. QED BY <2>2, <2>3
<1>. QED BY <1>1, <1>2

\* One caller probes at a time, within its semaphore; without an outage one
\* probe serves all who ask for no other; one that waited for an answered probe
\* probes again only when a probe met an outage; and a refresh is answered with
\* its own (get_capabilities, however its callers come, fail and are cancelled).
THEOREM OneProbeForAll == Spec => []OneProbe
<1>1. Inductive => OneProbe
  <2>. SUFFICES ASSUME Inductive PROVE OneProbe
    OBVIOUS
  <2>. USE DEF Inductive
  <2>1. OneProbeAtATime
    BY DEF OneProbeAtATime, HolderProbes, ChecksAreCounted
  <2>2. OneProbeServesAll
    <3>. SUFFICES ASSUME outages = 0, \A c \in Callers : ~ refresh[c]
                  PROVE  Cardinality({c \in Callers : stage[c] \in Probing \/ given[c] = c}) <= 1
      BY DEF OneProbeServesAll
    <3>1. \A c, d \in {e \in Callers : stage[e] \in Probing \/ given[e] = e} : c = d
      BY DEF FirstIsKept, HolderProbes
    <3>. QED BY <3>1, AtMostOne
  <2>. QED BY <2>1, <2>2 DEF OneProbe
<1>. QED BY <1>1, InductiveHolds, PTL

=============================================================================
