---------------------- MODULE EvidenceInventoryProofs ----------------------
(***************************************************************************)
(* Proofs about EvidenceInventory for any incident: any number of alerts,  *)
(* devices, spellings and rows, in any order, and any ceilings.            *)
(***************************************************************************)
EXTENDS EvidenceInventory, WellFoundedInduction, FiniteSetTheorems, SequenceTheorems, TLAPS

\* A set of indices that is not empty has a least one.
LEMMA LeastIndex ==
  ASSUME NEW S \in SUBSET Nat, S # {}
  PROVE  Min(S) \in S /\ \A y \in S : Min(S) <= y
<1>. DEFINE R == {ss \in Nat \X Nat : ss[1] < ss[2]}
<1>1. IsWellFoundedOn(R, Nat)
  BY NatLessThanWellFounded DEF OpToRel
<1>2. \E x \in S : \A y \in S : <<y, x>> \notin R
  <2>. HIDE DEF R
  <2>. QED BY <1>1, WFMin
<1>3. PICK x \in S : \A y \in S : <<y, x>> \notin R
  BY <1>2
<1>4. \A y \in S : x <= y
  <2>1. \A m, n \in Nat : m < n => <<m, n>> \in R
    OBVIOUS
  <2>. HIDE DEF R
  <2>. SUFFICES ASSUME NEW y \in S PROVE ~ (y < x)
    OBVIOUS
  <2>2. x \in Nat /\ y \in Nat
    OBVIOUS
  <2>. QED BY <1>3, <2>1, <2>2
<1>. QED BY <1>4 DEF Min

\* The lesser of two numbers is one of them.
LEMMA LesserOfTwo ==
  ASSUME NEW m \in Nat, NEW n \in Nat
  PROVE  Min({m, n}) \in {m, n} /\ Min({m, n}) <= m /\ Min({m, n}) <= n
BY LeastIndex

\* What comes after the least does not change it.
LEMMA LeastStays ==
  ASSUME NEW S \in SUBSET Nat, NEW T \in SUBSET Nat, S # {},
         \A m \in S, n \in T : m < n
  PROVE  Min(S \cup T) = Min(S)
<1>. DEFINE least == Min(S)
            both == Min(S \cup T)
<1>1. least \in S /\ \A n \in S : least <= n
  BY LeastIndex
<1>2. S \cup T \in SUBSET Nat /\ S \cup T # {}
  OBVIOUS
<1>3. both \in S \cup T /\ \A n \in S \cup T : both <= n
  BY <1>2, LeastIndex
<1>. HIDE DEF least, both
<1>4. both <= least /\ both \in Nat /\ least \in Nat
  BY <1>1, <1>2, <1>3
<1>5. both \in S
  BY <1>1, <1>3, <1>4
<1>6. least <= both
  BY <1>1, <1>5
<1>7. both = least
  BY <1>4, <1>6
<1>. QED BY <1>7 DEF both, least

USE ReadingAssumption, ConstantsAssumption

\* An alert that was sent is one of the incident's.
LEMMA AlertsHaveIds == MaxAlerts \in Nat /\ \A n \in 1 .. Len(Alerts) : Alerts[n] \in AlertIds
BY DEF MaxAlerts, AlertIds, Range

-----------------------------------------------------------------------------
(* Reading the alerts.                                                     *)

\* Nothing is read yet.
LEMMA InitInductive == Init => Inductive
<1>. SUFFICES ASSUME Init PROVE Inductive
  OBVIOUS
<1>. USE DEF Init, InitReading
<1>1. MaxAlerts \in Nat
  BY DEF MaxAlerts
<1>2. ReadingTypeOK
  <2>1. total \in 0 .. MaxAlerts + Excess /\ got \in 0 .. total /\ pages \in 0 .. MaxAlertPages
    BY <1>1
  <2>2. link \in BOOLEAN /\ truncated \in BOOLEAN
    OBVIOUS
  <2>. QED BY <2>1, <2>2 DEF ReadingTypeOK
<1>2a. ReadingKnown
  BY <1>2 DEF ReadingKnown
<1>3. TypeOK
  BY <1>2 DEF TypeOK
<1>4. CutIsTold
  BY DEF CutIsTold
<1>. QED BY <1>2a, <1>3, <1>4 DEF Inductive

\* Until the reading is over there is nothing but the reading.
LEMMA ReadingSteps ==
  ASSUME Inductive, Expand \/ Follow \/ Fail, UNCHANGED inventory
  PROVE  Inductive'
<1>1. /\ ReadingTypeOK /\ ReadingKnown /\ MaxAlerts \in Nat
      /\ rows = <<>> /\ entities = <<>> /\ owner \in Seq(1 .. 0) /\ Len(owner) = 0
  BY DEF Inductive, TypeOK, Expand, Follow, Fail, MaxAlerts
<1>2. ReadingKnown'
  <2>1. /\ total' = total /\ total \in Nat /\ got' \in 0 .. total
        /\ pages' \in 0 .. MaxAlertPages /\ stage' \in {"reading", "failed"}
    <3>1. total \in Nat /\ got \in 0 .. total /\ pages \in 0 .. MaxAlertPages
      BY <1>1 DEF ReadingTypeOK
    <3>2. CASE Expand
      BY <1>1, <3>1, <3>2 DEF ReadingKnown, Expand, Page
    <3>3. CASE Follow
      <4>1. got' \in 0 .. total
        BY <3>1, <3>3 DEF Follow, Page
      <4>2. pages < MaxAlertPages /\ pages' = pages + 1
        BY <3>3 DEF Follow, MayFollow
      <4>. QED BY <3>1, <3>3, <4>1, <4>2 DEF Follow
    <3>4. CASE Fail
      BY <3>1, <3>4 DEF Fail
    <3>. QED BY <3>2, <3>3, <3>4
  <2>2. link' \in BOOLEAN /\ truncated' \in BOOLEAN
    BY <1>1 DEF ReadingTypeOK, Expand, Follow, Fail, Page
  <2>3. stage' = "reading" /\ ~ link' => got' = total'
    <3>. SUFFICES ASSUME stage' = "reading", ~ link' PROVE got' = total'
      OBVIOUS
    <3>1. link' \in IF got' < total THEN {TRUE} ELSE BOOLEAN
      BY DEF Expand, Follow, Fail, Page
    <3>2. ~ (got' < total)
      BY <3>1
    <3>. QED BY <2>1, <3>2
  <2>. QED BY <1>1, <2>1, <2>2, <2>3 DEF ReadingKnown, ReadingTypeOK
<1>3. stage' # "read"
  BY DEF Expand, Follow, Fail
<1>4. rows' = <<>> /\ entities' = <<>> /\ owner' = owner /\ cited' = cited
  BY <1>1 DEF inventory
<1>5. TypeOK'
  BY <1>1, <1>2, <1>4 DEF Inductive, TypeOK, ReadingKnown
<1>6. CutIsTold'
  BY <1>3, <1>4 DEF CutIsTold
<1>. QED BY <1>2, <1>3, <1>4, <1>5, <1>6 DEF Inductive

\* The reading ends: what is not marked truncated is everything.
LEMMA BeginStep == Inductive /\ Begin => Inductive'
<1>. SUFFICES ASSUME Inductive, Begin PROVE Inductive'
  OBVIOUS
<1>1. /\ ReadingTypeOK /\ ReadingKnown /\ MaxAlerts \in Nat
      /\ rows = <<>> /\ entities = <<>> /\ owner \in Seq(1 .. 0) /\ Len(owner) = 0
  <2>1. stage # "read"
    BY DEF Begin, Finish
  <2>2. rows = <<>> /\ entities = <<>> /\ ReadingKnown /\ TypeOK
    BY <2>1 DEF Inductive
  <2>3. MaxAlerts \in Nat
    BY DEF MaxAlerts
  <2>. QED BY <2>2, <2>3 DEF TypeOK
<1>2. /\ stage' = "read" /\ total' = total /\ pages' = 0 /\ link' = FALSE
      /\ got' = Min({got, MaxAlerts}) /\ truncated' = (link \/ got > MaxAlerts)
      /\ stage = "reading" /\ ~ MayFollow
      /\ rows' = <<>> /\ entities' = <<>> /\ owner' = owner
  BY <1>1 DEF Begin, Finish, Cut
<1>3. got \in Nat /\ got <= total /\ got' \in Nat /\ got' <= got /\ got' <= MaxAlerts
      /\ (got <= MaxAlerts => got' = got)
  <2>1. got \in Nat /\ got <= total
    BY <1>1 DEF ReadingTypeOK
  <2>. QED BY <1>1, <1>2, <2>1, LesserOfTwo
<1>4. cited' \in [AlertIds -> Seq(Cited)]
  <2>1. PICK sent \in [Kept -> UNION {[1 .. n -> Cited] : n \in 0 .. MaxDevices}] :
          cited' = [a \in AlertIds |-> IF a \in Kept THEN sent[a] ELSE <<>>]
    BY DEF Begin
  <2>2. ASSUME NEW a \in Kept PROVE sent[a] \in Seq(Cited)
    <3>1. PICK n \in 0 .. MaxDevices : sent[a] \in [1 .. n -> Cited]
      OBVIOUS
    <3>. QED BY <3>1, SeqDef
  <2>3. <<>> \in Seq(Cited)
    OBVIOUS
  <2>. QED BY <2>1, <2>2, <2>3
<1>5. ReadingKnown'
  <2>1. /\ total' \in 0 .. MaxAlerts + Excess /\ got' \in 0 .. total'
        /\ pages' \in 0 .. MaxAlertPages
    BY <1>1, <1>2, <1>3 DEF ReadingTypeOK
  <2>2. link' \in BOOLEAN /\ truncated' \in BOOLEAN
    BY <1>2 DEF Cut
  <2>. QED BY <1>2, <1>3, <2>1, <2>2 DEF ReadingKnown, ReadingTypeOK
<1>6. TypeOK'
  BY <1>1, <1>2, <1>4, <1>5 DEF TypeOK, ReadingKnown
<1>7. CutIsTold'
  <2>1. ~ truncated' => got' = total'
    <3>. SUFFICES ASSUME ~ truncated' PROVE got' = total'
      OBVIOUS
    <3>1. ~ link /\ ~ (got > MaxAlerts)
      BY <1>2
    <3>. QED BY <1>1, <1>2, <1>3, <3>1 DEF ReadingKnown
  <2>2. UNION {entities'[n].alerts : n \in 1 .. Len(entities')} = {}
    BY <1>2
  <2>. QED BY <2>1, <2>2 DEF CutIsTold
<1>. QED BY <1>2, <1>5, <1>6, <1>7 DEF Inductive

-----------------------------------------------------------------------------
(* One more row.                                                           *)

RowType == [alert : AlertIds, what : Scoped \cup Unscoped,
            device : Names \cup {Unknown}, verdict : Verdicts \cup {Unknown}]

\* An entity as it is before its first row, or after some.
Begun ==
  [what : Scoped \cup Unscoped, device : Names \cup {Unknown}, devices : SUBSET Names,
   alerts : SUBSET AlertIds, verdict : Verdicts \cup {Unknown},
   said : [AlertIds -> Verdicts \cup {Unknown}]]

\* The join answers with a name that was cited, or none.
LEMMA JoinedIsAName ==
  ASSUME cited \in [AlertIds -> Seq(Cited)], NEW a \in AlertIds, NEW id
  PROVE  Joined(a, id) \in Names \cup {Unknown}
<1>. DEFINE by == {n \in 1 .. Len(Alerts) : Naming(Alerts[n], id) # {}}
            alone == {cited[a][k].name : k \in 1 .. Len(cited[a])}
<1>1. DeviceName(id) \in Names \cup {Unknown}
  <2>1. CASE id = Unknown \/ by = {}
    BY <2>1 DEF DeviceName
  <2>2. CASE ~ (id = Unknown \/ by = {})
    <3>. DEFINE first == Alerts[Min(by)]
                naming == Naming(first, id)
    <3>1. by \in SUBSET Nat /\ by # {}
      <4>. HIDE DEF first, naming
      <4>1. by \subseteq 1 .. Len(Alerts)
        OBVIOUS
      <4>2. 1 .. Len(Alerts) \subseteq Nat
        BY AlertsHaveIds DEF MaxAlerts
      <4>. QED BY <2>2, <4>1, <4>2
    <3>2. Min(by) \in by
      <4>. HIDE DEF by
      <4>. QED BY <3>1, LeastIndex
    <3>3. Min(by) \in 1 .. Len(Alerts) /\ naming # {}
      BY <3>2
    <3>4. first \in AlertIds
      <4>. HIDE DEF by
      <4>. QED BY <3>3, AlertsHaveIds
    <3>5. cited[first] \in Seq(Cited)
      BY <3>4
    <3>. HIDE DEF first
    <3>6. naming \in SUBSET (1 .. Len(cited[first]))
      BY DEF Naming
    <3>7. Min(naming) \in 1 .. Len(cited[first])
      <4>1. naming \in SUBSET Nat
        BY <3>5, <3>6
      <4>. HIDE DEF naming
      <4>. QED BY <3>3, <3>6, <4>1, LeastIndex
    <3>8. FirstName(first, id) \in Names
      <4>. DEFINE k == Min(naming)
      <4>1. FirstName(first, id) = cited[first][k].name
        BY DEF FirstName
      <4>. HIDE DEF k
      <4>2. k \in 1 .. Len(cited[first])
        BY <3>7 DEF k
      <4>3. cited[first][k] \in Cited
        BY <3>5, <4>2
      <4>. QED BY <4>1, <4>3 DEF Cited
    <3>9. DeviceName(id) = FirstName(first, id)
      BY <2>2 DEF DeviceName, first
    <3>. QED BY <3>8, <3>9
  <2>. QED BY <2>1, <2>2
<1>2. Cardinality(alone) = 1 => (CHOOSE n \in alone : TRUE) \in Names
  <2>1. alone \subseteq Names
    <3>1. cited[a] \in Seq(Cited)
      OBVIOUS
    <3>2. \A k \in 1 .. Len(cited[a]) : cited[a][k] \in Cited
      BY <3>1
    <3>. QED BY <3>2 DEF Cited
  <2>2. Cardinality(alone) = 1 => alone # {}
    <3>1. alone = {} => Cardinality(alone) = 0
      BY FS_EmptySet
    <3>. HIDE DEF alone
    <3>. QED BY <3>1
  <2>. QED BY <2>1, <2>2
<1>. QED BY <1>1, <1>2 DEF Joined

\* A row's entity is one there is, of its identity and place, or where there is
\* none the next.
LEMMA EntityIs ==
  ASSUME entities \in Seq(Entity), NEW r \in RowType
  PROVE  /\ EntityOf(r) \in 1 .. Len(entities) + 1
         /\ EntityOf(r) <= Len(entities) =>
              entities[EntityOf(r)].what = r.what /\ SamePlace(entities[EntityOf(r)], r)
         /\ EntityOf(r) > Len(entities) =>
              \A n \in 1 .. Len(entities) :
                entities[n].what = r.what => ~ SamePlace(entities[n], r)
<1>. DEFINE same == {n \in 1 .. Len(entities) :
                       entities[n].what = r.what /\ SamePlace(entities[n], r)}
<1>1. CASE same = {}
  BY <1>1 DEF EntityOf
<1>2. CASE same # {}
  <2>1. same \in SUBSET Nat
    OBVIOUS
  <2>2. Min(same) \in same
    <3>. HIDE DEF same
    <3>. QED BY <1>2, <2>1, LeastIndex
  <2>3. EntityOf(r) = Min(same)
    BY <1>2 DEF EntityOf
  <2>. QED BY <2>2, <2>3
<1>. QED BY <1>1, <1>2

\* What a row leaves in its entity.
LEMMA MentionIs ==
  ASSUME NEW e \in Begun, NEW r \in RowType
  PROVE  /\ Mention(e, r) \in Entity
         /\ Mention(e, r).what = e.what
         /\ Mention(e, r).device = Keep(e.device, r.device)
         /\ Mention(e, r).devices = e.devices \cup ({r.device} \ {Unknown})
         /\ Mention(e, r).alerts = e.alerts \cup {r.alert}
         /\ Mention(e, r).said = [e.said EXCEPT ![r.alert] = Keep(@, r.verdict)]
<1>. DEFINE said == [e.said EXCEPT ![r.alert] = Keep(@, r.verdict)]
<1>1. Mention(e, r) = [what |-> e.what, device |-> Keep(e.device, r.device),
                       devices |-> e.devices \cup ({r.device} \ {Unknown}),
                       alerts |-> e.alerts \cup {r.alert},
                       verdict |-> Keep(e.verdict, r.verdict), said |-> said]
  BY DEF Mention
<1>2. said \in [AlertIds -> Verdicts \cup {Unknown}]
  BY DEF Begun, RowType, Keep
<1>3. /\ e.what \in Scoped \cup Unscoped
      /\ Keep(e.device, r.device) \in Names \cup {Unknown}
      /\ e.devices \cup ({r.device} \ {Unknown}) \in SUBSET Names
      /\ Keep(e.verdict, r.verdict) \in Verdicts \cup {Unknown}
  BY DEF Begun, RowType, Keep
<1>4. e.alerts \cup {r.alert} \in (SUBSET AlertIds) \ {{}}
  BY DEF Begun, RowType
<1>. QED BY <1>1, <1>2, <1>3, <1>4 DEF Entity

\* The row went to the k-th entity, which was `old` before; the others stay.
Merged(r, k, old) ==
  /\ k = EntityOf(r) /\ k \in 1 .. Len(entities) + 1
  /\ old \in Begun /\ old.what = r.what
  /\ k <= Len(entities) => old = entities[k] /\ SamePlace(old, r)
  /\ k = Len(entities) + 1 =>
       /\ old = NewEntity(r)
       /\ \A j \in 1 .. Len(entities) : entities[j].what = r.what => ~ SamePlace(entities[j], r)
  /\ entities' \in Seq(Entity)
  /\ Len(entities') = (IF k <= Len(entities) THEN Len(entities) ELSE Len(entities) + 1)
  /\ \A j \in 1 .. Len(entities) : j # k => entities'[j] = entities[j]
  /\ entities'[k] = Mention(old, r)

\* Whatever row comes, it goes to one entity.
LEMMA MergeIs ==
  ASSUME entities \in Seq(Entity), NEW r \in RowType, Merge(r)
  PROVE  \E k, old : Merged(r, k, old)
<1>. DEFINE k == EntityOf(r)
<1>1. /\ k \in 1 .. Len(entities) + 1
      /\ k <= Len(entities) => entities[k].what = r.what /\ SamePlace(entities[k], r)
      /\ k > Len(entities) =>
           \A j \in 1 .. Len(entities) : entities[j].what = r.what => ~ SamePlace(entities[j], r)
      /\ Len(entities) \in Nat
  BY EntityIs
<1>2. CASE k <= Len(entities)
  <2>. DEFINE old == entities[k]
  <2>1. old \in Entity
    BY <1>1, <1>2
  <2>2. old \in Begun
    BY <2>1 DEF Entity, Begun
  <2>3. Mention(old, r) \in Entity
    BY <2>2, MentionIs
  <2>4. entities' = [entities EXCEPT ![k] = Mention(old, r)]
    BY <1>1, <1>2 DEF Merge
  <2>5. /\ entities' \in Seq(Entity) /\ Len(entities') = Len(entities)
        /\ entities'[k] = Mention(old, r)
        /\ \A j \in 1 .. Len(entities) : j # k => entities'[j] = entities[j]
    <3>. HIDE DEF k, old
    <3>. QED BY <1>1, <1>2, <2>3, <2>4
  <2>6. Merged(r, k, old)
    BY <1>1, <1>2, <2>2, <2>5 DEF Merged
  <2>. QED BY <2>6
<1>3. CASE k = Len(entities) + 1
  <2>. DEFINE old == NewEntity(r)
  <2>1. old \in Begun /\ old.what = r.what
    BY DEF NewEntity, Begun, RowType
  <2>2. Mention(old, r) \in Entity
    BY <2>1, MentionIs
  <2>3. entities' = Append(entities, Mention(old, r))
    BY <1>3 DEF Merge
  <2>4. /\ entities' \in Seq(Entity) /\ Len(entities') = Len(entities) + 1
        /\ entities'[k] = Mention(old, r)
        /\ \A j \in 1 .. Len(entities) : j # k => entities'[j] = entities[j]
    <3>. HIDE DEF k, old
    <3>. QED BY <1>1, <1>3, <2>2, <2>3
  <2>5. Merged(r, k, old)
    BY <1>1, <1>3, <2>1, <2>4 DEF Merged
  <2>. QED BY <2>5
<1>. QED BY <1>1, <1>2, <1>3

\* A row is typed, and leaves what it says in the entity it went to.
Joins(r, k, old) ==
  /\ r \in RowType /\ r.alert \in Kept
  /\ Merged(r, k, old)
  /\ rows' = Append(rows, r) /\ owner' = Append(owner, k)
  /\ UNCHANGED <<cited, stage, total, got, pages, link, truncated>>
  /\ stage = "read"

\* Whatever row comes, it is such a row.
LEMMA RowJoins ==
  ASSUME Inductive, NEW a \in AlertIds, NEW what \in Scoped \cup Unscoped,
         NEW id \in DeviceIds \cup {Unknown}, NEW verdict \in Verdicts \cup {Unknown},
         Row(a, what, id, verdict)
  PROVE  \E r, k, old : Joins(r, k, old)
<1>. DEFINE r == [alert |-> a, what |-> what, device |-> Joined(a, id), verdict |-> verdict]
<1>1. r \in RowType
  BY JoinedIsAName DEF RowType, Inductive, TypeOK
<1>2. /\ stage = "read" /\ a \in Kept /\ rows' = Append(rows, r) /\ Merge(r)
      /\ UNCHANGED <<cited, stage, total, got, pages, link, truncated>>
  BY DEF Row, reading
<1>3. PICK k, old : Merged(r, k, old)
  <2>. HIDE DEF r
  <2>. QED BY <1>1, <1>2, MergeIs DEF Inductive
<1>4. owner' = Append(owner, k)
  BY <1>2, <1>3 DEF Merge, Merged
<1>5. Joins(r, k, old)
  BY <1>1, <1>2, <1>3, <1>4 DEF Joins
<1>. QED BY <1>5

\* Types, what was read and what is cited.
LEMMA RowKeepsTypes ==
  ASSUME Inductive, NEW r, NEW k, NEW old, Joins(r, k, old)
  PROVE  /\ TypeOK' /\ ReadingKnown' /\ entities' \in Seq(Entity) /\ CutIsTold'
         /\ stage' = "read"
         /\ rows' \in Seq(RowType) /\ Len(rows') = Len(rows) + 1 /\ rows'[Len(rows) + 1] = r
         /\ owner'[Len(rows) + 1] = k /\ k \in 1 .. Len(entities')
         /\ \A n \in 1 .. Len(rows) :
              rows'[n] = rows[n] /\ owner'[n] = owner[n] /\ owner[n] \in 1 .. Len(entities)
<1>1. /\ rows \in Seq(RowType) /\ owner \in Seq(1 .. Len(entities)) /\ Len(owner) = Len(rows)
      /\ Len(entities) <= Len(rows) /\ entities \in Seq(Entity)
      /\ cited \in [AlertIds -> Seq(Cited)] /\ ReadingTypeOK
  BY DEF Inductive, TypeOK, RowType
<1>2. /\ k \in 1 .. Len(entities) + 1 /\ entities' \in Seq(Entity)
      /\ Len(entities') = (IF k <= Len(entities) THEN Len(entities) ELSE Len(entities) + 1)
  BY DEF Joins, Merged
<1>3. /\ rows' \in Seq(RowType) /\ Len(rows') = Len(rows) + 1 /\ rows'[Len(rows) + 1] = r
      /\ \A n \in 1 .. Len(rows) : rows'[n] = rows[n]
  BY <1>1 DEF Joins
<1>4. /\ owner' \in Seq(1 .. Len(entities')) /\ Len(owner') = Len(rows')
      /\ Len(entities') <= Len(rows') /\ k \in 1 .. Len(entities')
      /\ owner'[Len(rows) + 1] = k
      /\ \A n \in 1 .. Len(rows) : owner'[n] = owner[n] /\ owner[n] \in 1 .. Len(entities)
  <2>1. k \in 1 .. Len(entities') /\ Len(entities) <= Len(entities')
        /\ Len(entities') <= Len(entities) + 1
    BY <1>1, <1>2
  <2>2. owner \in Seq(1 .. Len(entities'))
    <3>1. 1 .. Len(entities) \subseteq 1 .. Len(entities')
      BY <1>1, <2>1
    <3>. QED BY <1>1, <3>1, SeqMonotonic
  <2>. QED BY <1>1, <1>3, <2>1, <2>2 DEF Joins
<1>5. ReadingKnown' /\ stage' = "read"
  BY DEF Inductive, ReadingKnown, ReadingTypeOK, Joins
<1>6. ASSUME NEW n \in 1 .. Len(entities')
      PROVE
       /\ entities'[n].what \in Scoped \cup Unscoped
       /\ entities'[n].devices \subseteq Names /\ entities'[n].device \in Names \cup {Unknown}
       /\ entities'[n].alerts \in (SUBSET AlertIds) \ {{}}
       /\ entities'[n].said \in [AlertIds -> Verdicts \cup {Unknown}]
  <2>1. entities'[n] \in Entity
    BY <1>2
  <2>. QED BY <2>1 DEF Entity
<1>7. TypeOK'
  <2>1. cited' \in [AlertIds -> Seq(Cited)]
    BY <1>1 DEF Joins
  <2>. QED BY <1>3, <1>4, <1>5, <1>6, <2>1 DEF TypeOK, ReadingKnown, RowType
<1>8. CutIsTold'
  <2>1. Kept' = Kept
    BY DEF Kept, Joins
  <2>2. ASSUME NEW n \in 1 .. Len(entities') PROVE entities'[n].alerts \subseteq Kept
    <3>1. CASE n = k
      <4>1. entities'[k].alerts = old.alerts \cup {r.alert}
        <5>1. old \in Begun /\ r \in RowType /\ entities'[k] = Mention(old, r)
          BY DEF Joins, Merged
        <5>. QED BY <5>1, MentionIs, ZenonT(30)
      <4>2. old.alerts \subseteq Kept
        <5>1. CASE k <= Len(entities)
          BY <1>2, <5>1 DEF Joins, Merged, Inductive, CutIsTold
        <5>2. CASE k = Len(entities) + 1
          BY <5>2 DEF Joins, Merged, NewEntity
        <5>3. Len(entities) \in Nat /\ k \in 1 .. Len(entities) + 1
          BY <1>1, <1>2
        <5>4. k <= Len(entities) \/ k = Len(entities) + 1
          BY <5>3
        <5>. QED BY <5>1, <5>2, <5>4
      <4>. QED BY <3>1, <4>1, <4>2 DEF Joins
    <3>2. CASE n # k
      <4>1. n \in 1 .. Len(entities) /\ entities'[n] = entities[n]
        BY <1>1, <1>2, <3>2 DEF Joins, Merged
      <4>. QED BY <4>1 DEF Inductive, CutIsTold
    <3>. QED BY <3>1, <3>2
  <2>3. ~ truncated' => got' = total'
    BY DEF Joins, Inductive, CutIsTold
  <2>. QED BY <2>1, <2>2, <2>3 DEF CutIsTold
<1>. QED BY <1>2, <1>3, <1>4, <1>5, <1>7, <1>8

\* Every row is found again where it went, and on the host of its entity.
LEMMA RowsStayKept ==
  ASSUME Inductive, NEW r, NEW k, NEW old, Joins(r, k, old),
         NEW n \in 1 .. Len(rows')
  PROVE  RowKept(n)'
<1>1. /\ old \in Begun /\ r \in RowType /\ entities'[k] = Mention(old, r)
      /\ old.what = r.what
      /\ k <= Len(entities) => old = entities[k] /\ SamePlace(old, r)
      /\ k = Len(entities) + 1 => old = NewEntity(r)
      /\ k \in 1 .. Len(entities) + 1
      /\ \A j \in 1 .. Len(entities) : j # k => entities'[j] = entities[j]
  BY DEF Joins, Merged
<1>2. /\ entities'[k].what = old.what
      /\ entities'[k].device = Keep(old.device, r.device)
      /\ entities'[k].devices = old.devices \cup ({r.device} \ {Unknown})
      /\ entities'[k].alerts = old.alerts \cup {r.alert}
  <2>1. old \in Begun /\ r \in RowType /\ entities'[k] = Mention(old, r)
    BY <1>1
  <2>. QED BY ONLY <2>1, MentionIs, ZenonT(30)
<1>3. /\ rows \in Seq(RowType) /\ Len(rows) \in Nat /\ Len(entities) \in Nat
      /\ rows'[Len(rows) + 1] = r /\ owner'[Len(rows) + 1] = k /\ Len(rows') = Len(rows) + 1
      /\ \A m \in 1 .. Len(rows) :
           rows'[m] = rows[m] /\ owner'[m] = owner[m] /\ owner[m] \in 1 .. Len(entities)
  <2>1. rows \in Seq(RowType) /\ entities \in Seq(Entity)
    BY DEF Inductive, TypeOK, RowType
  <2>2. /\ rows'[Len(rows) + 1] = r /\ owner'[Len(rows) + 1] = k /\ Len(rows') = Len(rows) + 1
        /\ \A m \in 1 .. Len(rows) :
             rows'[m] = rows[m] /\ owner'[m] = owner[m] /\ owner[m] \in 1 .. Len(entities)
    BY RowKeepsTypes
  <2>. QED BY <2>1, <2>2
<1>4. CASE n = Len(rows) + 1
  <2>1. rows'[n] = r /\ owner'[n] = k
    BY <1>3, <1>4
  <2>2. /\ r.what = entities'[k].what /\ r.alert \in entities'[k].alerts
        /\ r.device \in entities'[k].devices \cup {Unknown}
    BY <1>1, <1>2
  <2>3. ASSUME r.device # Unknown
        PROVE  /\ entities'[k].device # Unknown
               /\ entities'[k].what \in Scoped => HostOf[entities'[k].device] = HostOf[r.device]
    <3>1. CASE old.device = Unknown
      BY <1>2, <2>3, <3>1 DEF Keep
    <3>2. CASE old.device # Unknown
      <4>1. entities'[k].device = old.device
        BY <1>2, <3>2 DEF Keep
      <4>2. k <= Len(entities) /\ SamePlace(old, r)
        BY <1>1, <1>3, <3>2 DEF NewEntity
      <4>3. r.what \in Scoped => HostOf[old.device] = HostOf[r.device]
        BY <2>3, <3>2, <4>2 DEF SamePlace
      <4>. QED BY <1>1, <1>2, <3>2, <4>1, <4>3
    <3>. QED BY <3>1, <3>2
  <2>. QED BY <2>1, <2>2, <2>3 DEF RowKept
<1>5. CASE n \in 1 .. Len(rows)
  <2>1. rows'[n] = rows[n] /\ owner'[n] = owner[n] /\ owner[n] \in 1 .. Len(entities)
    BY <1>3, <1>5
  <2>2. RowKept(n)
    BY <1>5 DEF Inductive
  <2>3. CASE owner[n] # k
    <3>1. entities'[owner[n]] = entities[owner[n]]
      BY <1>1, <2>1, <2>3
    <3>. QED BY <2>1, <2>2, <3>1 DEF RowKept
  <2>4. CASE owner[n] = k
    <3>1. old = entities[owner[n]]
      BY <1>1, <2>1, <2>4
    <3>2. old.device # Unknown => entities'[k].device = old.device
      BY <1>2 DEF Keep
    <3>. QED BY <1>2, <2>1, <2>2, <2>4, <3>1, <3>2 DEF RowKept
  <2>. QED BY <2>3, <2>4
<1>. QED BY <1>3, <1>4, <1>5

\* The rows an alert gave an entity a verdict with.
Verdicting(k, a) ==
  {n \in 1 .. Len(rows) : owner[n] = k /\ rows[n].alert = a /\ rows[n].verdict # Unknown}

\* A row alone says what it says; after others, the first of them is heard.
LEMMA FirstIsHeard ==
  ASSUME Inductive, NEW r, NEW k, NEW old, Joins(r, k, old),
         NEW j \in 1 .. Len(entities'), NEW a \in AlertIds
  PROVE  Said(j, a)' = IF j = k /\ a = r.alert THEN Keep(Said(j, a), r.verdict) ELSE Said(j, a)
<1>1. /\ rows \in Seq(RowType) /\ Len(rows) \in Nat
      /\ rows'[Len(rows) + 1] = r /\ owner'[Len(rows) + 1] = k /\ Len(rows') = Len(rows) + 1
      /\ \A m \in 1 .. Len(rows) : rows'[m] = rows[m] /\ owner'[m] = owner[m]
  <2>1. rows \in Seq(RowType) /\ Len(rows) \in Nat
    BY DEF Inductive, TypeOK, RowType
  <2>. QED BY <2>1, RowKeepsTypes
<1>. DEFINE last == Len(rows) + 1
            before == Verdicting(j, a)
            after == Verdicting(j, a)'
            new == IF j = k /\ a = r.alert /\ r.verdict # Unknown THEN {last} ELSE {}
<1>2. /\ Said(j, a) = IF before = {} THEN Unknown ELSE rows[Min(before)].verdict
      /\ Said(j, a)' = IF after = {} THEN Unknown ELSE rows'[Min(after)].verdict
  BY DEF Said, Verdicting
<1>3. after = before \cup new
  BY <1>1 DEF Verdicting
<1>4. /\ before \in SUBSET Nat /\ \A n \in before : n \in 1 .. Len(rows)
      /\ \A n \in before : rows[n].verdict # Unknown
  BY <1>1 DEF Verdicting
<1>5. last \in Nat /\ new \in SUBSET {last} /\ rows'[last] = r
  BY <1>1
<1>. HIDE DEF before, after
<1>6. CASE before = {}
  <2>1. CASE new = {}
    BY <1>2, <1>3, <1>6, <2>1 DEF Keep
  <2>2. CASE new # {}
    <3>1. after = {last} /\ Min(after) = last
      <4>1. after = {last}
        BY <1>3, <1>6, <2>2
      <4>. QED BY <1>5, <4>1, LeastIndex
    <3>2. j = k /\ a = r.alert /\ Said(j, a)' = r.verdict
      BY <1>2, <1>5, <2>2, <3>1
    <3>. QED BY <1>2, <1>6, <3>2 DEF Keep
  <2>. QED BY <2>1, <2>2
<1>7. CASE before # {}
  <2>1. Min(before) \in before
    BY <1>4, <1>7, LeastIndex
  <2>2. new \in SUBSET Nat /\ \A m \in before, n \in new : m < n
    BY <1>1, <1>4, <1>5
  <2>3. Min(after) = Min(before) /\ after # {}
    <3>. HIDE DEF new
    <3>. QED BY <1>3, <1>4, <1>7, <2>2, LeastStays
  <2>4. Said(j, a)' = Said(j, a) /\ Said(j, a) # Unknown
    <3>1. rows'[Min(before)] = rows[Min(before)] /\ rows[Min(before)].verdict # Unknown
      BY <1>1, <1>4, <2>1
    <3>. QED BY <1>2, <1>7, <2>3, <3>1
  <2>. QED BY <2>4 DEF Keep
<1>. QED BY <1>6, <1>7

\* An entity keeps what each alert's first verdict was.
LEMMA VerdictsStayKept ==
  ASSUME Inductive, NEW r, NEW k, NEW old, Joins(r, k, old),
         NEW j \in 1 .. Len(entities'), NEW a \in AlertIds
  PROVE  entities'[j].said[a] = Said(j, a)'
<1>1. /\ k \in 1 .. Len(entities) + 1 /\ j \in 1 .. Len(entities) + 1
      /\ Len(entities) \in Nat /\ Len(rows) \in Nat
      /\ j # k => j \in 1 .. Len(entities) /\ entities'[j] = entities[j]
  <2>1. entities \in Seq(Entity) /\ rows \in Seq(RowType)
    BY DEF Inductive, TypeOK, RowType
  <2>2. /\ k \in 1 .. Len(entities) + 1
        /\ Len(entities') = (IF k <= Len(entities) THEN Len(entities) ELSE Len(entities) + 1)
        /\ \A i \in 1 .. Len(entities) : i # k => entities'[i] = entities[i]
    BY DEF Joins, Merged
  <2>3. Len(entities) \in Nat /\ Len(rows) \in Nat
    BY <2>1
  <2>4. j \in 1 .. Len(entities) + 1 /\ (j # k => j \in 1 .. Len(entities))
    BY <2>2, <2>3
  <2>. QED BY <2>2, <2>3, <2>4
<1>2. \A i \in 1 .. Len(entities) : entities[i].said[a] = Said(i, a)
  BY DEF Inductive
<1>3. CASE j # k
  BY <1>1, <1>2, <1>3, FirstIsHeard
<1>4. CASE j = k
  <2>1. /\ old \in Begun /\ r \in RowType /\ entities'[k] = Mention(old, r)
        /\ k <= Len(entities) => old = entities[k]
        /\ k = Len(entities) + 1 => old = NewEntity(r)
    BY DEF Joins, Merged
  <2>2. entities'[k].said = [old.said EXCEPT ![r.alert] = Keep(@, r.verdict)]
    BY ONLY <2>1, MentionIs
  <2>3. entities'[k].said[a] =
          IF a = r.alert THEN Keep(old.said[a], r.verdict) ELSE old.said[a]
    BY <2>1, <2>2 DEF Begun, RowType
  <2>4. old.said[a] = Said(k, a)
    <3>1. CASE k <= Len(entities)
      BY <1>1, <1>2, <2>1, <3>1
    <3>2. CASE k = Len(entities) + 1
      <4>1. old.said[a] = Unknown
        BY <2>1, <3>2 DEF NewEntity
      <4>2. \A n \in 1 .. Len(rows) : owner[n] # k
        <5>1. \A n \in 1 .. Len(rows) : owner[n] \in 1 .. Len(entities)
          BY RowKeepsTypes
        <5>. QED BY <1>1, <3>2, <5>1
      <4>. QED BY <4>1, <4>2 DEF Said
    <3>. QED BY <1>1, <3>1, <3>2
  <2>. QED BY <1>4, <2>3, <2>4, FirstIsHeard
<1>. QED BY <1>3, <1>4

\* What an entity was and what the row that is merged into it makes of it.
LEMMA MergedIs ==
  ASSUME Inductive, NEW r, NEW k, NEW old, Joins(r, k, old)
  PROVE  /\ entities \in Seq(Entity) /\ Len(entities) \in Nat /\ k \in 1 .. Len(entities) + 1
         /\ r \in RowType
         /\ Len(entities') = (IF k <= Len(entities) THEN Len(entities) ELSE Len(entities) + 1)
         /\ \A j \in 1 .. Len(entities) : j # k => entities'[j] = entities[j]
         /\ entities'[k].what = r.what
         /\ k <= Len(entities) =>
              /\ entities[k].what = r.what
              /\ entities'[k].device = Keep(entities[k].device, r.device)
         /\ k = Len(entities) + 1 =>
              /\ entities'[k].device = r.device
              /\ \A j \in 1 .. Len(entities) :
                   entities[j].what = r.what => ~ SamePlace(entities[j], r)
<1>1. /\ entities \in Seq(Entity) /\ Len(entities) \in Nat /\ Merged(r, k, old) /\ r \in RowType
  BY DEF Inductive, Joins
<1>2. old \in Begun /\ entities'[k] = Mention(old, r)
  BY <1>1 DEF Merged
<1>3. entities'[k].what = old.what /\ entities'[k].device = Keep(old.device, r.device)
  BY ONLY <1>1, <1>2, MentionIs, ZenonT(30)
<1>. QED BY <1>1, <1>3 DEF Merged, NewEntity, Keep

\* An entity keeps being of rows.
LEMMA EntitiesStayOfRows ==
  ASSUME Inductive, NEW r, NEW k, NEW old, Joins(r, k, old), NEW j \in 1 .. Len(entities')
  PROVE  OfRows(j)'
<1>1. /\ Len(rows') = Len(rows) + 1 /\ rows'[Len(rows) + 1] = r /\ Len(rows) \in Nat
      /\ \A n \in 1 .. Len(rows) : rows'[n] = rows[n]
  <2>1. rows \in Seq(RowType)
    BY DEF Inductive, TypeOK, RowType
  <2>. QED BY <2>1, RowKeepsTypes
<1>2. \A n \in 1 .. Len(rows) + 1 : n \in 1 .. Len(rows')
  BY <1>1
<1>3. Len(rows) + 1 \in 1 .. Len(rows') /\ \A n \in 1 .. Len(rows) : n \in 1 .. Len(rows')
  BY <1>1
<1>4. /\ k \in 1 .. Len(entities) + 1 /\ Len(entities) \in Nat
      /\ Len(entities') = (IF k <= Len(entities) THEN Len(entities) ELSE Len(entities) + 1)
      /\ entities'[k].what = r.what
  BY MergedIs
<1>5. CASE j \in 1 .. Len(entities) /\ j # k
  <2>1. OfRows(j) /\ entities'[j] = entities[j]
    BY <1>5, MergedIs DEF Inductive
  <2>. QED BY <1>1, <1>3, <2>1 DEF OfRows
<1>6. CASE j = k
  <2>1. \E n \in 1 .. Len(rows') : rows'[n].what = entities'[k].what
    BY <1>1, <1>3, <1>4
  <2>2. ASSUME entities'[k].device # Unknown
        PROVE  \E n \in 1 .. Len(rows') :
                 rows'[n].what = entities'[k].what /\ rows'[n].device = entities'[k].device
    <3>1. CASE entities'[k].device = r.device
      BY <1>1, <1>3, <1>4, <3>1
    <3>2. CASE entities'[k].device # r.device
      <4>1. /\ k \in 1 .. Len(entities) /\ entities[k].what = r.what
            /\ entities[k].device = entities'[k].device
        BY <1>4, <3>2, MergedIs DEF Keep
      <4>2. OfRows(k)
        BY <4>1 DEF Inductive
      <4>. QED BY <1>1, <1>3, <1>4, <2>2, <4>1, <4>2 DEF OfRows
    <3>. QED BY <3>1, <3>2
  <2>. QED BY <1>6, <2>1, <2>2 DEF OfRows
<1>. QED BY <1>4, <1>5, <1>6

\* Entities of one identity stay apart: a row makes one more only where it fits
\* none, and gives a host only to an entity that is its identity's only one.
LEMMA EntitiesStayApart ==
  ASSUME Inductive, NEW r, NEW k, NEW old, Joins(r, k, old),
         NEW i \in 1 .. Len(entities'), NEW j \in 1 .. Len(entities')
  PROVE  Apart(i, j)'
<1>1. /\ k \in 1 .. Len(entities) + 1 /\ Len(entities) \in Nat
      /\ Len(entities') = (IF k <= Len(entities) THEN Len(entities) ELSE Len(entities) + 1)
      /\ entities'[k].what = r.what
      /\ \A n \in 1 .. Len(entities) : n # k => entities'[n] = entities[n]
      /\ r.what \in Scoped \cup Unscoped
  BY MergedIs DEF RowType
<1>2. ASSUME NEW n \in 1 .. Len(entities), n # k, entities[n].what = r.what
      PROVE  /\ r.what \in Scoped /\ entities[n].device # Unknown /\ entities'[k].device # Unknown
             /\ HostOf[entities[n].device] # HostOf[entities'[k].device]
  <2>1. CASE k = Len(entities) + 1
    <3>1. entities'[k].device = r.device /\ ~ SamePlace(entities[n], r)
      BY <1>2, <2>1, MergedIs
    <3>. QED BY <1>1, <3>1 DEF SamePlace
  <2>2. CASE k \in 1 .. Len(entities)
    <3>1. entities[k].what = r.what /\ entities'[k].device = Keep(entities[k].device, r.device)
      BY <2>2, MergedIs
    <3>2. Apart(n, k)
      BY <2>2 DEF Inductive
    <3>. QED BY <1>2, <3>1, <3>2 DEF Apart, Keep
  <2>. QED BY <1>1, <2>1, <2>2, SMTT(20)
<1>3. \A n \in 1 .. Len(entities') : n \in 1 .. Len(entities) \/ n = k
  BY <1>1
<1>4. CASE i # k /\ j # k
  <2>1. Apart(i, j) /\ entities'[i] = entities[i] /\ entities'[j] = entities[j]
    BY <1>1, <1>3, <1>4 DEF Inductive
  <2>. QED BY <2>1 DEF Apart
<1>5. CASE i = k /\ j # k
  <2>1. j \in 1 .. Len(entities) /\ entities'[j] = entities[j]
    BY <1>1, <1>3, <1>5
  <2>. QED BY <1>1, <1>2, <1>5, <2>1 DEF Apart
<1>6. CASE i # k /\ j = k
  <2>1. i \in 1 .. Len(entities) /\ entities'[i] = entities[i]
    BY <1>1, <1>3, <1>6
  <2>. QED BY <1>1, <1>2, <1>6, <2>1 DEF Apart
<1>7. CASE i = j
  BY <1>7 DEF Apart
<1>. QED BY <1>4, <1>5, <1>6, <1>7

\* A row keeps the invariant.
LEMMA RowStep ==
  ASSUME Inductive, NEW a \in AlertIds, NEW what \in Scoped \cup Unscoped,
         NEW id \in DeviceIds \cup {Unknown}, NEW verdict \in Verdicts \cup {Unknown},
         Row(a, what, id, verdict)
  PROVE  Inductive'
<1>1. PICK r, k, old : Joins(r, k, old)
  BY RowJoins
<1>2. TypeOK' /\ ReadingKnown' /\ entities' \in Seq(Entity) /\ CutIsTold' /\ stage' = "read"
  BY <1>1, RowKeepsTypes
<1>3. \A n \in 1 .. Len(rows') : RowKept(n)'
  BY <1>1, RowsStayKept
<1>4. \A j \in 1 .. Len(entities') : \A b \in AlertIds : entities'[j].said[b] = Said(j, b)'
  BY <1>1, VerdictsStayKept
<1>5. \A j \in 1 .. Len(entities') : OfRows(j)'
  BY <1>1, EntitiesStayOfRows
<1>6. \A i, j \in 1 .. Len(entities') : Apart(i, j)'
  BY <1>1, EntitiesStayApart
<1>. QED BY <1>2, <1>3, <1>4, <1>5, <1>6 DEF Inductive

\* Every step keeps the invariant.
LEMMA InductiveStep == Inductive /\ [Next]_vars => Inductive'
<1>. SUFFICES ASSUME Inductive, [Next]_vars PROVE Inductive'
  OBVIOUS
<1>1. CASE (Expand \/ Follow \/ Fail) /\ UNCHANGED inventory
  BY <1>1, ReadingSteps
<1>2. CASE Begin
  BY <1>2, BeginStep
<1>3. CASE \E a \in AlertIds, what \in Scoped \cup Unscoped, id \in DeviceIds \cup {Unknown},
              verdict \in Verdicts \cup {Unknown} : Row(a, what, id, verdict)
  BY <1>3, RowStep
<1>4. CASE UNCHANGED vars
  <2>1. UNCHANGED <<stage, total, got, pages, link, truncated, cited, rows, entities, owner>>
    BY <1>4 DEF vars
  <2>2. TypeOK' /\ ReadingKnown' /\ CutIsTold'
    <3>1. TypeOK'
      BY <2>1 DEF Inductive, TypeOK, ReadingTypeOK
    <3>2. ReadingKnown'
      BY <2>1 DEF Inductive, ReadingKnown, ReadingTypeOK
    <3>3. CutIsTold'
      <4>1. Kept' = Kept
        BY <2>1 DEF Kept
      <4>2. entities' = entities /\ stage' = stage /\ truncated' = truncated
            /\ got' = got /\ total' = total
        BY <2>1
      <4>. QED BY <4>1, <4>2 DEF Inductive, CutIsTold
    <3>. QED BY <3>1, <3>2, <3>3
  <2>3. \A n \in 1 .. Len(rows) : RowKept(n)'
    BY <2>1 DEF Inductive, RowKept
  <2>4. \A k, a : Said(k, a)' = Said(k, a)
    <3>1. owner' = owner /\ rows' = rows
      BY <2>1
    <3>. QED BY <3>1 DEF Said
  <2>5. /\ \A k \in 1 .. Len(entities) : OfRows(k)'
        /\ \A j, k \in 1 .. Len(entities) : Apart(j, k)'
    <3>1. rows' = rows /\ entities' = entities
      BY <2>1
    <3>2. /\ \A k \in 1 .. Len(entities) : OfRows(k)
          /\ \A j, k \in 1 .. Len(entities) : Apart(j, k)
      BY DEF Inductive
    <3>3. \A k \in 1 .. Len(entities) : OfRows(k)'
      BY <3>1, <3>2 DEF OfRows
    <3>4. \A j, k \in 1 .. Len(entities) : Apart(j, k)'
      BY <3>1, <3>2 DEF Apart
    <3>. QED BY <3>3, <3>4
  <2>. QED BY <2>1, <2>2, <2>3, <2>4, <2>5 DEF Inductive
<1>. QED BY <1>1, <1>2, <1>3, <1>4 DEF Next

\* So it holds always.
LEMMA InductiveHolds == Spec => []Inductive
BY InitInductive, InductiveStep, PTL DEF Spec

-----------------------------------------------------------------------------
(* What follows.                                                           *)

\* Every variable keeps its type, and each entity is cited by an alert (_merge).
THEOREM TypeCorrect == Spec => []TypeOK
<1>1. Inductive => TypeOK
  BY DEF Inductive
<1>. QED BY <1>1, InductiveHolds, PTL

\* An answer not marked truncated is of all the incident's alerts, whichever
\* ceiling stopped the reading, and cites no alert not read (_all_alerts).
THEOREM NothingIsCutInSilence == Spec => []CutIsTold
<1>1. Inductive => CutIsTold
  BY DEF Inductive
<1>. QED BY <1>1, InductiveHolds, PTL

\* The rows of a process, file or registry item that went to one entity are of
\* one host, in whatever order they came (_same_place, _merge).
THEOREM EntitiesHaveOneHost == Spec => []OneHostEach
<1>1. Inductive => OneHostEach
  BY DEF Inductive, RowKept, OneHostEach
<1>. QED BY <1>1, InductiveHolds, PTL

\* There are finitely many alerts.
LEMMA AlertsAreFinite == IsFiniteSet(AlertIds)
<1>1. Alerts \in Surjection(1 .. Len(Alerts), AlertIds)
  BY AlertsHaveIds DEF Surjection, AlertIds, Range
<1>2. IsFiniteSet(1 .. Len(Alerts))
  BY AlertsHaveIds, FS_Interval DEF MaxAlerts
<1>. QED BY <1>1, <1>2, FS_Surjection

\* Two alerts that said different things of an entity are told one by one.
LEMMA DifferingAreTold ==
  ASSUME Inductive, NEW k \in 1 .. Len(entities), NEW a \in AlertIds, NEW b \in AlertIds,
         Said(k, a) # Unknown, Said(k, b) # Unknown, Said(k, a) # Said(k, b)
  PROVE  /\ {a, b} \subseteq ByAlert(entities[k])
         /\ entities[k].said[a] = Said(k, a) /\ entities[k].said[b] = Said(k, b)
<1>. DEFINE said == entities[k].said
            T == {said[c] : c \in AlertIds}
            told == T \ {Unknown}
<1>1. said[a] = Said(k, a) /\ said[b] = Said(k, b)
  BY DEF Inductive
<1>2. IsFiniteSet(T)
  <2>1. [c \in AlertIds |-> said[c]] \in Surjection(AlertIds, T)
    BY DEF Surjection
  <2>. HIDE DEF T
  <2>. QED BY <2>1, AlertsAreFinite, FS_Surjection
<1>3. IsFiniteSet(told) /\ {said[a], said[b]} \in SUBSET told
  <2>1. told \in SUBSET T
    OBVIOUS
  <2>2. IsFiniteSet(told)
    BY <1>2, <2>1, FS_Subset
  <2>. QED BY <1>1, <2>2
<1>4. Cardinality({said[a], said[b]}) = 2
  <2>1. Cardinality({said[a]}) = 1 /\ IsFiniteSet({said[a]})
    BY FS_Singleton
  <2>2. {said[a]} \cup {said[b]} = {said[a], said[b]} /\ said[b] \notin {said[a]}
    BY <1>1
  <2>3. Cardinality({said[a]} \cup {said[b]}) = Cardinality({said[a]}) + 1
    <3>. HIDE DEF said
    <3>. QED BY <2>1, <2>2, FS_AddElement
  <2>. QED BY <2>1, <2>2, <2>3
<1>5. Cardinality(told) > 1
  <2>. HIDE DEF told
  <2>1. Cardinality({said[a], said[b]}) <= Cardinality(told) /\ Cardinality(told) \in Nat
    BY <1>3, FS_Subset, FS_CardinalityType
  <2>. QED BY <1>4, <2>1
<1>6. ByAlert(entities[k]) = {c \in AlertIds : said[c] # Unknown}
  BY <1>5 DEF ByAlert
<1>. QED BY <1>1, <1>6

\* The merge loses no row, and where alerts differ on an entity it tells what
\* each of them said first (_merge, _by_alert).
THEOREM NothingIsLost == Spec => []EverythingSaid
<1>1. Inductive => NothingLost
  BY DEF Inductive, RowKept, NothingLost
<1>2. Inductive => DisagreementIsTold
  BY DifferingAreTold DEF DisagreementIsTold
<1>. QED BY <1>1, <1>2, InductiveHolds, PTL DEF EverythingSaid

\* An identity has as many entities as it should: each stands for a host of its
\* own, and every host its rows were found on has one.
LEMMA EntitiesAreExpected ==
  ASSUME Inductive, NEW what \in Scoped \cup Unscoped
  PROVE  Cardinality({k \in 1 .. Len(entities) : entities[k].what = what}) = Expected(what)
<1>. DEFINE mine == {k \in 1 .. Len(entities) : entities[k].what = what}
            hosts == HostsOf(what)
<1>1. /\ \A k \in mine : k \in 1 .. Len(entities) /\ OfRows(k) /\ entities[k].what = what
      /\ \A j, k \in mine : Apart(j, k)
  BY DEF Inductive
<1>2. ASSUME NEW n \in 1 .. Len(rows), rows[n].what = what
      PROVE  /\ owner[n] \in mine
             /\ rows[n].device # Unknown =>
                  /\ entities[owner[n]].device # Unknown
                  /\ what \in Scoped => HostOf[entities[owner[n]].device] = HostOf[rows[n].device]
  <2>1. owner[n] \in 1 .. Len(entities)
    BY DEF Inductive, TypeOK
  <2>2. RowKept(n)
    BY DEF Inductive
  <2>. QED BY <1>2, <2>1, <2>2 DEF RowKept
<1>3. CASE \A n \in 1 .. Len(rows) : rows[n].what # what
  <2>1. mine = {}
    BY <1>1, <1>3 DEF OfRows
  <2>. QED BY <1>3, <2>1, FS_EmptySet DEF Expected
<1>4. CASE \E n \in 1 .. Len(rows) : rows[n].what = what
  <2>1. PICK o \in mine : TRUE
    BY <1>2, <1>4
  <2>2. CASE what \in Unscoped \/ hosts = {}
    <3>1. \A k \in mine : entities[k].device # Unknown => hosts # {}
      <4>. SUFFICES ASSUME NEW k \in mine, entities[k].device # Unknown PROVE hosts # {}
        OBVIOUS
      <4>1. OfRows(k) /\ entities[k].what = what
        BY <1>1
      <4>2. PICK n \in 1 .. Len(rows) :
              rows[n].what = what /\ rows[n].device = entities[k].device
        BY <4>1 DEF OfRows
      <4>3. HostOf[rows[n].device] \in hosts
        BY <4>2 DEF HostsOf
      <4>. QED BY <4>3
    <3>2. \A k \in mine : k = o
      <4>. SUFFICES ASSUME NEW k \in mine, k # o PROVE FALSE
        OBVIOUS
      <4>1. Apart(k, o) /\ entities[k].what = what /\ entities[o].what = what
        BY <1>1, <2>1
      <4>2. what \in Scoped /\ entities[k].device # Unknown
        BY <4>1 DEF Apart
      <4>3. hosts = {}
        BY <2>2, <4>2, ConstantsAssumption
      <4>. QED BY <3>1, <4>2, <4>3
    <3>3. mine = {o}
      BY <2>1, <3>2
    <3>. QED BY <1>4, <2>2, <3>3, FS_Singleton DEF Expected
  <2>3. CASE what \in Scoped /\ hosts # {}
    <3>. DEFINE f == [k \in mine |-> HostOf[entities[k].device]]
    <3>1. ASSUME NEW k \in mine PROVE entities[k].device # Unknown
      <4>1. PICK n \in 1 .. Len(rows) : rows[n].what = what /\ rows[n].device # Unknown
        BY <2>3 DEF HostsOf
      <4>2. owner[n] \in mine /\ entities[owner[n]].device # Unknown
        BY <1>2, <4>1
      <4>. QED BY <1>1, <4>2 DEF Apart
    <3>2. ASSUME NEW k \in mine PROVE f[k] \in hosts
      BY <1>1, <3>1 DEF OfRows, HostsOf
    <3>3. ASSUME NEW j \in mine, NEW k \in mine, f[j] = f[k] PROVE j = k
      BY <1>1, <3>3 DEF Apart
    <3>4. ASSUME NEW h \in hosts PROVE \E k \in mine : f[k] = h
      <4>1. PICK n \in 1 .. Len(rows) :
              rows[n].what = what /\ rows[n].device # Unknown /\ h = HostOf[rows[n].device]
        BY DEF HostsOf
      <4>. QED BY <1>2, <2>3, <4>1
    <3>5. IsFiniteSet(mine)
      <4>1. Len(entities) \in Nat
        BY DEF Inductive
      <4>2. IsFiniteSet(1 .. Len(entities))
        BY <4>1, FS_Interval
      <4>3. mine \in SUBSET (1 .. Len(entities))
        OBVIOUS
      <4>. QED BY <4>2, <4>3, FS_Subset
    <3>6. f \in Bijection(mine, hosts)
      <4>1. f \in [mine -> hosts]
        BY <3>2
      <4>2. f \in Injection(mine, hosts)
        <5>. HIDE DEF mine, hosts, f
        <5>. QED BY <3>3, <4>1 DEF Injection, IsInjective
      <4>3. f \in Surjection(mine, hosts)
        <5>. HIDE DEF mine, hosts, f
        <5>. QED BY <3>4, <4>1 DEF Surjection
      <4>. QED BY <4>2, <4>3 DEF Bijection
    <3>7. Cardinality(mine) = Cardinality(hosts)
      <4>1. ExistsBijection(mine, hosts)
        BY <3>6 DEF ExistsBijection
      <4>. HIDE DEF mine, hosts
      <4>. QED BY <3>5, <4>1, FS_Bijection
    <3>. QED BY <1>4, <2>3, <3>7, ConstantsAssumption DEF Expected
  <2>. QED BY <2>2, <2>3
<1>. QED BY <1>3, <1>4

\* The entities of an identity are one, or one for each host it was found on, in
\* whatever order the service sent alerts and rows (_same_place, _merge).
THEOREM CountDoesNotDependOnOrder == Spec => []CountIsOrderFree
<1>1. Inductive => CountIsOrderFree
  BY EntitiesAreExpected DEF CountIsOrderFree
<1>. QED BY <1>1, InductiveHolds, PTL

=============================================================================
