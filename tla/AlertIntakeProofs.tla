------------------------- MODULE AlertIntakeProofs -------------------------
(***************************************************************************)
(* Proofs about AlertIntake for any alerts, any number of activities, any  *)
(* limit and any times: what a search says of the activities it found,     *)
(* and what its answer has.                                                *)
(***************************************************************************)
EXTENDS AlertIntake, FiniteSetTheorems, TLAPS

USE ConstantsAssumption

-----------------------------------------------------------------------------
(* What a set of records says.                                             *)

LEMMA MinIs ==
  ASSUME NEW S \in SUBSET Nat, NEW m \in S, \A x \in S : m <= x
  PROVE  Min(S) = m
<1>1. \A x \in S : (\A y \in S : x <= y) => x = m
  OBVIOUS
<1>. QED BY <1>1 DEF Min

\* The fields of the records, and when each was created.
LEMMA RecordsAre ==
  ASSUME NEW r \in Records
  PROVE  /\ r.alert \in Alerts /\ r.n \in 1 .. Activities
         /\ r.op \in {"triggered", "updated", "submission", "entity"}
         /\ r = Record(r.op, r.alert, r.n)
         /\ r.op = "triggered" => r.n = 1
         /\ Created(r) \in Nat
         /\ r.op = "triggered" => Created(r) = 2
         /\ r.op = "updated" => Created(r) = 4 * r.n
<1>1. /\ r.alert \in Alerts /\ r.n \in 1 .. Activities
      /\ r.op \in {"triggered", "updated", "submission", "entity"}
      /\ r = Record(r.op, r.alert, r.n)
      /\ r.op = "triggered" => r.n = 1
  <2>1. CASE \E a \in Alerts : r = Record("triggered", a, 1)
    BY <2>1 DEF Record
  <2>2. CASE \E a \in Alerts : \E n \in 2 .. Activities : r = Record("updated", a, n)
    <3>1. \A n \in 2 .. Activities : n \in 1 .. Activities
      OBVIOUS
    <3>. QED BY <2>2, <3>1 DEF Record
  <2>3. CASE \E op \in {"submission", "entity", "updated"} :
               \E a \in Reports : r = Record(op, a, 1)
    <3>1. PICK op \in {"submission", "entity", "updated"}, a \in Reports : r = Record(op, a, 1)
      BY <2>3
    <3>2. r.op = op /\ r.alert = a /\ r.n = 1
      BY <3>1 DEF Record
    <3>3. a \in Alerts /\ 1 \in 1 .. Activities
      BY DEF Alerts
    <3>. QED BY <3>1, <3>2, <3>3
  <2>. QED BY <2>1, <2>2, <2>3 DEF Records
<1>2. r.n \in Nat /\ r.n >= 1
  BY <1>1
<1>3. /\ Rank["triggered"] = 2 /\ Rank["updated"] = 4
      /\ Rank["submission"] = 1 /\ Rank["entity"] = 3
  BY DEF Rank
<1>4. \A k \in {1, 2, 3, 4} : 4 * (r.n - 1) + k \in Nat
  BY <1>2
<1>5. Rank[r.op] \in {1, 2, 3, 4}
  BY <1>1, <1>3
<1>6. Created(r) \in Nat
  BY <1>4, <1>5 DEF Created
<1>7. r.op = "triggered" => Created(r) = 2
  BY <1>1, <1>3 DEF Created
<1>8. r.op = "updated" => Created(r) = 4 * r.n
  <2>1. 4 * (r.n - 1) + 4 = 4 * r.n
    BY <1>2
  <2>. QED BY <1>3, <2>1 DEF Created
<1>. QED BY <1>1, <1>6, <1>7, <1>8

\* A record of an alert names one of its activities, its entry, or nothing; an
\* "updated" record names the activity of its number.
LEMMA NamesAre ==
  ASSUME NEW S \in SUBSET Records, NEW r \in S
  PROVE  /\ Names(S, r) \in {NoRecord, Entry(r.alert), Activity(r.alert, 1),
                             Activity(r.alert, r.n)}
         /\ r.op = "updated" => Names(S, r) = Activity(r.alert, r.n)
         /\ r.op = "triggered" /\ r.alert \in Audited
              => Names(S, r) = Activity(r.alert, 1)
         /\ r.op = "triggered" /\ Record("entity", r.alert, 1) \in S
              => Names(S, r) \in {NoRecord, Activity(r.alert, 1)}
         /\ r.op = "triggered" /\ Record("entity", r.alert, 1) \in S
              /\ Record("submission", r.alert, 1) \in S => Names(S, r) = Activity(r.alert, 1)
<1>1. r.n \in Nat /\ r.n # 0 /\ (r.op = "triggered" => r.n = 1)
  BY RecordsAre
<1>2. Activity(r.alert, r.n) # Entry(r.alert) /\ Activity(r.alert, 1) # Entry(r.alert)
  BY <1>1 DEF Activity, Entry
<1>3. r.alert \in Audited => r.alert \notin Reports
  OBVIOUS
<1>. QED BY <1>1, <1>2, <1>3 DEF Names, Pointer

\* Every activity found is one of the alert's, its entry, or a record's.
LEMMA FoundAre ==
  ASSUME NEW S \in SUBSET Records, NEW a \in Alerts, NEW p \in Found(S, a)
  PROVE  p \in {Entry(a)} \cup {Activity(a, n) : n \in 1 .. Activities}
<1>1. PICK r \in S : r.alert = a /\ p = Names(S, r) /\ p # NoRecord
  BY DEF Found
<1>2. p \in {Entry(a), Activity(a, 1), Activity(a, r.n)}
  BY <1>1, NamesAre
<1>3. r.n \in 1 .. Activities /\ 1 \in 1 .. Activities
  BY RecordsAre
<1>. QED BY <1>2, <1>3

\* The activity that raised a named alert is found, and found early; those found
\* beside it are later ones.
LEMMA RaisingIsFirst ==
  ASSUME NEW S \in SUBSET Records, NEW a \in Raised(S), Named(S, a)
  PROVE  /\ Activity(a, 1) \in Found(S, a)
         /\ First(Naming(S, a, Activity(a, 1))) \in {2, 4}
         /\ \A p \in Found(S, a) \ {Activity(a, 1)} :
              First(Naming(S, a, p)) \in Nat /\ First(Naming(S, a, p)) >= 8
<1>. DEFINE raising == Record("triggered", a, 1)
            update == Record("updated", a, 1)
<1>1. /\ a \in Alerts /\ raising \in S
      /\ raising.op = "triggered" /\ raising.alert = a /\ raising.n = 1
      /\ update.op = "updated" /\ update.alert = a /\ update.n = 1
  BY DEF Raised, Record
<1>2. Created(raising) = 2 /\ (update \in S => Created(update) = 4)
  BY <1>1, RecordsAre
<1>3. ASSUME NEW r \in S, r.alert = a, r.op \in {"triggered", "updated"}
      PROVE  r = raising \/ (r.op = "updated" /\ Names(S, r) = Activity(a, r.n))
  BY <1>3, RecordsAre, NamesAre
<1>4. \A n \in 1 .. Activities : Activity(a, n) = Activity(a, 1) => n = 1
  BY DEF Activity
<1>5. Activity(a, 1) # NoRecord
  BY DEF Activity, NoRecord
<1>6. Names(S, raising) \in {NoRecord, Activity(a, 1)}
  BY <1>1, NamesAre DEF Named
<1>7. Names(S, raising) = Activity(a, 1) \/ update \in S
  BY <1>1, NamesAre DEF Named
<1>8. update \in S => Names(S, update) = Activity(a, 1)
  BY <1>1, NamesAre
<1>9. Activity(a, 1) \in Found(S, a)
  BY <1>1, <1>5, <1>7, <1>8 DEF Found
<1>10. First(Naming(S, a, Activity(a, 1))) \in {2, 4}
  <2>. DEFINE R == Naming(S, a, Activity(a, 1))
              T == {Created(r) : r \in R}
  <2>1. \A r \in R : r = raising \/ r = update
    <3>1. ASSUME NEW r \in R PROVE r = raising \/ r = update
      <4>1. r \in S /\ r.alert = a /\ r.op \in {"triggered", "updated"}
            /\ Names(S, r) = Activity(a, 1)
        BY DEF Naming
      <4>2. CASE r.op = "updated" /\ Names(S, r) = Activity(a, r.n)
        <5>1. r.n = 1 /\ r = Record(r.op, r.alert, r.n)
          BY <1>4, <4>1, <4>2, RecordsAre
        <5>. QED BY <4>1, <4>2, <5>1
      <4>. QED BY <1>3, <4>1, <4>2
    <3>. QED BY <3>1
  <2>2. CASE Names(S, raising) = Activity(a, 1)
    <3>1. raising \in R
      BY <1>1, <2>2 DEF Naming
    <3>2. T \in SUBSET Nat /\ 2 \in T /\ \A x \in T : 2 <= x
      <4>1. \A r \in R : r \in S
        BY DEF Naming
      <4>. HIDE DEF R
      <4>2. \A r \in R : Created(r) = 2 \/ Created(r) = 4
        BY <1>2, <2>1, <4>1
      <4>. QED BY <1>2, <3>1, <4>2
    <3>3. Min(T) = 2
      <4>. HIDE DEF T
      <4>. QED BY <3>2, MinIs
    <3>. QED BY <3>3 DEF First
  <2>3. CASE Names(S, raising) # Activity(a, 1)
    <3>1. update \in R
      BY <1>1, <1>7, <1>8, <2>3 DEF Naming
    <3>2. T = {4}
      <4>1. \A r \in R : r = update
        BY <2>1, <2>3 DEF Naming
      <4>2. update \in S
        BY <1>7, <2>3
      <4>. HIDE DEF R
      <4>. QED BY <1>2, <3>1, <4>1, <4>2
    <3>3. Min(T) = 4
      <4>. HIDE DEF T
      <4>. QED BY <3>2, MinIs
    <3>. QED BY <3>3 DEF First
  <2>. QED BY <2>2, <2>3
<1>11. ASSUME NEW p \in Found(S, a) \ {Activity(a, 1)}
       PROVE  First(Naming(S, a, p)) \in Nat /\ First(Naming(S, a, p)) >= 8
  <2>. DEFINE R == Naming(S, a, p)
              T == {Created(r) : r \in R}
  <2>1. PICK q \in S : q.alert = a /\ q.op \in {"triggered", "updated"} /\ p = Names(S, q)
    BY DEF Found
  <2>2. p # NoRecord
    BY DEF Found
  <2>3. q.op = "updated" /\ p = Activity(a, q.n)
    BY <1>3, <1>6, <2>1, <2>2
  <2>4. q.n \in Nat /\ q.n >= 2 /\ Created(q) = 4 * q.n
    BY <2>1, <2>3, RecordsAre
  <2>5. \A r \in R : r = q
    <3>1. ASSUME NEW r \in R PROVE r = q
      <4>1. r \in S /\ r.alert = a /\ r.op \in {"triggered", "updated"} /\ Names(S, r) = p
        BY DEF Naming
      <4>2. r.op = "updated" /\ Names(S, r) = Activity(a, r.n)
        BY <1>3, <1>6, <2>2, <4>1
      <4>3. r.n = q.n
        BY <2>3, <4>1, <4>2 DEF Activity
      <4>. QED BY <2>1, <2>3, <4>1, <4>2, <4>3, RecordsAre
    <3>. QED BY <3>1
  <2>6. q \in R
    BY <2>1 DEF Naming
  <2>7. T = {Created(q)}
    <3>. HIDE DEF R
    <3>. QED BY <2>5, <2>6
  <2>8. Min(T) = Created(q)
    <3>. HIDE DEF T
    <3>. QED BY <2>4, <2>7, MinIs
  <2>. QED BY <2>4, <2>8 DEF First
<1>. QED BY <1>9, <1>10, <1>11

\* What a search says of an activity is of the right kind, and true of every
\* alert it can name the raising activity of.
LEMMA FoldIsTrue ==
  ASSUME NEW S \in SUBSET Records, NEW t \in Fold(S)
  PROVE  t \in Told /\ (t.named => (t.repeat <=> t.id # Activity(t.alert, 1)))
<1>1. PICK a \in Raised(S) : \E p \in Found(S, a) :
        t = [alert |-> a, id |-> p, repeat |-> IsRepeat(S, a, p), named |-> Named(S, a)]
  BY DEF Fold
<1>2. PICK p \in Found(S, a) :
        t = [alert |-> a, id |-> p, repeat |-> IsRepeat(S, a, p), named |-> Named(S, a)]
  BY <1>1
<1>3. a \in Alerts
  BY DEF Raised
<1>4. t \in Told
  <2>1. p \in Alerts \X (0 .. Activities)
    BY <1>3, FoundAre DEF Entry, Activity
  <2>2. IsRepeat(S, a, p) \in BOOLEAN /\ Named(S, a) \in BOOLEAN
    BY DEF IsRepeat, Named
  <2>. QED BY <1>2, <1>3, <2>1, <2>2 DEF Told
<1>5. ASSUME Named(S, a) PROVE IsRepeat(S, a, p) <=> p # Activity(a, 1)
  <2>1. /\ Activity(a, 1) \in Found(S, a)
        /\ First(Naming(S, a, Activity(a, 1))) \in {2, 4}
        /\ \A q \in Found(S, a) \ {Activity(a, 1)} :
             First(Naming(S, a, q)) \in Nat /\ First(Naming(S, a, q)) >= 8
    BY <1>5, RaisingIsFirst
  <2>2. Created(Record("triggered", a, 1)) = 2
    BY <1>3, RecordsAre DEF Raised, Record
  <2>. QED BY <2>1, <2>2 DEF IsRepeat
<1>. QED BY <1>2, <1>4, <1>5

LEMMA WindowsGrow ==
  ASSUME NEW S, NEW T, S \subseteq T, NEW from, NEW to
  PROVE  Raised(InWindow(S, from, to)) \subseteq Raised(InWindow(T, from, to))
BY DEF Raised, InWindow

\* What a search that has succeeded holds is of its window.
LEMMA BecomeHolds ==
  ASSUME NEW how \in {"running", "succeeded", "failed"}, NEW from, NEW to, Become(how, from, to)
  PROVE  /\ job' = how /\ held' \subseteq searchable
         /\ how = "succeeded" => held' = InWindow(searchable, from, to)
BY DEF Become, InWindow

-----------------------------------------------------------------------------
(* What the steps keep.                                                    *)

LEMMA InitHolds == Init => Inductive
<1>. SUFFICES ASSUME Init PROVE Inductive
  OBVIOUS
<1>1. TypeOK
  BY DEF Init, TypeOK, Nothing
<1>2. LogIsFinite
  BY FS_EmptySet DEF Init, LogIsFinite
<1>. QED BY <1>1, <1>2 DEF Init, Inductive, TimeIsKept, DueIsHeld, InSearch, StatusIsTrue,
                             RepeatsAreRepeats, AnswerIsWhole

\* A search begins; one that is over at once holds its window.
LEMMA CreateKeeps ==
  ASSUME Inductive, NEW from \in 1 .. 4, NEW to \in Ends, Create(from, to)
  PROVE  Inductive'
<1>1. PICK how \in {"running", "succeeded", "failed"} :
        /\ job' = how /\ status' = how /\ held' \subseteq searchable
        /\ how = "succeeded" => held' = InWindow(searchable, from, to)
  BY BecomeHolds DEF Create
<1>2. /\ stage' = "waiting" /\ low' = from /\ high' = to
      /\ due' = Raised(InWindow(searchable, from, to))
      /\ outcome' = "none" /\ answered' = Nothing
      /\ UNCHANGED <<searchable, told>>
  BY DEF Create
<1>3. TypeOK'
  <2>1. due' \subseteq Alerts
    BY <1>2 DEF Raised
  <2>2. elapsed' \in 0 .. Timeout + PollSeconds + Latency
    BY DEF Create
  <2>3. held' \subseteq Records
    BY <1>1 DEF Inductive, TypeOK
  <2>. QED BY <1>1, <1>2, <2>1, <2>2, <2>3 DEF Inductive, TypeOK, Nothing
<1>4. LogIsFinite'
  BY <1>1, <1>2, FS_Subset DEF Inductive, LogIsFinite
<1>5. TimeIsKept' /\ StatusIsTrue' /\ AnswerIsWhole'
  BY <1>1, <1>2 DEF TimeIsKept, StatusIsTrue, AnswerIsWhole
<1>6. DueIsHeld'
  BY <1>1, <1>2 DEF DueIsHeld, InSearch, Raised, InWindow
<1>7. RepeatsAreRepeats'
  BY <1>2 DEF Inductive, RepeatsAreRepeats
<1>. QED BY <1>3, <1>4, <1>5, <1>6, <1>7 DEF Inductive

LEMMA RaiseKeeps ==
  ASSUME Inductive, NEW how \in {"timeout", "refused"}, Raise(how)
  PROVE  Inductive'
<1>1. TypeOK'
  BY DEF Inductive, TypeOK, Raise, Nothing
<1>2. LogIsFinite'
  BY FS_EmptySet DEF Inductive, LogIsFinite, Raise
<1>3. TimeIsKept' /\ StatusIsTrue' /\ AnswerIsWhole' /\ DueIsHeld'
  BY DEF Raise, TimeIsKept, StatusIsTrue, AnswerIsWhole, DueIsHeld, InSearch
<1>4. RepeatsAreRepeats'
  BY DEF Inductive, Raise, RepeatsAreRepeats
<1>. QED BY <1>1, <1>2, <1>3, <1>4 DEF Inductive

LEMMA PauseKeeps ==
  ASSUME Inductive, Pause
  PROVE  Inductive'
<1>1. TypeOK' /\ TimeIsKept'
  <2>1. elapsed \in Nat /\ elapsed <= Timeout
    BY DEF Inductive, TypeOK, Pause, TimeIsUp
  <2>2. elapsed' \in 0 .. Timeout + PollSeconds
    BY <2>1 DEF Pause
  <2>3. \A n \in 0 .. Timeout + PollSeconds : n \in 0 .. Timeout + PollSeconds + Latency
    OBVIOUS
  <2>. QED BY <2>2, <2>3 DEF Inductive, TypeOK, Pause, TimeIsKept, answers
<1>2. LogIsFinite' /\ DueIsHeld'
  BY DEF Inductive, Pause, LogIsFinite, DueIsHeld, InSearch, Raised, InWindow
<1>3. StatusIsTrue' /\ RepeatsAreRepeats' /\ AnswerIsWhole'
  BY DEF Inductive, Pause, StatusIsTrue, RepeatsAreRepeats, AnswerIsWhole, answers
<1>. QED BY <1>1, <1>2, <1>3 DEF Inductive

LEMMA LookKeeps ==
  ASSUME Inductive, Look
  PROVE  Inductive'
<1>1. TypeOK' /\ TimeIsKept'
  <2>1. elapsed \in Nat /\ elapsed <= Timeout + PollSeconds
    BY DEF Inductive, TypeOK, TimeIsKept, Look
  <2>2. elapsed' \in 0 .. Timeout + PollSeconds + Latency
    BY <2>1 DEF Look
  <2>. QED BY <2>2 DEF Inductive, TypeOK, Look, TimeIsKept, answers
<1>2. LogIsFinite' /\ DueIsHeld'
  BY DEF Inductive, Look, LogIsFinite, DueIsHeld, InSearch, Raised, InWindow
<1>3. StatusIsTrue' /\ RepeatsAreRepeats' /\ AnswerIsWhole'
  BY DEF Inductive, Look, StatusIsTrue, RepeatsAreRepeats, AnswerIsWhole, answers
<1>. QED BY <1>1, <1>2, <1>3 DEF Inductive

\* Only a search that has succeeded is read, so all that was due is held; what
\* is not "truncated" is all that is held.
LEMMA ReadKeeps ==
  ASSUME Inductive, Read
  PROVE  Inductive'
<1>. DEFINE size == IF Cardinality(held) > Limit THEN Limit ELSE Cardinality(held)
<1>1. PICK S \in kSubset(size, held) :
        /\ answered' = [alerts |-> Raised(S), truncated |-> Cardinality(held) > Limit]
        /\ told' = told \cup Fold(S)
  BY DEF Read
<1>2. S \in SUBSET held /\ Cardinality(S) = size
  BY DEF kSubset
<1>3. S \in SUBSET Records
  BY <1>2 DEF Inductive, TypeOK
<1>4. answered'.truncated \/ S = held
  BY <1>1, <1>2, FS_Subset DEF Inductive, LogIsFinite
<1>5. job = "succeeded" /\ due \subseteq Raised(held)
  BY DEF Inductive, StatusIsTrue, DueIsHeld, InSearch, Read, IsOver
<1>6. AnswerIsWhole'
  BY <1>1, <1>4, <1>5 DEF Read, AnswerIsWhole
<1>7. \A t \in told' : t \in Told /\ (t.named => (t.repeat <=> t.id # Activity(t.alert, 1)))
  BY <1>1, <1>3, FoldIsTrue DEF Inductive, TypeOK, RepeatsAreRepeats
<1>8. TypeOK'
  <2>1. Raised(S) \in SUBSET Alerts /\ (Cardinality(held) > Limit) \in BOOLEAN
    BY DEF Raised
  <2>2. answered' \in [alerts : SUBSET Alerts, truncated : BOOLEAN]
    BY <1>1, <2>1
  <2>. QED BY <1>7, <2>2 DEF Inductive, TypeOK, Read
<1>9. LogIsFinite'
  BY FS_EmptySet DEF Inductive, LogIsFinite, Read
<1>10. TimeIsKept' /\ DueIsHeld' /\ StatusIsTrue'
  BY DEF Read, TimeIsKept, DueIsHeld, InSearch, StatusIsTrue
<1>11. RepeatsAreRepeats'
  BY <1>7 DEF RepeatsAreRepeats
<1>. QED BY <1>6, <1>8, <1>9, <1>10, <1>11 DEF Inductive

LEMMA TakeKeeps ==
  ASSUME Inductive, Take
  PROVE  Inductive'
<1>1. TypeOK' /\ LogIsFinite'
  BY DEF Inductive, TypeOK, LogIsFinite, Take
<1>2. TimeIsKept' /\ DueIsHeld' /\ AnswerIsWhole'
  BY DEF Take, TimeIsKept, DueIsHeld, InSearch, AnswerIsWhole
<1>3. StatusIsTrue' /\ RepeatsAreRepeats'
  BY DEF Inductive, Take, StatusIsTrue, RepeatsAreRepeats
<1>. QED BY <1>1, <1>2, <1>3 DEF Inductive

\* The log only grows, so what was due stays due.
LEMMA IndexKeeps ==
  ASSUME Inductive, NEW r \in Records, Index(r)
  PROVE  Inductive'
<1>1. TypeOK'
  BY DEF Inductive, TypeOK, Index, search, answers
<1>2. LogIsFinite'
  BY FS_AddElement DEF Inductive, LogIsFinite, Index
<1>3. DueIsHeld'
  <2>1. low' = low /\ high' = high /\ due' = due /\ held' = held /\ job' = job /\ stage' = stage
    BY DEF Index, search
  <2>2. Raised(InWindow(searchable, low, high)) \subseteq Raised(InWindow(searchable', low, high))
    BY WindowsGrow DEF Index
  <2>3. Raised(held)' = Raised(held)
    BY <2>1 DEF Raised
  <2>4. Raised(InWindow(searchable, low, high))' = Raised(InWindow(searchable', low, high))
    BY <2>1 DEF Raised, InWindow
  <2>. QED BY <2>1, <2>2, <2>3, <2>4 DEF Inductive, DueIsHeld, InSearch
<1>4. TimeIsKept' /\ StatusIsTrue' /\ RepeatsAreRepeats' /\ AnswerIsWhole'
  BY DEF Inductive, Index, search, answers, TimeIsKept, StatusIsTrue, RepeatsAreRepeats,
         AnswerIsWhole
<1>. QED BY <1>1, <1>2, <1>3, <1>4 DEF Inductive

\* A search that succeeds holds all of its window that is searchable by then.
LEMMA CompleteKeeps ==
  ASSUME Inductive, Complete
  PROVE  Inductive'
<1>1. PICK how \in {"succeeded", "failed"} :
        /\ job' = how /\ held' \subseteq searchable
        /\ how = "succeeded" => held' = InWindow(searchable, low, high)
  BY BecomeHolds DEF Complete
<1>2. job = "running" /\ UNCHANGED <<searchable, stage, search, status, answers>>
  BY DEF Complete
<1>3. TypeOK'
  BY <1>1, <1>2 DEF Inductive, TypeOK, search, answers
<1>4. LogIsFinite'
  BY <1>1, <1>2, FS_Subset DEF Inductive, LogIsFinite
<1>5. DueIsHeld'
  BY <1>1, <1>2 DEF Inductive, DueIsHeld, InSearch, Raised, InWindow, search
<1>6. TimeIsKept' /\ StatusIsTrue' /\ RepeatsAreRepeats' /\ AnswerIsWhole'
  BY <1>1, <1>2 DEF Inductive, search, answers, TimeIsKept, StatusIsTrue, RepeatsAreRepeats,
                    AnswerIsWhole
<1>. QED BY <1>3, <1>4, <1>5, <1>6 DEF Inductive

LEMMA InductiveIsKept ==
  ASSUME Inductive, [Next]_vars
  PROVE  Inductive'
<1>1. CASE UNCHANGED vars
  BY <1>1 DEF vars, Inductive, TypeOK, TimeIsKept, LogIsFinite, DueIsHeld, InSearch, Raised,
              InWindow, StatusIsTrue, RepeatsAreRepeats, AnswerIsWhole
<1>2. ASSUME NEW from \in 1 .. 4, NEW to \in Ends, Create(from, to) PROVE Inductive'
  BY <1>2, CreateKeeps
<1>3. CASE GiveUp \/ Refuse
  BY <1>3, RaiseKeeps DEF GiveUp, Refuse
<1>4. CASE Pause
  BY <1>4, PauseKeeps
<1>5. CASE Look
  BY <1>5, LookKeeps
<1>6. CASE Read
  BY <1>6, ReadKeeps
<1>7. CASE Take
  BY <1>7, TakeKeeps
<1>8. CASE Complete
  BY <1>8, CompleteKeeps
<1>9. ASSUME NEW r \in Records, Index(r) PROVE Inductive'
  BY <1>9, IndexKeeps
<1>. QED BY <1>1, <1>2, <1>3, <1>4, <1>5, <1>6, <1>7, <1>8, <1>9 DEF Next, Step

-----------------------------------------------------------------------------
(* What the intake guarantees, for all alerts, limits and times.           *)

\* The inductive invariant of the intake.
THEOREM InductiveHolds == Spec => []Inductive
BY InitHolds, InductiveIsKept, PTL DEF Spec

\* TypeOK: the poller's state (audit_search.py) keeps its types, and a search
\* is given up at most one pause and one request after its time is up.
THEOREM TypeCorrect == Spec => []TypeOK
<1>1. Inductive => TypeOK
  BY DEF Inductive
<1>. QED BY InductiveHolds, <1>1, PTL

\* RepeatsAreRepeats: whatever records a search finds, fold_alert_records calls
\* an activity a repeat exactly when it did not raise its alert, in every answer
\* that says which submission a report is.
THEOREM RepeatsAreToldTruly == Spec => []RepeatsAreRepeats
<1>1. Inductive => RepeatsAreRepeats
  BY DEF Inductive
<1>. QED BY InductiveHolds, <1>1, PTL

\* AnswerIsWhole: an answer of _searched that does not say "truncated" has every
\* alert that was due when the search was asked for.
THEOREM WholeUnlessTruncated == Spec => []AnswerIsWhole
<1>1. Inductive => AnswerIsWhole
  BY DEF Inductive
<1>. QED BY InductiveHolds, <1>1, PTL

=============================================================================
