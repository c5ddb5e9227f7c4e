------------------------- MODULE IncidentMergeProofs -------------------------
(***************************************************************************)
(* Proofs about IncidentMerge for any incidents and histories, any number  *)
(* of operations at once, and any MAX_REDIRECTS.                           *)
(***************************************************************************)
EXTENDS IncidentMerge, SequenceTheorems, TLAPS

USE ConstantsAssumption

\* What a sequence with one more element holds, and where.
LEMMA Appended ==
  ASSUME NEW s \in Seq(Incidents), NEW i \in Incidents
  PROVE  /\ Append(s, i) \in Seq(Incidents) /\ Len(s) \in Nat
         /\ Len(Append(s, i)) = Len(s) + 1
         /\ \A n \in 1 .. Len(s) : Append(s, i)[n] = s[n] /\ s[n] \in Incidents
         /\ Append(s, i)[Len(s) + 1] = i
BY AppendProperties, LenProperties, ElementOfSeq

LEMMA NotEmpty ==
  ASSUME NEW s \in Seq(Incidents), Len(s) >= 1
  PROVE  s # <<>>
OBVIOUS

\* A merged incident stays merged into what it was merged into: neither the
\* operations nor Defender take a merge back.
LEMMA MergesStay ==
  ASSUME TypeOK, [Next]_vars, NEW i \in Incidents, redirect[i] # Live
  PROVE  redirect'[i] = redirect[i]
<1>1. CASE UNCHANGED redirect
  BY <1>1
<1>2. ASSUME NEW o \in Ops, Merge(o)
      PROVE  redirect'[i] = redirect[i]
  <2>1. PICK n \in 1 .. Len(masters[o]) :
          redirect' = [j \in Incidents |->
                         IF InSeq(j, masters[o]) /\ j # masters[o][n]
                         THEN masters[o][n] ELSE redirect[j]]
    BY <1>2 DEF Merge
  <2>2. ~ InSeq(i, masters[o])
    BY <1>2 DEF Merge, InSeq
  <2>. QED BY <2>1, <2>2
<1>3. ASSUME NEW a \in Incidents, NEW b \in Incidents, Correlate(a, b)
      PROVE  redirect'[i] = redirect[i]
  BY <1>3 DEF Correlate, TypeOK
<1>. QED BY <1>1, <1>2, <1>3 DEF Next, vars, Step, Ask, Refuse, End, Follow, Arrive, Write, Fail

\* The incidents a walk passed and the one it reads, when it is not in a loop.
LEMMA WalkSoFar ==
  ASSUME Inductive, NEW o \in Ops, pc[o] \in {"walking", "writing"}
  PROVE  /\ walked[o] \in Seq(Incidents) /\ Len(walked[o]) \in Nat
         /\ current[o] \in Incidents
         /\ Append(walked[o], current[o])[1] = asked[o][1]
         /\ \A n \in 1 .. Len(walked[o]) :
              redirect[Append(walked[o], current[o])[n]] = Append(walked[o], current[o])[n + 1]
         /\ \A m, n \in 1 .. Len(walked[o]) + 1 :
              Append(walked[o], current[o])[m] = Append(walked[o], current[o])[n] => m = n
<1>1. /\ walked[o] \in Seq(Incidents) /\ current[o] \in Incidents
      /\ pc[o] # "idle" /\ outcome[o] \notin {"loop", "refused", "error"}
  BY DEF Inductive, TypeOK, OutcomesAreLast
<1>2. Len(walked[o]) \in Nat /\ Len(Append(walked[o], current[o])) = Len(walked[o]) + 1
  BY <1>1, Appended
<1>. QED BY <1>1, <1>2 DEF Inductive, WalkIsTheHistory

\* When _master gives up, the history it walked has no end or is too long.
LEMMA LoopsAreReal ==
  ASSUME Inductive, NEW o \in Ops, pc[o] = "walking", ~ IsMaster(o),
         IsEndless(o, redirect[current[o]])
  PROVE  GoesInCircles(asked[o][1]) \/ IsTooLong(asked[o][1])
<1>. DEFINE path == Append(walked[o], current[o])
            to == redirect[current[o]]
            last == Len(walked[o]) + 1
<1>1. /\ walked[o] \in Seq(Incidents) /\ Len(walked[o]) \in Nat /\ current[o] \in Incidents
      /\ path[1] = asked[o][1]
      /\ \A n \in 1 .. last - 1 : redirect[path[n]] = path[n + 1]
  BY WalkSoFar
<1>2. /\ Len(path) = last /\ path[last] = current[o]
      /\ \A n \in 1 .. last : path[n] \in Incidents
  <2>1. /\ Len(path) = last /\ path[last] = current[o]
        /\ \A n \in 1 .. Len(walked[o]) : path[n] \in Incidents
    BY <1>1, Appended
  <2>2. \A n \in 1 .. last : n \in 1 .. Len(walked[o]) \/ n = last
    BY <1>1
  <2>. QED BY <1>1, <2>1, <2>2
<1>3. to \in Incidents
  BY <1>1 DEF Inductive, TypeOK, IsMaster
<1>4. InSeq(to, path) \/ Len(path) > MaxRedirects
  BY DEF IsEndless
<1>5. redirect[path[last]] = to
  BY <1>2
<1>. HIDE DEF path, to
<1>6. CASE InSeq(to, path)
  <2>. DEFINE S == {path[n] : n \in 1 .. last}
  <2>1. S \in SUBSET Incidents /\ asked[o][1] \in S
    BY <1>1, <1>2
  <2>2. to \in S
    BY <1>2, <1>6 DEF InSeq
  <2>3. ASSUME NEW j \in S PROVE redirect[j] \in S
    <3>1. PICK n \in 1 .. last : j = path[n]
      OBVIOUS
    <3>2. CASE n = last
      BY <1>5, <2>2, <3>1, <3>2
    <3>3. CASE n # last
      <4>1. n \in 1 .. last - 1 /\ n + 1 \in 1 .. last
        BY <1>1, <3>3
      <4>. QED BY <1>1, <3>1, <4>1
    <3>. QED BY <3>2, <3>3
  <2>. QED BY <2>1, <2>3 DEF GoesInCircles
<1>7. CASE Len(path) > MaxRedirects
  <2>. DEFINE whole == [n \in 0 .. MaxRedirects + 1 |-> IF n < last THEN path[n + 1] ELSE to]
  <2>1. whole \in [0 .. MaxRedirects + 1 -> Incidents]
    <3>1. ASSUME NEW n \in 0 .. MaxRedirects + 1, n < last PROVE path[n + 1] \in Incidents
      BY <1>1, <1>2, <3>1
    <3>. QED BY <1>3, <3>1
  <2>2. whole[0] = asked[o][1]
    BY <1>1
  <2>3. ASSUME NEW n \in 0 .. MaxRedirects PROVE redirect[whole[n]] = whole[n + 1]
    <3>1. n < last /\ n \in Nat /\ n + 1 \in 0 .. MaxRedirects + 1 /\ last \in Nat
      BY <1>1, <1>2, <1>7
    <3>2. whole[n] = path[n + 1]
      BY <3>1
    <3>3. CASE n + 1 < last
      <4>1. whole[n + 1] = path[n + 1 + 1] /\ n + 1 \in 1 .. last - 1
        BY <3>1, <3>3
      <4>. QED BY <1>1, <3>2, <4>1
    <3>4. CASE n + 1 = last
      BY <1>5, <3>1, <3>2, <3>4
    <3>. QED BY <3>1, <3>3, <3>4
  <2>. HIDE DEF whole
  <2>. QED BY <2>1, <2>2, <2>3 DEF IsTooLong
<1>. QED BY <1>4, <1>6, <1>7

\* A history that has no end, or is too long, stays so.
LEMMA LoopsStay ==
  ASSUME TypeOK, [Next]_vars, NEW i \in Incidents, GoesInCircles(i) \/ IsTooLong(i)
  PROVE  (GoesInCircles(i) \/ IsTooLong(i))'
<1>1. CASE GoesInCircles(i)
  <2>1. PICK S \in SUBSET Incidents : i \in S /\ \A j \in S : redirect[j] \in S
    BY <1>1 DEF GoesInCircles
  <2>2. \A j \in S : redirect'[j] \in S
    BY <2>1, MergesStay
  <2>. QED BY <2>1, <2>2 DEF GoesInCircles
<1>2. CASE IsTooLong(i)
  <2>1. PICK path \in [0 .. MaxRedirects + 1 -> Incidents] :
          path[0] = i /\ \A n \in 0 .. MaxRedirects : redirect[path[n]] = path[n + 1]
    BY <1>2 DEF IsTooLong
  <2>2. \A n \in 0 .. MaxRedirects : path[n] \in Incidents /\ path[n + 1] \in Incidents
    BY <2>1
  <2>3. \A n \in 0 .. MaxRedirects : redirect'[path[n]] = path[n + 1]
    BY <2>1, <2>2, MergesStay
  <2>. QED BY <2>1, <2>3 DEF IsTooLong
<1>. QED BY <1>1, <1>2

-----------------------------------------------------------------------------
(* The invariant, one operation at a time.                                 *)

\* What WalkIsTheHistory says of one operation.
WalkKnown(o) ==
  pc[o] # "idle" /\ outcome[o] \notin {"loop", "refused", "error"} =>
    LET path == Append(walked[o], current[o])
    IN  /\ path[1] = asked[o][1]
        /\ \A n \in 1 .. Len(walked[o]) : redirect[path[n]] = path[n + 1]
        /\ \A m, n \in 1 .. Len(path) : path[m] = path[n] => m = n

\* What the other parts of the invariant say of it.
EndKnown(o) ==
  /\ pc[o] = "done" <=> outcome[o] # "none"
  /\ pc[o] = "idle" => walked[o] = <<>>
  /\ pc[o] # "idle" /\ outcome[o] # "refused" =>
       asked[o] # <<>> /\ (outcome[o] # "error" => current[o] \in Incidents)
  /\ outcome[o] = "loop" => GoesInCircles(asked[o][1]) \/ IsTooLong(asked[o][1])
  /\ o \in Writers /\ pc[o] = "writing" /\ redirect[target[o]] # Live => raced[o]
MastersKnown(o) ==
  /\ \A m, n \in 1 .. Len(masters[o]) : masters[o][m] = masters[o][n] => m = n
  /\ o \in Mergers /\ outcome[o] = "ok" /\ target[o] # Live =>
       \A m \in Merged(o) : redirect[m] = target[o]
  /\ o \in Mergers /\ pc[o] = "writing" =>
       \E m, n \in 1 .. Len(masters[o]) : masters[o][m] # masters[o][n]

LEMMA ByOperation ==
  Inductive <=> TypeOK /\ \A o \in Ops : WalkKnown(o) /\ EndKnown(o) /\ MastersKnown(o)
BY DEF Inductive, OutcomesAreLast, MastersDiffer, WalkIsTheHistory, NoFalseLoop,
   AstrayOnlyWhenOvertaken, MergedRedirect, MergeOfSeveral, WalkKnown, EndKnown, MastersKnown, Ops

\* The walk of an operation that is not in a loop stays the history it is,
\* whatever is merged.
LEMMA WalkStays ==
  ASSUME Inductive, [Next]_vars, NEW o \in Ops,
         pc[o] # "idle", outcome[o] \notin {"loop", "refused", "error"},
         asked'[o] = asked[o], current'[o] = current[o], walked'[o] = walked[o]
  PROVE  WalkKnown(o)'
<1>1. TypeOK /\ WalkKnown(o) /\ EndKnown(o) /\ MastersKnown(o)
  BY ByOperation
<1>2. \A i \in Incidents : redirect[i] # Live => redirect'[i] = redirect[i]
  BY <1>1, MergesStay
<1>. DEFINE path == Append(walked[o], current[o])
<1>3. walked[o] \in Seq(Incidents) /\ current[o] \in Incidents
  BY <1>1 DEF TypeOK, EndKnown
<1>4. \A n \in 1 .. Len(walked[o]) : path[n] \in Incidents /\ path[n + 1] \in Incidents
  <2>1. /\ Len(walked[o]) \in Nat
        /\ \A n \in 1 .. Len(walked[o]) : path[n] \in Incidents
        /\ path[Len(walked[o]) + 1] \in Incidents
    BY <1>3, Appended
  <2>2. \A n \in 1 .. Len(walked[o]) :
          n + 1 \in 1 .. Len(walked[o]) \/ n + 1 = Len(walked[o]) + 1
    BY <2>1
  <2>. QED BY <2>1, <2>2
<1>5. /\ path[1] = asked[o][1]
      /\ \A n \in 1 .. Len(walked[o]) : redirect[path[n]] = path[n + 1]
      /\ \A m, n \in 1 .. Len(path) : path[m] = path[n] => m = n
  BY <1>1 DEF WalkKnown
<1>6. path' = path /\ walked'[o] = walked[o] /\ asked'[o] = asked[o]
  OBVIOUS
<1>. HIDE DEF path
<1>7. \A n \in 1 .. Len(walked[o]) : redirect'[path[n]] = path[n + 1]
  BY <1>2, <1>4, <1>5
<1>8. /\ path'[1] = asked'[o][1]
      /\ \A n \in 1 .. Len(walked'[o]) : redirect'[path'[n]] = path'[n + 1]
      /\ \A m, n \in 1 .. Len(path') : path'[m] = path'[n] => m = n
  BY <1>5, <1>6, <1>7
<1>. QED BY <1>8 DEF WalkKnown, path

\* Nothing of what is known of an operation is lost by a step that leaves the
\* operation where it is, whatever was merged by it.
LEMMA OthersKeep ==
  ASSUME Inductive, [Next]_vars, NEW o \in Ops,
         pc'[o] = pc[o], asked'[o] = asked[o], current'[o] = current[o], walked'[o] = walked[o],
         masters'[o] = masters[o], outcome'[o] = outcome[o], target'[o] = target[o],
         \/ redirect' = redirect /\ raced'[o] = raced[o]
         \/ raced'[o] = (raced[o] \/ (o \in Writers /\ pc[o] = "writing"))
  PROVE  WalkKnown(o)' /\ EndKnown(o)' /\ MastersKnown(o)'
<1>1. TypeOK /\ WalkKnown(o) /\ EndKnown(o) /\ MastersKnown(o)
  BY ByOperation
<1>2. \A i \in Incidents : redirect[i] # Live => redirect'[i] = redirect[i]
  BY <1>1, MergesStay
<1>3. WalkKnown(o)'
  BY <1>1, WalkStays DEF WalkKnown
<1>4. EndKnown(o)'
  <2>1. outcome[o] = "loop" => asked[o][1] \in Incidents
    <3>1. outcome[o] = "loop" => asked[o] # <<>> /\ asked[o] \in Seq(Incidents)
      BY <1>1 DEF TypeOK, EndKnown
    <3>2. outcome[o] = "loop" => asked[o][1] \in Incidents
      BY <3>1, EmptySeq, ElementOfSeq
    <3>. QED BY <1>1, <3>2 DEF EndKnown
  <2>2. outcome[o] = "loop" => (GoesInCircles(asked[o][1]) \/ IsTooLong(asked[o][1]))'
    <3>1. outcome[o] = "loop" => GoesInCircles(asked[o][1]) \/ IsTooLong(asked[o][1])
      BY <1>1 DEF EndKnown
    <3>2. ASSUME NEW i \in Incidents, GoesInCircles(i) \/ IsTooLong(i)
          PROVE  (GoesInCircles(i) \/ IsTooLong(i))'
      BY <1>1, <3>2, LoopsStay
    <3>. SUFFICES ASSUME outcome[o] = "loop"
                  PROVE  (GoesInCircles(asked[o][1]) \/ IsTooLong(asked[o][1]))'
      OBVIOUS
    <3>3. PICK i \in Incidents : i = asked[o][1]
      BY <2>1
    <3>4. GoesInCircles(i)' \/ IsTooLong(i)'
      <4>1. CASE GoesInCircles(asked[o][1])
        BY <3>2, <3>3, <4>1 DEF GoesInCircles
      <4>2. CASE IsTooLong(asked[o][1])
        BY <3>2, <3>3, <4>2 DEF IsTooLong
      <4>. QED BY <3>1, <4>1, <4>2
    <3>5. asked'[o][1] = i
      BY <3>3
    <3>6. CASE GoesInCircles(i)'
      BY <3>5, <3>6 DEF GoesInCircles
    <3>7. CASE IsTooLong(i)'
      BY <3>5, <3>7 DEF IsTooLong
    <3>. QED BY <3>4, <3>6, <3>7
  <2>. QED BY <1>1, <2>2 DEF EndKnown
<1>5. MastersKnown(o)'
  <2>1. Merged(o)' = Merged(o) /\ Merged(o) \subseteq Incidents
    BY <1>1, ElementOfSeq DEF Merged, TypeOK
  <2>. QED BY <1>1, <1>2, <2>1 DEF MastersKnown
<1>. QED BY <1>3, <1>4, <1>5

\* So a step of one operation keeps the invariant when it keeps what is known
\* of that operation.
LEMMA OwnStepSuffices ==
  ASSUME Inductive, NEW o \in Ops, Ask(o) \/ Refuse(o) \/ Step(o), TypeOK',
         WalkKnown(o)', EndKnown(o)', MastersKnown(o)'
  PROVE  Inductive'
<1>1. [Next]_vars
  BY DEF Next
<1>2. ASSUME NEW d \in Ops, d # o
      PROVE  /\ pc'[d] = pc[d] /\ asked'[d] = asked[d] /\ current'[d] = current[d]
             /\ walked'[d] = walked[d] /\ masters'[d] = masters[d]
             /\ outcome'[d] = outcome[d] /\ target'[d] = target[d]
             /\ \/ redirect' = redirect /\ raced'[d] = raced[d]
                \/ raced'[d] = (raced[d] \/ (d \in Writers /\ pc[d] = "writing"))
  <2>. USE <1>2 DEF Inductive, TypeOK
  <2>1. CASE Ask(o)
    BY <2>1 DEF Ask
  <2>7. CASE Refuse(o)
    BY <2>7 DEF Refuse, End
  <2>2. CASE Follow(o)
    BY <2>2 DEF Follow, End
  <2>3. CASE Arrive(o)
    BY <2>3 DEF Arrive, End, NextWalk
  <2>4. CASE Write(o)
    BY <2>4 DEF Write, End
  <2>5. CASE Merge(o)
    BY <2>5 DEF Merge, End, Race
  <2>6. CASE Fail(o)
    BY <2>6 DEF Fail, End
  <2>. QED BY <2>1, <2>2, <2>3, <2>4, <2>5, <2>6, <2>7 DEF Step
<1>3. ASSUME NEW d \in Ops, d # o
      PROVE  WalkKnown(d)' /\ EndKnown(d)' /\ MastersKnown(d)'
  BY <1>1, <1>2, <1>3, OthersKeep
<1>4. \A d \in Ops : WalkKnown(d)' /\ EndKnown(d)' /\ MastersKnown(d)'
  BY <1>3
<1>5. (TypeOK /\ \A d \in Ops : WalkKnown(d) /\ EndKnown(d) /\ MastersKnown(d))'
  BY <1>4
<1>6. Inductive' <=> (TypeOK /\ \A d \in Ops : WalkKnown(d) /\ EndKnown(d) /\ MastersKnown(d))'
  BY SMTT(20) DEF Inductive, OutcomesAreLast, MastersDiffer, WalkIsTheHistory, NoFalseLoop,
     AstrayOnlyWhenOvertaken, MergedRedirect, MergeOfSeveral, WalkKnown, EndKnown, MastersKnown, Ops
<1>. QED BY <1>5, <1>6

-----------------------------------------------------------------------------
(* Every step keeps the invariant.                                         *)

\* At the start no operation was called.
LEMMA InitInductive == Init => Inductive
<1>. SUFFICES ASSUME Init PROVE Inductive
  OBVIOUS
<1>1. TypeOK
  BY EmptySeq DEF Init, TypeOK
<1>2. \A o \in Ops : WalkKnown(o) /\ EndKnown(o) /\ MastersKnown(o)
  BY DEF Init, WalkKnown, EndKnown, MastersKnown, Ops
<1>. QED BY <1>1, <1>2, ByOperation

\* An operation is called.
LEMMA AskStep ==
  ASSUME Inductive, NEW o \in Ops, Ask(o)
  PROVE  Inductive'
<1>. USE DEF TypeOK
<1>0. TypeOK /\ WalkKnown(o) /\ EndKnown(o) /\ MastersKnown(o)
  BY ByOperation
<1>1. PICK list \in Arguments(o) :
        /\ asked' = [asked EXCEPT ![o] = list]
        /\ current' = [current EXCEPT ![o] = list[1]]
  BY DEF Ask
<1>2. /\ pc[o] = "idle" /\ pc' = [pc EXCEPT ![o] = "walking"]
      /\ UNCHANGED <<redirect, walked, masters, passed, outcome, target, raced>>
  BY DEF Ask
<1>3. list \in Seq(Incidents) /\ list # <<>> /\ list[1] \in Incidents
  <2>1. \E n \in Nat \ {0} : list \in [1 .. n -> Incidents]
    BY DEF Arguments
  <2>2. PICK n \in Nat \ {0} : list \in [1 .. n -> Incidents]
    BY <2>1
  <2>3. list \in Seq(Incidents) /\ 1 \in DOMAIN list
    BY <2>2
  <2>. QED BY <2>2, <2>3
<1>4. TypeOK'
  BY <1>0, <1>1, <1>2, <1>3
<1>5. outcome[o] = "none"
  BY <1>0, <1>2 DEF EndKnown
<1>6. WalkKnown(o)'
  <2>. DEFINE path == Append(walked'[o], current'[o])
  <2>1. walked'[o] = <<>> /\ current'[o] = list[1] /\ asked'[o] = list
    BY <1>0, <1>1, <1>2, <1>3 DEF EndKnown
  <2>2. Len(path) = 1 /\ path[1] = list[1] /\ Len(walked'[o]) = 0
    BY <1>3, <2>1, Appended, EmptySeq
  <2>. HIDE DEF path
  <2>3. /\ path[1] = asked'[o][1]
        /\ \A n \in 1 .. Len(walked'[o]) : redirect'[path[n]] = path[n + 1]
        /\ \A m, n \in 1 .. Len(path) : path[m] = path[n] => m = n
    BY <2>1, <2>2
  <2>. QED BY <2>3 DEF WalkKnown, path
<1>7. EndKnown(o)' /\ MastersKnown(o)'
  BY <1>0, <1>1, <1>2, <1>3, <1>5 DEF EndKnown, MastersKnown
<1>. QED BY <1>4, <1>6, <1>7, OwnStepSuffices

\* _master reads a merged incident.
LEMMA FollowStep ==
  ASSUME Inductive, NEW o \in Ops, Follow(o)
  PROVE  Inductive'
<1>. USE DEF TypeOK
<1>0. TypeOK /\ WalkKnown(o) /\ EndKnown(o) /\ MastersKnown(o)
  BY ByOperation
<1>. DEFINE path == Append(walked[o], current[o])
            to == redirect[current[o]]
            last == Len(walked[o]) + 1
<1>1. /\ pc[o] = "walking" /\ ~ IsMaster(o) /\ outcome[o] = "none"
      /\ walked' = [walked EXCEPT ![o] = path]
      /\ UNCHANGED <<redirect, asked, masters, passed, target, raced>>
  BY <1>0 DEF Follow, EndKnown
<1>2. /\ walked[o] \in Seq(Incidents) /\ Len(walked[o]) \in Nat /\ current[o] \in Incidents
      /\ path[1] = asked[o][1]
      /\ \A n \in 1 .. last - 1 : redirect[path[n]] = path[n + 1]
      /\ \A m, n \in 1 .. last : path[m] = path[n] => m = n
  <2>1. Len(walked[o]) \in Nat
    BY <1>1, WalkSoFar
  <2>2. last - 1 = Len(walked[o])
    BY <2>1
  <2>. QED BY <1>1, <2>1, <2>2, WalkSoFar
<1>3. /\ path \in Seq(Incidents) /\ Len(path) = last /\ path[last] = current[o]
      /\ to \in Incidents
  BY <1>0, <1>1, <1>2, Appended DEF IsMaster
<1>. HIDE DEF path, to
<1>4. CASE IsEndless(o, to)
  <2>1. /\ pc' = [pc EXCEPT ![o] = "done"] /\ outcome' = [outcome EXCEPT ![o] = "loop"]
        /\ current' = current
    BY <1>4 DEF Follow, End, to
  <2>2. TypeOK'
    BY <1>0, <1>1, <1>3, <2>1
  <2>3. GoesInCircles(asked[o][1]) \/ IsTooLong(asked[o][1])
    BY <1>1, <1>4, LoopsAreReal DEF to
  <2>4. (GoesInCircles(asked[o][1]) \/ IsTooLong(asked[o][1]))'
    BY <1>1, <2>3 DEF GoesInCircles, IsTooLong
  <2>5. WalkKnown(o)' /\ MastersKnown(o)'
    BY <1>0, <1>1, <2>1 DEF WalkKnown, MastersKnown
  <2>6. EndKnown(o)'
    BY <1>0, <1>1, <1>2, <2>1, <2>4 DEF EndKnown
  <2>. QED BY <2>2, <2>5, <2>6, OwnStepSuffices DEF Step
<1>5. CASE ~ IsEndless(o, to)
  <2>1. /\ UNCHANGED <<pc, outcome>>
        /\ current' = [current EXCEPT ![o] = to]
    BY <1>5 DEF Follow, to
  <2>2. TypeOK'
    BY <1>0, <1>1, <1>3, <2>1
  <2>. DEFINE longer == Append(path, to)
  <2>3. /\ Len(longer) = last + 1 /\ longer[last + 1] = to
        /\ \A n \in 1 .. last : longer[n] = path[n]
    BY <1>3, Appended
  <2>4. \A n \in 1 .. last : path[n] # to
    BY <1>3, <1>5 DEF IsEndless, InSeq, path
  <2>5. walked'[o] = path /\ current'[o] = to /\ asked'[o] = asked[o]
    BY <1>0, <1>1, <2>1
  <2>. HIDE DEF longer
  <2>6. longer[1] = asked'[o][1]
    BY <1>2, <2>3, <2>5
  <2>7. ASSUME NEW n \in 1 .. last PROVE redirect[longer[n]] = longer[n + 1]
    <3>1. CASE n = last
      BY <1>2, <1>3, <2>3, <3>1 DEF to
    <3>2. CASE n # last
      <4>1. n \in 1 .. last - 1 /\ n + 1 \in 1 .. last
        BY <1>2, <3>2
      <4>. QED BY <1>2, <2>3, <4>1
    <3>. QED BY <3>1, <3>2
  <2>8. ASSUME NEW m \in 1 .. last + 1, NEW n \in 1 .. last + 1, longer[m] = longer[n]
        PROVE  m = n
    <3>1. (m \in 1 .. last \/ m = last + 1) /\ (n \in 1 .. last \/ n = last + 1)
      BY <1>2
    <3>. QED BY <1>2, <2>3, <2>4, <2>8, <3>1
  <2>9. WalkKnown(o)'
    BY <1>1, <1>3, <2>3, <2>5, <2>6, <2>7, <2>8 DEF WalkKnown, longer
  <2>10. EndKnown(o)' /\ MastersKnown(o)'
    BY <1>0, <1>1, <1>3, <2>1 DEF EndKnown, MastersKnown
  <2>. QED BY <2>2, <2>9, <2>10, OwnStepSuffices DEF Step
<1>. QED BY <1>4, <1>5 DEF to

\* The masters a merge found, with the one found now, are different.
LEMMA FoundDiffer ==
  ASSUME Inductive, NEW o \in Ops, current[o] \in Incidents
  PROVE  /\ Found(o) \in Seq(Incidents)
         /\ \A m, n \in 1 .. Len(Found(o)) : Found(o)[m] = Found(o)[n] => m = n
<1>1. /\ masters[o] \in Seq(Incidents)
      /\ \A m, n \in 1 .. Len(masters[o]) : masters[o][m] = masters[o][n] => m = n
  BY DEF Inductive, TypeOK, MastersDiffer
<1>2. CASE InSeq(current[o], masters[o])
  BY <1>1, <1>2 DEF Found
<1>3. CASE ~ InSeq(current[o], masters[o])
  <2>. DEFINE more == Append(masters[o], current[o])
              size == Len(masters[o])
  <2>1. /\ more \in Seq(Incidents) /\ size \in Nat /\ Len(more) = size + 1
        /\ \A n \in 1 .. size : more[n] = masters[o][n]
        /\ more[size + 1] = current[o]
    BY <1>1, Appended
  <2>2. \A n \in 1 .. size : masters[o][n] # current[o]
    BY <1>3 DEF InSeq
  <2>3. Found(o) = more
    BY <1>3 DEF Found
  <2>. HIDE DEF more
  <2>4. ASSUME NEW m \in 1 .. size + 1, NEW n \in 1 .. size + 1, more[m] = more[n]
        PROVE  m = n
    <3>1. (m \in 1 .. size \/ m = size + 1) /\ (n \in 1 .. size \/ n = size + 1)
      BY <2>1
    <3>. QED BY <1>1, <2>1, <2>2, <2>4, <3>1
  <2>. QED BY <2>1, <2>3, <2>4
<1>. QED BY <1>2, <1>3

\* _master reads a live incident: the next walk begins, or the write is near.
LEMMA ArriveStep ==
  ASSUME Inductive, NEW o \in Ops, Arrive(o)
  PROVE  Inductive'
<1>. USE DEF TypeOK
<1>0. TypeOK /\ WalkKnown(o) /\ EndKnown(o) /\ MastersKnown(o)
  BY ByOperation
<1>1. /\ pc[o] = "walking" /\ outcome[o] = "none"
      /\ current[o] \in Incidents /\ redirect[current[o]] = Live
      /\ masters' = [masters EXCEPT ![o] = IF o \in Mergers THEN Found(o) ELSE @]
      /\ UNCHANGED <<redirect, raced>>
  BY <1>0 DEF Arrive, EndKnown, IsMaster
<1>2. /\ masters' \in [Ops -> Seq(Incidents)]
      /\ \A m, n \in 1 .. Len(masters'[o]) : masters'[o][m] = masters'[o][n] => m = n
      /\ o \in Mergers => masters'[o] = Found(o)
  BY <1>0, <1>1, FoundDiffer DEF MastersKnown
<1>3. CASE /\ Len(asked[o]) > 1
           /\ NextWalk(o)
           /\ UNCHANGED <<pc, outcome, target>>
  <2>1. /\ asked[o] \in Seq(Incidents) /\ asked[o] # <<>>
        /\ walked[o] \in Seq(Incidents) /\ passed[o] \in Seq(Incidents)
    BY <1>0, <1>1 DEF EndKnown
  <2>2. /\ Tail(asked[o]) \in Seq(Incidents) /\ Len(asked[o]) \in Nat
        /\ Len(Tail(asked[o])) = Len(asked[o]) - 1
        /\ asked[o][2] \in Incidents /\ Tail(asked[o])[1] = asked[o][2]
    <3>1. /\ Tail(asked[o]) \in Seq(Incidents)
          /\ Len(Tail(asked[o])) = Len(asked[o]) - 1 /\ Len(asked[o]) \in Nat
          /\ \A n \in 1 .. Len(Tail(asked[o])) : Tail(asked[o])[n] = asked[o][n + 1]
      BY <2>1, HeadTailProperties, LenProperties
    <3>2. 2 \in 1 .. Len(asked[o]) /\ 1 \in 1 .. Len(Tail(asked[o]))
      BY <1>3, <3>1
    <3>. QED BY <2>1, <3>1, <3>2, ElementOfSeq
  <2>3. Tail(asked[o]) # <<>>
    <3>1. Len(Tail(asked[o])) >= 1
      BY <1>3, <2>2
    <3>. QED BY <2>2, <3>1, NotEmpty
  <2>4. passed[o] \o walked[o] \in Seq(Incidents) /\ <<>> \in Seq(Incidents)
    BY <2>1, ConcatProperties, EmptySeq
  <2>5. /\ current' = [current EXCEPT ![o] = asked[o][2]]
        /\ asked' = [asked EXCEPT ![o] = Tail(asked[o])]
        /\ walked' = [walked EXCEPT ![o] = <<>>]
        /\ passed' = [passed EXCEPT ![o] = passed[o] \o walked[o]]
    BY <1>3 DEF NextWalk
  <2>6. TypeOK'
    BY <1>0, <1>1, <1>2, <1>3, <2>2, <2>4, <2>5
  <2>7. WalkKnown(o)'
    <3>. DEFINE path == Append(walked'[o], current'[o])
    <3>1. walked'[o] = <<>> /\ current'[o] = asked[o][2] /\ asked'[o] = Tail(asked[o])
      BY <1>0, <2>5
    <3>2. Len(path) = 1 /\ path[1] = asked[o][2] /\ Len(walked'[o]) = 0
      BY <2>2, <3>1, Appended, EmptySeq
    <3>. HIDE DEF path
    <3>3. path[1] = asked'[o][1]
      BY <2>2, <3>1, <3>2
    <3>4. /\ \A n \in 1 .. Len(walked'[o]) : redirect'[path[n]] = path[n + 1]
          /\ \A m, n \in 1 .. Len(path) : path[m] = path[n] => m = n
      BY <3>2
    <3>. QED BY <3>3, <3>4 DEF WalkKnown, path
  <2>8. EndKnown(o)'
    BY <1>0, <1>1, <1>3, <2>2, <2>3, <2>5 DEF EndKnown
  <2>9. MastersKnown(o)'
    BY <1>0, <1>1, <1>2, <1>3 DEF MastersKnown
  <2>. QED BY <2>6, <2>7, <2>8, <2>9, OwnStepSuffices DEF Step
<1>4. CASE /\ Len(asked[o]) = 1
           /\ IF o \in Mergers /\ Len(Found(o)) < 2
              THEN End(o, "invalid") /\ UNCHANGED target
              ELSE /\ pc' = [pc EXCEPT ![o] = "writing"]
                   /\ target' = [target EXCEPT ![o] = IF o \in Writers THEN current[o] ELSE Live]
                   /\ UNCHANGED outcome
           /\ UNCHANGED <<current, asked, passed, walked>>
  <2>1. TypeOK'
    BY <1>0, <1>1, <1>2, <1>4, ZenonT(30) DEF End
  <2>2. [Next]_vars
    BY DEF Next, Step
  <2>3. WalkKnown(o)'
    BY <1>1, <1>4, <2>2, WalkStays
  <2>4. EndKnown(o)'
    BY <1>0, <1>1, <1>4 DEF EndKnown, End
  <2>5. MastersKnown(o)'
    <3>1. o \in Mergers /\ pc'[o] = "writing" =>
            \E m, n \in 1 .. Len(masters'[o]) : masters'[o][m] # masters'[o][n]
      <4>. SUFFICES ASSUME o \in Mergers, pc'[o] = "writing"
                    PROVE  \E m, n \in 1 .. Len(masters'[o]) : masters'[o][m] # masters'[o][n]
        OBVIOUS
      <4>1. ~ Len(Found(o)) < 2
        BY <1>0, <1>4 DEF End
      <4>2. masters'[o] = Found(o) /\ Len(masters'[o]) \in Nat
        BY <1>2, LenProperties
      <4>3. 1 \in 1 .. Len(masters'[o]) /\ 2 \in 1 .. Len(masters'[o])
        BY <4>1, <4>2
      <4>. QED BY <1>2, <4>3
    <3>2. outcome'[o] # "ok"
      BY <1>0, <1>1, <1>4 DEF End
    <3>. QED BY <1>2, <3>1, <3>2 DEF MastersKnown
  <2>. QED BY <2>1, <2>3, <2>4, <2>5, OwnStepSuffices DEF Step
<1>. QED BY <1>3, <1>4 DEF Arrive

\* An operation is refused.
LEMMA RefuseStep ==
  ASSUME Inductive, NEW o \in Ops, Refuse(o)
  PROVE  Inductive'
<1>. USE DEF TypeOK
<1>0. TypeOK /\ WalkKnown(o) /\ EndKnown(o) /\ MastersKnown(o)
  BY ByOperation
<1>1. /\ pc[o] = "idle" /\ outcome[o] = "none"
      /\ pc' = [pc EXCEPT ![o] = "done"] /\ outcome' = [outcome EXCEPT ![o] = "refused"]
      /\ UNCHANGED <<redirect, asked, current, walked, masters, passed, target, raced>>
  BY <1>0 DEF Refuse, End, EndKnown
<1>2. TypeOK'
  BY <1>0, <1>1
<1>3. WalkKnown(o)' /\ EndKnown(o)' /\ MastersKnown(o)'
  BY <1>0, <1>1 DEF WalkKnown, EndKnown, MastersKnown
<1>. QED BY <1>2, <1>3, OwnStepSuffices

\* A writer writes, or a request of any operation fails.
LEMMA EndStep ==
  ASSUME Inductive, NEW o \in Ops, Write(o) \/ Fail(o)
  PROVE  Inductive'
<1>. USE DEF TypeOK
<1>0. TypeOK /\ WalkKnown(o) /\ EndKnown(o) /\ MastersKnown(o)
  BY ByOperation
<1>1. CASE Write(o)
  <2>1. /\ pc[o] = "writing" /\ o \in Writers /\ o \notin Mergers /\ outcome[o] = "none"
        /\ pc' = [pc EXCEPT ![o] = "done"] /\ outcome' = [outcome EXCEPT ![o] = "ok"]
        /\ UNCHANGED <<redirect, asked, current, walked, masters, passed, target, raced>>
    BY <1>0, <1>1 DEF Write, End, EndKnown
  <2>2. TypeOK'
    BY <1>0, <2>1
  <2>3. [Next]_vars
    BY <1>1 DEF Next, Step
  <2>4. WalkKnown(o)'
    BY <2>1, <2>3, WalkStays
  <2>5. EndKnown(o)' /\ MastersKnown(o)'
    BY <1>0, <2>1 DEF EndKnown, MastersKnown
  <2>. QED BY <1>1, <2>2, <2>4, <2>5, OwnStepSuffices DEF Step
<1>2. CASE Fail(o)
  <2>1. /\ pc[o] # "idle" /\ outcome[o] = "none"
        /\ pc' = [pc EXCEPT ![o] = "done"] /\ outcome' = [outcome EXCEPT ![o] = "error"]
        /\ current' = [current EXCEPT ![o] = Live]
        /\ walked' = [walked EXCEPT ![o] = <<>>]
        /\ masters' = [masters EXCEPT ![o] = <<>>]
        /\ passed' = [passed EXCEPT ![o] = <<>>]
        /\ target' = [target EXCEPT ![o] = Live]
        /\ raced' = [raced EXCEPT ![o] = FALSE]
        /\ UNCHANGED <<redirect, asked>>
    BY <1>0, <1>2 DEF Fail, End, EndKnown
  <2>2. TypeOK'
    BY <1>0, <2>1, EmptySeq
  <2>3. Len(masters'[o]) = 0
    BY <1>0, <2>1, EmptySeq
  <2>4. WalkKnown(o)' /\ EndKnown(o)' /\ MastersKnown(o)'
    BY <1>0, <2>1, <2>3 DEF WalkKnown, EndKnown, MastersKnown
  <2>. QED BY <1>2, <2>2, <2>4, OwnStepSuffices DEF Step
<1>. QED BY <1>1, <1>2

\* The service merges the masters.
LEMMA MergeStep ==
  ASSUME Inductive, NEW o \in Ops, Merge(o)
  PROVE  Inductive'
<1>. USE DEF TypeOK
<1>0. TypeOK /\ WalkKnown(o) /\ EndKnown(o) /\ MastersKnown(o)
  BY ByOperation
<1>1. PICK n \in 1 .. Len(masters[o]) :
        /\ redirect' = [i \in Incidents |->
                          IF InSeq(i, masters[o]) /\ i # masters[o][n]
                          THEN masters[o][n] ELSE redirect[i]]
        /\ \/ /\ End(o, "ok")
              /\ \E named \in {masters[o][n], Live} : target' = [target EXCEPT ![o] = named]
           \/ End(o, "error") /\ UNCHANGED target
  BY DEF Merge
<1>2. /\ o \in Mergers /\ o \notin Writers /\ pc[o] = "writing" /\ outcome[o] = "none"
      /\ raced' = [d \in Ops |-> raced[d] \/ (d \in Writers /\ pc[d] = "writing")]
      /\ UNCHANGED <<asked, current, walked, masters, passed>>
  BY <1>0 DEF Merge, Race, EndKnown
<1>3. masters[o][n] \in Incidents
  BY <1>0, ElementOfSeq
<1>4. TypeOK'
  <2>1. redirect' \in [Incidents -> Incidents \cup {Live}]
    BY <1>0, <1>1, <1>3
  <2>2. raced' \in [Ops -> BOOLEAN]
    BY <1>0, <1>2
  <2>3. target' \in [Ops -> Incidents \cup {Live}]
    <3>1. CASE UNCHANGED target
      BY <1>0, <3>1
    <3>2. CASE \E named \in {masters[o][n], Live} : target' = [target EXCEPT ![o] = named]
      BY <1>0, <1>3, <3>2
    <3>. QED BY <1>1, <3>1, <3>2
  <2>4. /\ pc' \in [Ops -> {"idle", "walking", "writing", "done"}]
        /\ outcome' \in [Ops -> {"none", "ok", "loop", "invalid", "refused", "error"}]
        /\ pc'[o] = "done" /\ \A d \in Ops : d # o => pc'[d] = pc[d]
    BY <1>0, <1>1, <1>2 DEF End
  <2>. QED BY <1>0, <1>2, <2>1, <2>2, <2>3, <2>4
<1>5. [Next]_vars
  BY DEF Next, Step
<1>6. WalkKnown(o)'
  BY <1>2, <1>5, WalkStays
<1>7. EndKnown(o)'
  BY <1>0, <1>1, <1>2, <1>3 DEF EndKnown, End
<1>8. MastersKnown(o)'
  <2>1. outcome'[o] = "ok" /\ target'[o] # Live => \A m \in Merged(o)' : redirect'[m] = target'[o]
    <3>. SUFFICES ASSUME outcome'[o] = "ok", target'[o] # Live
                  PROVE  \A m \in Merged(o)' : redirect'[m] = target'[o]
      OBVIOUS
    <3>1. target'[o] = masters[o][n]
      BY <1>0, <1>1 DEF End
    <3>2. ASSUME NEW m \in Merged(o)' PROVE redirect'[m] = masters[o][n]
      <4>1. InSeq(m, masters[o]) /\ m # masters[o][n]
        BY <1>2, <3>1 DEF Merged, InSeq
      <4>2. m \in Incidents
        BY <1>0, <4>1, ElementOfSeq DEF InSeq
      <4>. QED BY <1>1, <4>1, <4>2
    <3>. QED BY <3>1, <3>2
  <2>2. pc'[o] = "done"
    BY <1>0, <1>1 DEF End
  <2>. QED BY <1>0, <1>2, <2>1, <2>2 DEF MastersKnown
<1>. QED BY <1>4, <1>6, <1>7, <1>8, OwnStepSuffices DEF Step

\* Defender or an analyst merges two live incidents.
LEMMA CorrelateStep ==
  ASSUME Inductive, NEW i \in Incidents, NEW j \in Incidents, Correlate(i, j)
  PROVE  Inductive'
<1>. USE DEF TypeOK
<1>0. TypeOK
  BY ByOperation
<1>1. /\ redirect' = [redirect EXCEPT ![i] = j]
      /\ raced' = [d \in Ops |-> raced[d] \/ (d \in Writers /\ pc[d] = "writing")]
      /\ UNCHANGED <<pc, asked, current, walked, masters, passed, outcome, target>>
  BY DEF Correlate, Race
<1>2. TypeOK'
  <2>1. redirect' \in [Incidents -> Incidents \cup {Live}] /\ raced' \in [Ops -> BOOLEAN]
    BY <1>0, <1>1
  <2>. QED BY <1>0, <1>1, <2>1
<1>3. [Next]_vars
  BY DEF Next
<1>4. ASSUME NEW d \in Ops PROVE WalkKnown(d)' /\ EndKnown(d)' /\ MastersKnown(d)'
  BY <1>1, <1>3, OthersKeep
<1>. QED BY <1>2, <1>4 DEF Inductive, OutcomesAreLast, MastersDiffer, WalkIsTheHistory,
   NoFalseLoop, AstrayOnlyWhenOvertaken, MergedRedirect, MergeOfSeveral, WalkKnown, EndKnown,
   MastersKnown, Ops

LEMMA StepInductive == Inductive /\ [Next]_vars => Inductive'
<1>. SUFFICES ASSUME Inductive, [Next]_vars PROVE Inductive'
  OBVIOUS
<1>1. CASE UNCHANGED vars
  <2>1. \A d \in Ops : WalkKnown(d)' /\ EndKnown(d)' /\ MastersKnown(d)'
    BY <1>1, OthersKeep DEF vars
  <2>2. TypeOK'
    BY <1>1 DEF vars, Inductive, TypeOK
  <2>. QED BY <2>1, <2>2 DEF Inductive, OutcomesAreLast, MastersDiffer, WalkIsTheHistory,
     NoFalseLoop, AstrayOnlyWhenOvertaken, MergedRedirect, MergeOfSeveral, WalkKnown, EndKnown,
     MastersKnown, Ops
<1>2. ASSUME NEW o \in Ops, Ask(o) \/ Refuse(o) \/ Step(o) PROVE Inductive'
  BY <1>2, AskStep, RefuseStep, FollowStep, ArriveStep, EndStep, MergeStep DEF Step
<1>. QED BY <1>1, <1>2, CorrelateStep DEF Next

-----------------------------------------------------------------------------
(* The theorems.                                                           *)

\* The invariant holds of every behaviour.
THEOREM InductiveHolds == Spec => []Inductive
<1>1. Init => Inductive
  BY InitInductive
<1>2. Inductive /\ [Next]_vars => Inductive'
  BY StepInductive
<1>. QED BY <1>1, <1>2, PTL DEF Spec

\* Every variable keeps its type, and an operation that walks or writes reads
\* an incident (incidents.py's operations).
THEOREM TypeCorrect == Spec => []TypeOK
<1>1. Inductive => TypeOK
  BY DEF Inductive
<1>. QED BY <1>1, InductiveHolds, PTL

\* What _master reports it passed is the merge history, in order and nothing
\* twice, however it grows meanwhile; and it gives up only on a history that
\* goes in circles or is longer than MAX_REDIRECTS.
THEOREM WalksAreHistories == Spec => []WalksAreTrue
<1>1. Inductive => WalksAreTrue
  BY DEF Inductive, WalksAreTrue
<1>. QED BY <1>1, InductiveHolds, PTL

\* A comment or an update that no merge overtook lands on a master
\* (add_incident_comment, update_incident).
THEOREM WritesLandOnMasters == Spec => []AstrayOnlyWhenOvertaken
<1>1. Inductive => AstrayOnlyWhenOvertaken
  BY DEF Inductive
<1>. QED BY <1>1, InductiveHolds, PTL

\* A merge is sent for different incidents, and every incident it reports as
\* merged redirects to the one it reports as kept, from then on
\* (merge_incidents).
THEOREM MergesAreAsReported == Spec => []MergesAreTrue
<1>1. Inductive => MergesAreTrue
  BY DEF Inductive, MergesAreTrue
<1>. QED BY <1>1, InductiveHolds, PTL

=============================================================================
