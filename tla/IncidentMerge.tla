--------------------------- MODULE IncidentMerge ---------------------------
(***************************************************************************)
(* Incidents that are merged into one another, and the operations that     *)
(* follow the merges before they write (incidents.py): a comment or an     *)
(* update goes to the master of the incident it was asked for, a merge is  *)
(* made of masters. Every GET and every write is a step of its own, and    *)
(* Defender and other operations merge incidents between any two of them.  *)
(***************************************************************************)
EXTENDS Naturals, Sequences

CONSTANTS
  Incidents,
  Live,          \* no redirect: the incident is a master
  Writers,       \* calls of add_incident_comment and update_incident
  Updates,       \* those of update_incident among them
  Mergers,       \* calls of merge_incidents
  MaxRedirects,  \* MAX_REDIRECTS
  MaxArguments   \* bound: how many incidents a merge is asked for

ASSUME ConstantsAssumption ==
  /\ Live \notin Incidents
  /\ Updates \subseteq Writers
  /\ Writers \cap Mergers = {}
  /\ MaxRedirects \in Nat /\ MaxArguments \in Nat

Ops == Writers \cup Mergers

VARIABLES
  redirect,   \* redirect[i]: where _master goes on to from i, or Live when it
              \* stays: i's status is not "redirected", or i names no incident
  pc,         \* where each operation is: "idle", "walking", "writing", "done"
  asked,      \* asked[o]: the incidents it was called with
  current,    \* current[o]: the incident _master reads next
  walked,     \* walked[o]: the merged incidents _master passed
  masters,    \* masters[o]: the masters found
  passed,     \* passed[o]: the merged incidents of all its walks so far
  outcome,    \* outcome[o]: "none", "ok", "loop", "invalid", "refused" or "error"
  target,     \* target[o]: the incident written on, or kept by the merge
  raced       \* raced[o]: incidents were merged while o was about to write

vars == <<redirect, pc, asked, current, walked, masters, passed, outcome, target, raced>>

Init ==
  \* The service may hold any history, one that points in circles included.
  /\ redirect \in [Incidents -> Incidents \cup {Live}]
  /\ pc = [o \in Ops |-> "idle"]
  /\ asked = [o \in Ops |-> <<>>]
  /\ current = [o \in Ops |-> Live]
  /\ walked = [o \in Ops |-> <<>>]
  /\ masters = [o \in Ops |-> <<>>]
  /\ passed = [o \in Ops |-> <<>>]
  /\ outcome = [o \in Ops |-> "none"]
  /\ target = [o \in Ops |-> Live]
  /\ raced = [o \in Ops |-> FALSE]

InSeq(x, s) == \E n \in 1 .. Len(s) : s[n] = x

-----------------------------------------------------------------------------
(* The operations.                                                         *)

Arguments(o) ==
  UNION {[1 .. n -> Incidents] : n \in IF o \in Writers THEN {1} ELSE 1 .. MaxArguments}

\* The call: the first incident is read first.
Ask(o) ==
  /\ pc[o] = "idle"
  /\ pc' = [pc EXCEPT ![o] = "walking"]
  /\ \E list \in Arguments(o) :
       /\ asked' = [asked EXCEPT ![o] = list]
       /\ current' = [current EXCEPT ![o] = list[1]]
  /\ UNCHANGED <<redirect, walked, masters, passed, outcome, target, raced>>

End(o, how) ==
  /\ pc' = [pc EXCEPT ![o] = "done"]
  /\ outcome' = [outcome EXCEPT ![o] = how]

\* Refused before anything is read: an update with nothing to set or with a
\* resolving comment past the limit, and a merge of no incident.
Refuse(o) ==
  /\ o \in Updates \cup Mergers
  /\ pc[o] = "idle"
  /\ End(o, "refused")
  /\ UNCHANGED <<redirect, asked, current, walked, masters, passed, target, raced>>

\* The walk goes nowhere new, or on past any real history.
IsEndless(o, to) ==
  LET so_far == Append(walked[o], current[o])
  IN  InSeq(to, so_far) \/ Len(so_far) > MaxRedirects

\* Mutant: a walk that stops after one hop.
IsMasterAfterOneHop(o) == walked[o] # <<>> \/ redirect[current[o]] = Live

\* Mutant: an incident with no redirect is followed nowhere.
IsMasterOnceMoved(o) == walked[o] # <<>> /\ redirect[current[o]] = Live

\* What _master read is not redirected: its one test is of the status and of the
\* incident it names together, and neither is read anywhere else.
IsMaster(o) == redirect[current[o]] = Live

\* Mutant: the merged incidents passed are not remembered.
FollowForgetting(o) ==
  /\ pc[o] = "walking"
  /\ ~ IsMaster(o)
  /\ IF IsEndless(o, redirect[current[o]])
     THEN End(o, "loop") /\ UNCHANGED current
     ELSE current' = [current EXCEPT ![o] = redirect[@]] /\ UNCHANGED <<pc, outcome>>
  /\ UNCHANGED <<redirect, asked, walked, masters, passed, target, raced>>

\* _master reads a merged incident: on to where it went, or RedirectLoopError.
Follow(o) ==
  /\ pc[o] = "walking"
  /\ ~ IsMaster(o)
  /\ walked' = [walked EXCEPT ![o] = Append(@, current[o])]
  /\ IF IsEndless(o, redirect[current[o]])
     THEN End(o, "loop") /\ UNCHANGED current
     ELSE current' = [current EXCEPT ![o] = redirect[@]] /\ UNCHANGED <<pc, outcome>>
  /\ UNCHANGED <<redirect, asked, masters, passed, target, raced>>

\* Mutant: a master reached from two incidents is listed twice.
FoundAgain(o) == Append(masters[o], current[o])

\* The masters found so far, each listed once.
Found(o) == IF InSeq(current[o], masters[o]) THEN masters[o]
            ELSE Append(masters[o], current[o])

\* Mutant: the walks of one merge share their list of merged incidents.
NextWalkGoesOn(o) ==
  /\ current' = [current EXCEPT ![o] = asked[o][2]]
  /\ asked' = [asked EXCEPT ![o] = Tail(@)]
  /\ passed' = [passed EXCEPT ![o] = @ \o walked[o]]
  /\ UNCHANGED walked

\* The next incident of a merge is walked from the start.
NextWalk(o) ==
  /\ current' = [current EXCEPT ![o] = asked[o][2]]
  /\ asked' = [asked EXCEPT ![o] = Tail(@)]
  /\ passed' = [passed EXCEPT ![o] = @ \o walked[o]]
  /\ walked' = [walked EXCEPT ![o] = <<>>]

\* _master reads a live incident and returns it. A writer writes there; a
\* merge goes on to its next incident, and in the end needs two masters.
Arrive(o) ==
  /\ pc[o] = "walking"
  /\ IsMaster(o)
  /\ masters' = [masters EXCEPT ![o] = IF o \in Mergers THEN Found(o) ELSE @]
  /\ \/ /\ Len(asked[o]) > 1
        /\ NextWalk(o)
        /\ UNCHANGED <<pc, outcome, target>>
     \/ /\ Len(asked[o]) = 1
        /\ IF o \in Mergers /\ Len(Found(o)) < 2
           THEN End(o, "invalid") /\ UNCHANGED target
           ELSE /\ pc' = [pc EXCEPT ![o] = "writing"]
                /\ target' = [target EXCEPT ![o] = IF o \in Writers THEN current[o] ELSE Live]
                /\ UNCHANGED outcome
        /\ UNCHANGED <<current, asked, passed, walked>>
  /\ UNCHANGED <<redirect, raced>>

\* The PATCH or the POST is made on the incident that was read as a master.
Write(o) ==
  /\ o \in Writers
  /\ pc[o] = "writing"
  /\ End(o, "ok")
  /\ UNCHANGED <<redirect, asked, current, walked, masters, passed, target, raced>>

\* Every writer about to write has now read too early.
Race == raced' = [o \in Ops |-> raced[o] \/ (o \in Writers /\ pc[o] = "writing")]

\* The service merges the masters into one it chooses, unless one of them was
\* merged meanwhile; its answer names that one or none, or is lost.
Merge(o) ==
  /\ o \in Mergers
  /\ pc[o] = "writing"
  /\ \A n \in 1 .. Len(masters[o]) : redirect[masters[o][n]] = Live
  /\ \E n \in 1 .. Len(masters[o]) :
       LET keep == masters[o][n] IN
       /\ redirect' = [i \in Incidents |->
                          IF InSeq(i, masters[o]) /\ i # keep THEN keep ELSE redirect[i]]
       /\ \/ /\ End(o, "ok")
             /\ \E named \in {keep, Live} : target' = [target EXCEPT ![o] = named]
          \/ End(o, "error") /\ UNCHANGED target
  /\ Race
  /\ UNCHANGED <<asked, current, walked, masters, passed>>

\* The incidents merge_incidents reports as merged.
Merged(o) == {masters[o][n] : n \in 1 .. Len(masters[o])} \ {target[o]}

\* A request fails or is refused: the error is raised, and with it goes what
\* the operation had gathered.
Fail(o) ==
  /\ pc[o] \in {"walking", "writing"}
  /\ End(o, "error")
  /\ current' = [current EXCEPT ![o] = Live]
  /\ walked' = [walked EXCEPT ![o] = <<>>]
  /\ masters' = [masters EXCEPT ![o] = <<>>]
  /\ passed' = [passed EXCEPT ![o] = <<>>]
  /\ target' = [target EXCEPT ![o] = Live]
  /\ raced' = [raced EXCEPT ![o] = FALSE]
  /\ UNCHANGED <<redirect, asked>>

\* Defender correlates two live incidents, or an analyst merges them.
Correlate(i, j) ==
  /\ i # j
  /\ redirect[i] = Live /\ redirect[j] = Live
  /\ redirect' = [redirect EXCEPT ![i] = j]
  /\ Race
  /\ UNCHANGED <<pc, asked, current, walked, masters, passed, outcome, target>>

Step(o) == Follow(o) \/ Arrive(o) \/ Write(o) \/ Merge(o) \/ Fail(o)

Next ==
  \/ \E o \in Ops : Ask(o) \/ Refuse(o) \/ Step(o)
  \/ \E i, j \in Incidents : Correlate(i, j)

Spec == Init /\ [][Next]_vars

\* Every request an operation makes is answered, or times out.
FairSpec == Spec /\ \A o \in Ops : WF_vars(Step(o))

-----------------------------------------------------------------------------
(* What the operations guarantee.                                          *)

TypeOK ==
  /\ redirect \in [Incidents -> Incidents \cup {Live}]
  /\ pc \in [Ops -> {"idle", "walking", "writing", "done"}]
  /\ asked \in [Ops -> Seq(Incidents)]
  /\ current \in [Ops -> Incidents \cup {Live}]
  /\ \A o \in Ops : pc[o] \in {"walking", "writing"} => current[o] \in Incidents
  /\ walked \in [Ops -> Seq(Incidents)]
  /\ masters \in [Ops -> Seq(Incidents)]
  /\ passed \in [Ops -> Seq(Incidents)]
  /\ outcome \in [Ops -> {"none", "ok", "loop", "invalid", "refused", "error"}]
  /\ target \in [Ops -> Incidents \cup {Live}]
  /\ raced \in [Ops -> BOOLEAN]

\* What an operation reports as redirectedFrom is the merge history between
\* the incident asked for and the one it reached, in order and nothing twice,
\* while other merges lengthen that history (incidents.py:187-190).
WalkIsTheHistory ==
  \A o \in Ops : pc[o] # "idle" /\ outcome[o] \notin {"loop", "refused", "error"} =>
    LET path == Append(walked[o], current[o])
    IN  /\ path[1] = asked[o][1]
        /\ \A n \in 1 .. Len(walked[o]) : redirect[path[n]] = path[n + 1]
        /\ \A m, n \in 1 .. Len(path) : path[m] = path[n] => m = n

\* The history of i has no end: it stays among incidents that are all merged.
GoesInCircles(i) ==
  \E S \in SUBSET Incidents : i \in S /\ \A j \in S : redirect[j] \in S

\* More than MAX_REDIRECTS redirects lead on from i.
IsTooLong(i) ==
  \E path \in [0 .. MaxRedirects + 1 -> Incidents] :
    path[0] = i /\ \A n \in 0 .. MaxRedirects : redirect[path[n]] = path[n + 1]

\* RedirectLoopError is raised only of a history that goes in circles or is
\* longer than MAX_REDIRECTS, never because a merge met one incident in two
\* of its walks.
NoFalseLoop ==
  \A o \in Ops : outcome[o] = "loop" => GoesInCircles(asked[o][1]) \/ IsTooLong(asked[o][1])

\* Walks of the merge history are true: in what they report and in what they
\* call a loop (_master).
WalksAreTrue == WalkIsTheHistory /\ NoFalseLoop

\* A write that lands on a merged incident was overtaken by a merge: without
\* one between the read and the write, it lands on the master.
AstrayOnlyWhenOvertaken ==
  \A o \in Writers : pc[o] = "writing" /\ redirect[target[o]] # Live => raced[o]

\* Of every incident a merge reports as merged it is true that it "now
\* redirects to" the incident reported as kept, when one is (incidents.py:395-396).
MergedRedirect ==
  \A o \in Mergers : outcome[o] = "ok" /\ target[o] # Live =>
    \A m \in Merged(o) : redirect[m] = target[o]

\* A merge is sent for two different incidents or more (incidents.py:411-416).
MergeOfSeveral ==
  \A o \in Mergers : pc[o] = "writing" =>
    \E m, n \in 1 .. Len(masters[o]) : masters[o][m] # masters[o][n]

\* What merge_incidents sends and what it reports of it.
MergesAreTrue == MergedRedirect /\ MergeOfSeveral

\* Every operation comes to an end, on a history that goes in circles too.
EveryOperationEnds == \A o \in Ops : pc[o] = "walking" ~> pc[o] = "done"

-----------------------------------------------------------------------------
(* The inductive invariant the guarantees rest on.                         *)

\* An operation has an outcome exactly when it is over, and walks from something
\* once it was called and not refused.
OutcomesAreLast ==
  \A o \in Ops :
    /\ pc[o] = "done" <=> outcome[o] # "none"
    /\ pc[o] = "idle" => walked[o] = <<>>
    /\ pc[o] # "idle" /\ outcome[o] # "refused" =>
         asked[o] # <<>> /\ (outcome[o] # "error" => current[o] \in Incidents)

\* The masters a merge found are different.
MastersDiffer ==
  \A o \in Ops : \A m, n \in 1 .. Len(masters[o]) : masters[o][m] = masters[o][n] => m = n

Inductive ==
  /\ TypeOK
  /\ OutcomesAreLast
  /\ MastersDiffer
  /\ WalkIsTheHistory
  /\ NoFalseLoop
  /\ AstrayOnlyWhenOvertaken
  /\ MergedRedirect
  /\ MergeOfSeveral

=============================================================================
