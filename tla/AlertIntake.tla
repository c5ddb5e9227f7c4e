---------------------------- MODULE AlertIntake ----------------------------
(***************************************************************************)
(* The alert intake over the Microsoft 365 audit log (audit_search.py): a  *)
(* poller runs one search after another over windows that overlap. Each    *)
(* search is created, polled until it has succeeded, read up to a limit    *)
(* and folded into alerts with the activities they matched, while records  *)
(* become searchable late and in any order.                                *)
(*                                                                         *)
(* An alert of an audited activity points to the activity's record. One of *)
(* a user report points to an entry that is no record: its entity names    *)
(* the submission whose record the entry stands for.                       *)
(***************************************************************************)
EXTENDS Naturals, FiniteSets, FiniteSetsExt

CONSTANTS
  Audited,      \* alerts an audited activity raised
  Reports,      \* alerts a user report raised
  Activities,   \* bound: the activities an alert matches, the raising one first
  Ends,         \* bound: the moments a window may end at
  Limit,        \* RECORD_LIMIT
  PollSeconds,  \* POLL_SECONDS
  Timeout,      \* TIMEOUT_SECONDS
  Latency       \* the longest one request of the poll takes, repeats included

ASSUME ConstantsAssumption ==
  /\ Audited \cap Reports = {}
  /\ Activities \in Nat \ {0} /\ Ends \subseteq Nat /\ Limit \in Nat \ {0}
  /\ PollSeconds \in Nat \ {0} /\ Timeout \in Nat /\ Latency \in Nat

Alerts == Audited \cup Reports

\* An audit record of an alert, or the UserSubmission record of a report. That
\* of the n-th "updated" points to the alert's n-th activity.
Record(op, a, n) == [op |-> op, alert |-> a, n |-> n]
Records ==
  {Record("triggered", a, 1) : a \in Alerts}
    \cup {Record("updated", a, n) : a \in Alerts, n \in 2 .. Activities}
    \cup {Record(op, a, 1) : op \in {"submission", "entity", "updated"}, a \in Reports}

\* createdDateTime: a submission, the alert, its entity, then its updates.
Rank == [submission |-> 1, triggered |-> 2, entity |-> 3, updated |-> 4]
Created(r) == 4 * (r.n - 1) + Rank[r.op]

VARIABLES
  searchable,  \* the records the log answers with
  stage,       \* the poller: "idle", "waiting", "asking" or "read"
  low, high,   \* the start and the end of the window searched
  due,         \* alerts whose raising record was searchable when it was asked
  job,         \* the search in the tenant: "none", "running", "succeeded", "failed"
  held,        \* the records the search found
  status,      \* the status last seen
  elapsed,     \* time since the search was asked, the last look included
  outcome,     \* how the last search ended
  answered,    \* the alerts it answered with, and whether it said "truncated"
  told         \* every activity an answer has named so far

search == <<low, high, due, elapsed>>
answers == <<outcome, answered, told>>
vars ==
  <<searchable, stage, low, high, due, job, held, status, elapsed, outcome, answered, told>>

Nothing == [alerts |-> {}, truncated |-> FALSE]

Init ==
  /\ searchable = {}
  /\ stage = "idle"
  /\ low = 1 /\ high = 0 /\ due = {} /\ elapsed = 0
  /\ job = "none" /\ held = {} /\ status = "none"
  /\ outcome = "none" /\ answered = Nothing /\ told = {}

-----------------------------------------------------------------------------
(* fold_alert_records: what a set of records says.                         *)

Raised(S) == {a \in Alerts : Record("triggered", a, 1) \in S}

Entry(a) == <<a, 0>>
Activity(a, n) == <<a, n>>
NoRecord == <<>>

\* The pointer (Data.reid) of an alert record.
Pointer(r) == IF r.op = "triggered" /\ r.alert \in Reports THEN Entry(r.alert)
              ELSE Activity(r.alert, r.n)

\* Mutant: a submission entry is taken for an activity record.
NamesRaw(S, r) == Pointer(r)

\* The activity record r names: an entry the entities know stands for the
\* submission's record, when the search returned that.
Names(S, r) ==
  IF Pointer(r) = Entry(r.alert) /\ Record("entity", r.alert, 1) \in S
  THEN IF Record("submission", r.alert, 1) \in S THEN Activity(r.alert, 1) ELSE NoRecord
  ELSE Pointer(r)

\* The records of alert a in S that name the activity p.
Naming(S, a, p) ==
  {r \in S : r.alert = a /\ r.op \in {"triggered", "updated"} /\ Names(S, r) = p}

First(R) == Min({Created(r) : r \in R})

Found(S, a) == {Names(S, r) : r \in {q \in S : q.alert = a /\ q.op \in {"triggered", "updated"}}}
                 \ {NoRecord}

\* The activity found first is the one that raised the alert, unless the alert
\* was raised after it; what is found later is a repeat.
IsRepeat(S, a, p) ==
  \/ \E q \in Found(S, a) : First(Naming(S, a, q)) < First(Naming(S, a, p))
  \/ First(Naming(S, a, p)) < Created(Record("triggered", a, 1))

\* The search returned what says which submission the report is.
Named(S, a) ==
  \/ a \in Audited
  \/ /\ Record("entity", a, 1) \in S
     /\ Record("submission", a, 1) \in S \/ Record("updated", a, 1) \in S

\* The activities of the alerts raised in S; an alert not raised in S is left
\* to a later search.
Fold(S) ==
  UNION {{[alert |-> a, id |-> p, repeat |-> IsRepeat(S, a, p), named |-> Named(S, a)] :
            p \in Found(S, a)} : a \in Raised(S)}

-----------------------------------------------------------------------------
(* _searched: one search.                                                  *)

InWindow(S, from, to) == {r \in S : Created(r) \in from .. to}

\* The job's new status; one that has succeeded holds what is searchable now.
Become(how, from, to) ==
  /\ job' = how
  /\ held' = IF how = "succeeded" THEN InWindow(searchable, from, to) ELSE {}

\* POST, over a window of `from` to `to`. The answer says how the search stands,
\* which may already be over.
Create(from, to) ==
  /\ stage = "idle"
  /\ stage' = "waiting"
  /\ low' = from /\ high' = to
  /\ due' = Raised(InWindow(searchable, from, to))
  /\ \E how \in {"running", "succeeded", "failed"} : Become(how, from, to) /\ status' = how
  /\ \E n \in 0 .. Latency : elapsed' = n
  /\ outcome' = "none" /\ answered' = Nothing
  /\ UNCHANGED <<searchable, told>>

\* The search ends with an error, and stays in the tenant's list.
Raise(how) ==
  /\ stage' = "idle"
  /\ outcome' = how
  /\ answered' = Nothing
  /\ job' = "none" /\ held' = {} /\ status' = "none" /\ elapsed' = 0
  /\ low' = 1 /\ high' = 0 /\ due' = {}
  /\ UNCHANGED <<searchable, told>>

\* Mutant: the time is looked at only once it is up twice over.
TimeIsUpLate == elapsed > 2 * Timeout + PollSeconds

TimeIsUp == elapsed > Timeout

GiveUp ==
  /\ stage = "waiting" /\ status = "running"
  /\ TimeIsUp
  /\ Raise("timeout")

\* Mutant: the time is counted anew at every pause.
PauseAnew ==
  /\ stage = "waiting" /\ status = "running"
  /\ ~ TimeIsUp
  /\ stage' = "asking"
  /\ elapsed' = 0
  /\ UNCHANGED <<searchable, low, high, due, job, held, status, answers>>

\* The pause between two looks.
Pause ==
  /\ stage = "waiting" /\ status = "running"
  /\ ~ TimeIsUp
  /\ stage' = "asking"
  /\ elapsed' = elapsed + PollSeconds
  /\ UNCHANGED <<searchable, low, high, due, job, held, status, answers>>

\* GET: the status the search has now.
Look ==
  /\ stage = "asking"
  /\ stage' = "waiting"
  /\ status' = job
  /\ \E n \in 0 .. Latency : elapsed' = elapsed + n
  /\ UNCHANGED <<searchable, low, high, due, job, held, answers>>

\* A request fails, auditing is off, or the search ended another way.
Refuse ==
  /\ stage \in {"idle", "waiting", "asking"}
  /\ stage = "waiting" => status \in {"failed", "succeeded"}
  /\ Raise("refused")

\* Mutant: records are read whatever the status.
IsOverAnyway == status # "failed"

IsOver == status = "succeeded"

\* Every page of the records, up to the limit and one more.
Read ==
  /\ stage = "waiting"
  /\ IsOver
  /\ stage' = "read"
  /\ \E S \in kSubset(IF Cardinality(held) > Limit THEN Limit ELSE Cardinality(held), held) :
       /\ answered' = [alerts |-> Raised(S), truncated |-> Cardinality(held) > Limit]
       /\ told' = told \cup Fold(S)
  /\ outcome' = "answered"
  /\ job' = "none" /\ held' = {} /\ status' = "none" /\ elapsed' = 0
  /\ UNCHANGED <<searchable, low, high, due>>

\* The poller has the answer, and will ask again.
Take ==
  /\ stage = "read"
  /\ stage' = "idle"
  /\ low' = 1 /\ high' = 0 /\ due' = {}
  /\ UNCHANGED <<searchable, job, held, status, elapsed, outcome, answered, told>>

-----------------------------------------------------------------------------
(* The service.                                                            *)

\* A record becomes searchable, minutes after it was written.
Index(r) ==
  /\ r \in Records \ searchable
  /\ searchable' = searchable \cup {r}
  /\ UNCHANGED <<stage, search, job, held, status, answers>>

Complete ==
  /\ job = "running"
  /\ \E how \in {"succeeded", "failed"} : Become(how, low, high)
  /\ UNCHANGED <<searchable, stage, search, status, answers>>

-----------------------------------------------------------------------------
Step == GiveUp \/ Pause \/ Look \/ Refuse \/ Read \/ Take

Next ==
  \/ \E from \in 1 .. 4, to \in Ends : Create(from, to)
  \/ Step \/ Complete
  \/ \E r \in Records : Index(r)

Spec == Init /\ [][Next]_vars

\* The event loop runs the poller; the search itself may never be over.
FairSpec == Spec /\ WF_vars(Step)

-----------------------------------------------------------------------------
(* What the intake guarantees.                                             *)

Told == [alert : Alerts, id : Alerts \X (0 .. Activities), repeat : BOOLEAN, named : BOOLEAN]

TypeOK ==
  /\ searchable \subseteq Records
  /\ stage \in {"idle", "waiting", "asking", "read"}
  /\ low \in 1 .. 4 /\ high \in Ends \cup {0} /\ due \subseteq Alerts
  /\ job \in {"none", "running", "succeeded", "failed"}
  /\ held \subseteq Records
  /\ status \in {"none", "running", "succeeded", "failed"}
  /\ elapsed \in 0 .. Timeout + PollSeconds + Latency
  /\ outcome \in {"none", "answered", "timeout", "refused"}
  /\ answered \in [alerts : SUBSET Alerts, truncated : BOOLEAN]
  /\ told \subseteq Told

\* Whatever was searchable, cut by the window or over the limit, an activity is
\* called a repeat exactly when it did not raise its alert, in every answer
\* that says which submission a report is.
RepeatsAreRepeats == \A t \in told : t.named => (t.repeat <=> t.id # Activity(t.alert, 1))

\* An answer that does not say "truncated" has every alert whose raising record
\* was searchable in its window when the search was asked for.
AnswerIsWhole == outcome = "answered" /\ stage = "read" =>
  answered.truncated \/ due \subseteq answered.alerts

\* A search comes to an end though the service never finishes it.
EverySearchEnds == stage = "waiting" ~> stage = "idle"

\* "Stable from one search to the next, so a consumer acts on a repeat it has
\* not seen" (audit_search.py:111): no two answers differ on whether an
\* activity is a repeat.
RepeatIsStable == \A t, u \in told : t.id = u.id => t.repeat = u.repeat

-----------------------------------------------------------------------------
(* What every step keeps, for the proofs: the log is append only, so what  *)
(* was due when the search was asked for is still there when it is read.   *)

InSearch == stage \in {"waiting", "asking"}

\* A pause begins only while the time is not up.
TimeIsKept == stage = "asking" => elapsed <= Timeout + PollSeconds

LogIsFinite == IsFiniteSet(searchable) /\ IsFiniteSet(held)

\* What was due is in the window, and among the records a finished search holds.
DueIsHeld ==
  InSearch => /\ due \subseteq Raised(InWindow(searchable, low, high))
              /\ job = "succeeded" => due \subseteq Raised(held)

\* A search that has succeeded stays so.
StatusIsTrue == status = "succeeded" => job = "succeeded"

Inductive ==
  /\ TypeOK /\ TimeIsKept /\ LogIsFinite /\ DueIsHeld /\ StatusIsTrue
  /\ RepeatsAreRepeats /\ AnswerIsWhole

=============================================================================
