-------------------------- MODULE CapabilityProbe --------------------------
(***************************************************************************)
(* The capability probe as an operation (capability_probe.py, probe.py):   *)
(* concurrent callers of get_capabilities, the asyncio.Lock that lets one  *)
(* of them probe, the checks a probe runs under a semaphore and gathers,   *)
(* and the binding kept for later callers when no check met an outage.     *)
(***************************************************************************)
EXTENDS Naturals, Sequences, FiniteSets, SequencesExt

CONSTANTS
  Callers,      \* calls of get_capabilities
  Checks,       \* how many checks a probe has: API_CHECKS and HUNTING_TABLES
  Concurrency,  \* CONCURRENCY
  Nobody,       \* no caller
  MaxOutages    \* bound: how often the tenant becomes unreachable

ASSUME ConstantsAssumption ==
  /\ Checks \in Nat \ {0} /\ Concurrency \in Nat \ {0}
  /\ MaxOutages \in Nat
  /\ Nobody \notin Callers

VARIABLES
  stage,     \* where each caller is
  refresh,   \* refresh[c]: c asked for a new probe
  met,       \* met[c]: whose probe was under way when c arrived, or Nobody
  queue,     \* callers waiting for the lock, in the order they came
  holder,    \* the caller that holds the lock _probing, or Nobody
  waiting,   \* waiting[c]: checks of c's probe that wait for its semaphore
  running,   \* running[c]: those that hold it, a request of theirs open
  failed,    \* failed[c]: one of them was over with the status "error"
  kept,      \* _binding: the caller whose probe it was built from, or Nobody
  given,     \* given[c]: whose probe the answer of c was built from
  up,        \* the tenant's services answer
  outages    \* how often they stopped doing so

callers == <<refresh, met>>
lock == <<queue, holder>>
checks == <<waiting, running, failed>>
tenant == <<up, outages>>
vars == <<stage, refresh, met, queue, holder, waiting, running, failed, kept, given,
          up, outages>>

Stages == {"idle", "queued", "probing", "claims", "answered", "raised", "cancelled"}
Ended == {"answered", "raised", "cancelled"}
\* The callers that hold the lock: one runs its probe.
Probing == {"probing", "claims"}

Init ==
  /\ stage = [c \in Callers |-> "idle"]
  /\ refresh = [c \in Callers |-> FALSE]
  /\ met = [c \in Callers |-> Nobody]
  /\ queue = <<>>
  /\ holder = Nobody
  /\ waiting = [c \in Callers |-> 0]
  /\ running = [c \in Callers |-> 0]
  /\ failed = [c \in Callers |-> FALSE]
  /\ kept = Nobody
  /\ given = [c \in Callers |-> Nobody]
  /\ up = TRUE
  /\ outages = 0

-----------------------------------------------------------------------------
(* The callers and the lock.                                               *)

Call(c) ==
  /\ stage[c] = "idle"
  /\ stage' = [stage EXCEPT ![c] = "queued"]
  /\ \E r \in BOOLEAN : refresh' = [refresh EXCEPT ![c] = r]
  /\ met' = [met EXCEPT ![c] = holder]
  /\ queue' = Append(queue, c)
  /\ UNCHANGED <<holder, checks, kept, given, tenant>>

\* c is the next to hold the lock.
MayEnter(c) == queue # <<>> /\ Head(queue) = c /\ holder = Nobody

\* Mutant: what was kept when the caller arrived decides, not what is kept now.
MustProbeOnArrival(c) == refresh[c] \/ met[c] # Nobody \/ kept = Nobody

\* Nothing kept, or a new probe asked for.
MustProbe(c) == kept = Nobody \/ refresh[c]

\* The binding kept is the answer; the lock is passed on in the same step.
Share(c) ==
  /\ MayEnter(c)
  /\ ~ MustProbe(c)
  /\ queue' = Tail(queue)
  /\ stage' = [stage EXCEPT ![c] = "answered"]
  /\ given' = [given EXCEPT ![c] = kept]
  /\ UNCHANGED <<callers, holder, checks, kept, tenant>>

\* run_probe: every check becomes a task of its own.
Probe(c) ==
  /\ MayEnter(c)
  /\ MustProbe(c)
  /\ queue' = Tail(queue)
  /\ holder' = c
  /\ stage' = [stage EXCEPT ![c] = "probing"]
  /\ waiting' = [waiting EXCEPT ![c] = Checks]
  /\ UNCHANGED <<callers, running, failed, kept, given, tenant>>

\* Mutant: the lock is left held.
LeaveHolding(c, end) ==
  /\ stage' = [stage EXCEPT ![c] = end]
  /\ UNCHANGED holder

\* The `async with` is left, by a return or by an exception.
Leave(c, end) ==
  /\ stage' = [stage EXCEPT ![c] = end]
  /\ holder' = Nobody

-----------------------------------------------------------------------------
(* The checks of a probe.                                                  *)

\* The semaphore of the probe of c lets one more check run.
HasRoom(c) == running[c] < Concurrency

\* Mutant: a check started whether or not one is left.
StartCheckUncounted(c) ==
  /\ stage[c] = "probing"
  /\ HasRoom(c)
  /\ waiting' = [waiting EXCEPT ![c] = @ - 1]
  /\ running' = [running EXCEPT ![c] = @ + 1]
  /\ UNCHANGED <<stage, callers, lock, failed, kept, given, tenant>>

StartCheck(c) ==
  /\ waiting[c] > 0
  /\ HasRoom(c)
  /\ waiting' = [waiting EXCEPT ![c] = @ - 1]
  /\ running' = [running EXCEPT ![c] = @ + 1]
  /\ UNCHANGED <<stage, callers, lock, failed, kept, given, tenant>>

\* A check is over: with a status that tells of the tenant (available, empty,
\* forbidden, unlicensed, not exposed), or with "error" when the outage reaches
\* its service; the DefenderApiError is caught.
EndCheck(c) ==
  /\ running[c] > 0
  /\ running' = [running EXCEPT ![c] = @ - 1]
  /\ \E error \in IF up THEN {FALSE} ELSE BOOLEAN :
       failed' = [failed EXCEPT ![c] = @ \/ error]
  /\ UNCHANGED <<stage, callers, lock, waiting, kept, given, tenant>>

\* A timeout or a network error is not caught: gather raises it to the caller
\* at once and leaves the other checks to run, with nobody to gather them.
RaiseCheck(c) ==
  /\ ~ up
  /\ running[c] > 0
  /\ running' = [running EXCEPT ![c] = @ - 1]
  /\ IF stage[c] = "probing" THEN Leave(c, "raised") ELSE UNCHANGED <<stage, holder>>
  /\ UNCHANGED <<callers, queue, waiting, failed, kept, given, tenant>>

\* Every check is over; the token's claims are read next.
Gathered(c) ==
  /\ stage[c] = "probing"
  /\ waiting[c] = 0 /\ running[c] = 0
  /\ stage' = [stage EXCEPT ![c] = "claims"]
  /\ UNCHANGED <<callers, lock, checks, kept, given, tenant>>

\* Mutant: an outage is no reason not to keep the result.
CompleteAlways(c) == TRUE

\* ProbeResult.complete: no check failed for a reason of the moment.
Complete(c) == ~ failed[c]

\* The claims are read and the binding is built: kept when complete, else
\* answered and what was kept is dropped.
Bind(c) ==
  /\ stage[c] = "claims"
  /\ kept' = IF Complete(c) THEN c ELSE Nobody
  /\ given' = [given EXCEPT ![c] = c]
  /\ Leave(c, "answered")
  /\ UNCHANGED <<callers, queue, checks, tenant>>

\* Reading the claims needs a token, and no handler catches a refused one.
RaiseClaims(c) ==
  /\ ~ up
  /\ stage[c] = "claims"
  /\ Leave(c, "raised")
  /\ UNCHANGED <<callers, queue, checks, kept, given, tenant>>

\* The call is cancelled: out of the queue, or out of a probe whose checks are
\* then cancelled with it.
Cancel(c) ==
  \/ /\ stage[c] = "queued"
     /\ \E n \in DOMAIN queue : queue[n] = c /\ queue' = RemoveAt(queue, n)
     /\ stage' = [stage EXCEPT ![c] = "cancelled"]
     /\ UNCHANGED <<callers, holder, checks, kept, given, tenant>>
  \/ /\ stage[c] \in Probing
     /\ Leave(c, "cancelled")
     /\ waiting' = [waiting EXCEPT ![c] = 0]
     /\ running' = [running EXCEPT ![c] = 0]
     /\ UNCHANGED <<callers, queue, failed, kept, given, tenant>>

-----------------------------------------------------------------------------
Outage ==
  /\ up
  /\ outages < MaxOutages
  /\ up' = FALSE
  /\ outages' = outages + 1
  /\ UNCHANGED <<stage, callers, lock, checks, kept, given>>

Recover ==
  /\ ~ up
  /\ up' = TRUE
  /\ UNCHANGED <<stage, callers, lock, checks, kept, given, outages>>

\* What the event loop and the network carry on with by themselves.
Progress(c) ==
  \/ Share(c) \/ Probe(c) \/ Gathered(c) \/ Bind(c) \/ RaiseClaims(c)
CheckProgress(c) == StartCheck(c) \/ EndCheck(c) \/ RaiseCheck(c)

Next ==
  \/ \E c \in Callers : Call(c) \/ Cancel(c) \/ Progress(c) \/ CheckProgress(c)
  \/ Outage \/ Recover

Spec == Init /\ [][Next]_vars

\* The event loop runs what is ready; every request is answered or times out.
Fairness ==
  \A c \in Callers : WF_vars(Progress(c)) /\ WF_vars(CheckProgress(c))

FairSpec == Spec /\ Fairness

-----------------------------------------------------------------------------
(* What the operation guarantees.                                          *)

TypeOK ==
  /\ stage \in [Callers -> Stages]
  /\ refresh \in [Callers -> BOOLEAN]
  /\ met \in [Callers -> Callers \cup {Nobody}]
  /\ queue \in Seq(Callers)
  /\ holder \in Callers \cup {Nobody}
  /\ waiting \in [Callers -> 0 .. Checks]
  /\ running \in [Callers -> 0 .. Checks]
  /\ failed \in [Callers -> BOOLEAN]
  /\ kept \in Callers \cup {Nobody}
  /\ given \in [Callers -> Callers \cup {Nobody}]
  /\ up \in BOOLEAN
  /\ outages \in 0 .. MaxOutages

\* What is kept, and what a caller is given of another's probe, describes the
\* tenant and not an outage: "answer with it, do not keep it"
\* (capability_probe.py:55).
OutagesAreNotKept ==
  /\ kept # Nobody => ~ failed[kept]
  /\ \A c \in Callers : given[c] \notin {c, Nobody} => ~ failed[given[c]]

\* At no time do two callers probe, nor does a probe have more than CONCURRENCY
\* requests open, though probes end by exceptions and leave checks behind.
OneProbeAtATime ==
  /\ \A c, d \in Callers :
       stage[c] \in Probing /\ stage[d] \in Probing => c = d
  /\ \A c \in Callers : running[c] <= Concurrency

\* While the tenant answers, callers that ask for no refresh and are not
\* cancelled are all served by one probe, whenever they arrive.
OneProbeServesAll ==
  outages = 0 /\ (\A c \in Callers : ~ refresh[c] /\ stage[c] # "cancelled")
    => Cardinality({c \in Callers : stage[c] \in Probing \/ given[c] = c}) <= 1

\* A refresh answers with a probe begun after it was asked for, never with what
\* was kept or with a probe that was already under way.
RefreshIsNew ==
  \A c \in Callers : refresh[c] /\ stage[c] = "answered" => given[c] = c

\* Every caller comes out of the queue and of its probe, whatever is raised or
\* cancelled before it.
EveryCallerLeaves == \A c \in Callers : stage[c] = "queued" ~> stage[c] \in Ended

\* "callers that arrive during a probe wait for it, then share it"
\* (capability_probe.py:47): one that waited for a probe that was answered, and
\* asked for no refresh, probes again only when some probe met an outage.
WaitersShare ==
  \A c \in Callers :
    /\ stage[c] = "answered" /\ ~ refresh[c] /\ given[c] = c
    /\ met[c] # Nobody /\ stage[met[c]] = "answered"
    => \E d \in Callers \ {c} : failed[d]

\* One probe for everybody: one at a time, shared, and new for a refresh.
OneProbe == OneProbeAtATime /\ OneProbeServesAll /\ WaitersShare /\ RefreshIsNew

-----------------------------------------------------------------------------
(* The inductive invariant the guarantees rest on.                         *)

\* The queue holds the callers that wait, each at one place.
QueueWaits ==
  /\ \A n \in DOMAIN queue : stage[queue[n]] = "queued"
  /\ \A m, n \in DOMAIN queue : queue[m] = queue[n] => m = n

\* The lock is held by the caller that probes, and by nobody else.
HolderProbes == \A c \in Callers : stage[c] \in Probing <=> holder = c

\* A caller's checks wait or run only from its probe on, and before it is
\* answered they are over.
ChecksAreCounted ==
  \A c \in Callers :
    /\ waiting[c] + running[c] <= Checks /\ running[c] <= Concurrency
    /\ stage[c] \in {"idle", "queued", "claims", "answered"} => waiting[c] + running[c] = 0

\* A binding is from a probe that was answered with it.
BuiltBy(p) == p = Nobody \/ (stage[p] = "answered" /\ given[p] = p)
BindingsAreBuilt ==
  /\ BuiltBy(kept)
  /\ \A c \in Callers : BuiltBy(given[c]) /\ (stage[c] # "answered" => given[c] = Nobody)

\* Without an outage nothing failed, and what was built is kept; without a
\* refresh too, nobody probes once something is.
NothingFailed == outages = 0 => up /\ \A c \in Callers : ~ failed[c]
FirstIsKept ==
  outages = 0 /\ (\A c \in Callers : ~ refresh[c]) =>
    /\ holder # Nobody => kept = Nobody
    /\ \A c \in Callers : given[c] = c => kept = c

\* The probe a caller met is under way until it holds the lock itself; when it
\* was answered, its binding is kept unless another probe met an outage.
OtherFailed(c) == \E d \in Callers \ {c} : failed[d]
MetProbes ==
  \A c \in Callers :
    /\ stage[c] = "idle" => ~ refresh[c]
    /\ met[c] # Nobody =>
         /\ stage[c] # "idle" /\ met[c] # c
         /\ stage[met[c]] \in Probing \cup Ended
         /\ stage[c] \in Probing \cup {"answered"} => stage[met[c]] \in Ended
         /\ stage[met[c]] = "answered" =>
              /\ stage[c] = "queued" => kept # Nobody \/ OtherFailed(c)
              /\ stage[c] \in Probing /\ ~ refresh[c] => OtherFailed(c)

Inductive ==
  /\ TypeOK
  /\ QueueWaits
  /\ HolderProbes
  /\ ChecksAreCounted
  /\ BindingsAreBuilt
  /\ OutagesAreNotKept
  /\ NothingFailed
  /\ FirstIsKept
  /\ MetProbes
  /\ WaitersShare
  /\ RefreshIsNew

=============================================================================
