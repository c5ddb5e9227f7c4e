---------------------------- MODULE ServiceCall ----------------------------
(***************************************************************************)
(* What one call of the transport promises its caller, with nothing of how *)
(* it gets there: a write takes effect on the service at most once, and    *)
(* the outcome the caller is given does not lie about that effect.         *)
(* Transport.tla implements this specification.                            *)
(***************************************************************************)
EXTENDS Naturals

CONSTANTS
  Calls,      \* the calls made
  Writes      \* those whose method is not GET

VARIABLES
  effect,     \* effect[c]: how many times the service acted on write c
  outcome     \* outcome[c]: "idle", "open", or what the caller was given

Refusals == {"throttled", "error", "login"}
Unsure == {"unavailable", "broken", "notjson", "interrupted"}
Outcomes == {"ok"} \cup Refusals \cup Unsure

vars == <<effect, outcome>>

Init ==
  /\ effect = [c \in Calls |-> 0]
  /\ outcome = [c \in Calls |-> "idle"]

Begin(c) ==
  /\ outcome[c] = "idle"
  /\ outcome' = [outcome EXCEPT ![c] = "open"]
  /\ UNCHANGED effect

\* The service acts on an open write: once, never a second time.
Act(c) ==
  /\ c \in Writes
  /\ outcome[c] = "open"
  /\ effect[c] = 0
  /\ effect' = [effect EXCEPT ![c] = 1]
  /\ UNCHANGED outcome

\* The caller is answered: success only of a write that happened, a refusal
\* only of one that did not.
Finish(c, r) ==
  /\ outcome[c] = "open"
  /\ c \in Writes /\ r = "ok" => effect[c] = 1
  /\ c \in Writes /\ r \in Refusals => effect[c] = 0
  /\ outcome' = [outcome EXCEPT ![c] = r]
  /\ UNCHANGED effect

\* The caller stops waiting; a request on its way may still take effect.
Abandon(c) ==
  /\ outcome[c] = "open"
  /\ outcome' = [outcome EXCEPT ![c] = "interrupted"]
  /\ \/ UNCHANGED effect
     \/ /\ c \in Writes
        /\ effect[c] = 0
        /\ effect' = [effect EXCEPT ![c] = 1]

End(c) == Abandon(c) \/ \E r \in Outcomes \ {"interrupted"} : Finish(c, r)

Next == \E c \in Calls : Begin(c) \/ Act(c) \/ End(c)

Safety == Init /\ [][Next]_vars

\* A call that was begun is answered in the end.
Spec == Safety /\ \A c \in Calls : WF_vars(End(c))

=============================================================================
