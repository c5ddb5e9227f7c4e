--------------------------- MODULE IncidentAlerts ---------------------------
(***************************************************************************)
(* The alerts of one incident, as every operation that needs them reads    *)
(* them (incident_record and _all_alerts in incidents.py): the incident is *)
(* asked with its alerts, and the pages of the expansion are followed as   *)
(* far as two ceilings allow, of alerts and of pages.                      *)
(***************************************************************************)
EXTENDS Naturals, Sequences, FiniteSetsExt

CONSTANTS
  Alerts,        \* a sequence: the incident's first MAX_ALERTS alerts, as they are sent
  Excess,        \* bound: how many alerts more the incident may have
  MaxAlertPages  \* MAX_ALERT_PAGES

ASSUME ReadingAssumption ==
  Alerts \in Seq(Range(Alerts)) /\ Excess \in Nat /\ MaxAlertPages \in Nat

MaxAlerts == Len(Alerts)

VARIABLES
  stage,     \* "asking", "reading", "read" or "failed"
  total,     \* the incident's alerts
  got,       \* how many were read
  pages,     \* the pages followed
  link,      \* the last page had a next link
  truncated  \* alertsTruncated

reading == <<stage, total, got, pages, link, truncated>>

InitReading ==
  /\ stage = "asking"
  /\ total \in 0 .. MaxAlerts + Excess
  /\ got = 0 /\ pages = 0 /\ link = FALSE /\ truncated = FALSE

\* What the service sends next: alerts or none, and a link while there are
\* more, even an unneeded one.
Page ==
  \E n \in 0 .. total - got :
    /\ got' = got + n
    /\ link' \in IF got' < total THEN {TRUE} ELSE BOOLEAN

Expand ==
  /\ stage = "asking"
  /\ Page
  /\ stage' = "reading"
  /\ UNCHANGED <<total, pages, truncated>>

MayFollow == link /\ got < MaxAlerts /\ pages < MaxAlertPages

Follow ==
  /\ stage = "reading" /\ MayFollow
  /\ Page
  /\ pages' = pages + 1
  /\ UNCHANGED <<stage, total, truncated>>

\* Mutant: only the ceiling of alerts is told.
CutAtAlerts == got > MaxAlerts

\* Whether reading stopped at a ceiling.
Cut == link \/ got > MaxAlerts

\* What is read is cut at the ceiling and answered; the pages are let go.
Finish ==
  /\ stage = "reading" /\ ~ MayFollow
  /\ stage' = "read"
  /\ got' = Min({got, MaxAlerts})
  /\ truncated' = Cut
  /\ pages' = 0 /\ link' = FALSE
  /\ UNCHANGED total

\* A request fails, and the operation with it.
Fail ==
  /\ stage = "asking" \/ (stage = "reading" /\ MayFollow)
  /\ stage' = "failed"
  /\ got' = 0 /\ pages' = 0 /\ link' = FALSE
  /\ UNCHANGED <<total, truncated>>

ReadingTypeOK ==
  /\ stage \in {"asking", "reading", "read", "failed"}
  /\ total \in 0 .. MaxAlerts + Excess /\ got \in 0 .. total
  /\ stage = "read" => got <= MaxAlerts
  /\ pages \in 0 .. MaxAlertPages
  /\ link \in BOOLEAN /\ truncated \in BOOLEAN

\* What the reading knows: without a link, all was sent.
ReadingKnown ==
  /\ ReadingTypeOK
  /\ stage = "asking" => got = 0 /\ pages = 0
  /\ stage = "reading" /\ ~ link => got = total

=============================================================================
