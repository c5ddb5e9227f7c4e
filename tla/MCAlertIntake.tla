--------------------------- MODULE MCAlertIntake ---------------------------
(***************************************************************************)
(* Instances of AlertIntake for TLC: an alert of an audited activity and   *)
(* one of a user report, each with a raising activity and a repeat.        *)
(***************************************************************************)
EXTENDS AlertIntake

CONSTANTS rule, report

MCAudited == {rule}
MCReports == {report}

=============================================================================
