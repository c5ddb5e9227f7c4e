-------------------------- MODULE MCIncidentMerge --------------------------
(***************************************************************************)
(* Instances of IncidentMerge for TLC: a writer and a merge of up to two   *)
(* incidents, every merge history of the incidents as the initial state.   *)
(***************************************************************************)
EXTENDS IncidentMerge

CONSTANTS i1, i2, i3, i4, live, update, merge

MCIncidents == {i1, i2, i3, i4}
MCWriters == {update}
MCMergers == {merge}

=============================================================================
