------------------------- MODULE MCIncidentListing -------------------------
(***************************************************************************)
(* Instances of IncidentListing for TLC: sweeps one and two at a time, the *)
(* latter as full as the service allows, so that they probe.               *)
(***************************************************************************)
EXTENDS IncidentListing

MCTops == {1, 2}

=============================================================================
