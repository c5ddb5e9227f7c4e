------------------------ MODULE MCEvidenceInventory ------------------------
(***************************************************************************)
(* Instances of EvidenceInventory for TLC: two alerts, two hosts, one of   *)
(* them under two spellings and with an id.                                *)
(***************************************************************************)
EXTENDS EvidenceInventory, TLC

CONSTANTS a1, a2, process, url, id1, upper, lower, other, one, two, unknown

MCAlerts == <<a1, a2>>
MCScoped == {process}
MCUnscoped == {url}
MCDeviceIds == {id1}
MCNames == {upper, lower, other}
MCHostOf == (upper :> lower) @@ (lower :> lower) @@ (other :> other)
MCVerdicts == {one, two}

Symmetry == Permutations(MCVerdicts)

=============================================================================
