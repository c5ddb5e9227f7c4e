---------------------------- MODULE MCAbuseCheck ----------------------------
(***************************************************************************)
(* An instance of AbuseCheck for TLC: two callers of check and one of      *)
(* sync_blacklist, one public address and one that is not, one window in   *)
(* range and one out of it.                                                *)
(***************************************************************************)
EXTENDS AbuseCheck, TLC

CONSTANTS c1, c2, sync, outside, inside

MCCallers == {c1, c2, sync}
MCDownloaders == {sync}
MCAddresses == {outside, inside}
MCPublic == {outside}
MCAllowance == [e \in Endpoints |-> IF e = "check" THEN 2 ELSE 1]
MCWindows == {30, 366}

Symmetry == Permutations(MCCallers \ MCDownloaders)

=============================================================================
