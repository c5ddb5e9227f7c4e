-------------------------- MODULE MCBlacklistStore --------------------------
(***************************************************************************)
(* Instances of BlacklistStore for TLC: three syncs, one after the other.  *)
(***************************************************************************)
EXTENDS BlacklistStore, TLC

CONSTANTS s1, s2, s3

MCSyncs == {s1, s2, s3}
MCSymmetry == Permutations(MCSyncs)

=============================================================================
