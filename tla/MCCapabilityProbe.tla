------------------------- MODULE MCCapabilityProbe -------------------------
(***************************************************************************)
(* Instances of CapabilityProbe for TLC: three callers, two checks under a *)
(* semaphore of one.                                                       *)
(***************************************************************************)
EXTENDS CapabilityProbe

CONSTANTS c1, c2, c3, nobody

MCCallers == {c1, c2, c3}

=============================================================================
