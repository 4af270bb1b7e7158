------------------------------ MODULE MCSidecar ------------------------------
(* Two processes that watch qdrant and one that owns it, under two configured ports. *)
EXTENDS Sidecar, TLC

CONSTANTS k1, k2, o1

MCKeeper == {k1, k2}
MCOwner == {o1}
Keepers == Permutations(MCKeeper)
=============================================================================
