--------------------------- MODULE MCProxySession ---------------------------
(***************************************************************************)
(* Small instances of ProxySession.                                        *)
(***************************************************************************)
EXTENDS ProxySession

MCSymmetry == Permutations(Id) \cup Permutations(Key)
=============================================================================
