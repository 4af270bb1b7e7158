------------------------- MODULE MCEntityResolution -------------------------
(* Two requests over three names: the first two are alike, the last two are near each other. *)
EXTENDS EntityResolution, TLC

CONSTANTS r1, r2, n1, n2, n3

MCRequest == {r1, r2}
MCName == {n1, n2, n3}
MCFuzzy == {{n1, n2}}
MCNear == {{n2, n3}}
=============================================================================
