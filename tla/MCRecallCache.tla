--------------------------- MODULE MCRecallCache ---------------------------
(***************************************************************************)
(* Small instances of RecallCache.                                         *)
(***************************************************************************)
EXTENDS RecallCache, TLC

Ask(kind, n, type, text, ids) ==
    [kind |-> kind, ns |-> n, type |-> type, fact |-> CHOOSE f \in Fact : TRUE, text |-> text,
     ids |-> ids]

MCText == 1..2
MCCloseness ==
    [ab \in MCText \X MCText |-> IF ab[1] = ab[2] THEN "duplicate" ELSE "different"]

Home == CHOOSE n \in NS : TRUE

\* Stores that replace each other, by conflict across the namespaces and by supersedes within
\* one, and forgets.
MCInputs ==
    {Ask("store", n, "semantic", IF n = Home THEN 1 ELSE 2, {}) : n \in NS}
      \cup {Ask("supersede", Home, "semantic", 2, {r}) : r \in Req}
      \cup {Ask("forget", Home, "semantic", 1, Req)}

MCSymmetry == Permutations(Req) \cup Permutations(Reader)
=============================================================================
