--------------------------- MODULE MCMemoryStore ---------------------------
(***************************************************************************)
(* Small instances of MemoryStore.                                         *)
(***************************************************************************)
EXTENDS MemoryStoreInv, TLC

Ask(kind, ns, type, text, ids) ==
    [kind |-> kind, ns |-> ns, type |-> type,
     fact |-> CHOOSE f \in Fact : TRUE, text |-> text, ids |-> ids]

\* Texts 1 and 2 are close to each other without being duplicates.
MCText == 1..2
MCCloseness ==
    [ab \in MCText \X MCText |->
       IF ab[1] = ab[2] THEN "duplicate"
       ELSE "ambiguous"]

\* Every kind of write, beside what an older build stored.
MCInputs ==
    {Ask("store", n, "episodic", 1, {}) : n \in NS}
      \cup {Ask("store", n, "semantic", 1, {}) : n \in NS}
      \cup {Ask("supersede", n, "semantic", 2, {m}) : n \in NS, m \in Legacy}
      \cup {Ask("forget", n, "semantic", 1, Req) : n \in NS}
=============================================================================
