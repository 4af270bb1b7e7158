-------------------------------- MODULE Audit --------------------------------
(***************************************************************************)
(* `ferrex audit reconcile --fix`: a command-line process that starts the  *)
(* memory service, recovery included, and deletes the vectors of one       *)
(* namespace that have no row.  It refuses to run while a daemon does, but *)
(* looks once and sees no other server, so handlers may run beside it.     *)
(***************************************************************************)
EXTENDS MemoryStoreInv

CONSTANTS
    FixLimits,  \* the configured values of audit_fix_limit
    Seen        \* processes that the guard finds: daemons, by their pid files

VARIABLE audit          \* the command: where it is and what it has read

auditVars == <<vars, audit>>

NoAudit == [pc |-> "no"]

\* refuse_if_live, then from_config: recovery runs as in every process.
StartAudit(p, n, limit) ==
    /\ audit = NoAudit /\ p \in Commands
    /\ \A q \in Seen : proc[q].pc = "down"
    /\ StartProcess(p)
    /\ audit' = [pc |-> "recover", proc |-> p, ns |-> n, limit |-> limit,
                 points |-> {}, orphans |-> {}]

ScrollMemoryIds ==
    /\ audit.pc = "recover" /\ proc[audit.proc].pc = "up"
    /\ audit' = [audit EXCEPT !.pc = "list",
                              !.points = {m \in vectors : job[m].ns = audit.ns}]
    /\ UNCHANGED vars

\* Mutant: the difference is taken the other way round.
QdrantOnlyReversed(points, ids) == ids \ points

QdrantOnly(points, ids) == points \ ids

\* The vector of a store that has yet to commit looks like an orphan.
ListMemoryIds ==
    /\ audit.pc = "list"
    /\ audit' = [audit EXCEPT !.pc = "fix",
            !.orphans = QdrantOnly(audit.points, {m \in rows : job[m].ns = audit.ns})]
    /\ contested' = contested \cup {m \in audit'.orphans : Running(m)}
    /\ UNCHANGED <<reqVars, diskVars, journalVars, proc, gen>>

\* delete_by_ids, unless there are more than the limit.
FixOrphans ==
    /\ audit.pc = "fix" /\ Cardinality(audit.orphans) <= audit.limit
    /\ vectors' = vectors \ audit.orphans
    /\ audit' = [audit EXCEPT !.pc = "fixed"]
    /\ UNCHANGED <<reqVars, rows, invalid, journalVars, proc, gen, contested>>

RefuseFix ==
    /\ audit.pc = "fix" /\ Cardinality(audit.orphans) > audit.limit
    /\ audit' = [audit EXCEPT !.pc = "refused"]
    /\ UNCHANGED vars

\* The command's end is the end of its process.
AuditNext ==
    \/ Work /\ UNCHANGED audit
    \/ \E p \in Proc :
         /\ Crash(p)
         /\ audit' = IF audit # NoAudit /\ audit.proc = p THEN NoAudit ELSE audit
    \/ \E p \in Proc, n \in NS, limit \in FixLimits : StartAudit(p, n, limit)
    \/ ScrollMemoryIds
    \/ ListMemoryIds
    \/ FixOrphans
    \/ RefuseFix

AuditInit == Init /\ audit = NoAudit
AuditSpec == AuditInit /\ [][AuditNext]_auditVars
AuditFairSpec == AuditSpec /\ Fairness

-----------------------------------------------------------------------------
(***************************************************************************)
(* Recovery forgets an op whose handler stopped between the upsert and the *)
(* flag, and leaves its vector behind; an audit that fixes leaves none of  *)
(* those it listed, whatever runs beside it, and takes no vector of a      *)
(* committed memory, but for a store that it caught before its commit      *)
(* (audit_reconcile).                                                      *)
(***************************************************************************)
AuditMends ==
    audit.pc = "fixed" => audit.points \cap vectors \subseteq rows /\ CommittedStoreDurable

(***************************************************************************)
(* What the command makes of what it has read is still true when it uses   *)
(* it: an id that it found in both stores never loses its row before its   *)
(* vector, and an orphan that is not contested has no handler left that    *)
(* could commit it.  With IInv this is inductive (audit_reconcile lists    *)
(* Qdrant before SQLite, admin.rs:14).                                     *)
(***************************************************************************)
AuditKnows ==
    audit # NoAudit =>
        /\ audit.pc \in {"recover", "list", "fix", "fixed", "refused"}
        /\ audit.proc \in Proc
        /\ audit.pc # "recover" => proc[audit.proc].pc = "up"
        /\ audit.points \subseteq Req
        /\ \A m \in audit.points :
             IsWrite(m) /\ pc[m] \in {"mark", "commit", "bump", "ok"} /\ job[m].ns = audit.ns
        /\ audit.pc = "fix" =>
             /\ audit.orphans \subseteq audit.points
             /\ \A m \in audit.points \ audit.orphans : Committed(m)
             /\ \A m \in audit.orphans \ contested : ~Running(m) /\ m \notin rows
        /\ audit.pc = "fixed" => audit.points \cap vectors \subseteq rows

AuditInv == IInv /\ AuditKnows
=============================================================================
