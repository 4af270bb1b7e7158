--------------------------- MODULE MemoryStoreInv ---------------------------
(***************************************************************************)
(* The inductive invariant behind MemoryStore's safety properties, for any *)
(* number of processes over one database.                                  *)
(***************************************************************************)
EXTENDS MemoryStore

\* Requests run only in a process that serves.
RunsWhereUp ==
    \A r \in Req : Running(r) => proc[job[r].proc].pc = "up"

\* A handler is at an await of its own kind; a store works on its own id.
KindMatchesPC ==
    \A r \in Req :
        /\ pc[r] \in {"check", "lookup", "upsert", "commit"} => IsWrite(r)
        /\ pc[r] \in {"get", "remove", "erase", "complete"} => IsForget(r)
        /\ pc[r] \notin {"get", "idle", "rejected"} /\ IsWrite(r) => cur[r] = r
        /\ pc[r] \in {"check", "lookup", "idle"} => cur[r] = r
        /\ pc[r] = "idle" => ~IsWrite(r) /\ ~IsForget(r)

\* What is on disk for a memory tells how far its store got.
OnDisk ==
    /\ \A m \in vectors : IsWrite(m) /\ pc[m] \in {"mark", "commit", "bump", "ok"}
    /\ \A m \in rows : Committed(m)

\* Nothing takes the vector of a store that is about to commit.
VectorKept ==
    \A r \in Req :
        Running(r) /\ IsWrite(r) /\ pc[r] \in {"mark", "commit"} => r \in vectors \cup contested

\* A forget works on a committed memory it was asked for, vector first.
ForgetOrder ==
    /\ \A f \in Req : IsForget(f) =>
         /\ pc[f] \in {"journal", "remove", "mark", "erase", "complete", "bump"} =>
              Committed(cur[f]) /\ cur[f] \in job[f].ids
         /\ pc[f] \in {"mark", "erase", "complete", "bump"} => cur[f] \notin vectors
         /\ pc[f] \in {"complete", "bump"} => cur[f] \notin rows
         /\ todo[f] \subseteq job[f].ids
    /\ \A f, m \in Req : m \in deleted[f] => Committed(m) /\ m \notin rows \cup vectors

DeletePC == {"journal", "remove", "mark", "erase", "complete"}

\* A forget has erased m for good.
Erased(r, m) ==
    /\ IsForget(r) /\ Committed(m) /\ m \notin rows \cup vectors
    /\ cur[r] = m => pc[r] \notin DeletePC

\* The journal follows the handlers; only ops of an older build are both.
JournalMatchesPC ==
    /\ \A r, m \in Req : <<r, m>> \in pending =>
         /\ cur[r] = m
         /\ \/ IsWrite(r) /\ pc[r] \in {"upsert", "mark", "commit"}
            \/ IsForget(r) /\ pc[r] \in {"remove", "mark", "erase", "complete"}
            \/ IsWrite(r) /\ pc[r] = "ok" /\ <<r, m>> \in completed
         /\ pc[r] # "ok" =>
              (<<r, m>> \in written <=> pc[r] \in {"commit", "erase", "complete"})
    /\ \A r \in Req :
         /\ Running(r) /\ cur[r] \notin contested
         /\ pc[r] \in {"upsert", "remove", "mark", "commit", "erase", "complete"}
         => <<r, cur[r]>> \in pending
    /\ \A r, m \in Req : <<r, m>> \in completed => (m = r /\ Committed(r)) \/ Erased(r, m)

\* Until recovery has cleared an older build's ops, nothing has run, and every recovery that
\* has begun read them.
LegacyUntouched ==
    \A r, m \in Req : <<r, m>> \in pending /\ pc[r] = "ok" =>
        /\ \A p \in Proc :
             \/ proc[p].pc = "down"
             \/ proc[p].pc \in {"next", "clear"} /\ <<r, m>> \in proc[p].todo
        /\ \A q \in Req : pc[q] \in {"idle", "ok"}
        /\ \A p \in Proc : proc[p].todo \subseteq completed
        /\ vectors \subseteq rows
        /\ rows \subseteq vectors

\* What recovery may still forget of an op that is not contested: its handler has ended, is gone
\* before the flag, or recovery has made good what it left.
MayForget(p, r, m) ==
    \/ m = r /\ Committed(r)
    \/ Erased(r, m)
    \/ pc[r] # "idle" /\ ~Running(r) /\ <<r, m>> \notin written
    \/ r \in halted /\ <<r, m>> \in proc[p].seen /\ m \notin rows \cup vectors

\* What the recovery of p knows of the ops it read, of those it read as flagged, and of the op
\* it is at: unless that is contested, its handler stopped at an await that recovery makes good.
Knows(p) ==
    /\ proc[p].pc \in {"vector", "row", "clear"} => proc[p].cur # NoOp
    /\ \A r, m \in Req :
        /\ <<r, m>> \in proc[p].todo => pc[r] # "idle"
        /\ <<r, m>> \in proc[p].seen =>
             \/ IsWrite(r) /\ m = r /\ pc[r] \in {"commit", "bump", "ok"}
             \/ IsForget(r) /\ Committed(m) /\ m \in job[r].ids /\ m \notin vectors
        /\ proc[p].cur = <<r, m>> =>
             /\ proc[p].pc \in {"vector", "row"} => <<r, m>> \in proc[p].seen
             /\ proc[p].pc = "vector" => IsWrite(r)
             /\ proc[p].pc = "row" => m \notin vectors
             /\ m \notin contested =>
                  /\ proc[p].pc \in {"vector", "row"} =>
                       r \in halted /\ pc[r] \in {"commit", "erase", "complete"}
                  /\ proc[p].pc = "clear" => MayForget(p, r, m)

RecoveryKnows == \A p \in Proc : Knows(p)

\* A row is only ever erased after the vector, by forgets and recoveries alike.
VectorFirst == \A m \in vectors : Committed(m) => m \in rows

\* OrphanRowsExplained by a forget that has taken the vector.
TakenBy(f, m) ==
    /\ IsForget(f) /\ cur[f] = m
    /\ pc[f] \in {"mark", "erase", "complete"}
    /\ \/ <<f, m>> \in pending
       \/ pc[f] = "mark" /\ f \in halted

RowsExplained ==
    \A m \in (rows \ vectors) \ contested : \E f \in Req : TakenBy(f, m)

\* A committed store that is not in both stores was asked to be forgotten.
LossIsRequested ==
    \A m \in Req \ contested :
        Committed(m) /\ m \notin rows \cap vectors => ForgetRequested(m)

InvalidatedByCommitted ==
    \A m \in invalid : \E r \in Req : m \in superseded[r] /\ Committed(r)

(***************************************************************************)
(* What holds of contested memories too: a recovery only takes from disk,  *)
(* so it undoes stores but brings nothing back.                            *)
(***************************************************************************)
SharedInv == TypeOK /\ KindMatchesPC /\ OnDisk /\ ForgetOrder /\ InvalidatedByCommitted

(***************************************************************************)
(* The inductive invariant: where each handler, each journal row and the   *)
(* recoveries of service.rs:185 can be, and, for memories that are not     *)
(* contested, what that means for the two stores.                          *)
(***************************************************************************)
IInv ==
    /\ SharedInv
    /\ RunsWhereUp
    /\ VectorKept
    /\ JournalMatchesPC
    /\ LegacyUntouched
    /\ RecoveryKnows
    /\ VectorFirst
    /\ OrphanVectorsExplained
    /\ RowsExplained
    /\ LossIsRequested

(***************************************************************************)
(* A write replaces at most one memory: two valid rows on one fact reject  *)
(* it (Classification::Conflict), and a supersede names one target.        *)
(***************************************************************************)
OneReplaced ==
    \A r \in Req :
        /\ \A m, n \in superseded[r] : m = n
        /\ pc[r] = "lookup" => \A m, n \in job[r].ids : m = n
=============================================================================
