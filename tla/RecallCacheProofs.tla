-------------------------- MODULE RecallCacheProofs --------------------------
(***************************************************************************)
(* Proofs about recall and its caches, for any number of processes: what   *)
(* the steps of requests, recoveries and other processes may do to a       *)
(* recall in progress, the inductive invariant RecallInv, and the          *)
(* properties that follow.                                                 *)
(***************************************************************************)
EXTENDS RecallCache, MemoryStoreProofs

USE DEF Running, IsWrite, IsForget, Committed, Goto, Either, reqVars, diskVars

\* What a step leaves of what is known of the memories.
Onward ==
    /\ \A m \in Req : pc[m] # "idle" => pc'[m] # "idle" /\ job'[m] = job[m]
    /\ \A m \in Req : Committed(m) =>
        /\ Committed(m)'
        /\ m \notin rows \ invalid => m \notin rows' \ invalid'
        /\ Excused(m) => Excused(m)'
    /\ ReplacedAcross \subseteq ReplacedAcross'

\* What it leaves, in one process and namespace, of what recalls know as long as the generation
\* is the same.
Leaves(p, n) ==
    /\ \A m \in Req : pc[m] # "idle" /\ job[m].ns = n =>
        /\ m \in Retired(p)' => m \in Retired(p) \/ m \in ReplacedAcross'
        /\ m \in Deleted(p)' => m \in Deleted(p)
        /\ Explained(p, m) => Explained(p, m)'
    /\ Acknowledged(p, n)' \subseteq Acknowledged(p, n)

\* What a step that process p survives may do to what its recalls know.
StepsOn(p) ==
    /\ Onward
    /\ proc[p].pc = "up" => proc'[p].pc = "up"
    /\ \A n \in NS : /\ gen[p][n] <= gen'[p][n]
                     /\ gen'[p][n] = gen[p][n] => Leaves(p, n)

\* Nothing that was asked is undone, and nothing committed.
Lasting ==
    /\ \A r \in Req : pc[r] # "idle" => pc'[r] # "idle" /\ job'[r] = job[r]
    /\ \A r \in Req : Committed(r) => Committed(r)' /\ superseded'[r] = superseded[r]
    /\ \A m \in Req : Committed(m) /\ m \notin rows \ invalid => m \notin rows' \ invalid'
    /\ contested \subseteq contested'
    /\ (invalid \ invalid') \cap rows' = {}

\* Invalidation and the wish to forget last, for as long as the memory is committed.
LEMMA ExcusesLast ==
  ASSUME IInv', Lasting, NEW m \in Req, Committed(m), Excused(m)
  PROVE  Excused(m)'
<1> USE DEF Lasting
<1>1. CASE ForgetRequested(m)
  BY <1>1 DEF ForgetRequested, Excused
<1>2. CASE m \in invalid /\ m \notin invalid'
  <2>1. m \notin rows' \cap vectors' /\ Committed(m)'
    BY <1>2
  <2> QED
    BY <2>1 DEF IInv, LossIsRequested, Excused
<1> QED
  BY <1>1, <1>2 DEF Excused

\* What was replaced across namespaces, and what other processes did, stays so.
LEMMA OnwardLasts ==
  ASSUME IInv, IInv', ReplacedAreGone, Lasting
  PROVE  Onward /\ \A p \in Proc : Elsewhere(p) \subseteq Elsewhere(p)'
<1>1. \A r \in Req : \A m \in superseded[r] : m \in Req /\ pc[m] # "idle"
  BY DEF ReplacedAreGone, IInv, SharedInv, TypeOK
<1>2. ReplacedAcross \subseteq ReplacedAcross'
  BY <1>1 DEF ReplacedAcross, Lasting
<1>3. Onward
  BY <1>2, ExcusesLast DEF Onward, Lasting
<1>4. ASSUME NEW p \in Proc, NEW m \in Elsewhere(p) PROVE m \in Elsewhere(p)'
  <2>1. CASE m \in contested
    BY <2>1 DEF Elsewhere, Lasting
  <2>2. CASE m \notin contested
    <3>1. PICK r \in Req : /\ pc[r] # "idle" /\ job[r].proc # p
                           /\ \/ IsForget(r) /\ m \in job[r].ids
                              \/ Committed(r) /\ m \in superseded[r]
      BY <2>2, <1>4 DEF Elsewhere
    <3>2. m \in Req
      BY <2>2, <1>4 DEF Elsewhere
    <3> QED
      BY <3>1, <3>2 DEF Elsewhere, Lasting
  <2> QED
    BY <2>1, <2>2
<1> QED
  BY <1>3, <1>4

\* Enough for a step that acknowledges nothing.
LEMMA NothingTold ==
  ASSUME IInv, Onward, NEW p \in Proc, gen'[p] = gen[p], proc[p].pc = "up" => proc'[p].pc = "up",
         Deleted(p)' \subseteq Deleted(p), Replaced(p)' \subseteq Replaced(p),
         \A n \in NS : Acknowledged(p, n)' \subseteq Acknowledged(p, n),
         \A m \in Req : pc[m] # "idle" /\ Explained(p, m) => Explained(p, m)'
  PROVE  StepsOn(p)
<1>1. \A n \in NS : gen[p][n] \in Nat
  BY DEF IInv, SharedInv, TypeOK
<1> QED
  BY <1>1 DEF StepsOn, Leaves, Retired

\* A request that keeps the rows and the generations as they are, moves on to a pc where nothing
\* is acknowledged, and owes what it owed.
LEMMA QuietStep ==
  ASSUME IInv, IInv', ReplacedAreGone, NEW r \in Req, \A q \in Req : q # r => pc'[q] = pc[q],
         UNCHANGED <<job, rows, invalid, deleted, halted, proc, gen, contested>>,
         pc[r] \notin {"idle", "ok", "bump", "complete", "rejected"}, pc'[r] # "idle",
         r \notin halted,
         IsWrite(r) => pc'[r] # "ok",
         IsForget(r) \/ pc[r] \in {"check", "lookup"} \/ superseded' = superseded,
         \A q \in Req : q # r => superseded'[q] = superseded[q] /\ cur'[q] = cur[q]
  PROVE  \A p \in Proc : StepsOn(p)
<1>1. Lasting
  BY DEF Lasting
<1>2. Onward /\ \A p \in Proc : Elsewhere(p) \subseteq Elsewhere(p)'
  BY <1>1, OnwardLasts
<1> TAKE p \in Proc
<1>3. Deleted(p)' \subseteq Deleted(p) /\ Replaced(p)' \subseteq Replaced(p)
  BY DEF Replaced, Deleted
<1>4. \A m \in Req : BumpOwed(p, m) => BumpOwed(p, m)'
  BY DEF BumpOwed
<1>5. \A n \in NS : Acknowledged(p, n)' \subseteq Acknowledged(p, n)
  BY DEF Acknowledged
<1>6. \A m \in Req : Explained(p, m) => Explained(p, m)'
  BY <1>2, <1>4 DEF Explained, Onward
<1> QED
  BY <1>2, <1>3, <1>5, <1>6, NothingTold

LEMMA QuietRequests ==
  ASSUME IInv, IInv', ReplacedAreGone, NEW r \in Req,
         \/ DedupCheck(r) \/ ConflictCheck(r) \/ SupersedeLookup(r) \/ GetMemory(r)
         \/ ForgetDone(r) \/ InsertPendingOp(r) \/ UpsertVector(r) \/ DeleteVector(r)
         \/ MarkQdrantWritten(r)
  PROVE  \A p \in Proc : StepsOn(p)
<1> USE DEF IInv, SharedInv, TypeOK
<1>1. /\ pc[r] \in {"check", "lookup", "get", "journal", "upsert", "remove", "mark"}
      /\ \A q \in Req : q # r => pc'[q] = pc[q] /\ superseded'[q] = superseded[q] /\ cur'[q] = cur[q]
      /\ UNCHANGED <<job, rows, invalid, deleted, halted, proc, gen, contested>>
      /\ pc'[r] \notin {"idle", "bump"} /\ r \notin halted
      /\ IsForget(r) \/ pc[r] \in {"check", "lookup"} \/ superseded' = superseded
  <2>1. CASE DedupCheck(r)
    BY <2>1 DEF DedupCheck
  <2>2. CASE ConflictCheck(r)
    BY <2>2 DEF ConflictCheck
  <2>3. CASE SupersedeLookup(r)
    BY <2>3 DEF SupersedeLookup
  <2>4. CASE GetMemory(r)
    BY <2>4 DEF GetMemory
  <2>5. CASE ForgetDone(r)
    BY <2>5 DEF ForgetDone
  <2>6. CASE InsertPendingOp(r)
    BY <2>6 DEF InsertPendingOp
  <2>7. CASE UpsertVector(r) \/ DeleteVector(r)
    BY <2>7 DEF UpsertVector, DeleteVector
  <2>8. CASE MarkQdrantWritten(r)
    BY <2>8 DEF MarkQdrantWritten
  <2> QED
    BY <2>1, <2>2, <2>3, <2>4, <2>5, <2>6, <2>7, <2>8
<1>2. IsWrite(r) => pc'[r] # "ok"
  BY DEF DedupCheck, ConflictCheck, SupersedeLookup, GetMemory, ForgetDone, InsertPendingOp,
         UpsertVector, DeleteVector, MarkQdrantWritten, KindMatchesPC
<1> QED
  BY <1>1, <1>2, QuietStep

\* A commit makes what it replaces unavailable, and owes the bump from then on: in its process,
\* and in no other.
LEMMA CommitStepsOn ==
  ASSUME IInv, IInv', ReplacedAreGone, NEW r \in Req, CommitMemoryWrite(r)
  PROVE  \A p \in Proc : StepsOn(p)
<1>1. /\ pc[r] = "commit" /\ pc'[r] = "bump" /\ \A q \in Req : q # r => pc'[q] = pc[q]
      /\ rows' = rows \cup {r} /\ invalid' = invalid \cup (superseded[r] \cap rows)
      /\ UNCHANGED <<job, cur, superseded, deleted, halted, proc, gen, contested>>
  BY DEF IInv, SharedInv, TypeOK, CommitMemoryWrite
<1>2. IsWrite(r)
  BY <1>1 DEF IInv, SharedInv, KindMatchesPC
<1>3. Lasting
  BY <1>1 DEF Lasting
<1>4. Onward /\ \A p \in Proc : Elsewhere(p) \subseteq Elsewhere(p)'
  BY <1>3, OnwardLasts
<1> TAKE p \in Proc
<1>5. Deleted(p)' \subseteq Deleted(p) /\ Replaced(p)' \subseteq Replaced(p)
  BY <1>1 DEF Replaced, Deleted
<1>6. \A m \in Req : BumpOwed(p, m) => BumpOwed(p, m)'
  BY <1>1 DEF BumpOwed
<1>7. \A n \in NS : Acknowledged(p, n)' \subseteq Acknowledged(p, n)
  BY <1>1 DEF Acknowledged
<1>8. \A m \in Req : m \in rows \ invalid =>
        m \in rows' \ invalid' \/ BumpOwed(p, m)' \/ m \in Elsewhere(p)'
  BY <1>1, <1>2 DEF BumpOwed, Elsewhere
<1>9. \A m \in Req : Explained(p, m) => Explained(p, m)'
  BY <1>4, <1>6, <1>8 DEF Explained, Onward
<1> QED
  BY <1>1, <1>4, <1>5, <1>7, <1>9, NothingTold

LEMMA DeleteRowStepsOn ==
  ASSUME IInv, IInv', ReplacedAreGone, NEW r \in Req, DeleteRow(r) \/ CompleteForget(r)
  PROVE  \A p \in Proc : StepsOn(p)
<1>1. /\ pc[r] \in {"erase", "complete"} /\ pc'[r] \in {"complete", "bump"}
      /\ \A q \in Req : q # r => pc'[q] = pc[q]
      /\ \A m \in Req : m # cur[r] => (m \in rows <=> m \in rows') /\ (m \in invalid <=> m \in invalid')
      /\ rows' \subseteq rows /\ invalid \cap rows' \subseteq invalid'
      /\ rows' \ invalid' \subseteq rows \ invalid
      /\ UNCHANGED <<job, cur, superseded, deleted, halted, proc, gen, contested>>
  BY DEF IInv, SharedInv, TypeOK, DeleteRow, CompleteForget
<1>2. IsForget(r) /\ cur[r] \in job[r].ids
  BY <1>1 DEF IInv, SharedInv, KindMatchesPC, ForgetOrder
<1>3. Lasting
  BY <1>1, <1>2 DEF Lasting
<1>4. Onward /\ \A p \in Proc : Elsewhere(p) \subseteq Elsewhere(p)'
  BY <1>3, OnwardLasts
<1> TAKE p \in Proc
<1>5. Deleted(p)' \subseteq Deleted(p) /\ Replaced(p)' \subseteq Replaced(p)
  BY <1>1, <1>2 DEF Replaced, Deleted
<1>6. \A m \in Req : BumpOwed(p, m) => BumpOwed(p, m)'
  BY <1>1, <1>2 DEF BumpOwed
<1>7. \A n \in NS : Acknowledged(p, n)' \subseteq Acknowledged(p, n)
  BY <1>1 DEF Acknowledged
<1>8. \A m \in Req : m \in rows \ invalid =>
        m \in rows' \ invalid' \/ BumpOwed(p, m)' \/ m \in Elsewhere(p)'
  BY <1>1, <1>2 DEF BumpOwed, Elsewhere
<1>9. \A m \in Req : Explained(p, m) => Explained(p, m)'
  BY <1>4, <1>6, <1>8 DEF Explained, Onward
<1> QED
  BY <1>1, <1>4, <1>5, <1>7, <1>9, NothingTold

\* The bump acknowledges, and moves the generation that it concerns in its own process.
LEMMA BumpStepsOn ==
  ASSUME IInv, IInv', ReplacedAreGone, NEW r \in Req, BumpGeneration(r)
  PROVE  \A p \in Proc : StepsOn(p)
<1> DEFINE n0 == job[cur[r]].ns
           p0 == job[r].proc
<1>1. /\ pc[r] = "bump" /\ pc'[r] = Either(r, "ok", "get") /\ r \notin halted
      /\ \A q \in Req : q # r => pc'[q] = pc[q] /\ deleted'[q] = deleted[q]
      /\ deleted'[r] = IF IsForget(r) THEN deleted[r] \cup {cur[r]} ELSE deleted[r]
      /\ UNCHANGED <<job, cur, superseded, rows, invalid, halted, proc, contested>>
  BY DEF IInv, SharedInv, TypeOK, BumpGeneration
<1>2. IsForget(r) \/ IsWrite(r)
  BY <1>1 DEF IInv, SharedInv, TypeOK, Job, Kind
<1>3. cur[r] \in Req /\ (IsWrite(r) => cur[r] = r /\ ~IsForget(r))
  BY <1>1 DEF IInv, SharedInv, TypeOK, KindMatchesPC
<1>4. Lasting
  BY <1>1, <1>2 DEF Lasting
<1>5. Onward /\ \A p \in Proc : Elsewhere(p) \subseteq Elsewhere(p)'
  BY <1>4, OnwardLasts
<1>6. \A p \in Proc, n \in NS : /\ gen[p][n] \in Nat /\ gen[p][n] <= gen'[p][n]
                                /\ p = p0 /\ n = n0 => gen'[p][n] # gen[p][n]
  <2> TAKE p \in Proc, n \in NS
  <2>1. gen \in [Proc -> [NS -> Nat]]
    BY DEF IInv, SharedInv, TypeOK
  <2>2. gen' = [gen EXCEPT ![p0][n0] = @ + 1]
    BY DEF BumpGeneration
  <2> HIDE DEF n0, p0
  <2>3. CASE p = p0
    <3>1. gen'[p] = [gen[p] EXCEPT ![n0] = gen[p][n0] + 1]
      BY <2>1, <2>2, <2>3
    <3>2. gen'[p][n] = IF n = n0 THEN gen[p][n] + 1 ELSE gen[p][n]
      BY <2>1, <3>1
    <3> QED
      BY <2>1, <3>2
  <2>4. CASE p # p0
    <3>1. gen'[p] = gen[p]
      BY <2>1, <2>2, <2>4
    <3> QED
      BY <2>1, <2>4, <3>1
  <2> QED
    BY <2>3, <2>4
<1> TAKE p \in Proc
<1>7. ASSUME NEW m \in Req, p # p0 \/ job[m].ns # n0
      PROVE  /\ m \in Deleted(p)' => m \in Deleted(p)
             /\ m \in Replaced(p)' => m \in Replaced(p) \/ m \in ReplacedAcross'
             /\ BumpOwed(p, m) => BumpOwed(p, m)' \/ m \in ReplacedAcross'
  <2>1. p = p0 => m # cur[r]
    BY <1>7
  <2>2. p = p0 /\ IsWrite(r) /\ m \in superseded[r] => m \in ReplacedAcross'
    BY <1>1, <1>3, <1>7 DEF ReplacedAcross
  <2> HIDE DEF n0
  <2>3. m \in Deleted(p)' => m \in Deleted(p)
    BY <2>1, <1>1 DEF Deleted
  <2>4. m \in Replaced(p)' => m \in Replaced(p) \/ m \in ReplacedAcross'
    BY <2>2, <1>1 DEF Replaced
  <2>5. BumpOwed(p, m) => BumpOwed(p, m)' \/ m \in ReplacedAcross'
    BY <2>1, <2>2, <1>1 DEF BumpOwed
  <2> QED
    BY <2>3, <2>4, <2>5
<1>8. ASSUME NEW n \in NS, p # p0 \/ n # n0
      PROVE  Acknowledged(p, n)' \subseteq Acknowledged(p, n)
  BY <1>1, <1>3, <1>8 DEF Acknowledged
<1> HIDE DEF n0, p0
<1>9. ASSUME NEW m \in Req, p # p0 \/ job[m].ns # n0, Explained(p, m) PROVE Explained(p, m)'
  BY <1>1, <1>5, <1>7, <1>9 DEF Explained, Onward
<1>10. ASSUME NEW n \in NS, gen'[p][n] = gen[p][n] PROVE Leaves(p, n)
  <2>1. p # p0 \/ n # n0
    BY <1>6, <1>10
  <2> QED
    BY <2>1, <1>7, <1>8, <1>9 DEF Leaves, Retired
<1> QED
  BY <1>1, <1>5, <1>6, <1>10 DEF StepsOn

LEMMA StartStepsOn ==
  ASSUME IInv, IInv', ReplacedAreGone, DeletedByStarted,
         NEW r \in Req, NEW p0 \in Proc, NEW i \in Inputs, Start(r, p0, i)
  PROVE  \A p \in Proc : StepsOn(p)
<1>1. /\ pc[r] = "idle" /\ pc'[r] \in {"check", "lookup", "get"}
      /\ \A q \in Req : q # r => pc'[q] = pc[q] /\ job'[q] = job[q]
      /\ UNCHANGED <<cur, superseded, deleted, halted, rows, invalid, proc, gen, contested>>
  <2>1. i.kind \in Kind
    BY InputsAssumption DEF Input
  <2> QED
    BY <2>1 DEF IInv, SharedInv, TypeOK, Start, Kind
<1>2. Lasting
  BY <1>1 DEF Lasting
<1>3. Onward /\ \A p \in Proc : Elsewhere(p) \subseteq Elsewhere(p)'
  BY <1>2, OnwardLasts
<1> TAKE p \in Proc
<1>4. deleted[r] = {}
  BY <1>1 DEF DeletedByStarted
<1>5. Deleted(p)' \subseteq Deleted(p) /\ Replaced(p)' \subseteq Replaced(p)
  BY <1>1, <1>4 DEF Replaced, Deleted
<1>6. \A m \in Req : BumpOwed(p, m) => BumpOwed(p, m)'
  BY <1>1 DEF BumpOwed
<1>7. \A n \in NS : Acknowledged(p, n)' \subseteq Acknowledged(p, n)
  BY <1>1 DEF Acknowledged
<1>8. \A m \in Req : Explained(p, m) => Explained(p, m)'
  BY <1>1, <1>3, <1>6 DEF Explained, Onward
<1> QED
  BY <1>1, <1>3, <1>5, <1>7, <1>8, NothingTold

\* What a process does to another: its recovery takes rows of forgets that stopped, of contested
\* memories, and nothing else that was there.
ProcessStep ==
    /\ UNCHANGED <<pc, job, cur, superseded, deleted>>
    /\ halted \subseteq halted' /\ contested \subseteq contested'
    /\ rows' \subseteq rows /\ rows' \ invalid' \subseteq rows \ invalid
    /\ (invalid \ invalid') \cap rows' = {}
    /\ \A m \in (rows \ invalid) \ (rows' \ invalid') :
         \/ m \in contested
         \/ \E f \in Req : /\ IsForget(f) /\ cur[f] = m /\ pc[f] \in {"erase", "complete"}
                           /\ f \in halted /\ m \in job[f].ids

LEMMA ProcessStepsOn ==
  ASSUME IInv, IInv', ReplacedAreGone, ProcessStep,
         NEW p \in Proc, gen'[p] = gen[p], proc[p].pc = "up" => proc'[p].pc = "up"
  PROVE  StepsOn(p)
<1> USE DEF ProcessStep
<1>1. Lasting
  BY DEF Lasting
<1>2. Onward /\ Elsewhere(p) \subseteq Elsewhere(p)'
  BY <1>1, OnwardLasts
<1>3. Deleted(p)' \subseteq Deleted(p) /\ Replaced(p)' \subseteq Replaced(p)
  BY DEF Replaced, Deleted
<1>4. \A m \in Req : BumpOwed(p, m) => BumpOwed(p, m)'
  BY DEF BumpOwed
<1>5. \A n \in NS : Acknowledged(p, n)' \subseteq Acknowledged(p, n)
  BY DEF Acknowledged
<1>6. ASSUME NEW m \in Req, m \in rows \ invalid, m \notin rows' \ invalid'
      PROVE  BumpOwed(p, m)' \/ m \in Elsewhere(p)'
  <2>1. CASE m \in contested
    BY <2>1 DEF Elsewhere
  <2>2. CASE m \notin contested
    <3>1. PICK f \in Req : /\ IsForget(f) /\ cur[f] = m /\ pc[f] \in {"erase", "complete"}
                           /\ f \in halted /\ m \in job[f].ids
      BY <1>6, <2>2
    <3> QED
      BY <3>1, <1>6 DEF BumpOwed, Elsewhere
  <2> QED
    BY <2>1, <2>2
<1>7. \A m \in Req : Explained(p, m) => Explained(p, m)'
  BY <1>2, <1>4, <1>6 DEF Explained, Onward
<1> QED
  BY <1>2, <1>3, <1>5, <1>7, NothingTold

LEMMA ProcessesStep ==
  ASSUME IInv, RecoveryFollows, NEW p \in Proc, StartProcess(p) \/ Recover(p) \/ Crash(p)
  PROVE  ProcessStep
<1> USE DEF ProcessStep
<1>1. CASE RecoverDeleteRow(p)
  <2>1. proc[p].pc = "row" /\ rows' = rows \ {proc[p].cur[2]}
        /\ invalid' = invalid \ {proc[p].cur[2]}
        /\ UNCHANGED <<pc, job, cur, superseded, deleted, halted, contested>>
    BY <1>1 DEF RecoverDeleteRow
  <2>2. proc[p].cur \in Op
    BY <2>1 DEF IInv, RecoveryKnows, Knows, SharedInv, TypeOK, ProcState
  <2>3. PICK f \in Req, m \in Req : proc[p].cur = <<f, m>>
    BY <2>2 DEF Op
  <2>4. m \notin contested =>
          f \in halted /\ pc[f] \in {"commit", "erase", "complete"} /\ cur[f] = m
          /\ <<f, m>> \in proc[p].seen
    BY <2>1, <2>3 DEF IInv, RecoveryKnows, Knows, RecoveryFollows
  <2>5. pc[f] = "commit" /\ m \notin contested => m \notin rows
    BY <2>4 DEF IInv, RecoveryKnows, Knows, SharedInv, OnDisk, KindMatchesPC
  <2>6. pc[f] \in {"erase", "complete"} => IsForget(f) /\ cur[f] \in job[f].ids
    BY DEF IInv, SharedInv, KindMatchesPC, ForgetOrder
  <2> QED
    BY <2>1, <2>3, <2>4, <2>5, <2>6
<1>2. CASE StartProcess(p)
  BY <1>2 DEF StartProcess
<1>3. CASE RecoverNext(p) \/ RecoverDeleteVector(p) \/ RecoverClear(p) \/ RecoverDone(p)
  BY <1>3 DEF RecoverNext, RecoverDeleteVector, RecoverClear, RecoverDone
<1>4. CASE Crash(p)
  BY <1>4 DEF Crash
<1> QED
  BY <1>1, <1>2, <1>3, <1>4 DEF Recover

\* Every step that no process ends with.
LEMMA WorkStepsOn ==
  ASSUME IInv, IInv', ReplacedAreGone, DeletedByStarted, RecoveryFollows, Work
  PROVE  \A p \in Proc : StepsOn(p)
<1>1. ASSUME NEW o \in Proc, StartProcess(o) \/ Recover(o) PROVE \A p \in Proc : StepsOn(p)
  <2> TAKE p \in Proc
  <2>1. ProcessStep
    BY <1>1, ProcessesStep
  <2>2. gen' = gen /\ (proc[p].pc = "up" => proc'[p].pc = "up")
    <3>1. gen' = gen /\ proc[o].pc # "up" /\ (p # o => proc'[p] = proc[p])
      BY <1>1 DEF StartProcess, Recover, RecoverNext, RecoverDeleteVector, RecoverDeleteRow,
         RecoverClear, RecoverDone, IInv, SharedInv, TypeOK
    <3> QED
      BY <3>1
  <2> QED
    BY <2>1, <2>2, ProcessStepsOn
<1>2. ASSUME NEW r \in Req, RequestStep(r) PROVE \A p \in Proc : StepsOn(p)
  BY <1>2, QuietRequests, CommitStepsOn, DeleteRowStepsOn, BumpStepsOn DEF RequestStep
<1>3. ASSUME NEW r \in Req, Abandon(r) PROVE \A p \in Proc : StepsOn(p)
  <2>1. ProcessStep /\ UNCHANGED <<proc, gen>>
    BY <1>3 DEF Abandon, ProcessStep
  <2> QED
    BY <2>1, ProcessStepsOn
<1> QED
  BY <1>1, <1>2, <1>3, StartStepsOn DEF Work

\* A process survives the end of another.
LEMMA CrashStepsOn ==
  ASSUME IInv, IInv', ReplacedAreGone, RecoveryFollows, NEW o \in Proc, Crash(o),
         NEW p \in Proc, p # o
  PROVE  StepsOn(p)
<1>1. ProcessStep
  BY ProcessesStep
<1>2. proc'[p] = proc[p] /\ gen'[p] = gen[p]
  BY DEF Crash, IInv, SharedInv, TypeOK
<1> QED
  BY <1>1, <1>2, ProcessStepsOn

-----------------------------------------------------------------------------
(* What the write path leaves to recalls *)

\* What a set has to have stays so.
LEMMA HasLasts ==
  ASSUME Onward, NEW ids, NEW wanted \in SUBSET Req, \A m \in wanted : Committed(m),
         Has(ids, wanted)
  PROVE  \A m \in wanted : m \in ids \/ Excused(m)'
  BY DEF Onward, Has

LEMMA OfNamespaceLasts ==
  ASSUME Onward, NEW ids \in SUBSET Req, NEW n, OfNamespace(ids, n)
  PROVE  \A m \in ids : pc'[m] # "idle" /\ job'[m].ns = n
  BY DEF Onward, OfNamespace

\* A set of the current generation is right until that generation ends.
LEMMA FreshLasts ==
  ASSUME NEW p \in Proc, NEW n \in NS, StepsOn(p), NEW g \in Nat, NEW ids \in SUBSET Req,
         OfNamespace(ids, n), g <= gen[p][n], gen[p][n] \in Nat, gen'[p][n] \in Nat,
         Fresh(p, n, g, ids)
  PROVE  Fresh(p, n, g, ids)'
<1> SUFFICES ASSUME g = gen'[p][n]
             PROVE  /\ ids \cap Deleted(p)' = {}
                    /\ ids \cap Retired(p)' \subseteq ReplacedAcross'
                    /\ Has(ids, Acknowledged(p, n))'
                    /\ \A m \in ids : Explained(p, m)'
  BY DEF Fresh
<1>1. g = gen[p][n] /\ gen'[p][n] = gen[p][n]
  BY DEF StepsOn, Onward
<1>2. /\ ids \cap Deleted(p) = {} /\ ids \cap Retired(p) \subseteq ReplacedAcross
      /\ Has(ids, Acknowledged(p, n))
      /\ \A m \in ids : Explained(p, m)
  BY <1>1 DEF Fresh
<1>3. \A m \in ids : pc[m] # "idle" /\ job[m].ns = n
  BY DEF OfNamespace
<1>4. Leaves(p, n) /\ Onward
  BY <1>1 DEF StepsOn, Onward
<1>5. /\ \A m \in ids : Explained(p, m)'
      /\ ids \cap Deleted(p)' = {} /\ ids \cap Retired(p)' \subseteq ReplacedAcross'
  BY <1>2, <1>3, <1>4 DEF Leaves, Onward
<1>6. Has(ids, Acknowledged(p, n))'
  <2>1. Acknowledged(p, n)' \subseteq Acknowledged(p, n) /\ Acknowledged(p, n) \subseteq Req
    BY <1>4 DEF Leaves, Acknowledged
  <2>2. \A m \in Acknowledged(p, n) : m \in ids \/ Excused(m)'
    BY <1>2, <1>4, <2>1, HasLasts DEF Acknowledged
  <2> QED
    BY <2>1, <2>2 DEF Has
<1> QED
  BY <1>5, <1>6

LEMMA EntriesKept ==
  ASSUME RecallTypeOK, TypeOK', NEW p \in Proc, NEW n \in NS, StepsOn(p),
         cache'[p][n] = cache[p][n], EntryInv(p, n)
  PROVE  EntryInv(p, n)'
<1> SUFFICES ASSUME cache[p][n] # NoEntry
             PROVE  EntryInv(p, n)'
  BY DEF EntryInv
<1> DEFINE e == cache[p][n]
<1>1. e.gen \in Nat /\ e.results \in SUBSET Req /\ gen[p][n] \in Nat /\ gen'[p][n] \in Nat
  BY DEF RecallTypeOK, TypeOK
<1>2. proc[p].pc = "up" /\ e.gen <= gen[p][n] /\ OfNamespace(e.results, n)
      /\ Fresh(p, n, e.gen, e.results)
  BY DEF EntryInv
<1>3. proc'[p].pc = "up" /\ e.gen <= gen'[p][n]
  BY <1>1, <1>2 DEF StepsOn, Onward
<1> HIDE DEF e
<1>4. OfNamespace(e.results, n)' /\ Fresh(p, n, e.gen, e.results)'
  <2>1. OfNamespace(e.results, n)'
    <3>1. \A m \in e.results : pc'[m] # "idle" /\ job'[m].ns = n
      BY <1>1, <1>2 DEF StepsOn, Onward, OfNamespace
    <3> QED
      BY <3>1 DEF OfNamespace, e
  <2> QED
    BY <1>1, <1>2, <2>1, FreshLasts DEF e
<1> QED
  BY <1>3, <1>4 DEF EntryInv, e

\* A recall that takes no step.
Still(q) ==
    /\ rpc'[q] = rpc[q] /\ asked'[q] = asked[q] /\ read'[q] = read[q]
    /\ current'[q] = current[q] /\ pool'[q] = pool[q] /\ answer'[q] = answer[q]
    /\ due'[q] = due[q] /\ erased'[q] = erased[q] /\ gone'[q] = gone[q]

LEMMA ReadersKept ==
  ASSUME RecallTypeOK, TypeOK', NEW q \in Reader, StepsOn(asked[q].proc), Still(q), ReaderInv(q)
  PROVE  ReaderInv(q)'
<1> SUFFICES ASSUME rpc[q] # "idle"
             PROVE  ReaderInv(q)'
  BY DEF ReaderInv, Still
<1> DEFINE p == asked[q].proc
           n == asked[q].ns
<1> USE DEF Still
<1>2. /\ p \in Proc /\ n \in NS /\ read[q] \in Nat /\ current[q] \in Nat
      /\ pool[q] \in SUBSET Req /\ answer[q] \in SUBSET Req /\ due[q] \in SUBSET Req
      /\ erased[q] \in SUBSET Req /\ gone[q] \in SUBSET Req /\ gen[p][n] \in Nat /\ gen'[p][n] \in Nat
  BY DEF RecallTypeOK, TypeOK
<1>3. p' = p /\ n' = n
  OBVIOUS
<1>4. /\ proc[p].pc = "up"
      /\ rpc[q] # "generation" => read[q] <= gen[p][n]
      /\ rpc[q] = "peek" => read[q] <= current[q] /\ current[q] <= gen[p][n]
      /\ \A m \in due[q] : Committed(m) /\ job[m].ns = n
      /\ erased[q] \subseteq gone[q]
      /\ \A m \in gone[q] : Committed(m) /\ m \notin rows \ invalid
      /\ rpc[q] = "fetch" =>
          /\ OfNamespace(pool[q], n) /\ Has(pool[q], due[q])
          /\ read[q] = gen[p][n] => Has(pool[q], Acknowledged(p, n))
      /\ rpc[q] \in {"put", "done"} =>
          Has(answer[q], due[q]) /\ Omits(q, answer[q])
      /\ rpc[q] = "put" => OfNamespace(answer[q], n) /\ Fresh(p, n, read[q], answer[q])
  BY DEF ReaderInv, MyGeneration
<1>0. StepsOn(p)
  OBVIOUS
<1> HIDE DEF p, n
<1>5. proc'[p].pc = "up" /\ gen[p][n] <= gen'[p][n]
  BY <1>0, <1>2, <1>4 DEF StepsOn, Onward
<1>6. /\ rpc[q] # "generation" => read[q] <= gen'[p][n]
      /\ rpc[q] = "peek" => read[q] <= current[q] /\ current[q] <= gen'[p][n]
  BY <1>2, <1>4, <1>5
<1>7. \A m \in Req : Committed(m) => pc[m] # "idle"
  BY DEF Committed
<1>8. \A m \in due[q] : Committed(m)' /\ job'[m].ns = n
  BY <1>0, <1>2, <1>4, <1>7 DEF StepsOn, Onward
<1>9. \A m \in gone[q] : Committed(m)' /\ m \notin rows' \ invalid'
  BY <1>0, <1>2, <1>4 DEF StepsOn, Onward
<1>10. /\ rpc[q] = "fetch" => \A m \in pool[q] : pc'[m] # "idle" /\ job'[m].ns = n
       /\ rpc[q] = "put" => \A m \in answer[q] : pc'[m] # "idle" /\ job'[m].ns = n
  BY <1>0, <1>2, <1>4 DEF StepsOn, Onward, OfNamespace
<1>11. \A ids : Has(ids, due[q]) =>
         \A m \in due[q] : m \in ids \/ Excused(m)'
  BY <1>0, <1>2, <1>4 DEF StepsOn, Onward, Has, Omits
<1>12. read[q] = gen'[p][n] /\ rpc[q] = "fetch" => Has(pool[q], Acknowledged(p, n))'
  <2> SUFFICES ASSUME read[q] = gen'[p][n], rpc[q] = "fetch"
               PROVE  Has(pool[q], Acknowledged(p, n))'
    OBVIOUS
  <2>1. read[q] = gen[p][n] /\ gen'[p][n] = gen[p][n]
    BY <1>2, <1>4, <1>5
  <2>2. Acknowledged(p, n)' \subseteq Acknowledged(p, n) /\ Acknowledged(p, n) \subseteq Req
    BY <1>0, <1>2, <1>3, <2>1 DEF StepsOn, Leaves, Acknowledged
  <2>3. \A m \in Acknowledged(p, n) : Committed(m)
    BY DEF Acknowledged, Committed
  <2>4. Has(pool[q], Acknowledged(p, n))
    BY <1>4, <2>1
  <2> QED
    BY <1>0, <2>2, <2>3, <2>4 DEF StepsOn, Onward, Has, Omits
<1>13. rpc[q] = "put" => Fresh(p, n, read[q], answer[q])'
  <2> SUFFICES ASSUME rpc[q] = "put"
               PROVE  Fresh(p, n, read[q], answer[q])'
    OBVIOUS
  <2>1. OfNamespace(answer[q], n) /\ read[q] <= gen[p][n] /\ Fresh(p, n, read[q], answer[q])
    BY <1>4 DEF OfNamespace
  <2> QED
    BY <1>0, <1>2, <1>3, <2>1, FreshLasts
<1>14. /\ rpc[q] = "fetch" => OfNamespace(pool[q], n)'
       /\ rpc[q] = "put" => OfNamespace(answer[q], n)'
  BY <1>3, <1>10 DEF OfNamespace
<1>15. /\ rpc[q] = "fetch" => Has(pool[q], due[q])'
       /\ rpc[q] \in {"put", "done"} => Has(answer[q], due[q])'
  BY <1>4, <1>11 DEF Has, Omits
<1> QED
  <2>1. MyGeneration(q)' = gen'[p][n] /\ asked'[q].proc = p /\ asked'[q].ns = n
    BY DEF MyGeneration, p, n
  <2>2. /\ proc'[asked'[q].proc].pc = "up"
        /\ rpc'[q] # "generation" => read'[q] <= MyGeneration(q)'
        /\ rpc'[q] = "peek" => read'[q] <= current'[q] /\ current'[q] <= MyGeneration(q)'
    BY <1>5, <1>6, <2>1
  <2>3. /\ \A m \in due'[q] : Committed(m)' /\ job'[m].ns = asked'[q].ns
        /\ erased'[q] \subseteq gone'[q]
        /\ \A m \in gone'[q] : Committed(m)' /\ m \notin rows' \ invalid'
    BY <1>4, <1>8, <1>9, <2>1
  <2>4. /\ rpc'[q] = "fetch" => OfNamespace(pool[q], asked[q].ns)'
        /\ rpc'[q] = "put" => OfNamespace(answer[q], asked[q].ns)'
    BY <1>14 DEF n
  <2>5. rpc'[q] = "fetch" =>
          /\ Has(pool[q], due[q])'
          /\ read'[q] = MyGeneration(q)' => Has(pool[q], Acknowledged(asked[q].proc, asked[q].ns))'
    BY <1>12, <1>15, <2>1 DEF p, n
  <2>6. rpc'[q] \in {"put", "done"} => Has(answer[q], due[q])' /\ Omits(q, answer[q])'
    BY <1>0, <1>4, <1>15 DEF StepsOn, Onward, Omits
  <2>7. rpc'[q] = "put" => Fresh(asked[q].proc, asked[q].ns, read[q], answer[q])'
    BY <1>13 DEF p, n
  <2> QED
    BY <2>2, <2>3, <2>4, <2>5, <2>6, <2>7 DEF ReaderInv

LEMMA FloorRises ==
  ASSUME RecallTypeOK, TypeOK', NEW q \in Reader, StepsOn(asked[q].proc),
         Still(q), ReaderInv(q), Taking(q)
  PROVE  /\ Floor(q) \in Nat /\ Floor(q)' \in Nat /\ Floor(q) <= Floor(q)'
         /\ ReplacedAcross \subseteq ReplacedAcross'
         /\ \A ids : Has(ids, due[q]) =>
              \A m \in due[q] : m \in ids \/ Excused(m)'
<1>1. asked[q].proc \in Proc /\ asked[q].ns \in NS /\ due[q] \in SUBSET Req
  BY DEF RecallTypeOK
<1>2. Floor(q) \in Nat /\ Floor(q)' \in Nat /\ Floor(q) <= Floor(q)'
  BY <1>1 DEF Floor, MyGeneration, StepsOn, Onward, RecallTypeOK, TypeOK, Still
<1>3. \A ids : Has(ids, due[q]) =>
         \A m \in due[q] : m \in ids \/ Excused(m)'
  BY <1>1 DEF StepsOn, Onward, Has, Omits, ReaderInv, Taking
<1> QED
  BY <1>2, <1>3 DEF StepsOn, Onward

LEMMA TakesEntryKept ==
  ASSUME RecallTypeOK, TypeOK', NEW q \in Reader, StepsOn(asked[q].proc), Still(q),
         MyEntry(q)' = MyEntry(q), ReaderInv(q), TakesEntry(q)
  PROVE  TakesEntry(q)'
<1> SUFFICES ASSUME Taking(q), MyEntry(q) # NoEntry
             PROVE  Suits(q, MyEntry(q).gen, MyEntry(q).results)'
  BY DEF TakesEntry, Taking, Still
<1>1. MyEntry(q).gen \in Nat
  BY DEF MyEntry, RecallTypeOK
<1>2. Suits(q, MyEntry(q).gen, MyEntry(q).results)
  BY DEF TakesEntry
<1> QED
  BY <1>1, <1>2, FloorRises DEF Suits, Has, Omits, Still

LEMMA TakesFromKept ==
  ASSUME RecallTypeOK, TypeOK', NEW q \in Reader, NEW o \in Reader,
         StepsOn(asked[q].proc), Still(q), Still(o),
         ReaderInv(q), TakesFrom(q, o)
  PROVE  TakesFrom(q, o)'
<1> SUFFICES ASSUME Taking(q), asked[o] = asked[q]
             PROVE  /\ rpc[o] = "put" => Suits(q, read[o], answer[o])'
                    /\ rpc[o] = "fetch" /\ read[o] >= Floor(q)' => Has(pool[o], due[q])'
  BY DEF TakesFrom, Taking, Still
<1>1. read[o] \in Nat
  BY DEF RecallTypeOK
<1>2. /\ rpc[o] = "put" => Suits(q, read[o], answer[o])
      /\ rpc[o] = "fetch" /\ read[o] >= Floor(q) => Has(pool[o], due[q])
  BY DEF TakesFrom
<1>3. rpc[o] = "put" => Suits(q, read[o], answer[o])'
  BY <1>1, <1>2, FloorRises DEF Suits, Has, Omits, Still
<1>4. rpc[o] = "fetch" /\ read[o] >= Floor(q)' => Has(pool[o], due[q])'
  BY <1>1, <1>2, FloorRises DEF Has, Omits, Still
<1> QED
  BY <1>3, <1>4

-----------------------------------------------------------------------------
(* What a store replaces *)

\* Steps that add no request, commit nothing and choose nothing to replace.
LEMMA ReplacedKept ==
  ASSUME ReplacedAreGone, UNCHANGED <<job, superseded>>,
         \A m \in Req : /\ pc[m] = "idle" <=> pc'[m] = "idle"
                        /\ pc'[m] \in {"check", "lookup"} => pc'[m] = pc[m]
                        /\ Committed(m) <=> Committed(m)',
         \A m \in Req : Committed(m) /\ m \notin rows \ invalid => m \notin rows' \ invalid',
         TypeOK
  PROVE  ReplacedAreGone'
<1>1. \A r \in Req : superseded[r] \subseteq Req
  BY DEF TypeOK
<1>2. \A r \in Req : \A m \in superseded[r] :
        /\ pc'[r] \notin {"idle", "check", "lookup"} /\ Committed(m)'
        /\ Committed(r)' => m \notin rows' \ invalid'
  BY <1>1 DEF ReplacedAreGone
<1> QED
  BY <1>2 DEF ReplacedAreGone

LEMMA StartReplaces ==
  ASSUME IInv, ReplacedAreGone, NEW r \in Req, NEW p \in Proc, NEW i \in Inputs, Start(r, p, i)
  PROVE  ReplacedAreGone'
<1>1. /\ pc[r] = "idle" /\ \A q \in Req : q # r => pc'[q] = pc[q] /\ job'[q] = job[q]
      /\ UNCHANGED <<superseded, rows, invalid>>
  BY DEF IInv, SharedInv, TypeOK, Start
<1>2. \A q \in Req : superseded[q] \subseteq Req
  BY DEF IInv, SharedInv, TypeOK
<1>3. \A q \in Req : \A m \in superseded[q] : q # r /\ m # r /\ m \in Req
  BY <1>1, <1>2 DEF ReplacedAreGone
<1> QED
  BY <1>1, <1>3 DEF ReplacedAreGone

\* The checks choose committed memories.
LEMMA ChecksReplace ==
  ASSUME IInv, ReplacedAreGone, NEW r \in Req, ConflictCheck(r) \/ SupersedeLookup(r)
  PROVE  ReplacedAreGone'
<1>1. /\ pc[r] \in {"check", "lookup"} /\ pc'[r] \in {"journal", "rejected"}
      /\ \A q \in Req : q # r => pc'[q] = pc[q] /\ superseded'[q] = superseded[q]
      /\ superseded'[r] \in {superseded[r], SameFact(r), Supersedable(r)}
      /\ UNCHANGED <<job, rows, invalid>>
  BY DEF IInv, SharedInv, TypeOK, ConflictCheck, SupersedeLookup
<1>2. \A q \in Req : superseded[q] \subseteq Req
  BY DEF IInv, SharedInv, TypeOK
<1>3. \A m \in superseded'[r] : m \in Req /\ Committed(m)
  <2>1. \A m \in rows : m \in Req /\ Committed(m)
    BY DEF IInv, SharedInv, TypeOK, OnDisk
  <2>2. superseded[r] = {}
    BY <1>1 DEF ReplacedAreGone
  <2>3. SameFact(r) \subseteq rows /\ Supersedable(r) \subseteq rows
    BY DEF SameFact, Supersedable
  <2> QED
    BY <1>1, <2>1, <2>2, <2>3
<1>4. \A q \in Req : \A m \in superseded[q] : q # r /\ m # r /\ m \in Req
  BY <1>1, <1>2 DEF ReplacedAreGone
<1>5. ASSUME NEW q \in Req, NEW m \in superseded'[q]
      PROVE  /\ pc'[q] \notin {"idle", "check", "lookup"} /\ Committed(m)'
             /\ Committed(q)' => m \notin rows' \ invalid'
  <2>1. CASE q = r
    BY <2>1, <1>1, <1>3, <1>5
  <2>2. CASE q # r
    BY <2>2, <1>1, <1>4, <1>5 DEF ReplacedAreGone
  <2> QED
    BY <2>1, <2>2
<1> QED
  BY <1>5 DEF ReplacedAreGone

LEMMA CommitReplaces ==
  ASSUME IInv, ReplacedAreGone, NEW r \in Req, CommitMemoryWrite(r)
  PROVE  ReplacedAreGone'
<1>1. /\ pc[r] = "commit" /\ pc'[r] = "bump" /\ \A q \in Req : q # r => pc'[q] = pc[q]
      /\ rows' = rows \cup {r} /\ invalid' = invalid \cup (superseded[r] \cap rows)
      /\ UNCHANGED <<job, superseded>>
  BY DEF IInv, SharedInv, TypeOK, CommitMemoryWrite
<1>2. \A q \in Req : superseded[q] \subseteq Req
  BY DEF IInv, SharedInv, TypeOK
<1>3. ASSUME NEW q \in Req, NEW m \in superseded[q]
      PROVE  /\ pc'[q] \notin {"idle", "check", "lookup"} /\ Committed(m)'
             /\ Committed(q)' => m \notin rows' \ invalid'
  <2>1. m \in Req /\ Committed(m) /\ m # r /\ pc[q] \notin {"idle", "check", "lookup"}
    BY <1>1, <1>2, <1>3 DEF ReplacedAreGone
  <2>2. CASE q = r
    BY <2>1, <2>2, <1>1, <1>3
  <2>3. CASE q # r
    BY <2>1, <2>3, <1>1, <1>3 DEF ReplacedAreGone
  <2> QED
    BY <2>2, <2>3
<1> QED
  BY <1>1, <1>3 DEF ReplacedAreGone

LEMMA StepReplaces ==
  ASSUME IInv, ReplacedAreGone, RecoveryFollows, Next
  PROVE  ReplacedAreGone'
<1>1. TypeOK
  BY DEF IInv, SharedInv
<1>2. ASSUME NEW r \in Req, RequestStep(r)
      PROVE  ReplacedAreGone'
  <2>1. CASE ConflictCheck(r) \/ SupersedeLookup(r)
    BY <2>1, ChecksReplace
  <2>2. CASE CommitMemoryWrite(r)
    BY <2>2, CommitReplaces
  <2>3. CASE \/ DedupCheck(r) \/ GetMemory(r) \/ ForgetDone(r) \/ InsertPendingOp(r)
             \/ UpsertVector(r) \/ DeleteVector(r) \/ MarkQdrantWritten(r)
    <3>1. /\ pc[r] \notin {"idle", "ok", "bump"}
          /\ pc'[r] \notin {"idle", "check", "lookup", "bump"}
          /\ pc'[r] = "ok" => IsForget(r)
          /\ \A q \in Req : q # r => pc'[q] = pc[q]
          /\ UNCHANGED <<job, superseded, rows, invalid>>
      BY <2>3, <1>1 DEF TypeOK, IInv, SharedInv, KindMatchesPC, DedupCheck, GetMemory, ForgetDone,
         InsertPendingOp, UpsertVector, DeleteVector, MarkQdrantWritten
    <3>2. IsForget(r) => ~IsWrite(r)
      OBVIOUS
    <3> QED
      BY <3>1, <3>2, <1>1, ReplacedKept
  <2>4. CASE DeleteRow(r) \/ CompleteForget(r)
    <3>1. /\ pc[r] \in {"erase", "complete"} /\ pc'[r] \in {"complete", "bump"}
          /\ \A q \in Req : q # r => pc'[q] = pc[q]
          /\ UNCHANGED <<job, superseded>> /\ rows' \ invalid' \subseteq rows \ invalid
      BY <2>4, <1>1 DEF TypeOK, DeleteRow, CompleteForget
    <3>2. ~IsWrite(r)
      BY <3>1 DEF IInv, SharedInv, KindMatchesPC
    <3> QED
      BY <3>1, <3>2, <1>1, ReplacedKept
  <2>5. CASE BumpGeneration(r)
    <3>1. /\ pc[r] = "bump" /\ pc'[r] \in {"ok", "get"}
          /\ IsForget(r) \/ pc'[r] = "ok"
          /\ \A q \in Req : q # r => pc'[q] = pc[q]
          /\ UNCHANGED <<job, superseded, rows, invalid>>
      BY <2>5, <1>1 DEF TypeOK, BumpGeneration
    <3>2. IsForget(r) => ~IsWrite(r)
      OBVIOUS
    <3> QED
      BY <3>1, <3>2, <1>1, ReplacedKept
  <2> QED
    BY <1>2, <2>1, <2>2, <2>3, <2>4, <2>5 DEF RequestStep
<1>3. ASSUME NEW r \in Req, Abandon(r) PROVE ReplacedAreGone'
  <2>1. UNCHANGED <<pc, job, superseded, rows, invalid>>
    BY <1>3 DEF Abandon
  <2> QED
    BY <2>1, <1>1, ReplacedKept
<1>4. ASSUME NEW p \in Proc, StartProcess(p) \/ Recover(p) \/ Crash(p) PROVE ReplacedAreGone'
  <2>1. ProcessStep
    BY <1>4, ProcessesStep
  <2> QED
    BY <2>1, <1>1, ReplacedKept DEF ProcessStep
<1> QED
  BY <1>2, <1>3, <1>4, StartReplaces DEF Next, Work

\* A request moves itself only.
LEMMA RequestsMove ==
  ASSUME TypeOK, NEW r \in Req, RequestStep(r)
  PROVE  /\ pc[r] # "idle" /\ pc'[r] # "idle" /\ r \notin halted
         /\ \A q \in Req : q # r => pc'[q] = pc[q] /\ cur'[q] = cur[q] /\ deleted'[q] = deleted[q]
         /\ UNCHANGED <<halted, proc, contested>>
<1> USE DEF TypeOK
<1>1. CASE DedupCheck(r) \/ ConflictCheck(r) \/ SupersedeLookup(r) \/ GetMemory(r) \/ ForgetDone(r)
  BY <1>1 DEF DedupCheck, ConflictCheck, SupersedeLookup, GetMemory, ForgetDone
<1>2. CASE InsertPendingOp(r) \/ UpsertVector(r) \/ DeleteVector(r) \/ MarkQdrantWritten(r)
  BY <1>2 DEF InsertPendingOp, UpsertVector, DeleteVector, MarkQdrantWritten
<1>3. CASE CommitMemoryWrite(r) \/ DeleteRow(r) \/ CompleteForget(r)
  BY <1>3 DEF CommitMemoryWrite, DeleteRow, CompleteForget
<1>4. CASE BumpGeneration(r)
  BY <1>4 DEF BumpGeneration
<1> QED
  BY <1>1, <1>2, <1>3, <1>4 DEF RequestStep

\* Recovery takes for a forget what that forget stopped at: an op that is in the journal as it
\* was read, whose handler is gone.
LEMMA StepFollows ==
  ASSUME IInv, RecoveryFollows, Next
  PROVE  RecoveryFollows'
<1>1. TypeOK
  BY DEF IInv, SharedInv
<1>2. ASSUME NEW p \in Proc, NEW r \in Req, NEW m \in Req,
             proc[p].pc \in {"vector", "row"}, proc[p].cur = <<r, m>>
      PROVE  m \in contested \/ (cur[r] = m /\ r \in halted /\ pc[r] # "idle")
  BY <1>2 DEF RecoveryFollows, IInv, RecoveryKnows, Knows
<1>3. ASSUME NEW o \in Proc, StartProcess(o) \/ Recover(o) \/ Crash(o) PROVE RecoveryFollows'
  <2> SUFFICES ASSUME NEW p \in Proc, NEW r \in Req, NEW m \in Req,
                      proc'[p].pc \in {"vector", "row"}, proc'[p].cur = <<r, m>>,
                      m \notin contested'
               PROVE  cur'[r] = m
    BY DEF RecoveryFollows
  <2>1. ProcessStep
    BY <1>3, ProcessesStep
  <2>2. CASE proc'[p].pc = proc[p].pc /\ proc'[p].cur = proc[p].cur
    BY <2>1, <2>2, <1>2 DEF ProcessStep
  <2>3. CASE RecoverNext(o)
    <3>1. CASE p = o
      <4>1. /\ RecoveryStep(p, <<r, m>>) \in {"vector", "row"} /\ ~Stale(p, <<r, m>>)
            /\ UNCHANGED cur
        <5>1. PICK op \in proc[p].todo :
                /\ proc' = [proc EXCEPT ![p].pc = RecoveryStep(p, op), ![p].cur = op]
                /\ contested' = IF Stale(p, op) THEN contested \cup {op[2]} ELSE contested
                /\ UNCHANGED cur
          BY <2>3, <3>1 DEF RecoverNext
        <5>2. proc'[p].pc = RecoveryStep(p, op) /\ proc'[p].cur = op
          BY <5>1, <1>1 DEF TypeOK, ProcState
        <5>3. op = <<r, m>> /\ op[2] = m
          BY <5>2
        <5>4. ~Stale(p, op)
          BY <5>1, <5>3
        <5> QED
          BY <5>1, <5>2, <5>3, <5>4
      <4>2. <<r, m>> \notin completed /\ <<r, m>> \in proc[p].seen
        BY <4>1 DEF RecoveryStep
      <4>3. <<r, m>> \in pending
        BY <4>1, <4>2, <1>1 DEF Stale, TypeOK
      <4> QED
        BY <4>1, <4>3 DEF IInv, JournalMatchesPC
    <3>2. CASE p # o
      BY <2>2, <2>3, <3>2, <1>1 DEF RecoverNext, TypeOK
    <3> QED
      BY <3>1, <3>2
  <2>4. CASE RecoverDeleteVector(o)
    BY <2>1, <2>4, <1>1, <1>2 DEF RecoverDeleteVector, ProcessStep, TypeOK
  <2>5. CASE RecoverDeleteRow(o) \/ RecoverClear(o) \/ RecoverDone(o)
    <3>1. proc'[o].pc \notin {"vector", "row"} /\ (p # o => proc'[p] = proc[p])
      BY <2>5, <1>1 DEF RecoverDeleteRow, RecoverClear, RecoverDone, TypeOK, ProcState
    <3> QED
      BY <2>2, <3>1
  <2>6. CASE StartProcess(o) \/ Crash(o)
    BY <2>1, <2>6, <1>1, <1>2 DEF StartProcess, Crash, Down, ProcessStep, TypeOK
  <2> QED
    BY <1>3, <2>3, <2>4, <2>5, <2>6 DEF Recover
<1>4. ASSUME NEW r \in Req, RequestStep(r) PROVE RecoveryFollows'
  BY <1>1, <1>2, <1>4, RequestsMove DEF RecoveryFollows
<1>5. ASSUME NEW r \in Req, Abandon(r) PROVE RecoveryFollows'
  BY <1>5 DEF Abandon, RecoveryFollows
<1>6. ASSUME NEW r \in Req, NEW p \in Proc, NEW i \in Inputs, Start(r, p, i) PROVE RecoveryFollows'
  BY <1>6 DEF Start, RecoveryFollows
<1> QED
  BY <1>3, <1>4, <1>5, <1>6 DEF Next, Work

LEMMA StepStarted ==
  ASSUME IInv, RecoveryFollows, DeletedByStarted, Next
  PROVE  DeletedByStarted'
<1>1. TypeOK
  BY DEF IInv, SharedInv
<1>2. ASSUME NEW r \in Req, RequestStep(r) PROVE DeletedByStarted'
  BY <1>1, <1>2, RequestsMove DEF DeletedByStarted
<1>3. ASSUME NEW r \in Req, Abandon(r) PROVE DeletedByStarted'
  BY <1>3 DEF Abandon, DeletedByStarted
<1>4. ASSUME NEW r \in Req, NEW p \in Proc, NEW i \in Inputs, Start(r, p, i) PROVE DeletedByStarted'
  BY <1>1, <1>4 DEF Start, DeletedByStarted, TypeOK
<1>5. ASSUME NEW o \in Proc, StartProcess(o) \/ Recover(o) \/ Crash(o) PROVE DeletedByStarted'
  BY <1>5, ProcessesStep DEF ProcessStep, DeletedByStarted
<1> QED
  BY <1>2, <1>3, <1>4, <1>5 DEF Next, Work

-----------------------------------------------------------------------------
(* The steps of recalls *)

\* While the memories stand still, they step on trivially.
LEMMA StandStill ==
  ASSUME TypeOK, UNCHANGED vars
  PROVE  /\ \A p \in Proc : StepsOn(p)
         /\ TypeOK' /\ (ReplacedAreGone => ReplacedAreGone')
         /\ (RecoveryFollows => RecoveryFollows') /\ (DeletedByStarted => DeletedByStarted')
         /\ \A p : Retired(p)' = Retired(p) /\ Deleted(p)' = Deleted(p)
         /\ \A p, n : Acknowledged(p, n)' = Acknowledged(p, n)
         /\ ReplacedAcross' = ReplacedAcross
         /\ \A m \in Req : /\ Committed(m)' <=> Committed(m)
                           /\ Excused(m)' <=> Excused(m)
                           /\ \A p : Explained(p, m)' <=> Explained(p, m)
<1>1. UNCHANGED <<pc, job, cur, todo, superseded, deleted, halted, rows, invalid, vectors, proc,
                  gen, pending, written, completed, contested>>
  BY DEF vars, journalVars
<1>2. \A p : Deleted(p)' = Deleted(p) /\ Replaced(p)' = Replaced(p)
  BY <1>1 DEF Deleted, Replaced
<1>3. /\ \A p : Retired(p)' = Retired(p)
      /\ \A p, n : Acknowledged(p, n)' = Acknowledged(p, n)
  BY <1>1, <1>2 DEF Retired, Acknowledged
<1>4. ReplacedAcross' = ReplacedAcross
  BY <1>1 DEF ReplacedAcross
<1>5. \A m \in Req : /\ Committed(m)' <=> Committed(m)
                     /\ Excused(m)' <=> Excused(m)
  BY <1>1 DEF ForgetRequested, Excused
<1>6. \A p : Elsewhere(p)' = Elsewhere(p) /\ \A m \in Req : BumpOwed(p, m)' <=> BumpOwed(p, m)
  BY <1>1 DEF Elsewhere, BumpOwed
<1>7. \A m \in Req : \A p : Explained(p, m)' <=> Explained(p, m)
  BY <1>1, <1>4, <1>6 DEF Explained
<1>8. TypeOK'
  BY <1>1 DEF TypeOK
<1>9. /\ ReplacedAreGone => ReplacedAreGone'
      /\ RecoveryFollows => RecoveryFollows'
      /\ DeletedByStarted => DeletedByStarted'
  BY <1>1 DEF ReplacedAreGone, RecoveryFollows, DeletedByStarted
<1>10. Onward
  BY <1>1, <1>4, <1>5 DEF Onward
<1>11. \A p \in Proc, n \in NS : Leaves(p, n) /\ gen[p][n] \in Nat
  BY <1>2, <1>3, <1>7 DEF Leaves, TypeOK
<1>12. \A p \in Proc : StepsOn(p)
  BY <1>1, <1>10, <1>11 DEF StepsOn
<1> QED
  BY <1>2, <1>3, <1>4, <1>5, <1>7, <1>8, <1>9, <1>12

\* What was deleted or replaced was once stored, and is not available.
LEMMA RetiredAreGone ==
  ASSUME IInv, ReplacedAreGone, NEW p \in Proc
  PROVE  \A m \in Retired(p) : m \in Req /\ Committed(m) /\ m \notin rows \ invalid
<1> TAKE m \in Retired(p)
<1>1. CASE m \in Deleted(p)
  BY <1>1 DEF IInv, SharedInv, TypeOK, ForgetOrder, Deleted
<1>2. CASE m \in Replaced(p)
  BY <1>2 DEF IInv, SharedInv, TypeOK, ReplacedAreGone, Replaced
<1> QED
  BY <1>1, <1>2 DEF Retired

\* What a recall knows is of its process and its namespace.
LEMMA Rigid ==
  ASSUME NEW q \in Reader, NEW p, NEW n, asked'[q].proc = p, asked'[q].ns = n
  PROVE  /\ Acknowledged(asked[q].proc, asked[q].ns)' = Acknowledged(p, n)'
         /\ Fresh(asked[q].proc, asked[q].ns, read[q], answer[q])'
              <=> Fresh(p, n, read[q], answer[q])'
<1>1. Acknowledged(asked[q].proc, asked[q].ns)' = Acknowledged(p, n)'
  BY DEF Acknowledged
<1>2. Deleted(asked[q].proc)' = Deleted(p)' /\ Replaced(asked[q].proc)' = Replaced(p)'
  BY DEF Deleted, Replaced
<1>3. Retired(asked[q].proc)' = Retired(p)'
  BY <1>2 DEF Retired
<1>4. Elsewhere(asked[q].proc)' = Elsewhere(p)'
  BY DEF Elsewhere
<1>5. \A m : BumpOwed(asked[q].proc, m)' <=> BumpOwed(p, m)'
  BY DEF BumpOwed
<1>6. \A m : Explained(asked[q].proc, m)' <=> Explained(p, m)'
  BY <1>4, <1>5 DEF Explained
<1>7. Has(answer[q], Acknowledged(asked[q].proc, asked[q].ns))'
        <=> Has(answer[q], Acknowledged(p, n))'
  BY <1>1 DEF Has
<1> QED
  BY <1>1, <1>2, <1>3, <1>6, <1>7 DEF Fresh

\* Enough for a step of one recall that leaves the cache alone.
LEMMA OneReader ==
  ASSUME RecallInv, UNCHANGED <<vars, cache>>, RecallTypeOK', NEW q \in Reader,
         \A o \in Reader : o # q => Still(o),
         ReaderInv(q)', TakesEntry(q)',
         \A o \in Reader : o # q => TakesFrom(q, o)' /\ TakesFrom(o, q)'
  PROVE  RecallInv'
<1>1. /\ RecallTypeOK /\ TypeOK /\ ReplacedAreGone /\ RecoveryFollows /\ DeletedByStarted
      /\ \A p \in Proc, n \in NS : EntryInv(p, n)
      /\ \A o \in Reader : ReaderInv(o) /\ TakesEntry(o) /\ \A o2 \in Reader : TakesFrom(o, o2)
  BY DEF RecallInv, RecallTypeOK
<1>2. /\ \A p \in Proc : StepsOn(p)
      /\ \A o \in Reader : StepsOn(asked[o].proc)
      /\ TypeOK' /\ ReplacedAreGone' /\ RecoveryFollows' /\ DeletedByStarted'
  BY <1>1, StandStill DEF RecallTypeOK
<1>3. \A p \in Proc, n \in NS : EntryInv(p, n)'
  BY <1>1, <1>2, EntriesKept
<1>4. \A o \in Reader : ReaderInv(o)'
  BY <1>1, <1>2, ReadersKept
<1>5. \A o \in Reader : TakesEntry(o)'
  <2> TAKE o \in Reader
  <2>1. o # q => MyEntry(o)' = MyEntry(o)
    BY DEF MyEntry, Still
  <2> QED
    BY <2>1, <1>1, <1>2, TakesEntryKept
<1>6. \A o, o2 \in Reader : TakesFrom(o, o2)'
  <2>1. TakesFrom(q, q)'
    BY DEF TakesFrom, Taking
  <2> QED
    BY <2>1, <1>1, <1>2, TakesFromKept
<1> QED
  BY <1>2, <1>3, <1>4, <1>5, <1>6 DEF RecallInv

LEMMA StartKeeps ==
  ASSUME IInv, RecallInv, NEW q \in Reader, NEW p \in Proc, NEW n \in NS, RecallStart(q, p, n)
  PROVE  RecallInv'
<1>1. UNCHANGED <<vars, cache>> /\ \A o \in Reader : o # q => Still(o)
  BY DEF RecallStart, RecallGoto, Still
<1>2. /\ RecallTypeOK /\ TypeOK /\ ReplacedAreGone
      /\ \A o \in Reader : ReaderInv(o)
  BY DEF RecallInv, RecallTypeOK
<1>3. /\ proc[p].pc = "up" /\ rpc'[q] = "generation" /\ asked'[q] = [proc |-> p, ns |-> n]
      /\ due'[q] = Acknowledged(p, n) /\ gone'[q] = Retired(p)
      /\ erased'[q] = Deleted(p) /\ Deleted(p) \subseteq Retired(p)
  BY <1>2 DEF RecallStart, RecallGoto, RecallTypeOK, Retired
<1>4. UNCHANGED <<gen, proc, rows, invalid, job>>
  BY <1>1 DEF vars, diskVars, reqVars
<1>5. /\ TypeOK' /\ Retired(p)' = Retired(p) /\ Acknowledged(p, n)' = Acknowledged(p, n)
      /\ ReplacedAcross' = ReplacedAcross
      /\ \A m \in Req : /\ Committed(m)' <=> Committed(m)
                        /\ Excused(m)' <=> Excused(m)
  BY <1>1, <1>2, StandStill
<1>6. Acknowledged(p, n) \subseteq Req /\ \A m \in Acknowledged(p, n) : Committed(m) /\ job[m].ns = n
  BY DEF Acknowledged, Committed
<1>7. RecallTypeOK'
  <2>1. Retired(p) \subseteq Req /\ Deleted(p) \subseteq Req
    BY <1>2, <1>3, RetiredAreGone
  <2>2. [proc |-> p, ns |-> n] \in [proc : Proc, ns : NS]
    OBVIOUS
  <2> QED
    BY <1>2, <1>5, <1>6, <2>1, <2>2 DEF RecallStart, RecallGoto, RecallTypeOK, RecallPC
<1>8. ReaderInv(q)'
  <2>1. \A m \in due'[q] : Committed(m)' /\ job'[m].ns = asked'[q].ns
    BY <1>3, <1>4, <1>5, <1>6
  <2>2. /\ erased'[q] \subseteq gone'[q]
        /\ \A m \in gone'[q] : Committed(m)' /\ m \notin rows' \ invalid'
    BY <1>2, <1>3, <1>4, <1>5, RetiredAreGone
  <2> QED
    BY <1>3, <1>4, <2>1, <2>2 DEF ReaderInv
<1>9. Floor(q)' = gen[p][n] /\ gen[p][n] \in Nat
  BY <1>2, <1>3, <1>4 DEF Floor, MyGeneration, TypeOK
<1>10. ASSUME NEW ids \in SUBSET Req, Has(ids, Acknowledged(p, n))
       PROVE  \A m \in due'[q] : m \in ids \/ Excused(m)'
  BY <1>3, <1>4, <1>5, <1>6, <1>10 DEF Has, Omits
<1>11. TakesEntry(q)'
  <2> DEFINE e == cache[p][n]
  <2>1. MyEntry(q)' = e
    BY <1>1, <1>3 DEF MyEntry
  <2>2. e.gen \in Nat /\ e.results \in SUBSET Req
    BY <1>2 DEF RecallTypeOK
  <2>3. e # NoEntry => e.gen <= gen[p][n] /\ Fresh(p, n, e.gen, e.results)
    BY DEF RecallInv, EntryInv
  <2> HIDE DEF e
  <2>4. e # NoEntry /\ e.gen >= gen[p][n] =>
          /\ \A m \in due'[q] : m \in e.results \/ Excused(m)'
          /\ e.results \cap erased'[q] = {}
          /\ e.results \cap gone'[q] \subseteq ReplacedAcross'
    BY <1>3, <1>5, <1>9, <1>10, <2>2, <2>3 DEF Fresh
  <2> QED
    BY <1>9, <2>1, <2>4 DEF TakesEntry, Suits, Has, Omits
<1>12. ASSUME NEW o \in Reader, o # q
       PROVE  TakesFrom(q, o)' /\ TakesFrom(o, q)'
  <2>1. TakesFrom(o, q)'
    BY <1>3 DEF TakesFrom
  <2>2. Still(o) /\ read[o] \in Nat /\ pool[o] \in SUBSET Req /\ answer[o] \in SUBSET Req
    BY <1>1, <1>2, <1>12 DEF RecallTypeOK
  <2>3. ASSUME asked[o] = [proc |-> p, ns |-> n], rpc[o] = "put", read[o] >= gen[p][n]
        PROVE  /\ \A m \in due'[q] : m \in answer[o] \/ Excused(m)'
               /\ answer[o] \cap erased'[q] = {}
               /\ answer[o] \cap gone'[q] \subseteq ReplacedAcross'
    <3>1. read[o] <= gen[p][n] /\ Fresh(p, n, read[o], answer[o])
      BY <1>2, <2>3 DEF ReaderInv, MyGeneration
    <3> QED
      BY <1>3, <1>5, <1>9, <1>10, <2>2, <2>3, <3>1 DEF Fresh
  <2>4. ASSUME asked[o] = [proc |-> p, ns |-> n], rpc[o] = "fetch", read[o] >= gen[p][n]
        PROVE  \A m \in due'[q] : m \in pool[o] \/ Excused(m)'
    <3>1. read[o] <= gen[p][n] /\ (read[o] = gen[p][n] => Has(pool[o], Acknowledged(p, n)))
      BY <1>2, <2>4 DEF ReaderInv, MyGeneration
    <3> QED
      BY <1>9, <1>10, <2>2, <2>4, <3>1
  <2>5. TakesFrom(q, o)'
    BY <1>3, <1>9, <2>2, <2>3, <2>4 DEF TakesFrom, Suits, Has, Omits, Still
  <2> QED
    BY <2>1, <2>5
<1> QED
  BY <1>1, <1>7, <1>8, <1>11, <1>12, OneReader
LEMMA ReadKeeps ==
  ASSUME RecallInv, NEW q \in Reader, ReadGeneration(q) \/ ReadCurrent(q)
  PROVE  RecallInv'
<1>1. /\ UNCHANGED <<vars, cache>> /\ \A o \in Reader : o # q => Still(o)
      /\ UNCHANGED <<asked, pool, answer, due, erased, gone>>
  <2>1. RecallTypeOK
    BY DEF RecallInv
  <2>2. CASE ReadGeneration(q)
    BY <2>1, <2>2 DEF ReadGeneration, RecallGoto, Still, RecallTypeOK
  <2>3. CASE ReadCurrent(q)
    BY <2>1, <2>3 DEF ReadCurrent, RecallGoto, Still, RecallTypeOK
  <2> QED
    BY <2>2, <2>3
<1>2. /\ RecallTypeOK /\ TypeOK
      /\ \A o \in Reader : ReaderInv(o) /\ TakesEntry(o) /\ \A o2 \in Reader : TakesFrom(o, o2)
  BY DEF RecallInv, RecallTypeOK
<1>3. UNCHANGED <<gen, proc, rows, invalid, job>>
  BY <1>1 DEF vars, diskVars, reqVars
<1>4. /\ TypeOK'
      /\ ReplacedAcross' = ReplacedAcross
      /\ \A m \in Req : /\ Committed(m)' <=> Committed(m)
                        /\ Excused(m)' <=> Excused(m)
  BY <1>1, <1>2, StandStill
<1>5. MyGeneration(q) \in Nat /\ MyGeneration(q)' = MyGeneration(q) /\ MyEntry(q)' = MyEntry(q)
  BY <1>1, <1>2, <1>3 DEF MyGeneration, MyEntry, RecallTypeOK, TypeOK
<1>6. RecallTypeOK'
  <2>1. CASE ReadGeneration(q)
    BY <2>1, <1>2, <1>4, <1>5 DEF ReadGeneration, RecallGoto, RecallTypeOK, RecallPC
  <2>2. CASE ReadCurrent(q)
    BY <2>2, <1>2, <1>4, <1>5 DEF ReadCurrent, RecallGoto, RecallTypeOK, RecallPC
  <2> QED
    BY <2>1, <2>2
<1>7. /\ rpc[q] \in {"generation", "current"} /\ rpc'[q] \in {"current", "peek"}
      /\ read'[q] \in Nat /\ current'[q] \in Nat /\ read'[q] <= MyGeneration(q)
      /\ rpc'[q] = "peek" => read'[q] <= current'[q] /\ current'[q] <= MyGeneration(q)
      /\ read'[q] = Floor(q)
  <2>1. CASE ReadGeneration(q)
    BY <2>1, <1>2, <1>5 DEF ReadGeneration, RecallGoto, RecallTypeOK, Floor
  <2>2. CASE ReadCurrent(q)
    <3>1. read[q] <= MyGeneration(q)
      BY <2>2, <1>2 DEF ReadCurrent, ReaderInv
    <3> QED
      BY <2>2, <3>1, <1>2, <1>5 DEF ReadCurrent, RecallGoto, RecallTypeOK, Floor
  <2> QED
    BY <2>1, <2>2
<1>8. due[q] \subseteq Req /\ erased[q] \subseteq Req /\ gone[q] \subseteq Req
  BY <1>2 DEF RecallTypeOK
<1>9. ReaderInv(q)'
  <2>1. /\ proc[asked[q].proc].pc = "up"
        /\ \A m \in due[q] : Committed(m) /\ job[m].ns = asked[q].ns
        /\ erased[q] \subseteq gone[q]
        /\ \A m \in gone[q] : Committed(m) /\ m \notin rows \ invalid
    BY <1>2, <1>7 DEF ReaderInv
  <2>2. /\ proc'[asked'[q].proc].pc = "up"
        /\ \A m \in due'[q] : Committed(m)' /\ job'[m].ns = asked'[q].ns
        /\ erased'[q] \subseteq gone'[q]
        /\ \A m \in gone'[q] : Committed(m)' /\ m \notin rows' \ invalid'
    BY <2>1, <1>1, <1>3, <1>4, <1>8
  <2> QED
    BY <2>2, <1>5, <1>7 DEF ReaderInv
<1>10. Taking(q) /\ Floor(q)' = Floor(q)
  BY <1>7 DEF Taking, Floor
<1>11. \A g, ids : Suits(q, g, ids) /\ g >= Floor(q) =>
         /\ \A m \in due'[q] : m \in ids \/ Excused(m)'
         /\ Omits(q, ids)'
  BY <1>1, <1>3, <1>4, <1>8 DEF Suits, Has, Omits
<1>12. TakesEntry(q)'
  BY <1>2, <1>5, <1>10, <1>11 DEF TakesEntry, Suits, Has, Omits
<1>13. ASSUME NEW o \in Reader, o # q
       PROVE  TakesFrom(q, o)' /\ TakesFrom(o, q)'
  <2>1. TakesFrom(o, q)'
    BY <1>7 DEF TakesFrom
  <2>2. TakesFrom(q, o) /\ Still(o)
    BY <1>1, <1>2, <1>13
  <2>3. asked[o] = asked[q] /\ rpc[o] = "put" => Suits(q, read[o], answer[o])'
    BY <1>10, <1>11, <2>2 DEF TakesFrom, Suits, Has, Omits, Still
  <2>4. asked[o] = asked[q] /\ rpc[o] = "fetch" /\ read[o] >= Floor(q) => Has(pool[o], due[q])'
    BY <1>1, <1>3, <1>4, <1>8, <1>10, <2>2 DEF TakesFrom, Has, Omits, Still
  <2>5. TakesFrom(q, o)'
    BY <1>1, <1>10, <2>2, <2>3, <2>4 DEF TakesFrom, Still
  <2> QED
    BY <2>1, <2>5
<1> QED
  BY <1>1, <1>6, <1>9, <1>12, <1>13, OneReader

\* A hit is an entry that the recall may take.
LEMMA PeekKeeps ==
  ASSUME RecallInv, NEW q \in Reader, Peek(q)
  PROVE  RecallInv'
<1>1. /\ UNCHANGED <<vars, cache>> /\ \A o \in Reader : o # q => Still(o)
      /\ UNCHANGED <<asked, read, current, pool, due, erased, gone>>
  BY DEF Peek, RecallGoto, Still, RecallInv, RecallTypeOK
<1>2. RecallTypeOK /\ TypeOK /\ ReaderInv(q) /\ TakesEntry(q)
  BY DEF RecallInv, RecallTypeOK
<1>3. UNCHANGED <<gen, proc, rows, invalid, job>>
  BY <1>1 DEF vars, diskVars, reqVars
<1>4. /\ TypeOK'
      /\ ReplacedAcross' = ReplacedAcross
      /\ \A m \in Req : /\ Committed(m)' <=> Committed(m)
                        /\ Excused(m)' <=> Excused(m)
  BY <1>1, <1>2, StandStill
<1>5. /\ MyGeneration(q) \in Nat /\ MyGeneration(q)' = MyGeneration(q)
      /\ MyEntry(q).results \in SUBSET Req /\ MyEntry(q).gen \in Nat
      /\ due[q] \subseteq Req /\ erased[q] \subseteq Req /\ gone[q] \subseteq Req /\ read[q] \in Nat
  BY <1>1, <1>2, <1>3 DEF MyGeneration, MyEntry, RecallTypeOK, TypeOK
<1>6. RecallTypeOK'
  BY <1>2, <1>4, <1>5 DEF Peek, RecallGoto, RecallTypeOK, RecallPC
<1>7. /\ rpc[q] = "peek" /\ rpc'[q] \in {"search", "done"}
      /\ rpc'[q] = "done" => Hit(q) /\ answer'[q] = MyEntry(q).results
  BY <1>2 DEF Peek, RecallGoto, RecallTypeOK
<1>8. /\ proc[asked[q].proc].pc = "up"
      /\ read[q] <= current[q] /\ read[q] <= MyGeneration(q)
      /\ \A m \in due[q] : Committed(m) /\ job[m].ns = asked[q].ns
      /\ erased[q] \subseteq gone[q]
      /\ \A m \in gone[q] : Committed(m) /\ m \notin rows \ invalid
  BY <1>2, <1>7 DEF ReaderInv
<1>9. rpc'[q] = "done" =>
        Has(answer[q], due[q])' /\ Omits(q, answer[q])'
  <2> SUFFICES ASSUME rpc'[q] = "done"
               PROVE  Has(answer[q], due[q])' /\ Omits(q, answer[q])'
    OBVIOUS
  <2>1. MyEntry(q) # NoEntry /\ MyEntry(q).gen >= read[q]
    BY <1>5, <1>7, <1>8 DEF Hit
  <2>2. Has(MyEntry(q).results, due[q]) /\ Omits(q, MyEntry(q).results)
    BY <1>2, <1>7, <2>1 DEF TakesEntry, Taking, Suits, Floor
  <2> QED
    BY <1>1, <1>3, <1>4, <1>5, <1>7, <2>2 DEF Has, Omits
<1>10. ReaderInv(q)'
  <2>1. /\ proc'[asked'[q].proc].pc = "up"
        /\ \A m \in due'[q] : Committed(m)' /\ job'[m].ns = asked'[q].ns
        /\ erased'[q] \subseteq gone'[q]
        /\ \A m \in gone'[q] : Committed(m)' /\ m \notin rows' \ invalid'
    BY <1>1, <1>3, <1>4, <1>5, <1>8
  <2> QED
    BY <2>1, <1>1, <1>5, <1>7, <1>8, <1>9 DEF ReaderInv
<1>11. TakesEntry(q)' /\ \A o \in Reader : o # q => TakesFrom(q, o)' /\ TakesFrom(o, q)'
  BY <1>7 DEF TakesEntry, TakesFrom, Taking
<1> QED
  BY <1>1, <1>6, <1>10, <1>11, OneReader

\* A search finds every committed memory of the namespace that is still in both stores.
LEMMA FoundHas ==
  ASSUME IInv, NEW n \in NS, NEW wanted \in SUBSET Req,
         \A m \in wanted : Committed(m) /\ job[m].ns = n
  PROVE  Has(Found(n), wanted)
  BY DEF IInv, LossIsRequested, Found, Has, Excused

LEMMA SearchKeeps ==
  ASSUME IInv, RecallInv, NEW q \in Reader, Search(q)
  PROVE  RecallInv'
<1>0. asked[q] \in [proc : Proc, ns : NS]
  BY DEF RecallInv, RecallTypeOK
<1> PICK p \in Proc, n \in NS : asked[q].proc = p /\ asked[q].ns = n
  BY <1>0
<1> DEFINE found == Found(n)
<1>1. /\ UNCHANGED <<vars, cache>> /\ \A o \in Reader : o # q => Still(o)
      /\ UNCHANGED <<asked, read, current, due, erased, gone>>
  BY DEF Search, RecallGoto, Still
<1>2. RecallTypeOK /\ TypeOK /\ \A o \in Reader : ReaderInv(o)
  BY DEF RecallInv, RecallTypeOK
<1>3. UNCHANGED <<gen, proc, rows, invalid, job, pc>>
  BY <1>1 DEF vars, diskVars, reqVars
<1>4. /\ TypeOK' /\ Acknowledged(p, n)' = Acknowledged(p, n)
      /\ ReplacedAcross' = ReplacedAcross
      /\ \A m \in Req : /\ Committed(m)' <=> Committed(m)
                        /\ Excused(m)' <=> Excused(m)
  BY <1>1, <1>2, StandStill
<1>5. n \in NS /\ found \subseteq Req
  BY <1>2 DEF RecallTypeOK, TypeOK, Found
<1>6. /\ \A o \in Reader : due[o] \subseteq Req /\ erased[o] \subseteq Req /\ gone[o] \subseteq Req
      /\ MyGeneration(q) \in Nat /\ MyGeneration(q)' = MyGeneration(q)
  BY <1>1, <1>2, <1>3 DEF MyGeneration, RecallTypeOK, TypeOK
<1>7. /\ rpc[q] = "search" /\ pool'[q] = found /\ answer'[q] = {}
      /\ rpc'[q] = IF found = {} THEN "done" ELSE "fetch"
  BY <1>2 DEF Search, RecallGoto, RecallTypeOK
<1>8. RecallTypeOK'
  BY <1>2, <1>4, <1>5 DEF Search, RecallGoto, RecallTypeOK, RecallPC
<1>9. \A m \in found : pc'[m] # "idle" /\ job'[m].ns = n
  <2>1. \A m \in vectors : pc[m] # "idle"
    BY DEF IInv, SharedInv, OnDisk
  <2> QED
    BY <1>3, <2>1 DEF Found
<1>10. /\ proc[asked[q].proc].pc = "up" /\ read[q] <= MyGeneration(q)
       /\ \A m \in due[q] : Committed(m) /\ job[m].ns = n
       /\ erased[q] \subseteq gone[q]
       /\ \A m \in gone[q] : Committed(m) /\ m \notin rows \ invalid
  BY <1>2, <1>7 DEF ReaderInv
<1>11. Has(found, due[q]) /\ Has(found, Acknowledged(p, n))
  <2>1. Acknowledged(p, n) \in SUBSET Req /\ \A m \in Acknowledged(p, n) : Committed(m) /\ job[m].ns = n
    BY DEF Acknowledged, Committed
  <2> QED
    BY <1>5, <1>6, <1>10, <2>1, FoundHas
<1> HIDE DEF found
<1>12. /\ Has(pool[q], due[q])' /\ Has(pool[q], Acknowledged(asked[q].proc, asked[q].ns))'
       /\ rpc'[q] = "done" =>
            Has(answer[q], due[q])' /\ Omits(q, answer[q])'
       /\ OfNamespace(pool[q], asked[q].ns)'
  <2>1. \A m \in due[q] : m \in found \/ Excused(m)'
    BY <1>3, <1>4, <1>6, <1>11 DEF Has, Omits
  <2>2. \A m \in Acknowledged(p, n) : m \in found \/ Excused(m)'
    BY <1>3, <1>4, <1>11 DEF Has, Omits, Acknowledged
  <2>3. Acknowledged(asked[q].proc, asked[q].ns)' = Acknowledged(p, n)
    BY <1>1, <1>4, Rigid
  <2>4. Has(pool[q], due[q])'
    BY <2>1, <1>1, <1>7 DEF Has, Omits
  <2>5. Has(pool[q], Acknowledged(asked[q].proc, asked[q].ns))'
    BY <2>2, <2>3, <1>7 DEF Has, Omits
  <2>6. rpc'[q] = "done" =>
          Has(answer[q], due[q])' /\ Omits(q, answer[q])'
    BY <2>1, <1>1, <1>7 DEF Has, Omits
  <2>7. OfNamespace(pool[q], asked[q].ns)'
    BY <1>1, <1>7, <1>9 DEF OfNamespace
  <2> QED
    BY <2>4, <2>5, <2>6, <2>7
<1>13. ReaderInv(q)'
  <2>1. /\ proc'[asked'[q].proc].pc = "up" /\ read'[q] <= MyGeneration(q)'
        /\ \A m \in due'[q] : Committed(m)' /\ job'[m].ns = asked'[q].ns
        /\ erased'[q] \subseteq gone'[q]
        /\ \A m \in gone'[q] : Committed(m)' /\ m \notin rows' \ invalid'
    BY <1>1, <1>3, <1>4, <1>6, <1>10
  <2> QED
    BY <2>1, <1>7, <1>12 DEF ReaderInv
<1>14. ASSUME NEW o \in Reader, o # q
       PROVE  TakesFrom(q, o)' /\ TakesFrom(o, q)'
  <2>1. TakesFrom(q, o)'
    BY <1>7 DEF TakesFrom, Taking
  <2>2. CASE rpc[o] # "idle" /\ asked[o] = asked[q]
    <3>1. \A m \in due[o] : Committed(m) /\ job[m].ns = n
      BY <1>2, <2>2 DEF ReaderInv
    <3>2. Has(Found(n), due[o])
      BY <1>5, <1>6, <3>1, FoundHas
    <3>3. Has(pool[q], due[o])'
      BY <1>1, <1>3, <1>4, <1>6, <1>7, <3>2 DEF Has, Omits, found
    <3> QED
      BY <1>7, <2>1, <3>3 DEF TakesFrom
  <2>3. CASE rpc[o] = "idle" \/ asked[o] # asked[q]
    BY <1>1, <1>14, <2>1, <2>3 DEF TakesFrom, Taking, Still
  <2> QED
    BY <2>2, <2>3
<1>15. TakesEntry(q)'
  BY <1>7 DEF TakesEntry, Taking
<1> QED
  BY <1>1, <1>8, <1>13, <1>14, <1>15, OneReader
\* The fetch drops what is no longer available and nothing else.
LEMMA FetchKeeps ==
  ASSUME IInv, RecallInv, NEW q \in Reader, Fetch(q)
  PROVE  RecallInv'
<1>0. asked[q] \in [proc : Proc, ns : NS]
  BY DEF RecallInv, RecallTypeOK
<1> PICK p \in Proc, n \in NS : asked[q].proc = p /\ asked[q].ns = n
  BY <1>0
<1> DEFINE valid == (pool[q] \cap rows) \ invalid
<1>1. /\ UNCHANGED <<vars, cache>> /\ \A o \in Reader : o # q => Still(o)
      /\ UNCHANGED <<asked, read, current, pool, due, erased, gone>>
  BY DEF Fetch, RecallGoto, Still, RecallInv, RecallTypeOK
<1>2. /\ RecallTypeOK /\ TypeOK /\ ReplacedAreGone
      /\ \A o \in Reader : ReaderInv(o) /\ \A o2 \in Reader : TakesFrom(o, o2)
  BY DEF RecallInv, RecallTypeOK
<1>3. UNCHANGED <<gen, proc, rows, invalid, job, pc>>
  BY <1>1 DEF vars, diskVars, reqVars
<1>4. /\ TypeOK' /\ Retired(p)' = Retired(p) /\ Deleted(p)' = Deleted(p)
      /\ Acknowledged(p, n)' = Acknowledged(p, n)
      /\ ReplacedAcross' = ReplacedAcross
      /\ \A m \in Req : /\ Committed(m)' <=> Committed(m)
                        /\ Excused(m)' <=> Excused(m)
  BY <1>1, <1>2, StandStill
<1>5. /\ \A o \in Reader : due[o] \subseteq Req /\ erased[o] \subseteq Req /\ gone[o] \subseteq Req /\ read[o] \in Nat
      /\ pool[q] \subseteq Req /\ p \in Proc /\ n \in NS
      /\ MyGeneration(q) \in Nat /\ MyGeneration(q)' = MyGeneration(q) /\ gen[p][n] = MyGeneration(q)
  BY <1>1, <1>2, <1>3 DEF MyGeneration, RecallTypeOK, TypeOK
<1>6. /\ rpc[q] = "fetch" /\ answer'[q] = valid
      /\ rpc'[q] = IF valid = {} THEN "done" ELSE "put"
  BY <1>2 DEF Fetch, RecallGoto, RecallTypeOK, GetMemoriesByIds
<1>7. RecallTypeOK'
  BY <1>2, <1>4, <1>5 DEF Fetch, RecallGoto, RecallTypeOK, RecallPC, GetMemoriesByIds
<1>8. /\ proc[p].pc = "up" /\ read[q] <= MyGeneration(q)
      /\ \A m \in due[q] : Committed(m) /\ job[m].ns = n
      /\ erased[q] \subseteq gone[q]
      /\ \A m \in gone[q] : Committed(m) /\ m \notin rows \ invalid
      /\ OfNamespace(pool[q], n) /\ Has(pool[q], due[q])
      /\ read[q] = MyGeneration(q) => Has(pool[q], Acknowledged(p, n))
  BY <1>2, <1>6 DEF ReaderInv
<1>9. \A wanted \in SUBSET Req : Has(pool[q], wanted) /\ (\A m \in wanted : Committed(m))
        => \A m \in wanted : m \in valid \/ Excused(m)'
  <2>1. \A m \in Req : Committed(m) /\ (m \notin rows \/ m \in invalid) => Excused(m)
    BY DEF IInv, LossIsRequested, Excused
  <2> QED
    BY <1>3, <1>4, <2>1 DEF Has
<1>10. /\ valid \cap Deleted(p) = {} /\ valid \cap Retired(p) = {}
       /\ \A o \in Reader : rpc[o] # "idle" => valid \cap erased[o] = {} /\ valid \cap gone[o] = {}
  <2>1. valid \subseteq rows \ invalid
    OBVIOUS
  <2>2. valid \cap Deleted(p) = {} /\ valid \cap Retired(p) = {}
    BY <1>2, <2>1, RetiredAreGone DEF Retired
  <2> HIDE DEF valid
  <2> QED
    BY <1>2, <2>1, <2>2 DEF ReaderInv
<1>11. valid \subseteq pool[q] /\ valid \subseteq rows' \ invalid'
  BY <1>3
<1> HIDE DEF valid
<1>12. Has(answer[q], due[q])' /\ Omits(q, answer[q])'
  BY <1>1, <1>5, <1>6, <1>8, <1>9, <1>10 DEF Has, Omits
<1>13. OfNamespace(answer[q], asked[q].ns)'
  BY <1>1, <1>3, <1>6, <1>8, <1>11 DEF OfNamespace
<1>14. Fresh(asked[q].proc, asked[q].ns, read[q], answer[q])'
  <2>1. read'[q] = read[q] /\ gen'[p][n] = MyGeneration(q)
    BY <1>1, <1>3, <1>5
  <2>2. Acknowledged(p, n) \in SUBSET Req /\ \A m \in Acknowledged(p, n) : Committed(m)
    BY DEF Acknowledged
  <2>3. read[q] = MyGeneration(q) => Has(answer[q], Acknowledged(p, n))'
    BY <1>4, <1>6, <1>8, <1>9, <2>2 DEF Has
  <2>4. \A m \in valid : Explained(p, m)'
    BY <1>11 DEF Explained
  <2>5. Fresh(p, n, read[q], answer[q])'
    BY <1>4, <1>6, <1>10, <2>1, <2>3, <2>4 DEF Fresh
  <2> QED
    BY <1>1, <2>5, Rigid
<1>15. ReaderInv(q)'
  <2>1. /\ proc'[asked'[q].proc].pc = "up" /\ read'[q] <= MyGeneration(q)'
        /\ \A m \in due'[q] : Committed(m)' /\ job'[m].ns = asked'[q].ns
        /\ erased'[q] \subseteq gone'[q]
        /\ \A m \in gone'[q] : Committed(m)' /\ m \notin rows' \ invalid'
    BY <1>1, <1>3, <1>4, <1>5, <1>8
  <2> QED
    BY <2>1, <1>6, <1>12, <1>13, <1>14 DEF ReaderInv
<1>16. ASSUME NEW o \in Reader, o # q
       PROVE  TakesFrom(q, o)' /\ TakesFrom(o, q)'
  <2>1. TakesFrom(q, o)'
    BY <1>6 DEF TakesFrom, Taking
  <2>2. Still(o)
    BY <1>1, <1>16
  <2>3. ASSUME Taking(o), asked[o] = asked[q]
        PROVE  Suits(o, read[q], answer[q])'
    <3>1. rpc[o] # "idle" /\ \A m \in due[o] : Committed(m)
      BY <1>2, <2>3 DEF Taking, ReaderInv
    <3>2. read[q] >= Floor(o) => Has(pool[q], due[o])
      BY <1>2, <1>6, <2>3 DEF TakesFrom
    <3>3. Floor(o)' = Floor(o)
      BY <1>3, <2>2 DEF Floor, MyGeneration, Still
    <3> QED
      BY <1>1, <1>5, <1>6, <1>9, <1>10, <3>1, <3>2, <3>3 DEF Suits, Has, Omits
  <2>4. TakesFrom(o, q)'
    BY <1>1, <1>6, <2>2, <2>3 DEF TakesFrom, Taking, Still
  <2> QED
    BY <2>1, <2>4
<1>17. TakesEntry(q)'
  BY <1>6 DEF TakesEntry, Taking
<1> QED
  BY <1>1, <1>7, <1>15, <1>16, <1>17, OneReader

LEMMA EndKeeps ==
  ASSUME RecallInv, NEW q \in Reader, RecallEnd(q)
  PROVE  RecallInv'
<1>1. /\ UNCHANGED <<vars, cache>> /\ \A o \in Reader : o # q => Still(o)
      /\ rpc'[q] = "idle"
  BY DEF RecallEnd, RecallGoto, Still, RecallInv, RecallTypeOK
<1>2. RecallTypeOK'
  <2>1. RecallTypeOK /\ TypeOK'
    BY <1>1, StandStill DEF RecallInv, RecallTypeOK
  <2> QED
    BY <2>1 DEF RecallEnd, RecallGoto, RecallTypeOK, RecallPC
<1>3. /\ ReaderInv(q)' /\ TakesEntry(q)'
      /\ \A o \in Reader : o # q => TakesFrom(q, o)' /\ TakesFrom(o, q)'
  BY <1>1 DEF ReaderInv, TakesEntry, TakesFrom, Taking
<1> QED
  BY <1>1, <1>2, <1>3, OneReader

\* An entry goes in, or out: the one that may be taken, or none.
LEMMA CacheKeeps ==
  ASSUME RecallInv, UNCHANGED vars, RecallTypeOK', NEW p \in Proc, NEW n \in NS,
         \A p2 \in Proc, n2 \in NS : <<p2, n2>> # <<p, n>> => cache'[p2][n2] = cache[p2][n2],
         EntryInv(p, n)',
         \A q \in Reader : /\ rpc'[q] \in {rpc[q], "done"} /\ asked'[q] = asked[q]
                           /\ read'[q] = read[q] /\ current'[q] = current[q]
                           /\ pool'[q] = pool[q] /\ answer'[q] = answer[q]
                           /\ due'[q] = due[q] /\ erased'[q] = erased[q] /\ gone'[q] = gone[q]
                           /\ rpc'[q] # rpc[q] => rpc[q] = "put",
         cache'[p][n] = NoEntry
           \/ \A q \in Reader : Taking(q) /\ asked[q].proc = p /\ asked[q].ns = n
                                  => Suits(q, cache'[p][n].gen, cache'[p][n].results)
  PROVE  RecallInv'
<1>1. /\ RecallTypeOK /\ TypeOK /\ ReplacedAreGone /\ RecoveryFollows /\ DeletedByStarted
      /\ \A p2 \in Proc, n2 \in NS : EntryInv(p2, n2)
      /\ \A o \in Reader : ReaderInv(o) /\ TakesEntry(o) /\ \A o2 \in Reader : TakesFrom(o, o2)
  BY DEF RecallInv, RecallTypeOK
<1>2. /\ \A o \in Proc : StepsOn(o)
      /\ \A o \in Reader : StepsOn(asked[o].proc)
      /\ TypeOK' /\ ReplacedAreGone' /\ RecoveryFollows' /\ DeletedByStarted'
      /\ ReplacedAcross' = ReplacedAcross
      /\ \A m \in Req : /\ Committed(m)' <=> Committed(m)
                        /\ Excused(m)' <=> Excused(m)
  BY <1>1, StandStill DEF RecallTypeOK
<1>3. UNCHANGED <<gen, proc, rows, invalid, job, pc>>
  BY DEF vars, diskVars, reqVars
<1>4. \A p2 \in Proc, n2 \in NS : EntryInv(p2, n2)'
  BY <1>1, <1>2, EntriesKept
<1>5. \A q \in Reader : rpc'[q] = rpc[q] => Still(q)
  BY DEF Still
<1>6. \A q \in Reader : ReaderInv(q)'
  <2> TAKE q \in Reader
  <2>1. CASE rpc'[q] = rpc[q]
    BY <2>1, <1>1, <1>2, <1>5, ReadersKept
  <2>2. CASE rpc'[q] # rpc[q]
    <3>1. /\ rpc'[q] = "done" /\ rpc[q] = "put" /\ MyGeneration(q)' = MyGeneration(q)
          /\ due[q] \subseteq Req /\ erased[q] \subseteq Req /\ gone[q] \subseteq Req
      BY <2>2, <1>1, <1>3 DEF MyGeneration, RecallTypeOK
    <3>2. /\ proc[asked[q].proc].pc = "up" /\ read[q] <= MyGeneration(q)
          /\ \A m \in due[q] : Committed(m) /\ job[m].ns = asked[q].ns
          /\ erased[q] \subseteq gone[q]
          /\ \A m \in gone[q] : Committed(m) /\ m \notin rows \ invalid
          /\ Has(answer[q], due[q]) /\ Omits(q, answer[q])
      BY <1>1, <3>1 DEF ReaderInv
    <3>3. Has(answer[q], due[q])' /\ Omits(q, answer[q])'
      BY <1>2, <1>3, <3>1, <3>2 DEF Has, Omits
    <3>4. /\ proc'[asked'[q].proc].pc = "up" /\ read'[q] <= MyGeneration(q)'
          /\ \A m \in due'[q] : Committed(m)' /\ job'[m].ns = asked'[q].ns
          /\ erased'[q] \subseteq gone'[q]
          /\ \A m \in gone'[q] : Committed(m)' /\ m \notin rows' \ invalid'
      BY <1>2, <1>3, <3>1, <3>2
    <3> QED
      BY <3>1, <3>3, <3>4 DEF ReaderInv
  <2> QED
    BY <2>1, <2>2
<1>7. \A q \in Reader : TakesEntry(q)'
  <2> SUFFICES ASSUME NEW q \in Reader, Taking(q)'
               PROVE  TakesEntry(q)'
    BY DEF TakesEntry
  <2>1. rpc'[q] = rpc[q] /\ Taking(q) /\ Still(q)
    BY <1>5 DEF Taking
  <2>2. asked[q].proc \in Proc /\ asked[q].ns \in NS /\ due[q] \subseteq Req
    BY <1>1 DEF RecallTypeOK
  <2>3. CASE <<asked[q].proc, asked[q].ns>> # <<p, n>>
    <3>1. MyEntry(q)' = MyEntry(q)
      BY <2>2, <2>3 DEF MyEntry
    <3> QED
      BY <3>1, <2>1, <1>1, <1>2, TakesEntryKept
  <2>4. CASE asked[q].proc = p /\ asked[q].ns = n
    <3>1. MyEntry(q)' = cache'[p][n] /\ Floor(q)' = Floor(q)
      BY <2>1, <2>4, <1>3 DEF MyEntry, Floor, MyGeneration
    <3>2. cache'[p][n] = NoEntry \/ Suits(q, cache'[p][n].gen, cache'[p][n].results)
      BY <2>1, <2>4
    <3>3. cache'[p][n] = NoEntry \/ Suits(q, MyEntry(q).gen, MyEntry(q).results)'
      BY <3>1, <3>2, <2>2, <1>2, <1>3 DEF Suits, Has, Omits
    <3> QED
      BY <3>1, <3>3 DEF TakesEntry
  <2> QED
    BY <2>3, <2>4
<1>8. \A q, o \in Reader : TakesFrom(q, o)'
  <2> TAKE q, o \in Reader
  <2>1. CASE Still(q) /\ Still(o)
    BY <2>1, <1>1, <1>2, TakesFromKept
  <2>2. CASE ~Still(q) \/ ~Still(o)
    <3>1. rpc'[q] = "done" \/ rpc'[o] = "done"
      BY <2>2, <1>5
    <3> QED
      BY <3>1 DEF TakesFrom, Taking
  <2> QED
    BY <2>1, <2>2
<1> QED
  BY <1>2, <1>4, <1>6, <1>7, <1>8 DEF RecallInv
LEMMA PutKeeps ==
  ASSUME RecallInv, NEW q \in Reader, PutResults(q)
  PROVE  RecallInv'
<1>0. asked[q] \in [proc : Proc, ns : NS]
  BY DEF RecallInv, RecallTypeOK
<1> PICK p \in Proc, n \in NS : asked[q].proc = p /\ asked[q].ns = n
  BY <1>0
<1> DEFINE e == [gen |-> read[q], results |-> answer[q]]
<1>1. /\ RecallTypeOK /\ TypeOK /\ ReaderInv(q)
      /\ \A o \in Reader : TakesFrom(o, q)
  BY DEF RecallInv, RecallTypeOK
<1>2. e \in [gen : Nat, results : SUBSET Req] /\ e.gen = read[q] /\ e.results = answer[q]
  BY <1>1 DEF RecallTypeOK
<1>3. /\ UNCHANGED <<vars, asked, read, current, pool, answer, due, erased, gone>>
      /\ rpc[q] = "put" /\ cache' = [cache EXCEPT ![p][n] = e]
      /\ \A o \in Reader : rpc'[o] = IF o = q THEN "done" ELSE rpc[o]
  BY <1>1 DEF PutResults, RecallGoto, RecallTypeOK
<1> HIDE DEF e
<1>4. TypeOK'
  BY <1>1, <1>3, StandStill
<1>5. cache' \in [Proc -> [NS -> [gen : Nat, results : SUBSET Req]]]
  BY <1>1, <1>2, <1>3 DEF RecallTypeOK
<1>6. RecallTypeOK'
  BY <1>1, <1>3, <1>4, <1>5 DEF PutResults, RecallGoto, RecallTypeOK, RecallPC
<1>7. /\ cache'[p][n] = e
      /\ \A p2 \in Proc, n2 \in NS : <<p2, n2>> # <<p, n>> => cache'[p2][n2] = cache[p2][n2]
  BY <1>1, <1>3 DEF RecallTypeOK
<1>8. EntryInv(p, n)'
  <2>1. /\ proc[p].pc = "up" /\ read[q] <= gen[p][n]
        /\ OfNamespace(answer[q], n) /\ Fresh(p, n, read[q], answer[q])
    BY <1>1, <1>3 DEF ReaderInv, MyGeneration
  <2>2. UNCHANGED <<proc, gen, pc, job>>
    BY <1>3 DEF vars
  <2>3. \A o \in Proc : StepsOn(o)
    BY <1>1, <1>3, StandStill
  <2>4. answer[q] \in SUBSET Req /\ read[q] \in Nat /\ gen[p][n] \in Nat
    BY <1>1 DEF RecallTypeOK, TypeOK
  <2>5. PICK g \in Nat, ids \in SUBSET Req : g = read[q] /\ ids = answer[q]
    BY <2>4
  <2>6. Fresh(p, n, g, ids)'
    BY <2>1, <2>2, <2>3, <2>4, <2>5, FreshLasts
  <2>7. \A m \in ids : pc'[m] # "idle" /\ job'[m].ns = n
    BY <2>1, <2>2, <2>5 DEF OfNamespace
  <2>8. cache'[p][n].gen = g /\ cache'[p][n].results = ids
    BY <1>2, <1>7, <2>5
  <2>9. OfNamespace(cache[p][n].results, n)' /\ Fresh(p, n, cache[p][n].gen, cache[p][n].results)'
    BY <2>6, <2>7, <2>8 DEF OfNamespace, Fresh, Has
  <2> QED
    BY <2>1, <2>2, <2>5, <2>8, <2>9 DEF EntryInv
<1>9. \A o \in Reader : Taking(o) /\ asked[o].proc = p /\ asked[o].ns = n
                          => Suits(o, cache'[p][n].gen, cache'[p][n].results)
  <2> SUFFICES ASSUME NEW o \in Reader, Taking(o), asked[o].proc = p, asked[o].ns = n
               PROVE  Suits(o, read[q], answer[q])
    BY <1>2, <1>7
  <2>1. asked[q] = asked[o]
    <3>1. asked[q] \in [proc : Proc, ns : NS] /\ asked[o] \in [proc : Proc, ns : NS]
      BY <1>1 DEF RecallTypeOK
    <3>2. \A a, b \in [proc : Proc, ns : NS] : a.proc = b.proc /\ a.ns = b.ns => a = b
      OBVIOUS
    <3> QED
      BY <3>1, <3>2
  <2> QED
    BY <2>1, <1>1, <1>3 DEF TakesFrom
<1>10. \A o \in Reader : /\ rpc'[o] \in {rpc[o], "done"} /\ asked'[o] = asked[o]
                         /\ read'[o] = read[o] /\ current'[o] = current[o]
                         /\ pool'[o] = pool[o] /\ answer'[o] = answer[o]
                         /\ due'[o] = due[o] /\ erased'[o] = erased[o] /\ gone'[o] = gone[o]
                         /\ rpc'[o] # rpc[o] => rpc[o] = "put"
  BY <1>3
<1>11. UNCHANGED vars
  BY <1>3
<1> QED
  BY <1>6, <1>7, <1>8, <1>9, <1>10, <1>11, CacheKeeps

LEMMA EvictKeeps ==
  ASSUME RecallInv, NEW p \in Proc, NEW n \in NS, Evict(p, n)
  PROVE  RecallInv'
<1>1. RecallTypeOK /\ TypeOK
  BY DEF RecallInv, RecallTypeOK
<1>2. /\ UNCHANGED <<vars, rpc, asked, read, current, pool, answer, due, erased, gone>>
      /\ cache' = [cache EXCEPT ![p][n] = NoEntry]
  BY DEF Evict
<1>3. TypeOK'
  BY <1>1, <1>2, StandStill
<1>4. NoEntry \in [gen : Nat, results : SUBSET Req]
  BY DEF NoEntry
<1>5. cache' \in [Proc -> [NS -> [gen : Nat, results : SUBSET Req]]]
  BY <1>1, <1>2, <1>4 DEF RecallTypeOK
<1>6. RecallTypeOK'
  BY <1>1, <1>2, <1>3, <1>5 DEF RecallTypeOK
<1>7. /\ cache'[p][n] = NoEntry
      /\ \A p2 \in Proc, n2 \in NS : <<p2, n2>> # <<p, n>> => cache'[p2][n2] = cache[p2][n2]
  BY <1>1, <1>2 DEF RecallTypeOK
<1>8. EntryInv(p, n)'
  BY <1>7 DEF EntryInv, NoEntry
<1>9. \A o \in Reader : /\ rpc'[o] \in {rpc[o], "done"} /\ asked'[o] = asked[o]
                        /\ read'[o] = read[o] /\ current'[o] = current[o]
                        /\ pool'[o] = pool[o] /\ answer'[o] = answer[o]
                        /\ due'[o] = due[o] /\ erased'[o] = erased[o] /\ gone'[o] = gone[o]
                        /\ rpc'[o] # rpc[o] => rpc[o] = "put"
  BY <1>2
<1> QED
  BY <1>2, <1>6, <1>7, <1>8, <1>9, CacheKeeps

-----------------------------------------------------------------------------
(* The invariant *)

LEMMA RecallStarts == RecallInit => IInv /\ RecallInv
<1> SUFFICES ASSUME RecallInit PROVE IInv /\ RecallInv
  OBVIOUS
<1>1. IInv /\ TypeOK
  BY InvInit DEF RecallInit, IInv, SharedInv
<1>2. RecallTypeOK
  <2>1. PICK p \in Proc, n \in NS : TRUE
    BY NamespaceAssumption DEF RecallInit, Init
  <2>2. [proc |-> p, ns |-> n] \in [proc : Proc, ns : NS]
    OBVIOUS
  <2>3. (CHOOSE a \in [proc : Proc, ns : NS] : TRUE) \in [proc : Proc, ns : NS]
    BY <2>2
  <2>4. NoEntry \in [gen : Nat, results : SUBSET Req]
    BY DEF NoEntry
  <2> QED
    BY <1>1, <2>3, <2>4 DEF RecallInit, RecallTypeOK, RecallPC
<1>3. ReplacedAreGone /\ RecoveryFollows /\ DeletedByStarted
  BY DEF RecallInit, Init, ReplacedAreGone, RecoveryFollows, DeletedByStarted, Down
<1>4. (\A q \in Reader : rpc[q] = "idle") /\ \A p \in Proc, n \in NS : cache[p][n] = NoEntry
  BY DEF RecallInit
<1> QED
  BY <1>1, <1>2, <1>3, <1>4 DEF RecallInv, EntryInv, ReaderInv, TakesEntry, TakesFrom, Taking

LEMMA WorkKeeps ==
  ASSUME IInv, RecallInv, Work, UNCHANGED recallVars
  PROVE  RecallInv'
<1>1. Next /\ IInv' /\ TypeOK' /\ TypeOK
  BY InvStep DEF Next, IInv, SharedInv
<1>2. UNCHANGED <<rpc, asked, read, current, pool, answer, cache, due, erased, gone>>
  BY DEF recallVars
<1>3. /\ RecallTypeOK /\ ReplacedAreGone /\ RecoveryFollows /\ DeletedByStarted
      /\ \A p \in Proc, n \in NS : EntryInv(p, n)
      /\ \A o \in Reader : ReaderInv(o) /\ TakesEntry(o) /\ \A o2 \in Reader : TakesFrom(o, o2)
  BY DEF RecallInv
<1>4. ReplacedAreGone' /\ RecoveryFollows' /\ DeletedByStarted'
  BY <1>1, <1>3, StepReplaces, StepFollows, StepStarted
<1>5. RecallTypeOK'
  BY <1>1, <1>2, <1>3 DEF RecallTypeOK
<1>6. \A p \in Proc : StepsOn(p)
  BY <1>1, <1>3, WorkStepsOn
<1>7. \A o \in Reader : StepsOn(asked[o].proc) /\ Still(o) /\ MyEntry(o)' = MyEntry(o)
  BY <1>2, <1>3, <1>6 DEF Still, MyEntry, RecallTypeOK
<1>8. \A p \in Proc, n \in NS : EntryInv(p, n)'
  BY <1>1, <1>2, <1>3, <1>6, EntriesKept
<1>9. \A o \in Reader : ReaderInv(o)' /\ TakesEntry(o)'
  BY <1>1, <1>3, <1>7, ReadersKept, TakesEntryKept
<1>10. \A o, o2 \in Reader : TakesFrom(o, o2)'
  BY <1>1, <1>3, <1>7, TakesFromKept
<1> QED
  BY <1>4, <1>5, <1>8, <1>9, <1>10 DEF RecallInv

\* The recalls and the cache of the process go with it, those of the others stay.
LEMMA CrashKeeps ==
  ASSUME IInv, RecallInv, NEW p \in Proc, RecallCrash(p)
  PROVE  RecallInv'
<1>1. /\ Crash(p) /\ Next /\ IInv' /\ TypeOK' /\ TypeOK
  BY InvStep DEF RecallCrash, Next, IInv, SharedInv
<1>2. /\ RecallTypeOK /\ ReplacedAreGone /\ RecoveryFollows /\ DeletedByStarted
      /\ \A o \in Proc, n \in NS : EntryInv(o, n)
      /\ \A q \in Reader : ReaderInv(q) /\ TakesEntry(q) /\ \A o \in Reader : TakesFrom(q, o)
  BY DEF RecallInv
<1>3. ReplacedAreGone' /\ RecoveryFollows' /\ DeletedByStarted'
  BY <1>1, <1>2, StepReplaces, StepFollows, StepStarted
<1>4. NoEntry \in [gen : Nat, results : SUBSET Req]
  BY DEF NoEntry
<1>5. /\ cache' \in [Proc -> [NS -> [gen : Nat, results : SUBSET Req]]]
      /\ \A n \in NS : cache'[p][n] = NoEntry
      /\ \A o \in Proc, n \in NS : o # p => cache'[o][n] = cache[o][n]
  BY <1>2, <1>4 DEF RecallCrash, RecallTypeOK
<1>6. RecallTypeOK'
  BY <1>1, <1>2, <1>5 DEF RecallCrash, RecallTypeOK, RecallPC
<1>7. ASSUME NEW o \in Proc, o # p PROVE StepsOn(o)
  BY <1>1, <1>2, <1>7, CrashStepsOn
<1>8. \A o \in Proc, n \in NS : EntryInv(o, n)'
  <2> TAKE o \in Proc, n \in NS
  <2>1. CASE o = p
    BY <2>1, <1>5 DEF EntryInv
  <2>2. CASE o # p
    BY <2>2, <1>1, <1>2, <1>5, <1>7, EntriesKept
  <2> QED
    BY <2>1, <2>2
<1>9. \A q \in Reader : asked'[q] = asked[q] /\ asked[q].proc \in Proc /\ asked[q].ns \in NS
  BY <1>2 DEF RecallCrash, RecallTypeOK
<1>10. \A q \in Reader : asked[q].proc = p => rpc'[q] = "idle"
  BY DEF RecallCrash
<1>11. ASSUME NEW q \in Reader, asked[q].proc # p
       PROVE  Still(q) /\ StepsOn(asked[q].proc) /\ MyEntry(q)' = MyEntry(q)
  <2>1. Still(q)
    BY <1>2, <1>11 DEF RecallCrash, Still, RecallTypeOK
  <2>2. MyEntry(q)' = MyEntry(q)
    BY <1>5, <1>9, <1>11 DEF MyEntry
  <2> QED
    BY <2>1, <2>2, <1>7, <1>9, <1>11
<1>12. \A q \in Reader : ReaderInv(q)' /\ TakesEntry(q)' /\ \A o \in Reader : TakesFrom(q, o)'
  <2> TAKE q \in Reader
  <2>1. CASE asked[q].proc = p
    BY <2>1, <1>10 DEF ReaderInv, TakesEntry, TakesFrom, Taking
  <2>2. CASE asked[q].proc # p
    <3>1. ReaderInv(q)' /\ TakesEntry(q)'
      BY <2>2, <1>1, <1>2, <1>11, ReadersKept, TakesEntryKept
    <3>2. ASSUME NEW o \in Reader PROVE TakesFrom(q, o)'
      <4>1. CASE asked[o] = asked[q]
        BY <2>2, <4>1, <1>1, <1>2, <1>11, TakesFromKept
      <4>2. CASE asked[o] # asked[q]
        BY <4>2, <1>9 DEF TakesFrom
      <4> QED
        BY <4>1, <4>2
    <3> QED
      BY <3>1, <3>2
  <2> QED
    BY <2>1, <2>2
<1> QED
  BY <1>3, <1>6, <1>8, <1>12 DEF RecallInv

LEMMA RecallKeeps ==
  ASSUME IInv, RecallInv, [RecallNext]_allVars
  PROVE  IInv' /\ RecallInv'
<1>1. IInv'
  <2>1. [Next]_vars
    BY DEF RecallNext, RecallCrash, RecallStep, RecallStart, ReadGeneration, ReadCurrent, Peek,
           Search, Fetch, PutResults, RecallEnd, Evict, Next, allVars
  <2> QED
    BY <2>1, InvStep
<1>2. CASE UNCHANGED allVars
  <2>1. UNCHANGED <<vars, rpc, asked, read, current, pool, answer, cache, due, erased, gone>>
    BY <1>2 DEF allVars, recallVars
  <2>2. /\ RecallTypeOK /\ TypeOK /\ ReplacedAreGone /\ RecoveryFollows /\ DeletedByStarted
        /\ \A p \in Proc, n \in NS : EntryInv(p, n)
        /\ \A o \in Reader : ReaderInv(o) /\ TakesEntry(o) /\ \A o2 \in Reader : TakesFrom(o, o2)
    BY DEF RecallInv, RecallTypeOK
  <2>3. /\ \A p \in Proc : StepsOn(p)
        /\ \A o \in Reader : StepsOn(asked[o].proc)
        /\ TypeOK' /\ ReplacedAreGone' /\ RecoveryFollows' /\ DeletedByStarted'
    BY <2>1, <2>2, StandStill DEF RecallTypeOK
  <2>4. RecallTypeOK'
    BY <2>1, <2>2, <2>3 DEF RecallTypeOK
  <2>5. \A o \in Reader : Still(o) /\ MyEntry(o)' = MyEntry(o)
    BY <2>1 DEF Still, MyEntry
  <2>6. \A p \in Proc, n \in NS : EntryInv(p, n)'
    BY <2>1, <2>2, <2>3, EntriesKept
  <2>7. \A o \in Reader : ReaderInv(o)' /\ TakesEntry(o)'
    BY <2>2, <2>3, <2>5, ReadersKept, TakesEntryKept
  <2>8. \A o, o2 \in Reader : TakesFrom(o, o2)'
    BY <2>2, <2>3, <2>5, TakesFromKept
  <2> QED
    BY <1>1, <2>3, <2>4, <2>6, <2>7, <2>8 DEF RecallInv
<1>3. ASSUME NEW q \in Reader, RecallStep(q) PROVE RecallInv'
  BY <1>3, StartKeeps, ReadKeeps, PeekKeeps, SearchKeeps, FetchKeeps, PutKeeps, EndKeeps DEF RecallStep
<1>4. CASE RecallNext
  BY <1>1, <1>3, <1>4, WorkKeeps, CrashKeeps, EvictKeeps DEF RecallNext
<1> QED
  BY <1>1, <1>2, <1>4

(***************************************************************************)
(* RecallInv and IInv hold of every recall beside every write (recall.rs   *)
(* beside write.rs, forget.rs and recover_on_startup), however many        *)
(* processes, readers, namespaces and requests there are.                  *)
(***************************************************************************)
THEOREM RecallInvariantHolds == RecallSpec => [](IInv /\ RecallInv)
<1>1. IInv /\ RecallInv /\ [RecallNext]_allVars => (IInv /\ RecallInv)'
  BY RecallKeeps
<1> QED
  BY <1>1, RecallStarts, PTL DEF RecallSpec

(***************************************************************************)
(* What a valid cache entry of RecallCache holds is available, or the      *)
(* request that changed it owes the bump, bumps another namespace's        *)
(* generation, or runs in another process.                                 *)
(***************************************************************************)
THEOREM CacheEntriesExplained == RecallSpec => []EntriesExplained
<1>1. RecallInv => EntriesExplained
  BY DEF RecallInv, EntriesExplained, CurrentEntry, EntryInv, Fresh
<1> QED
  BY <1>1, RecallInvariantHolds, PTL

(***************************************************************************)
(* A recall misses no store that its process acknowledged before it began, *)
(* beside any number of other processes (recall.rs:70, write.rs:108).      *)
(***************************************************************************)
THEOREM AcknowledgedStoresRecalled == RecallSpec => []RecallSeesAcknowledged
<1>1. RecallInv => RecallSeesAcknowledged
  BY DEF RecallInv, RecallSeesAcknowledged, ReaderInv
<1> QED
  BY <1>1, RecallInvariantHolds, PTL

(***************************************************************************)
(* What a recall returns although its process acknowledged the deletion or *)
(* replacement before it began was replaced by a store to another          *)
(* namespace, whatever other processes do (RecallCache::get_results).      *)
(***************************************************************************)
THEOREM OnlyReplacedAcrossStale == RecallSpec => []StaleOnlyAcross
<1>1. RecallInv => StaleOnlyAcross
  BY DEF RecallInv, StaleOnlyAcross, ReaderInv
<1> QED
  BY <1>1, RecallInvariantHolds, PTL
=============================================================================
