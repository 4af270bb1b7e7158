---------------------------- MODULE SidecarProofs ----------------------------
(***************************************************************************)
(* Proofs about the shared Qdrant: the inductive invariant SidecarInv, and *)
(* from it that a live qdrant is on record and that there is one.          *)
(***************************************************************************)
EXTENDS Sidecar, TLAPS, FiniteSetTheorems, WellFoundedInduction

FerrexState == [pc : FerrexPC, q : Qdrant \cup {None}, child : BOOLEAN, at : Port \cup {None},
                restarting : BOOLEAN]
QdrantState == [state : {"none", "starting", "up", "hung", "dead", "foreign"},
                port : Port \cup {None}]

\* p goes to state f, and no other process moves.
Moved(p, f) == ferrex'[p] = f /\ \A o \in Ferrex : o # p => ferrex'[o] = ferrex[o]

LEMMA GotoMoves ==
  ASSUME SidecarTypeOK, NEW p \in Ferrex, NEW x \in FerrexPC, Goto(p, x)
  PROVE  /\ ferrex' \in [Ferrex -> FerrexState]
         /\ Moved(p, [pc |-> x, q |-> ferrex[p].q, child |-> ferrex[p].child,
                      at |-> ferrex[p].at, restarting |-> ferrex[p].restarting])
  BY DEF SidecarTypeOK, Goto, Moved, FerrexState

LEMMA IdleMoves ==
  ASSUME SidecarTypeOK, NEW p \in Ferrex, NEW x \in FerrexPC, NEW b \in BOOLEAN,
         ferrex' = [ferrex EXCEPT ![p] = Idle(x, b)]
  PROVE  /\ ferrex' \in [Ferrex -> FerrexState]
         /\ Moved(p, [pc |-> x, q |-> None, child |-> FALSE, at |-> None, restarting |-> b])
  BY DEF SidecarTypeOK, Idle, Moved, FerrexState

\* The pid of a new qdrant is one of the free ones.
LEMMA SpawnedPidIsFree ==
  ASSUME FreePids # {}
  PROVE  Min(FreePids) \in FreePids
<1> DEFINE Less == {ss \in Nat \X Nat : ss[1] < ss[2]}
           S == FreePids
<1>1. IsWellFoundedOn(Less, Nat)
  BY NatLessThanWellFounded, Zenon DEF OpToRel
<1>2. \A a, b \in Nat : a < b => <<a, b>> \in Less
  OBVIOUS
<1>3. S \in SUBSET Nat /\ S # {}
  BY SidecarBounds DEF FreePids, Qdrant
<1> HIDE DEF Less, S
<1>4. PICK x \in S : \A y \in S : ~(<<y, x>> \in Less)
  BY <1>1, <1>3, WFMin
<1>5. \A y \in S : ~(y < x)
  BY <1>2, <1>3, <1>4
<1>6. \A y \in S : x =< y
  BY <1>3, <1>5
<1>7. Min(S) \in S
  BY <1>6 DEF Min
<1> QED
  BY <1>7 DEF S
-----------------------------------------------------------------------------
(* What a step leaves to the others *)

\* A process that does not move keeps what it knows.
LEMMA OthersKeep ==
  ASSUME SidecarInv, SidecarTypeOK', NEW o \in Ferrex, ferrex'[o] = ferrex[o],
         lock' = o <=> lock = o,
         lock = o => pidFile' \in {None, pidFile},
         o \in Keeper => spent'[o] = spent[o],
         \A q \in Qdrant : ferrex[o].q = q =>
            /\ qdrant'[q].port = qdrant[q].port
            /\ qdrant[q].state = "dead" => qdrant'[q].state = "dead"
            /\ Live(q)' => Live(q) /\ (Unfiled(q) => Unfiled(q)')
  PROVE  ProcessInv(o)'
<1>1. ProcessInv(o) /\ ferrex[o].q \in Qdrant \cup {None}
  BY DEF SidecarInv, SidecarTypeOK
<1>2. CASE ferrex[o].q \in Qdrant
  <2> DEFINE q == ferrex[o].q
  <2>1. /\ qdrant'[q].port = qdrant[q].port
        /\ qdrant[q].state = "dead" => qdrant'[q].state = "dead"
    BY <1>2
  <2>2. Live(ferrex[o].q)' => Live(q)
    BY <1>2 DEF Live
  <2>3. Unfiled(q) /\ Live(ferrex[o].q)' => Unfiled(ferrex[o].q)'
    BY <1>2 DEF Unfiled, Live
  <2> QED
    BY <1>1, <2>1, <2>2, <2>3 DEF ProcessInv
<1>3. CASE ferrex[o].q = None
  BY <1>1, <1>3 DEF ProcessInv
<1> QED
  BY <1>1, <1>2, <1>3

\* A step of a process that has no qdrant to write or to kill, and removes at most the files of
\* one that is not live.
LEMMA PlainStep ==
  ASSUME SidecarInv, SidecarTypeOK', NEW p \in Ferrex, UNCHANGED <<qdrant, lost>>,
         \A o \in Ferrex : o # p => ferrex'[o] = ferrex[o] /\ (lock' = o <=> lock = o)
                                     /\ (o \in Keeper => spent'[o] = spent[o]),
         ferrex[p].pc \notin {"record", "kill"},
         \/ UNCHANGED files
         \/ /\ pidFile' = None /\ portFile' = None
            /\ pidFile # None /\ Live(pidFile) => Unfiled(pidFile),
         ferrex'[p].q \in {None, ferrex[p].q, pidFile},
         ferrex'[p].child => ferrex[p].child /\ ferrex'[p].q = ferrex[p].q,
         ProcessInv(p)'
  PROVE  SidecarInv'
<1> USE DEF files, Parent
<1>0. /\ SidecarTypeOK /\ LiveRecorded /\ PidsInv /\ \A o \in Ferrex : ProcessInv(o)
      /\ pidFile \in Qdrant \cup {None} /\ portFile \in Qdrant \cup {None}
      /\ pidFile' \in {None, pidFile} /\ portFile' \in {None, portFile} /\ None \notin Qdrant
  BY SidecarBounds DEF SidecarInv, SidecarTypeOK, None, Qdrant
<1>1. \A q \in Qdrant : (Live(q)' <=> Live(q)) /\ (Unfiled(q) => Unfiled(q)')
  <2> TAKE q \in Qdrant
  <2>1. Live(q)' <=> Live(q)
    BY DEF Live
  <2>2. ASSUME NEW r \in Ferrex, Parent(r, q), ferrex[r].pc = "kill", portFile # q
        PROVE  r # p /\ Parent(r, q)' /\ ferrex'[r].pc = "kill" /\ portFile' # q
    BY <2>2, <1>0
  <2> QED
    BY <2>1, <2>2 DEF Unfiled
<1>2. \A o \in Ferrex : ProcessInv(o)'
  BY <1>0, <1>1, OthersKeep
<1>3. LiveRecorded'
  <2> SUFFICES ASSUME NEW q \in Qdrant, Live(q)'
               PROVE  \/ q = pidFile' \/ q \in lost'
                      \/ \E r \in Ferrex : ferrex'[r].q = q /\ ferrex'[r].child
                                             /\ ferrex'[r].pc \in {"record", "kill"}
    BY DEF LiveRecorded, Live
  <2>1. \/ q = pidFile \/ q \in lost
        \/ \E r \in Ferrex : ferrex[r].q = q /\ ferrex[r].child /\ ferrex[r].pc \in {"record", "kill"}
    BY <1>0, <1>1 DEF LiveRecorded, Live
  <2>2. ASSUME NEW r \in Ferrex, ferrex[r].q = q, ferrex[r].child, ferrex[r].pc \in {"record", "kill"}
        PROVE  ferrex'[r] = ferrex[r]
    BY <2>2
  <2>3. CASE q = pidFile /\ pidFile' = None
    <3>1. Unfiled(q)
      BY <2>3, <1>0, <1>1 DEF Live
    <3> QED
      BY <3>1, <2>2 DEF Unfiled
  <2> QED
    BY <2>1, <2>2, <2>3, <1>0
<1>4. PidsInv'
  <2>1. portFile' \in {None, pidFile'}
    BY <1>0 DEF PidsInv
  <2>2. pidFile' # None /\ portFile' = None /\ Live(pidFile)' => Unfiled(pidFile)'
    <3> SUFFICES ASSUME pidFile' # None, portFile' = None, Live(pidFile)'
                 PROVE  Unfiled(pidFile)'
      OBVIOUS
    <3>1. UNCHANGED files /\ pidFile \in Qdrant
      BY <1>0
    <3>2. Live(pidFile)
      BY <3>1 DEF Live
    <3>3. Unfiled(pidFile)
      BY <1>0, <3>1, <3>2 DEF PidsInv
    <3> QED
      BY <1>1, <3>1, <3>3 DEF Unfiled
  <2>3. \A q \in Qdrant : qdrant'[q].state = "none" =>
          q # pidFile' /\ \A r \in Ferrex : ferrex'[r].q # q
    BY <1>0 DEF PidsInv
  <2>4. \A q \in Qdrant : \A r, s \in Ferrex : Parent(r, q)' /\ Parent(s, q)' => r = s
    BY <1>0 DEF PidsInv
  <2> QED
    BY <2>1, <2>2, <2>3, <2>4 DEF PidsInv
<1> QED
  BY <1>2, <1>3, <1>4 DEF SidecarInv
-----------------------------------------------------------------------------
(* The steps of a process, one by one *)

LEMMA Basics ==
  ASSUME SidecarInv, NEW p \in Ferrex
  PROVE  /\ SidecarTypeOK /\ PidsInv /\ LiveRecorded /\ ProcessInv(p) /\ None \notin Ferrex
         /\ ferrex[p] \in FerrexState /\ None \notin Qdrant /\ lock \in Ferrex \cup {None}
         /\ pidFile \in Qdrant \cup {None} /\ portFile \in Qdrant \cup {None}
  BY SidecarBounds DEF SidecarInv, SidecarTypeOK, FerrexState, Ferrex, Qdrant, None

\* What it takes for a step that moves p alone.
LEMMA MoveKeeps ==
  ASSUME SidecarInv, NEW p \in Ferrex, UNCHANGED <<config, files, qdrant, spent, lost, faults>>,
         lock' \in Ferrex \cup {None}, NEW f \in FerrexState,
         ferrex' \in [Ferrex -> FerrexState], Moved(p, f),
         \A o \in Ferrex : o # p => (lock' = o <=> lock = o),
         ferrex[p].pc \notin {"record", "kill"},
         f.q \in {None, ferrex[p].q, pidFile},
         f.child => ferrex[p].child /\ f.q = ferrex[p].q,
         (\A q \in Qdrant : (Live(q)' => Live(q)) /\ (Unfiled(q) => Unfiled(q)')) => ProcessInv(p)'
  PROVE  SidecarInv'
<1>1. SidecarTypeOK
  BY DEF SidecarInv
<1>2. SidecarTypeOK'
  BY <1>1 DEF SidecarTypeOK, FerrexState, config, files
<1>3. \A q \in Qdrant : (Live(q)' => Live(q)) /\ (Unfiled(q) => Unfiled(q)')
  <2> TAKE q \in Qdrant
  <2>1. Live(q)' => Live(q)
    BY DEF Live
  <2>2. ASSUME NEW r \in Ferrex, Parent(r, q), ferrex[r].pc = "kill"
        PROVE  Parent(r, q)' /\ ferrex'[r].pc = "kill"
    BY <2>2 DEF Parent, Moved
  <2> QED
    BY <2>1, <2>2 DEF Unfiled, files
<1> QED
  BY <1>2, <1>3, PlainStep DEF Moved, files

LEMMA StartKeeps ==
  ASSUME SidecarInv, NEW p \in Ferrex, Start(p) \/ Restart(p)
  PROVE  SidecarInv'
<1> USE Basics
<1> DEFINE f == [pc |-> "lock", q |-> ferrex[p].q, child |-> ferrex[p].child,
                 at |-> ferrex[p].at, restarting |-> ferrex[p].restarting]
<1>1. /\ UNCHANGED <<config, files, qdrant, spent, lost, faults, lock>> /\ Goto(p, "lock")
      /\ ferrex[p].pc = "new" \/ (ferrex[p].pc = "restart" /\ spent[p] < RestartLimit)
  BY DEF Start, Restart, Available
<1>2. ferrex' \in [Ferrex -> FerrexState] /\ Moved(p, f) /\ f \in FerrexState
  BY <1>1, GotoMoves DEF FerrexPC, FerrexState
<1>3. ProcessInv(p)'
  BY <1>1, <1>2 DEF ProcessInv, Moved, files
<1> QED
  BY <1>1, <1>2, <1>3, MoveKeeps

LEMMA AcquireKeeps ==
  ASSUME SidecarInv, NEW p \in Ferrex, AcquireLock(p)
  PROVE  SidecarInv'
<1> USE Basics
<1> DEFINE x == IF ferrex[p].pc = "lock" THEN "resolve" ELSE "recheck"
           f == [pc |-> x, q |-> ferrex[p].q, child |-> ferrex[p].child,
                 at |-> ferrex[p].at, restarting |-> ferrex[p].restarting]
<1>1. /\ UNCHANGED <<config, files, qdrant, spent, lost, faults>> /\ Goto(p, x)
      /\ ferrex[p].pc \in {"lock", "relock"} /\ lock = None /\ lock' = p /\ x \in FerrexPC
      /\ x = "resolve" \/ (x = "recheck" /\ ferrex[p].pc = "relock")
  BY DEF AcquireLock, Acquire, FerrexPC
<1> HIDE DEF x
<1>2. ferrex' \in [Ferrex -> FerrexState] /\ Moved(p, f) /\ f \in FerrexState
  BY <1>1, GotoMoves DEF FerrexState
<1>3. ASSUME \A q \in Qdrant : (Live(q)' => Live(q)) /\ (Unfiled(q) => Unfiled(q)')
      PROVE  ProcessInv(p)'
  <2>1. CASE x = "resolve"
    BY <2>1, <1>1, <1>2 DEF ProcessInv, Moved, files
  <2>2. CASE x = "recheck"
    <3>1. ferrex[p].q \in Qdrant /\ ferrex'[p].q = ferrex[p].q
      BY <2>2, <1>1, <1>2 DEF ProcessInv, FerrexState, Moved
    <3>2. Live(ferrex[p].q)' => Live(ferrex[p].q)
      BY <3>1, <1>3 DEF Live
    <3>3. Unfiled(ferrex[p].q) => Unfiled(ferrex[p].q)'
      BY <3>1, <1>3 DEF Unfiled
    <3> QED
      BY <2>2, <1>1, <1>2, <3>1, <3>2, <3>3 DEF ProcessInv, Moved, files
  <2> QED
    BY <1>1, <2>1, <2>2
<1> QED
  BY <1>1, <1>2, <1>3, MoveKeeps

\* Who does not answer on the port recorded for it is not serving there.
LEMMA ProbeKeeps ==
  ASSUME SidecarInv, NEW p \in Ferrex, Probe(p)
  PROVE  SidecarInv'
<1> USE Basics
<1> DEFINE x == IF Answers(ferrex[p].at) THEN "reuse" ELSE "relock"
           f == [pc |-> x, q |-> ferrex[p].q, child |-> ferrex[p].child,
                 at |-> ferrex[p].at, restarting |-> ferrex[p].restarting]
<1>1. /\ UNCHANGED <<config, files, qdrant, spent, lost, faults, lock>> /\ Goto(p, x)
      /\ ferrex[p].pc = "probe" /\ x \in FerrexPC
      /\ \/ x = "reuse"
         \/ x = "relock" /\ ~Answers(ferrex[p].at) /\ qdrant[ferrex[p].q].state # "starting"
  BY DEF Probe, FerrexPC
<1> HIDE DEF x
<1>2. ferrex' \in [Ferrex -> FerrexState] /\ Moved(p, f) /\ f \in FerrexState
  BY <1>1, GotoMoves DEF FerrexState
<1>3. ASSUME \A q \in Qdrant : (Live(q)' => Live(q)) /\ (Unfiled(q) => Unfiled(q)')
      PROVE  ProcessInv(p)'
  <2>1. CASE x = "reuse"
    BY <2>1, <1>1, <1>2 DEF ProcessInv, Moved, files
  <2>2. CASE x = "relock"
    <3>1. ferrex[p].q \in Qdrant /\ ferrex'[p].q = ferrex[p].q
      BY <2>2, <1>1, <1>2 DEF ProcessInv, FerrexState, Moved
    <3>2. Live(ferrex[p].q)' => Live(ferrex[p].q)
      BY <3>1, <1>3 DEF Live
    <3>3. Unfiled(ferrex[p].q) => Unfiled(ferrex[p].q)'
      BY <3>1, <1>3 DEF Unfiled
    <3>4. Live(ferrex[p].q) => Unfiled(ferrex[p].q)
      BY <2>2, <1>1, <3>1 DEF ProcessInv, Live, Answers
    <3> QED
      BY <2>2, <1>1, <1>2, <3>1, <3>2, <3>3, <3>4 DEF ProcessInv, Moved, files
  <2> QED
    BY <1>1, <2>1, <2>2
<1> QED
  BY <1>1, <1>2, <1>3, MoveKeeps

LEMMA HealthFailsKeeps ==
  ASSUME SidecarInv, NEW p \in Ferrex, HealthFails(p)
  PROVE  SidecarInv'
<1> USE Basics
<1> DEFINE f == [pc |-> "kill", q |-> ferrex[p].q, child |-> ferrex[p].child,
                 at |-> ferrex[p].at, restarting |-> ferrex[p].restarting]
<1>1. /\ UNCHANGED <<config, files, qdrant, spent, lost, faults, lock>> /\ Goto(p, "kill")
      /\ ferrex[p].pc = "health"
  BY DEF HealthFails
<1>2. ferrex' \in [Ferrex -> FerrexState] /\ Moved(p, f) /\ f \in FerrexState
  BY <1>1, GotoMoves DEF FerrexPC, FerrexState
<1>3. ProcessInv(p)'
  BY <1>1, <1>2 DEF ProcessInv, Moved, files
<1> QED
  BY <1>1, <1>2, <1>3, MoveKeeps

LEMMA NoticesKeeps ==
  ASSUME SidecarInv, NEW p \in Ferrex, WatcherNotices(p)
  PROVE  SidecarInv'
<1> USE Basics
<1> DEFINE f == [pc |-> "restart", q |-> None, child |-> FALSE, at |-> None, restarting |-> TRUE]
<1>1. /\ UNCHANGED <<config, files, qdrant, spent, lost, faults, lock>>
      /\ ferrex[p].pc = "run" /\ p \in Keeper /\ ferrex' = [ferrex EXCEPT ![p] = Idle("restart", TRUE)]
  BY DEF WatcherNotices
<1>2. ferrex' \in [Ferrex -> FerrexState] /\ Moved(p, f) /\ f \in FerrexState
  BY <1>1, IdleMoves DEF FerrexPC, FerrexState
<1>3. ProcessInv(p)'
  <2>1. ferrex'[p].pc = "restart" /\ ferrex'[p].q = None /\ ~ferrex'[p].child
    BY <1>2 DEF Moved
  <2> QED
    BY <1>1, <2>1 DEF ProcessInv, files
<1> QED
  BY <1>1, <1>2, <1>3, MoveKeeps

LEMMA EndKeeps ==
  ASSUME SidecarInv, NEW p \in Ferrex, End(p)
  PROVE  SidecarInv'
<1> USE Basics
<1>1. /\ UNCHANGED <<config, files, qdrant, spent, lost, faults, lock>>
      /\ ferrex[p].pc \in {"run", "restart"}
  BY DEF End
<1>2. CASE p \in Owner /\ ferrex[p].child
  <2> DEFINE f == [pc |-> "kill", q |-> ferrex[p].q, child |-> ferrex[p].child,
                   at |-> ferrex[p].at, restarting |-> ferrex[p].restarting]
  <2>1. ferrex' \in [Ferrex -> FerrexState] /\ Moved(p, f) /\ f \in FerrexState
    BY <1>1, <1>2, GotoMoves DEF FerrexPC, FerrexState, End
  <2>2. ProcessInv(p)'
    BY <1>1, <1>2, <2>1 DEF ProcessInv, Moved, files
  <2> QED
    BY <1>1, <2>1, <2>2, MoveKeeps
<1>3. CASE ~(p \in Owner /\ ferrex[p].child)
  <2> DEFINE f == [pc |-> "off", q |-> None, child |-> FALSE, at |-> None, restarting |-> FALSE]
  <2>1. ferrex' \in [Ferrex -> FerrexState] /\ Moved(p, f) /\ f \in FerrexState
    BY <1>1, <1>3, IdleMoves DEF FerrexPC, FerrexState, End
  <2>2. ProcessInv(p)'
    BY <1>1, <2>1 DEF ProcessInv, Moved, files
  <2> QED
    BY <1>1, <2>1, <2>2, MoveKeeps
<1> QED
  BY <1>2, <1>3
\* start_inner fails: the process is left without a qdrant, and a watcher pays.
LEMMA FailKeeps ==
  ASSUME SidecarInv, NEW p \in Ferrex, StartFailed(p), UNCHANGED <<config, qdrant, lost>>,
         faults' \in 0..MaxFaults, lock' \in {lock, None},
         lock' # p, \A o \in Ferrex : o # p => (lock' = o <=> lock = o),
         ferrex[p].pc \notin {"record", "kill", "restart"},
         \/ UNCHANGED files
         \/ /\ pidFile' = None /\ portFile' = None
            /\ pidFile # None /\ Live(pidFile) => Unfiled(pidFile)
  PROVE  SidecarInv'
<1> USE Basics
<1>1. PICK b \in BOOLEAN :
        /\ ferrex' = [ferrex EXCEPT ![p] = Idle(IF b THEN "restart" ELSE "off", b)]
        /\ b <=> ferrex[p].restarting
        /\ spent' = IF b THEN [spent EXCEPT ![p] = @ + 1] ELSE spent
  BY DEF StartFailed
<1>2. PICK x \in FerrexPC : x = (IF b THEN "restart" ELSE "off")
  BY DEF FerrexPC
<1>3. ferrex' \in [Ferrex -> FerrexState]
      /\ Moved(p, [pc |-> x, q |-> None, child |-> FALSE, at |-> None, restarting |-> b])
  BY <1>1, <1>2, IdleMoves
<1>4. b => p \in Keeper /\ spent[p] < RestartLimit
  BY <1>1 DEF ProcessInv
<1>5. spent' \in [Keeper -> 0..RestartLimit] /\ \A o \in Keeper : o # p => spent'[o] = spent[o]
  BY <1>1, <1>4, SidecarBounds DEF SidecarTypeOK
<1>6. SidecarTypeOK'
  BY <1>3, <1>5 DEF SidecarTypeOK, FerrexState, config, files
<1>7. ferrex'[p].pc = x /\ ferrex'[p].q = None /\ ~ferrex'[p].child /\ (ferrex'[p].restarting <=> b)
  BY <1>3 DEF Moved
<1>8. ProcessInv(p)'
  BY <1>2, <1>4, <1>7 DEF ProcessInv
<1>9. \A o \in Ferrex : o # p => ferrex'[o] = ferrex[o]
  BY <1>3 DEF Moved
<1> QED
  BY <1>5, <1>6, <1>7, <1>8, <1>9, PlainStep

LEMMA FailSteps ==
  ASSUME SidecarInv, NEW p \in Ferrex,
         LockTimesOut(p) \/ SpawnFails(p) \/ ReuseFails(p) \/ Unrecord(p)
  PROVE  SidecarInv'
<1> USE Basics
<1>1. faults \in Nat /\ faults <= MaxFaults /\ MaxFaults \in Nat
  BY SidecarBounds DEF SidecarTypeOK
<1>2. CASE LockTimesOut(p) \/ ReuseFails(p)
  <2>1. /\ StartFailed(p) /\ UNCHANGED <<config, qdrant, lost, lock, files>>
        /\ ferrex[p].pc \in {"lock", "relock", "reuse"} /\ faults' \in 0..MaxFaults
    BY <1>1, <1>2 DEF LockTimesOut, ReuseFails, Fault
  <2>2. lock' # p
    BY <2>1 DEF ProcessInv
  <2> QED
    BY <2>1, <2>2, FailKeeps
<1>3. CASE SpawnFails(p)
  <2>1. /\ StartFailed(p) /\ UNCHANGED <<config, qdrant, lost, files>> /\ Release(p)
        /\ ferrex[p].pc = "spawn" /\ faults' \in 0..MaxFaults
    BY <1>1, <1>3 DEF SpawnFails, Fault
  <2>2. lock = p /\ lock' = None
    BY <2>1 DEF ProcessInv, Release
  <2> QED
    BY <2>1, <2>2, FailKeeps
<1>4. CASE Unrecord(p)
  <2>1. /\ StartFailed(p) /\ UNCHANGED <<config, qdrant, lost, lock, faults>>
        /\ ferrex[p].pc = "unrecord"
    BY <1>4 DEF Unrecord
  <2>2. lock' # p
    BY <2>1 DEF ProcessInv
  <2>3. \/ UNCHANGED files
        \/ pidFile' = None /\ portFile' = None /\ pidFile = ferrex[p].q
    BY <1>4 DEF Unrecord, Ours, RemovePidFiles
  <2>4. ~Live(ferrex[p].q)
    BY <2>1 DEF ProcessInv, Live
  <2>5. faults' \in 0..MaxFaults
    BY <1>1, <2>1
  <2> QED
    BY <2>1, <2>2, <2>3, <2>4, <2>5, FailKeeps
<1> QED
  BY <1>2, <1>3, <1>4

LEMMA HealthOkKeeps ==
  ASSUME SidecarInv, NEW p \in Ferrex, HealthOk(p)
  PROVE  SidecarInv'
<1> USE Basics
<1>1. /\ UNCHANGED <<config, files, qdrant, lost, faults, lock>>
      /\ ferrex[p].pc \in {"reuse", "health"} /\ spent' = Spend(p)
      /\ ferrex' = [ferrex EXCEPT ![p].pc = "run", ![p].restarting = FALSE]
  BY DEF HealthOk
<1>2. /\ ferrex' \in [Ferrex -> FerrexState]
      /\ ferrex'[p] = [pc |-> "run", q |-> ferrex[p].q, child |-> ferrex[p].child,
                       at |-> ferrex[p].at, restarting |-> FALSE]
      /\ \A o \in Ferrex : o # p => ferrex'[o] = ferrex[o]
  BY <1>1 DEF SidecarTypeOK, FerrexState, FerrexPC
<1>3. spent' \in [Keeper -> 0..RestartLimit] /\ \A o \in Keeper : o # p => spent'[o] = spent[o]
  <2>1. ferrex[p].restarting => p \in Keeper /\ spent[p] < RestartLimit
    BY <1>1 DEF ProcessInv
  <2> QED
    BY <1>1, <2>1, SidecarBounds DEF SidecarTypeOK, Spend
<1>4. SidecarTypeOK'
  BY <1>1, <1>2, <1>3 DEF SidecarTypeOK, FerrexState, config, files
<1>5. ProcessInv(p)'
  BY <1>1, <1>2 DEF ProcessInv, files
<1> QED
  BY <1>1, <1>2, <1>3, <1>4, <1>5, PlainStep

LEMMA BudgetKeeps ==
  ASSUME SidecarInv, NEW p \in Keeper, BudgetFrees(p)
  PROVE  SidecarInv'
<1>0. p \in Ferrex
  BY DEF Ferrex
<1> USE <1>0, Basics
<1>1. /\ UNCHANGED <<config, files, qdrant, lost, faults, lock, ferrex>>
      /\ ferrex[p].pc = "restart" /\ spent[p] > 0 /\ spent' = [spent EXCEPT ![p] = @ - 1]
  BY DEF BudgetFrees
<1>2. spent' \in [Keeper -> 0..RestartLimit] /\ \A o \in Keeper : o # p => spent'[o] = spent[o]
  BY <1>1, SidecarBounds DEF SidecarTypeOK
<1>3. SidecarTypeOK'
  BY <1>1, <1>2 DEF SidecarTypeOK, config, files
<1>4. ProcessInv(p)'
  BY <1>1 DEF ProcessInv, files
<1> QED
  BY <1>1, <1>2, <1>3, <1>4, PlainStep

\* A dead pid's files go, a live one is reused or asked on the port recorded with it.
LEMMA ResolveKeeps ==
  ASSUME SidecarInv, NEW p \in Ferrex, Resolve(p)
  PROVE  SidecarInv'
<1> USE Basics
<1>1. ferrex[p].pc = "resolve" /\ lock = p /\ UNCHANGED <<config, qdrant, spent, lost, faults>>
  BY DEF Resolve, ProcessInv
<1>2. CASE pidFile = None \/ ~PidAlive(pidFile)
  <2>1. /\ Goto(p, "spawn") /\ lock' = lock /\ pidFile' = None
        /\ \/ UNCHANGED files
           \/ pidFile' = None /\ portFile' = None /\ pidFile # None /\ ~PidAlive(pidFile)
    BY <1>2 DEF Resolve, RemovePidFiles, files
  <2>2. /\ ferrex' \in [Ferrex -> FerrexState]
        /\ ferrex'[p] = [pc |-> "spawn", q |-> ferrex[p].q, child |-> ferrex[p].child,
                         at |-> ferrex[p].at, restarting |-> ferrex[p].restarting]
        /\ \A o \in Ferrex : o # p => ferrex'[o] = ferrex[o]
    BY <2>1, GotoMoves DEF FerrexPC, Moved
  <2>3. SidecarTypeOK'
    BY <1>1, <2>1, <2>2 DEF SidecarTypeOK, FerrexState, config, files
  <2>4. ProcessInv(p)'
    BY <1>1, <2>1, <2>2 DEF ProcessInv
  <2>5. ~PidAlive(pidFile) => ~Live(pidFile)
    BY DEF PidAlive, Live
  <2> QED
    BY <1>1, <2>1, <2>2, <2>3, <2>4, <2>5, PlainStep
<1>3. CASE pidFile # None /\ PidAlive(pidFile)
  <2> DEFINE x == IF IsQdrant(pidFile) THEN "reuse" ELSE "probe"
             a == RecordedPort(p)
  <2>1. /\ ferrex' = [ferrex EXCEPT ![p].pc = x, ![p].q = pidFile, ![p].at = a]
        /\ lock' = None /\ UNCHANGED files
    BY <1>1, <1>3 DEF Resolve, Release
  <2>2. a \in Port \cup {None} /\ x \in FerrexPC /\ x \in {"reuse", "probe"}
    BY <1>3 DEF RecordedPort, SidecarTypeOK, FerrexPC
  <2> HIDE DEF x
  <2>3. a = qdrant[pidFile].port \/ (Live(pidFile) => Unfiled(pidFile))
    BY <1>3 DEF RecordedPort, PidsInv
  <2> HIDE DEF a
  <2>4. /\ ferrex' \in [Ferrex -> FerrexState]
        /\ ferrex'[p] = [pc |-> x, q |-> pidFile, child |-> ferrex[p].child,
                         at |-> a, restarting |-> ferrex[p].restarting]
        /\ \A o \in Ferrex : o # p => ferrex'[o] = ferrex[o]
    BY <2>1, <2>2 DEF SidecarTypeOK, FerrexState
  <2>5. SidecarTypeOK'
    BY <1>1, <2>1, <2>4 DEF SidecarTypeOK, FerrexState, config, files
  <2>6. ~ferrex[p].child
    BY <1>1 DEF ProcessInv
  <2>7. ProcessInv(p)'
    <3>1. ferrex'[p].q = pidFile /\ ferrex'[p].at = a /\ ferrex'[p].pc = x /\ ~ferrex'[p].child
      BY <2>4, <2>6
    <3>2. Live(ferrex[p].q)' => Live(pidFile)
      BY <1>1, <3>1 DEF Live
    <3>3. Unfiled(pidFile) => Unfiled(ferrex[p].q)'
      <4>1. ASSUME NEW r \in Ferrex, ferrex[r].child
            PROVE  ferrex'[r] = ferrex[r]
        BY <2>4, <2>6, <4>1
      <4>2. CASE pidFile \in lost
        BY <4>2, <1>1, <3>1 DEF Unfiled
      <4>3. ASSUME NEW r \in Ferrex, Parent(r, pidFile), ferrex[r].pc = "kill", portFile # pidFile
            PROVE  Unfiled(ferrex[p].q)'
        <5>1. Parent(r, ferrex[p].q)' /\ ferrex'[r].pc = "kill" /\ portFile' # ferrex'[p].q
          BY <2>1, <3>1, <4>1, <4>3 DEF Parent, files
        <5> QED
          BY <5>1 DEF Unfiled
      <4> QED
        BY <4>2, <4>3 DEF Unfiled
    <3>4. lock' # p
      BY <2>1
    <3>5. ferrex'[p].restarting => p \in Keeper /\ spent'[p] < RestartLimit
      BY <1>1, <2>4 DEF ProcessInv
    <3> QED
      BY <1>1, <1>3, <2>2, <2>3, <3>1, <3>2, <3>3, <3>4, <3>5 DEF ProcessInv
  <2> QED
    BY <1>1, <2>1, <2>4, <2>5, <2>6, <2>7, PlainStep
<1> QED
  BY <1>2, <1>3

\* The pid file is replaced only if it still names the qdrant that did not answer.
LEMMA RecheckKeeps ==
  ASSUME SidecarInv, NEW p \in Ferrex, Recheck(p)
  PROVE  SidecarInv'
<1> USE Basics
<1> DEFINE x == IF StillRecorded(p) THEN "spawn" ELSE "resolve"
<1>1. /\ ferrex[p].pc = "recheck" /\ lock = p /\ UNCHANGED <<config, lock, qdrant, spent, lost, faults>>
      /\ Goto(p, x) /\ x \in FerrexPC /\ x \in {"spawn", "resolve"}
      /\ \/ UNCHANGED files /\ x = "resolve"
         \/ pidFile' = None /\ portFile' = None /\ pidFile = ferrex[p].q
  BY DEF Recheck, ProcessInv, RemovePidFiles, StillRecorded, FerrexPC
<1> HIDE DEF x
<1>2. /\ ferrex' \in [Ferrex -> FerrexState]
      /\ ferrex'[p] = [pc |-> x, q |-> ferrex[p].q, child |-> ferrex[p].child,
                       at |-> ferrex[p].at, restarting |-> ferrex[p].restarting]
      /\ \A o \in Ferrex : o # p => ferrex'[o] = ferrex[o]
  BY <1>1, GotoMoves DEF Moved
<1>3. SidecarTypeOK'
  BY <1>1, <1>2 DEF SidecarTypeOK, FerrexState, config, files
<1>4. ProcessInv(p)'
  BY <1>1, <1>2 DEF ProcessInv
<1>5. Live(ferrex[p].q) => Unfiled(ferrex[p].q)
  BY <1>1 DEF ProcessInv
<1> QED
  BY <1>1, <1>2, <1>3, <1>4, <1>5, PlainStep
-----------------------------------------------------------------------------
(* A qdrant is spawned, recorded, killed, left behind *)

\* What a step of p, which works on its qdrant, has to leave in place.
LEMMA ChildStep ==
  ASSUME SidecarInv, SidecarTypeOK', NEW p \in Ferrex,
         \A o \in Ferrex : o # p => ferrex'[o] = ferrex[o] /\ (lock' = o <=> lock = o)
                                     /\ (lock = o => pidFile' \in {None, pidFile}),
         UNCHANGED spent,
         \A o \in Ferrex, q \in Qdrant : o # p /\ ferrex[o].q = q =>
            /\ qdrant'[q].port = qdrant[q].port
            /\ qdrant[q].state = "dead" => qdrant'[q].state = "dead"
            /\ Live(q)' => Live(q),
         \A q \in Qdrant : Live(q)' /\ Unfiled(q) => Unfiled(q)',
         ProcessInv(p)', PidsInv', LiveRecorded'
  PROVE  SidecarInv'
<1>1. \A o \in Ferrex : o # p => ProcessInv(o)'
  BY OthersKeep
<1> QED
  BY <1>1 DEF SidecarInv

LEMMA SpawnKeeps ==
  ASSUME SidecarInv, NEW p \in Ferrex, Spawn(p)
  PROVE  SidecarInv'
<1> USE Basics
<1> DEFINE q == Min(FreePids)
<1>1. /\ UNCHANGED <<config, lock, files, spent, faults>> /\ ferrex[p].pc = "spawn"
      /\ qdrant' = [qdrant EXCEPT ![q] = [state |-> "starting", port |-> port[p]]]
      /\ ferrex' = [ferrex EXCEPT ![p].pc = "record", ![p].q = q, ![p].child = TRUE, ![p].at = None]
      /\ lost' = lost \ {q}
  BY DEF Spawn
<1>2. q \in FreePids
  BY SpawnedPidIsFree DEF Spawn
<1> HIDE DEF q
<1>3. lock = p /\ pidFile = None /\ portFile = None
  BY <1>1 DEF ProcessInv, PidsInv
<1>4. /\ q \in Qdrant /\ \A o \in Ferrex : ferrex[o].q # q
  BY <1>2 DEF FreePids, PidsInv
<1>5. /\ ferrex' \in [Ferrex -> FerrexState]
      /\ ferrex'[p] = [pc |-> "record", q |-> q, child |-> TRUE,
                       at |-> None, restarting |-> ferrex[p].restarting]
      /\ \A o \in Ferrex : o # p => ferrex'[o] = ferrex[o]
  BY <1>1, <1>4 DEF SidecarTypeOK, FerrexState, FerrexPC
<1>6. /\ qdrant' \in [Qdrant -> QdrantState]
      /\ qdrant'[q] = [state |-> "starting", port |-> port[p]]
      /\ \A k \in Qdrant : k # q => qdrant'[k] = qdrant[k]
  BY <1>1, <1>4 DEF SidecarTypeOK, QdrantState
<1>7. SidecarTypeOK'
  BY <1>1, <1>5, <1>6 DEF SidecarTypeOK, FerrexState, QdrantState, config, files
<1>8. ferrex'[p].pc = "record" /\ ferrex'[p].q = q /\ ferrex'[p].child
  BY <1>5
<1>9. ProcessInv(p)'
  <2>1. ferrex'[p].restarting => p \in Keeper /\ spent'[p] < RestartLimit
    BY <1>1, <1>5 DEF ProcessInv
  <2> QED
    BY <1>1, <1>3, <1>4, <1>8, <2>1 DEF ProcessInv, files
<1>10. \A k \in Qdrant : Unfiled(k) => k = q \/ Unfiled(k)'
  <2> TAKE k \in Qdrant
  <2>1. ASSUME NEW r \in Ferrex, Parent(r, k), ferrex[r].pc = "kill", portFile # k
        PROVE  Unfiled(k)'
    BY <1>1, <1>5, <2>1 DEF Parent, Unfiled, files
  <2>2. CASE k \in lost
    BY <2>2, <1>1 DEF Unfiled
  <2> QED
    BY <2>1, <2>2 DEF Unfiled
<1>11. ~Unfiled(q) \/ q \in lost
  BY <1>4 DEF Unfiled, Parent
<1>12. PidsInv'
  BY <1>1, <1>3, <1>4, <1>5, <1>6, <1>8 DEF PidsInv, files, Parent
<1>13. LiveRecorded'
  <2> SUFFICES ASSUME NEW k \in Qdrant, k # q, qdrant'[k].state \in {"starting", "up"}
               PROVE  \/ k \in lost'
                      \/ \E r \in Ferrex : ferrex'[r].q = k /\ ferrex'[r].child
                                             /\ ferrex'[r].pc \in {"record", "kill"}
    BY <1>8 DEF LiveRecorded
  <2>1. \/ k \in lost
        \/ \E r \in Ferrex : ferrex[r].q = k /\ ferrex[r].child /\ ferrex[r].pc \in {"record", "kill"}
    BY <1>3, <1>6 DEF LiveRecorded
  <2> QED
    BY <1>1, <1>5, <2>1
<1>14. \A k \in Qdrant : k # q /\ Live(k)' => Live(k)
  BY <1>6 DEF Live
<1> HIDE DEF q
<1>15. \A o \in Ferrex : o # p => ProcessInv(o)'
  <2> TAKE o \in Ferrex
  <2> HAVE o # p
  <2>1. \A k \in Qdrant : ferrex[o].q = k =>
            /\ qdrant'[k].port = qdrant[k].port
            /\ qdrant[k].state = "dead" => qdrant'[k].state = "dead"
            /\ Live(k)' => Live(k) /\ (Unfiled(k) => Unfiled(k)')
    BY <1>4, <1>6, <1>10, <1>14
  <2> QED
    BY <1>1, <1>5, <1>7, <2>1, OthersKeep DEF files
<1> QED
  BY <1>7, <1>9, <1>12, <1>13, <1>15 DEF SidecarInv

LEMMA RecordKeeps ==
  ASSUME SidecarInv, NEW p \in Ferrex, Record(p)
  PROVE  SidecarInv'
<1> USE Basics
<1> DEFINE q == ferrex[p].q
<1>1. /\ UNCHANGED <<config, qdrant, spent, lost, faults>> /\ ferrex[p].pc = "record"
      /\ pidFile' = q /\ portFile' = q /\ Goto(p, "health") /\ Release(p)
  BY DEF Record
<1>2. lock = p /\ lock' = None /\ pidFile = None /\ portFile = None /\ q \in Qdrant /\ ferrex[p].child
  BY <1>1 DEF ProcessInv, PidsInv, Release, FerrexState
<1>3. /\ ferrex' \in [Ferrex -> FerrexState]
      /\ ferrex'[p] = [pc |-> "health", q |-> q, child |-> ferrex[p].child,
                       at |-> ferrex[p].at, restarting |-> ferrex[p].restarting]
      /\ \A o \in Ferrex : o # p => ferrex'[o] = ferrex[o]
  BY <1>1, GotoMoves DEF FerrexPC, Moved
<1> HIDE DEF q
<1>4. SidecarTypeOK'
  BY <1>1, <1>2, <1>3 DEF SidecarTypeOK, FerrexState, config
<1>5. \A k \in Qdrant : (Live(k)' => Live(k)) /\ (Unfiled(k) => Unfiled(k)')
  <2> TAKE k \in Qdrant
  <2>1. Live(k)' => Live(k)
    BY <1>1 DEF Live
  <2>2. ASSUME NEW r \in Ferrex, Parent(r, k), ferrex[r].pc = "kill"
        PROVE  Unfiled(k)'
    <3>1. r # p /\ k # q
      BY <1>1, <1>2, <2>2 DEF PidsInv, Parent, q
    <3> QED
      BY <1>1, <1>3, <2>2, <3>1 DEF Unfiled, Parent
  <2>3. CASE k \in lost
    BY <2>1, <2>3, <1>1 DEF Unfiled
  <2> QED
    BY <2>1, <2>2, <2>3 DEF Unfiled
<1>6. ProcessInv(p)'
  BY <1>1, <1>2, <1>3 DEF ProcessInv
<1>7. PidsInv'
  <2>1. \A k \in Qdrant : qdrant'[k].state = "none" => k # pidFile' /\ \A r \in Ferrex : ferrex'[r].q # k
    BY <1>1, <1>2, <1>3 DEF PidsInv, q
  <2>2. \A k \in Qdrant : \A r, s \in Ferrex : Parent(r, k)' /\ Parent(s, k)' => r = s
    BY <1>3 DEF PidsInv, Parent, q
  <2> QED
    BY <1>1, <1>2, <2>1, <2>2 DEF PidsInv
<1>8. LiveRecorded'
  <2> SUFFICES ASSUME NEW k \in Qdrant, k # q, qdrant'[k].state \in {"starting", "up"}
               PROVE  \/ k \in lost'
                      \/ \E r \in Ferrex : ferrex'[r].q = k /\ ferrex'[r].child
                                             /\ ferrex'[r].pc \in {"record", "kill"}
    BY <1>1 DEF LiveRecorded
  <2>1. \/ k \in lost
        \/ \E r \in Ferrex : ferrex[r].q = k /\ ferrex[r].child /\ ferrex[r].pc \in {"record", "kill"}
    BY <1>1, <1>2 DEF LiveRecorded
  <2> QED
    BY <1>1, <1>3, <2>1 DEF q
<1> QED
  BY <1>1, <1>2, <1>3, <1>4, <1>5, <1>6, <1>7, <1>8, ChildStep

LEMMA RecordFailsKeeps ==
  ASSUME SidecarInv, NEW p \in Ferrex, RecordFails(p)
  PROVE  SidecarInv'
<1> USE Basics
<1> DEFINE q == ferrex[p].q
<1>1. /\ UNCHANGED <<config, qdrant, spent, lost, portFile>> /\ ferrex[p].pc = "record"
      /\ pidFile' \in {None, q} /\ Goto(p, "kill") /\ Release(p) /\ Fault
  BY DEF RecordFails
<1>2. lock = p /\ lock' = None /\ pidFile = None /\ portFile = None /\ q \in Qdrant /\ ferrex[p].child
  BY <1>1 DEF ProcessInv, PidsInv, Release, FerrexState
<1>3. /\ ferrex' \in [Ferrex -> FerrexState]
      /\ ferrex'[p] = [pc |-> "kill", q |-> q, child |-> ferrex[p].child,
                       at |-> ferrex[p].at, restarting |-> ferrex[p].restarting]
      /\ \A o \in Ferrex : o # p => ferrex'[o] = ferrex[o]
  BY <1>1, GotoMoves DEF FerrexPC, Moved
<1> HIDE DEF q
<1>4. SidecarTypeOK'
  <2>1. faults' \in 0..MaxFaults
    BY <1>1, SidecarBounds DEF Fault, SidecarTypeOK
  <2> QED
    BY <1>1, <1>2, <1>3, <2>1 DEF SidecarTypeOK, FerrexState, config
<1>5. \A k \in Qdrant : (Live(k)' => Live(k)) /\ (Unfiled(k) => Unfiled(k)')
  <2> TAKE k \in Qdrant
  <2>1. Live(k)' => Live(k)
    BY <1>1 DEF Live
  <2>2. ASSUME NEW r \in Ferrex, Parent(r, k), ferrex[r].pc = "kill", portFile # k
        PROVE  Unfiled(k)'
    BY <1>1, <1>3, <2>2 DEF Unfiled, Parent
  <2>3. CASE k \in lost
    BY <2>1, <2>3, <1>1 DEF Unfiled
  <2> QED
    BY <2>1, <2>2, <2>3 DEF Unfiled
<1>6. ProcessInv(p)'
  BY <1>1, <1>2, <1>3 DEF ProcessInv
<1>7. ferrex'[p].child /\ ferrex'[p].q = q /\ ferrex'[p].pc = "kill" /\ portFile' # q
  BY <1>1, <1>2, <1>3
<1>8. PidsInv'
  <2>1. \A k \in Qdrant : qdrant'[k].state = "none" => k # pidFile' /\ \A r \in Ferrex : ferrex'[r].q # k
    BY <1>1, <1>2, <1>3 DEF PidsInv, q
  <2>2. \A k \in Qdrant : \A r, s \in Ferrex : Parent(r, k)' /\ Parent(s, k)' => r = s
    BY <1>3 DEF PidsInv, Parent, q
  <2>3. pidFile' = q => Unfiled(pidFile)'
    BY <1>7 DEF Unfiled, Parent
  <2> QED
    BY <1>1, <1>2, <2>1, <2>2, <2>3 DEF PidsInv
<1>9. LiveRecorded'
  <2> SUFFICES ASSUME NEW k \in Qdrant, k # q, qdrant'[k].state \in {"starting", "up"}
               PROVE  \/ k \in lost'
                      \/ \E r \in Ferrex : ferrex'[r].q = k /\ ferrex'[r].child
                                             /\ ferrex'[r].pc \in {"record", "kill"}
    BY <1>7 DEF LiveRecorded
  <2>1. \/ k \in lost
        \/ \E r \in Ferrex : ferrex[r].q = k /\ ferrex[r].child /\ ferrex[r].pc \in {"record", "kill"}
    BY <1>1, <1>2 DEF LiveRecorded
  <2> QED
    BY <1>1, <1>3, <2>1 DEF q
<1> QED
  BY <1>1, <1>2, <1>3, <1>4, <1>5, <1>6, <1>8, <1>9, ChildStep
LEMMA KillKeeps ==
  ASSUME SidecarInv, NEW p \in Ferrex, Kill(p)
  PROVE  SidecarInv'
<1> USE Basics
<1> DEFINE q == ferrex[p].q
<1>1. /\ UNCHANGED <<config, lock, files, spent, lost, faults>> /\ ferrex[p].pc = "kill"
      /\ qdrant' = [qdrant EXCEPT ![q].state = "dead"] /\ Goto(p, "unrecord")
  BY DEF Kill
<1>2. lock # p /\ q \in Qdrant /\ ferrex[p].child
  BY <1>1 DEF ProcessInv, FerrexState
<1>3. /\ ferrex' \in [Ferrex -> FerrexState]
      /\ ferrex'[p] = [pc |-> "unrecord", q |-> q, child |-> ferrex[p].child,
                       at |-> ferrex[p].at, restarting |-> ferrex[p].restarting]
      /\ \A o \in Ferrex : o # p => ferrex'[o] = ferrex[o]
  BY <1>1, GotoMoves DEF FerrexPC, Moved
<1> HIDE DEF q
<1>4. /\ qdrant' \in [Qdrant -> QdrantState]
      /\ qdrant'[q].state = "dead" /\ qdrant'[q].port = qdrant[q].port
      /\ \A k \in Qdrant : k # q => qdrant'[k] = qdrant[k]
  BY <1>1, <1>2 DEF SidecarTypeOK, QdrantState
<1>5. SidecarTypeOK'
  BY <1>1, <1>3, <1>4 DEF SidecarTypeOK, FerrexState, QdrantState, config, files
<1>6. ProcessInv(p)'
  BY <1>1, <1>2, <1>3, <1>4 DEF ProcessInv, files
<1>7. \A k \in Qdrant : /\ k # q => (Unfiled(k) => Unfiled(k)')
                        /\ Live(k)' => k # q /\ Live(k)
  <2> TAKE k \in Qdrant
  <2>1. Live(k)' => k # q /\ Live(k)
    BY <1>4 DEF Live
  <2>2. ASSUME k # q, NEW r \in Ferrex, Parent(r, k), ferrex[r].pc = "kill", portFile # k
        PROVE  Unfiled(k)'
    BY <1>1, <1>3, <2>2 DEF Unfiled, Parent, files, q
  <2>3. k \in lost => Unfiled(k)'
    BY <1>1 DEF Unfiled
  <2> QED
    BY <2>1, <2>2, <2>3 DEF Unfiled
<1>8. PidsInv'
  <2>1. \A k \in Qdrant : qdrant'[k].state = "none" => k # pidFile' /\ \A r \in Ferrex : ferrex'[r].q # k
    BY <1>1, <1>3, <1>4 DEF PidsInv, files, q
  <2>2. \A k \in Qdrant : \A r, s \in Ferrex : Parent(r, k)' /\ Parent(s, k)' => r = s
    BY <1>3 DEF PidsInv, Parent, q
  <2>3. pidFile' # None /\ portFile' = None /\ Live(pidFile)' => Unfiled(pidFile)'
    <3> SUFFICES ASSUME pidFile # None, portFile = None, Live(pidFile)'
                 PROVE  Unfiled(pidFile)'
      BY <1>1 DEF files
    <3>1. pidFile' = pidFile /\ pidFile \in Qdrant
      BY <1>1 DEF files
    <3>2. Live(pidFile) /\ pidFile # q
      BY <1>4, <3>1 DEF Live
    <3>3. Unfiled(pidFile)
      BY <3>2 DEF PidsInv
    <3> QED
      BY <1>7, <3>1, <3>2, <3>3 DEF Unfiled
  <2> QED
    BY <1>1, <2>1, <2>2, <2>3 DEF PidsInv, files
<1>9. LiveRecorded'
  <2> SUFFICES ASSUME NEW k \in Qdrant, Live(k)'
               PROVE  \/ k = pidFile' \/ k \in lost'
                      \/ \E r \in Ferrex : ferrex'[r].q = k /\ ferrex'[r].child
                                             /\ ferrex'[r].pc \in {"record", "kill"}
    BY DEF LiveRecorded, Live
  <2>1. k # q /\ \/ k = pidFile \/ k \in lost
                 \/ \E r \in Ferrex : ferrex[r].q = k /\ ferrex[r].child
                                        /\ ferrex[r].pc \in {"record", "kill"}
    BY <1>7 DEF LiveRecorded, Live
  <2> QED
    BY <1>1, <1>3, <2>1 DEF files, q
<1>10. \A k \in Qdrant : /\ qdrant'[k].port = qdrant[k].port
                         /\ qdrant[k].state = "dead" => qdrant'[k].state = "dead"
  BY <1>4
<1> QED
  BY <1>1, <1>3, <1>5, <1>6, <1>7, <1>8, <1>9, <1>10, ChildStep DEF files

\* A process killed between its spawn and its record, or before it could kill its child, leaves
\* a qdrant behind that is lost, or that both files name.
LEMMA CrashKeeps ==
  ASSUME SidecarInv, NEW p \in Ferrex, Crash(p)
  PROVE  SidecarInv'
<1> USE Basics
<1> DEFINE q == ferrex[p].q
<1>1. /\ UNCHANGED <<config, portFile, qdrant, spent>> /\ ferrex[p].pc \notin {"new", "off"}
      /\ ferrex' = [ferrex EXCEPT ![p] = Idle("off", FALSE)] /\ Release(p) /\ Fault
      /\ IF ferrex[p].pc = "record" THEN pidFile' \in {None, q} ELSE UNCHANGED pidFile
      /\ lost' = IF \/ ferrex[p].pc = "record"
                    \/ ferrex[p].pc = "kill" /\ portFile # q
                 THEN lost \cup {q} ELSE lost
  BY DEF Crash
<1>2. /\ ferrex' \in [Ferrex -> FerrexState]
      /\ ferrex'[p] = [pc |-> "off", q |-> None, child |-> FALSE, at |-> None, restarting |-> FALSE]
      /\ \A o \in Ferrex : o # p => ferrex'[o] = ferrex[o]
  BY <1>1, IdleMoves DEF FerrexPC, Moved
<1>3. /\ ferrex[p].pc = "record" => lock = p /\ pidFile = None /\ portFile = None /\ q \in Qdrant
      /\ ferrex[p].pc = "kill" => q \in Qdrant
      /\ q \in Qdrant \cup {None}
  BY DEF ProcessInv, PidsInv, FerrexState
<1>4. /\ lock' # p /\ lock' \in Ferrex \cup {None}
      /\ \A o \in Ferrex : o # p => (lock' = o <=> lock = o)
  BY <1>1 DEF Release
<1> HIDE DEF q
<1>5. SidecarTypeOK'
  <2>1. faults' \in 0..MaxFaults
    BY <1>1, SidecarBounds DEF Fault, SidecarTypeOK
  <2>2. lost' \subseteq Qdrant /\ pidFile' \in Qdrant \cup {None}
    BY <1>1, <1>3 DEF SidecarTypeOK
  <2> QED
    BY <1>1, <1>2, <1>4, <2>1, <2>2 DEF SidecarTypeOK, FerrexState, config
<1>6. ProcessInv(p)'
  <2>1. ferrex'[p].pc = "off" /\ ~ferrex'[p].child /\ ~ferrex'[p].restarting
    BY <1>2
  <2>2. lock' # p
    BY <1>4
  <2> QED
    BY <2>1, <2>2 DEF ProcessInv
<1>7. \A k \in Qdrant : (Live(k)' <=> Live(k)) /\ (Unfiled(k) => Unfiled(k)')
  <2> TAKE k \in Qdrant
  <2>1. Live(k)' <=> Live(k)
    BY <1>1 DEF Live
  <2>2. ASSUME NEW r \in Ferrex, Parent(r, k), ferrex[r].pc = "kill", portFile # k
        PROVE  Unfiled(k)'
    <3>1. CASE r = p
      BY <3>1, <1>1, <2>2 DEF Unfiled, Parent, q
    <3>2. CASE r # p
      BY <3>2, <1>1, <1>2, <2>2 DEF Unfiled, Parent
    <3> QED
      BY <3>1, <3>2
  <2>3. k \in lost => Unfiled(k)'
    BY <1>1 DEF Unfiled
  <2> QED
    BY <2>1, <2>2, <2>3 DEF Unfiled
<1>8. PidsInv'
  <2>1. \A k \in Qdrant : qdrant'[k].state = "none" => k # pidFile' /\ \A r \in Ferrex : ferrex'[r].q # k
    <3> SUFFICES ASSUME NEW k \in Qdrant, qdrant[k].state = "none"
                 PROVE  k # pidFile' /\ \A r \in Ferrex : ferrex'[r].q # k
      BY <1>1
    <3>1. k # pidFile /\ k # q /\ k # None /\ \A r \in Ferrex : ferrex[r].q # k
      BY DEF PidsInv, q
    <3>2. k # pidFile'
      BY <3>1, <1>1
    <3>3. \A r \in Ferrex : ferrex'[r].q # k
      BY <3>1, <1>2
    <3> QED
      BY <3>2, <3>3
  <2>2. \A k \in Qdrant : \A r, s \in Ferrex : Parent(r, k)' /\ Parent(s, k)' => r = s
    BY <1>2 DEF PidsInv, Parent
  <2>3. portFile' \in {None, pidFile'}
    BY <1>1, <1>3 DEF PidsInv
  <2>4. pidFile' # None /\ portFile' = None /\ Live(pidFile)' => Unfiled(pidFile)'
    <3> SUFFICES ASSUME pidFile' # None, portFile = None, Live(pidFile)'
                 PROVE  Unfiled(pidFile)'
      BY <1>1
    <3>1. CASE ferrex[p].pc = "record"
      BY <3>1, <1>1 DEF Unfiled
    <3>2. CASE ferrex[p].pc # "record"
      <4>1. pidFile' = pidFile /\ pidFile \in Qdrant
        BY <3>2, <1>1
      <4>2. Live(pidFile)
        BY <4>1, <1>1 DEF Live
      <4>3. Unfiled(pidFile)
        BY <4>1, <4>2 DEF PidsInv
      <4> QED
        BY <1>7, <4>1, <4>3 DEF Unfiled
    <3> QED
      BY <3>1, <3>2
  <2> QED
    BY <2>1, <2>2, <2>3, <2>4 DEF PidsInv
<1>9. LiveRecorded'
  <2> SUFFICES ASSUME NEW k \in Qdrant, Live(k)
               PROVE  \/ k = pidFile' \/ k \in lost'
                      \/ \E r \in Ferrex : ferrex'[r].q = k /\ ferrex'[r].child
                                             /\ ferrex'[r].pc \in {"record", "kill"}
    BY <1>7 DEF LiveRecorded, Live
  <2>1. \/ k = pidFile \/ k \in lost
        \/ \E r \in Ferrex : ferrex[r].q = k /\ ferrex[r].child /\ ferrex[r].pc \in {"record", "kill"}
    BY DEF LiveRecorded, Live
  <2>2. k = pidFile => k = pidFile'
    BY <1>1, <1>3
  <2>3. k \in lost => k \in lost'
    BY <1>1
  <2>4. ASSUME NEW r \in Ferrex, ferrex[r].q = k, ferrex[r].child, ferrex[r].pc \in {"record", "kill"}
        PROVE  k = pidFile' \/ k \in lost' \/ ferrex'[r] = ferrex[r]
    <3>1. CASE r = p /\ portFile = k
      BY <3>1, <1>1, <1>3 DEF PidsInv
    <3>2. CASE r = p /\ portFile # k
      BY <3>2, <2>4, <1>1 DEF q
    <3> QED
      BY <3>1, <3>2, <1>2
  <2> QED
    BY <2>1, <2>2, <2>3, <2>4
<1>10. \A o \in Ferrex : o # p /\ lock = o => pidFile' \in {None, pidFile}
  BY <1>1, <1>3
<1> QED
  BY <1>1, <1>2, <1>4, <1>5, <1>6, <1>7, <1>8, <1>9, <1>10, ChildStep

\* Qdrant itself never comes back to life under a pid that somebody still refers to.
LEMMA QdrantKeeps ==
  ASSUME SidecarInv, NEW q \in Qdrant, QdrantStarts(q) \/ QdrantFails(q)
  PROVE  SidecarInv'
<1>1. SidecarTypeOK /\ PidsInv /\ LiveRecorded /\ \A p \in Ferrex : ProcessInv(p)
  BY DEF SidecarInv
<1>2. /\ UNCHANGED <<config, lock, files, ferrex, spent, lost>>
      /\ faults' \in 0..MaxFaults
      /\ \E s \in {"up", "dead", "hung", "foreign"} : qdrant' = [qdrant EXCEPT ![q].state = s]
  <2>1. CASE QdrantStarts(q)
    BY <2>1, <1>1 DEF QdrantStarts, SidecarTypeOK
  <2>2. CASE QdrantFails(q)
    <3>1. /\ UNCHANGED <<config, lock, files, ferrex, spent, lost>> /\ Fault
          /\ \E s \in {"dead", "hung", "foreign"} : qdrant' = [qdrant EXCEPT ![q].state = s]
      BY <2>2, Zenon DEF QdrantFails
    <3>2. faults' \in 0..MaxFaults
      BY <3>1, <1>1, SidecarBounds DEF SidecarTypeOK, Fault
    <3> QED
      BY <3>1, <3>2
  <2> QED
    BY <2>1, <2>2
<1>3. /\ qdrant' \in [Qdrant -> QdrantState]
      /\ \A k \in Qdrant : qdrant'[k].port = qdrant[k].port /\ (k # q => qdrant'[k] = qdrant[k])
      /\ qdrant'[q].state \in {"up", "dead", "hung", "foreign"}
  BY <1>1, <1>2 DEF SidecarTypeOK, QdrantState
<1>4. /\ qdrant'[q].state = "up" => qdrant[q].state = "starting"
      /\ qdrant[q].state # "none"
      /\ \/ qdrant[q].state # "dead"
         \/ \A p \in Ferrex : ferrex[p].q # q
  <2>1. CASE QdrantStarts(q)
    BY <2>1, <1>1 DEF QdrantStarts, SidecarTypeOK
  <2>2. CASE QdrantFails(q)
    <3>1. PICK s \in {"dead", "hung", "foreign"} :
            /\ CASE s = "dead" -> qdrant[q].state \in {"starting", "up", "hung"}
                 [] s = "hung" -> qdrant[q].state = "starting"
                 [] s = "foreign" -> /\ qdrant[q].state = "dead"
                                     /\ \A p \in Ferrex : ferrex[p].q # q
            /\ qdrant' = [qdrant EXCEPT ![q].state = s]
      BY <2>2 DEF QdrantFails
    <3>2. qdrant'[q].state = s
      BY <3>1, <1>1 DEF SidecarTypeOK
    <3>3. CASE s = "dead"
      BY <3>1, <3>2, <3>3
    <3>4. CASE s = "hung"
      BY <3>1, <3>2, <3>4
    <3>5. CASE s = "foreign"
      BY <3>1, <3>2, <3>5
    <3> QED
      BY <3>3, <3>4, <3>5
  <2> QED
    BY <2>1, <2>2
<1>5. SidecarTypeOK'
  BY <1>1, <1>2, <1>3 DEF SidecarTypeOK, QdrantState, config, files
<1>6. \A k \in Qdrant : (Live(k)' => Live(k)) /\ (Unfiled(k) => Unfiled(k)')
  <2>1. \A k \in Qdrant : Live(k)' => Live(k)
    BY <1>3, <1>4 DEF Live
  <2>2. \A k \in Qdrant : Unfiled(k) => Unfiled(k)'
    BY <1>2 DEF Unfiled, Parent, files
  <2> QED
    BY <2>1, <2>2
<1>7. \A p \in Ferrex : ProcessInv(p)'
  <2> TAKE p \in Ferrex
  <2>1. \A k \in Qdrant : ferrex[p].q = k =>
            /\ qdrant'[k].port = qdrant[k].port
            /\ qdrant[k].state = "dead" => qdrant'[k].state = "dead"
            /\ Live(k)' => Live(k) /\ (Unfiled(k) => Unfiled(k)')
    BY <1>3, <1>4, <1>6
  <2> QED
    BY <1>2, <1>5, <2>1, OthersKeep DEF files
<1>8. PidsInv'
  <2>1. \A k \in Qdrant : qdrant'[k].state = "none" => k # pidFile' /\ \A r \in Ferrex : ferrex'[r].q # k
    BY <1>1, <1>2, <1>3 DEF PidsInv, files
  <2>2. \A k \in Qdrant : \A r, s \in Ferrex : Parent(r, k)' /\ Parent(s, k)' => r = s
    BY <1>1, <1>2 DEF PidsInv, Parent
  <2>3. pidFile' # None /\ portFile' = None /\ Live(pidFile)' => Unfiled(pidFile)'
    <3> SUFFICES ASSUME pidFile # None, portFile = None, Live(pidFile)'
                 PROVE  Unfiled(pidFile)'
      BY <1>2 DEF files
    <3>1. pidFile' = pidFile /\ pidFile \in Qdrant
      BY <1>1, <1>2 DEF files, SidecarTypeOK
    <3>2. Live(pidFile)
      BY <1>6, <3>1 DEF Live
    <3>3. Unfiled(pidFile)
      BY <1>1, <3>2 DEF PidsInv
    <3> QED
      BY <1>6, <3>1, <3>3 DEF Unfiled
  <2> QED
    BY <1>1, <1>2, <2>1, <2>2, <2>3 DEF PidsInv, files
<1>9. LiveRecorded'
  BY <1>1, <1>2, <1>6 DEF LiveRecorded, Live, files
<1> QED
  BY <1>5, <1>7, <1>8, <1>9 DEF SidecarInv

-----------------------------------------------------------------------------
(* The theorems *)

LEMMA SidecarStarts == Init => SidecarInv
<1> SUFFICES ASSUME Init PROVE SidecarInv
  OBVIOUS
<1>1. None \notin Ferrex /\ None \notin Qdrant
  BY SidecarBounds DEF Ferrex, Qdrant, None
<1>2. /\ \A p \in Ferrex : ferrex[p] = [pc |-> "new", q |-> None, child |-> FALSE, at |-> None,
                                        restarting |-> FALSE]
      /\ \A q \in Qdrant : qdrant[q].state = "none"
      /\ lock = None /\ pidFile = None /\ portFile = None
  BY DEF Init, Idle
<1>3. SidecarTypeOK
  BY SidecarBounds DEF Init, SidecarTypeOK, Idle, FerrexPC, None
<1>4. PidsInv /\ LiveRecorded
  BY <1>1, <1>2 DEF PidsInv, LiveRecorded, Parent
<1>5. \A p \in Ferrex : ProcessInv(p)
  BY <1>1, <1>2 DEF ProcessInv
<1> QED
  BY <1>3, <1>4, <1>5 DEF SidecarInv

LEMMA SidecarKeeps == SidecarInv /\ [Next]_vars => SidecarInv'
<1> SUFFICES ASSUME SidecarInv, [Next]_vars PROVE SidecarInv'
  OBVIOUS
<1>1. CASE UNCHANGED vars
  <2>1. UNCHANGED <<port, named, lock, pidFile, portFile, qdrant, ferrex, spent, lost, faults>>
    BY <1>1 DEF vars, config, files
  <2> QED
    BY <2>1 DEF SidecarInv, SidecarTypeOK, PidsInv, LiveRecorded, ProcessInv, Live, Unfiled, Parent
<1>2. ASSUME NEW p \in Ferrex, FerrexStep(p) PROVE SidecarInv'
  BY <1>2, ResolveKeeps, ProbeKeeps, RecheckKeeps, SpawnKeeps, RecordKeeps, HealthOkKeeps,
     HealthFailsKeeps, FailSteps, KillKeeps, NoticesKeeps, StartKeeps DEF FerrexStep
<1>3. CASE Next
  BY <1>2, <1>3, StartKeeps, AcquireKeeps, EndKeeps, FailSteps, RecordFailsKeeps, CrashKeeps,
     BudgetKeeps, QdrantKeeps DEF Next
<1> QED
  BY <1>1, <1>3

\* SidecarInv holds for any number of processes, pids, ports and faults (sidecar.rs).
THEOREM SidecarInvariantHolds == SidecarSpec => []SidecarInv
  BY SidecarStarts, SidecarKeeps, PTL DEF SidecarSpec

\* Types, and the budget: no watcher spends more restarts in a window than RESTART_LIMIT.
THEOREM SidecarTypeCorrect == SidecarSpec => []SidecarTypeOK
<1>1. SidecarInv => SidecarTypeOK
  BY DEF SidecarInv
<1> QED
  BY <1>1, SidecarInvariantHolds, PTL

\* No process takes a live qdrant for stale, and none removes the pid file of another's.
THEOREM LiveAlwaysRecorded == SidecarSpec => []LiveRecorded
<1>1. SidecarInv => LiveRecorded
  BY DEF SidecarInv
<1> QED
  BY <1>1, SidecarInvariantHolds, PTL

\* The lock lets one qdrant start, and the record lets none start beside it.
THEOREM AtMostOneQdrant == SidecarSpec => []OneQdrant
<1>1. SidecarInv => OneQdrant
  <2> SUFFICES ASSUME SidecarInv PROVE OneQdrant
    OBVIOUS
  <2> DEFINE S == {q \in Qdrant \ lost :
                     /\ qdrant[q].state \in {"starting", "up"}
                     /\ \A p \in Ferrex : ferrex[p].q = q /\ ferrex[p].child => ferrex[p].pc # "kill"}
  <2>1. \A a \in S : \/ a = pidFile
                     \/ \E p \in Ferrex : ferrex[p].q = a /\ ferrex[p].pc = "record"
    BY DEF SidecarInv, LiveRecorded
  <2>2. \A p \in Ferrex : ferrex[p].pc = "record" => lock = p /\ pidFile = None
    BY DEF SidecarInv, ProcessInv
  <2>3. None \notin S
    BY SidecarBounds DEF Qdrant, None
  <2>4. \A a, b \in S : a = b
    BY <2>1, <2>2, <2>3
  <2> HIDE DEF S
  <2>5. S = {} \/ \E a \in S : S = {a}
    BY <2>4
  <2>6. Cardinality(S) <= 1
    BY <2>5, FS_EmptySet, FS_Singleton
  <2> QED
    BY <2>6 DEF OneQdrant, S
<1> QED
  BY <1>1, SidecarInvariantHolds, PTL
=============================================================================
