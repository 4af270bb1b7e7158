------------------------- MODULE ProxySessionProofs -------------------------
(***************************************************************************)
(* Proofs about one proxy session: the inductive invariant SessionInv, and *)
(* from it that every answer is awaited, that a re-sent request is bounded *)
(* and comes before the session begins, that the proxy never fails a       *)
(* session that has begun, and what reaches a daemon and in which order.   *)
(***************************************************************************)
EXTENDS ProxySession, TLAPS, SequenceTheorems

LineOrNone == Line \cup {NoLine}
ClientState == [lifecycle : {"handshake", "inline"}, sent : 0..MaxLines, eof : BOOLEAN,
                ready : BOOLEAN, told : BOOLEAN, key : Key \cup {NoKey}]
ConnState == [open : BOOLEAN, key : Key \cup {NoKey}, got : Seq(Line), owed : Seq(Line),
              begun : BOOLEAN]

LEMMA Lines ==
  /\ \A x \in Line : /\ x # NoLine /\ x.n \in 1..MaxLines /\ x.n \in Nat /\ x.n > 0
                     /\ x.what \in Request \cup {"initialized"} /\ x.id \in Id \cup {NoId}
  /\ NoLine.n = 0 /\ NoLine.what = "none" /\ NoLine.id = NoId /\ NoLine \notin Line
  /\ ~IsRequest(NoLine) /\ ~CountsForLifecycle(NoLine)
  /\ \A x \in Response : x # NoResponse /\ x.id \in Id /\ x.n \in Nat /\ x.n > 0 /\ x.ok \in BOOLEAN
  BY BoundsAssumption
     DEF Line, NoLine, NoResponse, Response, Request, IsRequest, CountsForLifecycle, NoId

\* What counts for the lifecycle is a request.
LEMMA Kinds ==
  ASSUME NEW x \in LineOrNone
  PROVE  /\ CountsForLifecycle(x) <=> x.what \in {"initialize", "call"}
         /\ IsRequest(x) <=> x.what \in {"initialize", "call", "ping"}
         /\ CountsForLifecycle(x) => IsRequest(x)
         /\ x # NoLine => (~IsRequest(x) <=> x.what = "initialized")
         /\ x.n \in Nat /\ (x.n = 0 <=> x = NoLine)
  BY Lines DEF LineOrNone, Request, IsRequest, CountsForLifecycle
-----------------------------------------------------------------------------
(* The tracker *)

LEMMA TrackerFields ==
  ASSUME NEW t \in Tracker
  PROVE  /\ t.inFlight \in [Id -> LineOrNone] /\ t.initialised \in BOOLEAN
         /\ t.initialize \in LineOrNone /\ t.initialized \in LineOrNone /\ t.kept \in LineOrNone
  BY DEF Tracker, LineOrNone

LEMMA SetLinkFields ==
  ASSUME NEW t \in Tracker, NEW link \in {"up", "down", "reconnecting"}
  PROVE  /\ SetLink(t, link) \in Tracker
         /\ SetLink(t, link).inFlight = t.inFlight /\ SetLink(t, link).initialised = t.initialised
         /\ SetLink(t, link).initialize = t.initialize /\ SetLink(t, link).initialized = t.initialized
         /\ SetLink(t, link).kept = t.kept
  BY DEF Tracker, SetLink

LEMMA MarkReplayStartedFields ==
  ASSUME NEW t \in Tracker
  PROVE  /\ MarkReplayStarted(t) \in Tracker
         /\ MarkReplayStarted(t).inFlight = t.inFlight
         /\ MarkReplayStarted(t).initialised = t.initialised
         /\ MarkReplayStarted(t).initialize = t.initialize
         /\ MarkReplayStarted(t).initialized = t.initialized /\ MarkReplayStarted(t).kept = t.kept
  BY DEF Tracker, MarkReplayStarted

LEMMA TakeFields ==
  ASSUME NEW t \in Tracker, NEW keep
  PROVE  /\ TakeInFlightExcept(t, keep) \in Tracker
         /\ TakeInFlightExcept(t, keep).inFlight =
              [i \in Id |-> IF i = keep THEN t.inFlight[i] ELSE NoLine]
         /\ TakeInFlightExcept(t, keep).initialised = t.initialised
         /\ TakeInFlightExcept(t, keep).initialize = t.initialize
         /\ TakeInFlightExcept(t, keep).initialized = t.initialized
         /\ TakeInFlightExcept(t, keep).kept = t.kept
  BY DEF Tracker, TakeInFlightExcept

LEMMA OnClientLineFields ==
  ASSUME NEW t \in Tracker, NEW x \in Line, IsRequest(x) => x.id \in Id
  PROVE  LET u == OnClientLine(t, x) IN
         /\ u \in Tracker /\ u.initialised = t.initialised
         /\ u.inFlight = IF IsRequest(x) THEN [t.inFlight EXCEPT ![x.id] = x] ELSE t.inFlight
         /\ u.initialized = IF x.what = "initialized" THEN x ELSE t.initialized
         /\ u.initialize = IF ~t.initialised /\ x.what = "initialize" THEN x ELSE t.initialize
         /\ u.kept = IF ~t.initialised /\ t.kept = NoLine /\ CountsForLifecycle(x)
                     THEN x ELSE t.kept
<1>1. CASE x.what = "initialized"
  BY <1>1, Kinds DEF Tracker, OnClientLine, LineOrNone
<1>2. CASE x.what # "initialized"
  <2>1. IsRequest(x) /\ x.id \in Id
    BY <1>2, Kinds, Lines DEF LineOrNone
  <2> DEFINE i == IF ~t.initialised /\ x.what = "initialize" THEN x ELSE t.initialize
             k == IF ~t.initialised /\ t.kept = NoLine /\ CountsForLifecycle(x) THEN x ELSE t.kept
             f == [t.inFlight EXCEPT ![x.id] = x]
  <2>2. OnClientLine(t, x) = [t EXCEPT !.inFlight = f, !.initialize = i, !.kept = k]
    BY <1>2 DEF Tracker, OnClientLine
  <2>3. f \in [Id -> Line \cup {NoLine}] /\ i \in Line \cup {NoLine} /\ k \in Line \cup {NoLine}
    BY TrackerFields DEF LineOrNone
  <2> HIDE DEF f, i, k
  <2>4. LET u == OnClientLine(t, x) IN
        /\ u \in Tracker /\ u.initialised = t.initialised /\ u.inFlight = f
        /\ u.initialized = t.initialized /\ u.initialize = i /\ u.kept = k
    BY <2>2, <2>3 DEF Tracker
  <2> QED
    BY <1>2, <2>1, <2>4 DEF f, i, k
<1> QED
  BY <1>1, <1>2

\* A response clears its request, and a result to a lifecycle request begins the session.
LEMMA OnDaemonLineFields ==
  ASSUME NEW t \in Tracker, NEW r \in Response, t.inFlight[r.id] # NoLine,
         t.inFlight[r.id] \in LineOrNone
  PROVE  LET u == OnDaemonLine(t, r)
             a == t.inFlight[r.id]
             begins == ~t.initialised /\ r.ok /\ CountsForLifecycle(a)
         IN
         /\ u \in Tracker /\ u.inFlight = [t.inFlight EXCEPT ![r.id] = NoLine]
         /\ u.initialised <=> (t.initialised \/ begins)
         /\ u.initialize = t.initialize /\ u.initialized = t.initialized
         /\ u.kept \in {t.kept, NoLine} /\ (begins => u.kept = NoLine)
         /\ ~t.initialised /\ ~r.ok /\ t.kept.id = r.id => u.kept = NoLine
         /\ ~begins /\ t.kept.id # r.id => u.kept = t.kept
<1> DEFINE f == [t.inFlight EXCEPT ![r.id] = NoLine]
           c == [t EXCEPT !.inFlight = f]
<1>1. f \in [Id -> Line \cup {NoLine}]
  BY TrackerFields DEF LineOrNone
<1> HIDE DEF f
<1>2. /\ c \in Tracker /\ c.inFlight = f /\ c.initialised = t.initialised /\ c.kept = t.kept
      /\ c.initialize = t.initialize /\ c.initialized = t.initialized
  BY <1>1 DEF Tracker
<1>3. c = [t EXCEPT !.inFlight[r.id] = NoLine]
  BY DEF f, Tracker
<1> HIDE DEF c
<1> DEFINE begins == ~t.initialised /\ r.ok /\ CountsForLifecycle(t.inFlight[r.id])
<1>4. OnDaemonLine(t, r) =
        IF begins THEN [c EXCEPT !.initialised = TRUE, !.kept = NoLine]
        ELSE IF ~t.initialised /\ ~r.ok /\ t.kept.id = r.id THEN [c EXCEPT !.kept = NoLine] ELSE c
  BY <1>3, TrackerFields, Lines DEF OnDaemonLine
<1>5. CASE begins
  <2>1. OnDaemonLine(t, r) = [c EXCEPT !.initialised = TRUE, !.kept = NoLine]
    BY <1>4, <1>5
  <2>2. LET u == OnDaemonLine(t, r) IN
        /\ u \in Tracker /\ u.inFlight = f /\ u.initialised = TRUE /\ u.kept = NoLine
        /\ u.initialize = t.initialize /\ u.initialized = t.initialized
    BY <2>1, <1>2 DEF Tracker
  <2> QED
    BY <2>2, <1>5 DEF f
<1>6. CASE ~begins
  <2>1. CASE ~t.initialised /\ ~r.ok /\ t.kept.id = r.id
    <3>1. OnDaemonLine(t, r) = [c EXCEPT !.kept = NoLine]
      BY <1>4, <1>6, <2>1
    <3>2. LET u == OnDaemonLine(t, r) IN
          /\ u \in Tracker /\ u.inFlight = f /\ u.initialised = t.initialised /\ u.kept = NoLine
          /\ u.initialize = t.initialize /\ u.initialized = t.initialized
      BY <3>1, <1>2 DEF Tracker
    <3> QED
      BY <3>2, <1>6, <2>1 DEF f
  <2>2. CASE ~(~t.initialised /\ ~r.ok /\ t.kept.id = r.id)
    BY <1>2, <1>4, <1>6, <2>2 DEF f
  <2> QED
    BY <2>1, <2>2
<1> QED
  BY <1>5, <1>6

-----------------------------------------------------------------------------
(* Sequences, the client and steps that leave the session alone *)

LEMMA Removal ==
  ASSUME NEW S, NEW s \in Seq(S), NEW i \in 1..Len(s)
  PROVE  /\ RemoveAt(s, i) \in Seq(S) /\ Len(RemoveAt(s, i)) = Len(s) - 1
         /\ \A k \in 1..Len(s) - 1 : RemoveAt(s, i)[k] = IF k < i THEN s[k] ELSE s[k + 1]
<1> DEFINE a == SubSeq(s, 1, i - 1)
           b == SubSeq(s, i + 1, Len(s))
<1>1. a \in Seq(S) /\ Len(a) = i - 1 /\ \A k \in 1..i - 1 : a[k] = s[k]
  OBVIOUS
<1>2. b \in Seq(S) /\ Len(b) = Len(s) - i /\ \A k \in 1..Len(s) - i : b[k] = s[i + k]
  OBVIOUS
<1>3. Len(s) \in Nat /\ i \in Nat /\ 1 <= i /\ i <= Len(s)
  OBVIOUS
<1> HIDE DEF a, b
<1>4. /\ a \o b \in Seq(S) /\ Len(a \o b) = Len(s) - 1
      /\ \A k \in 1..Len(s) - 1 : (a \o b)[k] = IF k < i THEN a[k] ELSE b[k - (i - 1)]
  <2>1. /\ a \o b \in Seq(S) /\ Len(a \o b) = Len(a) + Len(b)
        /\ \A k \in 1..Len(a) + Len(b) : (a \o b)[k] = IF k <= Len(a) THEN a[k] ELSE b[k - Len(a)]
    BY <1>1, <1>2, ConcatProperties
  <2> QED
    BY <1>1, <1>2, <1>3, <2>1
<1>5. ASSUME NEW k \in 1..Len(s) - 1
      PROVE  (a \o b)[k] = IF k < i THEN s[k] ELSE s[k + 1]
  <2>1. (a \o b)[k] = IF k < i THEN a[k] ELSE b[k - (i - 1)]
    BY <1>4
  <2>2. CASE k < i
    <3>1. k \in 1..i - 1
      BY <1>3, <2>2
    <3> QED
      BY <1>1, <2>1, <2>2, <3>1
  <2>3. CASE ~(k < i)
    <3>1. k - (i - 1) \in 1..Len(s) - i /\ i + (k - (i - 1)) = k + 1
      BY <1>3, <2>3
    <3>2. b[k - (i - 1)] = s[i + (k - (i - 1))]
      BY <1>2, <3>1
    <3> QED
      BY <2>1, <2>3, <3>1, <3>2
  <2> QED
    BY <2>2, <2>3
<1> QED
  BY <1>4, <1>5 DEF RemoveAt, a, b

LEMMA Types ==
  ASSUME ProxyTypeOK
  PROVE  /\ client.sent \in Nat /\ client.ready \in BOOLEAN
         /\ asked \in [Id -> LineOrNone] /\ tracker \in Tracker
         /\ queue \in Seq(Line) /\ conn.got \in Seq(Line) /\ conn.owed \in Seq(Line)
         /\ pump.line \in Response \cup {NoResponse}
         /\ main.attempts \in Nat /\ pending.used \in Nat /\ pending.used <= MaxAttempts
         /\ main.cached \in LineOrNone /\ writes \in [1..MaxLines -> Nat] /\ MaxAttempts \in Nat
  BY BoundsAssumption DEF ProxyTypeOK, LineOrNone

LEMMA SaysFacts ==
  ASSUME SessionInv, NEW x \in NextLine, Says(x)
  PROVE  /\ x \in Line /\ x.n = client.sent + 1 /\ x.n \in 1..MaxLines
         /\ client'.lifecycle = client.lifecycle /\ client'.ready = client.ready
         /\ client'.key = client.key /\ client'.sent = x.n
         /\ client' \in ClientState
         /\ IsRequest(x) => /\ x.id \in Id /\ asked[x.id] = NoLine
                            /\ asked' = [asked EXCEPT ![x.id] = x]
         /\ ~IsRequest(x) => asked' = asked
         /\ x.what \in {"initialized"} => client.ready
         /\ x.what = "call" /\ client.lifecycle = "handshake" => client.ready
         /\ Alive /\ UNCHANGED unexpected
<1>1. ProxyTypeOK /\ MaySend(x) /\ client.sent \in Nat
  BY Types DEF SessionInv, Says
<1>2. x.what \in Request \cup {"initialized"} /\ x.id \in Id \cup {NoId} /\ x.n = client.sent + 1
  BY DEF NextLine
<1>3. x.n \in 1..MaxLines
  BY <1>1, <1>2, BoundsAssumption DEF MaySend
<1>4. x \in Line
  BY <1>2, <1>3 DEF NextLine, Line
<1>5. /\ x.what = "initialized" => client.ready
      /\ x.what = "call" /\ client.lifecycle = "handshake" => client.ready
  BY <1>1 DEF MaySend
<1> DEFINE w == client.told \/ x.what = "initialized"
<1>6. client' = [client EXCEPT !.sent = x.n, !.told = w]
  BY DEF Says
<1>7. w \in BOOLEAN
  BY Zenon
<1> HIDE DEF w
<1>8. /\ client'.lifecycle = client.lifecycle /\ client'.ready = client.ready
      /\ client'.key = client.key /\ client'.sent = x.n
      /\ client' \in ClientState
  <2>1. client \in ClientState /\ x.n \in 0..MaxLines
    BY <1>1, <1>3 DEF ProxyTypeOK, ClientState
  <2> QED
    BY <1>6, <1>7, <2>1 DEF ClientState
<1>9. IsRequest(x) => x.id \in Id /\ asked[x.id] = NoLine
  BY <1>1 DEF MaySend
<1> QED
  BY <1>1, <1>2, <1>3, <1>4, <1>5, <1>8, <1>9 DEF Says, MaySend

\* What the client hears it waits for.
LEMMA HearsFacts ==
  ASSUME SessionInv, NEW rs \in SUBSET Response, NEW key \in Key \cup {NoKey}, NEW announced \in BOOLEAN,
         \A r \in rs : asked[r.id].n = r.n,
         Hears(rs, key, announced)
  PROVE  LET begins == ~client.ready /\ \E r \in rs : r.ok /\ CountsForLifecycle(asked[r.id]) IN
         /\ asked' = [i \in Id |-> IF \E r \in rs : r.id = i THEN NoLine ELSE asked[i]]
         /\ asked' \in [Id -> LineOrNone] /\ unexpected' = {}
         /\ client'.lifecycle = client.lifecycle /\ client'.sent = client.sent
         /\ client'.ready <=> (client.ready \/ begins)
         /\ client'.key = IF begins \/ announced THEN key ELSE client.key
         /\ client' \in ClientState
<1> DEFINE begins == ~client.ready /\ \E r \in rs : r.ok /\ CountsForLifecycle(asked[r.id])
           y == client.ready \/ begins
           k == IF begins \/ announced THEN key ELSE client.key
<1>1. ProxyTypeOK /\ unexpected = {} /\ asked \in [Id -> LineOrNone]
  BY Types DEF SessionInv, EveryAnswerAwaited
<1>2. client' = [client EXCEPT !.ready = y, !.key = k]
  BY DEF Hears
<1>3. y \in BOOLEAN /\ k \in Key \cup {NoKey}
  BY <1>1 DEF ProxyTypeOK
<1>4. begins \in BOOLEAN
  BY Zenon
<1>5. asked' = [i \in Id |-> IF \E r \in rs : r.id = i THEN NoLine ELSE asked[i]]
  BY DEF Hears
<1>6. unexpected' = {}
  BY <1>1 DEF Hears
<1>7. asked' \in [Id -> LineOrNone]
  BY <1>1, <1>5 DEF LineOrNone
<1>8. y <=> (client.ready \/ begins)
  OBVIOUS
<1>9. k = IF begins \/ announced THEN key ELSE client.key
  OBVIOUS
<1> HIDE DEF y, k
<1>10. /\ client'.lifecycle = client.lifecycle /\ client'.sent = client.sent
       /\ client'.ready = y /\ client'.key = k
       /\ client' \in ClientState
  BY <1>1, <1>2, <1>3 DEF ProxyTypeOK, ClientState
<1> QED
  BY <1>5, <1>6, <1>7, <1>8, <1>9, <1>10

-----------------------------------------------------------------------------
(* Steps that move the main loop or the pump and nothing else *)

LEMMA Quiet ==
  ASSUME SessionInv, ProxyTypeOK',
         UNCHANGED <<asked, unexpected, tracker, queue, pending, lossState, writes>>,
         client'.lifecycle = client.lifecycle, client'.sent = client.sent,
         client'.ready = client.ready, client'.key = client.key,
         conn'.key = conn.key, conn'.got = conn.got, conn'.owed = conn.owed,
         main'.pc \in {"attempt", "disconnected"} => conn' = conn,
         main'.after = main.after, main'.attempts = main.attempts, main'.cached = main.cached,
         \/ main'.pc = main.pc /\ main'.exit = main.exit
         \/ /\ Connected /\ Connected' /\ main'.exit = main.exit
            /\ main'.pc = "forward" => queue = <<>>
         \/ main'.pc = "exited" /\ (main'.exit = "failed" => ~client.ready),
         \/ pump' = pump
         \/ (Connected' \/ main'.pc = "exited") /\ pump'.pc \in {"off", "read", "sent", "ended"}
  PROVE  SessionInv'
<1>1. TrackerInv' /\ LifecycleInv'
  BY DEF SessionInv, TrackerInv, LifecycleInv
<1>2. /\ InRound' => InRound /\ main'.pc = main.pc
      /\ main'.pc \in {"attempt", "response", "disconnected"} => main'.pc = main.pc
      /\ Connected' => Connected
      /\ Alive' => Alive
      /\ main'.pc \notin {"exited"} => main'.exit = main.exit
  BY DEF Connected, InRound, Alive
<1>3. RoundInv'
  BY <1>2 DEF SessionInv, RoundInv, InRound
<1>4. QueueInv'
  <2>1. QueueInv
    BY DEF SessionInv
  <2>2. main'.pc \in {"disconnected", "forward"} => queue = <<>>
    BY <1>2, <2>1 DEF QueueInv
  <2> QED
    BY <2>1, <2>2 DEF QueueInv
<1>5. OwedInv'
  BY <1>2 DEF SessionInv, OwedInv
<1>6. PumpInv'
  BY <1>2 DEF SessionInv, PumpInv, Connected, Alive
<1>7. WritesInv'
  <2>1. Alive' /\ tracker.kept.what = "call" => Used' = Used
    BY <1>2 DEF Used, InRound, Connected, Alive
  <2> QED
    BY <1>2, <2>1 DEF SessionInv, WritesInv
<1>8. (client.ready => client.key = lossState.key)' /\ (Alive => main.exit = "no")'
  BY <1>2 DEF SessionInv, Alive
<1>9. EveryAnswerAwaited' /\ ResendBounded' /\ NeverExitsOnceReady' /\ HandshakeFirst'
  BY DEF SessionInv, EveryAnswerAwaited, ResendBounded, NeverExitsOnceReady, HandshakeFirst
<1> QED
  BY <1>1, <1>3, <1>4, <1>5, <1>6, <1>7, <1>8, <1>9 DEF SessionInv


\* A step of the main loop alone.
LEMMA MainMoves ==
  ASSUME SessionInv, NEW next \in MainPC, Goto(next),
         UNCHANGED <<clientVars, tracker, queue, pending, lossState, pump, daemonVars>>,
         notified' \in BOOLEAN, Connected, next = "forward" => queue = <<>>,
         next \in {"flush", "forward", "loss", "drain", "drain_check", "drain_await", "drain_wait"}
  PROVE  SessionInv'
<1>1. main \in [pc : MainPC, after : After, attempts : 0..MaxAttempts, cached : LineOrNone,
                exit : {"no", "eof", "answered", "failed"}]
  BY DEF SessionInv, ProxyTypeOK, LineOrNone
<1>2. /\ main'.pc = next /\ main'.after = main.after /\ main'.attempts = main.attempts
      /\ main'.cached = main.cached /\ main'.exit = main.exit
      /\ main' \in [pc : MainPC, after : After, attempts : 0..MaxAttempts, cached : LineOrNone,
                    exit : {"no", "eof", "answered", "failed"}]
  BY <1>1 DEF Goto
<1>3. ProxyTypeOK'
  BY <1>2 DEF SessionInv, ProxyTypeOK, LineOrNone, clientVars, daemonVars
<1>4. Connected'
  BY <1>2 DEF Connected
<1> QED
  BY <1>2, <1>3, <1>4, Quiet DEF clientVars, daemonVars

LEMMA MainExits ==
  ASSUME SessionInv, NEW why \in {"eof", "answered", "failed"}, Exit(why),
         UNCHANGED <<asked, unexpected, tracker, queue, pending, lossState, pump, daemonVars>>,
         client' \in ClientState,
         client'.lifecycle = client.lifecycle, client'.sent = client.sent,
         client'.ready = client.ready, client'.key = client.key,
         notified' \in BOOLEAN, why = "failed" => ~client.ready
  PROVE  SessionInv'
<1>1. main \in [pc : MainPC, after : After, attempts : 0..MaxAttempts, cached : LineOrNone,
                exit : {"no", "eof", "answered", "failed"}]
  BY DEF SessionInv, ProxyTypeOK, LineOrNone
<1>2. /\ main'.pc = "exited" /\ main'.after = main.after /\ main'.attempts = main.attempts
      /\ main'.cached = main.cached /\ main'.exit = why
      /\ main' \in [pc : MainPC, after : After, attempts : 0..MaxAttempts, cached : LineOrNone,
                    exit : {"no", "eof", "answered", "failed"}]
  BY <1>1 DEF Exit, MainPC
<1>3. ProxyTypeOK'
  BY <1>2 DEF SessionInv, ProxyTypeOK, LineOrNone, daemonVars, ClientState
<1> QED
  BY <1>2, <1>3, Quiet DEF daemonVars

LEMMA ForwardLostInv ==
  ASSUME SessionInv, ForwardLost
  PROVE  SessionInv'
<1>1. notified' \in BOOLEAN /\ Connected
  BY DEF SessionInv, ProxyTypeOK, ForwardLost, Connected
<1> QED
  BY <1>1, MainMoves DEF ForwardLost, MainPC

LEMMA DrainInv ==
  ASSUME SessionInv,
         DrainListen \/ DrainCheck \/ DrainAwait \/ DrainWake \/ DrainLost \/ DrainGivesUp
  PROVE  SessionInv'
<1>1. /\ notified' \in BOOLEAN /\ Connected /\ UNCHANGED drainRest
      /\ \/ Goto("drain_check") \/ Goto("drain_await") \/ Goto("drain_wait") \/ Goto("drain")
         \/ Exit("answered") \/ Exit("eof")
  BY DEF SessionInv, ProxyTypeOK, Connected, DrainListen, DrainCheck, DrainAwait, DrainWake,
         DrainLost, DrainGivesUp
<1>2. client \in ClientState /\ UNCHANGED client
  BY <1>1 DEF SessionInv, ProxyTypeOK, ClientState, drainRest, clientVars
<1>3. CASE Goto("drain_check") \/ Goto("drain_await") \/ Goto("drain_wait") \/ Goto("drain")
  BY <1>1, <1>3, MainMoves DEF drainRest, MainPC
<1>4. CASE Exit("answered") \/ Exit("eof")
  BY <1>1, <1>2, <1>4, MainExits DEF drainRest, clientVars
<1> QED
  BY <1>1, <1>3, <1>4

LEMMA EofInv ==
  ASSUME SessionInv, Eof
  PROVE  SessionInv'
<1>1. client \in ClientState /\ notified \in BOOLEAN
  BY DEF SessionInv, ProxyTypeOK, ClientState
<1>2. /\ client' \in ClientState /\ client'.lifecycle = client.lifecycle
      /\ client'.sent = client.sent /\ client'.ready = client.ready /\ client'.key = client.key
  BY <1>1 DEF Eof, ClientState
<1>3. CASE main.pc = "forward" /\ Goto("drain")
  <2>1. main \in [pc : MainPC, after : After, attempts : 0..MaxAttempts, cached : LineOrNone,
                  exit : {"no", "eof", "answered", "failed"}]
    BY DEF SessionInv, ProxyTypeOK, LineOrNone
  <2>2. /\ main'.pc = "drain" /\ main'.after = main.after /\ main'.attempts = main.attempts
        /\ main'.cached = main.cached /\ main'.exit = main.exit
        /\ main' \in [pc : MainPC, after : After, attempts : 0..MaxAttempts, cached : LineOrNone,
                      exit : {"no", "eof", "answered", "failed"}]
    BY <2>1, <1>3 DEF Goto, MainPC
  <2>3. ProxyTypeOK'
    BY <1>2, <2>2 DEF Eof, SessionInv, ProxyTypeOK, LineOrNone, ClientState, daemonVars
  <2>4. Connected /\ Connected'
    BY <1>3, <2>2 DEF Connected
  <2> QED
    BY <1>2, <2>2, <2>3, <2>4, Quiet DEF Eof, daemonVars
<1>4. CASE Exit("eof")
  BY <1>1, <1>2, <1>4, MainExits DEF Eof
<1> QED
  BY <1>3, <1>4 DEF Eof

\* A step of the pump alone, and the daemon closing its end.
LEMMA PumpMovesInv ==
  ASSUME SessionInv, PumpEof \/ PumpNotify \/ DaemonClose
  PROVE  SessionInv'
<1>1. /\ pump \in [pc : {"off", "read", "held", "taken", "sent", "ended"},
                   line : Response \cup {NoResponse}]
      /\ conn \in [open : BOOLEAN, key : Key \cup {NoKey}, got : Seq(Line), owed : Seq(Line),
                   begun : BOOLEAN]
      /\ notified \in BOOLEAN
  BY DEF SessionInv, ProxyTypeOK
<1>2. UNCHANGED <<clientVars, tracker, loopVars, writes>>
  BY DEF PumpEof, PumpNotify, DaemonClose, daemonVars
<1>3. CASE PumpEof \/ PumpNotify
  <2>1. /\ pump'.pc \in {"read", "ended"} /\ UNCHANGED conn /\ Connected
        /\ pump' \in [pc : {"off", "read", "held", "taken", "sent", "ended"},
                      line : Response \cup {NoResponse}]
    BY <1>1, <1>3 DEF PumpEof, PumpNotify, daemonVars, SessionInv, PumpInv
  <2>2. notified' \in BOOLEAN
    <3>1. CASE PumpEof
      BY <1>1, <3>1 DEF PumpEof
    <3>2. CASE PumpNotify
      BY <3>2, Zenon DEF PumpNotify
    <3> QED
      BY <1>3, <3>1, <3>2
  <2>3. ProxyTypeOK'
    BY <1>2, <2>1, <2>2 DEF SessionInv, ProxyTypeOK, clientVars, loopVars
  <2>4. Connected'
    BY <1>2, <2>1 DEF Connected, loopVars
  <2> QED
    BY <1>2, <2>1, <2>3, <2>4, Quiet DEF clientVars, loopVars
<1>4. CASE DaemonClose
  <2>1. /\ conn.open /\ conn'.key = conn.key /\ conn'.got = conn.got /\ conn'.owed = conn.owed
        /\ conn' \in [open : BOOLEAN, key : Key \cup {NoKey}, got : Seq(Line), owed : Seq(Line),
                      begun : BOOLEAN]
        /\ UNCHANGED <<pump, notified>>
    BY <1>1, <1>4 DEF DaemonClose
  <2>2. ProxyTypeOK'
    BY <1>1, <1>2, <2>1 DEF SessionInv, ProxyTypeOK, clientVars, loopVars
  <2>3. main'.pc \notin {"attempt", "disconnected"}
    BY <1>2, <2>1 DEF SessionInv, RoundInv, NoConn, loopVars
  <2> QED
    BY <1>2, <2>1, <2>2, <2>3, Quiet DEF clientVars, loopVars
<1> QED
  BY <1>3, <1>4

-----------------------------------------------------------------------------
(* The pump *)

\* What is left of an increasing sequence of lines once one is removed.
LEMMA RemovalKeepsOrder ==
  ASSUME NEW s \in Seq(Line), NEW i \in DOMAIN s,
         \A j, k \in DOMAIN s : j < k => s[j].n < s[k].n
  PROVE  LET r == RemoveAt(s, i) IN
         /\ r \in Seq(Line)
         /\ \A k \in DOMAIN r : (\E m \in DOMAIN s : r[k] = s[m]) /\ r[k].n # s[i].n
         /\ \A j, k \in DOMAIN r : j < k => r[j].n < r[k].n
<1> DEFINE r == RemoveAt(s, i)
<1>1. i \in 1..Len(s) /\ DOMAIN s = 1..Len(s) /\ Len(s) \in Nat
  OBVIOUS
<1>2. /\ r \in Seq(Line) /\ Len(r) = Len(s) - 1
      /\ \A k \in 1..Len(s) - 1 : r[k] = IF k < i THEN s[k] ELSE s[k + 1]
  BY <1>1, Removal
<1> HIDE DEF r
<1>3. DOMAIN r = 1..Len(s) - 1
  BY <1>2
<1>4. ASSUME NEW k \in DOMAIN r
      PROVE  /\ (IF k < i THEN k ELSE k + 1) \in DOMAIN s /\ (IF k < i THEN k ELSE k + 1) # i
             /\ r[k] = s[IF k < i THEN k ELSE k + 1]
  BY <1>1, <1>2, <1>3
<1>5. \A m \in DOMAIN s : s[m].n \in Nat
  BY Lines
<1>6. \A k \in DOMAIN r : (\E m \in DOMAIN s : r[k] = s[m]) /\ r[k].n # s[i].n
  <2> TAKE k \in DOMAIN r
  <2>1. PICK m \in DOMAIN s : m # i /\ r[k] = s[m]
    BY <1>4
  <2>2. m < i \/ i < m
    BY <1>1, <2>1
  <2> QED
    BY <1>5, <2>1, <2>2
<1>7. \A j, k \in DOMAIN r : j < k => r[j].n < r[k].n
  <2> TAKE j, k \in DOMAIN r
  <2>1. HAVE j < k
  <2>2. (IF j < i THEN j ELSE j + 1) < (IF k < i THEN k ELSE k + 1)
    BY <1>1, <1>3, <2>1
  <2> QED
    BY <1>4, <2>2
<1> QED
  BY <1>2, <1>6, <1>7 DEF r

LEMMA PumpReadInv ==
  ASSUME SessionInv, PumpRead
  PROVE  SessionInv'
<1>1. PICK i \in DOMAIN conn.owed, ok \in BOOLEAN :
        conn' = Answered(i, ok) /\ pump' = [pc |-> "held", line |-> AnswerTo(i, ok)]
  BY DEF PumpRead
<1>2. /\ UNCHANGED <<clientVars, tracker, loopVars, writes, notified>>
      /\ Alive /\ pump.pc = "read" /\ Connected /\ Connected'
  BY DEF PumpRead, SessionInv, PumpInv, Connected, loopVars
<1>3. /\ UNCHANGED <<client, asked, unexpected, tracker, main, queue, pending, lossState>>
      /\ ProxyTypeOK
  BY <1>2 DEF clientVars, loopVars, SessionInv
<1>4. conn.owed \in Seq(Line) /\ conn.owed[i] \in Line
  BY <1>3, Types
<1>5. /\ conn.owed[i].id \in Id /\ tracker.inFlight[conn.owed[i].id] = conn.owed[i]
      /\ \E j \in DOMAIN conn.got : conn.got[j] = conn.owed[i]
      /\ \A j, k \in DOMAIN conn.owed : j < k => conn.owed[j].n < conn.owed[k].n
  BY <1>2 DEF SessionInv, OwedInv
<1> DEFINE r == RemoveAt(conn.owed, i)
           b == conn.begun \/ (ok /\ CountsForLifecycle(conn.owed[i]))
<1>6. /\ r \in Seq(Line)
      /\ \A k \in DOMAIN r : (\E m \in DOMAIN conn.owed : r[k] = conn.owed[m]) /\ r[k].n # conn.owed[i].n
      /\ \A j, k \in DOMAIN r : j < k => r[j].n < r[k].n
  BY <1>4, <1>5, RemovalKeepsOrder
<1>7. b \in BOOLEAN
  BY <1>3 DEF ProxyTypeOK
<1>8. conn' = [conn EXCEPT !.owed = r, !.begun = b]
  BY <1>1 DEF Answered
<1> HIDE DEF r, b
<1>9. /\ conn'.owed = r /\ conn'.got = conn.got /\ conn'.key = conn.key
      /\ conn' \in [open : BOOLEAN, key : Key \cup {NoKey}, got : Seq(Line), owed : Seq(Line),
                    begun : BOOLEAN]
  BY <1>3, <1>6, <1>7, <1>8 DEF ProxyTypeOK
<1>10. /\ pump'.pc = "held" /\ pump'.line \in Response
       /\ pump'.line.id = conn.owed[i].id /\ pump'.line.n = conn.owed[i].n
  BY <1>1, <1>4, <1>5 DEF AnswerTo, Response, Line
<1>11. ProxyTypeOK'
  BY <1>1, <1>2, <1>3, <1>9, <1>10 DEF ProxyTypeOK
<1>12. /\ TrackerInv' /\ LifecycleInv'
       /\ (client.ready => client.key = lossState.key)' /\ (Alive => main.exit = "no")'
  BY <1>3 DEF SessionInv, TrackerInv, LifecycleInv, Alive
<1>13. RoundInv'
  BY <1>2, <1>3 DEF RoundInv, Connected, InRound
<1>14. QueueInv'
  BY <1>2, <1>3, <1>9 DEF SessionInv, QueueInv
<1>15. OwedInv'
  BY <1>2, <1>3, <1>6, <1>9 DEF SessionInv, OwedInv
<1>16. PumpInv'
  BY <1>2, <1>3, <1>5, <1>6, <1>9, <1>10, Lines DEF PumpInv
<1>17. WritesInv' /\ EveryAnswerAwaited' /\ ResendBounded' /\ NeverExitsOnceReady' /\ HandshakeFirst'
  BY <1>2, <1>3, <1>9 DEF SessionInv, WritesInv, Used, InRound, Alive, EveryAnswerAwaited,
     ResendBounded, NeverExitsOnceReady, HandshakeFirst
<1> QED
  BY <1>11, <1>12, <1>13, <1>14, <1>15, <1>16, <1>17 DEF SessionInv

\* The tracker after the answer to a request in flight.
LEMMA Answering ==
  ASSUME ProxyTypeOK, TrackerInv, LifecycleInv, NEW r \in Response, tracker.inFlight[r.id].n = r.n
  PROVE  LET u == OnDaemonLine(tracker, r)
             a == tracker.inFlight[r.id]
         IN
         /\ u \in Tracker /\ u.inFlight = [tracker.inFlight EXCEPT ![r.id] = NoLine]
         /\ a = asked[r.id] /\ a # NoLine /\ a \in Line
         /\ u.initialised <=> (tracker.initialised \/ (r.ok /\ CountsForLifecycle(a)))
         /\ u.initialize = tracker.initialize /\ u.initialized = tracker.initialized
         /\ u.kept # NoLine =>
              /\ u.kept = tracker.kept /\ ~u.initialised /\ CountsForLifecycle(u.kept)
              /\ u.kept.id \in Id /\ u.kept.id # r.id /\ u.inFlight[u.kept.id] = u.kept
         /\ client.lifecycle = "handshake" =>
              /\ u.initialised => u.initialize # NoLine
              /\ ~tracker.initialised /\ u.initialised => a.what = "initialize"
              /\ \A i \in Id : ~u.initialised /\ CountsForLifecycle(u.inFlight[i]) =>
                   u.inFlight[i].what = "initialize" /\ u.initialize # NoLine
<1> DEFINE u == OnDaemonLine(tracker, r)
           a == tracker.inFlight[r.id]
           begins == ~tracker.initialised /\ r.ok /\ CountsForLifecycle(a)
<1>1. /\ tracker \in Tracker /\ r.id \in Id /\ r.n > 0 /\ r.ok \in BOOLEAN
      /\ tracker.inFlight \in [Id -> LineOrNone] /\ tracker.kept \in LineOrNone
  BY Types, Lines, TrackerFields
<1>2. a \in LineOrNone /\ a # NoLine /\ a \in Line /\ a = asked[r.id]
  BY <1>1, Lines DEF TrackerInv, LineOrNone
<1>3. /\ u \in Tracker /\ u.inFlight = [tracker.inFlight EXCEPT ![r.id] = NoLine]
      /\ u.initialised <=> (tracker.initialised \/ begins)
      /\ u.initialize = tracker.initialize /\ u.initialized = tracker.initialized
      /\ u.kept \in {tracker.kept, NoLine} /\ (begins => u.kept = NoLine)
      /\ ~tracker.initialised /\ ~r.ok /\ tracker.kept.id = r.id => u.kept = NoLine
  BY <1>1, <1>2, OnDaemonLineFields
<1> HIDE DEF u
<1>4. ASSUME u.kept # NoLine
      PROVE  /\ u.kept = tracker.kept /\ ~u.initialised /\ CountsForLifecycle(u.kept)
             /\ u.kept.id \in Id /\ u.kept.id # r.id /\ u.inFlight[u.kept.id] = u.kept
  <2>1. u.kept = tracker.kept /\ ~begins
    BY <1>3, <1>4
  <2>2. /\ ~tracker.initialised /\ CountsForLifecycle(tracker.kept)
        /\ tracker.kept.id \in Id /\ tracker.inFlight[tracker.kept.id] = tracker.kept
    BY <1>4, <2>1 DEF TrackerInv
  <2>3. ~u.initialised
    BY <1>3, <2>1, <2>2
  <2>4. tracker.kept.id # r.id
    BY <1>1, <1>3, <1>4, <2>1, <2>2
  <2> QED
    BY <1>1, <1>3, <2>1, <2>2, <2>3, <2>4
<1>5. ASSUME client.lifecycle = "handshake"
      PROVE  /\ u.initialised => u.initialize # NoLine
             /\ ~tracker.initialised /\ u.initialised => a.what = "initialize"
             /\ \A i \in Id : ~u.initialised /\ CountsForLifecycle(u.inFlight[i]) =>
                  u.inFlight[i].what = "initialize" /\ u.initialize # NoLine
  <2>1. \A i \in Id : CountsForLifecycle(u.inFlight[i]) => u.inFlight[i] = tracker.inFlight[i]
    BY <1>1, <1>3, Lines
  <2> QED
    BY <1>1, <1>2, <1>3, <1>5, <2>1 DEF LifecycleInv
<1> QED
  BY <1>2, <1>3, <1>4, <1>5 DEF u

LEMMA PumpTakeInv ==
  ASSUME SessionInv, PumpTake
  PROVE  SessionInv'
<1> DEFINE r == pump.line
           u == OnDaemonLine(tracker, r)
           a == tracker.inFlight[r.id]
<1>1. /\ UNCHANGED <<client, asked, unexpected, main, queue, pending, lossState, conn, writes, notified>>
      /\ Alive /\ pump.pc = "held" /\ tracker' = u /\ pump' = [pump EXCEPT !.pc = "taken"]
  BY DEF PumpTake, clientVars, loopVars, daemonVars
<1>2. /\ ProxyTypeOK /\ TrackerInv /\ LifecycleInv /\ Connected /\ Connected'
  BY <1>1 DEF SessionInv, PumpInv, Connected
<1>3. /\ r \in Response /\ a.n = r.n
      /\ \E j \in DOMAIN conn.got : conn.got[j] = a
      /\ \A k \in DOMAIN conn.owed : conn.owed[k].n # r.n
  BY <1>1, <1>2, Types DEF SessionInv, PumpInv
<1>4. /\ u \in Tracker /\ u.inFlight = [tracker.inFlight EXCEPT ![r.id] = NoLine]
      /\ a = asked[r.id] /\ a # NoLine /\ a \in Line
      /\ u.initialised <=> (tracker.initialised \/ (r.ok /\ CountsForLifecycle(a)))
      /\ u.initialize = tracker.initialize /\ u.initialized = tracker.initialized
      /\ u.kept # NoLine =>
           /\ u.kept = tracker.kept /\ ~u.initialised /\ CountsForLifecycle(u.kept)
           /\ u.kept.id \in Id /\ u.kept.id # r.id /\ u.inFlight[u.kept.id] = u.kept
      /\ client.lifecycle = "handshake" =>
           /\ u.initialised => u.initialize # NoLine
           /\ ~tracker.initialised /\ u.initialised => a.what = "initialize"
           /\ \A i \in Id : ~u.initialised /\ CountsForLifecycle(u.inFlight[i]) =>
                u.inFlight[i].what = "initialize" /\ u.initialize # NoLine
  BY <1>2, <1>3, Answering
<1> HIDE DEF u
<1>5. r.id \in Id /\ tracker.inFlight \in [Id -> LineOrNone]
  BY <1>2, <1>3, Types, TrackerFields, Lines
<1>6. \A i \in Id : /\ i # r.id => u.inFlight[i] = tracker.inFlight[i]
                    /\ u.inFlight[r.id] = NoLine
  BY <1>4, <1>5
<1>7. /\ pump'.pc = "taken" /\ pump'.line = r
      /\ pump' \in [pc : {"off", "read", "held", "taken", "sent", "ended"},
                    line : Response \cup {NoResponse}]
  BY <1>1, <1>2 DEF ProxyTypeOK
<1>8. ProxyTypeOK'
  BY <1>1, <1>2, <1>4, <1>7 DEF ProxyTypeOK
<1>9. TrackerInv'
  BY <1>1, <1>2, <1>4, <1>6 DEF TrackerInv
<1>10. /\ LifecycleInv'
       /\ (client.ready => client.key = lossState.key)' /\ (Alive => main.exit = "no")'
  BY <1>1, <1>2, <1>4 DEF SessionInv, LifecycleInv, Alive
<1>11. RoundInv'
  BY <1>1, <1>2 DEF RoundInv, Connected, InRound
<1>12. QueueInv'
  <2>1. ASSUME NEW k \in DOMAIN queue, IsRequest(queue[k])
        PROVE  queue[k].id \in Id /\ u.inFlight[queue[k].id] = queue[k]
    <3>1. PICK j \in DOMAIN conn.got : conn.got[j] = a
      BY <1>3
    <3>2. /\ queue[k].id \in Id /\ tracker.inFlight[queue[k].id] = queue[k]
          /\ IsRequest(conn.got[j]) => conn.got[j].n < queue[k].n
      BY <2>1 DEF SessionInv, QueueInv
    <3>3. IsRequest(a) /\ a.n \in Nat
      BY <1>2, <1>4, <1>5, Lines DEF TrackerInv
    <3>4. queue[k].id # r.id
      BY <3>1, <3>2, <3>3
    <3> QED
      BY <1>6, <3>2, <3>4
  <2>2. QueueInv
    BY DEF SessionInv
  <2> QED
    BY <1>1, <1>4, <2>1, <2>2 DEF QueueInv
<1>13. OwedInv'
  <2>1. ASSUME NEW k \in DOMAIN conn.owed
        PROVE  conn.owed[k].id \in Id /\ u.inFlight[conn.owed[k].id] = conn.owed[k]
    <3>1. conn.owed[k].id \in Id /\ tracker.inFlight[conn.owed[k].id] = conn.owed[k]
      BY <1>2 DEF SessionInv, OwedInv
    <3>2. conn.owed[k].id # r.id
      BY <1>3, <3>1
    <3> QED
      BY <1>6, <3>1, <3>2
  <2>2. client.lifecycle = "handshake" /\ u.initialised =>
          \E j \in DOMAIN conn.got : conn.got[j].what = "initialize"
    BY <1>2, <1>3, <1>4 DEF SessionInv, OwedInv
  <2> QED
    BY <1>1, <1>2, <2>1, <2>2 DEF SessionInv, OwedInv
<1>14. PumpInv'
  BY <1>1, <1>2, <1>3, <1>4, <1>5, <1>6, <1>7, Lines DEF PumpInv
<1>15. WritesInv'
  <2>1. u.kept.what = "call" => u.kept = tracker.kept
    BY <1>4, Lines
  <2>2. tracker'.kept = tracker.kept => Used' = Used
    BY <1>1 DEF Used, InRound
  <2> QED
    BY <1>1, <2>1, <2>2 DEF SessionInv, WritesInv, Alive
<1>16. EveryAnswerAwaited' /\ ResendBounded' /\ NeverExitsOnceReady' /\ HandshakeFirst'
  BY <1>1 DEF SessionInv, EveryAnswerAwaited, ResendBounded, NeverExitsOnceReady, HandshakeFirst
<1> QED
  BY <1>8, <1>9, <1>10, <1>11, <1>12, <1>13, <1>14, <1>15, <1>16 DEF SessionInv

LEMMA PumpSendInv ==
  ASSUME SessionInv, PumpSend
  PROVE  SessionInv'
<1> DEFINE r == pump.line
           begins == ~client.ready /\ \E x \in {r} : x.ok /\ CountsForLifecycle(asked[x.id])
<1>1. /\ UNCHANGED <<tracker, main, queue, pending, lossState, conn, writes, notified>>
      /\ Alive /\ pump.pc = "taken" /\ Hears({r}, conn.key, FALSE)
      /\ pump' = [pc |-> "sent", line |-> NoResponse]
  BY DEF PumpSend, loopVars, daemonVars
<1>2. /\ ProxyTypeOK /\ TrackerInv /\ LifecycleInv /\ Connected /\ Connected'
  BY <1>1 DEF SessionInv, PumpInv, Connected
<1>3. /\ r \in Response /\ asked[r.id].n = r.n /\ tracker.inFlight[r.id] = NoLine
      /\ r.ok /\ CountsForLifecycle(asked[r.id]) => tracker.initialised
  BY <1>1, <1>2, Types DEF SessionInv, PumpInv
<1>4. conn.key \in Key \cup {NoKey}
  BY <1>2 DEF ProxyTypeOK
<1>5. /\ asked' = [i \in Id |-> IF \E x \in {r} : x.id = i THEN NoLine ELSE asked[i]]
      /\ asked' \in [Id -> LineOrNone] /\ unexpected' = {}
      /\ client'.lifecycle = client.lifecycle /\ client'.sent = client.sent
      /\ client'.ready <=> (client.ready \/ begins)
      /\ client'.key = IF begins \/ FALSE THEN conn.key ELSE client.key
      /\ client' \in ClientState
  BY <1>1, <1>3, <1>4, HearsFacts
<1>6. \A i \in Id : asked'[i] = IF i = r.id THEN NoLine ELSE asked[i]
  BY <1>5
<1>7. ProxyTypeOK'
  BY <1>1, <1>2, <1>5 DEF ProxyTypeOK, ClientState, LineOrNone
<1>8. TrackerInv'
  BY <1>1, <1>2, <1>3, <1>5, <1>6 DEF TrackerInv
<1>9. LifecycleInv'
  BY <1>1, <1>2, <1>3, <1>5 DEF LifecycleInv
<1>10. (client.ready => client.key = lossState.key)' /\ (Alive => main.exit = "no")'
  BY <1>1, <1>2, <1>5 DEF SessionInv, OwedInv, Alive
<1>11. RoundInv'
  BY <1>1, <1>2 DEF RoundInv, Connected, InRound
<1>12. QueueInv' /\ OwedInv' /\ PumpInv'
  BY <1>1, <1>2, <1>5 DEF SessionInv, QueueInv, OwedInv, PumpInv
<1>13. WritesInv' /\ EveryAnswerAwaited' /\ ResendBounded' /\ HandshakeFirst'
  BY <1>1, <1>5 DEF SessionInv, WritesInv, Used, InRound, Alive, EveryAnswerAwaited,
     ResendBounded, HandshakeFirst
<1>14. NeverExitsOnceReady'
  BY <1>1, <1>2 DEF NeverExitsOnceReady, SessionInv
<1> QED
  BY <1>7, <1>8, <1>9, <1>10, <1>11, <1>12, <1>13, <1>14 DEF SessionInv

-----------------------------------------------------------------------------
(* Client lines and writes *)

\* The tracker after a line of the client: what is in flight stays, the line joins it.
LEMMA Tracked ==
  ASSUME SessionInv, NEW x \in NextLine, Says(x), NEW u \in Tracker,
         u.inFlight = OnClientLine(tracker, x).inFlight,
         u.initialised = OnClientLine(tracker, x).initialised,
         u.initialize = OnClientLine(tracker, x).initialize,
         u.initialized = OnClientLine(tracker, x).initialized,
         u.kept = OnClientLine(tracker, x).kept,
         tracker' = u
  PROVE  /\ TrackerInv' /\ LifecycleInv'
         /\ u.initialised = tracker.initialised
         /\ \A i \in Id : tracker.inFlight[i] # NoLine => u.inFlight[i] = tracker.inFlight[i]
         /\ IsRequest(x) => x.id \in Id /\ u.inFlight[x.id] = x
         /\ tracker.kept # NoLine => u.kept = tracker.kept
         /\ u.kept \in {tracker.kept, x}
         /\ u.initialized = IF x.what = "initialized" THEN x ELSE tracker.initialized
         /\ u.initialised => u.initialize = tracker.initialize
         /\ \A i \in Id : asked[i] # NoLine =>
              asked'[i] = asked[i] /\ u.inFlight[i] = tracker.inFlight[i]
<1>1. /\ x \in Line /\ x.n = client.sent + 1 /\ x.n \in 1..MaxLines
      /\ client'.lifecycle = client.lifecycle /\ client'.ready = client.ready
      /\ client'.sent = x.n
      /\ IsRequest(x) => /\ x.id \in Id /\ asked[x.id] = NoLine
                         /\ asked' = [asked EXCEPT ![x.id] = x]
      /\ ~IsRequest(x) => asked' = asked
      /\ x.what = "call" /\ client.lifecycle = "handshake" => client.ready
  BY SaysFacts
<1>2. /\ ProxyTypeOK /\ TrackerInv /\ LifecycleInv /\ tracker \in Tracker /\ client.sent \in Nat
      /\ asked \in [Id -> LineOrNone] /\ tracker.inFlight \in [Id -> LineOrNone]
      /\ tracker.kept \in LineOrNone /\ tracker.initialised \in BOOLEAN
  BY Types, TrackerFields DEF SessionInv
<1>3. /\ u.initialised = tracker.initialised
      /\ u.inFlight = IF IsRequest(x) THEN [tracker.inFlight EXCEPT ![x.id] = x] ELSE tracker.inFlight
      /\ u.initialized = IF x.what = "initialized" THEN x ELSE tracker.initialized
      /\ u.initialize = IF ~tracker.initialised /\ x.what = "initialize" THEN x ELSE tracker.initialize
      /\ u.kept = IF ~tracker.initialised /\ tracker.kept = NoLine /\ CountsForLifecycle(x)
                  THEN x ELSE tracker.kept
  BY <1>1, <1>2, OnClientLineFields
<1>4. x # NoLine /\ (CountsForLifecycle(x) => IsRequest(x)) /\ x \in LineOrNone
  BY <1>1, Kinds, Lines DEF LineOrNone
<1>5. IsRequest(x) => tracker.inFlight[x.id] = NoLine
  BY <1>1, <1>2 DEF TrackerInv
<1>6. \A i \in Id : /\ u.inFlight[i] = IF IsRequest(x) /\ i = x.id THEN x ELSE tracker.inFlight[i]
                    /\ asked'[i] = IF IsRequest(x) /\ i = x.id THEN x ELSE asked[i]
  BY <1>1, <1>2, <1>3
<1>7. \A i \in Id : tracker.inFlight[i] # NoLine => u.inFlight[i] = tracker.inFlight[i]
  BY <1>5, <1>6
<1>8. TrackerInv'
  <2>1. \A i \in Id : asked'[i] # NoLine =>
          asked'[i].id = i /\ IsRequest(asked'[i]) /\ asked'[i].n <= client'.sent
    <3> TAKE i \in Id
    <3>1. CASE IsRequest(x) /\ i = x.id
      BY <1>1, <1>6, <3>1
    <3>2. CASE ~(IsRequest(x) /\ i = x.id)
      <4>1. asked'[i] = asked[i] /\ asked[i].n \in Nat
        BY <1>2, <1>6, <3>2, Kinds
      <4> QED
        BY <1>1, <1>2, <4>1 DEF TrackerInv
    <3> QED
      BY <3>1, <3>2
  <2>2. \A i \in Id : u.inFlight[i] \in {NoLine, asked'[i]}
    BY <1>2, <1>6 DEF TrackerInv
  <2>3. u.initialize # NoLine => u.initialize.what = "initialize" /\ u.initialize.n <= client'.sent
    <3>1. CASE u.initialize = x
      BY <1>1, <1>3, <1>2, <3>1 DEF TrackerInv
    <3>2. CASE u.initialize = tracker.initialize
      <4>1. tracker.initialize.n \in Nat
        BY <1>2, TrackerFields, Kinds
      <4> QED
        BY <1>1, <1>2, <3>2, <4>1 DEF TrackerInv
    <3> QED
      BY <1>3, <3>1, <3>2
  <2>4. u.initialized # NoLine =>
          u.initialized.what = "initialized" /\ u.initialized.n <= client'.sent
    <3>1. CASE u.initialized = x /\ x.what = "initialized"
      BY <1>1, <3>1
    <3>2. CASE u.initialized = tracker.initialized
      <4>1. tracker.initialized.n \in Nat
        BY <1>2, TrackerFields, Kinds
      <4> QED
        BY <1>1, <1>2, <3>2, <4>1 DEF TrackerInv
    <3> QED
      BY <1>3, <3>1, <3>2
  <2>5. u.kept # NoLine =>
          /\ ~u.initialised /\ CountsForLifecycle(u.kept)
          /\ u.kept.id \in Id /\ u.inFlight[u.kept.id] = u.kept
    <3>1. CASE u.kept = x /\ ~tracker.initialised /\ CountsForLifecycle(x)
      BY <1>1, <1>3, <1>4, <1>6, <3>1
    <3>2. CASE u.kept = tracker.kept /\ tracker.kept # NoLine
      BY <1>2, <1>3, <1>7, <3>2 DEF TrackerInv
    <3> QED
      BY <1>3, <3>1, <3>2
  <2> QED
    BY <2>1, <2>2, <2>3, <2>4, <2>5 DEF TrackerInv
<1>9. LifecycleInv'
  <2>1. ASSUME client.lifecycle = "handshake", NEW i \in Id, ~u.initialised,
               CountsForLifecycle(u.inFlight[i])
        PROVE  u.inFlight[i].what = "initialize" /\ u.initialize # NoLine
    <3>1. CASE IsRequest(x) /\ i = x.id
      <4>1. x.what # "call"
        BY <1>1, <1>2, <1>3, <2>1 DEF LifecycleInv
      <4>2. x.what = "initialize"
        BY <1>4, <1>6, <2>1, <3>1, <4>1, Kinds
      <4> QED
        BY <1>3, <1>4, <1>6, <2>1, <3>1, <4>2
    <3>2. CASE ~(IsRequest(x) /\ i = x.id)
      BY <1>2, <1>3, <1>4, <1>6, <2>1, <3>2 DEF LifecycleInv
    <3> QED
      BY <3>1, <3>2
  <2>2. /\ client'.ready => u.initialised
        /\ client.lifecycle = "handshake" /\ u.initialised => u.initialize # NoLine
    BY <1>1, <1>2, <1>3, <1>4 DEF LifecycleInv
  <2> QED
    BY <1>1, <2>1, <2>2 DEF LifecycleInv
<1> QED
  BY <1>1, <1>3, <1>6, <1>7, <1>8, <1>9, <1>4

LEMMA Appended ==
  ASSUME NEW s \in Seq(Line), NEW x \in Line
  PROVE  LET g == Append(s, x) IN
         /\ g \in Seq(Line) /\ Len(s) \in Nat /\ DOMAIN s = 1..Len(s) /\ DOMAIN g = 1..Len(s) + 1
         /\ \A k \in DOMAIN s : k \in DOMAIN g /\ g[k] = s[k]
         /\ Len(s) + 1 \in DOMAIN g /\ g[Len(s) + 1] = x
         /\ \A k \in DOMAIN g : k \in DOMAIN s \/ k = Len(s) + 1
  OBVIOUS

\* A write reaches the daemon, or vanishes if it has closed its end.
LEMMA WriteFacts ==
  ASSUME ProxyTypeOK, NEW x \in Line, Write(x)
  PROVE  /\ conn' \in ConnState /\ conn'.key = conn.key /\ writes' \in [1..MaxLines -> Nat]
         /\ \/ conn' = conn /\ writes' = writes
            \/ /\ conn'.got = Append(conn.got, x)
               /\ conn'.owed = IF IsRequest(x) THEN Append(conn.owed, x) ELSE conn.owed
               /\ writes' = [writes EXCEPT ![x.n] = @ + 1]
<1>1. conn \in ConnState /\ writes \in [1..MaxLines -> Nat] /\ x.n \in 1..MaxLines
  BY Lines DEF ProxyTypeOK, ConnState
<1>2. CASE ~conn.open
  BY <1>1, <1>2 DEF Write
<1>3. CASE conn.open
  <2> DEFINE o == IF IsRequest(x) THEN Append(conn.owed, x) ELSE conn.owed
             g == Append(conn.got, x)
  <2>1. o \in Seq(Line) /\ g \in Seq(Line)
    BY <1>1 DEF ConnState
  <2>2. conn' = [conn EXCEPT !.got = g, !.owed = o] /\ writes' = [writes EXCEPT ![x.n] = @ + 1]
    BY <1>3 DEF Write, Receives
  <2> HIDE DEF o, g
  <2>3. conn' \in ConnState /\ conn'.got = g /\ conn'.owed = o /\ conn'.key = conn.key
    BY <1>1, <2>1, <2>2 DEF ConnState
  <2>4. writes' \in [1..MaxLines -> Nat]
    BY <1>1, <2>2
  <2> QED
    BY <2>2, <2>3, <2>4 DEF o, g
<1> QED
  BY <1>2, <1>3

\* A line may reach the daemon: newer than every request it got, and in flight if it is one.
LEMMA Sent ==
  ASSUME SessionInv, Connected, Connected', ProxyTypeOK', NEW x \in Line,
         UNCHANGED <<lossState, pump>>, conn'.key = conn.key,
         \/ conn' = conn /\ writes' = writes
         \/ /\ conn'.got = Append(conn.got, x)
            /\ conn'.owed = IF IsRequest(x) THEN Append(conn.owed, x) ELSE conn.owed
            /\ writes' = [writes EXCEPT ![x.n] = @ + 1],
         client'.lifecycle = client.lifecycle, client.sent <= client'.sent, x.n <= client'.sent,
         \A j \in DOMAIN conn.got : IsRequest(conn.got[j]) => conn.got[j].n < x.n,
         IsRequest(x) => x.id \in Id /\ tracker'.inFlight[x.id] = x /\ writes[x.n] = 0,
         \A i \in Id : tracker.inFlight[i] # NoLine => tracker'.inFlight[i] = tracker.inFlight[i],
         \A i \in Id : asked[i] # NoLine => asked'[i] = asked[i] /\ tracker'.inFlight[i] \in {NoLine, tracker.inFlight[i]},
         tracker'.initialised = tracker.initialised,
         \/ x.what = "initialized"
         \/ x.what = "call" /\ client.lifecycle = "handshake"
         => tracker.initialised
  PROVE  /\ OwedInv' /\ PumpInv' /\ ResendBounded' /\ HandshakeFirst'
         /\ \A k \in DOMAIN conn'.got : conn'.got[k].n <= client'.sent
<1>1. /\ ProxyTypeOK /\ conn.got \in Seq(Line) /\ conn.owed \in Seq(Line) /\ client.sent \in Nat
      /\ client'.sent \in Nat /\ asked \in [Id -> LineOrNone] /\ tracker.inFlight \in [Id -> LineOrNone]
      /\ writes \in [1..MaxLines -> Nat] /\ x.n \in 1..MaxLines /\ x.n \in Nat /\ x # NoLine
      /\ pump.line \in Response \cup {NoResponse} /\ MaxAttempts \in Nat
  <2>1. ProxyTypeOK
    BY DEF SessionInv
  <2>2. client'.sent \in Nat
    BY BoundsAssumption DEF ProxyTypeOK
  <2> QED
    BY <2>1, <2>2, Types, TrackerFields, Lines
<1>2. /\ TrackerInv /\ OwedInv /\ PumpInv /\ ResendBounded /\ HandshakeFirst /\ Alive
      /\ \A k \in DOMAIN conn.got : conn.got[k].n <= client.sent
  BY DEF SessionInv, WritesInv, Connected, Alive
<1>3. /\ \A k \in DOMAIN conn.got : conn.got[k] \in Line /\ conn.got[k].n \in Nat
      /\ \A k \in DOMAIN conn.owed : conn.owed[k] \in Line /\ conn.owed[k].n \in Nat
  BY <1>1, Lines
<1>4. \A k \in DOMAIN conn.owed :
        /\ conn.owed[k].id \in Id /\ tracker.inFlight[conn.owed[k].id] = conn.owed[k]
        /\ tracker'.inFlight[conn.owed[k].id] = conn.owed[k]
        /\ IsRequest(conn.owed[k])
  BY <1>2, <1>3, Lines DEF OwedInv, TrackerInv
<1>5. pump.pc = "held" =>
        /\ pump.line \in Response /\ tracker'.inFlight[pump.line.id] = tracker.inFlight[pump.line.id]
        /\ IsRequest(tracker.inFlight[pump.line.id])
  <2>1. HAVE pump.pc = "held"
  <2>2. pump.line \in Response /\ tracker.inFlight[pump.line.id].n = pump.line.n
    BY <1>1, <1>2, <2>1 DEF PumpInv
  <2>3. tracker.inFlight[pump.line.id] # NoLine /\ pump.line.id \in Id
    BY <2>2, Lines
  <2> QED
    BY <1>2, <2>2, <2>3 DEF TrackerInv
<1>6. pump.pc = "taken" =>
        /\ pump.line \in Response /\ tracker'.inFlight[pump.line.id] = NoLine
        /\ asked'[pump.line.id] = asked[pump.line.id]
  <2>1. HAVE pump.pc = "taken"
  <2>2. pump.line \in Response /\ tracker.inFlight[pump.line.id] = NoLine
        /\ asked[pump.line.id].n = pump.line.n
    BY <1>1, <1>2, <2>1 DEF PumpInv
  <2>3. asked[pump.line.id] # NoLine /\ pump.line.id \in Id
    BY <2>2, Lines
  <2> QED
    BY <2>2, <2>3
<1>7. CASE conn' = conn /\ writes' = writes
  <2>1. OwedInv'
    BY <1>2, <1>4, <1>7 DEF OwedInv
  <2>2. PumpInv'
    BY <1>2, <1>5, <1>6, <1>7 DEF PumpInv
  <2>3. ResendBounded' /\ HandshakeFirst'
    BY <1>2, <1>7 DEF ResendBounded, HandshakeFirst
  <2>4. \A k \in DOMAIN conn'.got : conn'.got[k].n <= client'.sent
    BY <1>1, <1>2, <1>3, <1>7
  <2> QED
    BY <2>1, <2>2, <2>3, <2>4
<1>8. CASE /\ conn'.got = Append(conn.got, x)
           /\ conn'.owed = IF IsRequest(x) THEN Append(conn.owed, x) ELSE conn.owed
           /\ writes' = [writes EXCEPT ![x.n] = @ + 1]
  <2> DEFINE g == conn'.got
             o == conn'.owed
             m == Len(conn.got) + 1
  <2>1. /\ m \in DOMAIN g /\ g[m] = x
        /\ \A k \in DOMAIN conn.got : k \in DOMAIN g /\ g[k] = conn.got[k] /\ k < m /\ k \in 1..m - 1
        /\ \A k \in DOMAIN g : k \in DOMAIN conn.got \/ k = m
        /\ DOMAIN g \subseteq Nat /\ m \in Nat /\ DOMAIN conn.got = 1..m - 1
    BY <1>1, <1>8, Appended
  <2>2. /\ \A k \in DOMAIN conn.owed : k \in DOMAIN o /\ o[k] = conn.owed[k]
        /\ \A k \in DOMAIN o : k \in DOMAIN conn.owed \/ (IsRequest(x) /\ o[k] = x /\ k = Len(conn.owed) + 1)
        /\ DOMAIN conn.owed = 1..Len(conn.owed) /\ Len(conn.owed) \in Nat
    BY <1>1, <1>8, Appended
  <2> HIDE DEF g, o, m
  <2>3. \A k \in DOMAIN conn.owed : conn.owed[k].n < x.n
    BY <1>2, <1>3, <1>4 DEF OwedInv
  <2>4. /\ \A k \in DOMAIN o :
             /\ o[k].id \in Id /\ tracker'.inFlight[o[k].id] = o[k]
             /\ \E j \in DOMAIN g : g[j] = o[k]
        /\ \A j, k \in DOMAIN o : j < k => o[j].n < o[k].n
    <3>1. ASSUME NEW k \in DOMAIN o
          PROVE  /\ o[k].id \in Id /\ tracker'.inFlight[o[k].id] = o[k]
                 /\ \E j \in DOMAIN g : g[j] = o[k]
      BY <1>2, <1>4, <2>1, <2>2 DEF OwedInv
    <3>2. ASSUME NEW j \in DOMAIN o, NEW k \in DOMAIN o, j < k
          PROVE  o[j].n < o[k].n
      <4>1. CASE k \in DOMAIN conn.owed
        <5>1. j \in DOMAIN conn.owed
          BY <2>2, <3>2, <4>1
        <5> QED
          BY <1>2, <2>2, <3>2, <4>1, <5>1 DEF OwedInv
      <4>2. CASE o[k] = x /\ k = Len(conn.owed) + 1
        <5>1. j \in DOMAIN conn.owed
          BY <2>2, <3>2, <4>2
        <5> QED
          BY <2>2, <2>3, <4>2, <5>1
      <4> QED
        BY <2>2, <4>1, <4>2
    <3> QED
      BY <3>1, <3>2
  <2>5. OwedInv'
    <3>1. client.lifecycle = "handshake" /\ tracker.initialised =>
            \E j \in DOMAIN g : g[j].what = "initialize"
      BY <1>2, <2>1 DEF OwedInv
    <3> QED
      BY <1>2, <2>4, <3>1 DEF OwedInv, g, o
  <2>6. PumpInv'
    <3>1. ASSUME pump.pc = "held"
          PROVE  /\ \E j \in DOMAIN g : g[j] = tracker'.inFlight[pump.line.id]
                 /\ \A k \in DOMAIN o : o[k].n # pump.line.n
      <4>1. PICK j \in DOMAIN conn.got : conn.got[j] = tracker.inFlight[pump.line.id]
        BY <1>2, <3>1 DEF PumpInv
      <4>2. conn.got[j].n = pump.line.n /\ conn.got[j].n < x.n /\ conn.got[j].n \in Nat
        BY <1>2, <1>3, <1>5, <3>1, <4>1 DEF PumpInv
      <4>3. \A k \in DOMAIN conn.owed : conn.owed[k].n # pump.line.n
        BY <1>2, <3>1 DEF PumpInv
      <4>4. x.n # pump.line.n
        BY <1>1, <4>2
      <4>5. \A k \in DOMAIN o : o[k] = x \/ (k \in DOMAIN conn.owed /\ o[k] = conn.owed[k])
        BY <2>2
      <4>6. \A k \in DOMAIN o : o[k].n # pump.line.n
        BY <4>3, <4>4, <4>5
      <4> QED
        BY <1>5, <2>1, <3>1, <4>1, <4>6
    <3> QED
      BY <1>2, <1>5, <1>6, <3>1 DEF PumpInv, g, o
  <2>7. ResendBounded'
    <3>1. ASSUME NEW k \in DOMAIN g, g[k].what = "call"
          PROVE  writes'[g[k].n] <= MaxAttempts + 1
      <4>1. CASE k \in DOMAIN conn.got
        <5>1. g[k] = conn.got[k] /\ conn.got[k].n # x.n /\ conn.got[k].n \in 1..MaxLines
          BY <1>1, <1>3, <2>1, <3>1, <4>1, Lines DEF IsRequest, Request
        <5> QED
          BY <1>1, <1>2, <1>8, <3>1, <4>1, <5>1 DEF ResendBounded
      <4>2. CASE k = m
        <5>1. g[k] = x /\ IsRequest(x)
          BY <2>1, <3>1, <4>2 DEF IsRequest, Request
        <5> QED
          BY <1>1, <1>8, <5>1
      <4> QED
        BY <2>1, <4>1, <4>2
    <3> QED
      BY <3>1 DEF ResendBounded, g
  <2>8. HandshakeFirst'
    <3>1. ASSUME NEW i \in DOMAIN g, client.lifecycle = "handshake", g[i].what \in {"call", "initialized"}
          PROVE  \E j \in 1..i - 1 : g[j].what = "initialize"
      <4>1. CASE i \in DOMAIN conn.got
        <5>1. PICK j \in 1..i - 1 : conn.got[j].what = "initialize"
          BY <1>2, <2>1, <3>1, <4>1 DEF HandshakeFirst
        <5>2. j \in DOMAIN conn.got
          BY <2>1, <4>1
        <5> QED
          BY <2>1, <5>1, <5>2
      <4>2. CASE i = m
        <5>1. PICK j \in DOMAIN conn.got : conn.got[j].what = "initialize"
          BY <1>2, <2>1, <3>1, <4>2 DEF OwedInv
        <5> QED
          BY <2>1, <4>2, <5>1
      <4> QED
        BY <2>1, <4>1, <4>2
    <3>2. ASSUME NEW i \in DOMAIN g, NEW j \in DOMAIN g, i < j, IsRequest(g[i]), IsRequest(g[j])
          PROVE  g[i].n < g[j].n
      <4>1. CASE j \in DOMAIN conn.got
        <5>1. i \in DOMAIN conn.got
          BY <2>1, <3>2, <4>1
        <5> QED
          BY <1>2, <2>1, <3>2, <4>1, <5>1 DEF HandshakeFirst
      <4>2. CASE j = m
        <5>1. i \in DOMAIN conn.got
          BY <2>1, <3>2, <4>2
        <5> QED
          BY <2>1, <3>2, <4>2, <5>1
      <4> QED
        BY <2>1, <4>1, <4>2
    <3> QED
      BY <3>1, <3>2 DEF HandshakeFirst, g
  <2>9. \A k \in DOMAIN g : g[k].n <= client'.sent
    BY <1>1, <1>2, <1>3, <2>1
  <2> QED
    BY <2>5, <2>6, <2>7, <2>8, <2>9 DEF g
<1> QED
  BY <1>7, <1>8

LEMMA FlushQueueInv ==
  ASSUME SessionInv, FlushQueue
  PROVE  SessionInv'
<1>1. /\ main.pc = "flush" /\ UNCHANGED <<client, asked, unexpected, tracker, pending, lossState, pump, notified>>
      /\ Connected /\ ProxyTypeOK /\ Alive
  BY DEF FlushQueue, clientVars, Connected, SessionInv, Alive
<1>2. CASE queue = <<>> /\ Goto("forward") /\ UNCHANGED <<queue, daemonVars>>
  <2>1. notified' \in BOOLEAN
    BY <1>1 DEF ProxyTypeOK
  <2> QED
    BY <1>1, <1>2, <2>1, MainMoves DEF MainPC, clientVars
<1>3. CASE /\ queue # <<>> /\ queue' = Tail(queue)
           /\ \/ Write(Head(queue)) /\ UNCHANGED main
              \/ Goto("loss") /\ UNCHANGED daemonVars
  <2> DEFINE x == Head(queue)
  <2>1. /\ queue \in Seq(Line) /\ queue' \in Seq(Line) /\ x \in Line /\ 1 \in DOMAIN queue
        /\ x = queue[1] /\ DOMAIN queue = 1..Len(queue) /\ Len(queue) \in Nat
        /\ \A k \in DOMAIN queue' : /\ k \in Nat /\ k + 1 \in DOMAIN queue /\ 1 < k + 1
                                    /\ queue'[k] = queue[k + 1]
    BY <1>1, <1>3, Types
  <2> HIDE DEF x
  <2>2. /\ conn' \in ConnState /\ conn'.key = conn.key /\ writes' \in [1..MaxLines -> Nat]
        /\ \/ conn' = conn /\ writes' = writes
           \/ /\ conn'.got = Append(conn.got, x)
              /\ conn'.owed = IF IsRequest(x) THEN Append(conn.owed, x) ELSE conn.owed
              /\ writes' = [writes EXCEPT ![x.n] = @ + 1]
    <3>1. CASE Write(x)
      BY <1>1, <2>1, <3>1, WriteFacts
    <3>2. CASE UNCHANGED daemonVars
      BY <1>1, <3>2 DEF daemonVars, ProxyTypeOK, ConnState
    <3> QED
      BY <1>3, <3>1, <3>2 DEF x
  <2>3. /\ main'.pc \in {"flush", "loss"} /\ main'.after = main.after /\ main'.exit = main.exit
        /\ main' \in [pc : MainPC, after : After, attempts : 0..MaxAttempts, cached : LineOrNone,
                      exit : {"no", "eof", "answered", "failed"}]
    <3>1. main \in [pc : MainPC, after : After, attempts : 0..MaxAttempts, cached : LineOrNone,
                    exit : {"no", "eof", "answered", "failed"}]
      BY <1>1 DEF ProxyTypeOK, LineOrNone
    <3> QED
      BY <1>1, <1>3, <3>1 DEF Goto, MainPC
  <2>4. ProxyTypeOK'
    BY <1>1, <2>1, <2>2, <2>3 DEF ProxyTypeOK, LineOrNone, ConnState
  <2>5. Connected' /\ Alive' /\ ~InRound /\ ~InRound'
    BY <1>1, <2>3 DEF Connected, Alive, InRound
  <2>6. /\ x.n <= client.sent
        /\ IsRequest(x) => x.id \in Id /\ tracker.inFlight[x.id] = x /\ writes[x.n] = 0
        /\ \/ x.what = "initialized"
           \/ x.what = "call" /\ client.lifecycle = "handshake"
           => tracker.initialised
        /\ \A j \in DOMAIN conn.got : IsRequest(conn.got[j]) => conn.got[j].n < x.n
        /\ \A k \in DOMAIN queue' : x.n < queue'[k].n
    BY <2>1 DEF SessionInv, QueueInv
  <2>7. client.sent \in Nat /\ x.n \in Nat /\ x.n \in 1..MaxLines /\ writes \in [1..MaxLines -> Nat]
    BY <1>1, <2>1, Types, Lines
  <2>8. /\ OwedInv' /\ PumpInv' /\ ResendBounded' /\ HandshakeFirst'
        /\ \A k \in DOMAIN conn'.got : conn'.got[k].n <= client'.sent
    <3>1. \A i \in Id : asked[i] # NoLine =>
            asked'[i] = asked[i] /\ tracker'.inFlight[i] \in {NoLine, tracker.inFlight[i]}
      BY <1>1
    <3> QED
      BY <1>1, <2>1, <2>2, <2>4, <2>5, <2>6, <2>7, <3>1, Sent
  <2>9. TrackerInv' /\ LifecycleInv' /\ (client.ready => client.key = lossState.key)'
        /\ (Alive => main.exit = "no")' /\ EveryAnswerAwaited' /\ NeverExitsOnceReady'
    BY <1>1, <2>3 DEF SessionInv, TrackerInv, LifecycleInv, EveryAnswerAwaited, NeverExitsOnceReady
  <2>10. RoundInv'
    BY <2>3 DEF RoundInv, InRound
  <2>11. QueueInv'
    <3>1. ASSUME NEW k \in DOMAIN queue'
          PROVE  /\ queue'[k].n <= client.sent
                 /\ IsRequest(queue'[k]) =>
                      /\ queue'[k].id \in Id /\ tracker.inFlight[queue'[k].id] = queue'[k]
                      /\ writes'[queue'[k].n] = 0 /\ queue'[k].n # tracker.initialized.n
                 /\ \/ queue'[k].what = "initialized"
                    \/ queue'[k].what = "call" /\ client.lifecycle = "handshake"
                    => tracker.initialised
                 /\ \A j \in DOMAIN conn'.got : IsRequest(conn'.got[j]) => conn'.got[j].n < queue'[k].n
      <4>1. k + 1 \in DOMAIN queue /\ queue'[k] = queue[k + 1] /\ queue[k + 1] \in Line
        BY <2>1
      <4>2. x.n < queue'[k].n /\ queue'[k].n \in 1..MaxLines
        BY <2>6, <4>1, Lines
      <4>3. writes'[queue'[k].n] = writes[queue'[k].n]
        BY <2>2, <2>7, <4>2
      <4>4. \A j \in DOMAIN conn'.got : IsRequest(conn'.got[j]) => conn'.got[j].n < queue'[k].n
        <5>1. CASE conn' = conn
          BY <4>1, <5>1 DEF SessionInv, QueueInv
        <5>2. CASE conn'.got = Append(conn.got, x)
          <6>1. conn.got \in Seq(Line)
            BY <1>1, Types
          <6>2. \A j \in DOMAIN conn'.got :
                  conn'.got[j] = x \/ (j \in DOMAIN conn.got /\ conn'.got[j] = conn.got[j])
            BY <2>1, <5>2, <6>1, Appended
          <6>3. \A j \in DOMAIN conn.got : IsRequest(conn.got[j]) => conn.got[j].n < queue'[k].n
            BY <4>1 DEF SessionInv, QueueInv
          <6> QED
            BY <4>2, <6>2, <6>3
        <5> QED
          BY <2>2, <5>1, <5>2
      <4> QED
        BY <4>1, <4>3, <4>4 DEF SessionInv, QueueInv
    <3>2. \A j, k \in DOMAIN queue' : j < k => queue'[j].n < queue'[k].n
      BY <2>1 DEF SessionInv, QueueInv
    <3> QED
      BY <1>1, <2>3, <3>1, <3>2 DEF QueueInv
  <2>12. WritesInv'
    <3>1. \A n \in 1..MaxLines : n > client'.sent => writes'[n] = 0
      BY <1>1, <2>2, <2>6, <2>7 DEF SessionInv, WritesInv
    <3>2. Used' = Used /\ Used \in Nat
      BY <1>1, <2>5, Types DEF Used
    <3>3. ASSUME tracker.kept.what = "call"
          PROVE  writes'[tracker.kept.n] <= 1 + Used
      <4>1. /\ writes[tracker.kept.n] <= 1 + Used /\ tracker.kept \in LineOrNone
        BY <1>1, <3>3, Types, TrackerFields DEF SessionInv, WritesInv
      <4>2. tracker.kept \in Line /\ tracker.kept.n \in 1..MaxLines /\ ~tracker.initialised
        BY <3>3, <4>1, Lines DEF LineOrNone, SessionInv, TrackerInv
      <4>3. CASE tracker.kept.n # x.n \/ writes' = writes
        BY <2>2, <2>7, <4>1, <4>2, <4>3
      <4>4. CASE tracker.kept.n = x.n /\ writes' = [writes EXCEPT ![x.n] = @ + 1]
        <5>1. IsRequest(x)
          BY <2>1, <2>6, <4>2, Lines DEF IsRequest
        <5>2. writes'[x.n] = 1
          BY <2>6, <2>7, <4>4, <5>1
        <5> QED
          BY <3>2, <4>4, <5>2
      <4> QED
        BY <2>2, <4>3, <4>4
    <3> QED
      BY <1>1, <2>8, <3>1, <3>2, <3>3 DEF WritesInv
  <2> QED
    BY <2>4, <2>8, <2>9, <2>10, <2>11, <2>12 DEF SessionInv
<1> QED
  BY <1>2, <1>3 DEF FlushQueue

\* A line of the client is new: never written, newer than what is kept, queued or sent.
LEMMA NewLine ==
  ASSUME SessionInv, NEW x \in NextLine, Says(x)
  PROVE  /\ x \in Line /\ x.n \in 1..MaxLines /\ x.n = client.sent + 1 /\ client.sent \in Nat
         /\ x.n \in Nat /\ client'.sent = x.n /\ writes[x.n] = 0
         /\ \A j \in DOMAIN conn.got : conn.got[j].n < x.n
         /\ \A k \in DOMAIN queue : queue[k].n < x.n
         /\ tracker.kept # NoLine => tracker.kept.n < x.n
         /\ tracker.initialize # NoLine => tracker.initialize.n < x.n
         /\ tracker.initialized.n < x.n
         /\ \/ x.what = "initialized"
            \/ x.what = "call" /\ client.lifecycle = "handshake"
            => tracker.initialised
<1>1. /\ x \in Line /\ x.n = client.sent + 1 /\ x.n \in 1..MaxLines /\ client'.sent = x.n
      /\ x.what \in {"initialized"} => client.ready
      /\ x.what = "call" /\ client.lifecycle = "handshake" => client.ready
  BY SaysFacts
<1>2. /\ ProxyTypeOK /\ TrackerInv /\ LifecycleInv /\ WritesInv /\ QueueInv
      /\ tracker \in Tracker /\ client.sent \in Nat
      /\ conn.got \in Seq(Line) /\ queue \in Seq(Line) /\ asked \in [Id -> LineOrNone]
  BY Types DEF SessionInv
<1>3. writes[x.n] = 0
  BY <1>1, <1>2 DEF WritesInv
<1>4. ASSUME NEW j \in DOMAIN conn.got
      PROVE  conn.got[j].n < x.n
  <2>1. conn.got[j].n \in Nat /\ conn.got[j].n <= client.sent
    BY <1>2, Lines DEF WritesInv
  <2> QED
    BY <1>1, <1>2, <2>1
<1>5. ASSUME NEW k \in DOMAIN queue
      PROVE  queue[k].n < x.n
  <2>1. queue[k].n \in Nat /\ queue[k].n <= client.sent
    BY <1>2, Lines DEF QueueInv
  <2> QED
    BY <1>1, <1>2, <2>1
<1>6. ASSUME tracker.kept # NoLine
      PROVE  tracker.kept.n < x.n
  <2>1. tracker.kept.id \in Id /\ tracker.kept = asked[tracker.kept.id]
    BY <1>2, <1>6 DEF TrackerInv
  <2>2. tracker.kept.n \in Nat /\ tracker.kept.n <= client.sent
    BY <1>2, <1>6, <2>1, Kinds DEF TrackerInv
  <2> QED
    BY <1>1, <1>2, <2>2
<1>7. ASSUME tracker.initialize # NoLine
      PROVE  tracker.initialize.n < x.n
  <2>1. tracker.initialize.n \in Nat /\ tracker.initialize.n <= client.sent
    BY <1>2, <1>7, TrackerFields, Kinds DEF TrackerInv
  <2> QED
    BY <1>1, <1>2, <2>1
<1>8. tracker.initialized.n < x.n
  <2>1. tracker.initialized.n \in Nat /\ tracker.initialized.n <= client.sent
    BY <1>2, TrackerFields, Kinds DEF TrackerInv
  <2> QED
    BY <1>1, <1>2, <2>1
<1> QED
  BY <1>1, <1>2, <1>3, <1>4, <1>5, <1>6, <1>7, <1>8 DEF LifecycleInv

LEMMA ForwardInv ==
  ASSUME SessionInv, NEW x \in NextLine, Forward(x)
  PROVE  SessionInv'
<1>1. /\ main.pc = "forward" /\ Says(x) /\ tracker' = OnClientLine(tracker, x)
      /\ UNCHANGED <<queue, pending, lossState, pump, notified>>
      /\ Connected /\ ProxyTypeOK /\ Alive /\ queue = <<>>
  BY DEF Forward, Connected, SessionInv, Alive, QueueInv
<1>2. /\ x \in Line /\ x.n \in 1..MaxLines /\ x.n = client.sent + 1 /\ client.sent \in Nat
      /\ x.n \in Nat /\ client'.sent = x.n /\ writes[x.n] = 0
      /\ \A j \in DOMAIN conn.got : conn.got[j].n < x.n
      /\ tracker.kept # NoLine => tracker.kept.n < x.n
      /\ \/ x.what = "initialized"
         \/ x.what = "call" /\ client.lifecycle = "handshake"
         => tracker.initialised
  BY <1>1, NewLine
<1>3. /\ client'.lifecycle = client.lifecycle /\ client'.ready = client.ready
      /\ client'.key = client.key /\ client' \in ClientState /\ UNCHANGED unexpected
      /\ IsRequest(x) => x.id \in Id /\ asked' = [asked EXCEPT ![x.id] = x]
      /\ ~IsRequest(x) => asked' = asked
  BY <1>1, SaysFacts
<1>4. tracker' \in Tracker
  BY <1>1, <1>2, <1>3, Types, OnClientLineFields
<1>5. /\ TrackerInv' /\ LifecycleInv'
      /\ tracker'.initialised = tracker.initialised
      /\ \A i \in Id : tracker.inFlight[i] # NoLine => tracker'.inFlight[i] = tracker.inFlight[i]
      /\ IsRequest(x) => x.id \in Id /\ tracker'.inFlight[x.id] = x
      /\ tracker.kept # NoLine => tracker'.kept = tracker.kept
      /\ tracker'.kept \in {tracker.kept, x}
      /\ \A i \in Id : asked[i] # NoLine =>
           asked'[i] = asked[i] /\ tracker'.inFlight[i] = tracker.inFlight[i]
  BY <1>1, <1>4, Tracked
<1>6. /\ conn' \in ConnState /\ conn'.key = conn.key /\ writes' \in [1..MaxLines -> Nat]
      /\ \/ conn' = conn /\ writes' = writes
         \/ /\ conn'.got = Append(conn.got, x)
            /\ conn'.owed = IF IsRequest(x) THEN Append(conn.owed, x) ELSE conn.owed
            /\ writes' = [writes EXCEPT ![x.n] = @ + 1]
  <2>1. CASE Write(x)
    BY <1>1, <1>2, <2>1, WriteFacts
  <2>2. CASE UNCHANGED daemonVars
    BY <1>1, <2>2 DEF daemonVars, ProxyTypeOK, ConnState
  <2> QED
    BY <2>1, <2>2 DEF Forward
<1>7. /\ main'.pc \in {"forward", "loss"} /\ main'.exit = main.exit
      /\ main' \in [pc : MainPC, after : After, attempts : 0..MaxAttempts, cached : LineOrNone,
                    exit : {"no", "eof", "answered", "failed"}]
  <2>1. main \in [pc : MainPC, after : After, attempts : 0..MaxAttempts, cached : LineOrNone,
                  exit : {"no", "eof", "answered", "failed"}]
    BY <1>1 DEF ProxyTypeOK, LineOrNone
  <2> QED
    BY <1>1, <2>1 DEF Forward, Goto, MainPC
<1>8. ProxyTypeOK'
  <2>1. asked' \in [Id -> Line \cup {NoLine}]
    BY <1>1, <1>2, <1>3 DEF ProxyTypeOK
  <2> QED
    BY <1>1, <1>3, <1>4, <1>6, <1>7, <2>1 DEF ProxyTypeOK, LineOrNone, ConnState, ClientState
<1>9. Connected' /\ Alive' /\ ~InRound /\ ~InRound'
  BY <1>1, <1>7 DEF Connected, Alive, InRound
<1>10. /\ OwedInv' /\ PumpInv' /\ ResendBounded' /\ HandshakeFirst'
       /\ \A k \in DOMAIN conn'.got : conn'.got[k].n <= client'.sent
  <2>1. client.sent <= client'.sent /\ x.n <= client'.sent
    BY <1>2
  <2> QED
    BY <1>1, <1>2, <1>3, <1>5, <1>6, <1>8, <1>9, <2>1, Sent
<1>11. /\ (client.ready => client.key = lossState.key)'
       /\ (Alive => main.exit = "no")' /\ EveryAnswerAwaited' /\ NeverExitsOnceReady'
  BY <1>1, <1>3, <1>7 DEF SessionInv, EveryAnswerAwaited, NeverExitsOnceReady
<1>12. RoundInv' /\ QueueInv'
  BY <1>1, <1>7 DEF RoundInv, QueueInv, InRound
<1>13. WritesInv'
  <2>1. \A n \in 1..MaxLines : n > client'.sent => writes'[n] = 0
    <3> TAKE n \in 1..MaxLines
    <3>1. HAVE n > client'.sent
    <3>2. n > client.sent /\ n # x.n
      BY <1>2, <3>1
    <3>3. writes[n] = 0 /\ writes \in [1..MaxLines -> Nat]
      BY <1>1, <3>2, Types DEF SessionInv, WritesInv
    <3> QED
      BY <1>6, <3>2, <3>3
  <2>2. Used' \in Nat
    BY <1>1, <1>9, Types DEF Used
  <2>3. ASSUME tracker'.kept.what = "call"
        PROVE  writes'[tracker'.kept.n] <= 1 + Used'
    <3>1. writes \in [1..MaxLines -> Nat]
      BY <1>1, Types
    <3>2. CASE tracker'.kept = x
      BY <1>2, <1>6, <2>2, <3>1, <3>2
    <3>3. CASE tracker'.kept = tracker.kept
      <4>1. tracker.kept \in Line /\ tracker.kept.n \in 1..MaxLines /\ tracker.kept.n # x.n
        BY <1>1, <1>2, <2>3, <3>3, Types, TrackerFields, Lines DEF LineOrNone
      <4>2. Used' = Used
        BY <1>1, <1>9, <3>3 DEF Used
      <4>3. writes[tracker.kept.n] <= 1 + Used
        BY <1>1, <2>3, <3>3 DEF SessionInv, WritesInv
      <4> QED
        BY <1>2, <1>6, <3>1, <3>3, <4>1, <4>2, <4>3
    <3> QED
      BY <1>5, <3>2, <3>3
  <2> QED
    BY <1>10, <2>1, <2>3 DEF WritesInv
<1> QED
  BY <1>5, <1>8, <1>10, <1>11, <1>12, <1>13 DEF SessionInv

\* A line of the client that arrives while there is no connection is tracked, and may be queued.
LEMMA LineQueued ==
  ASSUME SessionInv, NEW x \in NextLine, Says(x), InRound \/ main.pc = "disconnected",
         NEW u \in Tracker, tracker' = u,
         u.inFlight = OnClientLine(tracker, x).inFlight,
         u.initialised = OnClientLine(tracker, x).initialised,
         u.initialize = OnClientLine(tracker, x).initialize,
         u.initialized = OnClientLine(tracker, x).initialized,
         u.kept = OnClientLine(tracker, x).kept,
         queue' \in {queue, Append(queue, x)}, main'.pc = "disconnected" => queue' = <<>>,
         main' \in [pc : MainPC, after : After, attempts : 0..MaxAttempts, cached : LineOrNone,
                    exit : {"no", "eof", "answered", "failed"}],
         main'.exit = main.exit,
         main' = main \/ (main.pc = "disconnected" /\ InRound' /\ main'.after # "resend_kept"),
         UNCHANGED <<pending, lossState, pump, daemonVars, notified>>,
         RoundInv'
  PROVE  SessionInv'
<1>1. /\ ProxyTypeOK /\ Alive /\ Alive' /\ ~Connected /\ ~Connected' /\ pump.pc = "off"
      /\ UNCHANGED <<conn, writes>> /\ main'.pc # "forward"
  BY DEF SessionInv, Alive, InRound, Connected, PumpInv, daemonVars
<1>2. /\ x \in Line /\ x.n \in 1..MaxLines /\ x.n = client.sent + 1 /\ client.sent \in Nat
      /\ x.n \in Nat /\ client'.sent = x.n /\ writes[x.n] = 0
      /\ \A j \in DOMAIN conn.got : conn.got[j].n < x.n
      /\ \A k \in DOMAIN queue : queue[k].n < x.n
      /\ \/ x.what = "initialized"
         \/ x.what = "call" /\ client.lifecycle = "handshake"
         => tracker.initialised
  BY NewLine
<1>3. /\ client'.lifecycle = client.lifecycle /\ client'.ready = client.ready
      /\ client'.key = client.key /\ client' \in ClientState /\ UNCHANGED unexpected
      /\ IsRequest(x) => x.id \in Id /\ asked' = [asked EXCEPT ![x.id] = x]
      /\ ~IsRequest(x) => asked' = asked
  BY SaysFacts
<1>4. /\ TrackerInv' /\ LifecycleInv'
      /\ u.initialised = tracker.initialised
      /\ \A i \in Id : tracker.inFlight[i] # NoLine => u.inFlight[i] = tracker.inFlight[i]
      /\ IsRequest(x) => x.id \in Id /\ u.inFlight[x.id] = x
      /\ u.kept \in {tracker.kept, x}
      /\ u.initialized = IF x.what = "initialized" THEN x ELSE tracker.initialized
  BY Tracked
<1>5. queue \in Seq(Line) /\ queue' \in Seq(Line) /\ writes \in [1..MaxLines -> Nat]
  <2>1. queue \in Seq(Line) /\ writes \in [1..MaxLines -> Nat]
    BY <1>1, Types
  <2>2. Append(queue, x) \in Seq(Line)
    BY <1>2, <2>1
  <2> QED
    BY <2>1, <2>2
<1>6. ProxyTypeOK'
  <2>1. asked' \in [Id -> Line \cup {NoLine}]
    BY <1>1, <1>2, <1>3 DEF ProxyTypeOK
  <2> QED
    BY <1>1, <1>3, <1>5, <2>1 DEF ProxyTypeOK, LineOrNone, ClientState
<1>7. \A k \in DOMAIN queue' :
        \/ queue'[k] = x /\ (\A j \in DOMAIN queue' : j < k => j \in DOMAIN queue /\ queue'[j] = queue[j])
        \/ k \in DOMAIN queue /\ queue'[k] = queue[k]
           /\ (\A j \in DOMAIN queue' : j < k => j \in DOMAIN queue /\ queue'[j] = queue[j])
  <2>1. CASE queue' = queue
    BY <2>1
  <2>2. CASE queue' = Append(queue, x)
    BY <1>2, <1>5, <2>2, Appended
  <2> QED
    BY <2>1, <2>2
<1>8. QueueInv'
  <2>1. /\ QueueInv /\ \A k \in DOMAIN queue : queue[k] \in Line /\ queue[k].n \in Nat
        /\ tracker.initialized.n < x.n /\ tracker.initialized.n \in Nat
    BY <1>1, <1>5, Types, TrackerFields, Kinds, Lines, NewLine DEF SessionInv
  <2>2. ASSUME NEW k \in DOMAIN queue'
        PROVE  /\ queue'[k].n <= client'.sent
               /\ IsRequest(queue'[k]) =>
                    /\ queue'[k].id \in Id /\ u.inFlight[queue'[k].id] = queue'[k]
                    /\ writes[queue'[k].n] = 0 /\ queue'[k].n # u.initialized.n
               /\ \/ queue'[k].what = "initialized"
                  \/ queue'[k].what = "call" /\ client.lifecycle = "handshake"
                  => tracker.initialised
               /\ \A j \in DOMAIN conn.got : IsRequest(conn.got[j]) => conn.got[j].n < queue'[k].n
    <3>1. CASE queue'[k] = x
      <4>1. IsRequest(x) => x.what # "initialized"
        BY DEF IsRequest, Request
      <4>2. IsRequest(x) => x.n # u.initialized.n
        BY <1>2, <1>4, <2>1, <4>1
      <4> QED
        BY <1>2, <1>4, <3>1, <4>2
    <3>2. CASE k \in DOMAIN queue /\ queue'[k] = queue[k]
      <4>1. queue[k].n <= client'.sent
        BY <1>2, <2>1, <3>2
      <4>2. IsRequest(queue[k]) =>
              /\ queue[k].id \in Id /\ u.inFlight[queue[k].id] = queue[k] /\ writes[queue[k].n] = 0
              /\ queue[k].n # u.initialized.n
        <5>1. queue[k].n # x.n
          BY <1>2, <2>1, <3>2
        <5> QED
          BY <1>4, <2>1, <3>2, <5>1, Lines DEF QueueInv
      <4> QED
        BY <2>1, <3>2, <4>1, <4>2 DEF QueueInv
    <3> QED
      BY <1>7, <3>1, <3>2
  <2>3. \A j, k \in DOMAIN queue' : j < k => queue'[j].n < queue'[k].n
    BY <1>2, <1>7, <2>1 DEF QueueInv
  <2>4. main'.pc \in {"disconnected", "forward"} => queue' = <<>>
    BY <1>1
  <2> QED
    BY <1>1, <1>3, <1>4, <2>2, <2>3, <2>4 DEF QueueInv
<1>9. OwedInv' /\ PumpInv'
  BY <1>1 DEF OwedInv, PumpInv
<1>10. WritesInv'
  <2>1. /\ \A n \in 1..MaxLines : n > client'.sent => writes'[n] = 0
        /\ \A k \in DOMAIN conn'.got : conn'.got[k].n <= client'.sent
    <3>1. conn.got \in Seq(Line) /\ \A k \in DOMAIN conn.got : conn.got[k].n \in Nat
      BY <1>1, Types, Lines
    <3> QED
      BY <1>1, <1>2, <3>1 DEF SessionInv, WritesInv
  <2>2. Used' \in Nat
    BY <1>1, <1>6, Types DEF Used, ProxyTypeOK
  <2>3. ASSUME u.kept.what = "call"
        PROVE  writes'[u.kept.n] <= 1 + Used'
    <3>1. CASE u.kept = x
      BY <1>1, <1>2, <2>2, <3>1
    <3>2. CASE u.kept = tracker.kept
      <4>1. Used' = Used
        BY <3>2 DEF Used, InRound
      <4>2. writes[tracker.kept.n] <= 1 + Used
        BY <1>1, <2>3, <3>2 DEF SessionInv, WritesInv
      <4> QED
        BY <1>1, <3>2, <4>1, <4>2
    <3> QED
      BY <1>4, <3>1, <3>2
  <2> QED
    BY <2>1, <2>3 DEF WritesInv
<1>11. /\ (client.ready => client.key = lossState.key)' /\ (Alive => main.exit = "no")'
       /\ EveryAnswerAwaited' /\ NeverExitsOnceReady' /\ ResendBounded' /\ HandshakeFirst'
  BY <1>1, <1>3 DEF SessionInv, EveryAnswerAwaited, NeverExitsOnceReady, ResendBounded, HandshakeFirst
<1> QED
  BY <1>4, <1>6, <1>8, <1>9, <1>10, <1>11 DEF SessionInv

LEMMA QueueLineInv ==
  ASSUME SessionInv, NEW x \in NextLine, QueueLine(x)
  PROVE  SessionInv'
<1>1. /\ InRound /\ Says(x) /\ tracker' = OnClientLine(tracker, x) /\ ProxyTypeOK
      /\ queue' \in {queue, Append(queue, x)}
      /\ UNCHANGED <<main, pending, lossState, pump, daemonVars, notified>>
  BY DEF QueueLine, SessionInv
<1>2. /\ x \in Line /\ x.n \in Nat /\ x.n = client.sent + 1 /\ client.sent \in Nat
      /\ client'.sent = x.n
      /\ tracker.kept # NoLine => tracker.kept.n < x.n
      /\ tracker.initialize # NoLine => tracker.initialize.n < x.n
  BY <1>1, NewLine
<1>3. client'.lifecycle = client.lifecycle /\ client'.ready = client.ready
      /\ (IsRequest(x) => x.id \in Id)
  BY <1>1, SaysFacts
<1>4. tracker' \in Tracker
  BY <1>1, <1>2, <1>3, Types, OnClientLineFields
<1>5. /\ tracker'.initialised = tracker.initialised
      /\ tracker.kept # NoLine => tracker'.kept = tracker.kept
      /\ tracker'.initialised => tracker'.initialize = tracker.initialize
  BY <1>1, <1>4, Tracked
<1>6. \A k \in DOMAIN queue' : queue'[k] = x \/ (k \in DOMAIN queue /\ queue'[k] = queue[k])
  <2>1. queue \in Seq(Line)
    BY <1>1, Types
  <2> QED
    BY <1>1, <1>2, <2>1, Appended
<1>7. RoundInv'
  <2>1. RoundInv
    BY DEF SessionInv
  <2>2. main.after = "replay_drop" =>
          /\ tracker'.initialised /\ tracker'.initialize # NoLine
          /\ tracker'.initialize = tracker.initialize
          /\ \A k \in DOMAIN queue' : tracker'.initialize.n < queue'[k].n
    BY <1>1, <1>2, <1>5, <1>6, <2>1 DEF RoundInv
  <2>3. main.after \in {"replay_forward", "resend_kept"} =>
          /\ tracker'.kept # NoLine /\ tracker'.kept = tracker.kept
          /\ main.after = "replay_forward" <=> tracker'.kept.what = "initialize"
          /\ \A k \in DOMAIN queue' : tracker'.kept.n < queue'[k].n
    BY <1>1, <1>2, <1>5, <1>6, <2>1 DEF RoundInv
  <2>4. main.pc = "response" /\ main.after = "replay_drop" /\ main.cached # NoLine =>
          /\ main.cached.what = "initialized" /\ main.cached.n <= client'.sent
          /\ \A k \in DOMAIN queue' : IsRequest(queue'[k]) => queue'[k].n # main.cached.n
    <3>1. main.cached.n \in Nat
      BY <1>1, Types, Kinds
    <3> QED
      BY <1>2, <1>6, <2>1, <3>1 DEF RoundInv
  <2> QED
    BY <1>1, <1>3, <1>5, <2>1, <2>2, <2>3, <2>4 DEF RoundInv, InRound, daemonVars
<1>8. /\ main' \in [pc : MainPC, after : After, attempts : 0..MaxAttempts, cached : LineOrNone,
                    exit : {"no", "eof", "answered", "failed"}]
      /\ main'.pc # "disconnected"
  BY <1>1 DEF ProxyTypeOK, LineOrNone, InRound
<1> QED
  BY <1>1, <1>4, <1>7, <1>8, LineQueued

LEMMA AwaitRequestInv ==
  ASSUME SessionInv, NEW x \in NextLine, AwaitRequest(x)
  PROVE  SessionInv'
<1> DEFINE t == OnClientLine(tracker, x)
<1>1. /\ main.pc = "disconnected" /\ Says(x) /\ ProxyTypeOK /\ RoundInv /\ queue = <<>>
      /\ conn = NoConn /\ client.sent \in Nat
      /\ UNCHANGED <<pending, lossState, pump, daemonVars, notified>>
  BY Types DEF AwaitRequest, SessionInv, QueueInv, RoundInv
<1>2. /\ x \in Line /\ x.n \in Nat
      /\ tracker.initialize # NoLine => tracker.initialize.n < x.n
  BY <1>1, NewLine
<1>3. client'.lifecycle = client.lifecycle /\ client'.ready = client.ready
      /\ (IsRequest(x) => x.id \in Id)
  BY <1>1, SaysFacts
<1>4. t \in Tracker
  BY <1>1, <1>2, <1>3, Types, OnClientLineFields
<1>5. /\ SetLink(t, "reconnecting") \in Tracker
      /\ SetLink(t, "reconnecting").inFlight = t.inFlight
      /\ SetLink(t, "reconnecting").initialised = t.initialised
      /\ SetLink(t, "reconnecting").initialize = t.initialize
      /\ SetLink(t, "reconnecting").initialized = t.initialized
      /\ SetLink(t, "reconnecting").kept = t.kept
  BY <1>4, SetLinkFields
<1>6. main \in [pc : MainPC, after : After, attempts : 0..MaxAttempts, cached : LineOrNone,
                exit : {"no", "eof", "answered", "failed"}]
  BY <1>1 DEF ProxyTypeOK, LineOrNone
<1> HIDE DEF t
<1>7. CASE /\ IsRequest(x) /\ tracker' = SetLink(t, "reconnecting") /\ queue' = Append(queue, x)
           /\ main' = [main EXCEPT !.pc = "attempt", !.attempts = 0,
                         !.after = IF ReplaysHandshake(t) THEN "replay_drop" ELSE "nothing"]
  <2>1. /\ main' \in [pc : MainPC, after : After, attempts : 0..MaxAttempts, cached : LineOrNone,
                      exit : {"no", "eof", "answered", "failed"}]
        /\ main'.pc = "attempt" /\ main'.attempts = 0 /\ main'.exit = main.exit
        /\ main'.after = IF ReplaysHandshake(t) THEN "replay_drop" ELSE "nothing"
    <3> DEFINE after == IF ReplaysHandshake(t) THEN "replay_drop" ELSE "nothing"
    <3>1. after \in After /\ 0 \in 0..MaxAttempts /\ "attempt" \in MainPC
      BY BoundsAssumption DEF MainPC, After
    <3>2. main' = [main EXCEPT !.pc = "attempt", !.attempts = 0, !.after = after]
      BY <1>7
    <3> HIDE DEF after
    <3>3. /\ main' \in [pc : MainPC, after : After, attempts : 0..MaxAttempts, cached : LineOrNone,
                        exit : {"no", "eof", "answered", "failed"}]
          /\ main'.pc = "attempt" /\ main'.attempts = 0 /\ main'.exit = main.exit
          /\ main'.after = after
      BY <1>6, <3>1, <3>2
    <3> QED
      BY <3>3 DEF after
  <2>2. /\ LifecycleInv'
        /\ tracker'.initialised => tracker'.initialize = tracker.initialize
    BY <1>1, <1>5, <1>7, Tracked DEF t
  <2>3. \A k \in DOMAIN queue' : queue'[k] = x
    BY <1>1, <1>2, <1>7
  <2>4. RoundInv'
    <3>1. conn' = NoConn /\ InRound'
      BY <1>1, <2>1 DEF daemonVars, InRound
    <3>2. main'.after = "replay_drop" =>
            /\ tracker'.initialised /\ tracker'.initialize # NoLine
            /\ \A k \in DOMAIN queue' : tracker'.initialize.n < queue'[k].n
      BY <1>2, <1>5, <1>7, <2>1, <2>2, <2>3 DEF ReplaysHandshake
    <3>3. main'.after = "nothing" /\ client'.lifecycle = "handshake" => ~tracker'.initialised
      BY <1>5, <1>7, <2>1, <2>2 DEF ReplaysHandshake, LifecycleInv
    <3>4. pending' = [n |-> 0, used |-> 0] /\ (client'.ready => lossState'.initialised)
      BY <1>1, <1>3 DEF RoundInv
    <3>5. main'.attempts < MaxAttempts /\ main'.after \in {"replay_drop", "nothing"}
      BY <2>1, BoundsAssumption
    <3> QED
      BY <2>1, <3>1, <3>2, <3>3, <3>4, <3>5 DEF RoundInv
  <2>5. InRound' /\ main'.after # "resend_kept" /\ main'.pc # "disconnected"
    BY <2>1 DEF InRound
  <2> QED
    BY <1>1, <1>5, <1>7, <2>1, <2>4, <2>5, LineQueued DEF t
<1>8. CASE ~IsRequest(x) /\ tracker' = t /\ UNCHANGED <<queue, main>>
  <2>1. RoundInv'
    BY <1>1, <1>3, <1>8 DEF RoundInv, InRound, daemonVars
  <2> QED
    BY <1>1, <1>4, <1>6, <1>8, <2>1, LineQueued DEF t
<1> QED
  BY <1>7, <1>8 DEF AwaitRequest, t

-----------------------------------------------------------------------------
(* The loss of a connection *)

\* The error responses are for what the client waits for.
LEMMA ErrorsAwaited ==
  ASSUME SessionInv, NEW t \in Tracker, NEW keep,
         \A i \in Id : t.inFlight[i] \in {NoLine, asked[i]}
  PROVE  /\ ErrorsFor(t, keep) \in SUBSET Response
         /\ \A r \in ErrorsFor(t, keep) :
              /\ asked[r.id].n = r.n /\ ~r.ok /\ r.id # keep /\ t.inFlight[r.id] # NoLine
         /\ \A i \in Id : i # keep /\ t.inFlight[i] # NoLine =>
              \E r \in ErrorsFor(t, keep) : r.id = i
<1>1. asked \in [Id -> LineOrNone]
  BY Types DEF SessionInv
<1>2. ASSUME NEW i \in Id, t.inFlight[i] # NoLine
      PROVE  t.inFlight[i] = asked[i] /\ asked[i].n \in 1..MaxLines
  BY <1>1, <1>2, Lines DEF LineOrNone
<1> DEFINE e(i) == [id |-> i, n |-> t.inFlight[i].n, ok |-> FALSE]
<1>3. \A i \in Id : /\ e(i).id = i /\ e(i).n = t.inFlight[i].n /\ ~e(i).ok
                    /\ t.inFlight[i] # NoLine => e(i) \in Response
  BY <1>2 DEF Response
<1>4. ErrorsFor(t, keep) = {e(i) : i \in {j \in Id : j # keep /\ t.inFlight[j] # NoLine}}
  BY DEF ErrorsFor
<1> HIDE DEF e
<1>5. ASSUME NEW r \in ErrorsFor(t, keep)
      PROVE  /\ r \in Response /\ asked[r.id].n = r.n /\ ~r.ok /\ r.id # keep
             /\ t.inFlight[r.id] # NoLine
  <2>1. PICK i \in Id : i # keep /\ t.inFlight[i] # NoLine /\ r = e(i)
    BY <1>4
  <2> QED
    BY <1>2, <1>3, <2>1
<1>6. ASSUME NEW i \in Id, i # keep, t.inFlight[i] # NoLine
      PROVE  \E r \in ErrorsFor(t, keep) : r.id = i
  <2>1. e(i) \in ErrorsFor(t, keep)
    BY <1>4, <1>6
  <2> QED
    BY <1>3, <2>1
<1> QED
  BY <1>5, <1>6

\* The tracker once the line in the aborted pump's hands has been seen.
LEMMA Held ==
  ASSUME SessionInv, Alive, pump.pc \in {"read", "held", "ended"}
  PROVE  LET h == HeldSeen
             held == IF pump.pc = "held" THEN {pump.line} ELSE {}
         IN
         /\ h \in Tracker /\ held \in SUBSET Response
         /\ \A i \in Id : h.inFlight[i] \in {NoLine, asked[i]}
         /\ \A r \in held : /\ asked[r.id].n = r.n /\ h.inFlight[r.id] = NoLine
                            /\ r.ok /\ CountsForLifecycle(asked[r.id]) => h.initialised
         /\ tracker.initialised => h.initialised
         /\ h.initialize = tracker.initialize /\ h.initialized = tracker.initialized
         /\ h.kept # NoLine =>
              /\ h.kept = tracker.kept /\ ~h.initialised /\ CountsForLifecycle(h.kept)
              /\ h.kept.id \in Id /\ h.inFlight[h.kept.id] = h.kept
         /\ client.lifecycle = "handshake" =>
              /\ h.initialised => h.initialize # NoLine
              /\ \A i \in Id : ~h.initialised /\ CountsForLifecycle(h.inFlight[i]) =>
                   h.inFlight[i].what = "initialize" /\ h.initialize # NoLine
<1>1. ProxyTypeOK /\ TrackerInv /\ LifecycleInv /\ tracker \in Tracker
      /\ tracker.inFlight \in [Id -> LineOrNone]
  BY Types, TrackerFields DEF SessionInv
<1>2. CASE pump.pc # "held"
  BY <1>1, <1>2 DEF HeldSeen, TrackerInv, LifecycleInv
<1>3. CASE pump.pc = "held"
  <2> DEFINE r == pump.line
             u == OnDaemonLine(tracker, r)
             a == tracker.inFlight[r.id]
  <2>1. r \in Response /\ a.n = r.n /\ r.id \in Id
    BY <1>1, <1>3, Types, Lines DEF SessionInv, PumpInv
  <2>2. /\ u \in Tracker /\ u.inFlight = [tracker.inFlight EXCEPT ![r.id] = NoLine]
        /\ a = asked[r.id] /\ a # NoLine /\ a \in Line
        /\ u.initialised <=> (tracker.initialised \/ (r.ok /\ CountsForLifecycle(a)))
        /\ u.initialize = tracker.initialize /\ u.initialized = tracker.initialized
        /\ u.kept # NoLine =>
             /\ u.kept = tracker.kept /\ ~u.initialised /\ CountsForLifecycle(u.kept)
             /\ u.kept.id \in Id /\ u.kept.id # r.id /\ u.inFlight[u.kept.id] = u.kept
        /\ client.lifecycle = "handshake" =>
             /\ u.initialised => u.initialize # NoLine
             /\ ~tracker.initialised /\ u.initialised => a.what = "initialize"
             /\ \A i \in Id : ~u.initialised /\ CountsForLifecycle(u.inFlight[i]) =>
                  u.inFlight[i].what = "initialize" /\ u.initialize # NoLine
    BY <1>1, <2>1, Answering
  <2> HIDE DEF u
  <2>3. \A i \in Id : u.inFlight[i] \in {NoLine, asked[i]}
    BY <1>1, <2>1, <2>2 DEF TrackerInv
  <2>4. u.inFlight[r.id] = NoLine /\ asked[r.id].n = r.n
    BY <1>1, <2>1, <2>2
  <2>5. HeldSeen = u
    BY <1>3 DEF HeldSeen, u
  <2> QED
    BY <1>3, <2>1, <2>2, <2>3, <2>4, <2>5
<1> QED
  BY <1>2, <1>3

LEMMA OnLossInv ==
  ASSUME SessionInv, OnLoss
  PROVE  SessionInv'
<1> DEFINE held == IF pump.pc = "held" THEN {pump.line} ELSE {}
           h == HeldSeen
           t == SetLink(h, "down")
           keep == IF KeptInFlight(t) THEN t.kept.id ELSE NoId
           used == AttemptsCarried(t)
           rs == held \cup ErrorsFor(t, keep)
           begins == ~client.ready /\ \E r \in rs : r.ok /\ CountsForLifecycle(asked[r.id])
<1>1. /\ main.pc = "loss" /\ pump.pc \in {"read", "held", "ended"}
      /\ lossState' = [lossState EXCEPT !.initialised = t.initialised]
      /\ Hears(rs, conn.key, FALSE)
      /\ \/ /\ keep = NoId
            /\ tracker' = TakeInFlightExcept(t, NoId)
            /\ Goto("disconnected")
         \/ /\ keep # NoId /\ used >= MaxAttempts
            /\ tracker' = TakeInFlightExcept(t, keep)
            /\ Exit("failed")
         \/ /\ keep # NoId /\ used < MaxAttempts
            /\ tracker' = SetLink(TakeInFlightExcept(t, keep), "reconnecting")
            /\ main' = [main EXCEPT
                          !.pc = "attempt", !.attempts = used,
                          !.after = IF t.kept.what = "initialize"
                                    THEN "replay_forward" ELSE "resend_kept"]
      /\ queue' = <<>> /\ pending' = [n |-> 0, used |-> 0]
      /\ pump' = [pc |-> "off", line |-> NoResponse]
      /\ conn' = NoConn
      /\ UNCHANGED <<writes, notified>>
  BY DEF OnLoss, InitialisedAtLoss
<1>2. ProxyTypeOK /\ TrackerInv /\ Connected /\ Alive /\ ~InRound
  BY <1>1 DEF SessionInv, Connected, Alive, InRound
<1>3. /\ h \in Tracker /\ held \in SUBSET Response
      /\ \A i \in Id : h.inFlight[i] \in {NoLine, asked[i]}
      /\ \A r \in held : /\ asked[r.id].n = r.n /\ h.inFlight[r.id] = NoLine
                         /\ r.ok /\ CountsForLifecycle(asked[r.id]) => h.initialised
      /\ tracker.initialised => h.initialised
      /\ h.initialize = tracker.initialize /\ h.initialized = tracker.initialized
      /\ h.kept # NoLine =>
           /\ h.kept = tracker.kept /\ ~h.initialised /\ CountsForLifecycle(h.kept)
           /\ h.kept.id \in Id /\ h.inFlight[h.kept.id] = h.kept
      /\ client.lifecycle = "handshake" =>
           /\ h.initialised => h.initialize # NoLine
           /\ \A i \in Id : ~h.initialised /\ CountsForLifecycle(h.inFlight[i]) =>
                h.inFlight[i].what = "initialize" /\ h.initialize # NoLine
  BY <1>1, <1>2, Held
<1> HIDE DEF h, held
<1>4. /\ t \in Tracker /\ t.inFlight = h.inFlight /\ t.initialised = h.initialised
      /\ t.initialize = h.initialize /\ t.initialized = h.initialized /\ t.kept = h.kept
  BY <1>3, SetLinkFields
<1> HIDE DEF t
<1>5. /\ keep = NoId => t.kept = NoLine
      /\ keep # NoId => t.kept # NoLine /\ keep = t.kept.id /\ keep \in Id
  BY <1>3, <1>4, NoIdAssumption DEF KeptInFlight
<1> HIDE DEF keep
<1>6. /\ ErrorsFor(t, keep) \in SUBSET Response
      /\ \A r \in ErrorsFor(t, keep) :
           /\ asked[r.id].n = r.n /\ ~r.ok /\ r.id # keep /\ t.inFlight[r.id] # NoLine
      /\ \A i \in Id : i # keep /\ t.inFlight[i] # NoLine =>
           \E r \in ErrorsFor(t, keep) : r.id = i
  BY <1>3, <1>4, ErrorsAwaited
<1>7. rs \in SUBSET Response /\ \A r \in rs : asked[r.id].n = r.n
  BY <1>3, <1>6
<1>8. begins => h.initialised
  BY <1>3, <1>6
<1> HIDE DEF rs
<1>9. /\ asked' = [i \in Id |-> IF \E r \in rs : r.id = i THEN NoLine ELSE asked[i]]
      /\ asked' \in [Id -> LineOrNone] /\ unexpected' = {}
      /\ client'.lifecycle = client.lifecycle /\ client'.sent = client.sent
      /\ client'.ready <=> (client.ready \/ begins)
      /\ client'.key = IF begins \/ FALSE THEN conn.key ELSE client.key
      /\ client' \in ClientState
  <2>1. conn.key \in Key \cup {NoKey}
    BY <1>2 DEF ProxyTypeOK
  <2> QED
    BY <1>1, <1>7, <2>1, HearsFacts
<1>10. client'.ready => h.initialised
  BY <1>3, <1>8, <1>9 DEF SessionInv, LifecycleInv
<1> HIDE DEF begins
<1>11. \A i \in Id : asked'[i] # NoLine => asked'[i] = asked[i]
  BY <1>9
<1>12. keep # NoId => asked'[keep] = asked[keep]
  <2>1. HAVE keep # NoId
  <2>2. t.inFlight[keep] # NoLine /\ keep \in Id
    BY <1>3, <1>4, <1>5, <2>1
  <2>3. \A r \in rs : r.id # keep
    BY <1>3, <1>4, <1>6, <2>2 DEF rs
  <2> QED
    BY <1>9, <2>2, <2>3
<1>13. /\ tracker' \in Tracker
       /\ tracker'.inFlight = [i \in Id |-> IF i = keep THEN t.inFlight[i] ELSE NoLine]
       /\ tracker'.initialised = h.initialised /\ tracker'.kept = h.kept
       /\ tracker'.initialize = tracker.initialize /\ tracker'.initialized = tracker.initialized
  <2> DEFINE w == TakeInFlightExcept(t, keep)
  <2>1. /\ w \in Tracker /\ w.inFlight = [i \in Id |-> IF i = keep THEN t.inFlight[i] ELSE NoLine]
        /\ w.initialised = t.initialised /\ w.initialize = t.initialize
        /\ w.initialized = t.initialized /\ w.kept = t.kept
    BY <1>4, TakeFields
  <2> HIDE DEF w
  <2>2. /\ SetLink(w, "reconnecting") \in Tracker /\ SetLink(w, "reconnecting").inFlight = w.inFlight
        /\ SetLink(w, "reconnecting").initialised = w.initialised
        /\ SetLink(w, "reconnecting").initialize = w.initialize
        /\ SetLink(w, "reconnecting").initialized = w.initialized
        /\ SetLink(w, "reconnecting").kept = w.kept
    BY <2>1, SetLinkFields
  <2>3. tracker' = w \/ tracker' = SetLink(w, "reconnecting")
    BY <1>1 DEF w
  <2>4. CASE tracker' = w
    BY <1>3, <1>4, <2>1, <2>4
  <2>5. CASE tracker' = SetLink(w, "reconnecting")
    BY <1>3, <1>4, <2>1, <2>2, <2>5
  <2> QED
    BY <2>3, <2>4, <2>5
<1>14. \A i \in Id : tracker'.inFlight[i] = IF i = keep THEN h.inFlight[i] ELSE NoLine
  BY <1>4, <1>13
<1>15. main \in [pc : MainPC, after : After, attempts : 0..MaxAttempts, cached : LineOrNone,
                 exit : {"no", "eof", "answered", "failed"}]
       /\ main.exit = "no"
  BY <1>2 DEF ProxyTypeOK, LineOrNone, SessionInv
<1>16. used = (IF KeptInFlight(t) /\ t.kept.n = pending.n THEN pending.used ELSE 0) /\ used \in Nat
  BY <1>2, Types DEF AttemptsCarried
<1> HIDE DEF used
<1>17. /\ main' \in [pc : MainPC, after : After, attempts : 0..MaxAttempts, cached : LineOrNone,
                     exit : {"no", "eof", "answered", "failed"}]
       /\ \/ main'.pc = "disconnected" /\ main'.exit = "no" /\ keep = NoId
          \/ main'.pc = "exited" /\ main'.exit = "failed" /\ keep # NoId
          \/ /\ main'.pc = "attempt" /\ main'.exit = "no" /\ keep # NoId
             /\ main'.attempts = used /\ used < MaxAttempts
             /\ main'.after = IF t.kept.what = "initialize" THEN "replay_forward" ELSE "resend_kept"
  <2>1. CASE keep = NoId /\ Goto("disconnected")
    BY <1>15, <2>1 DEF Goto, MainPC
  <2>2. CASE keep # NoId /\ Exit("failed")
    BY <1>15, <2>2 DEF Exit, MainPC
  <2>3. CASE /\ keep # NoId /\ used < MaxAttempts
             /\ main' = [main EXCEPT
                           !.pc = "attempt", !.attempts = used,
                           !.after = IF t.kept.what = "initialize"
                                     THEN "replay_forward" ELSE "resend_kept"]
    <3> DEFINE after == IF t.kept.what = "initialize" THEN "replay_forward" ELSE "resend_kept"
    <3>1. after \in After /\ used \in 0..MaxAttempts /\ "attempt" \in MainPC
      BY <1>16, <2>3, BoundsAssumption DEF After, MainPC
    <3>2. main' = [main EXCEPT !.pc = "attempt", !.attempts = used, !.after = after]
      BY <2>3
    <3> HIDE DEF after
    <3>3. /\ main' \in [pc : MainPC, after : After, attempts : 0..MaxAttempts, cached : LineOrNone,
                        exit : {"no", "eof", "answered", "failed"}]
          /\ main'.pc = "attempt" /\ main'.exit = "no" /\ main'.attempts = used /\ main'.after = after
      BY <1>15, <3>1, <3>2
    <3> QED
      BY <2>3, <3>3 DEF after
  <2> QED
    BY <1>1, <2>1, <2>2, <2>3
<1>18. lossState'.initialised = h.initialised /\ lossState'.key = lossState.key
       /\ lossState' \in [initialised : BOOLEAN, key : Key \cup {NoKey}]
  <2>1. t.initialised \in BOOLEAN
    BY <1>4, TrackerFields
  <2> QED
    BY <1>1, <1>2, <1>4, <2>1 DEF ProxyTypeOK
<1>19. ProxyTypeOK'
  <2>1. conn' \in ConnState /\ queue' \in Seq(Line) /\ conn'.got = <<>>
    BY <1>1 DEF NoConn, ConnState
  <2> QED
    BY <1>1, <1>2, <1>9, <1>13, <1>17, <1>18, <2>1, BoundsAssumption
       DEF ProxyTypeOK, LineOrNone, ConnState, ClientState
<1>20. TrackerInv'
  <2>1. \A i \in Id : tracker'.inFlight[i] \in {NoLine, asked'[i]}
    BY <1>3, <1>5, <1>12, <1>14, NoIdAssumption
  <2>2. \A i \in Id : asked'[i] # NoLine =>
          asked'[i].id = i /\ IsRequest(asked'[i]) /\ asked'[i].n <= client'.sent
    BY <1>2, <1>9, <1>11 DEF TrackerInv
  <2>3. tracker'.kept # NoLine =>
          /\ ~tracker'.initialised /\ CountsForLifecycle(tracker'.kept)
          /\ tracker'.kept.id \in Id /\ tracker'.inFlight[tracker'.kept.id] = tracker'.kept
    BY <1>3, <1>4, <1>5, <1>13, <1>14
  <2> QED
    BY <1>2, <1>9, <1>13, <2>1, <2>2, <2>3 DEF TrackerInv
<1>21. LifecycleInv'
  BY <1>3, <1>9, <1>10, <1>13, <1>14, Lines DEF LifecycleInv
<1>22. RoundInv'
  <2>1. main'.pc = "attempt" => tracker'.kept = t.kept /\ t.kept # NoLine
    BY <1>4, <1>5, <1>13, <1>17
  <2> QED
    BY <1>1, <1>10, <1>17, <1>18, <2>1 DEF RoundInv, InRound
<1>23. QueueInv' /\ OwedInv' /\ PumpInv'
  BY <1>1, <1>17 DEF QueueInv, OwedInv, PumpInv, Connected
<1>24. WritesInv' /\ ResendBounded' /\ HandshakeFirst'
  <2>1. conn'.got = <<>>
    BY <1>1 DEF NoConn
  <2>2. ASSUME Alive', tracker'.kept.what = "call"
        PROVE  writes'[tracker'.kept.n] <= 1 + Used'
    <3>1. t.kept # NoLine /\ tracker'.kept = t.kept /\ t.kept = tracker.kept
      BY <1>3, <1>4, <1>13, <2>2, Lines
    <3>2. /\ main'.pc = "attempt" /\ main'.after = "resend_kept" /\ main'.attempts = used
      BY <1>5, <1>17, <2>2, <3>1 DEF Alive
    <3>3. KeptInFlight(t)
      BY <1>3, <1>4, <3>1 DEF KeptInFlight
    <3>4. Used' = used /\ Used = used
      BY <1>2, <1>16, <3>1, <3>2, <3>3 DEF Used, InRound
    <3> QED
      BY <1>1, <1>2, <2>2, <3>1, <3>4 DEF SessionInv, WritesInv
  <2>3. \A n \in 1..MaxLines : n > client'.sent => writes'[n] = 0
    BY <1>1, <1>9 DEF SessionInv, WritesInv
  <2> QED
    BY <2>1, <2>2, <2>3 DEF WritesInv, ResendBounded, HandshakeFirst
<1>25. (client.ready => client.key = lossState.key)'
  BY <1>2, <1>9, <1>18 DEF SessionInv, OwedInv
<1>26. (Alive => main.exit = "no")' /\ EveryAnswerAwaited' /\ NeverExitsOnceReady'
  BY <1>3, <1>4, <1>5, <1>9, <1>10, <1>17 DEF Alive, EveryAnswerAwaited, NeverExitsOnceReady
<1> QED
  BY <1>19, <1>20, <1>21, <1>22, <1>23, <1>24, <1>25, <1>26 DEF SessionInv

-----------------------------------------------------------------------------
(* Reconnection rounds *)

MainState == [pc : MainPC, after : After, attempts : 0..MaxAttempts, cached : LineOrNone,
              exit : {"no", "eof", "answered", "failed"}]

\* A failed round of a session that has begun answers what is in flight and gives up until
\* the next request; any other ends the proxy.
LEMMA RoundFailedInv ==
  ASSUME SessionInv, InRound, RoundFailed, conn' = NoConn,
         UNCHANGED <<writes, pending, lossState, pump, notified>>
  PROVE  SessionInv'
<1>1. /\ ProxyTypeOK /\ TrackerInv /\ LifecycleInv /\ Alive /\ ~Connected /\ pump.pc = "off"
      /\ main \in MainState /\ main.exit = "no"
      /\ conn'.got = <<>> /\ conn' \in ConnState
  BY DEF SessionInv, Alive, InRound, Connected, PumpInv, ProxyTypeOK, MainState, LineOrNone,
         NoConn, ConnState
<1>2. CASE ~tracker.initialised /\ Exit("failed") /\ UNCHANGED <<clientVars, tracker, queue>>
  <2>1. main' \in MainState /\ main'.pc = "exited" /\ main'.exit = "failed" /\ ~client.ready
    BY <1>1, <1>2 DEF Exit, MainState, MainPC, LifecycleInv
  <2>2. ProxyTypeOK'
    BY <1>1, <1>2, <2>1 DEF ProxyTypeOK, MainState, LineOrNone, ConnState, clientVars
  <2>3. TrackerInv' /\ LifecycleInv' /\ (client.ready => client.key = lossState.key)'
    BY <1>1, <1>2 DEF TrackerInv, LifecycleInv, clientVars, SessionInv
  <2>4. RoundInv' /\ OwedInv' /\ PumpInv' /\ (Alive => main.exit = "no")'
    BY <2>1 DEF RoundInv, OwedInv, PumpInv, Connected, Alive, InRound
  <2>5. QueueInv'
    <3>1. QueueInv
      BY DEF SessionInv
    <3> QED
      BY <1>1, <1>2, <2>1, <3>1 DEF QueueInv, clientVars
  <2>6. WritesInv' /\ EveryAnswerAwaited' /\ ResendBounded' /\ NeverExitsOnceReady' /\ HandshakeFirst'
    BY <1>1, <1>2, <2>1 DEF SessionInv, WritesInv, Alive, EveryAnswerAwaited, ResendBounded,
       NeverExitsOnceReady, HandshakeFirst, clientVars
  <2> QED
    BY <2>2, <2>3, <2>4, <2>5, <2>6 DEF SessionInv
<1>3. CASE /\ tracker.initialised
           /\ Hears(ErrorsFor(tracker, NoId), conn.key, FALSE)
           /\ tracker' = SetLink(TakeInFlightExcept(tracker, NoId), "down")
           /\ queue' = <<>>
           /\ main' = [main EXCEPT !.pc = "disconnected", !.attempts = 0, !.cached = NoLine]
  <2> DEFINE rs == ErrorsFor(tracker, NoId)
             begins == ~client.ready /\ \E r \in rs : r.ok /\ CountsForLifecycle(asked[r.id])
             w == TakeInFlightExcept(tracker, NoId)
  <2>1. /\ rs \in SUBSET Response /\ \A r \in rs : asked[r.id].n = r.n /\ ~r.ok
    <3>1. tracker \in Tracker /\ \A i \in Id : tracker.inFlight[i] \in {NoLine, asked[i]}
      BY <1>1, Types DEF TrackerInv
    <3> QED
      BY <3>1, ErrorsAwaited
  <2>2. ~begins
    BY <2>1
  <2>3. /\ asked' = [i \in Id |-> IF \E r \in rs : r.id = i THEN NoLine ELSE asked[i]]
        /\ asked' \in [Id -> LineOrNone] /\ unexpected' = {}
        /\ client'.lifecycle = client.lifecycle /\ client'.sent = client.sent
        /\ client'.ready <=> (client.ready \/ begins)
        /\ client'.key = IF begins \/ FALSE THEN conn.key ELSE client.key
        /\ client' \in ClientState
    <3>1. conn.key \in Key \cup {NoKey}
      BY <1>1 DEF ProxyTypeOK
    <3> QED
      BY <1>3, <2>1, <3>1, HearsFacts
  <2> HIDE DEF rs, begins
  <2>4. /\ w \in Tracker /\ w.inFlight = [i \in Id |-> IF i = NoId THEN tracker.inFlight[i] ELSE NoLine]
        /\ w.initialised = tracker.initialised /\ w.initialize = tracker.initialize
        /\ w.initialized = tracker.initialized /\ w.kept = tracker.kept
    BY <1>1, Types, TakeFields
  <2> HIDE DEF w
  <2>5. /\ tracker' \in Tracker /\ tracker'.inFlight = w.inFlight
        /\ tracker'.initialised = w.initialised /\ tracker'.initialize = w.initialize
        /\ tracker'.initialized = w.initialized /\ tracker'.kept = w.kept
    BY <1>3, <2>4, SetLinkFields DEF w
  <2>6. /\ \A i \in Id : tracker'.inFlight[i] = NoLine
        /\ tracker'.kept = NoLine /\ tracker'.initialised
    <3>1. \A i \in Id : i # NoId
      BY NoIdAssumption
    <3>2. \A i \in Id : w.inFlight[i] = NoLine
      BY <2>4, <3>1
    <3>3. tracker.kept = NoLine
      BY <1>1, <1>3 DEF TrackerInv
    <3> QED
      BY <1>3, <2>4, <2>5, <3>2, <3>3
  <2>7. main' \in MainState /\ main'.pc = "disconnected" /\ main'.exit = "no"
    <3>1. NoLine \in LineOrNone /\ 0 \in 0..MaxAttempts /\ "disconnected" \in MainPC
      BY BoundsAssumption DEF LineOrNone, MainPC
    <3> QED
      BY <1>1, <1>3, <3>1 DEF MainState
  <2>8. ProxyTypeOK'
    <3>1. queue' \in Seq(Line)
      BY <1>3
    <3> QED
      BY <1>1, <2>3, <2>5, <2>7, <3>1 DEF ProxyTypeOK, MainState, LineOrNone, ConnState, ClientState
  <2>9. TrackerInv'
    BY <1>1, <2>3, <2>4, <2>5, <2>6 DEF TrackerInv
  <2>10. LifecycleInv' /\ (client.ready => client.key = lossState.key)'
    BY <1>1, <1>3, <2>2, <2>3, <2>4, <2>5, <2>6, Lines DEF LifecycleInv, SessionInv
  <2>11. RoundInv'
    BY <2>2, <2>3, <2>7 DEF RoundInv, InRound, SessionInv
  <2>12. QueueInv' /\ OwedInv' /\ PumpInv' /\ (Alive => main.exit = "no")'
    BY <1>1, <1>3, <2>7 DEF QueueInv, OwedInv, PumpInv, Connected
  <2>13. WritesInv' /\ EveryAnswerAwaited' /\ ResendBounded' /\ NeverExitsOnceReady' /\ HandshakeFirst'
    BY <1>1, <2>3, <2>6, <2>7, Lines DEF SessionInv, WritesInv, EveryAnswerAwaited, ResendBounded,
       NeverExitsOnceReady, HandshakeFirst
  <2> QED
    BY <2>8, <2>9, <2>10, <2>11, <2>12, <2>13 DEF SessionInv
<1> QED
  BY <1>2, <1>3 DEF RoundFailed

LEMMA AttemptFailedInv ==
  ASSUME SessionInv, InRound, NEW retryable \in BOOLEAN, NEW attempts \in 0..MaxAttempts,
         main.attempts <= attempts, AttemptFailed(retryable, attempts),
         conn' = NoConn, UNCHANGED writes
  PROVE  SessionInv'
<1>1. CASE /\ attempts < MaxAttempts
           /\ main' = [main EXCEPT !.pc = "attempt", !.attempts = attempts]
           /\ UNCHANGED <<clientVars, tracker, queue>>
  <2>1. /\ ProxyTypeOK /\ main \in MainState /\ conn' \in ConnState /\ conn'.got = <<>>
        /\ main.exit = "no" /\ pump.pc = "off" /\ Alive
        /\ UNCHANGED <<client, asked, unexpected, tracker, queue, pending, lossState, pump, notified>>
    BY <1>1 DEF SessionInv, ProxyTypeOK, MainState, LineOrNone, NoConn, ConnState, AttemptFailed,
       clientVars, Alive, InRound, PumpInv, Connected
  <2>2. /\ main' \in MainState /\ main'.pc = "attempt" /\ main'.exit = "no"
        /\ main'.after = main.after /\ main'.attempts = attempts
    BY <1>1, <2>1 DEF MainState, MainPC
  <2>3. ProxyTypeOK'
    BY <2>1, <2>2 DEF ProxyTypeOK, MainState, LineOrNone, ConnState
  <2>4. TrackerInv' /\ LifecycleInv' /\ (client.ready => client.key = lossState.key)'
    BY <2>1 DEF TrackerInv, LifecycleInv, SessionInv
  <2>5. RoundInv'
    <3>1. RoundInv
      BY DEF SessionInv
    <3> QED
      BY <1>1, <2>1, <2>2, <3>1 DEF RoundInv, InRound
  <2>6. QueueInv'
    <3>1. QueueInv
      BY DEF SessionInv
    <3> QED
      BY <2>1, <2>2, <3>1 DEF QueueInv
  <2>7. OwedInv' /\ PumpInv' /\ (Alive => main.exit = "no")'
    BY <2>1, <2>2 DEF OwedInv, PumpInv, Connected
  <2>8. WritesInv'
    <3>1. ASSUME tracker.kept.what = "call"
          PROVE  writes[tracker.kept.n] <= 1 + Used'
      <4>1. writes[tracker.kept.n] <= 1 + Used
        BY <2>1, <3>1 DEF SessionInv, WritesInv
      <4>2. Used <= Used' /\ Used \in Nat /\ Used' \in Nat
        <5>1. main.attempts \in Nat /\ pending.used \in Nat /\ InRound'
          BY <2>1, <2>2, Types DEF InRound
        <5> QED
          BY <2>1, <2>2, <5>1, BoundsAssumption DEF Used
      <4>3. writes[tracker.kept.n] \in Nat
        <5>1. tracker.kept \in Line
          BY <2>1, <3>1, Types, TrackerFields, Lines DEF LineOrNone
        <5> QED
          BY <2>1, <5>1, Types, Lines
      <4> QED
        BY <4>1, <4>2, <4>3
    <3> QED
      BY <2>1, <3>1 DEF SessionInv, WritesInv
  <2>9. EveryAnswerAwaited' /\ ResendBounded' /\ NeverExitsOnceReady' /\ HandshakeFirst'
    BY <2>1, <2>2 DEF SessionInv, EveryAnswerAwaited, ResendBounded, NeverExitsOnceReady, HandshakeFirst
  <2> QED
    BY <2>3, <2>4, <2>5, <2>6, <2>7, <2>8, <2>9 DEF SessionInv
<1>2. CASE RoundFailed
  BY <1>2, RoundFailedInv DEF AttemptFailed
<1> QED
  BY <1>1, <1>2 DEF AttemptFailed

LEMMA ConnectFailsInv ==
  ASSUME SessionInv, ConnectFails
  PROVE  SessionInv'
<1>1. PICK retryable \in BOOLEAN : AttemptFailed(retryable, main.attempts + 1)
  BY DEF ConnectFails
<1>2. /\ InRound /\ conn' = NoConn /\ UNCHANGED writes /\ main.attempts < MaxAttempts
      /\ main.attempts \in Nat
  BY Types DEF ConnectFails, SessionInv, RoundInv, InRound, daemonVars
<1>3. main.attempts + 1 \in 0..MaxAttempts /\ main.attempts <= main.attempts + 1
  BY <1>2, BoundsAssumption
<1> QED
  BY <1>1, <1>2, <1>3, AttemptFailedInv

LEMMA ReplayFailsInv ==
  ASSUME SessionInv, ReplayFails
  PROVE  SessionInv'
<1>1. PICK closed \in BOOLEAN : AttemptFailed(closed, main.attempts)
  BY DEF ReplayFails
<1>2. /\ InRound /\ conn' = NoConn /\ UNCHANGED writes
      /\ main.attempts \in 0..MaxAttempts /\ main.attempts <= main.attempts
  BY BoundsAssumption DEF ReplayFails, SessionInv, ProxyTypeOK, InRound
<1> QED
  BY <1>1, <1>2, AttemptFailedInv

\* t is the tracker after the answers rs, which the client waits for.
Heard(t, rs) ==
  /\ t \in Tracker /\ rs \in SUBSET Response
  /\ \A i \in Id : t.inFlight[i] \in {NoLine, asked[i]}
  /\ \A r \in rs : /\ asked[r.id].n = r.n /\ t.inFlight[r.id] = NoLine
                   /\ r.ok /\ CountsForLifecycle(asked[r.id]) => t.initialised
  /\ tracker.initialised => t.initialised
  /\ t.initialize = tracker.initialize /\ t.initialized = tracker.initialized
  /\ t.kept # NoLine =>
       /\ t.kept = tracker.kept /\ ~t.initialised /\ CountsForLifecycle(t.kept)
       /\ t.kept.id \in Id /\ t.inFlight[t.kept.id] = t.kept
  /\ client.lifecycle = "handshake" =>
       /\ t.initialised => t.initialize # NoLine
       /\ \A i \in Id : ~t.initialised /\ CountsForLifecycle(t.inFlight[i]) =>
            t.inFlight[i].what = "initialize" /\ t.initialize # NoLine

LEMMA HeardNothing ==
  ASSUME SessionInv
  PROVE  Heard(tracker, {})
<1>1. ProxyTypeOK /\ TrackerInv /\ LifecycleInv /\ tracker \in Tracker
  BY Types DEF SessionInv
<1> QED
  BY <1>1 DEF Heard, TrackerInv, LifecycleInv

\* A round ends with a connection on which the session resumes.
LEMMA ResumesInv ==
  ASSUME SessionInv, InRound, NEW t, NEW rs, Heard(t, rs), NEW key \in Key \cup {NoKey},
         NEW attempts \in 0..MaxAttempts, Resumes(t, rs, key, attempts),
         conn' \in ConnState, conn'.key = key, writes' \in [1..MaxLines -> Nat],
         ResendBounded', HandshakeFirst',
         \A n \in 1..MaxLines : n > client.sent => writes'[n] = 0,
         \A k \in DOMAIN conn'.got : conn'.got[k].n <= client.sent,
         \A k \in DOMAIN queue : IsRequest(queue[k]) =>
            t.inFlight[queue[k].id] = queue[k] /\ writes'[queue[k].n] = 0,
         \A k \in DOMAIN queue : \A j \in DOMAIN conn'.got :
            IsRequest(conn'.got[j]) => conn'.got[j].n < queue[k].n,
         \A k \in DOMAIN conn'.owed :
            /\ conn'.owed[k].id \in Id /\ t.inFlight[conn'.owed[k].id] = conn'.owed[k]
            /\ \E j \in DOMAIN conn'.got : conn'.got[j] = conn'.owed[k],
         \A j, k \in DOMAIN conn'.owed : j < k => conn'.owed[j].n < conn'.owed[k].n,
         client.lifecycle = "handshake" /\ t.initialised =>
            \E j \in DOMAIN conn'.got : conn'.got[j].what = "initialize",
         t.kept.what = "call" =>
            writes'[t.kept.n] <= 1 + (IF main.after = "resend_kept" THEN attempts ELSE 0)
  PROVE  SessionInv'
<1> DEFINE announced == lossState.initialised /\ key # lossState.key
           begins == ~client.ready /\ \E r \in rs : r.ok /\ CountsForLifecycle(asked[r.id])
<1>1. /\ ProxyTypeOK /\ TrackerInv /\ RoundInv /\ main \in MainState /\ main.exit = "no"
  BY DEF SessionInv, ProxyTypeOK, MainState, LineOrNone, Alive, InRound
<1>2. /\ Hears(rs, key, announced)
      /\ lossState' = [lossState EXCEPT !.key = key]
      /\ tracker' = SetLink(t, "up")
      /\ pending' = IF main.after = "resend_kept" /\ t.kept # NoLine
                    THEN [n |-> t.kept.n, used |-> attempts] ELSE pending
      /\ UNCHANGED <<queue, notified>>
      /\ pump' = [pc |-> "read", line |-> NoResponse]
      /\ main' = [main EXCEPT !.pc = "flush", !.attempts = 0, !.cached = NoLine]
  BY DEF Resumes
<1>3. announced \in BOOLEAN
  BY <1>1 DEF ProxyTypeOK
<1>4. rs \in SUBSET Response /\ \A r \in rs : asked[r.id].n = r.n
  BY DEF Heard
<1>5. /\ asked' = [i \in Id |-> IF \E r \in rs : r.id = i THEN NoLine ELSE asked[i]]
      /\ asked' \in [Id -> LineOrNone] /\ unexpected' = {}
      /\ client'.lifecycle = client.lifecycle /\ client'.sent = client.sent
      /\ client'.ready <=> (client.ready \/ begins)
      /\ client'.key = IF begins \/ announced THEN key ELSE client.key
      /\ client' \in ClientState
  <2>1. key \in Key \cup {NoKey} /\ Hears(rs, key, announced)
    BY <1>2
  <2> HIDE DEF announced, begins
  <2>2. ASSUME NEW a \in BOOLEAN, announced = a
        PROVE  Hears(rs, key, a)
    BY <2>1, <2>2 DEF Hears
  <2>3. ASSUME NEW a \in BOOLEAN, announced = a
        PROVE  /\ asked' = [i \in Id |-> IF \E r \in rs : r.id = i THEN NoLine ELSE asked[i]]
               /\ asked' \in [Id -> LineOrNone] /\ unexpected' = {}
               /\ client'.lifecycle = client.lifecycle /\ client'.sent = client.sent
               /\ client'.ready <=> (client.ready \/ begins)
               /\ client'.key = IF begins \/ a THEN key ELSE client.key
               /\ client' \in ClientState
    BY <1>4, <2>1, <2>2, <2>3, HearsFacts DEF begins
  <2> QED
    BY <1>3, <2>3
<1>6. client'.ready => t.initialised
  BY <1>5 DEF Heard, SessionInv, LifecycleInv
<1>7. client'.ready => client'.key = key
  BY <1>1, <1>5 DEF SessionInv, RoundInv
<1> HIDE DEF begins, announced
<1>8. /\ tracker' \in Tracker /\ tracker'.inFlight = t.inFlight
      /\ tracker'.initialised = t.initialised /\ tracker'.initialize = t.initialize
      /\ tracker'.initialized = t.initialized /\ tracker'.kept = t.kept
  BY <1>2, SetLinkFields DEF Heard
<1>9. main' \in MainState /\ main'.pc = "flush" /\ main'.exit = "no"
  <2>1. NoLine \in LineOrNone /\ 0 \in 0..MaxAttempts /\ "flush" \in MainPC
    BY BoundsAssumption DEF LineOrNone, MainPC
  <2> QED
    BY <1>1, <1>2, <2>1 DEF MainState
<1>10. Connected' /\ ~InRound' /\ Alive'
  BY <1>9 DEF Connected, InRound, Alive
<1>11. lossState'.key = key /\ lossState' \in [initialised : BOOLEAN, key : Key \cup {NoKey}]
  BY <1>1, <1>2 DEF ProxyTypeOK
<1>12. /\ pending' \in [n : 0..MaxLines, used : 0..MaxAttempts]
       /\ main.after = "resend_kept" /\ t.kept.what = "call" =>
            pending'.n = t.kept.n /\ pending'.used = attempts
       /\ t.kept.n \in Nat
  <2>1. t.kept \in LineOrNone
    BY TrackerFields DEF Heard
  <2>2. t.kept # NoLine => t.kept.n \in 0..MaxLines
    BY <2>1, BoundsAssumption, Lines DEF LineOrNone
  <2>3. t.kept.what = "call" => t.kept # NoLine
    BY Lines
  <2> QED
    BY <1>1, <1>2, <2>1, <2>2, <2>3, Kinds DEF ProxyTypeOK
<1>13. ProxyTypeOK'
  BY <1>1, <1>2, <1>5, <1>8, <1>9, <1>11, <1>12 DEF ProxyTypeOK, MainState, LineOrNone, ConnState, ClientState
<1>14. TrackerInv'
  <2>1. \A i \in Id : t.inFlight[i] \in {NoLine, asked'[i]}
    BY <1>5 DEF Heard
  <2>2. \A i \in Id : asked'[i] # NoLine =>
          asked'[i].id = i /\ IsRequest(asked'[i]) /\ asked'[i].n <= client'.sent
    BY <1>1, <1>5 DEF TrackerInv
  <2> QED
    BY <1>1, <1>5, <1>8, <2>1, <2>2 DEF TrackerInv, Heard
<1>15. LifecycleInv'
  BY <1>5, <1>6, <1>8 DEF LifecycleInv, Heard
<1>16. RoundInv'
  BY <1>9, <1>10 DEF RoundInv
<1>17. QueueInv'
  <2>1. QueueInv
    BY DEF SessionInv
  <2> QED
    BY <1>2, <1>5, <1>8, <1>9, <2>1 DEF QueueInv, Heard
<1>18. OwedInv'
  BY <1>5, <1>8, <1>11 DEF OwedInv
<1>19. PumpInv'
  BY <1>2, <1>10 DEF PumpInv
<1>20. WritesInv'
  <2>1. Used' = IF pending'.n = tracker'.kept.n THEN pending'.used ELSE 0
    BY <1>10 DEF Used
  <2>2. ASSUME tracker'.kept.what = "call"
        PROVE  writes'[tracker'.kept.n] <= 1 + Used'
    <3>1. CASE main.after = "resend_kept"
      BY <1>8, <1>12, <2>1, <2>2, <3>1
    <3>2. CASE main.after # "resend_kept"
      <4>1. writes'[t.kept.n] <= 1
        BY <1>8, <2>2, <3>2
      <4>2. Used' \in Nat /\ t.kept.n \in 1..MaxLines
        BY <1>8, <1>12, <1>13, <2>1, <2>2, TrackerFields, Lines DEF ProxyTypeOK, LineOrNone, Heard
      <4> QED
        BY <1>8, <4>1, <4>2
    <3> QED
      BY <3>1, <3>2
  <2> QED
    BY <1>5, <2>2 DEF WritesInv
<1>21. /\ (client.ready => client.key = lossState.key)' /\ (Alive => main.exit = "no")'
       /\ EveryAnswerAwaited' /\ NeverExitsOnceReady'
  BY <1>5, <1>7, <1>9, <1>11 DEF EveryAnswerAwaited, NeverExitsOnceReady
<1> QED
  BY <1>13, <1>14, <1>15, <1>16, <1>17, <1>18, <1>19, <1>20, <1>21 DEF SessionInv

\* The first line on a new connection.
LEMMA FirstWritten ==
  ASSUME ProxyTypeOK, NEW key \in Key, NEW x \in Line, IsRequest(x), WriteFirst(key, x)
  PROVE  /\ conn' \in ConnState /\ conn'.key = key /\ conn'.got = <<x>> /\ conn'.owed = <<x>>
         /\ writes' = [writes EXCEPT ![x.n] = @ + 1] /\ writes' \in [1..MaxLines -> Nat]
<1>1. x.n \in 1..MaxLines /\ writes \in [1..MaxLines -> Nat]
  BY Types, Lines
<1>2. conn' = [NewConn(key) EXCEPT !.got = Append(@, x), !.owed = Append(@, x)]
  BY DEF WriteFirst, Receives
<1>3. Append(<<>>, x) = <<x>> /\ <<x>> \in Seq(Line)
  OBVIOUS
<1>4. conn' \in ConnState /\ conn'.key = key /\ conn'.got = <<x>> /\ conn'.owed = <<x>>
  BY <1>2, <1>3 DEF NewConn, ConnState
<1>5. writes' = [writes EXCEPT ![x.n] = @ + 1]
  BY DEF WriteFirst
<1> QED
  BY <1>1, <1>4, <1>5

\* A line on a connection of its own breaks no order, and queued lines are newer.
LEMMA FirstAlone ==
  ASSUME SessionInv, NEW x \in Line, IsRequest(x), x.n <= client.sent,
         \A k \in DOMAIN queue : x.n < queue[k].n,
         conn'.got = <<x>>, writes' = [writes EXCEPT ![x.n] = @ + 1],
         client'.lifecycle = client.lifecycle, x.what = "call" => client.lifecycle # "handshake"
  PROVE  /\ HandshakeFirst'
         /\ \A n \in 1..MaxLines : n > client.sent => writes'[n] = 0
         /\ \A k \in DOMAIN conn'.got : conn'.got[k].n <= client.sent
         /\ \A k \in DOMAIN queue : /\ IsRequest(queue[k]) => writes'[queue[k].n] = 0
                                    /\ \A j \in DOMAIN conn'.got : conn'.got[j].n < queue[k].n
<1>1. /\ ProxyTypeOK /\ writes \in [1..MaxLines -> Nat] /\ x.n \in 1..MaxLines /\ x.n \in Nat
      /\ queue \in Seq(Line) /\ client.sent \in Nat
  BY Types, Lines DEF SessionInv
<1>2. DOMAIN conn'.got = {1} /\ conn'.got[1] = x
  OBVIOUS
<1>3. HandshakeFirst'
  BY <1>2 DEF HandshakeFirst, IsRequest, Request
<1>4. ASSUME NEW n \in 1..MaxLines, n > client.sent
      PROVE  writes'[n] = 0
  <2>1. n # x.n /\ writes[n] = 0
    BY <1>1, <1>4 DEF SessionInv, WritesInv
  <2> QED
    BY <1>1, <2>1
<1>5. ASSUME NEW k \in DOMAIN queue, IsRequest(queue[k])
      PROVE  writes'[queue[k].n] = 0
  <2>1. queue[k].n \in 1..MaxLines /\ queue[k].n # x.n /\ writes[queue[k].n] = 0
    BY <1>1, <1>5, Lines DEF SessionInv, QueueInv
  <2> QED
    BY <1>1, <2>1
<1> QED
  BY <1>2, <1>3, <1>4, <1>5

\* The replayed or re-sent initialize is written, and its response awaited.
LEMMA ReplayStarts ==
  ASSUME SessionInv, main.pc = "attempt", NEW key \in Key, NEW x \in Line,
         \/ main.after = "replay_drop" /\ x = tracker.initialize /\ main'.cached = tracker.initialized
         \/ main.after = "replay_forward" /\ x = tracker.kept,
         WriteFirst(key, x),
         tracker' \in Tracker, tracker'.inFlight = tracker.inFlight,
         tracker'.initialised = tracker.initialised, tracker'.initialize = tracker.initialize,
         tracker'.initialized = tracker.initialized, tracker'.kept = tracker.kept,
         main' \in MainState, main'.pc = "response", main'.after = main.after, main'.exit = main.exit,
         UNCHANGED <<clientVars, queue, pending, lossState, pump, notified>>
  PROVE  SessionInv'
<1>1. /\ ProxyTypeOK /\ TrackerInv /\ RoundInv /\ QueueInv /\ InRound /\ InRound' /\ Alive
      /\ ~Connected /\ ~Connected' /\ pump.pc = "off" /\ UNCHANGED <<client, asked, unexpected>>
      /\ main.exit = "no"
  BY DEF SessionInv, InRound, Alive, Connected, PumpInv, clientVars
<1>2. /\ x.what = "initialize" /\ IsRequest(x)
      /\ \A k \in DOMAIN queue : x.n < queue[k].n
  BY <1>1 DEF RoundInv, TrackerInv, IsRequest, Request
<1>3. x.n <= client.sent
  <2>1. CASE x = tracker.initialize
    BY <1>1, <2>1, Lines DEF TrackerInv
  <2>2. CASE x = tracker.kept
    BY <1>1, <2>2, Lines DEF TrackerInv
  <2> QED
    BY <2>1, <2>2
<1>4. /\ conn' \in ConnState /\ conn'.key = key /\ conn'.got = <<x>> /\ conn'.owed = <<x>>
      /\ writes' = [writes EXCEPT ![x.n] = @ + 1] /\ writes' \in [1..MaxLines -> Nat]
  BY <1>1, <1>2, FirstWritten
<1>5. /\ HandshakeFirst'
      /\ \A n \in 1..MaxLines : n > client.sent => writes'[n] = 0
      /\ \A k \in DOMAIN conn'.got : conn'.got[k].n <= client.sent
      /\ \A k \in DOMAIN queue : /\ IsRequest(queue[k]) => writes'[queue[k].n] = 0
                                 /\ \A j \in DOMAIN conn'.got : conn'.got[j].n < queue[k].n
  BY <1>1, <1>2, <1>3, <1>4, FirstAlone
<1>6. ProxyTypeOK'
  BY <1>1, <1>4 DEF ProxyTypeOK, MainState, LineOrNone, ConnState
<1>7. TrackerInv' /\ LifecycleInv' /\ (client.ready => client.key = lossState.key)'
  BY <1>1 DEF TrackerInv, LifecycleInv, SessionInv
<1>8. RoundInv'
  <2>1. main'.after = "replay_drop" /\ main'.cached # NoLine =>
          /\ main'.cached.what = "initialized" /\ main'.cached.n <= client'.sent
          /\ \A k \in DOMAIN queue' : IsRequest(queue'[k]) => queue'[k].n # main'.cached.n
    BY <1>1 DEF TrackerInv, QueueInv
  <2>2. x = (IF main'.after = "replay_drop" THEN tracker'.initialize ELSE tracker'.kept)
        /\ main'.after \in {"replay_drop", "replay_forward"}
    OBVIOUS
  <2> QED
    BY <1>1, <1>4, <2>1, <2>2 DEF RoundInv
<1>9. QueueInv'
  BY <1>1, <1>5 DEF QueueInv
<1>10. OwedInv' /\ PumpInv' /\ (Alive => main.exit = "no")'
  BY <1>1 DEF OwedInv, PumpInv
<1>11. tracker.kept.what # "call"
  BY <1>1, Lines DEF RoundInv, TrackerInv
<1>12. WritesInv'
  BY <1>1, <1>5, <1>11 DEF WritesInv
<1>13. ResendBounded'
  BY <1>2, <1>4 DEF ResendBounded
<1>14. EveryAnswerAwaited' /\ NeverExitsOnceReady'
  BY <1>1 DEF SessionInv, EveryAnswerAwaited, NeverExitsOnceReady
<1> QED
  BY <1>5, <1>6, <1>7, <1>8, <1>9, <1>10, <1>12, <1>13, <1>14 DEF SessionInv

LEMMA ConnectInv ==
  ASSUME SessionInv, NEW key \in Key, Connect(key)
  PROVE  SessionInv'
<1>1. /\ ProxyTypeOK /\ TrackerInv /\ LifecycleInv /\ RoundInv /\ QueueInv /\ InRound /\ Alive
      /\ main.pc = "attempt" /\ main \in MainState /\ tracker \in Tracker
      /\ main.attempts \in Nat /\ main.attempts < MaxAttempts /\ MaxAttempts \in Nat
  BY Types DEF Connect, SessionInv, RoundInv, InRound, Alive, ProxyTypeOK, MainState, LineOrNone
<1>2. main.attempts + 1 \in 0..MaxAttempts
  BY <1>1
<1>3. tracker.initialize \in LineOrNone /\ tracker.kept \in LineOrNone /\ tracker.initialized \in LineOrNone
  BY <1>1, TrackerFields
<1>4. CASE /\ main.after = "replay_drop" /\ WriteFirst(key, tracker.initialize)
           /\ tracker' = MarkReplayStarted(tracker)
           /\ main' = [main EXCEPT !.pc = "response", !.attempts = main.attempts + 1,
                                   !.cached = tracker.initialized]
           /\ UNCHANGED <<clientVars, queue, pending, lossState, pump, notified>>
  <2>1. tracker.initialize \in Line
    BY <1>1, <1>3, <1>4 DEF RoundInv, LineOrNone
  <2>2. /\ main' \in MainState /\ main'.pc = "response" /\ main'.after = main.after
        /\ main'.exit = main.exit /\ main'.cached = tracker.initialized
    BY <1>1, <1>2, <1>3, <1>4 DEF MainState, MainPC
  <2>3. /\ tracker' \in Tracker /\ tracker'.inFlight = tracker.inFlight
        /\ tracker'.initialised = tracker.initialised /\ tracker'.initialize = tracker.initialize
        /\ tracker'.initialized = tracker.initialized /\ tracker'.kept = tracker.kept
    BY <1>1, <1>4, MarkReplayStartedFields
  <2> QED
    BY <1>1, <1>4, <2>1, <2>2, <2>3, ReplayStarts
<1>5. CASE /\ main.after = "replay_forward" /\ WriteFirst(key, tracker.kept)
           /\ main' = [main EXCEPT !.pc = "response", !.attempts = main.attempts + 1]
           /\ UNCHANGED <<clientVars, tracker, queue, pending, lossState, pump, notified>>
  <2>1. tracker.kept \in Line
    BY <1>1, <1>3, <1>5 DEF RoundInv, LineOrNone
  <2>2. /\ main' \in MainState /\ main'.pc = "response" /\ main'.after = main.after
        /\ main'.exit = main.exit
    BY <1>1, <1>2, <1>5 DEF MainState, MainPC
  <2> QED
    BY <1>1, <1>5, <2>1, <2>2, ReplayStarts
<1>6. CASE /\ main.after = "resend_kept" /\ WriteFirst(key, tracker.kept)
           /\ Resumes(tracker, {}, key, main.attempts + 1)
  <2> DEFINE x == tracker.kept
  <2>1. /\ x \in Line /\ CountsForLifecycle(x) /\ x.id \in Id /\ tracker.inFlight[x.id] = x
        /\ ~tracker.initialised /\ x.what = "call" /\ \A k \in DOMAIN queue : x.n < queue[k].n
    BY <1>1, <1>3, <1>6, Kinds DEF RoundInv, LineOrNone, TrackerInv
  <2>2. IsRequest(x) /\ x.n <= client.sent /\ x.n \in 1..MaxLines
    BY <1>1, <1>3, <2>1, Kinds, Lines DEF TrackerInv
  <2>3. client.lifecycle # "handshake"
    BY <1>1, <2>1 DEF LifecycleInv
  <2>4. /\ conn' \in ConnState /\ conn'.key = key /\ conn'.got = <<x>> /\ conn'.owed = <<x>>
        /\ writes' = [writes EXCEPT ![x.n] = @ + 1] /\ writes' \in [1..MaxLines -> Nat]
    BY <1>1, <1>6, <2>1, <2>2, FirstWritten
  <2>5. client'.lifecycle = client.lifecycle
    BY <1>1, <1>6 DEF Resumes, Hears, ProxyTypeOK
  <2>6. /\ HandshakeFirst'
        /\ \A n \in 1..MaxLines : n > client.sent => writes'[n] = 0
        /\ \A k \in DOMAIN conn'.got : conn'.got[k].n <= client.sent
        /\ \A k \in DOMAIN queue : /\ IsRequest(queue[k]) => writes'[queue[k].n] = 0
                                   /\ \A j \in DOMAIN conn'.got : conn'.got[j].n < queue[k].n
    BY <2>1, <2>2, <2>3, <2>4, <2>5, FirstAlone
  <2>7. DOMAIN conn'.got = {1} /\ conn'.got[1] = x /\ DOMAIN conn'.owed = {1} /\ conn'.owed[1] = x
    BY <2>4
  <2>8. writes'[x.n] <= 1 + (main.attempts + 1)
    <3>1. writes[x.n] <= 1 + main.attempts
      BY <1>1, <1>6, <2>1 DEF SessionInv, WritesInv, Used
    <3>2. writes[x.n] \in Nat /\ writes'[x.n] = writes[x.n] + 1
      BY <1>1, <2>2, <2>4, Types
    <3> QED
      BY <1>1, <3>1, <3>2
  <2>9. ResendBounded'
    <3>1. writes'[x.n] \in Nat
      BY <2>2, <2>4
    <3> QED
      BY <1>1, <2>7, <2>8, <3>1 DEF ResendBounded
  <2>10. \A k \in DOMAIN queue : IsRequest(queue[k]) => tracker.inFlight[queue[k].id] = queue[k]
    BY <1>1 DEF QueueInv
  <2>11. Heard(tracker, {})
    BY HeardNothing
  <2>12. /\ \A k \in DOMAIN conn'.owed :
              /\ conn'.owed[k].id \in Id /\ tracker.inFlight[conn'.owed[k].id] = conn'.owed[k]
              /\ \E j \in DOMAIN conn'.got : conn'.got[j] = conn'.owed[k]
         /\ \A j, k \in DOMAIN conn'.owed : j < k => conn'.owed[j].n < conn'.owed[k].n
    BY <2>1, <2>7
  <2> HIDE DEF x
  <2>13. tracker.kept.what = "call" =>
           writes'[tracker.kept.n] <= 1 + (IF main.after = "resend_kept" THEN main.attempts + 1 ELSE 0)
    BY <1>6, <2>8 DEF x
  <2> QED
    BY <1>1, <1>2, <1>6, <2>3, <2>4, <2>6, <2>9, <2>10, <2>11, <2>12, <2>13, ResumesInv
<1>7. CASE /\ main.after = "nothing" /\ conn' = NewConn(key)
           /\ Resumes(tracker, {}, key, main.attempts + 1) /\ UNCHANGED writes
  <2>1. /\ conn' \in ConnState /\ conn'.key = key /\ conn'.got = <<>> /\ conn'.owed = <<>>
        /\ writes' = writes /\ writes \in [1..MaxLines -> Nat]
    BY <1>1, <1>7, Types DEF NewConn, ConnState
  <2>2. ResendBounded' /\ HandshakeFirst'
    BY <2>1 DEF ResendBounded, HandshakeFirst
  <2>3. \A n \in 1..MaxLines : n > client.sent => writes'[n] = 0
    BY <2>1 DEF SessionInv, WritesInv
  <2>4. \A k \in DOMAIN queue : IsRequest(queue[k]) =>
          tracker.inFlight[queue[k].id] = queue[k] /\ writes'[queue[k].n] = 0
    BY <1>1, <2>1 DEF QueueInv
  <2>5. client.lifecycle = "handshake" => ~tracker.initialised
    BY <1>1, <1>7 DEF RoundInv
  <2>6. tracker.kept.what = "call" => writes[tracker.kept.n] <= 1
    <3>1. tracker.kept.what = "call" => writes[tracker.kept.n] <= 1 + Used
      BY <1>1 DEF SessionInv, WritesInv
    <3>2. Used = 0
      BY <1>1, <1>7 DEF RoundInv, Used
    <3> QED
      BY <3>1, <3>2
  <2>7. tracker.kept.what = "call" =>
          writes'[tracker.kept.n] <= 1 + (IF main.after = "resend_kept" THEN main.attempts + 1 ELSE 0)
    BY <1>7, <2>1, <2>6
  <2>8. DOMAIN conn'.got = {} /\ DOMAIN conn'.owed = {}
    BY <2>1
  <2>9. Heard(tracker, {})
    BY HeardNothing
  <2> QED
    BY <1>1, <1>2, <1>7, <2>1, <2>2, <2>3, <2>4, <2>5, <2>7, <2>8, <2>9, ResumesInv
<1> QED
  BY <1>4, <1>5, <1>6, <1>7 DEF Connect

\* The response to the first line of a round leaves nothing owed.
LEMMA RoundAnswered ==
  ASSUME SessionInv, main.pc = "response", NEW i \in DOMAIN conn.owed, NEW ok \in BOOLEAN
  PROVE  LET c == Answered(i, ok)
             x == IF main.after = "replay_drop" THEN tracker.initialize ELSE tracker.kept
         IN
         /\ i = 1 /\ x \in Line /\ x.what = "initialize" /\ conn.owed[i] = x /\ conn.got = <<x>>
         /\ x.n <= client.sent /\ \A k \in DOMAIN queue : x.n < queue[k].n
         /\ c \in ConnState /\ c.key = conn.key /\ c.got = <<x>> /\ c.owed = <<>>
<1> DEFINE c == Answered(i, ok)
           x == IF main.after = "replay_drop" THEN tracker.initialize ELSE tracker.kept
           b == conn.begun \/ (ok /\ CountsForLifecycle(conn.owed[i]))
           o == RemoveAt(conn.owed, i)
<1>1. /\ ProxyTypeOK /\ TrackerInv /\ RoundInv /\ InRound /\ tracker \in Tracker /\ conn \in ConnState
      /\ main.after \in {"replay_drop", "replay_forward"}
  BY Types DEF SessionInv, InRound, ProxyTypeOK, ConnState, RoundInv
<1>2. conn.got = <<x>> /\ conn.owed = <<x>>
  BY <1>1 DEF RoundInv
<1>3. i = 1 /\ conn.owed[i] = x
  BY <1>2
<1>4. /\ x \in Line /\ x.what = "initialize" /\ x.n <= client.sent
      /\ \A k \in DOMAIN queue : x.n < queue[k].n
  <2>1. tracker.initialize \in LineOrNone /\ tracker.kept \in LineOrNone
    BY <1>1, TrackerFields
  <2>2. CASE main.after = "replay_drop"
    BY <1>1, <2>1, <2>2 DEF RoundInv, TrackerInv, LineOrNone
  <2>3. CASE main.after = "replay_forward"
    <3>1. /\ x = tracker.kept /\ x # NoLine /\ x.what = "initialize"
          /\ \A k \in DOMAIN queue : x.n < queue[k].n
      BY <1>1, <2>3 DEF RoundInv
    <3>2. tracker.kept.id \in Id /\ tracker.inFlight[tracker.kept.id] = tracker.kept
      BY <1>1, <3>1 DEF TrackerInv
    <3> QED
      BY <1>1, <2>1, <3>1, <3>2 DEF TrackerInv, LineOrNone
  <2> QED
    BY <1>1, <2>2, <2>3
<1> HIDE DEF x
<1>5. o = <<>>
  <2>1. conn.owed \in Seq(Line) /\ Len(conn.owed) = 1 /\ i \in 1..Len(conn.owed)
    BY <1>2, <1>3, <1>4
  <2>2. o \in Seq(Line) /\ Len(o) = Len(conn.owed) - 1
    BY <2>1, Removal
  <2> HIDE DEF o
  <2> QED
    BY <2>1, <2>2
<1>6. c = [conn EXCEPT !.owed = o, !.begun = b]
  BY DEF Answered
<1>7. b \in BOOLEAN /\ o \in Seq(Line)
  <2>1. b \in BOOLEAN
    <3>1. conn.begun \in BOOLEAN
      BY <1>1 DEF ConnState
    <3> QED
      BY <3>1
  <2> QED
    BY <1>5, <2>1
<1> HIDE DEF b, o, c
<1>8. c \in ConnState /\ c.key = conn.key /\ c.got = conn.got /\ c.owed = o
  BY <1>1, <1>6, <1>7 DEF ConnState
<1> QED
  BY <1>2, <1>3, <1>4, <1>5, <1>8 DEF c, x

LEMMA ReplayForwarded ==
  ASSUME SessionInv, main.pc = "response", main.after = "replay_forward",
         NEW i \in DOMAIN conn.owed, NEW ok \in BOOLEAN, conn' = Answered(i, ok),
         Resumes(OnDaemonLine(tracker, AnswerTo(i, ok)), {AnswerTo(i, ok)}, conn.key, main.attempts),
         UNCHANGED writes
  PROVE  SessionInv'
<1> DEFINE r == AnswerTo(i, ok)
           t == OnDaemonLine(tracker, r)
           x == tracker.kept
<1>1. /\ ProxyTypeOK /\ TrackerInv /\ LifecycleInv /\ QueueInv /\ InRound
      /\ tracker \in Tracker /\ conn.key \in Key \cup {NoKey} /\ main.attempts \in 0..MaxAttempts
      /\ writes \in [1..MaxLines -> Nat] /\ queue \in Seq(Line)
      /\ tracker.inFlight \in [Id -> LineOrNone]
  BY Types, TrackerFields DEF SessionInv, InRound, ProxyTypeOK
<1>2. /\ i = 1 /\ x \in Line /\ x.what = "initialize" /\ conn.owed[i] = x
      /\ x.n <= client.sent /\ \A k \in DOMAIN queue : x.n < queue[k].n
      /\ conn' \in ConnState /\ conn'.key = conn.key /\ conn'.got = <<x>> /\ conn'.owed = <<>>
  BY RoundAnswered
<1>3. /\ CountsForLifecycle(x) /\ x.id \in Id /\ tracker.inFlight[x.id] = x /\ ~tracker.initialised
      /\ x.n \in 1..MaxLines
  BY <1>1, <1>2, Lines DEF TrackerInv
<1>4. r \in Response /\ r.id = x.id /\ r.n = x.n /\ r.ok = ok
  BY <1>2, <1>3 DEF AnswerTo, Response
<1> HIDE DEF r
<1>5. /\ t \in Tracker /\ t.inFlight = [tracker.inFlight EXCEPT ![r.id] = NoLine]
      /\ x = asked[r.id]
      /\ t.initialised <=> (tracker.initialised \/ (r.ok /\ CountsForLifecycle(x)))
      /\ t.initialize = tracker.initialize /\ t.initialized = tracker.initialized
      /\ t.kept # NoLine =>
           /\ t.kept = tracker.kept /\ ~t.initialised /\ CountsForLifecycle(t.kept)
           /\ t.kept.id \in Id /\ t.kept.id # r.id /\ t.inFlight[t.kept.id] = t.kept
      /\ client.lifecycle = "handshake" =>
           /\ t.initialised => t.initialize # NoLine
           /\ \A j \in Id : ~t.initialised /\ CountsForLifecycle(t.inFlight[j]) =>
                t.inFlight[j].what = "initialize" /\ t.initialize # NoLine
  BY <1>1, <1>3, <1>4, Answering
<1> HIDE DEF t
<1>6. t.kept = NoLine
  BY <1>4, <1>5
<1>7. Heard(t, {r})
  <2>1. \A j \in Id : t.inFlight[j] \in {NoLine, asked[j]}
    BY <1>1, <1>5 DEF TrackerInv
  <2>2. t.inFlight[r.id] = NoLine
    BY <1>1, <1>3, <1>4, <1>5
  <2> QED
    BY <1>1, <1>4, <1>5, <2>1, <2>2 DEF Heard
<1>8. DOMAIN conn'.got = {1} /\ conn'.got[1] = x /\ DOMAIN conn'.owed = {}
  BY <1>2
<1>9. ResendBounded' /\ HandshakeFirst'
  BY <1>2, <1>8 DEF ResendBounded, HandshakeFirst
<1>10. \A n \in 1..MaxLines : n > client.sent => writes'[n] = 0
  BY DEF SessionInv, WritesInv
<1>11. \A k \in DOMAIN queue : IsRequest(queue[k]) =>
         t.inFlight[queue[k].id] = queue[k] /\ writes'[queue[k].n] = 0
  <2> TAKE k \in DOMAIN queue
  <2> HAVE IsRequest(queue[k])
  <2>1. /\ queue[k].id \in Id /\ tracker.inFlight[queue[k].id] = queue[k] /\ writes[queue[k].n] = 0
    BY <1>1 DEF QueueInv
  <2>2. queue[k].n > x.n /\ queue[k] \in Line /\ queue[k].n \in Nat /\ x.n \in Nat
    BY <1>1, <1>2, Lines
  <2>3. queue[k].id # r.id
    BY <1>3, <1>4, <2>1, <2>2
  <2> QED
    BY <1>1, <1>4, <1>5, <2>1, <2>3
<1>12. \A k \in DOMAIN queue : \A j \in DOMAIN conn'.got :
         IsRequest(conn'.got[j]) => conn'.got[j].n < queue[k].n
  BY <1>2, <1>8
<1>13. \A k \in DOMAIN conn'.got : conn'.got[k].n <= client.sent
  BY <1>2, <1>8
<1>14. \E j \in DOMAIN conn'.got : conn'.got[j].what = "initialize"
  BY <1>2, <1>8
<1>15. t.kept.what # "call"
  BY <1>6, Lines
<1>16. Resumes(t, {r}, conn.key, main.attempts)
  BY DEF t, r
<1>17. writes' \in [1..MaxLines -> Nat]
  BY <1>1
<1> QED
  BY <1>1, <1>2, <1>7, <1>8, <1>9, <1>10, <1>11, <1>12, <1>13, <1>14, <1>15, <1>16, <1>17, ResumesInv

LEMMA ReplayDropped ==
  ASSUME SessionInv, main.pc = "response", main.after = "replay_drop",
         NEW i \in DOMAIN conn.owed, NEW ok \in BOOLEAN,
         Resumes(tracker, {}, conn.key, main.attempts),
         IF main.cached = NoLine
         THEN conn' = Answered(i, ok) /\ UNCHANGED writes
         ELSE /\ conn' = Receives(Answered(i, ok), main.cached)
              /\ writes' = [writes EXCEPT ![main.cached.n] = @ + 1]
  PROVE  SessionInv'
<1> DEFINE x == tracker.initialize
           y == main.cached
           c == Answered(i, ok)
<1>1. /\ ProxyTypeOK /\ TrackerInv /\ RoundInv /\ QueueInv /\ InRound
      /\ tracker \in Tracker /\ conn.key \in Key \cup {NoKey} /\ main.attempts \in 0..MaxAttempts
      /\ writes \in [1..MaxLines -> Nat] /\ queue \in Seq(Line) /\ y \in LineOrNone
      /\ client.sent \in Nat
  BY Types DEF SessionInv, InRound, ProxyTypeOK
<1>2. /\ x \in Line /\ x.what = "initialize" /\ x.n <= client.sent
      /\ \A k \in DOMAIN queue : x.n < queue[k].n
      /\ c \in ConnState /\ c.key = conn.key /\ c.got = <<x>> /\ c.owed = <<>>
  BY RoundAnswered
<1> HIDE DEF c
<1>3. tracker.initialised /\ tracker.kept = NoLine
  BY <1>1 DEF RoundInv, TrackerInv
<1>4. y # NoLine => /\ y \in Line /\ y.n \in 1..MaxLines /\ y.what = "initialized" /\ y.n <= client.sent
                    /\ ~IsRequest(y)
                    /\ \A k \in DOMAIN queue : IsRequest(queue[k]) => queue[k].n # y.n
  BY <1>1, Lines DEF RoundInv, LineOrNone, IsRequest, Request
<1>5. /\ conn' \in ConnState /\ conn'.key = conn.key /\ conn'.owed = <<>>
      /\ conn'.got = <<x>> \/ (y # NoLine /\ conn'.got = Append(<<x>>, y))
  <2>1. CASE y = NoLine
    BY <1>2, <2>1 DEF c
  <2>2. CASE y # NoLine
    <3>1. Append(<<x>>, y) \in Seq(Line)
      BY <1>2, <1>4, <2>2
    <3>2. conn' = [c EXCEPT !.got = Append(<<x>>, y), !.owed = c.owed]
      BY <1>2, <1>4, <2>2, <3>1 DEF Receives, c
    <3> QED
      BY <1>2, <2>2, <3>1, <3>2 DEF ConnState
  <2> QED
    BY <2>1, <2>2
<1>6. /\ conn'.got[1] = x /\ 1 \in DOMAIN conn'.got /\ DOMAIN conn'.owed = {}
      /\ \A k \in DOMAIN conn'.got : k = 1 \/ (k = 2 /\ y # NoLine /\ conn'.got[k] = y)
  <2>1. CASE conn'.got = <<x>>
    BY <1>5, <2>1
  <2>2. CASE y # NoLine /\ conn'.got = Append(<<x>>, y)
    <3>1. <<x>> \in Seq(Line) /\ Len(<<x>>) = 1 /\ <<x>>[1] = x /\ y \in Line
      BY <1>2, <1>4, <2>2
    <3>2. /\ Len(conn'.got) = 2 /\ conn'.got[1] = x /\ conn'.got[2] = y
          /\ DOMAIN conn'.got = 1..Len(conn'.got)
      BY <2>2, <3>1, AppendProperties
    <3> QED
      BY <1>5, <2>2, <3>2
  <2> QED
    BY <1>5, <2>1, <2>2
<1>7. ResendBounded'
  BY <1>2, <1>4, <1>6 DEF ResendBounded
<1>8. HandshakeFirst'
  <2>1. \A k \in DOMAIN conn'.got : IsRequest(conn'.got[k]) => k = 1
    BY <1>4, <1>6
  <2>2. ASSUME NEW k \in DOMAIN conn'.got, conn'.got[k].what \in {"call", "initialized"}
        PROVE  \E j \in 1..k - 1 : conn'.got[j].what = "initialize"
    <3>1. k = 2
      BY <1>2, <1>6, <2>2
    <3>2. 1 \in 1..k - 1
      BY <3>1
    <3> QED
      BY <1>2, <1>6, <3>2
  <2>3. \A k, j \in DOMAIN conn'.got :
          ~(k < j /\ IsRequest(conn'.got[k]) /\ IsRequest(conn'.got[j]))
    <3>1. ~(1 < 1)
      OBVIOUS
    <3> QED
      BY <2>1, <3>1
  <2> QED
    BY <2>2, <2>3 DEF HandshakeFirst
<1>9. writes' \in [1..MaxLines -> Nat] /\ \A n \in 1..MaxLines : writes'[n] = writes[n] \/ (y # NoLine /\ n = y.n)
  <2>1. CASE y = NoLine
    BY <1>1, <2>1
  <2>2. CASE y # NoLine
    BY <1>1, <1>4, <2>2
  <2> QED
    BY <2>1, <2>2
<1>10. \A n \in 1..MaxLines : n > client.sent => writes'[n] = 0
  <2>1. \A n \in 1..MaxLines : n > client.sent => writes[n] = 0
    BY DEF SessionInv, WritesInv
  <2> QED
    BY <1>1, <1>4, <1>9, <2>1
<1>11. \A k \in DOMAIN queue : IsRequest(queue[k]) =>
         tracker.inFlight[queue[k].id] = queue[k] /\ writes'[queue[k].n] = 0
  <2> TAKE k \in DOMAIN queue
  <2> HAVE IsRequest(queue[k])
  <2>1. queue[k].n \in 1..MaxLines /\ tracker.inFlight[queue[k].id] = queue[k] /\ writes[queue[k].n] = 0
    BY <1>1, Lines DEF QueueInv
  <2> QED
    BY <1>4, <1>9, <2>1
<1>12. \A k \in DOMAIN queue : \A j \in DOMAIN conn'.got :
         IsRequest(conn'.got[j]) => conn'.got[j].n < queue[k].n
  BY <1>2, <1>4, <1>6
<1>13. \A k \in DOMAIN conn'.got : conn'.got[k].n <= client.sent
  BY <1>2, <1>4, <1>6
<1>14. \E j \in DOMAIN conn'.got : conn'.got[j].what = "initialize"
  BY <1>2, <1>6
<1>15. tracker.kept.what # "call" /\ Heard(tracker, {})
  BY <1>3, Lines, HeardNothing
<1> QED
  BY <1>1, <1>5, <1>6, <1>7, <1>8, <1>9, <1>10, <1>11, <1>12, <1>13, <1>14, <1>15, ResumesInv

LEMMA ReplayAnsweredInv ==
  ASSUME SessionInv, NEW ok \in BOOLEAN, ReplayAnswered(ok)
  PROVE  SessionInv'
<1>1. main.pc = "response" /\ InRound
  BY DEF ReplayAnswered, InRound
<1>2. PICK i \in DOMAIN conn.owed :
        \/ /\ main.after = "replay_forward"
           /\ conn' = Answered(i, ok)
           /\ Resumes(OnDaemonLine(tracker, AnswerTo(i, ok)), {AnswerTo(i, ok)},
                      conn.key, main.attempts)
           /\ UNCHANGED writes
        \/ /\ main.after = "replay_drop" /\ ok
           /\ Resumes(tracker, {}, conn.key, main.attempts)
           /\ IF main.cached = NoLine
              THEN conn' = Answered(i, ok) /\ UNCHANGED writes
              ELSE /\ conn' = Receives(Answered(i, ok), main.cached)
                   /\ writes' = [writes EXCEPT ![main.cached.n] = @ + 1]
        \/ /\ main.after = "replay_drop" /\ ~ok
           /\ conn' = NoConn
           /\ AttemptFailed(TRUE, main.attempts)
           /\ UNCHANGED writes
  BY DEF ReplayAnswered
<1>3. CASE main.after = "replay_forward"
  BY <1>1, <1>2, <1>3, ReplayForwarded
<1>4. CASE main.after = "replay_drop" /\ ok
  BY <1>1, <1>2, <1>4, ReplayDropped
<1>5. CASE main.after = "replay_drop" /\ ~ok
  <2>1. main.attempts \in 0..MaxAttempts /\ main.attempts <= main.attempts /\ TRUE \in BOOLEAN
    BY BoundsAssumption DEF SessionInv, ProxyTypeOK
  <2> QED
    BY <1>1, <1>2, <1>5, <2>1, AttemptFailedInv
<1> QED
  BY <1>2, <1>3, <1>4, <1>5

-----------------------------------------------------------------------------
(* The invariant *)

LEMMA SessionInit ==
  ASSUME ProxyInit
  PROVE  SessionInv
<1>1. NewTracker \in Tracker
  <2>1. NoLine \in LineOrNone /\ [i \in Id |-> NoLine] \in [Id -> LineOrNone]
    BY DEF LineOrNone
  <2> QED
    BY <2>1 DEF NewTracker, Tracker, LineOrNone
<1>2. /\ \A i \in Id : tracker.inFlight[i] = NoLine /\ asked[i] = NoLine
      /\ tracker.kept = NoLine /\ tracker.initialize = NoLine /\ tracker.initialized = NoLine
      /\ tracker.initialised = FALSE /\ client.ready = FALSE /\ client.sent = 0
      /\ queue = <<>> /\ conn = NoConn /\ conn.got = <<>> /\ pump.pc = "off"
      /\ main.pc = "attempt" /\ main.after = "nothing" /\ main.exit = "no" /\ main.attempts = 0
      /\ pending = [n |-> 0, used |-> 0] /\ unexpected = {}
      /\ writes = [n \in 1..MaxLines |-> 0]
  BY DEF ProxyInit, NewTracker, NoConn
<1>3. ProxyTypeOK
  <2>1. /\ asked \in [Id -> LineOrNone] /\ tracker \in Tracker
        /\ client \in ClientState /\ conn \in ConnState /\ main \in MainState
    BY <1>1, BoundsAssumption
       DEF ProxyInit, LineOrNone, ClientState, ConnState, NoConn, MainState, MainPC, After
  <2>2. unexpected \subseteq Response /\ queue \in Seq(Line)
    BY <1>2
  <2>3. notified \in BOOLEAN
    BY DEF ProxyInit
  <2>4. writes \in [1..MaxLines -> Nat]
    BY <1>2
  <2>5. pending \in [n : 0..MaxLines, used : 0..MaxAttempts]
    <3>1. 0 \in 0..MaxLines /\ 0 \in 0..MaxAttempts
      BY BoundsAssumption
    <3> QED
      BY <1>2, <3>1
  <2>6. /\ lossState \in [initialised : BOOLEAN, key : Key \cup {NoKey}]
        /\ pump \in [pc : {"off", "read", "held", "taken", "sent", "ended"},
                     line : Response \cup {NoResponse}]
    BY DEF ProxyInit
  <2> QED
    BY <2>1, <2>2, <2>3, <2>4, <2>5, <2>6
       DEF ProxyTypeOK, LineOrNone, ClientState, ConnState, MainState
<1>4. TrackerInv /\ LifecycleInv
  BY <1>2, Lines DEF TrackerInv, LifecycleInv
<1>5. RoundInv
  BY <1>2, BoundsAssumption DEF RoundInv, InRound
<1>6. QueueInv /\ OwedInv /\ PumpInv
  BY <1>2 DEF QueueInv, OwedInv, PumpInv, Connected
<1>7. WritesInv /\ EveryAnswerAwaited /\ ResendBounded /\ NeverExitsOnceReady /\ HandshakeFirst
  BY <1>2, Lines DEF WritesInv, EveryAnswerAwaited, ResendBounded, NeverExitsOnceReady, HandshakeFirst
<1> QED
  BY <1>2, <1>3, <1>4, <1>5, <1>6, <1>7 DEF SessionInv

LEMMA SessionStep ==
  ASSUME SessionInv, [ProxyNext]_vars
  PROVE  SessionInv'
<1>1. CASE ClientStep
  BY <1>1, ForwardInv, AwaitRequestInv, QueueLineInv, EofInv DEF ClientStep
<1>2. CASE LoopStep
  BY <1>2, FlushQueueInv, ForwardLostInv, OnLossInv, DrainInv DEF LoopStep
<1>3. CASE RoundStep
  BY <1>3, ConnectInv, ConnectFailsInv, ReplayFailsInv, ReplayAnsweredInv DEF RoundStep
<1>4. CASE PumpStep
  BY <1>4, PumpReadInv, PumpMovesInv, PumpTakeInv, PumpSendInv DEF PumpStep
<1>5. CASE UNCHANGED vars
  BY <1>5 DEF vars, clientVars, loopVars, daemonVars, SessionInv, ProxyTypeOK, TrackerInv,
     LifecycleInv, RoundInv, QueueInv, OwedInv, PumpInv, WritesInv, Used, Connected, InRound, Alive,
     EveryAnswerAwaited, ResendBounded, NeverExitsOnceReady, HandshakeFirst
<1> QED
  BY <1>1, <1>2, <1>3, <1>4, <1>5, PumpMovesInv, DrainInv DEF ProxyNext

(***************************************************************************)
(* The tracker, the queue, the connection and the pump agree, in every     *)
(* interleaving, on who waits for which answer and whether the session has *)
(* begun (run_proxy, on_daemon_loss, reconnect_round).                     *)
(***************************************************************************)
THEOREM SessionInvariantHolds == ProxySpec => []SessionInv
<1>1. ProxyInit => SessionInv
  BY SessionInit
<1>2. SessionInv /\ [ProxyNext]_vars => SessionInv'
  BY SessionStep
<1> QED
  BY <1>1, <1>2, PTL DEF ProxySpec

(***************************************************************************)
(* The client gets no answer that it does not wait for, whatever the pump  *)
(* held when the connection was lost (on_daemon_loss).                     *)
(***************************************************************************)
THEOREM AnswersAwaited == ProxySpec => []EveryAnswerAwaited
<1>1. SessionInv => EveryAnswerAwaited
  BY DEF SessionInv
<1> QED
  BY <1>1, SessionInvariantHolds, PTL

\* A call reaches at most MAX_ATTEMPTS + 1 connections (attempts_carried).
THEOREM ResendsBounded == ProxySpec => []ResendBounded
<1>1. SessionInv => ResendBounded
  BY DEF SessionInv
<1> QED
  BY <1>1, SessionInvariantHolds, PTL

\* A proxy whose client has seen its session begin does not fail (round_failed, on_daemon_loss).
THEOREM ReadySessionsSurvive == ProxySpec => []NeverExitsOnceReady
<1>1. SessionInv => NeverExitsOnceReady
  BY DEF SessionInv
<1> QED
  BY <1>1, SessionInvariantHolds, PTL

\* Every connection sees initialize first and requests in the client's order (reconnect_round).
THEOREM HandshakesComeFirst == ProxySpec => []HandshakeFirst
<1>1. SessionInv => HandshakeFirst
  BY DEF SessionInv
<1> QED
  BY <1>1, SessionInvariantHolds, PTL

\* A begun session knows the tools of the daemon its lines go to (announce_key).
THEOREM KeysAnnounced == ProxySpec => []KeyAnnounced
<1>1. SessionInv => KeyAnnounced
  BY DEF SessionInv, OwedInv, Connected, KeyAnnounced
<1> QED
  BY <1>1, SessionInvariantHolds, PTL

-----------------------------------------------------------------------------
(* What a write sends *)

\* A step writes nothing, or one line: the last the connection got and the only call there
\* with its number, which its client waits for and which is new unless the session has not begun.
Written ==
  \/ UNCHANGED writes
  \/ \E x \in Line :
       /\ writes' = [writes EXCEPT ![x.n] = @ + 1]
       /\ conn'.got[Len(conn'.got)] = x
       /\ \A i \in DOMAIN conn'.got :
            conn'.got[i].what = "call" /\ conn'.got[i].n = x.n => conn'.got[i] = x
       /\ x.what = "call" => /\ \E j \in Id : asked'[j] = x
                             /\ writes[x.n] = 0 \/ ~client.ready

LEMMA WrittenAppended ==
  ASSUME ProxyTypeOK, NEW x \in Line, Write(x),
         \A i \in DOMAIN conn.got : conn.got[i].what = "call" => conn.got[i].n < x.n,
         x.what = "call" => (\E j \in Id : asked'[j] = x) /\ writes[x.n] = 0
  PROVE  Written
<1>1. CASE UNCHANGED writes
  BY <1>1 DEF Written
<1>2. CASE conn'.got = Append(conn.got, x) /\ writes' = [writes EXCEPT ![x.n] = @ + 1]
  <2>1. conn.got \in Seq(Line) /\ x.n \in Nat
    BY Types, Lines
  <2>2. /\ conn'.got \in Seq(Line) /\ Len(conn'.got) = Len(conn.got) + 1
        /\ conn'.got[Len(conn'.got)] = x
        /\ \A i \in DOMAIN conn'.got : conn'.got[i] = x \/ (i \in DOMAIN conn.got /\ conn'.got[i] = conn.got[i])
    BY <1>2, <2>1
  <2>3. \A i \in DOMAIN conn'.got :
          conn'.got[i].what = "call" /\ conn'.got[i].n = x.n => conn'.got[i] = x
    BY <2>1, <2>2
  <2> QED
    BY <1>2, <2>2, <2>3 DEF Written
<1> QED
  BY <1>1, <1>2, WriteFacts

LEMMA WrittenAlone ==
  ASSUME NEW x \in Line, conn'.got = <<x>>, writes' = [writes EXCEPT ![x.n] = @ + 1],
         x.what = "call" => (\E j \in Id : asked'[j] = x) /\ ~client.ready
  PROVE  Written
<1>1. conn'.got[1] = x /\ Len(conn'.got) = 1 /\ DOMAIN conn'.got = {1}
  OBVIOUS
<1>2. conn'.got[Len(conn'.got)] = x /\ \A i \in DOMAIN conn'.got : conn'.got[i] = x
  BY <1>1
<1> QED
  BY <1>2 DEF Written

LEMMA FlushWrites ==
  ASSUME SessionInv, FlushQueue
  PROVE  Written
<1>1. CASE UNCHANGED daemonVars
  BY <1>1 DEF daemonVars, Written
<1>2. CASE queue # <<>> /\ Write(Head(queue))
  <2> DEFINE x == Head(queue)
  <2>1. /\ ProxyTypeOK /\ queue \in Seq(Line) /\ TrackerInv /\ UNCHANGED asked /\ conn.got \in Seq(Line)
    BY Types DEF SessionInv, FlushQueue, clientVars
  <2>2. x \in Line /\ 1 \in DOMAIN queue /\ x = queue[1]
    BY <1>2, <2>1
  <2> HIDE DEF x
  <2>3. /\ IsRequest(x) => x.id \in Id /\ tracker.inFlight[x.id] = x /\ writes[x.n] = 0
        /\ \A j \in DOMAIN conn.got : IsRequest(conn.got[j]) => conn.got[j].n < x.n
    BY <2>2 DEF SessionInv, QueueInv
  <2>4. x.what = "call" => (\E j \in Id : asked'[j] = x) /\ writes[x.n] = 0
    <3>1. x # NoLine /\ (x.what = "call" => IsRequest(x))
      BY <2>2, Lines DEF IsRequest, Request
    <3> QED
      BY <2>1, <2>3, <3>1 DEF TrackerInv
  <2>5. \A i \in DOMAIN conn.got : conn.got[i].what = "call" => conn.got[i].n < x.n
    BY <2>3 DEF IsRequest, Request
  <2> QED
    BY <1>2, <2>1, <2>2, <2>4, <2>5, WrittenAppended DEF x
<1> QED
  BY <1>1, <1>2 DEF FlushQueue

LEMMA ForwardWrites ==
  ASSUME SessionInv, NEW x \in NextLine, Forward(x)
  PROVE  Written
<1>1. CASE UNCHANGED daemonVars
  BY <1>1 DEF daemonVars, Written
<1>2. CASE Write(x)
  <2>1. Says(x) /\ ProxyTypeOK /\ asked \in [Id -> LineOrNone]
    BY Types DEF Forward, SessionInv
  <2>2. x \in Line /\ writes[x.n] = 0 /\ \A j \in DOMAIN conn.got : conn.got[j].n < x.n
    BY <2>1, NewLine
  <2>3. x.what = "call" => \E j \in Id : asked'[j] = x
    <3>1. IsRequest(x) => x.id \in Id /\ asked' = [asked EXCEPT ![x.id] = x]
      BY <2>1, SaysFacts
    <3> QED
      BY <2>1, <3>1 DEF IsRequest, Request
  <2> QED
    BY <1>2, <2>1, <2>2, <2>3, WrittenAppended
<1> QED
  BY <1>1, <1>2 DEF Forward

LEMMA RoundWrites ==
  ASSUME SessionInv, SessionInv', RoundStep
  PROVE  Written
<1>1. /\ ProxyTypeOK /\ TrackerInv /\ TrackerInv' /\ tracker \in Tracker
      /\ tracker.kept \in LineOrNone /\ tracker.initialize \in LineOrNone
      /\ client.ready => tracker.initialised
  BY Types, TrackerFields DEF SessionInv, LifecycleInv
<1>2. ASSUME NEW key \in Key, Connect(key)
      PROVE  Written
  <2>1. CASE main.after = "nothing"
    BY <1>2, <2>1 DEF Connect, Written
  <2>2. CASE main.after \in {"replay_drop", "replay_forward"}
    <3> DEFINE x == IF main.after = "replay_drop" THEN tracker.initialize ELSE tracker.kept
    <3>1. x # NoLine /\ x.what = "initialize" /\ WriteFirst(key, x)
      <4>1. RoundInv /\ InRound
        BY <1>2 DEF SessionInv, Connect, InRound
      <4> QED
        BY <1>1, <1>2, <2>2, <4>1 DEF RoundInv, TrackerInv, Connect
    <3>2. x \in Line /\ IsRequest(x)
      BY <1>1, <3>1 DEF LineOrNone, IsRequest, Request
    <3> HIDE DEF x
    <3>3. conn'.got = <<x>> /\ writes' = [writes EXCEPT ![x.n] = @ + 1]
      BY <1>1, <3>1, <3>2, FirstWritten
    <3> QED
      BY <3>1, <3>2, <3>3, WrittenAlone
  <2>3. CASE main.after = "resend_kept"
    <3> DEFINE x == tracker.kept
    <3>1. /\ x # NoLine /\ CountsForLifecycle(x) /\ ~tracker.initialised /\ x.id \in Id
          /\ tracker.inFlight[x.id] = x /\ WriteFirst(key, x) /\ tracker' = SetLink(tracker, "up")
      <4>1. RoundInv /\ InRound
        BY <1>2 DEF SessionInv, Connect, InRound
      <4> QED
        BY <1>1, <1>2, <2>3, <4>1 DEF RoundInv, TrackerInv, Connect, Resumes
    <3>2. x \in Line /\ IsRequest(x)
      BY <1>1, <3>1, Kinds DEF LineOrNone
    <3>3. tracker'.inFlight = tracker.inFlight
      BY <1>1, <3>1, SetLinkFields
    <3>4. asked'[x.id] = x
      BY <1>1, <3>1, <3>3 DEF TrackerInv
    <3> HIDE DEF x
    <3>5. conn'.got = <<x>> /\ writes' = [writes EXCEPT ![x.n] = @ + 1]
      BY <1>1, <3>1, <3>2, FirstWritten
    <3> QED
      BY <1>1, <3>1, <3>2, <3>4, <3>5, WrittenAlone
  <2> QED
    BY <1>2, <2>1, <2>2, <2>3 DEF Connect
<1>3. ASSUME NEW ok \in BOOLEAN, ReplayAnswered(ok), ~UNCHANGED writes
      PROVE  Written
  <2>1. PICK i \in DOMAIN conn.owed :
          /\ main.pc = "response" /\ main.after = "replay_drop" /\ main.cached # NoLine
          /\ conn' = Receives(Answered(i, ok), main.cached)
          /\ writes' = [writes EXCEPT ![main.cached.n] = @ + 1]
    BY <1>3 DEF ReplayAnswered
  <2> DEFINE x == tracker.initialize
             y == main.cached
             c == Answered(i, ok)
  <2>2. x \in Line /\ x.what = "initialize" /\ c \in ConnState /\ c.got = <<x>>
    BY <2>1, RoundAnswered
  <2> HIDE DEF c, x
  <2>3. y \in Line /\ y.what = "initialized"
    BY <1>1, <2>1, Types DEF SessionInv, RoundInv, LineOrNone
  <2>4. conn'.got = Append(<<x>>, y)
    BY <2>1, <2>2 DEF Receives, ConnState, c
  <2> HIDE DEF y
  <2>5. /\ conn'.got[Len(conn'.got)] = y
        /\ \A k \in DOMAIN conn'.got : conn'.got[k] = x \/ conn'.got[k] = y
    BY <2>2, <2>3, <2>4
  <2>6. \A k \in DOMAIN conn'.got : conn'.got[k].what # "call"
    BY <2>2, <2>3, <2>5
  <2>7. writes' = [writes EXCEPT ![y.n] = @ + 1]
    BY <2>1 DEF y
  <2> QED
    BY <2>3, <2>5, <2>6, <2>7 DEF Written
<1>4. CASE ConnectFails \/ ReplayFails
  BY <1>4 DEF ConnectFails, ReplayFails, daemonVars, Written
<1> QED
  BY <1>2, <1>3, <1>4 DEF RoundStep, Written

LEMMA StepWrites ==
  ASSUME SessionInv, SessionInv', [ProxyNext]_vars
  PROVE  Written
<1>1. CASE ClientStep
  <2>1. ASSUME NEW x \in NextLine, AwaitRequest(x) \/ QueueLine(x)
        PROVE  UNCHANGED writes
    BY <2>1 DEF AwaitRequest, QueueLine, daemonVars
  <2>2. Eof => UNCHANGED writes
    BY DEF Eof, daemonVars
  <2> QED
    BY <1>1, <2>1, <2>2, ForwardWrites DEF ClientStep, Written
<1>2. CASE LoopStep
  <2>1. ForwardLost \/ OnLoss => UNCHANGED writes
    BY DEF ForwardLost, OnLoss, daemonVars
  <2>2. DrainListen \/ DrainCheck \/ DrainAwait \/ DrainWake \/ DrainLost => UNCHANGED writes
    BY DEF DrainListen, DrainCheck, DrainAwait, DrainWake, DrainLost, drainRest, daemonVars
  <2> QED
    BY <1>2, <2>1, <2>2, FlushWrites DEF LoopStep, Written
<1>3. CASE RoundStep
  BY <1>3, RoundWrites
<1>4. CASE PumpStep \/ DaemonClose \/ DrainGivesUp \/ UNCHANGED vars
  BY <1>4 DEF PumpStep, PumpRead, PumpEof, PumpTake, PumpSend, PumpNotify, DaemonClose, DrainGivesUp,
     drainRest, daemonVars, vars, Written
<1> QED
  BY <1>1, <1>2, <1>3, <1>4 DEF ProxyNext

LEMMA Greater ==
  ASSUME writes \in [1..MaxLines -> Nat], NEW n \in 1..MaxLines, writes'[n] > writes[n]
  PROVE  ~UNCHANGED writes
<1>1. writes[n] \in Nat
  OBVIOUS
<1>2. \A m \in Nat : ~(m > m)
  OBVIOUS
<1>3. ~(writes[n] > writes[n])
  BY <1>1, <1>2
<1> QED
  BY <1>3

LEMMA Rises ==
  ASSUME SessionInv, NEW x \in Line, writes' = [writes EXCEPT ![x.n] = @ + 1]
  PROVE  /\ x.n \in 1..MaxLines /\ writes \in [1..MaxLines -> Nat]
         /\ \A n \in 1..MaxLines : writes'[n] > writes[n] => n = x.n
<1>1. x.n \in 1..MaxLines /\ writes \in [1..MaxLines -> Nat]
  BY Types, Lines DEF SessionInv
<1> QED
  BY <1>1

(***************************************************************************)
(* No connection gets a call that its client has an answer to: what a lost *)
(* connection or a failed round answered has left the queue (on_loss,      *)
(* round_failed).                                                          *)
(***************************************************************************)
THEOREM CallsAwaited == ProxySpec => WritesAwaited
<1> DEFINE A == \A i \in DOMAIN conn'.got :
                  /\ conn'.got[i].what = "call"
                  /\ writes'[conn'.got[i].n] > writes[conn'.got[i].n]
                  => \E j \in Id : asked'[j] = conn'.got[i]
<1>1. SessionInv /\ SessionInv' /\ [ProxyNext]_vars => [A]_vars
  <2> SUFFICES ASSUME SessionInv, SessionInv', [ProxyNext]_vars,
                      NEW i \in DOMAIN conn'.got, conn'.got[i].what = "call",
                      writes'[conn'.got[i].n] > writes[conn'.got[i].n]
               PROVE  \E j \in Id : asked'[j] = conn'.got[i]
    OBVIOUS
  <2>1. conn'.got[i] \in Line /\ conn'.got[i].n \in 1..MaxLines
    <3>1. conn'.got \in Seq(Line)
      BY DEF SessionInv, ProxyTypeOK
    <3> QED
      BY <3>1, Lines
  <2>2. writes \in [1..MaxLines -> Nat]
    BY Types DEF SessionInv
  <2>3. ~UNCHANGED writes
    BY <2>1, <2>2, Greater
  <2>4. PICK x \in Line :
          /\ writes' = [writes EXCEPT ![x.n] = @ + 1]
          /\ \A k \in DOMAIN conn'.got :
               conn'.got[k].what = "call" /\ conn'.got[k].n = x.n => conn'.got[k] = x
          /\ x.what = "call" => \E j \in Id : asked'[j] = x
    BY <2>3, StepWrites DEF Written
  <2>5. conn'.got[i].n = x.n
    BY <2>1, <2>4, Rises
  <2> QED
    BY <2>4, <2>5
<1> QED
  BY <1>1, SessionInvariantHolds, PTL DEF ProxySpec, WritesAwaited

(***************************************************************************)
(* A call that was written before is written again only while its client's *)
(* session has not begun: no call that may have committed is repeated      *)
(* (on_daemon_loss).                                                       *)
(***************************************************************************)
THEOREM ResendsOnlyTheFirst == ProxySpec => ResentOnlyBeforeReady
<1> DEFINE A == \A n \in 1..MaxLines :
                  /\ writes'[n] > writes[n] /\ writes[n] > 0
                  /\ conn'.got[Len(conn'.got)].what = "call"
                  => ~client.ready
<1>1. SessionInv /\ SessionInv' /\ [ProxyNext]_vars => [A]_vars
  <2> SUFFICES ASSUME SessionInv, SessionInv', [ProxyNext]_vars,
                      NEW n \in 1..MaxLines, writes'[n] > writes[n], writes[n] > 0,
                      conn'.got[Len(conn'.got)].what = "call"
               PROVE  ~client.ready
    OBVIOUS
  <2>1. writes \in [1..MaxLines -> Nat]
    BY Types DEF SessionInv
  <2>2. ~UNCHANGED writes
    BY <2>1, Greater
  <2>3. PICK x \in Line :
          /\ writes' = [writes EXCEPT ![x.n] = @ + 1]
          /\ conn'.got[Len(conn'.got)] = x
          /\ x.what = "call" => writes[x.n] = 0 \/ ~client.ready
    BY <2>2, StepWrites DEF Written
  <2>4. n = x.n
    BY <2>3, Rises
  <2> QED
    BY <2>1, <2>3, <2>4
<1> QED
  BY <1>1, SessionInvariantHolds, PTL DEF ProxySpec, ResentOnlyBeforeReady
=============================================================================
