---------------------------- MODULE ProxySession ----------------------------
(***************************************************************************)
(* One ferrex proxy between an MCP client (stdin, stdout) and the shared   *)
(* daemon (a socket that may close at any time): the tracker of in-flight  *)
(* requests, the task that pumps daemon lines to stdout, the loss of a     *)
(* connection, the reconnection rounds with their replayed handshake or    *)
(* re-sent first request, and the drain when stdin closes.                 *)
(*                                                                         *)
(* A client line is read from stdin in the step that sends it: a line that *)
(* waits in the channel has no effect, and the client could have sent it   *)
(* later.  Ids may be used again once answered; n numbers the lines.       *)
(***************************************************************************)
EXTENDS Naturals, Sequences, SequencesExt

CONSTANTS
    Id,             \* JSON-RPC request ids
    Key,            \* daemon keys: executable and configuration
    MaxLines,       \* bound: lines the client sends
    MaxAttempts     \* attempts of a round (MAX_ATTEMPTS)

ASSUME BoundsAssumption == MaxLines \in Nat \ {0} /\ MaxAttempts \in Nat \ {0}

VARIABLES
    client,     \* lifecycle, lines sent, stdin closed, has seen a result, last known key
    asked,      \* the client's request under each id that it has no answer to
    unexpected, \* history: answers the client was not waiting for
    tracker,    \* Tracker
    main,       \* where the main loop is, and what the round it runs does
    queue,      \* lines to write once connected
    pending,    \* ResendPending: line and attempts used, if any
    lossState,  \* initialised_at_loss and last_key
    pump,       \* the pump task and the daemon line in its hands
    conn,       \* the daemon's end of the connection
    notified,   \* whether the drain's Notified has been woken
    writes      \* history: connections each line was written to

daemonVars == <<conn, writes>>
clientVars == <<client, asked, unexpected>>
loopVars == <<main, queue, pending, lossState>>
vars == <<clientVars, tracker, loopVars, pump, daemonVars, notified>>

NoId == "none"
NoLine == [n |-> 0, what |-> "none", id |-> NoId]
NoKey == "none"
NoResponse == [id |-> NoId, n |-> 0, ok |-> FALSE]

ASSUME NoIdAssumption == NoId \notin Id

Request == {"initialize", "call", "ping"}
Line == [n : 1..MaxLines, what : Request \cup {"initialized"}, id : Id \cup {NoId}]
Response == [id : Id, n : 1..MaxLines, ok : BOOLEAN]
IsRequest(line) == line.what \in Request
CountsForLifecycle(line) == line.what \in {"initialize", "call"}

After == {"replay_drop", "replay_forward", "resend_kept", "nothing"}
MainPC == {"attempt", "response", "flush", "forward", "loss", "disconnected",
           "drain", "drain_check", "drain_await", "drain_wait", "exited"}
Alive == main.pc # "exited"
InRound == main.pc \in {"attempt", "response"}

Tracker ==
    [inFlight : [Id -> Line \cup {NoLine}], initialised : BOOLEAN,
     initialize : Line \cup {NoLine}, initialized : Line \cup {NoLine}, kept : Line \cup {NoLine},
     link : {"up", "down", "reconnecting"}, replayStarted : BOOLEAN]

ProxyTypeOK ==
    /\ client \in [lifecycle : {"handshake", "inline"}, sent : 0..MaxLines, eof : BOOLEAN,
                   ready : BOOLEAN, told : BOOLEAN, key : Key \cup {NoKey}]
    /\ asked \in [Id -> Line \cup {NoLine}]
    /\ unexpected \subseteq Response
    /\ tracker \in Tracker
    /\ main \in [pc : MainPC, after : After, attempts : 0..MaxAttempts,
                 cached : Line \cup {NoLine}, exit : {"no", "eof", "answered", "failed"}]
    /\ queue \in Seq(Line)
    /\ pending \in [n : 0..MaxLines, used : 0..MaxAttempts]
    /\ lossState \in [initialised : BOOLEAN, key : Key \cup {NoKey}]
    /\ pump \in [pc : {"off", "read", "held", "taken", "sent", "ended"},
                 line : Response \cup {NoResponse}]
    /\ conn \in [open : BOOLEAN, key : Key \cup {NoKey}, got : Seq(Line), owed : Seq(Line),
                 begun : BOOLEAN]
    /\ notified \in BOOLEAN
    /\ writes \in [1..MaxLines -> Nat]

-----------------------------------------------------------------------------
(* Tracker (track.rs) *)

NewTracker ==
    [inFlight |-> [i \in Id |-> NoLine], initialised |-> FALSE, initialize |-> NoLine,
     initialized |-> NoLine, kept |-> NoLine, link |-> "up", replayStarted |-> FALSE]

\* Mutant: only a handshake the client has finished is replayed.
ReplaysFinishedHandshake(t) == t.initialised /\ t.initialized # NoLine

ReplaysHandshake(t) == t.initialised /\ t.initialize # NoLine

\* The kept line's number stands for its generation.
OnClientLine(t, line) ==
    IF line.what = "initialized" THEN [t EXCEPT !.initialized = line]
    ELSE [t EXCEPT
            !.inFlight[line.id] = line,
            !.initialize = IF ~t.initialised /\ line.what = "initialize" THEN line ELSE @,
            !.kept = IF ~t.initialised /\ @ = NoLine /\ CountsForLifecycle(line)
                     THEN line ELSE @]

CacheOnly(t, line) ==
    /\ line.what = "initialized"
    /\ t.link = "reconnecting" /\ ReplaysHandshake(t) /\ ~t.replayStarted

\* Mutant: the kept request outlives the session's initialisation.
OnDaemonLineKeeps(t, response) ==
    LET answered == t.inFlight[response.id]
        cleared == [t EXCEPT !.inFlight[response.id] = NoLine]
    IN IF t.initialised \/ ~response.ok \/ ~CountsForLifecycle(answered) THEN cleared
       ELSE [cleared EXCEPT !.initialised = TRUE]

OnDaemonLine(t, response) ==
    LET answered == t.inFlight[response.id]
        cleared == [t EXCEPT !.inFlight[response.id] = NoLine]
    IN CASE answered = NoLine -> t
         [] answered # NoLine /\ t.initialised -> cleared
         [] answered # NoLine /\ ~t.initialised ->
              IF response.ok /\ CountsForLifecycle(answered)
              THEN [cleared EXCEPT !.initialised = TRUE, !.kept = NoLine]
              ELSE IF ~response.ok /\ t.kept.id = response.id
              THEN [cleared EXCEPT !.kept = NoLine]
              ELSE cleared

SetLink(t, link) == [t EXCEPT !.link = link, !.replayStarted = FALSE]
MarkReplayStarted(t) == [t EXCEPT !.replayStarted = TRUE]
HasInFlight(t) == \E i \in Id : t.inFlight[i] # NoLine
KeptInFlight(t) == t.kept # NoLine /\ t.inFlight[t.kept.id] # NoLine
TakeInFlightExcept(t, keep) ==
    [t EXCEPT !.inFlight = [i \in Id |-> IF i = keep THEN @[i] ELSE NoLine]]

\* Mutant: queued requests get no answer.
ErrorsForSentOnly(t, keep) ==
    {[id |-> i, n |-> t.inFlight[i].n, ok |-> FALSE] :
       i \in {j \in Id : /\ j # keep /\ t.inFlight[j] # NoLine
                        /\ \A k \in DOMAIN queue : queue[k] # t.inFlight[j]}}

\* The error responses the proxy makes up for requests in flight.
ErrorsFor(t, keep) ==
    {[id |-> i, n |-> t.inFlight[i].n, ok |-> FALSE] :
       i \in {j \in Id : j # keep /\ t.inFlight[j] # NoLine}}

-----------------------------------------------------------------------------
(* The client *)

\* What a client of the MCP protocol may send: initialize until it succeeds,
\* calls after that (at any time without a handshake), initialized once.
MaySend(line) ==
    /\ Alive /\ ~client.eof /\ client.sent < MaxLines /\ line.n = client.sent + 1
    /\ IF IsRequest(line) THEN line.id \in Id /\ asked[line.id] = NoLine ELSE line.id = NoId
    /\ CASE line.what = "initialize" ->
              /\ client.lifecycle = "handshake" /\ ~client.ready
              /\ \A i \in Id : asked[i].what # "initialize"
         [] line.what = "call" -> client.lifecycle = "inline" \/ client.ready
         [] line.what = "ping" -> TRUE
         [] line.what = "initialized" ->
              client.lifecycle = "handshake" /\ client.ready /\ ~client.told

Says(line) ==
    /\ MaySend(line)
    /\ client' = [client EXCEPT !.sent = line.n, !.told = @ \/ line.what = "initialized"]
    /\ asked' = IF IsRequest(line) THEN [asked EXCEPT ![line.id] = line] ELSE asked
    /\ UNCHANGED unexpected

\* Lines queued for stdout are written in order and before any exit; a client
\* learns a daemon's tools when its session begins or from list_changed.
Hears(responses, key, announced) ==
    LET begins == /\ ~client.ready
                  /\ \E r \in responses : r.ok /\ CountsForLifecycle(asked[r.id])
    IN
    /\ asked' = [i \in Id |-> IF \E r \in responses : r.id = i THEN NoLine ELSE asked[i]]
    /\ unexpected' = unexpected \cup {r \in responses : asked[r.id].n # r.n}
    /\ client' = [client EXCEPT !.ready = @ \/ begins,
                                !.key = IF begins \/ announced THEN key ELSE @]

-----------------------------------------------------------------------------
(* The daemon's end *)

\* The proxy has dropped its end.
NoConn == [open |-> FALSE, key |-> NoKey, got |-> <<>>, owed |-> <<>>, begun |-> FALSE]
NewConn(key) == [open |-> TRUE, key |-> key, got |-> <<>>, owed |-> <<>>, begun |-> FALSE]

Receives(c, line) ==
    [c EXCEPT !.got = Append(@, line),
              !.owed = IF IsRequest(line) THEN Append(@, line) ELSE @]

\* A write to a connection the daemon has closed may still seem to succeed.
Write(line) ==
    /\ conn' = IF conn.open THEN Receives(conn, line) ELSE conn
    /\ writes' = IF conn.open THEN [writes EXCEPT ![line.n] = @ + 1] ELSE writes

\* A session answers its first lifecycle request before any later one.
Answerable(i) ==
    /\ conn.open
    /\ \/ conn.begun \/ conn.owed[i].what = "ping"
       \/ \A j \in 1..i - 1 : ~CountsForLifecycle(conn.owed[j])

Answered(i, ok) ==
    [conn EXCEPT !.owed = RemoveAt(@, i),
                 !.begun = @ \/ (ok /\ CountsForLifecycle(conn.owed[i]))]

AnswerTo(i, ok) == [id |-> conn.owed[i].id, n |-> conn.owed[i].n, ok |-> ok]

DaemonClose ==
    /\ Alive /\ conn.open
    /\ conn' = [conn EXCEPT !.open = FALSE]
    /\ UNCHANGED <<clientVars, tracker, loopVars, pump, writes, notified>>

-----------------------------------------------------------------------------
(* pump_daemon *)

\* The line is in the budget's hands until its share of stdout is free.
PumpRead ==
    /\ Alive /\ pump.pc = "read"
    /\ \E i \in DOMAIN conn.owed, ok \in BOOLEAN :
         /\ Answerable(i)
         /\ conn' = Answered(i, ok)
         /\ pump' = [pc |-> "held", line |-> AnswerTo(i, ok)]
    /\ UNCHANGED <<clientVars, tracker, loopVars, writes, notified>>

PumpEof ==
    /\ Alive /\ pump.pc = "read" /\ ~conn.open
    /\ pump' = [pump EXCEPT !.pc = "ended"]
    /\ UNCHANGED <<clientVars, tracker, loopVars, daemonVars, notified>>

PumpTake ==
    /\ Alive /\ pump.pc = "held"
    /\ tracker' = OnDaemonLine(tracker, pump.line)
    /\ pump' = [pump EXCEPT !.pc = "taken"]
    /\ UNCHANGED <<clientVars, loopVars, daemonVars, notified>>

PumpSend ==
    /\ Alive /\ pump.pc = "taken"
    /\ Hears({pump.line}, conn.key, FALSE)
    /\ pump' = [pc |-> "sent", line |-> NoResponse]
    /\ UNCHANGED <<tracker, loopVars, daemonVars, notified>>

PumpNotify ==
    /\ Alive /\ pump.pc = "sent"
    /\ notified' = (notified \/ ~HasInFlight(tracker))
    /\ pump' = [pump EXCEPT !.pc = "read"]
    /\ UNCHANGED <<clientVars, tracker, loopVars, daemonVars>>

-----------------------------------------------------------------------------
(* The main loop, connected *)

Goto(next) == main' = [main EXCEPT !.pc = next]
Exit(why) == main' = [main EXCEPT !.pc = "exited", !.exit = why]

\* A queued line is popped before it is written.
FlushQueue ==
    /\ main.pc = "flush"
    /\ \/ /\ queue = <<>>
          /\ Goto("forward")
          /\ UNCHANGED <<queue, daemonVars>>
       \/ /\ queue # <<>>
          /\ Write(Head(queue))
          /\ queue' = Tail(queue)
          /\ UNCHANGED main
       \/ /\ queue # <<>> /\ ~conn.open
          /\ queue' = Tail(queue)
          /\ Goto("loss")
          /\ UNCHANGED daemonVars
    /\ UNCHANGED <<clientVars, tracker, pending, lossState, pump, notified>>

Forward(line) ==
    /\ main.pc = "forward" /\ Says(line)
    /\ tracker' = OnClientLine(tracker, line)
    /\ \/ Write(line) /\ UNCHANGED main
       \/ ~conn.open /\ Goto("loss") /\ UNCHANGED daemonVars
    /\ UNCHANGED <<queue, pending, lossState, pump, notified>>

ForwardLost ==
    /\ main.pc = "forward" /\ pump.pc = "ended"
    /\ Goto("loss")
    /\ UNCHANGED <<clientVars, tracker, queue, pending, lossState, pump, daemonVars, notified>>

\* Mutant: the held line is forwarded and its request stays in flight.
HeldSeenUntracked == tracker

\* The tracker once a line the aborted pump still held has been forwarded.
HeldSeen == IF pump.pc = "held" THEN OnDaemonLine(tracker, pump.line) ELSE tracker

\* Mutant: read before the held line is forwarded.
InitialisedBeforeHeld(t) == tracker.initialised

InitialisedAtLoss(t) == t.initialised

\* Mutant: each loss starts a round of its own.
AttemptsCarriedNever(t) == 0

\* The attempts a re-send pending at the loss has used, if it is still the kept one.
AttemptsCarried(t) ==
    IF KeptInFlight(t) /\ t.kept.n = pending.n THEN pending.used ELSE 0

(***************************************************************************)
(* The aborted pump stops at an await: before it reads a line or while it  *)
(* holds one, which is forwarded now.  Then every request in flight gets   *)
(* the restart error, but the kept first request, which is sent again at   *)
(* once unless its attempts are used up.                                   *)
(***************************************************************************)
OnLoss ==
    LET held == IF pump.pc = "held" THEN {pump.line} ELSE {}
        t == SetLink(HeldSeen, "down")
        keep == IF KeptInFlight(t) THEN t.kept.id ELSE NoId
        used == AttemptsCarried(t)
    IN
    /\ main.pc = "loss" /\ pump.pc \in {"read", "held", "ended"}
    /\ lossState' = [lossState EXCEPT !.initialised = InitialisedAtLoss(t)]
    /\ Hears(held \cup ErrorsFor(t, keep), conn.key, FALSE)
    /\ \/ /\ keep = NoId
          /\ tracker' = TakeInFlightExcept(t, NoId)
          /\ Goto("disconnected")
       \/ /\ keep # NoId /\ used >= MaxAttempts
          /\ tracker' = TakeInFlightExcept(t, keep)
          /\ Exit("failed")
       \/ /\ keep # NoId /\ used < MaxAttempts
          /\ tracker' = SetLink(TakeInFlightExcept(t, keep), "reconnecting")
          /\ main' = [main EXCEPT
                        !.pc = "attempt", !.attempts = used,
                        !.after = IF t.kept.what = "initialize"
                                  THEN "replay_forward" ELSE "resend_kept"]
    /\ queue' = <<>> /\ pending' = [n |-> 0, used |-> 0]
    /\ pump' = [pc |-> "off", line |-> NoResponse]
    /\ conn' = NoConn
    /\ UNCHANGED <<writes, notified>>

-----------------------------------------------------------------------------
(* Disconnected; reconnection rounds *)

\* Notifications are dropped, though initialized is cached.
AwaitRequest(line) ==
    /\ main.pc = "disconnected" /\ Says(line)
    /\ LET t == OnClientLine(tracker, line) IN
         \/ /\ IsRequest(line)
            /\ tracker' = SetLink(t, "reconnecting")
            /\ queue' = Append(queue, line)
            /\ main' = [main EXCEPT
                          !.pc = "attempt", !.attempts = 0,
                          !.after = IF ReplaysHandshake(t) THEN "replay_drop" ELSE "nothing"]
         \/ /\ ~IsRequest(line)
            /\ tracker' = t
            /\ UNCHANGED <<queue, main>>
    /\ UNCHANGED <<pending, lossState, pump, daemonVars, notified>>

\* wait_with_stdin: lines that arrive during a round are tracked and queued.
QueueLine(line) ==
    /\ InRound /\ Says(line)
    /\ tracker' = OnClientLine(tracker, line)
    /\ queue' = IF CacheOnly(tracker, line) THEN queue ELSE Append(queue, line)
    /\ UNCHANGED <<main, pending, lossState, pump, daemonVars, notified>>

\* reconnect_round's last part: the session resumes on the new connection.
Resumes(t, responses, key, attempts) ==
    /\ Hears(responses, key, lossState.initialised /\ key # lossState.key)
    /\ lossState' = [lossState EXCEPT !.key = key]
    /\ tracker' = SetLink(t, "up")
    /\ pending' = IF main.after = "resend_kept" /\ t.kept # NoLine
                  THEN [n |-> t.kept.n, used |-> attempts] ELSE pending
    /\ UNCHANGED <<queue, notified>>
    /\ pump' = [pc |-> "read", line |-> NoResponse]
    /\ main' = [main EXCEPT !.pc = "flush", !.attempts = 0, !.cached = NoLine]

\* Mutant: the queue outlives the round.
RoundFailedKeepsQueue ==
    \/ /\ ~tracker.initialised
       /\ Exit("failed")
       /\ UNCHANGED <<clientVars, tracker, queue>>
    \/ /\ tracker.initialised
       /\ Hears(ErrorsFor(tracker, NoId), conn.key, FALSE)
       /\ tracker' = SetLink(TakeInFlightExcept(tracker, NoId), "down")
       /\ main' = [main EXCEPT !.pc = "disconnected", !.attempts = 0, !.cached = NoLine]
       /\ UNCHANGED queue

\* Mutant: a session without a handshake counts as not begun.
RoundFailedInline ==
    \/ /\ ~ReplaysHandshake(tracker)
       /\ Exit("failed")
       /\ UNCHANGED <<clientVars, tracker, queue>>
    \/ /\ ReplaysHandshake(tracker)
       /\ Hears(ErrorsFor(tracker, NoId), conn.key, FALSE)
       /\ tracker' = SetLink(TakeInFlightExcept(tracker, NoId), "down")
       /\ queue' = <<>>
       /\ main' = [main EXCEPT !.pc = "disconnected", !.attempts = 0, !.cached = NoLine]

\* round_failed, after fail_pending.
RoundFailed ==
    \/ /\ ~tracker.initialised
       /\ Exit("failed")
       /\ UNCHANGED <<clientVars, tracker, queue>>
    \/ /\ tracker.initialised
       /\ Hears(ErrorsFor(tracker, NoId), conn.key, FALSE)
       /\ tracker' = SetLink(TakeInFlightExcept(tracker, NoId), "down")
       /\ queue' = <<>>
       /\ main' = [main EXCEPT !.pc = "disconnected", !.attempts = 0, !.cached = NoLine]

\* Mutant: one attempt too many.
AttemptFailedLate(retryable, attempts) ==
    /\ \/ /\ retryable /\ attempts <= MaxAttempts
          /\ main' = [main EXCEPT !.pc = "attempt", !.attempts = attempts]
          /\ UNCHANGED <<clientVars, tracker, queue>>
       \/ /\ ~retryable \/ attempts > MaxAttempts
          /\ RoundFailed
    /\ UNCHANGED <<pending, lossState, pump, notified>>

\* run_round: another attempt, or the round has failed.
AttemptFailed(retryable, attempts) ==
    /\ \/ /\ retryable /\ attempts < MaxAttempts
          /\ main' = [main EXCEPT !.pc = "attempt", !.attempts = attempts]
          /\ UNCHANGED <<clientVars, tracker, queue>>
       \/ /\ ~retryable \/ attempts >= MaxAttempts
          /\ RoundFailed
    /\ UNCHANGED <<pending, lossState, pump, notified>>

\* connect_or_spawn or the hello fails.
ConnectFails ==
    /\ main.pc = "attempt"
    /\ \E retryable \in BOOLEAN : AttemptFailed(retryable, main.attempts + 1)
    /\ UNCHANGED daemonVars

WriteFirst(key, line) ==
    /\ conn' = Receives(NewConn(key), line)
    /\ writes' = [writes EXCEPT ![line.n] = @ + 1]

\* The hello succeeds; what follows depends on why the round runs.
Connect(key) ==
    LET attempts == main.attempts + 1 IN
    /\ main.pc = "attempt"
    /\ \/ /\ main.after = "replay_drop"
          /\ WriteFirst(key, tracker.initialize)
          /\ tracker' = MarkReplayStarted(tracker)
          /\ main' = [main EXCEPT !.pc = "response", !.attempts = attempts,
                                  !.cached = tracker.initialized]
          /\ UNCHANGED <<clientVars, queue, pending, lossState, pump, notified>>
       \/ /\ main.after = "replay_forward"
          /\ WriteFirst(key, tracker.kept)
          /\ main' = [main EXCEPT !.pc = "response", !.attempts = attempts]
          /\ UNCHANGED <<clientVars, tracker, queue, pending, lossState, pump, notified>>
       \/ /\ main.after = "resend_kept"
          /\ WriteFirst(key, tracker.kept)
          /\ Resumes(tracker, {}, key, attempts)
       \/ /\ main.after = "nothing"
          /\ conn' = NewConn(key)
          /\ Resumes(tracker, {}, key, attempts)
          /\ UNCHANGED writes

\* The response to a replayed initialize is dropped, one to a re-sent one forwarded.
ReplayAnswered(ok) ==
    /\ main.pc = "response"
    /\ \E i \in DOMAIN conn.owed :
         /\ Answerable(i)
         /\ \/ /\ main.after = "replay_forward"
               /\ conn' = Answered(i, ok)
               /\ Resumes(OnDaemonLine(tracker, AnswerTo(i, ok)), {AnswerTo(i, ok)},
                          conn.key, main.attempts)
               /\ UNCHANGED writes
            \/ /\ main.after = "replay_drop" /\ ok
               /\ Resumes(tracker, {}, conn.key, main.attempts)
               /\ IF main.cached = NoLine
                  THEN conn' = Answered(i, ok) /\ UNCHANGED writes
                  ELSE /\ conn' = Receives(Answered(i, ok), main.cached)
                       /\ writes' = [writes EXCEPT ![main.cached.n] = @ + 1]
            \/ /\ main.after = "replay_drop" /\ ~ok
               /\ conn' = NoConn
               /\ AttemptFailed(TRUE, main.attempts)
               /\ UNCHANGED writes

\* The connection ends before the response (retryable), or the response is late.
ReplayFails ==
    /\ main.pc = "response"
    /\ \E closed \in BOOLEAN :
         /\ closed => ~conn.open
         /\ AttemptFailed(closed, main.attempts)
    /\ conn' = NoConn
    /\ UNCHANGED writes

-----------------------------------------------------------------------------
(* stdin closes *)

Eof ==
    /\ Alive /\ ~client.eof
    /\ client' = [client EXCEPT !.eof = TRUE]
    /\ \/ main.pc = "forward" /\ Goto("drain")
       \/ (InRound \/ main.pc = "disconnected") /\ Exit("eof")
    /\ UNCHANGED <<asked, unexpected, tracker, queue, pending, lossState, pump, daemonVars, notified>>

drainRest == <<clientVars, tracker, queue, pending, lossState, pump, daemonVars>>

\* The Notified is created before the check, so that no wake-up is missed.
DrainListen ==
    /\ main.pc = "drain" /\ Goto("drain_check")
    /\ notified' = FALSE
    /\ UNCHANGED drainRest

DrainCheck ==
    /\ main.pc = "drain_check"
    /\ IF HasInFlight(tracker) THEN Goto("drain_await") ELSE Exit("answered")
    /\ UNCHANGED <<drainRest, notified>>

\* Mutant: the Notified is created after the check.
DrainAwaitLate ==
    /\ main.pc = "drain_await" /\ Goto("drain_wait")
    /\ notified' = FALSE
    /\ UNCHANGED drainRest

\* The pump, on another thread, may notify between the check and the await.
DrainAwait ==
    /\ main.pc = "drain_await" /\ Goto("drain_wait")
    /\ UNCHANGED <<drainRest, notified>>

DrainWake ==
    /\ main.pc = "drain_wait" /\ notified
    /\ Goto("drain")
    /\ UNCHANGED <<drainRest, notified>>

DrainLost ==
    /\ main.pc = "drain_wait" /\ pump.pc = "ended"
    /\ Exit("eof")
    /\ UNCHANGED <<drainRest, notified>>

\* stdout is stalled, or the drain budget is spent.
DrainGivesUp ==
    /\ main.pc = "drain_wait"
    /\ Exit("eof")
    /\ UNCHANGED <<drainRest, notified>>

-----------------------------------------------------------------------------
ProxyInit ==
    /\ \E mode \in {"handshake", "inline"} :
         client = [lifecycle |-> mode, sent |-> 0, eof |-> FALSE, ready |-> FALSE,
                   told |-> FALSE, key |-> NoKey]
    /\ asked = [i \in Id |-> NoLine]
    /\ unexpected = {}
    /\ tracker = NewTracker
    /\ main = [pc |-> "attempt", after |-> "nothing", attempts |-> 0, cached |-> NoLine,
               exit |-> "no"]
    /\ queue = <<>>
    /\ pending = [n |-> 0, used |-> 0]
    /\ lossState = [initialised |-> FALSE, key |-> NoKey]
    /\ pump = [pc |-> "off", line |-> NoResponse]
    /\ conn = NoConn
    /\ notified = FALSE
    /\ writes = [n \in 1..MaxLines |-> 0]

\* A line the client can send next.
NextLine == [n : {client.sent + 1}, what : Request \cup {"initialized"}, id : Id \cup {NoId}]

ClientStep ==
    \/ \E line \in NextLine : Forward(line) \/ AwaitRequest(line) \/ QueueLine(line)
    \/ Eof

LoopStep ==
    \/ FlushQueue \/ ForwardLost \/ OnLoss
    \/ DrainListen \/ DrainCheck \/ DrainAwait \/ DrainWake \/ DrainLost

RoundStep ==
    \/ \E key \in Key : Connect(key)
    \/ ConnectFails \/ ReplayFails
    \/ \E ok \in BOOLEAN : ReplayAnswered(ok)

PumpStep == PumpRead \/ PumpEof \/ PumpTake \/ PumpSend \/ PumpNotify

ProxyNext ==
    ClientStep \/ LoopStep \/ RoundStep \/ PumpStep \/ DaemonClose \/ DrainGivesUp

ProxySpec == ProxyInit /\ [][ProxyNext]_vars

(***************************************************************************)
(* Tokio polls the main loop and the pump; connecting, the hello and a     *)
(* replayed handshake have time limits; a daemon answers or closes the     *)
(* connection.  Neither the client's next line nor the drain's time limit  *)
(* is assumed.                                                             *)
(***************************************************************************)
ProxyFairness == WF_vars(LoopStep) /\ WF_vars(RoundStep) /\ WF_vars(PumpStep)
ProxyFairSpec == ProxySpec /\ ProxyFairness
-----------------------------------------------------------------------------
(* Properties *)

(***************************************************************************)
(* The client gets one answer to each request: no restart error for one    *)
(* that a held line answers, no late response to an id used again (on_loss *)
(* stops the pump before it answers what is in flight).                    *)
(***************************************************************************)
EveryAnswerAwaited == unexpected = {}

(***************************************************************************)
(* A call reaches a daemon only while the client still waits for it: lines *)
(* answered by a failed round or a loss are not flushed to the next        *)
(* connection (queue.clear in on_loss and round_failed).                   *)
(***************************************************************************)
WritesAwaited ==
    [][\A i \in DOMAIN conn'.got :
          /\ conn'.got[i].what = "call"
          /\ writes'[conn'.got[i].n] > writes[conn'.got[i].n]
          => \E j \in Id : asked'[j] = conn'.got[i]]_vars

(***************************************************************************)
(* Only the first request of a session that has not begun is sent again: a *)
(* later one may already have committed (on_daemon_loss).                  *)
(***************************************************************************)
ResentOnlyBeforeReady ==
    [][\A n \in 1..MaxLines :
          /\ writes'[n] > writes[n] /\ writes[n] > 0
          /\ conn'.got[Len(conn'.got)].what = "call"
          => ~client.ready]_vars

(***************************************************************************)
(* A daemon that dies on the re-sent first request is tried at most        *)
(* MAX_ATTEMPTS times, over however many losses (attempts_carried).        *)
(***************************************************************************)
ResendBounded ==
    \A i \in DOMAIN conn.got :
        conn.got[i].what = "call" => writes[conn.got[i].n] <= MaxAttempts + 1

(***************************************************************************)
(* Once the client has seen its session begin, no lost connection and no   *)
(* failed round ends the proxy (round_failed, on_loss).  A client whose    *)
(* end of stdout is closed does (proxy.rs:519), which is not modelled.     *)
(***************************************************************************)
NeverExitsOnceReady == main.exit = "failed" => ~client.ready

(***************************************************************************)
(* On every connection of a client with a handshake, initialize comes      *)
(* before anything but pings, and requests come in the client's order.     *)
(***************************************************************************)
HandshakeFirst ==
    /\ \A i \in DOMAIN conn.got :
         /\ client.lifecycle = "handshake" /\ conn.got[i].what \in {"call", "initialized"}
         => \E j \in 1..i - 1 : conn.got[j].what = "initialize"
    /\ \A i, j \in DOMAIN conn.got :
         i < j /\ IsRequest(conn.got[i]) /\ IsRequest(conn.got[j])
         => conn.got[i].n < conn.got[j].n

(***************************************************************************)
(* While the proxy forwards, a client whose session has begun knows the    *)
(* tools of the daemon it talks to (announce_key, initialised_at_loss).    *)
(***************************************************************************)
KeyAnnounced ==
    main.pc \in {"flush", "forward"} /\ client.ready => client.key = conn.key

(***************************************************************************)
(* Every request is answered in the end, whatever happens to the daemon,   *)
(* unless the proxy exits.                                                 *)
(***************************************************************************)
RequestAnswered == \A i \in Id : []<>(asked[i] = NoLine \/ ~Alive)

(***************************************************************************)
(* A drain ends once nothing is in flight, without waiting for its budget: *)
(* "Created before the check, so a notify in between isn't missed."        *)
(***************************************************************************)
DrainEnds ==
    []<>(main.pc \in {"drain", "drain_check", "drain_await", "drain_wait"} => HasInFlight(tracker))

(***************************************************************************)
(* daemon_reconnect.rs:145 (initialized_during_reconnect_sent_once): a     *)
(* notifications/initialized the client sends once reaches a connection    *)
(* once.                                                                   *)
(***************************************************************************)
InitializedOnce ==
    \A i, j \in DOMAIN conn.got :
        conn.got[i].what = "initialized" /\ conn.got[j].what = "initialized" => i = j

(***************************************************************************)
(* proxy.rs:252: the drain gives the daemon time "to answer requests sent  *)
(* before stdin closed": when it ends because everything is answered, the  *)
(* client has every answer.                                                *)
(***************************************************************************)
DrainDelivers == main.exit = "answered" => \A i \in Id : asked[i] = NoLine

-----------------------------------------------------------------------------
(* The inductive invariant *)

Connected ==
    main.pc \in {"flush", "forward", "loss", "drain", "drain_check", "drain_await", "drain_wait"}

\* What is in flight the client waits for, under the id it gave.
TrackerInv ==
    /\ \A i \in Id : asked[i] # NoLine =>
         asked[i].id = i /\ IsRequest(asked[i]) /\ asked[i].n <= client.sent
    /\ \A i \in Id : tracker.inFlight[i] \in {NoLine, asked[i]}
    /\ tracker.initialize # NoLine =>
         tracker.initialize.what = "initialize" /\ tracker.initialize.n <= client.sent
    /\ tracker.initialized # NoLine =>
         tracker.initialized.what = "initialized" /\ tracker.initialized.n <= client.sent
    /\ tracker.kept # NoLine =>
         /\ ~tracker.initialised /\ CountsForLifecycle(tracker.kept)
         /\ tracker.kept.id \in Id /\ tracker.inFlight[tracker.kept.id] = tracker.kept

\* The tracker knows of a session's beginning before the client does.
LifecycleInv ==
    /\ client.ready => tracker.initialised
    /\ client.lifecycle = "handshake" =>
         /\ tracker.initialised => tracker.initialize # NoLine
         /\ \A i \in Id : ~tracker.initialised /\ CountsForLifecycle(tracker.inFlight[i]) =>
              tracker.inFlight[i].what = "initialize" /\ tracker.initialize # NoLine

\* What a round runs for.
RoundInv ==
    /\ main.pc \in {"attempt", "disconnected"} => conn = NoConn
    /\ main.pc = "attempt" => main.attempts < MaxAttempts
    /\ main.pc = "response" =>
         LET first == IF main.after = "replay_drop" THEN tracker.initialize ELSE tracker.kept IN
         /\ main.after \in {"replay_drop", "replay_forward"}
         /\ conn.got = <<first>> /\ conn.owed = <<first>>
         /\ main.after = "replay_drop" /\ main.cached # NoLine =>
              /\ main.cached.what = "initialized" /\ main.cached.n <= client.sent
              /\ \A k \in DOMAIN queue : IsRequest(queue[k]) => queue[k].n # main.cached.n
    /\ InRound =>
         /\ main.after = "replay_drop" =>
              /\ tracker.initialised /\ tracker.initialize # NoLine
              /\ \A k \in DOMAIN queue : tracker.initialize.n < queue[k].n
         /\ main.after \in {"replay_forward", "resend_kept"} =>
              /\ tracker.kept # NoLine
              /\ main.after = "replay_forward" <=> tracker.kept.what = "initialize"
              /\ \A k \in DOMAIN queue : tracker.kept.n < queue[k].n
         /\ main.after = "nothing" /\ client.lifecycle = "handshake" => ~tracker.initialised
    /\ InRound \/ main.pc = "disconnected" =>
         /\ pending = [n |-> 0, used |-> 0]
         /\ client.ready => lossState.initialised

\* Queued lines are in the client's order, newer than what was sent, unwritten and unanswered.
QueueInv ==
    /\ main.pc \in {"disconnected", "forward"} => queue = <<>>
    /\ \A j, k \in DOMAIN queue : j < k => queue[j].n < queue[k].n
    /\ \A k \in DOMAIN queue :
         /\ queue[k].n <= client.sent
         /\ IsRequest(queue[k]) =>
              /\ queue[k].id \in Id /\ tracker.inFlight[queue[k].id] = queue[k]
              /\ writes[queue[k].n] = 0 /\ queue[k].n # tracker.initialized.n
         /\ \/ queue[k].what = "initialized"
            \/ queue[k].what = "call" /\ client.lifecycle = "handshake"
            => tracker.initialised
         /\ \A j \in DOMAIN conn.got : IsRequest(conn.got[j]) => conn.got[j].n < queue[k].n

\* What the daemon owes on a connection is in flight, each request once.
OwedInv ==
    Connected =>
    /\ \A k \in DOMAIN conn.owed :
         /\ conn.owed[k].id \in Id /\ tracker.inFlight[conn.owed[k].id] = conn.owed[k]
         /\ \E j \in DOMAIN conn.got : conn.got[j] = conn.owed[k]
    /\ \A j, k \in DOMAIN conn.owed : j < k => conn.owed[j].n < conn.owed[k].n
    /\ lossState.key = conn.key
    /\ client.lifecycle = "handshake" /\ tracker.initialised =>
         \E j \in DOMAIN conn.got : conn.got[j].what = "initialize"

\* A line in the pump's hands answers what the client waits for.
PumpInv ==
    Alive =>
    /\ pump.pc # "off" => Connected
    /\ pump.pc = "held" =>
         /\ pump.line # NoResponse /\ tracker.inFlight[pump.line.id].n = pump.line.n
         /\ \E j \in DOMAIN conn.got : conn.got[j] = tracker.inFlight[pump.line.id]
         /\ \A k \in DOMAIN conn.owed : conn.owed[k].n # pump.line.n
    /\ pump.pc = "taken" =>
         /\ pump.line # NoResponse /\ tracker.inFlight[pump.line.id] = NoLine
         /\ asked[pump.line.id].n = pump.line.n
         /\ pump.line.ok /\ CountsForLifecycle(asked[pump.line.id]) => tracker.initialised

\* The attempts that the kept request has used so far.
Used ==
    IF InRound /\ main.after = "resend_kept" THEN main.attempts
    ELSE IF pending.n = tracker.kept.n THEN pending.used ELSE 0

WritesInv ==
    /\ \A n \in 1..MaxLines : n > client.sent => writes[n] = 0
    /\ \A k \in DOMAIN conn.got : conn.got[k].n <= client.sent
    /\ Alive /\ tracker.kept.what = "call" => writes[tracker.kept.n] <= 1 + Used

(***************************************************************************)
(* Inductive: the tracker, the queue, the connection and the pump agree on *)
(* who waits for which answer, and on whether the session has begun.       *)
(***************************************************************************)
SessionInv ==
    /\ ProxyTypeOK /\ TrackerInv /\ LifecycleInv /\ RoundInv /\ QueueInv /\ OwedInv
    /\ PumpInv /\ WritesInv
    /\ client.ready => client.key = lossState.key
    /\ Alive => main.exit = "no"
    /\ EveryAnswerAwaited /\ ResendBounded /\ NeverExitsOnceReady /\ HandshakeFirst
=============================================================================
