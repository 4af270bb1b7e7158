------------------------------ MODULE IdleExit ------------------------------
(***************************************************************************)
(* What a daemon promises about its idle exit: one countdown per daemon    *)
(* that starts when init has succeeded and no connection is open, starts   *)
(* afresh after every connection that was served, is not touched by one    *)
(* that does not pass its hello, and an exit for idleness only when it has *)
(* run out with nothing open.                                              *)
(***************************************************************************)
EXTENDS Integers

CONSTANTS Daemons, Timeout

VARIABLES
    ready,      \* [Daemons -> BOOLEAN]: init has succeeded
    arriving,   \* [Daemons -> Nat]: connections that have not passed their hello
    served,     \* [Daemons -> Nat]: connections that have
    left,       \* [Daemons -> 0..Timeout or InUse]: the countdown
    gone        \* [Daemons -> STRING]: "no", or why the daemon leaves

vars == <<ready, arriving, served, left, gone>>

InUse == -1

Init ==
    /\ ready = [d \in Daemons |-> FALSE]
    /\ arriving = [d \in Daemons |-> 0]
    /\ served = [d \in Daemons |-> 0]
    /\ left = [d \in Daemons |-> InUse]
    /\ gone = [d \in Daemons |-> "no"]

Quiet(d) == ready[d] /\ arriving[d] = 0 /\ served[d] = 0

\* The countdown starts, unless it is running, once all is quiet.
Settle(d) == left' = [left EXCEPT ![d] = IF Quiet(d)' /\ @ = InUse THEN Timeout ELSE @]

BecomeReady(d) ==
    /\ ready' = [ready EXCEPT ![d] = TRUE]
    /\ Settle(d)
    /\ UNCHANGED <<arriving, served>>

\* One connection, or several that an idle exit finds in the backlog.
Arrive(d) ==
    /\ \E n \in 1..arriving'[d] : arriving' = [arriving EXCEPT ![d] = @ + n]
    /\ UNCHANGED <<ready, served, left>>

PassHello(d) ==
    /\ arriving[d] > 0
    /\ arriving' = [arriving EXCEPT ![d] = @ - 1]
    /\ served' = [served EXCEPT ![d] = @ + 1]
    /\ left' = [left EXCEPT ![d] = InUse]
    /\ UNCHANGED ready

FailHello(d) ==
    /\ arriving[d] > 0
    /\ arriving' = [arriving EXCEPT ![d] = @ - 1]
    /\ Settle(d)
    /\ UNCHANGED <<ready, served>>

EndSession(d) ==
    /\ served[d] > 0
    /\ served' = [served EXCEPT ![d] = @ - 1]
    /\ Settle(d)
    /\ UNCHANGED <<ready, arriving>>

Postpone(d) ==
    /\ Quiet(d) /\ left[d] = 0
    /\ left' = [left EXCEPT ![d] = Timeout]
    /\ UNCHANGED <<ready, arriving, served>>

\* A daemon that leaves keeps no countdown.
Leave(d, why) ==
    /\ gone' = [gone EXCEPT ![d] = why]
    /\ ready' = [ready EXCEPT ![d] = FALSE]
    /\ arriving' = [arriving EXCEPT ![d] = 0]
    /\ served' = [served EXCEPT ![d] = 0]
    /\ left' = [left EXCEPT ![d] = InUse]

LeaveIdle(d) == Quiet(d) /\ left[d] = 0 /\ Leave(d, "idle")
LeaveOtherwise(d) == Leave(d, "signal") \/ Leave(d, "grace")
Die(d) == Leave(d, "dead")

Tick ==
    /\ left' = [d \in Daemons |-> IF left[d] > 0 THEN left[d] - 1 ELSE left[d]]
    /\ UNCHANGED <<ready, arriving, served, gone>>

Next ==
    \/ Tick
    \/ \E d \in Daemons :
        \/ /\ gone[d] = "no"
           /\ LeaveIdle(d) \/ LeaveOtherwise(d)
        \/ /\ gone[d] = "no" /\ UNCHANGED gone
           /\ \/ BecomeReady(d) \/ Arrive(d) \/ PassHello(d) \/ FailHello(d)
              \/ EndSession(d) \/ Postpone(d)
        \/ Die(d)

IdleExitSpec == Init /\ [][Next]_vars
=============================================================================
