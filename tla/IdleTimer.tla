------------------------------ MODULE IdleTimer ------------------------------
(***************************************************************************)
(* The counts and the deadline behind a daemon's idle exit (idle.rs).      *)
(*                                                                         *)
(* An Instant is the number of ticks until it, so that the clock needs no  *)
(* bound; an Instant in the past is 0.                                     *)
(***************************************************************************)
EXTENDS Integers

CONSTANT Timeout        \* the idle timeout, in ticks

ASSUME TimeoutAssumption == Timeout \in Nat \ {0}

Off == -1               \* Option::None
Instant == 0..Timeout

Timer == [initOk : BOOLEAN, inHello : Nat, active : Nat,
          deadline : Instant \cup {Off}, suspended : Instant \cup {Off}]

NewTimer == [initOk |-> FALSE, inHello |-> 0, active |-> 0, deadline |-> Off, suspended |-> Off]

ShouldArm(t) == t.initOk /\ t.inHello = 0 /\ t.active = 0

InitSucceeded(t) == [t EXCEPT !.initOk = TRUE]

Accepted(t) ==
    [t EXCEPT !.suspended = IF t.deadline # Off THEN t.deadline ELSE @,
              !.deadline = Off,
              !.inHello = @ + 1]

\* A count never goes below zero.
Decrement(n) == IF n = 0 THEN 0 ELSE n - 1

\* Mutant: a passed hello keeps the deadline that its accept suspended.
ApplyKeepsSuspended(t, event) ==
    CASE event = "HelloPassed" -> [t EXCEPT !.inHello = Decrement(@), !.active = @ + 1]
      [] event = "HelloFailed" -> [t EXCEPT !.inHello = Decrement(@)]
      [] event = "Ended" -> [t EXCEPT !.active = Decrement(@)]

\* Mutant: an ended session is taken off both counts.
ApplyEndedTwice(t, event) ==
    CASE event = "HelloPassed" ->
            [t EXCEPT !.suspended = Off, !.inHello = Decrement(@), !.active = @ + 1]
      [] event = "HelloFailed" -> [t EXCEPT !.inHello = Decrement(@)]
      [] event = "Ended" -> [t EXCEPT !.active = Decrement(@), !.inHello = @ - 1]

Apply(t, event) ==
    CASE event = "HelloPassed" ->
            [t EXCEPT !.suspended = Off, !.inHello = Decrement(@), !.active = @ + 1]
      [] event = "HelloFailed" -> [t EXCEPT !.inHello = Decrement(@)]
      [] event = "Ended" -> [t EXCEPT !.active = Decrement(@)]

\* Mutant: the deadline of a connection that failed its hello is not restored.
UpdateNeverRestores(t) ==
    CASE ShouldArm(t) /\ t.deadline = Off /\ t.suspended = Off -> [t EXCEPT !.deadline = Timeout]
      [] ~ShouldArm(t) /\ t.deadline # Off -> [t EXCEPT !.deadline = Off]
      [] OTHER -> t

Update(t) ==
    CASE ShouldArm(t) /\ t.deadline = Off ->
            [t EXCEPT !.deadline = IF t.suspended # Off THEN t.suspended ELSE Timeout,
                      !.suspended = Off]
      [] ~ShouldArm(t) /\ t.deadline # Off -> [t EXCEPT !.deadline = Off]
      [] OTHER -> t

Postpone(t) == [t EXCEPT !.deadline = Timeout]

\* A tick of the clock brings both Instants nearer.
Nearer(instant) == IF instant > 0 THEN instant - 1 ELSE instant
Elapse(t) == [t EXCEPT !.deadline = Nearer(@), !.suspended = Nearer(@)]
=============================================================================
