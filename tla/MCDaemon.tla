------------------------------ MODULE MCDaemon ------------------------------
(***************************************************************************)
(* Small instances of Daemon.                                              *)
(***************************************************************************)
EXTENDS Daemon, Folds

MCTimers ==
    [initOk : BOOLEAN, inHello : 0..2, active : 0..2,
     deadline : Instant \cup {Off}, suspended : Instant \cup {Off}]

\* Adopting n connections is n times Accepted (the loop at the end of begin_shutdown).
ASSUME AdoptAccepts ==
    \A t \in MCTimers, n \in 0..3 :
        Adopt(t, n) = MapThenFoldSet(LAMBDA i, acc : Accepted(acc), t, LAMBDA i : i,
                                     LAMBDA s : CHOOSE i \in s : TRUE, 1..n)
=============================================================================
