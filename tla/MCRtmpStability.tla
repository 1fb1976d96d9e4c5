-------------------------- MODULE MCRtmpStability --------------------------
(* RtmpStability with up to two application threads, two watchdogs (one     *)
(* more than a correct use has) and up to two reconnects.                   *)
EXTENDS RtmpStability

CONSTANTS t1, t2, w1, w2

OneApp  == {t1}
TwoApps == {t1, t2}
MCWatchdog == {w1, w2}

Recovery(mode, auto, max) ==
  [mode |-> mode, auto |-> auto, watchdog |-> TRUE, heartbeat |-> TRUE,
   max |-> max]

\* The default configuration, with a limit of two.
Default == {Recovery("RECONNECT", TRUE, 2)}

\* Every recovery mode, no reconnecting, no heartbeat, no watchdog, and a limit
\* that goes up and down.
Varied == {Recovery("RECONNECT", TRUE, 1), Recovery("RECONNECT", TRUE, 2),
           Recovery("RECONNECT", FALSE, 1), Recovery("NONE", TRUE, 1),
           Recovery("RESET", TRUE, 1), Recovery("FALLBACK", TRUE, 1),
           [Recovery("RECONNECT", TRUE, 1) EXCEPT !.heartbeat = FALSE]}
Unwatched == {[c EXCEPT !.watchdog = FALSE] : c \in Default}
All       == Varied \cup Unwatched

\* The configurations under which a recovery is not left to the application.
Ending == {Recovery("RECONNECT", TRUE, 1), Recovery("RECONNECT", TRUE, 2),
           Recovery("FALLBACK", TRUE, 1)}

OnlyStop == {"stop"}
=============================================================================
