--------------------------- MODULE MCRtmpFailover ---------------------------
(* RtmpFailover with two application threads and two backup servers.        *)
EXTENDS RtmpFailover

CONSTANTS t1, t2, s1, s2

OneApp  == {t1}
TwoApps == {t1, t2}
MCServer == {s1, s2}

Setup(types, max, backups, path) ==
  [enabled |-> types, max |-> max, backups |-> backups, path |-> path]

\* A handler that can switch to everything.
Full    == {Setup(Type, 3, MCServer, TRUE)}
\* Limits that differ, types that are disabled, nothing enabled.
Varied  == {Setup(Type, 1, {}, FALSE), Setup(Type, 2, {s1}, TRUE),
            Setup({"NETWORK", "LOCAL"}, 2, {s1}, TRUE),
            Setup({}, 1, {s1}, TRUE)}

OnlyElapse == {"elapse"}
=============================================================================
