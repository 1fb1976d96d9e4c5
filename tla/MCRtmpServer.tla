---------------------------- MODULE MCRtmpServer ----------------------------
(* RtmpServer on a small instance: two clients at a time, each with its own *)
(* handler thread, whose memory and threads are used again and again.       *)
EXTENDS RtmpServer, TLC

CONSTANTS a1, a2, h1, h2

MCAddr    == {a1, a2}
MCHandler == {h1, h2}

\* Addresses and handler threads are interchangeable; used by the runs that
\* check safety only.
Symmetry == Permutations(MCAddr) \cup Permutations(MCHandler)

\* Everything, where a start gets its monitor thread: NoLockAfterDestroy and
\* RefinesRegistry need that.
MonitoredEvents == AllEvents \ {"noMonitor"}

\* Everything a serving or a failing start meets, with no stop and no silent
\* client.
ServingEvents == {"noAccept", "noMonitor", "noHandler"}

\* A stop and a silent client: the two that clean up with the lock held.
LockingEvents == {"stop", "timeout"}
=============================================================================
