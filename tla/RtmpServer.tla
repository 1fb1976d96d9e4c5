----------------------------- MODULE RtmpServer -----------------------------
(***************************************************************************)
(* The RTMP server of src/rtmp_server_integration.c: the application       *)
(* thread that starts, stops, queries and destroys the server, the accept  *)
(* thread, the monitor thread that expires idle connections, and one       *)
(* detached handler thread per client.  They share server_ctx, whose lock  *)
(* is a default pthread mutex: a thread that locks it twice waits for      *)
(* itself.                                                                 *)
(*                                                                         *)
(* The four callers of rtmp_server_cleanup_connection run the same code,   *)
(* so its steps are actions of "any thread".  The linked list is a set:    *)
(* nothing in the code depends on the order of the connections.            *)
(*                                                                         *)
(* A connection is memory that holds a socket and a chunk stream.  Cleanup *)
(* gives both back and resets neither (handshake_data is never assigned),  *)
(* so another thread with the same connection may use them afterwards or   *)
(* give them back again: undefined behaviour, recorded in misused.  It may *)
(* go unnoticed, as in the steps below, or end the process, which is a     *)
(* behaviour that stops there.                                             *)
(***************************************************************************)
EXTENDS Integers, FiniteSets

CONSTANTS Addr,      \* addresses calloc may return for a connection
          Handler,   \* handler threads
          NoAddr,    \* the null pointer
          Events     \* the optional happenings of a run, among AllEvents

\* "timeout": a peer stays silent for RTMP_TIMEOUT_SEC; "stop", "query" and
\* "destroy": the application makes these calls; "noAccept", "noMonitor" and
\* "noHandler": pthread_create fails at that place.
AllEvents == {"timeout", "stop", "query", "destroy",
              "noAccept", "noMonitor", "noHandler"}

Main    == "main"
Accept  == "accept"
Monitor == "monitor"
NoThread == "nobody"
Thread  == {Main, Accept, Monitor} \cup Handler

ASSUME AddrAssumption    == NoAddr \notin Addr /\ IsFiniteSet(Addr)
ASSUME HandlerAssumption == Handler \cap {Main, Accept, Monitor, NoThread} = {}
ASSUME EventsAssumption  == Events \subseteq AllEvents

VARIABLES
  running,     \* server_ctx.running
  srvState,    \* server_ctx.state
  listening,   \* the listening socket is open
  lock,        \* the thread that holds server_ctx.lock, or NoThread
  listed,      \* server_ctx.connections
  num,         \* server_ctx.num_connections
  live,        \* addresses that are allocated
  conn,        \* what a connection's memory holds
  stale,       \* connections whose last_recv_time is too old
  pc,          \* where each thread is
  cur,         \* the connection each thread holds a pointer to
  destroyed,   \* server_ctx.lock was destroyed
  given,       \* the connection the application holds a pointer to
  misused      \* socket or chunk stream used, or given back, after cleanup
               \* gave them back (only observes)

vars == <<running, srvState, listening, lock, listed, num, live, conn, stale,
          pc, cur, destroyed, given, misused>>

\* The groups of variables that most actions leave alone.
serverVars == <<running, srvState, listening, destroyed>>
listVars   == <<lock, listed, num>>
memVars    == <<live, conn, stale>>
useVars    == <<given, misused>>

ConnState == {"NEW", "HANDSHAKE", "CONNECT", "CREATE_STREAM", "PLAY",
              "PUBLISHING"}
Connection == [state : ConnState, isPublisher : BOOLEAN, hasMedia : BOOLEAN,
               released : BOOLEAN]

\* The stages of rtmp_server_cleanup_connection, in order.
CleanupStage == {"release", "unlink", "notify", "free"}

MainStage == {"idle", "createAccept", "createMonitor", "joinFailed",
              "announce", "joinAccept", "joinMonitor", "lockAll", "sweep",
              "announceStop", "query"}
AcceptStage  == {"none", "loop", "accept", "push", "spawn", "done"}
MonitorStage == {"none", "loop", "lock", "sweep", "done"}
HandlerStage == {"none", "setup", "loop", "recv", "play", "publish"}

Zeroed == [state |-> "NEW", isPublisher |-> FALSE, hasMedia |-> FALSE,
           released |-> FALSE]

Init ==
  /\ running = FALSE
  /\ srvState = "STOPPED"
  /\ listening = FALSE
  /\ lock = NoThread
  /\ listed = {}
  /\ num = 0
  /\ live = {}
  /\ conn = [a \in Addr |-> Zeroed]
  /\ stale = {}
  /\ pc = [t \in Thread |-> IF t = Main THEN "idle" ELSE "none"]
  /\ cur = [t \in Thread |-> NoAddr]
  /\ destroyed = FALSE
  /\ given = NoAddr
  /\ misused = FALSE

-----------------------------------------------------------------------------
\* The mutex, and the tail every cleanup has.

\* A bug form: the mutex were recursive.
MutRecursiveLock(t) == lock \in {NoThread, t}

\* Thread t may take server_ctx.lock.  The mutex is not recursive: a thread
\* that already holds it waits like any other.
CanLock(t) == lock = NoThread

Goto(t, stage) == pc' = [pc EXCEPT ![t] = stage]

\* Where the caller of rtmp_server_cleanup_connection goes on: a handler ends,
\* accept takes its next client, monitor and stop go on with their sweeps.
AfterCleanup(t) == IF t = Accept THEN "loop"
                   ELSE IF t \in {Monitor, Main} THEN "sweep" ELSE "none"

-----------------------------------------------------------------------------
(* The application thread: rtmp_server_start. *)

\* Everything up to running = true.  A socket, bind or listen that fails
\* closes what it opened and returns: no step.
Start ==
  /\ pc[Main] = "idle"
  /\ ~destroyed
  /\ srvState = "STOPPED"
  /\ listening' = TRUE
  /\ running' = TRUE
  /\ Goto(Main, "createAccept")
  /\ UNCHANGED <<srvState, destroyed, listVars, memVars, cur, useVars>>

CreateAcceptThread ==
  /\ pc[Main] = "createAccept"
  /\ pc' = [pc EXCEPT ![Main] = "createMonitor", ![Accept] = "loop"]
  /\ UNCHANGED <<serverVars, listVars, memVars, cur, useVars>>

CreateAcceptThreadFails ==
  /\ "noAccept" \in Events
  /\ pc[Main] = "createAccept"
  /\ listening' = FALSE
  /\ running' = FALSE
  /\ Goto(Main, "idle")
  /\ UNCHANGED <<srvState, destroyed, listVars, memVars, cur, useVars>>

CreateMonitorThread ==
  /\ pc[Main] = "createMonitor"
  /\ pc' = [pc EXCEPT ![Main] = "announce", ![Monitor] = "loop"]
  /\ UNCHANGED <<serverVars, listVars, memVars, cur, useVars>>

CreateMonitorThreadFails ==
  /\ "noMonitor" \in Events
  /\ pc[Main] = "createMonitor"
  /\ running' = FALSE
  /\ Goto(Main, "joinFailed")
  /\ UNCHANGED <<srvState, listening, destroyed, listVars, memVars, cur, useVars>>

\* The failed start joins the accept thread first and closes the listening
\* socket after.
JoinFailedStart ==
  /\ pc[Main] = "joinFailed"
  /\ pc[Accept] = "done"
  /\ listening' = FALSE
  /\ pc' = [pc EXCEPT ![Main] = "idle", ![Accept] = "none"]
  /\ UNCHANGED <<running, srvState, destroyed, listVars, memVars, cur, useVars>>

AnnounceRunning ==
  /\ pc[Main] = "announce"
  /\ srvState' = "RUNNING"
  /\ Goto(Main, "idle")
  /\ UNCHANGED <<running, listening, destroyed, listVars, memVars, cur, useVars>>

-----------------------------------------------------------------------------
(* The application thread: rtmp_server_stop, rtmp_server_cleanup and the   *)
(* calls that walk the list under the lock.                                *)

StopBegin ==
  /\ "stop" \in Events
  /\ pc[Main] = "idle"
  /\ running
  /\ running' = FALSE
  /\ listening' = FALSE
  /\ Goto(Main, "joinAccept")
  /\ UNCHANGED <<srvState, destroyed, listVars, memVars, cur, useVars>>

\* A bug form: stop does not wait for the accept thread.
MutJoinAccept ==
  /\ pc[Main] = "joinAccept"
  /\ Goto(Main, "joinMonitor")
  /\ UNCHANGED <<serverVars, listVars, memVars, cur, useVars>>

JoinAccept ==
  /\ pc[Main] = "joinAccept"
  /\ pc[Accept] = "done"
  /\ pc' = [pc EXCEPT ![Main] = "joinMonitor", ![Accept] = "none"]
  /\ UNCHANGED <<serverVars, listVars, memVars, cur, useVars>>

JoinMonitor ==
  /\ pc[Main] = "joinMonitor"
  /\ pc[Monitor] = "done"
  /\ pc' = [pc EXCEPT ![Main] = "lockAll", ![Monitor] = "none"]
  /\ UNCHANGED <<serverVars, listVars, memVars, cur, useVars>>

StopLock ==
  /\ pc[Main] = "lockAll"
  /\ CanLock(Main)
  /\ lock' = Main
  /\ Goto(Main, "sweep")
  /\ UNCHANGED <<serverVars, listed, num, memVars, cur, useVars>>

\* One turn of the loop over the list: pop a connection, without counting it
\* out, and clean it up with the lock still held.
StopPop(a) ==
  /\ pc[Main] = "sweep"
  /\ a \in listed
  /\ listed' = listed \ {a}
  /\ cur' = [cur EXCEPT ![Main] = a]
  /\ Goto(Main, "release")
  /\ UNCHANGED <<serverVars, lock, num, memVars, useVars>>

\* A bug form: stop closes one connection and forgets the others.
MutStopUnlock ==
  /\ pc[Main] = "sweep"
  /\ lock' = NoThread
  /\ Goto(Main, "announceStop")
  /\ UNCHANGED <<serverVars, listed, num, memVars, cur, useVars>>

StopUnlock ==
  /\ pc[Main] = "sweep"
  /\ listed = {}
  /\ lock' = NoThread
  /\ Goto(Main, "announceStop")
  /\ UNCHANGED <<serverVars, listed, num, memVars, cur, useVars>>

AnnounceStopped ==
  /\ pc[Main] = "announceStop"
  /\ srvState' = "STOPPED"
  /\ Goto(Main, "idle")
  /\ UNCHANGED <<running, listening, destroyed, listVars, memVars, cur, useVars>>

\* rtmp_server_cleanup after its call of rtmp_server_stop, which does nothing
\* when the server does not run.
MutDestroy ==
  /\ "destroy" \in Events
  /\ pc[Main] = "idle"
  /\ ~destroyed
  /\ destroyed' = TRUE
  /\ UNCHANGED <<running, srvState, listening, listVars, memVars, pc, cur, useVars>>

Destroy ==
  /\ "destroy" \in Events
  /\ pc[Main] = "idle"
  /\ ~running
  /\ ~destroyed
  /\ destroyed' = TRUE
  /\ UNCHANGED <<running, srvState, listening, listVars, memVars, pc, cur, useVars>>

\* The getters that walk the list and the setters that send to every listed
\* connection take the lock.  rtmp_server_get_connection returns a pointer the
\* application may keep (one of them here), or forget.
QueryBegin ==
  /\ "query" \in Events
  /\ pc[Main] = "idle"
  /\ ~destroyed
  /\ Goto(Main, "query")
  /\ UNCHANGED <<serverVars, listVars, memVars, cur, useVars>>

Query ==
  /\ pc[Main] = "query"
  /\ CanLock(Main)
  /\ given' \in listed \cup {given, NoAddr}
  /\ Goto(Main, "idle")
  /\ UNCHANGED <<serverVars, listVars, memVars, cur, misused>>

-----------------------------------------------------------------------------
(* The accept thread. *)

AcceptLoop ==
  /\ pc[Accept] = "loop"
  /\ Goto(Accept, IF running THEN "accept" ELSE "done")
  /\ UNCHANGED <<serverVars, listVars, memVars, cur, useVars>>

\* accept() fails because stop closed the socket.
AcceptWoken ==
  /\ pc[Accept] = "accept"
  /\ ~listening
  /\ Goto(Accept, "loop")
  /\ UNCHANGED <<serverVars, listVars, memVars, cur, useVars>>

\* accept() fails for a reason of its own, or calloc does: try again.
AcceptFails ==
  /\ pc[Accept] = "accept"
  /\ listening
  /\ Goto(Accept, "loop")
  /\ UNCHANGED <<serverVars, listVars, memVars, cur, useVars>>

\* A bug form: malloc for calloc, the memory keeps what it held.
MutAcceptClient(a) ==
  /\ pc[Accept] = "accept"
  /\ listening
  /\ a \notin live
  /\ live' = live \cup {a}
  /\ conn' = [conn EXCEPT ![a].state = "NEW"]
  /\ cur' = [cur EXCEPT ![Accept] = a]
  /\ Goto(Accept, "push")
  /\ UNCHANGED <<serverVars, listVars, stale, useVars>>

\* A client connects and gets a zeroed connection whose clock starts now.
AcceptClient(a) ==
  /\ pc[Accept] = "accept"
  /\ listening
  /\ a \notin live
  /\ live' = live \cup {a}
  /\ conn' = [conn EXCEPT ![a] = Zeroed]
  /\ cur' = [cur EXCEPT ![Accept] = a]
  /\ Goto(Accept, "push")
  /\ UNCHANGED <<serverVars, listVars, stale, useVars>>

\* A bug form: the lock is kept.
MutPush ==
  /\ pc[Accept] = "push"
  /\ CanLock(Accept)
  /\ lock' = Accept
  /\ listed' = listed \cup {cur[Accept]}
  /\ num' = num + 1
  /\ Goto(Accept, "spawn")
  /\ UNCHANGED <<serverVars, memVars, cur, useVars>>

Push ==
  /\ pc[Accept] = "push"
  /\ CanLock(Accept)
  /\ listed' = listed \cup {cur[Accept]}
  /\ num' = num + 1
  /\ Goto(Accept, "spawn")
  /\ UNCHANGED <<serverVars, lock, memVars, cur, useVars>>

Spawn(h) ==
  /\ pc[Accept] = "spawn"
  /\ pc[h] = "none"
  /\ pc' = [pc EXCEPT ![Accept] = "loop", ![h] = "setup"]
  /\ cur' = [cur EXCEPT ![Accept] = NoAddr, ![h] = cur[Accept]]
  /\ UNCHANGED <<serverVars, listVars, memVars, useVars>>

SpawnFails ==
  /\ "noHandler" \in Events
  /\ pc[Accept] = "spawn"
  /\ Goto(Accept, "release")
  /\ UNCHANGED <<serverVars, listVars, memVars, cur, useVars>>

-----------------------------------------------------------------------------
(* The monitor thread. *)

MonitorLoop ==
  /\ pc[Monitor] = "loop"
  /\ Goto(Monitor, IF running THEN "lock" ELSE "done")
  /\ UNCHANGED <<serverVars, listVars, memVars, cur, useVars>>

\* A sweep begins by taking the lock and keeps it after a cleanup.
MonitorSweeping ==
  \/ pc[Monitor] = "lock" /\ CanLock(Monitor)
  \/ pc[Monitor] = "sweep" /\ lock = Monitor

\* A sweep that finds nothing more to expire; the second it then sleeps is no
\* step.  No other thread can see its critical section, so it is one step.
MonitorFindsNone ==
  /\ MonitorSweeping
  /\ listed \cap stale = {}
  /\ lock' = NoThread
  /\ Goto(Monitor, "loop")
  /\ UNCHANGED <<serverVars, listed, num, memVars, cur, useVars>>

\* A bug form: the expired connection is not counted out.
MutMonitorExpires(a) ==
  /\ MonitorSweeping
  /\ a \in listed \cap stale
  /\ lock' = Monitor
  /\ listed' = listed \ {a}
  /\ cur' = [cur EXCEPT ![Monitor] = a]
  /\ Goto(Monitor, "release")
  /\ UNCHANGED <<serverVars, num, memVars, useVars>>

\* A sweep that finds a silent connection unlinks it, counts it out and cleans
\* it up with the lock still held.
MonitorExpires(a) ==
  /\ MonitorSweeping
  /\ a \in listed \cap stale
  /\ lock' = Monitor
  /\ listed' = listed \ {a}
  /\ num' = num - 1
  /\ cur' = [cur EXCEPT ![Monitor] = a]
  /\ Goto(Monitor, "release")
  /\ UNCHANGED <<serverVars, memVars, useVars>>

-----------------------------------------------------------------------------
(* A handler thread and the messages of its client. *)

\* Thread t uses the socket or the chunk stream of its connection, or gives
\* them back.
Uses(t) == misused' = (misused \/ conn[cur[t]].released)

\* No chunk stream, or no complete handshake.
SetupFails(h) ==
  /\ pc[h] = "setup"
  /\ Uses(h)
  /\ Goto(h, "release")
  /\ UNCHANGED <<serverVars, listVars, memVars, cur, given>>

SetupDone(h) ==
  /\ pc[h] = "setup"
  /\ Uses(h)
  /\ conn' = [conn EXCEPT ![cur[h]].state = "HANDSHAKE"]
  /\ Goto(h, "loop")
  /\ UNCHANGED <<serverVars, listVars, live, stale, cur, given>>

HandlerLoop(h) ==
  /\ pc[h] = "loop"
  /\ Goto(h, IF running THEN "recv" ELSE "release")
  /\ UNCHANGED <<serverVars, listVars, memVars, cur, useVars>>

ReceiveFails(h) ==
  /\ pc[h] = "recv"
  /\ Uses(h)
  /\ Goto(h, "release")
  /\ UNCHANGED <<serverVars, listVars, memVars, cur, given>>

\* What rtmp_connection_handle_message does with a message; "other" is a
\* message it ignores, a command whose AMF does not decode, or no complete
\* message yet.
Message == {"connect", "createStream", "play", "publish", "media", "other"}

StateAfter(m, s) ==
  CASE m = "connect"      -> "CONNECT"
    [] m = "createStream" -> "CREATE_STREAM"
    [] m = "play"         -> "PLAY"
    [] m = "publish"      -> "PUBLISHING"
    [] OTHER              -> s

\* Video, audio and metadata count only from a publisher.
MediaAfter(m, c) == c.hasMedia \/ (m = "media" /\ c.isPublisher)

Handled(m, c) == [c EXCEPT !.state    = StateAfter(m, c.state),
                           !.hasMedia = MediaAfter(m, c)]

\* A message that play or publish does not answer: the whole turn of the loop.
Receive(h, m) ==
  /\ pc[h] = "recv"
  /\ m \notin {"play", "publish"}
  /\ Uses(h)
  /\ conn' = [conn EXCEPT ![cur[h]] = Handled(m, conn[cur[h]])]
  /\ stale' = stale \ {cur[h]}
  /\ Goto(h, "loop")
  /\ UNCHANGED <<serverVars, listVars, live, cur, given>>

\* play and publish write the state first (499, 528) ...
ReceiveRole(h, m) ==
  /\ pc[h] = "recv"
  /\ m \in {"play", "publish"}
  /\ Uses(h)
  /\ conn' = [conn EXCEPT ![cur[h]] = Handled(m, conn[cur[h]])]
  /\ Goto(h, m)
  /\ UNCHANGED <<serverVars, listVars, live, stale, cur, given>>

\* ... and is_publisher next (500, 529), with no lock.  Nothing else writes the
\* flag: connect and createStream leave it as it is.
SetRole(h) ==
  /\ pc[h] \in {"play", "publish"}
  /\ conn' = [conn EXCEPT ![cur[h]].isPublisher = (pc[h] = "publish")]
  /\ stale' = stale \ {cur[h]}
  /\ Goto(h, "loop")
  /\ UNCHANGED <<serverVars, listVars, live, cur, useVars>>

\* The peer of a listed connection stays silent past RTMP_TIMEOUT_SEC.
Silent(a) ==
  /\ "timeout" \in Events
  /\ a \in listed
  /\ stale' = stale \cup {a}
  /\ UNCHANGED <<serverVars, listVars, live, conn, pc, cur, useVars>>

-----------------------------------------------------------------------------
(* rtmp_server_cleanup_connection, run by thread t on cur[t]. *)

\* Close the socket and destroy the chunk stream, without the lock (or with the
\* one a sweep holds).  The pointers stay: nothing tells the next thread.
CleanupRelease(t) ==
  /\ pc[t] = "release"
  /\ Uses(t)
  /\ conn' = [conn EXCEPT ![cur[t]].released = TRUE]
  /\ Goto(t, "unlink")
  /\ UNCHANGED <<serverVars, listVars, live, stale, cur, given>>

\* A bug form: the connection is left in the list.
MutUnlinked(t) == listed

CountOut(t) == IF cur[t] \in listed THEN num - 1 ELSE num
Unlinked(t) == listed \ {cur[t]}

CleanupUnlink(t) ==
  /\ pc[t] = "unlink"
  /\ CanLock(t)
  /\ listed' = Unlinked(t)
  /\ num' = CountOut(t)
  /\ Goto(t, "notify")
  /\ UNCHANGED <<serverVars, lock, memVars, cur, useVars>>

\* The connection callback: the application forgets the pointer it was given.
CleanupNotify(t) ==
  /\ pc[t] = "notify"
  /\ given' = IF given = cur[t] THEN NoAddr ELSE given
  /\ Goto(t, "free")
  /\ UNCHANGED <<serverVars, listVars, memVars, cur, misused>>

CleanupFree(t) ==
  /\ pc[t] = "free"
  /\ live' = live \ {cur[t]}
  /\ stale' = stale \ {cur[t]}
  /\ cur' = [cur EXCEPT ![t] = NoAddr]
  /\ Goto(t, AfterCleanup(t))
  /\ UNCHANGED <<serverVars, listVars, conn, useVars>>

-----------------------------------------------------------------------------
MainStep ==
  \/ CreateAcceptThread \/ CreateAcceptThreadFails
  \/ CreateMonitorThread \/ CreateMonitorThreadFails
  \/ JoinFailedStart \/ AnnounceRunning
  \/ JoinAccept \/ JoinMonitor \/ StopLock \/ StopUnlock \/ AnnounceStopped
  \/ \E a \in Addr : StopPop(a)
  \/ Query

\* What the application is free to call or not.
MainCall == Start \/ StopBegin \/ Destroy \/ QueryBegin

AcceptStep ==
  \/ AcceptLoop \/ AcceptWoken \/ Push \/ SpawnFails
  \/ \E h \in Handler : Spawn(h)

MonitorStep ==
  \/ MonitorLoop \/ MonitorFindsNone
  \/ \E a \in Addr : MonitorExpires(a)

HandlerStep(h) == SetupFails(h) \/ SetupDone(h) \/ HandlerLoop(h) \/ SetRole(h)

CleanupStep(t) ==
  CleanupRelease(t) \/ CleanupUnlink(t) \/ CleanupNotify(t) \/ CleanupFree(t)

\* What clients and the network do.
Network ==
  \/ AcceptFails
  \/ \E a \in Addr : AcceptClient(a) \/ Silent(a)
  \/ \E h \in Handler : \/ ReceiveFails(h)
                        \/ \E m \in Message : Receive(h, m) \/ ReceiveRole(h, m)

Next ==
  \/ MainStep \/ MainCall \/ AcceptStep \/ MonitorStep \/ Network
  \/ \E h \in Handler : HandlerStep(h)
  \/ \E t \in Thread : CleanupStep(t)

Spec == Init /\ [][Next]_vars

\* Every thread that can go on does: a started thread is scheduled, and a free
\* mutex is eventually given to a waiting thread.  Clients, the peer's silence
\* and the application's calls are never forced.
Fairness ==
  /\ WF_vars(MainStep) /\ WF_vars(AcceptStep) /\ WF_vars(MonitorStep)
  /\ \A h \in Handler : WF_vars(HandlerStep(h))
  /\ \A t \in Thread : WF_vars(CleanupStep(t))

FairSpec == Spec /\ Fairness

-----------------------------------------------------------------------------
(* Invariants. *)

TypeOK ==
  /\ running \in BOOLEAN
  /\ srvState \in {"STOPPED", "RUNNING"}
  /\ listening \in BOOLEAN
  /\ lock \in {NoThread, Main, Monitor}
  /\ listed \subseteq Addr
  /\ num \in Int
  /\ live \subseteq Addr
  /\ conn \in [Addr -> Connection]
  /\ stale \subseteq Addr
  /\ pc \in [Thread -> MainStage \cup AcceptStage \cup MonitorStage
                        \cup HandlerStage \cup CleanupStage]
  /\ cur \in [Thread -> Addr \cup {NoAddr}]
  /\ destroyed \in BOOLEAN
  /\ given \in Addr \cup {NoAddr}
  /\ misused \in BOOLEAN

\* rtmp_server_get_num_connections reads the counter without the lock: it is
\* the number of listed connections in every state but those of a stop that
\* pops connections it does not count out (632).
CountMatchesList == lock # Main => num = Cardinality(listed)

\* What the list and the threads point to is allocated.
Allocated ==
  /\ listed \subseteq live
  /\ \A t \in Thread : cur[t] # NoAddr => cur[t] \in live

\* Nothing points to a freed connection: every listed one (the getters and the
\* broadcasts walk them), every one a thread works on and the one the
\* application was given is allocated.  The last needs an application that
\* forgets the pointer when its connection callback names it (284).
NoDanglingPointer ==
  /\ Allocated
  /\ given # NoAddr => given \in live

\* Two threads work on one connection only while one of them is a sweep that
\* holds the lock in the middle of its cleanup, and neither gets to free it.
OneOwnerButSweep ==
  \A t, u \in Thread :
    t # u /\ cur[t] = cur[u] /\ cur[t] # NoAddr
      => /\ lock \in {t, u}
         /\ pc[lock] \in {"release", "unlink"}
         /\ {"notify", "free"} \cap {pc[t], pc[u]} = {}

\* A connection whose socket is closed and chunk stream freed is still allocated
\* only while the thread that did it is on its way to free it: this is when a
\* broadcast can send to a closed socket.
ReleasedBy ==
  \A a \in live : conn[a].released =>
    \E t \in Thread : cur[t] = a /\ pc[t] \in {"unlink", "notify", "free"}

\* That they are used or given back again afterwards, which the code does when a
\* sweep meets a handler, takes a sweep that waits for its own lock.
MisusedInSweep == misused => lock # NoThread /\ pc[lock] = "unlink"

\* Who has what of a connection: a use or second release of its parts comes only
\* with a sweep that is stuck, and the connection itself is never freed twice.
SoleOwner == OneOwnerButSweep /\ ReleasedBy /\ MisusedInSweep

\* A handler that could still touch the list or the server.
Unfinished(h) == pc[h] \in (HandlerStage \ {"none"}) \cup {"release", "unlink"}

\* When stop is about to report STOPPED, its promise holds: no accept or
\* monitor thread, an empty list, and no handler that will lock again.
StopQuiesces ==
  pc[Main] = "announceStop" =>
    /\ pc[Accept] = "none" /\ pc[Monitor] = "none"
    /\ listed = {} /\ num = 0
    /\ \A h \in Handler : ~Unfinished(h)

\* rtmp_server_cleanup destroys the mutex only when no thread will lock it
\* again.  A start that fails after its accept thread took a client breaks
\* this, so it is checked where pthread_create of the monitor succeeds.
NoLockAfterDestroy ==
  destroyed => \A t \in Thread \ {Main} :
    pc[t] \in {"none", "notify", "free"}

\* The handler of a is between the two writes of play or publish.
Between(a) == \E h \in Handler : cur[h] = a /\ pc[h] \in {"play", "publish"}

\* A client counts as publisher in state PUBLISHING and not in PLAY, but for the
\* moment between the two writes (rtmp_server_dump_stats can print it); and one
\* that has sent no command is no publisher and has fed no media: the role is
\* never inherited from an earlier client with the same memory.
RoleMatchesState ==
  \A a \in live :
    LET c == conn[a] IN
    /\ c.state = "PUBLISHING" /\ ~Between(a) => c.isPublisher
    /\ c.state = "PLAY" /\ ~Between(a) => ~c.isPublisher
    /\ c.state \in {"NEW", "HANDSHAKE"} => ~c.isPublisher /\ ~c.hasMedia

-----------------------------------------------------------------------------
(* The inductive invariant behind these: what the threads' places say about *)
(* the lock, the pointers and the list.                                     *)

Workers  == {Accept} \cup Handler      \* each owns the connection it serves
Sweepers == {Main, Monitor}            \* these clean up with the lock held

\* A sweep never gets past its own lock, so it neither frees nor goes on.
Stages ==
  /\ pc[Main] \in MainStage \cup {"release", "unlink"}
  /\ pc[Accept] \in AcceptStage \cup CleanupStage
  /\ pc[Monitor] \in (MonitorStage \ {"sweep"}) \cup {"release", "unlink"}
  /\ \A h \in Handler : pc[h] \in HandlerStage \cup CleanupStage

LockHolder ==
  /\ lock = Main <=> pc[Main] \in {"sweep", "release", "unlink"}
  /\ lock = Monitor <=> pc[Monitor] \in {"release", "unlink"}

Pointers ==
  /\ \A u \in Sweepers : cur[u] # NoAddr <=> pc[u] \in {"release", "unlink"}
  /\ cur[Accept] # NoAddr <=> pc[Accept] \in {"push", "spawn"} \cup CleanupStage
  /\ \A h \in Handler : cur[h] # NoAddr <=> pc[h] # "none"

\* How far start and stop are, and which of the two threads may exist.
Progress ==
  /\ pc[Main] \in {"idle", "query"} /\ srvState = "STOPPED"
       => ~running /\ pc[Accept] = "none" /\ pc[Monitor] = "none"
  /\ pc[Main] = "createAccept" => pc[Accept] = "none"
  /\ pc[Main] \in {"createAccept", "createMonitor", "joinFailed"}
       => pc[Monitor] = "none"
  /\ pc[Main] \in {"joinMonitor", "lockAll", "sweep", "release", "unlink",
                   "announceStop"} => pc[Accept] = "none"
  /\ pc[Main] \in {"lockAll", "sweep", "release", "unlink", "announceStop"}
       => pc[Monitor] = "none"
  /\ pc[Main] \in {"joinFailed", "joinAccept", "joinMonitor", "lockAll",
                   "sweep", "release", "unlink", "announceStop"} => ~running

\* Where a connection is not in the list for good or not yet.
OffList == {"push", "notify", "free"}

Owners ==
  /\ \A t, u \in Workers : t # u /\ cur[t] = cur[u] => cur[t] = NoAddr
  /\ \A t \in Workers : pc[t] \in OffList =>
       /\ cur[t] \notin listed
       /\ \A u \in Sweepers : cur[u] # cur[t]

\* A connection whose owner has not unlinked it is listed, or a sweep has it.
Registered ==
  \A t \in Workers : cur[t] # NoAddr /\ pc[t] \notin OffList =>
    cur[t] \in listed \/ \E u \in Sweepers : cur[u] = cur[t]

Counted == pc[Main] \notin {"release", "unlink"} => num = Cardinality(listed)

IInv == /\ TypeOK /\ Stages /\ LockHolder /\ Pointers /\ Progress
        /\ Allocated /\ Owners /\ Registered /\ Counted /\ StopQuiesces

\* The application's pointer, and the parts of a connection.
Given == given # NoAddr =>
           /\ given \in live
           /\ \A t \in Workers : cur[t] = given => pc[t] \notin {"push", "free"}

PartsInv == Given /\ ReleasedBy /\ MisusedInSweep

-----------------------------------------------------------------------------
(* Liveness, under FairSpec. *)

\* A cleanup that began ends: the thread gives its connection back.
CleanupEnds ==
  \A t \in Thread : pc[t] = "release" ~> cur[t] = NoAddr

\* Whoever locks server_ctx.lock unlocks it again, whatever it has to clean up
\* in between.
LockComesBack == lock # NoThread ~> lock = NoThread

-----------------------------------------------------------------------------
(* The server implements ConnRegistry. *)

Unborn(a) == pc[Accept] = "push" /\ cur[Accept] = a

phaseBar ==
  IF running THEN "up"
  ELSE IF pc[Main] \in {"idle", "query"} THEN "down" ELSE "draining"

lifeBar ==
  [a \in Addr |-> IF a \in listed THEN "listed"
                  ELSE IF a \in live /\ ~Unborn(a) THEN "detached"
                  ELSE "absent"]

Registry == INSTANCE ConnRegistry
              WITH Conn <- Addr, phase <- phaseBar, life <- lifeBar

\* Every behaviour of the server is a behaviour of the abstract registry; in
\* particular the server is down only with an empty list.
RefinesRegistry == Registry!Spec
=============================================================================
