---------------------------- MODULE RtmpStability ----------------------------
(***************************************************************************)
(* The stability monitor of src/rtmp_stability.c: threads of the           *)
(* application that start, stop, reset and reconnect it, and a watchdog    *)
(* thread that sends heartbeats and recovers the connection when one stays *)
(* unanswered.  All share one default pthread mutex, which stop holds      *)
(* while it joins the watchdog.                                            *)
(*                                                                         *)
(* Time is one bit, elapsed: the interval the monitor now waits for has    *)
(* passed since lastHeartbeat.  It is heartbeatInterval while no heartbeat *)
(* is pending and watchdogTimeout while one is; whatever sets or clears    *)
(* heartbeatPending also sets lastHeartbeat to the present.                *)
(***************************************************************************)
EXTENDS Integers

CONSTANTS App,        \* threads of the application
          Watchdog,   \* watchdog threads
          Nobody,     \* no thread
          Configs,    \* configurations the application may set
          Calls       \* the calls it makes, among AllCalls

Mode == {"NONE", "RECONNECT", "RESET", "FALLBACK"}
Config == [mode : Mode, auto : BOOLEAN, watchdog : BOOLEAN,
           heartbeat : BOOLEAN, max : Nat]
AllCalls == {"stop", "reset", "tryRecover", "forceReconnect", "setConfig"}

ASSUME ThreadAssumption ==
  App \cap Watchdog = {} /\ Nobody \notin App \cup Watchdog
ASSUME ConfigAssumption == Configs \subseteq Config
ASSUME CallsAssumption  == Calls \subseteq AllCalls

Thread == App \cup Watchdog

VARIABLES
  state,      \* monitor->state
  config,     \* monitor->config
  count,      \* monitor->reconnectCount
  pending,    \* monitor->heartbeatPending
  elapsed,    \* see above
  running,    \* monitor->watchdogRunning
  handle,     \* monitor->watchdogThread
  lock,       \* the thread that holds monitor->mutex
  pc,         \* where each thread is
  alive,      \* the peer still answers
  destroyed   \* the monitor was freed

vars == <<state, config, count, pending, elapsed, running, handle, lock, pc,
          alive, destroyed>>
beatVars   == <<pending, elapsed>>
threadVars == <<running, handle>>

\* MONITOR_STATE_STARTING is set and left inside one critical section.
State == {"STOPPED", "RUNNING", "RECOVERING", "FAILED"}
AppStage == {"idle", "startLock", "stopLock", "join", "tryLock"}
WatchStage == {"none", "loop", "lock", "resetLock", "done"}

\* A thread in attempt_reconnect sleeps or dials, or it waits in the handshake
\* for a peer that says nothing.
AttemptStage == {"reconnect", "hung"}

\* Where a thread holds the mutex.
Critical == {"join", "resetLock"} \cup AttemptStage

Init ==
  /\ state = "STOPPED"
  /\ config \in Configs
  /\ count = 0
  /\ pending = FALSE
  /\ elapsed \in BOOLEAN
  /\ running = FALSE
  /\ handle = Nobody
  /\ lock = Nobody
  /\ pc = [t \in Thread |-> IF t \in App THEN "idle" ELSE "none"]
  /\ alive \in BOOLEAN
  /\ destroyed = FALSE

CanLock(t) == lock = Nobody
Goto(t, stage) == pc' = [pc EXCEPT ![t] = stage]
Free(t) == pc[t] = "idle" /\ ~destroyed

\* Where thread t is when it is done with what it did.
Home(t) == IF t \in App THEN "idle" ELSE "loop"

-----------------------------------------------------------------------------
(* Reconnecting, with the mutex held *)

\* A bug form: the mutex is released for the sleep.
MutAttemptReconnect(t) ==
  IF count >= config.max
  THEN /\ state' = "FAILED"
       /\ Goto(t, Home(t))
       /\ UNCHANGED <<lock, alive>>
  ELSE /\ state' = "RECOVERING"
       /\ alive' = FALSE
       /\ Goto(t, "reconnect")
       /\ UNCHANGED lock

\* attempt_reconnect up to its sleep: give up, or close the connection.
AttemptReconnect(t) ==
  IF count >= config.max
  THEN /\ state' = "FAILED"
       /\ Goto(t, Home(t))
       /\ UNCHANGED <<lock, alive>>
  ELSE /\ state' = "RECOVERING"
       /\ lock' = t
       /\ alive' = FALSE
       /\ Goto(t, "reconnect")

\* rtmp_connect reads the peer's handshake with a recv that has no timeout.
PeerIsSilent(t) ==
  /\ pc[t] = "reconnect"
  /\ Goto(t, "hung")
  /\ UNCHANGED <<state, config, count, beatVars, threadVars, lock, alive,
                 destroyed>>

\* A bug form: success returns with the mutex held.
MutReconnected(t) ==
  /\ pc[t] \in AttemptStage
  /\ count' = count + 1
  /\ state' = "RUNNING"
  /\ alive' = TRUE
  /\ Goto(t, Home(t))
  /\ UNCHANGED <<config, beatVars, threadVars, lock, destroyed>>

\* attempt_reconnect after its sleep.
Reconnected(t) ==
  /\ pc[t] \in AttemptStage
  /\ count' = count + 1
  /\ state' = "RUNNING"
  /\ alive' = TRUE
  /\ lock' = Nobody
  /\ Goto(t, Home(t))
  /\ UNCHANGED <<config, beatVars, threadVars, destroyed>>

\* A bug form: a failed attempt leaves the state alone and is counted off.
MutReconnectFails(t) ==
  /\ pc[t] \in AttemptStage
  /\ count' = count - 1
  /\ lock' = Nobody
  /\ Goto(t, Home(t))
  /\ UNCHANGED <<state, config, beatVars, threadVars, alive, destroyed>>

ReconnectFails(t) ==
  /\ pc[t] \in AttemptStage
  /\ state' = "FAILED"
  /\ lock' = Nobody
  /\ Goto(t, Home(t))
  /\ UNCHANGED <<config, count, beatVars, threadVars, alive, destroyed>>

\* enter_recovery_mode of a running monitor.  Without autoReconnect, and in mode
\* NONE, it only says RECOVERING; in mode RESET it calls rtmp_stability_reset,
\* which takes the mutex that its caller holds.
EnterRecovery(t, mode) ==
  \/ /\ mode = "RECONNECT" /\ config.auto
     /\ AttemptReconnect(t)
  \/ /\ (mode = "RECONNECT" /\ ~config.auto) \/ mode = "NONE"
     /\ state' = "RECOVERING"
     /\ Goto(t, Home(t))
     /\ UNCHANGED <<lock, alive>>
  \/ /\ mode = "RESET"
     /\ state' = "RECOVERING"
     /\ lock' = t
     /\ Goto(t, "resetLock")
     /\ UNCHANGED alive
  \/ /\ mode = "FALLBACK"
     /\ state' = "FAILED"
     /\ Goto(t, Home(t))
     /\ UNCHANGED <<lock, alive>>

-----------------------------------------------------------------------------
(* The application *)

\* Start, stop and try_recover look at the state before they take the mutex.
CallStart(t) ==
  /\ Free(t)
  /\ state = "STOPPED"
  /\ Goto(t, "startLock")
  /\ UNCHANGED <<state, config, count, beatVars, threadVars, lock, alive,
                 destroyed>>

Start(t) ==
  /\ pc[t] = "startLock"
  /\ CanLock(t)
  /\ state' = "RUNNING"
  /\ count' = 0
  /\ pending' = FALSE
  /\ elapsed' = FALSE
  /\ \/ /\ config.watchdog
        /\ running' = TRUE
        /\ \E w \in Watchdog :
             /\ pc[w] = "none"
             /\ handle' = w
             /\ pc' = [pc EXCEPT ![t] = "idle", ![w] = "loop"]
     \/ /\ ~config.watchdog
        /\ Goto(t, "idle")
        /\ UNCHANGED threadVars
  /\ UNCHANGED <<config, lock, alive, destroyed>>

CallStop(t) ==
  /\ "stop" \in Calls
  /\ Free(t)
  /\ state # "STOPPED"
  /\ Goto(t, "stopLock")
  /\ UNCHANGED <<state, config, count, beatVars, threadVars, lock, alive,
                 destroyed>>

\* A bug form: the watchdog is not joined.
MutStop(t) ==
  /\ pc[t] = "stopLock"
  /\ CanLock(t)
  /\ running' = FALSE
  /\ state' = "STOPPED"
  /\ Goto(t, "idle")
  /\ UNCHANGED <<config, count, beatVars, handle, lock, alive, destroyed>>

Stop(t) ==
  /\ pc[t] = "stopLock"
  /\ CanLock(t)
  /\ running' = FALSE
  /\ \/ /\ running
        /\ lock' = t
        /\ Goto(t, "join")
        /\ UNCHANGED state
     \/ /\ ~running
        /\ state' = "STOPPED"
        /\ Goto(t, "idle")
        /\ UNCHANGED lock
  /\ UNCHANGED <<config, count, beatVars, handle, alive, destroyed>>

StopJoin(t) ==
  /\ pc[t] = "join"
  /\ pc[handle] = "done"
  /\ state' = "STOPPED"
  /\ lock' = Nobody
  /\ pc' = [pc EXCEPT ![t] = "idle", ![handle] = "none"]
  /\ UNCHANGED <<config, count, beatVars, threadVars, alive, destroyed>>

\* rtmp_stability_destroy after the stop it calls; no other call is under way.
Destroy(t) ==
  /\ "stop" \in Calls
  /\ Free(t)
  /\ state = "STOPPED"
  /\ \A u \in App : pc[u] = "idle"
  /\ destroyed' = TRUE
  /\ UNCHANGED <<state, config, count, beatVars, threadVars, lock, pc, alive>>

Reset(t) ==
  /\ "reset" \in Calls
  /\ Free(t)
  /\ CanLock(t)
  /\ count' = 0
  /\ pending' = FALSE
  /\ elapsed' = FALSE
  /\ state' = IF state = "RECOVERING" THEN "RUNNING" ELSE state
  /\ UNCHANGED <<config, threadVars, lock, pc, alive, destroyed>>

CallTryRecover(t) ==
  /\ "tryRecover" \in Calls
  /\ Free(t)
  /\ state = "FAILED"
  /\ Goto(t, "tryLock")
  /\ UNCHANGED <<state, config, count, beatVars, threadVars, lock, alive,
                 destroyed>>

\* The state shown while a manual recovery sleeps is the one it found.
TryRecover(t) ==
  /\ pc[t] = "tryLock"
  /\ CanLock(t)
  /\ \/ /\ count >= config.max
        /\ state' = "FAILED"
        /\ Goto(t, "idle")
        /\ UNCHANGED <<lock, alive>>
     \/ /\ count < config.max
        /\ lock' = t
        /\ alive' = FALSE
        /\ Goto(t, "reconnect")
        /\ UNCHANGED state
  /\ UNCHANGED <<config, count, beatVars, threadVars, destroyed>>

ForceReconnect(t) ==
  /\ "forceReconnect" \in Calls
  /\ Free(t)
  /\ CanLock(t)
  /\ state = "RUNNING"
  /\ EnterRecovery(t, "RECONNECT")
  /\ UNCHANGED <<config, count, beatVars, threadVars, destroyed>>

\* A bug form: the configuration is written without the mutex.
MutSetConfig(t) ==
  /\ "setConfig" \in Calls
  /\ Free(t)
  /\ config' \in Configs
  /\ elapsed' \in BOOLEAN
  /\ UNCHANGED <<state, count, pending, threadVars, lock, pc, alive, destroyed>>

\* New intervals may make the one waited for pass or start again.
SetConfig(t) ==
  /\ "setConfig" \in Calls
  /\ Free(t)
  /\ CanLock(t)
  /\ config' \in Configs
  /\ elapsed' \in BOOLEAN
  /\ UNCHANGED <<state, count, pending, threadVars, lock, pc, alive, destroyed>>

-----------------------------------------------------------------------------
(* The watchdog *)

WatchdogLoop(w) ==
  /\ pc[w] = "loop"
  /\ Goto(w, IF running THEN "lock" ELSE "done")
  /\ UNCHANGED <<state, config, count, beatVars, threadVars, lock, alive,
                 destroyed>>

\* The heartbeat is overdue: the connection is taken for dead.
Overdue == state = "RUNNING" /\ pending /\ elapsed

\* Nothing is due, or the heartbeat could not be sent.
WatchdogRests(w) ==
  /\ pc[w] = "lock"
  /\ CanLock(w)
  /\ ~Overdue
  /\ Goto(w, "loop")
  /\ UNCHANGED <<state, config, count, beatVars, threadVars, lock, alive,
                 destroyed>>

WatchdogBeats(w) ==
  /\ pc[w] = "lock"
  /\ CanLock(w)
  /\ state = "RUNNING" /\ config.heartbeat
  /\ ~pending /\ elapsed
  /\ pending' = TRUE
  /\ elapsed' = FALSE
  /\ Goto(w, "loop")
  /\ UNCHANGED <<state, config, count, threadVars, lock, alive, destroyed>>

WatchdogRecovers(w) ==
  /\ pc[w] = "lock"
  /\ CanLock(w)
  /\ Overdue
  /\ EnterRecovery(w, config.mode)
  /\ UNCHANGED <<config, count, beatVars, threadVars, destroyed>>

-----------------------------------------------------------------------------
(* The world *)

Elapse ==
  /\ ~elapsed
  /\ elapsed' = TRUE
  /\ UNCHANGED <<state, config, count, pending, threadVars, lock, pc, alive,
                 destroyed>>

PeerDies ==
  /\ alive
  /\ alive' = FALSE
  /\ UNCHANGED <<state, config, count, beatVars, threadVars, lock, pc,
                 destroyed>>

-----------------------------------------------------------------------------
AppCall(t) ==
  \/ CallStart(t) \/ CallStop(t) \/ Destroy(t) \/ Reset(t)
  \/ CallTryRecover(t) \/ ForceReconnect(t) \/ SetConfig(t)

AppStep(t) == Start(t) \/ Stop(t) \/ StopJoin(t) \/ TryRecover(t)

ReconnectStep(t) == PeerIsSilent(t) \/ Reconnected(t) \/ ReconnectFails(t)

WatchdogStep(w) ==
  WatchdogLoop(w) \/ WatchdogRests(w) \/ WatchdogBeats(w) \/ WatchdogRecovers(w)

Next ==
  \/ \E t \in App : AppCall(t) \/ AppStep(t)
  \/ \E t \in Thread : ReconnectStep(t)
  \/ \E w \in Watchdog : WatchdogStep(w)
  \/ Elapse \/ PeerDies

Spec == Init /\ [][Next]_vars

\* Threads that can go on do.  A reconnect's sleep and its connect end, or the
\* handshake waits for the peer: nothing makes a silent peer answer, so a thread
\* that hangs there may hang for ever, with the mutex.  The watchdog sleeps a
\* second without the mutex, so it gets the mutex although others use it now and
\* then: its turns are strongly fair.
AttemptGoesOn(t) == pc[t] = "reconnect" /\ ReconnectStep(t)

Fairness ==
  /\ \A t \in App : SF_vars(AppStep(t))
  /\ \A t \in Thread : WF_vars(AttemptGoesOn(t))
  /\ \A w \in Watchdog : SF_vars(WatchdogStep(w))

FairSpec == Spec /\ Fairness

-----------------------------------------------------------------------------
(* Properties *)

TypeOK ==
  /\ state \in State
  /\ config \in Configs
  /\ count \in Nat
  /\ pending \in BOOLEAN
  /\ elapsed \in BOOLEAN
  /\ running \in BOOLEAN
  /\ handle \in Watchdog \cup {Nobody}
  /\ lock \in Thread \cup {Nobody}
  /\ pc \in [Thread -> AppStage \cup WatchStage \cup AttemptStage]
  /\ alive \in BOOLEAN
  /\ destroyed \in BOOLEAN

\* Two threads never tear down and rebuild the connection at the same time.
OneReconnector ==
  \A t, u \in Thread : {pc[t], pc[u]} \subseteq AttemptStage => t = u

\* The connection is rebuilt only while fewer attempts were made than the limit
\* that then holds, although the limit was read seconds before.
LimitRespected == [][count' > count => count < config.max]_vars

\* With one thread that makes the calls: a monitor that is stopped has no
\* watchdog, so it can be freed, and any other has just the one that stop joins.
WatchdogMatchesState ==
  lock = Nobody =>
    IF state = "STOPPED"
    THEN \A w \in Watchdog : pc[w] = "none"
    ELSE running /\ \A w \in Watchdog : pc[w] # "none" <=> w = handle

\* The inductive invariant behind the first two: exactly the holder of the mutex
\* is in a critical section, and the limit read before the sleep still holds.
LockHeld   == \A t \in Thread : pc[t] \in Critical <=> lock = t
BelowLimit == \A t \in Thread : pc[t] \in AttemptStage => count < config.max
MonitorInv == TypeOK /\ LockHeld /\ BelowLimit

\* The strengthening for one application thread: what each of its places says
\* about the state, and which watchdog there can be.
Places ==
  \A t \in Thread :
    /\ pc[t] = "startLock" => state = "STOPPED"
    /\ pc[t] \in {"stopLock", "tryLock"} \cup Critical => state # "STOPPED"
    /\ pc[t] = "join" => ~running
    /\ t \in App => pc[t] \in AppStage \cup AttemptStage
    /\ t \in Watchdog => pc[t] \in WatchStage \cup AttemptStage
OneWatchdog ==
  /\ \A w \in Watchdog : pc[w] # "none" => w = handle /\ state # "STOPPED"
  /\ state # "STOPPED" =>
       /\ handle \in Watchdog /\ pc[handle] # "none"
       /\ running \/ \E t \in App : pc[t] = "join"
OneAppInv == MonitorInv /\ Places /\ OneWatchdog

\* The watchdog takes a connection for dead only when its peer has stopped
\* answering.
RecoversOnlyDead ==
  [][\A w \in Watchdog :
       (pc[w] = "lock" /\ pc'[w] = "reconnect") => ~alive]_vars

\* A recovery ends, in success or failure, unless the new peer accepts the
\* connection and then says nothing: the thread that recovers waits for it with
\* the mutex held, for ever if it stays silent.
RecoveryEnds ==
  state = "RECOVERING" ~>
    state # "RECOVERING" \/ \E t \in Thread : pc[t] = "hung"

\* A heartbeat that stays unanswered is noticed, or the application stops the
\* monitor: a stop that waits for the watchdog may wait for ever.
LossIsNoticed == Overdue ~> ~Overdue \/ \E t \in App : pc[t] = "join"
=============================================================================
