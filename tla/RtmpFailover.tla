---------------------------- MODULE RtmpFailover ----------------------------
(***************************************************************************)
(* The failover handler of src/rtmp_failover.c: threads of the application *)
(* that start, stop and trigger it, and its health thread.  A switch to    *)
(* another server, network or to local recording runs with the handler's   *)
(* mutex held and tears the connection down first.  The mutex is a default *)
(* one: a thread that takes it twice waits for itself.                     *)
(***************************************************************************)
EXTENDS Integers

CONSTANTS App,       \* threads of the application
          Nobody,    \* no thread
          Server,    \* names of backup servers
          NoName,    \* the empty string
          Configs,   \* configurations the application may set
          Events     \* the optional happenings of a run, among AllEvents

Health == "health"
Thread == App \cup {Health}

Type == {"SERVER", "NETWORK", "LOCAL"}

\* The interfaces switch_network tries, and those is_network_available accepts.
Interface == {"en0", "en1", "pdp_ip0", "pdp_ip1"}
Available == {"en0", "pdp_ip0"}

\* path: localRecordingPath is not empty.
Config == [enabled : SUBSET Type, max : Nat, backups : SUBSET Server,
           path : BOOLEAN]

\* "stop", "config", "check": the application stops or destroys the handler,
\* configures it, asks for a health check; "elapse": the interval passes.
AllEvents == {"stop", "config", "check", "elapse"}

ASSUME ThreadAssumption == Health \notin App /\ Nobody \notin Thread
ASSUME NameAssumption   == NoName \notin Server \cup Interface
ASSUME ConfigAssumption == Configs \subseteq Config
ASSUME EventsAssumption == Events \subseteq AllEvents

VARIABLES
  state,      \* status.state
  type,       \* status.currentType
  attempts,   \* status.switchAttempts
  healthy,    \* status.isHealthy
  server,     \* status.currentServer
  network,    \* status.currentNetwork
  due,        \* healthCheckInterval passed since status.healthCheckTime
  config,     \* handler->config
  running,    \* handler->threadRunning
  lock,       \* the thread that holds handler->mutex
  pc,         \* where each thread is
  want,       \* the type a thread triggers
  link,       \* handler->rtmp: "down", "open" (rtmp_connect returned), or "up"
  recording,  \* local recording was started and not stopped
  destroyed   \* the handler was freed

vars == <<state, type, attempts, healthy, server, network, due, config,
          running, lock, pc, want, link, recording, destroyed>>
statusVars == <<state, type, attempts, healthy>>
placeVars  == <<server, network, link, recording>>
restVars   == <<due, config, running, destroyed>>

Link  == {"down", "open", "up"}
State == {"IDLE", "ACTIVE", "SWITCHING", "FAILED"}
AppStage == {"idle", "trigger", "switch", "join"}
HealthStage == {"none", "loop", "lock", "relock", "done"}

\* Where a thread holds the mutex.
Critical == {"switch", "join", "relock"}

Init ==
  /\ state = "IDLE"
  /\ type = "NONE"
  /\ attempts = 0
  /\ healthy = TRUE
  /\ server = NoName
  /\ network = NoName
  /\ due \in BOOLEAN
  /\ config \in Configs
  /\ running = FALSE
  /\ lock = Nobody
  /\ pc = [t \in Thread |-> IF t = Health THEN "none" ELSE "idle"]
  /\ want = [t \in Thread |-> "NONE"]
  /\ link \in Link
  /\ recording = FALSE
  /\ destroyed = FALSE

CanLock(t) == lock = Nobody
Goto(t, stage) == pc' = [pc EXCEPT ![t] = stage]
Free(t) == pc[t] = "idle" /\ ~destroyed

-----------------------------------------------------------------------------
(* rtmp_failover_start, _stop, _destroy and _reset *)

Start(t) ==
  /\ Free(t)
  /\ CanLock(t)
  /\ state = "IDLE"
  /\ state' = "ACTIVE"
  /\ attempts' = 0
  /\ due' = FALSE
  /\ running' = TRUE
  /\ Goto(Health, "loop")
  /\ UNCHANGED <<type, healthy, config, destroyed, placeVars, lock, want>>

Stop(t) ==
  /\ "stop" \in Events
  /\ Free(t)
  /\ CanLock(t)
  /\ state # "IDLE"
  /\ running' = FALSE
  /\ lock' = t
  /\ Goto(t, "join")
  /\ UNCHANGED <<statusVars, placeVars, due, config, destroyed, want>>

\* The health thread is joined with the mutex held; a recording is stopped if
\* it is what the handler last switched to.
StopJoin(t) ==
  /\ pc[t] = "join"
  /\ pc[Health] = "done"
  /\ recording' = (recording /\ type # "LOCAL")
  /\ state' = "IDLE"
  /\ type' = "NONE"
  /\ lock' = Nobody
  /\ pc' = [pc EXCEPT ![t] = "idle", ![Health] = "none"]
  /\ UNCHANGED <<attempts, healthy, server, network, link, restVars, want>>

\* After the stop it calls; no other call is under way.
Destroy(t) ==
  /\ "stop" \in Events
  /\ Free(t)
  /\ state = "IDLE"
  /\ \A u \in App : pc[u] = "idle"
  /\ destroyed' = TRUE
  /\ UNCHANGED <<statusVars, placeVars, due, config, running, lock, pc, want>>

\* A bug form: whatever the state was, the handler is active again.
MutReset(t) ==
  /\ Free(t)
  /\ CanLock(t)
  /\ attempts' = 0
  /\ due' = FALSE
  /\ healthy' = TRUE
  /\ state' = "ACTIVE"
  /\ UNCHANGED <<type, config, running, destroyed, placeVars, lock, pc, want>>

Reset(t) ==
  /\ Free(t)
  /\ CanLock(t)
  /\ attempts' = 0
  /\ due' = FALSE
  /\ healthy' = TRUE
  /\ state' = IF state = "FAILED" THEN "ACTIVE" ELSE state
  /\ UNCHANGED <<type, config, running, destroyed, placeVars, lock, pc, want>>

\* rtmp_failover_set_config; a new interval may pass earlier or later.
SetConfig(t) ==
  /\ "config" \in Events
  /\ Free(t)
  /\ CanLock(t)
  /\ config' \in Configs
  /\ due' \in BOOLEAN
  /\ UNCHANGED <<statusVars, placeVars, running, destroyed, lock, pc, want>>

SetHealthy(t) ==
  /\ "config" \in Events
  /\ Free(t)
  /\ CanLock(t)
  /\ healthy' \in BOOLEAN
  /\ UNCHANGED <<state, type, attempts, placeVars, restVars, lock, pc, want>>

-----------------------------------------------------------------------------
(* rtmp_failover_trigger and the three switches *)

CallTrigger(t, what) ==
  /\ Free(t)
  /\ want' = [want EXCEPT ![t] = what]
  /\ Goto(t, "trigger")
  /\ UNCHANGED <<statusVars, placeVars, restVars, lock>>

MaySwitch == state = "ACTIVE" /\ attempts < config.max

TriggerRefused(t) ==
  /\ pc[t] = "trigger"
  /\ CanLock(t)
  /\ ~MaySwitch
  /\ Goto(t, "idle")
  /\ UNCHANGED <<statusVars, placeVars, restVars, lock, want>>

\* A bug form: local recording starts beside the stream.
MutTearsDown(what) ==
  /\ what \in config.enabled \ {"LOCAL"}
  /\ what = "SERVER" => config.backups # {}

\* The switch begins by closing the connection: a server switch once there is a
\* backup to try, the others at once, and a switch that is disabled never.
TearsDown(what) ==
  /\ what \in config.enabled
  /\ what = "SERVER" => config.backups # {}

\* A bug form: the state check of trigger is dropped.
MutTriggerBegin(t) ==
  /\ pc[t] = "trigger"
  /\ CanLock(t)
  /\ attempts < config.max
  /\ state' = "SWITCHING"
  /\ type' = want[t]
  /\ attempts' = attempts + 1
  /\ link' = IF TearsDown(want[t]) THEN "down" ELSE link
  /\ Goto(t, "switch")
  /\ UNCHANGED <<healthy, server, network, recording, restVars, want, lock>>

TriggerBegin(t) ==
  /\ pc[t] = "trigger"
  /\ CanLock(t)
  /\ MaySwitch
  /\ lock' = t
  /\ state' = "SWITCHING"
  /\ type' = want[t]
  /\ attempts' = attempts + 1
  /\ link' = IF TearsDown(want[t]) THEN "down" ELSE link
  /\ Goto(t, "switch")
  /\ UNCHANGED <<healthy, server, network, recording, restVars, want>>

Switching(t, what) == pc[t] = "switch" /\ want[t] = what

\* The end of trigger: the new state, and the mutex is given back.
SwitchEnds(t, result) ==
  /\ state' = result
  /\ lock' = Nobody
  /\ Goto(t, "idle")
  /\ UNCHANGED <<type, attempts, healthy, restVars, want>>

SwitchServer(t) ==
  /\ Switching(t, "SERVER")
  /\ "SERVER" \in config.enabled
  /\ server' \in config.backups
  /\ link' = "open"
  /\ SwitchEnds(t, "ACTIVE")
  /\ UNCHANGED <<network, recording>>

\* A bug form: neither the interface nor the server's name is looked at.
MutSwitchNetwork(t) ==
  /\ Switching(t, "NETWORK")
  /\ "NETWORK" \in config.enabled
  /\ network' \in Interface \ {network}
  /\ link' = "open"
  /\ SwitchEnds(t, "ACTIVE")
  /\ UNCHANGED <<server, recording>>

\* Another interface leads to the current server; an empty name does not parse.
SwitchNetwork(t) ==
  /\ Switching(t, "NETWORK")
  /\ "NETWORK" \in config.enabled
  /\ server # NoName
  /\ network' \in Available \ {network}
  /\ link' = "open"
  /\ SwitchEnds(t, "ACTIVE")
  /\ UNCHANGED <<server, recording>>

CanRecord == "LOCAL" \in config.enabled /\ config.path

SwitchLocal(t) ==
  /\ Switching(t, "LOCAL")
  /\ CanRecord
  /\ recording' = TRUE
  /\ SwitchEnds(t, "ACTIVE")
  /\ UNCHANGED <<server, network, link>>

\* Disabled, nothing to switch to, or nothing answered within switchTimeout.
SwitchFails(t) ==
  /\ pc[t] = "switch"
  /\ ~(want[t] = "LOCAL" /\ CanRecord)
  /\ SwitchEnds(t, "FAILED")
  /\ UNCHANGED placeVars

-----------------------------------------------------------------------------
(* perform_health_check, by the health thread with the mutex held and by the *)
(* application without it                                                    *)

\* rtmp_is_connected, the network, and whether the ping could be sent.
Verdict(sent) == link = "up" /\ network \in Available /\ sent

\* What an unhealthy connection triggers: the first type that is enabled.
AutoType ==
  IF "SERVER" \in config.enabled THEN "SERVER"
  ELSE IF "NETWORK" \in config.enabled THEN "NETWORK"
  ELSE IF "LOCAL" \in config.enabled THEN "LOCAL" ELSE "NONE"

CheckHealth(t) ==
  /\ "check" \in Events
  /\ Free(t)
  /\ \E sent \in BOOLEAN : healthy' = Verdict(sent)
  /\ IF healthy' \/ AutoType = "NONE"
     THEN UNCHANGED <<pc, want>>
     ELSE Goto(t, "trigger") /\ want' = [want EXCEPT ![t] = AutoType]
  /\ UNCHANGED <<state, type, attempts, placeVars, restVars, lock>>

HealthLoop ==
  /\ pc[Health] = "loop"
  /\ Goto(Health, IF running THEN "lock" ELSE "done")
  /\ UNCHANGED <<statusVars, placeVars, restVars, lock, want>>

HealthRests ==
  /\ pc[Health] = "lock"
  /\ CanLock(Health)
  /\ ~(state = "ACTIVE" /\ due)
  /\ Goto(Health, "loop")
  /\ UNCHANGED <<statusVars, placeVars, restVars, lock, want>>

\* A check that triggers nothing.
HealthChecks ==
  /\ pc[Health] = "lock"
  /\ CanLock(Health)
  /\ state = "ACTIVE" /\ due
  /\ \E sent \in BOOLEAN : healthy' = Verdict(sent)
  /\ healthy' \/ AutoType = "NONE"
  /\ due' = FALSE
  /\ Goto(Health, "loop")
  /\ UNCHANGED <<state, type, attempts, placeVars, config, running, destroyed,
                 lock, want>>

\* A check that triggers: trigger then waits for the mutex its thread holds, so
\* nothing follows "relock".
HealthTriggers ==
  /\ pc[Health] = "lock"
  /\ CanLock(Health)
  /\ state = "ACTIVE" /\ due
  /\ \E sent \in BOOLEAN : ~Verdict(sent)
  /\ healthy' = FALSE
  /\ AutoType # "NONE"
  /\ lock' = Health
  /\ want' = [want EXCEPT ![Health] = AutoType]
  /\ Goto(Health, "relock")
  /\ UNCHANGED <<state, type, attempts, placeVars, restVars>>

-----------------------------------------------------------------------------
(* The world *)

Elapse ==
  /\ "elapse" \in Events
  /\ ~due
  /\ due' = TRUE
  /\ UNCHANGED <<statusVars, placeVars, config, running, destroyed, lock, pc,
                 want>>

\* The server answers the connect command; the connection is closed.
Answer ==
  /\ link = "open"
  /\ link' = "up"
  /\ UNCHANGED <<statusVars, server, network, recording, restVars, lock, pc,
                 want>>

Drop ==
  /\ link # "down"
  /\ link' = "down"
  /\ UNCHANGED <<statusVars, server, network, recording, restVars, lock, pc,
                 want>>

-----------------------------------------------------------------------------
AppCall(t) ==
  \/ Start(t) \/ Stop(t) \/ Destroy(t) \/ Reset(t)
  \/ SetConfig(t) \/ SetHealthy(t) \/ CheckHealth(t)
  \/ \E what \in Type \cup {"NONE"} : CallTrigger(t, what)

TriggerStep(t) ==
  \/ TriggerRefused(t) \/ TriggerBegin(t)
  \/ SwitchServer(t) \/ SwitchNetwork(t) \/ SwitchLocal(t) \/ SwitchFails(t)

HealthStep == HealthLoop \/ HealthRests \/ HealthChecks \/ HealthTriggers

Next ==
  \/ \E t \in App : AppCall(t) \/ TriggerStep(t) \/ StopJoin(t)
  \/ HealthStep
  \/ Elapse \/ Answer \/ Drop

Spec == Init /\ [][Next]_vars

\* Threads that can go on do: a switch ends after switchTimeout at the latest,
\* and a thread that waits for a mutex others give back gets it in the end.
Fairness ==
  /\ \A t \in App : SF_vars(TriggerStep(t)) /\ WF_vars(StopJoin(t))
  /\ SF_vars(HealthStep)

FairSpec == Spec /\ Fairness

-----------------------------------------------------------------------------
(* Properties *)

TypeOK ==
  /\ state \in State
  /\ type \in Type \cup {"NONE"}
  /\ attempts \in Nat
  /\ healthy \in BOOLEAN
  /\ server \in Server \cup {NoName}
  /\ network \in Available \cup {NoName}
  /\ due \in BOOLEAN
  /\ config \in Configs
  /\ running \in BOOLEAN
  /\ lock \in Thread \cup {Nobody}
  /\ pc \in [Thread -> AppStage \cup HealthStage]
  /\ want \in [Thread -> Type \cup {"NONE"}]
  /\ link \in Link
  /\ recording \in BOOLEAN
  /\ destroyed \in BOOLEAN

\* The status says SWITCHING exactly while one thread is between the two state
\* changes of trigger, so a second trigger never starts inside a switch and
\* none is left behind in SWITCHING.
OneSwitch ==
  /\ \A t, u \in Thread : pc[t] = "switch" /\ pc[u] = "switch" => t = u
  /\ state = "SWITCHING" <=> \E t \in Thread : pc[t] = "switch"

\* A handler is idle exactly while it has no health thread, however many threads
\* start and stop it: start neither loses a thread nor stop the handler's.
IdleHasNoThread ==
  lock = Nobody => (state = "IDLE" <=> pc[Health] = "none")

\* A network can only be switched after a server was: until then the server to
\* reconnect to has no name.  With no network the health check never passes.
NetworkNeedsServer == network # NoName => server # NoName

\* Local recording begins only once the stream it stands in for is down.
RecordsOffline == [][~recording /\ recording' => link' = "down"]_vars

\* The inductive invariant.  Exactly the holder of the mutex is in a critical
\* section; the state and the health thread follow who holds it; a switch to
\* local recording that will succeed has no connection.
LockHeld == \A t \in Thread : pc[t] \in Critical <=> lock = t
Stages ==
  /\ \A t \in App : pc[t] \in AppStage
  /\ pc[Health] \in HealthStage
StateFollows ==
  /\ state = "SWITCHING" <=> \E t \in App : pc[t] = "switch"
  /\ state = "IDLE" <=> pc[Health] = "none"
LocalIsDown ==
  \A t \in App : Switching(t, "LOCAL") /\ CanRecord => link = "down"
FailoverInv == /\ TypeOK /\ LockHeld /\ Stages /\ StateFollows
               /\ NetworkNeedsServer /\ LocalIsDown

\* A failover that a health check triggers takes place.
AutoFailover == pc[Health] = "relock" ~> state \in {"SWITCHING", "FAILED"}
=============================================================================
