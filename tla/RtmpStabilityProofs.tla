------------------------ MODULE RtmpStabilityProofs ------------------------
(***************************************************************************)
(* The safety of RtmpStability: for any number of application threads and  *)
(* any configurations, reconnects exclude each other and respect the       *)
(* limit; and with one application thread and configurations that use the  *)
(* watchdog, a stopped monitor has no watchdog left.                       *)
(***************************************************************************)
EXTENDS RtmpStability, TLAPS

\* The invariant holds at the start.
LEMMA InitMonitorInv == Init => MonitorInv
<1> SUFFICES ASSUME Init PROVE MonitorInv
  OBVIOUS
<1> USE ThreadAssumption, ConfigAssumption DEF Init, Thread
<1>1. TypeOK
  BY DEF TypeOK, State, AppStage, WatchStage, AttemptStage
<1>2. LockHeld /\ BelowLimit
  BY DEF LockHeld, BelowLimit, Critical, AttemptStage
<1> QED BY <1>1, <1>2 DEF MonitorInv

\* A config's limit is a number.
LEMMA LimitType == TypeOK => config.max \in Nat
  BY ConfigAssumption DEF TypeOK, Config

\* The application's calls keep it.
LEMMA AppKeepsMonitorInv ==
  ASSUME MonitorInv, NEW t \in App, AppCall(t) \/ AppStep(t)
  PROVE  MonitorInv'
<1> USE ThreadAssumption, ConfigAssumption
    DEF MonitorInv, Thread, State, AppStage, WatchStage, AttemptStage, Critical, Goto, Home,
        beatVars, threadVars
<1>1. CASE CallStart(t)
  <2> USE <1>1 DEF CallStart, Free
  <2>1. TypeOK'
    BY DEF TypeOK
  <2>2. LockHeld'
    BY DEF TypeOK, LockHeld
  <2>3. BelowLimit'
    BY LimitType DEF TypeOK, LockHeld, BelowLimit
  <2> QED BY <2>1, <2>2, <2>3
<1>2. CASE Start(t)
  <2> USE <1>2 DEF Start, CanLock
  <2>1. TypeOK'
    BY DEF TypeOK
  <2>2. LockHeld'
    BY DEF TypeOK, LockHeld
  <2>3. BelowLimit'
    BY LimitType DEF TypeOK, LockHeld, BelowLimit
  <2> QED BY <2>1, <2>2, <2>3
<1>3. CASE CallStop(t)
  <2> USE <1>3 DEF CallStop, Free
  <2>1. TypeOK'
    BY DEF TypeOK
  <2>2. LockHeld'
    BY DEF TypeOK, LockHeld
  <2>3. BelowLimit'
    BY LimitType DEF TypeOK, LockHeld, BelowLimit
  <2> QED BY <2>1, <2>2, <2>3
<1>4. CASE Stop(t)
  <2> USE <1>4 DEF Stop, CanLock
  <2>1. TypeOK'
    BY DEF TypeOK
  <2>2. LockHeld'
    BY DEF TypeOK, LockHeld
  <2>3. BelowLimit'
    BY LimitType DEF TypeOK, LockHeld, BelowLimit
  <2> QED BY <2>1, <2>2, <2>3
<1>5. CASE StopJoin(t)
  <2> USE <1>5 DEF StopJoin
  <2>1. TypeOK'
    BY DEF TypeOK
  <2>2. LockHeld'
    BY DEF TypeOK, LockHeld
  <2>3. BelowLimit'
    BY LimitType DEF TypeOK, LockHeld, BelowLimit
  <2> QED BY <2>1, <2>2, <2>3
<1>6. CASE Destroy(t)
  <2> USE <1>6 DEF Destroy, Free
  <2>1. TypeOK'
    BY DEF TypeOK
  <2>2. LockHeld'
    BY DEF TypeOK, LockHeld
  <2>3. BelowLimit'
    BY LimitType DEF TypeOK, LockHeld, BelowLimit
  <2> QED BY <2>1, <2>2, <2>3
<1>7. CASE Reset(t)
  <2> USE <1>7 DEF Reset, Free, CanLock
  <2>1. TypeOK'
    BY DEF TypeOK
  <2>2. LockHeld'
    BY DEF TypeOK, LockHeld
  <2>3. BelowLimit'
    BY LimitType DEF TypeOK, LockHeld, BelowLimit
  <2> QED BY <2>1, <2>2, <2>3
<1>8. CASE CallTryRecover(t)
  <2> USE <1>8 DEF CallTryRecover, Free
  <2>1. TypeOK'
    BY DEF TypeOK
  <2>2. LockHeld'
    BY DEF TypeOK, LockHeld
  <2>3. BelowLimit'
    BY LimitType DEF TypeOK, LockHeld, BelowLimit
  <2> QED BY <2>1, <2>2, <2>3
<1>9. CASE TryRecover(t)
  <2> USE <1>9 DEF TryRecover, CanLock
  <2>1. TypeOK'
    BY DEF TypeOK
  <2>2. LockHeld'
    BY DEF TypeOK, LockHeld
  <2>3. BelowLimit'
    BY LimitType DEF TypeOK, LockHeld, BelowLimit
  <2> QED BY <2>1, <2>2, <2>3
<1>10. CASE ForceReconnect(t)
  <2> USE <1>10 DEF ForceReconnect, Free, CanLock, EnterRecovery,
         AttemptReconnect
  <2>1. TypeOK'
    BY DEF TypeOK
  <2>2. LockHeld'
    BY DEF TypeOK, LockHeld
  <2>3. BelowLimit'
    BY LimitType DEF TypeOK, LockHeld, BelowLimit
  <2> QED BY <2>1, <2>2, <2>3
<1>11. CASE SetConfig(t)
  <2> USE <1>11 DEF SetConfig, Free, CanLock
  <2>1. TypeOK'
    BY DEF TypeOK
  <2>2. LockHeld'
    BY DEF TypeOK, LockHeld
  <2>3. BelowLimit'
    BY LimitType DEF TypeOK, LockHeld, BelowLimit
  <2> QED BY <2>1, <2>2, <2>3
<1> QED BY <1>1, <1>2, <1>3, <1>4, <1>5, <1>6, <1>7, <1>8, <1>9, <1>10,
       <1>11 DEF AppCall, AppStep

\* The end of a reconnect keeps it.
LEMMA ReconnectKeepsMonitorInv ==
  ASSUME MonitorInv, NEW t \in Thread, ReconnectStep(t)
  PROVE  MonitorInv'
<1> USE ThreadAssumption, ConfigAssumption
    DEF MonitorInv, Thread, State, AppStage, WatchStage, AttemptStage, Critical, Goto, Home,
        beatVars, threadVars
<1>1. CASE Reconnected(t)
  <2> USE <1>1 DEF Reconnected
  <2>1. TypeOK'
    BY DEF TypeOK
  <2>2. LockHeld'
    BY DEF TypeOK, LockHeld
  <2>3. BelowLimit'
    BY LimitType DEF TypeOK, LockHeld, BelowLimit
  <2> QED BY <2>1, <2>2, <2>3
<1>2. CASE ReconnectFails(t)
  <2> USE <1>2 DEF ReconnectFails
  <2>1. TypeOK'
    BY DEF TypeOK
  <2>2. LockHeld'
    BY DEF TypeOK, LockHeld
  <2>3. BelowLimit'
    BY LimitType DEF TypeOK, LockHeld, BelowLimit
  <2> QED BY <2>1, <2>2, <2>3
<1>3. CASE PeerIsSilent(t)
  <2> USE <1>3 DEF PeerIsSilent
  <2>1. TypeOK'
    BY DEF TypeOK
  <2>2. LockHeld'
    BY DEF TypeOK, LockHeld
  <2>3. BelowLimit'
    BY LimitType DEF TypeOK, LockHeld, BelowLimit
  <2> QED BY <2>1, <2>2, <2>3
<1> QED BY <1>1, <1>2, <1>3 DEF ReconnectStep

\* A turn of the watchdog keeps it.
LEMMA WatchdogKeepsMonitorInv ==
  ASSUME MonitorInv, NEW w \in Watchdog, WatchdogStep(w)
  PROVE  MonitorInv'
<1> USE ThreadAssumption, ConfigAssumption
    DEF MonitorInv, Thread, State, AppStage, WatchStage, AttemptStage, Critical, Goto, Home,
        beatVars, threadVars
<1>1. CASE WatchdogLoop(w)
  <2> USE <1>1 DEF WatchdogLoop
  <2>1. TypeOK'
    BY DEF TypeOK
  <2>2. LockHeld'
    BY DEF TypeOK, LockHeld
  <2>3. BelowLimit'
    BY LimitType DEF TypeOK, LockHeld, BelowLimit
  <2> QED BY <2>1, <2>2, <2>3
<1>2. CASE WatchdogRests(w)
  <2> USE <1>2 DEF WatchdogRests, CanLock
  <2>1. TypeOK'
    BY DEF TypeOK
  <2>2. LockHeld'
    BY DEF TypeOK, LockHeld
  <2>3. BelowLimit'
    BY LimitType DEF TypeOK, LockHeld, BelowLimit
  <2> QED BY <2>1, <2>2, <2>3
<1>3. CASE WatchdogBeats(w)
  <2> USE <1>3 DEF WatchdogBeats, CanLock
  <2>1. TypeOK'
    BY DEF TypeOK
  <2>2. LockHeld'
    BY DEF TypeOK, LockHeld
  <2>3. BelowLimit'
    BY LimitType DEF TypeOK, LockHeld, BelowLimit
  <2> QED BY <2>1, <2>2, <2>3
<1>4. CASE WatchdogRecovers(w)
  <2> USE <1>4 DEF WatchdogRecovers, CanLock, EnterRecovery,
         AttemptReconnect, Overdue
  <2>1. TypeOK'
    BY DEF TypeOK
  <2>2. LockHeld'
    BY DEF TypeOK, LockHeld
  <2>3. BelowLimit'
    BY LimitType DEF TypeOK, LockHeld, BelowLimit
  <2> QED BY <2>1, <2>2, <2>3
<1> QED BY <1>1, <1>2, <1>3, <1>4 DEF WatchdogStep

\* MonitorInv is inductive.
LEMMA NextMonitorInv == MonitorInv /\ [Next]_vars => MonitorInv'
<1> SUFFICES ASSUME MonitorInv, [Next]_vars PROVE MonitorInv'
  OBVIOUS
<1> USE DEF MonitorInv, TypeOK, LockHeld, BelowLimit, beatVars, threadVars
<1>1. CASE UNCHANGED vars
  BY <1>1 DEF vars
<1>2. CASE Elapse
  BY <1>2 DEF Elapse
<1>3. CASE PeerDies
  BY <1>3 DEF PeerDies
<1> QED
  BY <1>1, <1>2, <1>3, AppKeepsMonitorInv, ReconnectKeepsMonitorInv,
     WatchdogKeepsMonitorInv DEF Next

LEMMA InvariantMonitorInv == Spec => []MonitorInv
  BY InitMonitorInv, NextMonitorInv, PTL DEF Spec

-----------------------------------------------------------------------------
\* The model's variables keep their types.
THEOREM StabilityTypes == Spec => []TypeOK
<1>1. MonitorInv => TypeOK
  BY DEF MonitorInv
<1> QED BY <1>1, InvariantMonitorInv, PTL

\* No two threads rebuild the connection at once, whatever calls are made.
THEOREM ReconnectsExclude == Spec => []OneReconnector
<1>1. MonitorInv => OneReconnector
  BY ThreadAssumption
  DEF MonitorInv, TypeOK, LockHeld, OneReconnector, Critical, AttemptStage, Thread
<1> QED BY <1>1, InvariantMonitorInv, PTL

\* The limit that was read before the reconnect's sleep is the limit after it.
THEOREM LimitIsRespected == Spec => LimitRespected
<1>1. ASSUME MonitorInv, [Next]_vars
      PROVE  [count' > count => count < config.max]_vars
  <2> SUFFICES ASSUME Next, count' > count PROVE count < config.max
    BY <1>1
  <2> USE DEF beatVars, threadVars
  <2>1. count \in Nat
    BY <1>1 DEF MonitorInv, TypeOK
  <2>2. CASE \E t \in Thread : ReconnectStep(t)
    BY <1>1, <2>1, <2>2
    DEF MonitorInv, BelowLimit, ReconnectStep, PeerIsSilent, Reconnected,
        ReconnectFails
  <2>3. ASSUME NEW t \in App, AppCall(t) \/ AppStep(t)
        PROVE  count' \in {0, count}
    BY <2>3
    DEF AppCall, AppStep, CallStart, Start, CallStop, Stop, StopJoin, Destroy,
        Reset, CallTryRecover, TryRecover, ForceReconnect, SetConfig
  <2>4. ASSUME NEW w \in Watchdog, WatchdogStep(w) PROVE count' = count
    BY <2>4
    DEF WatchdogStep, WatchdogLoop, WatchdogRests, WatchdogBeats,
        WatchdogRecovers
  <2>5. CASE Elapse \/ PeerDies
    BY <2>1, <2>5 DEF Elapse, PeerDies
  <2> QED BY <2>1, <2>2, <2>3, <2>4, <2>5 DEF Next
<1> QED BY <1>1, InvariantMonitorInv, PTL DEF Spec, LimitRespected

-----------------------------------------------------------------------------
(* One application thread, and configurations that use the watchdog. *)

OneApp(a) == App = {a} /\ \A c \in Configs : c.watchdog

LEMMA InitOneApp ==
  ASSUME NEW a, OneApp(a), Init
  PROVE  OneAppInv
<1> USE ThreadAssumption DEF Init, OneApp, Thread
<1>1. Places
  BY DEF Places, AppStage, WatchStage, AttemptStage, Critical
<1>2. OneWatchdog
  BY DEF OneWatchdog
<1> QED BY <1>1, <1>2, InitMonitorInv DEF OneAppInv

\* The application thread keeps it.
LEMMA AppKeepsOneApp ==
  ASSUME NEW a, OneApp(a), OneAppInv, MonitorInv',
         NEW t \in App, AppCall(t) \/ AppStep(t)
  PROVE  OneAppInv'
<1> USE ThreadAssumption, ConfigAssumption
    DEF OneAppInv, MonitorInv, TypeOK, LockHeld, OneApp, Thread, Critical,
        AppStage, WatchStage, AttemptStage, Goto, Home, beatVars, threadVars
<1>1. CASE CallStart(t)
  <2> USE <1>1 DEF CallStart, Free
  <2>1. Places'
    BY DEF Places, OneWatchdog
  <2>2. OneWatchdog'
    BY DEF Places, OneWatchdog
  <2> QED BY <2>1, <2>2
<1>2. CASE Start(t)
  <2> USE <1>2 DEF Start, CanLock
  <2>1. Places'
    BY DEF Places, OneWatchdog
  <2>2. OneWatchdog'
    BY DEF Places, OneWatchdog
  <2> QED BY <2>1, <2>2
<1>3. CASE CallStop(t)
  <2> USE <1>3 DEF CallStop, Free
  <2>1. Places'
    BY DEF Places, OneWatchdog
  <2>2. OneWatchdog'
    BY DEF Places, OneWatchdog
  <2> QED BY <2>1, <2>2
<1>4. CASE Stop(t)
  <2> USE <1>4 DEF Stop, CanLock
  <2>1. Places'
    BY DEF Places, OneWatchdog
  <2>2. OneWatchdog'
    BY DEF Places, OneWatchdog
  <2> QED BY <2>1, <2>2
<1>5. CASE StopJoin(t)
  <2> USE <1>5 DEF StopJoin
  <2>1. Places'
    BY DEF Places, OneWatchdog
  <2>2. OneWatchdog'
    BY DEF Places, OneWatchdog
  <2> QED BY <2>1, <2>2
<1>6. CASE Destroy(t)
  <2> USE <1>6 DEF Destroy, Free
  <2>1. Places'
    BY DEF Places, OneWatchdog
  <2>2. OneWatchdog'
    BY DEF Places, OneWatchdog
  <2> QED BY <2>1, <2>2
<1>7. CASE Reset(t)
  <2> USE <1>7 DEF Reset, Free, CanLock
  <2>1. Places'
    BY DEF Places, OneWatchdog
  <2>2. OneWatchdog'
    BY DEF Places, OneWatchdog
  <2> QED BY <2>1, <2>2
<1>8. CASE CallTryRecover(t)
  <2> USE <1>8 DEF CallTryRecover, Free
  <2>1. Places'
    BY DEF Places, OneWatchdog
  <2>2. OneWatchdog'
    BY DEF Places, OneWatchdog
  <2> QED BY <2>1, <2>2
<1>9. CASE TryRecover(t)
  <2> USE <1>9 DEF TryRecover, CanLock
  <2>1. Places'
    BY DEF Places, OneWatchdog
  <2>2. OneWatchdog'
    BY DEF Places, OneWatchdog
  <2> QED BY <2>1, <2>2
<1>10. CASE ForceReconnect(t)
  <2> USE <1>10 DEF ForceReconnect, Free, CanLock, EnterRecovery,
         AttemptReconnect
  <2>1. Places'
    BY DEF Places, OneWatchdog
  <2>2. OneWatchdog'
    BY DEF Places, OneWatchdog
  <2> QED BY <2>1, <2>2
<1>11. CASE SetConfig(t)
  <2> USE <1>11 DEF SetConfig, Free, CanLock
  <2>1. Places'
    BY DEF Places, OneWatchdog
  <2>2. OneWatchdog'
    BY DEF Places, OneWatchdog
  <2> QED BY <2>1, <2>2
<1> QED BY <1>1, <1>2, <1>3, <1>4, <1>5, <1>6, <1>7, <1>8, <1>9, <1>10,
       <1>11 DEF AppCall, AppStep

\* So does the end of a reconnect.
LEMMA ReconnectKeepsOneApp ==
  ASSUME NEW a, OneApp(a), OneAppInv, MonitorInv',
         NEW t \in Thread, ReconnectStep(t)
  PROVE  OneAppInv'
<1> USE ThreadAssumption, ConfigAssumption
    DEF OneAppInv, MonitorInv, TypeOK, LockHeld, OneApp, Thread, Critical,
        AppStage, WatchStage, AttemptStage, Goto, Home, beatVars, threadVars
<1>1. CASE Reconnected(t)
  <2> USE <1>1 DEF Reconnected
  <2>1. Places'
    BY DEF Places, OneWatchdog
  <2>2. OneWatchdog'
    BY DEF Places, OneWatchdog
  <2> QED BY <2>1, <2>2
<1>2. CASE ReconnectFails(t)
  <2> USE <1>2 DEF ReconnectFails
  <2>1. Places'
    BY DEF Places, OneWatchdog
  <2>2. OneWatchdog'
    BY DEF Places, OneWatchdog
  <2> QED BY <2>1, <2>2
<1>3. CASE PeerIsSilent(t)
  <2> USE <1>3 DEF PeerIsSilent
  <2>1. Places'
    BY DEF Places, OneWatchdog
  <2>2. OneWatchdog'
    BY DEF Places, OneWatchdog
  <2> QED BY <2>1, <2>2
<1> QED BY <1>1, <1>2, <1>3 DEF ReconnectStep

\* So does a turn of the watchdog.
LEMMA WatchdogKeepsOneApp ==
  ASSUME NEW a, OneApp(a), OneAppInv, MonitorInv',
         NEW w \in Watchdog, WatchdogStep(w)
  PROVE  OneAppInv'
<1> USE ThreadAssumption, ConfigAssumption
    DEF OneAppInv, MonitorInv, TypeOK, LockHeld, OneApp, Thread, Critical,
        AppStage, WatchStage, AttemptStage, Goto, Home, beatVars, threadVars
<1>1. CASE WatchdogLoop(w)
  <2> USE <1>1 DEF WatchdogLoop
  <2>1. Places'
    BY DEF Places, OneWatchdog
  <2>2. OneWatchdog'
    BY DEF Places, OneWatchdog
  <2> QED BY <2>1, <2>2
<1>2. CASE WatchdogRests(w)
  <2> USE <1>2 DEF WatchdogRests, CanLock
  <2>1. Places'
    BY DEF Places, OneWatchdog
  <2>2. OneWatchdog'
    BY DEF Places, OneWatchdog
  <2> QED BY <2>1, <2>2
<1>3. CASE WatchdogBeats(w)
  <2> USE <1>3 DEF WatchdogBeats, CanLock
  <2>1. Places'
    BY DEF Places, OneWatchdog
  <2>2. OneWatchdog'
    BY DEF Places, OneWatchdog
  <2> QED BY <2>1, <2>2
<1>4. CASE WatchdogRecovers(w)
  <2> USE <1>4 DEF WatchdogRecovers, CanLock, EnterRecovery,
         AttemptReconnect, Overdue
  <2>1. Places'
    BY DEF Places, OneWatchdog
  <2>2. OneWatchdog'
    BY DEF Places, OneWatchdog
  <2> QED BY <2>1, <2>2
<1> QED BY <1>1, <1>2, <1>3, <1>4 DEF WatchdogStep

LEMMA NextOneApp ==
  ASSUME NEW a, OneApp(a), OneAppInv, MonitorInv', [Next]_vars
  PROVE  OneAppInv'
<1> USE DEF OneAppInv, Places, OneWatchdog, beatVars, threadVars
<1>1. CASE UNCHANGED vars
  BY <1>1 DEF vars
<1>2. CASE Elapse
  BY <1>2 DEF Elapse
<1>3. CASE PeerDies
  BY <1>3 DEF PeerDies
<1> HIDE DEF OneAppInv
<1> QED
  BY <1>1, <1>2, <1>3, AppKeepsOneApp, ReconnectKeepsOneApp,
     WatchdogKeepsOneApp DEF Next

\* Between the calls of the one application thread a stopped monitor has no
\* watchdog, so freeing it is safe, and any other monitor has exactly the
\* watchdog that stop will join.
THEOREM StoppedHasNoWatchdog ==
  ASSUME NEW a, OneApp(a)
  PROVE  Spec => []WatchdogMatchesState
<1>1. Init => OneAppInv
  BY InitOneApp
<1>2. OneAppInv /\ MonitorInv /\ MonitorInv' /\ [Next]_vars => OneAppInv'
  BY NextOneApp
<1>3. OneAppInv => WatchdogMatchesState
  BY ThreadAssumption
  DEF OneAppInv, MonitorInv, TypeOK, LockHeld, Places, OneWatchdog, OneApp,
      WatchdogMatchesState, Thread, Critical, AttemptStage
<1> QED BY <1>1, <1>2, <1>3, InvariantMonitorInv, PTL DEF Spec
=============================================================================
