------------------------ MODULE RtmpFailoverProofs ------------------------
(***************************************************************************)
(* The safety of RtmpFailover for any number of application threads, any   *)
(* backup servers and any configurations.                                  *)
(***************************************************************************)
EXTENDS RtmpFailover, TLAPS

\* A configuration's fields have their types.
LEMMA LimitType ==
  TypeOK => /\ config.max \in Nat
            /\ config.backups \subseteq Server
            /\ config.enabled \subseteq Type
  BY ConfigAssumption DEF TypeOK, Config

\* The invariant holds at the start.
LEMMA InitFailoverInv == Init => FailoverInv
<1> SUFFICES ASSUME Init PROVE FailoverInv
  OBVIOUS
<1> USE ThreadAssumption, ConfigAssumption DEF Init, Thread
<1>1. TypeOK
  BY DEF TypeOK, State, Type, Link, AppStage, HealthStage
<1>2. LockHeld /\ Stages /\ StateFollows
  BY DEF LockHeld, Stages, StateFollows, Critical, AppStage, HealthStage
<1>3. NetworkNeedsServer /\ LocalIsDown
  BY DEF NetworkNeedsServer, LocalIsDown, Switching
<1> QED BY <1>1, <1>2, <1>3 DEF FailoverInv

\* The application's calls keep it.
LEMMA CallKeepsFailoverInv ==
  ASSUME FailoverInv, NEW t \in App, AppCall(t) \/ StopJoin(t)
  PROVE  FailoverInv'
<1> USE ThreadAssumption, NameAssumption, ConfigAssumption
    DEF FailoverInv, Thread, Critical, AppStage, HealthStage, Goto,
        statusVars, placeVars, restVars
<1>1. CASE Start(t)
  <2> USE <1>1 DEF Start, Free, CanLock
  <2>1. TypeOK'
    BY LimitType DEF TypeOK, State, Type, Link, Config
  <2>2. (LockHeld /\ Stages)'
    BY DEF TypeOK, LockHeld, Stages
  <2>3. StateFollows'
    BY DEF TypeOK, LockHeld, Stages, StateFollows, MaySwitch
  <2>4. (NetworkNeedsServer /\ LocalIsDown)'
    BY DEF TypeOK, LockHeld, Stages, StateFollows, NetworkNeedsServer,
           LocalIsDown, Switching, CanRecord, TearsDown, Config
  <2> QED BY <2>1, <2>2, <2>3, <2>4
<1>2. CASE Stop(t)
  <2> USE <1>2 DEF Stop, Free, CanLock
  <2>1. TypeOK'
    BY LimitType DEF TypeOK, State, Type, Link, Config
  <2>2. (LockHeld /\ Stages)'
    BY DEF TypeOK, LockHeld, Stages
  <2>3. StateFollows'
    BY DEF TypeOK, LockHeld, Stages, StateFollows, MaySwitch
  <2>4. (NetworkNeedsServer /\ LocalIsDown)'
    BY DEF TypeOK, LockHeld, Stages, StateFollows, NetworkNeedsServer,
           LocalIsDown, Switching, CanRecord, TearsDown, Config
  <2> QED BY <2>1, <2>2, <2>3, <2>4
<1>3. CASE Destroy(t)
  <2> USE <1>3 DEF Destroy, Free
  <2>1. TypeOK'
    BY LimitType DEF TypeOK, State, Type, Link, Config
  <2>2. (LockHeld /\ Stages)'
    BY DEF TypeOK, LockHeld, Stages
  <2>3. StateFollows'
    BY DEF TypeOK, LockHeld, Stages, StateFollows, MaySwitch
  <2>4. (NetworkNeedsServer /\ LocalIsDown)'
    BY DEF TypeOK, LockHeld, Stages, StateFollows, NetworkNeedsServer,
           LocalIsDown, Switching, CanRecord, TearsDown, Config
  <2> QED BY <2>1, <2>2, <2>3, <2>4
<1>4. CASE Reset(t)
  <2> USE <1>4 DEF Reset, Free, CanLock
  <2>1. TypeOK'
    BY LimitType DEF TypeOK, State, Type, Link, Config
  <2>2. (LockHeld /\ Stages)'
    BY DEF TypeOK, LockHeld, Stages
  <2>3. StateFollows'
    BY DEF TypeOK, LockHeld, Stages, StateFollows, MaySwitch
  <2>4. (NetworkNeedsServer /\ LocalIsDown)'
    BY DEF TypeOK, LockHeld, Stages, StateFollows, NetworkNeedsServer,
           LocalIsDown, Switching, CanRecord, TearsDown, Config
  <2> QED BY <2>1, <2>2, <2>3, <2>4
<1>5. CASE SetConfig(t)
  <2> USE <1>5 DEF SetConfig, Free, CanLock
  <2>1. TypeOK'
    BY LimitType DEF TypeOK, State, Type, Link, Config
  <2>2. (LockHeld /\ Stages)'
    BY DEF TypeOK, LockHeld, Stages
  <2>3. StateFollows'
    BY DEF TypeOK, LockHeld, Stages, StateFollows, MaySwitch
  <2>4. (NetworkNeedsServer /\ LocalIsDown)'
    BY DEF TypeOK, LockHeld, Stages, StateFollows, NetworkNeedsServer,
           LocalIsDown, Switching, CanRecord, TearsDown, Config
  <2> QED BY <2>1, <2>2, <2>3, <2>4
<1>6. CASE SetHealthy(t)
  <2> USE <1>6 DEF SetHealthy, Free, CanLock
  <2>1. TypeOK'
    BY LimitType DEF TypeOK, State, Type, Link, Config
  <2>2. (LockHeld /\ Stages)'
    BY DEF TypeOK, LockHeld, Stages
  <2>3. StateFollows'
    BY DEF TypeOK, LockHeld, Stages, StateFollows, MaySwitch
  <2>4. (NetworkNeedsServer /\ LocalIsDown)'
    BY DEF TypeOK, LockHeld, Stages, StateFollows, NetworkNeedsServer,
           LocalIsDown, Switching, CanRecord, TearsDown, Config
  <2> QED BY <2>1, <2>2, <2>3, <2>4
<1>7. CASE CheckHealth(t)
  <2> USE <1>7 DEF CheckHealth, Free, AutoType, Verdict, Type
  <2>1. TypeOK'
    BY LimitType DEF TypeOK, State, Type, Link, Config
  <2>2. (LockHeld /\ Stages)'
    BY DEF TypeOK, LockHeld, Stages
  <2>3. StateFollows'
    BY DEF TypeOK, LockHeld, Stages, StateFollows, MaySwitch
  <2>4. (NetworkNeedsServer /\ LocalIsDown)'
    BY DEF TypeOK, LockHeld, Stages, StateFollows, NetworkNeedsServer,
           LocalIsDown, Switching, CanRecord, TearsDown, Config
  <2> QED BY <2>1, <2>2, <2>3, <2>4
<1>8. CASE StopJoin(t)
  <2> USE <1>8 DEF StopJoin
  <2>1. TypeOK'
    BY LimitType DEF TypeOK, State, Type, Link, Config
  <2>2. (LockHeld /\ Stages)'
    BY DEF TypeOK, LockHeld, Stages
  <2>3. StateFollows'
    BY DEF TypeOK, LockHeld, Stages, StateFollows, MaySwitch
  <2>4. (NetworkNeedsServer /\ LocalIsDown)'
    BY DEF TypeOK, LockHeld, Stages, StateFollows, NetworkNeedsServer,
           LocalIsDown, Switching, CanRecord, TearsDown, Config
  <2> QED BY <2>1, <2>2, <2>3, <2>4
<1>9. CASE \E what \in Type \cup {"NONE"} : CallTrigger(t, what)
  <2> USE <1>9 DEF CallTrigger, Free
  <2>1. TypeOK'
    BY LimitType DEF TypeOK, State, Type, Link, Config
  <2>2. (LockHeld /\ Stages)'
    BY DEF TypeOK, LockHeld, Stages
  <2>3. StateFollows'
    BY DEF TypeOK, LockHeld, Stages, StateFollows, MaySwitch
  <2>4. (NetworkNeedsServer /\ LocalIsDown)'
    BY DEF TypeOK, LockHeld, Stages, StateFollows, NetworkNeedsServer,
           LocalIsDown, Switching, CanRecord, TearsDown, Config
  <2> QED BY <2>1, <2>2, <2>3, <2>4
<1> QED BY <1>1, <1>2, <1>3, <1>4, <1>5, <1>6, <1>7, <1>8, <1>9 DEF AppCall

\* So do the steps of a trigger.
LEMMA TriggerKeepsFailoverInv ==
  ASSUME FailoverInv, NEW t \in App, TriggerStep(t)
  PROVE  FailoverInv'
<1> USE ThreadAssumption, NameAssumption, ConfigAssumption
    DEF FailoverInv, Thread, Critical, AppStage, HealthStage, Goto,
        statusVars, placeVars, restVars
<1>1. CASE TriggerRefused(t)
  <2> USE <1>1 DEF TriggerRefused, CanLock
  <2>1. TypeOK'
    BY LimitType DEF TypeOK, State, Type, Link, Config
  <2>2. (LockHeld /\ Stages)'
    BY DEF TypeOK, LockHeld, Stages
  <2>3. StateFollows'
    BY DEF TypeOK, LockHeld, Stages, StateFollows, MaySwitch
  <2>4. (NetworkNeedsServer /\ LocalIsDown)'
    BY DEF TypeOK, LockHeld, Stages, StateFollows, NetworkNeedsServer,
           LocalIsDown, Switching, CanRecord, TearsDown, Config
  <2> QED BY <2>1, <2>2, <2>3, <2>4
<1>2. CASE TriggerBegin(t)
  <2> USE <1>2 DEF TriggerBegin, CanLock, MaySwitch
  <2>1. TypeOK'
    BY LimitType DEF TypeOK, State, Type, Link, Config
  <2>2. (LockHeld /\ Stages)'
    BY DEF TypeOK, LockHeld, Stages
  <2>3. StateFollows'
    BY DEF TypeOK, LockHeld, Stages, StateFollows, MaySwitch
  <2>4. (NetworkNeedsServer /\ LocalIsDown)'
    BY DEF TypeOK, LockHeld, Stages, StateFollows, NetworkNeedsServer,
           LocalIsDown, Switching, CanRecord, TearsDown, Config
  <2> QED BY <2>1, <2>2, <2>3, <2>4
<1>3. CASE SwitchServer(t)
  <2> USE <1>3 DEF SwitchServer, Switching, SwitchEnds
  <2>1. TypeOK'
    BY LimitType DEF TypeOK, State, Type, Link, Config
  <2>2. (LockHeld /\ Stages)'
    BY DEF TypeOK, LockHeld, Stages
  <2>3. StateFollows'
    BY DEF TypeOK, LockHeld, Stages, StateFollows, MaySwitch
  <2>4. (NetworkNeedsServer /\ LocalIsDown)'
    BY DEF TypeOK, LockHeld, Stages, StateFollows, NetworkNeedsServer,
           LocalIsDown, Switching, CanRecord, TearsDown, Config
  <2> QED BY <2>1, <2>2, <2>3, <2>4
<1>4. CASE SwitchNetwork(t)
  <2> USE <1>4 DEF SwitchNetwork, Switching, SwitchEnds
  <2>1. TypeOK'
    BY LimitType DEF TypeOK, State, Type, Link, Config
  <2>2. (LockHeld /\ Stages)'
    BY DEF TypeOK, LockHeld, Stages
  <2>3. StateFollows'
    BY DEF TypeOK, LockHeld, Stages, StateFollows, MaySwitch
  <2>4. (NetworkNeedsServer /\ LocalIsDown)'
    BY DEF TypeOK, LockHeld, Stages, StateFollows, NetworkNeedsServer,
           LocalIsDown, Switching, CanRecord, TearsDown, Config
  <2> QED BY <2>1, <2>2, <2>3, <2>4
<1>5. CASE SwitchLocal(t)
  <2> USE <1>5 DEF SwitchLocal, Switching, SwitchEnds
  <2>1. TypeOK'
    BY LimitType DEF TypeOK, State, Type, Link, Config
  <2>2. (LockHeld /\ Stages)'
    BY DEF TypeOK, LockHeld, Stages
  <2>3. StateFollows'
    BY DEF TypeOK, LockHeld, Stages, StateFollows, MaySwitch
  <2>4. (NetworkNeedsServer /\ LocalIsDown)'
    BY DEF TypeOK, LockHeld, Stages, StateFollows, NetworkNeedsServer,
           LocalIsDown, Switching, CanRecord, TearsDown, Config
  <2> QED BY <2>1, <2>2, <2>3, <2>4
<1>6. CASE SwitchFails(t)
  <2> USE <1>6 DEF SwitchFails, SwitchEnds
  <2>1. TypeOK'
    BY LimitType DEF TypeOK, State, Type, Link, Config
  <2>2. (LockHeld /\ Stages)'
    BY DEF TypeOK, LockHeld, Stages
  <2>3. StateFollows'
    BY DEF TypeOK, LockHeld, Stages, StateFollows, MaySwitch
  <2>4. (NetworkNeedsServer /\ LocalIsDown)'
    BY DEF TypeOK, LockHeld, Stages, StateFollows, NetworkNeedsServer,
           LocalIsDown, Switching, CanRecord, TearsDown, Config
  <2> QED BY <2>1, <2>2, <2>3, <2>4
<1> QED BY <1>1, <1>2, <1>3, <1>4, <1>5, <1>6 DEF TriggerStep

\* So does a turn of the health thread.
LEMMA HealthKeepsFailoverInv ==
  ASSUME FailoverInv, HealthStep
  PROVE  FailoverInv'
<1> USE ThreadAssumption, NameAssumption, ConfigAssumption
    DEF FailoverInv, Thread, Critical, AppStage, HealthStage, Goto,
        statusVars, placeVars, restVars
<1>1. CASE HealthLoop
  <2> USE <1>1 DEF HealthLoop
  <2>1. TypeOK'
    BY LimitType DEF TypeOK, State, Type, Link, Config
  <2>2. (LockHeld /\ Stages)'
    BY DEF TypeOK, LockHeld, Stages
  <2>3. StateFollows'
    BY DEF TypeOK, LockHeld, Stages, StateFollows, MaySwitch
  <2>4. (NetworkNeedsServer /\ LocalIsDown)'
    BY DEF TypeOK, LockHeld, Stages, StateFollows, NetworkNeedsServer,
           LocalIsDown, Switching, CanRecord, TearsDown, Config
  <2> QED BY <2>1, <2>2, <2>3, <2>4
<1>2. CASE HealthRests
  <2> USE <1>2 DEF HealthRests, CanLock
  <2>1. TypeOK'
    BY LimitType DEF TypeOK, State, Type, Link, Config
  <2>2. (LockHeld /\ Stages)'
    BY DEF TypeOK, LockHeld, Stages
  <2>3. StateFollows'
    BY DEF TypeOK, LockHeld, Stages, StateFollows, MaySwitch
  <2>4. (NetworkNeedsServer /\ LocalIsDown)'
    BY DEF TypeOK, LockHeld, Stages, StateFollows, NetworkNeedsServer,
           LocalIsDown, Switching, CanRecord, TearsDown, Config
  <2> QED BY <2>1, <2>2, <2>3, <2>4
<1>3. CASE HealthChecks
  <2> USE <1>3 DEF HealthChecks, CanLock, Verdict
  <2>1. TypeOK'
    BY LimitType DEF TypeOK, State, Type, Link, Config
  <2>2. (LockHeld /\ Stages)'
    BY DEF TypeOK, LockHeld, Stages
  <2>3. StateFollows'
    BY DEF TypeOK, LockHeld, Stages, StateFollows, MaySwitch
  <2>4. (NetworkNeedsServer /\ LocalIsDown)'
    BY DEF TypeOK, LockHeld, Stages, StateFollows, NetworkNeedsServer,
           LocalIsDown, Switching, CanRecord, TearsDown, Config
  <2> QED BY <2>1, <2>2, <2>3, <2>4
<1>4. CASE HealthTriggers
  <2> USE <1>4 DEF HealthTriggers, CanLock, AutoType, Type
  <2>1. TypeOK'
    BY LimitType DEF TypeOK, State, Type, Link, Config
  <2>2. (LockHeld /\ Stages)'
    BY DEF TypeOK, LockHeld, Stages
  <2>3. StateFollows'
    BY DEF TypeOK, LockHeld, Stages, StateFollows, MaySwitch
  <2>4. (NetworkNeedsServer /\ LocalIsDown)'
    BY DEF TypeOK, LockHeld, Stages, StateFollows, NetworkNeedsServer,
           LocalIsDown, Switching, CanRecord, TearsDown, Config
  <2> QED BY <2>1, <2>2, <2>3, <2>4
<1> QED BY <1>1, <1>2, <1>3, <1>4 DEF HealthStep

\* FailoverInv is inductive.
LEMMA NextFailoverInv == FailoverInv /\ [Next]_vars => FailoverInv'
<1> SUFFICES ASSUME FailoverInv, [Next]_vars PROVE FailoverInv'
  OBVIOUS
<1> USE DEF statusVars, placeVars, restVars, FailoverInv, TypeOK, Link,
            LockHeld, Stages, StateFollows, NetworkNeedsServer, LocalIsDown,
            Switching, CanRecord
<1>1. CASE UNCHANGED vars
  BY <1>1 DEF vars
<1>2. CASE Elapse
  BY <1>2 DEF Elapse
<1>3. CASE Answer
  BY <1>3 DEF Answer
<1>4. CASE Drop
  BY <1>4 DEF Drop
<1> HIDE DEF FailoverInv
<1> QED
  BY <1>1, <1>2, <1>3, <1>4, CallKeepsFailoverInv, TriggerKeepsFailoverInv,
     HealthKeepsFailoverInv DEF Next

LEMMA InvariantFailoverInv == Spec => []FailoverInv
  BY InitFailoverInv, NextFailoverInv, PTL DEF Spec

-----------------------------------------------------------------------------
\* The model's variables keep their types.
THEOREM FailoverTypes == Spec => []TypeOK
<1>1. FailoverInv => TypeOK
  BY DEF FailoverInv
<1> QED BY <1>1, InvariantFailoverInv, PTL

\* At most one switch runs, and the status says SWITCHING exactly then.
THEOREM SwitchesExclude == Spec => []OneSwitch
<1>1. FailoverInv => OneSwitch
  BY ThreadAssumption
  DEF FailoverInv, TypeOK, LockHeld, Stages, StateFollows, OneSwitch, Critical,
      Thread, AppStage, HealthStage
<1> QED BY <1>1, InvariantFailoverInv, PTL

\* A handler is idle exactly while it has no health thread.
THEOREM IdleIsQuiet == Spec => []IdleHasNoThread
<1>1. FailoverInv => IdleHasNoThread
  BY DEF FailoverInv, StateFollows, IdleHasNoThread
<1> QED BY <1>1, InvariantFailoverInv, PTL

\* No network is switched before a server was.
THEOREM ServerBeforeNetwork == Spec => []NetworkNeedsServer
<1>1. FailoverInv => NetworkNeedsServer
  BY DEF FailoverInv
<1> QED BY <1>1, InvariantFailoverInv, PTL

\* Local recording begins with the connection down.
THEOREM RecordingIsOffline == Spec => RecordsOffline
<1>1. ASSUME FailoverInv, [Next]_vars
      PROVE  [~recording /\ recording' => link' = "down"]_vars
  <2> SUFFICES ASSUME Next, ~recording, recording' PROVE link' = "down"
    BY <1>1
  <2> USE <1>1 DEF statusVars, placeVars, restVars, FailoverInv, TypeOK
  <2>1. ASSUME NEW t \in App, AppCall(t) \/ StopJoin(t) PROVE FALSE
    BY <2>1
    DEF AppCall, StopJoin, Start, Stop, Destroy, Reset, SetConfig, SetHealthy,
        CheckHealth, CallTrigger
  <2>2. ASSUME NEW t \in App, TriggerStep(t) PROVE link' = "down"
    <3>1. SwitchLocal(t)
      BY <2>2
      DEF TriggerStep, TriggerRefused, TriggerBegin, SwitchServer,
          SwitchNetwork, SwitchFails
    <3> QED BY <3>1 DEF SwitchLocal, LocalIsDown
  <2>3. ASSUME HealthStep \/ Elapse \/ Answer \/ Drop PROVE FALSE
    BY <2>3
    DEF HealthStep, HealthLoop, HealthRests, HealthChecks, HealthTriggers,
        Elapse, Answer, Drop
  <2> QED BY <2>1, <2>2, <2>3 DEF Next
<1> QED BY <1>1, InvariantFailoverInv, PTL DEF Spec, RecordsOffline
=============================================================================
