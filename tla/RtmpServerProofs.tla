-------------------------- MODULE RtmpServerProofs --------------------------
(***************************************************************************)
(* The safety of RtmpServer for every set of addresses, of handler threads *)
(* and of events: IInv is inductive (one lemma per thread of the program)  *)
(* and most invariants of the runs follow from it.  RoleInv adds what a    *)
(* client's role needs, DownInv what is left when the server is down; with *)
(* DownInv the server is shown to implement ConnRegistry.                  *)
(***************************************************************************)
EXTENDS RtmpServer, FiniteSetTheorems, TLAPS

\* The list is finite, and an insertion or a removal moves its count by one.
LEMMA ListCount ==
  ASSUME TypeOK
  PROVE  /\ IsFiniteSet(listed)
         /\ Cardinality(listed) \in Nat
         /\ \A a \in listed :
              Cardinality(listed \ {a}) = Cardinality(listed) - 1
         /\ \A a \in Addr \ listed :
              Cardinality(listed \cup {a}) = Cardinality(listed) + 1
<1>1. IsFiniteSet(listed)
  BY AddrAssumption, FS_Subset DEF TypeOK
<1> QED BY <1>1, FS_CardinalityType, FS_AddElement, FS_RemoveElement

LEMMA InitIInv == Init => IInv
<1> SUFFICES ASSUME Init PROVE IInv
  OBVIOUS
<1> USE AddrAssumption, HandlerAssumption
    DEF Init, Thread, Main, Accept, Monitor, NoThread
<1>1. conn \in [Addr -> Connection]
  BY DEF Zeroed, Connection, ConnState
<1>5. TypeOK
  <2>1. pc \in [Thread -> MainStage \cup AcceptStage \cup MonitorStage
                           \cup HandlerStage \cup CleanupStage]
    BY DEF MainStage, AcceptStage
  <2>2. cur \in [Thread -> Addr \cup {NoAddr}]
    OBVIOUS
  <2>3. /\ running \in BOOLEAN /\ listening \in BOOLEAN /\ destroyed \in BOOLEAN
        /\ srvState \in {"STOPPED", "RUNNING"}
        /\ lock \in {NoThread, Main, Monitor}
        /\ given \in Addr \cup {NoAddr} /\ misused \in BOOLEAN
    OBVIOUS
  <2>4. listed \subseteq Addr /\ live \subseteq Addr /\ stale \subseteq Addr
    OBVIOUS
  <2>5. num \in Int
    OBVIOUS
  <2> HIDE DEF Init, Thread, Main, Monitor, NoThread
  <2> QED BY <1>1, <2>1, <2>2, <2>3, <2>4, <2>5 DEF TypeOK
<1>2. Stages /\ LockHolder /\ Pointers /\ Progress
  BY DEF Stages, LockHolder, Pointers, Progress, Sweepers, MainStage,
         AcceptStage, MonitorStage, HandlerStage, CleanupStage
<1>3. Allocated /\ Owners /\ Registered
  BY DEF Allocated, Owners, Registered, Workers, Sweepers, OffList
<1>4. Counted /\ StopQuiesces
  BY FS_EmptySet DEF Counted, StopQuiesces
<1> QED BY <1>2, <1>3, <1>4, <1>5 DEF IInv

\* The application thread keeps the invariant.
LEMMA MainKeepsIInv ==
  ASSUME IInv, MainStep \/ MainCall
  PROVE  IInv'
<1> USE AddrAssumption, HandlerAssumption
    DEF IInv, Thread, Main, Accept, Monitor, NoThread, Workers, Sweepers,
        MainStage, AcceptStage, MonitorStage, HandlerStage, CleanupStage,
        OffList, Unfinished, Goto, CanLock, serverVars, listVars, memVars,
        useVars, Uses
<1>1. CASE Start
  BY <1>1 DEF Start, TypeOK, Stages, LockHolder, Progress, Pointers,
         Allocated, Owners, Registered, Counted, StopQuiesces
<1>2. CASE CreateAcceptThread
  <2> USE <1>2 DEF CreateAcceptThread
  <2>1. (TypeOK /\ Stages /\ LockHolder /\ Progress)'
    BY DEF TypeOK, Stages, LockHolder, Progress
  <2>2. (Pointers /\ Allocated /\ Owners)'
    BY DEF TypeOK, Stages, LockHolder, Progress, Pointers, Allocated,
           Owners
  <2>3. Registered'
    BY DEF TypeOK, Stages, LockHolder, Progress, Pointers, Registered
  <2>4. (Counted /\ StopQuiesces)'
    BY DEF TypeOK, Stages, LockHolder, Progress, Counted, StopQuiesces
  <2> QED BY <2>1, <2>2, <2>3, <2>4
<1>3. CASE CreateAcceptThreadFails
  <2> USE <1>3 DEF CreateAcceptThreadFails
  <2>1. (TypeOK /\ Stages /\ LockHolder /\ Progress)'
    BY DEF TypeOK, Stages, LockHolder, Progress
  <2>2. (Pointers /\ Allocated /\ Owners)'
    BY DEF TypeOK, Stages, LockHolder, Progress, Pointers, Allocated,
           Owners
  <2>3. Registered'
    BY DEF TypeOK, Stages, LockHolder, Progress, Pointers, Registered
  <2>4. (Counted /\ StopQuiesces)'
    BY DEF TypeOK, Stages, LockHolder, Progress, Counted, StopQuiesces
  <2> QED BY <2>1, <2>2, <2>3, <2>4
<1>4. CASE CreateMonitorThread
  <2> USE <1>4 DEF CreateMonitorThread
  <2>1. (TypeOK /\ Stages /\ LockHolder /\ Progress)'
    <3>1. TypeOK'
      BY DEF TypeOK, Stages
    <3>2. Stages'
      BY DEF TypeOK, Stages
    <3>3. LockHolder'
      BY DEF TypeOK, Stages, LockHolder, Progress
    <3>4. Progress'
      BY DEF TypeOK, Stages, LockHolder, Progress
    <3> QED BY <3>1, <3>2, <3>3, <3>4
  <2>2. (Pointers /\ Allocated /\ Owners)'
    <3>1. Pointers' /\ Allocated'
      BY DEF TypeOK, Stages, Progress, Pointers, Allocated
    <3>2. Owners'
      BY DEF TypeOK, Stages, LockHolder, Progress, Pointers, Owners
    <3> QED BY <3>1, <3>2
  <2>3. Registered'
    BY DEF TypeOK, Stages, LockHolder, Progress, Pointers, Registered
  <2>4. (Counted /\ StopQuiesces)'
    BY DEF TypeOK, Stages, LockHolder, Progress, Counted, StopQuiesces
  <2> QED BY <2>1, <2>2, <2>3, <2>4
<1>5. CASE CreateMonitorThreadFails
  <2> USE <1>5 DEF CreateMonitorThreadFails
  <2>1. (TypeOK /\ Stages /\ LockHolder /\ Progress)'
    BY DEF TypeOK, Stages, LockHolder, Progress
  <2>2. (Pointers /\ Allocated /\ Owners)'
    BY DEF TypeOK, Stages, LockHolder, Progress, Pointers, Allocated,
           Owners
  <2>3. Registered'
    BY DEF TypeOK, Stages, LockHolder, Progress, Pointers, Registered
  <2>4. (Counted /\ StopQuiesces)'
    BY DEF TypeOK, Stages, LockHolder, Progress, Counted, StopQuiesces
  <2> QED BY <2>1, <2>2, <2>3, <2>4
<1>6. CASE JoinFailedStart
  <2> USE <1>6 DEF JoinFailedStart
  <2>1. TypeOK'
    BY DEF TypeOK, Stages
  <2>2. Stages' /\ LockHolder' /\ Progress'
    BY DEF TypeOK, Stages, LockHolder, Progress
  <2>3. Pointers' /\ Allocated'
    BY DEF TypeOK, Stages, LockHolder, Pointers, Allocated
  <2>4. Owners' /\ Registered'
    BY DEF TypeOK, Stages, LockHolder, Pointers, Owners, Registered
  <2>5. Counted' /\ StopQuiesces'
    BY DEF TypeOK, Stages, LockHolder, Progress, Counted, StopQuiesces
  <2> QED BY <2>1, <2>2, <2>3, <2>4, <2>5
<1>7. CASE AnnounceRunning
  BY <1>7 DEF AnnounceRunning, TypeOK, Stages, LockHolder, Progress, Pointers,
         Allocated, Owners, Registered, Counted, StopQuiesces
<1>8. CASE StopBegin
  <2> USE <1>8 DEF StopBegin
  <2>1. (TypeOK /\ Stages /\ LockHolder /\ Progress)'
    BY DEF TypeOK, Stages, LockHolder, Progress
  <2>2. (Pointers /\ Allocated /\ Owners)'
    BY DEF TypeOK, Stages, LockHolder, Progress, Pointers, Allocated,
           Owners
  <2>3. Registered'
    BY DEF TypeOK, Stages, LockHolder, Progress, Pointers, Registered
  <2>4. (Counted /\ StopQuiesces)'
    BY DEF TypeOK, Stages, LockHolder, Progress, Counted, StopQuiesces
  <2> QED BY <2>1, <2>2, <2>3, <2>4
<1>9. CASE JoinAccept
  <2> USE <1>9 DEF JoinAccept
  <2>1. (TypeOK /\ Stages /\ LockHolder /\ Progress)'
    BY DEF TypeOK, Stages, LockHolder, Progress
  <2>2. (Pointers /\ Allocated /\ Owners)'
    <3>1. Pointers' /\ Allocated'
      BY DEF TypeOK, Stages, Progress, Pointers, Allocated
    <3>2. Owners'
      BY DEF TypeOK, Stages, LockHolder, Progress, Pointers, Owners
    <3> QED BY <3>1, <3>2
  <2>3. Registered'
    BY DEF TypeOK, Stages, LockHolder, Progress, Pointers, Registered
  <2>4. (Counted /\ StopQuiesces)'
    BY DEF TypeOK, Stages, LockHolder, Progress, Counted, StopQuiesces
  <2> QED BY <2>1, <2>2, <2>3, <2>4
<1>10. CASE JoinMonitor
  <2> USE <1>10 DEF JoinMonitor
  <2>1. (TypeOK /\ Stages /\ LockHolder /\ Progress)'
    BY DEF TypeOK, Stages, LockHolder, Progress
  <2>2. (Pointers /\ Allocated /\ Owners)'
    <3>1. Pointers' /\ Allocated'
      BY DEF TypeOK, Stages, Progress, Pointers, Allocated
    <3>2. Owners'
      BY DEF TypeOK, Stages, LockHolder, Progress, Pointers, Owners
    <3> QED BY <3>1, <3>2
  <2>3. Registered'
    BY DEF TypeOK, Stages, LockHolder, Progress, Pointers, Registered
  <2>4. (Counted /\ StopQuiesces)'
    BY DEF TypeOK, Stages, LockHolder, Progress, Counted, StopQuiesces
  <2> QED BY <2>1, <2>2, <2>3, <2>4
<1>11. CASE StopLock
  BY <1>11 DEF StopLock, TypeOK, Stages, LockHolder, Progress, Pointers,
         Allocated, Owners, Registered, Counted, StopQuiesces
<1>12. ASSUME NEW a \in Addr, StopPop(a) PROVE IInv'
  <2> USE <1>12 DEF StopPop
  <2>1. (TypeOK /\ Stages /\ LockHolder /\ Progress)'
    BY DEF TypeOK, Stages, LockHolder, Progress
  <2>2. (Pointers /\ Allocated)'
    BY DEF TypeOK, Stages, LockHolder, Progress, Pointers, Allocated,
           Owners
  <2>3. Owners'
    BY DEF TypeOK, Stages, LockHolder, Progress, Pointers, Allocated,
           Owners
  <2>4. Registered'
    BY DEF TypeOK, Stages, LockHolder, Progress, Pointers, Allocated,
           Owners, Registered
  <2>5. Counted'
    BY DEF TypeOK, Stages, LockHolder, Progress, Counted
  <2>6. StopQuiesces'
    BY DEF TypeOK, Stages, LockHolder, Progress, StopQuiesces
  <2> QED BY <2>1, <2>2, <2>3, <2>4, <2>5, <2>6
<1>13. CASE StopUnlock
  <2> USE <1>13 DEF StopUnlock
  <2>1. (TypeOK /\ Stages /\ LockHolder /\ Progress)'
    BY DEF TypeOK, Stages, LockHolder, Progress
  <2>2. (Pointers /\ Allocated /\ Owners /\ Registered /\ Counted)'
    BY DEF TypeOK, Stages, LockHolder, Progress, Pointers, Allocated, Owners,
           Registered,
           Counted
  <2>3. num = 0
    BY FS_EmptySet DEF Stages, Counted
  <2>4. \A h \in Handler : ~Unfinished(h)
    \* Its connection would be listed or in a sweep's hands: neither is.
    BY DEF Stages, Progress, Pointers, Registered
  <2>5. StopQuiesces'
    BY <2>3, <2>4 DEF TypeOK, Progress, StopQuiesces
  <2> QED BY <2>1, <2>2, <2>5
<1>14. CASE AnnounceStopped
  BY <1>14 DEF AnnounceStopped, TypeOK, Stages, LockHolder, Progress, Pointers,
         Allocated, Owners, Registered, Counted, StopQuiesces
<1>15. CASE Destroy
  BY <1>15 DEF Destroy, TypeOK, Stages, LockHolder, Progress, Pointers,
         Allocated, Owners, Registered, Counted, StopQuiesces
<1>16. CASE QueryBegin
  BY <1>16 DEF QueryBegin, TypeOK, Stages, LockHolder, Progress, Pointers,
         Allocated, Owners, Registered, Counted, StopQuiesces
<1>17. CASE Query
  BY <1>17 DEF Query, TypeOK, Stages, LockHolder, Progress, Pointers,
         Allocated, Owners, Registered, Counted, StopQuiesces
<1> QED
  BY <1>1, <1>2, <1>3, <1>4, <1>5, <1>6, <1>7, <1>8, <1>9,
     <1>10, <1>11, <1>12, <1>13, <1>14, <1>15, <1>16, <1>17
  DEF MainStep, MainCall

\* The accept thread, and the clients that connect, keep it.
LEMMA AcceptKeepsIInv ==
  ASSUME IInv,
         \/ AcceptStep
         \/ AcceptFails
         \/ \E a \in Addr : AcceptClient(a)
  PROVE  IInv'
<1> USE AddrAssumption, HandlerAssumption
    DEF IInv, Thread, Main, Accept, Monitor, NoThread, Workers, Sweepers,
        MainStage, AcceptStage, MonitorStage, HandlerStage, CleanupStage,
        OffList, Unfinished, Goto, CanLock, serverVars, listVars, memVars,
        useVars, Uses
<1>1. CASE AcceptLoop
  BY <1>1 DEF AcceptLoop, TypeOK, Stages, LockHolder, Progress, Pointers,
         Allocated, Owners, Registered, Counted, StopQuiesces
<1>2. CASE AcceptWoken
  BY <1>2 DEF AcceptWoken, TypeOK, Stages, LockHolder, Progress, Pointers,
         Allocated, Owners, Registered, Counted, StopQuiesces
<1>3. CASE AcceptFails
  BY <1>3 DEF AcceptFails, TypeOK, Stages, LockHolder, Progress, Pointers,
         Allocated, Owners, Registered, Counted, StopQuiesces
<1>4. ASSUME NEW a \in Addr, AcceptClient(a) PROVE IInv'
  <2> USE <1>4 DEF AcceptClient
  <2>1. (TypeOK /\ Stages /\ LockHolder /\ Progress)'
    BY DEF TypeOK, Stages, LockHolder, Progress, Zeroed, Connection,
           ConnState
  <2>2. (Pointers /\ Allocated)'
    BY DEF TypeOK, Stages, LockHolder, Progress, Pointers, Allocated,
           Owners
  <2>3. Owners'
    BY DEF TypeOK, Stages, LockHolder, Progress, Pointers, Allocated,
           Owners
  <2>4. Registered'
    BY DEF TypeOK, Stages, LockHolder, Progress, Pointers, Allocated,
           Owners, Registered
  <2>5. Counted'
    BY DEF TypeOK, Stages, LockHolder, Progress, Counted
  <2>6. StopQuiesces'
    BY DEF TypeOK, Stages, LockHolder, Progress, StopQuiesces
  <2> QED BY <2>1, <2>2, <2>3, <2>4, <2>5, <2>6
<1>5. CASE Push
  <2> USE <1>5 DEF Push
  <2>1. (TypeOK /\ Stages /\ LockHolder /\ Progress)'
    BY DEF TypeOK, Stages, LockHolder, Progress, Pointers
  <2>2. (Pointers /\ Allocated)'
    BY DEF TypeOK, Stages, LockHolder, Progress, Pointers, Allocated,
           Owners
  <2>3. Owners'
    BY DEF TypeOK, Stages, LockHolder, Progress, Pointers, Allocated,
           Owners
  <2>4. Registered'
    BY DEF TypeOK, Stages, LockHolder, Progress, Pointers, Allocated,
           Owners, Registered
  <2>5. Counted'
    BY ListCount DEF TypeOK, Stages, LockHolder, Pointers, Owners, Counted
  <2>6. StopQuiesces'
    BY DEF TypeOK, Stages, LockHolder, Progress, StopQuiesces
  <2> QED BY <2>1, <2>2, <2>3, <2>4, <2>5, <2>6
<1>6. ASSUME NEW h \in Handler, Spawn(h) PROVE IInv'
  <2> USE <1>6 DEF Spawn
  <2>1. (TypeOK /\ Stages /\ LockHolder /\ Progress)'
    <3>1. TypeOK'
      BY DEF TypeOK, Stages
    <3>2. Stages' /\ LockHolder'
      BY DEF TypeOK, Stages, LockHolder
    <3>3. Progress'
      BY DEF TypeOK, Stages, Progress
    <3> QED BY <3>1, <3>2, <3>3
  <2>2. (Pointers /\ Allocated)'
    <3>1. Pointers'
      <4>1. cur'[Accept] = NoAddr /\ pc'[Accept] = "loop"
        BY DEF TypeOK
      <4>2. cur'[h] = cur[Accept] /\ cur[Accept] # NoAddr /\ pc'[h] = "setup"
        BY DEF TypeOK, Pointers
      <4>3. \A u \in Thread \ {Accept, h} : cur'[u] = cur[u] /\ pc'[u] = pc[u]
        BY DEF TypeOK
      <4>4. Main # h /\ Monitor # h /\ Accept # h
        OBVIOUS
      <4> USE DEF Pointers
      <4>5. \A u \in Sweepers : cur'[u] # NoAddr <=> pc'[u] \in {"release", "unlink"}
        BY <4>3, <4>4
      <4>6. \A g \in Handler : cur'[g] # NoAddr <=> pc'[g] # "none"
        BY <4>2, <4>3, <4>4
      <4> QED BY <4>1, <4>5, <4>6
    <3>2. Allocated'
      BY DEF TypeOK, Stages, Pointers, Allocated, Owners
    <3> QED BY <3>1, <3>2
  <2>3. Owners'
    BY DEF TypeOK, Stages, LockHolder, Progress, Pointers, Allocated,
           Owners
  <2>4. Registered'
    BY DEF TypeOK, Stages, LockHolder, Progress, Pointers, Allocated,
           Owners, Registered
  <2>5. Counted'
    BY DEF TypeOK, Stages, LockHolder, Progress, Counted
  <2>6. StopQuiesces'
    BY DEF TypeOK, Stages, LockHolder, Progress, StopQuiesces
  <2> QED BY <2>1, <2>2, <2>3, <2>4, <2>5, <2>6
<1>7. CASE SpawnFails
  BY <1>7 DEF SpawnFails, TypeOK, Stages, LockHolder, Progress, Pointers,
         Allocated, Owners, Registered, Counted, StopQuiesces
<1> QED
  BY <1>1, <1>2, <1>3, <1>4, <1>5, <1>6, <1>7 DEF AcceptStep

\* The monitor thread keeps it.
LEMMA MonitorKeepsIInv ==
  ASSUME IInv, MonitorStep
  PROVE  IInv'
<1> USE AddrAssumption, HandlerAssumption
    DEF IInv, Thread, Main, Accept, Monitor, NoThread, Workers, Sweepers,
        MainStage, AcceptStage, MonitorStage, HandlerStage, CleanupStage,
        OffList, Unfinished, Goto, CanLock, serverVars, listVars, memVars,
        useVars, Uses
<1> USE DEF MonitorSweeping
<1>1. CASE MonitorLoop
  BY <1>1 DEF MonitorLoop, TypeOK, Stages, LockHolder, Progress, Pointers,
         Allocated, Owners, Registered, Counted, StopQuiesces
<1>2. CASE MonitorFindsNone
  BY <1>2 DEF MonitorFindsNone, TypeOK, Stages, LockHolder, Progress, Pointers,
         Allocated, Owners, Registered, Counted, StopQuiesces
<1>3. ASSUME NEW a \in Addr, MonitorExpires(a) PROVE IInv'
  <2> USE <1>3 DEF MonitorExpires
  <2>1. (TypeOK /\ Stages /\ LockHolder /\ Progress)'
    BY DEF TypeOK, Stages, LockHolder, Progress
  <2>2. (Pointers /\ Allocated)'
    BY DEF TypeOK, Stages, LockHolder, Progress, Pointers, Allocated,
           Owners
  <2>3. Owners'
    BY DEF TypeOK, Stages, LockHolder, Progress, Pointers, Allocated,
           Owners
  <2>4. Registered'
    BY DEF TypeOK, Stages, LockHolder, Progress, Pointers, Allocated,
           Owners, Registered
  <2>5. Counted'
    BY ListCount DEF TypeOK, Stages, LockHolder, Counted
  <2>6. StopQuiesces'
    BY DEF TypeOK, Stages, LockHolder, Progress, StopQuiesces
  <2> QED BY <2>1, <2>2, <2>3, <2>4, <2>5, <2>6
<1> QED BY <1>1, <1>2, <1>3 DEF MonitorStep

\* A handler thread, and what its client sends, keep it.
LEMMA HandlerKeepsIInv ==
  ASSUME IInv, NEW h \in Handler,
         \/ HandlerStep(h)
         \/ ReceiveFails(h)
         \/ \E m \in Message : Receive(h, m) \/ ReceiveRole(h, m)
  PROVE  IInv'
<1> USE AddrAssumption, HandlerAssumption
    DEF IInv, Thread, Main, Accept, Monitor, NoThread, Workers, Sweepers,
        MainStage, AcceptStage, MonitorStage, HandlerStage, CleanupStage,
        OffList, Unfinished, Goto, CanLock, serverVars, listVars, memVars,
        useVars, Uses
<1>1. CASE SetupFails(h)
  BY <1>1 DEF SetupFails, TypeOK, Stages, LockHolder, Progress, Pointers,
         Allocated, Owners, Registered, Counted, StopQuiesces
<1>2. CASE HandlerLoop(h)
  BY <1>2 DEF HandlerLoop, TypeOK, Stages, LockHolder, Progress, Pointers,
         Allocated, Owners, Registered, Counted, StopQuiesces
<1>3. CASE ReceiveFails(h)
  BY <1>3 DEF ReceiveFails, TypeOK, Stages, LockHolder, Progress, Pointers,
         Allocated, Owners, Registered, Counted, StopQuiesces
<1>4. CASE SetupDone(h)
  <2> USE <1>4 DEF SetupDone
  <2>0. conn' \in [Addr -> Connection]
    <3>1. \A c \in Connection : [c EXCEPT !.state = "HANDSHAKE"] \in Connection
      BY DEF Connection, ConnState
    <3> QED BY <3>1 DEF TypeOK
  <2>1. (TypeOK /\ Stages /\ LockHolder /\ Progress)'
    BY <2>0 DEF TypeOK, Stages, LockHolder, Progress
  <2>2. (Pointers /\ Allocated)'
    BY DEF TypeOK, Stages, LockHolder, Progress, Pointers, Allocated,
           Owners
  <2>3. Owners'
    BY DEF TypeOK, Stages, LockHolder, Progress, Pointers, Allocated,
           Owners
  <2>4. Registered'
    BY DEF TypeOK, Stages, LockHolder, Progress, Pointers, Allocated,
           Owners, Registered
  <2>5. Counted'
    BY DEF TypeOK, Stages, LockHolder, Progress, Counted
  <2>6. StopQuiesces'
    BY DEF TypeOK, Stages, LockHolder, Progress, StopQuiesces
  <2> QED BY <2>1, <2>2, <2>3, <2>4, <2>5, <2>6
<1>5. ASSUME NEW m \in Message, Receive(h, m) \/ ReceiveRole(h, m) PROVE IInv'
  <2>a. /\ pc[h] = "recv" /\ Uses(h)
        /\ conn' = [conn EXCEPT ![cur[h]] = Handled(m, conn[cur[h]])]
        /\ stale' \subseteq stale
        /\ \E x \in {"loop", "play", "publish"} : pc' = [pc EXCEPT ![h] = x]
        /\ UNCHANGED <<serverVars, listVars, live, cur, given>>
    BY <1>5 DEF Receive, ReceiveRole
  <2>b. PICK x \in {"loop", "play", "publish"} : pc' = [pc EXCEPT ![h] = x]
    BY <2>a
  <2> USE <2>a, <2>b
  <2>0. conn' \in [Addr -> Connection] /\ misused' \in BOOLEAN
    <3>1. cur[h] \in Addr
      BY DEF Stages, Pointers, TypeOK
    <3>2. conn[cur[h]] \in Connection
      BY <3>1 DEF TypeOK
    <3>3. Handled(m, conn[cur[h]]) \in Connection
      BY <3>2 DEF Handled, StateAfter, MediaAfter, Message, Connection, ConnState
    <3>4. conn[cur[h]].released \in BOOLEAN
      BY <3>2 DEF Connection
    <3> QED BY <3>1, <3>3, <3>4 DEF TypeOK
  <2>1. /\ pc[h] = "recv" /\ pc'[h] \in {"loop", "play", "publish"}
        /\ \A t \in Thread \ {h} : pc'[t] = pc[t]
        /\ pc' \in [Thread -> MainStage \cup AcceptStage \cup MonitorStage
                              \cup HandlerStage \cup CleanupStage]
    BY DEF TypeOK
  <2>2. TypeOK'
    BY <2>0, <2>1 DEF TypeOK
  <2>3. (Stages /\ LockHolder /\ Progress)'
    BY <2>1 DEF TypeOK, Stages, LockHolder, Progress
  <2>4. (Pointers /\ Allocated /\ Owners)'
    BY <2>1 DEF TypeOK, Pointers, Allocated, Owners
  <2>5. (Registered /\ Counted)'
    BY <2>1 DEF TypeOK, Registered, Counted
  <2>6. StopQuiesces'
    BY <2>1 DEF TypeOK, StopQuiesces
  <2> QED BY <2>2, <2>3, <2>4, <2>5, <2>6
<1>6. CASE SetRole(h)
  <2> USE <1>6 DEF SetRole
  <2>0. conn' \in [Addr -> Connection]
    <3>1. \A c \in Connection :
            [c EXCEPT !.isPublisher = (pc[h] = "publish")] \in Connection
      BY DEF Connection
    <3> QED BY <3>1 DEF TypeOK
  <2>1. (TypeOK /\ Stages /\ LockHolder /\ Progress)'
    BY <2>0 DEF TypeOK, Stages, LockHolder, Progress
  <2>2. (Pointers /\ Allocated /\ Owners)'
    BY DEF TypeOK, Stages, LockHolder, Progress, Pointers, Allocated, Owners
  <2>3. Registered'
    BY DEF TypeOK, Stages, LockHolder, Progress, Pointers, Allocated, Owners,
           Registered
  <2>4. (Counted /\ StopQuiesces)'
    BY DEF TypeOK, Stages, LockHolder, Progress, Counted, StopQuiesces
  <2> QED BY <2>1, <2>2, <2>3, <2>4
<1> QED
  BY <1>1, <1>2, <1>3, <1>4, <1>5, <1>6 DEF HandlerStep

\* A step of rtmp_server_cleanup_connection keeps it, whichever thread runs it.
LEMMA CleanupKeepsIInv ==
  ASSUME IInv, NEW t \in Thread, CleanupStep(t)
  PROVE  IInv'
<1> USE AddrAssumption, HandlerAssumption
    DEF IInv, Thread, Main, Accept, Monitor, NoThread, Workers, Sweepers,
        MainStage, AcceptStage, MonitorStage, HandlerStage, CleanupStage,
        OffList, Unfinished, Goto, CanLock, serverVars, listVars, memVars,
        useVars, Uses
<1>1. CASE CleanupRelease(t)
  <2> USE <1>1 DEF CleanupRelease
  <2>0. conn' \in [Addr -> Connection] /\ misused' \in BOOLEAN
    <3>1. cur[t] \in Addr
      BY DEF Stages, Pointers, TypeOK
    <3>2. conn[cur[t]] \in Connection /\ conn[cur[t]].released \in BOOLEAN
      BY <3>1 DEF TypeOK, Connection
    <3>3. [conn[cur[t]] EXCEPT !.released = TRUE] \in Connection
      BY <3>2 DEF Connection
    <3> QED BY <3>1, <3>2, <3>3 DEF TypeOK
  <2>1. (TypeOK /\ Stages /\ LockHolder /\ Progress)'
    BY <2>0 DEF TypeOK, Stages, LockHolder, Progress
  <2>2. (Pointers /\ Allocated /\ Owners)'
    BY DEF TypeOK, Stages, LockHolder, Progress, Pointers, Allocated, Owners
  <2>3. Registered'
    BY DEF TypeOK, Stages, LockHolder, Progress, Pointers, Allocated, Owners,
           Registered
  <2>4. (Counted /\ StopQuiesces)'
    BY DEF TypeOK, Stages, LockHolder, Progress, Counted, StopQuiesces
  <2> QED BY <2>1, <2>2, <2>3, <2>4
<1>4. CASE CleanupNotify(t)
  <2> USE <1>4 DEF CleanupNotify
  <2>1. (TypeOK /\ Stages /\ LockHolder /\ Progress)'
    BY DEF TypeOK, Stages, LockHolder, Progress
  <2>2. (Pointers /\ Allocated /\ Owners)'
    BY DEF TypeOK, Stages, LockHolder, Progress, Pointers, Allocated, Owners
  <2>3. Registered'
    BY DEF TypeOK, Stages, LockHolder, Progress, Pointers, Allocated, Owners,
           Registered
  <2>4. (Counted /\ StopQuiesces)'
    BY DEF TypeOK, Stages, LockHolder, Progress, Counted, StopQuiesces
  <2> QED BY <2>1, <2>2, <2>3, <2>4
<1>2. CASE CleanupUnlink(t)
  <2> USE <1>2 DEF CleanupUnlink, CountOut, Unlinked
  <2>1. (TypeOK /\ Stages /\ LockHolder /\ Progress)'
    BY DEF TypeOK, Stages, LockHolder, Progress
  <2>2. (Pointers /\ Allocated)'
    BY DEF TypeOK, Stages, LockHolder, Progress, Pointers, Allocated,
           Owners
  <2>3. Owners'
    BY DEF TypeOK, Stages, LockHolder, Progress, Pointers, Allocated,
           Owners
  <2>4. Registered'
    BY DEF TypeOK, Stages, LockHolder, Progress, Pointers, Allocated,
           Owners, Registered
  <2>5. Counted'
    <3>1. CASE cur[t] \in listed
      BY <3>1, ListCount DEF TypeOK, Stages, LockHolder, Counted
    <3>2. CASE cur[t] \notin listed
      <4>1. listed' = listed /\ num' = num
        BY <3>2
      <4> QED BY <4>1 DEF TypeOK, Stages, LockHolder, Counted
    <3> QED BY <3>1, <3>2
  <2>6. StopQuiesces'
    BY DEF TypeOK, Stages, LockHolder, Progress, StopQuiesces
  <2> QED BY <2>1, <2>2, <2>3, <2>4, <2>5, <2>6
<1>3. CASE CleanupFree(t)
  <2> USE <1>3 DEF CleanupFree, AfterCleanup
  <2>1. (TypeOK /\ Stages /\ LockHolder /\ Progress)'
    BY DEF TypeOK, Stages, LockHolder, Progress
  <2>2. (Pointers /\ Allocated)'
    BY DEF TypeOK, Stages, LockHolder, Progress, Pointers, Allocated,
           Owners
  <2>3. Owners'
    BY DEF TypeOK, Stages, LockHolder, Progress, Pointers, Allocated,
           Owners
  <2>4. Registered'
    BY DEF TypeOK, Stages, LockHolder, Progress, Pointers, Allocated,
           Owners, Registered
  <2>5. Counted'
    BY DEF TypeOK, Stages, LockHolder, Progress, Counted
  <2>6. StopQuiesces'
    BY DEF TypeOK, Stages, LockHolder, Progress, StopQuiesces
  <2> QED BY <2>1, <2>2, <2>3, <2>4, <2>5, <2>6
<1> QED BY <1>1, <1>2, <1>3, <1>4 DEF CleanupStep

\* IInv is inductive.
LEMMA NextIInv == IInv /\ [Next]_vars => IInv'
<1> SUFFICES ASSUME IInv, [Next]_vars PROVE IInv'
  OBVIOUS
<1>1. CASE UNCHANGED vars
  BY <1>1 DEF vars, IInv, TypeOK, Stages, LockHolder, Pointers, Progress,
              Allocated, Owners, Registered, Counted, StopQuiesces,
              Unfinished
<1>2. ASSUME NEW a \in Addr, Silent(a) PROVE IInv'
  BY <1>2, AddrAssumption
  DEF Silent, serverVars, listVars, useVars, IInv, TypeOK, Stages, LockHolder, Pointers,
      Progress, Allocated, Owners, Registered, Counted, StopQuiesces,
      Unfinished
<1> QED
  BY <1>1, <1>2, MainKeepsIInv, AcceptKeepsIInv, MonitorKeepsIInv,
     HandlerKeepsIInv, CleanupKeepsIInv
  DEF Next, Network

LEMMA InvariantIInv == Spec => []IInv
  BY InitIInv, NextIInv, PTL DEF Spec

-----------------------------------------------------------------------------
\* Every variable keeps its type.
THEOREM TypeCorrect == Spec => []TypeOK
<1>1. IInv => TypeOK
  BY DEF IInv
<1> QED BY <1>1, InvariantIInv, PTL

\* rtmp_server_get_num_connections returns the length of the list, except
\* while a stop holds the lock to pop connections it does not count out.
THEOREM CountCorrect == Spec => []CountMatchesList
<1>1. IInv => CountMatchesList
  BY DEF IInv, Stages, LockHolder, Counted, CountMatchesList, Main
<1> QED BY <1>1, InvariantIInv, PTL

\* A stop that gets as far as reporting STOPPED has kept its promise: both
\* threads joined, an empty list, and no handler that could touch it again.
THEOREM StopIsQuiet == Spec => []StopQuiesces
<1>1. IInv => StopQuiesces
  BY DEF IInv
<1> QED BY <1>1, InvariantIInv, PTL

-----------------------------------------------------------------------------
(* The parts of a connection, and the pointer of the application.            *)

LEMMA OneOwnerInIInv == IInv => OneOwnerButSweep
<1> SUFFICES ASSUME IInv, NEW t \in Thread, NEW u \in Thread,
                    t # u, cur[t] = cur[u], cur[t] # NoAddr
             PROVE  /\ lock \in {t, u}
                    /\ pc[lock] \in {"release", "unlink"}
                    /\ {"notify", "free"} \cap {pc[t], pc[u]} = {}
  BY DEF OneOwnerButSweep
<1> USE HandlerAssumption
    DEF IInv, Thread, Workers, Sweepers, OffList, Main, Accept, Monitor, NoThread
<1>1. CASE t \in Sweepers
  BY <1>1 DEF Stages, LockHolder, Pointers, Progress, Owners
<1>2. CASE u \in Sweepers
  BY <1>2 DEF Stages, LockHolder, Pointers, Progress, Owners
<1>3. CASE t \in Workers /\ u \in Workers
  BY <1>3 DEF Owners
<1> QED BY <1>1, <1>2, <1>3

LEMMA InitPartsInv == Init => PartsInv
  BY DEF Init, PartsInv, Given, ReleasedBy, MisusedInSweep

\* The threads that gave parts back keep their connections until they free them.
LEMMA ReleasersStay ==
  ASSUME IInv, [Next]_vars,
         NEW t \in Thread, pc[t] \in {"unlink", "notify", "free"}, cur[t] \in live'
  PROVE  cur'[t] = cur[t] /\ pc'[t] \in {"unlink", "notify", "free"}
<1> USE HandlerAssumption
    DEF Thread, Main, Accept, Monitor, NoThread, Goto
<1>0. TypeOK /\ Stages /\ Pointers /\ Progress
  BY DEF IInv
<1>1. CASE UNCHANGED vars
  BY <1>1 DEF vars
<1>2. CASE MainStep \/ MainCall
  BY <1>0, <1>2 DEF MainStep, MainCall, CreateAcceptThread, CreateAcceptThreadFails,
     CreateMonitorThread, CreateMonitorThreadFails, JoinFailedStart, AnnounceRunning,
     JoinAccept, JoinMonitor, StopLock, StopUnlock, AnnounceStopped, StopPop, Query,
     Start, StopBegin, Destroy, QueryBegin, TypeOK, Progress
<1>3. CASE AcceptStep \/ MonitorStep \/ AcceptFails \/ (\E a \in Addr : AcceptClient(a))
  BY <1>0, <1>3 DEF AcceptStep, MonitorStep, AcceptFails, AcceptClient, AcceptLoop,
     AcceptWoken, Push, SpawnFails, Spawn, MonitorLoop, MonitorFindsNone,
     MonitorExpires, MonitorSweeping, TypeOK
<1>4. ASSUME NEW h \in Handler,
             \/ HandlerStep(h) \/ ReceiveFails(h)
             \/ \E m \in Message : Receive(h, m) \/ ReceiveRole(h, m)
      PROVE  cur'[t] = cur[t] /\ pc'[t] \in {"unlink", "notify", "free"}
  BY <1>0, <1>4 DEF HandlerStep, SetupFails, SetupDone, HandlerLoop, ReceiveFails,
     Receive, ReceiveRole, SetRole, TypeOK
<1>5. ASSUME NEW u \in Thread, CleanupStep(u)
      PROVE  cur'[t] = cur[t] /\ pc'[t] \in {"unlink", "notify", "free"}
  BY <1>0, <1>5 DEF CleanupStep, CleanupRelease, CleanupUnlink, CleanupNotify,
     CleanupFree, TypeOK
<1>6. ASSUME NEW a \in Addr, Silent(a)
      PROVE  cur'[t] = cur[t] /\ pc'[t] \in {"unlink", "notify", "free"}
  BY <1>6 DEF Silent
<1> QED BY <1>1, <1>2, <1>3, <1>4, <1>5, <1>6 DEF Next, Network

\* Only the release, by a thread that then has it, marks a connection.
LEMMA ReleasedChange ==
  ASSUME IInv, [Next]_vars, NEW a \in live', conn'[a].released
  PROVE  \/ a \in live /\ conn[a].released
         \/ \E t \in Thread : cur'[t] = a /\ pc'[t] = "unlink"
<1> USE HandlerAssumption, AddrAssumption
    DEF Thread, Main, Accept, Monitor, NoThread, Goto
<1>0. TypeOK /\ Stages /\ Pointers /\ Allocated
  BY DEF IInv
<1> DEFINE Same == conn' = conn /\ live' \subseteq live
<1>1. CASE UNCHANGED vars
  <2>1. Same
    BY <1>1 DEF vars
  <2> QED BY <2>1
<1>2. CASE MainStep \/ MainCall \/ MonitorStep \/ AcceptStep \/ AcceptFails
  <2>1. Same
    BY <1>2 DEF MainStep, MainCall, MonitorStep, AcceptStep, CreateAcceptThread,
       CreateAcceptThreadFails, CreateMonitorThread, CreateMonitorThreadFails,
       JoinFailedStart, AnnounceRunning, JoinAccept, JoinMonitor, StopLock, StopUnlock,
       AnnounceStopped, StopPop, Query, Start, StopBegin, Destroy, QueryBegin,
       MonitorLoop, MonitorFindsNone, MonitorExpires, AcceptLoop, AcceptWoken, Push,
       SpawnFails, Spawn, AcceptFails, memVars
  <2> QED BY <2>1
<1>3. ASSUME NEW b \in Addr, AcceptClient(b)
      PROVE  a \in live /\ conn[a].released
  BY <1>0, <1>3 DEF AcceptClient, TypeOK, Zeroed
<1>4. ASSUME NEW h \in Handler,
             \/ HandlerStep(h) \/ ReceiveFails(h)
             \/ \E m \in Message : Receive(h, m) \/ ReceiveRole(h, m)
      PROVE  a \in live /\ conn[a].released
  <2>1. live' = live
    BY <1>4 DEF HandlerStep, SetupFails, SetupDone, HandlerLoop, ReceiveFails, Receive,
       ReceiveRole, SetRole, memVars
  <2>2. a \in Addr /\ conn \in [Addr -> Connection]
    BY <1>0, <2>1 DEF TypeOK
  <2>3. \/ conn' = conn
        \/ conn' = [conn EXCEPT ![cur[h]].state = "HANDSHAKE"]
        \/ conn' = [conn EXCEPT ![cur[h]].isPublisher = (pc[h] = "publish")]
        \/ \E m \in Message :
             conn' = [conn EXCEPT ![cur[h]] = Handled(m, conn[cur[h]])]
    BY <1>4 DEF HandlerStep, SetupFails, SetupDone, HandlerLoop, ReceiveFails, Receive,
       ReceiveRole, SetRole, memVars
  <2>4. conn[a] \in Connection
    BY <2>2
  <2>5. conn'[a].released = conn[a].released
    <3>1. \A m \in Message : Handled(m, conn[a]).released = conn[a].released
      BY <2>4 DEF Handled, Connection
    <3>2. CASE a = cur[h]
      <4>1. \E m \in Message : conn'[a] = Handled(m, conn[a])
            \/ conn'[a] = conn[a]
            \/ conn'[a] = [conn[a] EXCEPT !.state = "HANDSHAKE"]
            \/ conn'[a] = [conn[a] EXCEPT !.isPublisher = (pc[h] = "publish")]
        BY <2>2, <2>3, <3>2 DEF Message
      <4> QED BY <2>4, <3>1, <4>1 DEF Connection
    <3>3. CASE a # cur[h]
      BY <2>2, <2>3, <3>3
    <3> QED BY <3>2, <3>3
  <2> QED BY <2>1, <2>5
<1>5. ASSUME NEW t \in Thread, CleanupRelease(t)
      PROVE  \/ a \in live /\ conn[a].released
             \/ \E u \in Thread : cur'[u] = a /\ pc'[u] = "unlink"
  <2>1. live' = live /\ cur' = cur /\ pc'[t] = "unlink" /\ a \in Addr
    BY <1>0, <1>5 DEF CleanupRelease, TypeOK
  <2>2. CASE a = cur[t]
    BY <2>1, <2>2
  <2>3. CASE a # cur[t]
    BY <1>0, <1>5, <2>1, <2>3 DEF CleanupRelease, TypeOK
  <2> QED BY <2>2, <2>3
<1>6. ASSUME NEW t \in Thread, CleanupUnlink(t) \/ CleanupNotify(t) \/ CleanupFree(t)
      PROVE  Same
  BY <1>6 DEF CleanupUnlink, CleanupNotify, CleanupFree, memVars
<1>7. ASSUME NEW b \in Addr, Silent(b) PROVE Same
  BY <1>7 DEF Silent
<1> QED
  BY <1>1, <1>2, <1>3, <1>4, <1>5, <1>6, <1>7 DEF Next, Network, CleanupStep

\* A sweep that waits for its own lock waits for ever.
LEMMA StuckSweepStays ==
  ASSUME IInv, [Next]_vars, lock # NoThread, pc[lock] = "unlink"
  PROVE  lock' = lock /\ pc'[lock] = "unlink"
<1> USE HandlerAssumption
    DEF Thread, Main, Accept, Monitor, NoThread, Goto, CanLock
<1>0. TypeOK /\ LockHolder /\ Progress /\ lock \in {Main, Monitor}
  BY DEF IInv, TypeOK
<1>1. CASE UNCHANGED vars
  BY <1>1 DEF vars
<1>2. CASE MainStep \/ MainCall
  BY <1>0, <1>2 DEF MainStep, MainCall, CreateAcceptThread,
     CreateAcceptThreadFails, CreateMonitorThread, CreateMonitorThreadFails,
     JoinFailedStart, AnnounceRunning, JoinAccept, JoinMonitor, StopLock, StopUnlock,
     AnnounceStopped, StopPop, Query, Start, StopBegin, Destroy, QueryBegin, listVars,
     TypeOK, LockHolder, Progress
<1>7. CASE MonitorStep
  BY <1>0, <1>7 DEF MonitorStep, MonitorLoop, MonitorFindsNone, MonitorExpires,
     MonitorSweeping, listVars, TypeOK, LockHolder
<1>3. CASE AcceptStep \/ AcceptFails \/ (\E a \in Addr : AcceptClient(a))
  BY <1>0, <1>3 DEF AcceptStep, AcceptFails, AcceptClient, AcceptLoop, AcceptWoken,
     Push, SpawnFails, Spawn, listVars, TypeOK
<1>4. ASSUME NEW h \in Handler,
             \/ HandlerStep(h) \/ ReceiveFails(h)
             \/ \E m \in Message : Receive(h, m) \/ ReceiveRole(h, m)
      PROVE  lock' = lock /\ pc'[lock] = "unlink"
  BY <1>0, <1>4 DEF HandlerStep, SetupFails, SetupDone, HandlerLoop, ReceiveFails,
     Receive, ReceiveRole, SetRole, listVars, TypeOK
<1>5. ASSUME NEW t \in Thread, CleanupStep(t)
      PROVE  lock' = lock /\ pc'[lock] = "unlink"
  BY <1>0, <1>5 DEF CleanupStep, CleanupRelease, CleanupUnlink, CleanupNotify,
     CleanupFree, listVars, TypeOK
<1>6. ASSUME NEW a \in Addr, Silent(a) PROVE lock' = lock /\ pc'[lock] = "unlink"
  BY <1>6 DEF Silent, listVars
<1> QED BY <1>1, <1>2, <1>3, <1>4, <1>5, <1>6, <1>7 DEF Next, Network

\* The first misuse: the thread that has the connection meets the one that gave its
\* parts back, and one of the two is the sweep.
LEMMA FirstMisuse ==
  ASSUME IInv, PartsInv, [Next]_vars, ~misused, misused'
  PROVE  lock' # NoThread /\ pc'[lock'] = "unlink"
<1> USE HandlerAssumption
    DEF Thread, Main, Accept, Monitor, NoThread, Goto
<1>0. TypeOK /\ Stages /\ Pointers /\ Allocated /\ LockHolder
  BY DEF IInv
<1>1. PICK t \in Thread :
        /\ Uses(t) /\ UNCHANGED lock
        /\ pc[t] \in {"setup", "recv", "release"}
        /\ \A u \in Thread \ {t} : pc'[u] = pc[u]
        /\ pc[t] = "release" => pc'[t] = "unlink"
        /\ cur[t] # NoAddr
  <2>1. CASE UNCHANGED vars \/ MainStep \/ MainCall \/ MonitorStep \/ AcceptStep
             \/ AcceptFails \/ (\E a \in Addr : AcceptClient(a) \/ Silent(a))
    BY <2>1 DEF vars, MainStep, MainCall, MonitorStep, AcceptStep, CreateAcceptThread,
       CreateAcceptThreadFails, CreateMonitorThread, CreateMonitorThreadFails,
       JoinFailedStart, AnnounceRunning, JoinAccept, JoinMonitor, StopLock, StopUnlock,
       AnnounceStopped, StopPop, Query, Start, StopBegin, Destroy, QueryBegin,
       MonitorLoop, MonitorFindsNone, MonitorExpires, AcceptLoop, AcceptWoken, Push,
       SpawnFails, Spawn, AcceptFails, AcceptClient, Silent, useVars
  <2>2. ASSUME NEW h \in Handler,
               \/ HandlerStep(h) \/ ReceiveFails(h)
               \/ \E m \in Message : Receive(h, m) \/ ReceiveRole(h, m)
        PROVE  /\ Uses(h) /\ UNCHANGED lock
               /\ pc[h] \in {"setup", "recv", "release"}
               /\ \A u \in Thread \ {h} : pc'[u] = pc[u]
               /\ pc[h] = "release" => pc'[h] = "unlink"
               /\ cur[h] # NoAddr
    BY <1>0, <2>2 DEF HandlerStep, SetupFails, SetupDone, HandlerLoop, ReceiveFails,
       Receive, ReceiveRole, SetRole, listVars, useVars, TypeOK, Pointers
  <2>3. ASSUME NEW u \in Thread, CleanupStep(u)
        PROVE  /\ Uses(u) /\ UNCHANGED lock /\ pc[u] = "release"
               /\ \A v \in Thread \ {u} : pc'[v] = pc[v]
               /\ pc'[u] = "unlink" /\ cur[u] # NoAddr
    BY <1>0, <2>3 DEF CleanupStep, CleanupRelease, CleanupUnlink, CleanupNotify,
       CleanupFree, listVars, useVars, TypeOK, Pointers, Sweepers, CleanupStage
  <2> QED BY <2>1, <2>2, <2>3 DEF Next, Network
<1>2. cur[t] \in live /\ conn[cur[t]].released
  BY <1>0, <1>1 DEF Uses, Allocated
<1>3. PICK u \in Thread : cur[u] = cur[t] /\ pc[u] \in {"unlink", "notify", "free"}
  BY <1>2 DEF PartsInv, ReleasedBy
<1>4. u # t
  BY <1>1, <1>3
<1>5. /\ lock \in {t, u} /\ pc[lock] \in {"release", "unlink"}
  BY <1>1, <1>3, <1>4, OneOwnerInIInv DEF OneOwnerButSweep
<1>6. lock # NoThread
  BY <1>5
<1>7. CASE lock = u
  BY <1>1, <1>3, <1>4, <1>5, <1>6, <1>7
<1>8. CASE lock = t
  BY <1>1, <1>5, <1>6, <1>8
<1> QED BY <1>5, <1>7, <1>8

LEMMA GivenStays ==
  ASSUME Given, given' = given, live \subseteq live',
         \A t \in Workers : pc'[t] \in {"push", "free"} =>
           cur'[t] # given \/ (cur'[t] = cur[t] /\ pc'[t] = pc[t])
  PROVE  Given'
  BY DEF Given

\* What rtmp_server_get_connection returned is listed then, and forgotten before its
\* owner frees it.
LEMMA NextGiven ==
  ASSUME IInv, Given, [Next]_vars
  PROVE  Given'
<1> USE HandlerAssumption, AddrAssumption
    DEF Thread, Main, Accept, Monitor, NoThread, Goto, Workers
<1>0. TypeOK /\ Stages /\ Pointers /\ Allocated /\ Owners /\ LockHolder
  BY DEF IInv
<1>1. CASE UNCHANGED vars
  BY <1>1, GivenStays DEF vars
<1>2. CASE MainStep \/ MainCall \/ MonitorStep
  <2>1. CASE Query
    <3>1. /\ given' \in listed \cup {given, NoAddr} /\ live' = live /\ cur' = cur
          /\ \A t \in Workers : pc'[t] = pc[t]
      BY <1>0, <2>1 DEF Query, memVars, TypeOK
    <3>2. ASSUME given' \in listed PROVE Given'
      BY <1>0, <3>1, <3>2 DEF Given, Allocated, Owners, OffList
    <3> QED BY <3>1, <3>2 DEF Given
  <2>2. CASE ~Query
    <3>1. /\ given' = given /\ live' = live
          /\ \A h \in Handler : pc'[h] = pc[h] /\ cur'[h] = cur[h]
          /\ pc'[Accept] = pc[Accept] \/ pc'[Accept] \in {"none", "loop"}
          /\ cur'[Accept] = cur[Accept]
      BY <1>0, <1>2, <2>2 DEF MainStep, MainCall, MonitorStep, CreateAcceptThread,
         CreateAcceptThreadFails, CreateMonitorThread, CreateMonitorThreadFails,
         JoinFailedStart, AnnounceRunning, JoinAccept, JoinMonitor, StopLock,
         StopUnlock, AnnounceStopped, StopPop, Start, StopBegin, Destroy, QueryBegin,
         MonitorLoop, MonitorFindsNone, MonitorExpires, memVars, useVars, TypeOK
    <3> QED BY <3>1, GivenStays
  <2> QED BY <2>1, <2>2
<1>3. CASE AcceptStep \/ AcceptFails
  <2>1. /\ given' = given /\ live' = live
        /\ \A t \in Workers : pc'[t] # "push" /\ (pc'[t] = "free" =>
                                cur'[t] = cur[t] /\ pc'[t] = pc[t])
    BY <1>0, <1>3 DEF AcceptStep, AcceptFails, AcceptLoop, AcceptWoken, Push,
       SpawnFails, Spawn, memVars, useVars, TypeOK, Stages, HandlerStage, CleanupStage
  <2> QED BY <2>1, GivenStays
<1>4. ASSUME NEW a \in Addr, AcceptClient(a) PROVE Given'
  <2>1. /\ given' = given /\ live' = live \cup {a} /\ a \notin live
        /\ cur'[Accept] = a
        /\ \A h \in Handler : pc'[h] = pc[h] /\ cur'[h] = cur[h]
    BY <1>0, <1>4 DEF AcceptClient, useVars, TypeOK
  <2> QED BY <2>1 DEF Given
<1>5. ASSUME NEW h \in Handler,
             \/ HandlerStep(h) \/ ReceiveFails(h)
             \/ \E m \in Message : Receive(h, m) \/ ReceiveRole(h, m)
      PROVE  Given'
  <2>1. /\ given' = given /\ live' = live /\ cur' = cur
        /\ pc'[h] \notin {"push", "free"}
        /\ \A t \in Workers \ {h} : pc'[t] = pc[t]
    BY <1>0, <1>5 DEF HandlerStep, SetupFails, SetupDone, HandlerLoop, ReceiveFails,
       Receive, ReceiveRole, SetRole, memVars, useVars, TypeOK
  <2> QED BY <2>1, GivenStays
<1>6. ASSUME NEW t \in Thread, CleanupRelease(t) \/ CleanupUnlink(t) PROVE Given'
  <2>1. /\ given' = given /\ live' = live /\ cur' = cur
        /\ pc'[t] \notin {"push", "free"}
        /\ \A u \in Workers \ {t} : pc'[u] = pc[u]
    BY <1>0, <1>6 DEF CleanupRelease, CleanupUnlink, memVars, useVars, TypeOK
  <2> QED BY <2>1, GivenStays
<1>7. ASSUME NEW t \in Thread, CleanupNotify(t) PROVE Given'
  <2>1. /\ given' = IF given = cur[t] THEN NoAddr ELSE given
        /\ live' = live /\ cur' = cur
        /\ \A u \in Workers \ {t} : pc'[u] = pc[u]
    BY <1>0, <1>7 DEF CleanupNotify, memVars, TypeOK
  <2> QED BY <2>1 DEF Given
<1>8. ASSUME NEW t \in Thread, CleanupFree(t) PROVE Given'
  <2>1. t \in Workers /\ pc[t] = "free"
    BY <1>0, <1>8 DEF CleanupFree, Stages, MainStage, MonitorStage
  <2>2. /\ given' = given /\ live' = live \ {cur[t]}
        /\ pc'[t] \notin {"push", "free"}
        /\ \A u \in Workers \ {t} : pc'[u] = pc[u] /\ cur'[u] = cur[u]
    BY <1>0, <1>8 DEF CleanupFree, AfterCleanup, useVars, TypeOK
  <2> QED BY <2>1, <2>2 DEF Given
<1>9. ASSUME NEW a \in Addr, Silent(a) PROVE Given'
  BY <1>9, GivenStays DEF Silent, useVars
<1> QED
  BY <1>1, <1>2, <1>3, <1>4, <1>5, <1>6, <1>7, <1>8, <1>9
  DEF Next, Network, CleanupStep

LEMMA NextPartsInv == IInv /\ PartsInv /\ [Next]_vars => PartsInv'
<1> SUFFICES ASSUME IInv, PartsInv, [Next]_vars PROVE PartsInv'
  OBVIOUS
<1>1. Given'
  BY NextGiven DEF PartsInv
<1>2. ReleasedBy'
  BY ReleasersStay, ReleasedChange DEF PartsInv, ReleasedBy
<1>3. MisusedInSweep'
  <2>1. CASE misused
    BY <2>1, StuckSweepStays DEF PartsInv, MisusedInSweep
  <2>2. CASE ~misused
    BY <2>2, FirstMisuse DEF MisusedInSweep
  <2> QED BY <2>1, <2>2
<1> QED BY <1>1, <1>2, <1>3 DEF PartsInv

\* No listed connection, no thread's connection, and nothing the application was given
\* and not yet told to forget, is ever freed memory.
THEOREM NoUseAfterFree == Spec => []NoDanglingPointer
<1>1. IInv /\ PartsInv => NoDanglingPointer
  BY DEF IInv, PartsInv, Given, NoDanglingPointer
<1> QED BY <1>1, InitPartsInv, InvariantIInv, NextPartsInv, PTL DEF Spec

\* Two threads hold one connection only inside a sweep that holds the lock, and it is
\* not freed twice; its socket and chunk stream are used or given back a second time
\* only with such a sweep stuck for ever.
THEOREM OneOwner == Spec => []SoleOwner
<1>1. IInv /\ PartsInv => SoleOwner
  BY OneOwnerInIInv DEF PartsInv, SoleOwner
<1> QED BY <1>1, InitPartsInv, InvariantIInv, NextPartsInv, PTL DEF Spec

-----------------------------------------------------------------------------
(* The role of a client.                                                     *)

\* What RoleMatchesState needs to be inductive: a connection nobody has shaken hands
\* with is as calloc left it, in the hands of accept or of its handler; and between the
\* two writes the first is done.
RoleInv ==
  /\ RoleMatchesState
  /\ \A t \in Workers :
       pc[t] \in {"push", "spawn", "setup"} => conn[cur[t]].state = "NEW"
  /\ \A h \in Handler :
       /\ pc[h] = "play" => conn[cur[h]].state = "PLAY"
       /\ pc[h] = "publish" => conn[cur[h]].state = "PUBLISHING"

\* The role of a connection whose handler goes to this stage.
RoleFits(c, stage) ==
  /\ c.state = "PUBLISHING" /\ stage # "publish" => c.isPublisher
  /\ c.state = "PLAY" /\ stage # "play" => ~c.isPublisher
  /\ c.state \in {"NEW", "HANDSHAKE"} => ~c.isPublisher /\ ~c.hasMedia
  /\ stage = "play" => c.state = "PLAY"
  /\ stage = "publish" => c.state = "PUBLISHING"

LEMMA InitRoleInv == Init => RoleInv
  BY HandlerAssumption
  DEF Init, RoleInv, RoleMatchesState, Workers, Thread, Accept, Monitor, Main

\* A message keeps the role's facts, whatever the client sent before.
LEMMA HandledRole ==
  ASSUME NEW c \in Connection, NEW m \in Message, RoleFits(c, "recv"),
         NEW stage, stage = IF m \in {"play", "publish"} THEN m ELSE "loop"
  PROVE  RoleFits(Handled(m, c), stage)
  BY DEF Handled, StateAfter, MediaAfter, Message, Connection, ConnState, RoleFits

\* Steps that leave the roles alone, and put no thread where it has a new connection.
LEMMA QuietKeepsRoleInv ==
  ASSUME IInv, RoleInv, live' \subseteq live,
         \A a \in Addr : /\ conn'[a].state = conn[a].state
                         /\ conn'[a].isPublisher = conn[a].isPublisher
                         /\ conn'[a].hasMedia = conn[a].hasMedia,
         \A t \in Workers :
           pc'[t] \in {"push", "spawn", "setup"} =>
             \E u \in Workers : /\ pc[u] \in {"push", "spawn", "setup"}
                                /\ cur'[t] = cur[u],
         \A h \in Handler : "play" \in {pc[h], pc'[h]} \/ "publish" \in {pc[h], pc'[h]}
           => pc'[h] = pc[h] /\ cur'[h] = cur[h]
  PROVE  RoleInv'
<1>0. /\ TypeOK /\ Pointers /\ Stages
      /\ live \subseteq Addr /\ cur \in [Thread -> Addr \cup {NoAddr}]
  BY DEF IInv, TypeOK
<1>1. \A a \in Addr : Between(a)' <=> Between(a)
  BY DEF Between
<1>2. RoleMatchesState'
  BY <1>0, <1>1 DEF RoleInv, RoleMatchesState
<1>3. ASSUME NEW u \in Workers, pc[u] \in {"push", "spawn", "setup"}
      PROVE  cur[u] \in Addr
  <2>1. CASE u = Accept
    BY <1>0, <1>3, <2>1 DEF Pointers, Workers, Thread, Stages, AcceptStage,
       CleanupStage
  <2>2. CASE u \in Handler
    BY <1>0, <1>3, <2>2 DEF Pointers, Thread
  <2> QED BY <2>1, <2>2 DEF Workers
<1>4. ASSUME NEW h \in Handler, pc[h] \in {"play", "publish"}
      PROVE  cur[h] \in Addr
  BY <1>0, <1>4, HandlerAssumption DEF Pointers, Thread
<1> QED BY <1>2, <1>3, <1>4 DEF RoleInv

\* A step that rewrites one connection, in its handler's hands.
LEMMA OneRole ==
  ASSUME IInv, RoleInv, NEW h \in Handler, NEW d, pc[h] # "none",
         conn' = [conn EXCEPT ![cur[h]] = d], live' = live, cur' = cur,
         \A t \in Workers \ {h} : pc'[t] = pc[t],
         pc'[h] \in {"loop", "play", "publish"}, RoleFits(d, pc'[h])
  PROVE  RoleInv'
<1> USE HandlerAssumption DEF Workers, Thread, Main, Accept, Monitor
<1>0. /\ Pointers /\ Owners /\ Stages /\ live \subseteq Addr
      /\ conn \in [Addr -> Connection] /\ cur \in [Thread -> Addr \cup {NoAddr}]
  BY DEF IInv, TypeOK
<1>1. cur[h] \in Addr
  BY <1>0 DEF Pointers
<1>2. conn'[cur[h]] = d /\ \A a \in Addr \ {cur[h]} : conn'[a] = conn[a]
  BY <1>0, <1>1
<1>3. \A t \in Workers \ {h} : cur[t] # cur[h]
  BY <1>0, <1>1, AddrAssumption DEF Owners
<1>4. Between(cur[h])' <=> pc'[h] \in {"play", "publish"}
  BY <1>3 DEF Between
<1>5. \A a \in Addr \ {cur[h]} : Between(a)' <=> Between(a)
  BY DEF Between
<1>6. RoleMatchesState'
  BY <1>0, <1>2, <1>4, <1>5 DEF RoleInv, RoleMatchesState, RoleFits
<1>7. \A t \in Workers \ {h} :
        pc[t] \in {"push", "spawn", "setup", "play", "publish"} =>
          cur[t] \in Addr \ {cur[h]}
  BY <1>0, <1>3 DEF Pointers, Stages, AcceptStage, HandlerStage, CleanupStage
<1>8. \A t \in Workers :
        pc'[t] \in {"push", "spawn", "setup"} => conn'[cur'[t]].state = "NEW"
  BY <1>2, <1>7 DEF RoleInv
<1>9. \A g \in Handler : /\ pc'[g] = "play" => conn'[cur'[g]].state = "PLAY"
                         /\ pc'[g] = "publish" => conn'[cur'[g]].state = "PUBLISHING"
  <2>1. \A g \in Handler \ {h} : pc'[g] = pc[g] /\ cur'[g] = cur[g]
    OBVIOUS
  <2>2. /\ pc'[h] = "play" => d.state = "PLAY"
        /\ pc'[h] = "publish" => d.state = "PUBLISHING"
    BY DEF RoleFits
  <2>3. ASSUME NEW g \in Handler \ {h}
        PROVE  /\ pc'[g] = "play" => conn'[cur'[g]].state = "PLAY"
               /\ pc'[g] = "publish" => conn'[cur'[g]].state = "PUBLISHING"
    <3>1. pc[g] \in {"play", "publish"} => conn'[cur[g]] = conn[cur[g]]
      BY <1>2, <1>7
    <3> QED BY <2>1, <3>1 DEF RoleInv
  <2>4. conn'[cur'[h]] = d
    BY <1>2
  <2> QED BY <2>2, <2>3, <2>4
<1> QED BY <1>6, <1>8, <1>9 DEF RoleInv

LEMMA NextRoleInv == IInv /\ RoleInv /\ [Next]_vars => RoleInv'
<1> SUFFICES ASSUME IInv, RoleInv, [Next]_vars PROVE RoleInv'
  OBVIOUS
<1> USE HandlerAssumption, AddrAssumption
    DEF Thread, Main, Accept, Monitor, NoThread, Workers, Goto
<1>0. TypeOK /\ Stages /\ Pointers /\ Owners /\ Allocated /\ LockHolder
  BY DEF IInv
<1>1. CASE UNCHANGED vars
  BY <1>1, QuietKeepsRoleInv DEF vars
<1>2. CASE MainStep \/ MainCall \/ MonitorStep
  <2>1. conn' = conn /\ live' = live
    BY <1>2 DEF MainStep, MainCall, MonitorStep, CreateAcceptThread,
       CreateAcceptThreadFails, CreateMonitorThread, CreateMonitorThreadFails,
       JoinFailedStart, AnnounceRunning, JoinAccept, JoinMonitor, StopLock, StopUnlock,
       AnnounceStopped, StopPop, Query, Start, StopBegin, Destroy, QueryBegin,
       MonitorLoop, MonitorFindsNone, MonitorExpires, memVars
  <2>2. /\ \A h \in Handler : pc'[h] = pc[h] /\ cur'[h] = cur[h]
        /\ cur'[Accept] = cur[Accept]
        /\ pc'[Accept] = pc[Accept] \/ pc'[Accept] \in {"none", "loop"}
    BY <1>0, <1>2 DEF MainStep, MainCall, MonitorStep, CreateAcceptThread,
       CreateAcceptThreadFails, CreateMonitorThread, CreateMonitorThreadFails,
       JoinFailedStart, AnnounceRunning, JoinAccept, JoinMonitor, StopLock, StopUnlock,
       AnnounceStopped, StopPop, Query, Start, StopBegin, Destroy, QueryBegin,
       MonitorLoop, MonitorFindsNone, MonitorExpires, TypeOK
  <2> QED BY <2>1, <2>2, QuietKeepsRoleInv
<1>3. CASE AcceptLoop \/ AcceptWoken \/ AcceptFails \/ SpawnFails
  <2>1. /\ conn' = conn /\ live' = live /\ cur' = cur
        /\ \A h \in Handler : pc'[h] = pc[h]
        /\ pc'[Accept] \in {"accept", "done", "loop", "release"}
    BY <1>0, <1>3 DEF AcceptLoop, AcceptWoken, AcceptFails, SpawnFails, memVars, TypeOK
  <2> QED BY <2>1, QuietKeepsRoleInv
<1>4. CASE Push
  <2>1. /\ conn' = conn /\ live' = live /\ cur' = cur /\ pc[Accept] = "push"
        /\ \A h \in Handler : pc'[h] = pc[h]
    BY <1>0, <1>4 DEF Push, memVars, TypeOK
  <2> QED BY <2>1, QuietKeepsRoleInv
<1>5. ASSUME NEW h \in Handler, Spawn(h) PROVE RoleInv'
  <2>1. /\ conn' = conn /\ live' = live /\ pc[Accept] = "spawn"
        /\ pc'[Accept] = "loop" /\ cur'[h] = cur[Accept]
        /\ pc[h] = "none" /\ pc'[h] = "setup"
        /\ \A g \in Handler \ {h} : pc'[g] = pc[g] /\ cur'[g] = cur[g]
    BY <1>0, <1>5 DEF Spawn, memVars, TypeOK
  <2> QED BY <2>1, QuietKeepsRoleInv
<1>6. ASSUME NEW a \in Addr, AcceptClient(a) PROVE RoleInv'
  <2>1. /\ a \notin live /\ live' = live \cup {a}
        /\ conn' = [conn EXCEPT ![a] = Zeroed] /\ conn \in [Addr -> Connection]
        /\ cur'[Accept] = a
        /\ \A h \in Handler : pc'[h] = pc[h] /\ cur'[h] = cur[h]
    BY <1>0, <1>6 DEF AcceptClient, TypeOK
  <2>2. conn'[a].state = "NEW" /\ ~conn'[a].isPublisher /\ ~conn'[a].hasMedia
    BY <2>1 DEF Zeroed
  <2>3. \A b \in live : conn'[b] = conn[b]
    BY <1>0, <2>1 DEF TypeOK
  <2>4. RoleMatchesState'
    <3>1. \A b \in live : Between(b)' <=> Between(b)
      BY <2>1 DEF Between
    <3> QED BY <2>1, <2>2, <2>3, <3>1 DEF RoleInv, RoleMatchesState
  <2>5. \A h \in Handler : pc[h] \in {"setup", "play", "publish"} => cur[h] \in live
    BY <1>0 DEF Pointers, Allocated
  <2>6. \A h \in Handler : pc[h] \notin {"push", "spawn"}
    BY <1>0 DEF Stages, HandlerStage, CleanupStage
  <2> QED BY <2>1, <2>2, <2>3, <2>4, <2>5, <2>6 DEF RoleInv
<1>7. ASSUME NEW h \in Handler,
             \/ SetupDone(h) \/ SetRole(h)
             \/ \E m \in Message : Receive(h, m) \/ ReceiveRole(h, m)
      PROVE RoleInv'
  <2>1. cur[h] \in Addr /\ cur[h] \in live /\ conn[cur[h]] \in Connection
    BY <1>0, <1>7 DEF SetupDone, Receive, ReceiveRole, SetRole, Pointers, Allocated,
       TypeOK
  <2>2. h \in Workers /\ \A t \in Workers \ {h} : cur[t] # cur[h]
    BY <1>0, <2>1 DEF Owners
  <2>3. pc[h] = "setup" => conn[cur[h]].state = "NEW"
    BY DEF RoleInv
  <2>4. RoleFits(conn[cur[h]], pc[h])
    <3>1. Between(cur[h]) <=> pc[h] \in {"play", "publish"}
      BY <2>2 DEF Between
    <3> QED BY <2>1, <3>1 DEF RoleInv, RoleMatchesState, RoleFits
  <2>5. /\ live' = live /\ cur' = cur /\ pc[h] # "none"
        /\ \A t \in Workers \ {h} : pc'[t] = pc[t]
    BY <1>0, <1>7 DEF SetupDone, Receive, ReceiveRole, SetRole, TypeOK
  <2>6. CASE SetupDone(h)
    <3> DEFINE d == [conn[cur[h]] EXCEPT !.state = "HANDSHAKE"]
    <3>1. conn' = [conn EXCEPT ![cur[h]] = d] /\ pc'[h] = "loop" /\ pc[h] = "setup"
      BY <1>0, <2>6 DEF SetupDone, TypeOK
    <3>2. RoleFits(d, "loop")
      BY <2>1, <2>3, <2>4, <3>1 DEF RoleFits, Connection
    <3> QED BY <2>5, <3>1, <3>2, OneRole
  <2>7. CASE SetRole(h)
    <3> DEFINE d == [conn[cur[h]] EXCEPT !.isPublisher = (pc[h] = "publish")]
    <3>1. /\ conn' = [conn EXCEPT ![cur[h]] = d] /\ pc'[h] = "loop"
          /\ pc[h] \in {"play", "publish"}
      BY <1>0, <2>7 DEF SetRole, TypeOK
    <3>2. RoleFits(d, "loop")
      BY <2>1, <2>4, <3>1 DEF RoleFits, Connection
    <3> QED BY <2>5, <3>1, <3>2, OneRole
  <2>8. ASSUME NEW m \in Message, Receive(h, m) \/ ReceiveRole(h, m) PROVE RoleInv'
    <3> DEFINE d == Handled(m, conn[cur[h]])
    <3>1. /\ conn' = [conn EXCEPT ![cur[h]] = d] /\ pc[h] = "recv"
          /\ pc'[h] = IF m \in {"play", "publish"} THEN m ELSE "loop"
      BY <1>0, <2>8 DEF Receive, ReceiveRole, TypeOK
    <3>2. RoleFits(d, pc'[h])
      BY <2>1, <2>4, <3>1, HandledRole
    <3>3. pc'[h] \in {"loop", "play", "publish"}
      BY <3>1
    <3> HIDE DEF d
    <3> QED BY <2>5, <3>1, <3>2, <3>3, OneRole
  <2> QED BY <1>7, <2>6, <2>7, <2>8
<1>8. ASSUME NEW h \in Handler, SetupFails(h) \/ HandlerLoop(h) \/ ReceiveFails(h)
      PROVE RoleInv'
  <2>1. /\ conn' = conn /\ live' = live /\ cur' = cur
        /\ pc'[h] \in {"release", "recv"} /\ pc[h] \notin {"play", "publish"}
        /\ \A t \in Workers \ {h} : pc'[t] = pc[t]
    BY <1>0, <1>8 DEF SetupFails, HandlerLoop, ReceiveFails, memVars, TypeOK
  <2> QED BY <2>1, QuietKeepsRoleInv
<1>9. ASSUME NEW t \in Thread, CleanupStep(t) PROVE RoleInv'
  <2>1. /\ live' \subseteq live
        /\ pc'[t] \in {"unlink", "notify", "free", "loop", "sweep", "none"}
        /\ pc[t] \notin {"play", "publish"}
        /\ \A u \in Workers \ {t} : pc'[u] = pc[u] /\ cur'[u] = cur[u]
    BY <1>0, <1>9 DEF CleanupStep, CleanupRelease, CleanupUnlink, CleanupNotify,
                      CleanupFree, AfterCleanup, memVars, TypeOK
  <2>2. \A a \in Addr : /\ conn'[a].state = conn[a].state
                        /\ conn'[a].isPublisher = conn[a].isPublisher
                        /\ conn'[a].hasMedia = conn[a].hasMedia
    <3>1. conn' = conn \/ conn' = [conn EXCEPT ![cur[t]].released = TRUE]
      BY <1>9 DEF CleanupStep, CleanupRelease, CleanupUnlink, CleanupNotify,
                  CleanupFree, memVars
    <3> QED BY <1>0, <3>1 DEF TypeOK, Connection
  <2> QED BY <2>1, <2>2, QuietKeepsRoleInv
<1>10. ASSUME NEW a \in Addr, Silent(a) PROVE RoleInv'
  BY <1>10, QuietKeepsRoleInv DEF Silent
<1> QED
  BY <1>1, <1>2, <1>3, <1>4, <1>5, <1>6, <1>7, <1>8, <1>9, <1>10
  DEF Next, AcceptStep, Network, HandlerStep

\* A client is taken for a publisher exactly in the states that say so, and none
\* inherits the role of an earlier client with the same memory or another's.
THEOREM RoleIsItsOwn == Spec => []RoleMatchesState
<1>1. RoleInv => RoleMatchesState
  BY DEF RoleInv
<1> QED BY <1>1, InitRoleInv, InvariantIInv, NextRoleInv, PTL DEF Spec

-----------------------------------------------------------------------------
(* The promise of the calls that end the server, where every start gets its  *)
(* monitor thread.                                                           *)

\* A server that reports STOPPED and is not being started further than its accept
\* thread has no listed connection and no handler that could lock again; and the
\* mutex is destroyed only in that state.
DownInv ==
  /\ pc[Main] # "joinFailed"
  /\ pc[Main] \in {"createAccept", "createMonitor", "announce"} =>
       running /\ srvState = "STOPPED"
  /\ pc[Main] \in {"idle", "query"} /\ ~running => srvState = "STOPPED"
  /\ pc[Main] \in {"idle", "query", "createAccept"} /\ srvState = "STOPPED" =>
       listed = {} /\ \A h \in Handler : ~Unfinished(h)
  /\ destroyed => pc[Main] = "idle" /\ ~running

LEMMA InitDownInv == Init => DownInv
  BY HandlerAssumption
  DEF Init, DownInv, Unfinished, Thread, Accept, Monitor, Main

LEMMA NextDownInv ==
  ASSUME "noMonitor" \notin Events, IInv, DownInv, [Next]_vars
  PROVE  DownInv'
<1> USE HandlerAssumption, AddrAssumption
    DEF Thread, Main, Accept, Monitor, NoThread, Goto
<1>0. TypeOK /\ Stages /\ Progress /\ StopQuiesces /\ LockHolder
  BY DEF IInv
<1>1. CASE UNCHANGED vars
  BY <1>1 DEF vars, DownInv, Unfinished
<1>2. CASE MainStep \/ MainCall
  <2>0. listed' \subseteq listed /\ \A h \in Handler : Unfinished(h)' <=> Unfinished(h)
    BY <1>0, <1>2 DEF MainStep, MainCall, CreateAcceptThread,
       CreateAcceptThreadFails, CreateMonitorThread, CreateMonitorThreadFails,
       JoinFailedStart, AnnounceRunning, JoinAccept, JoinMonitor, StopLock, StopUnlock,
       AnnounceStopped, StopPop, Query, Start, StopBegin, Destroy, QueryBegin, listVars,
       Unfinished, TypeOK
  <2> HIDE DEF Unfinished
  <2>1. CASE \/ CreateAcceptThread \/ CreateAcceptThreadFails \/ CreateMonitorThread
             \/ AnnounceRunning \/ Start
    BY <1>0, <2>0, <2>1 DEF DownInv, TypeOK, Progress, CreateAcceptThread,
       CreateAcceptThreadFails, CreateMonitorThread, AnnounceRunning, Start, serverVars
  <2>2. CASE \/ StopBegin \/ JoinAccept \/ JoinMonitor \/ StopLock \/ StopUnlock
             \/ (\E a \in Addr : StopPop(a))
    BY <1>0, <2>0, <2>2 DEF DownInv, TypeOK, Progress, StopBegin, JoinAccept,
       JoinMonitor, StopLock, StopUnlock, StopPop, serverVars
  <2>3. CASE Destroy \/ QueryBegin \/ Query
    BY <1>0, <2>0, <2>3 DEF DownInv, TypeOK, Destroy, QueryBegin, Query, serverVars
  <2>5. CASE AnnounceStopped
    <3>1. listed = {} /\ \A h \in Handler : ~Unfinished(h)
      BY <1>0, <2>5 DEF AnnounceStopped, StopQuiesces
    <3> QED BY <1>0, <2>0, <2>5, <3>1 DEF DownInv, TypeOK, Progress, AnnounceStopped
  <2>4. CASE CreateMonitorThreadFails \/ JoinFailedStart
    BY <2>4 DEF DownInv, CreateMonitorThreadFails, JoinFailedStart
  <2> QED BY <1>2, <2>1, <2>2, <2>3, <2>4, <2>5 DEF MainStep, MainCall
<1>3. CASE \/ AcceptStep \/ MonitorStep \/ AcceptFails
           \/ \E a \in Addr : AcceptClient(a)
  <2>1. /\ UNCHANGED serverVars
        /\ pc'[Main] = pc[Main]
        /\ pc[Accept] # "none" \/ pc[Monitor] # "none"
    BY <1>0, <1>3 DEF AcceptStep, MonitorStep, AcceptFails, AcceptClient, AcceptLoop,
       AcceptWoken, Push, SpawnFails, Spawn, MonitorLoop, MonitorFindsNone,
       MonitorExpires, MonitorSweeping, TypeOK
  <2>2. ~(pc[Main] \in {"idle", "query", "createAccept"} /\ srvState = "STOPPED")
    BY <1>0, <2>1 DEF Progress
  <2> QED BY <2>1, <2>2 DEF DownInv, serverVars
<1>4. ASSUME NEW h \in Handler,
             \/ HandlerStep(h) \/ ReceiveFails(h)
             \/ \E m \in Message : Receive(h, m) \/ ReceiveRole(h, m)
      PROVE  DownInv'
  <2>1. UNCHANGED <<serverVars, listed>> /\ pc'[Main] = pc[Main] /\ Unfinished(h)
    BY <1>0, <1>4 DEF HandlerStep, SetupFails, SetupDone, HandlerLoop, ReceiveFails,
       Receive, ReceiveRole, SetRole, listVars, TypeOK, Unfinished, HandlerStage
  <2> QED BY <2>1 DEF DownInv, serverVars
<1>5. ASSUME NEW t \in Thread, CleanupStep(t) PROVE DownInv'
  <2>1. /\ UNCHANGED serverVars /\ listed' \subseteq listed
        /\ \A h \in Handler : Unfinished(h)' => Unfinished(h)
    BY <1>0, <1>5 DEF CleanupStep, CleanupRelease, CleanupUnlink, CleanupNotify, CleanupFree,
       Unlinked, AfterCleanup, listVars, TypeOK, Unfinished, HandlerStage
  <2>2. \/ pc'[Main] = pc[Main]
        \/ pc[Main] = "release" /\ pc'[Main] = "unlink"
    BY <1>0, <1>5 DEF CleanupStep, CleanupRelease, CleanupUnlink, CleanupNotify, CleanupFree,
       CanLock, LockHolder, Stages, MainStage, TypeOK
  <2> QED BY <2>1, <2>2 DEF DownInv, serverVars
<1>6. ASSUME NEW a \in Addr, Silent(a) PROVE DownInv'
  BY <1>6 DEF Silent, DownInv, Unfinished, serverVars, listVars
<1> QED BY <1>1, <1>2, <1>3, <1>4, <1>5, <1>6 DEF Next, Network

\* rtmp_server_cleanup destroys the mutex when nobody is left to lock it: no accept
\* thread, no monitor, and every handler past its last use of the list.
THEOREM NobodyLocksAgain ==
  ASSUME "noMonitor" \notin Events
  PROVE  Spec => []NoLockAfterDestroy
<1>1. IInv /\ DownInv => NoLockAfterDestroy
  BY HandlerAssumption
  DEF IInv, Stages, Progress, DownInv, NoLockAfterDestroy, Unfinished, Thread,
      HandlerStage, CleanupStage, Main, Accept, Monitor, NoThread
<1>2. IInv /\ DownInv /\ [Next]_vars => DownInv'
  BY NextDownInv
<1> QED BY <1>1, <1>2, InitDownInv, InvariantIInv, PTL DEF Spec

-----------------------------------------------------------------------------
(* The server implements ConnRegistry, under the same condition.             *)

\* The abstract state moves by one connection.
LEMMA RegistryMoves ==
  ASSUME NEW a \in Addr, phaseBar' = phaseBar,
         \A b \in Addr \ {a} : lifeBar'[b] = lifeBar[b],
         \/ lifeBar[a] = "absent" /\ lifeBar'[a] = "listed" /\ phaseBar # "down"
         \/ lifeBar[a] = "listed" /\ lifeBar'[a] = "detached"
         \/ lifeBar[a] = "detached" /\ lifeBar'[a] = "absent"
         \/ lifeBar'[a] = lifeBar[a]
  PROVE  [Registry!Next]_(Registry!vars)
<1>1. lifeBar' = [lifeBar EXCEPT ![a] = lifeBar'[a]]
  BY DEF lifeBar
<1>2. CASE lifeBar'[a] = lifeBar[a]
  BY <1>1, <1>2 DEF lifeBar, Registry!vars
<1>3. CASE lifeBar[a] = "absent" /\ lifeBar'[a] = "listed" /\ phaseBar # "down"
  BY <1>1, <1>3 DEF Registry!Next, Registry!Register
<1>4. CASE lifeBar[a] = "listed" /\ lifeBar'[a] = "detached"
  BY <1>1, <1>4 DEF Registry!Next, Registry!Detach
<1>5. CASE lifeBar[a] = "detached" /\ lifeBar'[a] = "absent"
  BY <1>1, <1>5 DEF Registry!Next, Registry!Release
<1> QED BY <1>2, <1>3, <1>4, <1>5

\* Steps that concern no connection.
LEMMA RegistryStays ==
  ASSUME lifeBar' = lifeBar,
         \/ phaseBar' = phaseBar
         \/ phaseBar = "down" /\ phaseBar' = "up"
         \/ phaseBar = "up" /\ phaseBar' = "draining"
         \/ phaseBar # "down" /\ phaseBar' = "down" /\ listed = {}
  PROVE  [Registry!Next]_(Registry!vars)
<1>1. listed = {} => \A c \in Addr : lifeBar[c] # "listed"
  BY DEF lifeBar
<1> QED
  BY <1>1 DEF Registry!vars, Registry!Next, Registry!Up, Registry!Drain, Registry!Down

\* The lives, read off the list, the memory and the client accept has just got.
LEMMA LivesKept ==
  ASSUME listed' = listed, live' = live, \A a \in Addr : Unborn(a)' <=> Unborn(a)
  PROVE  lifeBar' = lifeBar
  BY DEF lifeBar

LEMMA RegistryStep ==
  ASSUME "noMonitor" \notin Events, IInv, DownInv, [Next]_vars
  PROVE  [Registry!Next]_(Registry!vars)
<1> USE HandlerAssumption, AddrAssumption
    DEF Thread, Main, Accept, Monitor, NoThread, Goto
<1>0. /\ TypeOK /\ Stages /\ Progress /\ StopQuiesces /\ LockHolder /\ Owners
      /\ Pointers /\ Allocated
  BY DEF IInv
<1>1. CASE UNCHANGED vars
  BY <1>1, LivesKept, RegistryStays DEF vars, Unborn, phaseBar
<1>2. CASE MainStep \/ MainCall
  <2>1. CASE \/ CreateAcceptThread \/ CreateMonitorThread \/ AnnounceRunning \/ Start
             \/ CreateAcceptThreadFails \/ StopBegin \/ AnnounceStopped
             \/ JoinAccept \/ JoinMonitor \/ StopLock \/ StopUnlock
             \/ Destroy \/ QueryBegin \/ Query
    <3>1. lifeBar' = lifeBar
      <4>1. listed' = listed /\ live' = live /\ cur' = cur
        BY <2>1 DEF CreateAcceptThread, CreateAcceptThreadFails, CreateMonitorThread,
           AnnounceRunning, Start, StopBegin, JoinAccept, JoinMonitor, StopLock,
           StopUnlock, AnnounceStopped, Destroy, QueryBegin, Query, listVars, memVars
      <4>2. pc'[Accept] = "push" <=> pc[Accept] = "push"
        BY <1>0, <2>1 DEF CreateAcceptThread, CreateAcceptThreadFails,
           CreateMonitorThread, AnnounceRunning, Start, StopBegin, JoinAccept,
           JoinMonitor, StopLock, StopUnlock, AnnounceStopped, Destroy, QueryBegin,
           Query, TypeOK, Progress
      <4> QED BY <4>1, <4>2, LivesKept DEF Unborn
    <3>2. \/ phaseBar' = phaseBar
          \/ phaseBar = "down" /\ phaseBar' = "up"
          \/ phaseBar = "up" /\ phaseBar' = "draining"
          \/ phaseBar # "down" /\ phaseBar' = "down" /\ listed = {}
      <4>1. CASE \/ CreateAcceptThread \/ CreateMonitorThread \/ AnnounceRunning
                 \/ Start \/ CreateAcceptThreadFails
        BY <1>0, <4>1 DEF CreateAcceptThread, CreateAcceptThreadFails,
           CreateMonitorThread, AnnounceRunning, Start, serverVars, TypeOK, Progress,
           DownInv, phaseBar
      <4>2. CASE StopBegin \/ AnnounceStopped
        BY <1>0, <4>2 DEF StopBegin, AnnounceStopped, TypeOK, Progress, StopQuiesces,
           phaseBar
      <4>3. CASE \/ JoinAccept \/ JoinMonitor \/ StopLock \/ StopUnlock
                 \/ Destroy \/ QueryBegin \/ Query
        BY <1>0, <4>3 DEF JoinAccept, JoinMonitor, StopLock, StopUnlock, Destroy,
           QueryBegin, Query, serverVars, TypeOK, phaseBar
      <4> QED BY <2>1, <4>1, <4>2, <4>3
    <3> QED BY <3>1, <3>2, RegistryStays
  <2>2. ASSUME NEW a \in Addr, StopPop(a) PROVE [Registry!Next]_(Registry!vars)
    <3>1. phaseBar' = phaseBar
      BY <1>0, <2>2 DEF StopPop, serverVars, TypeOK, phaseBar
    <3>2. /\ a \in listed /\ a \in live /\ ~Unborn(a) /\ listed' = listed \ {a}
          /\ live' = live /\ \A b \in Addr : Unborn(b)' <=> Unborn(b)
      BY <1>0, <2>2 DEF StopPop, memVars, TypeOK, Allocated, Owners, OffList,
         Workers, Unborn
    <3> QED BY <3>1, <3>2, RegistryMoves DEF lifeBar
  <2>3. CASE CreateMonitorThreadFails \/ JoinFailedStart
    BY <2>3 DEF DownInv, CreateMonitorThreadFails, JoinFailedStart
  <2> QED BY <1>2, <2>1, <2>2, <2>3 DEF MainStep, MainCall
<1>3. CASE \/ AcceptLoop \/ AcceptWoken \/ SpawnFails \/ AcceptFails
           \/ (\E h \in Handler : Spawn(h)) \/ MonitorLoop \/ MonitorFindsNone
  <2>1. /\ listed' = listed /\ live' = live /\ running' = running
        /\ pc'[Main] = pc[Main]
        /\ pc'[Accept] = "push" <=> pc[Accept] = "push"
        /\ pc[Accept] = "push" => cur'[Accept] = cur[Accept]
    BY <1>0, <1>3 DEF AcceptLoop, AcceptWoken, SpawnFails, AcceptFails, Spawn,
       MonitorLoop, MonitorFindsNone, serverVars, listVars, memVars, TypeOK
  <2> QED BY <2>1, LivesKept, RegistryStays DEF Unborn, phaseBar
<1>4. ASSUME NEW a \in Addr, AcceptClient(a) PROVE [Registry!Next]_(Registry!vars)
  <2>1. /\ a \notin live /\ a \notin listed /\ live' = live \cup {a} /\ listed' = listed
        /\ \A b \in Addr : ~Unborn(b) /\ (Unborn(b)' <=> b = a)
    BY <1>0, <1>4 DEF AcceptClient, listVars, Allocated, Unborn, TypeOK
  <2>2. lifeBar' = lifeBar
    BY <2>1 DEF lifeBar
  <2>3. phaseBar' = phaseBar
    BY <1>0, <1>4 DEF AcceptClient, serverVars, phaseBar, TypeOK
  <2> QED BY <2>2, <2>3, RegistryStays
<1>5. CASE Push
  <2> DEFINE a == cur[Accept]
  <2>1. a \in Addr /\ a \notin listed /\ a \in live /\ pc[Accept] = "push"
    BY <1>0, <1>5 DEF Push, Pointers, Owners, OffList, Workers, Allocated,
       TypeOK
  <2>2. /\ listed' = listed \cup {a} /\ live' = live /\ running' = running
        /\ pc'[Main] = pc[Main] /\ pc'[Accept] = "spawn"
    BY <1>0, <1>5 DEF Push, serverVars, memVars, TypeOK
  <2>3. phaseBar' = phaseBar
    BY <2>2 DEF phaseBar
  <2>4. phaseBar # "down"
    BY <1>0, <2>1 DEF phaseBar, DownInv, Progress
  <2> QED BY <2>1, <2>2, <2>3, <2>4, RegistryMoves DEF lifeBar, Unborn
<1>6. ASSUME NEW a \in Addr, MonitorExpires(a) PROVE [Registry!Next]_(Registry!vars)
  <2>1. phaseBar' = phaseBar
    BY <1>0, <1>6 DEF MonitorExpires, serverVars, TypeOK, phaseBar
  <2>2. /\ a \in listed /\ a \in live /\ ~Unborn(a) /\ listed' = listed \ {a}
        /\ live' = live /\ \A b \in Addr : Unborn(b)' <=> Unborn(b)
    BY <1>0, <1>6 DEF MonitorExpires, memVars, TypeOK, Allocated, Owners,
       OffList, Workers, Unborn
  <2> QED BY <2>1, <2>2, RegistryMoves DEF lifeBar
<1>7. ASSUME NEW h \in Handler,
             \/ HandlerStep(h) \/ ReceiveFails(h)
             \/ \E m \in Message : Receive(h, m) \/ ReceiveRole(h, m)
      PROVE  [Registry!Next]_(Registry!vars)
  <2>1. /\ listed' = listed /\ live' = live /\ running' = running /\ cur' = cur
        /\ pc'[Main] = pc[Main] /\ pc'[Accept] = pc[Accept]
    BY <1>0, <1>7 DEF HandlerStep, SetupFails, SetupDone, HandlerLoop, ReceiveFails,
       Receive, ReceiveRole, SetRole, serverVars, listVars, memVars, TypeOK
  <2> QED BY <2>1, LivesKept, RegistryStays DEF Unborn, phaseBar
<1>8. ASSUME NEW t \in Thread, CleanupRelease(t) \/ CleanupNotify(t)
      PROVE  [Registry!Next]_(Registry!vars)
  <2>1. /\ listed' = listed /\ live' = live /\ running' = running /\ cur' = cur
        /\ pc'[Main] = pc[Main] \/ {pc[Main], pc'[Main]} = {"release", "unlink"}
        /\ pc'[Accept] = "push" <=> pc[Accept] = "push"
    BY <1>0, <1>8 DEF CleanupRelease, CleanupNotify, Stages, MainStage, serverVars, listVars, memVars, TypeOK
  <2> QED BY <2>1, LivesKept, RegistryStays DEF Unborn, phaseBar
<1>9. ASSUME NEW t \in Thread, CleanupUnlink(t)
      PROVE  [Registry!Next]_(Registry!vars)
  <2>1. t \in Workers
    BY <1>0, <1>9 DEF CleanupUnlink, CanLock, LockHolder, Workers
  <2>2. cur[t] \in Addr /\ cur[t] \in live
    BY <1>0, <1>9, <2>1 DEF CleanupUnlink, Pointers, Workers, CleanupStage,
       Allocated, TypeOK
  <2>3. /\ listed' = listed \ {cur[t]} /\ live' = live /\ running' = running
        /\ cur' = cur /\ pc'[Main] = pc[Main]
        /\ pc'[Accept] = "push" <=> pc[Accept] = "push"
    BY <1>0, <1>9, <2>1 DEF CleanupUnlink, Unlinked, serverVars, memVars, TypeOK,
       Workers
  <2>4. phaseBar' = phaseBar
    BY <2>3 DEF phaseBar
  <2>5. CASE cur[t] \in listed
    <3>1. ~Unborn(cur[t])
      BY <1>0, <2>5 DEF Unborn, Owners, Workers, OffList
    <3> QED BY <2>2, <2>3, <2>4, <2>5, <3>1, RegistryMoves DEF lifeBar, Unborn
  <2>6. CASE cur[t] \notin listed
    BY <2>3, <2>4, <2>6, LivesKept, RegistryStays DEF Unborn
  <2> QED BY <2>5, <2>6
<1>10. ASSUME NEW t \in Thread, CleanupFree(t)
       PROVE  [Registry!Next]_(Registry!vars)
  <2>1. t \in Workers /\ pc[t] = "free"
    BY <1>0, <1>10 DEF CleanupFree, Stages, MainStage, MonitorStage, Workers
  <2>2. cur[t] \in Addr /\ cur[t] \in live /\ cur[t] \notin listed
    BY <1>0, <2>1 DEF Pointers, Workers, CleanupStage, Allocated, Owners,
       OffList, TypeOK
  <2>3. ~Unborn(cur[t])
    <3>1. ASSUME pc[Accept] = "push", cur[Accept] = cur[t] PROVE FALSE
      <4>1. t # Accept
        BY <2>1, <3>1
      <4> QED BY <1>0, <2>1, <2>2, <3>1, <4>1 DEF Owners, Workers
    <3> QED BY <3>1 DEF Unborn
  <2>4. /\ listed' = listed /\ live' = live \ {cur[t]} /\ running' = running
        /\ pc'[Main] = pc[Main]
        /\ pc'[Accept] = "push" <=> pc[Accept] = "push"
        /\ pc[Accept] = "push" => cur'[Accept] = cur[Accept]
    BY <1>0, <1>10, <2>1 DEF CleanupFree, AfterCleanup, serverVars, listVars, TypeOK,
       Workers
  <2>5. phaseBar' = phaseBar
    BY <2>4 DEF phaseBar
  <2> QED BY <2>2, <2>3, <2>4, <2>5, RegistryMoves DEF lifeBar, Unborn
<1>11. ASSUME NEW a \in Addr, Silent(a) PROVE [Registry!Next]_(Registry!vars)
  BY <1>11, LivesKept, RegistryStays DEF Silent, serverVars, listVars, Unborn, phaseBar
<1> QED
  BY <1>1, <1>2, <1>3, <1>4, <1>5, <1>6, <1>7, <1>8, <1>9, <1>10, <1>11
  DEF Next, Network, AcceptStep, MonitorStep, CleanupStep

\* Every behaviour of the server is one of the abstract registry: a connection is
\* listed once, unlinked before its memory is freed, and the server is down only with
\* an empty list.
THEOREM ServerImplementsRegistry ==
  ASSUME "noMonitor" \notin Events
  PROVE  Spec => RefinesRegistry
<1>1. Init => Registry!Init
  BY DEF Init, Registry!Init, phaseBar, lifeBar, Unborn, Thread, Main, Accept
<1>2. IInv /\ DownInv /\ [Next]_vars => DownInv'
  BY NextDownInv
<1>3. IInv /\ DownInv /\ [Next]_vars => [Registry!Next]_(Registry!vars)
  BY RegistryStep
<1> QED
  BY <1>1, <1>2, <1>3, InitDownInv, InvariantIInv, PTL
  DEF Spec, RefinesRegistry, Registry!Spec
=============================================================================
