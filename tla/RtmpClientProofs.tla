-------------------------- MODULE RtmpClientProofs --------------------------
(***************************************************************************)
(* The safety of the client library.  Session, quality controller,         *)
(* handshake, chunk writer and timing table have each their inductive      *)
(* invariant here, the stream and the AMF decoder in RtmpStreamProofs and  *)
(* RtmpAmfProofs; in the end, the composition that the run checks is shown *)
(* to implement every part.                                                *)
(***************************************************************************)
EXTENDS RtmpClient, RtmpStreamProofs, RtmpAmfProofs, FiniteSetTheorems,
        FunctionTheorems, SequenceTheorems, WellFoundedInduction, TLAPS

-----------------------------------------------------------------------------
(* The session: one that was disconnected is clean, whatever came before *)

\* What rtmp_session_destroy relies on when it frees the session.
Clean ==
  /\ at["worker"] = "none" /\ ~session.handle
  /\ ~session.running /\ ~session.conn

\* The handle names the worker, also after a connect that failed.
HandleNamesWorker == session.handle <=> at["worker"] # "none"

\* There is no worker before a connect has created one, and a session connects once:
\* nothing sets INIT again.
OneWorker ==
  \/ at["ctl"] \in {"connecting", "dial", "handshake", "command", "spawn", "fail"}
  \/ at["ctl"] = "idle" /\ session.state = "INIT"
  => at["worker"] = "none"

\* Nobody else sets the state while connect waits.
ConnectSets ==
  at["ctl"] \in {"dial", "handshake", "command", "spawn"} =>
    session.state = "CONNECTING"

\* What disconnect has done at each of its places.
Progress ==
  /\ at["ctl"] \in {"join", "close", "closed"} => ~session.running
  /\ at["ctl"] \in {"close", "closed"} => at["worker"] = "none"
  /\ at["ctl"] = "closed" => ~session.conn
  /\ at["ctl"] = "idle" /\ session.state = "CLOSED" => Clean
  /\ session.freed => at["ctl"] = "idle" /\ session.state = "CLOSED"

SessionInv ==
  SessionTypeOK /\ HandleNamesWorker /\ OneWorker /\ ConnectSets /\ Progress

LEMMA InitSessionInv == SessionInit => SessionInv
<1> SUFFICES ASSUME SessionInit PROVE SessionInv
  OBVIOUS
<1>1. SessionTypeOK
  BY DEF SessionInit, SessionTypeOK, State, Thread, Stage
<1>2. HandleNamesWorker /\ OneWorker /\ ConnectSets /\ Progress
  BY DEF SessionInit, HandleNamesWorker, OneWorker, ConnectSets, Progress, Clean
<1> QED BY <1>1, <1>2 DEF SessionInv

\* rtmp_session_connect
LEMMA ConnectKeepsSessionInv ==
  ASSUME SessionInv,
         \/ CallConnect \/ SetConnecting \/ DialFails \/ Dial \/ StepFails
         \/ Handshake \/ SessionSendConnect \/ SpawnFails \/ Spawn \/ HandleError
  PROVE  SessionInv'
<1> USE DEF SessionInv, SessionTypeOK, HandleNamesWorker, OneWorker, ConnectSets,
            Progress, Clean, Goto, SetState, State, Thread, Stage
<1>1. CASE CallConnect
  BY <1>1 DEF CallConnect
<1>2. CASE SetConnecting
  BY <1>2 DEF SetConnecting
<1>3. CASE DialFails
  BY <1>3 DEF DialFails
<1>4. CASE Dial
  BY <1>4 DEF Dial
<1>5. CASE StepFails
  BY <1>5 DEF StepFails
<1>6. CASE Handshake
  BY <1>6 DEF Handshake
<1>7. CASE SessionSendConnect
  BY <1>7 DEF SessionSendConnect
<1>8. CASE SpawnFails
  BY <1>8 DEF SpawnFails
<1>9. CASE Spawn
  BY <1>9 DEF Spawn
<1>10. CASE HandleError
  BY <1>10 DEF HandleError
<1> QED
  BY <1>1, <1>2, <1>3, <1>4, <1>5, <1>6, <1>7, <1>8, <1>9, <1>10

\* rtmp_session_disconnect and rtmp_session_destroy
LEMMA DisconnectKeepsSessionInv ==
  ASSUME SessionInv,
         \/ CallDisconnect \/ StopWorker \/ JoinWorker \/ CloseConnection
         \/ SetClosed \/ Free
  PROVE  SessionInv'
<1> USE DEF SessionInv, SessionTypeOK, HandleNamesWorker, OneWorker, ConnectSets,
            Progress, Clean, Goto, SetState, State, Thread, Stage
<1>1. CASE CallDisconnect
  BY <1>1 DEF CallDisconnect
<1>2. CASE StopWorker
  BY <1>2 DEF StopWorker
<1>3. CASE JoinWorker
  BY <1>3 DEF JoinWorker
<1>4. CASE CloseConnection
  BY <1>4 DEF CloseConnection
<1>5. CASE SetClosed
  BY <1>5 DEF SetClosed
<1>6. CASE Free
  BY <1>6 DEF Free
<1> QED BY <1>1, <1>2, <1>3, <1>4, <1>5, <1>6

\* session_worker_thread, which is never without its handle, and the observer.
LEMMA WorkerKeepsSessionInv ==
  ASSUME SessionInv, Worker \/ CallObserver \/ Observe
  PROVE  SessionInv'
<1> USE DEF SessionInv, SessionTypeOK, HandleNamesWorker, OneWorker, ConnectSets,
            Progress, Clean, Goto, State, Thread, Stage
<1>1. CASE WorkerTop
  BY <1>1 DEF WorkerTop
<1>2. CASE WorkerLocks
  BY <1>2 DEF WorkerLocks
<1>3. CASE WorkerTurns
  BY <1>3 DEF WorkerTurns
<1>4. CASE WorkerLosesPeer
  BY <1>4 DEF WorkerLosesPeer
<1>5. CASE CallObserver
  BY <1>5 DEF CallObserver
<1>6. CASE Observe
  BY <1>6 DEF Observe
<1> QED BY <1>1, <1>2, <1>3, <1>4, <1>5, <1>6 DEF Worker

\* SessionInv is inductive.
LEMMA NextSessionInv == SessionInv /\ [SessionNext]_sessionVars => SessionInv'
<1> SUFFICES ASSUME SessionInv, [SessionNext]_sessionVars PROVE SessionInv'
  OBVIOUS
<1>1. CASE UNCHANGED sessionVars
  BY <1>1 DEF sessionVars, SessionInv, SessionTypeOK, HandleNamesWorker, OneWorker,
              ConnectSets, Progress, Clean
<1> QED
  BY <1>1, ConnectKeepsSessionInv, DisconnectKeepsSessionInv, WorkerKeepsSessionInv
  DEF SessionNext, Ctl

\* No fairness is needed for it.
LEMMA InvariantSessionInv ==
  SessionInit /\ [][SessionNext]_sessionVars => []SessionInv
  BY InitSessionInv, NextSessionInv, PTL

\* Every variable of the session keeps its type.
THEOREM SessionTypes == SessionSpec => []SessionTypeOK
<1>1. SessionInv => SessionTypeOK
  BY DEF SessionInv
<1> QED BY <1>1, InvariantSessionInv, PTL DEF SessionSpec

\* A session that was disconnected or freed has no worker, no handle of one and no
\* open connection, however far rtmp_session_connect had come.
THEOREM DisconnectedSessionIsClean == SessionSpec => []ClosedIsClean
<1>1. SessionInv => ClosedIsClean
  BY DEF SessionInv, HandleNamesWorker, Progress, Clean, ClosedIsClean
<1> QED BY <1>1, InvariantSessionInv, PTL DEF SessionSpec

-----------------------------------------------------------------------------
(* The quality controller *)

\* What a level sets is between the levels, and whatever sets a frame rate, what the
\* controller divides by is positive.
QualityInv == QualityTypeOK /\ TargetsInRange /\ target.fps > 1

LEMMA ClampBounds ==
  ASSUME NEW x \in Int, NEW low \in Int, NEW high \in Int, low <= high
  PROVE  Clamp(x, low, high) \in low..high
  BY DEF Clamp

LEMMA PartType ==
  ASSUME NEW x \in Nat, NEW n \in Nat
  PROVE  Part(x, n) \in Nat
<1>1. x * n \in Nat
  OBVIOUS
<1> QED BY <1>1 DEF Part

LEMMA LevelTargets ==
  ASSUME NEW l \in {LOW, MEDIUM, HIGH}
  PROVE  /\ LevelTarget[l] \in [rate : Nat, fps : Nat \ {0}]
         /\ LevelTarget[l].rate \in LevelTarget[LOW].rate..LevelTarget[HIGH].rate
         /\ LevelTarget[l].fps \in LevelTarget[LOW].fps..LevelTarget[HIGH].fps
  BY SMT DEF LevelTarget, LOW, MEDIUM, HIGH

\* One of the two divisions leaves the other a divisor that is not 0.
LEMMA SlowedBounds ==
  ASSUME NEW fps \in Nat, fps > 0, NEW time \in Nat
  PROVE  /\ Slowed(fps, time) \in Nat
         /\ fps > 1 => Slowed(fps, time) > 0
<1>1. Part(fps, 8) \in Nat /\ (fps > 1 => Part(fps, 8) > 0)
  BY PartType DEF Part
<1>2. Slowed(fps, time) \in {Part(fps, 8), fps}
  BY Zenon DEF Slowed
<1> QED BY <1>1, <1>2

\* The bounds of Clamp, in the order it needs.
LEMMA LevelOrder ==
  /\ LevelTarget[LOW].rate \in Nat /\ LevelTarget[HIGH].rate \in Nat
  /\ LevelTarget[LOW].rate <= LevelTarget[HIGH].rate
  /\ LevelTarget[LOW].fps \in Nat /\ LevelTarget[HIGH].fps \in Nat
  /\ 1 < LevelTarget[LOW].fps /\ LevelTarget[LOW].fps <= LevelTarget[HIGH].fps
  BY SMT DEF LevelTarget, LOW, MEDIUM, HIGH

LEMMA OptimalBitrateBounds ==
  ASSUME QualityConstants, QualityInv
  PROVE  OptimalBitrate(stats) \in LevelTarget[LOW].rate..LevelTarget[HIGH].rate
<1>1. stats.rate \in Nat
  BY DEF QualityInv, QualityTypeOK, QualityConstants
<1> DEFINE a == CASE stats.buffer < BUFFER_HEALTH_TARGET     -> Part(stats.rate, 8)
                  [] stats.buffer > 2 * BUFFER_HEALTH_TARGET -> Part(stats.rate, 12)
                  [] OTHER -> stats.rate
           b == IF stats.drops > 0 THEN Part(a, 9) ELSE a
           c == IF stats.latency > MAX_LATENCY THEN Part(b, 8) ELSE b
           low  == LevelTarget[LOW].rate
           high == LevelTarget[HIGH].rate
<1>2. OptimalBitrate(stats) = Clamp(c, low, high)
  BY Zenon DEF OptimalBitrate
<1> HIDE DEF c
<1>3. a \in Nat
  <2>1. Part(stats.rate, 8) \in Nat /\ Part(stats.rate, 12) \in Nat
    BY <1>1, PartType
  <2> QED BY <1>1, <2>1
<1> HIDE DEF a
<1>4. b \in Nat
  <2>1. Part(a, 9) \in Nat
    BY <1>3, PartType
  <2> QED BY <1>3, <2>1
<1> HIDE DEF b
<1>5. c \in Nat
  <2>1. Part(b, 8) \in Nat
    BY <1>4, PartType
  <2> QED BY <1>4, <2>1 DEF c
<1>6. low \in Nat /\ high \in Nat /\ low <= high
  BY LevelOrder
<1> HIDE DEF low, high
<1>7. Clamp(c, low, high) \in low..high
  BY <1>5, <1>6, ClampBounds
<1> QED BY Zenon, <1>2, <1>7 DEF low, high

LEMMA OptimalFPSBounds ==
  ASSUME QualityConstants, QualityInv
  PROVE  OptimalFPS(stats, target.fps) \in LevelTarget[LOW].fps..LevelTarget[HIGH].fps
<1> DEFINE f == target.fps
           a == Slowed(f, stats.encode)
           b == Slowed(a, stats.send)
           low  == LevelTarget[LOW].fps
           high == LevelTarget[HIGH].fps
<1>1. f \in Nat /\ f > 1
  BY DEF QualityInv, QualityTypeOK
<1>2. stats.encode \in Nat /\ stats.send \in Nat
  BY DEF QualityInv, QualityTypeOK, QualityConstants
<1>3. OptimalFPS(stats, target.fps) = Clamp(b, low, high)
  BY Zenon DEF OptimalFPS
<1> HIDE DEF f, b
<1>4. a \in Nat /\ a > 0
  BY <1>1, <1>2, SlowedBounds
<1> HIDE DEF a
<1>5. b \in Nat
  BY <1>2, <1>4, SlowedBounds DEF b
<1>6. low \in Nat /\ high \in Nat /\ low <= high
  BY LevelOrder
<1> HIDE DEF low, high
<1>7. Clamp(b, low, high) \in low..high
  BY <1>5, <1>6, ClampBounds
<1> QED BY Zenon, <1>3, <1>7 DEF low, high

LEMMA AppliedInRange ==
  ASSUME QualityConstants, QualityInv, NEW l \in Level
  PROVE  /\ Applied(l) \in [rate : Nat, fps : Nat \ {0}]
         /\ Applied(l).rate \in LevelTarget[LOW].rate..LevelTarget[HIGH].rate
         /\ Applied(l).fps \in LevelTarget[LOW].fps..LevelTarget[HIGH].fps
         /\ Applied(l).fps > 1
<1> DEFINE lr == LevelTarget[LOW].rate  hr == LevelTarget[HIGH].rate
           lf == LevelTarget[LOW].fps   hf == LevelTarget[HIGH].fps
<1>1. lr \in Nat /\ hr \in Nat /\ lf \in Nat /\ hf \in Nat /\ 1 < lf
  BY LevelOrder
<1>2. \E r \in lr..hr, f \in lf..hf : Applied(l) = [rate |-> r, fps |-> f]
  <2>1. CASE l = AUTO
    BY Zenon, <2>1, OptimalBitrateBounds, OptimalFPSBounds DEF Applied
  <2>2. CASE l # AUTO
    <3>1. l \in {LOW, MEDIUM, HIGH}
      BY <2>2 DEF Level, LOW, MEDIUM, HIGH, AUTO
    <3>2. Applied(l) = LevelTarget[l]
      BY <2>2 DEF Applied
    <3>3. LevelTarget[l] = [rate |-> LevelTarget[l].rate, fps |-> LevelTarget[l].fps]
      BY <3>1, LevelTargets
    <3> QED BY Zenon, <3>1, <3>2, <3>3, LevelTargets
  <2> QED BY <2>1, <2>2
<1> HIDE DEF lr, hr, lf, hf
<1>3. PICK r \in lr..hr, f \in lf..hf : Applied(l) = [rate |-> r, fps |-> f]
  BY <1>2
<1>4. /\ Applied(l) \in [rate : Nat, fps : Nat \ {0}]
      /\ Applied(l).rate \in lr..hr /\ Applied(l).fps \in lf..hf
      /\ Applied(l).fps > 1
  BY <1>1, <1>3
<1> QED BY <1>4 DEF lr, hr, lf, hf

LEMMA InitQualityInv == ASSUME QualityConstants, QualityInit PROVE QualityInv
<1>1. MEDIUM \in {LOW, MEDIUM, HIGH} /\ AUTO \in Level
  BY DEF Level, LOW, AUTO
<1>2. /\ target \in [rate : Nat, fps : Nat \ {0}]
      /\ target.rate \in LevelTarget[LOW].rate..LevelTarget[HIGH].rate
      /\ target.fps \in LevelTarget[LOW].fps..LevelTarget[HIGH].fps
  BY Zenon, <1>1, LevelTargets DEF QualityInit
<1>3. target.fps > 1
  BY <1>2, LevelOrder
<1>4. QualityTypeOK
  BY <1>1, <1>2 DEF QualityInit, NoStats, QualityTypeOK
<1> QED BY <1>2, <1>3, <1>4 DEF QualityInv, TargetsInRange

\* What a level sets keeps the invariant.
LEMMA ApplyKeepsQualityInv ==
  ASSUME QualityConstants, QualityInv, level' \in Level, stats' = stats,
         NEW l \in Level, target' = Applied(l), applied' = TRUE
  PROVE  QualityInv'
<1>1. /\ target' \in [rate : Nat, fps : Nat \ {0}]
      /\ target'.rate \in LevelTarget[LOW].rate..LevelTarget[HIGH].rate
      /\ target'.fps \in LevelTarget[LOW].fps..LevelTarget[HIGH].fps
      /\ target'.fps > 1
  BY AppliedInRange
<1>2. TargetsInRange'
  BY Zenon, <1>1 DEF TargetsInRange
<1>3. QualityTypeOK'
  BY <1>1 DEF QualityInv, QualityTypeOK
<1> QED BY <1>1, <1>2, <1>3 DEF QualityInv

LEMMA NextQualityInv ==
  ASSUME QualityConstants, QualityInv, [QualityNext]_qualityVars
  PROVE  QualityInv'
<1>0. level \in Level
  BY DEF QualityInv, QualityTypeOK
<1>1. CASE SetQualityLevel
  BY <1>1, ApplyKeepsQualityInv DEF SetQualityLevel
<1>2. CASE SetTarget
  <2>1. CustomRate \in Nat /\ CustomFPS \in Nat /\ CustomFPS > 1
    BY DEF QualityConstants
  <2>2. /\ target' \in [rate : Nat, fps : Nat \ {0}]
        /\ target'.fps > 1
    BY <1>2, <2>1 DEF SetTarget, QualityInv, QualityTypeOK
  <2>3. TargetsInRange'
    BY <1>2 DEF SetTarget, TargetsInRange
  <2> QED BY <1>2, <2>2, <2>3 DEF SetTarget, QualityInv, QualityTypeOK
<1>3. CASE Measure
  <2>1. UNCHANGED <<level, target, applied>>
    BY Zenon, <1>3 DEF Measure
  <2> DEFINE S == [rate : Rates \cup {0}, fps : {0, 30}, drops : Drops \cup {0},
                   buffer : Buffers \cup {0}, encode : Times \cup {0},
                   send : Times \cup {0}, latency : Latencies \cup {0}]
  <2>3. stats \in S
    BY DEF QualityInv, QualityTypeOK
  <2>4. ASSUME NEW r \in Rates PROVE [stats EXCEPT !.rate = r] \in S
    BY SMT, <2>3
  <2>5. ASSUME NEW x \in {0, 30} PROVE [stats EXCEPT !.fps = x] \in S
    BY SMT, <2>3
  <2>6. ASSUME NEW x \in Drops PROVE [stats EXCEPT !.drops = x] \in S
    BY SMT, <2>3
  <2>7. ASSUME NEW x \in Buffers PROVE [stats EXCEPT !.buffer = x] \in S
    BY SMT, <2>3
  <2>8. ASSUME NEW x \in Latencies PROVE [stats EXCEPT !.latency = x] \in S
    BY SMT, <2>3
  <2>9. ASSUME NEW e \in Times, NEW x \in Times
        PROVE  [stats EXCEPT !.encode = e, !.send = x] \in S
    <3> DEFINE half == [stats EXCEPT !.encode = e]
    <3>1. half \in S
      BY SMT, <2>3
    <3> HIDE DEF half
    <3>2. [half EXCEPT !.send = x] \in S
      BY SMT, <3>1
    <3> QED BY Zenon, <3>2 DEF half
  <2>10. NoStats \in S
    BY DEF NoStats
  <2> HIDE DEF S
  <2>11. stats' \in S
    BY Zenon, <1>3, <2>4, <2>5, <2>6, <2>7, <2>8, <2>9, <2>10 DEF Measure
  <2> QED BY Zenon, <2>1, <2>11 DEF S, QualityInv, QualityTypeOK, TargetsInRange
<1>4. CASE CheckAndAdjust
  <2>1. NewLevel \in Level
    BY <1>0 DEF NewLevel, Level, LOW, HIGH, AUTO
  <2>2. CASE NewLevel = level
    BY <1>4, <2>2 DEF CheckAndAdjust, AdjustQuality, QualityInv, QualityTypeOK,
                      TargetsInRange
  <2>3. CASE NewLevel # level
    BY <1>0, <1>4, <2>1, <2>3, ApplyKeepsQualityInv DEF CheckAndAdjust, AdjustQuality
  <2> QED BY <2>2, <2>3
<1>5. CASE UNCHANGED qualityVars
  BY <1>5 DEF qualityVars, QualityInv, QualityTypeOK, TargetsInRange
<1> QED BY <1>1, <1>2, <1>3, <1>4, <1>5 DEF QualityNext

LEMMA InvariantQualityInv == ASSUME QualityConstants PROVE QualitySpec => []QualityInv
<1>1. QualityInit => QualityInv
  BY InitQualityInv
<1>2. QualityInv /\ [QualityNext]_qualityVars => QualityInv'
  BY NextQualityInv
<1> QED BY <1>1, <1>2, PTL DEF QualitySpec

\* Whatever is measured, however levels and targets are set: a level's targets lie
\* between those of LOW and HIGH.
THEOREM TargetsStayInRange ==
  ASSUME QualityConstants
  PROVE  QualitySpec => []TargetsInRange
<1>1. QualityInv => TargetsInRange
  BY DEF QualityInv
<1> QED BY <1>1, InvariantQualityInv, PTL

\* Every variable of the quality controller keeps its type.
LEMMA QualityTypes == ASSUME QualityConstants PROVE QualitySpec => []QualityTypeOK
<1>1. QualityInv => QualityTypeOK
  BY DEF QualityInv
<1> QED BY <1>1, InvariantQualityInv, PTL

-----------------------------------------------------------------------------
(* The handshake *)

\* C1 is made before the state moves on, and not again.
HandshakeInv ==
  /\ HandshakeTypeOK /\ DoneIsGenuine
  /\ shake.state >= 1 => shake.made

\* What the search finds is there, and not in the last bytes.
LEMMA DigestFound ==
  ASSUME HandshakeConstants, NEW p
  PROVE  /\ FindDigest(p) \in Int
         /\ FindDigest(p) >= 0 => p.digest \in Offset \ {LastOffset}
<1> DEFINE hit == {i \in Offset \ {LastOffset} : p.digest = i}
<1>1. CASE hit = {}
  <2>1. FindDigest(p) = -1
    BY <1>1 DEF FindDigest
  <2> QED BY <2>1
<1>2. CASE hit # {}
  <2>1. hit = {p.digest} /\ p.digest \in Offset \ {LastOffset} /\ p.digest <= p.digest
    BY <1>2 DEF Offset, HandshakeConstants
  <2>2. FindDigest(p) = CHOOSE i \in hit : \A j \in hit : i <= j
    BY <1>2 DEF FindDigest
  <2>3. (CHOOSE i \in hit : \A j \in hit : i <= j) \in hit
    BY Zenon, <2>1
  <2>4. FindDigest(p) = p.digest
    BY <2>1, <2>2, <2>3
  <2> QED BY <2>1, <2>4 DEF Offset, HandshakeConstants
<1> QED BY <1>1, <1>2

\* A packet whose digest a client finds is another server's.
LEMMA ServerPackets ==
  ASSUME HandshakeConstants, NEW w \in Server, NEW p \in S1From(w)
  PROVE  /\ p \in Packet
         /\ p.digest \in Offset \ {LastOffset} => w = "other"
<1>0. NoDigest \notin Offset /\ LastOffset \in Offset
  BY DEF HandshakeConstants, NoDigest, Offset
<1>1. CASE w = "own"
  <2>1. p \in [random : Nonce, digest : {LastOffset}]
    BY <1>1 DEF S1From
  <2> QED BY <1>0, <2>1 DEF Packet
<1>2. CASE w = "other"
  <2>1. p \in [random : Nonce, digest : Offset]
    BY <1>2 DEF S1From
  <2> QED BY <1>2, <2>1 DEF Packet
<1>3. CASE w = "plain"
  <2>1. p \in [random : Nonce, digest : {NoDigest}]
    BY <1>3 DEF S1From
  <2> QED BY <1>0, <2>1 DEF Packet
<1> QED BY <1>1, <1>2, <1>3 DEF Server

LEMMA NextHandshakeInv ==
  ASSUME HandshakeConstants, HandshakeInv, [HandshakeNext]_handshakeVars
  PROVE  HandshakeInv'
<1> DEFINE Kept  == Packet \cup {None}
           Shake == [made : BOOLEAN, state : 0..2,
                     c1 : Kept, s1 : Kept, c2 : Kept, s2 : Kept]
<1>0. shake \in Shake
  BY DEF HandshakeInv, HandshakeTypeOK
<1>1. CASE UNCHANGED handshakeVars
  BY <1>1 DEF handshakeVars, HandshakeInv, HandshakeTypeOK, DoneIsGenuine
<1>2. CASE HandshakeClient
  <2>1. PICK r \in Nonce :
          shake' = [shake EXCEPT !.made = TRUE,
                                 !.c1 = [random |-> r, digest |-> NoDigest]]
    BY Zenon, <1>2 DEF HandshakeClient
  <2> DEFINE p   == [random |-> r, digest |-> NoDigest]
             mid == [shake EXCEPT !.made = TRUE]
  <2>2. p \in Packet
    BY DEF Packet
  <2> HIDE DEF p
  <2>3. mid \in Shake /\ mid.state = shake.state /\ mid.made
    BY <1>0
  <2>4. ~shake.made /\ UNCHANGED <<server, refused>>
    BY Zenon, <1>2 DEF HandshakeClient
  <2> HIDE DEF mid
  <2>5. shake' = [mid EXCEPT !.c1 = p]
    BY Zenon, <2>1 DEF mid, p
  <2>6. shake' \in Shake /\ shake'.state = 0
    <3>1. shake.state = 0
      BY <1>0, <2>4 DEF HandshakeInv
    <3> QED BY <2>2, <2>3, <2>5, <3>1
  <2> QED BY <2>4, <2>6 DEF HandshakeInv, HandshakeTypeOK, DoneIsGenuine, Shake
<1>3. CASE Answer
  <2>0. refused \in 0..1
    BY <1>3 DEF Answer, HandshakeInv, HandshakeTypeOK
  <2>1. ASSUME NEW p \in S1From(server), NEW sent \in BOOLEAN, ProcessS1(p, sent)
        PROVE  HandshakeInv'
    <3>1. p \in Packet /\ (p.digest \in Offset \ {LastOffset} => server = "other")
      BY ServerPackets DEF HandshakeInv, HandshakeTypeOK
    <3>2. CASE FindDigest(p) >= 0 /\ sent
      <4>1. p.digest \in Offset \ {LastOffset}
        BY <3>2, DigestFound
      <4> DEFINE got == [shake EXCEPT !.s1 = p]
                 mid == [got EXCEPT !.c2 = p]
      <4>2. shake' = [mid EXCEPT !.state = 1] /\ UNCHANGED <<server, refused>>
        BY Zenon, <2>1, <3>2 DEF ProcessS1
      <4>3. mid \in Shake /\ mid.s1 = p /\ mid.c2 = p /\ mid.made = shake.made
        <5>1. got \in Shake /\ got.s1 = p /\ got.made = shake.made
          BY <1>0, <3>1
        <5> HIDE DEF got
        <5> QED BY <3>1, <5>1
      <4> HIDE DEF mid
      <4>4. /\ shake' \in Shake /\ shake'.state = 1
            /\ shake'.s1 = p /\ shake'.c2 = p /\ shake'.made
        <5>1. shake.made
          BY Zenon, <2>1 DEF ProcessS1
        <5> DEFINE next == [mid EXCEPT !.state = 1]
        <5>2. next \in Shake
          BY <4>3
        <5>3. /\ next.state = 1 /\ next.s1 = mid.s1 /\ next.c2 = mid.c2
              /\ next.made = mid.made
          BY <4>3
        <5> QED BY Zenon, <4>2, <4>3, <5>1, <5>2, <5>3
      <4> QED BY <2>0, <3>1, <4>1, <4>2, <4>4
              DEF HandshakeInv, HandshakeTypeOK, DoneIsGenuine, Shake
    <3>3. CASE ~(FindDigest(p) >= 0 /\ sent)
      BY <1>0, <2>0, <2>1, <3>1, <3>3
      DEF ProcessS1, HandshakeInv, HandshakeTypeOK, DoneIsGenuine, Shake
    <3> QED BY <3>2, <3>3
  <2>2. ASSUME NEW p \in Packet, ProcessS2(p)
        PROVE  HandshakeInv'
    <3> DEFINE mid == [shake EXCEPT !.s2 = p]
               to  == IF p = shake.c1 THEN 2 ELSE 1
    <3>1. /\ shake' = [mid EXCEPT !.state = to]
          /\ refused' = refused + IF p = shake.c1 THEN 0 ELSE 1
          /\ UNCHANGED server
          /\ shake.state = 1
      BY Zenon, <2>2 DEF ProcessS2
    <3>2. mid \in Shake
      BY <1>0
    <3>3. /\ mid.s2 = p /\ mid.c1 = shake.c1 /\ mid.s1 = shake.s1
          /\ mid.c2 = shake.c2 /\ mid.made = shake.made
      BY <1>0
    <3> HIDE DEF mid
    <3>4. to \in 1..2 /\ (to = 2 => p = shake.c1)
      OBVIOUS
    <3>5. refused' \in 0..2
      BY <2>0, <3>1
    <3> HIDE DEF to
    <3>6. /\ shake' \in Shake /\ shake'.state = to /\ shake'.s2 = p
          /\ shake'.c1 = shake.c1 /\ shake'.s1 = shake.s1
          /\ shake'.c2 = shake.c2 /\ shake'.made = shake.made
      <4> DEFINE next == [mid EXCEPT !.state = to]
      <4>1. next \in Shake
        BY <3>2, <3>4
      <4>2. /\ next.state = to /\ next.s2 = mid.s2 /\ next.c1 = mid.c1
            /\ next.s1 = mid.s1 /\ next.c2 = mid.c2 /\ next.made = mid.made
        BY <3>2
      <4> QED BY Zenon, <3>1, <3>3, <4>1, <4>2
    <3> QED BY <3>1, <3>4, <3>5, <3>6
            DEF HandshakeInv, HandshakeTypeOK, DoneIsGenuine
  <2> QED BY <1>3, <2>1, <2>2 DEF Answer
<1> QED BY <1>1, <1>2, <1>3 DEF HandshakeNext

LEMMA InvariantHandshakeInv ==
  ASSUME HandshakeConstants
  PROVE  HandshakeSpec => []HandshakeInv
<1>1. HandshakeInit => HandshakeInv
  BY DEF HandshakeInit, HandshakeInv, HandshakeTypeOK, DoneIsGenuine
<1>2. HandshakeInv /\ [HandshakeNext]_handshakeVars => HandshakeInv'
  BY NextHandshakeInv
<1> QED BY <1>1, <1>2, PTL DEF HandshakeSpec

\* Whoever answers, whatever packets are refused in between: a handshake is done only
\* with a server whose S1 held its digest, got S1 back and repeated C1.
THEOREM DoneMeansGenuine ==
  ASSUME HandshakeConstants
  PROVE  HandshakeSpec => []DoneIsGenuine
<1>1. HandshakeInv => DoneIsGenuine
  BY DEF HandshakeInv
<1> QED BY <1>1, InvariantHandshakeInv, PTL

\* Every variable of the handshake keeps its type.
LEMMA HandshakeTypes ==
  ASSUME HandshakeConstants
  PROVE  HandshakeSpec => []HandshakeTypeOK
<1>1. HandshakeInv => HandshakeTypeOK
  BY DEF HandshakeInv
<1> QED BY <1>1, InvariantHandshakeInv, PTL

-----------------------------------------------------------------------------
(* The chunk writer *)

Known == [stamp : Nat, length : Nat, type : Type \cup {"none"},
          stream : Stream \cup {"none"}]

\* A context that holds a message the writer put there holds one of its own type;
\* and if that message's stream was last written with this type, it is that
\* stream's last header.
ContextsAgree ==
  \A t \in Type \ received : context[t].length # 0 =>
    /\ context[t] \in Header /\ context[t].type = t
    /\ \/ context[t].stream \in torn
       \/ written[context[t].stream].type # t
       \/ written[context[t].stream] = context[t]

ChunkInv == ChunkTypeOK /\ HeaderSuffices /\ ContextsAgree

\* Empty has the type of every variable.
LEMMA EmptyType == Empty \in Known /\ Empty.length = 0 /\ Empty.type = "none"
  BY DEF Empty, Known

\* What each type of header leaves out is what the message before had too.
LEMMA ChunkTypeMeans ==
  ASSUME NEW h, NEW prev
  PROVE  \/ ChunkType(h, prev) = 0
         \/ /\ prev.length # 0 /\ h.stream = prev.stream
            /\ \/ ChunkType(h, prev) = 1
               \/ /\ h.length = prev.length /\ h.type = prev.type
                  /\ \/ ChunkType(h, prev) = 2
                     \/ ChunkType(h, prev) = 3 /\ h.stamp = prev.stamp
  BY DEF ChunkType

\* The reader completes a header from the message before, if it holds that one.
LEMMA ReadCompletes ==
  ASSUME ChunkConstants, NEW h \in Header, NEW prev, NEW last \in Known,
         \/ ChunkType(h, prev) = 0
         \/ prev \in Header /\ last = Wire(prev)
  PROVE  Read(h, ChunkType(h, prev), last) = Wire(h)
<1> DEFINE fmt == ChunkType(h, prev)
<1>1. CASE fmt = 0
  BY <1>1 DEF Read, Wire
<1>2. CASE fmt # 0
  <2>1. last = Wire(prev)
    BY <1>2, ChunkTypeMeans
  <2>2. /\ last.stamp = prev.stamp % Word24 /\ last.length = prev.length % Word24
        /\ last.type = prev.type /\ last.stream = prev.stream
    BY <2>1 DEF Wire
  <2> QED BY <1>2, <2>2, ChunkTypeMeans DEF Read, Wire
<1> QED BY <1>1, <1>2

LEMMA ReadType ==
  ASSUME ChunkConstants, NEW h \in Header, NEW fmt, NEW last \in Known
  PROVE  Read(h, fmt, last) \in Known
<1>1. /\ h.stamp % Word24 \in Nat /\ h.length % Word24 \in Nat
      /\ h.type \in Type /\ h.stream \in Stream
  <2>1. /\ h.stamp \in Stamp /\ h.length \in Length
        /\ h.type \in Type /\ h.stream \in Stream
    BY DEF Header
  <2>2. h.stamp \in Nat /\ h.length \in Nat
    BY Zenon, <2>1 DEF ChunkConstants
  <2>3. Word24 \in Nat /\ Word24 > 0
    BY DEF ChunkConstants
  <2> HIDE DEF ChunkConstants
  <2> QED BY <2>1, <2>2, <2>3
<1> DEFINE a == IF fmt <= 2 THEN h.stamp % Word24 ELSE last.stamp
           b == IF fmt <= 1 THEN h.length % Word24 ELSE last.length
           c == IF fmt <= 1 THEN h.type ELSE last.type
           d == IF fmt = 0 THEN h.stream ELSE last.stream
<1>2. /\ a \in Nat /\ b \in Nat /\ c \in Type \cup {"none"}
      /\ d \in Stream \cup {"none"}
  <2>1. /\ last.stamp \in Nat /\ last.length \in Nat
        /\ last.type \in Type \cup {"none"} /\ last.stream \in Stream \cup {"none"}
    BY DEF Known
  <2> QED BY Zenon, <1>1, <2>1
<1> HIDE DEF a, b, c, d
<1>3. [stamp |-> a, length |-> b, type |-> c, stream |-> d] \in Known
  BY <1>2 DEF Known
<1> QED BY Zenon, <1>3 DEF Read, a, b, c, d

\* What Told leaves with the reader.
LEMMA ToldMeans ==
  ASSUME ChunkConstants, ChunkTypeOK, NEW h \in Header, NEW fmt, Told(h, fmt)
  PROVE  /\ reader' \in [Stream -> Known]
         /\ \A s \in Stream \ {h.stream} : reader'[s] = reader[s]
         /\ h.stream \notin torn' =>
              reader'[h.stream] = Read(h, fmt, reader[h.stream])
<1>1. reader \in [Stream -> Known] /\ h.stream \in Stream
  BY DEF ChunkTypeOK, Known, Header
<1>2. Read(h, fmt, reader[h.stream]) \in Known /\ Empty \in Known
  BY <1>1, ReadType, EmptyType
<1> QED BY <1>1, <1>2 DEF Told

LEMMA WriteKeepsChunkInv ==
  ASSUME ChunkConstants, ChunkInv, NEW h \in Header, Write(h)
  PROVE  ChunkInv'
<1> DEFINE t    == h.type
           s    == h.stream
           prev == context[t]
           fmt  == ChunkType(h, prev)
<1>0. /\ context' = [context EXCEPT ![t] = h]
      /\ written' = [written EXCEPT ![s] = h]
      /\ torn' = IF fmt = 0 THEN torn \ {s}
                 ELSE IF written[s].type = t /\ t \notin received THEN torn
                 ELSE torn \cup {s}
      /\ received' = received \ {t}
      /\ Told(h, fmt)
  BY DEF Write
<1>1. /\ t \in Type /\ s \in Stream /\ reader[s] \in Known
      /\ context \in [Type -> Header \cup {Empty}]
      /\ written \in [Stream -> Header \cup {Empty}]
      /\ torn \subseteq Stream /\ received \subseteq Type
  BY DEF ChunkInv, ChunkTypeOK, Header, Known
<1>2. /\ reader' \in [Stream -> Known]
      /\ \A x \in Stream \ {s} : reader'[x] = reader[x]
      /\ s \notin torn' => reader'[s] = Read(h, fmt, reader[s])
  BY <1>0, ToldMeans DEF ChunkInv
<1>3. ChunkTypeOK'
  BY <1>0, <1>1, <1>2 DEF ChunkTypeOK, Known
<1>4. s \notin torn' => fmt = 0 \/ reader[s] = Wire(prev)
  <2> SUFFICES ASSUME s \notin torn', fmt # 0
               PROVE  reader[s] = Wire(prev)
    OBVIOUS
  <2>1. s \notin torn /\ written[s].type = t /\ t \notin received
    BY <1>0
  <2>2. prev.length # 0 /\ prev.stream = s
    BY ChunkTypeMeans
  <2>3. written[s] = prev
    BY <1>1, <2>1, <2>2 DEF ChunkInv, ContextsAgree
  <2>4. reader[s] = Wire(written[s])
    BY <1>1, <2>1 DEF ChunkInv, HeaderSuffices
  <2> QED BY <2>3, <2>4
<1>5. fmt # 0 => prev \in Header
  BY <1>1, ChunkTypeMeans, EmptyType
<1>6. HeaderSuffices'
  <2> SUFFICES ASSUME NEW x \in Stream, x \notin torn'
               PROVE  reader'[x] = Wire(written'[x])
    BY DEF HeaderSuffices
  <2>1. CASE x = s
    <3>1. reader'[s] = Wire(h)
      BY <1>1, <1>2, <1>4, <1>5, <2>1, ReadCompletes
    <3> QED BY <1>0, <1>1, <2>1, <3>1
  <2>2. CASE x # s
    BY <1>0, <1>1, <1>2, <2>2 DEF ChunkInv, HeaderSuffices
  <2> QED BY <2>1, <2>2
<1>7. ContextsAgree'
  <2> SUFFICES ASSUME NEW u \in Type \ received', context'[u].length # 0
               PROVE  /\ context'[u] \in Header /\ context'[u].type = u
                      /\ \/ context'[u].stream \in torn'
                         \/ written'[context'[u].stream].type # u
                         \/ written'[context'[u].stream] = context'[u]
    BY DEF ContextsAgree
  <2>1. CASE u = t
    BY <1>0, <1>1, <2>1
  <2>2. CASE u # t
    <3>1. context'[u] = context[u]
      BY <1>0, <1>1, <2>2
    <3>0. u \in Type \ received
      BY <1>0, <2>2
    <3>2. context[u] \in Header /\ context[u].type = u /\ context[u].stream \in Stream
      BY <3>0, <3>1 DEF ChunkInv, ContextsAgree, Header
    <3>3. CASE context[u].stream = s
      BY <1>0, <1>1, <2>2, <3>1, <3>2, <3>3
    <3>4. CASE context[u].stream # s
      BY <1>0, <1>1, <3>0, <3>1, <3>2, <3>4 DEF ChunkInv, ContextsAgree
    <3> QED BY <3>3, <3>4
  <2> QED BY <2>1, <2>2
<1> QED BY <1>3, <1>6, <1>7 DEF ChunkInv

LEMMA NextChunkInv ==
  ASSUME ChunkConstants, ChunkInv, [ChunkNext]_chunkVars
  PROVE  ChunkInv'
<1>1. ASSUME NEW h \in Header, WriteFails(h) PROVE ChunkInv'
  <2>1. /\ torn' = torn \cup {h.stream} /\ UNCHANGED <<context, received, written>>
        /\ Told(h, ChunkType(h, context[h.type]))
    BY <1>1 DEF WriteFails
  <2>2. h.stream \in Stream /\ torn \subseteq Stream
    BY DEF Header, ChunkInv, ChunkTypeOK
  <2>3. /\ reader' \in [Stream -> Known]
        /\ \A x \in Stream \ {h.stream} : reader'[x] = reader[x]
    BY <2>1, ToldMeans DEF ChunkInv
  <2>4. ChunkTypeOK'
    BY <2>1, <2>2, <2>3 DEF ChunkInv, ChunkTypeOK, Known
  <2>5. HeaderSuffices' /\ ContextsAgree'
    BY <2>1, <2>3 DEF ChunkInv, HeaderSuffices, ContextsAgree
  <2> QED BY <2>4, <2>5 DEF ChunkInv
<1>2. CASE Reconnect
  <2>1. ChunkTypeOK'
    BY <1>2, EmptyType DEF Reconnect, ChunkInv, ChunkTypeOK, Known
  <2>2. HeaderSuffices' /\ ContextsAgree'
    BY <1>2 DEF Reconnect, ChunkInv, HeaderSuffices, ContextsAgree, Header
  <2> QED BY <2>1, <2>2 DEF ChunkInv
<1>3. ASSUME NEW t \in Type, ContextReset(t) PROVE ChunkInv'
  <2>1. ChunkTypeOK' /\ HeaderSuffices'
    BY <1>3 DEF ContextReset, ChunkInv, ChunkTypeOK, HeaderSuffices
  <2>2. ContextsAgree'
    BY <1>3, EmptyType DEF ContextReset, ChunkInv, ChunkTypeOK, ContextsAgree
  <2> QED BY <2>1, <2>2 DEF ChunkInv
<1>4. ASSUME NEW t \in Type, NEW h \in Incoming, ChunkRead(t, h) PROVE ChunkInv'
  <2>0. h \in Header
    BY DEF ChunkConstants
  <2>1. ChunkTypeOK' /\ HeaderSuffices'
    BY <1>4, <2>0 DEF ChunkRead, ChunkInv, ChunkTypeOK, HeaderSuffices
  <2>2. ContextsAgree'
    BY <1>4, <2>0 DEF ChunkRead, ChunkInv, ChunkTypeOK, ContextsAgree
  <2> QED BY <2>1, <2>2 DEF ChunkInv
<1>5. CASE UNCHANGED chunkVars
  BY <1>5 DEF chunkVars, ChunkInv, ChunkTypeOK, HeaderSuffices, ContextsAgree
<1> QED BY <1>1, <1>2, <1>3, <1>4, <1>5, WriteKeepsChunkInv DEF ChunkNext

LEMMA InvariantChunkInv == ASSUME ChunkConstants PROVE ChunkSpec => []ChunkInv
<1>1. ChunkInit => ChunkInv
  <2> SUFFICES ASSUME ChunkInit PROVE ChunkInv
    OBVIOUS
  <2>1. ChunkTypeOK
    BY EmptyType DEF ChunkInit, ChunkTypeOK, Known
  <2>2. Wire(Empty) = Empty
    BY DEF Wire, Empty, ChunkConstants
  <2>3. HeaderSuffices /\ ContextsAgree
    BY <2>2, EmptyType DEF ChunkInit, HeaderSuffices, ContextsAgree
  <2> QED BY <2>1, <2>3 DEF ChunkInv
<1>2. ChunkInv /\ [ChunkNext]_chunkVars => ChunkInv'
  BY NextChunkInv
<1> QED BY <1>1, <1>2, PTL DEF ChunkSpec

\* A reader that keeps track of a chunk stream can complete every header written on
\* it, but for the bits above 24, whatever is written, received, fails, is reset or
\* reconnected.
THEOREM ReaderCompletesHeaders ==
  ASSUME ChunkConstants
  PROVE  ChunkSpec => []HeaderSuffices
<1>1. ChunkInv => HeaderSuffices
  BY DEF ChunkInv
<1> QED BY <1>1, InvariantChunkInv, PTL

\* Every variable of the chunk writer keeps its type.
LEMMA ChunkTypes == ASSUME ChunkConstants PROVE ChunkSpec => []ChunkTypeOK
<1>1. ChunkInv => ChunkTypeOK
  BY DEF ChunkInv
<1> QED BY <1>1, InvariantChunkInv, PTL

-----------------------------------------------------------------------------
(* How many places of a sequence hold a value of a set *)

Marks(s, M) == {i \in DOMAIN s : s[i] \in M}

LEMMA MarksFinite ==
  ASSUME NEW S, NEW s \in Seq(S), NEW M
  PROVE  /\ IsFiniteSet(Marks(s, M)) /\ Cardinality(Marks(s, M)) \in Nat
         /\ Marks(s, M) \subseteq 1..Len(s)
<1>1. Marks(s, M) \subseteq 1..Len(s) /\ Len(s) \in Nat
  BY DEF Marks
<1>2. IsFiniteSet(1..Len(s))
  BY <1>1, FS_Interval
<1> QED BY <1>1, <1>2, FS_Subset, FS_CardinalityType

LEMMA MarksAppended ==
  ASSUME NEW S, NEW s \in Seq(S), NEW e \in S, NEW M
  PROVE  Cardinality(Marks(Append(s, e), M)) =
           Cardinality(Marks(s, M)) + IF e \in M THEN 1 ELSE 0
<1> DEFINE n == Len(s) + 1
<1>1. IsFiniteSet(Marks(s, M)) /\ n \notin Marks(s, M)
  <2>1. IsFiniteSet(Marks(s, M)) /\ Marks(s, M) \subseteq 1..Len(s)
    BY MarksFinite
  <2> QED BY <2>1
<1>2. Marks(Append(s, e), M) = IF e \in M THEN Marks(s, M) \cup {n} ELSE Marks(s, M)
  BY DEF Marks
<1>3. Cardinality(Marks(s, M)) \in Nat
  BY MarksFinite
<1>4. /\ Cardinality(Marks(s, M) \cup {n}) = Cardinality(Marks(s, M)) + 1
  BY <1>1, FS_AddElement
<1> QED BY <1>2, <1>3, <1>4

LEMMA RemoveAtMeans ==
  ASSUME NEW S, NEW s \in Seq(S), NEW k \in 1..Len(s)
  PROVE  /\ RemoveAt(s, k) \in Seq(S)
         /\ Len(RemoveAt(s, k)) = Len(s) - 1
         /\ \A i \in 1..(Len(s) - 1) :
              RemoveAt(s, k)[i] = IF i < k THEN s[i] ELSE s[i + 1]
<1> DEFINE a == SubSeq(s, 1, k - 1)
           b == SubSeq(s, k + 1, Len(s))
<1>1. a \in Seq(S) /\ Len(a) = k - 1 /\ \A i \in 1..(k - 1) : a[i] = s[i]
  OBVIOUS
<1>2. /\ b \in Seq(S) /\ Len(b) = Len(s) - k
      /\ \A i \in 1..(Len(s) - k) : b[i] = s[k + i]
  OBVIOUS
<1>3. RemoveAt(s, k) = a \o b
  BY DEF RemoveAt
<1> HIDE DEF a, b
<1>4. a \o b \in Seq(S) /\ Len(a \o b) = Len(s) - 1
  <2>1. a \o b \in Seq(S) /\ Len(a \o b) = Len(a) + Len(b)
    BY <1>1, <1>2, ConcatProperties
  <2> QED BY <1>1, <1>2, <2>1
<1>5. ASSUME NEW i \in 1..(Len(s) - 1)
      PROVE  (a \o b)[i] = IF i < k THEN s[i] ELSE s[i + 1]
  <2>1. CASE i < k
    BY <1>1, <1>2, <2>1
  <2>2. CASE ~(i < k)
    <3>1. (a \o b)[i] = b[i - (k - 1)]
      BY <1>1, <1>2, <2>2
    <3>2. i - (k - 1) \in 1..(Len(s) - k) /\ k + (i - (k - 1)) = i + 1
      BY <2>2
    <3> QED BY <1>2, <2>2, <3>1, <3>2
  <2> QED BY <2>1, <2>2
<1> QED BY <1>3, <1>4, <1>5

LEMMA MarksRemoved ==
  ASSUME NEW S, NEW s \in Seq(S), NEW k \in 1..Len(s), NEW M
  PROVE  Cardinality(Marks(RemoveAt(s, k), M)) =
           Cardinality(Marks(s, M)) - IF s[k] \in M THEN 1 ELSE 0
<1> DEFINE r  == RemoveAt(s, k)
           A  == Marks(s, M) \ {k}
           to == [i \in A |-> IF i < k THEN i ELSE i - 1]
<1>1. /\ r \in Seq(S) /\ Len(s) \in Nat /\ Len(r) = Len(s) - 1
      /\ \A i \in 1..(Len(s) - 1) : r[i] = IF i < k THEN s[i] ELSE s[i + 1]
  BY RemoveAtMeans
<1> HIDE DEF r
<1>2. to \in Bijection(A, Marks(r, M))
  <2>0. A \subseteq 1..Len(s)
    BY MarksFinite
  <2>1. to \in [A -> Marks(r, M)]
    BY <1>1, <2>0 DEF Marks
  <2>2. \A a, b \in A : to[a] = to[b] => a = b
    BY <2>0
  <2>3. ASSUME NEW j \in Marks(r, M) PROVE \E a \in A : to[a] = j
    <3>1. j \in 1..(Len(s) - 1) /\ r[j] \in M
      BY <1>1 DEF Marks
    <3>2. CASE j < k
      <4>1. j \in A
        BY <1>1, <3>1, <3>2 DEF Marks
      <4> QED BY <3>2, <4>1
    <3>3. CASE ~(j < k)
      <4>1. j + 1 \in A
        BY <1>1, <3>1, <3>3 DEF Marks
      <4>2. to[j + 1] = j
        BY <3>1, <3>3, <4>1
      <4> QED BY <4>1, <4>2
    <3> QED BY <3>2, <3>3
  <2> QED BY <2>1, <2>2, <2>3, Fun_IsBij
<1>3. /\ IsFiniteSet(Marks(s, M)) /\ Cardinality(Marks(s, M)) \in Nat
      /\ (s[k] \in M <=> k \in Marks(s, M))
  <2>1. s[k] \in M <=> k \in Marks(s, M)
    BY DEF Marks
  <2> QED BY <2>1, MarksFinite
<1>4. IsFiniteSet(A) /\ ExistsBijection(A, Marks(r, M))
  BY <1>2, <1>3, FS_RemoveElement, Fun_ExistsBij
<1>5. Cardinality(Marks(r, M)) = Cardinality(A)
  BY <1>4, FS_Bijection
<1>6. Cardinality(A) =
        Cardinality(Marks(s, M)) - IF k \in Marks(s, M) THEN 1 ELSE 0
  <2>1. Cardinality(A) = IF k \in Marks(s, M) THEN Cardinality(Marks(s, M)) - 1
                                              ELSE Cardinality(Marks(s, M))
    BY Zenon, <1>3, FS_RemoveElement
  <2> QED BY <1>3, <2>1
<1> HIDE DEF A
<1>7. Cardinality(Marks(r, M)) = Cardinality(Marks(s, M)) - IF s[k] \in M THEN 1 ELSE 0
  BY <1>3, <1>5, <1>6
<1> QED BY <1>7 DEF r

-----------------------------------------------------------------------------
(* The timing table *)

\* A thread that has passed the test has room among its own ids.
RoomHeld ==
  \A t \in Timer : /\ Len(timing[t]) <= MaxOpen
                   /\ stage[t] = "start" => Len(timing[t]) < MaxOpen

\* Nobody overran the arrays alone.
TwoOverran == intact \/ Cardinality(Timer) > 1

DiagInv ==
  DiagnosticsTypeOK /\ RoomHeld /\ StartersFit /\ TimingsMatch /\ TwoOverran

\* The threads that have passed the test.
Starting(st) == {t \in Timer : st[t] = "start"}

LEMMA StartingFinite ==
  ASSUME DiagConstants, NEW st
  PROVE  /\ IsFiniteSet(Starting(st)) /\ Cardinality(Starting(st)) \in Nat
         /\ Cardinality(Starting(st)) <= Cardinality(Timer)
         /\ Cardinality(Timer) \in Nat /\ Cardinality(Timer) >= 1
<1>1. IsFiniteSet(Timer) /\ Starting(st) \in SUBSET Timer /\ Timer # {}
  BY DEF DiagConstants, Starting
<1>2. /\ IsFiniteSet(Starting(st))
      /\ Cardinality(Starting(st)) <= Cardinality(Timer)
  BY <1>1, FS_Subset
<1>3. Cardinality(Timer) # 0
  BY <1>1, FS_EmptySet
<1> QED BY <1>1, <1>2, <1>3, FS_CardinalityType

\* One more thread starts, and one less.
LEMMA StartingMoves ==
  ASSUME DiagConstants, DiagnosticsTypeOK, NEW t \in Timer, NEW from, NEW to,
         Moves(t, from, to)
  PROVE  Cardinality(Starting(stage')) =
           Cardinality(Starting(stage)) + (IF to = "start" THEN 1 ELSE 0)
                                        - (IF from = "start" THEN 1 ELSE 0)
<1>0. /\ stage \in [Timer -> DiagStage] /\ stage[t] = from
      /\ stage' = [stage EXCEPT ![t] = to]
  BY DEF DiagnosticsTypeOK, Moves
<1>1. IsFiniteSet(Starting(stage)) /\ Cardinality(Starting(stage)) \in Nat
  BY StartingFinite
<1>2. Starting(stage') = IF to = "start" THEN Starting(stage) \cup {t}
                         ELSE Starting(stage) \ {t}
  BY <1>0 DEF Starting
<1>3. t \in Starting(stage) <=> from = "start"
  BY <1>0 DEF Starting
<1>4. /\ Cardinality(Starting(stage) \cup {t}) =
           Cardinality(Starting(stage)) + IF from = "start" THEN 0 ELSE 1
      /\ Cardinality(Starting(stage) \ {t}) =
           Cardinality(Starting(stage)) - IF from = "start" THEN 1 ELSE 0
  <2>1. Cardinality(Starting(stage) \cup {t}) =
          IF t \in Starting(stage) THEN Cardinality(Starting(stage))
                                   ELSE Cardinality(Starting(stage)) + 1
    BY <1>1, FS_AddElement
  <2>2. Cardinality(Starting(stage) \ {t}) =
          IF t \in Starting(stage) THEN Cardinality(Starting(stage)) - 1
                                   ELSE Cardinality(Starting(stage))
    BY <1>1, FS_RemoveElement
  <2> QED BY <1>1, <1>3, <2>1, <2>2
<1> QED BY <1>1, <1>2, <1>4

-----------------------------------------------------------------------------
\* The operations being timed with an id, as TimingsMatch counts them.
Held(tm, id) ==
  {p \in Timer \X (1..MaxOpen) : p[2] \in DOMAIN tm[p[1]] /\ tm[p[1]][p[2]] = id}

LEMMA HeldFinite ==
  ASSUME DiagConstants, NEW tm, NEW id
  PROVE  IsFiniteSet(Held(tm, id)) /\ Cardinality(Held(tm, id)) \in Nat
<1>1. IsFiniteSet(Timer) /\ IsFiniteSet(1..MaxOpen)
  BY FS_Interval DEF DiagConstants
<1>2. IsFiniteSet(Timer \X (1..MaxOpen))
  BY <1>1, FS_Product
<1>3. Held(tm, id) \in SUBSET (Timer \X (1..MaxOpen))
  BY DEF Held
<1> QED BY <1>2, <1>3, FS_Subset, FS_CardinalityType

\* One thread's share of them.
LEMMA HeldByOne ==
  ASSUME DiagConstants, NEW t \in Timer, NEW id,
         NEW tm \in [Timer -> Seq(1..MaxClock)], Len(tm[t]) <= MaxOpen
  PROVE  LET rest == {p \in Held(tm, id) : p[1] # t}
         IN  /\ IsFiniteSet(rest) /\ Cardinality(rest) \in Nat
             /\ Cardinality(Held(tm, id)) =
                  Cardinality(rest) + Cardinality(Marks(tm[t], {id}))
<1> DEFINE rest == {p \in Held(tm, id) : p[1] # t}
           own  == {t} \X Marks(tm[t], {id})
<1>1. IsFiniteSet(Marks(tm[t], {id})) /\ Cardinality(Marks(tm[t], {id})) \in Nat
  BY MarksFinite
<1>2. IsFiniteSet(own) /\ Cardinality(own) = Cardinality(Marks(tm[t], {id}))
  <2>1. IsFiniteSet({t}) /\ Cardinality({t}) = 1
    BY FS_Singleton
  <2>2. /\ IsFiniteSet(own)
        /\ Cardinality(own) = Cardinality({t}) * Cardinality(Marks(tm[t], {id}))
    BY <1>1, <2>1, FS_Product
  <2> HIDE DEF own
  <2> QED BY <1>1, <2>1, <2>2
<1>3. IsFiniteSet(rest) /\ Cardinality(rest) \in Nat
  <2>1. rest \in SUBSET Held(tm, id)
    OBVIOUS
  <2> QED BY <2>1, HeldFinite, FS_Subset, FS_CardinalityType
<1>4. Held(tm, id) = rest \cup own
  <2>1. Marks(tm[t], {id}) = {i \in 1..MaxOpen : i \in DOMAIN tm[t] /\ tm[t][i] = id}
    BY DEF Marks, DiagConstants
  <2> QED BY <2>1 DEF Held
<1>5. rest \cap own = {}
  OBVIOUS
<1>6. Cardinality(rest \cap own) = 0
  BY <1>5, FS_EmptySet
<1> HIDE DEF rest, own
<1>7. Cardinality(rest \cup own) = Cardinality(rest) + Cardinality(own) - 0
  BY <1>2, <1>3, <1>6, FS_Union
<1>8. Cardinality(Held(tm, id)) = Cardinality(rest) + Cardinality(Marks(tm[t], {id}))
  BY <1>1, <1>2, <1>3, <1>4, <1>7
<1> QED BY <1>3, <1>8 DEF rest

\* Only the thread whose ids change changes what is held.
LEMMA HeldMoves ==
  ASSUME DiagConstants, NEW t \in Timer, NEW id,
         NEW tm \in [Timer -> Seq(1..MaxClock)], Len(tm[t]) <= MaxOpen,
         NEW tn \in [Timer -> Seq(1..MaxClock)], Len(tn[t]) <= MaxOpen,
         \A u \in Timer \ {t} : tn[u] = tm[u]
  PROVE  Cardinality(Held(tn, id)) - Cardinality(Marks(tn[t], {id})) =
           Cardinality(Held(tm, id)) - Cardinality(Marks(tm[t], {id}))
<1>1. {p \in Held(tn, id) : p[1] # t} = {p \in Held(tm, id) : p[1] # t}
  BY DEF Held
<1>2. /\ Cardinality(Marks(tm[t], {id})) \in Nat
      /\ Cardinality(Marks(tn[t], {id})) \in Nat
  BY MarksFinite
<1> DEFINE m == Cardinality({p \in Held(tm, id) : p[1] # t})
<1>3. m \in Nat /\ Cardinality(Held(tm, id)) = m + Cardinality(Marks(tm[t], {id}))
  BY HeldByOne
<1>4. Cardinality(Held(tn, id)) = m + Cardinality(Marks(tn[t], {id}))
  BY <1>1, HeldByOne
<1> QED BY <1>2, <1>3, <1>4

-----------------------------------------------------------------------------
\* The invariant speaks of the table and of each thread's ids by what is marked.
Entries(tb, id) == Marks(tb, {r \in Record : r.id = id})

LEMMA EntriesMeans ==
  ASSUME NEW tb \in Seq(Record), NEW id
  PROVE  Entries(tb, id) = {i \in DOMAIN tb : tb[i].id = id}
  BY DEF Entries, Marks

LEMMA StartKeepsDiagInv ==
  ASSUME DiagConstants, DiagInv, NEW t \in Timer,
         CallStart(t) \/ StartTiming(t) \/ WritesBeyond(t)
  PROVE  DiagInv'
<1> USE DEF DiagInv
<1>0. /\ table \in Seq(Record) /\ Len(table) \in Nat
      /\ stage \in [Timer -> DiagStage] /\ timing \in [Timer -> Seq(1..MaxClock)]
      /\ clock \in 1..MaxClock /\ MaxOpen \in Nat /\ MaxTiming \in Nat
  BY DEF DiagnosticsTypeOK, DiagConstants
<1>1. CASE CallStart(t)
  <2>1. /\ Moves(t, "idle", "start") /\ UNCHANGED <<table, intact, timing>>
        /\ Len(table) < MaxTiming /\ Len(timing[t]) < MaxOpen
    BY <1>1 DEF CallStart
  <2>2. stage' = [stage EXCEPT ![t] = "start"]
    BY <2>1 DEF Moves
  <2>3. DiagnosticsTypeOK' /\ RoomHeld'
    BY <1>0, <1>1, <2>1, <2>2 DEF CallStart, DiagnosticsTypeOK, RoomHeld, DiagStage
  <2>4. StartersFit'
    <3>1. /\ Cardinality(Starting(stage')) \in Nat /\ Cardinality(Timer) \in Nat
          /\ Cardinality(Starting(stage')) <= Cardinality(Timer)
      BY StartingFinite
    <3>2. Len(table') + Cardinality(Starting(stage')) <=
            MaxTiming + Cardinality(Timer) - 1
      BY <1>0, <2>1, <3>1
    <3> QED BY <3>2 DEF StartersFit, Starting
  <2>5. TimingsMatch'
    BY <2>1 DEF TimingsMatch
  <2> QED BY <2>1, <2>3, <2>4, <2>5 DEF TwoOverran
<1>2. CASE StartTiming(t)
  <2> DEFINE r == [id |-> clock, operation |-> t]
  <2>1. /\ Moves(t, "start", "idle")
        /\ table' = Append(table, r)
        /\ timing' = [timing EXCEPT ![t] = Append(@, clock)]
        /\ UNCHANGED <<diag, quiet, intact, owner, clock>>
    BY <1>2 DEF StartTiming
  <2>2. stage' = [stage EXCEPT ![t] = "idle"] /\ stage[t] = "start"
    BY <2>1 DEF Moves
  <2>3. r \in Record
    BY <1>0 DEF Record
  <2> HIDE DEF r
  <2>4. /\ Len(timing[t]) < MaxOpen /\ timing[t] \in Seq(1..MaxClock)
        /\ timing'[t] = Append(timing[t], clock)
        /\ \A u \in Timer \ {t} : timing'[u] = timing[u]
        /\ timing' \in [Timer -> Seq(1..MaxClock)]
        /\ Len(timing'[t]) = Len(timing[t]) + 1
    <3>1. Append(timing[t], clock) \in Seq(1..MaxClock)
      BY <1>0
    <3> QED BY <1>0, <2>1, <2>2, <3>1 DEF RoomHeld
  <2>5. DiagnosticsTypeOK'
    BY <1>0, <2>1, <2>2, <2>3, <2>4 DEF DiagnosticsTypeOK, DiagStage
  <2>6. RoomHeld'
    BY <1>0, <2>2, <2>4 DEF RoomHeld
  <2>7. StartersFit'
    <3>1. /\ Cardinality(Starting(stage)) \in Nat /\ Cardinality(Timer) \in Nat
      BY StartingFinite
    <3>2. Cardinality(Starting(stage')) = Cardinality(Starting(stage)) - 1
      BY <2>1, <3>1, StartingMoves
    <3>3. Len(table') = Len(table) + 1
      BY <1>0, <2>1, <2>3
    <3>4. Len(table) + Cardinality(Starting(stage)) <= MaxTiming + Cardinality(Timer) - 1
      BY DEF StartersFit, Starting
    <3>5. Len(table') + Cardinality(Starting(stage')) <=
            MaxTiming + Cardinality(Timer) - 1
      BY <1>0, <3>1, <3>2, <3>3, <3>4
    <3> QED BY <3>5 DEF StartersFit, Starting
  <2>8. TimingsMatch'
    <3> SUFFICES ASSUME NEW id \in 1..MaxClock
                 PROVE  Cardinality(Entries(table', id)) = Cardinality(Held(timing', id))
      <4>1. table' \in Seq(Record)
        BY <2>5 DEF DiagnosticsTypeOK
      <4> QED BY <4>1, EntriesMeans DEF TimingsMatch, Held
    <3>1. Cardinality(Entries(table, id)) = Cardinality(Held(timing, id))
      BY <1>0, EntriesMeans DEF TimingsMatch, Held
    <3>2. Cardinality(Entries(table', id)) =
            Cardinality(Entries(table, id)) + IF clock = id THEN 1 ELSE 0
      <4>1. r \in {x \in Record : x.id = id} <=> clock = id
        BY <2>3 DEF r
      <4> QED BY <1>0, <2>1, <2>3, <4>1, MarksAppended DEF Entries
    <3>3. Cardinality(Marks(timing'[t], {id})) =
            Cardinality(Marks(timing[t], {id})) + IF clock = id THEN 1 ELSE 0
      BY <1>0, <2>4, MarksAppended
    <3>4. Cardinality(Held(timing', id)) - Cardinality(Marks(timing'[t], {id})) =
            Cardinality(Held(timing, id)) - Cardinality(Marks(timing[t], {id}))
      <4>2. Len(timing[t]) <= MaxOpen /\ Len(timing'[t]) <= MaxOpen
        BY <1>0, <2>4
      <4> QED BY <1>0, <2>4, <4>2, HeldMoves
    <3>5. /\ Cardinality(Marks(timing[t], {id})) \in Nat
          /\ Cardinality(Marks(timing'[t], {id})) \in Nat
          /\ Cardinality(Entries(table, id)) \in Nat
          /\ Cardinality(Held(timing', id)) \in Nat
      <4>1. Cardinality(Held(timing', id)) \in Nat
        BY HeldFinite
      <4> QED BY <1>0, <2>4, <4>1, MarksFinite DEF Entries
    <3> QED BY <3>1, <3>2, <3>3, <3>4, <3>5
  <2> QED BY <2>1, <2>5, <2>6, <2>7, <2>8 DEF TwoOverran
\* The thread that overruns them is one of those that fit, so there are more.
<1>3. CASE WritesBeyond(t)
  <2>1. /\ Moves(t, "start", "idle") /\ Len(table) >= MaxTiming
        /\ intact' = FALSE /\ UNCHANGED <<diag, quiet, table, timing, owner, clock>>
    BY <1>3 DEF WritesBeyond
  <2>2. stage' = [stage EXCEPT ![t] = "idle"] /\ stage[t] = "start"
    BY <2>1 DEF Moves
  <2>3. DiagnosticsTypeOK' /\ RoomHeld'
    BY <1>0, <2>1, <2>2 DEF DiagnosticsTypeOK, RoomHeld, DiagStage
  <2>4. /\ Cardinality(Starting(stage)) \in Nat /\ Cardinality(Timer) \in Nat
        /\ Cardinality(Starting(stage')) \in Nat
        /\ Cardinality(Starting(stage')) = Cardinality(Starting(stage)) - 1
        /\ Len(table) + Cardinality(Starting(stage)) <=
             MaxTiming + Cardinality(Timer) - 1
    <3>1. /\ Cardinality(Starting(stage)) \in Nat /\ Cardinality(Timer) \in Nat
          /\ Cardinality(Starting(stage')) \in Nat
      BY StartingFinite
    <3>2. Cardinality(Starting(stage')) = Cardinality(Starting(stage)) - 1
      BY <2>1, <3>1, StartingMoves
    <3> QED BY <3>1, <3>2 DEF StartersFit, Starting
  <2>5. Cardinality(Timer) > 1 /\ StartersFit'
    <3>1. /\ Cardinality(Timer) > 1
          /\ Len(table') + Cardinality(Starting(stage')) <=
               MaxTiming + Cardinality(Timer) - 1
      BY <1>0, <2>1, <2>4
    <3> QED BY <3>1 DEF StartersFit, Starting
  <2>6. TimingsMatch'
    BY <2>1 DEF TimingsMatch
  <2> QED BY <2>3, <2>5, <2>6 DEF TwoOverran
<1> QED BY <1>1, <1>2, <1>3

\* Among natural numbers there is a first.
LEMMA SmallestOfNat ==
  ASSUME NEW S, S \subseteq Nat, S # {}
  PROVE  \E k \in S : \A j \in S : k <= j
<1> DEFINE R == {ss \in Nat \X Nat : ss[1] < ss[2]}
<1>1. IsWellFoundedOn(R, Nat)
  BY Zenon, NatLessThanWellFounded DEF OpToRel
<1>2. \E x \in S : \A y \in S : ~ (<<y, x>> \in R)
  <2> HIDE DEF R
  <2> QED BY <1>1, WFMin
<1>3. PICK k \in S : \A j \in S : ~ (<<j, k>> \in R)
  BY <1>2
<1>4. ASSUME NEW j \in S PROVE k <= j
  <2>1. j \in Nat /\ k \in Nat /\ ~ (<<j, k>> \in R)
    BY <1>3
  <2>2. ~ (j < k)
    BY <2>1
  <2> QED BY <2>1, <2>2
<1> QED BY <1>4

\* What the end of an operation takes from the table, for the id it looks for.
LEMMA WithoutMeans ==
  ASSUME DiagnosticsTypeOK, NEW id \in 1..MaxClock,
         Cardinality(Entries(table, id)) # 0
  PROVE  \E k \in 1..Len(table) :
           table[k].id = id /\ Without(id) = RemoveAt(table, k)
<1> DEFINE hit == {i \in DOMAIN table : table[i].id = id}
<1>1. table \in Seq(Record) /\ hit = Entries(table, id) /\ hit \subseteq 1..Len(table)
  BY EntriesMeans DEF DiagnosticsTypeOK
<1>2. hit # {} /\ hit \subseteq Nat
  <2> HIDE DEF hit
  <2>1. hit # {}
    BY <1>1, FS_EmptySet
  <2>2. 1..Len(table) \subseteq Nat
    OBVIOUS
  <2> QED BY <1>1, <2>1, <2>2
<1>3. PICK k \in hit : \A j \in hit : k <= j
  <2> HIDE DEF hit
  <2> QED BY <1>2, SmallestOfNat
<1>4. ASSUME NEW i \in hit, \A j \in hit : i <= j PROVE i = k
  BY <1>2, <1>3, <1>4
<1>5. (CHOOSE i \in hit : \A j \in hit : i <= j) = k
  <2> HIDE DEF hit
  <2> QED BY <1>3, <1>4
<1>6. Without(id) = RemoveAt(table, k)
  BY Zenon, <1>2, <1>5 DEF Without
<1> QED BY <1>1, <1>3, <1>6

LEMMA EndKeepsDiagInv ==
  ASSUME DiagConstants, DiagInv, NEW t \in Timer, EndTiming(t)
  PROVE  DiagInv'
<1> USE DEF DiagInv
<1>0. /\ table \in Seq(Record) /\ Len(table) \in Nat
      /\ stage \in [Timer -> DiagStage] /\ timing \in [Timer -> Seq(1..MaxClock)]
      /\ MaxOpen \in Nat /\ MaxTiming \in Nat
  BY DEF DiagnosticsTypeOK, DiagConstants
<1>1. PICK n \in DOMAIN timing[t] :
        /\ Moves(t, "end", "idle")
        /\ table' = Without(timing[t][n])
        /\ timing' = [timing EXCEPT ![t] = RemoveAt(@, n)]
        /\ UNCHANGED <<diag, quiet, intact, owner, clock>>
  BY DEF EndTiming
<1> DEFINE old == timing[t][n]
<1>2. /\ timing[t] \in Seq(1..MaxClock) /\ n \in 1..Len(timing[t])
      /\ old \in 1..MaxClock /\ Len(timing[t]) \in Nat /\ Len(timing[t]) <= MaxOpen
  <2>1. timing[t] \in Seq(1..MaxClock)
    BY <1>0
  <2>2. Len(timing[t]) <= MaxOpen
    BY DEF RoomHeld
  <2>3. n \in 1..Len(timing[t]) /\ Len(timing[t]) \in Nat
    <3>1. DOMAIN timing[t] = 1..Len(timing[t]) /\ Len(timing[t]) \in Nat
      BY <2>1
    <3> QED BY Zenon, <3>1
  <2>4. old \in 1..MaxClock
    <3>1. ASSUME NEW S, NEW q \in Seq(S), NEW i \in 1..Len(q) PROVE q[i] \in S
      OBVIOUS
    <3> QED BY Zenon, <2>1, <2>3, <3>1
  <2> QED BY <2>1, <2>2, <2>3, <2>4
<1>3. /\ timing'[t] = RemoveAt(timing[t], n)
      /\ timing'[t] \in Seq(1..MaxClock) /\ Len(timing'[t]) = Len(timing[t]) - 1
      /\ \A u \in Timer \ {t} : timing'[u] = timing[u]
      /\ timing' \in [Timer -> Seq(1..MaxClock)]
  <2>1. /\ RemoveAt(timing[t], n) \in Seq(1..MaxClock)
        /\ Len(RemoveAt(timing[t], n)) = Len(timing[t]) - 1
    BY <1>2, RemoveAtMeans
  <2>2. timing' = [timing EXCEPT ![t] = RemoveAt(timing[t], n)]
    BY <1>1
  <2> QED BY <1>0, <2>1, <2>2
\* The operation is being timed, so its id is in the table.
<1>4. Cardinality(Entries(table, old)) # 0
  <2>1. Cardinality(Entries(table, old)) = Cardinality(Held(timing, old))
    BY <1>0, <1>2, EntriesMeans DEF TimingsMatch, Held
  <2>2. <<t, n>> \in Held(timing, old)
    BY <1>2, <1>0 DEF Held
  <2>3. Cardinality(Held(timing, old)) # 0
    BY <2>2, HeldFinite, FS_EmptySet
  <2> QED BY <2>1, <2>3
<1> HIDE DEF old
<1>5. PICK k \in 1..Len(table) : table[k].id = old /\ table' = RemoveAt(table, k)
  BY <1>1, <1>2, <1>4, WithoutMeans DEF old
<1>6. table' \in Seq(Record) /\ Len(table') = Len(table) - 1
  BY <1>0, <1>5, RemoveAtMeans
<1>7. stage' = [stage EXCEPT ![t] = "idle"]
  BY <1>1 DEF Moves
<1>8. DiagnosticsTypeOK'
  BY <1>0, <1>1, <1>3, <1>6, <1>7 DEF DiagnosticsTypeOK, DiagStage
<1>9. RoomHeld'
  BY <1>0, <1>2, <1>3, <1>7 DEF RoomHeld
<1>10. StartersFit'
  <2>1. /\ Cardinality(Starting(stage)) \in Nat /\ Cardinality(Timer) \in Nat
    BY StartingFinite
  <2>2. Cardinality(Starting(stage')) = Cardinality(Starting(stage))
    BY <1>1, <2>1, StartingMoves
  <2>3. Len(table) + Cardinality(Starting(stage)) <= MaxTiming + Cardinality(Timer) - 1
    BY DEF StartersFit, Starting
  <2>4. Len(table') + Cardinality(Starting(stage')) <=
          MaxTiming + Cardinality(Timer) - 1
    BY <1>0, <1>6, <2>1, <2>2, <2>3
  <2> QED BY <2>4 DEF StartersFit, Starting
<1>11. TimingsMatch'
  <2> SUFFICES ASSUME NEW id \in 1..MaxClock
               PROVE  Cardinality(Entries(table', id)) = Cardinality(Held(timing', id))
    BY <1>6, EntriesMeans DEF TimingsMatch, Held
  <2>1. Cardinality(Entries(table, id)) = Cardinality(Held(timing, id))
    BY <1>0, EntriesMeans DEF TimingsMatch, Held
  <2>2. Cardinality(Entries(table', id)) =
          Cardinality(Entries(table, id)) - IF old = id THEN 1 ELSE 0
    <3>1. table[k] \in {x \in Record : x.id = id} <=> old = id
      BY <1>0, <1>5
    <3> QED BY <1>0, <1>5, <3>1, MarksRemoved DEF Entries
  <2>3. Cardinality(Marks(timing'[t], {id})) =
          Cardinality(Marks(timing[t], {id})) - IF old = id THEN 1 ELSE 0
    BY <1>2, <1>3, MarksRemoved DEF old
  <2>4. Cardinality(Held(timing', id)) - Cardinality(Marks(timing'[t], {id})) =
          Cardinality(Held(timing, id)) - Cardinality(Marks(timing[t], {id}))
    <3>1. Len(timing[t]) <= MaxOpen /\ Len(timing'[t]) <= MaxOpen
      BY <1>0, <1>2, <1>3
    <3> QED BY <1>0, <1>3, <3>1, HeldMoves
  <2>5. /\ Cardinality(Marks(timing[t], {id})) \in Nat
        /\ Cardinality(Marks(timing'[t], {id})) \in Nat
        /\ Cardinality(Entries(table, id)) \in Nat
        /\ Cardinality(Held(timing', id)) \in Nat
    <3>1. Cardinality(Held(timing', id)) \in Nat
      BY HeldFinite
    <3> QED BY <1>0, <1>2, <1>3, <3>1, MarksFinite DEF Entries
  <2> QED BY <2>1, <2>2, <2>3, <2>4, <2>5
<1> QED BY <1>1, <1>8, <1>9, <1>10, <1>11 DEF TwoOverran

\* Nothing is being timed and no thread has passed the test.
LEMMA NothingTimed ==
  ASSUME DiagConstants, NEW st, \A t \in Timer : st[t] = "idle"
  PROVE  /\ 0 + Cardinality(Starting(st)) <= MaxTiming + Cardinality(Timer) - 1
         /\ \A id : /\ Cardinality({i \in DOMAIN <<>> : <<>>[i].id = id}) = 0
                    /\ Cardinality(Held([t \in Timer |-> <<>>], id)) = 0
<1>1. Starting(st) = {}
  BY DEF Starting
<1>2. /\ 0 + Cardinality(Starting(st)) <= MaxTiming + Cardinality(Timer) - 1
  <2>1. Cardinality(Timer) \in Nat /\ Cardinality(Timer) >= 1 /\ MaxTiming \in Nat
    BY StartingFinite DEF DiagConstants
  <2>2. Cardinality(Starting(st)) = 0
    BY <1>1, FS_EmptySet
  <2> QED BY <2>1, <2>2
<1>3. ASSUME NEW id
      PROVE  /\ {i \in DOMAIN <<>> : <<>>[i].id = id} = {}
             /\ Held([t \in Timer |-> <<>>], id) = {}
  BY DEF Held
<1> QED BY <1>2, <1>3, FS_EmptySet

\* The steps that neither start nor end an operation.
LEMMA RestKeepsDiagInv ==
  ASSUME DiagConstants, DiagInv,
         \/ DiagInit \/ Shutdown \/ SetLogLevel \/ Tick \/ UNCHANGED diagVars
         \/ \E t \in Timer : CallEnd(t) \/ CallLog(t) \/ EndSlowTiming(t) \/ Log(t)
  PROVE  DiagInv'
<1>1. CASE DiagInit \/ SetLogLevel \/ Tick \/ UNCHANGED diagVars
  <2>1. UNCHANGED <<table, intact, stage, timing, owner>>
    BY <1>1 DEF DiagInit, SetLogLevel, Tick, diagVars
  <2>2. RoomHeld' /\ StartersFit' /\ TimingsMatch'
    BY <2>1 DEF DiagInv, RoomHeld, StartersFit, TimingsMatch
  <2>3. diag' \in BOOLEAN /\ quiet' \in BOOLEAN
    BY Zenon, <1>1 DEF DiagInit, SetLogLevel, Tick, diagVars, DiagInv, DiagnosticsTypeOK
  <2>4. clock' \in 1..MaxClock
    BY <1>1 DEF DiagInit, SetLogLevel, Tick, diagVars, DiagInv, DiagnosticsTypeOK,
                DiagConstants
  <2>5. DiagnosticsTypeOK'
    BY <2>1, <2>3, <2>4 DEF DiagInv, DiagnosticsTypeOK
  <2> QED BY <2>1, <2>2, <2>5 DEF DiagInv, TwoOverran
<1>2. CASE Shutdown
  <2>1. /\ table' = <<>> /\ timing' = [t \in Timer |-> <<>>] /\ diag' = FALSE
        /\ UNCHANGED <<quiet, intact, stage, owner, clock>>
        /\ \A t \in Timer : stage[t] = "idle"
    BY <1>2 DEF Shutdown
  <2>2. DiagnosticsTypeOK'
    <3>1. <<>> \in Seq(Record) /\ <<>> \in Seq(1..MaxClock)
      OBVIOUS
    <3> QED BY Zenon, <2>1, <3>1 DEF DiagInv, DiagnosticsTypeOK
  <2>3. RoomHeld' /\ StartersFit' /\ TimingsMatch'
    <3>1. RoomHeld'
      BY <2>1 DEF RoomHeld, DiagConstants
    <3>2. /\ 0 + Cardinality(Starting(stage)) <= MaxTiming + Cardinality(Timer) - 1
          /\ \A id : /\ Cardinality({i \in DOMAIN <<>> : <<>>[i].id = id}) = 0
                     /\ Cardinality(Held([t \in Timer |-> <<>>], id)) = 0
      BY <2>1, NothingTimed
    <3>3. Len(table') = 0
      BY <2>1
    <3>4. StartersFit'
      BY <2>1, <3>2, <3>3 DEF StartersFit, Starting
    <3>5. TimingsMatch'
      <4> SUFFICES ASSUME NEW id \in 1..MaxClock
                   PROVE  Cardinality({i \in DOMAIN table' : table'[i].id = id}) =
                            Cardinality(Held(timing', id))
        BY DEF TimingsMatch, Held
      <4> QED BY Zenon, <2>1, <3>2
    <3> QED BY <3>1, <3>4, <3>5
  <2> QED BY <2>1, <2>2, <2>3 DEF DiagInv, TwoOverran
<1>3. ASSUME NEW t \in Timer,
             CallEnd(t) \/ CallLog(t) \/ EndSlowTiming(t) \/ Log(t)
      PROVE  DiagInv'
  <2>1. /\ UNCHANGED <<diag, quiet, table, intact, timing, clock>>
        /\ owner' \in Timer \cup {Nobody}
    BY <1>3 DEF CallEnd, CallLog, EndSlowTiming, Log, DiagInv, DiagnosticsTypeOK
  <2>2. PICK from \in DiagStage \ {"start"}, to \in DiagStage \ {"start"} :
          Moves(t, from, to)
    BY <1>3 DEF CallEnd, CallLog, EndSlowTiming, Log, DiagStage
  <2>3. stage' = [stage EXCEPT ![t] = to]
    BY <2>2 DEF Moves
  <2>4. DiagnosticsTypeOK'
    BY <2>1, <2>2, <2>3 DEF DiagInv, DiagnosticsTypeOK
  <2>5. RoomHeld'
    BY <2>1, <2>2, <2>3 DEF DiagInv, DiagnosticsTypeOK, RoomHeld
  <2>6. StartersFit'
    <3>1. Starting(stage') = Starting(stage)
      BY <2>2, <2>3 DEF Moves, Starting, DiagInv, DiagnosticsTypeOK
    <3> QED BY <2>1, <3>1 DEF DiagInv, StartersFit, Starting
  <2>7. TimingsMatch'
    BY <2>1 DEF DiagInv, TimingsMatch
  <2> QED BY <2>1, <2>4, <2>5, <2>6, <2>7 DEF DiagInv, TwoOverran
<1> QED BY <1>1, <1>2, <1>3

LEMMA InvariantDiagInv == ASSUME DiagConstants PROVE DiagnosticsSpec => []DiagInv
<1>1. DiagnosticsInit => DiagInv
  <2> SUFFICES ASSUME DiagnosticsInit PROVE DiagInv
    OBVIOUS
  <2>1. DiagnosticsTypeOK
    <3>1. <<>> \in Seq(Record) /\ <<>> \in Seq(1..MaxClock)
      OBVIOUS
    <3>2. 1 \in 1..MaxClock
      BY DEF DiagConstants
    <3> QED BY Zenon, <3>1, <3>2 DEF DiagnosticsInit, DiagnosticsTypeOK, DiagStage
  <2>2. RoomHeld /\ StartersFit /\ TimingsMatch
    <3>0. /\ table = <<>> /\ timing = [t \in Timer |-> <<>>]
          /\ \A t \in Timer : stage[t] = "idle"
      BY DEF DiagnosticsInit
    <3>1. RoomHeld
      BY <3>0 DEF RoomHeld, DiagConstants
    <3>2. /\ 0 + Cardinality(Starting(stage)) <= MaxTiming + Cardinality(Timer) - 1
          /\ \A id : /\ Cardinality({i \in DOMAIN <<>> : <<>>[i].id = id}) = 0
                     /\ Cardinality(Held([t \in Timer |-> <<>>], id)) = 0
      BY <3>0, NothingTimed
    <3>3. Len(table) = 0
      BY <3>0
    <3>4. StartersFit
      BY <3>0, <3>2, <3>3 DEF StartersFit, Starting
    <3>5. TimingsMatch
      <4> SUFFICES ASSUME NEW id \in 1..MaxClock
                   PROVE  Cardinality({i \in DOMAIN table : table[i].id = id}) =
                            Cardinality(Held(timing, id))
        BY DEF TimingsMatch, Held
      <4> QED BY Zenon, <3>0, <3>2
    <3> QED BY <3>1, <3>4, <3>5
  <2>3. TwoOverran
    BY DEF DiagnosticsInit, TwoOverran
  <2> QED BY <2>1, <2>2, <2>3 DEF DiagInv
<1>2. DiagInv /\ [DiagnosticsNext]_diagVars => DiagInv'
  BY StartKeepsDiagInv, EndKeepsDiagInv, RestKeepsDiagInv DEF DiagnosticsNext, Locked
<1> QED BY <1>1, <1>2, PTL DEF DiagnosticsSpec

\* While nothing was written beyond the table's arrays, however threads share the
\* clock's ids, and in whatever order they end: every operation being timed finds an
\* entry, and no entry outlives its operation.
THEOREM TimingsAreFound ==
  ASSUME DiagConstants
  PROVE  DiagnosticsSpec => []EveryTimingFound
<1>1. DiagInv => EveryTimingFound
  BY DEF DiagInv, EveryTimingFound
<1> QED BY <1>1, InvariantDiagInv, PTL

\* Although the test is made without the mutex, one thread alone never writes beyond
\* the table's arrays; of several, not all have passed it without an entry left.
THEOREM OneThreadNeverOverruns ==
  ASSUME DiagConstants
  PROVE  DiagnosticsSpec => /\ []OverrunNeedsTwo
                            /\ [](Cardinality(Timer) = 1 => intact)
<1>1. DiagInv => OverrunNeedsTwo
  BY DEF DiagInv, TwoOverran, OverrunNeedsTwo
<1>2. DiagInv => (Cardinality(Timer) = 1 => intact)
  BY DEF DiagInv, TwoOverran
<1> QED BY <1>1, <1>2, InvariantDiagInv, PTL

\* Every variable of the diagnostics keeps its type.
LEMMA DiagnosticsTypes ==
  ASSUME DiagConstants
  PROVE  DiagnosticsSpec => []DiagnosticsTypeOK
<1>1. DiagInv => DiagnosticsTypeOK
  BY DEF DiagInv
<1> QED BY <1>1, InvariantDiagInv, PTL

-----------------------------------------------------------------------------
(* The composition that the run checks *)

\* Whichever part moves, a step of the composition is a step or a stutter of each.
LEMMA StepsOfParts ==
  ASSUME [Next]_vars
  PROVE  /\ [SessionNext]_sessionVars /\ [StreamNext]_streamVars
         /\ [DiagnosticsNext]_diagVars /\ [QualityNext]_qualityVars
         /\ [HandshakeNext]_handshakeVars /\ [ChunkNext]_chunkVars
         /\ [AmfNext]_amfVars
<1>1. CASE UNCHANGED vars
  BY Zenon, <1>1 DEF vars
<1>2. CASE Next
  BY Zenon, <1>2 DEF Next, Still
<1> QED BY <1>1, <1>2

\* The composition behaves as the specification of every part allows, and the session
\* is scheduled as its own specification says where it is the part that moves.
THEOREM ClientImplementsParts ==
  FairSpec =>
    /\ part = "session" => SessionSpec
    /\ SessionInit /\ [][SessionNext]_sessionVars
    /\ StreamSpec /\ DiagnosticsSpec /\ QualitySpec /\ HandshakeSpec
    /\ ChunkSpec /\ AmfSpec
<1>1. Init => /\ SessionInit /\ StreamInit /\ DiagnosticsInit /\ QualityInit
              /\ HandshakeInit /\ ChunkInit /\ AmfInit
  BY Zenon DEF Init
<1> QED
  BY <1>1, StepsOfParts, PTL
  DEF FairSpec, SessionSpec, StreamSpec, DiagnosticsSpec, QualitySpec, HandshakeSpec,
      ChunkSpec, AmfSpec

\* Every variable of every part keeps its type, for all values of the constants.
THEOREM ClientTypes ==
  ASSUME ClientConstants
  PROVE  FairSpec => []TypeOK
<1>0. /\ StreamConstants /\ DiagConstants /\ QualityConstants
      /\ HandshakeConstants /\ ChunkConstants /\ AmfConstants
  BY DEF ClientConstants
<1>1. SessionInit /\ [][SessionNext]_sessionVars => []SessionTypeOK
  <2>1. SessionInv => SessionTypeOK
    BY DEF SessionInv
  <2> QED BY <2>1, InvariantSessionInv, PTL
<1>2. StreamSpec => []StreamTypeOK
  BY <1>0, StreamTypes
<1>3. DiagnosticsSpec => []DiagnosticsTypeOK
  BY <1>0, DiagnosticsTypes
<1>4. QualitySpec => []QualityTypeOK
  BY <1>0, QualityTypes
<1>5. HandshakeSpec => []HandshakeTypeOK
  BY <1>0, HandshakeTypes
<1>6. ChunkSpec => []ChunkTypeOK
  BY <1>0, ChunkTypes
<1>7. AmfSpec => []AmfTypeOK
  BY <1>0, AmfTypes
<1>8. (/\ SessionTypeOK /\ StreamTypeOK /\ DiagnosticsTypeOK /\ QualityTypeOK
       /\ HandshakeTypeOK /\ ChunkTypeOK /\ AmfTypeOK) => TypeOK
  BY Zenon DEF TypeOK
<1> QED
  BY <1>1, <1>2, <1>3, <1>4, <1>5, <1>6, <1>7, <1>8, ClientImplementsParts, PTL

\* What the parts promise when each runs alone holds in the composition, for all
\* values of the constants: a clean disconnect (rtmp_session.c), media announced and
\* a state that agrees with the connection's (rtmp_stream.c), timings found in a table
\* that no thread alone overruns (rtmp_diagnostics.c), targets in range
\* (rtmp_quality.c), a genuine handshake (rtmp_handshake.c), headers that suffice
\* (rtmp_chunk.c) and a decoder that stays in its buffer and decodes what was sent
\* (rtmp_amf.c).
THEOREM ClientIsSafe ==
  ASSUME ClientConstants
  PROVE  FairSpec =>
           [](/\ ClosedIsClean /\ LinkAgrees /\ MediaIsAnnounced
              /\ EveryTimingFound /\ OverrunNeedsTwo /\ TargetsInRange /\ DoneIsGenuine
              /\ HeaderSuffices /\ StaysInBuffer /\ DecodesWhatWasSent)
<1>0. /\ StreamConstants /\ DiagConstants /\ QualityConstants
      /\ HandshakeConstants /\ ChunkConstants /\ AmfConstants
  BY DEF ClientConstants
<1>1. SessionInit /\ [][SessionNext]_sessionVars => []ClosedIsClean
  <2>1. SessionInv => ClosedIsClean
    BY DEF SessionInv, HandleNamesWorker, Progress, Clean, ClosedIsClean
  <2> QED BY <2>1, InvariantSessionInv, PTL
<1>2. StreamSpec => []LinkAgrees /\ []MediaIsAnnounced
  BY <1>0, StreamAndContextAgree, FramesAreAnnounced
<1>3. DiagnosticsSpec => []EveryTimingFound /\ []OverrunNeedsTwo
  BY <1>0, TimingsAreFound, OneThreadNeverOverruns
<1>4. QualitySpec => []TargetsInRange
  BY <1>0, TargetsStayInRange
<1>5. HandshakeSpec => []DoneIsGenuine
  BY <1>0, DoneMeansGenuine
<1>6. ChunkSpec => []HeaderSuffices
  BY <1>0, ReaderCompletesHeaders
<1>7. AmfSpec => []StaysInBuffer /\ []DecodesWhatWasSent
  BY <1>0, DecoderStaysInBuffer, DecodesTheObject
<1> QED
  BY <1>1, <1>2, <1>3, <1>4, <1>5, <1>6, <1>7, ClientImplementsParts, PTL

\* rtmp_stream.c acknowledges before a window is full, also in the composition.
THEOREM ClientAcknowledges ==
  ASSUME ClientConstants
  PROVE  FairSpec => AckKept
<1>1. StreamSpec => AckKept
  BY AcknowledgedInTime DEF ClientConstants
<1>2. FairSpec => StreamSpec
  BY ClientImplementsParts, PTL
<1> QED BY <1>1, <1>2
=============================================================================
