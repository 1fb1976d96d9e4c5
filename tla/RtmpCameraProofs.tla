-------------------------- MODULE RtmpCameraProofs --------------------------
(* Theorems about RtmpCamera, for every set of pixel buffers and every bound *)
(* on the queues.                                                            *)
EXTENDS RtmpCamera, TLAPS

\* The initial state satisfies the inductive invariant.
LEMMA InitCameraInv == Init => CameraInv
<1> SUFFICES ASSUME Init PROVE CameraInv
  OBVIOUS
<1> USE FrameAssumption DEF Init
<1>1. TypeOK
  BY DEF TypeOK, State, MainStage, VideoStage, ProcessStage
<1>2. Stages
  BY DEF Stages, MainStage, VideoStage, ProcessStage, Thread
<1>3. SetupInv /\ StartInv /\ MadeInv
  BY DEF SetupInv, StartInv, MadeInv, Quiet, Thread
<1>4. FrameOwned
  BY DEF FrameOwned
<1> QED BY <1>1, <1>2, <1>3, <1>4 DEF CameraInv

-----------------------------------------------------------------------------
(* Each part of the invariant is kept by every step. *)

\* The names that every part of the step needs.
LEMMA StepKeepsTypes == CameraInv /\ [Next]_vars => TypeOK' /\ Stages'
<1> SUFFICES ASSUME CameraInv, [Next]_vars PROVE TypeOK' /\ Stages'
  OBVIOUS
<1> USE DEF CameraInv, TypeOK, Stages, State, Thread, Main, Video, Process,
            MainStage, VideoStage, ProcessStage, CleanupStage,
            queueVars, frameVars, sessionVars, setupRest, Goto, Step
<1>1. CASE QueueSetup
  BY <1>1 DEF QueueSetup
<1>2. CASE StopTells
  BY <1>2 DEF StopTells
<1>3. CASE Start
  BY <1>3 DEF Start
<1>4. CASE Stop
  BY <1>4 DEF Stop, SetupUnderWay
<1>5. CASE StartPreview \/ StopPreview
  BY <1>5 DEF StartPreview, StopPreview, Capturing, Halted
<1>6. CASE Notify
  BY <1>6 DEF Notify
<1>7. CASE SetupBegin
  BY <1>7 DEF SetupBegin
<1>8. CASE FindDevice \/ AddInput \/ AddOutput \/ Configure \/ SetupFails
  BY <1>8 DEF FindDevice, AddInput, AddOutput, Configure, SetupFails
<1>9. CASE StartRunning \/ SetupDone
  BY <1>9 DEF StartRunning, SetupDone, Capturing
<1>10. ASSUME NEW t \in Cleaner, CleanupStep(t) PROVE TypeOK' /\ Stages'
  <2> USE DEF Cleaner
  <2>1. CASE CleanSession(t) \/ CleanFrame(t)
    BY <1>10, <2>1 DEF CleanSession, CleanFrame
  <2>2. CASE CleanRelease(t)
    BY <1>10, <2>2 DEF CleanRelease, Released, Releasing
  <2>3. CASE CleanForget(t)
    BY <1>10, <2>3 DEF CleanForget, Releasing
  <2>4. CASE CleanPreview(t)
    <3>1. CASE t = Main
      BY <2>4, <3>1 DEF CleanPreview, Halted
    <3>2. CASE t = Video
      <4>1. Main # Video /\ t # Main
        BY <3>2
      <4>2. /\ state' = "Error" /\ notes' = notes + 1
            /\ pc' = [pc EXCEPT ![Video] = "idle"]
        BY <2>4, <3>2, <4>1 DEF CleanPreview
      <4>3. /\ preview' = FALSE /\ session' \in {"none", "idle", "capturing"}
            /\ UNCHANGED <<setups, jobs, told, last, made, refs, raced, torn>>
        BY <2>4 DEF CleanPreview, Halted
      <4>4. Stages' /\ pc' \in [Thread -> MainStage \cup VideoStage
                                                     \cup ProcessStage]
        BY <4>2
      <4>5. notes' \in Nat
        BY <4>2
      <4>6. TypeOK'
        BY <4>2, <4>3, <4>4, <4>5
      <4> QED BY <4>4, <4>6
    <3> QED BY <1>10, <3>1, <3>2
  <2> QED BY <1>10, <2>1, <2>2, <2>3, <2>4 DEF CleanupStep
<1>11. CASE Receive \/ ProcessDrops
  BY <1>11 DEF Receive, ProcessDrops
<1>12. ASSUME NEW f \in Frame, ProcessCreates(f) PROVE TypeOK' /\ Stages'
  BY <1>12 DEF ProcessCreates
<1>13. CASE ProcessReleases
  BY <1>13 DEF ProcessReleases, Released, Releasing
<1>14. CASE ProcessStores
  BY <1>14 DEF ProcessStores, Releasing
<1>15. CASE UNCHANGED vars
  BY <1>15 DEF vars
<1> QED
  BY <1>1, <1>2, <1>3, <1>4, <1>5, <1>6, <1>7, <1>8, <1>9, <1>10, <1>11,
     <1>12, <1>13, <1>14, <1>15
  DEF Next, MainStep, MainCall, VideoStep, ProcessStep, Cleaner

\* What Main and Video do with the session.
LEMMA StepKeepsSetup == CameraInv /\ [Next]_vars => SetupInv' /\ StartInv'
<1> SUFFICES ASSUME CameraInv, [Next]_vars PROVE SetupInv' /\ StartInv'
  OBVIOUS
<1>0. TypeOK /\ Stages /\ SetupInv /\ StartInv
  BY DEF CameraInv
<1> USE <1>0 DEF TypeOK, Stages, State, Thread, Main, Video, Process,
            MainStage, VideoStage, ProcessStage, CleanupStage,
            SetupInv, StartInv, Quiet,
            queueVars, frameVars, sessionVars, setupRest, Goto, Step
<1>1. CASE QueueSetup
  BY <1>1 DEF QueueSetup
<1>2. CASE StopTells
  BY <1>2 DEF StopTells
<1>3. CASE Start
  BY <1>3 DEF Start
<1>4. CASE Stop
  <2>1. SetupUnderWay => torn'
    BY <1>4 DEF Stop
  <2>2. ~torn' => Quiet
    BY <2>1 DEF SetupUnderWay
  <2>3. /\ state' = "Stopping" /\ pc' = [pc EXCEPT ![Main] = "session"]
        /\ setups' = setups
    BY <1>4 DEF Stop
  <2> QED BY <2>2, <2>3
<1>5. CASE StartPreview \/ StopPreview
  BY <1>5 DEF StartPreview, StopPreview, Capturing, Halted
<1>6. CASE Notify
  BY <1>6 DEF Notify
<1>7. CASE SetupBegin
  BY <1>7 DEF SetupBegin
<1>8. CASE FindDevice \/ AddInput \/ AddOutput \/ Configure \/ SetupFails
  BY <1>8 DEF FindDevice, AddInput, AddOutput, Configure, SetupFails
<1>9. CASE StartRunning \/ SetupDone
  BY <1>9 DEF StartRunning, SetupDone, Capturing
<1>10. ASSUME NEW t \in Cleaner, CleanupStep(t) PROVE SetupInv' /\ StartInv'
  <2>1. CASE t = Main
    <3> USE <1>10, <2>1
    <3>1. CASE CleanPreview(Main)
      BY <3>1 DEF CleanPreview, Halted
    <3>2. CASE CleanSession(Main) \/ CleanFrame(Main)
      BY <3>2 DEF CleanSession, CleanFrame
    <3>3. CASE CleanRelease(Main) \/ CleanForget(Main)
      BY <3>3 DEF CleanRelease, CleanForget
    <3> QED BY <3>1, <3>2, <3>3 DEF CleanupStep
  <2>2. CASE t = Video
    <3> USE <1>10, <2>2
    <3>1. CASE CleanPreview(Video)
      BY <3>1 DEF CleanPreview, Halted
    <3>2. CASE CleanSession(Video) \/ CleanFrame(Video)
      BY <3>2 DEF CleanSession, CleanFrame
    <3>3. CASE CleanRelease(Video) \/ CleanForget(Video)
      BY <3>3 DEF CleanRelease, CleanForget
    <3> QED BY <3>1, <3>2, <3>3 DEF CleanupStep
  <2> QED BY <1>10, <2>1, <2>2 DEF Cleaner
<1>11. CASE Receive \/ ProcessStep
  BY <1>11 DEF Receive, ProcessStep, ProcessDrops, ProcessCreates,
               ProcessReleases, ProcessStores
<1>12. CASE UNCHANGED vars
  BY <1>12 DEF vars
<1> QED
  BY <1>1, <1>2, <1>3, <1>4, <1>5, <1>6, <1>7, <1>8, <1>9, <1>10, <1>11, <1>12
  DEF Next, MainStep, MainCall, VideoStep, Cleaner

\* Who owns the pixel buffers.  A release or a store that meets another one sets
\* raced, so every other step finds lastFrame as the invariant describes it.
LEMMA StepKeepsFrames == CameraInv /\ [Next]_vars => MadeInv' /\ FrameOwned'
<1> SUFFICES ASSUME CameraInv, [Next]_vars PROVE MadeInv' /\ FrameOwned'
  OBVIOUS
<1>0. TypeOK /\ Stages /\ MadeInv /\ FrameOwned
  BY DEF CameraInv
<1> USE <1>0, FrameAssumption
    DEF TypeOK, Stages, Thread, Main, Video, Process, Cleaner,
        MainStage, VideoStage, ProcessStage, CleanupStage,
        MadeInv, FrameOwned, Freed,
        queueVars, frameVars, sessionVars, setupRest, Goto, Step
<1>1. CASE QueueSetup \/ StopTells \/ Start \/ Stop \/ Notify
  BY <1>1 DEF QueueSetup, StopTells, Start, Stop, Notify
<1>2. CASE StartPreview \/ StopPreview
  BY <1>2 DEF StartPreview, StopPreview
<1>3. CASE SetupBegin \/ FindDevice \/ AddInput \/ AddOutput \/ Configure
  BY <1>3 DEF SetupBegin, FindDevice, AddInput, AddOutput, Configure
<1>4. CASE SetupFails \/ StartRunning \/ SetupDone
  BY <1>4 DEF SetupFails, StartRunning, SetupDone
<1>5. ASSUME NEW t \in Cleaner, CleanupStep(t) PROVE MadeInv' /\ FrameOwned'
  <2>1. CASE CleanSession(t)
    BY <1>5, <2>1 DEF CleanSession
  <2>2. CASE CleanFrame(t)
    BY <1>5, <2>2 DEF CleanFrame
  <2>3. CASE CleanRelease(t)
    BY <1>5, <2>3 DEF CleanRelease, Released, Releasing
  <2>4. CASE CleanForget(t)
    BY <1>5, <2>4 DEF CleanForget, Releasing
  <2>5. CASE CleanPreview(t)
    BY <1>5, <2>5 DEF CleanPreview
  <2> QED BY <1>5, <2>1, <2>2, <2>3, <2>4, <2>5 DEF CleanupStep
<1>6. CASE Receive \/ ProcessDrops
  BY <1>6 DEF Receive, ProcessDrops
<1>7. ASSUME NEW f \in Frame, ProcessCreates(f) PROVE MadeInv' /\ FrameOwned'
  BY <1>7 DEF ProcessCreates
<1>8. CASE ProcessReleases
  BY <1>8 DEF ProcessReleases, Released, Releasing
<1>9. CASE ProcessStores
  BY <1>9 DEF ProcessStores, Releasing
<1>10. CASE UNCHANGED vars
  BY <1>10 DEF vars
<1> QED
  BY <1>1, <1>2, <1>3, <1>4, <1>5, <1>6, <1>7, <1>8, <1>9, <1>10
  DEF Next, MainStep, MainCall, VideoStep, ProcessStep

-----------------------------------------------------------------------------
THEOREM CameraInvariant == Spec => []CameraInv
<1>1. CameraInv /\ [Next]_vars => CameraInv'
  BY StepKeepsTypes, StepKeepsSetup, StepKeepsFrames DEF CameraInv
<1> QED BY <1>1, InitCameraInv, PTL DEF Spec

\* Every variable of the camera keeps its type, with any number of blocks on the
\* queues.
THEOREM CameraTypes == Spec => []TypeOK
<1>1. CameraInv => TypeOK
  BY DEF CameraInv
<1> QED BY <1>1, CameraInvariant, PTL

\* The state tells what session and preview there are, unless a stop overtook a
\* set-up.
THEOREM StateTellsSession == Spec => []SessionMatchesState
<1>1. CameraInv => SessionMatchesState
  BY DEF CameraInv, SetupInv, SessionMatchesState
<1> QED BY <1>1, CameraInvariant, PTL

\* Every pixel buffer has the one reference of its pointer, unless a cleanup met
\* another release.
THEOREM FramesAreOwned == Spec => []FrameOwned
<1>1. CameraInv => FrameOwned
  BY DEF CameraInv
<1> QED BY <1>1, CameraInvariant, PTL
=============================================================================
