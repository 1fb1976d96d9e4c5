----------------------------- MODULE RtmpCamera -----------------------------
(***************************************************************************)
(* The camera of src/rtmp_camera_compat.m, as src/RTMPCameraTweak.xm uses  *)
(* it: the main thread starts and stops it and runs the delegate's         *)
(* notifications, a serial queue (Video) sets the capture session up, and  *)
(* another (Process) turns received frames into pixel buffers.  They share *)
(* their fields without a lock; only lastFrame has one, frameLock, which   *)
(* cleanup does not take.                                                  *)
(*                                                                         *)
(* Reading or assigning a field is one step.  restart is a stop followed   *)
(* by a start.  The frameQueue, which nothing reads, is left out.          *)
(***************************************************************************)
EXTENDS Integers

CONSTANTS Frame,       \* pixel buffers
          NoFrame,     \* the null pixel buffer
          MaxPending,  \* bound of the model: set-ups and notifications waiting
          MaxJobs      \* bound of the model: frames waiting to be processed

ASSUME FrameAssumption == NoFrame \notin Frame
ASSUME BoundAssumption == MaxPending \in Nat /\ MaxJobs \in Nat

Main    == "main"
Video   == "video"
Process == "process"
Thread  == {Main, Video, Process}

VARIABLES
  state,     \* _state
  session,   \* _captureSession: "none", "idle", or "capturing"
  preview,   \* _isPreviewRunning
  pc,        \* where each thread is
  setups,    \* set-up blocks waiting on _videoQueue
  jobs,      \* frames waiting on _processingQueue
  notes,     \* notification blocks waiting on the main queue
  told,      \* the state the delegate was told last
  last,      \* _lastFrame
  made,      \* the pixel buffer Process has created and not stored yet
  refs,      \* reference count of each pixel buffer
  torn,      \* a stop began with a set-up waiting or under way
  raced      \* cleanup and Process released lastFrame at the same time

vars == <<state, session, preview, pc, setups, jobs, notes, told, last, made,
          refs, torn, raced>>
queueVars   == <<setups, jobs, notes>>
frameVars   == <<last, made, refs, raced>>
sessionVars == <<session, preview>>

State == {"Off", "Starting", "Running", "Error", "Stopping"}

\* The stages of cleanup, in order; Main and Video run it.
CleanupStage == {"session", "frame", "release", "forget", "preview"}
MainStage    == {"idle", "starting", "stopped"} \cup CleanupStage
VideoStage   == {"idle", "device", "input", "output", "configure", "start",
                 "ready"} \cup CleanupStage
ProcessStage == {"idle", "lock", "store"}

Init ==
  /\ state = "Off"
  /\ session = "none"
  /\ preview = FALSE
  /\ pc = [t \in Thread |-> "idle"]
  /\ setups = 0
  /\ jobs = 0
  /\ notes = 0
  /\ told = "Off"
  /\ last = NoFrame
  /\ made = NoFrame
  /\ refs = [f \in Frame |-> 0]
  /\ torn = FALSE
  /\ raced = FALSE

Goto(t, stage) == pc' = [pc EXCEPT ![t] = stage]
Step(t, from, to) == pc[t] = from /\ Goto(t, to)

-----------------------------------------------------------------------------
(* The main thread *)

\* startWithSettings does nothing in any other state.
Start ==
  /\ state = "Off"
  /\ setups + notes < MaxPending
  /\ Step(Main, "idle", "starting")
  /\ state' = "Starting"
  /\ UNCHANGED <<sessionVars, queueVars, told, frameVars, torn>>

\* The delegate is told whatever the state is by now, and the set-up is queued.
QueueSetup ==
  /\ Step(Main, "starting", "idle")
  /\ told' = state
  /\ setups' = setups + 1
  /\ UNCHANGED <<state, sessionVars, jobs, notes, frameVars, torn>>

SetupUnderWay == setups > 0 \/ pc[Video] # "idle"

Stop ==
  /\ state # "Off"
  /\ Step(Main, "idle", "session")
  /\ state' = "Stopping"
  /\ torn' = SetupUnderWay
  /\ UNCHANGED <<sessionVars, queueVars, told, frameVars>>

StopTells ==
  /\ Step(Main, "stopped", "idle")
  /\ told' = state
  /\ UNCHANGED <<state, sessionVars, queueVars, frameVars, torn>>

\* A notification block reads the state when it runs, not when it was queued.
Notify ==
  /\ pc[Main] = "idle"
  /\ notes > 0
  /\ notes' = notes - 1
  /\ told' = state
  /\ UNCHANGED <<state, sessionVars, pc, setups, jobs, frameVars, torn>>

\* A message to the null session does nothing.
Capturing(s) == IF s = "none" THEN "none" ELSE "capturing"
Halted(s)    == IF s = "none" THEN "none" ELSE "idle"

\* A bug form: the preview starts in any state.
MutStartPreview ==
  /\ pc[Main] = "idle"
  /\ ~preview
  /\ preview' = TRUE
  /\ session' = Capturing(session)
  /\ UNCHANGED <<state, pc, queueVars, told, frameVars, torn>>

StartPreview ==
  /\ pc[Main] = "idle"
  /\ ~preview /\ state = "Running"
  /\ preview' = TRUE
  /\ session' = Capturing(session)
  /\ UNCHANGED <<state, pc, queueVars, told, frameVars, torn>>

\* stopPreview, and applicationWillResignActive in state Running.  Becoming
\* active again changes nothing: it starts only a preview that runs.
StopPreview ==
  /\ pc[Main] = "idle"
  /\ preview
  /\ preview' = FALSE
  /\ session' = Halted(session)
  /\ UNCHANGED <<state, pc, queueVars, told, frameVars, torn>>

-----------------------------------------------------------------------------
(* The set-up block, on the video queue *)

SetupBegin ==
  /\ setups > 0
  /\ Step(Video, "idle", "device")
  /\ setups' = setups - 1
  /\ session' = "idle"
  /\ UNCHANGED <<state, preview, jobs, notes, told, frameVars, torn>>

setupRest == <<state, preview, queueVars, told, frameVars, torn>>

FindDevice == Step(Video, "device", "input") /\ UNCHANGED <<setupRest, session>>

\* A session that was cleaned up meanwhile takes neither input nor output.
AddInput ==
  /\ session # "none"
  /\ Step(Video, "input", "output")
  /\ UNCHANGED <<setupRest, session>>

AddOutput ==
  /\ session # "none"
  /\ Step(Video, "output", "configure")
  /\ UNCHANGED <<setupRest, session>>

Configure == Step(Video, "configure", "start") /\ UNCHANGED <<setupRest, session>>

\* handleSetupError begins with cleanup.
SetupFails ==
  /\ pc[Video] \in {"device", "input", "output", "configure"}
  /\ Goto(Video, "session")
  /\ UNCHANGED <<setupRest, session>>

StartRunning ==
  /\ Step(Video, "start", "ready")
  /\ session' = Capturing(session)
  /\ UNCHANGED setupRest

\* A bug form: the state is left as it was.
MutSetupDone ==
  /\ Step(Video, "ready", "idle")
  /\ notes' = notes + 1
  /\ UNCHANGED <<state, sessionVars, setups, jobs, told, frameVars, torn>>

SetupDone ==
  /\ Step(Video, "ready", "idle")
  /\ state' = "Running"
  /\ notes' = notes + 1
  /\ UNCHANGED <<sessionVars, setups, jobs, told, frameVars, torn>>

-----------------------------------------------------------------------------
(* cleanup, run by Main for stop and by Video for handleSetupError *)

Cleaner == {Main, Video}

\* A thread other than t is releasing lastFrame.
Releasing(t) ==
  \/ \E c \in Cleaner \ {t} : pc[c] \in {"release", "forget"}
  \/ t # Process /\ pc[Process] = "store"

\* lastFrame loses a reference; that of a freed buffer stays zero, and is an
\* over-release that only a race can cause.
Released(t) ==
  /\ refs' = IF last = NoFrame THEN refs
             ELSE [refs EXCEPT ![last] = IF refs[last] = 0 THEN 0 ELSE @ - 1]
  /\ raced' = (raced \/ Releasing(t))

CleanSession(t) ==
  /\ Step(t, "session", "frame")
  /\ session' = "none"
  /\ UNCHANGED <<state, preview, queueVars, told, frameVars, torn>>

\* Is there a frame to release?
CleanFrame(t) ==
  /\ pc[t] = "frame"
  /\ Goto(t, IF last = NoFrame THEN "preview" ELSE "release")
  /\ UNCHANGED <<state, sessionVars, queueVars, told, frameVars, torn>>

CleanRelease(t) ==
  /\ Step(t, "release", "forget")
  /\ Released(t)
  /\ UNCHANGED <<state, sessionVars, queueVars, told, last, made, torn>>

\* A bug form: the released frame is not forgotten.
MutCleanForget(t) ==
  /\ Step(t, "forget", "preview")
  /\ raced' = (raced \/ Releasing(t))
  /\ UNCHANGED <<state, sessionVars, queueVars, told, last, made, refs, torn>>

CleanForget(t) ==
  /\ Step(t, "forget", "preview")
  /\ last' = NoFrame
  /\ raced' = (raced \/ Releasing(t))
  /\ UNCHANGED <<state, sessionVars, queueVars, told, made, refs, torn>>

\* A bug form: handleSetupError tells no one.
MutCleanPreview(t) ==
  /\ Step(t, "preview", IF t = Main THEN "stopped" ELSE "idle")
  /\ preview' = FALSE
  /\ session' = IF preview THEN Halted(session) ELSE session
  /\ state' = IF t = Main THEN "Off" ELSE "Error"
  /\ UNCHANGED <<queueVars, told, frameVars, torn>>

\* stopPreview, then what follows cleanup in stop and in handleSetupError.
CleanPreview(t) ==
  /\ Step(t, "preview", IF t = Main THEN "stopped" ELSE "idle")
  /\ preview' = FALSE
  /\ session' = IF preview THEN Halted(session) ELSE session
  /\ state' = IF t = Main THEN "Off" ELSE "Error"
  /\ notes' = IF t = Main THEN notes ELSE notes + 1
  /\ UNCHANGED <<setups, jobs, told, frameVars, torn>>

-----------------------------------------------------------------------------
(* Frames *)

\* processRTMPFrame looks at the state before the frame is queued only.
Receive ==
  /\ state = "Running"
  /\ jobs < MaxJobs
  /\ jobs' = jobs + 1
  /\ UNCHANGED <<state, sessionVars, pc, setups, notes, told, frameVars, torn>>

\* The frame fits no pixel buffer.
ProcessDrops ==
  /\ pc[Process] = "idle"
  /\ jobs > 0
  /\ jobs' = jobs - 1
  /\ UNCHANGED <<state, sessionVars, pc, setups, notes, told, frameVars, torn>>

\* A new pixel buffer; its thread then waits for frameLock, which it alone takes.
ProcessCreates(f) ==
  /\ jobs > 0
  /\ Step(Process, "idle", "lock")
  /\ refs[f] = 0 /\ f # last
  /\ jobs' = jobs - 1
  /\ made' = f
  /\ refs' = [refs EXCEPT ![f] = 1]
  /\ UNCHANGED <<state, sessionVars, setups, notes, told, last, raced, torn>>

ProcessReleases ==
  /\ Step(Process, "lock", "store")
  /\ Released(Process)
  /\ UNCHANGED <<state, sessionVars, queueVars, told, last, made, torn>>

ProcessStores ==
  /\ Step(Process, "store", "idle")
  /\ last' = made
  /\ made' = NoFrame
  /\ raced' = (raced \/ Releasing(Process))
  /\ UNCHANGED <<state, sessionVars, queueVars, told, refs, torn>>

-----------------------------------------------------------------------------
CleanupStep(t) ==
  \/ CleanSession(t) \/ CleanFrame(t) \/ CleanRelease(t) \/ CleanForget(t)
  \/ CleanPreview(t)

MainStep == QueueSetup \/ StopTells \/ CleanupStep(Main)

\* What the user and the system make the main thread do.
MainCall == Start \/ Stop \/ StartPreview \/ StopPreview

VideoStep ==
  \/ SetupBegin \/ FindDevice \/ AddInput \/ AddOutput \/ Configure
  \/ SetupFails \/ StartRunning \/ SetupDone \/ CleanupStep(Video)

ProcessStep ==
  \/ ProcessDrops \/ ProcessReleases \/ ProcessStores
  \/ \E f \in Frame : ProcessCreates(f)

Next == MainStep \/ MainCall \/ Notify \/ VideoStep \/ Receive \/ ProcessStep

Spec == Init /\ [][Next]_vars

\* A block that was queued runs and ends: both dispatch queues are serial, and
\* the main queue takes its blocks in order between the calls.
Fairness == WF_vars(MainStep) /\ SF_vars(Notify) /\ WF_vars(VideoStep)
            /\ WF_vars(ProcessStep)

FairSpec == Spec /\ Fairness

-----------------------------------------------------------------------------
(* Properties *)

TypeOK ==
  /\ state \in State
  /\ session \in {"none", "idle", "capturing"}
  /\ preview \in BOOLEAN
  /\ pc \in [Thread -> MainStage \cup VideoStage \cup ProcessStage]
  /\ setups \in Nat /\ jobs \in Nat /\ notes \in Nat
  /\ told \in State
  /\ last \in Frame \cup {NoFrame}
  /\ made \in Frame \cup {NoFrame}
  /\ refs \in [Frame -> Nat]
  /\ torn \in BOOLEAN
  /\ raced \in BOOLEAN

\* The state tells what there is: a running camera has a session, and one that
\* is off or failed has neither session nor preview -- unless the last stop came
\* while a set-up was queued or under way, which it cannot call back.
SessionMatchesState ==
  ~torn =>
    /\ state = "Running" => session # "none"
    /\ state \in {"Off", "Error"} => session = "none" /\ ~preview

\* A thread has released the frame lastFrame still points to.
Freed == pc[Process] = "store" \/ \E c \in Cleaner : pc[c] = "forget"

\* Every pixel buffer has the one reference of the pointer that holds it, so
\* none is leaked, released twice or handed out after it was freed -- unless a
\* cleanup, which takes no frameLock, met Process or another cleanup in the act.
FrameOwned ==
  ~raced => \A f \in Frame :
    refs[f] = IF f = made \/ (f = last /\ ~Freed) THEN 1 ELSE 0

\* The inductive invariant behind these.
Stages ==
  /\ pc[Main] \in MainStage
  /\ pc[Video] \in VideoStage
  /\ pc[Process] \in ProcessStage

Quiet == setups = 0 /\ pc[Video] = "idle"

\* While no stop overtook a set-up, a start is the only one on its way, and the
\* state says what Main and Video are doing with the session.
SetupInv ==
  ~torn =>
    /\ state = "Off" => /\ Quiet /\ session = "none" /\ ~preview
                        /\ pc[Main] \in {"idle", "stopped"}
    /\ state = "Starting" => ~preview /\ pc[Main] \in {"idle", "starting"}
    /\ state = "Running" => Quiet /\ session # "none" /\ pc[Main] = "idle"
    /\ state = "Error" => /\ Quiet /\ session = "none" /\ ~preview
                          /\ pc[Main] = "idle"
    /\ state = "Stopping" => Quiet /\ pc[Main] \in CleanupStage
    /\ state = "Stopping" /\ pc[Main] # "session" => session = "none"

\* The set-up of a start: queued by it, then under way on the video queue.
StartInv ==
  ~torn /\ state = "Starting" =>
    /\ pc[Main] = "starting" => Quiet /\ session = "none"
    /\ pc[Main] = "idle" => setups = IF pc[Video] = "idle" THEN 1 ELSE 0
    /\ pc[Video] \in VideoStage \ ({"idle"} \cup CleanupStage)
         => session # "none"
    /\ pc[Video] \in CleanupStage \ {"session"} => session = "none"

MadeInv ==
  /\ made # NoFrame <=> pc[Process] # "idle"
  /\ made = last => made = NoFrame

CameraInv == /\ TypeOK /\ Stages /\ SetupInv /\ StartInv /\ MadeInv
             /\ FrameOwned

\* A start ends in Running or Error, or is stopped.
StartingEnds == state = "Starting" ~> state # "Starting"

\* The delegate comes to know the state, although a notification that was queued
\* for one state may run in another.
DelegateKnows == told # state ~> told = state
=============================================================================
