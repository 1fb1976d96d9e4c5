---------------------------- MODULE RtmpSession ----------------------------
(***************************************************************************)
(* The publishing session of src/rtmp_session.c: the thread that connects, *)
(* disconnects and destroys it, the worker that polls the connection with  *)
(* the session's mutex held, and an observer that asks for the state.      *)
(*                                                                         *)
(* No step of the code sets CONNECTED (stop_publish does, but only after   *)
(* PUBLISHING, which start_publish sets only after CONNECTED), so          *)
(* start_publish, stop_publish and the send functions return at their      *)
(* first test and are not modelled.                                        *)
(***************************************************************************)
VARIABLES
  session,  \* its fields: state, running (is_running), handle (worker_thread),
            \* conn (the connection's socket is open), freed
  at,       \* where each thread is
  mutex     \* holder of session->mutex

sessionVars == <<session, at, mutex>>

State  == {"INIT", "CONNECTING", "ERROR", "CLOSED"}
Thread == {"ctl", "worker", "observer"}
Stage  == {"idle", "connecting", "dial", "handshake", "command", "spawn",
           "fail", "stop", "join", "close", "closed",
           "none", "top", "lock", "recv", "relock", "exited"}

SessionInit ==
  /\ session = [state |-> "INIT", running |-> FALSE, handle |-> FALSE,
                conn |-> FALSE, freed |-> FALSE]
  /\ at = [ctl |-> "idle", worker |-> "none", observer |-> "idle"]
  /\ mutex = "nobody"

Goto(t, from, to) == at[t] = from /\ at' = [at EXCEPT ![t] = to]

\* session_set_state: one critical section, entered with the mutex free.
SetState(new) ==
  /\ mutex = "nobody"
  /\ session' = [session EXCEPT !.state = new]
  /\ UNCHANGED mutex

-----------------------------------------------------------------------------
(* rtmp_session_connect *)

CallConnect ==
  /\ Goto("ctl", "idle", "connecting")
  /\ session.state = "INIT" /\ ~session.freed
  /\ UNCHANGED <<session, mutex>>

SetConnecting == Goto("ctl", "connecting", "dial") /\ SetState("CONNECTING")

\* rtmp_connect (external here) may leave its socket open when it fails.
DialFails ==
  /\ Goto("ctl", "dial", "fail")
  /\ \E c \in BOOLEAN : session' = [session EXCEPT !.conn = c]
  /\ UNCHANGED mutex
Dial ==
  /\ Goto("ctl", "dial", "handshake")
  /\ session' = [session EXCEPT !.conn = TRUE]
  /\ UNCHANGED mutex

\* rtmp_handshake_client, then session_send_connect, then pthread_create.
StepFails ==
  /\ \E from \in {"handshake", "command"} : Goto("ctl", from, "fail")
  /\ UNCHANGED <<session, mutex>>
Handshake == Goto("ctl", "handshake", "command") /\ UNCHANGED <<session, mutex>>
SessionSendConnect ==
  /\ Goto("ctl", "command", "spawn")
  /\ session' = [session EXCEPT !.running = TRUE]
  /\ UNCHANGED mutex
SpawnFails == Goto("ctl", "spawn", "fail") /\ UNCHANGED <<session, mutex>>
Spawn ==
  /\ at["ctl"] = "spawn"
  /\ at' = [at EXCEPT !["ctl"] = "idle", !["worker"] = "top"]
  /\ session' = [session EXCEPT !.handle = TRUE]
  /\ UNCHANGED mutex

\* session_handle_error: the connection stays as it is.
HandleError == Goto("ctl", "fail", "idle") /\ SetState("ERROR")

-----------------------------------------------------------------------------
(* rtmp_session_disconnect, which rtmp_session_destroy calls first *)

CallDisconnect ==
  /\ Goto("ctl", "idle", "stop")
  /\ ~session.freed
  /\ UNCHANGED <<session, mutex>>

StopWorker ==
  /\ Goto("ctl", "stop", IF session.handle THEN "join" ELSE "close")
  /\ session' = [session EXCEPT !.running = FALSE]
  /\ UNCHANGED mutex

JoinWorker ==
  /\ at["ctl"] = "join" /\ at["worker"] = "exited"
  /\ at' = [at EXCEPT !["ctl"] = "close", !["worker"] = "none"]
  /\ session' = [session EXCEPT !.handle = FALSE]
  /\ UNCHANGED mutex

MutCloseConnection ==
  /\ Goto("ctl", "close", "closed")
  /\ session' = [session EXCEPT !.conn = @ /\ session.state = "ERROR"]
  /\ UNCHANGED mutex
CloseConnection ==
  /\ Goto("ctl", "close", "closed")
  /\ session' = [session EXCEPT !.conn = FALSE]
  /\ UNCHANGED mutex

SetClosed == Goto("ctl", "closed", "idle") /\ SetState("CLOSED")

\* The rest of destroy, after the disconnect it calls (a second one changes
\* nothing); the caller has no observer in a call by then.
Free ==
  /\ at["ctl"] = "idle" /\ at["observer"] = "idle"
  /\ session.state = "CLOSED" /\ ~session.freed
  /\ session' = [session EXCEPT !.freed = TRUE]
  /\ UNCHANGED <<at, mutex>>

-----------------------------------------------------------------------------
(* session_worker_thread.  Pings and the parsing of chunks change nothing   *)
(* the threads share but counters.                                          *)

WorkerTop ==
  /\ Goto("worker", "top", IF session.running THEN "lock" ELSE "exited")
  /\ UNCHANGED <<session, mutex>>

WorkerLocks ==
  /\ Goto("worker", "lock", "recv")
  /\ mutex = "nobody" /\ mutex' = "worker"
  /\ UNCHANGED session

\* Data was read, or none was there: both ways unlock.
MutWorkerTurns ==
  /\ at["worker"] = "recv"
  /\ \E data \in BOOLEAN : mutex' = IF data THEN "nobody" ELSE mutex
  /\ at' = [at EXCEPT !["worker"] = "top"]
  /\ UNCHANGED session
WorkerTurns ==
  /\ Goto("worker", "recv", "top")
  /\ mutex' = "nobody"
  /\ UNCHANGED session

\* The peer closed the connection, or receiving failed: session_set_state locks
\* the mutex this thread holds, and neither it nor anybody else goes on.
WorkerLosesPeer == Goto("worker", "recv", "relock") /\ UNCHANGED <<session, mutex>>

-----------------------------------------------------------------------------
(* rtmp_session_get_state, get_stats and the setters of callbacks *)

CallObserver ==
  /\ Goto("observer", "idle", "lock") /\ ~session.freed
  /\ UNCHANGED <<session, mutex>>
Observe ==
  /\ Goto("observer", "lock", "idle")
  /\ mutex = "nobody"
  /\ UNCHANGED <<session, mutex>>

Ctl ==
  \/ SetConnecting \/ DialFails \/ Dial \/ StepFails \/ Handshake
  \/ SessionSendConnect \/ SpawnFails \/ Spawn \/ HandleError
  \/ StopWorker \/ JoinWorker \/ CloseConnection \/ SetClosed
Worker == WorkerTop \/ WorkerLocks \/ WorkerTurns \/ WorkerLosesPeer

SessionNext ==
  \/ CallConnect \/ CallDisconnect \/ Free \/ CallObserver
  \/ Ctl \/ Worker \/ Observe

\* A thread that can go on does.  The mutex is free again and again, not for
\* good, while the worker turns: who waits for it gets it.
SessionFairness ==
  /\ SF_sessionVars(Ctl)
  /\ SF_sessionVars(WorkerTop \/ WorkerLocks)
  /\ WF_sessionVars(WorkerTurns \/ WorkerLosesPeer)
  /\ SF_sessionVars(Observe)

SessionSpec == SessionInit /\ [][SessionNext]_sessionVars /\ SessionFairness

-----------------------------------------------------------------------------
SessionTypeOK ==
  /\ session \in [state : State, running : BOOLEAN, handle : BOOLEAN,
                  conn : BOOLEAN, freed : BOOLEAN]
  /\ at \in [Thread -> Stage]
  /\ mutex \in {"nobody", "worker"}

\* Once rtmp_session_disconnect (283) has returned there is no worker left that
\* could use what rtmp_session_destroy frees next, and the socket is closed: also
\* after a connect that failed half-way and left the connection open.
ClosedIsClean ==
  session.freed \/ (session.state = "CLOSED" /\ at["ctl"] = "idle") =>
    /\ at["worker"] = "none" /\ ~session.handle /\ ~session.running
    /\ ~session.conn

\* rtmp_session_disconnect returns and so does every call that asks for the state
\* (440), although the worker holds the mutex most of the time: unless the worker
\* met the end of the connection and locked itself out (177, 186).
Stuck == at["worker"] = "relock"
SessionCallsReturn ==
  /\ at["ctl"] = "stop" ~> at["ctl"] = "idle" \/ Stuck
  /\ at["observer"] = "lock" ~> at["observer"] = "idle" \/ Stuck
=============================================================================
