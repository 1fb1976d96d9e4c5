------------------------------ MODULE RtmpCore ------------------------------
(***************************************************************************)
(* The publishing connection of src/rtmp_core.c: a bounded send queue      *)
(* between the threads of the application and one I/O thread, and the      *)
(* state that both sides read without a lock and write under state_mutex.  *)
(*                                                                         *)
(* Ctl is the thread that connects, publishes, stops and disconnects, and  *)
(* may send too; Producer are further threads that only send.  Several     *)
(* control threads on one connection are not modelled: nothing in the code *)
(* orders two rtmp_connect or rtmp_disconnect calls.                       *)
(***************************************************************************)
EXTENDS Integers, Sequences

CONSTANTS Producer,     \* sending threads besides Ctl
          Ctl,          \* the controlling thread
          NoMsg,        \* no message in hand
          MaxQueue,     \* RTMP_MAX_QUEUE_SIZE
          MaxSession    \* bound of the model: how often it connects

ASSUME ProducerAssumption == Ctl \notin Producer
ASSUME QueueAssumption    == MaxQueue \in Nat \ {0}
ASSUME SessionAssumption  == MaxSession \in Nat

Sender == Producer \cup {Ctl}

\* A message is what the peer would tell apart, with the thread that made it and
\* the session (count of rtmp_connect) in which it did.
Kind    == {"publish", "unpublish", "media", "metadata"}
Message == [kind : Kind, by : Sender, session : 0..MaxSession]

ASSUME NoMsgAssumption == NoMsg \notin Message

VARIABLES
  state,     \* conn->state
  open,      \* conn->socket is open
  running,   \* conn->thread_running
  io,        \* where the I/O thread is
  ctl,       \* where Ctl is
  hand,      \* the message each sender is about to push
  queue,     \* conn->send_queue
  session,   \* how often rtmp_connect was called
  wire,      \* last publish command this session's peer got
  stray,     \* this session's peer got media it should not have got
  raced,     \* the I/O thread failed inside a call that sets the state later
  destroyed

vars == <<state, open, running, io, ctl, hand, queue, session, wire, stray,
          raced, destroyed>>
peerVars == <<wire, stray>>

\* RTMP_STATE_HANDSHAKING is never assigned.
State == {"DISCONNECTED", "CONNECTING", "CONNECTED", "PUBLISHING", "ERROR"}
IoStage == {"none", "top", "select", "selectWrite", "pop", "read", "exited"}
CtlStage == {"idle", "socket", "thread", "handshake", "push", "published",
             "unpublished", "disconnect", "join"}

\* Ctl read the state, or will be told by it, and writes it later.
Window == {"thread", "handshake", "push", "published", "unpublished"}

Init ==
  /\ state = "DISCONNECTED"
  /\ open = FALSE
  /\ running = FALSE
  /\ io = "none"
  /\ ctl = "idle"
  /\ hand = [s \in Sender |-> NoMsg]
  /\ queue = <<>>
  /\ session = 0
  /\ wire = "none"
  /\ stray = FALSE
  /\ raced = FALSE
  /\ destroyed = FALSE

Idle == ctl = "idle" /\ hand[Ctl] = NoMsg /\ ~destroyed

-----------------------------------------------------------------------------
(* rtmp_connect *)

Connect ==
  /\ Idle
  /\ state = "DISCONNECTED"
  /\ session < MaxSession
  /\ session' = session + 1
  /\ state' = "CONNECTING"
  /\ ctl' = "socket"
  /\ wire' = "none"
  /\ stray' = FALSE
  /\ raced' = FALSE
  /\ UNCHANGED <<open, running, io, hand, queue, destroyed>>

\* socket() or connect() fails; in the second case the socket stays open.
SocketFails ==
  /\ ctl = "socket"
  /\ open' \in BOOLEAN
  /\ state' = "ERROR"
  /\ ctl' = "idle"
  /\ UNCHANGED <<running, io, hand, queue, session, peerVars, raced, destroyed>>

SocketConnects ==
  /\ ctl = "socket"
  /\ open' = TRUE
  /\ running' = TRUE
  /\ ctl' = "thread"
  /\ UNCHANGED <<state, io, hand, queue, session, peerVars, raced, destroyed>>

ThreadFails ==
  /\ ctl = "thread"
  /\ state' = "ERROR"
  /\ open' = FALSE
  /\ running' = FALSE
  /\ ctl' = "idle"
  /\ UNCHANGED <<io, hand, queue, session, peerVars, raced, destroyed>>

ThreadStarts ==
  /\ ctl = "thread"
  /\ io' = "top"
  /\ ctl' = "handshake"
  /\ UNCHANGED <<state, open, running, hand, queue, session, peerVars, raced,
                 destroyed>>

HandshakeFails ==
  /\ ctl = "handshake"
  /\ state' = "ERROR"
  /\ ctl' = "disconnect"
  /\ UNCHANGED <<open, running, io, hand, queue, session, peerVars, raced,
                 destroyed>>

\* The state becomes CONNECTED whatever the I/O thread made of it meanwhile.
HandshakeDone ==
  /\ ctl = "handshake"
  /\ state' = "CONNECTED"
  /\ ctl' = "idle"
  /\ UNCHANGED <<open, running, io, hand, queue, session, peerVars, raced,
                 destroyed>>

-----------------------------------------------------------------------------
(* rtmp_disconnect and rtmp_destroy *)

CallDisconnect ==
  /\ Idle
  /\ ctl' = "disconnect"
  /\ UNCHANGED <<state, open, running, io, hand, queue, session, peerVars,
                 raced, destroyed>>

DisconnectStop ==
  /\ ctl = "disconnect"
  /\ running' = FALSE
  /\ ctl' = "join"
  /\ UNCHANGED <<state, open, io, hand, queue, session, peerVars, raced,
                 destroyed>>

\* Bug forms: the I/O thread is not waited for; the socket is left open.
MutDisconnectJoin ==
  /\ ctl = "join"
  /\ open' = FALSE
  /\ state' = "DISCONNECTED"
  /\ ctl' = "idle"
  /\ UNCHANGED <<running, io, hand, queue, session, peerVars, raced, destroyed>>

\* Join the I/O thread if there is one, then close; the queue is kept.
DisconnectJoin ==
  /\ ctl = "join"
  /\ io \in {"none", "exited"}
  /\ io' = "none"
  /\ open' = FALSE
  /\ state' = "DISCONNECTED"
  /\ ctl' = "idle"
  /\ UNCHANGED <<running, hand, queue, session, peerVars, raced, destroyed>>

\* After the rtmp_disconnect it calls, rtmp_destroy frees the queue.  The
\* caller may not use the connection any more, nor be using it.
Destroy ==
  /\ Idle
  /\ state = "DISCONNECTED"
  /\ \A s \in Sender : hand[s] = NoMsg
  /\ queue' = <<>>
  /\ destroyed' = TRUE
  /\ UNCHANGED <<state, open, running, io, ctl, hand, session, peerVars, raced>>

-----------------------------------------------------------------------------
(* Sending: make a message if the state allows it, then push it. *)

Make(s, kind) ==
  hand' = [hand EXCEPT ![s] =
             [kind |-> kind, by |-> s, session |-> session]]

CallPublishStart ==
  /\ Idle
  /\ state = "CONNECTED"
  /\ Make(Ctl, "publish")
  /\ ctl' = "push"
  /\ UNCHANGED <<state, open, running, io, queue, session, peerVars, raced,
                 destroyed>>

CallPublishStop ==
  /\ Idle
  /\ state = "PUBLISHING"
  /\ Make(Ctl, "unpublish")
  /\ ctl' = "push"
  /\ UNCHANGED <<state, open, running, io, queue, session, peerVars, raced,
                 destroyed>>

\* A bug form: media is sent in any state.
MutCallSendMedia(s) ==
  /\ ~destroyed
  /\ hand[s] = NoMsg
  /\ s = Ctl => ctl = "idle"
  /\ Make(s, "media")
  /\ UNCHANGED <<state, open, running, io, ctl, queue, session, peerVars, raced,
                 destroyed>>

\* rtmp_send_video and rtmp_send_audio.
CallSendMedia(s) ==
  /\ ~destroyed
  /\ hand[s] = NoMsg
  /\ s = Ctl => ctl = "idle"
  /\ state = "PUBLISHING"
  /\ Make(s, "media")
  /\ UNCHANGED <<state, open, running, io, ctl, queue, session, peerVars, raced,
                 destroyed>>

\* rtmp_send_metadata asks for no state.
CallSendMetadata(s) ==
  /\ ~destroyed
  /\ hand[s] = NoMsg
  /\ s = Ctl => ctl = "idle"
  /\ Make(s, "metadata")
  /\ UNCHANGED <<state, open, running, io, ctl, queue, session, peerVars, raced,
                 destroyed>>

MutFull == Len(queue) > MaxQueue
Full    == Len(queue) >= MaxQueue

\* Where a command goes on once its message is queued or refused.
AfterPush(s) ==
  IF s # Ctl \/ ctl # "push" THEN ctl
  ELSE IF Full THEN "idle"
  ELSE IF hand[Ctl].kind = "publish" THEN "published" ELSE "unpublished"

\* rtmp_queue_push; a message that does not fit is freed by its sender.
Push(s) ==
  /\ hand[s] # NoMsg
  /\ queue' = IF Full THEN queue ELSE Append(queue, hand[s])
  /\ hand' = [hand EXCEPT ![s] = NoMsg]
  /\ ctl' = AfterPush(s)
  /\ UNCHANGED <<state, open, running, io, session, peerVars, raced, destroyed>>

\* The last line of rtmp_publish_start and of rtmp_publish_stop.
SetPublishing ==
  /\ ctl = "published"
  /\ state' = "PUBLISHING"
  /\ ctl' = "idle"
  /\ UNCHANGED <<open, running, io, hand, queue, session, peerVars, raced,
                 destroyed>>

SetConnected ==
  /\ ctl = "unpublished"
  /\ state' = "CONNECTED"
  /\ ctl' = "idle"
  /\ UNCHANGED <<open, running, io, hand, queue, session, peerVars, raced,
                 destroyed>>

-----------------------------------------------------------------------------
(* The I/O thread *)

ioRest == <<open, running, ctl, hand, session, destroyed>>

\* A bug form: the socket is always watched for writing.
MutIoTop ==
  /\ io = "top"
  /\ io' = IF running THEN "selectWrite" ELSE "exited"
  /\ UNCHANGED <<state, queue, peerVars, raced, ioRest>>

\* One turn of the loop: the count, read without the queue's mutex, decides
\* whether select also waits for the socket to take data.
IoTop ==
  /\ io = "top"
  /\ io' = IF ~running THEN "exited"
           ELSE IF queue # <<>> THEN "selectWrite" ELSE "select"
  /\ UNCHANGED <<state, queue, peerVars, raced, ioRest>>

SelectWritable ==
  /\ io = "selectWrite"
  /\ io' = "pop"
  /\ UNCHANGED <<state, queue, peerVars, raced, ioRest>>

\* Readable, or nothing within 100 ms.
SelectOther ==
  /\ io \in {"select", "selectWrite"}
  /\ io' = "read"
  /\ UNCHANGED <<state, queue, peerVars, raced, ioRest>>

\* A bug form: the I/O thread leaves and tells no one.
MutFail ==
  /\ io' = "exited"
  /\ UNCHANGED <<state, raced>>

\* rtmp_handle_error and the break that follows.
Fail ==
  /\ state' = "ERROR"
  /\ raced' = (raced \/ ctl \in Window)
  /\ io' = "exited"

SelectFails ==
  /\ io \in {"select", "selectWrite"}
  /\ Fail
  /\ UNCHANGED <<queue, peerVars, ioRest>>

\* What the peer of this session makes of a message of this session.
WireAfter(m) ==
  IF m.session # session \/ m.kind \notin {"publish", "unpublish"} THEN wire
  ELSE m.kind

\* Media before the publish, or Ctl's own media after its unpublish.
Strays(m) ==
  /\ m.kind = "media" /\ m.session = session
  /\ \/ wire = "none"
     \/ wire = "unpublish" /\ m.by = Ctl

\* rtmp_queue_pop would wait on the condition variable if the queue were empty.
Send ==
  /\ io = "pop"
  /\ queue # <<>>
  /\ wire' = WireAfter(Head(queue))
  /\ stray' = (stray \/ Strays(Head(queue)))
  /\ queue' = Tail(queue)
  /\ io' = "read"
  /\ UNCHANGED <<state, raced, ioRest>>

SendFails ==
  /\ io = "pop"
  /\ queue # <<>>
  /\ queue' = Tail(queue)
  /\ Fail
  /\ UNCHANGED <<peerVars, ioRest>>

\* Nothing to read, or data that nothing parses.
Read ==
  /\ io = "read"
  /\ io' = "top"
  /\ UNCHANGED <<state, queue, peerVars, raced, ioRest>>

ReadFails ==
  /\ io = "read"
  /\ Fail
  /\ UNCHANGED <<queue, peerVars, ioRest>>

-----------------------------------------------------------------------------
CtlStep ==
  \/ SocketFails \/ SocketConnects \/ ThreadFails \/ ThreadStarts
  \/ HandshakeFails \/ HandshakeDone
  \/ DisconnectStop \/ DisconnectJoin
  \/ SetPublishing \/ SetConnected

CtlCall == Connect \/ CallDisconnect \/ Destroy
           \/ CallPublishStart \/ CallPublishStop

SenderStep ==
  \E s \in Sender : CallSendMedia(s) \/ CallSendMetadata(s) \/ Push(s)

IoStep ==
  \/ IoTop \/ SelectWritable \/ SelectOther \/ SelectFails
  \/ Send \/ SendFails \/ Read \/ ReadFails

Next == CtlStep \/ CtlCall \/ SenderStep \/ IoStep

Spec == Init /\ [][Next]_vars

\* Calls in progress and the I/O thread go on: select comes back within 100 ms
\* and both socket calls are non-blocking.  A socket that is found writable
\* again and again is served, for TCP does not refuse data for ever while it
\* reports no error.
Fairness ==
  /\ WF_vars(CtlStep)
  /\ \A s \in Sender : WF_vars(Push(s))
  /\ WF_vars(IoStep)
  /\ SF_vars(SelectWritable)

FairSpec == Spec /\ Fairness

-----------------------------------------------------------------------------
(* Invariants *)

TypeOK ==
  /\ state \in State
  /\ open \in BOOLEAN
  /\ running \in BOOLEAN
  /\ io \in IoStage
  /\ ctl \in CtlStage
  /\ hand \in [Sender -> Message \cup {NoMsg}]
  /\ queue \in Seq(Message)
  /\ session \in 0..MaxSession
  /\ wire \in {"none", "publish", "unpublish"}
  /\ stray \in BOOLEAN
  /\ raced \in BOOLEAN
  /\ destroyed \in BOOLEAN

\* The queue never outgrows RTMP_MAX_QUEUE_SIZE, with any number of senders.
QueueBounded == Len(queue) <= MaxQueue

\* The I/O thread, which saw a nonzero count without the queue's mutex some
\* steps ago, never waits on the condition variable of an empty queue: a
\* disconnect would then wait for it for ever.
PopNeverWaits == io = "pop" => queue # <<>>

\* A connection that is DISCONNECTED has no socket and no I/O thread left, so
\* rtmp_connect loses neither; one that is destroyed neither.
DownIsClean ==
  state = "DISCONNECTED" => ~open /\ io = "none"

\* When the I/O thread has failed the state says ERROR, unless the failure fell
\* into a call that checked the state before and set it after.
ErrorShows ==
  io = "exited" /\ running => state = "ERROR" \/ raced

\* The peer gets no media of its session before the publish, whoever sent it,
\* and none of the controlling thread's after its unpublish.  (Another thread
\* that saw PUBLISHING may still push after the unpublish.)
MediaInsidePublish == ~stray

\* The inductive invariant behind them.

\* The I/O thread is the only one that takes from the queue, so what it saw
\* there stays; and a queue that is destroyed has no I/O thread.
WriterHasWork == io \in {"selectWrite", "pop"} => queue # <<>>

\* Before its thread exists a connection being made has none.
NoThreadYet ==
  ctl \in {"socket", "thread"} => io = "none" /\ state # "DISCONNECTED"

\* A failure inside a call is remembered as such until the call is over.
RaceNoted ==
  ctl \in Window \ {"thread"} /\ io = "exited" /\ running => raced

CoreInv == /\ TypeOK /\ QueueBounded /\ WriterHasWork /\ DownIsClean
           /\ NoThreadYet /\ ErrorShows /\ RaceNoted

-----------------------------------------------------------------------------
(* Liveness, under FairSpec *)

\* rtmp_disconnect returns.
DisconnectReturns == ctl = "disconnect" ~> ctl = "idle"

\* A publish command that was accepted is sent, unless the connection leaves
\* the state PUBLISHING.
PublishIsSent ==
  (state = "PUBLISHING" /\ wire = "none")
    ~> (state # "PUBLISHING" \/ wire # "none")
=============================================================================
