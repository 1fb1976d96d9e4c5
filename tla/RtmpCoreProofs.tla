--------------------------- MODULE RtmpCoreProofs ---------------------------
(***************************************************************************)
(* The safety of RtmpCore for every set of senders, every queue size and   *)
(* every number of connects: CoreInv is inductive, and the invariants the  *)
(* runs check follow from it; MediaInv, inductive beside it, says in what  *)
(* order the queue holds commands and media.                               *)
(***************************************************************************)
EXTENDS RtmpCore, TLAPS

\* The messages a thread can make are messages.
LEMMA MakeType ==
  ASSUME TypeOK, NEW s \in Sender, NEW k \in Kind, Make(s, k)
  PROVE  hand' \in [Sender -> Message \cup {NoMsg}]
<1> DEFINE m == [kind |-> k, by |-> s, session |-> session]
<1>1. m \in Message
  BY DEF TypeOK, Message
<1>2. hand' = [hand EXCEPT ![s] = m]
  BY DEF Make
<1> HIDE DEF m
<1> QED BY <1>1, <1>2 DEF TypeOK

LEMMA InitCoreInv == Init => CoreInv
<1> SUFFICES ASSUME Init PROVE CoreInv
  OBVIOUS
<1> USE QueueAssumption, SessionAssumption DEF Init
<1>1. TypeOK
  <2>1. hand \in [Sender -> Message \cup {NoMsg}]
    OBVIOUS
  <2>2. queue \in Seq(Message)
    OBVIOUS
  <2>3. /\ state \in State /\ io \in IoStage /\ ctl \in CtlStage
        /\ wire \in {"none", "publish", "unpublish"}
    BY DEF State, IoStage, CtlStage
  <2>4. /\ open \in BOOLEAN /\ running \in BOOLEAN /\ stray \in BOOLEAN
        /\ raced \in BOOLEAN /\ destroyed \in BOOLEAN
    OBVIOUS
  <2>5. session \in 0..MaxSession
    OBVIOUS
  <2> HIDE DEF Init
  <2> QED BY <2>1, <2>2, <2>3, <2>4, <2>5 DEF TypeOK
<1>2. QueueBounded /\ WriterHasWork /\ DownIsClean /\ NoThreadYet
  BY DEF QueueBounded, WriterHasWork, DownIsClean, NoThreadYet
<1>3. ErrorShows /\ RaceNoted
  BY DEF ErrorShows, RaceNoted, Window
<1> QED BY <1>1, <1>2, <1>3 DEF CoreInv

\* Connecting, disconnecting and destroying keep the invariant.
LEMMA ControlKeepsCoreInv ==
  ASSUME CoreInv,
         CtlStep \/ Connect \/ CallDisconnect \/ Destroy
  PROVE  CoreInv'
<1> USE QueueAssumption, SessionAssumption
    DEF CoreInv, State, IoStage, CtlStage, peerVars
<1>1. CASE SocketFails
  BY <1>1 DEF SocketFails,
         TypeOK, QueueBounded, WriterHasWork, DownIsClean,
         NoThreadYet, ErrorShows, RaceNoted, Window
<1>2. CASE SocketConnects
  BY <1>2 DEF SocketConnects,
         TypeOK, QueueBounded, WriterHasWork, DownIsClean,
         NoThreadYet, ErrorShows, RaceNoted, Window
<1>3. CASE ThreadFails
  BY <1>3 DEF ThreadFails,
         TypeOK, QueueBounded, WriterHasWork, DownIsClean,
         NoThreadYet, ErrorShows, RaceNoted, Window
<1>4. CASE ThreadStarts
  BY <1>4 DEF ThreadStarts,
         TypeOK, QueueBounded, WriterHasWork, DownIsClean,
         NoThreadYet, ErrorShows, RaceNoted, Window
<1>5. CASE HandshakeFails
  BY <1>5 DEF HandshakeFails,
         TypeOK, QueueBounded, WriterHasWork, DownIsClean,
         NoThreadYet, ErrorShows, RaceNoted, Window
<1>6. CASE HandshakeDone
  BY <1>6 DEF HandshakeDone,
         TypeOK, QueueBounded, WriterHasWork, DownIsClean,
         NoThreadYet, ErrorShows, RaceNoted, Window
<1>7. CASE DisconnectStop
  <2>1. TypeOK'
    BY <1>7 DEF DisconnectStop, TypeOK
  <2>2. QueueBounded' /\ WriterHasWork' /\ DownIsClean' /\ NoThreadYet'
    BY <1>7 DEF DisconnectStop, QueueBounded, WriterHasWork, DownIsClean, NoThreadYet
  <2>3. ErrorShows' /\ RaceNoted'
    BY <1>7 DEF DisconnectStop, ErrorShows, RaceNoted, Window
  <2> QED BY <2>1, <2>2, <2>3
<1>8. CASE DisconnectJoin
  BY <1>8 DEF DisconnectJoin,
         TypeOK, QueueBounded, WriterHasWork, DownIsClean,
         NoThreadYet, ErrorShows, RaceNoted, Window
<1>9. CASE SetPublishing
  BY <1>9 DEF SetPublishing,
         TypeOK, QueueBounded, WriterHasWork, DownIsClean,
         NoThreadYet, ErrorShows, RaceNoted, Window
<1>10. CASE SetConnected
  BY <1>10 DEF SetConnected,
         TypeOK, QueueBounded, WriterHasWork, DownIsClean,
         NoThreadYet, ErrorShows, RaceNoted, Window
<1>11. CASE Connect
  <2> USE <1>11 DEF Connect, Idle
  <2>1. session' \in 0..MaxSession
    BY DEF TypeOK
  <2>2. TypeOK'
    BY <2>1 DEF TypeOK
  <2>3. (QueueBounded /\ WriterHasWork /\ DownIsClean /\ NoThreadYet)'
    BY DEF TypeOK, QueueBounded, WriterHasWork, DownIsClean, NoThreadYet
  <2>4. (ErrorShows /\ RaceNoted)'
    BY DEF TypeOK, DownIsClean, ErrorShows, RaceNoted, Window
  <2> QED BY <2>2, <2>3, <2>4
<1>12. CASE CallDisconnect
  BY <1>12 DEF CallDisconnect, Idle,
         TypeOK, QueueBounded, WriterHasWork, DownIsClean,
         NoThreadYet, ErrorShows, RaceNoted, Window
<1>13. CASE Destroy
  BY <1>13 DEF Destroy, Idle,
         TypeOK, QueueBounded, WriterHasWork, DownIsClean,
         NoThreadYet, ErrorShows, RaceNoted, Window
<1> QED
  BY <1>1, <1>2, <1>3, <1>4, <1>5, <1>6, <1>7,
     <1>8, <1>9, <1>10, <1>11, <1>12, <1>13 DEF CtlStep

\* Making a message and pushing it keep it.
LEMMA SendersKeepCoreInv ==
  ASSUME CoreInv, CallPublishStart \/ CallPublishStop \/ SenderStep
  PROVE  CoreInv'
<1> USE QueueAssumption, SessionAssumption
    DEF CoreInv, State, IoStage, CtlStage, peerVars
<1>1. CASE CallPublishStart
  <2> USE <1>1 DEF CallPublishStart, Idle
  <2>1. hand' \in [Sender -> Message \cup {NoMsg}]
    BY MakeType DEF Kind, Sender
  <2> QED
    BY <2>1 DEF TypeOK, QueueBounded, WriterHasWork, DownIsClean,
         NoThreadYet, ErrorShows, RaceNoted, Window
<1>2. CASE CallPublishStop
  <2> USE <1>2 DEF CallPublishStop, Idle
  <2>1. hand' \in [Sender -> Message \cup {NoMsg}]
    BY MakeType DEF Kind, Sender
  <2> QED
    BY <2>1 DEF TypeOK, QueueBounded, WriterHasWork, DownIsClean,
         NoThreadYet, ErrorShows, RaceNoted, Window
<1>3. ASSUME NEW s \in Sender, CallSendMedia(s) PROVE CoreInv'
  <2> USE <1>3 DEF CallSendMedia
  <2>1. hand' \in [Sender -> Message \cup {NoMsg}]
    BY MakeType DEF Kind, Sender
  <2> QED
    BY <2>1 DEF TypeOK, QueueBounded, WriterHasWork, DownIsClean,
         NoThreadYet, ErrorShows, RaceNoted, Window
<1>4. ASSUME NEW s \in Sender, CallSendMetadata(s) PROVE CoreInv'
  <2> USE <1>4 DEF CallSendMetadata
  <2>1. hand' \in [Sender -> Message \cup {NoMsg}]
    BY MakeType DEF Kind, Sender
  <2> QED
    BY <2>1 DEF TypeOK, QueueBounded, WriterHasWork, DownIsClean,
         NoThreadYet, ErrorShows, RaceNoted, Window
<1>5. ASSUME NEW s \in Sender, Push(s) PROVE CoreInv'
  <2> USE <1>5 DEF Push
  <2>1. hand[s] \in Message
    BY DEF TypeOK
  <2>2. /\ queue' \in Seq(Message)
        /\ Len(queue') <= MaxQueue
        /\ queue # <<>> => queue' # <<>>
    BY <2>1 DEF TypeOK, QueueBounded, Full
  <2>3. ctl' \in CtlStage /\ (ctl' = ctl \/ ctl = "push")
    BY DEF AfterPush, TypeOK
  <2>4. ctl' # ctl => ctl' \in {"idle", "published", "unpublished"}
    BY DEF AfterPush
  <2>5. TypeOK'
    BY <2>2, <2>3 DEF TypeOK
  <2> QED
    BY <2>2, <2>3, <2>4, <2>5
    DEF TypeOK, QueueBounded, WriterHasWork, DownIsClean,
         NoThreadYet, ErrorShows, RaceNoted, Window
<1> QED BY <1>1, <1>2, <1>3, <1>4, <1>5 DEF SenderStep

\* The I/O thread keeps it.
LEMMA IoKeepsCoreInv ==
  ASSUME CoreInv, IoStep
  PROVE  CoreInv'
<1> USE QueueAssumption, SessionAssumption
    DEF CoreInv, State, IoStage, CtlStage, peerVars
<1> USE DEF ioRest
<1>1. CASE IoTop
  BY <1>1 DEF IoTop,
         TypeOK, QueueBounded, WriterHasWork, DownIsClean,
         NoThreadYet, ErrorShows, RaceNoted, Window
<1>2. CASE SelectWritable
  BY <1>2 DEF SelectWritable,
         TypeOK, QueueBounded, WriterHasWork, DownIsClean,
         NoThreadYet, ErrorShows, RaceNoted, Window
<1>3. CASE SelectOther
  BY <1>3 DEF SelectOther,
         TypeOK, QueueBounded, WriterHasWork, DownIsClean,
         NoThreadYet, ErrorShows, RaceNoted, Window
<1>4. CASE SelectFails
  BY <1>4 DEF SelectFails, Fail,
         TypeOK, QueueBounded, WriterHasWork, DownIsClean,
         NoThreadYet, ErrorShows, RaceNoted, Window
<1>5. CASE Send
  <2> USE <1>5 DEF Send
  <2>1. queue' \in Seq(Message) /\ Len(queue') <= MaxQueue
    BY DEF TypeOK, QueueBounded
  <2>2. wire' \in {"none", "publish", "unpublish"}
    BY DEF WireAfter, TypeOK
  <2>3. stray' \in BOOLEAN
    BY DEF Strays, TypeOK
  <2> QED
    BY <2>1, <2>2, <2>3
    DEF TypeOK, QueueBounded, WriterHasWork, DownIsClean,
         NoThreadYet, ErrorShows, RaceNoted, Window
<1>6. CASE SendFails
  <2> USE <1>6 DEF SendFails, Fail
  <2>1. queue' \in Seq(Message) /\ Len(queue') <= MaxQueue
    BY DEF TypeOK, QueueBounded
  <2> QED
    BY <2>1
    DEF TypeOK, QueueBounded, WriterHasWork, DownIsClean,
         NoThreadYet, ErrorShows, RaceNoted, Window
<1>7. CASE Read
  BY <1>7 DEF Read,
         TypeOK, QueueBounded, WriterHasWork, DownIsClean,
         NoThreadYet, ErrorShows, RaceNoted, Window
<1>8. CASE ReadFails
  BY <1>8 DEF ReadFails, Fail,
         TypeOK, QueueBounded, WriterHasWork, DownIsClean,
         NoThreadYet, ErrorShows, RaceNoted, Window
<1> QED
  BY <1>1, <1>2, <1>3, <1>4, <1>5, <1>6, <1>7, <1>8 DEF IoStep

\* CoreInv is inductive.
LEMMA NextCoreInv == CoreInv /\ [Next]_vars => CoreInv'
<1> SUFFICES ASSUME CoreInv, [Next]_vars PROVE CoreInv'
  OBVIOUS
<1>1. CASE UNCHANGED vars
  BY <1>1
  DEF vars, CoreInv, TypeOK, QueueBounded, WriterHasWork, DownIsClean,
         NoThreadYet, ErrorShows, RaceNoted, Window
<1> QED
  BY <1>1, ControlKeepsCoreInv, SendersKeepCoreInv, IoKeepsCoreInv
  DEF Next, CtlCall

LEMMA InvariantCoreInv == Spec => []CoreInv
  BY InitCoreInv, NextCoreInv, PTL DEF Spec

-----------------------------------------------------------------------------
\* Every variable of the connection keeps its type, for any senders and sessions.
THEOREM CoreTypes == Spec => []TypeOK
<1>1. CoreInv => TypeOK
  BY DEF CoreInv
<1> QED BY <1>1, InvariantCoreInv, PTL

\* The send queue holds at most MaxQueue messages, however many threads push.
THEOREM QueueIsBounded == Spec => []QueueBounded
<1>1. CoreInv => QueueBounded
  BY DEF CoreInv
<1> QED BY <1>1, InvariantCoreInv, PTL

\* The I/O thread never waits for a message: its look at the count without the
\* mutex is good enough, for nobody else takes from the queue.
THEOREM PopDoesNotWait == Spec => []PopNeverWaits
<1>1. CoreInv => PopNeverWaits
  BY DEF CoreInv, WriterHasWork, PopNeverWaits
<1> QED BY <1>1, InvariantCoreInv, PTL

\* DISCONNECTED means no socket and no I/O thread.
THEOREM DisconnectedIsClean == Spec => []DownIsClean
<1>1. CoreInv => DownIsClean
  BY DEF CoreInv
<1> QED BY <1>1, InvariantCoreInv, PTL

\* An I/O failure shows in the state, but for the race that RaceNoted names.
THEOREM ErrorIsVisible == Spec => []ErrorShows
<1>1. CoreInv => ErrorShows
  BY DEF CoreInv
<1> QED BY <1>1, InvariantCoreInv, PTL

-----------------------------------------------------------------------------
(* The order of what the peer gets.  What the queue holds is yet to be told to *)
(* the peer: position 0 is what it was told last, position i what message i    *)
(* will tell it.                                                               *)

Told(i) ==
  IF i = 0 THEN wire
  ELSE IF queue[i].session = session /\ queue[i].kind \in {"publish", "unpublish"}
       THEN queue[i].kind ELSE "none"

\* The peer is told something before it gets position n, and what it is told last
\* before it is not that publishing ends.
Begun(n) == \E i \in 0..(n - 1) : Told(i) # "none"
Publishes(n) ==
  \A i \in 0..(n - 1) : Told(i) = "unpublish" =>
    \E j \in (i + 1)..(n - 1) : Told(j) = "publish"

InOrder(m, n) ==
  m.kind = "media" /\ m.session = session =>
    Begun(n) /\ (m.by = Ctl => Publishes(n))

\* No media of this session.
Fresh(m) == ~(m.kind = "media" /\ m.session = session)
End      == Len(queue) + 1
Alive    == io \notin {"none", "exited"}

\* Commands are made by Ctl only, which pushes them before it does anything else.
HandInv ==
  /\ \A s \in Sender : hand[s] # NoMsg =>
       /\ hand[s].by = s /\ hand[s].session <= session
       /\ hand[s].kind \in {"publish", "unpublish"} => s = Ctl /\ ctl = "push"
  /\ hand[Ctl] # NoMsg => ctl \in {"idle", "push"}
  /\ ctl = "push" => /\ hand[Ctl] # NoMsg /\ hand[Ctl].session = session
                     /\ hand[Ctl].kind \in {"publish", "unpublish"}
  /\ \A i \in 1..Len(queue) : queue[i].session <= session

\* A session begins without media.
NewInv ==
  ctl \in {"socket", "thread"} =>
    /\ state # "PUBLISHING"
    /\ \A i \in 1..Len(queue) : Fresh(queue[i])
    /\ \A s \in Sender : hand[s] # NoMsg => Fresh(hand[s])

\* While the I/O thread runs, media stands behind a publish, and the states in which
\* media is made find one before the end of the queue.
OrderInv ==
  Alive =>
    /\ \A i \in 1..Len(queue) : InOrder(queue[i], i)
    /\ \A s \in Sender : hand[s] # NoMsg => InOrder(hand[s], End)
    /\ state = "PUBLISHING" \/ ctl = "published" => Begun(End)
    /\ (state = "PUBLISHING" /\ ctl # "unpublished") \/ ctl = "published" =>
         Publishes(End)

MediaInv == HandInv /\ NewInv /\ OrderInv /\ ~stray

LEMMA InitMediaInv == Init => MediaInv
<1> SUFFICES ASSUME Init PROVE MediaInv
  OBVIOUS
<1>1. \A s \in Sender : hand[s] = NoMsg
  BY DEF Init
<1>2. Ctl \in Sender
  BY DEF Sender
<1> QED
  BY <1>1, <1>2 DEF Init, MediaInv, HandInv, NewInv, OrderInv, Alive

\* Steps that move no message keep the order if they go on from a state in which
\* media is made to none other, and if a thread that starts finds a session begun.
LEMMA QuietKeepsMediaInv ==
  ASSUME MediaInv, UNCHANGED <<queue, wire, session, hand, stray>>,
         \/ ctl' = ctl
         \/ ctl # "push" /\ ctl' # "push" /\ hand[Ctl] = NoMsg,
         ctl' \in {"socket", "thread"} =>
           ctl \in {"socket", "thread"} /\ state' # "PUBLISHING",
         Alive' => Alive \/ (ctl = "thread" /\ state' # "PUBLISHING"),
         ctl' = "published" => ctl = "published",
         state' = "PUBLISHING" => state = "PUBLISHING" \/ ctl = "published",
         state' = "PUBLISHING" /\ ctl' # "unpublished" =>
           ctl = "published" \/ (state = "PUBLISHING" /\ ctl # "unpublished")
  PROVE  MediaInv'
<1>1. HandInv'
  BY DEF MediaInv, HandInv
<1>2. NewInv'
  BY DEF MediaInv, NewInv, Fresh
<1>3. /\ \A i : Told(i)' = Told(i)
      /\ End' = End
  BY DEF Told, End
<1>4. /\ \A n : (Begun(n)' <=> Begun(n)) /\ (Publishes(n)' <=> Publishes(n))
      /\ (Begun(End)' <=> Begun(End)) /\ (Publishes(End)' <=> Publishes(End))
  BY <1>3 DEF Begun, Publishes
<1>5. /\ \A i : InOrder(queue[i], i)' <=> InOrder(queue[i], i)
      /\ \A s : InOrder(hand[s], End)' <=> InOrder(hand[s], End)
  BY <1>3, <1>4 DEF InOrder
<1>6. CASE Alive
  <2>1. /\ \A i \in 1..Len(queue) : InOrder(queue[i], i)'
        /\ \A s \in Sender : hand[s] # NoMsg => InOrder(hand[s], End)'
    BY <1>5, <1>6 DEF MediaInv, OrderInv
  <2>2. /\ state' = "PUBLISHING" \/ ctl' = "published" => Begun(End)'
        /\ (state' = "PUBLISHING" /\ ctl' # "unpublished") \/ ctl' = "published" =>
             Publishes(End)'
    BY <1>4, <1>6 DEF MediaInv, OrderInv
  <2>3. OrderInv'
    BY <2>1, <2>2 DEF OrderInv
  <2> QED BY <1>1, <1>2, <2>3 DEF MediaInv
<1>7. CASE ~Alive
  <2>1. ASSUME Alive'
        PROVE  /\ \A i \in 1..Len(queue) : Fresh(queue[i])
               /\ \A s \in Sender : hand[s] # NoMsg => Fresh(hand[s])
               /\ state' # "PUBLISHING" /\ ctl' # "published"
    BY <1>7, <2>1 DEF MediaInv, NewInv
  <2>2. ASSUME Alive'
        PROVE  /\ \A i \in 1..Len(queue) : InOrder(queue[i], i)'
               /\ \A s \in Sender : hand[s] # NoMsg => InOrder(hand[s], End)'
    BY <2>1, <2>2 DEF Fresh, InOrder
  <2>3. OrderInv'
    BY <2>1, <2>2 DEF OrderInv
  <2> QED BY <1>1, <1>2, <2>3 DEF MediaInv
<1> QED BY <1>6, <1>7

LEMMA QuietStepsKeepMediaInv ==
  ASSUME CoreInv, MediaInv,
         \/ CtlStep \/ CallDisconnect
         \/ IoTop \/ SelectWritable \/ SelectOther \/ SelectFails \/ Read \/ ReadFails
  PROVE  MediaInv'
<1>1. ctl \notin {"idle", "push"} => hand[Ctl] = NoMsg
  BY DEF MediaInv, HandInv
<1>2. ctl = "thread" => state # "PUBLISHING"
  BY DEF MediaInv, NewInv
<1> USE DEF peerVars, ioRest, Alive
<1>3. CASE SocketFails \/ SocketConnects \/ ThreadFails
  BY <1>1, <1>2, <1>3, QuietKeepsMediaInv
  DEF SocketFails, SocketConnects, ThreadFails, MediaInv, NewInv
<1>4. CASE ThreadStarts
  BY <1>1, <1>2, <1>4, QuietKeepsMediaInv DEF ThreadStarts
<1>5. CASE HandshakeFails \/ HandshakeDone
  BY <1>1, <1>5, QuietKeepsMediaInv DEF HandshakeFails, HandshakeDone
<1>6. CASE CallDisconnect \/ DisconnectStop \/ DisconnectJoin
  BY <1>1, <1>6, QuietKeepsMediaInv
  DEF CallDisconnect, Idle, DisconnectStop, DisconnectJoin
<1>7. CASE SetPublishing \/ SetConnected
  BY <1>1, <1>7, QuietKeepsMediaInv DEF SetPublishing, SetConnected
<1>8. CASE IoTop \/ SelectWritable \/ SelectOther \/ Read
  BY <1>8, <1>2, QuietKeepsMediaInv
  DEF IoTop, SelectWritable, SelectOther, Read, MediaInv, NewInv
<1>9. CASE SelectFails \/ ReadFails
  BY <1>9, <1>2, QuietKeepsMediaInv DEF SelectFails, ReadFails, Fail, MediaInv, NewInv
<1> QED BY <1>3, <1>4, <1>5, <1>6, <1>7, <1>8, <1>9 DEF CtlStep

LEMMA QueueTypes ==
  ASSUME CoreInv
  PROVE  /\ Len(queue) \in Nat
         /\ \A i \in 1..Len(queue) : queue[i] \in Message /\ queue[i].session \in Nat
<1>1. queue \in Seq(Message)
  BY DEF CoreInv, TypeOK
<1>2. Len(queue) \in Nat /\ \A i \in 1..Len(queue) : queue[i] \in Message
  BY <1>1
<1>3. \A m \in Message : m.session \in Nat
  BY SessionAssumption DEF Message
<1> QED BY <1>2, <1>3

\* A new session has sent nothing, and what is queued or in hand is of an earlier one.
LEMMA ConnectKeepsMediaInv ==
  ASSUME CoreInv, MediaInv, Connect
  PROVE  MediaInv'
<1>1. /\ ctl = "idle" /\ hand[Ctl] = NoMsg /\ state = "DISCONNECTED"
      /\ session' = session + 1 /\ ctl' = "socket" /\ state' = "CONNECTING"
      /\ stray' = FALSE /\ UNCHANGED <<io, hand, queue>> /\ session \in Nat
  BY SessionAssumption DEF Connect, Idle, CoreInv, TypeOK
<1>2. ~Alive'
  BY <1>1 DEF CoreInv, DownIsClean, Alive
<1>3. \A i \in 1..Len(queue) : queue[i].session \in Nat
  BY QueueTypes
<1>4. \A s \in Sender : hand[s] # NoMsg => hand[s].session \in Nat
  BY SessionAssumption DEF CoreInv, TypeOK, Message
<1>5. HandInv'
  BY <1>1, <1>3, <1>4 DEF MediaInv, HandInv
<1>6. NewInv'
  BY <1>1, <1>3, <1>4 DEF MediaInv, HandInv, NewInv, Fresh
<1> QED BY <1>1, <1>2, <1>5, <1>6 DEF MediaInv, OrderInv

LEMMA DestroyKeepsMediaInv ==
  ASSUME CoreInv, MediaInv, Destroy
  PROVE  MediaInv'
<1>1. /\ ctl = "idle" /\ state = "DISCONNECTED" /\ queue' = <<>>
      /\ UNCHANGED <<state, io, ctl, hand, session, stray>>
      /\ \A s \in Sender : hand[s] = NoMsg
  BY DEF Destroy, Idle, peerVars
<1>2. ~Alive'
  BY <1>1 DEF CoreInv, DownIsClean, Alive
<1>3. \A i : i \notin 1..Len(queue')
  BY <1>1
<1>4. HandInv'
  BY <1>1, <1>3 DEF MediaInv, HandInv
<1>5. NewInv'
  BY <1>1, <1>3 DEF MediaInv, NewInv
<1> QED BY <1>1, <1>2, <1>4, <1>5 DEF MediaInv, OrderInv

\* A message is made of this session, and where the state allows it.
LEMMA MakeKeepsMediaInv ==
  ASSUME CoreInv, MediaInv,
         \/ CallPublishStart \/ CallPublishStop
         \/ \E s \in Sender : CallSendMedia(s) \/ CallSendMetadata(s)
  PROVE  MediaInv'
<1>1. PICK s \in Sender, k \in Kind :
        /\ hand[s] = NoMsg /\ Make(s, k)
        /\ UNCHANGED <<state, io, queue, session, wire, stray>>
        /\ \/ s = Ctl /\ ctl = "idle" /\ ctl' = "push" /\ k \in {"publish", "unpublish"}
           \/ /\ UNCHANGED ctl /\ (s = Ctl => ctl = "idle")
              /\ k \notin {"publish", "unpublish"}
              /\ k = "media" => state = "PUBLISHING"
  BY DEF CallPublishStart, CallPublishStop, CallSendMedia, CallSendMetadata, Idle,
         peerVars, Kind, Sender
<1> DEFINE m == [kind |-> k, by |-> s, session |-> session]
<1>2. /\ hand' = [hand EXCEPT ![s] = m]
      /\ \A t \in Sender : hand'[t] = IF t = s THEN m ELSE hand[t]
  BY <1>1 DEF Make, CoreInv, TypeOK
<1>3. m.kind = k /\ m.by = s /\ m.session = session
  OBVIOUS
<1> HIDE DEF m
<1>4. m # NoMsg /\ session \in Nat /\ Ctl \in Sender
  BY NoMsgAssumption, SessionAssumption DEF m, Message, CoreInv, TypeOK, Sender
<1>5. HandInv'
  BY <1>1, <1>2, <1>3, <1>4 DEF MediaInv, HandInv
<1>6. NewInv'
  BY <1>1, <1>2, <1>3, <1>4 DEF MediaInv, NewInv, Fresh
<1>7. /\ \A i : Told(i)' = Told(i)
      /\ End' = End
  BY <1>1 DEF Told, End
<1>8. /\ \A n : (Begun(n)' <=> Begun(n)) /\ (Publishes(n)' <=> Publishes(n))
      /\ (Begun(End)' <=> Begun(End)) /\ (Publishes(End)' <=> Publishes(End))
  BY <1>7 DEF Begun, Publishes
<1>9. ASSUME Alive' PROVE OrderInv'
  <2>1. Alive
    BY <1>1, <1>9 DEF Alive
  <2>2. \A i \in 1..Len(queue) : InOrder(queue[i], i)'
    BY <1>1, <1>8, <2>1 DEF MediaInv, OrderInv, InOrder
  <2>3. k = "media" => Begun(End) /\ (s = Ctl => Publishes(End))
    BY <1>1, <2>1 DEF MediaInv, OrderInv
  <2>4. ASSUME NEW t \in Sender, hand'[t] # NoMsg PROVE InOrder(hand[t], End)'
    <3>1. CASE t = s
      BY <1>1, <1>2, <1>3, <1>8, <2>3, <3>1 DEF InOrder
    <3>2. CASE t # s
      BY <1>1, <1>2, <1>8, <2>1, <2>4, <3>2 DEF MediaInv, OrderInv, InOrder
    <3> QED BY <3>1, <3>2
  <2>5. /\ state' = "PUBLISHING" \/ ctl' = "published" => Begun(End)'
        /\ (state' = "PUBLISHING" /\ ctl' # "unpublished") \/ ctl' = "published" =>
             Publishes(End)'
    BY <1>1, <1>8, <2>1 DEF MediaInv, OrderInv
  <2> QED BY <1>1, <2>2, <2>4, <2>5 DEF OrderInv
<1> QED BY <1>1, <1>5, <1>6, <1>9 DEF MediaInv, OrderInv

\* A message that is queued stands behind all that were, and what it tells the peer
\* is told last.
LEMMA PushKeepsMediaInv ==
  ASSUME CoreInv, MediaInv, NEW s \in Sender, Push(s)
  PROVE  MediaInv'
<1> DEFINE m == hand[s]
<1>1. /\ m # NoMsg /\ ctl' = AfterPush(s)
      /\ queue' = IF Full THEN queue ELSE Append(queue, m)
      /\ hand' = [hand EXCEPT ![s] = NoMsg]
      /\ UNCHANGED <<state, io, session, wire, stray>>
  BY DEF Push, peerVars
<1>2. /\ \A t \in Sender : hand'[t] = IF t = s THEN NoMsg ELSE hand[t]
      /\ Ctl \in Sender /\ m \in Message
  BY <1>1 DEF CoreInv, TypeOK, Sender
<1>3. /\ m.by = s /\ m.session <= session
      /\ m.kind \in {"publish", "unpublish"} => s = Ctl /\ ctl = "push"
      /\ ctl = "push" => hand[Ctl] # NoMsg /\ hand[Ctl].session = session
                         /\ hand[Ctl].kind \in {"publish", "unpublish"}
      /\ hand[Ctl] # NoMsg => ctl \in {"idle", "push"}
  BY <1>1 DEF MediaInv, HandInv
<1>4. \/ s # Ctl /\ ctl' = ctl /\ m.kind \notin {"publish", "unpublish"}
      \/ s = Ctl /\ ctl = "idle" /\ ctl' = ctl /\ m.kind \notin {"publish", "unpublish"}
      \/ s = Ctl /\ ctl = "push" /\ ctl' = "idle" /\ Full
      \/ s = Ctl /\ ctl = "push" /\ ctl' = "published" /\ ~Full /\ m.kind = "publish"
      \/ s = Ctl /\ ctl = "push" /\ ctl' = "unpublished" /\ ~Full
         /\ m.kind = "unpublish"
  BY <1>1, <1>3 DEF AfterPush
<1>0. PICK n \in Nat : n = Len(queue)
  BY QueueTypes
<1>5. /\ n \in Nat /\ End = n + 1
      /\ Full => queue' = queue
      /\ ~Full => /\ Len(queue') = n + 1 /\ queue'[n + 1] = m
                  /\ \A i \in 1..n : queue'[i] = queue[i]
  <2>1. queue \in Seq(Message)
    BY DEF CoreInv, TypeOK
  <2> HIDE DEF m
  <2> QED BY <1>0, <1>1, <1>2, <2>1 DEF End
<1> HIDE DEF m
<1>6. HandInv'
  <2>1. \A i \in 1..Len(queue') : queue'[i].session <= session
    <3>1. \A i \in 1..n : queue[i].session <= session
      BY <1>0 DEF MediaInv, HandInv
    <3>2. CASE Full
      BY <1>0, <1>5, <3>1, <3>2
    <3>3. CASE ~Full
      BY <1>3, <1>5, <3>1, <3>3
    <3> QED BY <3>2, <3>3
  <2>2. \A t \in Sender : hand'[t] # NoMsg =>
          /\ hand'[t].by = t /\ hand'[t].session <= session
          /\ hand'[t].kind \in {"publish", "unpublish"} => t = Ctl /\ ctl' = "push"
    BY <1>2, <1>4 DEF MediaInv, HandInv
  <2>3. /\ hand'[Ctl] # NoMsg => ctl' \in {"idle", "push"}
        /\ ctl' = "push" => /\ hand'[Ctl] # NoMsg /\ hand'[Ctl].session = session
                            /\ hand'[Ctl].kind \in {"publish", "unpublish"}
    BY <1>2, <1>3, <1>4 DEF m
  <2> QED BY <1>1, <2>1, <2>2, <2>3 DEF HandInv
<1>7. NewInv'
  <2> SUFFICES ASSUME ctl' \in {"socket", "thread"} PROVE NewInv'
    BY DEF NewInv
  <2>1. /\ ctl \in {"socket", "thread"} /\ state # "PUBLISHING"
        /\ \A i \in 1..n : Fresh(queue[i])
        /\ \A t \in Sender : hand[t] # NoMsg => Fresh(hand[t])
    BY <1>0, <1>4 DEF MediaInv, NewInv
  <2>2. \A i \in 1..Len(queue') : Fresh(queue'[i])
    BY <1>0, <1>1, <1>5, <2>1 DEF m
  <2>3. \A t \in Sender : hand'[t] # NoMsg => Fresh(hand'[t])
    BY <1>2, <2>1
  <2> QED BY <1>1, <2>1, <2>2, <2>3 DEF NewInv, Fresh
<1>8. ASSUME Alive' PROVE OrderInv'
  <2>1. /\ Alive
        /\ \A i \in 1..n : InOrder(queue[i], i)
        /\ \A t \in Sender : hand[t] # NoMsg => InOrder(hand[t], n + 1)
        /\ state = "PUBLISHING" \/ ctl = "published" => Begun(n + 1)
        /\ (state = "PUBLISHING" /\ ctl # "unpublished") \/ ctl = "published" =>
             Publishes(n + 1)
    BY <1>0, <1>1, <1>5, <1>8 DEF MediaInv, OrderInv, Alive
  <2>2. CASE Full
    <3>1. \A i : Told(i)' = Told(i)
      BY <1>1, <1>5, <2>2 DEF Told
    <3>2. \A k : (Begun(k)' <=> Begun(k)) /\ (Publishes(k)' <=> Publishes(k))
      BY <3>1 DEF Begun, Publishes
    <3>3. End' = n + 1 /\ Len(queue') = n
      BY <1>0, <1>5, <2>2 DEF End
    <3>4. (Begun(End)' <=> Begun(n + 1)) /\ (Publishes(End)' <=> Publishes(n + 1))
      BY <3>1, <3>3 DEF Begun, Publishes
    <3>5. \A i \in 1..Len(queue') : InOrder(queue[i], i)'
      BY <1>1, <1>5, <2>1, <2>2, <3>2, <3>3 DEF InOrder
    <3>6. \A t \in Sender : hand'[t] # NoMsg => InOrder(hand[t], End)'
      BY <1>1, <1>2, <2>1, <3>4 DEF InOrder
    <3>7. /\ state' = "PUBLISHING" \/ ctl' = "published" => Begun(End)'
          /\ (state' = "PUBLISHING" /\ ctl' # "unpublished") \/ ctl' = "published" =>
               Publishes(End)'
      BY <1>1, <1>4, <2>1, <2>2, <3>4
    <3> QED BY <3>5, <3>6, <3>7 DEF OrderInv
  <2>3. CASE ~Full
    <3>1. /\ \A i \in 0..n : Told(i)' = Told(i)
          /\ Told(n + 1)' = IF m.session = session /\ m.kind \in {"publish", "unpublish"}
                            THEN m.kind ELSE "none"
      BY <1>1, <1>5, <2>3 DEF Told
    <3>2. \A k \in 1..(n + 1) : (Begun(k)' <=> Begun(k))
                               /\ (Publishes(k)' <=> Publishes(k))
      BY <1>5, <3>1 DEF Begun, Publishes
    <3>3. End' = n + 2 /\ Len(queue') = n + 1
      BY <1>5, <2>3 DEF End
    <3>4. /\ Begun(n + 1) => Begun(End)'
          /\ Told(n + 1)' # "none" => Begun(End)'
      BY <1>5, <3>1, <3>3 DEF Begun
    <3>5. /\ Publishes(n + 1) /\ Told(n + 1)' # "unpublish" => Publishes(End)'
          /\ Told(n + 1)' = "publish" => Publishes(End)'
      BY <1>5, <3>1, <3>3 DEF Publishes
    <3>6. \A i \in 1..Len(queue') : InOrder(queue[i], i)'
      <4>1. ASSUME NEW i \in 1..n PROVE InOrder(queue[i], i)'
        BY <1>1, <1>5, <2>1, <2>3, <3>2 DEF InOrder
      <4>2. InOrder(m, n + 1)
        BY <1>1, <2>1 DEF m
      <4>3. InOrder(queue[n + 1], n + 1)'
        BY <1>1, <1>5, <2>3, <3>2, <4>2 DEF InOrder
      <4> QED BY <1>5, <3>3, <4>1, <4>3
    <3>7. \A t \in Sender : hand'[t] # NoMsg => InOrder(hand[t], End)'
      BY <1>1, <1>2, <1>3, <1>4, <2>1, <2>3, <3>1, <3>4, <3>5
      DEF InOrder, MediaInv, HandInv
    <3>8. /\ state' = "PUBLISHING" \/ ctl' = "published" => Begun(End)'
          /\ (state' = "PUBLISHING" /\ ctl' # "unpublished") \/ ctl' = "published" =>
               Publishes(End)'
      BY <1>1, <1>3, <1>4, <2>1, <2>3, <3>1, <3>4, <3>5 DEF m
    <3> QED BY <3>6, <3>7, <3>8 DEF OrderInv
  <2> QED BY <2>2, <2>3
<1> QED BY <1>1, <1>6, <1>7, <1>8 DEF MediaInv, OrderInv

\* The message that is sent tells the peer what it was going to tell it, and every
\* other message is one position nearer.
LEMMA SendKeepsMediaInv ==
  ASSUME CoreInv, MediaInv, Send \/ SendFails
  PROVE  MediaInv'
<1> DEFINE m == Head(queue)
<1>1. /\ queue # <<>> /\ queue' = Tail(queue) /\ UNCHANGED <<ctl, hand, session>>
      /\ state' = state \/ state' = "ERROR"
      /\ Send => /\ wire' = WireAfter(m) /\ stray' = (stray \/ Strays(m))
                 /\ io = "pop" /\ UNCHANGED state
      /\ SendFails => UNCHANGED stray /\ ~Alive'
  BY DEF Send, SendFails, Fail, peerVars, ioRest, Alive
<1>2. PICK n \in Nat : n = Len(queue)
  BY QueueTypes
<1>3. /\ n >= 1 /\ m = queue[1] /\ Len(queue') = n - 1
      /\ \A i \in 1..(n - 1) : queue'[i] = queue[i + 1]
  <2>1. queue \in Seq(Message)
    BY DEF CoreInv, TypeOK
  <2> QED BY <1>1, <1>2, <2>1
<1> HIDE DEF m
<1>4. HandInv'
  <2>1. \A i \in 1..Len(queue') : queue'[i].session <= session
    BY <1>2, <1>3 DEF MediaInv, HandInv
  <2> QED BY <1>1, <2>1 DEF MediaInv, HandInv
<1>5. NewInv'
  <2> SUFFICES ASSUME ctl \in {"socket", "thread"} PROVE NewInv'
    BY <1>1 DEF NewInv
  <2>1. \A i \in 1..Len(queue') : Fresh(queue'[i])
    BY <1>2, <1>3 DEF MediaInv, NewInv
  <2> QED BY <1>1, <2>1 DEF MediaInv, NewInv, Fresh
<1>6. CASE SendFails
  BY <1>1, <1>4, <1>5, <1>6 DEF MediaInv, OrderInv
<1>7. CASE Send
  <2>1. /\ wire' = WireAfter(m) /\ stray' = (stray \/ Strays(m)) /\ UNCHANGED state
        /\ Alive
    BY <1>1, <1>7 DEF Alive
  <2>2. /\ \A i \in 1..n : InOrder(queue[i], i)
        /\ \A t \in Sender : hand[t] # NoMsg => InOrder(hand[t], n + 1)
        /\ state = "PUBLISHING" \/ ctl = "published" => Begun(n + 1)
        /\ (state = "PUBLISHING" /\ ctl # "unpublished") \/ ctl = "published" =>
             Publishes(n + 1)
    BY <1>2, <2>1 DEF MediaInv, OrderInv, End
  <2>3. ~Strays(m)
    <3>1. InOrder(m, 1)
      BY <1>2, <1>3, <2>2
    <3>2. Begun(1) => wire # "none"
      BY DEF Begun, Told
    <3>3. Publishes(1) => wire # "unpublish"
      BY DEF Publishes, Told
    <3> QED BY <3>1, <3>2, <3>3 DEF InOrder, Strays
  <2>4. /\ Told(0)' = IF Told(1) # "none" THEN Told(1) ELSE Told(0)
        /\ \A i \in 1..(n - 1) : Told(i)' = Told(i + 1)
    <3>1. Told(0)' = wire' /\ Told(0) = wire
      BY DEF Told
    <3>2. Told(1) = IF m.session = session /\ m.kind \in {"publish", "unpublish"}
                    THEN m.kind ELSE "none"
      BY <1>3 DEF Told
    <3>3. Told(0)' = IF Told(1) # "none" THEN Told(1) ELSE Told(0)
      BY <2>1, <3>1, <3>2 DEF WireAfter
    <3>4. \A i \in 1..(n - 1) : Told(i)' = Told(i + 1)
      BY <1>1, <1>3 DEF Told
    <3> QED BY <3>3, <3>4
  <2>5. ASSUME NEW k \in 1..n
        PROVE  /\ Begun(k + 1) => Begun(k)'
               /\ Publishes(k + 1) => Publishes(k)'
    <3>1. ASSUME Begun(k + 1) PROVE Begun(k)'
      <4>1. PICK i \in 0..k : Told(i) # "none"
        BY <3>1 DEF Begun
      <4>2. CASE i \in {0, 1}
        <5>1. Told(0)' # "none" /\ 0 \in 0..(k - 1)
          BY <2>4, <4>1, <4>2
        <5> QED BY <5>1 DEF Begun
      <4>3. CASE i \notin {0, 1}
        <5>1. i - 1 \in 1..(n - 1) /\ i - 1 \in 0..(k - 1) /\ i = (i - 1) + 1
          BY <4>1, <4>3
        <5>2. Told(i - 1)' # "none"
          BY <2>4, <4>1, <5>1
        <5> QED BY <5>1, <5>2 DEF Begun
      <4> QED BY <4>2, <4>3
    <3>2. ASSUME Publishes(k + 1) PROVE Publishes(k)'
      <4> SUFFICES ASSUME NEW i \in 0..(k - 1), Told(i)' = "unpublish"
                   PROVE  \E j \in (i + 1)..(k - 1) : Told(j)' = "publish"
        BY DEF Publishes
      <4>1. PICK j \in (i + 2)..k : Told(j) = "publish"
        <5>1. CASE i = 0 /\ Told(1) = "none"
          <6>1. Told(0) = "unpublish"
            BY <2>4, <5>1
          <6>2. PICK j \in 1..k : Told(j) = "publish"
            BY <3>2, <6>1 DEF Publishes
          <6> QED BY <5>1, <6>2
        <5>2. CASE i = 0 /\ Told(1) # "none"
          <6>1. Told(1) = "unpublish" /\ 1 \in 0..k
            BY <2>4, <5>2
          <6> QED BY <3>2, <5>2, <6>1 DEF Publishes
        <5>3. CASE i # 0
          <6>1. Told(i + 1) = "unpublish" /\ i + 1 \in 0..k
            BY <2>4, <5>3
          <6> QED BY <3>2, <6>1 DEF Publishes
        <5> QED BY <5>1, <5>2, <5>3
      <4>2. j - 1 \in 1..(n - 1) /\ j - 1 \in (i + 1)..(k - 1) /\ j = (j - 1) + 1
        BY <4>1
      <4>3. Told(j - 1)' = "publish"
        BY <2>4, <4>1, <4>2
      <4> QED BY <4>2, <4>3
    <3> QED BY <3>1, <3>2
  <2>6. (Begun(n + 1) => Begun(End)') /\ (Publishes(n + 1) => Publishes(End)')
    <3>1. End' = n
      BY <1>2, <1>3 DEF End
    <3>2. (Begun(End)' <=> Begun(n)') /\ (Publishes(End)' <=> Publishes(n)')
      BY <3>1 DEF Begun, Publishes
    <3> QED BY <1>2, <1>3, <2>5, <3>2
  <2>7. \A i \in 1..Len(queue') : InOrder(queue[i], i)'
    <3> SUFFICES ASSUME NEW i \in 1..(n - 1) PROVE InOrder(queue[i], i)'
      BY <1>2, <1>3
    <3>1. i + 1 \in 1..n /\ i \in 1..n /\ queue'[i] = queue[i + 1]
      BY <1>2, <1>3
    <3>2. InOrder(queue[i + 1], i + 1)
      BY <2>2, <3>1
    <3>3. (Begun(i + 1) => Begun(i)') /\ (Publishes(i + 1) => Publishes(i)')
      BY <2>5, <3>1
    <3> QED BY <1>1, <3>1, <3>2, <3>3 DEF InOrder
  <2>8. \A t \in Sender : hand'[t] # NoMsg => InOrder(hand[t], End)'
    BY <1>1, <2>2, <2>6 DEF InOrder
  <2>9. OrderInv'
    BY <1>1, <2>1, <2>2, <2>6, <2>7, <2>8 DEF OrderInv
  <2> QED BY <1>4, <1>5, <2>1, <2>3, <2>9 DEF MediaInv
<1> QED BY <1>6, <1>7

LEMMA NextMediaInv == CoreInv /\ MediaInv /\ [Next]_vars => MediaInv'
<1> SUFFICES ASSUME CoreInv, MediaInv, [Next]_vars PROVE MediaInv'
  OBVIOUS
<1>1. CASE UNCHANGED vars
  BY <1>1, QuietKeepsMediaInv DEF vars, Alive, MediaInv, NewInv
<1>2. CASE \E s \in Sender : Push(s)
  BY <1>2, PushKeepsMediaInv
<1> QED
  BY <1>1, <1>2, QuietStepsKeepMediaInv, ConnectKeepsMediaInv, DestroyKeepsMediaInv,
     MakeKeepsMediaInv, SendKeepsMediaInv
  DEF Next, CtlCall, SenderStep, IoStep

\* Whatever the senders and the I/O thread do, the peer gets media only after the
\* publish of its session, and none of the controlling thread's after its unpublish.
THEOREM MediaStaysInside == Spec => []MediaInsidePublish
<1>1. MediaInv => MediaInsidePublish
  BY DEF MediaInv, MediaInsidePublish
<1> QED BY <1>1, InitMediaInv, NextMediaInv, InvariantCoreInv, PTL DEF Spec
=============================================================================
