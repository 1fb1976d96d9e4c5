# A formal model of rtmpcamera

TLA+ models of rtmpcamera: of the parts in which threads meet (the RTMP server,
the publishing connection, the stability monitor, the failover handler, the
injected camera) and of the client library (session, stream over its protocol
context, handshake, chunk headers, AMF decoder, quality controller, diagnostics).
Each is checked by TLC on small instances, and every safety property is also proved,
for every instance, with TLAPS. Line numbers refer to the files under `src/`.

## 1. The system

rtmpcamera runs inside camera applications on iOS. It receives an RTMP stream
(the server), feeds its frames to the camera interfaces of the host application
(camera injection), and holds the client side of RTMP as well (connections,
sessions, streams). There are no tests in the repository; comments and the
README are its only statements of intent.

| Component | Files | State | Operations | What is hard | What makes it correct |
|---|---|---|---|---|---|
| Server | `rtmp_server_integration.c` | one global `server_ctx`: running, state, sockets, a linked list of connections and its count, one mutex | start, stop, cleanup, getters, broadcasts; accept thread, monitor thread, a detached handler thread per client | four callers of one cleanup, two of them with the mutex held; memory handed from thread to thread; joins | list, count and memory agree; no connection is freed twice or pointed to when freed; stop leaves nothing behind; calls return |
| Publishing connection | `rtmp_core.c` | state, socket, I/O thread, bounded send queue | connect, disconnect, publish, send, destroy; I/O thread | state tested without a lock and set later; queue count read without its mutex | bounded queue; the I/O thread never waits; errors show; disconnect leaves nothing |
| Stability monitor | `rtmp_stability.c` | state, configuration, attempts, pending heartbeat, watchdog thread, one mutex | start, stop, reset, try_recover, force_reconnect; watchdog | joins and sleeps with the mutex held; time | one reconnect at a time, below the limit; no thread left behind; recoveries end |
| Failover handler | `rtmp_failover.c` | status, configuration, health thread, one mutex | start, stop, reset, trigger, check_health; health thread | seconds with the mutex held; a check that triggers | one switch at a time; triggers return; recording starts and stops with the right state |
| Protocol context | `rtmp_protocol.c` | `RTMPContext`: connection state, descriptor, chunk size, window, two 32-bit byte counters | rtmp_connect, handshakes, rtmp_disconnect, rtmp_send_packet, rtmp_read_packet, handlers of control messages and commands | a connect that fails at any of its steps; counters that wrap; what a disconnect keeps for the next connection; sizes the peer dictates | state and descriptor agree, none is leaked; what was read is acknowledged in time |
| Stream | `rtmp_stream.c` | stream state, quality, configuration, one `RTMPContext` | connect, disconnect, publish, send video and audio, metadata, configuration, quality | the context changes under it: the peer goes, the monitor rebuilds the connection (`rtmp_stability.c`) | its state agrees with the context's; frames go only where a publish went before |
| Session | `rtmp_session.c` | state, worker handle, connection, one mutex | create, connect, disconnect, destroy, getters and callbacks; worker thread | the worker holds the mutex over its poll of the connection and, when the peer goes, calls what locks it again | calls return; disconnect leaves no worker and no socket |
| Quality controller | `rtmp_quality.c` | level, two targets, measurements, time of the last check | set level and targets, report, check and adjust | products of factors truncated; levels whose order the step down relies on | targets stay in range |
| Handshake | `rtmp_handshake.c` | context: state 0-2, C1, S1, C2, S2 | client, server, process | a search for a digest over offsets; packets refused in between | done means that digest and echo were right |
| Chunk codec | `rtmp_chunk.c` | a context per message type (writing) or chunk stream (reading) | write, read, create and reset contexts | header fields are left out when the last message had them; what is read and what is written share the contexts | a reader can complete every header |
| AMF codec | `rtmp_amf.c` | none; a pointer and a count per call of the decoder | encode, decode, copy, free values | lengths come from the sender; objects in objects | the decoder stays in its buffer and yields what was sent |
| Diagnostics | `rtmp_diagnostics.c` | table of timed operations, level, statistics, one mutex | init, shutdown, start and end timing, log, level, statistics | a count tested without the mutex; ids that are not unique; logging with the mutex held | every operation finds its entry; nothing is written beyond the table |
| Commands, utilities | `rtmp_commands.c`, `rtmp_utils.c` | an object to be sent; log level | encode; log, time, packets | | |
| Camera injection | `rtmp_camera_compat.m`, `RTMPCameraTweak.xm` | state, capture session, preview flag, last frame | start, stop, asynchronous set-up, received frames, preview | two dispatch queues and the main thread share fields without a lock; a set-up cannot be called back | state and session agree; frames are released once; the delegate knows the state |
| User interface, hooks, packaging | `rtmp_preview.m`, `rtmp_compatibility.m`, `Makefile` | views | | UIKit | |

How they interact: the server stands alone and reaches the application through
callbacks. Session uses the connection of `rtmp_core.c`'s interface and the client
handshake. Stream, monitor and failover handler each hold a pointer to one
`RTMPContext` of `rtmp_protocol.c`; the last two tear it down and reconnect it,
and nobody tells the stream. `rtmp_core.c` and `rtmp_protocol.c` define functions
of the same names (`rtmp_connect`, `rtmp_disconnect`) for two types, so they
cannot be linked together; each is modelled in the file that uses it.
`rtmp_connection_receive_chunk`, `rtmp_connection_send_chunk` and the
`rtmp_chunk_stream_*` functions are declared for the server and defined nowhere;
the model takes any message from them at any time.

What the code gets wrong with memory, the models follow to the point where C defines
no more. A sweep of the server that meets a connection with a handler closes its
socket and destroys its chunk stream, resets neither, and stops at its own lock; the
handler goes on with both, and gives both back again (`misused` in RtmpServer). The
timing table of the diagnostics is overrun on to its own counter (`intact`). A second
connect of a stream loses the first one's descriptor (`lost`).

A default mutex of the platform (`pthread_mutex_init(.., NULL)`) is not
recursive: a thread that locks it twice waits for itself for ever. All models
use that.

## 2. Modules

| Module | Models |
|---|---|
| `RtmpServer` | `rtmp_server_integration.c`: application, accept, monitor and handler threads |
| `ConnRegistry` | what the server promises about its connections; `RtmpServer` implements it |
| `RtmpCore` | `rtmp_core.c`: control thread, senders, I/O thread, queue |
| `RtmpStability` | `rtmp_stability.c`: application threads, watchdog, reconnecting |
| `RtmpFailover` | `rtmp_failover.c`: application threads, health thread, the three switches |
| `RtmpCamera` | `rtmp_camera_compat.m`: main thread, video queue, processing queue |
| `RtmpSession` | `rtmp_session.c`: controlling thread, worker, an observer |
| `RtmpStream` | `rtmp_stream.c` over `rtmp_protocol.c`, with the reconnect of `rtmp_stability.c` |
| `RtmpDiagnostics` | the timing table of `rtmp_diagnostics.c` and the mutex around it |
| `RtmpQuality` | `rtmp_quality.c` |
| `RtmpHandshake` | `rtmp_handshake.c` from the client's side, with three kinds of server |
| `RtmpChunk` | header compression of `rtmp_chunk.c`: a writer and the reader that fills in |
| `RtmpAmf` | the object decoder of `rtmp_amf.c` |
| `RtmpClient` | the last seven, composed: they share no variables |
| `RtmpServerProofs`, `RtmpCoreProofs`, `RtmpStabilityProofs`, `RtmpFailoverProofs`, `RtmpCameraProofs`, `RtmpStreamProofs`, `RtmpAmfProofs` | the theorems of the module each is named for |
| `RtmpClientProofs` | the theorems of `RtmpSession`, `RtmpDiagnostics`, `RtmpQuality`, `RtmpHandshake`, `RtmpChunk`, and of `RtmpClient` |
| `MC*` | the constants of the runs |

Every model with threads has a variable (`pc`; `ctl` and `io` in RtmpCore, `at` in
RtmpSession, `stage` in RtmpDiagnostics) with the place of each of them, and one
action per stretch of code that another thread can see in one step: from a lock to
its unlock, a join, a read or write of a shared variable without a lock. A critical section that contains no wait is one step.
A lock that is kept over a wait (a sleep, a join, a second lock) is a variable
holding its owner. Names of actions follow the functions; the map in
`PROJECT.json` gives the lines.

**RtmpServer.** `listed` is the linked list (order never matters), `num` the
counter, `live` the allocated addresses, `conn` what is in them, `cur[t]` the
connection a thread works on. `rtmp_server_cleanup_connection` has four callers
and is therefore four actions of any thread: CleanupRelease (244-260),
CleanupUnlink (262-281), CleanupNotify (283-286), CleanupFree (288). MonitorExpires
and StopPop reach it with `lock` held, so CleanupUnlink is never enabled for them. An
address is reused as soon as it is freed. `conn[a].released` says that the socket is
closed and the chunk stream freed; the code resets neither field, so whoever has the
connection still uses them or gives them back again (`Uses`), and `misused` records
that: the process may go on as if nothing had happened, as the model does, or end,
which is a behaviour that stops. `given` is a pointer the application got from
rtmp_server_get_connection; it keeps one, and forgets it when the connection callback
names it. play and publish write the state and then is_publisher, without a lock
(ReceiveRole, SetRole). Not in the model: descriptor numbers and their reuse, the
bytes of messages, `rtmp_server_close_connection` (nothing calls it).

**RtmpCore.** `hand[s]` is a message made after the state was tested and not yet
pushed. `io` follows the I/O thread through one turn of its loop: look at the
count, select, pop and send, read. `wire` and `stray` are what the peer of the
session has seen of that session's messages (`stray`: media before the publish,
or the controlling thread's own after its unpublish); `raced` says that the I/O thread
failed inside a call that sets the state afterwards. One thread controls the
connection, any number send.

**RtmpStability.** Time is one bit, `elapsed`: the interval that is waited for has
passed. `handle` is the watchdog stop would join; with two starting threads a
watchdog can exist that no handle names. `alive` is the peer. A reconnect that has
slept dials, and then may hang in the handshake, whose recv has no timeout
(rtmp_protocol.c:167), with the mutex held (PeerIsSilent).

**RtmpFailover.** `link` is the RTMPContext: down, open (rtmp_connect returned), up
(the server answered connect). `recording` is what the two recording stubs would
do.

**RtmpCamera.** `pc` follows the main thread, the set-up block on the video queue
and a frame on the processing queue; `setups`, `jobs` and `notes` count the
blocks that wait on the three queues. cleanup has two callers, stop on the main
thread and handleSetupError on the video queue, and is five actions of either.
A set-up reads and writes the session field of whoever comes last, so a stop
turns its messages into messages to nil: it then fails (257-292) or, past that
point, sets Running with no session (305). `torn` remembers that a stop overtook
a set-up and `raced` that cleanup, which takes no frameLock, met another release
of lastFrame; both only observe. The model waits with a start while MaxPending
blocks wait; the code has no such limit.

**RtmpSession.** `session` holds the fields the threads share, `mutex` who has
`session->mutex`. The worker polls the connection with the mutex held (WorkerTurns
releases it); when the peer is gone it goes to `relock` (WorkerLosesPeer), from
which nothing leads on: that is `session_set_state` called with the mutex held
(177, 186). No step sets CONNECTED, so start_publish, stop_publish and the send
functions end at their first test and are no actions.

**RtmpStream.** `link` is the `RTMPContext` with what only an observer of both
sides knows: the descriptors the process has open, whether the peer is there, what
it was sent on this connection (`seen`), the bytes since the last acknowledgement
(`since`). The calls of `rtmp_protocol.c` are operators from a link to the set of
links they may leave (`Dialled`, `Sent`, `SendConnect`, `Handled`), one for every
failure, so an action of the stream is the whole call with everything under it.
Connect tests no state, as the code does not: on an open connection it overwrites the
descriptor, which `lost` remembers. SendsData is the application's own metadata, which
it may send at any time, SendMetadata the library's. Rebuild is the monitor's
reconnect on the same context, and `rebuilt` holds from there to the stream's next
connect or disconnect; `looping` is a send or a read in chunks of 0 bytes.

**RtmpDiagnostics.** `table` is the table of operations being timed; an entry
remembers whose it is, which the code does not. A start is two steps, the test of
the count without the mutex and the critical section. When others filled the table in
between, the second writes beyond it (WritesBeyond): timing_operations[100] is
timing_count, and ids[100] the first pointer (28-30). From then on `intact` is false
and no call that uses the table is followed. A slow operation is logged with the mutex
held and waits for itself (`relock`).

**RtmpQuality.** Integer arithmetic with the casts of the code; LOW, MEDIUM, HIGH
and AUTO are numbered as the enumeration numbers them, which is why a step down
from AUTO applies HIGH.

**RtmpHandshake.** A packet is its random part and the offset of a digest, if it
has one. The server is this library's own (digest at the last offset), another
(anywhere), or one without digests.

**RtmpChunk.** `context` is what the writer remembers per message type, `reader`
what the peer remembers per chunk stream, `written` the true header. The same slots
hold what rtmp_chunk_read received on the chunk stream of that number (ChunkRead; a
header of `Incoming`, any set of headers, as it parses by a type nothing has set);
`received` are those whose header is the peer's. `torn` are the streams on which a write failed, contexts or connection
were replaced, two types share the stream, or a header was shortened by one that was
received, until a full header comes. Timestamps and lengths lose their upper bits on
the wire (`Word24`). A timestamp is what the writer puts in the field and the reader
takes out of it, the message's own in types 0 to 2; comments (rtmp_chunk.c:119, 130;
rtmp_chunk.h:22) call it a delta in types 1 and 2, and a peer that believed them would
add it up: the model follows the code of both ends.

**RtmpAmf.** The recursion of rtmp_amf_decode_object and rtmp_amf_decode_value is
the stack `frames`: where the call began, its pointer, the bytes it believes it
has left. `built` is what each call has made so far. One action is one turn of the
loop; an allocation may fail wherever the code tests one.

**RtmpClient.** Composes the last seven. They share no variables, and
every property speaks of one part's variables, so `part` chooses which of them
moves: any interleaving of the parts shows each property the same states of its
own part. What these parts have in common at run time, `RTMPContext`, is inside
RtmpStream.

**ConnRegistry.** Connections become listed, detached and absent again, and the
server is down only with nothing listed. `phaseBar` and `lifeBar` in RtmpServer
are the refinement mapping.

## 3. Runs

| Run | Question | Bounds | States |
|---|---|---|---|
| RtmpServerAll | list, count, ownership, stop, role, destroy; refinement of ConnRegistry | 2 connections, 2 handlers, every event but a monitor thread that cannot be created | 3.06 M |
| RtmpServerLive | cleanups end | no stop, no silent client; any thread creation may fail | 348 k |
| RtmpCoreAll | queue, pop, clean, errors, media, disconnect returns | queue 3, 2 sessions, 2 senders | 399 k |
| RtmpStabilityRaces | one reconnecter, limit | 2 application threads, 2 watchdogs, 8 configurations | 353 k |
| RtmpStabilityOneApp | watchdog and state, recoveries end, losses are noticed | 1 application thread, 3 configurations in which the monitor decides | 3 k |
| RtmpFailoverRaces | one switch, idle, network, recording | 2 application threads, 2 servers, 4 configurations | 1.65 M |
| RtmpCameraAll | session and state, frames, starts end, delegate | 2 buffers, 1 frame and 2 blocks waiting | 339 k |
| RtmpClientAll | session: clean and live; stream and context, acknowledgements; timing table; targets; handshake; chunk headers; AMF decoder | see below | 379 k |

Bounds of RtmpClientAll: session, one observer. Stream, two descriptors (one more
than it needs, so that a leak shows), counters of 5 values, windows of 1 and 2 and
packets of up to 2 bytes, so that both counters wrap within a few packets.
Diagnostics, three threads with two operations each on a table of two, a clock of
three values. Quality, measurements on both sides of every threshold. Handshake,
offsets 0 to 3. Chunks, two message types and two streams, two timestamps and two
lengths of which one exceeds its field; headers received that the next one sent may
differ from in any field or in none. AMF, every object of up to two properties
with objects of one property in them; every cut of every flat one; every row of up
to six bytes over {0, 1, 2, 3, 9} behind an object's type, which holds objects three
deep, refused types, names and strings longer than the buffer; numbers have two
bytes for eight.

The bounds are small and enough for what happens. Two clients and two handlers
let one be served while the other is expired or stopped and let memory be
reused; two application threads give every race on an unlocked test; a queue of
three is empty, partly full and full; two sessions let messages of the first reach
the second; two blocks that wait let a set-up be overtaken by a stop and a
second start. Nothing in the code distinguishes a third. RtmpServerAll uses
symmetry, the runs with liveness properties do not. Deadlock is checked in
RtmpCameraAll only: the other programs do stop, for an application need not call
anything, a decoder ends, and the self-deadlocks below are real. The inductive
invariants and the types that the theorems of section 5 establish are no longer
part of the runs; TLC checked them before they were proved.

NoLockAfterDestroy and RefinesRegistry need a monitor thread that can be
created: without it start reports STOPPED with clients still listed. That is why
RtmpServerAll leaves this event out; RtmpServerLive has it. LossIsNoticed
excepts a stop that waits for the watchdog, because it may wait for ever.

Four runs are expected to fail. Each states what a comment or the README says,
and TLC shows how the code does otherwise (`findings` in `PROJECT.json`):

| Run | What happens |
|---|---|
| RtmpServerLock | a sweep that finds a connection waits for its own mutex: stop with a client connected (633, 263), monitor with an expired one (184, 263) |
| RtmpCoreLost | publish_start overwrites ERROR with PUBLISHING; nothing is sent any more (391) |
| RtmpStabilityDead | a living connection is taken for dead, answers do not count (253) |
| RtmpFailoverAuto | the health thread's failover waits for its own mutex (329, 143) |

The models contain more of that kind for which no line promises otherwise. Those
that matter most are in the `hazards` of `PROJECT.json`; beyond them:

- server: a failed start joins the accept thread before it closes the socket that
  accept() waits on (99); a connection stays listed between the close of its
  descriptor and its unlinking (248), so a broadcast (784) may send to it; rtmp_server_close_connection would free a
  connection under its handler (665), but nothing calls it;
- connection: the handshake reads the socket in the calling thread while the I/O
  thread reads it too (329); a send that takes part of a message loses the rest (220);
- monitor: mode RESET locks the mutex its caller holds (277);
- failover: stop joins the health thread with the mutex held that it needs (109);
  check_health reads status and connection without the mutex (211); a switch that
  fails leaves the connection it closed closed (341);
- camera: a preview stopped at resigning active never starts again (634);
- session: the worker that sets CLOSED or ERROR locks its own mutex (177, 186);
- diagnostics: a slow operation is logged with the mutex held that logging takes (235);
- AMF: a decode that finds no memory frees two arrays (384) that freeing the value
  frees again; `rtmp_commands.c` frees a name that destroying the object frees again
  (105).

## 4. Fairness

Weak fairness on the steps of a thread says that a started thread is scheduled.
Strong fairness is used where a thread must get a mutex that others take and
give back again and again (`AppStep`, `WatchdogStep`, `TriggerStep`,
`HealthStep`): the others sleep between their turns (a second in the watchdog,
an interval in the health thread), so the mutex is free most of the time. In
RtmpServer weak fairness is enough, since there the only critical sections that
are more than one step never end. In RtmpStability only
a reconnect that has not got to the handshake must go on (`AttemptGoesOn`): nothing
makes a silent peer answer, and RecoveryEnds says that a recovery ends or hangs there.
In RtmpCore `SF(SelectWritable)` says that a
socket which is watched for writing again and again is writable at last; select
and the two socket calls return by themselves (100 ms, non-blocking). In
RtmpCamera a queued block runs and ends, and `SF(Notify)` says that the main
queue takes its blocks between the other calls of the main thread. In RtmpSession a thread that waits for the
mutex gets it (`SF`), for the worker gives it back after every poll; what the
property promises excepts the state in which the worker has locked itself out. The
other parts of the client library promise nothing that must happen, and no fairness
is stated for them. No call of
the application, no message, failure or silence of a peer is ever forced.

## 5. Proofs

| Theorem | Says |
|---|---|
| RtmpServerProofs: TypeCorrect, CountCorrect, NoUseAfterFree, OneOwner, StopIsQuiet, RoleIsItsOwn | for any number of addresses and handlers and any events |
| RtmpServerProofs: NobodyLocksAgain, ServerImplementsRegistry | the same, where every start gets its monitor thread: NoLockAfterDestroy and the refinement of ConnRegistry |
| RtmpCoreProofs: CoreTypes, QueueIsBounded, PopDoesNotWait, DisconnectedIsClean, ErrorIsVisible, MediaStaysInside | for any set of senders, any queue size, any number of sessions |
| RtmpStabilityProofs: StabilityTypes, ReconnectsExclude, LimitIsRespected | for any application threads, watchdogs and configurations |
| RtmpStabilityProofs: StoppedHasNoWatchdog | for one application thread and configurations with a watchdog |
| RtmpFailoverProofs: FailoverTypes, SwitchesExclude, IdleIsQuiet, ServerBeforeNetwork, RecordingIsOffline | for any application threads, servers and configurations |
| RtmpCameraProofs: CameraTypes, StateTellsSession, FramesAreOwned | for any buffers and any bound on the queues |
| RtmpStreamProofs: StreamTypes, StreamAndContextAgree, FramesAreAnnounced, AcknowledgedInTime | for any descriptors, any width of the counters (2^32), any packets and windows that together stay below it |
| RtmpAmfProofs: DecoderStaysInBuffer | for any bytes, any number of them, objects nested to any depth, numbers of any size |
| RtmpAmfProofs: DecodesTheObject | for any objects, nested to any depth, with names and strings of any length the two bytes before them can tell |
| RtmpClientProofs: SessionTypes, DisconnectedSessionIsClean | a disconnect that returns leaves no worker and no connection |
| RtmpClientProofs: TimingsAreFound, OneThreadNeverOverruns | for any number of threads, any size of the table and any clock |
| RtmpClientProofs: TargetsStayInRange | for any measurements, and any targets the application sets in the range |
| RtmpClientProofs: DoneMeansGenuine | for any server, any random parts and offsets |
| RtmpClientProofs: ReaderCompletesHeaders | for any types, streams, timestamps and lengths, up to the bits the wire has no room for |
| RtmpClientProofs: ClientImplementsParts, ClientTypes, ClientIsSafe, ClientAcknowledges | the composition implements the specification of each part, so each part's theorems hold of it |

Each module of proofs shows its inductive invariant initially true and kept by
every action, one step per action, then reads the theorems off it. TLC checked
the same invariants before they were proved.

*IInv of the server.* None of the safety properties is inductive. That nothing
is freed twice needs to know who may free: a worker (accept or handler) owns the
connection in `cur`, no two workers the same one (`Owners`); a connection whose
owner has not unlinked it is listed, or a sweep that holds the lock has it
(`Registered`); who holds the lock follows from the places (`LockHolder`), and
so does who has a pointer (`Pointers`). A sweep cannot get past its own lock
(`Stages`), which is why it never frees the connection under a handler. `Progress`
carries what start and stop have already done, for StopQuiesces. `PartsInv` adds the
parts of a connection and the application's pointer: a released connection that is
still allocated has a thread past its release (`ReleasedBy`); the first misuse is by
the second of two threads with one connection, so one of them is a sweep, which has
stopped at its lock and holds it for ever (`MisusedInSweep`); and what the application
was given is not before its list entry nor past its callback (`Given`).

*RoleInv.* That no role is inherited needs the state of a connection on its way to
its handler: it is NEW until the handshake of the one thread that has it, and a
message for one connection changes no other, because `Owners` holds. Between the two
writes of play or publish the handler that makes them is named (`Between`).

*DownInv.* StopQuiesces speaks of the moment stop ends. NoLockAfterDestroy and the
registry need it to last: in state STOPPED, up to the creation of the next accept
thread, nothing is listed and no handler can lock again. A start whose monitor thread
is not created gives up with a client possibly registered, so both theorems assume
that event away, as the run does. The refinement is a step simulation: each action
is shown to move the abstract life of at most one connection (`RegistryMoves`), or the
phase (`RegistryStays`).

*CoreInv.* The I/O thread is the only one that takes from the queue, so a
nonzero count it saw stays nonzero (`WriterHasWork`). `RaceNoted` remembers a
failure inside a call.

*MediaInv.* What the peer was told last is position 0 of the queue. While the I/O
thread runs, media of the session stands behind a publish, and media of the
controlling thread behind no unpublish that a later publish does not take back
(`OrderInv`); a message already made but not yet pushed counts as the end of the
queue, and a session begins without media of its own (`NewInv`).

*MonitorInv, FailoverInv.* Exactly the owner of the mutex is in a critical
section (`LockHeld`); from that follow exclusion, and that what was tested
before a sleep still holds after it (`BelowLimit`, `LocalIsDown`).
`OneAppInv` adds, for one application thread, what each place says about the
state.

*CameraInv.* While no stop overtook a set-up, at most one set-up is on its way,
only a start puts it there and only in state Starting (`SetupInv`, `StartInv`);
so what the state says of the session is decided by one thread at a time. For
the frames, `MadeInv` tells the buffer under construction from the stored one,
and every release that could meet another is recorded in `raced`.

*SessionInv.* The handle names the worker as long as it was not joined
(`HandleNamesWorker`), no second one is spawned (`OneWorker`), and a disconnect that
has got to a place has done what comes before it (`Progress`).

*StreamInv.* Nothing is sent to a peer out of order: every publish in `seen` has a
connect and a createStream beside it, and a stream that publishes has all three
(`Announced`). AckKept is a property of steps; it follows from an invariant that ties
the two counters to the observer's count (`Unacked`): `since` is their difference
modulo 2^32, and so small that no wrap can hide it. Every operator on links has its
lemma, so that an action that composes four of them is proved from four lemmas.

*AmfInv.* Of every call on the stack, not only the innermost, what is left ends where
the buffer does (`Bounded`), and a call that waits stands where the next began
(`Nested`): that is why adding what the inner call read keeps the outer one's pointer
and count together.

*Shape, FollowInv.* DecodesWhatWasSent is about objects in objects of any depth, and
the prover has no induction over data. None is needed: `Encoding` is a constant, a
function on the objects that are sent, of which `AmfEncodings` assumes that it
satisfies its own recursion equation, one property at a time (TLC evaluates the
assumption for the constants of the run). The induction is the execution's. Every
call under way decodes an object that was sent (`Follows`): what it has decoded and
what rests make up the object (`Splits`), and the encoding of the rest stands where
the call's pointer is and ends where the object does (`Comes`). A turn of the loop
unfolds the equation once: the name that is read is the name that was sent
(ReadsName), the value is taken whole and as it was sent or an object begins there
(ReadsValue), and the first of the rest becomes the last decoded (SplitsNext). A call
that waits has, with the object it waits for, a longer first part, from a pointer
past that object's end: so a return restores what the caller had, only if the
callee stood at its end marker, which is why a refused value or a missing name must
be shown not to happen in an object that arrives whole (FirstArrives).

*DiagInv.* EveryTimingFound counts: as many entries have an id as operations being
timed were given it. It is inductive, with types and `RoomHeld`; the work is in the
lemmas on cardinalities that a start adds one to each side and an end takes one
from each, as long as nothing was written beyond the table. OverrunNeedsTwo counts the
threads that have tested the count and not yet added their entry: entries and those
threads together never exceed the table by more than the threads but one, for a thread
tests only when there is room; so when a thread finds the table full, another has
filled it since, and a single thread never does.

*QualityInv, HandshakeInv, ChunkInv.* The first adds to the range of both targets that
the frame rate the controller divides by is above one; truncated products keep both,
because the factors have their bounds. The second says that C1 is made before the
state moves on. The third relates two memories that are indexed differently: what the
writer remembers of a type is the last header of the stream it names, unless it was
received, or that stream is torn or was last written with another type
(`ContextsAgree`); and a header
leaves out only fields in which it agrees with that memory.

*The composition.* A step of `RtmpClient` is a step of one part and a stutter of the
others, so it implements every part's specification (ClientImplementsParts), and
ClientIsSafe reads the run's invariants off the parts' theorems.

Assumptions are the named ASSUMEs of the modules: threads and null values are
distinct, sets of addresses are finite, configurations are of their type. Where a
module is used with its constants substituted the assumptions are an operator
(`StreamConstants`, `AmfConstants`, ...): the theorems assume it and MCRtmpClient
asserts all of them (`ClientConstants`) of the run's constants. Those of the decoder
say more than types: the properties of an object have a name and a value of a type
the decoder knows (`IsProperty`), an object's encoding is that of its first property
before that of the rest (`AmfEncodings`), and what is handed over is an encoding, or
its beginning, or any bytes at all (`SentAsEncoded`).

Only model-checked: the liveness properties CleanupEnds, DisconnectReturns,
RecoveryEnds, LossIsNoticed, StartingEnds, DelegateKnows and CallsReturn, for the
prover has no ENABLED. Every invariant and every property of steps of the
passing runs has its theorem.

## 6. Limits

- One application thread calls the server and one controls a connection.
- Server: the application keeps one pointer of rtmp_server_get_connection and forgets
  it in the connection callback; one that keeps it longer has freed memory. A second
  close of a descriptor may close another file that got its number: not modelled.
- Reads and writes of a shared word are atomic and sequentially consistent; the
  code shares `running`, `state` and counters between threads without a lock.
- The result of pthread_create is ignored by monitor and failover handler; the
  models assume there that the thread is created.
- Bytes are not modelled: partial sends, two readers of one socket.
- Callbacks of the application do not call back: rtmp_core runs its state callback
  with state_mutex held (137), so one that disconnects would wait for itself.
- The camera's fields are assigned in one step each; two threads that assign an
  object reference at the same time are undefined behaviour in Objective-C and
  are not modelled beyond that.
- The camera is started and stopped on the main thread, as the tweak does.
- Session: it never becomes CONNECTED, so nothing after that is modelled; after
  ERROR or CLOSED it cannot connect again (251). Statistics and pings are left out.
- Stream: statistics, the limits of the bit rate, the interval between checks of
  the quality are left out. A window within a packet of 2^32 is excluded by
  StreamConstants. A peer that closes while the process writes raises SIGPIPE,
  which ends it: the model's sends fail instead. Chunk size and window survive a
  reconnect (112-129), in the model too. rtmp_send_packet tests `RTMP_CHUNK_TYPE_0`
  where it means the header's type, so it sends one byte of header: the model says
  what is sent, not whether a peer could read it.
- Quality: the interval between checks is not modelled. As AUTO is numbered above
  HIGH, the step down from AUTO raises the targets and a step up never happens.
  Frame rates of 0 and 1 set by the application divide by zero; QualityConstants
  excludes them.
- Handshake: the server's side ends after S1; packets come in full size.
- Chunks: rtmp_chunk_read switches on a header type that nothing has set (197), so
  what it stores is any header and what it returns is not modelled; the reader of the
  model is one that is told the type, and that does not write itself. Payloads are
  not followed: neither chunks after the first nor what a length cut to 24 bits makes
  of the rest. Stream ids from 64 are not modelled. rtmp_chunk_write takes a bool for
  the length of its header and sends one byte of it; the header modelled is the one
  laid out.
- Diagnostics: the first write beyond the table is where the table's model ends.
- AMF: the encoders write a type marker before a property's name and four bytes at
  an object's end; the decoder reads neither, so the objects of the runs are encoded
  as AMF0 has it. Objects in objects that are cut or hold a type the decoder does
  not know yield properties nobody sent; DecodesWhatWasSent excepts them. More than
  16 properties and arrays are not modelled.
- Not modelled at all: `rtmp_commands.c` (a command's name and number go to and from a
  buffer; the functions for its object are stubs that leave object and length unset,
  28-46), `rtmp_utils.c` (logging, time, memory),
  the views, the method swizzling, packaging.

## 7. Plan

1. Server: descriptor numbers and their reuse.
2. A first-in-first-out channel that RtmpCore implements, and one
   specification of a monitored thread that monitor and failover handler share.
