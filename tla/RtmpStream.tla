----------------------------- MODULE RtmpStream -----------------------------
(***************************************************************************)
(* The publishing stream of src/rtmp_stream.c over the protocol context of *)
(* src/rtmp_protocol.c, as one application thread drives it, with the      *)
(* peer, and with the stability monitor that tears the context's           *)
(* connection down and builds it again between two calls of the            *)
(* application (src/rtmp_stability.c, attempt_reconnect).                  *)
(*                                                                         *)
(* rtmp_stream_connect tests no state: the application may call it on a    *)
(* stream that is connected, and then it loses the descriptor in use.      *)
(* Every packet read is handed to rtmp_handle_packet.                      *)
(***************************************************************************)
EXTENDS Naturals

CONSTANTS NoSocket,    \* -1 in ctx->socket
          Descriptor,  \* descriptors socket() may return
          Word,        \* 2^32: bytesReceived and lastAckSize wrap there
          Window,      \* window sizes a peer asks for
          DefaultWindow,
          MaxPacket    \* largest packet, its header included

\* What is assumed of the constants.  No window reaches up to a packet below 2^32,
\* where the difference of the counters would wrap before it is noticed.
StreamConstants ==
  /\ NoSocket \notin Descriptor
  /\ Word \in Nat \ {0} /\ MaxPacket \in Nat
  /\ DefaultWindow \in Window
  /\ \A w \in Window : w \in Nat /\ w + MaxPacket < Word

VARIABLES
  stream,   \* state of the stream
  quality,  \* ctx->quality of the stream
  link,     \* the protocol context and what the peer got, see LinkType
  rebuilt,  \* the monitor rebuilt the connection, and the stream neither
            \* connected nor disconnected since
  lost,     \* descriptors that connects overwrote while they were in use
  looping   \* a call loops for ever

streamVars == <<stream, quality, link, rebuilt, lost, looping>>

StreamState == {"IDLE", "CONNECTING", "PUBLISHING"}
LinkState   == {"DISCONNECTED", "CONNECT", "CONNECTED"}
Command     == {"connect", "createStream", "publish", "media", "metadata",
                "data"}
Quality     == {"HIGH", "MEDIUM", "LOW", "AUTO"}
ChunkSize   == {"default", "other", "zero"}

LinkType ==
  [sock  : Descriptor \cup {NoSocket},  \* ctx->socket
   state : LinkState,                   \* ctx->state
   chunk : ChunkSize,                   \* ctx->chunkSize
   window : Window,                     \* ctx->windowAckSize
   got   : 0..(Word - 1),               \* ctx->bytesReceived
   acked : 0..(Word - 1),               \* ctx->lastAckSize
   open  : SUBSET Descriptor,           \* descriptors the process has open
   up    : BOOLEAN,                     \* the peer is still there
   seen  : SUBSET Command,              \* what it got on this connection
   since : Nat]                         \* bytes counted since the last ack

StreamInit ==
  /\ stream = "IDLE"
  /\ quality = "HIGH"
  /\ link = [sock |-> NoSocket, state |-> "DISCONNECTED", chunk |-> "default",
             window |-> DefaultWindow, got |-> 0, acked |-> 0, open |-> {},
             up |-> FALSE, seen |-> {}, since |-> 0]
  /\ rebuilt = FALSE
  /\ lost = {}
  /\ looping = FALSE

-----------------------------------------------------------------------------
(* rtmp_protocol.c: the calls as functions on the link *)

\* rtmp_disconnect: chunkSize and windowAckSize stay.
MutDisconnected(l) ==
  [l EXCEPT !.sock = NoSocket, !.state = "DISCONNECTED", !.seen = {},
            !.got = 0, !.acked = 0, !.since = 0]
Disconnected(l) ==
  [l EXCEPT !.open = @ \ {l.sock}, !.sock = NoSocket, !.up = FALSE,
            !.state = "DISCONNECTED", !.seen = {},
            !.got = 0, !.acked = 0, !.since = 0]

\* socket() and connect() succeed.
Opened(l, d) ==
  [l EXCEPT !.sock = d, !.open = @ \cup {d}, !.up = TRUE, !.seen = {}]

\* handshake_c0c1, s0s1s2 and c2: the peer may go, or speak another version.
Shaken(l) == {[ok |-> TRUE,  l |-> [l EXCEPT !.state = "CONNECT"]],
              [ok |-> FALSE, l |-> Disconnected(l)]}

\* rtmp_connect: what may become of l, and whether it returned true.  It closes no
\* descriptor that l may still have, and without a connection it leaves the state.
Dialled(l) ==
  {[ok |-> FALSE,
    l  |-> [l EXCEPT !.sock = NoSocket, !.up = FALSE, !.seen = {}]]}
  \cup UNION {Shaken(Opened(l, d)) : d \in Descriptor \ l.open}

\* rtmp_send_packet: it fails without a socket, or when the socket does, and then
\* the peer makes no sense of what follows; what it sends to a peer that has gone
\* is lost.
Sent(l, command) ==
  {[ok |-> FALSE, l |-> [l EXCEPT !.up = FALSE]]}
  \cup
  (IF l.sock = NoSocket THEN {}
   ELSE {[ok |-> TRUE,
          l |-> IF l.up THEN [l EXCEPT !.seen = @ \cup {command}] ELSE l]})

\* rtmp_send_connect, and rtmp_stream_send_metadata for the library's send_metadata
\* or, with "data", for the application: nothing is sent when the message can not be
\* encoded.
SendConnect(l)  == {[ok |-> FALSE, l |-> l]} \cup Sent(l, "connect")
SendMetadata(l) == {[ok |-> FALSE, l |-> l]} \cup Sent(l, "metadata")
SendData(l)     == {[ok |-> FALSE, l |-> l]} \cup Sent(l, "data")

\* rtmp_read_packet, when it could read a packet of n bytes: it acknowledges when
\* the difference of the two counters, which wrap, has reached the window.
MutCounted(l, n) ==
  LET got == (l.got + n) % Word IN
  IF got >= l.acked + l.window
  THEN [l EXCEPT !.got = got, !.acked = got, !.since = 0]
  ELSE [l EXCEPT !.got = got, !.since = @ + n]
Counted(l, n) ==
  LET got == (l.got + n) % Word IN
  IF (got + Word - l.acked) % Word >= l.window
  THEN [l EXCEPT !.got = got, !.acked = got, !.since = 0]
  ELSE [l EXCEPT !.got = got, !.since = @ + n]

\* handle_command_message acts on _result only, handle_control_message on the two
\* sizes; rtmp_handle_packet passes the rest on or drops it.
HandleCommand(l) ==
  {l, [l EXCEPT !.state = IF @ = "CONNECT" THEN "CONNECTED" ELSE @]}
HandleControl(l) ==
  {l} \cup {[l EXCEPT !.chunk = c]  : c \in ChunkSize}
      \cup {[l EXCEPT !.window = w] : w \in Window}
Handled(l) == HandleCommand(l) \cup HandleControl(l) \cup {l}

-----------------------------------------------------------------------------
(* The application *)

Running == ~looping

\* A payload cut into chunks of no bytes is never sent off, nor read.
Stalls == link.chunk = "zero" /\ link.sock # NoSocket

\* rtmp_stream_connect, in any state: a descriptor in use is overwritten.  The chunk
\* size may be what a former peer asked for.
Connect ==
  /\ Running
  /\ \E dial \in Dialled(link) :
       IF ~dial.ok
       THEN link' = dial.l /\ stream' = "IDLE" /\ UNCHANGED looping
       ELSE \/ /\ link.chunk = "zero"
               /\ link' = dial.l /\ stream' = "CONNECTING" /\ looping' = TRUE
            \/ \E sent \in SendConnect(dial.l) :
                 /\ sent.ok => link.chunk # "zero"
                 /\ link' = IF sent.ok THEN sent.l ELSE Disconnected(sent.l)
                 /\ stream' = IF sent.ok THEN "CONNECTING" ELSE "IDLE"
                 /\ UNCHANGED looping
  /\ lost' = lost \cup ({link.sock} \ {NoSocket})
  /\ rebuilt' = FALSE
  /\ UNCHANGED quality

\* rtmp_stream_disconnect
Disconnect ==
  /\ Running /\ stream # "IDLE"
  /\ link' = Disconnected(link)
  /\ stream' = "IDLE"
  /\ rebuilt' = FALSE
  /\ UNCHANGED <<quality, lost, looping>>

\* rtmp_stream_publish does not wait for an answer to connect or createStream.
Publish ==
  /\ Running /\ stream # "IDLE" /\ ~Stalls
  /\ \E create \in Sent(link, "createStream") :
       IF ~create.ok THEN link' = create.l /\ UNCHANGED stream
       ELSE \E publish \in Sent(create.l, "publish") :
         IF ~publish.ok THEN link' = publish.l /\ UNCHANGED stream
         ELSE \E meta \in SendMetadata(publish.l) :
                link' = meta.l /\ stream' = "PUBLISHING"
  /\ UNCHANGED <<quality, rebuilt, lost, looping>>

\* rtmp_stream_set_video_config and set_audio_config, and set_quality, which sets
\* the bit rate (AUTO sets none): what becomes of the link.
SetConfig(l) ==
  IF stream = "PUBLISHING" THEN {meta.l : meta \in SendMetadata(l)} ELSE {l}
SetQuality(l, q) == IF q = "AUTO" THEN {l} ELSE SetConfig(l)

\* check_quality: a step of quality, down when the rate is over 90 % of the
\* maximum, up when it is under 70 %; AUTO, the last value, counts as worst.
Adapted ==
  {quality} \cup CASE quality = "HIGH"   -> {"MEDIUM"}
                   [] quality = "MEDIUM" -> {"HIGH", "LOW"}
                   [] quality = "LOW"    -> {"MEDIUM"}
                   [] quality = "AUTO"   -> {"LOW"}

MutSendMedia ==
  /\ Running /\ stream # "IDLE" /\ ~Stalls
  /\ \E media \in Sent(link, "media") : link' = media.l
  /\ UNCHANGED <<stream, quality, rebuilt, lost, looping>>
\* rtmp_stream_send_video with a key frame, and send_audio, which keeps the
\* quality; a new one is set.
SendMedia ==
  /\ Running /\ stream = "PUBLISHING" /\ ~Stalls
  /\ \E media \in Sent(link, "media") :
       IF ~media.ok THEN link' = media.l /\ UNCHANGED quality
       ELSE /\ quality' \in Adapted
            /\ link' \in IF quality' = quality THEN {media.l}
                         ELSE SetQuality(media.l, quality')
  /\ UNCHANGED <<stream, rebuilt, lost, looping>>

Configure ==
  /\ Running /\ ~Stalls
  /\ \/ link' \in SetConfig(link) /\ UNCHANGED quality
     \/ quality' \in Quality /\ link' \in SetQuality(link, quality')
  /\ UNCHANGED <<stream, rebuilt, lost, looping>>

\* rtmp_stream_send_metadata, which tests no state either.
SendsData ==
  /\ Running /\ ~Stalls
  /\ \E data \in SendData(link) : link' = data.l
  /\ UNCHANGED <<stream, quality, rebuilt, lost, looping>>

\* Publish, a frame, a configuration, metadata or a packet to read when the peer has
\* asked for chunks of no bytes: the call never returns.
Loops ==
  /\ Running /\ Stalls
  /\ looping' = TRUE
  /\ UNCHANGED <<stream, quality, link, rebuilt, lost>>

\* A peer that has gone may have left packets to read.  One without a payload is
\* counted, and nothing in it is handled.
Receive ==
  /\ Running /\ link.sock # NoSocket
  /\ \E n \in 1..MaxPacket :
       LET counted == Counted(link, n) IN
       link' \in IF Stalls THEN {counted} ELSE Handled(counted)
  /\ UNCHANGED <<stream, quality, rebuilt, lost, looping>>

-----------------------------------------------------------------------------
(* The peer and the monitor *)

PeerGoes ==
  /\ link.up
  /\ link' = [link EXCEPT !.up = FALSE]
  /\ UNCHANGED <<stream, quality, rebuilt, lost, looping>>

\* attempt_reconnect: disconnect and connect, and nothing that the stream sent.
Rebuild ==
  /\ Running
  /\ \E dial \in Dialled(Disconnected(link)) : link' = dial.l
  /\ rebuilt' = TRUE
  /\ UNCHANGED <<stream, quality, lost, looping>>

StreamNext ==
  \/ Connect \/ Disconnect \/ Publish \/ SendMedia \/ Configure \/ SendsData
  \/ Loops \/ Receive \/ PeerGoes \/ Rebuild

StreamSpec == StreamInit /\ [][StreamNext]_streamVars

-----------------------------------------------------------------------------
StreamTypeOK ==
  /\ stream \in StreamState
  /\ quality \in Quality
  /\ link \in LinkType
  /\ rebuilt \in BOOLEAN /\ looping \in BOOLEAN
  /\ lost \subseteq Descriptor

\* The stream and its context agree after every call, however it failed.  No
\* descriptor leaks but those that repeated connects overwrote (rtmp_protocol.c:62).
\* The context is disconnected exactly while it has no socket, unless a connect that
\* found a socket and failed left it the old state.  And the stream is idle exactly
\* then (rtmp_stream.c:118-130), unless the monitor has rebuilt the connection, of
\* which the stream is not told before its next connect or disconnect.
LinkAgrees ==
  /\ link.open = ({link.sock} \ {NoSocket}) \cup lost
  /\ link.sock \notin lost
  /\ link.state = "DISCONNECTED" => link.sock = NoSocket
  /\ link.sock = NoSocket /\ lost = {} => link.state = "DISCONNECTED"
  /\ ~rebuilt => (stream = "IDLE" <=> link.sock = NoSocket)

\* A peer gets frames, and the metadata that the library sends itself, only on a
\* connection on which connect, createStream and publish came before
\* (rtmp_stream.c:160-175): also after failed calls, a peer that went, a second
\* connect and a new connection.  (Metadata of the application's own, "data", it gets
\* at any time: 272 tests no state.)  A connection that the monitor rebuilt breaks it,
\* until the next connect or disconnect: the stream goes on publishing to a peer that
\* knows nothing.
MediaIsAnnounced ==
  ~rebuilt /\ link.seen \cap {"media", "metadata"} # {} =>
    {"connect", "createStream", "publish"} \subseteq link.seen

\* What was read since the last acknowledgement stays below the window that held
\* when it was read (rtmp_protocol.c:351), across the wrap of both counters and
\* across connections.
AckKept == [][link'.since > link.since => link'.since < link.window]_streamVars
=============================================================================
