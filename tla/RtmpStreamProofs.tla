-------------------------- MODULE RtmpStreamProofs --------------------------
(***************************************************************************)
(* The safety of RtmpStream for any descriptors, windows, packets and word *)
(* size that StreamConstants allows.                                       *)
(***************************************************************************)
EXTENDS RtmpStream, Integers, TLAPS

\* What a peer that is still there has been sent before the stream may send frames.
Announced ==
  ~rebuilt /\ link.up =>
    /\ stream # "IDLE" /\ ~looping => "connect" \in link.seen
    /\ stream = "PUBLISHING" => {"createStream", "publish"} \subseteq link.seen

\* `since' is the difference of the two counters that wrap, and there is room below
\* the word for one packet more.
Unacked(l) ==
  /\ l.since = (l.got + Word - l.acked) % Word
  /\ l.since + MaxPacket < Word

StreamInv ==
  StreamTypeOK /\ LinkAgrees /\ MediaIsAnnounced /\ Announced /\ Unacked(link)

-----------------------------------------------------------------------------
(* What the calls of rtmp_protocol.c make of a link *)

\* rtmp_disconnect leaves a link without a socket and closes the one it had.
LEMMA DisconnectedFacts ==
  ASSUME StreamConstants, NEW l \in LinkType
  PROVE  /\ Disconnected(l) \in LinkType
         /\ Disconnected(l).sock = NoSocket
         /\ Disconnected(l).state = "DISCONNECTED"
         /\ Disconnected(l).open = l.open \ {l.sock}
         /\ Disconnected(l).seen = {}
         /\ ~Disconnected(l).up
         /\ Disconnected(l).since = 0 /\ Unacked(Disconnected(l))
<1>1. 0 \in 0..(Word - 1)
  BY DEF StreamConstants
<1>2. Disconnected(l) \in LinkType
  BY <1>1 DEF LinkType, LinkState, Disconnected
<1>3. /\ Disconnected(l).since = 0 /\ Disconnected(l).got = 0
      /\ Disconnected(l).acked = 0
  BY DEF LinkType, Disconnected
<1>4. 0 = (0 + Word - 0) % Word /\ 0 + MaxPacket < Word
  BY DEF StreamConstants
<1> QED BY <1>2, <1>3, <1>4 DEF LinkType, Disconnected, Unacked

\* A send changes only what the peer has seen, and whether it is there.
LEMMA SentFacts ==
  ASSUME NEW l \in LinkType, NEW command \in Command, NEW r \in Sent(l, command)
  PROVE  /\ r.l \in LinkType
         /\ r.l.sock = l.sock /\ r.l.state = l.state /\ r.l.open = l.open
         /\ r.l.up => l.up
         /\ r.l.up => command \in r.l.seen
         /\ r.l.since = l.since /\ (Unacked(l) => Unacked(r.l))
         /\ r.l.seen = l.seen \/ (l.up /\ r.l.seen = l.seen \cup {command})
<1>1. CASE r = [ok |-> FALSE, l |-> [l EXCEPT !.up = FALSE]]
  BY <1>1 DEF LinkType, Unacked
<1>2. CASE r = [ok |-> TRUE,
                l |-> IF l.up THEN [l EXCEPT !.seen = @ \cup {command}] ELSE l]
  <2>1. CASE l.up
    BY <1>2, <2>1 DEF LinkType, Unacked
  <2>2. CASE ~l.up
    BY <1>2, <2>2 DEF LinkType, Unacked
  <2> QED BY <2>1, <2>2
<1> QED BY <1>1, <1>2 DEF Sent

\* So does a message that may fail to be encoded.
LEMMA MetadataFacts ==
  ASSUME NEW l \in LinkType, NEW r \in SendMetadata(l)
  PROVE  /\ r.l \in LinkType
         /\ r.l.sock = l.sock /\ r.l.state = l.state /\ r.l.open = l.open
         /\ r.l.up => l.up
         /\ r.l.since = l.since /\ (Unacked(l) => Unacked(r.l))
         /\ r.l.seen = l.seen \/ (l.up /\ r.l.seen = l.seen \cup {"metadata"})
<1>1. CASE r \in Sent(l, "metadata")
  BY <1>1, SentFacts DEF Command
<1>2. CASE r = [ok |-> FALSE, l |-> l]
  BY <1>2
<1> QED BY <1>1, <1>2 DEF SendMetadata

\* So does the application's own metadata.
LEMMA DataFacts ==
  ASSUME NEW l \in LinkType, NEW r \in SendData(l)
  PROVE  /\ r.l \in LinkType
         /\ r.l.sock = l.sock /\ r.l.state = l.state /\ r.l.open = l.open
         /\ r.l.up => l.up
         /\ r.l.since = l.since /\ (Unacked(l) => Unacked(r.l))
         /\ r.l.seen = l.seen \/ (l.up /\ r.l.seen = l.seen \cup {"data"})
<1>1. CASE r \in Sent(l, "data")
  BY <1>1, SentFacts DEF Command
<1>2. CASE r = [ok |-> FALSE, l |-> l]
  BY <1>2
<1> QED BY <1>1, <1>2 DEF SendData

\* The command connect, which may fail to be encoded too.
LEMMA ConnectSentFacts ==
  ASSUME NEW l \in LinkType, NEW r \in SendConnect(l)
  PROVE  /\ r.l \in LinkType
         /\ r.l.sock = l.sock /\ r.l.state = l.state /\ r.l.open = l.open
         /\ r.l.up /\ r.ok => "connect" \in r.l.seen
         /\ r.l.since = l.since /\ (Unacked(l) => Unacked(r.l))
         /\ r.l.seen = l.seen \/ r.l.seen = l.seen \cup {"connect"}
<1>1. CASE r \in Sent(l, "connect")
  BY <1>1, SentFacts DEF Command
<1>2. CASE r = [ok |-> FALSE, l |-> l]
  BY <1>2
<1> QED BY <1>1, <1>2 DEF SendConnect

\* rtmp_connect: no socket, or a new one, to a peer that has seen nothing; from a
\* link without a socket, that is the only one more that is open.
LEMMA DialledFacts ==
  ASSUME StreamConstants, NEW l \in LinkType, NEW r \in Dialled(l)
  PROVE  /\ r.l \in LinkType
         /\ r.l.since \in {l.since, 0} /\ (Unacked(l) => Unacked(r.l))
         /\ ~r.ok => /\ r.l.sock = NoSocket /\ ~r.l.up
                     /\ r.l.state \in {l.state, "DISCONNECTED"}
                     /\ r.l.open = l.open
                     /\ r.l.seen = {}
         /\ r.ok  => /\ r.l.sock \in Descriptor \ l.open /\ r.l.state = "CONNECT"
                     /\ r.l.open = l.open \cup {r.l.sock}
                     /\ r.l.seen = {}
<1> DEFINE Facts ==
         /\ r.l \in LinkType
         /\ r.l.since \in {l.since, 0} /\ (Unacked(l) => Unacked(r.l))
         /\ ~r.ok => /\ r.l.sock = NoSocket /\ ~r.l.up
                     /\ r.l.state \in {l.state, "DISCONNECTED"}
                     /\ r.l.open = l.open
                     /\ r.l.seen = {}
         /\ r.ok  => /\ r.l.sock \in Descriptor \ l.open /\ r.l.state = "CONNECT"
                     /\ r.l.open = l.open \cup {r.l.sock}
                     /\ r.l.seen = {}
<1>1. CASE r = [ok |-> FALSE,
                l |-> [l EXCEPT !.sock = NoSocket, !.up = FALSE, !.seen = {}]]
  BY <1>1 DEF LinkType, Unacked
<1>2. ASSUME NEW d \in Descriptor \ l.open, r \in Shaken(Opened(l, d))
      PROVE  Facts
  <2> DEFINE new == Opened(l, d)
  <2>1. /\ new \in LinkType /\ new.sock = d /\ new.seen = {}
        /\ new.open = l.open \cup {d}
        /\ new.since = l.since /\ new.got = l.got /\ new.acked = l.acked
    BY DEF LinkType, Opened
  <2>2. r \in Shaken(new)
    BY <1>2
  <2> HIDE DEF new
  <2>3. CASE r = [ok |-> TRUE, l |-> [new EXCEPT !.state = "CONNECT"]]
    BY <2>1, <2>3 DEF LinkType, LinkState, Unacked
  <2>4. CASE r = [ok |-> FALSE, l |-> Disconnected(new)]
    <3>1. new.open \ {d} = l.open
      BY <2>1
    <3>2. ~r.ok /\ r.l = Disconnected(new)
      BY <2>4
    <3>3. /\ Disconnected(new) \in LinkType
          /\ Disconnected(new).sock = NoSocket
          /\ Disconnected(new).state = "DISCONNECTED"
          /\ Disconnected(new).open = new.open \ {new.sock}
          /\ Disconnected(new).seen = {}
          /\ ~Disconnected(new).up
          /\ Disconnected(new).since = 0 /\ Unacked(Disconnected(new))
      BY <2>1, DisconnectedFacts
    <3> QED BY <2>1, <3>1, <3>2, <3>3
  <2> QED BY <2>2, <2>3, <2>4 DEF Shaken
<1> QED BY <1>1, <1>2 DEF Dialled

\* Counters below the word, added or subtracted, wrap at most once.
LEMMA WrapsOnce ==
  ASSUME NEW W \in Nat \ {0}, NEW x \in 0..(2 * W - 1)
  PROVE  x % W = IF x < W THEN x ELSE x - W
<1>1. CASE x < W
  BY <1>1
<1>2. CASE x >= W
  <2>1. PICK y \in 0..(W - 1) : x = y + W
    <3>1. x - W \in 0..(W - 1) /\ x = (x - W) + W
      BY <1>2
    <3> QED BY <3>1
  <2>2. (y + W) % W = y
    OBVIOUS
  <2> QED BY <2>1, <2>2
<1> QED BY <1>1, <1>2

\* What is read adds to what is not acknowledged, or all of it is acknowledged.
LEMMA CountedFacts ==
  ASSUME StreamConstants, NEW l \in LinkType, Unacked(l), NEW n \in 1..MaxPacket
  PROVE  /\ Counted(l, n) \in LinkType /\ Unacked(Counted(l, n))
         /\ Counted(l, n).since > l.since => Counted(l, n).since < l.window
         /\ Counted(l, n).sock = l.sock /\ Counted(l, n).state = l.state
         /\ Counted(l, n).open = l.open /\ Counted(l, n).up = l.up
         /\ Counted(l, n).seen = l.seen
<1> DEFINE W(x) == x % Word
           g == l.got   a == l.acked   h == W(g + n)   d == W(h + Word - a)
<1>1. /\ Word \in Nat \ {0} /\ MaxPacket \in Nat /\ MaxPacket < Word
      /\ \A w \in Window : w \in Nat /\ w + MaxPacket < Word
  BY DEF StreamConstants
<1>0. \A x \in 0..(2 * Word - 1) : W(x) = IF x < Word THEN x ELSE x - Word
  BY <1>1, WrapsOnce
<1>2. /\ g \in 0..(Word - 1) /\ a \in 0..(Word - 1) /\ l.since \in Nat
      /\ l.window \in Nat /\ l.window + MaxPacket < Word
  BY <1>1 DEF LinkType
<1>3. l.since = W(g + Word - a) /\ l.since + n < Word
  BY <1>1, <1>2 DEF Unacked
<1> HIDE DEF g, a, W
<1>4. h \in 0..(Word - 1) /\ h = IF g + n < Word THEN g + n ELSE g + n - Word
  <2>1. g + n \in 0..(2 * Word - 1)
    BY <1>1, <1>2
  <2>2. W(g + n) = IF g + n < Word THEN g + n ELSE g + n - Word
    BY <1>0, <1>1, <1>2, <2>1
  <2>3. h = IF g + n < Word THEN g + n ELSE g + n - Word
    BY <2>2
  <2> HIDE DEF h
  <2> QED BY <1>1, <1>2, <2>3
<1>5. l.since = IF g < a THEN g + Word - a ELSE g - a
  <2>1. g + Word - a \in 0..(2 * Word - 1)
    BY <1>1, <1>2
  <2>2. W(g + Word - a) =
          IF g + Word - a < Word THEN g + Word - a ELSE g + Word - a - Word
    BY <1>0, <1>1, <1>2, <2>1
  <2> QED BY <1>1, <1>2, <1>3, <2>2
<1> HIDE DEF h
<1>6. d = IF h < a THEN h + Word - a ELSE h - a
  <2>1. h + Word - a \in 0..(2 * Word - 1)
    BY <1>1, <1>2, <1>4
  <2>2. W(h + Word - a) =
          IF h + Word - a < Word THEN h + Word - a ELSE h + Word - a - Word
    BY <1>0, <1>1, <1>2, <1>4, <2>1
  <2>3. d = IF h + Word - a < Word THEN h + Word - a ELSE h + Word - a - Word
    BY <2>2
  <2> HIDE DEF d
  <2> QED BY <1>1, <1>2, <1>4, <2>3
<1> HIDE DEF d
<1>7. d = l.since + n
  BY <1>1, <1>2, <1>3, <1>4, <1>5, <1>6
<1>8. W(h + Word - h) = 0
  <2>1. Word \in 0..(2 * Word - 1) /\ h + Word - h = Word
    BY <1>1, <1>4
  <2>2. W(Word) = 0
    BY <1>0, <1>1, <2>1
  <2> QED BY <2>1, <2>2
<1>9. CASE d >= l.window
  <2>1. Counted(l, n) = [l EXCEPT !.got = h, !.acked = h, !.since = 0]
    BY <1>9 DEF Counted, g, a, h, d, W
  <2>2. Counted(l, n) \in LinkType
    <3>1. 0 \in Nat /\ h \in 0..(Word - 1)
      BY <1>4
    <3> QED BY <2>1, <3>1 DEF LinkType
  <2>3. Unacked(Counted(l, n))
    BY <1>1, <1>8, <2>1 DEF LinkType, Unacked, W
  <2>4. ~(Counted(l, n).since > l.since)
    BY <1>2, <2>1 DEF LinkType
  <2> QED BY <2>1, <2>2, <2>3, <2>4 DEF LinkType
<1>10. CASE ~(d >= l.window)
  <2>1. Counted(l, n) = [l EXCEPT !.got = h, !.since = l.since + n]
    BY <1>10, <1>7 DEF Counted, g, a, h, d, W
  <2>2. d < l.window /\ l.window + MaxPacket < Word
    BY <1>1, <1>2, <1>4, <1>6, <1>10
  <2>3. l.since + n = (h + Word - l.acked) % Word
    BY <1>7 DEF d, a, W
  <2>4. l.since + n \in Nat /\ l.since + n + MaxPacket < Word /\ l.since + n < l.window
    BY <1>1, <1>2, <1>7, <2>2
  <2>5. Counted(l, n) \in LinkType
    BY <1>4, <2>1, <2>4 DEF LinkType
  <2>6. Unacked(Counted(l, n))
    BY <2>1, <2>3, <2>4 DEF LinkType, Unacked
  <2> QED BY <2>1, <2>4, <2>5, <2>6 DEF LinkType
<1> QED BY <1>9, <1>10

\* A message handled changes the state from CONNECT to CONNECTED or one size.
LEMMA HandledFacts ==
  ASSUME NEW l \in LinkType, NEW m \in Handled(l)
  PROVE  /\ m \in LinkType
         /\ m.sock = l.sock /\ m.open = l.open /\ m.up = l.up /\ m.seen = l.seen
         /\ m.since = l.since /\ m.got = l.got /\ m.acked = l.acked
         /\ m.state = "DISCONNECTED" <=> l.state = "DISCONNECTED"
<1>1. CASE m \in HandleCommand(l)
  BY <1>1 DEF HandleCommand, LinkType, LinkState
<1>2. CASE m \in HandleControl(l)
  BY <1>2 DEF HandleControl, LinkType
<1>3. CASE m = l
  BY <1>3
<1> QED BY <1>1, <1>2, <1>3 DEF Handled

-----------------------------------------------------------------------------
(* The invariant *)

\* m keeps of l what the invariant speaks of, but that more may have been seen, and
\* frames or metadata only if the peer is there and the stream publishes.
Extends(m, l) ==
  /\ m \in LinkType /\ Unacked(m)
  /\ m.sock = l.sock /\ m.open = l.open /\ (m.up => l.up)
  /\ m.state = "DISCONNECTED" <=> l.state = "DISCONNECTED"
  /\ l.seen \subseteq m.seen
  /\ \/ m.seen \cap {"media", "metadata"} = l.seen \cap {"media", "metadata"}
     \/ l.up /\ stream = "PUBLISHING" /\ ~looping

LEMMA InitStreamInv == ASSUME StreamConstants, StreamInit PROVE StreamInv
<1>1. StreamTypeOK
  <2>1. /\ 0 \in 0..(Word - 1) /\ 0 \in Nat
        /\ {} \in SUBSET Descriptor /\ {} \in SUBSET Command
    BY DEF StreamConstants
  <2>2. link \in LinkType
    BY <2>1 DEF StreamConstants, StreamInit, LinkType, LinkState, ChunkSize
  <2> QED BY <2>2 DEF StreamInit, StreamTypeOK, StreamState, Quality
<1>2. LinkAgrees /\ MediaIsAnnounced /\ Announced
  BY DEF StreamInit, LinkAgrees, MediaIsAnnounced, Announced
<1>3. Unacked(link)
  <2>1. 0 = (0 + Word - 0) % Word /\ 0 + MaxPacket < Word
    BY DEF StreamConstants
  <2> QED BY <2>1 DEF StreamInit, Unacked
<1> QED BY <1>1, <1>2, <1>3 DEF StreamInv

\* rtmp_stream_connect
LEMMA ConnectKeepsStreamInv ==
  ASSUME StreamConstants, StreamInv, Connect
  PROVE  StreamInv'
<1>1. /\ StreamTypeOK /\ LinkAgrees /\ MediaIsAnnounced /\ Announced /\ Unacked(link)
      /\ link \in LinkType
      /\ UNCHANGED quality /\ rebuilt' = FALSE
      /\ lost' = lost \cup ({link.sock} \ {NoSocket})
      /\ lost' \subseteq Descriptor /\ lost' \subseteq link.open
      /\ NoSocket \notin Descriptor
  BY DEF StreamInv, StreamTypeOK, LinkType, LinkAgrees, Connect, StreamConstants
<1>2. PICK dial \in Dialled(link) :
        IF ~dial.ok
        THEN link' = dial.l /\ stream' = "IDLE" /\ UNCHANGED looping
        ELSE \/ /\ link.chunk = "zero"
                /\ link' = dial.l /\ stream' = "CONNECTING" /\ looping' = TRUE
             \/ \E sent \in SendConnect(dial.l) :
                  /\ sent.ok => link.chunk # "zero"
                  /\ link' = IF sent.ok THEN sent.l ELSE Disconnected(sent.l)
                  /\ stream' = IF sent.ok THEN "CONNECTING" ELSE "IDLE"
                  /\ UNCHANGED looping
  BY DEF Connect
<1>3. /\ dial.l \in LinkType /\ Unacked(dial.l)
      /\ ~dial.ok => /\ dial.l.sock = NoSocket /\ ~dial.l.up
                     /\ dial.l.state \in {link.state, "DISCONNECTED"}
                     /\ dial.l.open = link.open
                     /\ dial.l.seen = {}
      /\ dial.ok  => /\ dial.l.sock \in Descriptor \ link.open /\ dial.l.state = "CONNECT"
                     /\ dial.l.open = link.open \cup {dial.l.sock}
                     /\ dial.l.seen = {}
  BY <1>1, DialledFacts
<1>4. CASE ~dial.ok
  <2>1. link' = dial.l /\ stream' = "IDLE" /\ UNCHANGED looping
    BY <1>2, <1>4
  <2>2. StreamTypeOK' /\ Unacked(link)'
    BY <1>1, <1>3, <2>1 DEF StreamTypeOK, Unacked, StreamState
  <2>3. LinkAgrees'
    BY <1>1, <1>3, <1>4, <2>1 DEF LinkAgrees
  <2>4. MediaIsAnnounced' /\ Announced'
    BY <1>1, <1>3, <1>4, <2>1 DEF MediaIsAnnounced, Announced
  <2> QED BY <2>2, <2>3, <2>4 DEF StreamInv
<1>5. CASE dial.ok /\ link' = dial.l /\ stream' = "CONNECTING" /\ looping' = TRUE
  <2>1. StreamTypeOK' /\ Unacked(link)'
    BY <1>1, <1>3, <1>5 DEF StreamTypeOK, Unacked, StreamState
  <2>2. LinkAgrees'
    BY <1>1, <1>3, <1>5 DEF LinkAgrees
  <2>3. MediaIsAnnounced' /\ Announced'
    BY <1>1, <1>3, <1>5 DEF MediaIsAnnounced, Announced
  <2> QED BY <2>1, <2>2, <2>3 DEF StreamInv
<1>6. ASSUME dial.ok, NEW sent \in SendConnect(dial.l),
             link' = IF sent.ok THEN sent.l ELSE Disconnected(sent.l),
             stream' = IF sent.ok THEN "CONNECTING" ELSE "IDLE",
             UNCHANGED looping
      PROVE  StreamInv'
  <2>1. /\ sent.l \in LinkType /\ Unacked(sent.l)
        /\ sent.l.sock \in Descriptor \ link.open /\ sent.l.state = "CONNECT"
        /\ sent.l.open = link.open \cup {sent.l.sock}
        /\ sent.l.up /\ sent.ok => "connect" \in sent.l.seen
        /\ sent.l.seen \cap {"media", "metadata"} = {}
    <3>1. /\ sent.l \in LinkType
          /\ sent.l.sock = dial.l.sock /\ sent.l.state = dial.l.state
          /\ sent.l.open = dial.l.open
          /\ sent.l.up /\ sent.ok => "connect" \in sent.l.seen
          /\ Unacked(dial.l) => Unacked(sent.l)
          /\ \/ sent.l.seen = dial.l.seen
             \/ sent.l.seen = dial.l.seen \cup {"connect"}
      BY <1>3, ConnectSentFacts
    <3> QED BY <1>3, <1>6, <3>1
  <2>2. CASE sent.ok
    <3>1. link' = sent.l /\ stream' = "CONNECTING"
      BY <1>6, <2>2
    <3>2. StreamTypeOK' /\ Unacked(link)'
      BY <1>1, <1>6, <2>1, <3>1 DEF StreamTypeOK, Unacked, StreamState
    <3>3. LinkAgrees'
      BY <1>1, <2>1, <3>1 DEF LinkAgrees
    <3>4. MediaIsAnnounced' /\ Announced'
      BY <1>1, <2>1, <2>2, <3>1 DEF MediaIsAnnounced, Announced
    <3> QED BY <3>2, <3>3, <3>4 DEF StreamInv
  <2>3. CASE ~sent.ok
    <3>1. link' = Disconnected(sent.l) /\ stream' = "IDLE"
      BY <1>6, <2>3
    <3>2. /\ Disconnected(sent.l) \in LinkType
          /\ Disconnected(sent.l).sock = NoSocket
          /\ Disconnected(sent.l).state = "DISCONNECTED"
          /\ Disconnected(sent.l).open = sent.l.open \ {sent.l.sock}
          /\ Disconnected(sent.l).seen = {}
          /\ ~Disconnected(sent.l).up
          /\ Unacked(Disconnected(sent.l))
      BY <2>1, DisconnectedFacts
    <3>3. StreamTypeOK' /\ Unacked(link)'
      BY <1>1, <1>6, <3>1, <3>2 DEF StreamTypeOK, Unacked, StreamState
    <3>4. LinkAgrees'
      BY <1>1, <2>1, <3>1, <3>2 DEF LinkAgrees
    <3>5. MediaIsAnnounced' /\ Announced'
      BY <1>1, <2>1, <3>1, <3>2 DEF MediaIsAnnounced, Announced
    <3> QED BY <3>3, <3>4, <3>5 DEF StreamInv
  <2> QED BY <2>2, <2>3
<1> QED BY <1>2, <1>4, <1>5, <1>6

\* A step that only extends the link.
LEMMA ExtendsKeepsStreamInv ==
  ASSUME StreamInv, UNCHANGED <<stream, rebuilt, lost, looping>>, quality' \in Quality,
         Extends(link', link)
  PROVE  StreamInv'
<1>1. /\ StreamTypeOK /\ LinkAgrees /\ MediaIsAnnounced /\ Announced
      /\ UNCHANGED <<stream, rebuilt, lost, looping>>
  BY DEF StreamInv
<1>2. StreamTypeOK' /\ Unacked(link)'
  BY <1>1 DEF Extends, StreamTypeOK, Unacked
<1>3. LinkAgrees'
  BY <1>1 DEF Extends, LinkAgrees
<1>4. Announced'
  BY <1>1 DEF Extends, Announced
<1>5. MediaIsAnnounced'
  BY <1>1 DEF Extends, MediaIsAnnounced, Announced
<1> QED BY <1>2, <1>3, <1>4, <1>5 DEF StreamInv

\* rtmp_stream_set_video_config and the others send at most metadata, and that of a
\* stream that publishes.
LEMMA ConfigExtends ==
  ASSUME NEW l \in LinkType, Unacked(l), ~looping,
         NEW q \in Quality, NEW m \in SetConfig(l) \cup SetQuality(l, q)
  PROVE  Extends(m, l)
<1>1. CASE m = l
  BY <1>1 DEF Extends
<1>2. ASSUME stream = "PUBLISHING", NEW r \in SendMetadata(l), m = r.l
      PROVE  Extends(m, l)
  <2>1. /\ r.l \in LinkType
        /\ r.l.sock = l.sock /\ r.l.state = l.state /\ r.l.open = l.open
        /\ r.l.up => l.up
        /\ Unacked(l) => Unacked(r.l)
        /\ r.l.seen = l.seen \/ (l.up /\ r.l.seen = l.seen \cup {"metadata"})
    BY MetadataFacts
  <2> QED BY <1>2, <2>1 DEF Extends
<1> QED BY <1>1, <1>2 DEF SetConfig, SetQuality

\* rtmp_stream_publish
LEMMA PublishKeepsStreamInv ==
  ASSUME StreamInv, Publish PROVE StreamInv'
<1>1. /\ StreamTypeOK /\ LinkAgrees /\ MediaIsAnnounced /\ Announced /\ Unacked(link)
      /\ link \in LinkType /\ quality \in Quality
      /\ stream # "IDLE" /\ ~looping /\ UNCHANGED <<quality, rebuilt, lost, looping>>
  BY DEF StreamInv, StreamTypeOK, Publish, Running
<1>2. PICK create \in Sent(link, "createStream") :
        IF ~create.ok THEN link' = create.l /\ UNCHANGED stream
        ELSE \E publish \in Sent(create.l, "publish") :
          IF ~publish.ok THEN link' = publish.l /\ UNCHANGED stream
          ELSE \E meta \in SendMetadata(publish.l) :
                 link' = meta.l /\ stream' = "PUBLISHING"
  BY DEF Publish
<1>3. /\ create.l \in LinkType /\ Unacked(create.l)
      /\ create.l.sock = link.sock /\ create.l.state = link.state
      /\ create.l.open = link.open
      /\ create.l.up => link.up /\ "createStream" \in create.l.seen
      /\ \/ create.l.seen = link.seen
         \/ create.l.seen = link.seen \cup {"createStream"}
  BY <1>1, SentFacts DEF Command
<1>4. CASE ~create.ok
  <2>1. link' = create.l /\ UNCHANGED stream
    BY <1>2, <1>4
  <2>2. Extends(link', link)
    BY <1>3, <2>1 DEF Extends
  <2> QED BY <1>1, <2>1, <2>2, ExtendsKeepsStreamInv
<1>5. ASSUME create.ok, NEW publish \in Sent(create.l, "publish"),
             IF ~publish.ok THEN link' = publish.l /\ UNCHANGED stream
             ELSE \E meta \in SendMetadata(publish.l) :
                    link' = meta.l /\ stream' = "PUBLISHING"
      PROVE  StreamInv'
  <2>1. /\ publish.l \in LinkType /\ Unacked(publish.l)
        /\ publish.l.sock = create.l.sock /\ publish.l.state = create.l.state
        /\ publish.l.open = create.l.open
        /\ publish.l.up => create.l.up /\ "publish" \in publish.l.seen
        /\ \/ publish.l.seen = create.l.seen
           \/ publish.l.seen = create.l.seen \cup {"publish"}
    BY <1>3, SentFacts DEF Command
  <2>2. CASE ~publish.ok
    <3>1. link' = publish.l /\ UNCHANGED stream
      BY <1>5, <2>2
    <3>2. Extends(link', link)
      BY <1>3, <2>1, <3>1 DEF Extends
    <3> QED BY <1>1, <3>1, <3>2, ExtendsKeepsStreamInv
  <2>3. ASSUME NEW meta \in SendMetadata(publish.l),
               link' = meta.l, stream' = "PUBLISHING"
        PROVE  StreamInv'
    <3>1. /\ meta.l \in LinkType /\ Unacked(meta.l)
          /\ meta.l.sock = link.sock /\ meta.l.state = link.state
          /\ meta.l.open = link.open
          /\ meta.l.up => publish.l.up
          /\ \/ meta.l.seen = publish.l.seen
             \/ publish.l.up /\ meta.l.seen = publish.l.seen \cup {"metadata"}
      <4>1. /\ meta.l \in LinkType
            /\ meta.l.sock = publish.l.sock /\ meta.l.state = publish.l.state
            /\ meta.l.open = publish.l.open
            /\ meta.l.up => publish.l.up
            /\ Unacked(publish.l) => Unacked(meta.l)
            /\ \/ meta.l.seen = publish.l.seen
               \/ publish.l.up /\ meta.l.seen = publish.l.seen \cup {"metadata"}
        BY <2>1, MetadataFacts
      <4> QED BY <1>3, <2>1, <4>1
    <3>2. publish.l.up /\ ~rebuilt =>
            {"connect", "createStream", "publish"} \subseteq meta.l.seen
      BY <1>1, <1>3, <2>1, <3>1 DEF Announced
    <3>3. StreamTypeOK' /\ Unacked(link)'
      BY <1>1, <2>3, <3>1 DEF StreamTypeOK, Unacked, StreamState
    <3>4. LinkAgrees'
      BY <1>1, <2>3, <3>1 DEF LinkAgrees
    <3>5. Announced'
      BY <1>1, <2>3, <3>1, <3>2 DEF Announced
    <3>6. MediaIsAnnounced'
      BY <1>1, <1>3, <2>1, <2>3, <3>1, <3>2 DEF MediaIsAnnounced
    <3> QED BY <3>3, <3>4, <3>5, <3>6 DEF StreamInv
  <2> QED BY <1>5, <2>2, <2>3
<1> QED BY <1>2, <1>4, <1>5

\* rtmp_stream_send_video and send_audio
LEMMA SendMediaKeepsStreamInv ==
  ASSUME StreamInv, SendMedia PROVE StreamInv'
<1>1. /\ Unacked(link) /\ link \in LinkType /\ quality \in Quality
      /\ stream = "PUBLISHING" /\ ~looping
      /\ UNCHANGED <<stream, rebuilt, lost, looping>>
  BY DEF StreamInv, StreamTypeOK, SendMedia, Running
<1>2. PICK media \in Sent(link, "media") :
        IF ~media.ok THEN link' = media.l /\ UNCHANGED quality
        ELSE /\ quality' \in Adapted
             /\ link' \in IF quality' = quality THEN {media.l}
                          ELSE SetQuality(media.l, quality')
  BY DEF SendMedia
<1>3. /\ media.l \in LinkType /\ Unacked(media.l)
      /\ media.l.sock = link.sock /\ media.l.state = link.state
      /\ media.l.open = link.open
      /\ media.l.up => link.up
      /\ media.l.seen = link.seen \/ (link.up /\ media.l.seen = link.seen \cup {"media"})
  BY <1>1, SentFacts DEF Command
<1>4. quality' \in Quality
  BY <1>1, <1>2 DEF Adapted, Quality
<1>5. link' = media.l \/ link' \in SetQuality(media.l, quality')
  BY <1>2
<1>6. Extends(media.l, link)
  BY <1>1, <1>3 DEF Extends
<1>7. Extends(link', link)
  <2>1. CASE link' = media.l
    BY <1>6, <2>1
  <2>2. CASE link' \in SetQuality(media.l, quality')
    <3>1. Extends(link', media.l)
      BY <1>1, <1>3, <1>4, <2>2, ConfigExtends
    <3> QED BY <1>1, <1>3, <3>1 DEF Extends
  <2> QED BY <1>5, <2>1, <2>2
<1> QED BY <1>1, <1>4, <1>7, ExtendsKeepsStreamInv

\* attempt_reconnect of the monitor: the properties of the stream end with it, the
\* acknowledgements do not.
LEMMA RebuildKeepsStreamInv ==
  ASSUME StreamConstants, StreamInv, Rebuild PROVE StreamInv'
<1>1. /\ link \in LinkType /\ StreamTypeOK
      /\ UNCHANGED <<stream, quality, lost, looping>> /\ rebuilt'
  BY DEF StreamInv, StreamTypeOK, Rebuild
<1>2. PICK dial \in Dialled(Disconnected(link)) : link' = dial.l
  BY DEF Rebuild
<1>3. Disconnected(link) \in LinkType /\ Unacked(Disconnected(link))
  BY <1>1, DisconnectedFacts
<1>4. dial.l \in LinkType /\ Unacked(dial.l)
  BY <1>3, DialledFacts
<1>5. StreamTypeOK' /\ Unacked(link)'
  BY <1>1, <1>2, <1>4 DEF StreamTypeOK, Unacked, Rebuild
<1>6. LinkAgrees'
  <2>1. /\ Disconnected(link).sock = NoSocket
        /\ Disconnected(link).state = "DISCONNECTED"
        /\ Disconnected(link).open = lost
        /\ NoSocket \notin Descriptor /\ lost \subseteq Descriptor
    <3> DEFINE gone == Disconnected(link)
    <3>1. /\ gone.sock = NoSocket /\ gone.state = "DISCONNECTED"
          /\ gone.open = link.open \ {link.sock}
      BY <1>1, DisconnectedFacts
    <3> HIDE DEF gone
    <3>2. /\ link.open = ({link.sock} \ {NoSocket}) \cup lost
          /\ link.sock \notin lost
      BY DEF StreamInv, LinkAgrees
    <3>3. NoSocket \notin Descriptor /\ lost \subseteq Descriptor
      BY <1>1 DEF StreamTypeOK, StreamConstants
    <3>4. gone.open = lost
      BY <3>1, <3>2, <3>3
    <3> QED BY <3>1, <3>3, <3>4 DEF gone
  <2>2. /\ ~dial.ok => /\ dial.l.sock = NoSocket
                       /\ dial.l.state = "DISCONNECTED" /\ dial.l.open = lost
        /\ dial.ok  => /\ dial.l.sock \in Descriptor \ lost
                       /\ dial.l.state = "CONNECT"
                       /\ dial.l.open = lost \cup {dial.l.sock}
    BY <1>3, <2>1, DialledFacts
  <2> QED BY <1>1, <1>2, <2>1, <2>2 DEF LinkAgrees
<1>7. MediaIsAnnounced' /\ Announced'
  BY <1>1 DEF MediaIsAnnounced, Announced
<1> QED BY <1>5, <1>6, <1>7 DEF StreamInv

\* A packet read keeps the invariant, and what it adds stays below the window.
LEMMA ReceiveFacts ==
  ASSUME StreamConstants, StreamInv, Receive
  PROVE  /\ StreamInv'
         /\ link'.since > link.since => link'.since < link.window
<1>1. /\ Unacked(link) /\ link \in LinkType /\ quality' \in Quality
      /\ UNCHANGED <<stream, rebuilt, lost, looping>>
  BY DEF StreamInv, StreamTypeOK, Receive
<1>2. PICK n \in 1..MaxPacket :
        link' = Counted(link, n) \/ link' \in Handled(Counted(link, n))
  BY DEF Receive
<1> DEFINE c == Counted(link, n)
<1>3. /\ c \in LinkType /\ Unacked(c)
      /\ c.since > link.since => c.since < link.window
      /\ c.sock = link.sock /\ c.state = link.state
      /\ c.open = link.open /\ c.up = link.up /\ c.seen = link.seen
  BY <1>1, CountedFacts
<1>4. link' = c \/ link' \in Handled(c)
  BY <1>2
<1> HIDE DEF c
<1>5. /\ link' \in LinkType
      /\ link'.sock = c.sock /\ link'.open = c.open /\ link'.up = c.up
      /\ link'.seen = c.seen
      /\ link'.since = c.since /\ link'.got = c.got /\ link'.acked = c.acked
      /\ link'.state = "DISCONNECTED" <=> c.state = "DISCONNECTED"
  BY <1>3, <1>4, HandledFacts
<1>6. Extends(link', link)
  BY <1>3, <1>5 DEF Extends, Unacked
<1>7. StreamInv'
  BY <1>1, <1>6, ExtendsKeepsStreamInv
<1> QED BY <1>3, <1>5, <1>7

LEMMA StepKeepsStreamInv ==
  ASSUME StreamConstants, StreamInv, [StreamNext]_streamVars
  PROVE  StreamInv'
<1>0. /\ StreamTypeOK /\ LinkAgrees /\ MediaIsAnnounced /\ Announced /\ Unacked(link)
      /\ link \in LinkType /\ quality \in Quality
  BY DEF StreamInv, StreamTypeOK
<1>1. CASE Connect
  BY <1>1, ConnectKeepsStreamInv
<1>2. CASE Disconnect
  <2>1. /\ link' = Disconnected(link) /\ stream' = "IDLE" /\ stream # "IDLE"
        /\ rebuilt' = FALSE /\ UNCHANGED <<quality, lost, looping>>
    BY <1>2 DEF Disconnect
  <2>2. /\ Disconnected(link) \in LinkType
        /\ Disconnected(link).sock = NoSocket
        /\ Disconnected(link).state = "DISCONNECTED"
        /\ Disconnected(link).open = link.open \ {link.sock}
        /\ Disconnected(link).seen = {}
        /\ ~Disconnected(link).up
        /\ Unacked(Disconnected(link))
    BY <1>0, DisconnectedFacts
  <2>3. StreamTypeOK' /\ Unacked(link)'
    BY <1>0, <2>1, <2>2 DEF StreamTypeOK, Unacked, StreamState
  <2>4. LinkAgrees'
    BY <1>0, <2>1, <2>2 DEF LinkAgrees, StreamTypeOK, StreamConstants
  <2>5. MediaIsAnnounced' /\ Announced'
    BY <1>0, <2>1, <2>2 DEF MediaIsAnnounced, Announced
  <2> QED BY <2>3, <2>4, <2>5 DEF StreamInv
<1>3. CASE Publish
  BY <1>3, PublishKeepsStreamInv
<1>4. CASE SendMedia
  BY <1>4, SendMediaKeepsStreamInv
<1>5. CASE Configure
  <2>1. /\ ~looping /\ UNCHANGED <<stream, rebuilt, lost, looping>>
        /\ quality' \in Quality
        /\ link' \in SetConfig(link) \cup SetQuality(link, quality')
    BY <1>0, <1>5 DEF Configure, Running
  <2>2. Extends(link', link)
    BY <1>0, <2>1, ConfigExtends
  <2> QED BY <2>1, <2>2, ExtendsKeepsStreamInv
<1>6. CASE Loops
  BY <1>0, <1>6 DEF Loops, StreamInv, StreamTypeOK, LinkAgrees, MediaIsAnnounced,
                    Announced, Unacked
<1>7. CASE Receive
  BY <1>7, ReceiveFacts
<1>8. CASE PeerGoes
  <2>1. /\ link' = [link EXCEPT !.up = FALSE]
        /\ UNCHANGED <<stream, quality, rebuilt, lost, looping>>
    BY <1>8 DEF PeerGoes
  <2>2. Extends(link', link)
    BY <1>0, <2>1 DEF Extends, LinkType, Unacked
  <2> QED BY <1>0, <2>1, <2>2, ExtendsKeepsStreamInv
<1>9. CASE Rebuild
  BY <1>9, RebuildKeepsStreamInv
<1>10. CASE UNCHANGED streamVars
  BY <1>0, <1>10 DEF streamVars, StreamInv, StreamTypeOK, LinkAgrees, MediaIsAnnounced,
                     Announced, Unacked
<1>11. CASE SendsData
  <2>1. PICK data \in SendData(link) : link' = data.l
    BY <1>11 DEF SendsData
  <2>2. UNCHANGED <<stream, quality, rebuilt, lost, looping>>
    BY <1>11 DEF SendsData
  <2>3. Extends(link', link)
    <3>1. /\ data.l \in LinkType
          /\ data.l.sock = link.sock /\ data.l.state = link.state
          /\ data.l.open = link.open
          /\ data.l.up => link.up
          /\ Unacked(link) => Unacked(data.l)
          /\ \/ data.l.seen = link.seen
             \/ link.up /\ data.l.seen = link.seen \cup {"data"}
      BY <1>0, DataFacts
    <3> QED BY <1>0, <2>1, <3>1 DEF Extends
  <2> QED BY <1>0, <2>2, <2>3, ExtendsKeepsStreamInv
<1> QED BY <1>1, <1>2, <1>3, <1>4, <1>5, <1>6, <1>7, <1>8, <1>9, <1>10, <1>11
       DEF StreamNext

\* Only a packet adds to what is not acknowledged.
LEMMA OnlyReceiveAdds ==
  ASSUME StreamConstants, StreamInv, [StreamNext]_streamVars, ~Receive
  PROVE  link'.since \in {link.since, 0}
<1>0. link \in LinkType /\ quality \in Quality
  BY DEF StreamInv, StreamTypeOK
<1>1. CASE Connect
  <2>1. PICK dial \in Dialled(link) :
          \/ link' = dial.l
          \/ \E sent \in SendConnect(dial.l) :
               link' = sent.l \/ link' = Disconnected(sent.l)
    BY <1>1 DEF Connect
  <2>2. dial.l \in LinkType /\ dial.l.since \in {link.since, 0}
    BY <1>0, DialledFacts
  <2>3. ASSUME NEW sent \in SendConnect(dial.l),
               link' = sent.l \/ link' = Disconnected(sent.l)
        PROVE  link'.since \in {link.since, 0}
    <3>1. sent.l \in LinkType /\ sent.l.since = dial.l.since
      BY <2>2, ConnectSentFacts
    <3>2. Disconnected(sent.l).since = 0
      BY <3>1, DisconnectedFacts
    <3> QED BY <2>2, <2>3, <3>1, <3>2
  <2> QED BY <2>1, <2>2, <2>3
<1>2. CASE Disconnect
  <2>1. Disconnected(link).since = 0
    BY <1>0, DisconnectedFacts
  <2> QED BY <1>2, <2>1 DEF Disconnect
<1>3. CASE Publish
  <2>1. PICK create \in Sent(link, "createStream") :
          \/ link' = create.l
          \/ \E publish \in Sent(create.l, "publish") :
               \/ link' = publish.l
               \/ \E meta \in SendMetadata(publish.l) : link' = meta.l
    BY <1>3 DEF Publish
  <2>2. create.l \in LinkType /\ create.l.since = link.since
    BY <1>0, SentFacts DEF Command
  <2>3. ASSUME NEW publish \in Sent(create.l, "publish"),
               \/ link' = publish.l
               \/ \E meta \in SendMetadata(publish.l) : link' = meta.l
        PROVE  link'.since = link.since
    <3>1. publish.l \in LinkType /\ publish.l.since = create.l.since
      BY <2>2, SentFacts DEF Command
    <3>2. ASSUME NEW meta \in SendMetadata(publish.l)
          PROVE  meta.l.since = publish.l.since
      BY <3>1, MetadataFacts
    <3> QED BY <2>2, <2>3, <3>1, <3>2
  <2> QED BY <2>1, <2>2, <2>3
<1>4. CASE SendMedia \/ Configure
  <2>1. PICK l \in LinkType :
          l.since = link.since /\ link' \in {l} \cup SetConfig(l)
    <3>1. CASE Configure
      BY <1>0, <3>1 DEF Configure, SetQuality
    <3>2. CASE SendMedia
      <4>1. PICK media \in Sent(link, "media") :
              link' \in {media.l} \cup SetConfig(media.l)
        BY <3>2 DEF SendMedia, SetQuality
      <4>2. media.l \in LinkType /\ media.l.since = link.since
        BY <1>0, SentFacts DEF Command
      <4> QED BY <4>1, <4>2
    <3> QED BY <1>4, <3>1, <3>2
  <2>2. ASSUME NEW meta \in SendMetadata(l) PROVE meta.l.since = l.since
    BY MetadataFacts
  <2> QED BY <2>1, <2>2 DEF SetConfig
<1>5. CASE Rebuild
  <2>1. PICK dial \in Dialled(Disconnected(link)) : link' = dial.l
    BY <1>5 DEF Rebuild
  <2>2. Disconnected(link) \in LinkType /\ Disconnected(link).since = 0
    BY <1>0, DisconnectedFacts
  <2>3. dial.l.since \in {Disconnected(link).since, 0}
    BY <2>2, DialledFacts
  <2> QED BY <2>1, <2>2, <2>3
<1>6. CASE PeerGoes
  BY <1>0, <1>6 DEF PeerGoes, LinkType
<1>7. CASE Loops \/ UNCHANGED streamVars
  BY <1>7 DEF Loops, streamVars
<1>8. CASE SendsData
  <2>1. PICK data \in SendData(link) : link' = data.l
    BY <1>8 DEF SendsData
  <2> QED BY <1>0, <2>1, DataFacts
<1> QED BY <1>1, <1>2, <1>3, <1>4, <1>5, <1>6, <1>7, <1>8 DEF StreamNext

LEMMA InvariantStreamInv ==
  ASSUME StreamConstants PROVE StreamSpec => []StreamInv
<1>1. StreamInit => StreamInv
  BY InitStreamInv
<1>2. StreamInv /\ [StreamNext]_streamVars => StreamInv'
  BY StepKeepsStreamInv
<1> QED BY <1>1, <1>2, PTL DEF StreamSpec

-----------------------------------------------------------------------------
\* Every variable of the stream and of its context has its type: the counters of
\* rtmp_read_packet stay below the word.
THEOREM StreamTypes ==
  ASSUME StreamConstants PROVE StreamSpec => []StreamTypeOK
<1>1. StreamInv => StreamTypeOK
  BY DEF StreamInv
<1> QED BY <1>1, InvariantStreamInv, PTL

\* After every call of rtmp_stream.c, however it failed, the descriptors that are open
\* are the context's and those that repeated connects overwrote; the context is
\* disconnected exactly without a socket, but for the old state such a connect may
\* leave; and the stream is idle exactly then, but for a rebuilt connection.
THEOREM StreamAndContextAgree ==
  ASSUME StreamConstants PROVE StreamSpec => []LinkAgrees
<1>1. StreamInv => LinkAgrees
  BY DEF StreamInv
<1> QED BY <1>1, InvariantStreamInv, PTL

\* No peer gets a frame, or metadata that rtmp_stream.c sends of its own accord,
\* without connect, createStream and publish before it on the same connection: whenever
\* the application connects again or sends metadata itself.
THEOREM FramesAreAnnounced ==
  ASSUME StreamConstants PROVE StreamSpec => []MediaIsAnnounced
<1>1. StreamInv => MediaIsAnnounced
  BY DEF StreamInv
<1> QED BY <1>1, InvariantStreamInv, PTL

\* rtmp_read_packet acknowledges before a window is full, for any word size, also
\* where the counters wrap.
THEOREM AcknowledgedInTime ==
  ASSUME StreamConstants PROVE StreamSpec => AckKept
<1>1. StreamInv /\ [StreamNext]_streamVars =>
        [link'.since > link.since => link'.since < link.window]_streamVars
  <2> SUFFICES ASSUME StreamInv, [StreamNext]_streamVars
               PROVE  link'.since > link.since => link'.since < link.window
    OBVIOUS
  <2>1. CASE Receive
    BY <2>1, ReceiveFacts
  <2>2. CASE ~Receive
    <3>1. link.since \in Nat
      BY DEF StreamInv, StreamTypeOK, LinkType
    <3> QED BY <2>2, <3>1, OnlyReceiveAdds
  <2> QED BY <2>1, <2>2
<1> QED BY <1>1, InvariantStreamInv, PTL DEF StreamSpec, AckKept
=============================================================================
