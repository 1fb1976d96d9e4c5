----------------------------- MODULE RtmpChunk -----------------------------
(***************************************************************************)
(* The writer of src/rtmp_chunk.c: which header fields rtmp_chunk_write    *)
(* leaves out because the last message on its context had them too, with   *)
(* the contexts it shares with the reader of its own side.                 *)
(*                                                                         *)
(* `reader' is the peer's: it is handed the whole header laid out by       *)
(* rtmp_chunk_write_header and completes it, as rtmp_chunk_read does, from *)
(* the last header of its chunk stream, and writes nothing itself.         *)
(* (rtmp_chunk_write itself sends one byte of the header: write_header     *)
(* returns a bool, so headerSize is 1.)  A timestamp means what the code   *)
(* does with it: the writer lays out the message's own in every type that  *)
(* has one (104, 120, 131) and the reader takes it as that, though         *)
(* comments (119, 130; rtmp_chunk.h:22) call the short ones deltas and     *)
(* timestampDelta (306) is kept, which nothing reads.                      *)
(* Payloads are not followed: not one of more than a chunk, nor what a     *)
(* reader makes of one whose length lost its upper bits.  Stream ids fit   *)
(* in the one-byte basic header.                                           *)
(***************************************************************************)
EXTENDS Naturals

CONSTANTS Type,    \* message types, different modulo MAX_CHUNK_STREAMS
          Stream,  \* message stream ids
          Stamp,   \* timestamps
          Word24,  \* 2^24: what the three bytes of write_int24 hold
          Length,  \* message lengths
          Incoming \* headers the peer sends

Header == [stamp : Stamp, length : Length, type : Type, stream : Stream]

\* What is assumed of the constants.
ChunkConstants ==
  /\ Stamp \subseteq Nat /\ Length \subseteq Nat /\ Word24 \in Nat \ {0}
  /\ "none" \notin Type /\ Incoming \subseteq Header

\* calloc: a message length of 0 marks a context with no message yet.
Empty == [stamp |-> 0, length |-> 0, type |-> "none", stream |-> "none"]

VARIABLES
  context,  \* prevHeader of the context of each message type
  received, \* history: contexts whose header came from the peer
  reader,   \* the peer's last header on each chunk stream
  written,  \* the header last written on each chunk stream
  torn      \* chunk streams where the peer may have lost track

chunkVars == <<context, received, reader, written, torn>>

ChunkInit ==
  /\ context = [t \in Type |-> Empty]
  /\ reader = [s \in Stream |-> Empty]
  /\ written = [s \in Stream |-> Empty]
  /\ received = {} /\ torn = {}

\* get_chunk_type
MutChunkType(h, prev) ==
  IF prev.length = 0 \/ h.stream # prev.stream THEN 0
  ELSE IF h.length # prev.length \/ h.type # prev.type THEN 1
  ELSE IF h.stamp > prev.stamp THEN 2 ELSE 3
ChunkType(h, prev) ==
  IF prev.length = 0 \/ h.stream # prev.stream THEN 0
  ELSE IF h.length # prev.length \/ h.type # prev.type THEN 1
  ELSE IF h.stamp # prev.stamp THEN 2 ELSE 3

\* rtmp_chunk_write_header, read back with the reader's last header: the timestamp,
\* then the length and the type, and then the stream, the first two cut by
\* write_int24.
Read(h, fmt, last) ==
  [stamp  |-> IF fmt <= 2 THEN h.stamp % Word24  ELSE last.stamp,
   length |-> IF fmt <= 1 THEN h.length % Word24 ELSE last.length,
   type   |-> IF fmt <= 1 THEN h.type            ELSE last.type,
   stream |-> IF fmt = 0  THEN h.stream          ELSE last.stream]

\* What a full header tells: the upper bits of two fields are lost.
Wire(h) == [stamp |-> h.stamp % Word24, length |-> h.length % Word24,
            type |-> h.type, stream |-> h.stream]

\* The reader has lost track of a stream: what it holds is not followed further.
Told(h, fmt) ==
  reader' = [reader EXCEPT ![h.stream] =
               IF h.stream \in torn' THEN Empty ELSE Read(h, fmt, @)]

\* rtmp_chunk_write: the context, found by message type, is updated last; the
\* basic header names the message stream, so that is what the reader looks up.
\* What is left out is lost on a reader that was told it neither of this type nor
\* by this writer.
Write(h) ==
  LET fmt == ChunkType(h, context[h.type]) IN
  /\ context' = [context EXCEPT ![h.type] = h]
  /\ written' = [written EXCEPT ![h.stream] = h]
  /\ torn' = IF fmt = 0 THEN torn \ {h.stream}
             ELSE IF written[h.stream].type = h.type /\ h.type \notin received
               THEN torn
             ELSE torn \cup {h.stream}
  /\ received' = received \ {h.type}
  /\ Told(h, fmt)

\* The header goes out and the payload does not: the context keeps the message
\* before.  (A write that fails at the header changes nothing.)
WriteFails(h) ==
  /\ torn' = torn \cup {h.stream}
  /\ Told(h, ChunkType(h, context[h.type]))
  /\ UNCHANGED <<context, received, written>>

\* A new connection has a new reader; the contexts, in userData, stay.
Reconnect ==
  /\ reader' = [s \in Stream |-> Empty]
  /\ written' = [s \in Stream |-> Empty]
  /\ torn' = Stream
  /\ UNCHANGED <<context, received>>

\* rtmp_chunk_read: the header that came on chunk stream t is stored in the slot in
\* which the writer keeps message type t.  The peer chooses which, or garbage does
\* where read_header looks at a type nothing has set (172, 197).
ChunkRead(t, h) ==
  /\ context' = [context EXCEPT ![t] = h]
  /\ received' = received \cup {t}
  /\ UNCHANGED <<reader, written, torn>>

\* rtmp_chunk_context_reset
ContextReset(t) ==
  /\ context' = [context EXCEPT ![t] = Empty]
  /\ received' = received \ {t}
  /\ UNCHANGED <<reader, written, torn>>

ChunkNext ==
  \/ \E h \in Header : Write(h) \/ WriteFails(h)
  \/ Reconnect
  \/ \E t \in Type : ContextReset(t) \/ \E h \in Incoming : ChunkRead(t, h)

ChunkSpec == ChunkInit /\ [][ChunkNext]_chunkVars

-----------------------------------------------------------------------------
ChunkTypeOK ==
  /\ context \in [Type -> Header \cup {Empty}]
  /\ written \in [Stream -> Header \cup {Empty}]
  /\ reader \in [Stream -> [stamp : Nat, length : Nat, type : Type \cup {"none"},
                          stream : Stream \cup {"none"}]]
  /\ received \subseteq Type /\ torn \subseteq Stream

\* What the writer leaves out (rtmp_chunk.c:282) a reader can fill in: it rebuilds
\* every header but for the upper bits, in any order of lengths, types, streams and
\* timestamps, and after a failed write, a reconnect, a reset or a header received
\* into the writer's context (163, 250) once a full header has come.  It can not
\* from the first short header after such a receipt to the next full one, nor where
\* two message types share a stream, as writer and reader (38, 163) do not keep
\* their contexts by the same key.
HeaderSuffices == \A s \in Stream \ torn : reader[s] = Wire(written[s])
=============================================================================
