---------------------------- MODULE MCRtmpClient ----------------------------
(***************************************************************************)
(* The parts of the client library with small constants for each.          *)
(***************************************************************************)
EXTENDS RtmpClient

CONSTANTS d1, d2,       \* descriptors: one more than a stream needs
          u1, u2, u3,   \* threads that time operations
          n1, n2,       \* random parts of handshake packets
          audio, video, \* message types
          s1, s2        \* message streams

\* Two descriptors; counters of five values, which wrap after a few packets of up to
\* two bytes.
MCDescriptor == {d1, d2}
MCWindow     == {1, 2}

\* Objects of up to two properties, of every type of value and objects among them,
\* in AMF0: names and strings follow their length.
RECURSIVE ValueBytes(_), ObjectBytes(_)
ValueBytes(p) ==
  CASE p.type = 2 -> <<2, 0, Len(p.data)>> \o p.data
    [] p.type = 3 -> <<3>> \o ObjectBytes(p.data)
    [] OTHER      -> <<p.type>> \o p.data
ObjectBytes(o) ==
  IF o = <<>> THEN <<0, 0, 9>>
  ELSE <<0, Len(o[1].name)>> \o o[1].name \o ValueBytes(o[1]) \o ObjectBytes(Tail(o))

Props(values) ==
  {[name |-> n, type |-> v[1], data |-> v[2]] : n \in {<<>>, <<7>>}, v \in values}
Leaves == {<<0, <<1, 9>>>>, <<1, <<1>>>>, <<2, <<>>>>, <<2, <<7>>>>, <<5, <<>>>>}
Flat   == BoundedSeq(Props(Leaves), 2)
Short  == BoundedSeq(Props(Leaves), 1)
Nested == BoundedSeq(Props(Leaves \cup {<<3, o>> : o \in Short}), 2)

\* All objects that are sent are among these, and their ends and parts.
AmfEncoding == [o \in Nested |-> ObjectBytes(o)]

\* They come whole, or the flat ones cut anywhere; and so does every row of up to six
\* bytes behind an object's type, objects three deep among them.
AmfInput ==
  {[kind |-> "whole", sent |-> o, bytes |-> <<3>> \o ObjectBytes(o)] : o \in Nested}
  \cup
  UNION {{[kind |-> "flat", sent |-> o, bytes |-> SubSeq(<<3>> \o ObjectBytes(o), 1, n)] :
            n \in 0..(1 + Len(ObjectBytes(o)))} : o \in Flat}
  \cup
  {[kind |-> "any", sent |-> <<>>, bytes |-> <<3>> \o b] :
     b \in BoundedSeq({0, 1, 2, 3, 9}, 6)}

\* Three threads; values on both sides of every threshold the quality controller tests.
MCTimer     == {u1, u2, u3}
MCRates     == {300000, 1000000, 3000000}
MCBuffers   == {1000, 4000, 7000}
MCDrops     == {0, 20}
MCLatencies == {0, 8000}
MCTimes     == {0, 50}

MCNonce  == {n1, n2}
MCType   == {audio, video}
MCStream == {s1, s2}
\* Timestamps that differ, one of them too large for its field.
MCStamp  == {1, 6}
\* Lengths, one of them too large for its field.
MCLength == {1, 6}
\* What the writer sends next may differ from these in any field or in none.
MCIncoming == [stamp : {1}, length : {1}, type : MCType, stream : MCStream]

\* The parts' assumptions hold of these constants.
ASSUME ConstantsOK == ClientConstants
=============================================================================
