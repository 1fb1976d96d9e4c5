------------------------------ MODULE RtmpAmf ------------------------------
(***************************************************************************)
(* rtmp_amf_decode_object of src/rtmp_amf.c, which calls itself through    *)
(* rtmp_amf_decode_value for an object in an object: one step per turn of  *)
(* its loop, one frame per call.  It counts in `size' the bytes that are   *)
(* left to it and reads through a pointer beside it: the two may not part. *)
(*                                                                         *)
(* Not modelled: the growth of an object beyond 16 properties, and arrays, *)
(* whose decoder is not in the repository (they are refused here, as the   *)
(* types are that rtmp_amf_decode_value does not know).                    *)
(***************************************************************************)
EXTENDS Integers, Sequences

CONSTANTS Input,      \* what is handed to the decoder: bytes, the object they
                      \* encode (sent), and how far (whole, or a flat object cut)
          NoInput,
          NumberSize, \* AMF_NUMBER_SIZE
          Object,     \* the objects that are sent, sequences of properties
          Encoding    \* the bytes of each behind its type, as AMF0 lays them out

Octet == 0..255

AMF0_NUMBER     == 0
AMF0_BOOLEAN    == 1
AMF0_STRING     == 2
AMF0_OBJECT     == 3
AMF0_EMPTY      == {5, 6}  \* AMF0_NULL, AMF0_UNDEFINED
AMF0_OBJECT_END == 9

-----------------------------------------------------------------------------
(* What is assumed of the constants *)

\* The properties of the objects that are sent.
Property == UNION {{o[k] : k \in DOMAIN o} : o \in Object}

\* A number's bytes, a truth value, the characters of a string, the object.
IsProperty(p) ==
  /\ p = [name |-> p.name, type |-> p.type, data |-> p.data]
  /\ p.name \in Seq(Octet) /\ Len(p.name) < 256 * 256
  /\ \/ p.type = AMF0_NUMBER /\ p.data \in Seq(Octet) /\ Len(p.data) = NumberSize - 1
     \/ p.type = AMF0_BOOLEAN /\ p.data \in {<<0>>, <<1>>}
     \/ p.type = AMF0_STRING /\ p.data \in Seq(Octet) /\ Len(p.data) < 256 * 256
     \/ p.type = AMF0_OBJECT /\ p.data \in Object
     \/ p.type \in AMF0_EMPTY /\ p.data = <<>>

TwoBytes(n) == <<n \div 256, n % 256>>

ValueEncoding(p) ==
  IF p.type = AMF0_OBJECT THEN <<AMF0_OBJECT>> \o Encoding[p.data]
  ELSE IF p.type = AMF0_STRING
       THEN <<AMF0_STRING>> \o (TwoBytes(Len(p.data)) \o p.data)
       ELSE <<p.type>> \o p.data

\* An object is encoded property by property, and ends with a marker.
AmfEncodings ==
  /\ Object \subseteq Seq(Property)
  /\ \A p \in Property : IsProperty(p)
  /\ Encoding \in [Object -> Seq(Octet)]
  /\ \A o \in Object :
       IF o = <<>> THEN Encoding[o] = <<0, 0, AMF0_OBJECT_END>>
       ELSE /\ Tail(o) \in Object
            /\ Encoding[o] = TwoBytes(Len(o[1].name)) \o (o[1].name \o
                               (ValueEncoding(o[1]) \o Encoding[Tail(o)]))

\* An object is handed over as it is encoded, whole, or, if no object is in it, cut.
SentAsEncoded ==
  \A in \in Input :
    /\ in.kind \in {"whole", "flat"} =>
         /\ in.sent \in Object
         /\ Len(in.bytes) <= 1 + Len(Encoding[in.sent])
         /\ \A k \in 1..Len(in.bytes) :
              in.bytes[k] = IF k = 1 THEN AMF0_OBJECT ELSE Encoding[in.sent][k - 1]
    /\ in.kind = "whole" => Len(in.bytes) = 1 + Len(Encoding[in.sent])
    /\ in.kind = "flat" => \A k \in 1..Len(in.sent) : in.sent[k].type # AMF0_OBJECT

AmfConstants ==
  /\ NumberSize \in Nat \ {0}
  /\ NoInput \notin Input
  /\ \A in \in Input : in.bytes \in Seq(Octet)
  /\ AmfEncodings /\ SentAsEncoded

-----------------------------------------------------------------------------
VARIABLES
  input,    \* the buffer
  frames,   \* the calls of rtmp_amf_decode_object under way, the innermost last:
            \* where the object starts (its type byte), buffer and size
  built,    \* for each of them its properties, and the name of the next
  strayed,  \* a byte outside the buffer was read
  starved,  \* an allocation failed
  result    \* what the outermost call returned

amfVars == <<input, frames, built, strayed, starved, result>>

Refused == [ok |-> FALSE, props |-> <<>>, read |-> 0]

AmfInit ==
  /\ input = NoInput /\ frames = <<>> /\ built = <<>>
  /\ strayed = FALSE /\ starved = FALSE
  /\ result = Refused

\* What is outside the buffer is not known; 0 stands for it.
Byte(i)     == IF i \in DOMAIN input.bytes THEN input.bytes[i] ELSE 0
Be16(i)     == 256 * Byte(i) + Byte(i + 1)
Bytes(i, n) == [k \in 1..n |-> Byte(i + k - 1)]

\* The bytes before i are read.
ReadsTo(i) == strayed' = (strayed \/ i > Len(input.bytes) + 1)

-----------------------------------------------------------------------------
(* rtmp_amf_decode_value of n bytes at i, but for objects *)

\* How long the value is, more than there is when it is refused.
LeafSize(i, n) ==
  CASE Byte(i) = AMF0_NUMBER  -> NumberSize
    [] Byte(i) = AMF0_BOOLEAN -> 2
    [] Byte(i) = AMF0_STRING  -> 3 + IF n >= 3 THEN Be16(i + 1) ELSE n
    [] Byte(i) \in AMF0_EMPTY -> 1
    [] OTHER                  -> n + 1

IsLeaf(i, n) == n >= 1 /\ LeafSize(i, n) <= n

\* A number's bytes, a truth value as 0 or 1, the characters of a string.
LeafData(i, n) ==
  CASE Byte(i) = AMF0_BOOLEAN -> <<IF Byte(i + 1) # 0 THEN 1 ELSE 0>>
    [] Byte(i) = AMF0_STRING  -> Bytes(i + 3, n - 3)
    [] OTHER            -> Bytes(i + 1, n - 1)

\* What is read of a value that is refused.
Peeked(i, n) ==
  CASE n = 0                        -> i
    [] Byte(i) = AMF0_STRING /\ n >= 3 -> i + 3
    [] OTHER                        -> i + 1

-----------------------------------------------------------------------------
(* rtmp_amf_decode_object *)

IsObject(i, n) == n >= 1 /\ Byte(i) = AMF0_OBJECT

\* A call for n bytes at i, past the type.
Called(i, n) == [from |-> i, at |-> i + 1, left |-> n - 1]
New == [name |-> <<>>, props |-> <<>>]

Top == frames[Len(frames)]
Own == built[Len(built)]

\* The calls that wait for the innermost.
Waiting(calls) == SubSeq(calls, 1, Len(calls) - 1)

\* What the calls have taken n bytes further, and with a property more.
Past(f, n) == [from |-> f.from, at |-> f.at + n, left |-> f.left - n]
With(b, type, data) ==
  [b EXCEPT !.props = Append(@, [name |-> b.name, type |-> type, data |-> data])]

\* The innermost call returns 1 with its pointer at i: to the caller outside, or to
\* the call that wants the value of a property.
MutReturn(i) ==
  LET read == i - (Top.from + 1) IN
  IF Len(frames) = 1
  THEN /\ result' = [ok |-> TRUE, props |-> Own.props, read |-> read]
       /\ frames' = <<>> /\ built' = <<>>
  ELSE LET outer == Len(frames) - 1 IN
       /\ frames' = [Waiting(frames) EXCEPT ![outer] = Past(@, read)]
       /\ built' = [Waiting(built) EXCEPT ![outer] = With(@, AMF0_OBJECT, Own.props)]
       /\ UNCHANGED result
Return(i) ==
  LET read == i - (Top.from + 1) + 1 IN
  IF Len(frames) = 1
  THEN /\ result' = [ok |-> TRUE, props |-> Own.props, read |-> read]
       /\ frames' = <<>> /\ built' = <<>>
  ELSE LET outer == Len(frames) - 1 IN
       /\ frames' = [Waiting(frames) EXCEPT ![outer] = Past(@, read)]
       /\ built' = [Waiting(built) EXCEPT ![outer] = With(@, AMF0_OBJECT, Own.props)]
       /\ UNCHANGED result

\* The call from outside; there may be no memory for the two arrays.
Decode ==
  /\ input = NoInput
  /\ \E in \in Input :
       /\ input' = in
       /\ \/ /\ in.bytes # <<>> /\ in.bytes[1] = AMF0_OBJECT
             /\ frames' = <<Called(1, Len(in.bytes))>> /\ built' = <<New>>
          \/ UNCHANGED <<frames, built>>
  /\ UNCHANGED <<strayed, starved, result>>

\* A turn of the loop that is not at the end marker: there are three bytes.
Turns  == frames # <<>> /\ Top.left >= 3
Marker == Bytes(Top.at, 3) = <<0, 0, AMF0_OBJECT_END>>

NameLen     == Be16(Top.at)
MutNameFits == Top.left >= NameLen
NameFits    == Top.left >= 2 + NameLen

\* The call once it has taken the name and stands at the value.
Named == Past(Top, 2 + NameLen)

EndsShort ==
  /\ frames # <<>> /\ Top.left < 3
  /\ Return(Top.at)
  /\ UNCHANGED <<input, strayed, starved>>

EndsAtMarker ==
  /\ Turns /\ Marker
  /\ Return(Top.at + 3) /\ ReadsTo(Top.at + 3)
  /\ UNCHANGED <<input, starved>>

\* The name's length is taken, and there are not as many bytes, or no memory.
NoName ==
  /\ Turns /\ ~Marker
  /\ starved' = (starved \/ NameFits)
  /\ Return(Top.at + 2) /\ ReadsTo(Top.at + 3)
  /\ UNCHANGED input

\* The value is refused, or there is no memory for it.
NoValue ==
  /\ Turns /\ ~Marker /\ NameFits
  /\ starved' = \/ starved
                \/ IsLeaf(Named.at, Named.left) \/ IsObject(Named.at, Named.left)
  /\ Return(Named.at) /\ ReadsTo(Peeked(Named.at, Named.left))
  /\ UNCHANGED input

Name == Bytes(Top.at + 2, NameLen)

TakeLeaf ==
  /\ Turns /\ ~Marker /\ NameFits
  /\ IsLeaf(Named.at, Named.left)
  /\ LET n == LeafSize(Named.at, Named.left)
         b == [Own EXCEPT !.name = Name]
     IN  /\ frames' = [frames EXCEPT ![Len(frames)] = Past(Named, n)]
         /\ built' = [built EXCEPT ![Len(frames)] =
                        With(b, Byte(Named.at), LeafData(Named.at, n))]
         /\ ReadsTo(Named.at + n)
  /\ UNCHANGED <<input, starved, result>>

TakeObject ==
  /\ Turns /\ ~Marker /\ NameFits
  /\ IsObject(Named.at, Named.left)
  /\ frames' = Append([frames EXCEPT ![Len(frames)] = Named],
                      Called(Named.at, Named.left))
  /\ built' = Append([built EXCEPT ![Len(frames)].name = Name], New)
  /\ ReadsTo(Named.at + 1)
  /\ UNCHANGED <<input, starved, result>>

Turn == EndsShort \/ EndsAtMarker \/ NoName \/ NoValue \/ TakeLeaf \/ TakeObject

AmfNext == Decode \/ Turn

AmfSpec == AmfInit /\ [][AmfNext]_amfVars

-----------------------------------------------------------------------------
AmfTypeOK ==
  /\ input # NoInput => input.bytes \in Seq(Octet)
  /\ frames \in Seq([from : Nat, at : Nat, left : Nat])
  /\ Len(built) = Len(frames)
  /\ strayed \in BOOLEAN /\ starved \in BOOLEAN
  /\ result.ok \in BOOLEAN /\ result.read \in Nat

\* Whatever bytes come (rtmp_amf.c:366), no byte outside the buffer is read, size
\* stays the number of bytes from the pointer to the end of the buffer, in every call
\* and after every call returns, and no more than the buffer is reported as read.
StaysInBuffer ==
  /\ ~strayed
  /\ input # NoInput =>
       /\ result.read <= Len(input.bytes)
       /\ \A c \in DOMAIN frames :
            frames[c].at + frames[c].left = Len(input.bytes) + 1

\* An object that arrives whole is decoded as it was sent, objects in it included,
\* to its last byte (rtmp_amf.c:450, 422); of a flat one that is cut somewhere, or
\* for which memory ran out, a first part is.  (Objects in objects that are cut, or
\* hold a type the decoder does not know, yield properties nobody sent: the outer
\* call goes on in the middle of the inner object.)
DecodesWhatWasSent ==
  result.ok =>
    CASE input.kind = "whole" /\ ~starved ->
           result.props = input.sent /\ result.read = Len(input.bytes)
      [] input.kind = "flat" ->
           result.props = SubSeq(input.sent, 1, Len(result.props))
      [] OTHER -> TRUE
=============================================================================
