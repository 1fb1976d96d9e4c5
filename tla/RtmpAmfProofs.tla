--------------------------- MODULE RtmpAmfProofs ---------------------------
(***************************************************************************)
(* The decoder of RtmpAmf reads nothing outside its buffer, for any bytes, *)
(* of any number, in objects nested to any depth; and it decodes an object *)
(* as it was sent, from the bytes AMF0 gives it.  The second follows every *)
(* call under way along the object it decodes: `Comes' says that what it   *)
(* has decoded and what rests make up the object, and that the encoding of *)
(* the rest is what stands in front of it.                                 *)
(***************************************************************************)
EXTENDS RtmpAmf, SequenceTheorems, TLAPS

Frame == [from : Nat, at : Nat, left : Nat]
Size  == Len(input.bytes)

\* A call stands behind the type it began at, and what it has left ends the buffer.
Bounded(f) == 1 <= f.from /\ f.from < f.at /\ f.at + f.left = Size + 1

\* A call that waits for another stands where the other began.
Nested == \A c \in 1..(Len(frames) - 1) : frames[c + 1].from = frames[c].at

AmfInv ==
  /\ input \in Input \cup {NoInput}
  /\ input = NoInput => frames = <<>> /\ result.read = 0
  /\ frames \in Seq(Frame)
  /\ ~strayed
  /\ result.read \in Nat
  /\ input \in Input => /\ result.read <= Size
                        /\ \A c \in 1..Len(frames) : Bounded(frames[c])
                        /\ Nested

-----------------------------------------------------------------------------
LEMMA InitAmfInv == ASSUME AmfConstants, AmfInit PROVE AmfInv
<1>1. frames = <<>> /\ input = NoInput /\ result.read = 0 /\ ~strayed
  BY DEF AmfInit, Refused
<1>2. input \notin Input
  BY <1>1 DEF AmfConstants
<1>3. <<>> \in Seq(Frame) /\ 0 \in Nat
  OBVIOUS
<1> QED BY <1>1, <1>2, <1>3 DEF AmfInv

\* What is read are bytes, and lengths are numbers.
LEMMA ByteTypes ==
  ASSUME AmfConstants, input \in Input, NEW i \in Int, NEW n \in Nat
  PROVE  /\ Size \in Nat /\ input # NoInput
         /\ Be16(i) \in Nat
         /\ LeafSize(i, n) \in Nat
<1>1. input.bytes \in Seq(Octet) /\ NumberSize \in Nat /\ input # NoInput
  BY DEF AmfConstants
<1>2. ASSUME NEW j \in Int PROVE Byte(j) \in Octet
  <2> DEFINE b == input.bytes
  <2>1. b \in Seq(Octet)
    BY <1>1
  <2> HIDE DEF b
  <2>2. 0 \in Octet
    BY DEF Octet
  <2>3. j \in DOMAIN b => b[j] \in Octet
    BY <2>1
  <2> QED BY <2>2, <2>3 DEF Byte, b
<1>3. Be16(i) \in Nat /\ Be16(i + 1) \in Nat
  <2>1. ASSUME NEW j \in Int PROVE Be16(j) \in Nat
    <3>1. Byte(j) \in Nat /\ Byte(j + 1) \in Nat
      BY <1>2 DEF Octet
    <3> QED BY <3>1 DEF Be16
  <2> QED BY <2>1
<1>4. LeafSize(i, n) \in Nat
  BY <1>1, <1>3 DEF LeafSize
<1> QED BY <1>1, <1>3, <1>4 DEF Size

\* The innermost call and what it has left.
LEMMA TopFacts ==
  ASSUME AmfInv, frames # <<>>
  PROVE  /\ input \in Input
         /\ Len(frames) \in Nat \ {0}
         /\ Top = frames[Len(frames)]
         /\ Top \in Frame
         /\ Bounded(Top)
  BY DEF AmfInv, Top

\* A call that takes n of the bytes it has left is still one, and ends where it did.
LEMMA PastFacts ==
  ASSUME NEW f \in Frame, NEW n \in Nat, n <= f.left
  PROVE  /\ Past(f, n) \in Frame
         /\ Past(f, n).from = f.from
         /\ Past(f, n).at = f.at + n
         /\ Past(f, n).left = f.left - n
<1>1. /\ f.from \in Nat /\ f.at \in Nat /\ f.left \in Nat
      /\ f.at + n \in Nat /\ f.left - n \in Nat
  BY DEF Frame
<1> QED BY <1>1 DEF Frame, Past

LEMMA PastIsBounded ==
  ASSUME NEW f \in Frame, NEW n \in Nat, n <= f.left, Size \in Nat, Bounded(f)
  PROVE  Bounded(Past(f, n))
<1>1. f.from \in Nat /\ f.at \in Nat /\ f.left \in Nat
  BY DEF Frame
<1> QED BY <1>1, PastFacts DEF Bounded

\* A call that returns with its pointer no further than its bytes go leaves the
\* caller's pointer and size in agreement.
LEMMA ReturnKeepsAmfInv ==
  ASSUME AmfConstants, AmfInv, frames # <<>>, NEW i \in Nat,
         Top.from < i, i <= Size + 1, Return(i), UNCHANGED input, ~strayed'
  PROVE  AmfInv'
<1>1. /\ input \in Input /\ input' = input
      /\ Len(frames) \in Nat \ {0} /\ Top = frames[Len(frames)]
      /\ Top \in Frame /\ Bounded(Top) /\ Size \in Nat /\ input # NoInput
  BY TopFacts, ByteTypes
<1> DEFINE read == i - (Top.from + 1) + 1
<1>2. read \in Nat /\ read = i - Top.from /\ read <= Size
  BY <1>1 DEF Frame, Bounded
<1>3. CASE Len(frames) = 1
  <2>1. frames' = <<>> /\ result'.read = read
    BY <1>3 DEF Return
  <2> QED BY <1>1, <1>2, <2>1 DEF AmfInv, Nested, Size
<1>4. CASE Len(frames) # 1
  <2> DEFINE outer == Len(frames) - 1
             f == frames[outer]
  <2>1. /\ frames' = [Waiting(frames) EXCEPT ![outer] = Past(@, read)]
        /\ UNCHANGED result
    BY <1>4 DEF Return
  <2>2. /\ outer \in Nat \ {0} /\ Len(frames) = outer + 1
        /\ outer \in 1..Len(frames) /\ outer \in 1..(Len(frames) - 1)
    <3>1. outer \in Nat \ {0} /\ Len(frames) = outer + 1
      BY <1>1, <1>4
    <3> HIDE DEF outer
    <3> QED BY <3>1
  <2>3. f \in Frame /\ Bounded(f) /\ Top.from = f.at
    BY <1>1, <2>2 DEF AmfInv, Nested
  <2>4. /\ Waiting(frames) \in Seq(Frame) /\ Len(Waiting(frames)) = outer
        /\ \A c \in 1..outer : Waiting(frames)[c] = frames[c]
    BY <1>1, <2>2 DEF Waiting, AmfInv
  <2> HIDE DEF read, f, outer
  <2>5. read <= f.left
    <3>1. f.from \in Nat /\ f.at \in Nat /\ f.left \in Nat
      BY <2>3 DEF Frame
    <3> QED BY <1>1, <1>2, <2>3, <3>1 DEF Bounded
  <2>6. Past(f, read) \in Frame /\ Bounded(Past(f, read)) /\ Past(f, read).from = f.from
    BY <1>1, <1>2, <2>3, <2>5, PastFacts, PastIsBounded
  <2>7. /\ frames' \in Seq(Frame) /\ Len(frames') = outer
        /\ \A c \in 1..outer :
             frames'[c] = IF c = outer THEN Past(f, read) ELSE frames[c]
    BY <2>1, <2>2, <2>4, <2>6 DEF f
  <2>8. \A c \in 1..Len(frames') : Bounded(frames'[c])
    BY <1>1, <2>2, <2>6, <2>7 DEF AmfInv
  <2>9. Nested'
    BY <1>1, <2>2, <2>6, <2>7 DEF AmfInv, Nested, f
  <2> QED BY <1>1, <2>1, <2>7, <2>8, <2>9 DEF AmfInv, Size, Bounded
<1> QED BY <1>3, <1>4

-----------------------------------------------------------------------------
LEMMA DecodeKeepsAmfInv ==
  ASSUME AmfConstants, AmfInv, Decode
  PROVE  AmfInv'
<1>1. PICK in \in Input :
        /\ input' = in
        /\ \/ /\ in.bytes # <<>> /\ in.bytes[1] = AMF0_OBJECT
              /\ frames' = <<Called(1, Len(in.bytes))>> /\ built' = <<New>>
           \/ UNCHANGED <<frames, built>>
  BY DEF Decode
<1> DEFINE size == Len(in.bytes)
<1>2. /\ input = NoInput /\ frames = <<>> /\ input' \in Input /\ input' # NoInput
      /\ UNCHANGED <<strayed, result>>
  BY <1>1 DEF Decode, AmfInv, AmfConstants
<1>3. result.read = 0
  BY <1>2 DEF AmfInv
<1>4. size \in Nat
  <2> DEFINE b == in.bytes
  <2>1. b \in Seq(Octet)
    BY DEF AmfConstants
  <2> HIDE DEF b
  <2>2. Len(b) \in Nat
    BY <2>1
  <2> QED BY <2>2 DEF b
<1>5. CASE UNCHANGED <<frames, built>>
  <2>1. frames' = <<>>
    BY <1>2, <1>5
  <2> QED BY <1>1, <1>2, <1>3, <1>4, <2>1 DEF AmfInv, Nested, Size
<1>6. CASE /\ in.bytes # <<>> /\ in.bytes[1] = AMF0_OBJECT
           /\ frames' = <<Called(1, Len(in.bytes))>> /\ built' = <<New>>
  <2>1. size >= 1
    <3> DEFINE b == in.bytes
    <3>1. b \in Seq(Octet) /\ b # <<>>
      BY <1>6 DEF AmfConstants
    <3> HIDE DEF b
    <3>2. Len(b) >= 1
      BY <3>1
    <3> QED BY <3>2 DEF b
  <2> HIDE DEF size
  <2>2. Called(1, size) = [from |-> 1, at |-> 2, left |-> size - 1]
    BY DEF Called
  <2>3. Called(1, size) \in Frame /\ Called(1, size).from = 1
        /\ Called(1, size).at = 2 /\ Called(1, size).left = size - 1
    BY <1>4, <2>1, <2>2 DEF Frame
  <2> DEFINE f == Called(1, size)
  <2>4. frames' = <<f>>
    BY <1>6 DEF size
  <2>5. Size' = size
    BY <1>1 DEF Size, size
  <2>6. Bounded(f)'
    <3>1. f.from = 1 /\ f.at = 2 /\ f.left = size - 1
      BY <2>3
    <3> HIDE DEF f
    <3>2. f' = f
      BY <1>1, <2>5 DEF f
    <3> QED BY <1>4, <2>1, <2>5, <3>1, <3>2 DEF Bounded
  <2>7. f \in Frame
    BY <2>3
  <2> HIDE DEF f
  <2>8. frames' \in Seq(Frame) /\ Len(frames') = 1 /\ frames'[1] = f
    BY <2>4, <2>7
  <2> QED BY <1>2, <1>3, <1>4, <2>5, <2>6, <2>8 DEF AmfInv, Nested
<1> QED BY <1>1, <1>5, <1>6

\* In a turn of the loop: the name's length, and where the value stands when the
\* name is there.
LEMMA TurnFacts ==
  ASSUME AmfConstants, AmfInv, Turns
  PROVE  /\ frames # <<>> /\ Top \in Frame /\ Size \in Nat
         /\ Top.from \in Nat /\ Top.at \in Nat /\ Top.left \in Nat
         /\ Top.from < Top.at /\ Top.at + 3 <= Size + 1
         /\ Top.at + Top.left = Size + 1
         /\ NameFits => /\ Named \in Frame /\ Bounded(Named)
                        /\ Named.from = Top.from
                        /\ Named.at \in Nat /\ Named.left \in Nat
                        /\ Top.from < Named.at /\ Named.at + Named.left = Size + 1
<1>1. frames # <<>> /\ Top.left >= 3
  BY DEF Turns
<1>2. Top \in Frame /\ Bounded(Top) /\ input \in Input
  BY <1>1, TopFacts
<1>3. Top.from \in Nat /\ Top.at \in Nat /\ Top.left \in Nat /\ Size \in Nat
  BY <1>2, ByteTypes DEF Frame
<1>4. NameLen \in Nat
  <2> DEFINE i == Top.at
  <2>1. i \in Int /\ NameLen = Be16(i)
    BY <1>3 DEF NameLen
  <2> HIDE DEF i
  <2> QED BY <1>2, <1>3, <2>1, ByteTypes
<1>5. ASSUME NameFits
      PROVE  /\ Named \in Frame /\ Bounded(Named) /\ Named.from = Top.from
             /\ Named.at = Top.at + 2 + NameLen
  <2> DEFINE n == 2 + NameLen
  <2>1. n \in Nat /\ n <= Top.left
    BY <1>3, <1>4, <1>5 DEF NameFits
  <2>2. Named = Past(Top, n)
    BY DEF Named
  <2> HIDE DEF n
  <2>3. Named \in Frame /\ Bounded(Named) /\ Named.from = Top.from
        /\ Named.at = Top.at + n
    BY <1>2, <1>3, <2>1, <2>2, PastFacts, PastIsBounded
  <2> QED BY <1>3, <1>4, <2>3 DEF n
<1>6. NameFits => Named.at \in Nat /\ Named.left \in Nat
  BY <1>5 DEF Frame
<1> QED BY <1>1, <1>2, <1>3, <1>4, <1>5, <1>6 DEF Bounded

LEMMA EndsShortKeepsAmfInv ==
  ASSUME AmfConstants, AmfInv, EndsShort
  PROVE  AmfInv'
<1>1. frames # <<>> /\ Return(Top.at) /\ UNCHANGED <<input, strayed>>
  BY DEF EndsShort
<1>2. Top \in Frame /\ Bounded(Top) /\ Size \in Nat
  BY <1>1, TopFacts, ByteTypes
<1>3. Top.at \in Nat /\ Top.from < Top.at /\ Top.at <= Size + 1
  BY <1>2 DEF Frame, Bounded
<1>4. ~strayed'
  BY <1>1 DEF AmfInv
<1> QED BY <1>1, <1>3, <1>4, ReturnKeepsAmfInv

\* Reading on to a byte of the buffer, or to its end, strays nowhere.
LEMMA ReadsInside ==
  ASSUME AmfInv, NEW i, ReadsTo(i), Size \in Nat, i \in Nat, i <= Size + 1
  PROVE  ~strayed'
<1>1. ~(i > Len(input.bytes) + 1)
  BY DEF Size
<1>2. ~strayed
  BY DEF AmfInv
<1> QED BY <1>1, <1>2, Zenon DEF ReadsTo

LEMMA EndsAtMarkerKeepsAmfInv ==
  ASSUME AmfConstants, AmfInv, EndsAtMarker
  PROVE  AmfInv'
<1>1. Turns /\ Return(Top.at + 3) /\ ReadsTo(Top.at + 3) /\ UNCHANGED input
  BY DEF EndsAtMarker
<1>2. frames # <<>> /\ Size \in Nat /\ Top.at + 3 \in Nat
      /\ Top.from < Top.at + 3 /\ Top.at + 3 <= Size + 1
  BY <1>1, TurnFacts
<1>3. ~strayed'
  BY <1>1, <1>2, ReadsInside
<1> QED BY <1>1, <1>2, <1>3, ReturnKeepsAmfInv

LEMMA NoNameKeepsAmfInv ==
  ASSUME AmfConstants, AmfInv, NoName
  PROVE  AmfInv'
<1>1. Turns /\ Return(Top.at + 2) /\ ReadsTo(Top.at + 3) /\ UNCHANGED input
  BY DEF NoName
<1>2. /\ frames # <<>> /\ Size \in Nat /\ Top.at + 2 \in Nat /\ Top.at + 3 \in Nat
      /\ Top.from < Top.at + 2 /\ Top.at + 2 <= Size + 1 /\ Top.at + 3 <= Size + 1
  BY <1>1, TurnFacts
<1>3. ~strayed'
  BY <1>1, <1>2, ReadsInside
<1> QED BY <1>1, <1>2, <1>3, ReturnKeepsAmfInv

LEMMA NoValueKeepsAmfInv ==
  ASSUME AmfConstants, AmfInv, NoValue
  PROVE  AmfInv'
<1> DEFINE i == Named.at
           n == Named.left
<1>1. /\ Turns /\ NameFits /\ Return(i) /\ ReadsTo(Peeked(i, n))
      /\ UNCHANGED input
  BY DEF NoValue
<1>2. /\ frames # <<>> /\ Size \in Nat /\ i \in Nat /\ n \in Nat
      /\ Top.from < i /\ i + n = Size + 1
  BY <1>1, TurnFacts
<1> HIDE DEF i, n
<1>3. Peeked(i, n) \in Nat /\ Peeked(i, n) <= Size + 1
  BY <1>2 DEF Peeked
<1>4. ~strayed'
  BY <1>1, <1>2, <1>3, ReadsInside
<1>5. i <= Size + 1
  BY <1>2
<1> QED BY <1>1, <1>2, <1>4, <1>5, ReturnKeepsAmfInv

LEMMA TakeLeafKeepsAmfInv ==
  ASSUME AmfConstants, AmfInv, TakeLeaf
  PROVE  AmfInv'
<1> DEFINE n == LeafSize(Named.at, Named.left)
           g == Past(Named, n)
           last == Len(frames)
<1>1. /\ Turns /\ NameFits /\ IsLeaf(Named.at, Named.left)
      /\ frames' = [frames EXCEPT ![last] = g] /\ ReadsTo(Named.at + n)
      /\ UNCHANGED <<input, result>>
  BY DEF TakeLeaf
<1>2. /\ frames # <<>> /\ Size \in Nat /\ Named \in Frame /\ Bounded(Named)
      /\ Named.at \in Nat /\ Named.left \in Nat
      /\ Named.from = Top.from /\ Named.at + Named.left = Size + 1
  BY <1>1, TurnFacts
<1>3. input \in Input /\ last \in Nat \ {0} /\ Top = frames[last]
  BY <1>2, TopFacts
<1>4. n \in Nat /\ n <= Named.left
  <2> DEFINE i == Named.at
             m == Named.left
  <2>1. i \in Int /\ m \in Nat /\ IsLeaf(i, m) /\ n = LeafSize(i, m)
    BY <1>1, <1>2
  <2> HIDE DEF i, m, n
  <2>2. n \in Nat /\ n <= m
    BY <1>3, <2>1, ByteTypes DEF IsLeaf
  <2> QED BY <2>2 DEF m
<1> HIDE DEF n
<1>5. g \in Frame /\ Bounded(g) /\ g.from = Top.from
  BY <1>2, <1>4, PastFacts, PastIsBounded
<1>6. Named.at + n \in Nat /\ Named.at + n <= Size + 1
  BY <1>2, <1>4
<1>7. ~strayed'
  BY <1>1, <1>2, <1>6, ReadsInside
<1> HIDE DEF g
<1>8. /\ frames' \in Seq(Frame) /\ Len(frames') = last
      /\ \A c \in 1..last : frames'[c] = IF c = last THEN g ELSE frames[c]
  BY <1>1, <1>3, <1>5 DEF AmfInv
<1>9. \A c \in 1..Len(frames') : Bounded(frames'[c])
  BY <1>3, <1>5, <1>8 DEF AmfInv
<1>10. Nested'
  BY <1>3, <1>5, <1>8 DEF AmfInv, Nested
<1> QED BY <1>1, <1>3, <1>7, <1>8, <1>9, <1>10 DEF AmfInv, Size, Bounded

LEMMA TakeObjectKeepsAmfInv ==
  ASSUME AmfConstants, AmfInv, TakeObject
  PROVE  AmfInv'
<1> DEFINE g == Called(Named.at, Named.left)
           last == Len(frames)
           calls == [frames EXCEPT ![last] = Named]
<1>1. /\ Turns /\ NameFits /\ IsObject(Named.at, Named.left)
      /\ frames' = Append(calls, g) /\ ReadsTo(Named.at + 1)
      /\ UNCHANGED <<input, result>>
  BY DEF TakeObject
<1>2. /\ frames # <<>> /\ Size \in Nat /\ Named \in Frame /\ Bounded(Named)
      /\ Named.at \in Nat /\ Named.left \in Nat
      /\ Named.from = Top.from /\ Named.at + Named.left = Size + 1
      /\ Top.from < Named.at /\ Top.from \in Nat
  BY <1>1, TurnFacts
<1>3. input \in Input /\ last \in Nat \ {0} /\ Top = frames[last]
  BY <1>2, TopFacts
<1>4. Named.left >= 1
  BY <1>1 DEF IsObject
<1>5. /\ g \in Frame /\ g.from = Named.at /\ g.at = Named.at + 1
      /\ g.left = Named.left - 1
  <2> DEFINE i == Named.at
             n == Named.left
  <2>1. i \in Nat /\ n \in Nat /\ n >= 1 /\ g = Called(i, n)
    BY <1>2, <1>4
  <2> HIDE DEF i, n, g
  <2>2. /\ g \in Frame /\ g.from = i /\ g.at = i + 1 /\ g.left = n - 1
    BY <2>1 DEF Called, Frame
  <2> QED BY <2>2 DEF i, n
<1> HIDE DEF g
<1>6. Bounded(g)
  <2>1. Named.at >= 1
    BY <1>2
  <2> QED BY <1>2, <1>5, <2>1 DEF Bounded
<1>7. ~strayed'
  <2>1. Named.at + 1 \in Nat /\ Named.at + 1 <= Size + 1
    BY <1>2, <1>4
  <2> QED BY <1>1, <1>2, <2>1, ReadsInside
<1>8. /\ calls \in Seq(Frame) /\ Len(calls) = last
      /\ \A c \in 1..last : calls[c] = IF c = last THEN Named ELSE frames[c]
  BY <1>2, <1>3 DEF AmfInv
<1> HIDE DEF calls
<1>9. /\ frames' \in Seq(Frame) /\ Len(frames') = last + 1
      /\ \A c \in 1..last : frames'[c] = calls[c]
      /\ frames'[last + 1] = g
  BY <1>1, <1>5, <1>8
<1> HIDE DEF last
<1>10. \A c \in 1..Len(frames') : Bounded(frames'[c])
  <2>1. \A c \in 1..last : Bounded(frames[c])
    BY <1>3 DEF AmfInv, last
  <2> QED BY <1>2, <1>3, <1>6, <1>8, <1>9, <2>1
<1>11. Nested'
  <2>1. \A c \in 1..(last - 1) : frames[c + 1].from = frames[c].at
    BY <1>3 DEF AmfInv, Nested, last
  <2>2. ASSUME NEW c \in 1..last PROVE frames'[c + 1].from = frames'[c].at
    <3>1. CASE c = last
      BY <1>3, <1>5, <1>8, <1>9, <3>1
    <3>2. CASE c # last
      <4>1. c \in 1..(last - 1) /\ c + 1 \in 1..last
        BY <1>3, <3>2
      <4>2. frames'[c] = frames[c] /\ frames'[c + 1].from = frames[c + 1].from
        BY <1>2, <1>3, <1>8, <1>9, <3>2, <4>1
      <4> QED BY <2>1, <4>1, <4>2
    <3> QED BY <3>1, <3>2
  <2>3. Len(frames') - 1 = last
    BY <1>3, <1>9
  <2> QED BY <2>2, <2>3 DEF Nested
<1>12. input # NoInput
  BY <1>3 DEF AmfConstants
<1> QED BY <1>1, <1>3, <1>7, <1>9, <1>10, <1>11, <1>12 DEF AmfInv, Size, Bounded

LEMMA NextAmfInv ==
  ASSUME AmfConstants, AmfInv, [AmfNext]_amfVars
  PROVE  AmfInv'
<1>1. CASE Decode
  BY <1>1, DecodeKeepsAmfInv
<1>2. CASE EndsShort
  BY <1>2, EndsShortKeepsAmfInv
<1>3. CASE EndsAtMarker
  BY <1>3, EndsAtMarkerKeepsAmfInv
<1>4. CASE NoName
  BY <1>4, NoNameKeepsAmfInv
<1>5. CASE NoValue
  BY <1>5, NoValueKeepsAmfInv
<1>6. CASE TakeLeaf
  BY <1>6, TakeLeafKeepsAmfInv
<1>7. CASE TakeObject
  BY <1>7, TakeObjectKeepsAmfInv
<1>8. CASE UNCHANGED amfVars
  BY <1>8 DEF amfVars, AmfInv, Nested, Bounded, Size
<1> QED BY <1>1, <1>2, <1>3, <1>4, <1>5, <1>6, <1>7, <1>8 DEF AmfNext, Turn

LEMMA InvariantAmfInv == ASSUME AmfConstants PROVE AmfSpec => []AmfInv
<1>1. AmfInit => AmfInv
  BY InitAmfInv
<1>2. AmfInv /\ [AmfNext]_amfVars => AmfInv'
  BY NextAmfInv
<1> QED BY <1>1, <1>2, PTL DEF AmfSpec

\* Whatever bytes are handed to rtmp_amf_decode_object, and however deep the objects
\* in them are nested, it reads none outside its buffer, and every call's count of
\* what is left ends where the buffer does.
THEOREM DecoderStaysInBuffer ==
  ASSUME AmfConstants
  PROVE  AmfSpec => []StaysInBuffer
<1>1. AmfInv => StaysInBuffer
  <2> SUFFICES ASSUME AmfInv PROVE StaysInBuffer
    OBVIOUS
  <2>1. ASSUME NEW c \in DOMAIN frames, input # NoInput
        PROVE  frames[c].at + frames[c].left = Len(input.bytes) + 1
    BY <2>1 DEF AmfInv, Bounded, Size
  <2>2. input # NoInput => result.read <= Len(input.bytes)
    BY DEF AmfInv, Size
  <2> QED BY <2>1, <2>2 DEF StaysInBuffer, AmfInv
<1> QED BY <1>1, InvariantAmfInv, PTL

-----------------------------------------------------------------------------
(* What the calls have built *)

\* Every call under way has its properties.
Shape ==
  /\ \E S : built \in Seq(S)
  /\ Len(built) = Len(frames)
  /\ strayed \in BOOLEAN /\ starved \in BOOLEAN /\ result.ok \in BOOLEAN

\* A sequence of which an element is replaced, the last left out, or one more added.
LEMMA SequenceSteps ==
  ASSUME NEW S, NEW s \in Seq(S), NEW k \in 1..Len(s), NEW e
  PROVE  /\ [s EXCEPT ![k] = e] \in Seq(S \cup {e})
         /\ Len([s EXCEPT ![k] = e]) = Len(s)
         /\ Append(s, e) \in Seq(S \cup {e}) /\ Len(Append(s, e)) = Len(s) + 1
         /\ Waiting(s) \in Seq(S) /\ Len(Waiting(s)) = Len(s) - 1
<1>1. s \in Seq(S \cup {e}) /\ e \in S \cup {e}
  OBVIOUS
<1>2. /\ [s EXCEPT ![k] = e] \in Seq(S \cup {e})
      /\ Len([s EXCEPT ![k] = e]) = Len(s)
  BY <1>1, ExceptSeq
<1>3. Append(s, e) \in Seq(S \cup {e}) /\ Len(Append(s, e)) = Len(s) + 1
  BY <1>1, AppendProperties
<1>4. Waiting(s) \in Seq(S) /\ Len(Waiting(s)) = Len(s) - 1
  <2> DEFINE m == Len(s) - 1
  <2>1. m \in Nat /\ \A i \in 1..m : s[i] \in S
    OBVIOUS
  <2>2. Waiting(s) = SubSeq(s, 1, m)
    BY DEF Waiting
  <2> HIDE DEF m
  <2>3. /\ SubSeq(s, 1, m) \in Seq(S)
        /\ Len(SubSeq(s, 1, m)) = IF 1 <= m THEN m - 1 + 1 ELSE 0
    BY <2>1, SubSeqProperties
  <2>4. (IF 1 <= m THEN m - 1 + 1 ELSE 0) = m
    BY <2>1
  <2> QED BY <2>2, <2>3, <2>4 DEF m
<1> QED BY <1>2, <1>3, <1>4

LEMMA ReturnKeepsShape ==
  ASSUME AmfInv, Shape, frames # <<>>, NEW i, Return(i)
  PROVE  /\ \E S : built' \in Seq(S)
         /\ Len(built') = Len(frames')
         /\ result'.ok \in BOOLEAN
<1>1. PICK S : built \in Seq(S)
  BY DEF Shape
<1>2. /\ frames \in Seq(Frame) /\ Len(frames) \in Nat \ {0}
      /\ Len(built) = Len(frames)
  BY DEF AmfInv, Shape
<1>3. CASE Len(frames) = 1
  <2>1. frames' = <<>> /\ built' = <<>> /\ result'.ok
    BY <1>3 DEF Return
  <2>2. <<>> \in Seq(S)
    OBVIOUS
  <2> QED BY <2>1, <2>2
<1>4. CASE Len(frames) # 1
  <2> DEFINE outer == Len(frames) - 1
             f == Past(Waiting(frames)[outer], i - (Top.from + 1) + 1)
             b == With(Waiting(built)[outer], AMF0_OBJECT, Own.props)
  <2>1. /\ frames' = [Waiting(frames) EXCEPT ![outer] = f]
        /\ built' = [Waiting(built) EXCEPT ![outer] = b]
        /\ UNCHANGED result
    BY <1>4 DEF Return
  <2> HIDE DEF f, b
  <2>0. outer \in 1..Len(frames) /\ outer \in 1..Len(built) /\ outer \in Nat
    BY <1>2, <1>4
  <2>2. /\ Waiting(frames) \in Seq(Frame) /\ Len(Waiting(frames)) = outer
        /\ Waiting(built) \in Seq(S) /\ Len(Waiting(built)) = outer
    BY <1>1, <1>2, <2>0, SequenceSteps
  <2>3. /\ Len(frames') = outer
        /\ built' \in Seq(S \cup {b}) /\ Len(built') = outer
    <3>1. outer \in 1..Len(Waiting(frames)) /\ outer \in 1..Len(Waiting(built))
      BY <1>4, <2>0, <2>2
    <3> QED BY <2>1, <2>2, <3>1, SequenceSteps
  <2> QED BY <2>1, <2>3 DEF Shape
<1> QED BY <1>3, <1>4

LEMMA NextShape ==
  ASSUME AmfConstants, AmfInv, Shape, [AmfNext]_amfVars
  PROVE  Shape'
<1>1. CASE Decode
  <2>1. PICK in \in Input :
          \/ frames' = <<Called(1, Len(in.bytes))>> /\ built' = <<New>>
          \/ UNCHANGED <<frames, built>>
    BY <1>1 DEF Decode
  <2>2. UNCHANGED <<strayed, starved, result>>
    BY <1>1 DEF Decode
  <2>3. /\ <<New>> \in Seq({New}) /\ Len(<<New>>) = 1
        /\ Len(<<Called(1, Len(in.bytes))>>) = 1
    OBVIOUS
  <2> QED BY <2>1, <2>2, <2>3 DEF Shape
<1>2. ASSUME NEW i, frames # <<>>, Return(i), starved' \in BOOLEAN, strayed' \in BOOLEAN
      PROVE  Shape'
  BY <1>2, ReturnKeepsShape DEF Shape
<1>3. ASSUME NEW i, ReadsTo(i) PROVE strayed' \in BOOLEAN
  BY <1>3 DEF ReadsTo, Shape
<1>4. CASE EndsShort \/ EndsAtMarker
  BY <1>2, <1>3, <1>4 DEF EndsShort, EndsAtMarker, Turns, Shape
<1>5. CASE NoName \/ NoValue
  <2>1. starved' \in BOOLEAN
    BY Zenon, <1>5 DEF NoName, NoValue, Shape
  <2> QED BY <1>2, <1>3, <1>5, <2>1 DEF NoName, NoValue, Turns
<1>6. PICK S : built \in Seq(S)
  BY DEF Shape
<1>7. frames \in Seq(Frame) /\ Len(frames) \in Nat /\ Len(built) = Len(frames)
  BY DEF AmfInv, Shape
<1>0. frames # <<>> => Len(frames) \in 1..Len(frames)
  BY <1>7
<1>8. CASE TakeLeaf
  <2>1. PICK f, b : /\ frames' = [frames EXCEPT ![Len(frames)] = f]
                    /\ built' = [built EXCEPT ![Len(frames)] = b]
    BY Zenon, <1>8 DEF TakeLeaf
  <2>2. /\ built' \in Seq(S \cup {b}) /\ Len(built') = Len(built)
        /\ Len(frames') = Len(frames)
    BY <1>0, <1>6, <1>7, <1>8, <2>1, SequenceSteps DEF TakeLeaf, Turns
  <2>3. strayed' \in BOOLEAN /\ UNCHANGED <<starved, result>>
    BY <1>3, <1>8 DEF TakeLeaf
  <2> QED BY <1>7, <2>2, <2>3 DEF Shape
<1>9. CASE TakeObject
  <2>1. PICK f, b, g : /\ frames' = Append([frames EXCEPT ![Len(frames)] = f], g)
                       /\ built' = Append([built EXCEPT ![Len(frames)] = b], New)
    BY Zenon, <1>9 DEF TakeObject
  <2> DEFINE F == [frames EXCEPT ![Len(frames)] = f]
             B == [built EXCEPT ![Len(frames)] = b]
  <2>2. /\ F \in Seq(Frame \cup {f}) /\ Len(F) = Len(frames)
        /\ B \in Seq(S \cup {b}) /\ Len(B) = Len(frames)
    BY <1>0, <1>6, <1>7, <1>9, SequenceSteps DEF TakeObject, Turns
  <2> HIDE DEF F, B
  <2>3. /\ built' \in Seq(S \cup {b} \cup {New}) /\ Len(built') = Len(frames) + 1
        /\ Len(frames') = Len(frames) + 1
    BY <2>1, <2>2, SequenceSteps DEF F, B
  <2>4. strayed' \in BOOLEAN /\ UNCHANGED <<starved, result>>
    BY <1>3, <1>9 DEF TakeObject
  <2> QED BY <2>3, <2>4 DEF Shape
<1>10. CASE UNCHANGED amfVars
  BY <1>10 DEF amfVars, Shape
<1> QED BY <1>1, <1>4, <1>5, <1>8, <1>9, <1>10 DEF AmfNext, Turn

LEMMA InitShape == ASSUME AmfInit PROVE Shape
<1>1. <<>> \in Seq({})
  OBVIOUS
<1>2. \E S : built \in Seq(S)
  BY Zenon, <1>1 DEF AmfInit
<1>3. result.ok \in BOOLEAN
  BY DEF AmfInit, Refused
<1>4. Len(built) = Len(frames) /\ strayed \in BOOLEAN /\ starved \in BOOLEAN
  BY Zenon DEF AmfInit
<1> QED BY <1>2, <1>3, <1>4 DEF Shape

\* Every variable of the decoder keeps its type.
LEMMA AmfTypes == ASSUME AmfConstants PROVE AmfSpec => []AmfTypeOK
<1>1. AmfInit => Shape
  BY InitShape
<1>2. AmfInv /\ Shape /\ [AmfNext]_amfVars => Shape'
  BY NextShape
<1>3. AmfInv /\ Shape => AmfTypeOK
  BY DEF AmfInv, Shape, AmfTypeOK, AmfConstants, Frame
<1> QED BY <1>1, <1>2, <1>3, InvariantAmfInv, PTL DEF AmfSpec

-----------------------------------------------------------------------------
(* What is decoded *)

\* The bytes s stand at i in b, as far as b goes.
StandsAt(b, i, s) ==
  \A k \in 1..Len(s) : i + k - 1 \in 1..Len(b) => b[i + k - 1] = s[k]

\* The object w is what is decoded of it, d, and what rests, r.
Splits(w, d, r) ==
  /\ Len(w) = Len(d) + Len(r)
  /\ \A k \in 1..Len(d) : d[k] = w[k]
  /\ \A k \in 1..Len(r) : r[k] = w[Len(d) + k]

\* Among the bytes b: a call whose object w begins behind `from' has decoded d of it;
\* the rest r stands at i, and ends where w does.
Comes(b, from, w, d, r, i) ==
  /\ d \in Seq(Property)
  /\ Splits(w, d, r)
  /\ i + Len(Encoding[r]) = from + 1 + Len(Encoding[w])
  /\ StandsAt(b, i, Encoding[r])

\* The property the call will have that waits with b for the object w.
Awaited(b, w) == [name |-> b.name, type |-> AMF0_OBJECT, data |-> w]

Building == [name : Seq(Octet), props : Seq(Property)]

\* Every call decodes an object that was sent: whole, of which rest is to come.  One
\* that waits stands before the object of the next call, and has decoded that too.
Follows(in, calls, props, whole, rest) ==
  /\ whole \in Seq(Object) /\ Len(whole) = Len(calls)
  /\ rest \in Seq(Object) /\ Len(rest) = Len(calls)
  /\ props \in Seq(Building) /\ Len(props) = Len(calls)
  /\ Len(calls) > 0 =>
       LET n == Len(calls) IN
       /\ whole[1] = in.sent /\ calls[1].from = 1
       /\ Comes(in.bytes, calls[n].from, whole[n], props[n].props, rest[n], calls[n].at)
  /\ \A c \in 1..(Len(calls) - 1) :
       Comes(in.bytes, calls[c].from, whole[c],
             Append(props[c].props, Awaited(props[c], whole[c + 1])), rest[c],
             calls[c].at + 1 + Len(Encoding[whole[c + 1]]))
  /\ in.kind = "flat" => Len(calls) <= 1
  /\ in.kind = "whole" =>
       \A c \in 1..Len(calls) : calls[c].from + Len(Encoding[whole[c]]) <= Len(in.bytes)

\* A decode of an object that arrives whole, without want of memory, or flat.
IsFollowed ==
  input # NoInput /\ (input.kind = "flat" \/ (input.kind = "whole" /\ ~starved))

FollowInv ==
  /\ IsFollowed => \E whole, rest : Follows(input, frames, built, whole, rest)
  /\ input = NoInput => ~result.ok
  /\ DecodesWhatWasSent

-----------------------------------------------------------------------------
(* Sequences of bytes and of properties *)

\* A row of bytes stands somewhere if its two parts stand one behind the other.
LEMMA StandsConcat ==
  ASSUME NEW b, NEW i \in Int, NEW s \in Seq(Octet), NEW t \in Seq(Octet)
  PROVE  /\ s \o t \in Seq(Octet) /\ Len(s \o t) = Len(s) + Len(t)
         /\ StandsAt(b, i, s \o t) => /\ StandsAt(b, i, s)
                                      /\ StandsAt(b, i + Len(s), t)
<1>1. /\ s \o t \in Seq(Octet) /\ Len(s \o t) = Len(s) + Len(t)
      /\ Len(s) \in Nat /\ Len(t) \in Nat
      /\ \A k \in 1..(Len(s) + Len(t)) :
           (s \o t)[k] = IF k <= Len(s) THEN s[k] ELSE t[k - Len(s)]
  BY ConcatProperties
<1>2. ASSUME StandsAt(b, i, s \o t) PROVE StandsAt(b, i, s)
  BY <1>1, <1>2 DEF StandsAt
<1>3. ASSUME StandsAt(b, i, s \o t) PROVE StandsAt(b, i + Len(s), t)
  <2> SUFFICES ASSUME NEW k \in 1..Len(t), i + Len(s) + k - 1 \in 1..Len(b)
               PROVE  b[i + Len(s) + k - 1] = t[k]
    BY DEF StandsAt
  <2> DEFINE j == Len(s) + k
  <2>1. j \in 1..Len(s \o t) /\ i + j - 1 = i + Len(s) + k - 1
        /\ ~(j <= Len(s)) /\ j - Len(s) = k
    BY <1>1
  <2> HIDE DEF j
  <2>2. b[i + j - 1] = (s \o t)[j]
    BY <1>3, <2>1 DEF StandsAt
  <2>3. (s \o t)[j] = t[k]
    BY <1>1, <2>1
  <2> QED BY <2>1, <2>2, <2>3
<1> QED BY <1>1, <1>2, <1>3

\* What is decoded grows by what comes first in the rest.
LEMMA SplitsNext ==
  ASSUME NEW S, NEW w \in Seq(S), NEW d \in Seq(S), NEW r \in Seq(S),
         Splits(w, d, r), r # <<>>
  PROVE  /\ r[1] \in S /\ Tail(r) \in Seq(S)
         /\ Append(d, r[1]) \in Seq(S)
         /\ Splits(w, Append(d, r[1]), Tail(r))
         /\ Len(d) + 1 \in 1..Len(w) /\ r[1] = w[Len(d) + 1]
<1>1. /\ r[1] \in S /\ Len(r) \in Nat \ {0}
      /\ Tail(r) \in Seq(S) /\ Len(Tail(r)) = Len(r) - 1
      /\ \A k \in 1..(Len(r) - 1) : Tail(r)[k] = r[k + 1]
  OBVIOUS
<1>2. /\ Append(d, r[1]) \in Seq(S) /\ Len(Append(d, r[1])) = Len(d) + 1
      /\ \A k \in 1..(Len(d) + 1) :
           Append(d, r[1])[k] = IF k <= Len(d) THEN d[k] ELSE r[1]
  BY <1>1
<1>3. Len(d) \in Nat /\ Len(w) \in Nat
  OBVIOUS
<1> DEFINE e == Append(d, r[1])
           q == Tail(r)
<1>4. e \in Seq(S) /\ q \in Seq(S)
  BY <1>1, <1>2
<1> HIDE DEF e, q
<1>5. Len(w) = Len(e) + Len(q)
  BY <1>1, <1>2, <1>3 DEF Splits, e, q
<1>8. Len(d) + 1 \in 1..Len(w) /\ r[1] = w[Len(d) + 1]
  BY <1>1, <1>3 DEF Splits
<1>6. \A k \in 1..Len(e) : e[k] = w[k]
  <2> SUFFICES ASSUME NEW k \in 1..Len(e) PROVE e[k] = w[k]
    OBVIOUS
  <2>1. CASE k <= Len(d)
    <3>1. k \in 1..Len(d) /\ k \in 1..(Len(d) + 1)
      BY <1>3, <2>1
    <3>2. e[k] = d[k]
      BY <1>2, <2>1, <3>1 DEF e
    <3> QED BY <3>1, <3>2 DEF Splits
  <2>2. CASE ~(k <= Len(d))
    <3>1. k = Len(d) + 1 /\ k \in 1..(Len(d) + 1)
      BY <1>2, <1>3, <2>2 DEF e
    <3>2. e[k] = r[1]
      BY <1>2, <2>2, <3>1 DEF e
    <3> QED BY <1>8, <3>1, <3>2
  <2> QED BY <2>1, <2>2
<1>7. \A k \in 1..Len(q) : q[k] = w[Len(e) + k]
  <2> SUFFICES ASSUME NEW k \in 1..Len(q) PROVE q[k] = w[Len(e) + k]
    OBVIOUS
  <2>1. k + 1 \in 1..Len(r) /\ k \in 1..(Len(r) - 1)
    BY <1>1 DEF q
  <2>2. r[k + 1] = w[Len(d) + (k + 1)]
    BY <2>1 DEF Splits
  <2>3. Len(e) + k = Len(d) + (k + 1)
    BY <1>2, <1>3 DEF e
  <2> QED BY <1>1, <2>1, <2>2, <2>3 DEF q
<1> QED BY <1>1, <1>2, <1>5, <1>6, <1>7, <1>8 DEF Splits, e, q

\* What is decoded is a first part, and all of it when nothing rests.
LEMMA SplitsEnd ==
  ASSUME NEW S, NEW w \in Seq(S), NEW d \in Seq(S), NEW r \in Seq(S), Splits(w, d, r)
  PROVE  /\ d = SubSeq(w, 1, Len(d))
         /\ r = <<>> => d = w
<1>1. Len(d) \in Nat /\ Len(r) \in Nat /\ Len(w) \in Nat /\ Len(d) <= Len(w)
  BY DEF Splits
<1> DEFINE n == Len(d)
<1>2. n \in Nat /\ \A k \in 1..n : w[k] \in S /\ w[k] = d[k]
  BY <1>1 DEF Splits
<1>3. d \in Seq(S) /\ Len(d) = n
  OBVIOUS
<1> HIDE DEF n
<1>4. /\ SubSeq(w, 1, n) \in Seq(S)
      /\ Len(SubSeq(w, 1, n)) = IF 1 <= n THEN n - 1 + 1 ELSE 0
      /\ \A k \in 1..(n - 1 + 1) : SubSeq(w, 1, n)[k] = w[1 + k - 1]
  BY <1>2, SubSeqProperties
<1> DEFINE u == SubSeq(w, 1, n)
<1>5. u \in Seq(S) /\ Len(u) = n /\ \A k \in 1..n : u[k] = w[k]
  BY <1>2, <1>4
<1> HIDE DEF u
<1>6. d = u
  BY <1>2, <1>3, <1>5, SeqEqual
<1>7. ASSUME r = <<>> PROVE d = w
  <2>1. Len(w) = Len(d) /\ \A k \in 1..Len(d) : d[k] = w[k]
    BY <1>1, <1>7 DEF Splits
  <2> QED BY <2>1, SeqEqual
<1> QED BY <1>6, <1>7 DEF u, n

-----------------------------------------------------------------------------
(* The encoding *)

LEMMA ObjectFacts ==
  ASSUME AmfEncodings, NEW o \in Object
  PROVE  /\ o \in Seq(Property)
         /\ Encoding[o] \in Seq(Octet) /\ Len(Encoding[o]) \in Nat
         /\ o = <<>> => Encoding[o] = <<0, 0, AMF0_OBJECT_END>>
         /\ o # <<>> => /\ o[1] \in Property /\ IsProperty(o[1]) /\ Tail(o) \in Object
                        /\ Encoding[o] = TwoBytes(Len(o[1].name)) \o (o[1].name \o
                             (ValueEncoding(o[1]) \o Encoding[Tail(o)]))
<1>1. /\ o \in Seq(Property)
      /\ Encoding[o] \in Seq(Octet)
      /\ o = <<>> => Encoding[o] = <<0, 0, AMF0_OBJECT_END>>
  BY DEF AmfEncodings
<1>2. o # <<>> => /\ Tail(o) \in Object
                  /\ Encoding[o] = TwoBytes(Len(o[1].name)) \o (o[1].name \o
                       (ValueEncoding(o[1]) \o Encoding[Tail(o)]))
  BY Zenon DEF AmfEncodings
<1>3. o # <<>> => o[1] \in Property
  BY <1>1
<1>4. o # <<>> => IsProperty(o[1])
  BY Zenon, <1>3 DEF AmfEncodings
<1>5. Len(Encoding[o]) \in Nat
  BY <1>1, LenProperties
<1> QED BY <1>1, <1>2, <1>3, <1>4, <1>5

\* A value's encoding is its type and what follows.
After(p) ==
  IF p.type = AMF0_OBJECT THEN Encoding[p.data]
  ELSE IF p.type = AMF0_STRING THEN TwoBytes(Len(p.data)) \o p.data ELSE p.data

LEMMA TwoBytesFacts ==
  ASSUME NEW n \in Nat, n < 256 * 256
  PROVE  /\ TwoBytes(n) \in Seq(Octet) /\ Len(TwoBytes(n)) = 2
         /\ 256 * TwoBytes(n)[1] + TwoBytes(n)[2] = n
         /\ TwoBytes(n) = <<n \div 256, n % 256>>
<1>1. n \div 256 \in 0..255 /\ n % 256 \in 0..255 /\ 256 * (n \div 256) + (n % 256) = n
  OBVIOUS
<1> DEFINE h == n \div 256
           l == n % 256
<1>2. TwoBytes(n) = <<h, l>> /\ h \in Octet /\ l \in Octet /\ 256 * h + l = n
  BY <1>1 DEF TwoBytes, Octet
<1> HIDE DEF h, l
<1>3. <<h, l>> \in Seq(Octet) /\ Len(<<h, l>>) = 2 /\ <<h, l>>[1] = h /\ <<h, l>>[2] = l
  BY <1>2
<1> QED BY <1>2, <1>3 DEF h, l

LEMMA ValueFacts ==
  ASSUME AmfEncodings, NumberSize \in Nat \ {0}, NEW p, IsProperty(p)
  PROVE  /\ p.type \in {0, 1, 2, 3, 5, 6}
         /\ p.type = AMF0_OBJECT => p.data \in Object
         /\ After(p) \in Seq(Octet) /\ Len(After(p)) \in Nat
         /\ ValueEncoding(p) = <<p.type>> \o After(p)
         /\ <<p.type>> \in Seq(Octet) /\ Len(<<p.type>>) = 1
         /\ ValueEncoding(p) \in Seq(Octet)
         /\ Len(ValueEncoding(p)) = 1 + Len(After(p))
<1>1. p.type \in {0, 1, 2, 3, 5, 6} /\ (p.type = AMF0_OBJECT => p.data \in Object)
  BY DEF IsProperty, AMF0_NUMBER, AMF0_BOOLEAN, AMF0_STRING, AMF0_OBJECT, AMF0_EMPTY
<1>2. After(p) \in Seq(Octet)
  <2>1. CASE p.type = AMF0_OBJECT
    <3>1. After(p) = Encoding[p.data]
      BY <2>1 DEF After
    <3> QED BY <1>1, <2>1, <3>1, ObjectFacts
  <2>2. CASE p.type = AMF0_STRING
    <3>1. p.data \in Seq(Octet) /\ Len(p.data) < 256 * 256
      BY <2>2 DEF IsProperty, AMF0_NUMBER, AMF0_BOOLEAN, AMF0_STRING, AMF0_OBJECT,
                  AMF0_EMPTY
    <3> DEFINE q == p.data
    <3>2. After(p) = TwoBytes(Len(q)) \o q
      BY <2>2 DEF After, AMF0_STRING, AMF0_OBJECT
    <3>3. q \in Seq(Octet) /\ Len(q) < 256 * 256
      BY <3>1
    <3> HIDE DEF q
    <3>4. Len(q) \in Nat
      BY <3>3
    <3>5. TwoBytes(Len(q)) \in Seq(Octet)
      BY <3>3, <3>4, TwoBytesFacts
    <3> QED BY <3>2, <3>3, <3>5, ConcatProperties
  <2>3. CASE p.type # AMF0_OBJECT /\ p.type # AMF0_STRING
    <3>1. After(p) = p.data
      BY <2>3 DEF After
    <3>2. <<>> \in Seq(Octet) /\ <<0>> \in Seq(Octet) /\ <<1>> \in Seq(Octet)
      BY DEF Octet
    <3>3. \/ p.data \in Seq(Octet) \/ p.data \in {<<0>>, <<1>>} \/ p.data = <<>>
      BY Zenon, <2>3 DEF IsProperty
    <3> QED BY <3>1, <3>2, <3>3
  <2> QED BY <2>1, <2>2, <2>3
<1>3. ValueEncoding(p) = <<p.type>> \o After(p)
  <2>1. CASE p.type = AMF0_OBJECT
    BY Zenon, <2>1 DEF ValueEncoding, After
  <2>2. CASE p.type # AMF0_OBJECT /\ p.type = AMF0_STRING
    BY Zenon, <2>2 DEF ValueEncoding, After
  <2>3. CASE p.type # AMF0_OBJECT /\ p.type # AMF0_STRING
    BY Zenon, <2>3 DEF ValueEncoding, After
  <2> QED BY Zenon, <2>1, <2>2, <2>3
<1>4. <<p.type>> \in Seq(Octet) /\ Len(<<p.type>>) = 1
  BY <1>1 DEF Octet
<1>5. /\ ValueEncoding(p) \in Seq(Octet)
      /\ Len(ValueEncoding(p)) = 1 + Len(After(p))
  BY <1>2, <1>3, <1>4, ConcatProperties
<1>6. Len(After(p)) \in Nat
  BY <1>2, LenProperties
<1> QED BY <1>1, <1>2, <1>3, <1>4, <1>5, <1>6

\* What follows of the parts of a property when they stand in a row with the rest.
InRow(b, i, z, y, x, e) ==
  /\ StandsAt(b, i, z)
  /\ StandsAt(b, i + 2, y)
  /\ StandsAt(b, i + 2 + Len(y), x)
  /\ StandsAt(b, i + 2 + Len(y) + Len(x), e)
  /\ Len(z \o (y \o (x \o e))) = 2 + Len(y) + Len(x) + Len(e)

LEMMA StandsInRow ==
  ASSUME NEW b, NEW i \in Int, NEW z \in Seq(Octet), NEW y \in Seq(Octet),
         NEW x \in Seq(Octet), NEW e \in Seq(Octet),
         Len(z) = 2, StandsAt(b, i, z \o (y \o (x \o e)))
  PROVE  InRow(b, i, z, y, x, e)
<1> DEFINE j == i + 2
           k == j + Len(y)
           xe == x \o e
           yxe == y \o xe
<1>1. /\ j \in Int /\ k \in Int
      /\ Len(y) \in Nat /\ Len(x) \in Nat /\ Len(e) \in Nat
  BY LenProperties
<1>2. xe \in Seq(Octet) /\ Len(xe) = Len(x) + Len(e)
  BY StandsConcat
<1> HIDE DEF xe
<1>3. yxe \in Seq(Octet) /\ Len(yxe) = Len(y) + Len(xe)
  BY <1>2, StandsConcat
<1> HIDE DEF yxe
<1>4. /\ StandsAt(b, i, z) /\ StandsAt(b, j, yxe) /\ Len(z \o yxe) = 2 + Len(yxe)
  <2>1. StandsAt(b, i, z \o yxe)
    BY DEF yxe, xe
  <2>2. Len(z \o yxe) = Len(z) + Len(yxe) /\ StandsAt(b, i, z)
        /\ StandsAt(b, i + Len(z), yxe)
    BY Zenon, <1>3, <2>1, StandsConcat
  <2> QED BY Zenon, <2>2
<1> HIDE DEF j
<1>5. StandsAt(b, j, y) /\ StandsAt(b, k, xe)
  BY <1>1, <1>2, <1>4, StandsConcat DEF yxe
<1> HIDE DEF k
<1>6. StandsAt(b, k, x) /\ StandsAt(b, k + Len(x), e)
  BY <1>1, <1>5, StandsConcat DEF xe
<1>7. Len(z \o yxe) = 2 + Len(y) + Len(x) + Len(e)
  BY <1>1, <1>2, <1>3, <1>4
<1> QED BY <1>4, <1>5, <1>6, <1>7 DEF j, k, xe, yxe, InRow

\* The parts of the first property p of the object o stand behind i.
FirstStands(b, i, o, p) ==
  /\ IsProperty(p) /\ Tail(o) \in Object
  /\ p.name \in Seq(Octet) /\ Len(p.name) < 256 * 256
  /\ StandsAt(b, i, TwoBytes(Len(p.name)))
  /\ StandsAt(b, i + 2, p.name)
  /\ StandsAt(b, i + 2 + Len(p.name), ValueEncoding(p))
  /\ StandsAt(b, i + 2 + Len(p.name) + Len(ValueEncoding(p)), Encoding[Tail(o)])
  /\ Len(Encoding[o]) =
       2 + Len(p.name) + Len(ValueEncoding(p)) + Len(Encoding[Tail(o)])

\* Where the encoding of an object stands, the parts of its first property stand.
LEMMA PropertyStands ==
  ASSUME AmfEncodings, NumberSize \in Nat \ {0},
         NEW b, NEW i \in Int, NEW o \in Object, o # <<>>, StandsAt(b, i, Encoding[o])
  PROVE  FirstStands(b, i, o, o[1])
<1> DEFINE p == o[1]
<1> DEFINE e == Encoding[Tail(o)]
           x == ValueEncoding(p)
           y == p.name
           z == TwoBytes(Len(y))
<1>1. /\ IsProperty(p) /\ Tail(o) \in Object
      /\ Encoding[o] = z \o (y \o (x \o e))
  BY Zenon, ObjectFacts
<1>2. y \in Seq(Octet) /\ Len(y) < 256 * 256
  BY Zenon, <1>1 DEF IsProperty
<1>3. x \in Seq(Octet) /\ e \in Seq(Octet)
  BY Zenon, <1>1, ValueFacts, ObjectFacts
<1> HIDE DEF y
<1>4. z \in Seq(Octet) /\ Len(z) = 2
  <2>1. Len(y) \in Nat
    BY <1>2, LenProperties
  <2> QED BY Zenon, <1>2, <2>1, TwoBytesFacts
<1> HIDE DEF e, x, z
<1>5. StandsAt(b, i, z \o (y \o (x \o e)))
  BY Zenon, <1>1
<1>6. y \in Seq(Octet) /\ Len(z) = 2 /\ z \in Seq(Octet)
  BY <1>2, <1>4
<1>7. InRow(b, i, z, y, x, e)
  BY ONLY i \in Int, <1>3, <1>5, <1>6, StandsInRow
<1> QED
  BY Zenon, <1>1, <1>2, <1>7 DEF e, x, y, z, p, InRow, FirstStands

-----------------------------------------------------------------------------
(* Reading what was encoded *)

LEMMA BytesFacts ==
  ASSUME AmfConstants, input \in Input, NEW i \in Int, NEW n \in Nat
  PROVE  /\ input.bytes \in Seq(Octet) /\ Size \in Nat /\ Byte(i) \in Octet
         /\ Bytes(i, n) \in Seq(Octet) /\ Len(Bytes(i, n)) = n
         /\ \A k \in 1..n : Bytes(i, n)[k] = Byte(i + k - 1)
<1>1. input.bytes \in Seq(Octet)
  BY DEF AmfConstants
<1>2. Size \in Nat
  BY <1>1, LenProperties DEF Size
<1>3. ASSUME NEW j \in Int PROVE Byte(j) \in Octet
  <2> DEFINE b == input.bytes
  <2>1. b \in Seq(Octet)
    BY <1>1
  <2> HIDE DEF b
  <2>2. 0 \in Octet
    BY DEF Octet
  <2>3. j \in DOMAIN b => b[j] \in Octet
    BY <2>1
  <2> QED BY <2>2, <2>3 DEF Byte, b
<1>4. \A k \in 1..n : Byte(i + k - 1) \in Octet
  BY <1>3
<1>5. Bytes(i, n) = [k \in 1..n |-> Byte(i + k - 1)]
  BY DEF Bytes
<1>6. Bytes(i, n) \in Seq(Octet) /\ Len(Bytes(i, n)) = n
  BY <1>4, <1>5
<1> QED BY <1>1, <1>2, <1>3, <1>5, <1>6

\* Of bytes that stand somewhere those are read.
LEMMA ReadsByte ==
  ASSUME AmfConstants, input \in Input, NEW i \in Nat \ {0}, NEW s \in Seq(Octet),
         StandsAt(input.bytes, i, s)
  PROVE  \A k \in 1..Len(s) : i + k - 1 <= Size => Byte(i + k - 1) = s[k]
<1> SUFFICES ASSUME NEW k \in 1..Len(s), i + k - 1 <= Size
             PROVE  Byte(i + k - 1) = s[k]
  OBVIOUS
<1> DEFINE b == input.bytes
           j == i + k - 1
<1>1. b \in Seq(Octet) /\ Size = Len(b)
  BY DEF AmfConstants, Size
<1>2. j \in Nat /\ 1 <= j /\ j <= Size
  BY LenProperties
<1> HIDE DEF j
<1>3. j \in 1..Len(b)
  BY <1>1, <1>2, LenProperties
<1>4. b[j] = s[k]
  BY <1>3 DEF StandsAt, j
<1>5. j \in DOMAIN b
  BY <1>1, <1>3, LenProperties
<1>6. Byte(j) = b[j]
  BY Zenon, <1>5 DEF Byte
<1> QED BY <1>4, <1>6 DEF j

LEMMA ReadsRow ==
  ASSUME AmfConstants, input \in Input, NEW i \in Nat \ {0}, NEW s \in Seq(Octet),
         StandsAt(input.bytes, i, s), i + Len(s) <= Size + 1
  PROVE  Bytes(i, Len(s)) = s
<1> DEFINE n == Len(s)
           u == Bytes(i, n)
<1>1. n \in Nat /\ i \in Int /\ Size \in Nat
  BY LenProperties, BytesFacts
<1>2. u \in Seq(Octet) /\ Len(u) = n /\ \A k \in 1..n : u[k] = Byte(i + k - 1)
  BY <1>1, BytesFacts
<1>3. ASSUME NEW k \in 1..n PROVE u[k] = s[k]
  <2>1. i + k - 1 <= Size
    BY <1>1
  <2>2. Byte(i + k - 1) = s[k]
    BY <2>1, ReadsByte
  <2> QED BY <1>2, <2>2
<1> HIDE DEF u
<1> QED BY <1>2, <1>3, SeqEqual DEF u

\* A number in two bytes is read as it is.
LEMMA ReadsTwoBytes ==
  ASSUME AmfConstants, input \in Input, NEW i \in Nat \ {0}, i + 1 <= Size,
         NEW n \in Nat, n < 256 * 256, StandsAt(input.bytes, i, TwoBytes(n))
  PROVE  Be16(i) = n /\ Byte(i) = n \div 256 /\ Byte(i + 1) = n % 256
<1> DEFINE s == TwoBytes(n)
<1>1. /\ s \in Seq(Octet) /\ Len(s) = 2 /\ 256 * s[1] + s[2] = n
      /\ s[1] = n \div 256 /\ s[2] = n % 256
  BY TwoBytesFacts
<1> HIDE DEF s
<1>2. Size \in Nat
  BY BytesFacts
<1>3. 1 \in 1..Len(s) /\ 2 \in 1..Len(s) /\ i + 1 - 1 <= Size /\ i + 2 - 1 <= Size
  BY <1>1, <1>2
<1>4. StandsAt(input.bytes, i, s)
  BY DEF s
<1>5. Byte(i + 1 - 1) = s[1] /\ Byte(i + 2 - 1) = s[2]
  <2>1. \A k \in 1..Len(s) : i + k - 1 <= Size => Byte(i + k - 1) = s[k]
    <3>1. s \in Seq(Octet)
      BY <1>1
    <3> QED BY <1>4, <3>1, ReadsByte
  <2> QED BY Zenon, <1>3, <2>1
<1>6. i + 1 - 1 = i /\ i + 2 - 1 = i + 1
  OBVIOUS
<1>7. Byte(i) = s[1] /\ Byte(i + 1) = s[2]
  BY <1>5, <1>6
<1> QED BY <1>1, <1>7 DEF Be16

\* How a value is read that is not an object, type by type.
LEMMA LeafByType ==
  ASSUME NEW i, NEW n, NEW m
  PROVE  /\ Byte(i) = 0 => /\ LeafSize(i, n) = NumberSize
                           /\ LeafData(i, m) = Bytes(i + 1, m - 1)
         /\ Byte(i) = 1 => /\ LeafSize(i, n) = 2
                           /\ LeafData(i, m) = <<IF Byte(i + 1) # 0 THEN 1 ELSE 0>>
         /\ Byte(i) = 2 => /\ LeafSize(i, n) = 3 + IF n >= 3 THEN Be16(i + 1) ELSE n
                           /\ LeafData(i, m) = Bytes(i + 3, m - 3)
         /\ Byte(i) = 3 => LeafSize(i, n) = n + 1
         /\ Byte(i) \in {5, 6} => /\ LeafSize(i, n) = 1
                                  /\ LeafData(i, m) = Bytes(i + 1, m - 1)
<1>1. ASSUME Byte(i) = 0
      PROVE  LeafSize(i, n) = NumberSize /\ LeafData(i, m) = Bytes(i + 1, m - 1)
  <2>1. Byte(i) # 1 /\ Byte(i) # 2 /\ Byte(i) \notin {5, 6}
    BY <1>1
  <2> QED BY Zenon, <1>1, <2>1 DEF LeafSize, LeafData, AMF0_NUMBER, AMF0_BOOLEAN,
             AMF0_STRING, AMF0_EMPTY
<1>2. ASSUME Byte(i) = 1
      PROVE  /\ LeafSize(i, n) = 2
             /\ LeafData(i, m) = <<IF Byte(i + 1) # 0 THEN 1 ELSE 0>>
  <2>1. Byte(i) # 0 /\ Byte(i) # 2 /\ Byte(i) \notin {5, 6}
    BY <1>2
  <2> QED BY Zenon, <1>2, <2>1 DEF LeafSize, LeafData, AMF0_NUMBER, AMF0_BOOLEAN,
             AMF0_STRING, AMF0_EMPTY
<1>3. ASSUME Byte(i) = 2
      PROVE  /\ LeafSize(i, n) = 3 + IF n >= 3 THEN Be16(i + 1) ELSE n
             /\ LeafData(i, m) = Bytes(i + 3, m - 3)
  <2>1. Byte(i) # 0 /\ Byte(i) # 1 /\ Byte(i) \notin {5, 6}
    BY <1>3
  <2> QED BY Zenon, <1>3, <2>1 DEF LeafSize, LeafData, AMF0_NUMBER, AMF0_BOOLEAN,
             AMF0_STRING, AMF0_EMPTY
<1>4. ASSUME Byte(i) = 3 PROVE LeafSize(i, n) = n + 1
  <2>1. Byte(i) # 0 /\ Byte(i) # 1 /\ Byte(i) # 2 /\ Byte(i) \notin {5, 6}
    BY <1>4
  <2> QED BY Zenon, <1>4, <2>1 DEF LeafSize, LeafData, AMF0_NUMBER, AMF0_BOOLEAN,
             AMF0_STRING, AMF0_EMPTY
<1>5. ASSUME Byte(i) \in {5, 6}
      PROVE  LeafSize(i, n) = 1 /\ LeafData(i, m) = Bytes(i + 1, m - 1)
  <2>1. Byte(i) # 0 /\ Byte(i) # 1 /\ Byte(i) # 2
    BY <1>5
  <2> QED BY Zenon, <1>5, <2>1 DEF LeafSize, LeafData, AMF0_NUMBER, AMF0_BOOLEAN,
             AMF0_STRING, AMF0_EMPTY
<1> QED BY Zenon, <1>1, <1>2, <1>3, <1>4, <1>5

\* The type of a value is read as it is, and what follows stands behind it.
LEMMA TypeStands ==
  ASSUME AmfConstants, input \in Input, NEW i \in Nat \ {0},
         NEW p, IsProperty(p), StandsAt(input.bytes, i, ValueEncoding(p))
  PROVE  /\ i <= Size => Byte(i) = p.type
         /\ StandsAt(input.bytes, i + 1, After(p))
<1> DEFINE t == <<p.type>>
           q == After(p)
           b == input.bytes
<1>1. /\ t \in Seq(Octet) /\ Len(t) = 1 /\ q \in Seq(Octet)
      /\ ValueEncoding(p) = t \o q
  BY ValueFacts DEF AmfConstants
<1>2. t[1] = p.type
  OBVIOUS
<1> HIDE DEF t, q, b
<1>3. StandsAt(b, i, t \o q)
  BY <1>1 DEF b
<1>4. StandsAt(b, i, t) /\ StandsAt(b, i + 1, q)
  <2>1. i \in Int
    OBVIOUS
  <2>2. StandsAt(b, i, t) /\ StandsAt(b, i + Len(t), q)
    BY ONLY <1>1, <1>3, <2>1, StandsConcat
  <2> QED BY Zenon, <1>1, <2>2
<1>5. ASSUME i <= Size PROVE Byte(i) = p.type
  <2>1. \A k \in 1..Len(t) : i + k - 1 <= Size => Byte(i + k - 1) = t[k]
    BY <1>1, <1>4, ReadsByte DEF b
  <2>2. 1 \in 1..Len(t) /\ i + 1 - 1 = i
    BY <1>1
  <2>3. Byte(i + 1 - 1) = t[1]
    BY <1>5, <2>1, <2>2
  <2> QED BY <1>2, <2>2, <2>3
<1> QED BY <1>4, <1>5 DEF b, q

\* A call that stands at the rest of an object reads the name that comes next, and
\* takes nothing but the end for the end.
LEMMA ReadsName ==
  ASSUME AmfConstants, AmfInv, Turns, NEW r \in Object,
         StandsAt(input.bytes, Top.at, Encoding[r])
  PROVE  /\ r = <<>> => Marker
         /\ r # <<>> => /\ ~Marker
                        /\ NameLen = Len(r[1].name)
                        /\ NameFits => Name = r[1].name
<1> DEFINE i == Top.at
           b == input.bytes
<1>1. /\ AmfEncodings /\ NumberSize \in Nat \ {0} /\ input \in Input
      /\ i \in Nat \ {0} /\ i + 3 <= Size + 1 /\ i \in Int /\ Size \in Nat
  <2>1. frames # <<>> /\ Top.from \in Nat /\ i \in Nat /\ Top.from < i
        /\ i + 3 <= Size + 1 /\ Size \in Nat
    BY TurnFacts
  <2> QED BY <2>1, TopFacts DEF AmfConstants
<1>2. ASSUME r = <<>> PROVE Marker
  <2> DEFINE s == <<0, 0, AMF0_OBJECT_END>>
  <2>1. Encoding[r] = s
    BY <1>1, <1>2, ObjectFacts
  <2>2. s \in Seq(Octet) /\ Len(s) = 3
    BY DEF AMF0_OBJECT_END, Octet
  <2> HIDE DEF s, i
  <2>3. StandsAt(input.bytes, i, s)
    BY <2>1 DEF i
  <2>4. Bytes(i, Len(s)) = s
    BY <1>1, <2>2, <2>3, ReadsRow
  <2> QED BY <2>2, <2>4 DEF Marker, s, i
<1>3. ASSUME r # <<>>
      PROVE  /\ ~Marker
             /\ NameLen = Len(r[1].name)
             /\ NameFits => Name = r[1].name
  <2> DEFINE p == r[1]
             y == p.name
             n == Len(y)
  <2>0. FirstStands(b, i, r, p)
    BY Zenon, <1>1, <1>3, PropertyStands
  <2>1. /\ IsProperty(p) /\ y \in Seq(Octet) /\ n < 256 * 256
        /\ StandsAt(b, i, TwoBytes(n)) /\ StandsAt(b, i + 2, y)
        /\ StandsAt(b, i + 2 + n, ValueEncoding(p))
    BY Zenon, <2>0 DEF FirstStands
  <2>2. n \in Nat
    BY <2>1, LenProperties
  <2> HIDE DEF i, p, n
  <2>3. Be16(i) = n /\ Byte(i) = n \div 256 /\ Byte(i + 1) = n % 256
    <3>1. i + 1 <= Size
      BY <1>1
    <3> QED BY <1>1, <2>1, <2>2, <3>1, ReadsTwoBytes
  <2>4. NameLen = n
    BY <2>3 DEF NameLen, i
  <2>5. ASSUME NameFits PROVE Name = y
    <3> HIDE DEF y
    <3>1. i + 2 + n <= Size + 1
      <4>1. Top.left \in Nat /\ i + Top.left = Size + 1
        BY TurnFacts DEF i
      <4>2. Top.left >= 2 + n
        BY <2>4, <2>5 DEF NameFits
      <4> QED BY <1>1, <2>2, <4>1, <4>2
    <3>2. i + 2 \in Nat \ {0} /\ (i + 2) + Len(y) <= Size + 1
      BY <1>1, <3>1 DEF n
    <3>3. Bytes(i + 2, Len(y)) = y
      BY <1>1, <2>1, <3>2, ReadsRow
    <3> QED BY <2>4, <3>3 DEF Name, i, n
  <2>6. ASSUME Marker PROVE FALSE
    <3>1. Bytes(i, 3) = <<0, 0, 9>>
      BY <2>6 DEF Marker, i, AMF0_OBJECT_END
    <3>2. \A k \in 1..3 : Bytes(i, 3)[k] = Byte(i + k - 1)
      BY <1>1, BytesFacts
    <3>3. Byte(i + 1 - 1) = 0 /\ Byte(i + 2 - 1) = 0 /\ Byte(i + 3 - 1) = 9
      BY <3>1, <3>2
    <3>4. i + 1 - 1 = i /\ i + 2 - 1 = i + 1 /\ i + 3 - 1 = i + 2
      BY <1>1
    <3>5. Byte(i) = 0 /\ Byte(i + 1) = 0 /\ Byte(i + 2) = 9
      BY <3>3, <3>4
    <3>6. n = 0
      BY <2>3, <3>5 DEF Be16
    <3>7. StandsAt(b, i + 2, ValueEncoding(p)) /\ i + 2 \in Nat \ {0} /\ i + 2 <= Size
      <4>1. i + 2 + n = i + 2
        BY <1>1, <3>6
      <4> QED BY <1>1, <2>1, <4>1
    <3>8. Byte(i + 2) = p.type
      BY <1>1, <2>1, <3>7, TypeStands
    <3>9. p.type \in {0, 1, 2, 3, 5, 6}
      BY <1>1, <2>1, ValueFacts
    <3> QED BY <3>5, <3>8, <3>9
  <2> QED BY <2>4, <2>5, <2>6 DEF n, p
<1> QED BY <1>2, <1>3

\* A value that is not an object is taken whole, and as it was sent.
TakenWhole(i, n, p) ==
  /\ IsLeaf(i, n) => /\ LeafSize(i, n) = Len(ValueEncoding(p))
                     /\ LeafData(i, LeafSize(i, n)) = p.data
  /\ Len(ValueEncoding(p)) <= n => IsLeaf(i, n)

\* A value that was sent: its type is read as it is, and what follows stands behind it.
ValueHead(i, n, p) ==
  /\ Size \in Nat /\ NumberSize \in Nat \ {0}
  /\ p.type \in {0, 1, 2, 3, 5, 6}
  /\ p.type = AMF0_OBJECT => p.data \in Object
  /\ n >= 1 => Byte(i) = p.type
  /\ After(p) \in Seq(Octet)
  /\ Len(ValueEncoding(p)) = 1 + Len(After(p))
  /\ StandsAt(input.bytes, i + 1, After(p))

LEMMA ReadsHead ==
  ASSUME AmfConstants, input \in Input, NEW i \in Nat \ {0}, NEW n \in Nat,
         i + n = Size + 1, NEW p, IsProperty(p),
         StandsAt(input.bytes, i, ValueEncoding(p))
  PROVE  ValueHead(i, n, p)
<1>1. NumberSize \in Nat \ {0} /\ AmfEncodings /\ Size \in Nat
  <2>1. 1 \in Int /\ 1 \in Nat
    OBVIOUS
  <2>2. Size \in Nat
    BY Zenon, <2>1, BytesFacts
  <2> QED BY <2>2 DEF AmfConstants
<1>2. /\ p.type \in {0, 1, 2, 3, 5, 6}
      /\ p.type = AMF0_OBJECT => p.data \in Object
      /\ After(p) \in Seq(Octet)
      /\ Len(ValueEncoding(p)) = 1 + Len(After(p))
  BY Zenon, <1>1, ValueFacts
<1>3. /\ i <= Size => Byte(i) = p.type
      /\ StandsAt(input.bytes, i + 1, After(p))
  BY Zenon, TypeStands
<1>4. n >= 1 => i <= Size
  BY <1>1
<1> QED BY Zenon, <1>1, <1>2, <1>3, <1>4 DEF ValueHead

LEMMA ReadsNumber ==
  ASSUME AmfConstants, input \in Input, NEW i \in Nat \ {0}, NEW n \in Nat,
         i + n = Size + 1, NEW p, IsProperty(p),
         StandsAt(input.bytes, i, ValueEncoding(p)), p.type \in {0, 5, 6}
  PROVE  TakenWhole(i, n, p)
<1> DEFINE q == p.data
           l == IF p.type = 0 THEN NumberSize ELSE 1
           v == Len(ValueEncoding(p))
<1>1. /\ NumberSize \in Nat \ {0} /\ Size \in Nat
      /\ After(p) \in Seq(Octet) /\ v = 1 + Len(After(p))
      /\ n >= 1 => Byte(i) = p.type
      /\ StandsAt(input.bytes, i + 1, After(p))
  <2>1. ValueHead(i, n, p)
    BY Zenon, ReadsHead
  <2> QED BY Zenon, <2>1 DEF ValueHead
<1>2. After(p) = q
  BY DEF After, AMF0_OBJECT, AMF0_STRING
<1>3. q \in Seq(Octet) /\ Len(q) = l - 1
  <2>1. p.type # 1 /\ p.type # 2 /\ p.type # 3
    OBVIOUS
  <2>2. CASE p.type = 0
    BY <2>1, <2>2 DEF IsProperty, AMF0_NUMBER, AMF0_BOOLEAN, AMF0_STRING, AMF0_OBJECT,
       AMF0_EMPTY
  <2>3. CASE p.type # 0
    <3>1. q = <<>>
      BY <2>1, <2>3 DEF IsProperty, AMF0_NUMBER, AMF0_BOOLEAN, AMF0_STRING,
         AMF0_OBJECT, AMF0_EMPTY
    <3>2. <<>> \in Seq(Octet) /\ Len(<<>>) = 0
      OBVIOUS
    <3> QED BY <2>3, <3>1, <3>2
  <2> QED BY <2>2, <2>3
<1>4. l \in Nat \ {0}
  BY <1>1
<1>5. n >= 1 => /\ LeafSize(i, n) = l
                /\ \A m : LeafData(i, m) = Bytes(i + 1, m - 1)
  <2> SUFFICES ASSUME n >= 1, NEW m
               PROVE  LeafSize(i, n) = l /\ LeafData(i, m) = Bytes(i + 1, m - 1)
    OBVIOUS
  <2>1. Byte(i) = p.type
    BY <1>1
  <2>2. CASE p.type = 0
    <3>1. Byte(i) = 0 /\ l = NumberSize
      BY <2>1, <2>2
    <3> QED BY Zenon, <3>1, LeafByType
  <2>3. CASE p.type # 0
    <3>1. Byte(i) \in {5, 6} /\ l = 1
      BY <2>1, <2>3
    <3> QED BY Zenon, <3>1, LeafByType
  <2> QED BY <2>2, <2>3
<1> HIDE DEF q, l, v
<1>6. v = l
  BY <1>1, <1>2, <1>3, <1>4
<1>7. ASSUME IsLeaf(i, n)
      PROVE  LeafSize(i, n) = v /\ LeafData(i, LeafSize(i, n)) = q
  <2>1. n >= 1 /\ LeafSize(i, n) = l /\ l <= n
    BY <1>5, <1>7 DEF IsLeaf
  <2>2. i + 1 \in Nat \ {0} /\ (i + 1) + Len(q) <= Size + 1
    BY <1>1, <1>3, <1>4, <2>1
  <2>3. Bytes(i + 1, Len(q)) = q
    BY <1>1, <1>2, <1>3, <2>2, ReadsRow
  <2> QED BY <1>3, <1>5, <1>6, <2>1, <2>3
<1>8. v <= n => IsLeaf(i, n)
  BY <1>4, <1>5, <1>6 DEF IsLeaf
<1> QED BY <1>7, <1>8 DEF TakenWhole, q, v

LEMMA ReadsTruth ==
  ASSUME AmfConstants, input \in Input, NEW i \in Nat \ {0}, NEW n \in Nat,
         i + n = Size + 1, NEW p, IsProperty(p),
         StandsAt(input.bytes, i, ValueEncoding(p)), p.type = 1
  PROVE  TakenWhole(i, n, p)
<1> DEFINE q == p.data
           v == Len(ValueEncoding(p))
<1>1. /\ Size \in Nat
      /\ After(p) \in Seq(Octet) /\ v = 1 + Len(After(p))
      /\ n >= 1 => Byte(i) = p.type
      /\ StandsAt(input.bytes, i + 1, After(p))
  <2>1. ValueHead(i, n, p)
    BY Zenon, ReadsHead
  <2> QED BY Zenon, <2>1 DEF ValueHead
<1>2. After(p) = q
  BY DEF After, AMF0_OBJECT, AMF0_STRING
<1>3. q \in {<<0>>, <<1>>}
  BY DEF IsProperty, AMF0_NUMBER, AMF0_BOOLEAN, AMF0_STRING, AMF0_OBJECT, AMF0_EMPTY
<1>4. n >= 1 => /\ LeafSize(i, n) = 2
                /\ \A m : LeafData(i, m) = <<IF Byte(i + 1) # 0 THEN 1 ELSE 0>>
  BY <1>1, LeafByType
<1> HIDE DEF q, v
<1>5. q \in Seq(Octet) /\ Len(q) = 1 /\ v = 2 /\ q = <<IF q[1] # 0 THEN 1 ELSE 0>>
  <2>1. \A c \in {0, 1} : /\ <<c>> \in Seq(Octet) /\ Len(<<c>>) = 1
                         /\ <<c>> = <<IF <<c>>[1] # 0 THEN 1 ELSE 0>>
    BY DEF Octet
  <2>2. PICK c \in {0, 1} : q = <<c>>
    BY <1>3
  <2>3. q \in Seq(Octet) /\ Len(q) = 1 /\ q = <<IF q[1] # 0 THEN 1 ELSE 0>>
    BY Zenon, <2>1, <2>2
  <2>4. v = 1 + Len(q)
    BY Zenon, <1>1, <1>2
  <2> QED BY <2>3, <2>4
<1>6. ASSUME IsLeaf(i, n)
      PROVE  LeafSize(i, n) = v /\ LeafData(i, LeafSize(i, n)) = q
  <2>1. n >= 1 /\ LeafSize(i, n) = 2 /\ 2 <= n
    BY <1>4, <1>6 DEF IsLeaf
  <2>2. i + 1 \in Nat \ {0} /\ 1 \in 1..Len(q) /\ (i + 1) + 1 - 1 <= Size
        /\ (i + 1) + 1 - 1 = i + 1
    BY <1>1, <1>5, <2>1
  <2>3. \A k \in 1..Len(q) : (i + 1) + k - 1 <= Size => Byte((i + 1) + k - 1) = q[k]
    BY <1>1, <1>2, <1>5, <2>2, ReadsByte
  <2>4. Byte((i + 1) + 1 - 1) = q[1]
    BY <2>2, <2>3
  <2>5. Byte(i + 1) = q[1]
    BY <2>2, <2>4
  <2> QED BY <1>4, <1>5, <2>1, <2>5
<1>7. v <= n => IsLeaf(i, n)
  BY <1>4, <1>5 DEF IsLeaf
<1> QED BY <1>6, <1>7 DEF TakenWhole, q, v

LEMMA ReadsString ==
  ASSUME AmfConstants, input \in Input, NEW i \in Nat \ {0}, NEW n \in Nat,
         i + n = Size + 1, NEW p, IsProperty(p),
         StandsAt(input.bytes, i, ValueEncoding(p)), p.type = 2
  PROVE  TakenWhole(i, n, p)
<1> DEFINE q == p.data
           b == input.bytes
           l == Len(q)
           z == TwoBytes(l)
           v == Len(ValueEncoding(p))
<1>1. /\ Size \in Nat
      /\ After(p) \in Seq(Octet) /\ v = 1 + Len(After(p))
      /\ n >= 1 => Byte(i) = p.type
      /\ StandsAt(b, i + 1, After(p))
  <2>1. ValueHead(i, n, p)
    BY Zenon, ReadsHead
  <2> QED BY Zenon, <2>1 DEF ValueHead
<1>2. After(p) = z \o q
  BY DEF After, AMF0_OBJECT, AMF0_STRING
<1>3. q \in Seq(Octet) /\ l < 256 * 256
  BY DEF IsProperty, AMF0_NUMBER, AMF0_BOOLEAN, AMF0_STRING, AMF0_OBJECT, AMF0_EMPTY
<1>4. l \in Nat
  BY <1>3, LenProperties
<1>5. n >= 1 => /\ LeafSize(i, n) = 3 + IF n >= 3 THEN Be16(i + 1) ELSE n
                /\ \A m : LeafData(i, m) = Bytes(i + 3, m - 3)
  BY <1>1, LeafByType
<1> HIDE DEF q, v, l
<1>6. z \in Seq(Octet) /\ Len(z) = 2
  BY Zenon, <1>3, <1>4, TwoBytesFacts
<1>7. i + 1 \in Int /\ StandsAt(b, i + 1, z \o q)
  BY <1>1, <1>2
<1> HIDE DEF z, b
<1>8. StandsAt(b, i + 1, z) /\ StandsAt(b, (i + 1) + Len(z), q) /\ Len(z \o q) = 2 + l
  <2>1. /\ StandsAt(b, i + 1, z) /\ StandsAt(b, (i + 1) + Len(z), q)
        /\ Len(z \o q) = Len(z) + Len(q)
    BY ONLY <1>3, <1>6, <1>7, StandsConcat
  <2> QED BY Zenon, <1>6, <2>1 DEF l
<1>9. StandsAt(b, i + 3, q) /\ v = 3 + l
  <2>1. (i + 1) + Len(z) = i + 3
    BY <1>6
  <2>2. StandsAt(b, i + 3, q)
    BY Zenon, <1>8, <2>1
  <2>3. v = 1 + (2 + l)
    BY Zenon, <1>1, <1>2, <1>8
  <2> QED BY <1>4, <2>2, <2>3
<1>10. n >= 3 => Be16(i + 1) = l
  <2> SUFFICES ASSUME n >= 3 PROVE Be16(i + 1) = l
    OBVIOUS
  <2>1. i + 1 \in Nat \ {0} /\ (i + 1) + 1 <= Size
    BY <1>1
  <2>2. StandsAt(input.bytes, i + 1, TwoBytes(l))
    BY <1>8 DEF b, z
  <2> QED BY <1>3, <1>4, <2>1, <2>2, ReadsTwoBytes
<1>11. ASSUME IsLeaf(i, n)
       PROVE  LeafSize(i, n) = v /\ LeafData(i, LeafSize(i, n)) = q
  <2>1. n >= 3 /\ LeafSize(i, n) = 3 + l /\ 3 + l <= n
    BY <1>4, <1>5, <1>10, <1>11 DEF IsLeaf
  <2>2. i + 3 \in Nat \ {0} /\ (i + 3) + Len(q) <= Size + 1 /\ (3 + l) - 3 = Len(q)
    BY <1>1, <1>4, <2>1 DEF l
  <2>3. Bytes(i + 3, Len(q)) = q
    BY <1>3, <1>9, <2>2, ReadsRow DEF b
  <2>4. n >= 1
    BY <2>1
  <2>5. LeafData(i, 3 + l) = Bytes(i + 3, (3 + l) - 3)
    BY <1>5, <2>4
  <2> QED BY <1>9, <2>1, <2>2, <2>3, <2>5
<1>12. v <= n => IsLeaf(i, n)
  BY <1>4, <1>5, <1>9, <1>10 DEF IsLeaf
<1> QED BY <1>11, <1>12 DEF TakenWhole, q, v

\* At a value that was sent a leaf is taken whole, and an object begins.
LEMMA ReadsValue ==
  ASSUME AmfConstants, input \in Input, NEW i \in Nat \ {0}, NEW n \in Nat,
         i + n = Size + 1, NEW p, IsProperty(p),
         StandsAt(input.bytes, i, ValueEncoding(p))
  PROVE  /\ p.type # AMF0_OBJECT => ~IsObject(i, n) /\ TakenWhole(i, n, p)
         /\ p.type = AMF0_OBJECT =>
              /\ ~IsLeaf(i, n)
              /\ n >= 1 => IsObject(i, n)
              /\ p.data \in Object
              /\ Len(ValueEncoding(p)) = 1 + Len(Encoding[p.data])
              /\ StandsAt(input.bytes, i + 1, Encoding[p.data])
<1>1. /\ p.type \in {0, 1, 2, 3, 5, 6}
      /\ n >= 1 => Byte(i) = p.type
      /\ StandsAt(input.bytes, i + 1, After(p))
      /\ Len(ValueEncoding(p)) = 1 + Len(After(p))
      /\ p.type = AMF0_OBJECT => p.data \in Object
  <2>1. ValueHead(i, n, p)
    BY Zenon, ReadsHead
  <2> QED BY Zenon, <2>1 DEF ValueHead
<1>2. CASE p.type \in {0, 5, 6}
  <2>1. ~IsObject(i, n)
    BY <1>1, <1>2 DEF IsObject, AMF0_OBJECT
  <2> QED BY <1>2, <2>1, ReadsNumber DEF AMF0_OBJECT
<1>3. CASE p.type = 1
  <2>1. ~IsObject(i, n)
    BY <1>1, <1>3 DEF IsObject, AMF0_OBJECT
  <2> QED BY <1>3, <2>1, ReadsTruth DEF AMF0_OBJECT
<1>4. CASE p.type = 2
  <2>1. ~IsObject(i, n)
    BY <1>1, <1>4 DEF IsObject, AMF0_OBJECT
  <2> QED BY <1>4, <2>1, ReadsString DEF AMF0_OBJECT
<1>5. CASE p.type = 3
  <2>1. After(p) = Encoding[p.data]
    BY <1>5 DEF After, AMF0_OBJECT
  <2>2. ~IsLeaf(i, n)
    <3>1. n >= 1 => LeafSize(i, n) = n + 1
      BY <1>1, <1>5, LeafByType
    <3> QED BY <3>1 DEF IsLeaf
  <2>3. n >= 1 => IsObject(i, n)
    BY <1>1, <1>5 DEF IsObject, AMF0_OBJECT
  <2> QED BY <1>1, <1>5, <2>1, <2>2, <2>3 DEF AMF0_OBJECT
<1> QED BY <1>1, <1>2, <1>3, <1>4, <1>5

-----------------------------------------------------------------------------
(* The calls, one by one *)

\* The last element of a sequence is replaced.
LEMMA ReplaceLast ==
  ASSUME NEW S, NEW s \in Seq(S), NEW n \in Nat, Len(s) = n, n > 0, NEW e \in S
  PROVE  /\ [s EXCEPT ![n] = e] \in Seq(S) /\ Len([s EXCEPT ![n] = e]) = n
         /\ [s EXCEPT ![n] = e][n] = e
         /\ \A c \in 1..(n - 1) : [s EXCEPT ![n] = e][c] = s[c]
<1>1. n \in 1..Len(s)
  OBVIOUS
<1> QED BY <1>1, ExceptSeq

LEMMA AddOne ==
  ASSUME NEW S, NEW s \in Seq(S), NEW n \in Nat, Len(s) = n, NEW e \in S
  PROVE  /\ Append(s, e) \in Seq(S) /\ Len(Append(s, e)) = n + 1
         /\ Append(s, e)[n + 1] = e
         /\ \A c \in 1..n : Append(s, e)[c] = s[c]
  OBVIOUS

LEMMA TakeOne ==
  ASSUME NEW S, NEW s \in Seq(S), NEW n \in Nat, Len(s) = n + 1
  PROVE  /\ Waiting(s) \in Seq(S) /\ Len(Waiting(s)) = n
         /\ \A c \in 1..n : Waiting(s)[c] = s[c]
<1>1. Waiting(s) = SubSeq(s, 1, n)
  BY DEF Waiting
<1>2. \A c \in 1..n : s[c] \in S
  OBVIOUS
<1>3. /\ SubSeq(s, 1, n) \in Seq(S)
      /\ Len(SubSeq(s, 1, n)) = IF 1 <= n THEN n - 1 + 1 ELSE 0
      /\ \A c \in 1..(n - 1 + 1) : SubSeq(s, 1, n)[c] = s[1 + c - 1]
  BY <1>2, SubSeqProperties
<1>4. (IF 1 <= n THEN n - 1 + 1 ELSE 0) = n /\ n - 1 + 1 = n
      /\ \A c \in 1..n : 1 + c - 1 = c
  OBVIOUS
<1> QED BY <1>1, <1>3, <1>4

\* The innermost call gets on.
LEMMA TopFollows ==
  ASSUME NEW in, NEW calls \in Seq(Frame), NEW props, NEW whole, NEW rest,
         NEW n \in Nat, n = Len(calls), n > 0,
         Follows(in, calls, props, whole, rest),
         NEW f \in Frame, f.from = calls[n].from, NEW b \in Building, NEW r \in Object,
         Comes(in.bytes, f.from, whole[n], b.props, r, f.at)
  PROVE  Follows(in, [calls EXCEPT ![n] = f], [props EXCEPT ![n] = b], whole,
                 [rest EXCEPT ![n] = r])
<1> DEFINE C == [calls EXCEPT ![n] = f]
           P == [props EXCEPT ![n] = b]
           R == [rest EXCEPT ![n] = r]
<1>1. /\ whole \in Seq(Object) /\ Len(whole) = n
      /\ rest \in Seq(Object) /\ Len(rest) = n
      /\ props \in Seq(Building) /\ Len(props) = n
      /\ whole[1] = in.sent /\ calls[1].from = 1
      /\ in.kind = "flat" => n <= 1
  BY DEF Follows
<1>2. /\ C \in Seq(Frame) /\ Len(C) = n /\ C[n] = f
      /\ \A c \in 1..(n - 1) : C[c] = calls[c]
  BY ReplaceLast
<1>3. /\ P \in Seq(Building) /\ Len(P) = n /\ P[n] = b
      /\ \A c \in 1..(n - 1) : P[c] = props[c]
  BY <1>1, ReplaceLast
<1>4. /\ R \in Seq(Object) /\ Len(R) = n /\ R[n] = r
      /\ \A c \in 1..(n - 1) : R[c] = rest[c]
  BY <1>1, ReplaceLast
<1> HIDE DEF C, P, R
<1>5. \A c \in 1..n : C[c].from = calls[c].from
  BY <1>2
<1>6. \A c \in 1..(n - 1) :
        Comes(in.bytes, calls[c].from, whole[c],
              Append(props[c].props, Awaited(props[c], whole[c + 1])), rest[c],
              calls[c].at + 1 + Len(Encoding[whole[c + 1]]))
  BY Zenon DEF Follows
<1>7. \A c \in 1..(n - 1) :
        Comes(in.bytes, C[c].from, whole[c],
              Append(P[c].props, Awaited(P[c], whole[c + 1])), R[c],
              C[c].at + 1 + Len(Encoding[whole[c + 1]]))
  BY Zenon, <1>2, <1>3, <1>4, <1>6
<1>8. in.kind = "whole" =>
        \A c \in 1..n : calls[c].from + Len(Encoding[whole[c]]) <= Len(in.bytes)
  BY Zenon DEF Follows
<1>9. in.kind = "whole" =>
        \A c \in 1..n : C[c].from + Len(Encoding[whole[c]]) <= Len(in.bytes)
  BY Zenon, <1>5, <1>8
<1>10. C[1].from = 1
  BY <1>1, <1>5
<1>11. Comes(in.bytes, C[n].from, whole[n], P[n].props, R[n], C[n].at)
  BY Zenon, <1>2, <1>3, <1>4
<1>12. Follows(in, C, P, whole, R)
  BY Zenon, <1>1, <1>2, <1>3, <1>4, <1>7, <1>9, <1>10, <1>11 DEF Follows
<1> QED BY <1>12 DEF C, P, R

\* The innermost call waits for another, which is to decode the object v.
LEMMA PushFollows ==
  ASSUME NEW in, NEW calls \in Seq(Frame), NEW props, NEW whole, NEW rest,
         NEW n \in Nat, n = Len(calls), n > 0,
         Follows(in, calls, props, whole, rest), in.kind # "flat",
         NEW f \in Frame, f.from = calls[n].from, NEW b \in Building, NEW r \in Object,
         NEW v \in Object,
         Comes(in.bytes, f.from, whole[n], Append(b.props, Awaited(b, v)), r,
               f.at + 1 + Len(Encoding[v])),
         NEW g \in Frame, NEW a \in Building,
         Comes(in.bytes, g.from, v, a.props, v, g.at),
         in.kind = "whole" => g.from + Len(Encoding[v]) <= Len(in.bytes)
  PROVE  Follows(in, Append([calls EXCEPT ![n] = f], g),
                 Append([props EXCEPT ![n] = b], a),
                 Append(whole, v), Append([rest EXCEPT ![n] = r], v))
<1> DEFINE C == [calls EXCEPT ![n] = f]
           P == [props EXCEPT ![n] = b]
           R == [rest EXCEPT ![n] = r]
           CC == Append(C, g)
           PP == Append(P, a)
           WW == Append(whole, v)
           RR == Append(R, v)
           m == n + 1
<1>1. /\ whole \in Seq(Object) /\ Len(whole) = n
      /\ rest \in Seq(Object) /\ Len(rest) = n
      /\ props \in Seq(Building) /\ Len(props) = n
      /\ whole[1] = in.sent /\ calls[1].from = 1
  BY DEF Follows
<1>2. /\ C \in Seq(Frame) /\ Len(C) = n /\ C[n] = f
      /\ \A c \in 1..(n - 1) : C[c] = calls[c]
  BY ReplaceLast
<1>3. /\ P \in Seq(Building) /\ Len(P) = n /\ P[n] = b
      /\ \A c \in 1..(n - 1) : P[c] = props[c]
  BY <1>1, ReplaceLast
<1>4. /\ R \in Seq(Object) /\ Len(R) = n /\ R[n] = r
      /\ \A c \in 1..(n - 1) : R[c] = rest[c]
  BY <1>1, ReplaceLast
<1> HIDE DEF C, P, R
<1>5. /\ CC \in Seq(Frame) /\ Len(CC) = m /\ CC[m] = g /\ \A c \in 1..n : CC[c] = C[c]
  BY <1>2, AddOne
<1>6. /\ PP \in Seq(Building) /\ Len(PP) = m /\ PP[m] = a /\ \A c \in 1..n : PP[c] = P[c]
  BY <1>3, AddOne
<1>7. /\ RR \in Seq(Object) /\ Len(RR) = m /\ RR[m] = v /\ \A c \in 1..n : RR[c] = R[c]
  BY <1>4, AddOne
<1>8. /\ WW \in Seq(Object) /\ Len(WW) = m /\ WW[m] = v
      /\ \A c \in 1..n : WW[c] = whole[c]
  BY <1>1, AddOne
<1> HIDE DEF CC, PP, RR, WW
<1>9. ASSUME NEW c \in 1..n
      PROVE  Comes(in.bytes, CC[c].from, WW[c],
                   Append(PP[c].props, Awaited(PP[c], WW[c + 1])), RR[c],
                   CC[c].at + 1 + Len(Encoding[WW[c + 1]]))
  <2>1. CASE c = n
    <3>1. CC[c] = f /\ PP[c] = b /\ RR[c] = r /\ WW[c] = whole[n] /\ WW[c + 1] = v
      BY <1>2, <1>3, <1>4, <1>5, <1>6, <1>7, <1>8, <2>1
    <3> QED BY Zenon, <3>1
  <2>2. CASE c # n
    <3>1. c \in 1..(n - 1) /\ c + 1 \in 1..n
      BY <2>2
    <3>2. CC[c] = calls[c] /\ PP[c] = props[c] /\ RR[c] = rest[c]
          /\ WW[c] = whole[c] /\ WW[c + 1] = whole[c + 1]
      BY <1>2, <1>3, <1>4, <1>5, <1>6, <1>7, <1>8, <3>1
    <3>3. Comes(in.bytes, calls[c].from, whole[c],
                Append(props[c].props, Awaited(props[c], whole[c + 1])), rest[c],
                calls[c].at + 1 + Len(Encoding[whole[c + 1]]))
      BY Zenon, <3>1 DEF Follows
    <3> QED BY Zenon, <3>2, <3>3
  <2> QED BY <2>1, <2>2
<1>10. m \in Nat /\ m > 0 /\ 1..(m - 1) = 1..n /\ 1 \in 1..n
  OBVIOUS
<1>11. CC[1].from = 1 /\ WW[1] = in.sent
  <2>1. C[1].from = 1
    <3>1. CASE n = 1
      BY <1>1, <1>2, <3>1
    <3>2. CASE n # 1
      <4>1. 1 \in 1..(n - 1)
        BY <3>2
      <4>2. C[1] = calls[1]
        BY Zenon, <1>2, <4>1
      <4> QED BY <1>1, <4>2
    <3> QED BY <3>1, <3>2
  <2> QED BY <1>1, <1>5, <1>8, <1>10, <2>1
<1>12. ASSUME in.kind = "whole", NEW c \in 1..m
       PROVE  CC[c].from + Len(Encoding[WW[c]]) <= Len(in.bytes)
  <2>1. CASE c = m
    BY <1>5, <1>8, <1>12, <2>1
  <2>2. CASE c # m
    <3>1. c \in 1..n
      BY <2>2
    <3>2. CC[c].from = calls[c].from /\ WW[c] = whole[c]
      <4>0. CC[c] = C[c] /\ WW[c] = whole[c]
        BY Zenon, <1>5, <1>8, <3>1
      <4>1. CASE c = n
        <5>1. C[n].from = calls[n].from
          BY Zenon, <1>2
        <5> QED BY Zenon, <4>0, <4>1, <5>1
      <4>2. CASE c # n
        <5>1. c \in 1..(n - 1)
          BY <3>1, <4>2
        <5> QED BY Zenon, <1>2, <4>0, <5>1
      <4> QED BY <4>1, <4>2
    <3>3. calls[c].from + Len(Encoding[whole[c]]) <= Len(in.bytes)
      BY Zenon, <1>12, <3>1 DEF Follows
    <3> QED BY <3>2, <3>3
  <2> QED BY <2>1, <2>2
<1>13. Comes(in.bytes, CC[m].from, WW[m], PP[m].props, RR[m], CC[m].at)
  BY Zenon, <1>5, <1>6, <1>7, <1>8
<1> HIDE DEF m
<1>14. Follows(in, CC, PP, WW, RR)
  BY Zenon, <1>5, <1>6, <1>7, <1>8, <1>9, <1>10, <1>11, <1>12, <1>13 DEF Follows
<1> QED BY <1>14 DEF CC, PP, RR, WW, C, P, R

\* The innermost call returns to the one that waits for it.
LEMMA PopFollows ==
  ASSUME NEW in, NEW calls \in Seq(Frame), NEW props, NEW whole, NEW rest,
         NEW o \in Nat, o > 0, Len(calls) = o + 1,
         Follows(in, calls, props, whole, rest),
         NEW f \in Frame, f.from = calls[o].from, NEW b \in Building,
         Comes(in.bytes, f.from, whole[o], b.props, rest[o], f.at)
  PROVE  Follows(in, [Waiting(calls) EXCEPT ![o] = f], [Waiting(props) EXCEPT ![o] = b],
                 Waiting(whole), Waiting(rest))
<1> DEFINE C == Waiting(calls)
           P == Waiting(props)
           W == Waiting(whole)
           R == Waiting(rest)
           CC == [C EXCEPT ![o] = f]
           PP == [P EXCEPT ![o] = b]
<1>1. /\ whole \in Seq(Object) /\ Len(whole) = o + 1
      /\ rest \in Seq(Object) /\ Len(rest) = o + 1
      /\ props \in Seq(Building) /\ Len(props) = o + 1
      /\ whole[1] = in.sent /\ calls[1].from = 1
      /\ in.kind # "flat"
  BY DEF Follows
<1>2. C \in Seq(Frame) /\ Len(C) = o /\ \A c \in 1..o : C[c] = calls[c]
  BY TakeOne
<1>3. P \in Seq(Building) /\ Len(P) = o /\ \A c \in 1..o : P[c] = props[c]
  BY <1>1, TakeOne
<1>4. W \in Seq(Object) /\ Len(W) = o /\ \A c \in 1..o : W[c] = whole[c]
  BY <1>1, TakeOne
<1>5. R \in Seq(Object) /\ Len(R) = o /\ \A c \in 1..o : R[c] = rest[c]
  BY <1>1, TakeOne
<1> HIDE DEF C, P, W, R
<1>6. /\ CC \in Seq(Frame) /\ Len(CC) = o /\ CC[o] = f
      /\ \A c \in 1..(o - 1) : CC[c] = C[c]
  BY <1>2, ReplaceLast
<1>7. /\ PP \in Seq(Building) /\ Len(PP) = o /\ PP[o] = b
      /\ \A c \in 1..(o - 1) : PP[c] = P[c]
  BY <1>3, ReplaceLast
<1> HIDE DEF CC, PP
<1>8. ASSUME NEW c \in 1..(o - 1)
      PROVE  Comes(in.bytes, CC[c].from, W[c],
                   Append(PP[c].props, Awaited(PP[c], W[c + 1])), R[c],
                   CC[c].at + 1 + Len(Encoding[W[c + 1]]))
  <2>1. c \in 1..o /\ c + 1 \in 1..o /\ c \in 1..(Len(calls) - 1)
    OBVIOUS
  <2>2. CC[c] = calls[c] /\ PP[c] = props[c] /\ W[c] = whole[c] /\ R[c] = rest[c]
        /\ W[c + 1] = whole[c + 1]
    BY <1>2, <1>3, <1>4, <1>5, <1>6, <1>7, <2>1
  <2>3. Comes(in.bytes, calls[c].from, whole[c],
              Append(props[c].props, Awaited(props[c], whole[c + 1])), rest[c],
              calls[c].at + 1 + Len(Encoding[whole[c + 1]]))
    BY Zenon, <2>1 DEF Follows
  <2> QED BY Zenon, <2>2, <2>3
<1>9. \A c \in 1..o : CC[c].from = calls[c].from /\ W[c] = whole[c]
  BY <1>2, <1>4, <1>6
<1>10. ASSUME in.kind = "whole", NEW c \in 1..o
       PROVE  CC[c].from + Len(Encoding[W[c]]) <= Len(in.bytes)
  <2>1. c \in 1..Len(calls)
    OBVIOUS
  <2>2. calls[c].from + Len(Encoding[whole[c]]) <= Len(in.bytes)
    BY Zenon, <1>10, <2>1 DEF Follows
  <2> QED BY <1>9, <2>2
<1>11. CC[1].from = 1 /\ W[1] = in.sent
  BY <1>1, <1>9
<1>12. Comes(in.bytes, CC[o].from, W[o], PP[o].props, R[o], CC[o].at)
  <2>1. o \in 1..o
    OBVIOUS
  <2> QED BY Zenon, <1>4, <1>5, <1>6, <1>7, <2>1
<1>13. Follows(in, CC, PP, W, R)
  BY Zenon, <1>1, <1>4, <1>5, <1>6, <1>7, <1>8, <1>10, <1>11, <1>12 DEF Follows
<1> QED BY <1>13 DEF CC, PP, C, P, W, R

-----------------------------------------------------------------------------
(* The decoder's actions *)

\* The innermost call and the rest r of its object w.
TopRest(n, w, r) ==
  /\ n \in Nat /\ n > 0 /\ n = Len(frames)
  /\ w \in Object /\ r \in Object
  /\ frames \in Seq(Frame) /\ built \in Seq(Building) /\ Len(built) = n
  /\ Top = frames[n] /\ Top \in Frame /\ Own = built[n] /\ Own \in Building
  /\ Comes(input.bytes, Top.from, w, Own.props, r, Top.at)
  /\ input.kind = "whole" => Top.at + Len(Encoding[r]) <= Size + 1

LEMMA TopComes ==
  ASSUME AmfConstants, AmfInv, frames # <<>>, NEW whole, NEW rest,
         Follows(input, frames, built, whole, rest)
  PROVE  TopRest(Len(frames), whole[Len(frames)], rest[Len(frames)])
<1> DEFINE n == Len(frames)
           w == whole[n]
           r == rest[n]
<1>1. /\ input \in Input /\ n \in Nat \ {0} /\ Top = frames[n] /\ Top \in Frame
      /\ frames \in Seq(Frame) /\ Top.from \in Nat /\ Top.at \in Nat
  BY TopFacts DEF AmfInv, Frame
<1>2. /\ whole \in Seq(Object) /\ Len(whole) = n /\ rest \in Seq(Object) /\ Len(rest) = n
      /\ built \in Seq(Building) /\ Len(built) = n
  BY Zenon DEF Follows
<1> HIDE DEF n, w, r
<1>3. n \in Nat /\ n > 0 /\ n \in 1..n
  BY <1>1
<1>4. w \in Object /\ r \in Object /\ built[n] \in Building
  BY <1>2, <1>3 DEF w, r
<1>5. Own = built[n]
  BY Zenon, <1>2 DEF Own
<1>6. Comes(input.bytes, Top.from, w, Own.props, r, Top.at)
  <2>1. Len(frames) > 0
    BY <1>3 DEF n
  <2>2. Comes(input.bytes, frames[n].from, w, built[n].props, r, frames[n].at)
    BY Zenon, <2>1 DEF Follows, n, w, r
  <2> QED BY Zenon, <1>1, <1>5, <2>2
<1>7. ASSUME input.kind = "whole" PROVE Top.at + Len(Encoding[r]) <= Size + 1
  <2>1. Top.from + Len(Encoding[w]) <= Size
    <3>1. \A c \in 1..n : frames[c].from + Len(Encoding[whole[c]]) <= Len(input.bytes)
      BY Zenon, <1>7 DEF Follows, n
    <3> QED BY Zenon, <1>1, <1>3, <3>1 DEF w, Size
  <2>2. Top.at + Len(Encoding[r]) = Top.from + 1 + Len(Encoding[w])
    BY Zenon, <1>6 DEF Comes
  <2>3. Size \in Nat /\ Len(Encoding[w]) \in Nat
    <3>1. AmfEncodings /\ 1 \in Int /\ 1 \in Nat
      BY DEF AmfConstants
    <3> QED BY Zenon, <1>1, <1>4, <3>1, BytesFacts, ObjectFacts
  <2> QED BY <1>1, <2>1, <2>2, <2>3
<1> QED
  BY Zenon, <1>1, <1>2, <1>3, <1>4, <1>5, <1>6, <1>7 DEF TopRest, n, w, r

\* A call that has taken a name stands at the value of the first property p of the rest.
ValueStands(r, p) ==
  /\ r # <<>> /\ p = r[1] /\ IsProperty(p) /\ p \in Property /\ Tail(r) \in Object
  /\ Name = p.name /\ p.name \in Seq(Octet)
  /\ Named \in Frame /\ Named.from = Top.from
  /\ Named.at \in Nat \ {0} /\ Named.left \in Nat /\ Named.at + Named.left = Size + 1
  /\ StandsAt(input.bytes, Named.at, ValueEncoding(p))
  /\ StandsAt(input.bytes, Named.at + Len(ValueEncoding(p)), Encoding[Tail(r)])
  /\ Named.at + Len(ValueEncoding(p)) + Len(Encoding[Tail(r)]) =
       Top.at + Len(Encoding[r])

LEMMA NamedStands ==
  ASSUME AmfConstants, AmfInv, Turns, ~Marker, NameFits, NEW r \in Object,
         StandsAt(input.bytes, Top.at, Encoding[r])
  PROVE  ValueStands(r, r[1])
<1> DEFINE p == r[1]
           y == p.name
           l == Len(y)
           v == Len(ValueEncoding(p))
           e == Len(Encoding[Tail(r)])
           b == input.bytes
           i == Named.at
<1>1. AmfEncodings /\ NumberSize \in Nat \ {0}
  BY DEF AmfConstants
<1>2. r # <<>> /\ NameLen = l /\ Name = y
  BY Zenon, ReadsName
<1>3. FirstStands(b, Top.at, r, p) /\ Top.at \in Nat /\ Size \in Nat
  <2>1. Top.at \in Nat /\ Top.at \in Int /\ Size \in Nat
    BY TurnFacts
  <2> QED BY Zenon, <1>1, <1>2, <2>1, PropertyStands
<1>4. /\ IsProperty(p) /\ Tail(r) \in Object /\ y \in Seq(Octet)
      /\ StandsAt(b, Top.at + 2 + l, ValueEncoding(p))
      /\ StandsAt(b, Top.at + 2 + l + v, Encoding[Tail(r)])
      /\ Len(Encoding[r]) = 2 + l + v + e
  BY Zenon, <1>3 DEF FirstStands
<1>5. p \in Property
  BY Zenon, <1>1, <1>2, ObjectFacts
<1>6. l \in Nat /\ v \in Nat /\ e \in Nat
  <2>1. l \in Nat
    BY <1>4, LenProperties
  <2>2. ValueEncoding(p) \in Seq(Octet) /\ Encoding[Tail(r)] \in Seq(Octet)
    BY Zenon, <1>1, <1>4, ValueFacts, ObjectFacts
  <2> QED BY <2>1, <2>2, LenProperties
<1>7. /\ Named \in Frame /\ Named.from = Top.from
      /\ i \in Nat /\ Named.left \in Nat /\ i + Named.left = Size + 1
      /\ Top.from < i /\ Top.from \in Nat
  BY TurnFacts
<1>8. i = Top.at + (2 + l)
  BY <1>2 DEF Named, Past
<1> HIDE DEF l, v, e, b, i
<1>9. /\ i = Top.at + 2 + l /\ i + v = Top.at + 2 + l + v /\ i \in Nat \ {0}
      /\ i + v + e = Top.at + Len(Encoding[r])
  <2> DEFINE t == Top.at
             q == Len(Encoding[r])
             g == Top.from
  <2>1. /\ t \in Nat /\ g \in Nat /\ i \in Nat
        /\ g < i /\ i = t + (2 + l) /\ q = 2 + l + v + e
    BY Zenon, <1>3, <1>4, <1>7, <1>8
  <2> HIDE DEF t, q, g
  <2>2. i = t + 2 + l /\ i + v = t + 2 + l + v /\ i \in Nat \ {0} /\ i + v + e = t + q
    BY ONLY <1>6, <2>1
  <2> QED BY <2>2 DEF t, q
<1>10. StandsAt(b, i, ValueEncoding(p)) /\ StandsAt(b, i + v, Encoding[Tail(r)])
  BY Zenon, <1>4, <1>9
<1> QED
  BY Zenon, <1>2, <1>4, <1>5, <1>7, <1>9, <1>10 DEF ValueStands, i, v, e, b

LEMMA TakeLeafFollows ==
  ASSUME AmfConstants, AmfInv, TakeLeaf, NEW whole, NEW rest,
         Follows(input, frames, built, whole, rest)
  PROVE  \E more : Follows(input, frames', built', whole, more)
<1> DEFINE n == Len(frames)
           w == whole[n]
           r == rest[n]
           p == r[1]
           d == Own.props
           m == LeafSize(Named.at, Named.left)
           v == Len(ValueEncoding(p))
           f == Past(Named, m)
           b == With([Own EXCEPT !.name = Name], Byte(Named.at), LeafData(Named.at, m))
           i == Named.at
<1>1. /\ Turns /\ ~Marker /\ NameFits /\ IsLeaf(i, Named.left) /\ frames # <<>>
      /\ frames' = [frames EXCEPT ![n] = f] /\ built' = [built EXCEPT ![n] = b]
  BY Zenon DEF TakeLeaf, Turns
<1>2. TopRest(n, w, r)
  BY Zenon, <1>1, TopComes
<1>3. /\ n \in Nat /\ n > 0 /\ n = Len(frames) /\ w \in Object /\ r \in Object
      /\ frames \in Seq(Frame) /\ Top = frames[n] /\ Own \in Building
      /\ Comes(input.bytes, Top.from, w, d, r, Top.at)
  BY Zenon, <1>2 DEF TopRest
<1>4. /\ d \in Seq(Property) /\ Splits(w, d, r)
      /\ Top.at + Len(Encoding[r]) = Top.from + 1 + Len(Encoding[w])
      /\ StandsAt(input.bytes, Top.at, Encoding[r])
  BY Zenon, <1>3 DEF Comes
<1>5. ValueStands(r, p)
  BY Zenon, <1>1, <1>3, <1>4, NamedStands
<1>6. /\ r # <<>> /\ IsProperty(p) /\ Tail(r) \in Object
      /\ Name = p.name /\ p.name \in Seq(Octet)
      /\ Named \in Frame /\ Named.from = Top.from
      /\ i \in Nat \ {0} /\ Named.left \in Nat /\ i + Named.left = Size + 1
      /\ StandsAt(input.bytes, i, ValueEncoding(p))
      /\ StandsAt(input.bytes, i + v, Encoding[Tail(r)])
      /\ i + v + Len(Encoding[Tail(r)]) = Top.at + Len(Encoding[r])
  BY Zenon, <1>5 DEF ValueStands
<1>7. input \in Input
  BY <1>1, TopFacts
<1>8. m = v /\ LeafData(i, m) = p.data /\ m <= Named.left /\ Named.left >= 1
  <2>1. p.type # AMF0_OBJECT => TakenWhole(i, Named.left, p)
    BY Zenon, <1>6, <1>7, ReadsValue
  <2>2. p.type = AMF0_OBJECT => ~IsLeaf(i, Named.left)
    BY Zenon, <1>6, <1>7, ReadsValue
  <2>3. m <= Named.left /\ Named.left >= 1
    BY <1>1 DEF IsLeaf
  <2> QED BY Zenon, <1>1, <2>1, <2>2, <2>3 DEF TakenWhole
<1>9. Byte(i) = p.type
  <2>1. ValueHead(i, Named.left, p)
    BY Zenon, <1>6, <1>7, ReadsHead
  <2> QED BY Zenon, <1>8, <2>1 DEF ValueHead
<1>10. /\ Append(d, p) \in Seq(Property) /\ Splits(w, Append(d, p), Tail(r))
  <2>1. w \in Seq(Property) /\ r \in Seq(Property)
    BY <1>3, ObjectFacts DEF AmfConstants
  <2> QED BY Zenon, <1>4, <1>6, <2>1, SplitsNext
<1>11. b \in Building /\ b.props = Append(d, p)
  <2>1. p = [name |-> p.name, type |-> p.type, data |-> p.data]
    BY Zenon, <1>6 DEF IsProperty
  <2> DEFINE o == Own
             c == [o EXCEPT !.name = Name]
  <2>2. c \in Building /\ c.name = p.name /\ c.props = d
    BY <1>3, <1>6 DEF Building
  <2> HIDE DEF c
  <2>3. b = [c EXCEPT !.props = Append(@, [name |-> c.name, type |-> Byte(i),
                                           data |-> LeafData(i, m)])]
    BY Zenon DEF With, c
  <2>4. [name |-> c.name, type |-> Byte(i), data |-> LeafData(i, m)] = p
    BY Zenon, <1>8, <1>9, <2>1, <2>2
  <2>5. b = [c EXCEPT !.props = Append(d, p)]
    BY Zenon, <2>2, <2>3, <2>4
  <2> HIDE DEF b, d, p
  <2> QED BY <1>10, <2>2, <2>5 DEF Building
<1>12. f \in Frame /\ f.from = Top.from /\ f.at = i + v
  <2>1. m \in Nat
    BY <1>6, <1>7, <1>8, ByteTypes
  <2> QED BY <1>6, <1>8, <2>1, PastFacts
<1>13. Comes(input.bytes, f.from, w, b.props, Tail(r), f.at)
  <2>1. f.at + Len(Encoding[Tail(r)]) = f.from + 1 + Len(Encoding[w])
    BY Zenon, <1>4, <1>6, <1>12
  <2>2. StandsAt(input.bytes, f.at, Encoding[Tail(r)])
    BY Zenon, <1>6, <1>12
  <2> QED BY Zenon, <1>10, <1>11, <2>1, <2>2 DEF Comes
<1> HIDE DEF f, b
<1>14. Follows(input, [frames EXCEPT ![n] = f], [built EXCEPT ![n] = b], whole,
               [rest EXCEPT ![n] = Tail(r)])
  BY Zenon, <1>3, <1>6, <1>11, <1>12, <1>13, TopFollows
<1> QED BY Zenon, <1>1, <1>14

LEMMA TakeObjectFollows ==
  ASSUME AmfConstants, AmfInv, TakeObject, NEW whole, NEW rest,
         Follows(input, frames, built, whole, rest)
  PROVE  \E inner, more : Follows(input, frames', built', inner, more)
<1> DEFINE n == Len(frames)
           w == whole[n]
           r == rest[n]
           p == r[1]
           d == Own.props
           o == p.data
           v == Len(ValueEncoding(p))
           i == Named.at
           g == Called(i, Named.left)
           b == [built[n] EXCEPT !.name = Name]
<1>1. /\ Turns /\ ~Marker /\ NameFits /\ IsObject(i, Named.left) /\ frames # <<>>
      /\ frames' = Append([frames EXCEPT ![n] = Named], g)
  BY Zenon DEF TakeObject, Turns
<1>2. TopRest(n, w, r)
  BY Zenon, <1>1, TopComes
<1>3. /\ n \in Nat /\ n > 0 /\ n = Len(frames) /\ w \in Object /\ r \in Object
      /\ frames \in Seq(Frame) /\ Top = frames[n] /\ Own \in Building
      /\ Own = built[n] /\ built \in Seq(Building) /\ Len(built) = n
      /\ Top \in Frame
      /\ Comes(input.bytes, Top.from, w, d, r, Top.at)
      /\ input.kind = "whole" => Top.at + Len(Encoding[r]) <= Size + 1
  BY Zenon, <1>2 DEF TopRest
<1>4. /\ d \in Seq(Property) /\ Splits(w, d, r)
      /\ Top.at + Len(Encoding[r]) = Top.from + 1 + Len(Encoding[w])
      /\ StandsAt(input.bytes, Top.at, Encoding[r])
  BY Zenon, <1>3 DEF Comes
<1>5. ValueStands(r, p)
  BY Zenon, <1>1, <1>3, <1>4, NamedStands
<1>6. /\ r # <<>> /\ IsProperty(p) /\ Tail(r) \in Object
      /\ Name = p.name /\ p.name \in Seq(Octet)
      /\ Named \in Frame /\ Named.from = Top.from
      /\ i \in Nat \ {0} /\ Named.left \in Nat /\ i + Named.left = Size + 1
      /\ StandsAt(input.bytes, i, ValueEncoding(p))
      /\ StandsAt(input.bytes, i + v, Encoding[Tail(r)])
      /\ i + v + Len(Encoding[Tail(r)]) = Top.at + Len(Encoding[r])
  BY Zenon, <1>5 DEF ValueStands
<1>7. input \in Input /\ Named.left >= 1 /\ AmfEncodings /\ NumberSize \in Nat \ {0}
  BY <1>1, TopFacts DEF IsObject, AmfConstants
<1>8. /\ p.type = AMF0_OBJECT /\ o \in Object
      /\ v = 1 + Len(Encoding[o])
      /\ StandsAt(input.bytes, i + 1, Encoding[o])
  <2>1. p.type = AMF0_OBJECT
    BY Zenon, <1>1, <1>6, <1>7, ReadsValue
  <2> QED BY Zenon, <1>6, <1>7, <2>1, ReadsValue
<1>9. /\ Append(d, p) \in Seq(Property) /\ Splits(w, Append(d, p), Tail(r))
      /\ Len(d) + 1 \in 1..Len(w) /\ p = w[Len(d) + 1]
  <2>1. w \in Seq(Property) /\ r \in Seq(Property)
    BY Zenon, <1>3, <1>7, ObjectFacts
  <2>2. d \in Seq(Property) /\ Splits(w, d, r) /\ r # <<>>
    BY Zenon, <1>4, <1>6
  <2> HIDE DEF d, w, r
  <2> HIDE DEF p, o, v, n, i, g, b
  <2>3. /\ Append(d, r[1]) \in Seq(Property)
        /\ Splits(w, Append(d, r[1]), Tail(r))
        /\ Len(d) + 1 \in 1..Len(w) /\ r[1] = w[Len(d) + 1]
    BY ONLY <2>1, <2>2, SplitsNext
  <2> QED BY Zenon, <2>3 DEF p
<1>10. b \in Building /\ b.name = p.name /\ b.props = d
  <2> DEFINE q == built[n]
  <2>1. q \in Building /\ q.props = d /\ Name \in Seq(Octet)
    BY <1>3, <1>6
  <2> HIDE DEF q, d
  <2>2. [q EXCEPT !.name = Name] \in Building /\ [q EXCEPT !.name = Name].name = Name
        /\ [q EXCEPT !.name = Name].props = q.props
    BY <2>1 DEF Building
  <2> QED BY Zenon, <1>6, <2>1, <2>2 DEF q
<1>11. built' = Append([built EXCEPT ![n] = b], New)
  BY Zenon DEF TakeObject
<1>12. Awaited(b, o) = p
  <2>1. p = [name |-> p.name, type |-> p.type, data |-> p.data]
    BY Zenon, <1>6 DEF IsProperty
  <2> QED BY Zenon, <1>8, <1>10, <2>1 DEF Awaited
<1>13. Len(Encoding[o]) \in Nat /\ Len(Encoding[Tail(r)]) \in Nat
  BY Zenon, <1>6, <1>7, <1>8, ObjectFacts
<1>14. Comes(input.bytes, Named.from, w, Append(b.props, Awaited(b, o)), Tail(r),
             i + 1 + Len(Encoding[o]))
  <2>1. i + 1 + Len(Encoding[o]) = i + v
    <3> DEFINE a == Len(Encoding[o])
    <3>1. i \in Nat /\ a \in Nat /\ v = 1 + a
      BY Zenon, <1>6, <1>8, <1>13
    <3> HIDE DEF a, i, v
    <3>2. i + 1 + a = i + v
      BY <3>1
    <3> QED BY <3>2 DEF a, i, v
  <2>2. i + v + Len(Encoding[Tail(r)]) = Named.from + 1 + Len(Encoding[w])
    BY Zenon, <1>4, <1>6
  <2>3. Append(b.props, Awaited(b, o)) = Append(d, p)
    BY Zenon, <1>10, <1>12
  <2> QED BY Zenon, <1>6, <1>9, <2>1, <2>2, <2>3 DEF Comes
<1>15. g \in Frame /\ g.from = i /\ g.at = i + 1
  <2> DEFINE l == Named.left
  <2>1. i \in Nat /\ l \in Nat /\ l >= 1
    BY <1>6, <1>7
  <2> HIDE DEF i, l
  <2>2. g = [from |-> i, at |-> i + 1, left |-> l - 1]
    BY DEF Called, l
  <2> HIDE DEF g
  <2> QED BY <2>1, <2>2 DEF Frame
<1>16. New \in Building /\ New.props = <<>> /\ <<>> \in Seq(Property)
  <2>1. New = [name |-> <<>>, props |-> <<>>]
    BY DEF New
  <2>2. <<>> \in Seq(Octet) /\ <<>> \in Seq(Property)
    OBVIOUS
  <2> QED BY <2>1, <2>2 DEF Building
<1>17. Comes(input.bytes, g.from, o, New.props, o, g.at)
  <2>1. Splits(o, <<>>, o)
    <3>1. o \in Seq(Property)
      BY Zenon, <1>7, <1>8, ObjectFacts
    <3> HIDE DEF o
    <3>2. Len(o) \in Nat /\ Len(<<>>) = 0
      BY <3>1
    <3> QED BY <3>2 DEF Splits
  <2>2. (i + 1) + Len(Encoding[o]) = i + 1 + Len(Encoding[o])
    OBVIOUS
  <2> QED BY Zenon, <1>8, <1>15, <1>16, <2>1, <2>2 DEF Comes
<1>18. input.kind # "flat"
  <2> SUFFICES ASSUME input.kind = "flat" PROVE FALSE
    OBVIOUS
  <2>1. n <= 1 /\ whole[1] = input.sent
    <3>1. Len(frames) > 0
      BY <1>3
    <3> QED BY Zenon, <3>1 DEF Follows
  <2>2. n = 1
    BY <1>3, <2>1
  <2>3. w = input.sent
    BY Zenon, <2>1, <2>2
  <2>4. \A k \in 1..Len(input.sent) : input.sent[k].type # AMF0_OBJECT
    BY Zenon, <1>7 DEF AmfConstants, SentAsEncoded
  <2> HIDE DEF p, w, d
  <2> QED BY Zenon, <1>8, <1>9, <2>3, <2>4
<1>19. ASSUME input.kind = "whole" PROVE g.from + Len(Encoding[o]) <= Len(input.bytes)
  <2>1. i + v + Len(Encoding[Tail(r)]) <= Size + 1
    BY Zenon, <1>3, <1>6, <1>19
  <2>2. Size \in Nat
    BY TurnFacts, <1>1
  <2> DEFINE a == Len(Encoding[o])
             t == Len(Encoding[Tail(r)])
             s == Size
  <2>3. /\ i \in Nat /\ a \in Nat /\ t \in Nat /\ s \in Nat
        /\ v = 1 + a /\ i + v + t <= s + 1
    BY Zenon, <1>6, <1>8, <1>13, <2>1, <2>2
  <2> HIDE DEF a, t, s, i, v
  <2>4. i + a <= s
    BY <2>3
  <2> QED BY Zenon, <1>15, <2>4 DEF a, s, i, Size
<1> HIDE DEF g, b, n, p, w, r, o, i
<1>20. Named.from = frames[n].from /\ Named.at = i
  BY <1>3, <1>6 DEF i
<1>21. Follows(input, Append([frames EXCEPT ![n] = Named], g),
               Append([built EXCEPT ![n] = b], New),
               Append(whole, o), Append([rest EXCEPT ![n] = Tail(r)], o))
  <2>1. w = whole[n]
    BY DEF w
  <2> QED
    BY Zenon, <1>3, <1>6, <1>8, <1>10, <1>14, <1>15, <1>16, <1>17, <1>18, <1>19, <1>20,
       <2>1, PushFollows
<1> QED BY Zenon, <1>1, <1>11, <1>21

LEMMA NoCallFollows ==
  ASSUME NEW in
  PROVE  Follows(in, <<>>, <<>>, <<>>, <<>>)
<1>1. /\ <<>> \in Seq(Object) /\ <<>> \in Seq(Building) /\ Len(<<>>) = 0
      /\ ~(0 > 0) /\ 1..(0 - 1) = {} /\ 1..0 = {} /\ 0 <= 1
  OBVIOUS
<1> QED BY Zenon, <1>1 DEF Follows

LEMMA FirstCallFollows ==
  ASSUME NEW in, NEW f \in Frame, f.from = 1, NEW b \in Building, NEW w \in Object,
         w = in.sent, Comes(in.bytes, f.from, w, b.props, w, f.at),
         in.kind = "whole" => f.from + Len(Encoding[w]) <= Len(in.bytes)
  PROVE  Follows(in, <<f>>, <<b>>, <<w>>, <<w>>)
<1>1. /\ <<w>> \in Seq(Object) /\ Len(<<w>>) = 1 /\ <<w>>[1] = w
      /\ <<b>> \in Seq(Building) /\ Len(<<b>>) = 1 /\ <<b>>[1] = b
      /\ Len(<<f>>) = 1 /\ <<f>>[1] = f
      /\ 1..(1 - 1) = {} /\ 1 <= 1 /\ \A c \in 1..1 : c = 1
  OBVIOUS
<1> QED BY Zenon, <1>1 DEF Follows

\* The encoding of an object has its marker at least.
LEMMA EncodingIsLong ==
  ASSUME AmfConstants, NEW o \in Object
  PROVE  Len(Encoding[o]) \in Nat /\ Len(Encoding[o]) >= 3
<1>1. AmfEncodings /\ NumberSize \in Nat \ {0} /\ Len(Encoding[o]) \in Nat
  BY ObjectFacts DEF AmfConstants
<1>2. CASE o = <<>>
  <2>1. Encoding[o] = <<0, 0, AMF0_OBJECT_END>>
    BY <1>1, <1>2, ObjectFacts
  <2> QED BY <1>1, <2>1
<1>3. CASE o # <<>>
  <2> DEFINE p == o[1]
  <2>1. FirstStands(<<>>, 1, o, p)
    <3>1. StandsAt(<<>>, 1, Encoding[o]) /\ 1 \in Int
      <4>1. 1..Len(<<>>) = {}
        OBVIOUS
      <4> QED BY <4>1 DEF StandsAt
    <3> QED BY Zenon, <1>1, <1>3, <3>1, PropertyStands
  <2>2. /\ IsProperty(p) /\ Tail(o) \in Object /\ p.name \in Seq(Octet)
        /\ Len(Encoding[o]) =
             2 + Len(p.name) + Len(ValueEncoding(p)) + Len(Encoding[Tail(o)])
    BY Zenon, <2>1 DEF FirstStands
  <2>3. /\ After(p) \in Seq(Octet) /\ Len(ValueEncoding(p)) = 1 + Len(After(p))
    BY Zenon, <1>1, <2>2, ValueFacts
  <2>4. Len(p.name) \in Nat /\ Len(After(p)) \in Nat /\ Len(Encoding[Tail(o)]) \in Nat
    BY <1>1, <2>2, <2>3, LenProperties, ObjectFacts
  <2> DEFINE a == Len(p.name)
             b == Len(After(p))
             c == Len(Encoding[Tail(o)])
             e == Len(Encoding[o])
             v == Len(ValueEncoding(p))
  <2>5. /\ e = 2 + a + v + c /\ v = 1 + b
        /\ a \in Nat /\ b \in Nat /\ c \in Nat
    BY Zenon, <2>2, <2>3, <2>4
  <2> HIDE DEF a, b, c, e, v
  <2>6. e >= 3
    BY ONLY <2>5
  <2> QED BY <1>1, <2>6 DEF e
<1> QED BY <1>2, <1>3

LEMMA DecodeKeepsFollowInv ==
  ASSUME AmfConstants, AmfInv, Shape, FollowInv, Decode
  PROVE  FollowInv'
<1>1. PICK in \in Input :
        /\ input' = in
        /\ \/ /\ in.bytes # <<>> /\ in.bytes[1] = AMF0_OBJECT
              /\ frames' = <<Called(1, Len(in.bytes))>> /\ built' = <<New>>
           \/ UNCHANGED <<frames, built>>
  BY DEF Decode
<1>2. /\ input = NoInput /\ frames = <<>> /\ UNCHANGED <<starved, result>>
      /\ ~result.ok /\ in # NoInput
  BY <1>1 DEF Decode, AmfInv, AmfConstants, FollowInv
<1>3. ASSUME in.kind \in {"flat", "whole"}
      PROVE  \E whole, rest : Follows(in, frames', built', whole, rest)
  <2>1. CASE UNCHANGED <<frames, built>>
    <3>1. built = <<>>
      <4>1. PICK S : built \in Seq(S)
        BY DEF Shape
      <4>2. Len(built) = 0
        BY <1>2 DEF Shape
      <4> QED BY <4>1, <4>2
    <3> QED BY Zenon, <1>2, <2>1, <3>1, NoCallFollows
  <2>2. CASE /\ in.bytes # <<>> /\ in.bytes[1] = AMF0_OBJECT
             /\ frames' = <<Called(1, Len(in.bytes))>> /\ built' = <<New>>
    <3> DEFINE w == in.sent
               b == in.bytes
               f == Called(1, Len(b))
    <3>1. /\ b \in Seq(Octet) /\ b # <<>> /\ w \in Object
          /\ \A k \in 1..Len(b) : b[k] = IF k = 1 THEN AMF0_OBJECT ELSE Encoding[w][k - 1]
          /\ in.kind = "whole" => Len(b) = 1 + Len(Encoding[w])
      BY <1>3, <2>2 DEF AmfConstants, SentAsEncoded
    <3>2. Encoding[w] \in Seq(Octet) /\ Len(Encoding[w]) \in Nat /\ w \in Seq(Property)
      BY <3>1, ObjectFacts DEF AmfConstants
    <3> HIDE DEF w, b
    <3>3. Len(b) \in Nat /\ Len(b) >= 1
      BY <3>1
    <3>4. f \in Frame /\ f.from = 1 /\ f.at = 2
      <4>1. f = [from |-> 1, at |-> 2, left |-> Len(b) - 1]
        BY DEF Called
      <4> HIDE DEF f
      <4> QED BY <3>3, <4>1 DEF Frame
    <3>5. New \in Building /\ New.props = <<>> /\ <<>> \in Seq(Property)
      <4>1. New = [name |-> <<>>, props |-> <<>>]
        BY DEF New
      <4>2. <<>> \in Seq(Octet) /\ <<>> \in Seq(Property)
        OBVIOUS
      <4> QED BY <4>1, <4>2 DEF Building
    <3>6. Splits(w, <<>>, w)
      <4>1. Len(w) \in Nat /\ Len(<<>>) = 0
        BY <3>2
      <4> QED BY <4>1 DEF Splits
    <3>7. StandsAt(b, 2, Encoding[w])
      <4> SUFFICES ASSUME NEW k \in 1..Len(Encoding[w]), 2 + k - 1 \in 1..Len(b)
                   PROVE  b[2 + k - 1] = Encoding[w][k]
        BY DEF StandsAt
      <4>1. 2 + k - 1 # 1 /\ (2 + k - 1) - 1 = k
        BY <3>2
      <4> QED BY Zenon, <3>1, <4>1
    <3>8. 2 + Len(Encoding[w]) = 1 + 1 + Len(Encoding[w])
      OBVIOUS
    <3>9. Comes(b, f.from, w, New.props, w, f.at)
      BY Zenon, <3>4, <3>5, <3>6, <3>7, <3>8 DEF Comes
    <3>10. in.kind = "whole" => f.from + Len(Encoding[w]) <= Len(b)
      BY <3>1, <3>2, <3>3, <3>4
    <3>11. frames' = <<f>> /\ built' = <<New>>
      BY <2>2 DEF b
    <3> HIDE DEF f
    <3>12. Follows(in, <<f>>, <<New>>, <<w>>, <<w>>)
      BY Zenon, <3>1, <3>4, <3>5, <3>9, <3>10, FirstCallFollows DEF w, b
    <3> QED BY Zenon, <3>11, <3>12
  <2> QED BY <1>1, <2>1, <2>2
<1>4. IsFollowed' => in.kind \in {"flat", "whole"}
  BY <1>1 DEF IsFollowed
<1>5. ~result'.ok /\ input' # NoInput
  BY <1>1, <1>2
<1>6. DecodesWhatWasSent'
  BY Zenon, <1>5 DEF DecodesWhatWasSent
<1> QED BY Zenon, <1>1, <1>3, <1>4, <1>5, <1>6 DEF FollowInv

\* A call that returns has decoded what it was sent, or a first part of what was flat.
LEMMA ReturnKeepsFollowInv ==
  ASSUME AmfConstants, AmfInv, FollowInv, frames # <<>>, NEW i, Return(i),
         UNCHANGED input, starved => starved',
         NEW whole, NEW rest,
         IsFollowed' => Follows(input, frames, built, whole, rest),
         IsFollowed' /\ input.kind = "whole" =>
           rest[Len(frames)] = <<>> /\ i = Top.at + 3
  PROVE  FollowInv'
<1> DEFINE n == Len(frames)
           w == whole[n]
           r == rest[n]
<1>1. input \in Input /\ n \in Nat \ {0} /\ AmfEncodings /\ input # NoInput
  BY TopFacts DEF AmfConstants
<1>2. CASE ~IsFollowed'
  <2>1. /\ input' # NoInput
        /\ ~(input'.kind = "flat" \/ (input'.kind = "whole" /\ ~starved'))
    BY <1>1, <1>2 DEF IsFollowed
  <2>2. DecodesWhatWasSent'
    BY Zenon, <2>1 DEF DecodesWhatWasSent
  <2> QED BY Zenon, <1>2, <2>1, <2>2 DEF FollowInv
<1>3. CASE IsFollowed'
  <2>1. /\ Follows(input, frames, built, whole, rest)
        /\ input' = input /\ input' # NoInput
        /\ input.kind = "flat" \/ (input.kind = "whole" /\ ~starved')
        /\ input.kind = "whole" => r = <<>> /\ i = Top.at + 3
    BY Zenon, <1>3 DEF IsFollowed
  <2>2. TopRest(n, w, r)
    BY Zenon, <2>1, TopComes
  <2>3. /\ w \in Object /\ r \in Object
        /\ frames \in Seq(Frame) /\ built \in Seq(Building) /\ Len(built) = n
        /\ Top = frames[n] /\ Top \in Frame
        /\ Own.props \in Seq(Property) /\ Splits(w, Own.props, r)
        /\ Top.at + Len(Encoding[r]) = Top.from + 1 + Len(Encoding[w])
    BY Zenon, <2>2 DEF TopRest, Comes
  <2>4. /\ Own.props = SubSeq(w, 1, Len(Own.props))
        /\ r = <<>> => Own.props = w
    <3> DEFINE d == Own.props
    <3>1. /\ w \in Seq(Property) /\ r \in Seq(Property)
          /\ d \in Seq(Property) /\ Splits(w, d, r)
      BY Zenon, <1>1, <2>3, ObjectFacts
    <3> HIDE DEF d, w, r
    <3>2. d = SubSeq(w, 1, Len(d)) /\ (r = <<>> => d = w)
      BY <3>1, SplitsEnd
    <3> QED BY <3>2 DEF d
  <2>5. input.kind = "whole" => i = Top.from + 1 + Len(Encoding[w])
    <3> SUFFICES ASSUME input.kind = "whole" PROVE i = Top.from + 1 + Len(Encoding[w])
      OBVIOUS
    <3>1. Encoding[r] = <<0, 0, AMF0_OBJECT_END>>
      BY Zenon, <1>1, <2>1, <2>3, ObjectFacts
    <3>2. Len(Encoding[r]) = 3
      BY <3>1
    <3> QED BY Zenon, <2>1, <2>3, <3>2
  <2>6. Top.from \in Nat /\ Len(Encoding[w]) \in Nat
    BY <1>1, <2>3, ObjectFacts DEF Frame
  <2>7. CASE n = 1
    <3>1. /\ result' = [ok |-> TRUE, props |-> Own.props,
                        read |-> i - (Top.from + 1) + 1]
          /\ frames' = <<>> /\ built' = <<>>
      BY Zenon, <2>7 DEF Return
    <3>2. result'.props = Own.props /\ result'.read = i - (Top.from + 1) + 1
      BY <3>1
    <3>3. w = input.sent /\ Top.from = 1
      <4>1. n > 0
        BY <2>7
      <4>2. whole[1] = input.sent /\ frames[1].from = 1
        BY Zenon, <2>1, <4>1 DEF Follows
      <4> QED BY Zenon, <2>3, <2>7, <4>2
    <3>4. ASSUME input.kind = "whole"
          PROVE  result'.props = input.sent /\ result'.read = Len(input.bytes)
      <4>1. Len(input.bytes) = 1 + Len(Encoding[w])
        BY Zenon, <1>1, <3>3, <3>4 DEF AmfConstants, SentAsEncoded
      <4>2. i = 2 + Len(Encoding[w])
        BY <2>5, <2>6, <3>3, <3>4
      <4>3. i - (Top.from + 1) + 1 = 1 + Len(Encoding[w])
        BY <2>6, <3>3, <4>2
      <4> QED BY Zenon, <2>1, <2>4, <3>2, <3>3, <3>4, <4>1, <4>3
    <3>5. result'.props = SubSeq(input.sent, 1, Len(result'.props))
      BY Zenon, <2>4, <3>2, <3>3
    <3>6. "whole" # "flat"
      OBVIOUS
    <3>7. DecodesWhatWasSent'
      <4>1. CASE input.kind = "flat"
        <5>1. input'.kind = "flat" /\ ~(input'.kind = "whole") /\ input'.sent = input.sent
          BY Zenon, <2>1, <3>6, <4>1
        <5> QED BY Zenon, <3>5, <5>1 DEF DecodesWhatWasSent
      <4>2. CASE input.kind = "whole" /\ ~starved'
        <5>1. /\ input'.kind = "whole" /\ ~(input'.kind = "flat")
              /\ input'.sent = input.sent /\ input'.bytes = input.bytes
          BY Zenon, <2>1, <3>6, <4>2
        <5> QED BY Zenon, <3>4, <4>2, <5>1 DEF DecodesWhatWasSent
      <4> QED BY Zenon, <2>1, <4>1, <4>2
    <3>8. Follows(input, frames', built', <<>>, <<>>)
      BY Zenon, <3>1, NoCallFollows
    <3> QED BY Zenon, <2>1, <3>7, <3>8 DEF FollowInv
  <2>8. CASE n # 1
    <3> DEFINE o == n - 1
               f == Past(Waiting(frames)[o], i - (Top.from + 1) + 1)
               b == With(Waiting(built)[o], AMF0_OBJECT, Own.props)
    <3>1. /\ frames' = [Waiting(frames) EXCEPT ![o] = f]
          /\ built' = [Waiting(built) EXCEPT ![o] = b]
          /\ UNCHANGED result
      BY Zenon, <2>8 DEF Return
    <3>2. o \in Nat /\ o > 0 /\ n = o + 1 /\ o \in 1..o /\ o \in 1..n /\ o \in 1..(n - 1)
      <4>1. n \in Nat \ {0} /\ n # 1
        BY <1>1, <2>8
      <4> HIDE DEF n
      <4> QED BY ONLY <4>1
    <3>3. input.kind = "whole" /\ ~starved'
      <4>1. input.kind = "flat" => n <= 1
        BY Zenon, <2>1 DEF Follows
      <4>2. ~(n <= 1)
        <5>1. n \in Nat \ {0} /\ n # 1
          BY <1>1, <2>8
        <5> HIDE DEF n
        <5> QED BY ONLY <5>1
      <4> QED BY Zenon, <2>1, <4>1, <4>2
    <3>4. /\ Waiting(frames) \in Seq(Frame) /\ Waiting(frames)[o] = frames[o]
          /\ Waiting(built)[o] = built[o]
      BY <2>3, <3>2, TakeOne
    <3>5. frames[o] \in Frame /\ built[o] \in Building
      BY <2>3, <3>2
    <3>6. Comes(input.bytes, frames[o].from, whole[o],
                Append(built[o].props, Awaited(built[o], w)), rest[o],
                frames[o].at + 1 + Len(Encoding[w]))
      <4>1. Comes(input.bytes, frames[o].from, whole[o],
                  Append(built[o].props, Awaited(built[o], whole[o + 1])), rest[o],
                  frames[o].at + 1 + Len(Encoding[whole[o + 1]]))
        BY Zenon, <2>1, <3>2 DEF Follows
      <4> QED BY Zenon, <3>2, <4>1
    <3>7. i - (Top.from + 1) + 1 = 1 + Len(Encoding[w])
      <4>1. i = Top.from + 1 + Len(Encoding[w])
        BY <2>5, <3>3
      <4> DEFINE t == Top.from
                 l == Len(Encoding[w])
      <4>2. t \in Nat /\ l \in Nat /\ i = t + 1 + l
        BY <2>6, <4>1
      <4> HIDE DEF t, l
      <4>3. i - (t + 1) + 1 = 1 + l
        BY <4>2
      <4> QED BY <4>3 DEF t, l
    <3>8. f = Past(frames[o], 1 + Len(Encoding[w]))
      BY Zenon, <3>4, <3>7
    <3>9. /\ frames[o].from \in Nat /\ frames[o].at \in Nat /\ frames[o].left \in Nat
          /\ frames[o].at + 1 + Len(Encoding[w]) \in Nat
      BY <2>6, <3>5 DEF Frame
    <3>10. /\ f.from = frames[o].from
           /\ f.at = frames[o].at + 1 + Len(Encoding[w])
      <4> DEFINE a == frames[o]
                 l == Len(Encoding[w])
      <4>1. a.at \in Nat /\ l \in Nat
        BY <2>6, <3>9
      <4>2. f = [from |-> a.from, at |-> a.at + (1 + l), left |-> a.left - (1 + l)]
        BY Zenon, <3>8 DEF Past
      <4> HIDE DEF a, l, f
      <4>3. f.from = a.from /\ f.at = a.at + 1 + l
        BY <4>1, <4>2
      <4> QED BY <4>3 DEF a, l
    <3>11. f \in Frame
      <4> DEFINE q == frames[o]
                 l == Len(Encoding[w])
                 e == Len(Encoding[rest[o]])
                 z == Len(Encoding[whole[o]])
      <4>1. q.from + z <= Size
        <5>1. \A c \in 1..n : frames[c].from + Len(Encoding[whole[c]]) <= Len(input.bytes)
          BY Zenon, <2>1, <3>3 DEF Follows
        <5> QED BY Zenon, <3>2, <5>1 DEF Size
      <4>2. q.at + 1 + l + e = q.from + 1 + z
        BY Zenon, <3>6 DEF Comes
      <4>3. e \in Nat /\ z \in Nat
        <5>1. rest[o] \in Object /\ whole[o] \in Object
          <6>1. /\ whole \in Seq(Object) /\ Len(whole) = n
                /\ rest \in Seq(Object) /\ Len(rest) = n
            BY Zenon, <2>1 DEF Follows
          <6> QED BY <3>2, <6>1
        <5> QED BY Zenon, <1>1, <5>1, ObjectFacts
      <4>4. q.at + q.left = Size + 1
        BY <3>2 DEF AmfInv, Bounded
      <4>5. Size \in Nat
        <5>1. 0 \in Int /\ 0 \in Nat
          OBVIOUS
        <5> QED BY Zenon, <1>1, <5>1, ByteTypes
      <4>6. l \in Nat /\ q \in Frame /\ q.from \in Nat /\ q.at \in Nat /\ q.left \in Nat
        BY Zenon, <2>6, <3>5, <3>9
      <4>7. f = [from |-> q.from, at |-> q.at + (1 + l), left |-> q.left - (1 + l)]
        BY Zenon, <3>8 DEF Past
      <4> DEFINE x == q.from
                 y == q.at
                 u == q.left
                 s == Size
      <4>8. /\ x \in Nat /\ y \in Nat /\ u \in Nat /\ s \in Nat /\ l \in Nat
            /\ e \in Nat /\ z \in Nat
            /\ x + z <= s /\ y + 1 + l + e = x + 1 + z /\ y + u = s + 1
        BY Zenon, <4>1, <4>2, <4>3, <4>4, <4>5, <4>6
      <4>9. f = [from |-> x, at |-> y + (1 + l), left |-> u - (1 + l)]
        BY Zenon, <4>7
      <4> HIDE DEF f, x, y, u, s, l, e, z
      <4>10. y + (1 + l) \in Nat /\ u - (1 + l) \in Nat /\ x \in Nat
        BY ONLY <4>8
      <4> QED BY <4>9, <4>10 DEF Frame
    <3>12. b \in Building /\ b.props = Append(built[o].props, Awaited(built[o], w))
      <4> DEFINE q == built[o]
                 a == Append(q.props, Awaited(q, w))
      <4>1. Own.props = w
        BY Zenon, <2>1, <2>4, <3>3
      <4>2. b = [q EXCEPT !.props = Append(@, [name |-> q.name, type |-> AMF0_OBJECT,
                                               data |-> w])]
        BY Zenon, <3>4, <4>1 DEF With
      <4>3. b = [q EXCEPT !.props = a]
        BY Zenon, <4>2 DEF Awaited
      <4>4. a \in Seq(Property) /\ q \in Building
        BY Zenon, <3>5, <3>6 DEF Comes
      <4> HIDE DEF q, a, b
      <4>5. b \in Building /\ b.props = a
        BY <4>3, <4>4 DEF Building
      <4> QED BY <4>5 DEF a, q
    <3> HIDE DEF f, b, o
    <3>13. Comes(input.bytes, f.from, whole[o], b.props, rest[o], f.at)
      BY Zenon, <3>6, <3>10, <3>12
    <3>14. Follows(input, frames', built', Waiting(whole), Waiting(rest))
      BY Zenon, <2>1, <2>3, <3>1, <3>2, <3>10, <3>11, <3>12, <3>13, PopFollows
    <3>15. DecodesWhatWasSent'
      <4>1. /\ result' = result /\ input' = input /\ ~starved
            /\ input.kind = "whole" /\ ~(input.kind = "flat")
        <5>1. "whole" # "flat"
          OBVIOUS
        <5> QED BY Zenon, <2>1, <3>1, <3>3, <5>1
      <4>2. DecodesWhatWasSent
        BY Zenon DEF FollowInv
      <4> QED BY Zenon, <4>1, <4>2 DEF DecodesWhatWasSent
    <3> QED BY Zenon, <2>1, <3>14, <3>15 DEF FollowInv
  <2> QED BY <2>7, <2>8
<1> QED BY <1>2, <1>3

\* A call that ends where it should not: not in an object that arrives whole.
LEMMA EndsShortKeepsFollowInv ==
  ASSUME AmfConstants, AmfInv, FollowInv, EndsShort
  PROVE  FollowInv'
<1>1. /\ frames # <<>> /\ Top.left < 3 /\ Return(Top.at)
      /\ UNCHANGED input /\ starved' = starved
  BY DEF EndsShort
<1>2. IsFollowed' => IsFollowed
  BY Zenon, <1>1 DEF IsFollowed
<1>3. PICK whole, rest : IsFollowed' => Follows(input, frames, built, whole, rest)
  BY Zenon, <1>2 DEF FollowInv
<1>4. ASSUME IsFollowed', input.kind = "whole" PROVE FALSE
  <2> DEFINE n == Len(frames)
             e == Len(Encoding[rest[n]])
  <2>1. TopRest(n, whole[n], rest[n])
    BY Zenon, <1>1, <1>3, <1>4, TopComes
  <2>2. Top.at + e <= Size + 1 /\ rest[n] \in Object
    BY Zenon, <1>4, <2>1 DEF TopRest
  <2>3. e \in Nat /\ e >= 3
    BY Zenon, <2>2, EncodingIsLong
  <2>4. /\ Top.at \in Nat /\ Top.left \in Nat /\ Size \in Nat
        /\ Top.at + Top.left = Size + 1
    <3>1. Top \in Frame /\ Bounded(Top) /\ Size \in Nat
      BY <1>1, TopFacts, ByteTypes
    <3> QED BY <3>1 DEF Frame, Bounded
  <2> HIDE DEF e
  <2> QED BY <1>1, <2>2, <2>3, <2>4
<1> QED BY Zenon, <1>1, <1>3, <1>4, ReturnKeepsFollowInv

LEMMA EndsAtMarkerKeepsFollowInv ==
  ASSUME AmfConstants, AmfInv, FollowInv, EndsAtMarker
  PROVE  FollowInv'
<1>1. /\ frames # <<>> /\ Turns /\ Marker /\ Return(Top.at + 3)
      /\ UNCHANGED input /\ starved' = starved
  BY DEF EndsAtMarker, Turns
<1>2. IsFollowed' => IsFollowed
  BY Zenon, <1>1 DEF IsFollowed
<1>3. PICK whole, rest : IsFollowed' => Follows(input, frames, built, whole, rest)
  BY Zenon, <1>2 DEF FollowInv
<1>4. ASSUME IsFollowed' PROVE rest[Len(frames)] = <<>>
  <2> DEFINE n == Len(frames)
  <2>1. TopRest(n, whole[n], rest[n])
    BY Zenon, <1>1, <1>3, <1>4, TopComes
  <2>2. rest[n] \in Object /\ StandsAt(input.bytes, Top.at, Encoding[rest[n]])
    BY Zenon, <2>1 DEF TopRest, Comes
  <2> QED BY Zenon, <1>1, <2>2, ReadsName
<1> QED BY Zenon, <1>1, <1>3, <1>4, ReturnKeepsFollowInv

\* What comes first in the rest of an object that arrives whole has arrived: its name
\* fits, and behind the name is a value that is not refused.
LEMMA FirstArrives ==
  ASSUME AmfConstants, AmfInv, Turns, ~Marker, NEW w, NEW r,
         TopRest(Len(frames), w, r), input.kind = "whole"
  PROVE  /\ NameFits
         /\ IsLeaf(Named.at, Named.left) \/ IsObject(Named.at, Named.left)
<1> DEFINE p == r[1]
           l == Len(p.name)
           v == Len(ValueEncoding(p))
           e == Len(Encoding[Tail(r)])
           i == Named.at
<1>1. /\ r \in Object /\ StandsAt(input.bytes, Top.at, Encoding[r])
      /\ Top.at + Len(Encoding[r]) <= Size + 1
  BY Zenon DEF TopRest, Comes
<1>2. r # <<>> /\ NameLen = l
  BY Zenon, <1>1, ReadsName
<1>3. AmfEncodings /\ NumberSize \in Nat \ {0} /\ input \in Input
  BY TopFacts DEF AmfConstants, Turns
<1>4. /\ Top.at \in Nat /\ Top.at \in Int /\ Top.left \in Nat /\ Size \in Nat
      /\ Top.at + Top.left = Size + 1
  BY TurnFacts
<1>5. FirstStands(input.bytes, Top.at, r, p)
  BY Zenon, <1>1, <1>2, <1>3, <1>4, PropertyStands
<1>6. /\ IsProperty(p) /\ Tail(r) \in Object /\ p.name \in Seq(Octet)
      /\ Len(Encoding[r]) = 2 + l + v + e
  BY Zenon, <1>5 DEF FirstStands
<1>7. l \in Nat /\ v \in Nat /\ e \in Nat /\ v >= 1
  <2>1. l \in Nat
    BY <1>6, LenProperties
  <2>2. After(p) \in Seq(Octet) /\ v = 1 + Len(After(p))
    BY Zenon, <1>3, <1>6, ValueFacts
  <2>3. Len(After(p)) \in Nat
    BY <2>2, LenProperties
  <2>4. e \in Nat
    BY Zenon, <1>3, <1>6, ObjectFacts
  <2> HIDE DEF v, l, e
  <2> QED BY <2>1, <2>2, <2>3, <2>4
<1>8. NameFits
  <2> DEFINE t == Top.at
             u == Top.left
             q == Len(Encoding[r])
             s == Size
  <2>1. /\ t \in Nat /\ u \in Nat /\ s \in Nat /\ l \in Nat /\ v \in Nat /\ e \in Nat
        /\ t + u = s + 1 /\ t + q <= s + 1 /\ q = 2 + l + v + e
    BY Zenon, <1>1, <1>4, <1>6, <1>7
  <2> HIDE DEF t, u, q, s, l, v, e
  <2>2. u >= 2 + l
    BY ONLY <2>1
  <2> QED BY Zenon, <1>2, <2>2 DEF NameFits, u
<1>9. ValueStands(r, p)
  BY Zenon, <1>1, <1>8, NamedStands
<1>10. /\ i \in Nat \ {0} /\ Named.left \in Nat /\ i + Named.left = Size + 1
       /\ StandsAt(input.bytes, i, ValueEncoding(p))
       /\ i + v + e = Top.at + Len(Encoding[r])
  BY Zenon, <1>9 DEF ValueStands
<1>11. v <= Named.left /\ Named.left >= 1
  <2> DEFINE u == Named.left
             q == Top.at + Len(Encoding[r])
             s == Size
  <2>1. /\ i \in Nat /\ u \in Nat /\ s \in Nat /\ v \in Nat /\ e \in Nat /\ v >= 1
        /\ i + u = s + 1 /\ i + v + e = q /\ q <= s + 1
    <3>1. i \in Nat
      BY <1>10
    <3> QED BY Zenon, <1>1, <1>4, <1>7, <1>10, <3>1
  <2> HIDE DEF i, u, q, s, v, e
  <2>2. v <= u /\ u >= 1
    BY ONLY <2>1
  <2> QED BY <2>2 DEF u
<1>12. CASE p.type = AMF0_OBJECT
  BY Zenon, <1>3, <1>6, <1>8, <1>10, <1>11, <1>12, ReadsValue
<1>13. CASE p.type # AMF0_OBJECT
  <2>1. TakenWhole(i, Named.left, p)
    BY Zenon, <1>3, <1>6, <1>10, <1>13, ReadsValue
  <2> QED BY Zenon, <1>8, <1>11, <2>1 DEF TakenWhole
<1> QED BY <1>12, <1>13

\* Of an object that arrives whole nothing is refused, unless there is no memory.
LEMMA NoNameKeepsFollowInv ==
  ASSUME AmfConstants, AmfInv, FollowInv, NoName
  PROVE  FollowInv'
<1>1. /\ frames # <<>> /\ Turns /\ ~Marker /\ Return(Top.at + 2) /\ UNCHANGED input
      /\ starved' = (starved \/ NameFits)
  BY DEF NoName, Turns
<1>2. (starved => starved') /\ (NameFits => starved')
  BY Zenon, <1>1
<1>3. IsFollowed' => IsFollowed
  BY Zenon, <1>1, <1>2 DEF IsFollowed
<1>4. PICK whole, rest : IsFollowed' => Follows(input, frames, built, whole, rest)
  BY Zenon, <1>3 DEF FollowInv
<1>5. ASSUME IsFollowed', input.kind = "whole" PROVE FALSE
  <2>1. TopRest(Len(frames), whole[Len(frames)], rest[Len(frames)])
    BY Zenon, <1>1, <1>4, <1>5, TopComes
  <2>2. NameFits
    BY Zenon, <1>1, <1>5, <2>1, FirstArrives
  <2>3. input'.kind = "whole" /\ "whole" # "flat"
    BY <1>1, <1>5
  <2> QED BY Zenon, <1>2, <1>5, <2>2, <2>3 DEF IsFollowed
<1> QED BY Zenon, <1>1, <1>2, <1>4, <1>5, ReturnKeepsFollowInv

LEMMA NoValueKeepsFollowInv ==
  ASSUME AmfConstants, AmfInv, FollowInv, NoValue
  PROVE  FollowInv'
<1> DEFINE taken == IsLeaf(Named.at, Named.left) \/ IsObject(Named.at, Named.left)
<1>1. /\ frames # <<>> /\ Turns /\ ~Marker /\ Return(Named.at) /\ UNCHANGED input
      /\ starved' = (starved \/ taken)
  BY Zenon DEF NoValue, Turns
<1>2. (starved => starved') /\ (taken => starved')
  BY Zenon, <1>1
<1>3. IsFollowed' => IsFollowed
  BY Zenon, <1>1, <1>2 DEF IsFollowed
<1>4. PICK whole, rest : IsFollowed' => Follows(input, frames, built, whole, rest)
  BY Zenon, <1>3 DEF FollowInv
<1>5. ASSUME IsFollowed', input.kind = "whole" PROVE FALSE
  <2>1. TopRest(Len(frames), whole[Len(frames)], rest[Len(frames)])
    BY Zenon, <1>1, <1>4, <1>5, TopComes
  <2>2. taken
    BY Zenon, <1>1, <1>5, <2>1, FirstArrives
  <2>3. input'.kind = "whole" /\ "whole" # "flat"
    BY <1>1, <1>5
  <2> QED BY Zenon, <1>2, <1>5, <2>2, <2>3 DEF IsFollowed
<1> QED BY Zenon, <1>1, <1>2, <1>4, <1>5, ReturnKeepsFollowInv

LEMMA NextFollowInv ==
  ASSUME AmfConstants, AmfInv, Shape, FollowInv, [AmfNext]_amfVars
  PROVE  FollowInv'
<1>1. ASSUME UNCHANGED <<input, starved, result>>,
             ASSUME IsFollowed, NEW whole, NEW rest,
                    Follows(input, frames, built, whole, rest)
             PROVE  \E w, r : Follows(input, frames', built', w, r)
      PROVE  FollowInv'
  <2>1. IsFollowed' <=> IsFollowed
    BY Zenon, <1>1 DEF IsFollowed
  <2>2. DecodesWhatWasSent'
    BY Zenon, <1>1 DEF FollowInv, DecodesWhatWasSent
  <2>3. ASSUME IsFollowed
        PROVE  \E whole, rest : Follows(input', frames', built', whole, rest)
    <3>1. PICK whole, rest : Follows(input, frames, built, whole, rest)
      BY Zenon, <2>3 DEF FollowInv
    <3> QED BY Zenon, <1>1, <2>3, <3>1
  <2> QED BY Zenon, <1>1, <2>1, <2>2, <2>3 DEF FollowInv
<1>2. CASE TakeLeaf
  <2>1. UNCHANGED <<input, starved, result>>
    BY <1>2 DEF TakeLeaf
  <2> QED BY Zenon, <1>1, <1>2, <2>1, TakeLeafFollows
<1>3. CASE TakeObject
  <2>1. UNCHANGED <<input, starved, result>>
    BY <1>3 DEF TakeObject
  <2> QED BY Zenon, <1>1, <1>3, <2>1, TakeObjectFollows
<1>4. CASE UNCHANGED amfVars
  <2>1. UNCHANGED <<input, starved, result>> /\ UNCHANGED <<frames, built>>
    BY <1>4 DEF amfVars
  <2> QED BY Zenon, <1>1, <2>1
<1> QED
  BY Zenon, <1>2, <1>3, <1>4, DecodeKeepsFollowInv, EndsShortKeepsFollowInv,
     EndsAtMarkerKeepsFollowInv, NoNameKeepsFollowInv, NoValueKeepsFollowInv
     DEF AmfNext, Turn

\* An object that is handed to rtmp_amf_decode_object whole, with objects in it to
\* any depth, is decoded as it was sent and to its last byte, unless an allocation
\* fails; of one that is cut, and holds no objects, a first part is.
THEOREM DecodesTheObject ==
  ASSUME AmfConstants
  PROVE  AmfSpec => []DecodesWhatWasSent
<1>1. AmfInit => FollowInv /\ Shape
  <2> SUFFICES ASSUME AmfInit PROVE FollowInv /\ Shape
    OBVIOUS
  <2>1. input = NoInput /\ ~result.ok
    BY DEF AmfInit, Refused
  <2>2. FollowInv
    BY Zenon, <2>1 DEF FollowInv, IsFollowed, DecodesWhatWasSent
  <2> QED BY <2>2, InitShape
<1>2. AmfInv /\ Shape /\ [AmfNext]_amfVars => Shape'
  BY NextShape
<1>3. AmfInv /\ Shape /\ FollowInv /\ [AmfNext]_amfVars => FollowInv'
  BY NextFollowInv
<1>4. FollowInv => DecodesWhatWasSent
  BY DEF FollowInv
<1> QED BY <1>1, <1>2, <1>3, <1>4, InvariantAmfInv, PTL DEF AmfSpec
=============================================================================
