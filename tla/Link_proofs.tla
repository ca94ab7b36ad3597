------------------------------ MODULE Link_proofs -------------------------------
(***************************************************************************)
(* What a message costs on the line, for every wire, every CRC, every list *)
(* of messages and any number of faults.                                   *)
(*                                                                         *)
(* A frame that no fault hits, and whose START is not swallowed by an      *)
(* escape that was pending, is OnTrack: what the receiver has collected    *)
(* and what is still on the line are together the frame.  It is delivered, *)
(* and its END leaves no escape pending.  So a message is lost only to a   *)
(* fault in its own frame or in what the receiver heard just before it.    *)
(***************************************************************************)
EXTENDS Decoder_proofs, Link

-----------------------------------------------------------------------------
(***************************************************************************)
(* The bytes of a frame.                                                   *)
(***************************************************************************)
BodyLength(p) == ADDR_BYTES + p.length + 2

LEMMA MoreNumbers ==
  /\ Radix \in Nat /\ Radix > 0 /\ Byte = 0 .. Radix - 1
  /\ START_BYTE \in Byte /\ END_BYTE \in Byte /\ ESC_BYTE \in Byte
  /\ START_BYTE # END_BYTE /\ START_BYTE # ESC_BYTE /\ END_BYTE # ESC_BYTE
  /\ Byte \subseteq Nat /\ RxBytes = Byte
  /\ MaxFaults \in Nat /\ Noise \subseteq Byte
<1>1. /\ BYTE_MAX \in Nat /\ FlagBytes \subseteq Byte
      /\ START_BYTE # END_BYTE /\ START_BYTE # ESC_BYTE /\ END_BYTE # ESC_BYTE
  BY WireAssumption
<1>2. Radix \in Nat /\ Radix > 0 /\ Byte = 0 .. Radix - 1 /\ Byte \subseteq Nat
  BY <1>1 DEF Byte, Radix
<1>3. RxBytes = Byte /\ MaxFaults \in Nat /\ Noise \subseteq Byte
  BY RxAssumption, LineAssumption
<1> QED BY <1>1, <1>2, <1>3 DEF FlagBytes

LEMMA PrefixBytes ==
  ASSUME NEW f, NEW n \in Nat, \A k \in 0 .. n - 1 : f[k] \in Byte
  PROVE  /\ Prefix(f, n) \in Seq(Byte) /\ Len(Prefix(f, n)) = n
         /\ \A k \in 1 .. n : Prefix(f, n)[k] = f[k - 1]
<1>1. Prefix(f, n) \in [1 .. n -> Byte]
  BY DEF Prefix
<1>2. Prefix(f, n) \in Seq(Byte) /\ Len(Prefix(f, n)) = n
  BY <1>1, SeqDef
<1> QED BY <1>2 DEF Prefix

LEMMA FieldBytes ==
  ASSUME NEW p, Encodable(p)
  PROVE  /\ p.length \in Nat /\ p.length \in Byte /\ p.length <= MAX_PAYLOAD_SIZE
         /\ p.address \in [0 .. ADDR_BYTES - 1 -> Byte]
         /\ \A k \in 0 .. p.length - 1 : p.payload[k] \in Byte
         /\ FrameCrcHigh(p) \in Byte /\ FrameCrcLow(p) \in Byte
         /\ Crc(CrcData(p)) = FrameCrcHigh(p) * Radix + FrameCrcLow(p)
         /\ BodyLength(p) \in Nat /\ BodyLength(p) >= 3
<1>1. /\ p.length \in Byte /\ p.address \in [0 .. ADDR_BYTES - 1 -> Byte]
      /\ p.payload \in [0 .. MAX_PAYLOAD_SIZE - 1 -> Byte]
      /\ p.length <= MAX_PAYLOAD_SIZE
      /\ Crc(CrcData(p)) \in 0 .. Radix * Radix - 1
  BY DEF Encodable, PacketType, Address
<1>2. p.length \in Nat
  BY <1>1, MoreNumbers
<1>3. \A k \in 0 .. p.length - 1 : p.payload[k] \in Byte
  BY <1>1, <1>2, Numbers
<1>4. /\ FrameCrcHigh(p) \in Byte /\ FrameCrcLow(p) \in Byte
      /\ Crc(CrcData(p)) = FrameCrcHigh(p) * Radix + FrameCrcLow(p)
  BY <1>1, MoreNumbers, TwoDigits DEF FrameCrcHigh, FrameCrcLow
<1>5. BodyLength(p) \in Nat /\ BodyLength(p) >= 3
  BY <1>2, Numbers DEF BodyLength
<1> QED BY <1>1, <1>2, <1>3, <1>4, <1>5

\* The bytes that are stuffed, by their place.
LEMMA BodyBytes ==
  ASSUME NEW p, Encodable(p)
  PROVE  /\ Body(p) \in Seq(Byte) /\ Len(Body(p)) = BodyLength(p)
         /\ \A k \in 0 .. ADDR_BYTES - 1 : Body(p)[k + 1] = p.address[k]
         /\ \A k \in 0 .. p.length - 1 :
              Body(p)[ADDR_BYTES + k + 1] = p.payload[k]
         /\ Body(p)[ADDR_BYTES + p.length + 1] = FrameCrcHigh(p)
         /\ Body(p)[ADDR_BYTES + p.length + 2] = FrameCrcLow(p)
<1> DEFINE a == Prefix(p.address, ADDR_BYTES)
           b == Prefix(p.payload, p.length)
           c == <<FrameCrcHigh(p), FrameCrcLow(p)>>
<1>1. /\ p.length \in Nat /\ ADDR_BYTES \in Nat
      /\ \A k \in 0 .. ADDR_BYTES - 1 : p.address[k] \in Byte
      /\ \A k \in 0 .. p.length - 1 : p.payload[k] \in Byte
  BY FieldBytes, Numbers
<1>2. /\ a \in Seq(Byte) /\ Len(a) = ADDR_BYTES
      /\ \A k \in 1 .. ADDR_BYTES : a[k] = p.address[k - 1]
  BY <1>1, PrefixBytes
<1>3. /\ b \in Seq(Byte) /\ Len(b) = p.length
      /\ \A k \in 1 .. p.length : b[k] = p.payload[k - 1]
  BY <1>1, PrefixBytes
<1>4. /\ c \in Seq(Byte) /\ Len(c) = 2
      /\ c[1] = FrameCrcHigh(p) /\ c[2] = FrameCrcLow(p)
  BY FieldBytes
<1>5. Body(p) = (a \o b) \o c
  BY DEF Body
<1> HIDE DEF a, b, c
<1>6. /\ Body(p) \in Seq(Byte) /\ Len(Body(p)) = ADDR_BYTES + p.length + 2
      /\ \A k \in 1 .. ADDR_BYTES : Body(p)[k] = a[k]
      /\ \A k \in 1 .. p.length : Body(p)[ADDR_BYTES + k] = b[k]
      /\ \A k \in 1 .. 2 : Body(p)[ADDR_BYTES + p.length + k] = c[k]
  <2> DEFINE s == (a \o b) \o c
  <2>1. a \in Seq(Byte) /\ b \in Seq(Byte) /\ c \in Seq(Byte)
    BY <1>2, <1>3, <1>4
  <2>2. /\ s \in Seq(Byte) /\ Len(s) = Len(a) + Len(b) + Len(c)
        /\ \A k \in 1 .. Len(a) : s[k] = a[k]
        /\ \A k \in 1 .. Len(b) : s[Len(a) + k] = b[k]
        /\ \A k \in 1 .. Len(c) : s[Len(a) + Len(b) + k] = c[k]
    BY <2>1, ConcatThree
  <2> HIDE DEF s
  <2> QED BY <1>2, <1>3, <1>4, <1>5, <2>2 DEF s
<1>7. \A k \in 0 .. ADDR_BYTES - 1 : Body(p)[k + 1] = p.address[k]
  <2> SUFFICES ASSUME NEW k \in 0 .. ADDR_BYTES - 1
               PROVE  Body(p)[k + 1] = p.address[k]
    OBVIOUS
  <2>1. k + 1 \in 1 .. ADDR_BYTES /\ (k + 1) - 1 = k
    BY <1>1
  <2> QED BY <1>2, <1>6, <2>1
<1>8. \A k \in 0 .. p.length - 1 : Body(p)[ADDR_BYTES + k + 1] = p.payload[k]
  <2> SUFFICES ASSUME NEW k \in 0 .. p.length - 1
               PROVE  Body(p)[ADDR_BYTES + k + 1] = p.payload[k]
    OBVIOUS
  <2>1. /\ k + 1 \in 1 .. p.length /\ (k + 1) - 1 = k
        /\ ADDR_BYTES + k + 1 = ADDR_BYTES + (k + 1)
    BY <1>1
  <2> QED BY <1>3, <1>6, <2>1
<1> QED BY <1>4, <1>6, <1>7, <1>8 DEF BodyLength

\* The bytes that the CRC covers, by their place.
LEMMA CoveredBytes ==
  ASSUME NEW p, Encodable(p)
  PROVE  /\ CrcData(p) \in Seq(Byte) /\ Len(CrcData(p)) = HeaderSize + p.length
         /\ CrcData(p)[1] = p.length
         /\ \A k \in 1 .. ADDR_BYTES + p.length :
              CrcData(p)[k + 1] = Body(p)[k]
<1> DEFINE a == Prefix(p.address, ADDR_BYTES)
           b == Prefix(p.payload, p.length)
           h == <<p.length>>
<1>1. /\ p.length \in Nat /\ ADDR_BYTES \in Nat /\ HeaderSize = ADDR_BYTES + 1
      /\ \A k \in 0 .. ADDR_BYTES - 1 : p.address[k] \in Byte
      /\ \A k \in 0 .. p.length - 1 : p.payload[k] \in Byte
  BY FieldBytes, Numbers
<1>2. /\ a \in Seq(Byte) /\ Len(a) = ADDR_BYTES
      /\ \A k \in 1 .. ADDR_BYTES : a[k] = p.address[k - 1]
  BY <1>1, PrefixBytes
<1>3. /\ b \in Seq(Byte) /\ Len(b) = p.length
      /\ \A k \in 1 .. p.length : b[k] = p.payload[k - 1]
  BY <1>1, PrefixBytes
<1>4. h \in Seq(Byte) /\ Len(h) = 1 /\ h[1] = p.length
  BY FieldBytes
<1>5. CrcData(p) = (h \o a) \o b
  BY DEF CrcData
<1> HIDE DEF a, b, h
<1>6. /\ CrcData(p) \in Seq(Byte) /\ Len(CrcData(p)) = 1 + ADDR_BYTES + p.length
      /\ \A k \in 1 .. 1 : CrcData(p)[k] = h[k]
      /\ \A k \in 1 .. ADDR_BYTES : CrcData(p)[1 + k] = a[k]
      /\ \A k \in 1 .. p.length : CrcData(p)[1 + ADDR_BYTES + k] = b[k]
  <2> DEFINE s == (h \o a) \o b
  <2>1. h \in Seq(Byte) /\ a \in Seq(Byte) /\ b \in Seq(Byte)
    BY <1>2, <1>3, <1>4
  <2>2. /\ s \in Seq(Byte) /\ Len(s) = Len(h) + Len(a) + Len(b)
        /\ \A k \in 1 .. Len(h) : s[k] = h[k]
        /\ \A k \in 1 .. Len(a) : s[Len(h) + k] = a[k]
        /\ \A k \in 1 .. Len(b) : s[Len(h) + Len(a) + k] = b[k]
    BY <2>1, ConcatThree
  <2> HIDE DEF s
  <2> QED BY <1>2, <1>3, <1>4, <1>5, <2>2 DEF s
<1>7. ASSUME NEW k \in 1 .. ADDR_BYTES + p.length
      PROVE  CrcData(p)[k + 1] = Body(p)[k]
  <2>1. CASE k <= ADDR_BYTES
    <3>1. /\ k \in 1 .. ADDR_BYTES /\ k - 1 \in 0 .. ADDR_BYTES - 1
          /\ (k - 1) + 1 = k /\ k + 1 = 1 + k
      BY <1>1, <2>1
    <3>2. Body(p)[(k - 1) + 1] = p.address[k - 1]
      BY <3>1, BodyBytes
    <3> QED BY <1>2, <1>6, <3>1, <3>2
  <2>2. CASE k > ADDR_BYTES
    <3> DEFINE j == k - ADDR_BYTES
    <3>1. /\ j \in 1 .. p.length /\ j - 1 \in 0 .. p.length - 1
          /\ ADDR_BYTES + (j - 1) + 1 = k /\ k + 1 = 1 + ADDR_BYTES + j
      BY <1>1, <2>2
    <3>2. Body(p)[ADDR_BYTES + (j - 1) + 1] = p.payload[j - 1]
      BY <3>1, BodyBytes
    <3> HIDE DEF j
    <3> QED BY <1>3, <1>6, <3>1, <3>2
  <2> QED BY <1>1, <2>1, <2>2
<1> QED BY <1>1, <1>4, <1>6, <1>7

-----------------------------------------------------------------------------
\* A byte of the body as it is sent.
LEMMA StuffedByte ==
  ASSUME NEW b \in Byte
  PROVE  /\ Stuffed(b) \in Seq(Byte) /\ Flip(b) \in Byte /\ Flip(Flip(b)) = b
         /\ b \in FlagBytes => /\ Len(Stuffed(b)) = 2
                               /\ Stuffed(b)[1] = ESC_BYTE /\ Stuffed(b)[2] = Flip(b)
         /\ b \notin FlagBytes => Len(Stuffed(b)) = 1 /\ Stuffed(b)[1] = b
<1>1. Flip(b) \in Byte /\ Flip(Flip(b)) = b /\ ESC_BYTE \in Byte
  BY FlipAssumption, MoreNumbers
<1>2. CASE b \in FlagBytes
  BY <1>1, <1>2 DEF Stuffed
<1>3. CASE b \notin FlagBytes
  BY <1>1, <1>3 DEF Stuffed
<1> QED BY <1>1, <1>2, <1>3

StuffedParts(p) == [k \in 1 .. BodyLength(p) |-> Stuffed(Body(p)[k])]

\* The bytes of the frame up to the k-th of the body.
Offset(p, k) == 2 + Len(Upto(StuffedParts(p), k))

LEMMA PartsShape ==
  ASSUME NEW p, Encodable(p)
  PROVE  /\ StuffedParts(p) \in Seq(Seq(Byte))
         /\ Len(StuffedParts(p)) = BodyLength(p)
         /\ \A k \in 0 .. BodyLength(p) - 1 :
              /\ Body(p)[k + 1] \in Byte
              /\ StuffedParts(p)[k + 1] = Stuffed(Body(p)[k + 1])
<1>1. /\ BodyLength(p) \in Nat
      /\ \A k \in 1 .. BodyLength(p) : Body(p)[k] \in Byte
  BY FieldBytes, BodyBytes
<1>2. StuffedParts(p) \in [1 .. BodyLength(p) -> Seq(Byte)]
  BY <1>1, StuffedByte DEF StuffedParts
<1>3. StuffedParts(p) \in Seq(Seq(Byte)) /\ Len(StuffedParts(p)) = BodyLength(p)
  BY <1>1, <1>2, SeqDef
<1>4. ASSUME NEW k \in 0 .. BodyLength(p) - 1
      PROVE  /\ Body(p)[k + 1] \in Byte
             /\ StuffedParts(p)[k + 1] = Stuffed(Body(p)[k + 1])
  <2>1. k + 1 \in 1 .. BodyLength(p)
    BY <1>1
  <2> QED BY <1>1, <2>1 DEF StuffedParts
<1> QED BY <1>3, <1>4

\* The frame, by the places of its bytes.
LEMMA FrameEnds ==
  ASSUME NEW p, Encodable(p)
  PROVE  /\ EncodedFrame(p) \in Seq(Byte)
         /\ EncodedFrame(p)[1] = START_BYTE /\ EncodedFrame(p)[2] = p.length
         /\ Offset(p, 0) = 2
         /\ Len(EncodedFrame(p)) = Offset(p, BodyLength(p)) + 1
         /\ EncodedFrame(p)[Len(EncodedFrame(p))] = END_BYTE
         /\ Len(EncodedFrame(p)) = 3 + Len(FlattenSeq(StuffedParts(p)))
         /\ \A k \in 1 .. Len(FlattenSeq(StuffedParts(p))) :
              EncodedFrame(p)[2 + k] = FlattenSeq(StuffedParts(p))[k]
<1> DEFINE a == <<START_BYTE, p.length>>
           b == FlattenSeq(StuffedParts(p))
           c == <<END_BYTE>>
<1>1. /\ a \in Seq(Byte) /\ Len(a) = 2 /\ a[1] = START_BYTE /\ a[2] = p.length
      /\ c \in Seq(Byte) /\ Len(c) = 1 /\ c[1] = END_BYTE
  BY FieldBytes, MoreNumbers
<1>2. b \in Seq(Byte)
  BY PartsShape, FlattenType
<1>3. EncodedFrame(p) = (a \o b) \o c
  <2>1. Len(Body(p)) = BodyLength(p)
    BY BodyBytes
  <2> QED BY <2>1 DEF EncodedFrame, StuffedParts
<1> HIDE DEF a, b, c
<1> DEFINE s == (a \o b) \o c
<1>4. /\ s \in Seq(Byte) /\ Len(s) = Len(a) + Len(b) + Len(c)
      /\ \A k \in 1 .. Len(a) : s[k] = a[k]
      /\ \A k \in 1 .. Len(b) : s[Len(a) + k] = b[k]
      /\ \A k \in 1 .. Len(c) : s[Len(a) + Len(b) + k] = c[k]
  <2>1. a \in Seq(Byte) /\ b \in Seq(Byte) /\ c \in Seq(Byte)
    BY <1>1, <1>2
  <2> QED BY <2>1, ConcatThree
<1> HIDE DEF s
<1>5. EncodedFrame(p) = s /\ Len(b) \in Nat
  BY <1>2, <1>3 DEF s
<1>6. /\ Len(s) = 3 + Len(b) /\ s[1] = START_BYTE /\ s[2] = p.length
      /\ s[2 + Len(b) + 1] = END_BYTE
      /\ \A k \in 1 .. Len(b) : s[2 + k] = b[k]
  BY <1>1, <1>4, <1>5
<1>7. Offset(p, 0) = 2
  <2>1. Parts(StuffedParts(p), 0) = <<>>
    BY DEF Parts
  <2> QED BY <2>1, FlattenEmpty DEF Offset, Upto
<1>8. Offset(p, BodyLength(p)) = 2 + Len(b)
  <2>1. Parts(StuffedParts(p), BodyLength(p)) = StuffedParts(p)
    BY DEF Parts, StuffedParts
  <2> QED BY <2>1 DEF Offset, Upto, b
<1>9. 2 + Len(b) + 1 = 3 + Len(b)
  BY <1>5
<1> QED BY <1>4, <1>5, <1>6, <1>7, <1>8, <1>9 DEF b

LEMMA FrameBytes ==
  ASSUME NEW p, Encodable(p), NEW k \in 0 .. BodyLength(p)
  PROVE  /\ Offset(p, k) \in Nat /\ Offset(p, k) >= 2
         /\ k < BodyLength(p) =>
              /\ Offset(p, k + 1) = Offset(p, k) + Len(Stuffed(Body(p)[k + 1]))
              /\ \A i \in 1 .. Len(Stuffed(Body(p)[k + 1])) :
                   /\ Offset(p, k) + i < Len(EncodedFrame(p))
                   /\ EncodedFrame(p)[Offset(p, k) + i] = Stuffed(Body(p)[k + 1])[i]
<1> DEFINE s == StuffedParts(p)
           b == FlattenSeq(s)
<1>1. /\ s \in Seq(Seq(Byte)) /\ Len(s) = BodyLength(p) /\ BodyLength(p) \in Nat
      /\ b \in Seq(Byte) /\ Len(b) \in Nat
      /\ Len(EncodedFrame(p)) = 3 + Len(b)
      /\ \A j \in 1 .. Len(b) : EncodedFrame(p)[2 + j] = b[j]
  BY PartsShape, FieldBytes, FlattenType, FrameEnds
<1>2. Len(Upto(s, k)) \in Nat
  BY <1>1, UptoNext
<1>3. ASSUME k < BodyLength(p)
      PROVE  /\ Offset(p, k + 1) = Offset(p, k) + Len(Stuffed(Body(p)[k + 1]))
             /\ \A i \in 1 .. Len(Stuffed(Body(p)[k + 1])) :
                  /\ Offset(p, k) + i < Len(EncodedFrame(p))
                  /\ EncodedFrame(p)[Offset(p, k) + i] = Stuffed(Body(p)[k + 1])[i]
  <2>1. k \in 0 .. BodyLength(p) - 1 /\ s[k + 1] = Stuffed(Body(p)[k + 1])
    BY <1>1, <1>3, PartsShape
  <2>2. Len(Upto(s, k + 1)) = Len(Upto(s, k)) + Len(s[k + 1]) /\ Len(s[k + 1]) \in Nat
    BY <1>1, <1>3, UptoNext
  <2>3. ASSUME NEW i \in 1 .. Len(s[k + 1])
        PROVE  /\ Len(Upto(s, k)) + i \in 1 .. Len(b)
               /\ b[Len(Upto(s, k)) + i] = s[k + 1][i]
    BY <1>1, <2>1, FlattenAt
  <2> HIDE DEF s, b
  <2>4. ASSUME NEW i \in 1 .. Len(s[k + 1])
        PROVE  /\ Offset(p, k) + i < Len(EncodedFrame(p))
               /\ EncodedFrame(p)[Offset(p, k) + i] = s[k + 1][i]
    <3> DEFINE j == Len(Upto(s, k)) + i
    <3>1. j \in 1 .. Len(b) /\ b[j] = s[k + 1][i]
      BY <2>3
    <3>2. Offset(p, k) + i = 2 + j
      BY <1>2, <2>2 DEF Offset, s
    <3> HIDE DEF j
    <3>3. EncodedFrame(p)[2 + j] = b[j]
      BY <1>1, <3>1
    <3>4. 2 + j < 3 + Len(b)
      BY <1>1, <3>1
    <3> QED BY <1>1, <3>1, <3>2, <3>3, <3>4
  <2>5. Offset(p, k + 1) = Offset(p, k) + Len(s[k + 1])
    <3> DEFINE u == Len(Upto(s, k))
               v == Len(s[k + 1])
               w == Len(Upto(s, k + 1))
    <3>1. u \in Nat /\ v \in Nat /\ w = u + v
      BY <1>2, <2>2
    <3>2. Offset(p, k + 1) = 2 + w /\ Offset(p, k) = 2 + u
      BY DEF Offset, s
    <3> HIDE DEF u, v, w
    <3>3. Offset(p, k + 1) = Offset(p, k) + v
      BY <3>1, <3>2
    <3> QED BY <3>3 DEF v
  <2> QED BY <2>1, <2>4, <2>5
<1> QED BY <1>2, <1>3 DEF Offset

-----------------------------------------------------------------------------
(***************************************************************************)
(* The receiver on one frame.                                              *)
(***************************************************************************)

\* The unescaped bytes collected: LENGTH and k bytes of the body of p.
Heard(p, k) ==
  /\ decoder.state # "IDLE"
  /\ Collected \in Seq(Byte) /\ Len(Collected) = k + 1
  /\ Collected[1] = p.length
  /\ \A j \in 1 .. k : Collected[j + 1] = Body(p)[j]

\* A flag means what it should to a receiver in which no escape is pending.
LEMMA HearStart ==
  ASSUME ~decoder.escape_next, Receiver!Hear(START_BYTE)
  PROVE  /\ decoder'.state # "IDLE" /\ Collected' = <<>>
         /\ ~decoder'.escape_next /\ result' = "INCOMPLETE"
<1>1. Receiver!Begin(START_BYTE)
  BY MoreNumbers
  DEF Receiver!Hear, Receiver!Mark, Receiver!Drop, Receiver!Collect,
      Receiver!TooLong, Receiver!Judge, Receiver!IsData
<1> QED BY <1>1 DEF Receiver!Begin

LEMMA HearEscape ==
  ASSUME ~decoder.escape_next, Receiver!Hear(ESC_BYTE)
  PROVE  /\ (decoder'.state = "IDLE") = (decoder.state = "IDLE")
         /\ Collected' = Collected
         /\ decoder'.escape_next /\ result' = "INCOMPLETE"
<1>1. Receiver!Mark(ESC_BYTE)
  BY MoreNumbers
  DEF Receiver!Hear, Receiver!Begin, Receiver!Drop, Receiver!Collect,
      Receiver!TooLong, Receiver!Judge, Receiver!IsData
<1> QED BY <1>1 DEF Receiver!Mark

\* The byte rx, which stands for b, is collected while there is room.
LEMMA HearData ==
  ASSUME NEW rx \in Byte, NEW b \in Byte, Receiver!Hear(rx),
         IF decoder.escape_next THEN rx = Flip(b) ELSE rx = b /\ b \notin FlagBytes,
         decoder.escape_next \in BOOLEAN, decoder.state # "IDLE",
         \/ Collected = <<>> /\ b <= MAX_PAYLOAD_SIZE
         \/ /\ Collected # <<>> /\ Len(Collected) \in Nat
            /\ Receiver!Size(Collected) \in Nat
            /\ Len(Collected) < Receiver!Size(Collected)
  PROVE  /\ decoder'.state # "IDLE" /\ Collected' = Append(Collected, b)
         /\ ~decoder'.escape_next /\ result' = "INCOMPLETE"
<1>1. Receiver!IsData(rx)
  BY DEF Receiver!IsData, FlagBytes
<1>2. Receiver!Data(rx) = b
  BY FlipAssumption, SameWire DEF Receiver!Data
<1>3. ~Receiver!Begin(rx) /\ ~Receiver!Mark(rx)
  BY DEF Receiver!Begin, Receiver!Mark, FlagBytes
<1>4. ~Receiver!Drop(rx)
  BY DEF Receiver!Drop
<1>5. ~Receiver!TooLong(rx)
  <2>1. b \in Nat /\ MAX_PAYLOAD_SIZE \in Nat
    BY MoreNumbers, Numbers
  <2> QED BY <1>2, <2>1 DEF Receiver!TooLong
<1>6. ~Receiver!Judge(rx)
  BY DEF Receiver!Judge
<1>7. Receiver!Collect(rx)
  BY <1>3, <1>4, <1>5, <1>6 DEF Receiver!Hear
<1> QED BY <1>2, <1>7 DEF Receiver!Collect

\* END after a frame that is complete.
LEMMA HearEnd ==
  ASSUME ~decoder.escape_next, Receiver!Hear(END_BYTE), decoder.state # "IDLE",
         Collected # <<>>, Len(Collected) \in Nat,
         Len(Collected) = Receiver!Size(Collected)
  PROVE  /\ ~decoder'.escape_next
         /\ result' = Receiver!Judgement(Collected, END_BYTE)
         /\ result' = "OK" => DeliveredPacket' = Receiver!Message(Collected)
<1>1. Receiver!Judge(END_BYTE)
  BY MoreNumbers
  DEF Receiver!Hear, Receiver!Begin, Receiver!Mark, Receiver!Drop,
      Receiver!Collect, Receiver!TooLong
<1> QED BY <1>1 DEF Receiver!Judge

\* Whatever it hears, END leaves no escape pending.
LEMMA EndSettles ==
  ASSUME Receiver!Hear(END_BYTE), decoder'.escape_next \in BOOLEAN
  PROVE  ~decoder'.escape_next
BY MoreNumbers
DEF Receiver!Hear, Receiver!Begin, Receiver!Mark, Receiver!Drop,
    Receiver!Collect, Receiver!TooLong, Receiver!Judge

\* A frame of which all has been heard is right, and its message is the packet,
\* if that has a message header.
LEMMA HeardAll ==
  ASSUME NEW p, Encodable(p), Heard(p, BodyLength(p))
  PROVE  /\ Collected # <<>> /\ Len(Collected) = Receiver!Size(Collected)
         /\ Receiver!Judgement(Collected, END_BYTE) =
              IF HeaderOK(p.payload, p.length) THEN "OK" ELSE "INVALID_START"
         /\ Receiver!Message(Collected) = AsDelivered(p)
<1> DEFINE f == Collected
           n == BodyLength(p)
<1>1. /\ f \in Seq(Byte) /\ Len(f) = n + 1 /\ f[1] = p.length
      /\ \A j \in 1 .. n : f[j + 1] = Body(p)[j]
  BY DEF Heard
<1>2. /\ ADDR_BYTES \in Nat /\ p.length \in Nat /\ HeaderSize = ADDR_BYTES + 1
      /\ n = ADDR_BYTES + p.length + 2
  BY FieldBytes, Numbers DEF BodyLength
<1> HIDE DEF f, n
<1>3. f # <<>> /\ Len(f) = Receiver!Size(f)
  <2>1. Receiver!Size(f) = HeaderSize + p.length + 2
    BY <1>1, SameWire DEF Receiver!Size
  <2>2. Len(f) # 0
    BY <1>1, <1>2
  <2> QED BY <1>1, <1>2, <2>1, <2>2
<1>4. Receiver!Covered(f) = CrcData(p)
  <2> DEFINE c == SubSeq(f, 1, HeaderSize + p.length)
             m == HeaderSize + p.length
  <2>1. m \in Nat /\ m <= Len(f) /\ m = (ADDR_BYTES + p.length) + 1
    BY <1>1, <1>2
  <2>2. /\ c \in Seq(Byte) /\ Len(c) = m
        /\ \A j \in 1 .. m : c[j] = f[j]
    BY <1>1, <2>1
  <2>3. /\ CrcData(p) \in Seq(Byte) /\ Len(CrcData(p)) = m
        /\ CrcData(p)[1] = p.length
        /\ \A k \in 1 .. ADDR_BYTES + p.length : CrcData(p)[k + 1] = Body(p)[k]
    BY CoveredBytes
  <2> HIDE DEF c, m
  <2>4. \A j \in 1 .. m : c[j] = CrcData(p)[j]
    <3> SUFFICES ASSUME NEW j \in 1 .. m PROVE c[j] = CrcData(p)[j]
      OBVIOUS
    <3>1. CASE j = 1
      BY <1>1, <2>2, <2>3, <3>1
    <3>2. CASE j # 1
      <4> DEFINE k == j - 1
      <4>1. k \in 1 .. ADDR_BYTES + p.length /\ k \in 1 .. n /\ k + 1 = j
        BY <1>2, <2>1, <3>2
      <4> HIDE DEF k
      <4> QED BY <1>1, <2>2, <2>3, <4>1
    <3> QED BY <3>1, <3>2
  <2>5. c = CrcData(p)
    BY <2>2, <2>3, <2>4, SeqEqual
  <2> QED BY <1>1, <2>5, SameWire DEF Receiver!Covered, c
<1>5. Receiver!Checksum(f) = Crc(CrcData(p))
  <2> DEFINE h == ADDR_BYTES + p.length + 1
             l == ADDR_BYTES + p.length + 2
  <2>1. Len(f) = n + 1
    BY <1>1
  <2>2. Len(f) = l + 1 /\ Len(f) - 1 = h + 1 /\ h \in 1 .. n /\ l \in 1 .. n
    BY <1>2, <2>1
  <2>3. Body(p)[h] = FrameCrcHigh(p) /\ Body(p)[l] = FrameCrcLow(p)
    BY BodyBytes
  <2> HIDE DEF h, l
  <2>4. f[Len(f)] = FrameCrcLow(p) /\ f[Len(f) - 1] = FrameCrcHigh(p)
    BY <1>1, <2>2, <2>3
  <2> QED BY <2>4, FieldBytes, SameWire DEF Receiver!Checksum
<1>6. \A i \in 0 .. ADDR_BYTES - 1 : f[i + 2] = p.address[i]
  <2> SUFFICES ASSUME NEW i \in 0 .. ADDR_BYTES - 1 PROVE f[i + 2] = p.address[i]
    OBVIOUS
  <2>1. i + 1 \in 1 .. n /\ (i + 1) + 1 = i + 2
    BY <1>2
  <2> QED BY <1>1, <2>1, BodyBytes
<1>7. \A i \in 0 .. p.length - 1 : f[HeaderSize + 1 + i] = p.payload[i]
  <2> SUFFICES ASSUME NEW i \in 0 .. p.length - 1
               PROVE  f[HeaderSize + 1 + i] = p.payload[i]
    OBVIOUS
  <2>1. /\ ADDR_BYTES + i + 1 \in 1 .. n
        /\ (ADDR_BYTES + i + 1) + 1 = HeaderSize + 1 + i
    BY <1>2
  <2> QED BY <1>1, <2>1, BodyBytes
<1> DEFINE payload == [k \in 0 .. p.length - 1 |-> p.payload[k]]
<1>8. /\ Receiver!AddressOf(f) = p.address
      /\ Receiver!PayloadOf(f) = payload
  <2>1. p.address = [i \in 0 .. ADDR_BYTES - 1 |-> p.address[i]]
    BY FieldBytes
  <2> QED BY <1>1, <1>6, <1>7, <2>1, SameWire DEF Receiver!AddressOf, Receiver!PayloadOf
<1>9. HeaderOK(payload, p.length) <=> HeaderOK(p.payload, p.length)
  BY <1>2 DEF HeaderOK, ShortHeader, LongHeader
<1> HIDE DEF payload
<1>10. Receiver!Judgement(f, END_BYTE) =
         IF HeaderOK(p.payload, p.length) THEN "OK" ELSE "INVALID_START"
  BY <1>1, <1>4, <1>5, <1>8, <1>9, SameWire DEF Receiver!Judgement
<1>11. Receiver!Message(f) = AsDelivered(p)
  BY <1>1, <1>8, SameWire DEF Receiver!Message, AsDelivered, payload
<1> QED BY <1>3, <1>10, <1>11 DEF f

-----------------------------------------------------------------------------
(***************************************************************************)
(* A frame that is on track.                                               *)
(***************************************************************************)

\* What is left of the frame behind its first `at' bytes.
Rest(p, at) ==
  [j \in 1 .. Len(EncodedFrame(p)) - at |-> EncodedFrame(p)[at + j]]

LEMMA RestBytes ==
  ASSUME NEW p, Encodable(p), NEW at \in Nat, at < Len(EncodedFrame(p))
  PROVE  /\ Rest(p, at) \in Seq(Byte) /\ Rest(p, at) # <<>>
         /\ Head(Rest(p, at)) = EncodedFrame(p)[at + 1]
         /\ EncodedFrame(p)[at + 1] \in Byte
         /\ at + 1 < Len(EncodedFrame(p)) => Rest(p, at + 1) # <<>>
         /\ at + 1 = Len(EncodedFrame(p)) => Rest(p, at + 1) = <<>>
         /\ Tail(Rest(p, at)) = Rest(p, at + 1)
<1> DEFINE f == EncodedFrame(p)
           m == Len(f) - at
           r == Rest(p, at)
           t == Rest(p, at + 1)
<1>1. f \in Seq(Byte)
  BY FrameEnds
<1>2. /\ Len(f) \in Nat /\ m \in Nat /\ m >= 1 /\ Len(f) - (at + 1) = m - 1
      /\ \A j \in 1 .. m : at + j \in 1 .. Len(f)
      /\ \A j \in 1 .. m - 1 : (at + 1) + j = at + (j + 1)
  BY <1>1
<1>3. \A j \in 1 .. m : f[at + j] \in Byte
  BY <1>1, <1>2
<1>4. r \in [1 .. m -> Byte] /\ \A j \in 1 .. m : r[j] = f[at + j]
  BY <1>3 DEF Rest
<1>5. /\ t = [j \in 1 .. m - 1 |-> f[(at + 1) + j]]
      /\ \A j \in 1 .. m - 1 : t[j] = f[at + (j + 1)]
  BY <1>2 DEF Rest
<1> HIDE DEF r, t, f, m
<1>6. r \in Seq(Byte) /\ Len(r) = m
  BY <1>2, <1>4, SeqDef
<1>7. t \in Seq(Byte) /\ Len(t) = m - 1
  <2>1. \A j \in 1 .. m - 1 : j + 1 \in 1 .. m
    BY <1>2
  <2>2. t \in [1 .. m - 1 -> Byte]
    BY <1>3, <1>5, <2>1
  <2> QED BY <1>2, <2>2, SeqDef
<1>8. Tail(r) = t
  <2>1. /\ Tail(r) \in Seq(Byte) /\ Len(Tail(r)) = m - 1
        /\ \A j \in 1 .. m - 1 : Tail(r)[j] = r[j + 1]
    BY <1>2, <1>6
  <2>2. \A j \in 1 .. m - 1 : Tail(r)[j] = t[j]
    BY <1>2, <1>4, <1>5, <2>1
  <2> QED BY <1>7, <2>1, <2>2, SeqEqual
<1>9. r # <<>> /\ Head(r) = f[at + 1] /\ f[at + 1] \in Byte
  BY <1>2, <1>3, <1>4, <1>6
<1>10. at + 1 < Len(f) => t # <<>>
  BY <1>2, <1>7 DEF m
<1>11. at + 1 = Len(f) => t = <<>>
  BY <1>2, <1>7, EmptySeq DEF m
<1> QED BY <1>6, <1>8, <1>9, <1>10, <1>11 DEF r, t, f

\* The frame has not begun, its START has been heard, its LENGTH and k bytes of
\* its body have been heard, the next of them is half heard.
Waiting(p) == line = Rest(p, 0) /\ ~decoder.escape_next

Started(p) ==
  /\ line = Rest(p, 1) /\ ~decoder.escape_next /\ result = "INCOMPLETE"
  /\ decoder.state # "IDLE" /\ Collected = <<>>

Between(p, k) ==
  /\ line = Rest(p, Offset(p, k)) /\ ~decoder.escape_next
  /\ result = "INCOMPLETE" /\ Heard(p, k)

Inside(p, k) ==
  /\ Body(p)[k + 1] \in FlagBytes
  /\ line = Rest(p, Offset(p, k) + 1) /\ decoder.escape_next
  /\ result = "INCOMPLETE" /\ Heard(p, k)

OnTrack(p) ==
  \/ Waiting(p) \/ Started(p)
  \/ \E k \in 0 .. BodyLength(p) : Between(p, k)
  \/ \E k \in 0 .. BodyLength(p) - 1 : Inside(p, k)

\* The byte that comes next, and what it does to the receiver.
LEMMA NextByte ==
  ASSUME NEW p, Encodable(p), NEW at \in Nat, at < Len(EncodedFrame(p)),
         IInv, IInv', line = Rest(p, at), Receive
  PROVE  /\ Receiver!Hear(EncodedFrame(p)[at + 1])
         /\ EncodedFrame(p)[at + 1] \in Byte
         /\ line' = Rest(p, at + 1)
         /\ result' = "INCOMPLETE" => received' = received
         /\ result' = "OK" => received' = Append(received, DeliveredPacket')
         /\ result' # "OK" => received' = received
<1>1. /\ Head(line) = EncodedFrame(p)[at + 1] /\ Tail(line) = Rest(p, at + 1)
      /\ Head(line) \in Byte
  BY RestBytes
<1>2. Head(line) \in RxBytes
  BY <1>1, MoreNumbers
<1>3. DecodeByte(Head(line)) /\ line' = Tail(line)
  BY DEF Receive
<1>4. Receiver!Hear(Head(line))
  BY <1>2, <1>3, DecodeRefines
<1> QED BY <1>1, <1>3, <1>4 DEF Receive

LEMMA FromWaiting ==
  ASSUME NEW p, Encodable(p), IInv, IInv', Waiting(p), Receive
  PROVE  Started(p)' /\ received' = received
<1>1. 0 \in Nat /\ 0 < Len(EncodedFrame(p)) /\ EncodedFrame(p)[0 + 1] = START_BYTE
      /\ 0 + 1 = 1
  <2>1. /\ EncodedFrame(p)[1] = START_BYTE /\ Len(FlattenSeq(StuffedParts(p))) \in Nat
        /\ Len(EncodedFrame(p)) = 3 + Len(FlattenSeq(StuffedParts(p)))
    BY FrameEnds, PartsShape, FlattenType
  <2> QED BY <2>1
<1>2. /\ Receiver!Hear(START_BYTE) /\ line' = Rest(p, 1)
      /\ result' = "INCOMPLETE" => received' = received
  BY <1>1, NextByte DEF Waiting
<1>3. /\ decoder'.state # "IDLE" /\ Collected' = <<>>
      /\ ~decoder'.escape_next /\ result' = "INCOMPLETE"
  BY <1>2, HearStart DEF Waiting
<1> QED BY <1>2, <1>3 DEF Started

LEMMA FromStarted ==
  ASSUME NEW p, Encodable(p), IInv, IInv', Started(p), Receive
  PROVE  Between(p, 0)' /\ received' = received
<1>1. /\ 1 \in Nat /\ 1 < Len(EncodedFrame(p)) /\ EncodedFrame(p)[1 + 1] = p.length
      /\ 1 + 1 = Offset(p, 0)
  <2>1. /\ EncodedFrame(p)[2] = p.length /\ Len(FlattenSeq(StuffedParts(p))) \in Nat
        /\ Len(EncodedFrame(p)) = 3 + Len(FlattenSeq(StuffedParts(p)))
        /\ Offset(p, 0) = 2
    BY FrameEnds, PartsShape, FlattenType
  <2> QED BY <2>1
<1>2. /\ Receiver!Hear(p.length) /\ line' = Rest(p, Offset(p, 0))
      /\ result' = "INCOMPLETE" => received' = received
  BY <1>1, NextByte DEF Started
<1>3. p.length \in Byte /\ p.length <= MAX_PAYLOAD_SIZE /\ p.length \notin FlagBytes
  <2>1. /\ p.length \in Byte /\ p.length \in Nat /\ p.length <= MAX_PAYLOAD_SIZE
        /\ MAX_PAYLOAD_SIZE \in Nat /\ FlagBytes \subseteq Nat
    BY FieldBytes, Numbers, MoreNumbers DEF FlagBytes
  <2>2. \A b \in FlagBytes : b > MAX_PAYLOAD_SIZE
    BY LengthAssumption
  <2> QED BY <2>1, <2>2
<1>4. /\ decoder'.state # "IDLE" /\ Collected' = Append(Collected, p.length)
      /\ ~decoder'.escape_next /\ result' = "INCOMPLETE"
  <2>1. decoder.escape_next \in BOOLEAN
    BY Members
  <2> QED BY <1>2, <1>3, <2>1, HearData DEF Started
<1>5. Heard(p, 0)'
  <2>1. Collected' = Append(<<>>, p.length)
    BY <1>4 DEF Started
  <2>2. Collected' \in Seq(Byte) /\ Len(Collected') = 0 + 1 /\ Collected'[1] = p.length
    BY <1>3, <2>1
  <2> QED BY <1>4, <2>2 DEF Heard
<1> QED BY <1>2, <1>4, <1>5 DEF Between

\* The next byte of the body is collected.
LEMMA BodyHeard ==
  ASSUME NEW p, Encodable(p), NEW k \in 0 .. BodyLength(p) - 1, NEW rx \in Byte,
         IInv, Heard(p, k), Receiver!Hear(rx),
         IF decoder.escape_next THEN rx = Flip(Body(p)[k + 1])
         ELSE rx = Body(p)[k + 1] /\ Body(p)[k + 1] \notin FlagBytes
  PROVE  Heard(p, k + 1)' /\ ~decoder'.escape_next /\ result' = "INCOMPLETE"
<1> DEFINE b == Body(p)[k + 1]
           f == Collected
<1>1. b \in Byte /\ decoder.escape_next \in BOOLEAN /\ k \in Nat
  BY PartsShape, FieldBytes, Members
<1>2. /\ f \in Seq(Byte) /\ Len(f) = k + 1 /\ f[1] = p.length
      /\ \A j \in 1 .. k : f[j + 1] = Body(p)[j]
      /\ decoder.state # "IDLE"
  BY DEF Heard
<1> HIDE DEF f
<1>3. /\ f # <<>> /\ Len(f) \in Nat /\ Receiver!Size(f) \in Nat
      /\ Len(f) < Receiver!Size(f)
  <2>1. /\ Receiver!Size(f) = HeaderSize + p.length + 2 /\ p.length \in Nat
        /\ HeaderSize = ADDR_BYTES + 1 /\ ADDR_BYTES \in Nat
        /\ BodyLength(p) = ADDR_BYTES + p.length + 2
    BY <1>2, SameWire, FieldBytes, Numbers DEF Receiver!Size, BodyLength
  <2>2. Len(f) = k + 1
    BY <1>2
  <2>3. f # <<>>
    BY <1>1, <2>2
  <2> QED BY <1>1, <2>1, <2>2, <2>3
<1> HIDE DEF b
<1>4. /\ decoder'.state # "IDLE" /\ Collected' = Append(f, b)
      /\ ~decoder'.escape_next /\ result' = "INCOMPLETE"
  <2>1. IF decoder.escape_next THEN rx = Flip(b) ELSE rx = b /\ b \notin FlagBytes
    BY DEF b
  <2> QED BY <1>1, <1>2, <1>3, <2>1, HearData DEF f
<1>5. /\ Append(f, b) \in Seq(Byte) /\ Len(Append(f, b)) = (k + 1) + 1
      /\ Append(f, b)[(k + 1) + 1] = b
      /\ \A j \in 1 .. k + 1 : Append(f, b)[j] = f[j]
  BY <1>1, <1>2, AppendProperties
<1>6. Append(f, b)[1] = p.length
  BY <1>1, <1>2, <1>5
<1>7. \A j \in 1 .. k + 1 : Append(f, b)[j + 1] = Body(p)[j]
  <2> SUFFICES ASSUME NEW j \in 1 .. k + 1 PROVE Append(f, b)[j + 1] = Body(p)[j]
    OBVIOUS
  <2>1. CASE j = k + 1
    BY <1>5, <2>1 DEF b
  <2>2. CASE j # k + 1
    <3>1. j \in 1 .. k /\ j + 1 \in 1 .. k + 1
      BY <1>1, <2>2
    <3> QED BY <1>2, <1>5, <3>1
  <2> QED BY <2>1, <2>2
<1> QED BY <1>4, <1>5, <1>6, <1>7 DEF Heard

LEMMA FromBetween ==
  ASSUME NEW p, Encodable(p), NEW k \in 0 .. BodyLength(p) - 1,
         IInv, IInv', Between(p, k), Receive
  PROVE  (Inside(p, k)' \/ Between(p, k + 1)') /\ received' = received
<1> DEFINE b == Body(p)[k + 1]
           at == Offset(p, k)
<1>1. b \in Byte /\ k \in 0 .. BodyLength(p) /\ k < BodyLength(p)
  BY PartsShape, FieldBytes
<1>2. /\ at \in Nat /\ Offset(p, k + 1) = at + Len(Stuffed(b))
      /\ \A i \in 1 .. Len(Stuffed(b)) : /\ at + i < Len(EncodedFrame(p))
                                         /\ EncodedFrame(p)[at + i] = Stuffed(b)[i]
  BY <1>1, FrameBytes
<1>3. line = Rest(p, at) /\ ~decoder.escape_next /\ Heard(p, k)
  BY DEF Between
<1>4. EncodedFrame(p) \in Seq(Byte)
  BY FrameEnds
<1>5. CASE b \in FlagBytes
  <2> HIDE DEF b, at
  <2>1. Len(Stuffed(b)) = 2 /\ Stuffed(b)[1] = ESC_BYTE
    BY <1>1, <1>5, StuffedByte
  <2>2. EncodedFrame(p)[at + 1] = ESC_BYTE /\ at < Len(EncodedFrame(p))
    <3>1. /\ at + 1 < Len(EncodedFrame(p))
          /\ EncodedFrame(p)[at + 1] = ESC_BYTE
      BY <1>2, <2>1
    <3>2. Len(EncodedFrame(p)) \in Nat
      BY <1>4
    <3> QED BY <1>2, <3>1, <3>2
  <2>3. /\ Receiver!Hear(ESC_BYTE) /\ line' = Rest(p, at + 1)
        /\ result' = "INCOMPLETE" => received' = received
    BY <1>2, <1>3, <2>2, NextByte
  <2>4. /\ (decoder'.state = "IDLE") = (decoder.state = "IDLE")
        /\ Collected' = Collected /\ decoder'.escape_next /\ result' = "INCOMPLETE"
    BY <1>3, <2>3, HearEscape
  <2>5. Heard(p, k)'
    BY <1>3, <2>4 DEF Heard
  <2> QED BY <1>5, <2>3, <2>4, <2>5 DEF Inside, b, at
<1>6. CASE b \notin FlagBytes
  <2> HIDE DEF b, at
  <2>1. Len(Stuffed(b)) = 1 /\ Stuffed(b)[1] = b
    BY <1>1, <1>6, StuffedByte
  <2>2. EncodedFrame(p)[at + 1] = b /\ at < Len(EncodedFrame(p))
    <3>1. /\ at + 1 < Len(EncodedFrame(p))
          /\ EncodedFrame(p)[at + 1] = b
      BY <1>2, <2>1
    <3>2. Len(EncodedFrame(p)) \in Nat
      BY <1>4
    <3> QED BY <1>2, <3>1, <3>2
  <2>3. /\ Receiver!Hear(b) /\ line' = Rest(p, at + 1)
        /\ result' = "INCOMPLETE" => received' = received
    BY <1>2, <1>3, <2>2, NextByte
  <2>4. Heard(p, k + 1)' /\ ~decoder'.escape_next /\ result' = "INCOMPLETE"
    BY <1>1, <1>3, <1>6, <2>3, BodyHeard DEF b
  <2>5. Offset(p, k + 1) = at + 1
    BY <1>2, <2>1
  <2> QED BY <2>3, <2>4, <2>5 DEF Between
<1> QED BY <1>5, <1>6

LEMMA FromInside ==
  ASSUME NEW p, Encodable(p), NEW k \in 0 .. BodyLength(p) - 1,
         IInv, IInv', Inside(p, k), Receive
  PROVE  Between(p, k + 1)' /\ received' = received
<1> DEFINE b == Body(p)[k + 1]
           at == Offset(p, k) + 1
<1>1. b \in Byte /\ k \in 0 .. BodyLength(p) /\ k < BodyLength(p) /\ b \in FlagBytes
  <2>1. b \in Byte
    BY PartsShape
  <2>2. BodyLength(p) \in Nat
    BY FieldBytes
  <2>3. b \in FlagBytes
    BY DEF Inside
  <2> QED BY <2>1, <2>2, <2>3
<1>2. line = Rest(p, at) /\ decoder.escape_next /\ Heard(p, k)
  BY DEF Inside
<1>3. /\ at \in Nat /\ at < Len(EncodedFrame(p))
      /\ EncodedFrame(p)[at + 1] = Flip(b) /\ Offset(p, k + 1) = at + 1
  <2>1. /\ Offset(p, k) \in Nat
        /\ Offset(p, k + 1) = Offset(p, k) + Len(Stuffed(b))
        /\ \A i \in 1 .. Len(Stuffed(b)) :
             /\ Offset(p, k) + i < Len(EncodedFrame(p))
             /\ EncodedFrame(p)[Offset(p, k) + i] = Stuffed(b)[i]
    BY <1>1, FrameBytes
  <2> HIDE DEF b
  <2>2. Len(Stuffed(b)) = 2 /\ Stuffed(b)[2] = Flip(b)
    BY <1>1, StuffedByte
  <2>3. 1 \in 1 .. 2 /\ 2 \in 1 .. 2 /\ Offset(p, k) + 2 = (Offset(p, k) + 1) + 1
    BY <2>1
  <2> QED BY <2>1, <2>2, <2>3
<1> HIDE DEF b, at
<1>4. Flip(b) \in Byte
  BY <1>1, StuffedByte
<1>5. /\ Receiver!Hear(Flip(b)) /\ line' = Rest(p, at + 1)
      /\ result' = "INCOMPLETE" => received' = received
  BY <1>2, <1>3, NextByte
<1>6. Heard(p, k + 1)' /\ ~decoder'.escape_next /\ result' = "INCOMPLETE"
  BY <1>2, <1>4, <1>5, BodyHeard DEF b
<1> QED BY <1>3, <1>5, <1>6 DEF Between

\* What the application has got once the frame of p has arrived.
Arrived(packets, p) ==
  IF HeaderOK(p.payload, p.length) THEN Append(packets, AsDelivered(p)) ELSE packets

\* The END of the frame: the packet is delivered, and no escape is pending.
LEMMA FromLast ==
  ASSUME NEW p, Encodable(p), IInv, IInv', Between(p, BodyLength(p)), Receive
  PROVE  /\ line' = <<>> /\ ~decoder'.escape_next
         /\ received' = Arrived(received, p)
<1> DEFINE at == Offset(p, BodyLength(p))
<1>1. line = Rest(p, at) /\ ~decoder.escape_next /\ Heard(p, BodyLength(p))
  BY DEF Between
<1>2. /\ at \in Nat /\ at < Len(EncodedFrame(p)) /\ Len(EncodedFrame(p)) = at + 1
      /\ EncodedFrame(p)[at + 1] = END_BYTE
  <2>1. BodyLength(p) \in 0 .. BodyLength(p)
    BY FieldBytes
  <2>2. at \in Nat
    BY <2>1, FrameBytes
  <2>3. /\ Len(EncodedFrame(p)) = at + 1
        /\ EncodedFrame(p)[Len(EncodedFrame(p))] = END_BYTE
    BY FrameEnds
  <2> QED BY <2>2, <2>3
<1> HIDE DEF at
<1>3. /\ Receiver!Hear(END_BYTE) /\ line' = Rest(p, at + 1)
      /\ result' = "OK" => received' = Append(received, DeliveredPacket')
      /\ result' # "OK" => received' = received
  BY <1>1, <1>2, NextByte
<1>4. line' = <<>>
  BY <1>2, <1>3, RestBytes
<1>5. /\ Collected # <<>> /\ Len(Collected) = Receiver!Size(Collected)
      /\ Receiver!Judgement(Collected, END_BYTE) =
           IF HeaderOK(p.payload, p.length) THEN "OK" ELSE "INVALID_START"
      /\ Receiver!Message(Collected) = AsDelivered(p)
  BY <1>1, HeardAll
<1>6. Len(Collected) \in Nat /\ decoder.state # "IDLE"
  BY <1>1 DEF Heard
<1>7. /\ ~decoder'.escape_next
      /\ result' = Receiver!Judgement(Collected, END_BYTE)
      /\ result' = "OK" => DeliveredPacket' = AsDelivered(p)
  BY <1>1, <1>3, <1>5, <1>6, HearEnd
<1>8. CASE HeaderOK(p.payload, p.length)
  BY <1>3, <1>4, <1>5, <1>7, <1>8 DEF Arrived
<1>9. CASE ~HeaderOK(p.payload, p.length)
  BY <1>3, <1>4, <1>5, <1>7, <1>9 DEF Arrived
<1> QED BY <1>8, <1>9

\* While it is on track, some of the frame is still to come.
LEMMA TrackPlaces ==
  ASSUME NEW p, Encodable(p)
  PROVE  /\ Rest(p, 0) # <<>> /\ Rest(p, 1) # <<>>
         /\ \A k \in 0 .. BodyLength(p) : Rest(p, Offset(p, k)) # <<>>
         /\ \A k \in 0 .. BodyLength(p) - 1 :
              Body(p)[k + 1] \in FlagBytes => Rest(p, Offset(p, k) + 1) # <<>>
<1> DEFINE r == Len(FlattenSeq(StuffedParts(p)))
           m == Len(EncodedFrame(p))
<1>1. m = 3 + r /\ r \in Nat /\ m = Offset(p, BodyLength(p)) + 1
  BY FrameEnds, PartsShape, FlattenType
<1>2. BodyLength(p) \in Nat
  BY FieldBytes
<1> HIDE DEF r, m
<1>3. ASSUME NEW k \in 0 .. BodyLength(p)
      PROVE  Offset(p, k) \in Nat /\ Offset(p, k) < m
  <2>1. CASE k = BodyLength(p)
    <3>1. Offset(p, k) \in Nat
      BY FrameBytes
    <3> QED BY <1>1, <2>1, <3>1
  <2>2. CASE k # BodyLength(p)
    <3> DEFINE b == Body(p)[k + 1]
    <3>1. k < BodyLength(p) /\ k \in 0 .. BodyLength(p) - 1
      BY <1>2, <2>2
    <3>2. Offset(p, k) \in Nat /\ \A i \in 1 .. Len(Stuffed(b)) : Offset(p, k) + i < m
      BY <3>1, FrameBytes DEF m
    <3>3. Len(Stuffed(b)) \in {1, 2}
      BY <3>1, PartsShape, StuffedByte
    <3> HIDE DEF b
    <3>4. 1 \in 1 .. Len(Stuffed(b))
      BY <3>3
    <3>5. Offset(p, k) + 1 < m
      BY <3>2, <3>4
    <3> QED BY <1>1, <3>2, <3>5
  <2> QED BY <2>1, <2>2
<1>4. ASSUME NEW k \in 0 .. BodyLength(p) - 1, Body(p)[k + 1] \in FlagBytes
      PROVE  Offset(p, k) + 1 \in Nat /\ Offset(p, k) + 1 < m
  <2>1. k < BodyLength(p) /\ k \in 0 .. BodyLength(p)
    BY <1>2
  <2>2. /\ Offset(p, k) \in Nat
        /\ \A i \in 1 .. Len(Stuffed(Body(p)[k + 1])) : Offset(p, k) + i < m
    BY <2>1, FrameBytes DEF m
  <2>3. Len(Stuffed(Body(p)[k + 1])) = 2
    BY <1>4, PartsShape, StuffedByte
  <2>4. Offset(p, k) + 1 < m
    BY <2>2, <2>3
  <2> QED BY <2>2, <2>4
<1>5. \A at \in Nat : at < m => Rest(p, at) # <<>>
  BY RestBytes DEF m
<1>6. 0 \in Nat /\ 0 < m /\ 1 \in Nat /\ 1 < m
  BY <1>1
<1> QED BY <1>3, <1>4, <1>5, <1>6

LEMMA StayOnTrack ==
  ASSUME NEW p, Encodable(p), IInv, IInv', OnTrack(p), Receive
  PROVE  \/ OnTrack(p)' /\ received' = received
         \/ /\ line' = <<>> /\ ~decoder'.escape_next
            /\ received' = Arrived(received, p)
<1>1. BodyLength(p) \in Nat
  BY FieldBytes
<1>2. CASE Waiting(p)
  BY <1>2, FromWaiting DEF OnTrack
<1>3. CASE Started(p)
  <2>1. Between(p, 0)' /\ received' = received /\ 0 \in 0 .. BodyLength(p)
    BY <1>1, <1>3, FromStarted
  <2> QED BY <2>1 DEF OnTrack
<1>4. ASSUME NEW k \in 0 .. BodyLength(p), Between(p, k), k # BodyLength(p)
      PROVE  OnTrack(p)' /\ received' = received
  <2>1. k \in 0 .. BodyLength(p) - 1 /\ k + 1 \in 0 .. BodyLength(p)
    BY <1>1, <1>4
  <2>2. (Inside(p, k)' \/ Between(p, k + 1)') /\ received' = received
    BY <1>4, <2>1, FromBetween
  <2> QED BY <2>1, <2>2 DEF OnTrack
<1>5. CASE Between(p, BodyLength(p))
  BY <1>5, FromLast
<1>6. ASSUME NEW k \in 0 .. BodyLength(p) - 1, Inside(p, k)
      PROVE  OnTrack(p)' /\ received' = received
  <2>1. k + 1 \in 0 .. BodyLength(p)
    BY <1>1
  <2>2. Between(p, k + 1)' /\ received' = received
    BY <1>6, FromInside
  <2> QED BY <2>1, <2>2 DEF OnTrack
<1> QED BY <1>2, <1>3, <1>4, <1>5, <1>6 DEF OnTrack

-----------------------------------------------------------------------------
(***************************************************************************)
(* What the line may have cost.  `done' stands for the packets whose       *)
(* frames have been put on the line, as the application should get them:   *)
(* p is the packet of the last frame.                                      *)
(***************************************************************************)
Delivered ==
  {d \in [length : 0 .. MAX_PAYLOAD_SIZE, address : Address, msg_type : Byte,
          payload : Arrays(MAX_PAYLOAD_SIZE)] : Complete(d)}

LineTypes ==
  /\ faults \in 0 .. MaxFaults
  /\ line \in Seq(Byte) /\ received \in Seq(Delivered)

\* What the faults so far may cost, less what has been lost.
Credit(done) == Len(received) + 2 * faults - Len(done)

Track(p) == Encodable(p) /\ OnTrack(p)

\* An escape that is pending when the line falls silent costs the next frame.
Silent(done) == Credit(done) >= 0 /\ (decoder.escape_next => Credit(done) >= 1)

\* The frame on the line will be delivered, or it is paid for already, once
\* what its END leaves behind is: no escape, or one that is paid for, too.
Busy(p, done) ==
  \/ Track(p) /\ HeaderOK(p.payload, p.length) /\ Credit(done) >= -1
  \/ Credit(done) >= 0 /\ line[Len(line)] = END_BYTE
  \/ Credit(done) >= 1

Costs(p, done) == IF line = <<>> THEN Silent(done) ELSE Busy(p, done)

\* Without a fault, all that was sent has arrived or is arriving.
Faultless(p, done) ==
  faults = 0 =>
    IF line = <<>> THEN received = done /\ ~decoder.escape_next
                   ELSE Track(p) /\ done = Arrived(received, p)

LineInv(p, done) == IInv /\ LineTypes /\ Costs(p, done) /\ Faultless(p, done)

\* What is reported OK is complete: its length was limited, its payload was
\* counted and its header was read.
LEMMA DeliveredType ==
  ASSUME IInv, IInv', Receive, result' = "OK"
  PROVE  DeliveredPacket' \in Delivered
<1> DEFINE n == packet.length
           f == packet.payload
<1>1. Accept(Head(line))
  BY DEF Receive, DecodeByte, Start, Escape, Ignore, RejectLength, Length, AddressByte,
     PayloadByte, CrcHigh, CrcLow, MissingEnd, BadCrc, BadHeader, Finish
<1>2. /\ decoder.state = "END" /\ HeaderOK(f, n)
      /\ packet' = [packet EXCEPT !.msg_type = HeaderType(f, n)]
  BY <1>1 DEF Accept, Ends, Reaches
<1>3. /\ packet \in PacketRecords /\ packet' \in PacketRecords
      /\ DOMAIN f = 0 .. n - 1 /\ n <= MAX_PAYLOAD_SIZE
  BY <1>2 DEF IInv, TypeOK, Position
<1>4. /\ packet'.length = n /\ packet'.address = packet.address
      /\ packet'.payload = f /\ packet'.msg_type = HeaderType(f, n)
  BY <1>2, <1>3 DEF PacketRecords
<1>5. n \in 0 .. MAX_PAYLOAD_SIZE /\ f \in Arrays(MAX_PAYLOAD_SIZE)
  BY <1>3, Numbers DEF PacketRecords, Byte
<1>6. f \in [0 .. n - 1 -> Byte]
  <2>1. MAX_PAYLOAD_SIZE \in Nat
    BY Numbers
  <2> HIDE DEF f
  <2>2. PICK m \in 0 .. MAX_PAYLOAD_SIZE : f \in [0 .. m - 1 -> Byte]
    BY <1>5, <2>1, ArrayElements
  <2> QED BY <1>3, <2>2
<1>7. DeliveredPacket' = [length |-> n, address |-> packet.address,
                          msg_type |-> HeaderType(f, n), payload |-> f]
  BY <1>4 DEF DeliveredPacket
<1>8. HeaderType(f, n) \in Byte /\ packet.address \in Address
  BY <1>3, <1>4 DEF PacketRecords
<1> QED BY <1>2, <1>5, <1>6, <1>7, <1>8 DEF Delivered, Complete

\* What an Append of received adds up to.
LEMMA OneMore ==
  ASSUME NEW s \in Seq(Delivered), NEW d \in Delivered
  PROVE  /\ Append(s, d) \in Seq(Delivered) /\ Len(Append(s, d)) = Len(s) + 1
         /\ Append(s, d)[Len(s) + 1] = d
         /\ \A k \in 1 .. Len(s) : Append(s, d)[k] = s[k]
BY AppendProperties

LEMMA ArrivedType ==
  ASSUME NEW p, Encodable(p), NEW s \in Seq(Delivered)
  PROVE  /\ HeaderOK(p.payload, p.length) =>
              AsDelivered(p) \in Delivered /\ Arrived(s, p) = Append(s, AsDelivered(p))
         /\ ~HeaderOK(p.payload, p.length) => Arrived(s, p) = s
         /\ Arrived(s, p) \in Seq(Delivered)
         /\ Len(Arrived(s, p)) =
              IF HeaderOK(p.payload, p.length) THEN Len(s) + 1 ELSE Len(s)
<1> DEFINE payload == [k \in 0 .. p.length - 1 |-> p.payload[k]]
<1>1. /\ p.length \in Nat /\ p.length \in Byte /\ p.length <= MAX_PAYLOAD_SIZE
      /\ p.address \in Address /\ \A k \in 0 .. p.length - 1 : p.payload[k] \in Byte
      /\ MAX_PAYLOAD_SIZE \in Nat
  BY FieldBytes, Numbers DEF Address
<1>2. ASSUME HeaderOK(p.payload, p.length) PROVE AsDelivered(p) \in Delivered
  <2>1. payload \in [0 .. p.length - 1 -> Byte]
    BY <1>1
  <2>2. payload \in Arrays(MAX_PAYLOAD_SIZE)
    BY <1>1, <2>1 DEF Arrays
  <2>3. HeaderType(payload, p.length) \in Byte
    <3>1. p.length >= 2 /\ (p.length >= 3 \/ ShortHeader(payload, p.length))
      BY <1>1, <1>2 DEF HeaderOK, ShortHeader, LongHeader
    <3>2. 1 \in 0 .. p.length - 1 /\ (p.length >= 3 => 2 \in 0 .. p.length - 1)
      BY <1>1, <3>1
    <3>3. payload[1] \in Byte /\ (p.length >= 3 => payload[2] \in Byte)
      BY <2>1, <3>2
    <3> HIDE DEF payload
    <3> QED BY <3>1, <3>3 DEF HeaderType
  <2> HIDE DEF payload
  <2>4. AsDelivered(p) = [length |-> p.length, address |-> p.address,
                          msg_type |-> HeaderType(payload, p.length),
                          payload |-> payload]
    BY DEF AsDelivered, payload
  <2>5. HeaderOK(payload, p.length)
    <3>1. \A k \in 0 .. p.length - 1 : payload[k] = p.payload[k]
      BY DEF payload
    <3> HIDE DEF payload
    <3> QED BY <1>1, <1>2, <3>1 DEF HeaderOK, ShortHeader, LongHeader
  <2>6. p.length \in 0 .. MAX_PAYLOAD_SIZE
    BY <1>1
  <2> QED BY <1>1, <2>1, <2>2, <2>3, <2>4, <2>5, <2>6 DEF Delivered, Complete
<1>3. CASE HeaderOK(p.payload, p.length)
  BY <1>2, <1>3, OneMore DEF Arrived
<1>4. CASE ~HeaderOK(p.payload, p.length)
  BY <1>4 DEF Arrived
<1> QED BY <1>3, <1>4

LEMMA InitLine == LineInit => \A p : LineInv(p, <<>>)
<1> SUFFICES ASSUME LineInit, NEW p PROVE LineInv(p, <<>>)
  OBVIOUS
<1>1. /\ Init /\ line = <<>> /\ faults = 0 /\ received = <<>>
      /\ ~decoder.escape_next
  BY DEF LineInit, Init
<1>2. IInv
  BY <1>1, InitIInv
<1>3. LineTypes
  <2>1. MaxFaults \in Nat
    BY MoreNumbers
  <2>2. line \in Seq(Byte) /\ received \in Seq(Delivered)
    BY <1>1
  <2> QED BY <1>1, <2>1, <2>2 DEF LineTypes
<1>4. Len(received) = 0 /\ Len(<<>>) = 0
  BY <1>1
<1>5. Costs(p, <<>>)
  BY <1>1, <1>4 DEF Costs, Silent, Credit
<1>6. Faultless(p, <<>>)
  BY <1>1 DEF Faultless
<1> QED BY <1>2, <1>3, <1>5, <1>6 DEF LineInv

\* A frame is put on a line that is silent.
LEMMA PutStep ==
  ASSUME NEW q, NEW done \in Seq(Delivered), LineInv(q, done),
         NEW p, Encodable(p), PutOnLine(EncodedFrame(p))
  PROVE  LineInv(p, Arrived(done, p))'
<1> DEFINE f == EncodedFrame(p)
           all == Arrived(done, p)
           ok == HeaderOK(p.payload, p.length)
<1>1. /\ IInv /\ LineTypes /\ Silent(done) /\ Faultless(q, done)
      /\ line = <<>> /\ line' = f
      /\ vars' = vars /\ faults' = faults /\ received' = received
  BY DEF LineInv, Costs, PutOnLine
<1>2. f \in Seq(Byte) /\ f # <<>> /\ f[Len(f)] = END_BYTE /\ f = Rest(p, 0)
  <2> DEFINE r == Len(FlattenSeq(StuffedParts(p)))
  <2>1. /\ f \in Seq(Byte) /\ f[Len(f)] = END_BYTE /\ Len(f) = 3 + r /\ r \in Nat
    BY FrameEnds, PartsShape, FlattenType
  <2> HIDE DEF f, r
  <2>2. f = [j \in 1 .. Len(f) |-> f[j]]
    BY <2>1
  <2>3. Len(f) - 0 = Len(f) /\ \A j \in 1 .. Len(f) : 0 + j = j
    BY <2>1
  <2>4. f = [j \in 1 .. Len(f) - 0 |-> f[0 + j]]
    BY <2>2, <2>3
  <2>5. f # <<>>
    BY <2>1
  <2> QED BY <2>1, <2>4, <2>5 DEF Rest, f
<1>3. /\ decoder' = decoder /\ packet' = packet /\ result' = result
  BY <1>1 DEF vars
<1>4. IInv'
  BY <1>1, StepIInv
<1>5. LineTypes'
  BY <1>1, <1>2 DEF LineTypes
<1>6. ~decoder.escape_next => Track(p)'
  <2> SUFFICES ASSUME ~decoder.escape_next PROVE Track(p)'
    OBVIOUS
  <2>1. Waiting(p)'
    BY <1>1, <1>2, <1>3 DEF Waiting
  <2> QED BY <2>1 DEF OnTrack, Track
<1>7. /\ all \in Seq(Delivered) /\ Len(done) \in Nat
      /\ Len(all) = IF ok THEN Len(done) + 1 ELSE Len(done)
  BY ArrivedType
<1>8. /\ Credit(done) \in Int
      /\ Credit(all)' = IF ok THEN Credit(done) - 1 ELSE Credit(done)
  <2> DEFINE n == Len(received)
             m == Len(done)
             a == Len(all)
  <2>1. /\ Credit(done) = n + 2 * faults - m
        /\ Credit(all)' = n + 2 * faults - a
    BY <1>1 DEF Credit
  <2>2. n \in Nat /\ faults \in Nat /\ m \in Nat /\ a = IF ok THEN m + 1 ELSE m
    BY <1>1, <1>7, MoreNumbers DEF LineTypes
  <2> HIDE DEF n, m, a, ok, all
  <2> QED BY <2>1, <2>2
<1> HIDE DEF all
<1>9. Busy(p, all)'
  <2>1. CASE ~ok
    <3>1. Credit(all)' >= 0
      BY <1>1, <1>8, <2>1 DEF Silent
    <3> QED BY <1>1, <1>2, <3>1 DEF Busy
  <2>2. CASE ok /\ decoder.escape_next
    <3>1. Credit(done) >= 1
      BY <1>1, <2>2 DEF Silent
    <3>2. Credit(all)' >= 0
      BY <1>8, <2>2, <3>1
    <3> QED BY <1>1, <1>2, <3>2 DEF Busy
  <2>3. CASE ok /\ ~decoder.escape_next
    <3>1. Credit(done) >= 0
      BY <1>1 DEF Silent
    <3>2. Credit(all)' >= -1
      BY <1>8, <2>3, <3>1
    <3> QED BY <1>6, <2>3, <3>2 DEF Busy
  <2> QED BY <2>1, <2>2, <2>3
<1>10. Costs(p, all)'
  BY <1>1, <1>2, <1>9 DEF Costs
<1>11. Faultless(p, all)'
  <2> SUFFICES ASSUME faults = 0 PROVE Track(p)' /\ all = Arrived(received', p)
    BY <1>1, <1>2 DEF Faultless
  <2>1. received = done /\ ~decoder.escape_next
    BY <1>1 DEF Faultless
  <2> QED BY <1>1, <1>6, <2>1 DEF all
<1> QED BY <1>4, <1>5, <1>10, <1>11 DEF LineInv, all

\* A frame that is on track stays on it until it has arrived.
LEMMA TrackReceive ==
  ASSUME NEW p, Track(p), IInv, IInv', Receive
  PROVE  \/ Track(p)' /\ line' # <<>> /\ received' = received
         \/ line' = <<>> /\ ~decoder'.escape_next /\ received' = Arrived(received, p)
<1>1. Encodable(p) /\ OnTrack(p)
  BY DEF Track
<1>2. \/ OnTrack(p)' /\ received' = received
      \/ line' = <<>> /\ ~decoder'.escape_next /\ received' = Arrived(received, p)
  BY <1>1, StayOnTrack
<1>3. CASE OnTrack(p)' /\ received' = received
  <2>1. line' # <<>>
    BY <1>1, <1>3, TrackPlaces DEF OnTrack, Waiting, Started, Between, Inside
  <2> QED BY <1>1, <1>3, <2>1 DEF Track
<1> QED BY <1>2, <1>3

\* A byte arrives.
LEMMA ReceiveStep ==
  ASSUME NEW p, NEW done \in Seq(Delivered), LineInv(p, done), Receive
  PROVE  LineInv(p, done)'
<1> DEFINE d == DeliveredPacket'
           n == Len(received)
           ok == HeaderOK(p.payload, p.length)
<1>1. /\ IInv /\ LineTypes /\ Busy(p, done) /\ Faultless(p, done) /\ line # <<>>
      /\ DecodeByte(Head(line)) /\ line' = Tail(line) /\ faults' = faults
      /\ received' = IF result' = "OK" THEN Append(received, d) ELSE received
  BY DEF LineInv, Receive, Costs
<1>2. /\ line \in Seq(Byte) /\ received \in Seq(Delivered)
      /\ faults \in Nat /\ n \in Nat /\ Len(done) \in Nat
  BY <1>1, MoreNumbers DEF LineTypes
<1>3. /\ Head(line) \in Byte /\ Tail(line) \in Seq(Byte)
      /\ Len(line) \in Nat /\ Len(line) >= 1 /\ Head(line) = line[1]
      /\ Len(Tail(line)) = Len(line) - 1
      /\ \A j \in 1 .. Len(line) - 1 : Tail(line)[j] = line[j + 1]
  BY <1>1, <1>2
<1>4. Head(line) \in RxBytes
  BY <1>3, MoreNumbers
<1>5. IInv'
  BY <1>1, <1>4, StepIInv DEF Next
<1>6. Receiver!Hear(Head(line))
  BY <1>1, <1>4, <1>5, DecodeRefines
<1>7. /\ received' \in Seq(Delivered) /\ Len(received') \in {n, n + 1}
  <2>1. result' = "OK" => d \in Delivered
    BY <1>1, <1>5, DeliveredType
  <2> HIDE DEF d
  <2> QED BY <1>1, <1>2, <2>1, OneMore
<1>8. LineTypes'
  BY <1>1, <1>2, <1>3, <1>7 DEF LineTypes
<1>9. /\ Credit(done) \in Int /\ Credit(done)' \in {Credit(done), Credit(done) + 1}
      /\ Len(received') = n + 1 => Credit(done)' = Credit(done) + 1
  <2> DEFINE m == Len(done)
  <2>1. Credit(done) = n + 2 * faults - m /\ Credit(done)' = Len(received') + 2 * faults - m
    BY <1>1 DEF Credit
  <2>2. m \in Nat /\ faults \in Nat /\ n \in Nat /\ Len(received') \in {n, n + 1}
    BY <1>2, <1>7
  <2> HIDE DEF n, m
  <2> QED BY <2>1, <2>2
<1>10. ASSUME Track(p)
       PROVE  \/ Track(p)' /\ line' # <<>> /\ received' = received
              \/ /\ line' = <<>> /\ ~decoder'.escape_next
                 /\ received' = Arrived(received, p)
                 /\ ok => Len(received') = n + 1
  <2>1. Encodable(p)
    BY <1>10 DEF Track
  <2>2. Len(Arrived(received, p)) = IF ok THEN n + 1 ELSE n
    BY <1>2, <2>1, ArrivedType
  <2> HIDE DEF n, ok
  <2> QED BY <1>1, <1>5, <1>10, <2>2, TrackReceive
<1>11. Costs(p, done)'
  <2>1. CASE Track(p) /\ ok /\ Credit(done) >= -1
    <3>1. CASE Track(p)' /\ line' # <<>> /\ received' = received
      <4>1. Credit(done)' >= -1
        BY <1>9, <2>1
      <4> QED BY <2>1, <3>1, <4>1 DEF Costs, Busy
    <3>2. CASE /\ line' = <<>> /\ ~decoder'.escape_next /\ Len(received') = n + 1
      <4>1. Credit(done)' >= 0
        BY <1>9, <2>1, <3>2
      <4> QED BY <3>2, <4>1 DEF Costs, Silent
    <3> QED BY <1>10, <2>1, <3>1, <3>2
  <2>2. CASE Credit(done) >= 0 /\ line[Len(line)] = END_BYTE
    <3>1. Credit(done)' >= 0
      BY <1>9, <2>2
    <3>2. CASE line' = <<>>
      <4>1. Len(line) = 1
        <5>1. Tail(line) = <<>>
          BY <1>1, <3>2
        <5>2. Len(Tail(line)) = 0
          BY <1>3, <5>1, EmptySeq
        <5>3. Len(Tail(line)) = Len(line) - 1 /\ Len(line) \in Nat
          BY <1>3
        <5> QED BY <5>2, <5>3
      <4>2. Head(line) = END_BYTE
        BY <1>3, <2>2, <4>1
      <4>3. decoder'.escape_next \in BOOLEAN
        BY <1>5 DEF IInv, TypeOK, DecoderRecords
      <4>4. ~decoder'.escape_next
        BY <1>6, <4>2, <4>3, EndSettles
      <4> QED BY <3>1, <3>2, <4>4 DEF Costs, Silent
    <3>3. CASE line' # <<>>
      <4>1. Len(line') >= 1 /\ Len(line') \in Nat /\ Len(line') = Len(line) - 1
        BY <1>1, <1>3, <3>3, EmptySeq
      <4>2. Len(line') \in 1 .. Len(line) - 1 /\ Len(line') + 1 = Len(line)
        BY <1>3, <4>1
      <4>3. line'[Len(line')] = END_BYTE
        BY <1>1, <1>3, <2>2, <4>2
      <4> QED BY <3>1, <3>3, <4>3 DEF Costs, Busy
    <3> QED BY <3>2, <3>3
  <2>3. CASE Credit(done) >= 1
    <3>1. Credit(done)' >= 1
      BY <1>9, <2>3
    <3>2. Credit(done)' >= 0
      BY <1>9, <3>1
    <3> QED BY <3>1, <3>2 DEF Costs, Silent, Busy
  <2> QED BY <1>1, <2>1, <2>2, <2>3 DEF Busy
<1>12. Faultless(p, done)'
  BY <1>1, <1>10 DEF Faultless
<1> QED BY <1>5, <1>8, <1>11, <1>12 DEF LineInv

\* A reset after an error: what has been heard of a frame that is on track was
\* no error.
LEMMA ResetErrorStep ==
  ASSUME NEW p, NEW done, LineInv(p, done), ResetAfterError
  PROVE  LineInv(p, done)'
<1>1. /\ IInv /\ LineTypes /\ Costs(p, done) /\ Faultless(p, done)
      /\ ResetDecoder /\ result # "INCOMPLETE"
      /\ line' = line /\ faults' = faults /\ received' = received
  BY DEF LineInv, ResetAfterError
<1>2. IInv'
  BY <1>1, ResetStep
<1>3. ~decoder'.escape_next
  BY <1>1 DEF ResetDecoder
<1>4. LineTypes' /\ Credit(done)' = Credit(done)
  BY <1>1 DEF LineTypes, Credit
<1>5. Track(p) => Track(p)'
  <2> SUFFICES ASSUME Encodable(p), OnTrack(p) PROVE OnTrack(p)'
    BY DEF Track
  <2>1. Waiting(p)
    BY <1>1 DEF OnTrack, Started, Between, Inside
  <2>2. Waiting(p)'
    BY <1>1, <1>3, <2>1 DEF Waiting
  <2> QED BY <2>2 DEF OnTrack
<1>6. Costs(p, done)'
  BY <1>1, <1>3, <1>4, <1>5 DEF Costs, Silent, Busy
<1>7. Faultless(p, done)'
  BY <1>1, <1>3, <1>5 DEF Faultless
<1> QED BY <1>2, <1>4, <1>6, <1>7 DEF LineInv

\* A fault pays for two messages, more than it can cost.
LEMMA FaultStep ==
  ASSUME NEW p, NEW done \in Seq(Delivered), LineInv(p, done),
         LoseByte \/ CorruptByte \/ DuplicateByte \/ InsertByte \/ Restart
  PROVE  LineInv(p, done)'
<1>1. /\ IInv /\ LineTypes /\ Costs(p, done)
      /\ faults < MaxFaults /\ faults' = faults + 1 /\ received' = received
      /\ vars' = vars \/ ResetDecoder
  BY DEF LineInv, Fault, LoseByte, CorruptByte, DuplicateByte, InsertByte, Restart
<1>2. IInv'
  BY <1>1, StepIInv DEF Next
<1>3. /\ line \in Seq(Byte) /\ received \in Seq(Delivered) /\ faults \in Nat
      /\ Len(done) \in Nat /\ faults' \in 0 .. MaxFaults
  BY <1>1, MoreNumbers DEF LineTypes
<1>4. line' \in Seq(Byte)
  <2>1. /\ line # <<>> => Head(line) \in Byte /\ Tail(line) \in Seq(Byte)
        /\ \A b \in Noise : b \in Byte
    BY <1>3, MoreNumbers
  <2>2. CASE LoseByte \/ Restart
    BY <1>3, <2>1, <2>2 DEF LoseByte, Restart
  <2>3. CASE CorruptByte \/ DuplicateByte \/ InsertByte
    <3>1. PICK b \in Byte, s \in Seq(Byte) : line' = <<b>> \o s
      BY <1>3, <2>1, <2>3 DEF CorruptByte, DuplicateByte, InsertByte
    <3>2. <<b>> \in Seq(Byte)
      OBVIOUS
    <3> QED BY <3>1, <3>2, ConcatProperties
  <2> QED BY <2>2, <2>3
<1>5. LineTypes'
  BY <1>1, <1>3, <1>4 DEF LineTypes
<1>6. Credit(done) >= -1 /\ Credit(done) \in Int
  <2>1. Credit(done) \in Int
    BY <1>3 DEF Credit
  <2> QED BY <1>1, <2>1 DEF Costs, Silent, Busy
<1>7. Credit(done)' = Credit(done) + 2
  <2> DEFINE n == Len(received)
             m == Len(done)
  <2>1. /\ Credit(done) = n + 2 * faults - m
        /\ Credit(done)' = n + 2 * (faults + 1) - m
    BY <1>1 DEF Credit
  <2>2. n \in Nat /\ m \in Nat
    BY <1>3
  <2> HIDE DEF n, m
  <2> QED BY <1>3, <2>1, <2>2
<1>8. Credit(done)' >= 1 /\ Credit(done)' >= 0
  BY <1>6, <1>7
<1>9. Costs(p, done)'
  BY <1>8 DEF Costs, Silent, Busy
<1>10. Faultless(p, done)'
  <2>1. faults' # 0
    BY <1>1, <1>3
  <2> QED BY <2>1 DEF Faultless
<1> QED BY <1>2, <1>5, <1>9, <1>10 DEF LineInv

\* Whatever the line does, and if it does nothing.
LEMMA LineKeeps ==
  ASSUME NEW p, NEW done \in Seq(Delivered), LineInv(p, done),
         LineStep \/ UNCHANGED lineVars
  PROVE  LineInv(p, done)'
<1>1. CASE Receive
  BY <1>1, ReceiveStep
<1>2. CASE ResetAfterError
  BY <1>2, ResetErrorStep
<1>3. CASE LoseByte \/ CorruptByte \/ DuplicateByte \/ InsertByte \/ Restart
  BY <1>3, FaultStep
<1>4. CASE UNCHANGED lineVars
  <2>1. /\ decoder' = decoder /\ packet' = packet /\ result' = result
        /\ line' = line /\ faults' = faults /\ received' = received
    BY <1>4 DEF lineVars, vars
  <2>2. IInv'
    BY <2>1, StepIInv DEF LineInv, vars
  <2>3. Collected' = Collected
    BY <2>1 DEF Collected, CollectedCrc
  <2>4. Track(p)' = Track(p)
    BY <2>1, <2>3 DEF Track, OnTrack, Waiting, Started, Between, Inside, Heard
  <2>5. LineTypes' /\ Costs(p, done)' /\ Faultless(p, done)'
    BY <2>1, <2>4 DEF LineInv, LineTypes, Costs, Silent, Busy, Credit, Faultless
  <2> QED BY <2>2, <2>5 DEF LineInv
<1> QED BY <1>1, <1>2, <1>3, <1>4 DEF LineStep

-----------------------------------------------------------------------------
(***************************************************************************)
(* The invariant of the link: what has been done is to send Messages.      *)
(***************************************************************************)
LinkState(p, done) ==
  /\ done \in Seq(Delivered) /\ Len(done) = sent
  /\ \A k \in 1 .. sent : done[k] = AsDelivered(Messages[k])
  /\ line # <<>> => HeaderOK(p.payload, p.length) \/ faults # 0
  /\ LineInv(p, done)

LinkInv == sent \in 0 .. Len(Messages) /\ \E p, done : LinkState(p, done)

LEMMA MessageSendable ==
  ASSUME NEW m \in DOMAIN Messages
  PROVE  Encodable(Messages[m]) /\ HeaderOK(Messages[m].payload, Messages[m].length)
BY LinkAssumption DEF Sendable

LEMMA InitLinkInv == LinkInit => LinkInv
<1> SUFFICES ASSUME LinkInit PROVE LinkInv
  OBVIOUS
<1>1. LineInit /\ sent = 0 /\ line = <<>>
  BY DEF LinkInit, LineInit
<1>2. Len(Messages) \in Nat
  BY LinkAssumption
<1>3. <<>> \in Seq(Delivered) /\ Len(<<>>) = 0
  OBVIOUS
<1>4. LineInv(0, <<>>)
  BY <1>1, InitLine
<1>5. LinkState(0, <<>>)
  BY <1>1, <1>3, <1>4 DEF LinkState
<1> QED BY <1>1, <1>2, <1>5 DEF LinkInv

\* A frame is put on a line that is silent.
LEMMA SendStep == LinkInv /\ SendFrame => LinkInv'
<1> SUFFICES ASSUME LinkInv, SendFrame PROVE LinkInv'
  OBVIOUS
<1>1. PICK m, p : m = sent + 1 /\ p = Messages[m]
  OBVIOUS
<1>2. /\ sent < Len(Messages) /\ sent' = m /\ PutOnLine(Frames[m])
      /\ sent \in 0 .. Len(Messages) /\ Len(Messages) \in Nat
      /\ DOMAIN Messages = 1 .. Len(Messages)
  BY <1>1, LinkAssumption DEF LinkInv, SendFrame
<1>3. m \in DOMAIN Messages /\ m \in 0 .. Len(Messages) /\ sent \in Nat
  BY <1>1, <1>2
<1>4. Encodable(p) /\ HeaderOK(p.payload, p.length)
  BY <1>1, <1>3, MessageSendable
<1>5. PutOnLine(EncodedFrame(p))
  BY <1>1, <1>2, <1>3 DEF Frames
<1>6. PICK q, done : LinkState(q, done)
  BY DEF LinkInv
<1> DEFINE d == AsDelivered(p)
<1>7. PICK all : all = Append(done, d)
  OBVIOUS
<1>8. /\ done \in Seq(Delivered) /\ Len(done) = sent /\ LineInv(q, done)
      /\ \A k \in 1 .. sent : done[k] = AsDelivered(Messages[k])
  BY <1>6 DEF LinkState
<1>9. d \in Delivered /\ Arrived(done, p) = all
  BY <1>4, <1>8, <1>7, ArrivedType
<1>10. LineInv(p, all)'
  BY <1>4, <1>5, <1>8, <1>9, PutStep
<1>11. d = AsDelivered(Messages[m])
  BY <1>1
<1> HIDE DEF d
<1>12. /\ all \in Seq(Delivered) /\ Len(all) = m
       /\ all[m] = d /\ \A k \in 1 .. sent : all[k] = done[k]
  BY <1>1, <1>8, <1>9, <1>7, OneMore
<1>13. \A k \in 1 .. m : all[k] = AsDelivered(Messages[k])
  <2> SUFFICES ASSUME NEW k \in 1 .. m PROVE all[k] = AsDelivered(Messages[k])
    OBVIOUS
  <2>1. k \in 1 .. sent \/ k = m
    BY <1>1, <1>3
  <2> QED BY <1>8, <1>11, <1>12, <2>1
<1>14. LinkState(p, all)'
  BY <1>2, <1>4, <1>10, <1>12, <1>13 DEF LinkState
<1> QED BY <1>2, <1>3, <1>14 DEF LinkInv

LEMMA LineStepKeeps ==
  LinkInv /\ (LineStep \/ UNCHANGED lineVars) /\ sent' = sent => LinkInv'
<1> SUFFICES ASSUME LinkInv, LineStep \/ UNCHANGED lineVars, sent' = sent
             PROVE  LinkInv'
  OBVIOUS
<1>1. PICK p, done : LinkState(p, done)
  BY DEF LinkInv
<1>2. LineInv(p, done)'
  BY <1>1, LineKeeps DEF LinkState
<1>3. (line # <<>> => HeaderOK(p.payload, p.length) \/ faults # 0)'
  <2> SUFFICES ASSUME line' # <<>>, faults' = 0
               PROVE  HeaderOK(p.payload, p.length)
    OBVIOUS
  <2>1. faults \in Nat
    BY <1>1, MoreNumbers DEF LinkState, LineInv, LineTypes
  <2>2. faults = 0
    BY <2>1 DEF LineStep, Receive, ResetAfterError, LoseByte, CorruptByte, DuplicateByte,
       InsertByte, Restart, Fault, lineVars
  <2>3. line # <<>>
    BY <2>1 DEF LineStep, Receive, ResetAfterError, LoseByte, CorruptByte, DuplicateByte,
       InsertByte, Restart, Fault, lineVars
  <2> QED BY <1>1, <2>2, <2>3 DEF LinkState
<1>4. LinkState(p, done)'
  BY <1>1, <1>2, <1>3 DEF LinkState
<1> QED BY <1>4 DEF LinkInv

LEMMA StepLinkInv == LinkInv /\ [LinkNext]_linkVars => LinkInv'
<1> SUFFICES ASSUME LinkInv, [LinkNext]_linkVars PROVE LinkInv'
  OBVIOUS
<1>1. CASE SendFrame
  BY <1>1, SendStep
<1>2. CASE LineStep /\ UNCHANGED sent
  BY <1>2, LineStepKeeps
<1>3. CASE UNCHANGED linkVars
  BY <1>3, LineStepKeeps DEF linkVars
<1> QED BY <1>1, <1>2, <1>3 DEF LinkNext

-----------------------------------------------------------------------------
(***************************************************************************)
(* The theorems.                                                           *)
(***************************************************************************)

\* The invariant holds whatever the line does.
THEOREM LinkInvariance == LinkSpec => []LinkInv
BY InitLinkInv, StepLinkInv, PTL DEF LinkSpec

\* A packet that fusain_decode_byte reports OK is complete, however its bytes
\* came to be on the line: it has the payload bytes that its length announces,
\* at most MAX_PAYLOAD_SIZE of them, and msg_type is what its header says.
THEOREM LinkTypeCorrect == LinkSpec => []LinkTypeOK
<1>1. LinkInv => LinkTypeOK
  <2> SUFFICES ASSUME LinkInv PROVE LinkTypeOK
    OBVIOUS
  <2>1. LineTypes /\ sent \in 0 .. Len(Messages)
    BY DEF LinkInv, LinkState, LineInv
  <2>2. \A k \in DOMAIN received : received[k] \in Delivered
    BY <2>1 DEF LineTypes
  <2>3. \A k \in DOMAIN received : Complete(received[k])
    BY <2>2 DEF Delivered
  <2> QED BY <2>1, <2>3 DEF LineTypes, LinkTypeOK
<1> QED BY <1>1, LinkInvariance, PTL

\* The decoder at the end of a line is the decoder of Decoder: an application
\* that resets it, a receiver that restarts and a line that may lose, corrupt,
\* double and insert bytes make it do nothing that its specification does not
\* allow.  So it implements FrameReceiver here, too, and stays in its bounds.
THEOREM DecoderOnTheLine == LinkSpec => Spec /\ []StoresInBounds /\ Refinement
<1>1. LinkInit => Init
  BY DEF LinkInit, LineInit
<1>2. LinkInv /\ [LinkNext]_linkVars => [Next]_vars
  <2> SUFFICES ASSUME LinkInv, [LinkNext]_linkVars PROVE [Next]_vars
    OBVIOUS
  <2>1. CASE Receive
    <3>1. line \in Seq(Byte) /\ line # <<>> /\ DecodeByte(Head(line))
      BY <2>1 DEF LinkInv, LinkState, LineInv, LineTypes, Receive
    <3>2. Head(line) \in RxBytes
      BY <3>1, MoreNumbers
    <3> QED BY <3>1, <3>2 DEF Next
  <2>2. CASE ResetAfterError \/ Restart
    BY <2>2 DEF ResetAfterError, Restart, Next
  <2>3. CASE SendFrame \/ LoseByte \/ CorruptByte \/ DuplicateByte \/ InsertByte
    BY <2>3 DEF SendFrame, PutOnLine, LoseByte, CorruptByte, DuplicateByte, InsertByte
  <2>4. CASE UNCHANGED linkVars
    BY <2>4 DEF linkVars, lineVars
  <2> QED BY <2>1, <2>2, <2>3, <2>4 DEF LinkNext, LineStep
<1>3. LinkSpec => Spec
  BY <1>1, <1>2, LinkInvariance, PTL DEF LinkSpec, Spec
<1> QED BY <1>3, NoStoreOutOfBounds, Implements, PTL

\* A fault of the line costs at most two messages, however many faults there
\* are, wherever they fall and whatever the CRC misses: once the line is silent
\* all the others have been delivered by fusain_decode_byte.
THEOREM LossIsBounded == LinkSpec => []LossBound
<1>1. LinkInv => LossBound
  <2> SUFFICES ASSUME LinkInv, line = <<>>
               PROVE  Len(received) + 2 * faults >= sent
    BY DEF LossBound
  <2>1. PICK p, done : LinkState(p, done)
    BY DEF LinkInv
  <2>2. LineTypes /\ Silent(done) /\ Len(done) = sent /\ sent \in 0 .. Len(Messages)
    BY <2>1 DEF LinkInv, LinkState, LineInv, Costs
  <2> DEFINE n == Len(received)
  <2>3. /\ n \in Nat /\ faults \in Nat /\ sent \in Nat
        /\ n + 2 * faults - sent >= 0
    BY <2>2, MoreNumbers, LinkAssumption DEF LineTypes, Silent, Credit
  <2> HIDE DEF n
  <2>4. n + 2 * faults >= sent
    BY <2>3
  <2> QED BY <2>4 DEF n
<1> QED BY <1>1, LinkInvariance, PTL

\* The application has what was sent, in order, and lacks at most the message on
\* the line.
ArrivesInOrder ==
  /\ Len(received) = IF line = <<>> THEN sent ELSE sent - 1
  /\ \A k \in DOMAIN received : received[k] = AsDelivered(Messages[k])

\* As long as there was no fault, what fusain_encode_packet makes of a packet
\* fusain_decode_byte turns into the same packet again, frame after frame and
\* whatever flags the packets hold.
THEOREM PerfectLine ==
  LinkSpec => [](faults = 0 => ArrivesInOrder /\ OnlySentInOrder)
<1>1. LinkInv => (faults = 0 => ArrivesInOrder /\ OnlySentInOrder)
  <2> SUFFICES ASSUME LinkInv, faults = 0
               PROVE  ArrivesInOrder /\ OnlySentInOrder
    OBVIOUS
  <2> DEFINE n == Len(received)
  <2>1. PICK p, done : LinkState(p, done)
    BY DEF LinkInv
  <2>2. /\ received \in Seq(Delivered) /\ done \in Seq(Delivered) /\ Len(done) = sent
        /\ sent \in 0 .. Len(Messages) /\ sent \in Nat /\ n \in Nat
        /\ DOMAIN received = 1 .. n /\ DOMAIN done = 1 .. sent
    BY <2>1, LinkAssumption DEF LinkInv, LinkState, LineInv, LineTypes
  <2>3. /\ n = IF line = <<>> THEN sent ELSE sent - 1
        /\ \A k \in 1 .. n : received[k] = done[k]
    <3>1. CASE line = <<>>
      BY <2>1, <2>2, <3>1 DEF LinkState, LineInv, Faultless
    <3>2. CASE line # <<>>
      <4> DEFINE d == AsDelivered(p)
      <4>1. /\ Encodable(p) /\ HeaderOK(p.payload, p.length)
            /\ done = Arrived(received, p)
        BY <2>1, <3>2 DEF LinkState, LineInv, Faultless, Track
      <4>2. d \in Delivered /\ done = Append(received, d)
        BY <2>2, <4>1, ArrivedType
      <4> HIDE DEF d, n
      <4>3. sent = n + 1 /\ \A k \in 1 .. n : done[k] = received[k]
        BY <2>2, <4>2, OneMore DEF n
      <4> QED BY <2>2, <3>2, <4>3
    <3> QED BY <3>1, <3>2
  <2> HIDE DEF n
  <2>4. n <= sent
    BY <2>2, <2>3
  <2>5. \A k \in 1 .. n : received[k] = AsDelivered(Messages[k])
    <3> SUFFICES ASSUME NEW k \in 1 .. n PROVE received[k] = AsDelivered(Messages[k])
      OBVIOUS
    <3>1. k \in 1 .. sent
      BY <2>2, <2>4
    <3> QED BY <2>1, <2>3, <3>1 DEF LinkState
  <2>6. ArrivesInOrder
    BY <2>2, <2>3, <2>5 DEF ArrivesInOrder, n
  <2>7. OnlySentInOrder
    <3> DEFINE origin == [k \in 1 .. n |-> k]
    <3>1. origin \in [1 .. n -> 1 .. sent]
      BY <2>2, <2>4
    <3>2. \A k \in 1 .. n : received[k] = AsDelivered(Messages[origin[k]])
      BY <2>5
    <3>3. \A j, k \in 1 .. n : j < k => origin[j] < origin[k]
      OBVIOUS
    <3> HIDE DEF origin
    <3> QED BY <2>2, <3>1, <3>2, <3>3 DEF OnlySentInOrder
  <2> QED BY <2>6, <2>7
<1> QED BY <1>1, LinkInvariance, PTL
=============================================================================
