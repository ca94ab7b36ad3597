--------------------------- MODULE Encoder_proofs ----------------------------
(***************************************************************************)
(* Proofs about the encoder and about the CRC that it sends.               *)
(*                                                                         *)
(* First the safety invariants of Encoder, for every wire that satisfies   *)
(* the assumptions of Wire, every packet and every size of the output      *)
(* buffer.  The inductive invariant IInv says how much of the frame is in  *)
(* the buffer at each stage: FrameUpto, the frame of the packet up to the  *)
(* byte whose turn it is.                                                  *)
(*                                                                         *)
(* Then the CRC of Crc16, for every sequence of bytes (CrcDivision).  A    *)
(* register is read as the polynomial of its bits: a turn of the inner     *)
(* loop is a multiplication by x (ShiftBitBits), which is what one step of *)
(* the long division does (TurnReduces), and a byte is added to the upper  *)
(* half (MixBits), so that register and remainder stay the same.           *)
(***************************************************************************)
EXTENDS DataLemmas, Encoder, CrcDivision

-----------------------------------------------------------------------------
\* The constants as the arithmetic of the steps needs them.
LEMMA Numbers ==
  /\ BYTE_MAX \in Nat /\ Byte = 0 .. BYTE_MAX
  /\ Radix = BYTE_MAX + 1 /\ Radix \in Nat /\ Radix > 0
  /\ ADDR_BYTES \in Nat /\ ADDR_BYTES >= 1
  /\ MAX_PAYLOAD_SIZE \in Nat /\ MAX_PAYLOAD_SIZE <= BYTE_MAX
  /\ MIN_PACKET_SIZE \in Nat /\ MIN_PACKET_SIZE >= 2
  /\ START_BYTE \in Byte /\ END_BYTE \in Byte /\ ESC_BYTE \in Byte
  /\ START_BYTE # END_BYTE /\ START_BYTE # ESC_BYTE /\ END_BYTE # ESC_BYTE
BY WireAssumption, EncoderAssumption DEF Byte, Radix, FlagBytes

\* The known part of an array as a sequence.
LEMMA PrefixIsSeq ==
  ASSUME NEW f, NEW n \in Nat, \A k \in 0 .. n - 1 : f[k] \in Byte
  PROVE  /\ Prefix(f, n) \in Seq(Byte) /\ Len(Prefix(f, n)) = n
         /\ \A k \in 1 .. n : Prefix(f, n)[k] = f[k - 1]
<1>1. Prefix(f, n) \in [1 .. n -> Byte]
  BY DEF Prefix
<1>2. Prefix(f, n) \in Seq(Byte) /\ Len(Prefix(f, n)) = n
  BY <1>1, SeqDef
<1> QED BY <1>2 DEF Prefix

\* The array f holds n bytes; g agrees with it on them.
Holds(f, n) == DOMAIN f = 0 .. n - 1 /\ \A k \in 0 .. n - 1 : f[k] \in Byte
Keeps(g, f, n) == \A k \in 0 .. n - 1 : g[k] = f[k]

\* A byte written behind the last one of an array.
LEMMA PutAppends ==
  ASSUME NEW f, NEW n \in Nat, Holds(f, n), NEW v \in Byte
  PROVE  /\ Holds(Put(f, n, v), n + 1)
         /\ Put(f, n, v)[n] = v
         /\ Keeps(Put(f, n, v), f, n)
         /\ Prefix(Put(f, n, v), n + 1) = Append(Prefix(f, n), v)
<1> DEFINE g == Put(f, n, v)
           a == Append(Prefix(f, n), v)
           s == Prefix(f, n)
           t == Prefix(g, n + 1)
<1>0. DOMAIN f = 0 .. n - 1 /\ \A k \in 0 .. n - 1 : f[k] \in Byte
  BY DEF Holds
<1>1. DOMAIN f \cup {n} = 0 .. (n + 1) - 1
  BY <1>0
<1>2. g = [j \in 0 .. (n + 1) - 1 |-> IF j = n THEN v ELSE f[j]]
  BY <1>1, Zenon DEF Put
<1>3. /\ DOMAIN g = 0 .. (n + 1) - 1
      /\ g[n] = v /\ \A k \in 0 .. n - 1 : g[k] = f[k]
      /\ \A k \in 0 .. (n + 1) - 1 : g[k] \in Byte
  BY <1>0, <1>2
<1> HIDE DEF g
<1>4. s \in Seq(Byte) /\ Len(s) = n /\ \A k \in 1 .. n : s[k] = f[k - 1]
  BY <1>0, PrefixIsSeq
<1>5. t \in Seq(Byte) /\ Len(t) = n + 1 /\ \A k \in 1 .. n + 1 : t[k] = g[k - 1]
  <2>1. n + 1 \in Nat
    OBVIOUS
  <2> QED BY <1>3, <2>1, PrefixIsSeq
<1> HIDE DEF s, t
<1>6. /\ a \in Seq(Byte) /\ Len(a) = n + 1 /\ a[n + 1] = v
      /\ \A k \in 1 .. n : a[k] = s[k]
  BY <1>4, AppendProperties DEF s
<1> HIDE DEF a
<1>7. \A k \in 1 .. n + 1 : t[k] = a[k]
  <2> SUFFICES ASSUME NEW k \in 1 .. n + 1 PROVE t[k] = a[k]
    OBVIOUS
  <2>1. CASE k = n + 1
    BY <1>3, <1>5, <1>6, <2>1
  <2>2. CASE k \in 1 .. n
    BY <1>3, <1>4, <1>5, <1>6, <2>2
  <2> QED BY <2>1, <2>2
<1>8. t = a
  BY <1>5, <1>6, <1>7, SeqEqual
<1> QED BY <1>3, <1>8 DEF t, a, g, Holds, Keeps

-----------------------------------------------------------------------------
\* The packets that pass the test of the length.
Legal(p) == p \in Packets /\ p.length <= MAX_PAYLOAD_SIZE

BodyLength(p) == ADDR_BYTES + p.length + 2

\* The bytes that are stuffed, by their place.
LEMMA BodyBytes ==
  ASSUME NEW p, Legal(p)
  PROVE  /\ p.length \in Nat /\ p.length \in Byte
         /\ Body(p) \in Seq(Byte) /\ Len(Body(p)) = BodyLength(p)
         /\ \A k \in 0 .. ADDR_BYTES - 1 : Body(p)[k + 1] = p.address[k]
         /\ \A k \in 0 .. p.length - 1 :
              Body(p)[ADDR_BYTES + k + 1] = p.payload[k]
         /\ Body(p)[ADDR_BYTES + p.length + 1] = FrameCrcHigh(p)
         /\ Body(p)[ADDR_BYTES + p.length + 2] = FrameCrcLow(p)
<1> DEFINE a == Prefix(p.address, ADDR_BYTES)
           b == Prefix(p.payload, p.length)
           h == FrameCrcHigh(p)
           l == FrameCrcLow(p)
           c == <<h, l>>
<1>1. /\ p.length \in Byte /\ p.address \in [0 .. ADDR_BYTES - 1 -> Byte]
      /\ p.payload \in [0 .. MAX_PAYLOAD_SIZE - 1 -> Byte]
      /\ p.length <= MAX_PAYLOAD_SIZE
  BY EncoderAssumption DEF Legal, PacketType, Address
<1>2. p.length \in Nat
  BY <1>1, Numbers
<1>3. \A k \in 0 .. p.length - 1 : p.payload[k] \in Byte
  BY <1>1, <1>2, Numbers
<1>4. h \in Byte /\ l \in Byte
  <2>1. Crc(CrcData(p)) \in 0 .. Radix * Radix - 1
    BY EncoderAssumption DEF Legal
  <2>2. Radix \in Nat /\ Radix > 0 /\ Byte = 0 .. Radix - 1
    BY Numbers
  <2> QED BY <2>1, <2>2, TwoDigits DEF FrameCrcHigh, FrameCrcLow
<1>5. /\ a \in Seq(Byte) /\ Len(a) = ADDR_BYTES
      /\ \A k \in 1 .. ADDR_BYTES : a[k] = p.address[k - 1]
  BY <1>1, Numbers, PrefixIsSeq
<1>6. /\ b \in Seq(Byte) /\ Len(b) = p.length
      /\ \A k \in 1 .. p.length : b[k] = p.payload[k - 1]
  BY <1>2, <1>3, PrefixIsSeq
<1>7. Body(p) = (a \o b) \o c
  BY DEF Body
<1> HIDE DEF a, b, h, l
<1>8. c \in Seq(Byte) /\ Len(c) = 2 /\ c[1] = h /\ c[2] = l
  BY <1>4
<1> HIDE DEF c
<1> DEFINE ab == a \o b
           n == ADDR_BYTES + p.length
<1>9. n \in Nat /\ ADDR_BYTES \in Nat
  BY <1>2, Numbers
<1>10. /\ ab \in Seq(Byte) /\ Len(ab) = n
       /\ \A k \in 1 .. n : ab[k] = IF k <= ADDR_BYTES THEN a[k]
                                    ELSE b[k - ADDR_BYTES]
  <2>1. /\ ab \in Seq(Byte) /\ Len(ab) = Len(a) + Len(b)
        /\ \A k \in 1 .. Len(a) + Len(b) :
             ab[k] = IF k <= Len(a) THEN a[k] ELSE b[k - Len(a)]
    BY <1>5, <1>6, ConcatProperties
  <2> QED BY <1>5, <1>6, <2>1
<1> HIDE DEF ab, n
<1>11. /\ ab \o c \in Seq(Byte) /\ Len(ab \o c) = n + 2
       /\ \A k \in 1 .. n + 2 : (ab \o c)[k] = IF k <= n THEN ab[k] ELSE c[k - n]
  <2>1. /\ ab \o c \in Seq(Byte) /\ Len(ab \o c) = Len(ab) + Len(c)
        /\ \A k \in 1 .. Len(ab) + Len(c) :
             (ab \o c)[k] = IF k <= Len(ab) THEN ab[k] ELSE c[k - Len(ab)]
    BY <1>8, <1>10, ConcatProperties
  <2> QED BY <1>8, <1>10, <2>1
<1>12. Body(p) = ab \o c
  BY <1>7 DEF ab
<1>13. Body(p) \in Seq(Byte) /\ Len(Body(p)) = BodyLength(p)
  BY <1>2, <1>9, <1>11, <1>12 DEF BodyLength, n
<1>14. \A k \in 0 .. ADDR_BYTES - 1 : Body(p)[k + 1] = p.address[k]
  BY <1>2, <1>5, <1>9, <1>10, <1>11, <1>12 DEF n
<1>15. \A k \in 0 .. p.length - 1 : Body(p)[ADDR_BYTES + k + 1] = p.payload[k]
  <2> SUFFICES ASSUME NEW k \in 0 .. p.length - 1
               PROVE  Body(p)[ADDR_BYTES + k + 1] = p.payload[k]
    OBVIOUS
  <2> DEFINE j == ADDR_BYTES + k + 1
  <2>1. /\ j \in 1 .. n /\ j \in 1 .. n + 2 /\ j > ADDR_BYTES
        /\ j - ADDR_BYTES = k + 1 /\ k + 1 \in 1 .. p.length /\ (k + 1) - 1 = k
    BY <1>2, <1>9 DEF n
  <2> HIDE DEF j
  <2>2. Body(p)[j] = ab[j]
    BY <1>9, <1>11, <1>12, <2>1
  <2>3. ab[j] = b[k + 1]
    BY <1>9, <1>10, <2>1
  <2> QED BY <1>6, <2>1, <2>2, <2>3 DEF j
<1>16. Body(p)[n + 1] = h /\ Body(p)[n + 2] = l
  <2>1. /\ n + 1 \in 1 .. n + 2 /\ n + 2 \in 1 .. n + 2
        /\ ~(n + 1 <= n) /\ ~(n + 2 <= n)
        /\ (n + 1) - n = 1 /\ (n + 2) - n = 2
    BY <1>9
  <2> QED BY <1>8, <1>11, <1>12, <2>1
<1> QED BY <1>1, <1>2, <1>13, <1>14, <1>15, <1>16 DEF h, l, n

\* A byte is sent as one byte or two, and never as START or END.
LEMMA StuffedBytes ==
  ASSUME NEW byte \in Byte
  PROVE  /\ Stuffed(byte) \in Seq(Byte) /\ Len(Stuffed(byte)) \in 1 .. 2
         /\ byte \in FlagBytes =>
              /\ Stuffed(byte) = <<ESC_BYTE, Flip(byte)>>
              /\ Len(Stuffed(byte)) = 2
         /\ byte \notin FlagBytes =>
              Stuffed(byte) = <<byte>> /\ Len(Stuffed(byte)) = 1
         /\ Flip(byte) \in Byte /\ ESC_BYTE \in Byte
         /\ ESC_BYTE \notin {START_BYTE, END_BYTE}
         /\ byte \in FlagBytes => Flip(byte) \notin {START_BYTE, END_BYTE}
         /\ byte \notin FlagBytes => byte \notin {START_BYTE, END_BYTE}
<1>1. Flip(byte) \in Byte /\ (byte \in FlagBytes => Flip(byte) \notin FlagBytes)
  BY FlipAssumption
<1>2. <<byte>> \in Seq(Byte) /\ <<ESC_BYTE, Flip(byte)>> \in Seq(Byte)
  BY <1>1, Numbers
<1>3. CASE byte \in FlagBytes
  BY <1>1, <1>2, <1>3, Numbers DEF Stuffed, FlagBytes
<1>4. CASE byte \notin FlagBytes
  BY <1>1, <1>2, <1>4, Numbers DEF Stuffed, FlagBytes
<1> QED BY <1>3, <1>4

-----------------------------------------------------------------------------
\* The first k bytes of the body, stuffed, and the frame up to there.
StuffedParts(p, k) == [m \in 1 .. k |-> Stuffed(Body(p)[m])]
StuffedUpto(p, k) == FlattenSeq(StuffedParts(p, k))
FrameUpto(p, k) == <<START_BYTE, p.length>> \o StuffedUpto(p, k)

LEMMA StuffedNext ==
  ASSUME NEW p, Legal(p), NEW k \in 0 .. BodyLength(p)
  PROVE  /\ StuffedUpto(p, k) \in Seq(Byte)
         /\ k < BodyLength(p) =>
              StuffedUpto(p, k + 1) = StuffedUpto(p, k) \o Stuffed(Body(p)[k + 1])
<1> DEFINE s == StuffedParts(p, k)
           t == StuffedParts(p, k + 1)
           x == Stuffed(Body(p)[k + 1])
<1>1. /\ BodyLength(p) \in Nat /\ k \in Nat
      /\ \A m \in 1 .. BodyLength(p) : Body(p)[m] \in Byte
  <2>1. /\ p.length \in Nat /\ Body(p) \in Seq(Byte)
        /\ Len(Body(p)) = BodyLength(p) /\ ADDR_BYTES \in Nat
    BY BodyBytes, Numbers
  <2>2. BodyLength(p) \in Nat
    BY <2>1 DEF BodyLength
  <2> QED BY <2>1, <2>2
<1>2. \A m \in 1 .. BodyLength(p) : Stuffed(Body(p)[m]) \in Seq(Byte)
  BY <1>1, StuffedBytes
<1>3. s \in [1 .. k -> Seq(Byte)]
  BY <1>1, <1>2 DEF StuffedParts
<1>4. s \in Seq(Seq(Byte)) /\ Len(s) = k
  BY <1>1, <1>3, SeqDef
<1>5. StuffedUpto(p, k) \in Seq(Byte)
  BY <1>4, FlattenType DEF StuffedUpto
<1>6. ASSUME k < BodyLength(p)
      PROVE  StuffedUpto(p, k + 1) = StuffedUpto(p, k) \o x
  <2>1. t \in [1 .. k + 1 -> Seq(Byte)] /\ k + 1 \in Nat
    BY <1>1, <1>2, <1>6 DEF StuffedParts
  <2>2. t \in Seq(Seq(Byte)) /\ Len(t) = k + 1
    BY <2>1, SeqDef
  <2>3. x \in Seq(Byte)
    BY <1>1, <1>2, <1>6
  <2>4. /\ Append(s, x) \in Seq(Seq(Byte)) /\ Len(Append(s, x)) = k + 1
        /\ \A m \in 1 .. k : Append(s, x)[m] = s[m] /\ Append(s, x)[k + 1] = x
    BY <1>4, <2>3, AppendProperties
  <2>5. \A m \in 1 .. k + 1 : t[m] = IF m = k + 1 THEN x ELSE s[m]
    BY <1>1 DEF StuffedParts
  <2> HIDE DEF s, t, x
  <2>6. Append(s, x)[k + 1] = x
    BY <1>4, <2>3, AppendProperties
  <2>7. \A m \in 1 .. k + 1 : t[m] = Append(s, x)[m]
    BY <1>1, <2>4, <2>5, <2>6
  <2>8. t = Append(s, x)
    BY <2>2, <2>4, <2>7, SeqEqual
  <2> QED BY <1>4, <2>3, <2>8, FlattenAppend DEF StuffedUpto, s, t
<1> QED BY <1>5, <1>6

LEMMA FrameNext ==
  ASSUME NEW p, Legal(p), NEW k \in 0 .. BodyLength(p)
  PROVE  /\ FrameUpto(p, k) \in Seq(Byte)
         /\ Len(FrameUpto(p, k)) = 2 + Len(StuffedUpto(p, k))
         /\ Len(StuffedUpto(p, k)) \in Nat
         /\ k < BodyLength(p) =>
              FrameUpto(p, k + 1) = FrameUpto(p, k) \o Stuffed(Body(p)[k + 1])
<1> DEFINE h == <<START_BYTE, p.length>>
           x == Stuffed(Body(p)[k + 1])
<1>1. h \in Seq(Byte) /\ Len(h) = 2
  BY BodyBytes, Numbers
<1>2. StuffedUpto(p, k) \in Seq(Byte)
  BY StuffedNext
<1> HIDE DEF h
<1>3. /\ FrameUpto(p, k) \in Seq(Byte)
      /\ Len(FrameUpto(p, k)) = 2 + Len(StuffedUpto(p, k))
  BY <1>1, <1>2, ConcatProperties DEF FrameUpto, h
<1>4. ASSUME k < BodyLength(p)
      PROVE  FrameUpto(p, k + 1) = FrameUpto(p, k) \o x
  <2>1. x \in Seq(Byte)
    <3>1. /\ Body(p) \in Seq(Byte) /\ Len(Body(p)) = BodyLength(p)
          /\ p.length \in Nat /\ ADDR_BYTES \in Nat
      BY BodyBytes, Numbers
    <3>2. k + 1 \in 1 .. Len(Body(p))
      BY <1>4, <3>1 DEF BodyLength
    <3>3. Body(p)[k + 1] \in Byte
      BY <3>1, <3>2
    <3> QED BY <3>3, StuffedBytes
  <2>2. StuffedUpto(p, k + 1) = StuffedUpto(p, k) \o x
    BY <1>4, StuffedNext
  <2> HIDE DEF x
  <2>3. h \o (StuffedUpto(p, k) \o x) = (h \o StuffedUpto(p, k)) \o x
    BY <1>1, <1>2, <2>1, ConcatAssociative
  <2> QED BY <2>2, <2>3 DEF FrameUpto, h
<1> QED BY <1>2, <1>3, <1>4

LEMMA FrameBegins ==
  ASSUME NEW p, Legal(p)
  PROVE  FrameUpto(p, 0) = <<START_BYTE, p.length>>
<1>1. StuffedParts(p, 0) = <<>>
  BY DEF StuffedParts
<1>2. StuffedUpto(p, 0) = <<>>
  BY <1>1, FlattenEmpty DEF StuffedUpto
<1>3. <<START_BYTE, p.length>> \in Seq(Byte)
  BY BodyBytes, Numbers
<1> QED BY <1>2, <1>3, ConcatEmptySeq DEF FrameUpto

LEMMA FrameEnds ==
  ASSUME NEW p, Legal(p)
  PROVE  /\ EncodedFrame(p) = FrameUpto(p, BodyLength(p)) \o <<END_BYTE>>
         /\ Len(EncodedFrame(p)) = 3 + Len(StuffedUpto(p, BodyLength(p)))
<1> DEFINE n == BodyLength(p)
<1>1. n \in Nat /\ Len(Body(p)) = n
  BY BodyBytes, Numbers DEF BodyLength
<1>2. EncodedFrame(p) = FrameUpto(p, n) \o <<END_BYTE>>
  BY <1>1 DEF EncodedFrame, FrameUpto, StuffedUpto, StuffedParts
<1>3. /\ FrameUpto(p, n) \in Seq(Byte) /\ Len(StuffedUpto(p, n)) \in Nat
      /\ Len(FrameUpto(p, n)) = 2 + Len(StuffedUpto(p, n))
  BY <1>1, FrameNext
<1>4. <<END_BYTE>> \in Seq(Byte) /\ Len(<<END_BYTE>>) = 1
  BY Numbers
<1>5. Len(EncodedFrame(p)) = Len(FrameUpto(p, n)) + 1
  BY <1>2, <1>3, <1>4, ConcatProperties
<1> QED BY <1>2, <1>3, <1>5

\* A byte of the body costs one byte or two: what has been stuffed is at most
\* twice as long as the body so far, and no longer than the whole of it.
LEMMA StuffedLengths ==
  ASSUME NEW p, Legal(p), NEW k \in 0 .. BodyLength(p)
  PROVE  /\ Len(StuffedUpto(p, k)) <= 2 * k
         /\ Len(StuffedUpto(p, k)) <= Len(StuffedUpto(p, BodyLength(p)))
<1> DEFINE n == BodyLength(p)
           L(m) == Len(StuffedUpto(p, m))
<1>1. n \in Nat
  BY BodyBytes, Numbers DEF BodyLength
<1>2. ASSUME NEW m \in Nat, m < n
      PROVE  L(m) \in Nat /\ L(m + 1) \in Nat /\ L(m + 1) - L(m) \in 1 .. 2
  <2> DEFINE x == Stuffed(Body(p)[m + 1])
  <2>1. m \in 0 .. n /\ m + 1 \in 0 .. n /\ m + 1 \in 1 .. n
    BY <1>1, <1>2
  <2>2. /\ StuffedUpto(p, m) \in Seq(Byte) /\ StuffedUpto(p, m + 1) \in Seq(Byte)
        /\ StuffedUpto(p, m + 1) = StuffedUpto(p, m) \o x
    BY <1>2, <2>1, StuffedNext
  <2>3. Body(p)[m + 1] \in Byte
    BY <2>1, BodyBytes
  <2>4. x \in Seq(Byte) /\ Len(x) \in 1 .. 2
    BY <2>3, StuffedBytes
  <2> HIDE DEF x
  <2>5. Len(StuffedUpto(p, m + 1)) = Len(StuffedUpto(p, m)) + Len(x)
    BY <2>2, <2>4, ConcatProperties
  <2>6. Len(StuffedUpto(p, m)) \in Nat /\ Len(StuffedUpto(p, m + 1)) \in Nat
    BY <1>1, <2>1, FrameNext
  <2> DEFINE a == Len(StuffedUpto(p, m))
             b == Len(StuffedUpto(p, m + 1))
             c == Len(x)
  <2>7. a \in Nat /\ b \in Nat /\ c \in 1 .. 2 /\ b = a + c
    BY <2>4, <2>5, <2>6
  <2> HIDE DEF a, b, c
  <2>8. a \in Nat /\ b \in Nat /\ b - a \in 1 .. 2
    BY <2>7
  <2> QED BY <2>8, Zenon DEF a, b
<1>3. L(0) = 0
  <2>1. StuffedParts(p, 0) = <<>>
    BY DEF StuffedParts
  <2> QED BY <2>1, FlattenEmpty DEF StuffedUpto
<1> HIDE DEF L, n
<1>4. L(k) <= 2 * k
  <2> DEFINE T == {m \in Nat : m <= n => L(m) \in Nat /\ L(m) <= 2 * m}
  <2>1. 0 \in T
    BY <1>3
  <2>2. ASSUME NEW m \in T PROVE m + 1 \in T
    BY <1>1, <1>2
  <2> HIDE DEF T
  <2>3. T \in SUBSET Nat
    BY DEF T
  <2>4. T = Nat
    BY <2>1, <2>2, <2>3, SetInduction
  <2> QED BY <1>1, <2>4 DEF T, n
<1>5. L(k) <= L(n)
  <2> DEFINE T == {m \in Nat : k + m <= n => L(k + m) \in Nat /\ L(k) <= L(k + m)}
  <2>1. L(k) \in Nat
    BY FrameNext DEF L
  <2>2. 0 \in T
    BY <1>1, <2>1 DEF n
  <2>3. ASSUME NEW m \in T PROVE m + 1 \in T
    <3> SUFFICES ASSUME k + (m + 1) <= n
                 PROVE  L(k + (m + 1)) \in Nat /\ L(k) <= L(k + (m + 1))
      OBVIOUS
    <3>1. /\ k + m \in Nat /\ k + m < n /\ (k + m) + 1 = k + (m + 1)
          /\ L(k + m) \in Nat /\ L(k) <= L(k + m)
      BY <1>1 DEF n
    <3>2. L((k + m) + 1) \in Nat /\ L((k + m) + 1) - L(k + m) \in 1 .. 2
      BY <1>2, <3>1
    <3> QED BY <2>1, <3>1, <3>2
  <2> HIDE DEF T
  <2>4. T \in SUBSET Nat
    BY DEF T
  <2>5. T = Nat
    BY <2>2, <2>3, <2>4, SetInduction
  <2>6. n - k \in Nat /\ k + (n - k) = n
    BY <1>1 DEF n
  <2>7. n - k \in T
    BY <2>5, <2>6
  <2> QED BY <1>1, <2>6, <2>7 DEF T
<1> QED BY <1>4, <1>5 DEF L, n

-----------------------------------------------------------------------------
\* The array f of n bytes after a byte has been stuffed into it.
StuffedInto(f, n, byte) ==
  IF byte \in FlagBytes
    THEN Put(Put(f, n, ESC_BYTE), n + 1, Flip(byte))
    ELSE Put(f, n, byte)

LEMMA StuffPuts ==
  ASSUME NEW f, NEW n \in Nat, Holds(f, n), NEW byte \in Byte
  PROVE  LET g == StuffedInto(f, n, byte)
             m == n + Len(Stuffed(byte))
         IN  /\ Holds(g, m) /\ Keeps(g, f, n)
             /\ \A k \in n .. m - 1 : g[k] \notin {START_BYTE, END_BYTE}
             /\ Prefix(g, m) = Prefix(f, n) \o Stuffed(byte)
<1> DEFINE s == Prefix(f, n)
           g == StuffedInto(f, n, byte)
           m == n + Len(Stuffed(byte))
<1>1. s \in Seq(Byte)
  BY PrefixIsSeq DEF Holds
<1>2. CASE byte \in FlagBytes
  <2> DEFINE h == Put(f, n, ESC_BYTE)
  <2>1. /\ Flip(byte) \in Byte /\ ESC_BYTE \in Byte
        /\ Flip(byte) \notin {START_BYTE, END_BYTE}
        /\ ESC_BYTE \notin {START_BYTE, END_BYTE}
        /\ Stuffed(byte) = <<ESC_BYTE, Flip(byte)>> /\ Len(Stuffed(byte)) = 2
    BY <1>2, StuffedBytes
  <2>2. g = Put(h, n + 1, Flip(byte)) /\ m = (n + 1) + 1 /\ n + 1 \in Nat
    BY <1>2, <2>1 DEF StuffedInto
  <2>3. /\ Holds(h, n + 1) /\ h[n] = ESC_BYTE /\ Keeps(h, f, n)
        /\ Prefix(h, n + 1) = Append(s, ESC_BYTE)
    BY <2>1, PutAppends
  <2> DEFINE o == n + 1
             v == Flip(byte)
  <2> HIDE DEF h, g, m, s
  <2>4. /\ Holds(g, m) /\ g[n + 1] = Flip(byte) /\ Keeps(g, h, n + 1)
        /\ Prefix(g, m) = Append(Prefix(h, n + 1), Flip(byte))
    <3>1. o \in Nat /\ v \in Byte /\ Holds(h, o) /\ g = Put(h, o, v) /\ m = o + 1
      BY <2>1, <2>2, <2>3
    <3> HIDE DEF o, v
    <3>2. /\ Holds(Put(h, o, v), o + 1)
          /\ Put(h, o, v)[o] = v
          /\ Keeps(Put(h, o, v), h, o)
          /\ Prefix(Put(h, o, v), o + 1) = Append(Prefix(h, o), v)
      BY <3>1, PutAppends
    <3> QED BY <3>1, <3>2 DEF o, v
  <2>5. Append(Append(s, ESC_BYTE), Flip(byte)) = s \o <<ESC_BYTE, Flip(byte)>>
    BY <1>1, <2>1, AppendTwo
  <2>6. Prefix(g, m) = s \o Stuffed(byte)
    BY <2>1, <2>3, <2>4, <2>5
  <2>7. Keeps(g, f, n) /\ g[n] = ESC_BYTE
    BY <2>3, <2>4 DEF Keeps
  <2>8. \A k \in n .. m - 1 : k = n \/ k = n + 1
    BY <2>2
  <2>9. \A k \in n .. m - 1 : g[k] \notin {START_BYTE, END_BYTE}
    BY <2>1, <2>4, <2>7, <2>8
  <2> QED BY <2>4, <2>6, <2>7, <2>9 DEF s, g, m
<1>3. CASE byte \notin FlagBytes
  <2>1. /\ Stuffed(byte) = <<byte>> /\ Len(Stuffed(byte)) = 1
        /\ byte \notin {START_BYTE, END_BYTE}
    BY <1>3, StuffedBytes
  <2>2. g = Put(f, n, byte) /\ m = n + 1
    BY <1>3, <2>1 DEF StuffedInto
  <2> HIDE DEF g, m, s
  <2>3. /\ Holds(g, m) /\ g[n] = byte /\ Keeps(g, f, n)
        /\ Prefix(g, m) = Append(s, byte)
    BY <2>2, PutAppends DEF s
  <2>4. Append(s, byte) = s \o <<byte>>
    BY <1>1, AppendIsConcat
  <2>5. \A k \in n .. m - 1 : k = n
    BY <2>2
  <2>6. Prefix(g, m) = s \o Stuffed(byte)
    BY <2>1, <2>3, <2>4
  <2>7. \A k \in n .. m - 1 : g[k] \notin {START_BYTE, END_BYTE}
    BY <2>1, <2>3, <2>5
  <2> QED BY <2>3, <2>6, <2>7 DEF s, g, m
<1> QED BY <1>2, <1>3

\* What stuff_byte does to the output, if there is room.
LEMMA StuffsAppends ==
  ASSUME index \in Nat, Holds(buffer, index), NEW byte \in Byte, Stuffs(byte)
  PROVE  /\ index' \in Nat /\ index' = index + Len(Stuffed(byte))
         /\ index' <= buffer_size
         /\ Holds(buffer', index') /\ Keeps(buffer', buffer, index)
         /\ \A k \in index .. index' - 1 : buffer'[k] \notin {START_BYTE, END_BYTE}
         /\ Prefix(buffer', index') = Prefix(buffer, index) \o Stuffed(byte)
<1> DEFINE g == StuffedInto(buffer, index, byte)
           m == index + Len(Stuffed(byte))
<1>1. Len(Stuffed(byte)) = IF byte \in FlagBytes THEN 2 ELSE 1
  BY StuffedBytes
<1>2. buffer' = g /\ index' = m /\ index' <= buffer_size /\ index' \in Nat
  BY <1>1 DEF Stuffs, StuffedInto
<1>3. /\ Holds(g, m) /\ Keeps(g, buffer, index)
      /\ \A k \in index .. m - 1 : g[k] \notin {START_BYTE, END_BYTE}
      /\ Prefix(g, m) = Prefix(buffer, index) \o Stuffed(byte)
  BY StuffPuts
<1> QED BY <1>2, <1>3

-----------------------------------------------------------------------------
\* The bytes of the body that have been stuffed, by the stage and the loop.
Stuffing == {"ADDRESS", "PAYLOAD", "CRC_HIGH", "CRC_LOW"}

Written ==
  CASE stage = "ADDRESS"  -> i
    [] stage = "PAYLOAD"  -> ADDR_BYTES + i
    [] stage = "CRC_HIGH" -> ADDR_BYTES + packet.length
    [] stage = "CRC_LOW"  -> ADDR_BYTES + packet.length + 1
    [] stage = "END"      -> ADDR_BYTES + packet.length + 2
    [] OTHER              -> 0

\* At every stage the buffer holds the frame up to the byte to be written.
Progress ==
  /\ stage = "LENGTH" =>
       index = 1 /\ buffer[0] = START_BYTE /\ buffer_size >= MIN_PACKET_SIZE
  /\ stage \in Stuffing \cup {"END"} =>
       Prefix(buffer, index) = FrameUpto(packet, Written)

\* The loop variable is zero before the first loop.
ZeroLoop == stage = "LENGTH" => i = 0

IInv ==
  /\ ZeroLoop
  /\ TypeOK /\ WritesInBounds /\ NoFlagInside
  /\ Progress
  /\ ExactResult /\ FailsOnlyIfTooBig /\ WorstCaseSuffices

LEMMA Held ==
  ASSUME TypeOK, WritesInBounds
  PROVE  /\ Holds(buffer, index) /\ index \in Nat /\ buffer_size \in Nat
         /\ stage # "RETURNED" => Legal(packet)
BY EncoderAssumption DEF TypeOK, WritesInBounds, Holds, Legal

\* The length of what is held is the length of the frame so far.
LEMMA LengthHeld ==
  ASSUME IInv, stage \in Stuffing \cup {"END"}, Written \in 0 .. BodyLength(packet)
  PROVE  /\ index = 2 + Len(StuffedUpto(packet, Written))
         /\ Len(StuffedUpto(packet, Written)) \in Nat
<1>1. Holds(buffer, index) /\ index \in Nat /\ Legal(packet)
  BY Held DEF IInv, Stuffing
<1>2. Len(Prefix(buffer, index)) = index
  BY <1>1, PrefixIsSeq DEF Holds
<1>3. Prefix(buffer, index) = FrameUpto(packet, Written)
  BY DEF IInv, Progress
<1>4. /\ Len(FrameUpto(packet, Written)) = 2 + Len(StuffedUpto(packet, Written))
      /\ Len(StuffedUpto(packet, Written)) \in Nat
  BY <1>1, FrameNext
<1> QED BY <1>2, <1>3, <1>4

\* One byte of the body is stuffed, and the next one is next.
LEMMA StuffStep ==
  ASSUME IInv, stage \in Stuffing, NEW byte \in Byte, Stuffs(byte),
         Written \in 0 .. BodyLength(packet) - 1,
         byte = Body(packet)[Written + 1], Written' = Written + 1,
         stage' \in Stuffing \cup {"END"}, i' \in Nat,
         stage' = "ADDRESS" => i' < ADDR_BYTES,
         stage' = "PAYLOAD" => i' < packet.length,
         UNCHANGED <<packet, buffer_size, ret>>
  PROVE  IInv'
<1> DEFINE w == Written
<1>1. /\ Holds(buffer, index) /\ index \in Nat /\ buffer_size \in Nat
      /\ Legal(packet) /\ BodyLength(packet) \in Nat
  BY Held, BodyBytes, Numbers DEF IInv, Stuffing, BodyLength
<1>2. /\ index' \in Nat /\ index' = index + Len(Stuffed(byte))
      /\ index' <= buffer_size
      /\ Holds(buffer', index') /\ Keeps(buffer', buffer, index)
      /\ \A k \in index .. index' - 1 : buffer'[k] \notin {START_BYTE, END_BYTE}
      /\ Prefix(buffer', index') = Prefix(buffer, index) \o Stuffed(byte)
  BY <1>1, StuffsAppends
<1>3. stage' # "RETURNED" /\ stage' # "LENGTH" /\ stage # "RETURNED" /\ stage' \in Stages
  BY DEF Stuffing, Stages
<1>4. TypeOK'
  BY <1>2, <1>3 DEF IInv, TypeOK, Holds, Stuffing
<1>5. WritesInBounds'
  BY <1>2 DEF WritesInBounds, Holds
<1>6. NoFlagInside'
  <2> SUFFICES ASSUME NEW j \in 0 .. index' - 1,
                      buffer'[j] \in {START_BYTE, END_BYTE}
               PROVE  j = 0 /\ buffer'[j] = START_BYTE
    BY <1>2 DEF NoFlagInside, Holds
  <2>1. j \in 0 .. index - 1
    BY <1>1, <1>2
  <2>2. buffer'[j] = buffer[j] /\ j \in DOMAIN buffer
    BY <1>1, <1>2, <2>1 DEF Keeps, Holds
  <2> QED BY <1>3, <2>2 DEF IInv, NoFlagInside
<1>7. Progress'
  <2>1. Prefix(buffer, index) = FrameUpto(packet, w)
    BY DEF IInv, Progress
  <2>2. w \in 0 .. BodyLength(packet) /\ w < BodyLength(packet)
    BY <1>1
  <2> HIDE DEF w
  <2>3. FrameUpto(packet, w + 1) = FrameUpto(packet, w) \o Stuffed(Body(packet)[w + 1])
    BY <1>1, <2>2, FrameNext
  <2>4. Prefix(buffer', index') = FrameUpto(packet', w + 1)
    BY <1>2, <2>1, <2>3 DEF w
  <2> QED BY <1>3, <2>4 DEF Progress, w
<1>8. ExactResult' /\ FailsOnlyIfTooBig' /\ WorstCaseSuffices'
  BY <1>3 DEF ExactResult, FailsOnlyIfTooBig, WorstCaseSuffices
<1> QED BY <1>3, <1>4, <1>5, <1>6, <1>7, <1>8 DEF IInv, ZeroLoop

\* A call that gives up on a frame that does not fit.
LEMMA FailStep ==
  ASSUME IInv, stage \in Stuffing \cup {"END"}, NEW code \in Int, code <= -4,
         Len(EncodedFrame(packet)) > buffer_size, Fail(code)
  PROVE  IInv'
<1>1. /\ Holds(buffer, index) /\ index \in Nat /\ buffer_size \in Nat
      /\ Legal(packet)
  BY Held DEF IInv, Stuffing
<1>2. /\ stage' = "RETURNED" /\ ret' = code /\ ret' <= -4 /\ ret' \in Int
      /\ packet' = packet /\ buffer_size' = buffer_size /\ i' = i
      /\ buffer' = buffer /\ index' = index /\ stage # "RETURNED"
  BY DEF Fail, Stuffing
<1>3. TypeOK'
  BY <1>2 DEF IInv, TypeOK, Stages
<1>4. WritesInBounds'
  BY <1>2 DEF IInv, WritesInBounds
<1>5. NoFlagInside'
  BY <1>2 DEF IInv, NoFlagInside
<1>6. Progress' /\ ExactResult'
  BY <1>2 DEF Progress, ExactResult, Stuffing
<1>7. FailsOnlyIfTooBig'
  BY <1>2 DEF FailsOnlyIfTooBig
<1>8. WorstCaseSuffices'
  <2>1. Len(EncodedFrame(packet)) <= WorstCase
    <3> DEFINE n == BodyLength(packet)
               m == Len(StuffedUpto(packet, n))
    <3>1. packet.length \in Nat /\ packet.length <= MAX_PAYLOAD_SIZE
      BY <1>1, BodyBytes DEF Legal
    <3>2. n \in Nat /\ n <= ADDR_BYTES + MAX_PAYLOAD_SIZE + 2
      BY <3>1, Numbers DEF BodyLength
    <3>3. n \in 0 .. n
      BY <3>2
    <3> HIDE DEF n
    <3>4. m <= 2 * n /\ m \in Nat
      BY <1>1, <3>3, StuffedLengths, FrameNext DEF n
    <3>5. Len(EncodedFrame(packet)) = 3 + m
      BY <1>1, FrameEnds DEF n
    <3> HIDE DEF m
    <3> QED BY <3>2, <3>4, <3>5, Numbers DEF WorstCase
  <2>2. WorstCase \in Nat
    BY Numbers DEF WorstCase
  <2>3. Len(EncodedFrame(packet)) \in Nat
    <3>1. BodyLength(packet) \in 0 .. BodyLength(packet)
      BY <1>1, BodyBytes, Numbers DEF BodyLength
    <3> QED BY <1>1, <3>1, FrameEnds, FrameNext
  <2>4. ~(buffer_size' >= WorstCase)
    BY <1>1, <1>2, <2>1, <2>2, <2>3
  <2> QED BY <2>4 DEF WorstCaseSuffices
<1> QED BY <1>2, <1>3, <1>4, <1>5, <1>6, <1>7, <1>8 DEF IInv, ZeroLoop

\* stuff_byte fails only if the frame does not fit.
LEMMA OverflowsTooBig ==
  ASSUME IInv, stage \in Stuffing, NEW byte \in Byte, Overflows(byte),
         Written \in 0 .. BodyLength(packet) - 1,
         byte = Body(packet)[Written + 1]
  PROVE  Len(EncodedFrame(packet)) > buffer_size
<1> DEFINE w == Written
           n == BodyLength(packet)
           l == Len(StuffedUpto(packet, w))
           x == Stuffed(byte)
           y == StuffedUpto(packet, w + 1)
           z == Len(StuffedUpto(packet, n))
<1>1. /\ index \in Nat /\ buffer_size \in Nat /\ Legal(packet) /\ n \in Nat
  BY Held, BodyBytes, Numbers DEF IInv, Stuffing, BodyLength
<1>2. w \in 0 .. n /\ w < n /\ w + 1 \in 0 .. n /\ n \in 0 .. n
  BY <1>1
<1>3. index = 2 + l /\ l \in Nat
  BY <1>2, LengthHeld
<1> HIDE DEF w, n
<1>4. x \in Seq(Byte) /\ Len(x) = IF byte \in FlagBytes THEN 2 ELSE 1
  BY StuffedBytes
<1>5. /\ StuffedUpto(packet, w) \in Seq(Byte)
      /\ y = StuffedUpto(packet, w) \o x
  BY <1>1, <1>2, StuffedNext DEF n, w
<1>6. Len(y) = l + Len(x)
  BY <1>4, <1>5, ConcatProperties
<1>7. Len(y) <= z /\ z \in Nat
  BY <1>1, <1>2, StuffedLengths, FrameNext DEF n
<1>8. Len(EncodedFrame(packet)) = 3 + z
  BY <1>1, FrameEnds DEF n
<1>9. index + Len(x) > buffer_size
  BY <1>4 DEF Overflows
<1> HIDE DEF l, x, y, z
<1> QED BY <1>1, <1>3, <1>4, <1>6, <1>7, <1>8, <1>9

-----------------------------------------------------------------------------
LEMMA RejectedKeeps ==
  ASSUME IInv, NEW p \in Packets, NEW size \in Sizes, NEW isNull,
         CallRejected(p, size, isNull)
  PROVE  IInv'
<1>1. /\ stage' = "RETURNED" /\ ret' \in {-1, -2}
      /\ packet' = p /\ buffer_size' = size
      /\ buffer' = NoBytes /\ index' = 0 /\ i' = 0
  BY DEF CallRejected
<1>2. DOMAIN NoBytes = {}
  BY DEF NoBytes
<1>3. TypeOK' /\ NoFlagInside'
  BY <1>1, <1>2 DEF TypeOK, NoFlagInside, Stages
<1>4. WritesInBounds'
  BY <1>1, <1>2 DEF WritesInBounds
<1>5. Progress'
  BY <1>1 DEF Progress, Stuffing
<1>6. ExactResult' /\ FailsOnlyIfTooBig' /\ WorstCaseSuffices'
  BY <1>1 DEF ExactResult, FailsOnlyIfTooBig, WorstCaseSuffices
<1> QED BY <1>1, <1>3, <1>4, <1>5, <1>6 DEF IInv, ZeroLoop

LEMMA AcceptedKeeps ==
  ASSUME IInv, NEW p \in Packets, NEW size \in Sizes, CallAccepted(p, size)
  PROVE  IInv'
<1>1. /\ stage' = "LENGTH" /\ ret' = 0
      /\ packet' = p /\ buffer_size' = size /\ i' = 0 /\ index' = 1
      /\ buffer' = Put(NoBytes, 0, START_BYTE)
      /\ size >= MIN_PACKET_SIZE /\ p.length <= MAX_PAYLOAD_SIZE
  BY DEF CallAccepted
<1>2. size \in Nat
  BY EncoderAssumption
<1>3. DOMAIN Put(NoBytes, 0, START_BYTE) = {0} /\ Put(NoBytes, 0, START_BYTE)[0] = START_BYTE
  BY DEF Put, NoBytes
<1>4. TypeOK' /\ NoFlagInside'
  BY <1>1, <1>3, Numbers DEF TypeOK, NoFlagInside, Stages
<1>5. WritesInBounds'
  BY <1>1, <1>2, <1>3, Numbers DEF WritesInBounds
<1>6. Progress'
  BY <1>1, <1>3 DEF Progress, Stuffing
<1>7. ExactResult' /\ FailsOnlyIfTooBig' /\ WorstCaseSuffices'
  BY <1>1 DEF ExactResult, FailsOnlyIfTooBig, WorstCaseSuffices
<1> QED BY <1>1, <1>4, <1>5, <1>6, <1>7 DEF IInv, ZeroLoop

\* LENGTH needs no test for room, and is not taken for a flag.
LEMMA LengthKeeps == ASSUME IInv, PutLength PROVE IInv'
<1>1. /\ Holds(buffer, index) /\ index \in Nat /\ buffer_size \in Nat
      /\ Legal(packet)
  BY Held DEF IInv, PutLength
<1>2. /\ stage = "LENGTH" /\ stage' = "ADDRESS" /\ index' = 2 /\ index = 1
      /\ packet' = packet /\ buffer_size' = buffer_size /\ i' = i /\ ret' = ret
      /\ buffer' = Put(buffer, 1, packet.length)
      /\ buffer[0] = START_BYTE /\ buffer_size >= MIN_PACKET_SIZE
  BY DEF PutLength, IInv, Progress
<1>3. packet.length \in Byte /\ packet.length \notin FlagBytes
  BY <1>1, BodyBytes, EncoderAssumption, Numbers DEF Legal, FlagBytes
<1>4. /\ Holds(buffer', 2) /\ buffer'[1] = packet.length
      /\ Keeps(buffer', buffer, 1)
  BY <1>1, <1>2, <1>3, PutAppends
<1>5. DOMAIN buffer' = 0 .. 1 /\ buffer'[0] = START_BYTE
  BY <1>2, <1>4 DEF Holds, Keeps
<1>6. i = 0
  BY <1>2 DEF IInv, ZeroLoop
<1>7. TypeOK'
  BY <1>2, <1>4, <1>5, <1>6, Numbers DEF IInv, TypeOK, Stages, Holds
<1>8. WritesInBounds'
  BY <1>1, <1>2, <1>5, Numbers DEF WritesInBounds
<1>9. NoFlagInside'
  BY <1>2, <1>3, <1>4, <1>5 DEF NoFlagInside, FlagBytes
<1>10. Progress'
  <2>1. FrameUpto(packet, 0) = <<START_BYTE, packet.length>>
    BY <1>1, FrameBegins
  <2>2. Prefix(buffer', 2) = <<START_BYTE, packet.length>>
    <3>1. /\ Prefix(buffer', 2) \in Seq(Byte) /\ Len(Prefix(buffer', 2)) = 2
          /\ \A k \in 1 .. 2 : Prefix(buffer', 2)[k] = buffer'[k - 1]
      BY <1>4, PrefixIsSeq DEF Holds
    <3> DEFINE s == Prefix(buffer', 2)
               t == <<START_BYTE, packet.length>>
    <3>2. s[1] = START_BYTE /\ s[2] = packet.length
      BY <1>4, <1>5, <3>1
    <3> HIDE DEF s
    <3>3. t \in Seq(Byte) /\ Len(t) = 2 /\ t[1] = START_BYTE /\ t[2] = packet.length
      BY <1>3, Numbers
    <3> HIDE DEF t
    <3>4. s = t
      BY <3>1, <3>2, <3>3, SeqEqual DEF s
    <3> QED BY <3>4 DEF s, t
  <2> QED BY <1>2, <1>6, <2>1, <2>2 DEF Progress, Written
<1>11. ExactResult' /\ FailsOnlyIfTooBig' /\ WorstCaseSuffices'
  BY <1>2 DEF ExactResult, FailsOnlyIfTooBig, WorstCaseSuffices
<1> QED BY <1>2, <1>7, <1>8, <1>9, <1>10, <1>11 DEF IInv, ZeroLoop

LEMMA AddressKeeps == ASSUME IInv, PutAddressByte PROVE IInv'
<1> DEFINE byte == packet.address[i]
<1>1. Legal(packet) /\ stage = "ADDRESS" /\ i \in Nat /\ i < ADDR_BYTES
  BY Held DEF IInv, PutAddressByte, TypeOK
<1>2. packet.length \in Nat /\ i \in 0 .. ADDR_BYTES - 1
  BY <1>1, BodyBytes, Numbers
<1>3. Written = i /\ Written \in 0 .. BodyLength(packet) - 1
  BY <1>1, <1>2, Numbers DEF Written, BodyLength
<1>4. byte = Body(packet)[Written + 1] /\ byte \in Byte
  <2>1. byte = Body(packet)[i + 1]
    BY <1>1, <1>2, BodyBytes
  <2>2. packet.address \in [0 .. ADDR_BYTES - 1 -> Byte]
    BY <1>1, EncoderAssumption DEF Legal, PacketType, Address
  <2> QED BY <1>2, <1>3, <2>1, <2>2
<1> HIDE DEF byte
<1>5. CASE /\ Stuffs(byte) /\ Turn(ADDR_BYTES, AfterAddress)
           /\ UNCHANGED <<packet, buffer_size, ret>>
  <2>1. /\ stage' \in Stuffing \cup {"END"} /\ i' \in Nat
        /\ stage' = "ADDRESS" => i' < ADDR_BYTES
        /\ stage' = "PAYLOAD" => i' < packet.length
        /\ Written' = Written + 1
    <3>1. CASE i + 1 < ADDR_BYTES
      <4>1. i' = i + 1 /\ stage' = "ADDRESS"
        BY <1>1, <1>5, <3>1 DEF Turn
      <4> QED BY <1>2, <1>3, <3>1, <4>1 DEF Stuffing, Written
    <3>2. CASE ~(i + 1 < ADDR_BYTES)
      <4>1. i + 1 = ADDR_BYTES
        BY <1>1, <3>2, Numbers
      <4>2. /\ i' = 0 /\ packet' = packet
            /\ stage' = IF packet.length = 0 THEN "CRC_HIGH" ELSE "PAYLOAD"
        BY <1>5, <3>2 DEF Turn, AfterAddress
      <4>3. CASE packet.length = 0
        BY <1>3, <4>1, <4>2, <4>3, Numbers DEF Stuffing, Written
      <4>4. CASE packet.length # 0
        BY <1>2, <1>3, <4>1, <4>2, <4>4, Numbers DEF Stuffing, Written
      <4> QED BY <4>3, <4>4
    <3> QED BY <3>1, <3>2
  <2> QED BY <1>1, <1>3, <1>4, <1>5, <2>1, StuffStep DEF Stuffing
<1>6. CASE Overflows(byte) /\ Fail(-4)
  <2>1. Len(EncodedFrame(packet)) > buffer_size
    BY <1>1, <1>3, <1>4, <1>6, OverflowsTooBig DEF Stuffing
  <2> QED BY <1>1, <1>6, <2>1, FailStep DEF Stuffing
<1> QED BY <1>5, <1>6 DEF PutAddressByte, byte

LEMMA PayloadKeeps == ASSUME IInv, PutPayloadByte PROVE IInv'
<1> DEFINE byte == packet.payload[i]
<1>1. Legal(packet) /\ stage = "PAYLOAD" /\ i \in Nat /\ i < packet.length
  BY Held DEF IInv, PutPayloadByte, TypeOK
<1>2. packet.length \in Nat /\ i \in 0 .. packet.length - 1 /\ ADDR_BYTES \in Nat
  BY <1>1, BodyBytes, Numbers
<1>3. Written = ADDR_BYTES + i /\ Written \in 0 .. BodyLength(packet) - 1
  <2>1. Written = ADDR_BYTES + i
    BY <1>1 DEF Written
  <2>2. BodyLength(packet) = ADDR_BYTES + packet.length + 2
    BY DEF BodyLength
  <2>3. ADDR_BYTES + i \in 0 .. BodyLength(packet) - 1
    BY <1>1, <1>2, <2>2
  <2> QED BY <2>1, <2>3
<1>4. byte = Body(packet)[Written + 1] /\ byte \in Byte
  <2>1. byte = Body(packet)[ADDR_BYTES + i + 1]
    BY <1>1, <1>2, BodyBytes
  <2>2. /\ packet.payload \in [0 .. MAX_PAYLOAD_SIZE - 1 -> Byte]
        /\ packet.length <= MAX_PAYLOAD_SIZE
    BY <1>1, EncoderAssumption DEF Legal, PacketType
  <2>3. i \in 0 .. MAX_PAYLOAD_SIZE - 1
    BY <1>1, <1>2, <2>2, Numbers
  <2> QED BY <1>3, <2>1, <2>2, <2>3
<1> HIDE DEF byte
<1>5. CASE /\ Stuffs(byte) /\ Turn(packet.length, "CRC_HIGH")
           /\ UNCHANGED <<packet, buffer_size, ret>>
  <2>1. /\ stage' \in Stuffing \cup {"END"} /\ i' \in Nat
        /\ stage' = "ADDRESS" => i' < ADDR_BYTES
        /\ stage' = "PAYLOAD" => i' < packet.length
        /\ Written' = Written + 1
    <3>1. CASE i + 1 < packet.length
      <4>1. i' = i + 1 /\ stage' = "PAYLOAD"
        BY <1>1, <1>5, <3>1 DEF Turn
      <4> QED BY <1>2, <1>3, <3>1, <4>1 DEF Stuffing, Written
    <3>2. CASE ~(i + 1 < packet.length)
      <4>1. i + 1 = packet.length
        BY <1>1, <1>2, <3>2
      <4>2. i' = 0 /\ packet' = packet /\ stage' = "CRC_HIGH"
        BY <1>5, <3>2 DEF Turn
      <4> QED BY <1>2, <1>3, <4>1, <4>2 DEF Stuffing, Written
    <3> QED BY <3>1, <3>2
  <2> QED BY <1>1, <1>3, <1>4, <1>5, <2>1, StuffStep DEF Stuffing
<1>6. CASE Overflows(byte) /\ Fail(-6)
  <2>1. Len(EncodedFrame(packet)) > buffer_size
    BY <1>1, <1>3, <1>4, <1>6, OverflowsTooBig DEF Stuffing
  <2> QED BY <1>1, <1>6, <2>1, FailStep DEF Stuffing
<1> QED BY <1>5, <1>6 DEF PutPayloadByte, byte

LEMMA CrcKeeps == ASSUME IInv, PutCrcHigh \/ PutCrcLow PROVE IInv'
<1>1. Legal(packet) /\ i \in Nat
  BY Held DEF IInv, PutCrcHigh, PutCrcLow, TypeOK
<1> DEFINE h == FrameCrcHigh(packet)
           l == FrameCrcLow(packet)
<1>2. /\ packet.length \in Nat
      /\ h = Body(packet)[ADDR_BYTES + packet.length + 1]
      /\ l = Body(packet)[ADDR_BYTES + packet.length + 2]
      /\ Body(packet) \in Seq(Byte) /\ Len(Body(packet)) = BodyLength(packet)
  BY <1>1, BodyBytes
<1>0. packet.length \in Nat /\ ADDR_BYTES \in Nat
  BY <1>2, Numbers
<1>3. /\ ADDR_BYTES + packet.length + 1 \in 1 .. BodyLength(packet)
      /\ ADDR_BYTES + packet.length + 2 \in 1 .. BodyLength(packet)
  BY <1>0 DEF BodyLength
<1>4. h \in Byte /\ l \in Byte
  BY <1>2, <1>3
<1> HIDE DEF h, l
<1>5. CASE PutCrcHigh
  <2>1. /\ stage = "CRC_HIGH" /\ Written = ADDR_BYTES + packet.length
        /\ Written \in 0 .. BodyLength(packet) - 1
    BY <1>0, <1>5 DEF PutCrcHigh, Written, BodyLength
  <2>2. h = Body(packet)[Written + 1]
    BY <1>2, <2>1
  <2>3. CASE /\ Stuffs(h) /\ stage' = "CRC_LOW"
             /\ UNCHANGED <<packet, buffer_size, i, ret>>
    <3>1. Written' = Written + 1 /\ i' \in Nat /\ stage' \in Stuffing
      BY <1>1, <2>1, <2>3 DEF Written, Stuffing
    <3> QED BY <1>4, <2>1, <2>2, <2>3, <3>1, StuffStep DEF Stuffing
  <2>4. CASE Overflows(h) /\ Fail(-7)
    <3>1. Len(EncodedFrame(packet)) > buffer_size
      BY <1>4, <2>1, <2>2, <2>4, OverflowsTooBig DEF Stuffing
    <3> QED BY <2>1, <2>4, <3>1, FailStep DEF Stuffing
  <2> QED BY <1>5, <2>3, <2>4 DEF PutCrcHigh, h
<1>6. CASE PutCrcLow
  <2>1. /\ stage = "CRC_LOW" /\ Written = ADDR_BYTES + packet.length + 1
        /\ Written \in 0 .. BodyLength(packet) - 1
    BY <1>0, <1>6 DEF PutCrcLow, Written, BodyLength
  <2>2. l = Body(packet)[Written + 1]
    <3>1. Written + 1 = ADDR_BYTES + packet.length + 2
      BY <1>0, <2>1
    <3> QED BY <1>2, <3>1
  <2>3. CASE /\ Stuffs(l) /\ stage' = "END"
             /\ UNCHANGED <<packet, buffer_size, i, ret>>
    <3>1. Written' = Written + 1 /\ i' \in Nat
      BY <1>0, <1>1, <2>1, <2>3 DEF Written
    <3> QED BY <1>4, <2>1, <2>2, <2>3, <3>1, StuffStep DEF Stuffing
  <2>4. CASE Overflows(l) /\ Fail(-8)
    <3>1. Len(EncodedFrame(packet)) > buffer_size
      BY <1>4, <2>1, <2>2, <2>4, OverflowsTooBig DEF Stuffing
    <3> QED BY <2>1, <2>4, <3>1, FailStep DEF Stuffing
  <2> QED BY <1>6, <2>3, <2>4 DEF PutCrcLow, l
<1> QED BY <1>5, <1>6

LEMMA EndKeeps == ASSUME IInv, PutEnd PROVE IInv'
<1> DEFINE n == BodyLength(packet)
<1>1. /\ Holds(buffer, index) /\ index \in Nat /\ buffer_size \in Nat
      /\ Legal(packet) /\ stage = "END"
  BY Held DEF IInv, PutEnd
<1>2. Written = n /\ n \in Nat
  BY <1>1, BodyBytes, Numbers DEF Written, BodyLength
<1>3. /\ index = 2 + Len(StuffedUpto(packet, n))
      /\ Len(StuffedUpto(packet, n)) \in Nat
  BY <1>1, <1>2, LengthHeld
<1>4. /\ EncodedFrame(packet) = FrameUpto(packet, n) \o <<END_BYTE>>
      /\ Len(EncodedFrame(packet)) = index + 1
  BY <1>1, <1>3, FrameEnds
<1>5. CASE /\ index < buffer_size
           /\ buffer' = Put(buffer, index, END_BYTE)
           /\ index' = index + 1
           /\ stage' = "RETURNED" /\ ret' = index + 1
           /\ UNCHANGED <<packet, buffer_size, i>>
  <2>1. /\ Holds(buffer', index + 1) /\ buffer'[index] = END_BYTE
        /\ Keeps(buffer', buffer, index)
        /\ Prefix(buffer', index + 1) = Append(Prefix(buffer, index), END_BYTE)
    <3> DEFINE g == Put(buffer, index, END_BYTE)
    <3>1. END_BYTE \in Byte
      BY Numbers
    <3>2. /\ Holds(g, index + 1) /\ g[index] = END_BYTE /\ Keeps(g, buffer, index)
          /\ Prefix(g, index + 1) = Append(Prefix(buffer, index), END_BYTE)
      BY <1>1, <3>1, PutAppends
    <3> QED BY <1>5, <3>2
  <2>2. TypeOK'
    BY <1>1, <1>5, <2>1 DEF IInv, TypeOK, Stages, Holds
  <2>3. WritesInBounds'
    BY <1>1, <1>5, <2>1 DEF WritesInBounds, Holds
  <2>4. NoFlagInside'
    <3> SUFFICES ASSUME NEW j \in 0 .. index,
                        buffer'[j] \in {START_BYTE, END_BYTE}
                 PROVE  \/ j = 0 /\ buffer'[j] = START_BYTE
                        \/ j = index /\ buffer'[j] = END_BYTE
      BY <1>1, <1>5, <2>1 DEF NoFlagInside, Holds
    <3>1. CASE j = index
      BY <2>1, <3>1
    <3>2. CASE j \in 0 .. index - 1
      <4>1. buffer'[j] = buffer[j] /\ j \in DOMAIN buffer
        BY <1>1, <2>1, <3>2 DEF Keeps, Holds
      <4> QED BY <1>1, <4>1 DEF IInv, NoFlagInside
    <3> QED BY <1>1, <3>1, <3>2
  <2>5. ExactResult'
    <3>1. Prefix(buffer, index) = FrameUpto(packet, n) /\ FrameUpto(packet, n) \in Seq(Byte)
      BY <1>1, <1>2, FrameNext DEF IInv, Progress
    <3>2. Prefix(buffer', index + 1) = EncodedFrame(packet)
      BY <1>4, <2>1, <3>1, AppendIsConcat, Numbers
    <3> QED BY <1>5, <3>2 DEF ExactResult
  <2>6. Progress' /\ FailsOnlyIfTooBig' /\ WorstCaseSuffices'
    BY <1>1, <1>5 DEF Progress, FailsOnlyIfTooBig, WorstCaseSuffices, Stuffing
  <2>7. ZeroLoop'
    BY <1>5 DEF ZeroLoop
  <2> QED BY <2>2, <2>3, <2>4, <2>5, <2>6, <2>7 DEF IInv
<1>6. CASE index >= buffer_size /\ Fail(-9)
  BY <1>1, <1>4, <1>6, FailStep
<1> QED BY <1>5, <1>6 DEF PutEnd

LEMMA InitIInv == Init => IInv
<1> SUFFICES ASSUME Init PROVE IInv
  OBVIOUS
<1>1. DOMAIN NoBytes = {}
  BY DEF NoBytes
<1>2. /\ packet \in Packets /\ buffer_size \in Sizes /\ stage = "RETURNED"
      /\ i = 0 /\ buffer = NoBytes /\ index = 0 /\ ret = -1
  BY DEF Init
<1>3. TypeOK /\ WritesInBounds /\ NoFlagInside
  BY <1>1, <1>2 DEF TypeOK, WritesInBounds, NoFlagInside, Stages
<1>4. Progress /\ ZeroLoop
  BY <1>2 DEF Progress, ZeroLoop, Stuffing
<1>5. ExactResult /\ FailsOnlyIfTooBig /\ WorstCaseSuffices
  BY <1>2 DEF ExactResult, FailsOnlyIfTooBig, WorstCaseSuffices
<1> QED BY <1>3, <1>4, <1>5 DEF IInv

LEMMA StutterKeeps == ASSUME IInv, UNCHANGED vars PROVE IInv'
<1>1. /\ packet' = packet /\ buffer_size' = buffer_size /\ stage' = stage
      /\ i' = i /\ buffer' = buffer /\ index' = index /\ ret' = ret
  BY DEF vars
<1>2. TypeOK' /\ WritesInBounds' /\ NoFlagInside'
  BY <1>1 DEF IInv, TypeOK, WritesInBounds, NoFlagInside
<1>3. Written' = Written
  BY <1>1 DEF Written
<1>4. Progress' /\ ZeroLoop'
  BY <1>1, <1>3 DEF IInv, Progress, ZeroLoop
<1>5. ExactResult' /\ FailsOnlyIfTooBig' /\ WorstCaseSuffices'
  BY <1>1 DEF IInv, ExactResult, FailsOnlyIfTooBig, WorstCaseSuffices
<1> QED BY <1>2, <1>4, <1>5 DEF IInv

LEMMA NextKeeps == IInv /\ [Next]_vars => IInv'
<1> SUFFICES ASSUME IInv, [Next]_vars PROVE IInv'
  OBVIOUS
<1>1. ASSUME NEW p \in Packets, NEW size \in Sizes,
             \/ \E isNull \in BOOLEAN : CallRejected(p, size, isNull)
             \/ CallAccepted(p, size)
      PROVE  IInv'
  BY <1>1, RejectedKeeps, AcceptedKeeps
<1>2. CASE PutLength
  BY <1>2, LengthKeeps
<1>3. CASE PutAddressByte
  BY <1>3, AddressKeeps
<1>4. CASE PutPayloadByte
  BY <1>4, PayloadKeeps
<1>5. CASE PutCrcHigh \/ PutCrcLow
  BY <1>5, CrcKeeps
<1>6. CASE PutEnd
  BY <1>6, EndKeeps
<1>7. CASE UNCHANGED vars
  BY <1>7, StutterKeeps
<1> QED BY <1>1, <1>2, <1>3, <1>4, <1>5, <1>6, <1>7 DEF Next

LEMMA Invariant == Spec => []IInv
<1>1. Init => IInv
  BY InitIInv
<1>2. IInv /\ [Next]_vars => IInv'
  BY NextKeeps
<1> QED BY <1>1, <1>2, PTL DEF Spec

-----------------------------------------------------------------------------
\* The packet and the output buffer hold bytes, and the loops over the address
\* and the payload stay inside their arrays.
THEOREM TypeCorrect == Spec => []TypeOK
<1>1. IInv => TypeOK
  BY DEF IInv
<1> QED BY <1>1, Invariant, PTL

\* fusain_encode_packet never writes behind the buffer it is given, whatever
\* the packet is and wherever the buffer ends, and it leaves no gap.
THEOREM InBounds == Spec => []WritesInBounds
<1>1. IInv => WritesInBounds
  BY DEF IInv
<1> QED BY <1>1, Invariant, PTL

\* START and END occur only at the two ends of what is written.
THEOREM FlagsOnlyAtEnds == Spec => []NoFlagInside
<1>1. IInv => NoFlagInside
  BY DEF IInv
<1> QED BY <1>1, Invariant, PTL

\* Whenever the encoder reports success, the bytes it counts are the frame of
\* the packet as the wire format defines it: START, LENGTH, the stuffed body
\* with its CRC, END.
THEOREM EncodesFrame == Spec => []ExactResult
<1>1. IInv => ExactResult
  BY DEF IInv
<1> QED BY <1>1, Invariant, PTL

\* The encoder runs out of room while it writes a frame (-4 to -9) only if the
\* frame is longer than the buffer.
THEOREM FailsForSize == Spec => []FailsOnlyIfTooBig
<1>1. IInv => FailsOnlyIfTooBig
  BY DEF IInv
<1> QED BY <1>1, Invariant, PTL

\* A buffer of the worst case size is never too small.
THEOREM WorstCaseIsEnough == Spec => []WorstCaseSuffices
<1>1. IInv => WorstCaseSuffices
  BY DEF IInv
<1> QED BY <1>1, Invariant, PTL
-----------------------------------------------------------------------------
(***************************************************************************)
(* Bits.  Half(n, k) is n without its last k bits.                         *)
(***************************************************************************)
Half(n, k) == n \div 2^k

LEMMA Halves ==
  ASSUME NEW n \in Nat
  PROVE  /\ Half(n, 0) = n /\ Half(n, 16) \in Nat
         /\ \A k \in 0 .. 15 : /\ Half(n, k) \in Nat
                              /\ Half(n, k + 1) = Half(n, k) \div 2
                              /\ BitAt(n, k) = Half(n, k) % 2
                              /\ BitAt(n, k) \in {0, 1}
<1>1. Half(n, 0) = n \div 1 /\ Half(n, 0) \in Nat
  BY DEF Half
<1>2. Half(n, 1) = n \div 2 /\ Half(n, 1) \in Nat
  BY DEF Half
<1>3. Half(n, 2) = n \div 4 /\ Half(n, 2) \in Nat
  BY DEF Half
<1>4. Half(n, 3) = n \div 8 /\ Half(n, 3) \in Nat
  BY DEF Half
<1>5. Half(n, 4) = n \div 16 /\ Half(n, 4) \in Nat
  BY DEF Half
<1>6. Half(n, 5) = n \div 32 /\ Half(n, 5) \in Nat
  BY DEF Half
<1>7. Half(n, 6) = n \div 64 /\ Half(n, 6) \in Nat
  BY DEF Half
<1>8. Half(n, 7) = n \div 128 /\ Half(n, 7) \in Nat
  BY DEF Half
<1>9. Half(n, 8) = n \div 256 /\ Half(n, 8) \in Nat
  BY DEF Half
<1>10. Half(n, 9) = n \div 512 /\ Half(n, 9) \in Nat
  BY DEF Half
<1>11. Half(n, 10) = n \div 1024 /\ Half(n, 10) \in Nat
  BY DEF Half
<1>12. Half(n, 11) = n \div 2048 /\ Half(n, 11) \in Nat
  BY DEF Half
<1>13. Half(n, 12) = n \div 4096 /\ Half(n, 12) \in Nat
  BY DEF Half
<1>14. Half(n, 13) = n \div 8192 /\ Half(n, 13) \in Nat
  BY DEF Half
<1>15. Half(n, 14) = n \div 16384 /\ Half(n, 14) \in Nat
  BY DEF Half
<1>16. Half(n, 15) = n \div 32768 /\ Half(n, 15) \in Nat
  BY DEF Half
<1>17. Half(n, 16) = n \div 65536 /\ Half(n, 16) \in Nat
  BY DEF Half
<1>18. /\ Half(n, 0 + 1) = Half(n, 0) \div 2
       /\ BitAt(n, 0) = Half(n, 0) % 2 /\ BitAt(n, 0) \in {0, 1}
  <2>1. BitAt(n, 0) = Half(n, 0) % 2
    BY DEF BitAt, Half
  <2>2. n \div 2 = (n \div 1) \div 2 /\ 0 + 1 = 1
    OBVIOUS
  <2>3. Half(n, 0) % 2 \in {0, 1}
    BY <1>1
  <2> QED BY <1>1, <1>2, <2>1, <2>2, <2>3
<1>19. /\ Half(n, 1 + 1) = Half(n, 1) \div 2
       /\ BitAt(n, 1) = Half(n, 1) % 2 /\ BitAt(n, 1) \in {0, 1}
  <2>1. BitAt(n, 1) = Half(n, 1) % 2
    BY DEF BitAt, Half
  <2>2. n \div 4 = (n \div 2) \div 2 /\ 1 + 1 = 2
    OBVIOUS
  <2>3. Half(n, 1) % 2 \in {0, 1}
    BY <1>2
  <2> QED BY <1>2, <1>3, <2>1, <2>2, <2>3
<1>20. /\ Half(n, 2 + 1) = Half(n, 2) \div 2
       /\ BitAt(n, 2) = Half(n, 2) % 2 /\ BitAt(n, 2) \in {0, 1}
  <2>1. BitAt(n, 2) = Half(n, 2) % 2
    BY DEF BitAt, Half
  <2>2. n \div 8 = (n \div 4) \div 2 /\ 2 + 1 = 3
    OBVIOUS
  <2>3. Half(n, 2) % 2 \in {0, 1}
    BY <1>3
  <2> QED BY <1>3, <1>4, <2>1, <2>2, <2>3
<1>21. /\ Half(n, 3 + 1) = Half(n, 3) \div 2
       /\ BitAt(n, 3) = Half(n, 3) % 2 /\ BitAt(n, 3) \in {0, 1}
  <2>1. BitAt(n, 3) = Half(n, 3) % 2
    BY DEF BitAt, Half
  <2>2. n \div 16 = (n \div 8) \div 2 /\ 3 + 1 = 4
    OBVIOUS
  <2>3. Half(n, 3) % 2 \in {0, 1}
    BY <1>4
  <2> QED BY <1>4, <1>5, <2>1, <2>2, <2>3
<1>22. /\ Half(n, 4 + 1) = Half(n, 4) \div 2
       /\ BitAt(n, 4) = Half(n, 4) % 2 /\ BitAt(n, 4) \in {0, 1}
  <2>1. BitAt(n, 4) = Half(n, 4) % 2
    BY DEF BitAt, Half
  <2>2. n \div 32 = (n \div 16) \div 2 /\ 4 + 1 = 5
    OBVIOUS
  <2>3. Half(n, 4) % 2 \in {0, 1}
    BY <1>5
  <2> QED BY <1>5, <1>6, <2>1, <2>2, <2>3
<1>23. /\ Half(n, 5 + 1) = Half(n, 5) \div 2
       /\ BitAt(n, 5) = Half(n, 5) % 2 /\ BitAt(n, 5) \in {0, 1}
  <2>1. BitAt(n, 5) = Half(n, 5) % 2
    BY DEF BitAt, Half
  <2>2. n \div 64 = (n \div 32) \div 2 /\ 5 + 1 = 6
    OBVIOUS
  <2>3. Half(n, 5) % 2 \in {0, 1}
    BY <1>6
  <2> QED BY <1>6, <1>7, <2>1, <2>2, <2>3
<1>24. /\ Half(n, 6 + 1) = Half(n, 6) \div 2
       /\ BitAt(n, 6) = Half(n, 6) % 2 /\ BitAt(n, 6) \in {0, 1}
  <2>1. BitAt(n, 6) = Half(n, 6) % 2
    BY DEF BitAt, Half
  <2>2. n \div 128 = (n \div 64) \div 2 /\ 6 + 1 = 7
    OBVIOUS
  <2>3. Half(n, 6) % 2 \in {0, 1}
    BY <1>7
  <2> QED BY <1>7, <1>8, <2>1, <2>2, <2>3
<1>25. /\ Half(n, 7 + 1) = Half(n, 7) \div 2
       /\ BitAt(n, 7) = Half(n, 7) % 2 /\ BitAt(n, 7) \in {0, 1}
  <2>1. BitAt(n, 7) = Half(n, 7) % 2
    BY DEF BitAt, Half
  <2>2. n \div 256 = (n \div 128) \div 2 /\ 7 + 1 = 8
    OBVIOUS
  <2>3. Half(n, 7) % 2 \in {0, 1}
    BY <1>8
  <2> QED BY <1>8, <1>9, <2>1, <2>2, <2>3
<1>26. /\ Half(n, 8 + 1) = Half(n, 8) \div 2
       /\ BitAt(n, 8) = Half(n, 8) % 2 /\ BitAt(n, 8) \in {0, 1}
  <2>1. BitAt(n, 8) = Half(n, 8) % 2
    BY DEF BitAt, Half
  <2>2. n \div 512 = (n \div 256) \div 2 /\ 8 + 1 = 9
    OBVIOUS
  <2>3. Half(n, 8) % 2 \in {0, 1}
    BY <1>9
  <2> QED BY <1>9, <1>10, <2>1, <2>2, <2>3
<1>27. /\ Half(n, 9 + 1) = Half(n, 9) \div 2
       /\ BitAt(n, 9) = Half(n, 9) % 2 /\ BitAt(n, 9) \in {0, 1}
  <2>1. BitAt(n, 9) = Half(n, 9) % 2
    BY DEF BitAt, Half
  <2>2. n \div 1024 = (n \div 512) \div 2 /\ 9 + 1 = 10
    OBVIOUS
  <2>3. Half(n, 9) % 2 \in {0, 1}
    BY <1>10
  <2> QED BY <1>10, <1>11, <2>1, <2>2, <2>3
<1>28. /\ Half(n, 10 + 1) = Half(n, 10) \div 2
       /\ BitAt(n, 10) = Half(n, 10) % 2 /\ BitAt(n, 10) \in {0, 1}
  <2>1. BitAt(n, 10) = Half(n, 10) % 2
    BY DEF BitAt, Half
  <2>2. n \div 2048 = (n \div 1024) \div 2 /\ 10 + 1 = 11
    OBVIOUS
  <2>3. Half(n, 10) % 2 \in {0, 1}
    BY <1>11
  <2> QED BY <1>11, <1>12, <2>1, <2>2, <2>3
<1>29. /\ Half(n, 11 + 1) = Half(n, 11) \div 2
       /\ BitAt(n, 11) = Half(n, 11) % 2 /\ BitAt(n, 11) \in {0, 1}
  <2>1. BitAt(n, 11) = Half(n, 11) % 2
    BY DEF BitAt, Half
  <2>2. n \div 4096 = (n \div 2048) \div 2 /\ 11 + 1 = 12
    OBVIOUS
  <2>3. Half(n, 11) % 2 \in {0, 1}
    BY <1>12
  <2> QED BY <1>12, <1>13, <2>1, <2>2, <2>3
<1>30. /\ Half(n, 12 + 1) = Half(n, 12) \div 2
       /\ BitAt(n, 12) = Half(n, 12) % 2 /\ BitAt(n, 12) \in {0, 1}
  <2>1. BitAt(n, 12) = Half(n, 12) % 2
    BY DEF BitAt, Half
  <2>2. n \div 8192 = (n \div 4096) \div 2 /\ 12 + 1 = 13
    OBVIOUS
  <2>3. Half(n, 12) % 2 \in {0, 1}
    BY <1>13
  <2> QED BY <1>13, <1>14, <2>1, <2>2, <2>3
<1>31. /\ Half(n, 13 + 1) = Half(n, 13) \div 2
       /\ BitAt(n, 13) = Half(n, 13) % 2 /\ BitAt(n, 13) \in {0, 1}
  <2>1. BitAt(n, 13) = Half(n, 13) % 2
    BY DEF BitAt, Half
  <2>2. n \div 16384 = (n \div 8192) \div 2 /\ 13 + 1 = 14
    OBVIOUS
  <2>3. Half(n, 13) % 2 \in {0, 1}
    BY <1>14
  <2> QED BY <1>14, <1>15, <2>1, <2>2, <2>3
<1>32. /\ Half(n, 14 + 1) = Half(n, 14) \div 2
       /\ BitAt(n, 14) = Half(n, 14) % 2 /\ BitAt(n, 14) \in {0, 1}
  <2>1. BitAt(n, 14) = Half(n, 14) % 2
    BY DEF BitAt, Half
  <2>2. n \div 32768 = (n \div 16384) \div 2 /\ 14 + 1 = 15
    OBVIOUS
  <2>3. Half(n, 14) % 2 \in {0, 1}
    BY <1>15
  <2> QED BY <1>15, <1>16, <2>1, <2>2, <2>3
<1>33. /\ Half(n, 15 + 1) = Half(n, 15) \div 2
       /\ BitAt(n, 15) = Half(n, 15) % 2 /\ BitAt(n, 15) \in {0, 1}
  <2>1. BitAt(n, 15) = Half(n, 15) % 2
    BY DEF BitAt, Half
  <2>2. n \div 65536 = (n \div 32768) \div 2 /\ 15 + 1 = 16
    OBVIOUS
  <2>3. Half(n, 15) % 2 \in {0, 1}
    BY <1>16
  <2> QED BY <1>16, <1>17, <2>1, <2>2, <2>3
<1>34. n \div 1 = n
  OBVIOUS
<1> QED BY <1>1, <1>2, <1>3, <1>4, <1>5, <1>6, <1>7, <1>8, <1>9, <1>10, <1>11, <1>12,
           <1>13, <1>14, <1>15, <1>16, <1>17, <1>18, <1>19, <1>20, <1>21, <1>22, <1>23,
           <1>24, <1>25, <1>26, <1>27, <1>28, <1>29, <1>30, <1>31, <1>32, <1>33, <1>34

LEMMA BitValue == \A n \in Nat : \A k \in 0 .. 15 : BitAt(n, k) \in {0, 1}
BY Halves

\* Numbers that are the same without their last j bits have the same bits
\* from there on.
LEMMA SameAbove ==
  ASSUME NEW m \in Nat, NEW n \in Nat, NEW j \in 0 .. 16, Half(m, j) = Half(n, j)
  PROVE  /\ Half(m, 16) = Half(n, 16)
         /\ \A k \in j .. 15 : BitAt(m, k) = BitAt(n, k)
<1> DEFINE T == {k \in Nat : k \in j .. 16 => Half(m, k) = Half(n, k)}
<1>1. 0 \in T
  OBVIOUS
<1>2. ASSUME NEW k \in T PROVE k + 1 \in T
  <2> SUFFICES ASSUME k + 1 \in j .. 16 PROVE Half(m, k + 1) = Half(n, k + 1)
    OBVIOUS
  <2>1. CASE k + 1 = j
    BY <2>1
  <2>2. CASE k + 1 # j
    <3>1. k \in j .. 16 /\ k \in 0 .. 15
      BY <2>2
    <3>2. Half(m, k) = Half(n, k)
      BY <3>1
    <3>3. Half(m, k + 1) = Half(m, k) \div 2 /\ Half(n, k + 1) = Half(n, k) \div 2
      BY <3>1, Halves
    <3> QED BY <3>2, <3>3
  <2> QED BY <2>1, <2>2
<1> HIDE DEF T
<1>3. T = Nat
  <2>1. T \in SUBSET Nat
    BY DEF T
  <2> QED BY <1>1, <1>2, <2>1, SetInduction
<1>4. \A k \in j .. 16 : Half(m, k) = Half(n, k)
  BY <1>3 DEF T
<1>5. ASSUME NEW k \in j .. 15 PROVE BitAt(m, k) = BitAt(n, k)
  <2>1. k \in 0 .. 15 /\ Half(m, k) = Half(n, k)
    BY <1>4
  <2>2. BitAt(m, k) = Half(m, k) % 2 /\ BitAt(n, k) = Half(n, k) % 2
    BY <2>1, Halves
  <2> QED BY <2>1, <2>2
<1> QED BY <1>4, <1>5

\* A number w[0] and its halves.
Halved(w, j) ==
  /\ \A k \in 0 .. j : w[k] \in Nat
  /\ \A k \in 0 .. j - 1 : w[k] = 2 * w[k + 1]

\* A multiple of 2^j that is added leaves the last j bits alone.
LEMMA Lifted ==
  ASSUME NEW j \in 0 .. 16, NEW w, Halved(w, j), NEW m \in Nat, NEW n \in Nat, n = m + w[0]
  PROVE  /\ Half(n, j) = Half(m, j) + w[j]
         /\ \A k \in 0 .. j - 1 : BitAt(n, k) = BitAt(m, k)
<1> DEFINE T == {k \in Nat : k \in 0 .. j => Half(n, k) = Half(m, k) + w[k]}
<1>0. /\ \A k \in 0 .. j : w[k] \in Nat
      /\ \A k \in 0 .. j - 1 : w[k] = 2 * w[k + 1]
  BY DEF Halved
<1>1. 0 \in T
  BY <1>0, Halves
<1>2. ASSUME NEW k \in 0 .. j - 1, Half(n, k) = Half(m, k) + w[k]
      PROVE  Half(n, k + 1) = Half(m, k + 1) + w[k + 1] /\ BitAt(n, k) = BitAt(m, k)
  <2> DEFINE x == Half(n, k)
             y == Half(m, k)
             d == w[k + 1]
  <2>1. k \in 0 .. 15 /\ k + 1 \in 0 .. j
    OBVIOUS
  <2>2. x = y + 2 * d /\ d \in Nat
    BY <1>0, <1>2, <2>1
  <2>3. x \in Nat /\ y \in Nat
    BY <2>1, Halves
  <2>4. /\ Half(n, k + 1) = x \div 2 /\ Half(m, k + 1) = y \div 2
        /\ BitAt(n, k) = x % 2 /\ BitAt(m, k) = y % 2
    BY <2>1, Halves
  <2> HIDE DEF x, y, d
  <2>5. x \div 2 = (y \div 2) + d /\ x % 2 = y % 2
    BY <2>2, <2>3
  <2> QED BY <2>4, <2>5 DEF d
<1>3. ASSUME NEW k \in T PROVE k + 1 \in T
  <2> SUFFICES ASSUME k + 1 \in 0 .. j PROVE Half(n, k + 1) = Half(m, k + 1) + w[k + 1]
    OBVIOUS
  <2>1. k \in 0 .. j - 1 /\ Half(n, k) = Half(m, k) + w[k]
    OBVIOUS
  <2> QED BY <1>2, <2>1
<1> HIDE DEF T
<1>4. T = Nat
  <2>1. T \in SUBSET Nat
    BY DEF T
  <2> QED BY <1>1, <1>3, <2>1, SetInduction
<1>5. \A k \in 0 .. j : Half(n, k) = Half(m, k) + w[k]
  BY <1>4 DEF T
<1> QED BY <1>2, <1>5

\* A shift to the left moves every bit by one place.
LEMMA Doubled ==
  ASSUME NEW m \in Nat, NEW n \in Nat, m = 2 * n
  PROVE  /\ BitAt(m, 0) = 0 /\ Half(m, 16) = Half(n, 15)
         /\ \A k \in 1 .. 15 : BitAt(m, k) = BitAt(n, k - 1)
<1> DEFINE T == {k \in Nat : k \in 0 .. 15 => Half(m, k + 1) = Half(n, k)}
<1>1. 0 \in T /\ BitAt(m, 0) = 0
  <2>1. /\ Half(m, 0 + 1) = Half(m, 0) \div 2 /\ BitAt(m, 0) = Half(m, 0) % 2
        /\ Half(m, 0) = m /\ Half(n, 0) = n
    BY Halves
  <2>2. m \div 2 = n /\ m % 2 = 0
    OBVIOUS
  <2> QED BY <2>1, <2>2
<1>2. ASSUME NEW k \in T PROVE k + 1 \in T
  <2> SUFFICES ASSUME k + 1 \in 0 .. 15 PROVE Half(m, (k + 1) + 1) = Half(n, k + 1)
    OBVIOUS
  <2>1. k \in 0 .. 15 /\ k + 1 \in 0 .. 15 /\ Half(m, k + 1) = Half(n, k)
    OBVIOUS
  <2>2. /\ Half(m, (k + 1) + 1) = Half(m, k + 1) \div 2
        /\ Half(n, k + 1) = Half(n, k) \div 2
    BY <2>1, Halves
  <2> QED BY <2>1, <2>2
<1> HIDE DEF T
<1>3. T = Nat
  <2>1. T \in SUBSET Nat
    BY DEF T
  <2> QED BY <1>1, <1>2, <2>1, SetInduction
<1>4. \A k \in 0 .. 15 : Half(m, k + 1) = Half(n, k)
  BY <1>3 DEF T
<1>5. ASSUME NEW k \in 1 .. 15 PROVE BitAt(m, k) = BitAt(n, k - 1)
  <2>1. k - 1 \in 0 .. 15 /\ k \in 0 .. 15 /\ (k - 1) + 1 = k
    OBVIOUS
  <2>2. Half(m, k) = Half(n, k - 1)
    BY <1>4, <2>1
  <2>3. BitAt(m, k) = Half(m, k) % 2 /\ BitAt(n, k - 1) = Half(n, k - 1) % 2
    BY <2>1, Halves
  <2> QED BY <2>2, <2>3
<1>6. Half(m, 16) = Half(n, 15)
  <2>1. 15 \in 0 .. 15 /\ 15 + 1 = 16
    OBVIOUS
  <2> QED BY <1>4, <2>1
<1> QED BY <1>1, <1>5, <1>6

\* The bits e of a number h[0], and h[k] what is left of it without k of them.
Chain(h, e, s) ==
  /\ \A k \in 0 .. s : h[k] \in Nat
  /\ \A k \in 0 .. s - 1 : e[k] \in {0, 1} /\ h[k] = e[k] + 2 * h[k + 1]

LEMMA Digits ==
  ASSUME NEW s \in 0 .. 16, NEW h, NEW e, Chain(h, e, s)
  PROVE  \A k \in 0 .. s - 1 : BitAt(h[0], k) = e[k]
<1> DEFINE n == h[0]
           T == {k \in Nat : k \in 0 .. s => Half(n, k) = h[k]}
<1>0. /\ \A k \in 0 .. s : h[k] \in Nat
      /\ \A k \in 0 .. s - 1 : e[k] \in {0, 1} /\ h[k] = e[k] + 2 * h[k + 1]
  BY DEF Chain
<1>1. n \in Nat /\ 0 \in T
  <2>1. n \in Nat
    BY <1>0
  <2>2. Half(n, 0) = n
    BY <2>1, Halves
  <2> QED BY <2>1, <2>2
<1>2. ASSUME NEW k \in 0 .. s - 1, Half(n, k) = h[k]
      PROVE  Half(n, k + 1) = h[k + 1] /\ BitAt(n, k) = e[k]
  <2> DEFINE x == h[k]
             y == h[k + 1]
             b == e[k]
  <2>1. k \in 0 .. 15 /\ k + 1 \in 0 .. s
    OBVIOUS
  <2>2. x = b + 2 * y /\ x \in Nat /\ y \in Nat /\ b \in {0, 1}
    BY <1>0, <2>1
  <2>3. Half(n, k + 1) = x \div 2 /\ BitAt(n, k) = x % 2
    <3> HIDE DEF n
    <3>1. Half(n, k + 1) = Half(n, k) \div 2 /\ BitAt(n, k) = Half(n, k) % 2
      BY <1>1, <2>1, Halves
    <3> QED BY <1>2, <3>1
  <2> HIDE DEF x, y, b
  <2>4. x \div 2 = y /\ x % 2 = b
    BY <2>2
  <2> QED BY <2>3, <2>4 DEF y, b
<1>3. ASSUME NEW k \in T PROVE k + 1 \in T
  <2> SUFFICES ASSUME k + 1 \in 0 .. s PROVE Half(n, k + 1) = h[k + 1]
    OBVIOUS
  <2>1. k \in 0 .. s - 1 /\ Half(n, k) = h[k]
    OBVIOUS
  <2> QED BY <1>2, <2>1
<1> HIDE DEF T
<1>4. T = Nat
  <2>1. T \in SUBSET Nat
    BY DEF T
  <2> QED BY <1>1, <1>3, <2>1, SetInduction
<1>5. \A k \in 0 .. s : Half(n, k) = h[k]
  BY <1>4 DEF T
<1> QED BY <1>2, <1>5

LEMMA QuotientZero ==
  ASSUME NEW w \in Nat, w > 0, NEW n \in Nat
  PROVE  n \div w = 0 <=> n < w
<1> DEFINE q == n \div w
           r == n % w
<1>1. q \in Int /\ r \in 0 .. w - 1 /\ n = w * q + r
  OBVIOUS
<1> HIDE DEF q, r
<1>2. q = 0 => n < w
  BY <1>1
<1>3. q >= 1 => n >= w
  <2>1. q >= 1 => w * q >= w
    BY <1>1
  <2> QED BY <1>1, <2>1
<1>4. ~(q <= -1)
  <2>1. q <= -1 => w * q <= -w
    BY <1>1
  <2> QED BY <1>1, <2>1
<1> QED BY <1>1, <1>2, <1>3, <1>4 DEF q

\* A remainder, when there is at most one divisor to take away.
LEMMA SmallRemainder ==
  ASSUME NEW w \in Nat, w > 0, NEW n \in Nat, n < 2 * w
  PROVE  n % w = IF n < w THEN n ELSE n - w
<1>1. CASE n < w
  <2>1. n \in 0 .. w - 1 /\ n = 0 * w + n
    BY <1>1
  <2>2. (0 * w + n) % w = n
    BY <2>1, Quotient
  <2> QED BY <1>1, <2>1, <2>2
<1>2. CASE ~(n < w)
  <2> DEFINE low == n - w
  <2>1. low \in 0 .. w - 1 /\ n = 1 * w + low
    BY <1>2
  <2> HIDE DEF low
  <2>2. (1 * w + low) % w = low
    BY <2>1, Quotient
  <2> QED BY <1>2, <2>1, <2>2 DEF low
<1> QED BY <1>1, <1>2

LEMMA Uint16Is == \A n \in Nat : n \in Uint16 <=> n < 65536
BY DEF Uint16, Width

LEMMA Uint16Half == \A n \in Nat : n \in Uint16 <=> Half(n, 16) = 0
<1> SUFFICES ASSUME NEW n \in Nat PROVE n \in Uint16 <=> Half(n, 16) = 0
  OBVIOUS
<1> DEFINE w == 65536
<1>1. Half(n, 16) = n \div w
  BY DEF Half
<1>2. n \in Uint16 <=> n < w
  BY DEF Uint16, Width
<1>3. w \in Nat /\ w > 0
  OBVIOUS
<1> HIDE DEF w
<1>4. n \div w = 0 <=> n < w
  BY <1>3, QuotientZero
<1> QED BY <1>1, <1>2, <1>4

-----------------------------------------------------------------------------
(***************************************************************************)
(* The registers of fusain_crc16.                                          *)
(***************************************************************************)
\* Powers of two, from 2^j down to 1.
Powers(w, j) == Halved(w, j) /\ w[j] = 1

\* 2^j added to a number flips its bit j, and no other if that was zero.
LEMMA OneLifted ==
  ASSUME NEW j \in 0 .. 15, NEW w, Powers(w, j),
         NEW m \in Nat, NEW n \in Nat, n = m + w[0], BitAt(m, j) = 0 \/ BitAt(n, j) = 1
  PROVE  /\ Half(n, 16) = Half(m, 16)
         /\ \A k \in 0 .. 15 :
              BitAt(n, k) = IF k = j THEN 1 - BitAt(m, k) ELSE BitAt(m, k)
<1> DEFINE x == Half(n, j)
           y == Half(m, j)
<1>1. j \in 0 .. 16
  OBVIOUS
<1>2. x = y + 1 /\ \A k \in 0 .. j - 1 : BitAt(n, k) = BitAt(m, k)
  <2>1. Halved(w, j) /\ w[j] = 1
    BY DEF Powers
  <2>2. /\ Half(n, j) = Half(m, j) + w[j]
        /\ \A k \in 0 .. j - 1 : BitAt(n, k) = BitAt(m, k)
    BY <1>1, <2>1, Lifted
  <2> QED BY <2>1, <2>2
<1>3. /\ x \in Nat /\ y \in Nat
      /\ BitAt(n, j) = x % 2 /\ BitAt(m, j) = y % 2
      /\ Half(n, j + 1) = x \div 2 /\ Half(m, j + 1) = y \div 2
  BY Halves
<1>4. x \div 2 = y \div 2 /\ x % 2 = 1 - (y % 2)
  <2>1. y % 2 = 0 \/ x % 2 = 1
    BY <1>3
  <2>2. x = y + 1 /\ x \in Nat /\ y \in Nat
    BY <1>2, <1>3
  <2> HIDE DEF x, y
  <2> QED BY <2>1, <2>2
<1>5. Half(n, j + 1) = Half(m, j + 1) /\ BitAt(n, j) = 1 - BitAt(m, j)
  BY <1>3, <1>4
<1>6. /\ Half(n, 16) = Half(m, 16)
      /\ \A k \in j + 1 .. 15 : BitAt(n, k) = BitAt(m, k)
  <2>1. j + 1 \in 0 .. 16
    OBVIOUS
  <2> QED BY <1>5, <2>1, SameAbove
<1> HIDE DEF x, y
<1> QED BY <1>2, <1>5, <1>6

\* FlipBit flips one bit of a register.
LEMMA Flipped ==
  ASSUME NEW n \in Uint16, NEW j \in 0 .. 15,
         NEW w, Powers(w, j), w[0] > 0, w[0] = 2^j
  PROVE  /\ FlipBit(n, j) \in Uint16
         /\ \A k \in 0 .. 15 : BitAt(FlipBit(n, j), k)
                                = IF k = j THEN 1 - BitAt(n, k) ELSE BitAt(n, k)
<1> DEFINE m == FlipBit(n, j)
<1>1. n \in Nat /\ Half(n, 16) = 0 /\ w[0] \in Nat
  <2>1. n \in Nat
    BY DEF Uint16
  <2>2. w[0] \in Nat
    BY DEF Powers, Halved
  <2> QED BY <2>1, <2>2, Uint16Half
<1>2. BitAt(n, j) \in {0, 1} /\ (BitAt(n, j) = 1 => n >= w[0])
  <2> DEFINE p == w[0]
             q == n \div p
  <2>1. BitAt(n, j) = q % 2
    BY DEF BitAt
  <2>2. p \in Nat /\ p > 0
    BY <1>1
  <2> HIDE DEF p
  <2>3. q = 0 <=> n < p
    BY <1>1, <2>2, QuotientZero
  <2> HIDE DEF q
  <2>4. q = 0 => q % 2 = 0
    OBVIOUS
  <2>5. BitAt(n, j) \in {0, 1}
    BY <1>1, Halves
  <2>6. BitAt(n, j) = 1 => n >= p
    BY <1>1, <2>1, <2>2, <2>3, <2>4
  <2> QED BY <2>5, <2>6 DEF p
<1>3. CASE BitAt(n, j) = 0
  <2>1. m = n + w[0] /\ m \in Nat
    BY <1>1, <1>3 DEF FlipBit
  <2> HIDE DEF m
  <2>2. /\ Half(m, 16) = Half(n, 16)
        /\ \A k \in 0 .. 15 : BitAt(m, k) = IF k = j THEN 1 - BitAt(n, k) ELSE BitAt(n, k)
    BY <1>1, <1>3, <2>1, OneLifted
  <2> QED BY <1>1, <2>1, <2>2, Uint16Half DEF m
<1>4. CASE BitAt(n, j) = 1
  <2>1. m = n - w[0]
    BY <1>1, <1>4 DEF FlipBit
  <2>2. m \in Nat /\ n = m + w[0]
    BY <1>1, <1>2, <1>4, <2>1
  <2> HIDE DEF m
  <2>3. /\ Half(n, 16) = Half(m, 16)
        /\ \A k \in 0 .. 15 : BitAt(n, k) = IF k = j THEN 1 - BitAt(m, k) ELSE BitAt(m, k)
    BY <1>1, <1>4, <2>2, OneLifted
  <2>4. \A k \in 0 .. 15 : BitAt(m, k) \in {0, 1}
    BY <2>2, Halves
  <2>5. \A k \in 0 .. 15 : BitAt(m, k) = IF k = j THEN 1 - BitAt(n, k) ELSE BitAt(n, k)
    BY <2>3, <2>4
  <2> QED BY <1>1, <2>2, <2>3, <2>5, Uint16Half DEF m
<1> QED BY <1>2, <1>3, <1>4

LEMMA Flip0 ==
  ASSUME NEW n \in Uint16
  PROVE  /\ FlipBit(n, 0) \in Uint16
         /\ \A k \in 0 .. 15 : BitAt(FlipBit(n, 0), k)
                                = IF k = 0 THEN 1 - BitAt(n, k) ELSE BitAt(n, k)
<1> DEFINE w == [k \in 0 .. 0 |-> <<1>>[k + 1]]
<1>1. Powers(w, 0) /\ w[0] = 1
  BY DEF Powers, Halved
<1>2. 0 \in 0 .. 15 /\ w[0] > 0 /\ w[0] = 2^0
  BY <1>1
<1> HIDE DEF w
<1> QED BY <1>1, <1>2, Flipped

LEMMA Flip5 ==
  ASSUME NEW n \in Uint16
  PROVE  /\ FlipBit(n, 5) \in Uint16
         /\ \A k \in 0 .. 15 : BitAt(FlipBit(n, 5), k)
                                = IF k = 5 THEN 1 - BitAt(n, k) ELSE BitAt(n, k)
<1> DEFINE w == [k \in 0 .. 5 |-> <<32, 16, 8, 4, 2, 1>>[k + 1]]
<1>1. Powers(w, 5) /\ w[0] = 32
  BY DEF Powers, Halved
<1>2. 5 \in 0 .. 15 /\ w[0] > 0 /\ w[0] = 2^5
  BY <1>1
<1> HIDE DEF w
<1> QED BY <1>1, <1>2, Flipped

LEMMA Flip12 ==
  ASSUME NEW n \in Uint16
  PROVE  /\ FlipBit(n, 12) \in Uint16
         /\ \A k \in 0 .. 15 : BitAt(FlipBit(n, 12), k)
                                = IF k = 12 THEN 1 - BitAt(n, k) ELSE BitAt(n, k)
<1> DEFINE w == [k \in 0 .. 12 |->
                  <<4096, 2048, 1024, 512, 256, 128, 64, 32, 16, 8, 4, 2, 1>>[k + 1]]
<1>1. Powers(w, 12) /\ w[0] = 4096
  BY DEF Powers, Halved
<1>2. 12 \in 0 .. 15 /\ w[0] > 0 /\ w[0] = 2^12
  BY <1>1
<1> HIDE DEF w
<1> QED BY <1>1, <1>2, Flipped

\* Polynomials of degree below 16 as registers.
Bits(n) == {k \in 0 .. 15 : BitAt(n, k) = 1}

LEMMA BitsOfFlip ==
  ASSUME NEW j \in 0 .. 15, NEW n, NEW m,
         \A k \in 0 .. 15 : BitAt(n, k) \in {0, 1},
         \A k \in 0 .. 15 : BitAt(m, k) = IF k = j THEN 1 - BitAt(n, k) ELSE BitAt(n, k)
  PROVE  Bits(m) = Plus(Bits(n), {j})
<1>1. \A k \in 0 .. 15 : k # j => (BitAt(m, k) = 1 <=> BitAt(n, k) = 1)
  OBVIOUS
<1>2. BitAt(m, j) = 1 <=> BitAt(n, j) # 1
  <2>1. BitAt(n, j) \in {0, 1} /\ BitAt(m, j) = 1 - BitAt(n, j)
    OBVIOUS
  <2> QED BY <2>1
<1> QED BY <1>1, <1>2 DEF Bits, Plus

LEMMA XorPolynomialBits ==
  ASSUME NEW n \in Uint16
  PROVE  /\ XorPolynomial(n) \in Uint16
         /\ Bits(XorPolynomial(n)) = Plus(Bits(n), {12, 5, 0})
<1> DEFINE a == FlipBit(n, 12)
           b == FlipBit(a, 5)
           c == FlipBit(b, 0)
<1>1. \A x \in Uint16 : \A k \in 0 .. 15 : BitAt(x, k) \in {0, 1}
  <2> SUFFICES ASSUME NEW x \in Uint16
               PROVE  \A k \in 0 .. 15 : BitAt(x, k) \in {0, 1}
    OBVIOUS
  <2>1. x \in Nat
    BY DEF Uint16
  <2> QED BY <2>1, Halves
<1>2. a \in Uint16 /\ Bits(a) = Plus(Bits(n), {12})
  <2>1. 12 \in 0 .. 15
    OBVIOUS
  <2> QED BY <1>1, <2>1, Flip12, BitsOfFlip
<1> HIDE DEF a
<1>3. b \in Uint16 /\ Bits(b) = Plus(Bits(a), {5})
  <2>1. 5 \in 0 .. 15
    OBVIOUS
  <2> QED BY <1>1, <1>2, <2>1, Flip5, BitsOfFlip
<1> HIDE DEF b
<1>4. c \in Uint16 /\ Bits(c) = Plus(Bits(b), {0})
  <2>1. 0 \in 0 .. 15
    OBVIOUS
  <2> QED BY <1>1, <1>3, <2>1, Flip0, BitsOfFlip
<1>5. XorPolynomial(n) = c
  BY DEF XorPolynomial, a, b
<1>6. Plus(Plus(Plus(Bits(n), {12}), {5}), {0}) = Plus(Bits(n), {12, 5, 0})
  BY DEF Plus
<1> HIDE DEF c
<1> QED BY <1>2, <1>3, <1>4, <1>5, <1>6

\* A carry out of the register leaves its bits alone.
LEMMA WidthLifted ==
  ASSUME NEW m \in Nat, NEW n \in Nat, n = m + 65536
  PROVE  \A k \in 0 .. 15 : BitAt(n, k) = BitAt(m, k)
<1> DEFINE w == [k \in 0 .. 16 |->
                  <<65536, 32768, 16384, 8192, 4096, 2048, 1024, 512, 256,
                    128, 64, 32, 16, 8, 4, 2, 1>>[k + 1]]
<1>1. Halved(w, 16) /\ w[0] = 65536
  BY DEF Halved
<1>2. 16 \in 0 .. 16 /\ n = m + w[0] /\ 16 - 1 = 15
  BY <1>1
<1> HIDE DEF w
<1>3. \A k \in 0 .. 16 - 1 : BitAt(n, k) = BitAt(m, k)
  BY <1>1, <1>2, Lifted
<1> QED BY <1>2, <1>3

\* A turn of the inner loop multiplies by x, and subtracts the polynomial if
\* that gives x^16.
TimesX(f) == IF 15 \in f THEN Plus(Times(1, f), Generator) ELSE Times(1, f)

LEMMA ShiftBitBits ==
  ASSUME NEW n \in Uint16
  PROVE  ShiftBit(n) \in Uint16 /\ Bits(ShiftBit(n)) = TimesX(Bits(n))
<1> DEFINE d == n * 2
           m == d % Width
           top == BitAt(n, 15)
<1>1. n \in Nat /\ d \in Nat /\ n < 65536 /\ d = 2 * n
  BY DEF Uint16, Width
<1>2. /\ BitAt(d, 0) = 0 /\ Half(d, 16) = Half(n, 15)
      /\ \A k \in 1 .. 15 : BitAt(d, k) = BitAt(n, k - 1)
  BY <1>1, Doubled
<1>3. m = IF d < 65536 THEN d ELSE d - 65536
  <2> DEFINE w == 65536
  <2>1. w \in Nat /\ w > 0 /\ d < 2 * w /\ m = d % w
    BY <1>1 DEF Width
  <2> HIDE DEF w, m, d
  <2>2. m = IF d < w THEN d ELSE d - w
    BY <1>1, <2>1, SmallRemainder
  <2> QED BY <2>2 DEF w
<1> HIDE DEF m, d
<1>4. /\ m \in Uint16 /\ m \in Nat
      /\ n >= 32768 => d = m + 65536
      /\ ~(n >= 32768) => d = m
  <2>1. d < 65536 <=> ~(n >= 32768)
    BY <1>1
  <2>2. m \in Nat /\ m < 65536
    BY <1>1, <1>3
  <2>3. m \in Uint16
    BY <2>2, Uint16Is
  <2> QED BY <1>1, <1>3, <2>1, <2>2, <2>3
<1>5. top = 1 <=> n >= 32768
  <2> DEFINE w == 32768
             q == Half(n, 15)
  <2>1. w \in Nat /\ w > 0 /\ q = n \div w
    BY DEF Half
  <2> HIDE DEF w
  <2>2. q = 0 <=> n < w
    BY <1>1, <2>1, QuotientZero
  <2>3. q \in Nat /\ top = q % 2 /\ q \div 2 = 0
    <3>1. Half(n, 16) = 0
      BY <1>1, Uint16Half
    <3>2. /\ Half(n, 15) \in Nat /\ BitAt(n, 15) = Half(n, 15) % 2
          /\ Half(n, 15 + 1) = Half(n, 15) \div 2 /\ 15 + 1 = 16
      BY <1>1, Halves
    <3> QED BY <3>1, <3>2
  <2> HIDE DEF q, top
  <2>4. top = q /\ q \in {0, 1}
    BY <2>3
  <2> QED BY <1>1, <2>2, <2>4 DEF w
<1>6. \A k \in 0 .. 15 : BitAt(d, k) = BitAt(m, k)
  <2>1. CASE d = m
    BY <2>1
  <2>2. CASE d = m + 65536
    BY <1>1, <1>4, <2>2, WidthLifted
  <2> QED BY <1>4, <2>1, <2>2
<1>7. Bits(m) = Times(1, Bits(n)) \ {16}
  <2>1. \A k \in 0 .. 15 : k \in Bits(m) <=> k # 0 /\ k - 1 \in Bits(n)
    <3> SUFFICES ASSUME NEW k \in 0 .. 15
                 PROVE  BitAt(m, k) = 1 <=> k # 0 /\ BitAt(n, k - 1) = 1
      BY DEF Bits
    <3> QED BY <1>2, <1>6
  <2> QED BY <2>1 DEF Bits, Times
<1>8. 15 \in Bits(n) <=> n >= 32768
  BY <1>5 DEF Bits
<1>9. CASE n >= 32768
  <2>1. ShiftBit(n) = XorPolynomial(m)
    BY <1>9 DEF ShiftBit, m, d
  <2>2. /\ ShiftBit(n) \in Uint16
        /\ Bits(ShiftBit(n)) = Plus(Times(1, Bits(n)) \ {16}, {12, 5, 0})
    BY <1>4, <1>7, <2>1, XorPolynomialBits
  <2>3. 16 \in Times(1, Bits(n))
    BY <1>8, <1>9 DEF Times
  <2>4. Plus(Times(1, Bits(n)) \ {16}, {12, 5, 0}) = Plus(Times(1, Bits(n)), Generator)
    BY <2>3 DEF Plus, Generator
  <2> QED BY <1>8, <1>9, <2>2, <2>4 DEF TimesX
<1>10. CASE ~(n >= 32768)
  <2>1. ShiftBit(n) = m
    BY <1>10 DEF ShiftBit, m, d
  <2>2. 16 \notin Times(1, Bits(n))
    BY <1>8, <1>10 DEF Times, Bits
  <2> QED BY <1>4, <1>7, <1>8, <1>10, <2>1, <2>2 DEF TimesX
<1> QED BY <1>9, <1>10
\* The bits of a number from the eighth on are those of the number above them.
LEMMA BitsAbove ==
  ASSUME NEW n \in Nat, NEW high \in Nat, Half(n, 8) = high
  PROVE  \A k \in 0 .. 7 : BitAt(n, k + 8) = BitAt(high, k)
<1> DEFINE T == {k \in Nat : k \in 0 .. 8 => Half(n, k + 8) = Half(high, k)}
<1>1. 0 \in T
  <2>1. Half(high, 0) = high /\ 0 + 8 = 8
    BY Halves
  <2> QED BY <2>1
<1>2. ASSUME NEW k \in T PROVE k + 1 \in T
  <2> SUFFICES ASSUME k + 1 \in 0 .. 8 PROVE Half(n, (k + 1) + 8) = Half(high, k + 1)
    OBVIOUS
  <2>1. PICK u \in 0 .. 15 : u = k + 8
    OBVIOUS
  <2>2. k \in 0 .. 15 /\ Half(n, u) = Half(high, k) /\ u + 1 = (k + 1) + 8
    BY <2>1
  <2>3. Half(n, u + 1) = Half(n, u) \div 2 /\ Half(high, k + 1) = Half(high, k) \div 2
    BY <2>2, Halves
  <2> QED BY <2>2, <2>3
<1> HIDE DEF T
<1>3. T = Nat
  <2>1. T \in SUBSET Nat
    BY DEF T
  <2> QED BY <1>1, <1>2, <2>1, SetInduction
<1>4. \A k \in 0 .. 8 : Half(n, k + 8) = Half(high, k)
  BY <1>3 DEF T
<1>5. ASSUME NEW k \in 0 .. 7 PROVE BitAt(n, k + 8) = BitAt(high, k)
  <2>1. PICK u \in 0 .. 15 : u = k + 8
    OBVIOUS
  <2>2. k \in 0 .. 15 /\ Half(n, u) = Half(high, k)
    BY <1>4, <2>1
  <2>3. BitAt(n, u) = Half(n, u) % 2 /\ BitAt(high, k) = Half(high, k) % 2
    BY <2>2, Halves
  <2> QED BY <2>1, <2>2, <2>3
<1> QED BY <1>5

\* The bits of a number put together from a byte and what stands above it.
IsTwoBytes(n, high, low) ==
  /\ n \in Nat /\ high \in Nat /\ low \in Nat /\ low < 256
  /\ n = high * 256 + low

LEMMA TwoBytes ==
  ASSUME NEW n, NEW high, NEW low, IsTwoBytes(n, high, low)
  PROVE  \A k \in 0 .. 7 : BitAt(n, k) = BitAt(low, k) /\ BitAt(n, k + 8) = BitAt(high, k)
<1> DEFINE w == [k \in 0 .. 8 |-> <<256 * high, 128 * high, 64 * high, 32 * high,
                                    16 * high, 8 * high, 4 * high, 2 * high, high>>[k + 1]]
<1>0. n \in Nat /\ high \in Nat /\ low \in Nat /\ low < 256 /\ n = high * 256 + low
  BY DEF IsTwoBytes
<1>1. Halved(w, 8) /\ w[0] = 256 * high /\ w[8] = high
  BY <1>0 DEF Halved
<1> HIDE DEF w
<1>2. n = low + w[0] /\ 8 \in 0 .. 16 /\ 8 - 1 = 7
  BY <1>0, <1>1
<1>3. Half(low, 8) = 0
  <2>1. low \div 256 = 0 /\ Half(low, 8) = low \div 256
    BY <1>0 DEF Half
  <2> QED BY <2>1
<1>4. /\ Half(n, 8) = Half(low, 8) + w[8]
      /\ \A k \in 0 .. 8 - 1 : BitAt(n, k) = BitAt(low, k)
  BY <1>0, <1>1, <1>2, Lifted
<1>5. Half(n, 8) = high
  BY <1>0, <1>1, <1>3, <1>4
<1>6. \A k \in 0 .. 7 : BitAt(n, k + 8) = BitAt(high, k)
  BY <1>0, <1>5, BitsAbove
<1> QED BY <1>2, <1>4, <1>6

\* XorByte is the exclusive or of the bits.
LEMMA XorByteBits ==
  ASSUME NEW a \in Nat, NEW b \in Nat
  PROVE  /\ XorByte(a, b) \in Uint8
         /\ \A k \in 0 .. 7 : BitAt(XorByte(a, b), k) = 1 <=> BitAt(a, k) # BitAt(b, k)
         /\ a = b => XorByte(a, b) = 0
<1> DEFINE e == [k \in 0 .. 7 |-> IF BitAt(a, k) = BitAt(b, k) THEN 0 ELSE 1]
           h == [k \in 0 .. 8 |->
                  <<e[0] + 2 * e[1] + 4 * e[2] + 8 * e[3]
                      + 16 * e[4] + 32 * e[5] + 64 * e[6] + 128 * e[7],
                    e[1] + 2 * e[2] + 4 * e[3] + 8 * e[4] + 16 * e[5] + 32 * e[6] + 64 * e[7],
                    e[2] + 2 * e[3] + 4 * e[4] + 8 * e[5] + 16 * e[6] + 32 * e[7],
                    e[3] + 2 * e[4] + 4 * e[5] + 8 * e[6] + 16 * e[7],
                    e[4] + 2 * e[5] + 4 * e[6] + 8 * e[7],
                    e[5] + 2 * e[6] + 4 * e[7], e[6] + 2 * e[7], e[7], 0>>[k + 1]]
           d(k) == IF BitAt(a, k) = BitAt(b, k) THEN 0 ELSE 2^k
<1>1. /\ d(0) = e[0] /\ d(1) = 2 * e[1] /\ d(2) = 4 * e[2] /\ d(3) = 8 * e[3]
      /\ d(4) = 16 * e[4] /\ d(5) = 32 * e[5] /\ d(6) = 64 * e[6] /\ d(7) = 128 * e[7]
  OBVIOUS
<1>2. \A k \in 0 .. 7 : e[k] \in {0, 1} /\ (e[k] = 1 <=> BitAt(a, k) # BitAt(b, k))
  OBVIOUS
<1>3. XorByte(a, b) = d(0) + d(1) + d(2) + d(3) + d(4) + d(5) + d(6) + d(7)
  BY DEF XorByte
<1>4. a = b => \A k \in 0 .. 7 : e[k] = 0
  OBVIOUS
<1> HIDE DEF e, d
<1>5. /\ e[0] \in {0, 1} /\ e[1] \in {0, 1} /\ e[2] \in {0, 1} /\ e[3] \in {0, 1}
      /\ e[4] \in {0, 1} /\ e[5] \in {0, 1} /\ e[6] \in {0, 1} /\ e[7] \in {0, 1}
  BY <1>2
<1>6. /\ h[0] = e[0] + 2 * h[1] /\ h[1] = e[1] + 2 * h[2] /\ h[2] = e[2] + 2 * h[3]
      /\ h[3] = e[3] + 2 * h[4] /\ h[4] = e[4] + 2 * h[5] /\ h[5] = e[5] + 2 * h[6]
      /\ h[6] = e[6] + 2 * h[7] /\ h[7] = e[7] + 2 * h[8] /\ h[8] = 0
  BY <1>5
<1>7. XorByte(a, b) = h[0]
  BY <1>1, <1>3, <1>5
<1> HIDE DEF h
<1>8. /\ h[7] \in 0 .. 1 /\ h[6] \in 0 .. 3 /\ h[5] \in 0 .. 7 /\ h[4] \in 0 .. 15
      /\ h[3] \in 0 .. 31 /\ h[2] \in 0 .. 63 /\ h[1] \in 0 .. 127 /\ h[0] \in 0 .. 255
  <2>1. h[7] \in 0 .. 1 /\ h[6] \in 0 .. 3 /\ h[5] \in 0 .. 7 /\ h[4] \in 0 .. 15
    BY <1>5, <1>6
  <2>2. h[3] \in 0 .. 31 /\ h[2] \in 0 .. 63
    BY <1>5, <1>6, <2>1
  <2>3. h[1] \in 0 .. 127 /\ h[0] \in 0 .. 255
    BY <1>5, <1>6, <2>2
  <2> QED BY <2>1, <2>2, <2>3
<1>9. \A k \in 0 .. 8 : h[k] \in Nat
  <2> SUFFICES ASSUME NEW k \in 0 .. 8 PROVE h[k] \in Nat
    OBVIOUS
  <2>1. \/ k = 0 \/ k = 1 \/ k = 2 \/ k = 3 \/ k = 4 \/ k = 5 \/ k = 6 \/ k = 7 \/ k = 8
    OBVIOUS
  <2> QED BY <1>6, <1>8, <2>1
<1>10. \A k \in 0 .. 8 - 1 : e[k] \in {0, 1} /\ h[k] = e[k] + 2 * h[k + 1]
  <2> SUFFICES ASSUME NEW k \in 0 .. 7 PROVE e[k] \in {0, 1} /\ h[k] = e[k] + 2 * h[k + 1]
    OBVIOUS
  <2>1. \/ k = 0 \/ k = 1 \/ k = 2 \/ k = 3 \/ k = 4 \/ k = 5 \/ k = 6 \/ k = 7
    OBVIOUS
  <2>2. h[k] = e[k] + 2 * h[k + 1]
    BY <1>6, <2>1
  <2> QED BY <1>2, <2>2
<1>11. \A k \in 0 .. 8 - 1 : BitAt(h[0], k) = e[k]
  <2>1. 8 \in 0 .. 16 /\ Chain(h, e, 8)
    BY <1>9, <1>10 DEF Chain
  <2> QED BY <2>1, Digits
<1>12. a = b => h[0] = 0
  <2>1. /\ 0 \in 0 .. 7 /\ 1 \in 0 .. 7 /\ 2 \in 0 .. 7 /\ 3 \in 0 .. 7
        /\ 4 \in 0 .. 7 /\ 5 \in 0 .. 7 /\ 6 \in 0 .. 7 /\ 7 \in 0 .. 7
    OBVIOUS
  <2>2. a = b => /\ e[0] = 0 /\ e[1] = 0 /\ e[2] = 0 /\ e[3] = 0
                 /\ e[4] = 0 /\ e[5] = 0 /\ e[6] = 0 /\ e[7] = 0
    BY <1>4, <2>1
  <2> QED BY <1>6, <2>2
<1>13. h[0] \in Uint8
  BY <1>8 DEF Uint8
<1>14. \A k \in 0 .. 7 : BitAt(h[0], k) = 1 <=> BitAt(a, k) # BitAt(b, k)
  BY <1>2, <1>11
<1> QED BY <1>7, <1>12, <1>13, <1>14

\* A byte is added to the high byte of the register.
LEMMA MixBits ==
  ASSUME NEW crc \in Uint16, NEW byte \in Uint8
  PROVE  /\ Mix(crc, byte) \in Uint16
         /\ Bits(Mix(crc, byte)) = Plus(Bits(crc), Times(8, ByteAsPolynomial(byte)))
<1> DEFINE a == crc \div 256
           low == crc % 256
           x == XorByte(a, byte)
           m == x * 256 + low
<1>1. crc \in Nat /\ byte \in Nat /\ crc < 65536
  <2>1. crc \in Nat /\ crc < 65536
    BY DEF Uint16, Width
  <2>2. byte \in Nat
    BY DEF Uint8
  <2> QED BY <2>1, <2>2
<1>2. a \in 0 .. 255 /\ low \in 0 .. 255 /\ crc = a * 256 + low
  <2> DEFINE r == 256
  <2>1. r \in Nat /\ r > 0 /\ r * r = 65536 /\ a = crc \div r /\ low = crc % r
    OBVIOUS
  <2>2. 0 .. r - 1 = 0 .. 255
    OBVIOUS
  <2> HIDE DEF r, a, low
  <2>3. crc \in 0 .. r * r - 1
    BY <1>1, <2>1
  <2>4. /\ crc \div r \in 0 .. r - 1 /\ crc % r \in 0 .. r - 1
        /\ crc = (crc \div r) * r + (crc % r)
    BY <2>1, <2>3, TwoDigits
  <2>5. crc = a * r + low /\ a \in 0 .. r - 1 /\ low \in 0 .. r - 1
    BY <2>1, <2>4
  <2> QED BY <2>2, <2>5 DEF r
<1>3. Mix(crc, byte) = m
  BY DEF Mix
<1> HIDE DEF a, low
<1>4. /\ x \in 0 .. 255
      /\ \A k \in 0 .. 7 : BitAt(x, k) = 1 <=> BitAt(a, k) # BitAt(byte, k)
  <2>1. a \in Nat /\ byte \in Nat
    BY <1>1, <1>2
  <2>2. /\ XorByte(a, byte) \in Uint8
        /\ \A k \in 0 .. 7 : BitAt(XorByte(a, byte), k) = 1 <=> BitAt(a, k) # BitAt(byte, k)
    BY <2>1, XorByteBits, Zenon
  <2> QED BY <2>2 DEF Uint8
<1> HIDE DEF x
<1>5. m \in Nat /\ m < 65536
  BY <1>2, <1>4
<1>6. m \in Uint16
  BY <1>5, Uint16Is
<1>7. \A k \in 0 .. 7 : /\ BitAt(crc, k) = BitAt(low, k) /\ BitAt(crc, k + 8) = BitAt(a, k)
                        /\ BitAt(m, k) = BitAt(low, k) /\ BitAt(m, k + 8) = BitAt(x, k)
  <2>1. m = x * 256 + low /\ a \in Nat /\ x \in Nat /\ low \in Nat /\ low < 256
    BY <1>2, <1>4
  <2> HIDE DEF m
  <2>2. \A k \in 0 .. 7 : BitAt(crc, k) = BitAt(low, k) /\ BitAt(crc, k + 8) = BitAt(a, k)
    <3>1. IsTwoBytes(crc, a, low)
      BY <1>1, <1>2, <2>1 DEF IsTwoBytes
    <3> QED BY <3>1, TwoBytes
  <2>3. \A k \in 0 .. 7 : BitAt(m, k) = BitAt(low, k) /\ BitAt(m, k + 8) = BitAt(x, k)
    <3>1. IsTwoBytes(m, x, low)
      BY <1>5, <2>1 DEF IsTwoBytes
    <3> QED BY <3>1, TwoBytes
  <2> QED BY <2>2, <2>3
<1>8. \A k \in 0 .. 15 : BitAt(crc, k) \in {0, 1}
  <2>1. crc \in Nat
    BY <1>1
  <2> QED BY <2>1, BitValue, Zenon
<1>9. \A k \in 0 .. 15 : BitAt(byte, k) \in {0, 1}
  <2>1. byte \in Nat
    BY <1>1
  <2> QED BY <2>1, BitValue, Zenon
<1> HIDE DEF m
<1>10. ASSUME NEW k \in 0 .. 15
       PROVE  k \in Bits(m) <=> k \in Plus(Bits(crc), Times(8, ByteAsPolynomial(byte)))
  <2>1. CASE k < 8
    <3>1. k \in 0 .. 7 /\ k \notin Times(8, ByteAsPolynomial(byte))
      BY <2>1 DEF Times, ByteAsPolynomial
    <3> QED BY <1>7, <3>1 DEF Bits, Plus
  <2>2. CASE k >= 8
    <3>1. PICK u \in 0 .. 7 : k = u + 8
      <4>1. k - 8 \in 0 .. 7 /\ k = (k - 8) + 8
        BY <2>2
      <4> QED BY <4>1
    <3>2. k \in Times(8, ByteAsPolynomial(byte)) <=> BitAt(byte, u) = 1
      BY <3>1 DEF Times, ByteAsPolynomial
    <3>3. BitAt(m, k) = 1 <=> BitAt(crc, k) # BitAt(byte, u)
      BY <1>4, <1>7, <3>1
    <3>4. (BitAt(m, k) = 1) <=> ~(BitAt(crc, k) = 1 <=> BitAt(byte, u) = 1)
      BY <1>8, <1>9, <3>1, <3>3
    <3> QED BY <3>2, <3>4 DEF Bits, Plus
  <2> QED BY <2>1, <2>2
<1>11. Plus(Bits(crc), Times(8, ByteAsPolynomial(byte))) \subseteq 0 .. 15
  BY DEF Plus, Bits, Times, ByteAsPolynomial
<1>12. Bits(m) \subseteq 0 .. 15
  BY DEF Bits
<1> QED BY <1>3, <1>6, <1>10, <1>11, <1>12
-----------------------------------------------------------------------------
(***************************************************************************)
(* A byte and the long division.                                           *)
(***************************************************************************)
\* One step of the division, at the power n.
Reduced(n, f) == IF n \in f THEN Plus(f, Times(n - 16, Generator)) ELSE f

LEMMA ModuloIs ==
  ASSUME NEW f0, NEW f1, NEW f2, NEW f3, NEW f4, NEW f5, NEW f6, NEW f7, NEW f8,
         f1 = Reduced(23, f0), f2 = Reduced(22, f1), f3 = Reduced(21, f2),
         f4 = Reduced(20, f3), f5 = Reduced(19, f4), f6 = Reduced(18, f5),
         f7 = Reduced(17, f6), f8 = Reduced(16, f7)
  PROVE  Modulo(f0) = f8
<1> DEFINE Division(step) ==
             step = [n \in 16 .. 24 |-> IF n = 24 THEN f0
                                        ELSE IF n \in step[n + 1]
                                        THEN Plus(step[n + 1], Times(n - 16, Generator))
                                        ELSE step[n + 1]]
           c == CHOOSE step : Division(step)
           g == [n \in 16 .. 24 |-> <<f8, f7, f6, f5, f4, f3, f2, f1, f0>>[n - 15]]
<1>1. Modulo(f0) = c[16]
  BY DEF Modulo
<1>2. \A step : Division(step) <=>
        step = [n \in 16 .. 24 |-> IF n = 24 THEN f0 ELSE Reduced(n, step[n + 1])]
  BY DEF Reduced
<1>3. /\ g[16] = f8 /\ g[17] = f7 /\ g[18] = f6 /\ g[19] = f5 /\ g[20] = f4
      /\ g[21] = f3 /\ g[22] = f2 /\ g[23] = f1 /\ g[24] = f0
      /\ g = [n \in 16 .. 24 |-> g[n]]
  OBVIOUS
<1> HIDE DEF g
<1>4. ASSUME NEW n \in 16 .. 24
      PROVE  g[n] = IF n = 24 THEN f0 ELSE Reduced(n, g[n + 1])
  <2>1. \/ n = 16 \/ n = 17 \/ n = 18 \/ n = 19 \/ n = 20
        \/ n = 21 \/ n = 22 \/ n = 23 \/ n = 24
    OBVIOUS
  <2> QED BY <1>3, <2>1
<1>5. g = [n \in 16 .. 24 |-> IF n = 24 THEN f0 ELSE Reduced(n, g[n + 1])]
  BY <1>3, <1>4
<1>6. Division(g)
  BY <1>2, <1>5
<1>7. Division(c)
  BY <1>6
<1> HIDE DEF c
<1>8. c = [n \in 16 .. 24 |-> IF n = 24 THEN f0 ELSE Reduced(n, c[n + 1])]
  BY <1>2, <1>7
<1> HIDE DEF Division
<1>9. /\ c[24] = f0 /\ c[23] = Reduced(23, c[24]) /\ c[22] = Reduced(22, c[23])
      /\ c[21] = Reduced(21, c[22]) /\ c[20] = Reduced(20, c[21])
      /\ c[19] = Reduced(19, c[20]) /\ c[18] = Reduced(18, c[19])
      /\ c[17] = Reduced(17, c[18]) /\ c[16] = Reduced(16, c[17])
  BY <1>8
<1> QED BY <1>1, <1>9

LEMMA InTimes ==
  ASSUME NEW u \in Int, NEW f \in SUBSET Int
  PROVE  \A k : k \in Times(u, f) <=> k \in Int /\ k - u \in f
<1>1. \A x \in f : x \in Int
  OBVIOUS
<1> QED BY <1>1 DEF Times

LEMMA TimesPlus ==
  ASSUME NEW u \in Int, NEW f \in SUBSET Int, NEW g \in SUBSET Int
  PROVE  Plus(Times(u, f), Times(u, g)) = Times(u, Plus(f, g))
<1> DEFINE a == Plus(Times(u, f), Times(u, g))
           b == Times(u, Plus(f, g))
<1>1. \A k : k \in Times(u, f) <=> k \in Int /\ k - u \in f
  BY InTimes
<1>2. \A k : k \in Times(u, g) <=> k \in Int /\ k - u \in g
  BY InTimes
<1>3. \A k : k \in b <=> k \in Int /\ k - u \in Plus(f, g)
  <2>1. Plus(f, g) \in SUBSET Int
    BY DEF Plus
  <2> QED BY <2>1, InTimes
<1>4. ASSUME NEW k PROVE k \in a <=> k \in b
  BY <1>1, <1>2, <1>3 DEF Plus
<1> QED BY <1>4

\* A step of the division is a turn of the inner loop, with the polynomial u
\* places further up.
LEMMA TurnReduces ==
  ASSUME NEW u \in 0 .. 7, NEW f \in SUBSET (0 .. 15)
  PROVE  Reduced(16 + u, Times(u + 1, f)) = Times(u, TimesX(f))
<1> DEFINE g == Times(1, f)
<1>1. Times(u + 1, f) = Times(u, g)
  <2>1. f \in SUBSET Int /\ g \in SUBSET Int /\ u \in Int /\ u + 1 \in Int
    BY DEF Times
  <2> HIDE DEF g
  <2>2. \A k : k \in Times(u + 1, f) <=> k \in Int /\ k - (u + 1) \in f
    BY <2>1, InTimes
  <2>3. \A k : k \in Times(u, g) <=> k \in Int /\ k - u \in g
    BY <2>1, InTimes
  <2>4. \A k : k \in g <=> k \in Int /\ k - 1 \in f
    BY <2>1, InTimes DEF g
  <2>5. \A k \in Int : k - u \in Int /\ (k - u) - 1 = k - (u + 1)
    OBVIOUS
  <2> QED BY <2>2, <2>3, <2>4, <2>5
<1>2. 16 + u \in Times(u + 1, f) <=> 15 \in f
  BY DEF Times
<1>3. Plus(Times(u, g), Times(u, Generator)) = Times(u, Plus(g, Generator))
  <2>1. g \in SUBSET Int /\ Generator \in SUBSET Int
    BY DEF Times, Generator
  <2> HIDE DEF g
  <2> QED BY <2>1, TimesPlus
<1>4. (16 + u) - 16 = u
  OBVIOUS
<1> HIDE DEF g
<1> QED BY <1>1, <1>2, <1>3, <1>4 DEF Reduced, TimesX, g

\* Eight turns of the inner loop, from the polynomial f of a register.
EightTurns(f) ==
  TimesX(TimesX(TimesX(TimesX(TimesX(TimesX(TimesX(TimesX(f))))))))

LEMMA DivisionIs ==
  ASSUME NEW f \in SUBSET (0 .. 15)
  PROVE  Modulo(Times(8, f)) = EightTurns(f)
<1> DEFINE x1 == TimesX(f)
           x2 == TimesX(x1)
           x3 == TimesX(x2)
           x4 == TimesX(x3)
           x5 == TimesX(x4)
           x6 == TimesX(x5)
           x7 == TimesX(x6)
           x8 == TimesX(x7)
<1>1. \A g \in SUBSET (0 .. 15) : TimesX(g) \in SUBSET (0 .. 15)
  <2> SUFFICES ASSUME NEW g \in SUBSET (0 .. 15) PROVE TimesX(g) \subseteq 0 .. 15
    OBVIOUS
  <2>1. Times(1, g) \subseteq 0 .. 16 /\ (16 \in Times(1, g) <=> 15 \in g)
    BY DEF Times
  <2>2. CASE 15 \in g
    <3>1. Plus(Times(1, g), Generator) \subseteq 0 .. 16
      BY <2>1 DEF Plus, Generator
    <3>2. 16 \notin Plus(Times(1, g), Generator)
      BY <2>1, <2>2 DEF Plus, Generator
    <3>3. Plus(Times(1, g), Generator) \subseteq 0 .. 15
      BY <3>1, <3>2
    <3> QED BY <2>2, <3>3 DEF TimesX
  <2>3. CASE 15 \notin g
    BY <2>1, <2>3 DEF TimesX
  <2> QED BY <2>2, <2>3
<1>2. /\ x1 \in SUBSET (0 .. 15) /\ x2 \in SUBSET (0 .. 15) /\ x3 \in SUBSET (0 .. 15)
      /\ x4 \in SUBSET (0 .. 15) /\ x5 \in SUBSET (0 .. 15) /\ x6 \in SUBSET (0 .. 15)
      /\ x7 \in SUBSET (0 .. 15) /\ x8 \in SUBSET (0 .. 15)
  BY <1>1, Zenon
<1>3. EightTurns(f) = x8
  BY DEF EightTurns
<1> HIDE DEF x1, x2, x3, x4, x5, x6, x7, x8
<1>4. Reduced(23, Times(8, f)) = Times(7, x1)
  <2>1. 7 \in 0 .. 7 /\ 16 + 7 = 23 /\ 7 + 1 = 8
    OBVIOUS
  <2>2. Reduced(16 + 7, Times(7 + 1, f)) = Times(7, x1)
    BY <2>1, TurnReduces DEF x1
  <2> QED BY <2>1, <2>2
<1>5. Reduced(22, Times(7, x1)) = Times(6, x2)
  <2>1. 6 \in 0 .. 7 /\ 16 + 6 = 22 /\ 6 + 1 = 7
    OBVIOUS
  <2>2. Reduced(16 + 6, Times(6 + 1, x1)) = Times(6, x2)
    BY <1>2, <2>1, TurnReduces DEF x2
  <2> QED BY <2>1, <2>2
<1>6. Reduced(21, Times(6, x2)) = Times(5, x3)
  <2>1. 5 \in 0 .. 7 /\ 16 + 5 = 21 /\ 5 + 1 = 6
    OBVIOUS
  <2>2. Reduced(16 + 5, Times(5 + 1, x2)) = Times(5, x3)
    BY <1>2, <2>1, TurnReduces DEF x3
  <2> QED BY <2>1, <2>2
<1>7. Reduced(20, Times(5, x3)) = Times(4, x4)
  <2>1. 4 \in 0 .. 7 /\ 16 + 4 = 20 /\ 4 + 1 = 5
    OBVIOUS
  <2>2. Reduced(16 + 4, Times(4 + 1, x3)) = Times(4, x4)
    BY <1>2, <2>1, TurnReduces DEF x4
  <2> QED BY <2>1, <2>2
<1>8. Reduced(19, Times(4, x4)) = Times(3, x5)
  <2>1. 3 \in 0 .. 7 /\ 16 + 3 = 19 /\ 3 + 1 = 4
    OBVIOUS
  <2>2. Reduced(16 + 3, Times(3 + 1, x4)) = Times(3, x5)
    BY <1>2, <2>1, TurnReduces DEF x5
  <2> QED BY <2>1, <2>2
<1>9. Reduced(18, Times(3, x5)) = Times(2, x6)
  <2>1. 2 \in 0 .. 7 /\ 16 + 2 = 18 /\ 2 + 1 = 3
    OBVIOUS
  <2>2. Reduced(16 + 2, Times(2 + 1, x5)) = Times(2, x6)
    BY <1>2, <2>1, TurnReduces DEF x6
  <2> QED BY <2>1, <2>2
<1>10. Reduced(17, Times(2, x6)) = Times(1, x7)
  <2>1. 1 \in 0 .. 7 /\ 16 + 1 = 17 /\ 1 + 1 = 2
    OBVIOUS
  <2>2. Reduced(16 + 1, Times(1 + 1, x6)) = Times(1, x7)
    BY <1>2, <2>1, TurnReduces DEF x7
  <2> QED BY <2>1, <2>2
<1>11. Reduced(16, Times(1, x7)) = Times(0, x8)
  <2>1. 0 \in 0 .. 7 /\ 16 + 0 = 16 /\ 0 + 1 = 1
    OBVIOUS
  <2>2. Reduced(16 + 0, Times(0 + 1, x7)) = Times(0, x8)
    BY <1>2, <2>1, TurnReduces DEF x8
  <2> QED BY <2>1, <2>2
<1>12. Times(0, x8) = x8
  <2>1. x8 \in SUBSET Int
    BY <1>2
  <2>2. \A k : k \in Times(0, x8) <=> k \in Int /\ k - 0 \in x8
    BY <2>1, InTimes
  <2>3. (\A k \in x8 : k \in Int) /\ \A k \in Int : k - 0 = k
    BY <2>1
  <2>4. \A k : k \in Times(0, x8) <=> k \in x8
    BY <2>2, <2>3
  <2> QED BY <2>4
<1>13. Modulo(Times(8, f)) = Times(0, x8)
  BY <1>4, <1>5, <1>6, <1>7, <1>8, <1>9, <1>10, <1>11, ModuloIs
<1> QED BY <1>3, <1>12, <1>13
-----------------------------------------------------------------------------
(***************************************************************************)
(* The loops of fusain_crc16.                                              *)
(***************************************************************************)
MixAll == [next \in Uint16 \X Uint8 |-> Mix(next[1], next[2])]
TurnAll == [crc \in Uint16 |-> ShiftBit(crc)]
EightAll == [crc \in Uint16 |->
              TurnAll[TurnAll[TurnAll[TurnAll[TurnAll[TurnAll[TurnAll[TurnAll[crc]]]]]]]]]

\* f are the registers after each of the bytes.
Registers(f, bytes) ==
  f = [n \in 0 .. Len(bytes) |->
        IF n = 0 THEN InitialValue ELSE EightAll[MixAll[<<f[n - 1], bytes[n]>>]]]

LEMMA CrcByRegisters ==
  ASSUME NEW bytes
  PROVE  CrcOf(bytes) = (CHOOSE f : Registers(f, bytes))[Len(bytes)]
BY DEF CrcOf, Registers, EightAll, TurnAll, MixAll

\* The register after one more byte.
NextCrc(crc, byte) == EightAll[MixAll[<<crc, byte>>]]

LEMMA EightBits ==
  ASSUME NEW crc \in Uint16
  PROVE  EightAll[crc] \in Uint16 /\ Bits(EightAll[crc]) = EightTurns(Bits(crc))
<1>1. \A x \in Uint16 : TurnAll[x] \in Uint16 /\ Bits(TurnAll[x]) = TimesX(Bits(x))
  BY ShiftBitBits DEF TurnAll
<1> DEFINE x1 == TurnAll[crc]
           x2 == TurnAll[x1]
           x3 == TurnAll[x2]
           x4 == TurnAll[x3]
           x5 == TurnAll[x4]
           x6 == TurnAll[x5]
           x7 == TurnAll[x6]
           x8 == TurnAll[x7]
<1>2. EightAll[crc] = x8
  BY DEF EightAll
<1>3. /\ x1 \in Uint16 /\ x2 \in Uint16 /\ x3 \in Uint16 /\ x4 \in Uint16
      /\ x5 \in Uint16 /\ x6 \in Uint16 /\ x7 \in Uint16 /\ x8 \in Uint16
  BY <1>1, Zenon
<1>4. /\ Bits(x1) = TimesX(Bits(crc)) /\ Bits(x2) = TimesX(Bits(x1))
      /\ Bits(x3) = TimesX(Bits(x2)) /\ Bits(x4) = TimesX(Bits(x3))
      /\ Bits(x5) = TimesX(Bits(x4)) /\ Bits(x6) = TimesX(Bits(x5))
      /\ Bits(x7) = TimesX(Bits(x6)) /\ Bits(x8) = TimesX(Bits(x7))
  BY <1>1, <1>3, Zenon
<1> HIDE DEF x1, x2, x3, x4, x5, x6, x7, x8
<1> QED BY <1>2, <1>3, <1>4 DEF EightTurns

LEMMA NextCrcBits ==
  ASSUME NEW crc \in Uint16, NEW byte \in Uint8
  PROVE  /\ NextCrc(crc, byte) \in Uint16
         /\ Bits(NextCrc(crc, byte))
              = EightTurns(Plus(Bits(crc), Times(8, ByteAsPolynomial(byte))))
         /\ NextCrc(crc, byte) = EightAll[Mix(crc, byte)]
<1>1. MixAll[<<crc, byte>>] = Mix(crc, byte)
  BY DEF MixAll
<1> QED BY <1>1, MixBits, EightBits DEF NextCrc

LEMMA RegistersExist ==
  ASSUME NEW bytes \in Seq(Uint8)
  PROVE  \E f : Registers(f, bytes)
<1> DEFINE U(f, n) == f = [k \in 0 .. n |->
                            IF k = 0 THEN InitialValue ELSE NextCrc(f[k - 1], bytes[k])]
           T == {n \in Nat : \E f : U(f, n)}
<1>1. 0 \in T
  <2>1. U([k \in 0 .. 0 |-> InitialValue], 0)
    OBVIOUS
  <2> QED BY <2>1
<1>2. ASSUME NEW n \in T PROVE n + 1 \in T
  <2>1. PICK f : U(f, n)
    OBVIOUS
  <2> DEFINE g == [k \in 0 .. n + 1 |->
                     IF k <= n THEN f[k] ELSE NextCrc(f[k - 1], bytes[k])]
  <2>2. n \in Nat
    OBVIOUS
  <2>3. \A k \in 0 .. n + 1 :
          g[k] = IF k = 0 THEN InitialValue ELSE NextCrc(g[k - 1], bytes[k])
    <3> SUFFICES ASSUME NEW k \in 0 .. n + 1
                 PROVE  g[k] = IF k = 0 THEN InitialValue ELSE NextCrc(g[k - 1], bytes[k])
      OBVIOUS
    <3>1. k # 0 => k - 1 \in 0 .. n /\ g[k - 1] = f[k - 1]
      BY <2>2
    <3>2. CASE k <= n
      <4>1. k \in 0 .. n /\ g[k] = f[k]
        BY <2>2, <3>2
      <4>2. f[k] = IF k = 0 THEN InitialValue ELSE NextCrc(f[k - 1], bytes[k])
        BY <2>1, <4>1
      <4> QED BY <3>1, <4>1, <4>2
    <3>3. CASE k = n + 1
      <4>1. k # 0 /\ ~(k <= n)
        BY <2>2, <3>3
      <4>2. g[k] = NextCrc(f[k - 1], bytes[k])
        BY <4>1
      <4> QED BY <3>1, <4>1, <4>2
    <3> QED BY <2>2, <3>2, <3>3
  <2>4. g = [k \in 0 .. n + 1 |-> g[k]]
    OBVIOUS
  <2> HIDE DEF g
  <2>5. U(g, n + 1)
    BY <2>3, <2>4
  <2> HIDE DEF U
  <2> QED BY <2>2, <2>5
<1> HIDE DEF T
<1>3. T = Nat
  <2>1. T \in SUBSET Nat
    BY DEF T
  <2> QED BY <1>1, <1>2, <2>1, SetInduction
<1>4. Len(bytes) \in T
  BY <1>3
<1>5. PICK f : U(f, Len(bytes))
  BY <1>4 DEF T
<1>6. Registers(f, bytes)
  BY <1>5 DEF Registers, NextCrc
<1> QED BY <1>6

\* The registers for some bytes are 16-bit numbers, and the first ones of those
\* for more bytes.
LEMMA RegistersAgree ==
  ASSUME NEW bytes \in Seq(Uint8), NEW more \in Seq(Uint8), Len(bytes) <= Len(more),
         \A n \in 1 .. Len(bytes) : bytes[n] = more[n],
         NEW f, Registers(f, bytes), NEW g, Registers(g, more)
  PROVE  \A n \in 0 .. Len(bytes) : f[n] = g[n] /\ f[n] \in Uint16
<1> DEFINE T == {n \in Nat : n \in 0 .. Len(bytes) => f[n] = g[n] /\ f[n] \in Uint16}
<1>1. \A n \in 0 .. Len(bytes) :
        f[n] = IF n = 0 THEN InitialValue ELSE NextCrc(f[n - 1], bytes[n])
  BY DEF Registers, NextCrc
<1>2. \A n \in 0 .. Len(bytes) :
        g[n] = IF n = 0 THEN InitialValue ELSE NextCrc(g[n - 1], bytes[n])
  <2> SUFFICES ASSUME NEW n \in 0 .. Len(bytes)
               PROVE  g[n] = IF n = 0 THEN InitialValue ELSE NextCrc(g[n - 1], bytes[n])
    OBVIOUS
  <2>1. n \in 0 .. Len(more) /\ (n # 0 => bytes[n] = more[n])
    OBVIOUS
  <2>2. g[n] = IF n = 0 THEN InitialValue ELSE NextCrc(g[n - 1], more[n])
    BY <2>1 DEF Registers, NextCrc
  <2> QED BY <2>1, <2>2
<1>3. InitialValue \in Uint16
  <2>1. InitialValue \in Nat /\ InitialValue < 65536
    BY DEF InitialValue
  <2> QED BY <2>1, Uint16Is
<1>4. 0 \in T
  BY <1>1, <1>2, <1>3
<1>5. ASSUME NEW n \in T PROVE n + 1 \in T
  <2> SUFFICES ASSUME n + 1 \in 0 .. Len(bytes)
               PROVE  f[n + 1] = g[n + 1] /\ f[n + 1] \in Uint16
    OBVIOUS
  <2>1. n \in Nat /\ n + 1 # 0 /\ (n + 1) - 1 = n /\ n \in 0 .. Len(bytes)
    OBVIOUS
  <2>2. f[n] = g[n] /\ f[n] \in Uint16 /\ bytes[n + 1] \in Uint8
    BY <2>1
  <2>3. f[n + 1] = NextCrc(f[n], bytes[n + 1])
    BY <1>1, <2>1
  <2>4. g[n + 1] = NextCrc(g[n], bytes[n + 1])
    BY <1>2, <2>1
  <2> QED BY <2>2, <2>3, <2>4, NextCrcBits
<1> HIDE DEF T
<1>6. T = Nat
  <2>1. T \in SUBSET Nat
    BY DEF T
  <2> QED BY <1>4, <1>5, <2>1, SetInduction
<1> QED BY <1>6 DEF T

\* The CRC of no bytes, and of one byte more.
LEMMA CrcIsFold ==
  /\ CrcOf(<<>>) = InitialValue /\ InitialValue \in Uint16
  /\ \A bytes \in Seq(Uint8) : CrcOf(bytes) \in Uint16
  /\ \A bytes \in Seq(Uint8), byte \in Uint8 :
       CrcOf(Append(bytes, byte)) = NextCrc(CrcOf(bytes), byte)
<1>1. ASSUME NEW bytes \in Seq(Uint8)
      PROVE  \E f : Registers(f, bytes) /\ CrcOf(bytes) = f[Len(bytes)]
  BY RegistersExist, CrcByRegisters
<1>2. ASSUME NEW bytes \in Seq(Uint8) PROVE CrcOf(bytes) \in Uint16
  <2>1. PICK f : Registers(f, bytes) /\ CrcOf(bytes) = f[Len(bytes)]
    BY <1>1
  <2>2. \A n \in 0 .. Len(bytes) : f[n] \in Uint16
    <3>1. Len(bytes) \in Nat
      OBVIOUS
    <3> QED BY <2>1, <3>1, RegistersAgree
  <2> QED BY <2>1, <2>2
<1>3. CrcOf(<<>>) = InitialValue
  <2>1. <<>> \in Seq(Uint8) /\ Len(<<>>) = 0
    OBVIOUS
  <2>2. PICK f : Registers(f, <<>>) /\ CrcOf(<<>>) = f[Len(<<>>)]
    BY <1>1, <2>1
  <2> QED BY <2>1, <2>2 DEF Registers
<1>4. ASSUME NEW bytes \in Seq(Uint8), NEW byte \in Uint8
      PROVE  CrcOf(Append(bytes, byte)) = NextCrc(CrcOf(bytes), byte)
  <2> DEFINE more == Append(bytes, byte)
  <2>1. /\ more \in Seq(Uint8) /\ Len(more) = Len(bytes) + 1 /\ Len(bytes) \in Nat
        /\ more[Len(bytes) + 1] = byte
        /\ \A n \in 1 .. Len(bytes) : bytes[n] = more[n]
    BY AppendProperties
  <2> HIDE DEF more
  <2>2. PICK f : Registers(f, bytes) /\ CrcOf(bytes) = f[Len(bytes)]
    BY <1>1
  <2>3. PICK g : Registers(g, more) /\ CrcOf(more) = g[Len(more)]
    BY <1>1, <2>1
  <2>4. Len(bytes) <= Len(more)
    BY <2>1
  <2>5. f[Len(bytes)] = g[Len(bytes)]
    <3>1. \A n \in 0 .. Len(bytes) : f[n] = g[n]
      BY <2>1, <2>2, <2>3, <2>4, RegistersAgree
    <3> QED BY <2>1, <3>1
  <2>6. g[Len(bytes) + 1] = NextCrc(g[Len(bytes)], byte)
    <3>1. /\ Len(bytes) + 1 \in 0 .. Len(more) /\ Len(bytes) + 1 # 0
          /\ (Len(bytes) + 1) - 1 = Len(bytes)
      BY <2>1
    <3> QED BY <2>1, <2>3, <3>1 DEF Registers, NextCrc
  <2> QED BY <2>1, <2>2, <2>3, <2>5, <2>6 DEF more
<1>5. InitialValue \in Uint16
  <2>1. <<>> \in Seq(Uint8)
    OBVIOUS
  <2> QED BY <1>2, <1>3, <2>1
<1> QED BY <1>2, <1>3, <1>4, <1>5
\* Every state of the division: data are bytes, and reg is a register.
CrcTypeOK ==
  /\ data \in Seq(Uint8) /\ remainder \in SUBSET (0 .. 15)
  /\ power \in Nat /\ reg \in Uint16

CrcInv == CrcTypeOK /\ IsRemainder

LEMMA InitialBits == Bits(InitialValue) = 0 .. 15
<1> DEFINE e == [k \in 0 .. 15 |-> 1]
           h == [k \in 0 .. 16 |-> <<65535, 32767, 16383, 8191, 4095, 2047, 1023, 511, 255,
                                     127, 63, 31, 15, 7, 3, 1, 0>>[k + 1]]
<1>1. Chain(h, e, 16) /\ h[0] = InitialValue
  BY DEF Chain, InitialValue
<1>2. \A k \in 0 .. 15 : e[k] = 1
  OBVIOUS
<1>3. 16 \in 0 .. 16 /\ 16 - 1 = 15
  OBVIOUS
<1> HIDE DEF e, h
<1>4. \A k \in 0 .. 16 - 1 : BitAt(h[0], k) = e[k]
  BY <1>1, <1>3, Digits
<1>5. \A k \in 0 .. 15 : BitAt(InitialValue, k) = 1
  BY <1>1, <1>2, <1>3, <1>4
<1> QED BY <1>5 DEF Bits

\* The inner loop and the division go on alike from the same remainder.
LEMMA FeedDivides ==
  ASSUME NEW crc \in Uint16, NEW byte \in Uint8
  PROVE  Bits(NextCrc(crc, byte))
           = Modulo(Plus(Times(8, Bits(crc)), Times(16, ByteAsPolynomial(byte))))
<1> DEFINE f == Bits(crc)
           g == ByteAsPolynomial(byte)
           sum == Plus(f, Times(8, g))
<1>1. f \in SUBSET (0 .. 15) /\ g \in SUBSET (0 .. 7)
  BY DEF Bits, ByteAsPolynomial
<1>2. sum \in SUBSET (0 .. 15)
  <2>1. sum = Bits(Mix(crc, byte))
    BY MixBits
  <2> QED BY <2>1 DEF Bits
<1>3. Bits(NextCrc(crc, byte)) = EightTurns(sum)
  BY NextCrcBits
<1> HIDE DEF f, g
<1>4. Times(8, Times(8, g)) = Times(16, g)
  <2>1. g \in SUBSET Int /\ Times(8, g) \in SUBSET Int
    BY <1>1 DEF Times
  <2>2. \A k : k \in Times(16, g) <=> k \in Int /\ k - 16 \in g
    BY <2>1, InTimes
  <2>3. \A k : k \in Times(8, g) <=> k \in Int /\ k - 8 \in g
    BY <2>1, InTimes
  <2>4. \A k : k \in Times(8, Times(8, g)) <=> k \in Int /\ k - 8 \in Times(8, g)
    BY <2>1, InTimes
  <2>5. \A k \in Int : k - 8 \in Int /\ (k - 8) - 8 = k - 16
    OBVIOUS
  <2> QED BY <2>2, <2>3, <2>4, <2>5
<1>5. Plus(Times(8, f), Times(8, Times(8, g))) = Times(8, sum)
  <2>1. f \in SUBSET Int /\ Times(8, g) \in SUBSET Int
    BY <1>1 DEF Times
  <2> QED BY <2>1, TimesPlus
<1> HIDE DEF sum
<1>6. Modulo(Times(8, sum)) = EightTurns(sum)
  BY <1>2, DivisionIs
<1> QED BY <1>3, <1>4, <1>5, <1>6 DEF f, g

LEMMA CrcInvStep == CrcInv /\ [CrcNext]_crcVars => CrcInv'
<1> SUFFICES ASSUME CrcInv, [CrcNext]_crcVars PROVE CrcInv'
  OBVIOUS
<1>1. CASE Feed
  <2>1. PICK byte \in Uint8 :
          /\ data' = Append(data, byte)
          /\ remainder' = Modulo(Plus(Times(8, remainder),
                                      Times(16, ByteAsPolynomial(byte))))
          /\ UNCHANGED <<power, reg>>
    BY <1>1, CrcDivisionAssumption DEF Feed
  <2>2. data \in Seq(Uint8) /\ CrcOf(data) \in Uint16
    BY CrcIsFold DEF CrcInv, CrcTypeOK
  <2>3. data' \in Seq(Uint8)
    BY <2>1, <2>2
  <2>4. CrcOf(data') = NextCrc(CrcOf(data), byte)
    BY <2>1, <2>2, CrcIsFold
  <2>5. Bits(CrcOf(data)) = remainder
    BY DEF CrcInv, IsRemainder, Bits
  <2>6. Bits(CrcOf(data')) = remainder'
    BY <2>1, <2>2, <2>4, <2>5, FeedDivides
  <2>7. remainder' \in SUBSET (0 .. 15)
    BY <2>6 DEF Bits
  <2> QED BY <2>1, <2>3, <2>6, <2>7 DEF CrcInv, CrcTypeOK, IsRemainder, Bits
<1>2. CASE Multiply
  <2>1. /\ UNCHANGED <<data, remainder>> /\ power' = power + 1
        /\ reg' = ShiftBit(reg)
    BY <1>2 DEF Multiply
  <2>2. reg' \in Uint16 /\ power' \in Nat
    BY <2>1, ShiftBitBits DEF CrcInv, CrcTypeOK
  <2>3. IsRemainder'
    BY <2>1 DEF CrcInv, IsRemainder
  <2> QED BY <2>1, <2>2, <2>3 DEF CrcInv, CrcTypeOK
<1>3. CASE UNCHANGED crcVars
  BY <1>3 DEF crcVars, CrcInv, CrcTypeOK, IsRemainder
<1> QED BY <1>1, <1>2, <1>3 DEF CrcNext

\* Whatever bytes it is given, fusain_crc16 holds the remainder of their
\* polynomial, as its comment says.
THEOREM CrcInvariance == CrcSpec => []CrcInv
<1>1. CrcInit => CrcInv
  <2> SUFFICES ASSUME CrcInit PROVE CrcInv
    OBVIOUS
  <2>1. data \in Seq(Uint8) /\ CrcOf(data) = InitialValue
    BY CrcIsFold DEF CrcInit
  <2>2. 1 \in Uint16
    BY Uint16Is
  <2> QED BY <2>1, <2>2, InitialBits DEF CrcInit, CrcInv, CrcTypeOK, IsRemainder, Bits
<1> QED BY <1>1, CrcInvStep, PTL DEF CrcSpec

THEOREM ComputesRemainder == CrcSpec => []IsRemainder
<1>1. CrcInv => IsRemainder
  BY DEF CrcInv
<1> QED BY <1>1, CrcInvariance, PTL

-----------------------------------------------------------------------------
\* A register below 2^8 is shifted up without a carry.
LEMMA ShiftsUp ==
  ASSUME NEW low \in Nat, low < 256
  PROVE  EightAll[low] = low * 256
<1>1. ASSUME NEW n \in Nat, n < 32768
      PROVE  n \in Uint16 /\ TurnAll[n] = n * 2
  <2>1. n \in Uint16
    BY <1>1, Uint16Is
  <2>2. ShiftBit(n) = (n * 2) % Width
    BY <1>1 DEF ShiftBit
  <2>3. (n * 2) % Width = n * 2
    BY <1>1 DEF Width
  <2> QED BY <2>1, <2>2, <2>3 DEF TurnAll
<1>2. low \in Uint16 /\ TurnAll[low] = low * 2
  BY <1>1
<1>3. TurnAll[low * 2] = low * 4
  <2>1. low * 2 \in Nat /\ low * 2 < 32768 /\ (low * 2) * 2 = low * 4
    OBVIOUS
  <2> QED BY <1>1, <2>1
<1>4. TurnAll[low * 4] = low * 8
  <2>1. low * 4 \in Nat /\ low * 4 < 32768 /\ (low * 4) * 2 = low * 8
    OBVIOUS
  <2> QED BY <1>1, <2>1
<1>5. TurnAll[low * 8] = low * 16
  <2>1. low * 8 \in Nat /\ low * 8 < 32768 /\ (low * 8) * 2 = low * 16
    OBVIOUS
  <2> QED BY <1>1, <2>1
<1>6. TurnAll[low * 16] = low * 32
  <2>1. low * 16 \in Nat /\ low * 16 < 32768 /\ (low * 16) * 2 = low * 32
    OBVIOUS
  <2> QED BY <1>1, <2>1
<1>7. TurnAll[low * 32] = low * 64
  <2>1. low * 32 \in Nat /\ low * 32 < 32768 /\ (low * 32) * 2 = low * 64
    OBVIOUS
  <2> QED BY <1>1, <2>1
<1>8. TurnAll[low * 64] = low * 128
  <2>1. low * 64 \in Nat /\ low * 64 < 32768 /\ (low * 64) * 2 = low * 128
    OBVIOUS
  <2> QED BY <1>1, <2>1
<1>9. TurnAll[low * 128] = low * 256
  <2>1. low * 128 \in Nat /\ low * 128 < 32768 /\ (low * 128) * 2 = low * 256
    OBVIOUS
  <2> QED BY <1>1, <2>1
<1> DEFINE x1 == low * 2
           x2 == low * 4
           x3 == low * 8
           x4 == low * 16
           x5 == low * 32
           x6 == low * 64
           x7 == low * 128
           x8 == low * 256
<1>10. /\ TurnAll[low] = x1 /\ TurnAll[x1] = x2 /\ TurnAll[x2] = x3 /\ TurnAll[x3] = x4
       /\ TurnAll[x4] = x5 /\ TurnAll[x5] = x6 /\ TurnAll[x6] = x7 /\ TurnAll[x7] = x8
  BY <1>2, <1>3, <1>4, <1>5, <1>6, <1>7, <1>8, <1>9
<1> HIDE DEF x1, x2, x3, x4, x5, x6, x7, x8
<1>11. EightAll[low]
         = TurnAll[TurnAll[TurnAll[TurnAll[TurnAll[TurnAll[TurnAll[TurnAll[low]]]]]]]]
  BY <1>2 DEF EightAll
<1>12. EightAll[low] = x8
  BY <1>10, <1>11
<1> QED BY <1>12 DEF x8

\* A receiver that goes on over the CRC itself ends with zero.
LEMMA OwnCrc ==
  ASSUME NEW bytes \in Seq(Uint8)
  PROVE  CrcOf(bytes \o <<CrcOf(bytes) \div 256, CrcOf(bytes) % 256>>) = 0
<1> DEFINE c == CrcOf(bytes)
           high == c \div 256
           low == c % 256
           middle == low * 256
<1>1. c \in Uint16 /\ c \in Nat /\ c < 65536
  <2>1. c \in Uint16
    BY CrcIsFold
  <2> HIDE DEF c
  <2>2. c \in Nat /\ c < 65536
    BY <2>1 DEF Uint16, Width
  <2> QED BY <2>1, <2>2
<1>2. high \in Uint8 /\ low \in Uint8 /\ high \in Nat /\ low \in Nat /\ low < 256
  <2> HIDE DEF c
  <2> DEFINE r == 256
  <2>1. r \in Nat /\ r > 0 /\ r * r = 65536 /\ high = c \div r /\ low = c % r
    OBVIOUS
  <2>2. 0 .. r - 1 = Uint8 /\ \A n \in Uint8 : n \in Nat /\ n < 256
    BY DEF Uint8
  <2> HIDE DEF r, high, low
  <2>3. c \in 0 .. r * r - 1
    BY <1>1, <2>1
  <2>4. c \div r \in 0 .. r - 1 /\ c % r \in 0 .. r - 1
    BY <2>1, <2>3, TwoDigits
  <2> QED BY <2>1, <2>2, <2>4
<1> HIDE DEF c
<1>3. Mix(c, high) = low
  <2>1. XorByte(high, high) = 0
    BY <1>2, XorByteBits
  <2>2. Mix(c, high) = XorByte(high, high) * 256 + low
    BY DEF Mix
  <2> QED BY <1>2, <2>1, <2>2
<1>4. NextCrc(c, high) = middle
  <2>1. NextCrc(c, high) = EightAll[Mix(c, high)]
    BY <1>1, <1>2, NextCrcBits
  <2> QED BY <1>2, <1>3, <2>1, ShiftsUp
<1>5. middle \in Uint16 /\ middle \div 256 = low /\ middle % 256 = 0
  <2> HIDE DEF low
  <2>1. middle \in Nat /\ middle < 65536
    BY <1>2
  <2>2. middle \in Uint16
    BY <2>1, Uint16Is
  <2> QED BY <1>2, <2>2
<1> HIDE DEF high, low, middle
<1>6. Mix(middle, low) = 0
  <2>1. XorByte(low, low) = 0
    BY <1>2, XorByteBits
  <2>2. Mix(middle, low) = XorByte(low, low) * 256 + 0
    BY <1>5 DEF Mix
  <2> QED BY <2>1, <2>2
<1>7. NextCrc(middle, low) = 0
  <2>1. NextCrc(middle, low) = EightAll[0]
    BY <1>2, <1>5, <1>6, NextCrcBits
  <2>2. EightAll[0] = 0 * 256
    BY ShiftsUp
  <2> QED BY <2>1, <2>2
<1>8. bytes \o <<high, low>> = Append(Append(bytes, high), low)
  BY <1>2, AppendTwo
<1>9. CrcOf(Append(Append(bytes, high), low)) = NextCrc(NextCrc(c, high), low)
  <2>1. Append(bytes, high) \in Seq(Uint8)
    BY <1>2
  <2>2. CrcOf(Append(bytes, high)) = NextCrc(c, high)
    BY <1>2, CrcIsFold DEF c
  <2> QED BY <1>2, <2>1, <2>2, CrcIsFold
<1> QED BY <1>4, <1>7, <1>8, <1>9 DEF c, high, low

THEOREM FramesAreMultiples == CrcSpec => []FrameIsMultiple
<1>1. CrcInv => FrameIsMultiple
  BY OwnCrc DEF CrcInv, CrcTypeOK, FrameIsMultiple
<1> QED BY <1>1, CrcInvariance, PTL

-----------------------------------------------------------------------------
(***************************************************************************)
(* The number of ones in a register.                                       *)
(***************************************************************************)
\* s counts the ones among the first bits of n.
Counts(s, n) ==
  s = [k \in 0 .. 16 |-> IF k = 0 THEN 0 ELSE s[k - 1] + BitAt(n, k - 1)]

Odd(n) == (CHOOSE s : Counts(s, n))[16] % 2 = 1

LEMMA CountsExist ==
  ASSUME NEW n \in Nat
  PROVE  \E s : Counts(s, n)
<1> DEFINE U(f, m) == f = [k \in 0 .. m |-> IF k = 0 THEN 0 ELSE f[k - 1] + BitAt(n, k - 1)]
           T == {m \in Nat : \E f : U(f, m)}
<1>1. 0 \in T
  <2>1. U([k \in 0 .. 0 |-> 0], 0)
    OBVIOUS
  <2> QED BY <2>1
<1>2. ASSUME NEW m \in T PROVE m + 1 \in T
  <2>1. PICK f : U(f, m)
    OBVIOUS
  <2> DEFINE g == [k \in 0 .. m + 1 |-> IF k <= m THEN f[k] ELSE f[k - 1] + BitAt(n, k - 1)]
  <2>2. m \in Nat
    OBVIOUS
  <2>3. \A k \in 0 .. m + 1 : g[k] = IF k = 0 THEN 0 ELSE g[k - 1] + BitAt(n, k - 1)
    <3> SUFFICES ASSUME NEW k \in 0 .. m + 1
                 PROVE  g[k] = IF k = 0 THEN 0 ELSE g[k - 1] + BitAt(n, k - 1)
      OBVIOUS
    <3>1. k # 0 => k - 1 \in 0 .. m /\ g[k - 1] = f[k - 1]
      BY <2>2
    <3>2. CASE k <= m
      <4>1. k \in 0 .. m /\ g[k] = f[k]
        BY <2>2, <3>2
      <4>2. f[k] = IF k = 0 THEN 0 ELSE f[k - 1] + BitAt(n, k - 1)
        BY <2>1, <4>1
      <4> QED BY <3>1, <4>1, <4>2
    <3>3. CASE k = m + 1
      <4>1. k # 0 /\ ~(k <= m)
        BY <2>2, <3>3
      <4>2. g[k] = f[k - 1] + BitAt(n, k - 1)
        BY <4>1
      <4> QED BY <3>1, <4>1, <4>2
    <3> QED BY <2>2, <3>2, <3>3
  <2>4. g = [k \in 0 .. m + 1 |-> g[k]]
    OBVIOUS
  <2> HIDE DEF g
  <2>5. U(g, m + 1)
    BY <2>3, <2>4
  <2> HIDE DEF U
  <2> QED BY <2>2, <2>5
<1> HIDE DEF T
<1>3. T = Nat
  <2>1. T \in SUBSET Nat
    BY DEF T
  <2> QED BY <1>1, <1>2, <2>1, SetInduction
<1>4. 16 \in T
  BY <1>3
<1> QED BY <1>4 DEF T, Counts

LEMMA CountsAre ==
  ASSUME NEW n \in Nat
  PROVE  \E s : /\ Odd(n) <=> s[16] % 2 = 1
                /\ s[0] = 0 /\ \A k \in 0 .. 16 : s[k] \in Nat
                /\ \A k \in 0 .. 15 : s[k + 1] = s[k] + BitAt(n, k)
<1> DEFINE s == CHOOSE s : Counts(s, n)
<1>1. Counts(s, n) /\ (Odd(n) <=> s[16] % 2 = 1)
  BY CountsExist DEF Odd
<1> HIDE DEF s
<1>2. \A k \in 0 .. 16 : s[k] = IF k = 0 THEN 0 ELSE s[k - 1] + BitAt(n, k - 1)
  BY <1>1 DEF Counts
<1>3. s[0] = 0
  BY <1>2
<1>4. ASSUME NEW k \in 0 .. 15 PROVE s[k + 1] = s[k] + BitAt(n, k)
  <2>1. k + 1 \in 0 .. 16 /\ k + 1 # 0 /\ (k + 1) - 1 = k
    OBVIOUS
  <2> QED BY <1>2, <2>1
<1> DEFINE T == {k \in Nat : k \in 0 .. 16 => s[k] \in Nat}
<1>5. 0 \in T
  BY <1>3
<1>6. ASSUME NEW k \in T PROVE k + 1 \in T
  <2> SUFFICES ASSUME k + 1 \in 0 .. 16 PROVE s[k + 1] \in Nat
    OBVIOUS
  <2>1. k \in 0 .. 15 /\ s[k] \in Nat
    OBVIOUS
  <2>2. BitAt(n, k) \in {0, 1}
    BY <2>1, BitValue
  <2> QED BY <1>4, <2>1, <2>2
<1> HIDE DEF T
<1>7. T = Nat
  <2>1. T \in SUBSET Nat
    BY DEF T
  <2> QED BY <1>5, <1>6, <2>1, SetInduction
<1>8. \A k \in 0 .. 16 : s[k] \in Nat
  BY <1>7 DEF T
<1> QED BY <1>1, <1>3, <1>4, <1>8
LEMMA OneIsOdd == Odd(1)
<1> DEFINE e == [k \in 0 .. 15 |-> IF k = 0 THEN 1 ELSE 0]
           h == [k \in 0 .. 16 |-> IF k = 0 THEN 1 ELSE 0]
<1>1. Chain(h, e, 16) /\ h[0] = 1 /\ 16 \in 0 .. 16 /\ 16 - 1 = 15
  BY DEF Chain
<1>2. \A k \in 0 .. 15 : e[k] = IF k = 0 THEN 1 ELSE 0
  OBVIOUS
<1> HIDE DEF e, h
<1>3. \A k \in 0 .. 16 - 1 : BitAt(h[0], k) = e[k]
  BY <1>1, Digits
<1>4. \A k \in 0 .. 15 : BitAt(1, k) = IF k = 0 THEN 1 ELSE 0
  BY <1>1, <1>2, <1>3
<1>5. PICK s : /\ Odd(1) <=> s[16] % 2 = 1
               /\ s[0] = 0 /\ \A k \in 0 .. 16 : s[k] \in Nat
               /\ \A k \in 0 .. 15 : s[k + 1] = s[k] + BitAt(1, k)
  BY CountsAre
<1> DEFINE T == {k \in Nat : k \in 1 .. 16 => s[k] = 1}
<1>6. 0 \in T
  OBVIOUS
<1>7. ASSUME NEW k \in T PROVE k + 1 \in T
  <2> SUFFICES ASSUME k + 1 \in 1 .. 16 PROVE s[k + 1] = 1
    OBVIOUS
  <2>1. k \in 0 .. 15 /\ (k # 0 => s[k] = 1)
    OBVIOUS
  <2>2. s[k + 1] = s[k] + (IF k = 0 THEN 1 ELSE 0)
    BY <1>4, <1>5, <2>1
  <2> QED BY <1>5, <2>1, <2>2
<1> HIDE DEF T
<1>8. T = Nat
  <2>1. T \in SUBSET Nat
    BY DEF T
  <2> QED BY <1>6, <1>7, <2>1, SetInduction
<1>9. s[16] = 1
  BY <1>8 DEF T
<1> QED BY <1>5, <1>9

\* A turn of the inner loop flips the top bit away and three others with it, or
\* none at all.
LEMMA TurnKeepsParity ==
  ASSUME NEW n \in Uint16, Odd(n)
  PROVE  Odd(ShiftBit(n))
<1> DEFINE m == ShiftBit(n)
           top == BitAt(n, 15)
<1>1. n \in Nat /\ m \in Nat /\ Bits(m) = TimesX(Bits(n))
  <2>1. m \in Uint16 /\ Bits(m) = TimesX(Bits(n))
    BY ShiftBitBits
  <2>2. \A x \in Uint16 : x \in Nat
    BY DEF Uint16
  <2> QED BY <2>1, <2>2
<1> HIDE DEF m
<1>2. \A k \in 0 .. 15 : BitAt(n, k) \in {0, 1} /\ (k \in Bits(n) <=> BitAt(n, k) = 1)
  BY <1>1, BitValue DEF Bits
<1>3. \A k \in 0 .. 15 : BitAt(m, k) \in {0, 1} /\ (k \in Bits(m) <=> BitAt(m, k) = 1)
  BY <1>1, BitValue DEF Bits
<1>4. \A k \in 0 .. 15 : k \in Times(1, Bits(n)) <=> k # 0 /\ k - 1 \in Bits(n)
  <2>1. Bits(n) \in SUBSET Int /\ 0 - 1 \notin Bits(n)
    BY DEF Bits
  <2> QED BY <2>1, InTimes
<1>5. ASSUME top = 0, NEW k \in 0 .. 15
      PROVE  BitAt(m, k) = IF k = 0 THEN 0 ELSE BitAt(n, k - 1)
  <2>1. 15 \notin Bits(n)
    BY <1>2, <1>5
  <2>2. k \in Bits(m) <=> k # 0 /\ k - 1 \in Bits(n)
    BY <1>1, <1>4, <2>1 DEF TimesX
  <2>3. k # 0 => k - 1 \in 0 .. 15
    OBVIOUS
  <2> QED BY <1>2, <1>3, <2>2, <2>3
<1>6. ASSUME top = 1, NEW k \in 0 .. 15
      PROVE  BitAt(m, k) = IF k = 0 THEN 1
                           ELSE IF k = 5 \/ k = 12 THEN 1 - BitAt(n, k - 1)
                           ELSE BitAt(n, k - 1)
  <2>1. 15 \in Bits(n)
    BY <1>2, <1>6
  <2>2. k \in Bits(m) <=> (k # 0 /\ k - 1 \in Bits(n) <=> k \notin {12, 5, 0})
    <3>1. Bits(m) = Plus(Times(1, Bits(n)), Generator)
      BY <1>1, <2>1 DEF TimesX
    <3>2. k \in Generator <=> k \in {12, 5, 0}
      BY DEF Generator
    <3> QED BY <1>4, <3>1, <3>2 DEF Plus
  <2>3. k # 0 => k - 1 \in 0 .. 15
    OBVIOUS
  <2>4. k # 0 => BitAt(n, k - 1) \in {0, 1} /\ (k - 1 \in Bits(n) <=> BitAt(n, k - 1) = 1)
    BY <1>2, <2>3
  <2>5. BitAt(m, k) \in {0, 1} /\ (k \in Bits(m) <=> BitAt(m, k) = 1)
    BY <1>3
  <2> QED BY <2>2, <2>4, <2>5
<1>7. PICK s : /\ Odd(n) <=> s[16] % 2 = 1
               /\ s[0] = 0 /\ \A k \in 0 .. 16 : s[k] \in Nat
               /\ \A k \in 0 .. 15 : s[k + 1] = s[k] + BitAt(n, k)
  BY <1>1, CountsAre
<1>8. PICK t : /\ Odd(m) <=> t[16] % 2 = 1
               /\ t[0] = 0 /\ \A k \in 0 .. 16 : t[k] \in Nat
               /\ \A k \in 0 .. 15 : t[k + 1] = t[k] + BitAt(m, k)
  BY <1>1, CountsAre
<1>9. top \in {0, 1} /\ s[16] = s[15] + top /\ s[15] \in Nat /\ t[16] \in Nat
  <2>1. s[15 + 1] = s[15] + BitAt(n, 15) /\ 15 + 1 = 16
    BY <1>7
  <2> QED BY <1>2, <1>7, <1>8, <2>1
<1>10. CASE top = 0
  <2> DEFINE T == {k \in Nat : k \in 0 .. 15 => t[k + 1] = s[k]}
  <2>1. 0 \in T
    <3>1. t[0 + 1] = t[0] + BitAt(m, 0) /\ BitAt(m, 0) = 0
      BY <1>5, <1>8, <1>10
    <3> QED BY <1>7, <1>8, <3>1
  <2>2. ASSUME NEW k \in T PROVE k + 1 \in T
    <3> SUFFICES ASSUME k + 1 \in 0 .. 15 PROVE t[(k + 1) + 1] = s[k + 1]
      OBVIOUS
    <3>1. k \in 0 .. 15 /\ k + 1 # 0 /\ (k + 1) - 1 = k /\ t[k + 1] = s[k]
      OBVIOUS
    <3>2. BitAt(m, k + 1) = BitAt(n, k)
      BY <1>5, <1>10, <3>1
    <3>3. t[(k + 1) + 1] = t[k + 1] + BitAt(m, k + 1) /\ s[k + 1] = s[k] + BitAt(n, k)
      BY <1>7, <1>8, <3>1
    <3> QED BY <3>1, <3>2, <3>3
  <2> HIDE DEF T
  <2>3. T = Nat
    <3>1. T \in SUBSET Nat
      BY DEF T
    <3> QED BY <2>1, <2>2, <3>1, SetInduction
  <2>4. t[16] = s[15]
    <3>1. t[15 + 1] = s[15] /\ 15 + 1 = 16
      BY <2>3 DEF T
    <3> QED BY <3>1
  <2>5. s[16] = s[15]
    BY <1>9, <1>10
  <2> QED BY <1>7, <1>8, <2>4, <2>5 DEF m
<1>11. CASE top = 1
  <2> DEFINE low == BitAt(n, 4)
             high == BitAt(n, 11)
             more(k) == 1 + (IF k < 5 THEN 0 ELSE 1 - 2 * low)
                          + (IF k < 12 THEN 0 ELSE 1 - 2 * high)
             T == {k \in Nat : k \in 0 .. 15 => t[k + 1] = s[k] + more(k)}
  <2>0. low \in {0, 1} /\ high \in {0, 1}
    BY <1>2
  <2>1. 0 \in T
    <3>1. t[0 + 1] = t[0] + BitAt(m, 0) /\ BitAt(m, 0) = 1
      BY <1>6, <1>8, <1>11
    <3> QED BY <1>7, <1>8, <3>1
  <2>2. ASSUME NEW k \in T PROVE k + 1 \in T
    <3> SUFFICES ASSUME k + 1 \in 0 .. 15 PROVE t[(k + 1) + 1] = s[k + 1] + more(k + 1)
      OBVIOUS
    <3>1. k \in 0 .. 15 /\ k + 1 # 0 /\ (k + 1) - 1 = k /\ t[k + 1] = s[k] + more(k)
      OBVIOUS
    <3>2. BitAt(m, k + 1) = IF k + 1 = 5 \/ k + 1 = 12 THEN 1 - BitAt(n, k) ELSE BitAt(n, k)
      BY <1>6, <1>11, <3>1
    <3>3. t[(k + 1) + 1] = t[k + 1] + BitAt(m, k + 1) /\ s[k + 1] = s[k] + BitAt(n, k)
      BY <1>7, <1>8, <3>1
    <3>4. s[k] \in Nat /\ BitAt(n, k) \in {0, 1}
      BY <1>2, <1>7, <3>1
    <3>5. (k = 4 => BitAt(n, k) = low) /\ (k = 11 => BitAt(n, k) = high)
      OBVIOUS
    <3> HIDE DEF low, high
    <3>6. CASE k = 4
      BY <2>0, <3>1, <3>2, <3>3, <3>4, <3>5, <3>6
    <3>7. CASE k = 11
      BY <2>0, <3>1, <3>2, <3>3, <3>4, <3>5, <3>7
    <3>8. CASE k # 4 /\ k # 11
      <4>1. more(k + 1) = more(k) /\ more(k) \in Int
        BY <2>0, <3>1, <3>8
      <4>2. BitAt(m, k + 1) = BitAt(n, k)
        BY <3>1, <3>2, <3>8
      <4> HIDE DEF more
      <4> QED BY <3>1, <3>3, <3>4, <4>1, <4>2
    <3> QED BY <3>6, <3>7, <3>8
  <2> HIDE DEF T, low, high
  <2>3. T = Nat
    <3>1. T \in SUBSET Nat
      BY DEF T
    <3> QED BY <2>1, <2>2, <3>1, SetInduction
  <2>4. t[16] = s[15] + 3 - 2 * low - 2 * high
    <3>1. t[15 + 1] = s[15] + more(15) /\ 15 + 1 = 16
      BY <2>3 DEF T
    <3> QED BY <1>9, <2>0, <3>1
  <2>5. s[16] = s[15] + 1
    BY <1>9, <1>11
  <2>6. t[16] % 2 = s[16] % 2
    BY <1>9, <2>0, <2>4, <2>5
  <2> QED BY <1>7, <1>8, <2>6 DEF m
<1> QED BY <1>9, <1>10, <1>11

\* However long the frame: an odd number of flipped bits is noticed.
THEOREM OddErrorsNoticed == CrcSpec => []DetectsOddBits
<1>1. DetectsOddBits <=> Odd(reg)
  BY DEF DetectsOddBits, Odd, Counts
<1>2. CrcInit => Odd(reg)
  BY OneIsOdd DEF CrcInit
<1>3. CrcInv /\ Odd(reg) /\ [CrcNext]_crcVars => Odd(reg)'
  <2> SUFFICES ASSUME CrcInv, Odd(reg), [CrcNext]_crcVars PROVE Odd(reg')
    OBVIOUS
  <2>1. CASE Feed
    BY <2>1 DEF Feed
  <2>2. CASE Multiply
    BY <2>2, TurnKeepsParity DEF Multiply, CrcInv, CrcTypeOK
  <2>3. CASE UNCHANGED crcVars
    BY <2>3 DEF crcVars
  <2> QED BY <2>1, <2>2, <2>3 DEF CrcNext
<1>4. CrcSpec => []Odd(reg)
  BY <1>2, <1>3, CrcInvariance, PTL DEF CrcSpec
<1> QED BY <1>1, <1>4, PTL

-----------------------------------------------------------------------------
\* What EncoderAssumption asks of the CRC holds of the code's: on bytes of eight
\* bits it fits in the two bytes that the frame has for it.
THEOREM CrcFits ==
  ASSUME BYTE_MAX = 255
  PROVE  \A p \in PacketType :
           p.length <= MAX_PAYLOAD_SIZE => CrcOf(CrcData(p)) \in 0 .. Radix * Radix - 1
<1> SUFFICES ASSUME NEW p \in PacketType, p.length <= MAX_PAYLOAD_SIZE
             PROVE  CrcOf(CrcData(p)) \in 0 .. Radix * Radix - 1
  OBVIOUS
<1> DEFINE a == Prefix(p.address, ADDR_BYTES)
           b == Prefix(p.payload, p.length)
<1>1. Byte = Uint8
  BY DEF Byte, Uint8
<1>2. /\ p.length \in Byte /\ p.address \in [0 .. ADDR_BYTES - 1 -> Byte]
      /\ p.payload \in [0 .. MAX_PAYLOAD_SIZE - 1 -> Byte]
  BY DEF PacketType, Address
<1>3. p.length \in Nat
  <2>1. \A x \in Uint8 : x \in Nat
    BY DEF Uint8
  <2> QED BY <1>1, <1>2, <2>1
<1>4. \A k \in 0 .. p.length - 1 : p.payload[k] \in Byte
  <2>1. MAX_PAYLOAD_SIZE \in Nat
    BY Numbers
  <2>2. \A k \in 0 .. p.length - 1 : k \in 0 .. MAX_PAYLOAD_SIZE - 1
    BY <1>3, <2>1
  <2> QED BY <1>2, <2>2
<1>5. a \in Seq(Byte) /\ b \in Seq(Byte)
  BY <1>2, <1>3, <1>4, Numbers, PrefixIsSeq
<1>6. CrcData(p) \in Seq(Byte)
  <2>1. CrcData(p) = (<<p.length>> \o a) \o b /\ <<p.length>> \in Seq(Byte)
    BY <1>2 DEF CrcData
  <2> HIDE DEF a, b
  <2> QED BY <1>5, <2>1, ConcatProperties
<1>7. CrcOf(CrcData(p)) \in Uint16
  <2>1. CrcData(p) \in Seq(Uint8)
    BY <1>1, <1>6
  <2> QED BY <2>1, CrcIsFold
<1>8. Uint16 = 0 .. Radix * Radix - 1
  <2>1. Radix * Radix = Width
    BY DEF Radix, Width
  <2> QED BY <2>1, Zenon DEF Uint16
<1> QED BY <1>7, <1>8
=============================================================================
