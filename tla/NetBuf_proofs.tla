---------------------------- MODULE NetBuf_proofs -----------------------------
(***************************************************************************)
(* Proofs of the safety properties of NetBuf, for every wire, every pool   *)
(* of net_bufs and everything that the functions that share the stack may  *)
(* leave in the slot of the packet.                                        *)
(*                                                                         *)
(* The properties compare what the caller gets with what the observer of   *)
(* the same bytes says it should get.  As long as the packet has been left *)
(* alone since the last START, the decoder refines the observer            *)
(* (Decoder_proofs), and a receiver of frames has no choice, so that       *)
(* the two agree.  Otherwise the packet is Disturbed until START makes the *)
(* two meet again, unless a store has left its array before.               *)
(***************************************************************************)
EXTENDS Decoder_proofs, NetBuf

-----------------------------------------------------------------------------
(***************************************************************************)
(* The receiver of frames is deterministic.                                *)
(***************************************************************************)

\* The observer has the wire of the decoder too.
LEMMA ObserverWire ==
  /\ Observer!HeaderSize = HeaderSize /\ Observer!Radix = Radix
  /\ \A b : Observer!Flip(b) = Flip(b)
  /\ \A f, n : /\ Observer!HeaderOK(f, n) = HeaderOK(f, n)
               /\ Observer!HeaderType(f, n) = HeaderType(f, n)
<1>1. Observer!HeaderSize = HeaderSize /\ Observer!Radix = Radix
  BY DEF HeaderSize, Radix, Observer!HeaderSize, Observer!Radix
<1>2. \A b : Observer!Flip(b) = Flip(b)
  BY DEF Flip, Observer!Flip
<1>3. \A f, n : /\ Observer!HeaderOK(f, n) = HeaderOK(f, n)
                /\ Observer!HeaderType(f, n) = HeaderType(f, n)
  BY DEF HeaderOK, HeaderType, ShortHeader, LongHeader, Observer!HeaderOK,
     Observer!HeaderType, Observer!ShortHeader, Observer!LongHeader
<1> QED BY <1>1, <1>2, <1>3

LEMMA SameJudgement ==
  ASSUME NEW f, NEW rx
  PROVE  /\ Observer!Size(f) = Receiver!Size(f)
         /\ Observer!Judgement(f, rx) = Receiver!Judgement(f, rx)
         /\ Observer!Message(f) = Receiver!Message(f)
<1>1. /\ Observer!Size(f) = Receiver!Size(f)
      /\ Observer!Covered(f) = Receiver!Covered(f)
      /\ Observer!Checksum(f) = Receiver!Checksum(f)
      /\ Observer!AddressOf(f) = Receiver!AddressOf(f)
      /\ Observer!PayloadOf(f) = Receiver!PayloadOf(f)
  BY ObserverWire, SameWire
  DEF Observer!Size, Receiver!Size, Observer!Covered, Receiver!Covered,
      Observer!Checksum, Receiver!Checksum, Observer!AddressOf,
      Receiver!AddressOf, Observer!PayloadOf, Receiver!PayloadOf
<1>2. \A g, n : /\ Observer!HeaderOK(g, n) = Receiver!HeaderOK(g, n)
                /\ Observer!HeaderType(g, n) = Receiver!HeaderType(g, n)
  BY ObserverWire, SameWire
<1>3. Observer!Judgement(f, rx) = Receiver!Judgement(f, rx)
  BY <1>1, <1>2 DEF Observer!Judgement, Receiver!Judgement
<1>4. Observer!Message(f) = Receiver!Message(f)
  BY <1>1, <1>2 DEF Observer!Message, Receiver!Message
<1> QED BY <1>1, <1>3, <1>4

\* The observer is where the decoder is.
Follows ==
  /\ hunting = (decoder.state = "IDLE") /\ escaped = decoder.escape_next
  /\ frame = Collected /\ verdict = result

\* The lengths that Hear compares are numbers.
LEMMA Comparable ==
  ASSUME IInv, NEW rx \in RxBytes
  PROVE  /\ decoder.state # "IDLE" /\ Collected # <<>> =>
              Len(Collected) \in Nat /\ Receiver!Size(Collected) \in Nat
         /\ Receiver!Data(rx) \in Nat
<1>1. Receiver!Data(rx) \in Nat
  BY UnescapedIsByte, SameWire, Numbers DEF Unescaped, Receiver!Data
<1>2. ASSUME decoder.state # "IDLE", Collected # <<>>
      PROVE  Len(Collected) \in Nat /\ Receiver!Size(Collected) \in Nat
  <2>1. CASE decoder.state = "LENGTH"
    <3>1. Collected = <<>>
      BY <2>1, Members, Mapped, FrameParts DEF IInv, Position
    <3> QED BY <1>2, <3>1
  <2>2. CASE decoder.state # "LENGTH"
    <3>1. decoder.state \in {"ADDRESS", "PAYLOAD", "CRC1", "CRC2", "END"}
      BY <1>2, <2>2, Members DEF States
    <3> QED BY <3>1, FrameSoFar, Members, Numbers
  <2> QED BY <2>1, <2>2
<1> QED BY <1>1, <1>2

\* Two receivers in the same state that hear the same byte do the same.
LEMMA HearTogether ==
  ASSUME IInv, Follows, NEW rx \in RxBytes, Receiver!Hear(rx), Observer!Hear(rx)
  PROVE  Follows' /\ (result' = "OK" => delivered' = DeliveredPacket')
<1> DEFINE h == decoder.state = "IDLE"
           e == decoder.escape_next
           d == IF e THEN Flip(rx) ELSE rx
           m == Collected
<1>1. /\ hunting = h /\ escaped = e /\ frame = m /\ verdict = result
      /\ e \in BOOLEAN
  BY Members DEF Follows
<1>2. /\ Receiver!Data(rx) = d /\ Observer!Data(rx) = d
      /\ Receiver!IsData(rx) <=> (e \/ rx \notin {START_BYTE, ESC_BYTE})
      /\ Observer!IsData(rx) <=> (e \/ rx \notin {START_BYTE, ESC_BYTE})
  BY <1>1, SameWire, ObserverWire
  DEF Receiver!Data, Observer!Data, Receiver!IsData, Observer!IsData
<1>3. START_BYTE # ESC_BYTE
  BY WireAssumption
<1>4. CASE Receiver!Begin(rx)
  <2>1. Observer!Begin(rx)
    BY <1>1, <1>2, <1>3, <1>4
    DEF Observer!Hear, Observer!Mark, Observer!Drop, Observer!Collect,
        Observer!TooLong, Observer!Judge, Receiver!Begin
  <2> QED BY <1>1, <1>4, <2>1 DEF Receiver!Begin, Observer!Begin, Follows
<1>5. CASE Receiver!Mark(rx)
  <2>1. Observer!Mark(rx)
    BY <1>1, <1>2, <1>3, <1>5
    DEF Observer!Hear, Observer!Begin, Observer!Drop, Observer!Collect,
        Observer!TooLong, Observer!Judge, Receiver!Mark
  <2> QED BY <1>1, <1>5, <2>1 DEF Receiver!Mark, Observer!Mark, Follows
<1>6. CASE Receiver!Drop(rx)
  <2>1. Observer!Drop(rx)
    BY <1>1, <1>2, <1>6
    DEF Observer!Hear, Observer!Begin, Observer!Mark, Observer!Collect,
        Observer!TooLong, Observer!Judge, Receiver!Drop
  <2> QED BY <1>1, <1>6, <2>1 DEF Receiver!Drop, Observer!Drop, Follows
<1>7. ASSUME Receiver!IsData(rx), ~h
      PROVE  Observer!Collect(rx) \/ Observer!TooLong(rx) \/ Observer!Judge(rx)
  BY <1>1, <1>2, <1>3, <1>7
  DEF Observer!Hear, Observer!Begin, Observer!Mark, Observer!Drop
<1>8. /\ d \in Nat /\ MAX_PAYLOAD_SIZE \in Nat
      /\ ~h /\ m # <<>> => Len(m) \in Nat /\ Receiver!Size(m) \in Nat
  BY <1>2, Comparable, Numbers
<1>9. Observer!Size(frame) = Receiver!Size(m)
  BY <1>1, SameJudgement
<1>13. /\ Observer!Collect(rx) =>
            \/ m = <<>> /\ d <= MAX_PAYLOAD_SIZE
            \/ m # <<>> /\ Len(m) < Receiver!Size(m)
       /\ Observer!TooLong(rx) => m = <<>> /\ d > MAX_PAYLOAD_SIZE
       /\ Observer!Judge(rx) => m # <<>> /\ Len(m) = Receiver!Size(m)
  <2> HIDE DEF h, e, d, m
  <2>1. Observer!Data(rx) = d /\ frame = m
    BY <1>1, <1>2
  <2> QED
    BY <2>1, <1>9 DEF Observer!Collect, Observer!TooLong, Observer!Judge
<1>14. Receiver!Data(rx) = d
  BY <1>2
<1> HIDE DEF h, e, d, m
<1>10. CASE Receiver!Collect(rx)
  <2>1. /\ Receiver!IsData(rx) /\ ~h
        /\ \/ m = <<>> /\ d <= MAX_PAYLOAD_SIZE
           \/ m # <<>> /\ Len(m) < Receiver!Size(m)
    BY <1>14, <1>10 DEF Receiver!Collect, h, m
  <2>2. Observer!Collect(rx)
    BY <1>7, <1>8, <1>13, <2>1
  <2> QED
    BY <1>1, <1>2, <1>10, <2>2
    DEF Receiver!Collect, Observer!Collect, Follows, h, e, m
<1>11. CASE Receiver!TooLong(rx)
  <2>1. Receiver!IsData(rx) /\ ~h /\ m = <<>> /\ d > MAX_PAYLOAD_SIZE
    BY <1>14, <1>11 DEF Receiver!TooLong, h, m
  <2>2. Observer!TooLong(rx)
    BY <1>7, <1>8, <1>13, <2>1
  <2> QED
    BY <1>1, <1>2, <1>11, <2>2
    DEF Receiver!TooLong, Observer!TooLong, Follows, h, e, m
<1>12. CASE Receiver!Judge(rx)
  <2>1. /\ Receiver!IsData(rx) /\ ~h
        /\ m # <<>> /\ Len(m) = Receiver!Size(m)
    BY <1>12 DEF Receiver!Judge, h, m
  <2>2. Observer!Judge(rx)
    BY <1>7, <1>8, <1>13, <2>1
  <2>3. /\ result' = Receiver!Judgement(m, rx)
        /\ result' = "OK" => DeliveredPacket' = Receiver!Message(m)
        /\ decoder'.state = "IDLE" /\ decoder'.escape_next = FALSE
        /\ Collected' = <<>>
    BY <1>12 DEF Receiver!Judge, m
  <2>4. /\ verdict' = Observer!Judgement(m, rx)
        /\ verdict' = "OK" => delivered' = Observer!Message(m)
        /\ hunting' = TRUE /\ escaped' = FALSE /\ frame' = <<>>
    BY <1>1, <2>2 DEF Observer!Judge
  <2> QED BY <2>3, <2>4, SameJudgement DEF Follows
<1> QED
  BY <1>4, <1>5, <1>6, <1>10, <1>11, <1>12 DEF Receiver!Hear

-----------------------------------------------------------------------------
(***************************************************************************)
(* The decoder with a packet that others write to.                         *)
(***************************************************************************)

\* The steps of this part look into the members of the two structures.
USE DEF DecoderRecords, PacketRecords

\* What is left of the decoder once the packet was written over inside a
\* frame: the structures are structures, every element of the payload has some
\* value, and the indices count what the decoder has stored.  Nothing is known
\* of the length.
Counted ==
  /\ decoder.state = "LENGTH" => decoder.buffer_index = 0
  /\ decoder.state = "ADDRESS" =>
       /\ decoder.addr_byte_count < ADDR_BYTES
       /\ decoder.buffer_index = decoder.addr_byte_count + 1
  /\ decoder.state = "PAYLOAD" => decoder.buffer_index >= HeaderSize

Disturbed ==
  /\ TypeOK /\ Counted
  /\ DOMAIN packet.payload = 0 .. MAX_PAYLOAD_SIZE - 1

Sane == IInv \/ Disturbed

\* What is true of decoder and packet always.
LEMMA SaneParts == Sane => TypeOK /\ Counted
BY DEF Sane, Disturbed, Counted, IInv, Position

\* START makes decoder and packet whole again, whatever was done to them.
LEMMA StartRepairs ==
  ASSUME Sane, NEW rx \in RxBytes, Start(rx)
  PROVE  IInv' /\ Collected' = <<>>
<1>1. /\ NoBytes \in Arrays(BUFFER_SIZE) /\ NoBytes \in Arrays(MAX_PAYLOAD_SIZE)
      /\ DOMAIN NoBytes = 0 .. 0 - 1 /\ DOMAIN NoBytes = {}
  BY EmptyArray, Numbers
<1>2. ZeroAddress \in Address /\ \A k \in 0 .. ADDR_BYTES - 1 : ZeroAddress[k] = 0
  BY Numbers DEF ZeroAddress, Address
<1>3. /\ decoder' \in DecoderRecords
      /\ DOMAIN decoder'.buffer = 0 .. decoder'.buffer_index - 1
      /\ decoder'.state = "LENGTH" /\ decoder'.buffer_index = 0
      /\ decoder'.buffer = NoBytes
  BY <1>1, Numbers DEF Start, States, DecoderRecords
<1> HIDE DEF NoBytes, ZeroAddress
<1>4. /\ packet' \in PacketRecords
      /\ packet'.address = ZeroAddress /\ packet'.payload = NoBytes
  BY <1>1, <1>2, SaneParts DEF Start, TypeOK
<1>5. result' \in Results
  BY DEF Start, Results
<1>6. TypeOK'
  BY <1>3, <1>4, <1>5 DEF TypeOK
<1>7. Position'
  BY <1>1, <1>3, <1>4 DEF Position
<1>8. Agreement'
  BY <1>2, <1>3, <1>4 DEF Agreement
<1>9. IInv'
  BY <1>3, <1>6, <1>7, <1>8 DEF IInv, HighByte
<1>10. Collected' = <<>>
  BY <1>3 DEF Collected, CollectedCrc, Prefix
<1> QED BY <1>9, <1>10

\* The elements of a payload that has them all.
LEMMA FullPayload ==
  ASSUME Disturbed
  PROVE  packet.payload \in [0 .. MAX_PAYLOAD_SIZE - 1 -> Byte]
<1>1. packet.payload \in Arrays(MAX_PAYLOAD_SIZE)
  BY DEF Disturbed, TypeOK
<1>2. PICK n \in 0 .. MAX_PAYLOAD_SIZE : packet.payload \in [0 .. n - 1 -> Byte]
  BY <1>1, ArrayElements, Numbers
<1> QED BY <1>2 DEF Disturbed

\* A header can be read from it, and its type is a byte.
LEMMA AnyHeader ==
  ASSUME Disturbed
  PROVE  HeaderType(packet.payload, packet.length) \in Byte
<1>1. MAX_PAYLOAD_SIZE >= 3 /\ MAX_PAYLOAD_SIZE \in Nat
  BY NetBufAssumption, Numbers
<1>2. 1 \in 0 .. MAX_PAYLOAD_SIZE - 1 /\ 2 \in 0 .. MAX_PAYLOAD_SIZE - 1
  BY <1>1
<1>3. packet.payload[1] \in Byte /\ packet.payload[2] \in Byte
  BY <1>2, FullPayload
<1> QED BY <1>3 DEF HeaderType

\* The end of a frame, and every step that stores nothing.
LEMMA DisturbedQuiet ==
  ASSUME Disturbed, NEW rx \in RxBytes,
         \/ Escape(rx) \/ Ignore(rx) \/ RejectLength(rx) \/ MissingEnd(rx)
         \/ BadCrc(rx) \/ BadHeader(rx) \/ Accept(rx) \/ EndOfUnknown(rx)
  PROVE  Disturbed'
<1> DEFINE t == HeaderType(packet.payload, packet.length)
<1>1. t \in Byte
  BY AnyHeader
<1> HIDE DEF t
<1>2. \/ packet' = packet
      \/ packet' = [packet EXCEPT !.msg_type = t]
  BY DEF Escape, Ignore, RejectLength, MissingEnd, BadCrc, BadHeader, Accept,
     EndOfUnknown, t
<1>3. /\ packet' \in PacketRecords /\ packet'.payload = packet.payload
  BY <1>1, <1>2 DEF Disturbed, TypeOK
<1>4. /\ result' \in Results
      /\ \/ decoder' = [decoder EXCEPT !.escape_next = TRUE]
         \/ decoder' = [decoder EXCEPT !.escape_next = FALSE]
         \/ decoder' = [decoder EXCEPT !.state = "IDLE", !.escape_next = FALSE]
  BY DEF Escape, Ignore, RejectLength, MissingEnd, BadCrc, BadHeader, Accept,
     EndOfUnknown, Finish, Results
<1>5. /\ decoder' \in DecoderRecords
      /\ decoder'.state \in {"IDLE", decoder.state}
      /\ decoder'.buffer = decoder.buffer
      /\ decoder'.buffer_index = decoder.buffer_index
      /\ decoder'.addr_byte_count = decoder.addr_byte_count
  BY <1>4 DEF Disturbed, TypeOK, States
<1>6. TypeOK'
  BY <1>3, <1>4, <1>5 DEF Disturbed, TypeOK
<1>7. Counted'
  BY <1>5 DEF Disturbed, Counted
<1> QED BY <1>3, <1>6, <1>7 DEF Disturbed

LEMMA DisturbedLength ==
  ASSUME Disturbed, NEW rx \in RxBytes, Length(rx)
  PROVE  Disturbed'
<1> DEFINE v == Unescaped(rx)
           d == Store("ADDRESS", rx)
<1>1. v \in Byte
  BY UnescapedIsByte
<1>2. /\ TypeOK /\ decoder.buffer_index = 0
      /\ decoder.buffer_index < BUFFER_SIZE /\ "ADDRESS" \in States
  BY Numbers DEF Disturbed, Counted, Length, Reaches, States
<1>3. /\ d \in DecoderRecords
      /\ d.state = "ADDRESS" /\ d.buffer_index = 0 + 1
      /\ DOMAIN d.buffer = 0 .. d.buffer_index - 1
  BY <1>2, StoreEffect
<1> HIDE DEF d, v
<1>4. decoder' = [d EXCEPT !.addr_byte_count = 0] /\ 0 \in 0 .. ADDR_BYTES
  BY Numbers DEF Length, d
<1>5. /\ decoder' \in DecoderRecords
      /\ decoder'.state = "ADDRESS" /\ decoder'.buffer_index = 0 + 1
      /\ decoder'.addr_byte_count = 0
      /\ DOMAIN decoder'.buffer = 0 .. decoder'.buffer_index - 1
  BY <1>3, <1>4
<1>6. packet' = [packet EXCEPT !.length = v] /\ result' = "INCOMPLETE"
  BY DEF Length, v
<1>7. packet' \in PacketRecords /\ packet'.payload = packet.payload
  BY <1>1, <1>2, <1>6 DEF TypeOK
<1>8. TypeOK'
  BY <1>5, <1>6, <1>7 DEF TypeOK, Results
<1>9. Counted'
  BY <1>5, Numbers DEF Counted
<1> QED BY <1>7, <1>8, <1>9 DEF Disturbed

LEMMA DisturbedAddress ==
  ASSUME Disturbed, StoresInBounds, NEW rx \in RxBytes, AddressByte(rx)
  PROVE  Disturbed'
<1> DEFINE v == Unescaped(rx)
           c == decoder.addr_byte_count
           a == AfterAddress
           d == Store(a, rx)
<1>1. /\ TypeOK /\ c \in 0 .. ADDR_BYTES - 1 /\ decoder.buffer_index = c + 1
      /\ decoder.buffer_index < BUFFER_SIZE
  BY Numbers
  DEF Disturbed, Counted, TypeOK, StoresInBounds, AddressByte, Reaches
<1>2. v \in Byte
  BY UnescapedIsByte
<1>3. /\ a \in {"ADDRESS", "PAYLOAD", "CRC1"} /\ a \in States
      /\ a = "ADDRESS" => c + 1 < ADDR_BYTES
      /\ a # "ADDRESS" => c + 1 = ADDR_BYTES
  <2>1. CASE c + 1 < ADDR_BYTES
    BY <1>1, <2>1, Numbers DEF AfterAddress, States
  <2>2. CASE c + 1 = ADDR_BYTES
    <3>1. c + 1 >= ADDR_BYTES /\ ~(c + 1 < ADDR_BYTES)
      BY <2>2, Numbers
    <3>2. a = IF packet.length = 0 THEN "CRC1" ELSE "PAYLOAD"
      BY <3>1 DEF AfterAddress
    <3> QED BY <2>2, <3>2 DEF States
  <2> QED BY <1>1, <2>1, <2>2, Numbers
<1> HIDE DEF a, v
<1>4. /\ d \in DecoderRecords /\ d.state = a /\ d.buffer_index = c + 2
      /\ d.addr_byte_count = c /\ DOMAIN d.buffer = 0 .. d.buffer_index - 1
  <2>1. LET e == Store(a, rx)
        IN  /\ e \in DecoderRecords /\ e.state = a
            /\ e.buffer_index = decoder.buffer_index + 1
            /\ e.addr_byte_count = c
            /\ DOMAIN e.buffer = 0 .. e.buffer_index - 1
    BY <1>1, <1>3, StoreEffect
  <2> QED BY <1>1, <2>1
<1> HIDE DEF d
<1>5. decoder' = [d EXCEPT !.addr_byte_count = c + 1]
  <2>1. decoder' = [d EXCEPT !.addr_byte_count = @ + 1]
    BY DEF AddressByte, d, a
  <2> QED BY <1>4, <2>1
<1>6. /\ decoder' \in DecoderRecords /\ decoder'.state = a
      /\ decoder'.buffer_index = c + 2 /\ decoder'.addr_byte_count = c + 1
      /\ DOMAIN decoder'.buffer = 0 .. decoder'.buffer_index - 1
  <2>1. c + 1 \in 0 .. ADDR_BYTES
    BY <1>1, Numbers
  <2> QED BY <1>4, <1>5, <2>1
<1>7. packet.address \in Address /\ packet.address[c] \in Byte
  BY <1>1 DEF TypeOK, Address
<1>8. /\ packet' = [packet EXCEPT !.address =
                      [packet.address EXCEPT ![c] = BitOr(packet.address[c], v)]]
      /\ result' = "INCOMPLETE"
  BY <1>1 DEF AddressByte, v, TypeOK
<1>9. /\ packet' \in PacketRecords /\ packet'.payload = packet.payload
  <2>1. BitOr(packet.address[c], v) \in Byte
    BY <1>2, <1>7, BitOrAssumption
  <2>2. [packet.address EXCEPT ![c] = BitOr(packet.address[c], v)] \in Address
    BY <1>1, <1>7, <2>1 DEF Address
  <2> QED BY <1>1, <1>8, <2>2 DEF TypeOK
<1>10. TypeOK'
  BY <1>6, <1>8, <1>9 DEF TypeOK, Results
<1>11. Counted'
  BY <1>1, <1>3, <1>6, Numbers DEF Counted
<1> QED BY <1>9, <1>10, <1>11 DEF Disturbed

LEMMA DisturbedPayload ==
  ASSUME Disturbed, StoresInBounds, NEW rx \in RxBytes, PayloadByte(rx)
  PROVE  Disturbed'
<1> DEFINE v == Unescaped(rx)
           k == decoder.buffer_index - HeaderSize
           a == AfterPayload
           d == Store(a, rx)
           f == Put(packet.payload, k, v)
<1>1. /\ TypeOK /\ decoder.buffer_index < BUFFER_SIZE
      /\ k \in 0 .. MAX_PAYLOAD_SIZE - 1 /\ decoder.buffer_index >= HeaderSize
      /\ decoder.buffer_index \in Nat
  BY Numbers
  DEF Disturbed, Counted, TypeOK, StoresInBounds, PayloadByte, Reaches
<1>2. v \in Byte
  BY UnescapedIsByte
<1>3. a \in {"PAYLOAD", "CRC1"} /\ a \in States
  BY DEF AfterPayload, States
<1> HIDE DEF a, v
<1>4. /\ d \in DecoderRecords /\ d.state = a
      /\ d.buffer_index = decoder.buffer_index + 1
      /\ DOMAIN d.buffer = 0 .. d.buffer_index - 1
  BY <1>1, <1>3, StoreEffect
<1> HIDE DEF d
<1>5. decoder' = d /\ packet' = [packet EXCEPT !.payload = f] /\ result' = "INCOMPLETE"
  BY DEF PayloadByte, d, a, v
<1> HIDE DEF k
<1>6. f \in [0 .. MAX_PAYLOAD_SIZE - 1 -> Byte]
  <2>1. packet.payload \in [0 .. MAX_PAYLOAD_SIZE - 1 -> Byte]
    BY FullPayload
  <2>2. DOMAIN packet.payload \cup {k} = 0 .. MAX_PAYLOAD_SIZE - 1
    BY <1>1, <2>1
  <2>3. f = [j \in 0 .. MAX_PAYLOAD_SIZE - 1 |->
              IF j = k THEN v ELSE packet.payload[j]]
    BY <2>2, Zenon DEF Put
  <2> QED BY <1>2, <2>1, <2>3
<1>7. f \in Arrays(MAX_PAYLOAD_SIZE)
  <2>1. MAX_PAYLOAD_SIZE \in 0 .. MAX_PAYLOAD_SIZE
    BY Numbers
  <2> QED BY <1>6, <2>1, ArrayByElements, Numbers
<1> HIDE DEF f
<1>8. packet' \in PacketRecords /\ packet'.payload = f
  BY <1>1, <1>5, <1>7 DEF TypeOK
<1>9. TypeOK'
  BY <1>4, <1>5, <1>8 DEF TypeOK, Results
<1>10. Counted'
  BY <1>1, <1>3, <1>4, <1>5, Numbers DEF Counted
<1> QED BY <1>6, <1>8, <1>9, <1>10 DEF Disturbed

LEMMA DisturbedCrc ==
  ASSUME Disturbed, NEW rx \in RxBytes, CrcHigh(rx) \/ CrcLow(rx)
  PROVE  Disturbed'
<1> DEFINE v == Unescaped(rx)
           h == packet.crc \div Radix
           l == packet.crc % Radix
<1>1. v \in Byte
  BY UnescapedIsByte
<1>2. h \in Byte /\ l \in Byte
  <2>1. /\ packet.crc \in 0 .. Radix * Radix - 1
        /\ Radix \in Nat /\ Radix > 0 /\ Byte = 0 .. Radix - 1
    BY Numbers DEF Disturbed, TypeOK
  <2> QED BY <2>1, TwoDigits
<1>3. /\ v * Radix \in 0 .. Radix * Radix - 1
      /\ h * Radix + BitOr(l, v) \in 0 .. Radix * Radix - 1
  <2>1. 0 \in Byte /\ BitOr(l, v) \in Byte
    BY <1>1, <1>2, Numbers, BitOrAssumption
  <2>2. /\ v * Radix + 0 \in 0 .. Radix * Radix - 1
        /\ h * Radix + BitOr(l, v) \in 0 .. Radix * Radix - 1
    BY <1>1, <1>2, <2>1, TwoBytes
  <2>3. v * Radix + 0 = v * Radix
    BY <1>1, Numbers
  <2> QED BY <2>2, <2>3
<1>4. \/ packet' = [packet EXCEPT !.crc = v * Radix]
      \/ packet' = [packet EXCEPT !.crc = h * Radix + BitOr(l, v)]
  BY DEF CrcHigh, CrcLow
<1> HIDE DEF v, h, l
<1>5. packet' \in PacketRecords /\ packet'.payload = packet.payload
  BY <1>3, <1>4 DEF Disturbed, TypeOK
<1>6. /\ decoder' \in DecoderRecords /\ result' \in Results
      /\ decoder'.state \in {"CRC2", "END"}
      /\ decoder'.buffer = decoder.buffer
      /\ decoder'.buffer_index = decoder.buffer_index
  BY DEF Disturbed, TypeOK, CrcHigh, CrcLow, States, Results
<1>7. TypeOK'
  BY <1>5, <1>6 DEF Disturbed, TypeOK
<1>8. Counted'
  BY <1>6 DEF Counted
<1> QED BY <1>5, <1>7, <1>8 DEF Disturbed

\* Without START a disturbed packet stays one.
LEMMA DisturbedStays ==
  ASSUME Disturbed, NEW rx \in RxBytes, DecodeInBounds(rx), ~Start(rx)
  PROVE  Disturbed'
<1>1. CASE \/ Escape(rx) \/ Ignore(rx) \/ RejectLength(rx) \/ MissingEnd(rx)
           \/ BadCrc(rx) \/ BadHeader(rx) \/ Accept(rx) \/ EndOfUnknown(rx)
  BY <1>1, DisturbedQuiet
<1>2. CASE Length(rx)
  BY <1>2, DisturbedLength
<1>3. ASSUME AddressByte(rx) \/ PayloadByte(rx) PROVE StoresInBounds
  BY <1>3 DEF DecodeInBounds, Stores, AddressByte, PayloadByte
<1>4. CASE AddressByte(rx)
  BY <1>3, <1>4, DisturbedAddress
<1>5. CASE PayloadByte(rx)
  BY <1>3, <1>5, DisturbedPayload
<1>6. CASE CrcHigh(rx) \/ CrcLow(rx)
  BY <1>6, DisturbedCrc
<1> QED
  BY <1>1, <1>2, <1>4, <1>5, <1>6 DEF DecodeInBounds, DecodeByte

HIDE DEF DecoderRecords, PacketRecords

-----------------------------------------------------------------------------
(***************************************************************************)
(* The inductive invariant.                                                *)
(***************************************************************************)

\* The pool, which does not depend on the frames.
Pool ==
  /\ allocated = owned /\ allocated \subseteq Buffers
  /\ returned \in Buffers \cup {Null}
  /\ hadBuffer \in BOOLEAN /\ clobbered \in BOOLEAN /\ overrun \in BOOLEAN
  /\ DOMAIN content = Buffers
  /\ \A b \in owned : content[b] # NoPacket
  /\ clobbered => StackPackets # {}

NInv ==
  /\ Pool
  /\ Sane /\ escaped = decoder.escape_next
  /\ ~clobbered => IInv /\ Follows /\ ~overrun
  /\ OnlyCompleteFrames /\ IntactFrameReturned

\* Between two clobbered frames the decoder is in its invariant: its stores are
\* in bounds.
LEMMA NInvImplies ==
  NInv => /\ NetBufTypeOK /\ NoLeak /\ OverrunNeedsClobber
          /\ IntactFrameReturned /\ OnlyCompleteFrames
<1> SUFFICES ASSUME NInv
             PROVE  NetBufTypeOK /\ NoLeak /\ OverrunNeedsClobber
  BY DEF NInv
<1>1. NetBufTypeOK /\ NoLeak
  BY SaneParts DEF NInv, Pool, NetBufTypeOK, NoLeak
<1>2. OverrunNeedsClobber
  BY StoresStayInBounds DEF NInv, OverrunNeedsClobber
<1> QED BY <1>1, <1>2

\* Whatever a call does, the pool stays consistent.
LEMMA DecodePool ==
  ASSUME Pool, NEW byte \in RxBytes, DecodeToNetBuf(byte)
  PROVE  Pool'
<1>1. /\ hadBuffer' \in BOOLEAN /\ clobbered' \in BOOLEAN /\ overrun' \in BOOLEAN
      /\ clobbered' => StackPackets # {}
  BY DEF DecodeToNetBuf, Heard, Pool
<1>2. CASE ReturnNull
  BY <1>1, <1>2 DEF ReturnNull, Pool
<1>3. CASE ReturnPacket
  <2>1. CASE allocated = Buffers /\ returned' = Null /\ UNCHANGED <<allocated, content, owned>>
    BY <1>1, <2>1 DEF Pool
  <2>2. ASSUME NEW b \in Buffers \ allocated,
               allocated' = allocated \cup {b},
               content' = [content EXCEPT ![b] = DeliveredPacket'],
               returned' = b, owned' = owned \cup {b}
        PROVE  Pool'
    <3>1. DeliveredPacket' # NoPacket
      BY DEF DeliveredPacket, NoPacket
    <3>2. /\ DOMAIN content' = Buffers /\ content'[b] = DeliveredPacket'
          /\ \A c \in Buffers \ {b} : content'[c] = content[c]
      BY <2>2 DEF Pool
    <3>3. \A c \in owned' : content'[c] # NoPacket
      BY <2>2, <3>1, <3>2 DEF Pool
    <3> HIDE DEF NoPacket
    <3>4. /\ allocated' = owned' /\ allocated' \subseteq Buffers
          /\ returned' \in Buffers \cup {Null}
      BY <2>2 DEF Pool
    <3> QED BY <1>1, <3>2, <3>3, <3>4 DEF Pool
  <2> QED BY <1>3, <2>1, <2>2 DEF ReturnPacket
<1> QED BY <1>2, <1>3 DEF DecodeToNetBuf

\* A call returns a net_buf only with OK, and then with the packet, unless the
\* pool is empty.
LEMMA DecodeReturns ==
  ASSUME Pool, NEW byte \in RxBytes, DecodeToNetBuf(byte)
  PROVE  /\ returned' # Null => result' = "OK"
         /\ result' = "OK" /\ hadBuffer' =>
              /\ returned' \in Buffers
              /\ content'[returned'] = DeliveredPacket'
<1>1. hadBuffer' = (allocated # Buffers)
  BY DEF DecodeToNetBuf, Heard
<1>2. returned' # Null => result' = "OK"
  BY DEF DecodeToNetBuf, ReturnNull
<1>3. ASSUME result' = "OK", hadBuffer'
      PROVE  returned' \in Buffers /\ content'[returned'] = DeliveredPacket'
  <2>1. PICK b \in Buffers \ allocated :
          /\ content' = [content EXCEPT ![b] = DeliveredPacket']
          /\ returned' = b
    BY <1>1, <1>3 DEF DecodeToNetBuf, ReturnPacket
  <2> QED BY <2>1 DEF Pool
<1> QED BY <1>2, <1>3

\* The second half of an escape pair is the same byte to both, always.
LEMMA EscapeTogether ==
  ASSUME Sane, escaped = decoder.escape_next, NEW rx \in RxBytes,
         DecodeInBounds(rx), Observer!Hear(rx)
  PROVE  /\ escaped' = decoder'.escape_next
         /\ Start(rx) => Observer!Begin(rx)
<1>1. decoder.escape_next \in BOOLEAN /\ START_BYTE # ESC_BYTE
  BY SaneParts, WireAssumption DEF TypeOK, DecoderRecords
<1>2. CASE Start(rx)
  <2>1. rx = START_BYTE /\ ~escaped
    BY <1>2 DEF Start, StartsFrame
  <2>2. Observer!Begin(rx)
    BY <1>1, <2>1
    DEF Observer!Hear, Observer!Mark, Observer!Drop, Observer!Collect,
        Observer!TooLong, Observer!Judge, Observer!IsData
  <2> QED BY <1>1, <1>2, <2>1, <2>2 DEF Start, Observer!Begin
<1>3. CASE Escape(rx)
  <2>1. rx = ESC_BYTE /\ ~escaped
    BY <1>3 DEF Escape, StartsEscape
  <2>2. Observer!Mark(rx)
    BY <1>1, <2>1
    DEF Observer!Hear, Observer!Begin, Observer!Drop, Observer!Collect,
        Observer!TooLong, Observer!Judge, Observer!IsData
  <2>3. decoder'.escape_next = TRUE
    BY <1>3, SaneParts DEF Escape, TypeOK, DecoderRecords
  <2>4. ~Start(rx)
    BY <1>1, <2>1 DEF Start, StartsFrame
  <2> QED BY <2>2, <2>3, <2>4 DEF Observer!Mark
<1>4. CASE ~Start(rx) /\ ~Escape(rx)
  <2>1. \E s : Reaches(s, rx)
    BY <1>4
    DEF DecodeInBounds, EndOfUnknown, DecodeByte, Ignore, RejectLength, Length,
        AddressByte, PayloadByte, CrcHigh, CrcLow, MissingEnd, BadCrc, BadHeader,
        Accept, Ends
  <2>2. ~Observer!Begin(rx) /\ ~Observer!Mark(rx)
    BY <1>1, <2>1
    DEF Reaches, StartsFrame, StartsEscape, Observer!Begin, Observer!Mark
  <2>3. escaped' = FALSE
    BY <2>2
    DEF Observer!Hear, Observer!Drop, Observer!Collect, Observer!TooLong,
        Observer!Judge
  <2>4. decoder'.escape_next = FALSE
    BY <1>4, SaneParts
    DEF DecodeInBounds, EndOfUnknown, DecodeByte, Ignore, RejectLength, Length,
        AddressByte, PayloadByte, CrcHigh, CrcLow, MissingEnd, BadCrc, BadHeader,
        Accept, Finish, Store, TypeOK, DecoderRecords
  <2> QED BY <1>4, <2>3, <2>4
<1> QED BY <1>2, <1>3, <1>4

\* In its invariant the decoder has the bytes it computes the CRC over.
LEMMA SaneStays ==
  ASSUME Sane, NEW byte \in RxBytes, DecodeInBounds(byte)
  PROVE  Sane' /\ (IInv => DecodeByte(byte) /\ IInv')
<1>1. ASSUME IInv PROVE DecodeByte(byte) /\ IInv'
  <2>1. Ends(byte) => FrameHasBytes
    BY <1>1, Numbers
    DEF IInv, TypeOK, Position, Ends, Reaches, FrameHasBytes, DecoderRecords,
        PacketRecords
  <2>2. DecodeByte(byte)
    BY <2>1 DEF DecodeInBounds, EndOfUnknown
  <2>3. Next
    BY <2>2 DEF Next
  <2> QED BY <1>1, <2>2, <2>3, StepIInv
<1>2. ASSUME Disturbed PROVE Sane'
  BY <1>2, StartRepairs, DisturbedStays DEF Sane
<1> QED BY <1>1, <1>2 DEF Sane

LEMMA DecodeKeeps ==
  ASSUME NInv, NEW byte \in RxBytes, DecodeToNetBuf(byte)
  PROVE  NInv'
<1>1. /\ Pool /\ Sane /\ escaped = decoder.escape_next
      /\ ~clobbered => IInv /\ Follows
  BY DEF NInv
<1>2. /\ DecodeInBounds(byte) /\ Observer!Hear(byte)
      /\ clobbered' = (clobbered /\ ~StartsFrame(byte))
      /\ ~overrun'
  BY DEF DecodeToNetBuf, Heard
<1>3. Pool' /\ Sane' /\ escaped' = decoder'.escape_next
  BY <1>1, <1>2, DecodePool, SaneStays, EscapeTogether
<1>4. ASSUME ~clobbered'
      PROVE  IInv' /\ Follows' /\ (result' = "OK" => delivered' = DeliveredPacket')
  <2>1. CASE Start(byte)
    <3>1. IInv' /\ Collected' = <<>>
      BY <1>1, <2>1, StartRepairs
    <3>2. Observer!Begin(byte)
      BY <1>1, <1>2, <2>1, EscapeTogether
    <3>3. decoder'.state = "LENGTH" /\ result' = "INCOMPLETE"
      BY <2>1 DEF Start
    <3> QED BY <1>3, <3>1, <3>2, <3>3 DEF Observer!Begin, Follows
  <2>2. CASE ~Start(byte)
    <3>1. ~clobbered
      <4>1. ~StartsFrame(byte)
        BY <1>2, <2>2, WireAssumption
        DEF DecodeInBounds, EndOfUnknown, DecodeByte, Escape, StartsEscape,
            StartsFrame, Reaches, Ignore, RejectLength, Length, AddressByte,
            PayloadByte, CrcHigh, CrcLow, MissingEnd, BadCrc, BadHeader, Accept,
            Ends
      <4> QED BY <1>2, <1>4, <4>1
    <3>2. IInv /\ Follows /\ DecodeByte(byte) /\ IInv'
      BY <1>1, <1>2, <3>1, SaneStays
    <3>3. Receiver!Hear(byte)
      BY <1>2, <3>2, DecodeRefines
    <3> QED BY <1>2, <3>2, <3>3, HearTogether
  <2> QED BY <2>1, <2>2
<1>5. OnlyCompleteFrames'
  BY <1>1, <1>4, DecodeReturns DEF OnlyCompleteFrames, Follows
<1>6. IntactFrameReturned'
  BY <1>1, <1>4, DecodeReturns
  DEF IntactFrameReturned, CompleteFrameReturned, Follows
<1> QED BY <1>2, <1>3, <1>4, <1>5, <1>6 DEF NInv

LEMMA UnrefKeeps ==
  ASSUME NInv, NEW b \in Buffers, Unref(b)
  PROVE  NInv'
<1>1. /\ owned' = owned \ {b} /\ allocated' = allocated \ {b}
      /\ decoder' = decoder /\ packet' = packet /\ result' = result
      /\ hunting' = hunting /\ escaped' = escaped /\ frame' = frame
      /\ verdict' = verdict /\ delivered' = delivered
      /\ content' = content /\ returned' = returned /\ hadBuffer' = hadBuffer
      /\ clobbered' = clobbered /\ overrun' = overrun
  BY DEF Unref, vars, observerVars
<1>2. Pool'
  BY <1>1 DEF NInv, Pool
<1>3. Sane' = Sane /\ IInv' = IInv /\ Follows' = Follows
  <2>1. IInv' = IInv
    BY <1>1 DEF IInv, TypeOK, Position, Agreement, HighByte
  <2>2. Disturbed' = Disturbed
    BY <1>1 DEF Disturbed, TypeOK, Counted
  <2>3. Follows' = Follows
    BY <1>1 DEF Follows, Collected, CollectedCrc
  <2> QED BY <2>1, <2>2, <2>3 DEF Sane
<1>4. OnlyCompleteFrames' /\ IntactFrameReturned'
  BY <1>1
  DEF NInv, OnlyCompleteFrames, IntactFrameReturned, CompleteFrameReturned
<1> QED BY <1>1, <1>2, <1>3, <1>4 DEF NInv

LEMMA ResetKeeps ==
  ASSUME NInv, ResetByOwner
  PROVE  NInv'
<1>1. /\ ResetDecoder /\ result' = result
      /\ decoder' = [state |-> "IDLE", buffer |-> NoBytes, buffer_index |-> 0,
                     escape_next |-> FALSE, addr_byte_count |-> 0]
      /\ packet' = packet
      /\ hunting' = TRUE /\ escaped' = FALSE /\ frame' = <<>>
      /\ verdict' = verdict /\ delivered' = delivered
      /\ owned' = owned /\ allocated' = allocated /\ content' = content
      /\ returned' = returned /\ hadBuffer' = hadBuffer /\ clobbered' = clobbered
      /\ overrun' = overrun
  BY DEF ResetByOwner, ResetDecoder, Observer!Reset, poolVars
<1>2. Pool'
  BY <1>1 DEF NInv, Pool
<1>3. IInv => IInv'
  BY <1>1, ResetStep
<1>4. Disturbed => Disturbed'
  <2>1. NoBytes \in Arrays(BUFFER_SIZE) /\ DOMAIN NoBytes = 0 .. 0 - 1
    BY EmptyArray, Numbers
  <2>2. TypeOK => TypeOK'
    BY <1>1, <2>1, Numbers DEF TypeOK, States, DecoderRecords
  <2> QED BY <1>1, <2>2 DEF Disturbed, Counted
<1>5. decoder'.state = "IDLE" /\ decoder'.escape_next = FALSE /\ Collected' = <<>>
  BY <1>1 DEF Collected
<1>6. Follows => Follows'
  BY <1>1, <1>5 DEF Follows
<1>7. OnlyCompleteFrames' /\ IntactFrameReturned'
  BY <1>1
  DEF NInv, OnlyCompleteFrames, IntactFrameReturned, CompleteFrameReturned
<1> QED BY <1>1, <1>2, <1>3, <1>4, <1>5, <1>6, <1>7 DEF NInv, Sane

\* Writing over the packet between frames does no harm; inside a frame it
\* leaves a disturbed packet.
LEMMA ClobberKeeps ==
  ASSUME NInv, Clobber
  PROVE  NInv'
<1>1. /\ packet' \in StackPackets
      /\ clobbered' = (clobbered \/ decoder.state # "IDLE")
      /\ decoder' = decoder /\ result' = result
      /\ hunting' = hunting /\ escaped' = escaped /\ frame' = frame
      /\ verdict' = verdict /\ delivered' = delivered
      /\ owned' = owned /\ allocated' = allocated /\ content' = content
      /\ returned' = returned /\ hadBuffer' = hadBuffer
      /\ overrun' = overrun /\ ~overrun
  BY DEF Clobber, observerVars
<1>2. Pool'
  BY <1>1 DEF NInv, Pool
<1>3. /\ packet' \in PacketRecords
      /\ DOMAIN packet'.payload = 0 .. MAX_PAYLOAD_SIZE - 1
  <2>1. packet' \in [length : Byte, address : Address, msg_type : Byte,
                     payload : [0 .. MAX_PAYLOAD_SIZE - 1 -> Byte],
                     crc : 0 .. Radix * Radix - 1]
    BY <1>1, NetBufAssumption
  <2>2. MAX_PAYLOAD_SIZE \in 0 .. MAX_PAYLOAD_SIZE
    BY Numbers
  <2>3. packet'.payload \in Arrays(MAX_PAYLOAD_SIZE)
    BY <2>1, <2>2, ArrayByElements, Numbers
  <2> QED BY <2>1, <2>3 DEF PacketRecords
<1>4. Sane /\ TypeOK /\ Counted
  BY SaneParts DEF NInv
<1>5. TypeOK'
  BY <1>1, <1>3, <1>4 DEF TypeOK
<1>6. CASE IInv /\ decoder.state = "IDLE"
  <2>1. IInv'
    BY <1>1, <1>5, <1>6 DEF IInv, Position, Agreement, HighByte
  <2>2. ~clobbered' => ~clobbered
    BY <1>1 DEF NInv, Pool
  <2>3. Collected' = Collected
    BY <1>1, <1>6 DEF Collected
  <2>4. ~clobbered' => Follows'
    BY <1>1, <2>2, <2>3 DEF NInv, Follows
  <2> QED
    BY <1>1, <1>2, <2>1, <2>2, <2>4
    DEF NInv, Sane, OnlyCompleteFrames, IntactFrameReturned, CompleteFrameReturned
<1>7. CASE ~(IInv /\ decoder.state = "IDLE")
  <2>1. clobbered'
    BY <1>1, <1>7 DEF NInv, Pool
  <2>2. Counted'
    BY <1>1, <1>4 DEF Counted
  <2>3. Disturbed'
    BY <1>3, <1>5, <2>2 DEF Disturbed
  <2> QED
    BY <1>1, <1>2, <2>1, <2>3
    DEF NInv, Sane, OnlyCompleteFrames, IntactFrameReturned
<1> QED BY <1>6, <1>7

\* A store leaves its array only in a frame that was disturbed.
LEMMA OverrunKeeps ==
  ASSUME NInv, NEW byte \in RxBytes, Overrun(byte)
  PROVE  NInv'
<1>1. /\ decoder' = decoder /\ packet' = packet /\ result' = result
      /\ hunting' = hunting /\ escaped' = escaped /\ frame' = frame
      /\ verdict' = verdict /\ delivered' = delivered
      /\ owned' = owned /\ allocated' = allocated /\ content' = content
      /\ returned' = returned /\ hadBuffer' = hadBuffer /\ clobbered' = clobbered
      /\ overrun' = TRUE /\ ~StoresInBounds
  BY DEF Overrun, vars, observerVars
<1>2. clobbered
  BY <1>1, StoresStayInBounds DEF NInv
<1>3. Pool'
  BY <1>1 DEF NInv, Pool
<1>4. Sane'
  <2>1. IInv' = IInv
    BY <1>1 DEF IInv, TypeOK, Position, Agreement, HighByte
  <2>2. Disturbed' = Disturbed
    BY <1>1 DEF Disturbed, TypeOK, Counted
  <2> QED BY <2>1, <2>2 DEF NInv, Sane
<1> QED
  BY <1>1, <1>2, <1>3, <1>4
  DEF NInv, OnlyCompleteFrames, IntactFrameReturned

LEMMA InitNInv == NetBufInit => NInv
<1> SUFFICES ASSUME NetBufInit PROVE NInv
  OBVIOUS
<1>1. IInv
  BY InitIInv DEF NetBufInit
<1>2. Pool
  BY DEF NetBufInit, Pool
<1>3. /\ decoder.state = "IDLE" /\ decoder.escape_next = FALSE
      /\ result = "INCOMPLETE" /\ Collected = <<>>
  BY DEF NetBufInit, Init, Collected
<1>4. Follows
  BY <1>3 DEF NetBufInit, Observer!Init, Follows
<1>5. OnlyCompleteFrames /\ IntactFrameReturned
  BY DEF NetBufInit, Observer!Init, OnlyCompleteFrames, IntactFrameReturned,
     CompleteFrameReturned
<1>6. ~overrun
  BY DEF NetBufInit
<1> QED BY <1>1, <1>2, <1>4, <1>5, <1>6 DEF NInv, Sane, Follows

LEMMA NextKeeps ==
  ASSUME NInv, [NetBufNext]_netBufVars
  PROVE  NInv'
<1>1. CASE \E byte \in RxBytes : DecodeToNetBuf(byte) \/ Overrun(byte)
  BY <1>1, DecodeKeeps, OverrunKeeps
<1>2. CASE \E b \in Buffers : Unref(b)
  BY <1>2, UnrefKeeps
<1>3. CASE ResetByOwner
  BY <1>3, ResetKeeps
<1>4. CASE Clobber
  BY <1>4, ClobberKeeps
<1>5. CASE UNCHANGED netBufVars
  <2>1. /\ decoder' = decoder /\ packet' = packet /\ result' = result
        /\ hunting' = hunting /\ escaped' = escaped /\ frame' = frame
        /\ verdict' = verdict /\ delivered' = delivered
        /\ owned' = owned /\ allocated' = allocated /\ content' = content
        /\ returned' = returned /\ hadBuffer' = hadBuffer /\ clobbered' = clobbered
        /\ overrun' = overrun
    BY <1>5 DEF netBufVars, vars, poolVars, observerVars
  <2>2. Sane' = Sane /\ IInv' = IInv /\ Follows' = Follows
    <3>1. IInv' = IInv
      BY <2>1 DEF IInv, TypeOK, Position, Agreement, HighByte
    <3>2. Disturbed' = Disturbed
      BY <2>1 DEF Disturbed, TypeOK, Counted
    <3>3. Follows' = Follows
      BY <2>1 DEF Follows, Collected, CollectedCrc
    <3> QED BY <3>1, <3>2, <3>3 DEF Sane
  <2>3. Pool' /\ OnlyCompleteFrames' /\ IntactFrameReturned'
    BY <2>1
    DEF NInv, Pool, OnlyCompleteFrames, IntactFrameReturned, CompleteFrameReturned
  <2> QED BY <2>1, <2>2, <2>3 DEF NInv
<1> QED BY <1>1, <1>2, <1>3, <1>4, <1>5 DEF NetBufNext

LEMMA NetBufInvariance == NetBufSpec => []NInv
<1>1. NInv /\ [NetBufNext]_netBufVars => NInv'
  BY NextKeeps
<1> QED BY <1>1, InitNInv, PTL DEF NetBufSpec

-----------------------------------------------------------------------------
\* The structures of the decoder, the slot of the packet and the pool stay well
\* formed, whatever other functions leave in the slot, up to the first store
\* outside an array; the application never holds a net_buf without a packet.
THEOREM PoolTypeCorrect == NetBufSpec => []NetBufTypeOK
BY NInvImplies, NetBufInvariance, PTL

\* fusain_decode_byte_to_net_buf leaks no net_buf, whichever frames are broken,
\* reset, dropped or written over.
THEOREM LeaksNothing == NetBufSpec => []NoLeak
BY NInvImplies, NetBufInvariance, PTL

\* The unchecked stores of fusain_decode_byte leave their arrays only in a frame
\* during which the slot of the packet was written over: what stood in the slot
\* at START, whatever it was, does not.
THEOREM StoresInBoundsUnlessClobbered == NetBufSpec => []OverrunNeedsClobber
BY NInvImplies, NetBufInvariance, PTL

\* As long as the packet is left alone during a frame, the last byte of that
\* frame returns a net_buf with its packet, if there is one in the pool, and
\* whatever stood in the slot at its START, ...
THEOREM IntactFramesReturned == NetBufSpec => []IntactFrameReturned
BY NInvImplies, NetBufInvariance, PTL

\* ... and until the slot is written over, no other byte returns one.
THEOREM NothingElseReturned == NetBufSpec => []OnlyCompleteFrames
BY NInvImplies, NetBufInvariance, PTL

\* Where no other function reaches the slot, the last byte of every complete
\* frame returns a net_buf with its packet, if there is one in the pool.
THEOREM FramesReturned ==
  ASSUME StackPackets = {}
  PROVE  NetBufSpec => []CompleteFrameReturned
<1>1. NInv => CompleteFrameReturned
  BY DEF NInv, Pool, IntactFrameReturned
<1> QED BY <1>1, NetBufInvariance, PTL
=============================================================================
