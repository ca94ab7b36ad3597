--------------------------- MODULE Decoder_proofs ---------------------------
(***************************************************************************)
(* Proofs of the safety invariants of Decoder, for every wire that         *)
(* satisfies the assumptions of Wire and for every set of bytes that the   *)
(* line may deliver.  They rest on one inductive invariant, IInv, which    *)
(* ties the position in the frame (buffer_index, addr_byte_count) to the   *)
(* state and to the length announced, and the packet to the buffer.        *)
(*                                                                         *)
(* The second part proves that the decoder implements the abstract         *)
(* receiver of frames: every step of fusain_decode_byte is a step of       *)
(* FrameReceiver, under the mapping of Decoder!Receiver.  The steps rest   *)
(* on the same invariant; the lemmas about sequences turn what happens in  *)
(* decoder->buffer and packet->crc into what happens to the frame.         *)
(***************************************************************************)
EXTENDS Decoder, DataLemmas

\* The steps below look into the members of the two structures.
USE DEF DecoderRecords, PacketRecords

\* How far the frame has come in each state.
Position ==
  /\ decoder.state = "LENGTH" =>
       decoder.buffer_index = 0 /\ DOMAIN packet.payload = {}
  /\ decoder.state = "ADDRESS" =>
       /\ decoder.addr_byte_count < ADDR_BYTES
       /\ decoder.buffer_index = decoder.addr_byte_count + 1
       /\ DOMAIN packet.payload = {}
  /\ decoder.state = "PAYLOAD" =>
       /\ decoder.buffer_index >= HeaderSize
       /\ decoder.buffer_index < HeaderSize + packet.length
       /\ DOMAIN packet.payload = 0 .. decoder.buffer_index - HeaderSize - 1
  /\ decoder.state \in {"CRC1", "CRC2", "END"} =>
       /\ decoder.buffer_index = HeaderSize + packet.length
       /\ DOMAIN packet.payload = 0 .. packet.length - 1
  /\ decoder.state \in {"ADDRESS", "PAYLOAD", "CRC1", "CRC2", "END"} =>
       packet.length <= MAX_PAYLOAD_SIZE

\* What the packet has in common with the buffer in each state.
Agreement ==
  /\ decoder.state = "LENGTH" =>
       \A k \in 0 .. ADDR_BYTES - 1 : packet.address[k] = 0
  /\ decoder.state \in {"ADDRESS", "PAYLOAD", "CRC1", "CRC2", "END"} =>
       decoder.buffer[0] = packet.length
  /\ decoder.state = "ADDRESS" =>
       \A k \in 0 .. ADDR_BYTES - 1 :
         packet.address[k] = IF k < decoder.addr_byte_count
                             THEN decoder.buffer[k + 1] ELSE 0
  /\ decoder.state \in {"PAYLOAD", "CRC1", "CRC2", "END"} =>
       /\ \A k \in 0 .. ADDR_BYTES - 1 :
            packet.address[k] = decoder.buffer[k + 1]
       /\ \A k \in DOMAIN packet.payload :
            packet.payload[k] = decoder.buffer[k + HeaderSize]

\* The half of the CRC that has arrived.
HighByte ==
  decoder.state = "CRC2" => \E high \in Byte : packet.crc = high * Radix

IInv == TypeOK /\ Position /\ Agreement /\ HighByte

-----------------------------------------------------------------------------
\* An array is known by its elements.
LEMMA ArrayByElements ==
  ASSUME NEW size \in Nat, NEW n \in 0 .. size, NEW f \in [0 .. n - 1 -> Byte]
  PROVE  f \in Arrays(size)
BY DEF Arrays

LEMMA ArrayElements ==
  ASSUME NEW size \in Nat, NEW f \in Arrays(size)
  PROVE  \E n \in 0 .. size : f \in [0 .. n - 1 -> Byte]
BY DEF Arrays

\* An element is written behind the last one of an array.
LEMMA PutAppends ==
  ASSUME NEW size \in Nat, NEW f \in Arrays(size), NEW n \in Nat,
         DOMAIN f = 0 .. n - 1, n < size, NEW v \in Byte
  PROVE  /\ Put(f, n, v) \in Arrays(size)
         /\ DOMAIN Put(f, n, v) = 0 .. n
         /\ Put(f, n, v)[n] = v
         /\ \A j \in 0 .. n - 1 : Put(f, n, v)[j] = f[j]
<1>1. DOMAIN f \cup {n} = 0 .. (n + 1) - 1
  OBVIOUS
<1>2. Put(f, n, v) = [j \in 0 .. (n + 1) - 1 |-> IF j = n THEN v ELSE f[j]]
  BY <1>1, Zenon DEF Put
<1>3. \A j \in DOMAIN f : f[j] \in Byte
  BY ArrayElements
<1>4. Put(f, n, v) \in [0 .. (n + 1) - 1 -> Byte]
  BY <1>2, <1>3
<1>5. Put(f, n, v) \in Arrays(size)
  BY <1>4, ArrayByElements
<1> QED BY <1>2, <1>5

\* Unescaping a byte of the line gives a byte.
LEMMA UnescapedIsByte ==
  ASSUME NEW rx \in RxBytes
  PROVE  Unescaped(rx) \in Byte
BY FlipAssumption, RxAssumption DEF Unescaped

\* Two bytes make a CRC.
LEMMA TwoBytes ==
  ASSUME NEW high \in Byte, NEW low \in Byte
  PROVE  high * Radix + low \in 0 .. Radix * Radix - 1
<1>1. BYTE_MAX \in Nat /\ high \in 0 .. BYTE_MAX /\ low \in 0 .. BYTE_MAX
  BY WireAssumption DEF Byte
<1>2. Radix = BYTE_MAX + 1 /\ Radix \in Nat
  BY <1>1 DEF Radix
<1>3. high * Radix <= BYTE_MAX * Radix /\ high * Radix >= 0
  <2>1. \A a, b, c \in Nat : a <= b => a * c <= b * c /\ a * c \in Nat
    OBVIOUS
  <2> QED BY <1>1, <1>2, <2>1
<1>4. BYTE_MAX * Radix + BYTE_MAX = Radix * Radix - 1
  BY <1>1, <1>2
<1>5. high * Radix \in Int /\ BYTE_MAX * Radix \in Int
  BY <1>1, <1>2
<1> QED BY <1>1, <1>3, <1>4, <1>5

\* The constants as the arithmetic of the steps needs them.
LEMMA Numbers ==
  /\ BYTE_MAX \in Nat /\ Byte = 0 .. BYTE_MAX /\ Radix = BYTE_MAX + 1
  /\ ADDR_BYTES \in Nat /\ ADDR_BYTES >= 1 /\ HeaderSize = ADDR_BYTES + 1
  /\ MAX_PAYLOAD_SIZE \in Nat /\ MAX_PAYLOAD_SIZE <= BYTE_MAX
  /\ BUFFER_SIZE \in Nat /\ BUFFER_SIZE >= MAX_PAYLOAD_SIZE + HeaderSize
BY WireAssumption DEF Byte, Radix, HeaderSize

\* What Store makes of the members of decoder, in the states that store.
LEMMA StoreEffect ==
  ASSUME TypeOK, decoder.buffer_index < BUFFER_SIZE,
         NEW s \in States, NEW rx \in RxBytes
  PROVE  LET d == Store(s, rx)
         IN  /\ d \in DecoderRecords
             /\ d.state = s
             /\ d.buffer_index = decoder.buffer_index + 1
             /\ d.escape_next = FALSE
             /\ d.addr_byte_count = decoder.addr_byte_count
             /\ DOMAIN d.buffer = 0 .. d.buffer_index - 1
             /\ d.buffer[decoder.buffer_index] = Unescaped(rx)
             /\ \A j \in 0 .. decoder.buffer_index - 1 :
                  d.buffer[j] = decoder.buffer[j]
<1> DEFINE b == Put(decoder.buffer, decoder.buffer_index, Unescaped(rx))
           n == decoder.buffer_index
<1>1. /\ decoder.buffer \in Arrays(BUFFER_SIZE) /\ n \in 0 .. BUFFER_SIZE
      /\ DOMAIN decoder.buffer = 0 .. n - 1
  BY DEF TypeOK
<1>2. Unescaped(rx) \in Byte /\ BUFFER_SIZE \in Nat
  BY UnescapedIsByte, Numbers
<1>3. /\ b \in Arrays(BUFFER_SIZE) /\ DOMAIN b = 0 .. n
      /\ b[n] = Unescaped(rx) /\ \A j \in 0 .. n - 1 : b[j] = decoder.buffer[j]
  BY <1>1, <1>2, PutAppends
<1>4. Store(s, rx) = [decoder EXCEPT !.buffer = b, !.buffer_index = n + 1,
                                     !.escape_next = FALSE, !.state = s]
  BY DEF Store
<1>5. n + 1 \in 0 .. BUFFER_SIZE /\ (n + 1) - 1 = n
  BY <1>1, <1>2
<1> HIDE DEF b, n
<1>6. /\ Store(s, rx) \in DecoderRecords
      /\ Store(s, rx).state = s /\ Store(s, rx).buffer = b
      /\ Store(s, rx).buffer_index = n + 1 /\ Store(s, rx).escape_next = FALSE
      /\ Store(s, rx).addr_byte_count = decoder.addr_byte_count
  BY <1>3, <1>4, <1>5 DEF TypeOK
<1> QED BY <1>3, <1>5, <1>6 DEF n

\* The empty array.
LEMMA EmptyArray ==
  ASSUME NEW size \in Nat
  PROVE  NoBytes \in Arrays(size) /\ DOMAIN NoBytes = {}
<1>1. NoBytes \in [0 .. 0 - 1 -> Byte]
  BY DEF NoBytes
<1>2. 0 \in 0 .. size
  OBVIOUS
<1>3. NoBytes \in Arrays(size)
  BY <1>1, <1>2, ArrayByElements
<1> QED BY <1>3 DEF NoBytes

\* A step that changes nothing but escape_next, and perhaps falls back to IDLE.
LEMMA QuietStep ==
  ASSUME IInv, UNCHANGED packet, result' \in Results,
         decoder' \in DecoderRecords,
         decoder'.state \in {"IDLE", decoder.state},
         decoder'.buffer = decoder.buffer,
         decoder'.buffer_index = decoder.buffer_index,
         decoder'.addr_byte_count = decoder.addr_byte_count
  PROVE  IInv'
<1>1. TypeOK'
  BY DEF IInv, TypeOK
<1>2. Position'
  BY DEF IInv, Position
<1>3. Agreement'
  BY DEF IInv, Agreement
<1>4. HighByte'
  BY DEF IInv, HighByte
<1> QED BY <1>1, <1>2, <1>3, <1>4 DEF IInv

LEMMA InitIInv == Init => IInv
<1> SUFFICES ASSUME Init PROVE IInv
  OBVIOUS
<1>1. NoBytes \in Arrays(BUFFER_SIZE) /\ NoBytes \in Arrays(MAX_PAYLOAD_SIZE)
      /\ DOMAIN NoBytes = 0 .. 0 - 1
  BY EmptyArray, Numbers
<1>2. Garbage \subseteq Byte
  BY RxAssumption
<1>3. {high * Radix + low : high, low \in Garbage} \subseteq 0 .. Radix * Radix - 1
  BY <1>2, TwoBytes
<1>4. decoder \in DecoderRecords
  BY <1>1, Numbers DEF Init, States
<1>5. packet \in PacketRecords
  BY <1>1, <1>2, <1>3 DEF Init, Address
<1>6. TypeOK
  BY <1>1, <1>4, <1>5 DEF Init, TypeOK, Results
<1> QED BY <1>6 DEF Init, IInv, Position, Agreement, HighByte

LEMMA ResetStep == IInv /\ ResetDecoder => IInv'
<1> SUFFICES ASSUME IInv, ResetDecoder PROVE IInv'
  OBVIOUS
<1>1. NoBytes \in Arrays(BUFFER_SIZE) /\ DOMAIN NoBytes = 0 .. 0 - 1
  BY EmptyArray, Numbers
<1>2. TypeOK'
  BY <1>1, Numbers DEF IInv, TypeOK, ResetDecoder, States
<1> QED BY <1>2 DEF IInv, Position, Agreement, HighByte, ResetDecoder

LEMMA StartStep ==
  ASSUME IInv, NEW rx \in RxBytes, Start(rx)
  PROVE  IInv'
<1>1. /\ NoBytes \in Arrays(BUFFER_SIZE) /\ NoBytes \in Arrays(MAX_PAYLOAD_SIZE)
      /\ DOMAIN NoBytes = 0 .. 0 - 1 /\ DOMAIN NoBytes = {}
  BY EmptyArray, Numbers
<1>2. ZeroAddress \in Address /\ \A k \in 0 .. ADDR_BYTES - 1 : ZeroAddress[k] = 0
  BY Numbers DEF ZeroAddress, Address
<1>3. /\ decoder' \in DecoderRecords
      /\ DOMAIN decoder'.buffer = 0 .. decoder'.buffer_index - 1
      /\ decoder'.state = "LENGTH" /\ decoder'.buffer_index = 0
  BY <1>1, Numbers DEF Start, States
<1> HIDE DEF NoBytes, ZeroAddress
<1>4. /\ packet' \in PacketRecords
      /\ packet'.address = ZeroAddress /\ packet'.payload = NoBytes
  BY <1>1, <1>2 DEF Start, IInv, TypeOK
<1>5. result' \in Results
  BY DEF Start, Results
<1>6. TypeOK'
  BY <1>3, <1>4, <1>5 DEF TypeOK
<1>7. Position'
  BY <1>1, <1>3, <1>4 DEF Position
<1>8. Agreement'
  BY <1>2, <1>3, <1>4 DEF Agreement
<1> QED BY <1>3, <1>6, <1>7, <1>8 DEF IInv, HighByte

\* Escape, and the actions that drop a byte or end a frame without a packet.
LEMMA EscapeStep ==
  ASSUME IInv, NEW rx \in RxBytes, Escape(rx) \/ Ignore(rx) \/ RejectLength(rx)
                                   \/ MissingEnd(rx) \/ BadCrc(rx) \/ BadHeader(rx)
  PROVE  IInv'
<1>1. decoder \in DecoderRecords
  BY DEF IInv, TypeOK
<1>2. /\ UNCHANGED packet /\ result' \in Results
      /\ \/ decoder' = [decoder EXCEPT !.escape_next = TRUE]
         \/ decoder' = [decoder EXCEPT !.escape_next = FALSE]
         \/ decoder' = [decoder EXCEPT !.state = "IDLE", !.escape_next = FALSE]
  BY DEF Escape, Ignore, RejectLength, MissingEnd, BadCrc, BadHeader, Finish, Results
<1>3. /\ decoder' \in DecoderRecords
      /\ decoder'.state \in {"IDLE", decoder.state}
      /\ decoder'.buffer = decoder.buffer
      /\ decoder'.buffer_index = decoder.buffer_index
      /\ decoder'.addr_byte_count = decoder.addr_byte_count
  BY <1>1, <1>2 DEF States
<1> QED BY <1>2, <1>3, QuietStep

LEMMA LengthStep ==
  ASSUME IInv, NEW rx \in RxBytes, Length(rx)
  PROVE  IInv'
<1> DEFINE v == Unescaped(rx)
           d == Store("ADDRESS", rx)
<1>1. v \in Byte /\ v <= MAX_PAYLOAD_SIZE
  BY UnescapedIsByte DEF Length
<1>2. /\ TypeOK /\ decoder.buffer_index = 0 /\ DOMAIN packet.payload = {}
      /\ decoder.buffer_index < BUFFER_SIZE /\ "ADDRESS" \in States
  BY Numbers DEF IInv, Position, Length, Reaches, States
<1>3. /\ d \in DecoderRecords
      /\ d.state = "ADDRESS" /\ d.buffer_index = 0 + 1 /\ d.buffer[0] = v
      /\ DOMAIN d.buffer = 0 .. d.buffer_index - 1
  BY <1>2, StoreEffect
<1> HIDE DEF d, v
<1>4. decoder' = [d EXCEPT !.addr_byte_count = 0] /\ 0 \in 0 .. ADDR_BYTES
  BY Numbers DEF Length, d
<1>5. /\ decoder' \in DecoderRecords
      /\ decoder'.state = "ADDRESS" /\ decoder'.buffer_index = 1
      /\ decoder'.buffer[0] = v /\ decoder'.addr_byte_count = 0
      /\ DOMAIN decoder'.buffer = 0 .. decoder'.buffer_index - 1
  <2>1. /\ decoder' \in DecoderRecords
        /\ decoder'.state = d.state /\ decoder'.buffer = d.buffer
        /\ decoder'.buffer_index = d.buffer_index
        /\ decoder'.addr_byte_count = 0
    BY <1>3, <1>4
  <2> QED BY <1>3, <2>1
<1>6. packet' = [packet EXCEPT !.length = v] /\ result' = "INCOMPLETE"
  BY DEF Length, v
<1>7. /\ packet' \in PacketRecords
      /\ packet'.length = v /\ packet'.address = packet.address
      /\ packet'.payload = packet.payload
  BY <1>1, <1>2, <1>6 DEF TypeOK
<1>8. \A k \in 0 .. ADDR_BYTES - 1 : packet.address[k] = 0
  BY DEF IInv, Agreement, Length, Reaches
<1>9. TypeOK'
  BY <1>5, <1>6, <1>7 DEF TypeOK, Results
<1>10. Position'
  BY <1>1, <1>2, <1>5, <1>7, Numbers DEF Position
<1>11. Agreement'
  BY <1>5, <1>7, <1>8 DEF Agreement
<1> QED BY <1>5, <1>9, <1>10, <1>11 DEF IInv, HighByte

\* The state after an address byte is the one its position asks for.
LEMMA AfterAddressState ==
  ASSUME IInv, decoder.state = "ADDRESS"
  PROVE  /\ AfterAddress \in {"ADDRESS", "PAYLOAD", "CRC1"}
         /\ AfterAddress = "ADDRESS" <=> decoder.addr_byte_count + 1 < ADDR_BYTES
         /\ AfterAddress = "CRC1" =>
              packet.length = 0 /\ decoder.addr_byte_count + 1 = ADDR_BYTES
         /\ AfterAddress = "PAYLOAD" =>
              packet.length > 0 /\ decoder.addr_byte_count + 1 = ADDR_BYTES
<1>1. /\ decoder.addr_byte_count \in 0 .. ADDR_BYTES
      /\ decoder.addr_byte_count < ADDR_BYTES /\ packet.length \in 0 .. BYTE_MAX
  BY Numbers DEF IInv, TypeOK, Position
<1>2. CASE decoder.addr_byte_count + 1 < ADDR_BYTES
  BY <1>1, <1>2, Numbers DEF AfterAddress
<1>3. CASE ~(decoder.addr_byte_count + 1 < ADDR_BYTES)
  <2>1. decoder.addr_byte_count + 1 >= ADDR_BYTES
    BY <1>1, <1>3, Numbers
  <2>2. AfterAddress = IF packet.length = 0 THEN "CRC1" ELSE "PAYLOAD"
    BY <1>3, <2>1 DEF AfterAddress
  <2> QED BY <1>1, <1>3, <2>1, <2>2, Numbers
<1> QED BY <1>2, <1>3

LEMMA AddressStep ==
  ASSUME IInv, NEW rx \in RxBytes, AddressByte(rx)
  PROVE  IInv'
<1> DEFINE v == Unescaped(rx)
           c == decoder.addr_byte_count
           a == AfterAddress
           d == Store(a, rx)
<1>1. /\ decoder.state = "ADDRESS" /\ TypeOK /\ DOMAIN packet.payload = {}
      /\ c \in 0 .. ADDR_BYTES - 1 /\ decoder.buffer_index = c + 1
      /\ decoder.buffer_index < BUFFER_SIZE
      /\ packet.length \in 0 .. MAX_PAYLOAD_SIZE
  BY Numbers DEF IInv, TypeOK, Position, AddressByte, Reaches
<1>2. v \in Byte /\ BitOr(0, v) = v
  <2>1. 0 \in Byte
    BY Numbers
  <2> QED BY <2>1, UnescapedIsByte, BitOrAssumption
<1>3. /\ a \in {"ADDRESS", "PAYLOAD", "CRC1"} /\ a \in States
      /\ a = "ADDRESS" <=> c + 1 < ADDR_BYTES
      /\ a = "CRC1" => packet.length = 0 /\ c + 1 = ADDR_BYTES
      /\ a = "PAYLOAD" => packet.length > 0 /\ c + 1 = ADDR_BYTES
  BY <1>1, AfterAddressState DEF States
<1> HIDE DEF a, v
<1>4. /\ d \in DecoderRecords /\ d.state = a /\ d.buffer_index = c + 2
      /\ d.addr_byte_count = c /\ DOMAIN d.buffer = 0 .. d.buffer_index - 1
      /\ d.buffer[c + 1] = v /\ \A j \in 0 .. c : d.buffer[j] = decoder.buffer[j]
  <2>1. LET e == Store(a, rx)
        IN  /\ e \in DecoderRecords /\ e.state = a
            /\ e.buffer_index = decoder.buffer_index + 1
            /\ e.addr_byte_count = c
            /\ DOMAIN e.buffer = 0 .. e.buffer_index - 1
            /\ e.buffer[decoder.buffer_index] = v
            /\ \A j \in 0 .. decoder.buffer_index - 1 :
                 e.buffer[j] = decoder.buffer[j]
    BY <1>1, <1>3, StoreEffect DEF v
  <2> QED BY <1>1, <2>1
<1> HIDE DEF d
<1>5. decoder' = [d EXCEPT !.addr_byte_count = c + 1]
  <2>1. decoder' = [d EXCEPT !.addr_byte_count = @ + 1]
    BY DEF AddressByte, d, a
  <2> QED BY <1>4, <2>1
<1>6. /\ decoder' \in DecoderRecords /\ decoder'.state = a
      /\ decoder'.buffer = d.buffer /\ decoder'.buffer_index = c + 2
      /\ decoder'.addr_byte_count = c + 1
      /\ DOMAIN decoder'.buffer = 0 .. decoder'.buffer_index - 1
  <2>1. c + 1 \in 0 .. ADDR_BYTES
    BY <1>1, Numbers
  <2>2. /\ decoder' \in DecoderRecords /\ decoder'.state = d.state
        /\ decoder'.buffer = d.buffer /\ decoder'.buffer_index = d.buffer_index
        /\ decoder'.addr_byte_count = c + 1
    BY <1>4, <1>5, <2>1
  <2> QED BY <1>4, <2>2
<1>7. packet.address[c] = 0 /\ packet.address \in Address
  BY <1>1 DEF IInv, Agreement, TypeOK
<1>8. /\ packet' = [packet EXCEPT !.address = [packet.address EXCEPT ![c] = v]]
      /\ result' = "INCOMPLETE"
  BY <1>2, <1>7 DEF AddressByte, v
<1>9. /\ packet' \in PacketRecords /\ packet'.length = packet.length
      /\ packet'.payload = packet.payload
      /\ packet'.address[c] = v
      /\ \A k \in 0 .. ADDR_BYTES - 1 :
           k # c => packet'.address[k] = packet.address[k]
  <2>1. [packet.address EXCEPT ![c] = v] \in Address
    BY <1>1, <1>2, <1>7 DEF Address
  <2>2. /\ packet' \in PacketRecords /\ packet'.length = packet.length
        /\ packet'.payload = packet.payload
        /\ packet'.address = [packet.address EXCEPT ![c] = v]
    BY <1>1, <1>8, <2>1 DEF TypeOK
  <2> QED BY <1>1, <1>7, <2>2 DEF Address
<1>10. TypeOK'
  BY <1>6, <1>8, <1>9 DEF TypeOK, Results
<1>11. Position'
  <2>1. CASE a = "ADDRESS"
    BY <1>1, <1>3, <1>6, <1>9, <2>1 DEF Position
  <2>2. CASE a # "ADDRESS"
    <3>1. /\ decoder'.buffer_index = HeaderSize /\ HeaderSize \in Nat
          /\ DOMAIN packet'.payload = {}
      BY <1>1, <1>3, <1>6, <1>9, <2>2, Numbers
    <3>2. packet'.length \in Nat /\ packet'.length <= MAX_PAYLOAD_SIZE
      BY <1>1, <1>9, Numbers
    <3>3. CASE a = "PAYLOAD"
      <4>1. /\ decoder'.state = "PAYLOAD" /\ packet'.length > 0
            /\ decoder'.buffer_index >= HeaderSize
            /\ decoder'.buffer_index < HeaderSize + packet'.length
        <5>1. decoder'.state = "PAYLOAD" /\ packet'.length > 0
          BY <1>3, <1>6, <1>9, <3>3
        <5> QED BY <3>1, <3>2, <5>1
      <4>2. 0 .. decoder'.buffer_index - HeaderSize - 1 = {}
        BY <3>1
      <4> QED BY <3>1, <3>2, <4>1, <4>2 DEF Position
    <3>4. CASE a = "CRC1"
      <4>1. /\ decoder'.state = "CRC1" /\ packet'.length = 0
            /\ decoder'.buffer_index = HeaderSize + packet'.length
        BY <1>1, <1>3, <1>6, <1>9, <3>1, <3>4
      <4>2. 0 .. packet'.length - 1 = {}
        BY <4>1
      <4> QED BY <3>1, <3>2, <4>1, <4>2 DEF Position
    <3> QED BY <1>3, <2>2, <3>3, <3>4
  <2> QED BY <2>1, <2>2
<1>12. Agreement'
  <2>1. /\ decoder.buffer[0] = packet.length
        /\ \A k \in 0 .. ADDR_BYTES - 1 :
             packet.address[k] = IF k < c THEN decoder.buffer[k + 1] ELSE 0
    BY <1>1 DEF IInv, Agreement
  <2> SUFFICES /\ decoder'.buffer[0] = packet'.length
               /\ \A k \in 0 .. ADDR_BYTES - 1 :
                    packet'.address[k] = IF k < c + 1
                                         THEN decoder'.buffer[k + 1] ELSE 0
    <3>1. CASE a = "ADDRESS"
      BY <1>6, <1>9, <3>1 DEF Agreement
    <3>2. CASE a # "ADDRESS"
      <4>1. /\ a \in {"PAYLOAD", "CRC1"} /\ c + 1 = ADDR_BYTES
            /\ DOMAIN packet'.payload = {}
        BY <1>1, <1>3, <1>9, <3>2
      <4>2. \A k \in 0 .. ADDR_BYTES - 1 : k < c + 1
        BY <4>1, Numbers
      <4> HIDE DEF c
      <4> QED BY <1>6, <4>1, <4>2 DEF Agreement
    <3> QED BY <3>1, <3>2
  <2>2. ASSUME NEW k \in 0 .. ADDR_BYTES - 1
        PROVE  packet'.address[k] = IF k < c + 1
                                    THEN decoder'.buffer[k + 1] ELSE 0
    <3>1. CASE k < c
      <4>1. k + 1 \in 0 .. c /\ k # c /\ k < c + 1
        BY <1>1, <3>1, Numbers
      <4> HIDE DEF c
      <4> QED BY <1>4, <1>6, <1>9, <2>1, <3>1, <4>1
    <3>2. CASE k = c
      BY <1>1, <1>4, <1>6, <1>9, <3>2, Numbers
    <3>3. CASE k > c
      <4>1. k # c /\ ~(k < c) /\ ~(k < c + 1)
        BY <1>1, <3>3, Numbers
      <4> HIDE DEF c
      <4> QED BY <1>9, <2>1, <4>1
    <3> QED BY <1>1, <3>1, <3>2, <3>3, Numbers
  <2>3. decoder'.buffer[0] = packet'.length
    BY <1>1, <1>4, <1>6, <1>9, <2>1
  <2> QED BY <2>2, <2>3
<1>13. HighByte'
  BY <1>3, <1>6 DEF HighByte
<1> QED BY <1>10, <1>11, <1>12, <1>13 DEF IInv

LEMMA PayloadStep ==
  ASSUME IInv, NEW rx \in RxBytes, PayloadByte(rx)
  PROVE  IInv'
<1> DEFINE v == Unescaped(rx)
           n == decoder.buffer_index
           m == n - HeaderSize
           a == AfterPayload
           d == Store(a, rx)
           p == Put(packet.payload, m, v)
<1>1. /\ decoder.state = "PAYLOAD" /\ TypeOK /\ n \in Nat /\ n < BUFFER_SIZE
      /\ m \in Nat /\ m < packet.length /\ DOMAIN packet.payload = 0 .. m - 1
      /\ packet.length \in 0 .. MAX_PAYLOAD_SIZE
      /\ packet.payload \in Arrays(MAX_PAYLOAD_SIZE)
  BY Numbers DEF IInv, TypeOK, Position, PayloadByte, Reaches
<1>2. v \in Byte
  BY UnescapedIsByte
<1>3. /\ a \in {"PAYLOAD", "CRC1"} /\ a \in States
      /\ a = "PAYLOAD" <=> m + 1 < packet.length
  BY <1>1, Numbers DEF AfterPayload, States
<1>4. /\ d \in DecoderRecords /\ d.state = a /\ d.buffer_index = n + 1
      /\ DOMAIN d.buffer = 0 .. d.buffer_index - 1
      /\ d.buffer[n] = v /\ \A j \in 0 .. n - 1 : d.buffer[j] = decoder.buffer[j]
  BY <1>1, <1>3, StoreEffect
<1>5. /\ p \in Arrays(MAX_PAYLOAD_SIZE) /\ DOMAIN p = 0 .. m /\ p[m] = v
      /\ \A j \in 0 .. m - 1 : p[j] = packet.payload[j]
  <2>1. m < MAX_PAYLOAD_SIZE /\ MAX_PAYLOAD_SIZE \in Nat
    BY <1>1, Numbers
  <2> HIDE DEF m, v
  <2> QED BY <1>1, <1>2, <2>1, PutAppends
<1>6. /\ decoder' = d /\ packet' = [packet EXCEPT !.payload = p]
      /\ result' = "INCOMPLETE"
  BY DEF PayloadByte
<1> HIDE DEF d, p, a, v
<1>7. /\ packet' \in PacketRecords /\ packet'.length = packet.length
      /\ packet'.address = packet.address /\ packet'.payload = p
  BY <1>1, <1>5, <1>6 DEF TypeOK
<1>8. TypeOK'
  BY <1>4, <1>6, <1>7 DEF TypeOK, Results
<1>9. Position'
  <2>1. HeaderSize \in Nat /\ n = HeaderSize + m
    BY <1>1, Numbers
  <2>2. /\ decoder'.state = a /\ decoder'.buffer_index = HeaderSize + m + 1
        /\ packet'.length = packet.length /\ DOMAIN packet'.payload = 0 .. m
    BY <1>4, <1>5, <1>6, <1>7, <2>1
  <2> HIDE DEF m
  <2> QED BY <1>1, <1>3, <2>1, <2>2 DEF Position
<1>10. Agreement'
  <2>1. /\ decoder.buffer[0] = packet.length
        /\ \A k \in 0 .. ADDR_BYTES - 1 :
             packet.address[k] = decoder.buffer[k + 1]
        /\ \A k \in 0 .. m - 1 :
             packet.payload[k] = decoder.buffer[k + HeaderSize]
    BY <1>1 DEF IInv, Agreement
  <2>2. /\ decoder'.buffer[0] = packet'.length
        /\ \A k \in 0 .. ADDR_BYTES - 1 :
             packet'.address[k] = decoder'.buffer[k + 1]
    <3>1. /\ 0 \in 0 .. n - 1
          /\ \A k \in 0 .. ADDR_BYTES - 1 : k + 1 \in 0 .. n - 1
      BY <1>1, Numbers
    <3> HIDE DEF n
    <3> QED BY <1>4, <1>6, <1>7, <2>1, <3>1
  <2>3. ASSUME NEW k \in 0 .. m
        PROVE  packet'.payload[k] = decoder'.buffer[k + HeaderSize]
    <3>1. CASE k = m
      <4>1. k + HeaderSize = n
        BY <1>1, <3>1, Numbers
      <4> HIDE DEF n, m
      <4> QED BY <1>4, <1>5, <1>6, <1>7, <3>1, <4>1
    <3>2. CASE k # m
      <4>1. k \in 0 .. m - 1 /\ k + HeaderSize \in 0 .. n - 1
        BY <1>1, <3>2, Numbers
      <4> HIDE DEF n, m
      <4> QED BY <1>4, <1>5, <1>6, <1>7, <2>1, <4>1
    <3> QED BY <3>1, <3>2
  <2> QED BY <1>3, <1>4, <1>5, <1>6, <1>7, <2>2, <2>3 DEF Agreement
<1>11. HighByte'
  BY <1>3, <1>4, <1>6 DEF HighByte
<1> QED BY <1>8, <1>9, <1>10, <1>11 DEF IInv

\* The steps that leave the buffer and the payload alone and only move on to
\* the next state of the trailer.
\* Or-ing the low byte to a CRC whose low byte is zero adds it.
LEMMA OrIsSum ==
  ASSUME NEW high \in Byte, NEW v \in Byte
  PROVE  ((high * Radix) \div Radix) * Radix + BitOr((high * Radix) % Radix, v)
           = high * Radix + v
<1>1. 0 \in 0 .. Radix - 1 /\ high \in Nat /\ Radix \in Nat /\ Radix > 0
  BY Numbers
<1>2. high * Radix + 0 = high * Radix
  BY <1>1
<1>3. (high * Radix + 0) \div Radix = high /\ (high * Radix + 0) % Radix = 0
  BY <1>1, Quotient
<1>4. BitOr(0, v) = v
  BY Numbers, BitOrAssumption
<1> QED BY <1>2, <1>3, <1>4

LEMMA CrcStep ==
  ASSUME IInv, NEW rx \in RxBytes, CrcHigh(rx) \/ CrcLow(rx)
  PROVE  IInv'
<1> DEFINE v == Unescaped(rx)
<1>1. v \in Byte
  BY UnescapedIsByte
<1>2. /\ decoder' \in DecoderRecords /\ result' \in Results
      /\ decoder.state \in {"CRC1", "CRC2"}
      /\ decoder'.state \in {"CRC2", "END"}
      /\ decoder'.buffer = decoder.buffer
      /\ decoder'.buffer_index = decoder.buffer_index
  BY DEF IInv, TypeOK, CrcHigh, CrcLow, Reaches, States, Results
<1>3. /\ packet' = [packet EXCEPT !.crc = packet'.crc]
      /\ packet'.crc \in 0 .. Radix * Radix - 1
      /\ decoder'.state = "CRC2" => packet'.crc = v * Radix
  <2>1. CASE CrcHigh(rx)
    <3>1. packet' = [packet EXCEPT !.crc = v * Radix]
      BY <2>1 DEF CrcHigh
    <3>2. v * Radix + 0 \in 0 .. Radix * Radix - 1
      BY <1>1, TwoBytes, Numbers
    <3>3. v * Radix \in 0 .. Radix * Radix - 1
      BY <1>1, <3>2, Numbers
    <3> HIDE DEF v
    <3> QED BY <3>1, <3>3 DEF IInv, TypeOK
  <2>2. CASE CrcLow(rx)
    <3>1. PICK high \in Byte : packet.crc = high * Radix
      BY <2>2 DEF IInv, HighByte, CrcLow, Reaches
    <3>2. packet' = [packet EXCEPT !.crc = packet.crc + v]
      <4>1. (packet.crc \div Radix) * Radix + BitOr(packet.crc % Radix, v)
              = packet.crc + v
        BY <1>1, <3>1, OrIsSum
      <4> QED BY <2>2, <4>1 DEF CrcLow, IInv, TypeOK
    <3>3. packet.crc + v \in 0 .. Radix * Radix - 1
      BY <1>1, <3>1, TwoBytes
    <3>4. decoder'.state = "END"
      BY <2>2 DEF CrcLow, IInv, TypeOK
    <3> HIDE DEF v
    <3> QED BY <3>2, <3>3, <3>4 DEF IInv, TypeOK
  <2> QED BY <2>1, <2>2
<1>4. /\ packet' \in PacketRecords /\ packet'.length = packet.length
      /\ packet'.address = packet.address /\ packet'.payload = packet.payload
  BY <1>3 DEF IInv, TypeOK
<1>5. TypeOK'
  BY <1>2, <1>4 DEF IInv, TypeOK
<1>6. Position'
  BY <1>2, <1>4 DEF IInv, Position
<1>7. Agreement'
  BY <1>2, <1>4 DEF IInv, Agreement
<1>8. HighByte'
  BY <1>1, <1>3 DEF HighByte
<1> QED BY <1>5, <1>6, <1>7, <1>8 DEF IInv

LEMMA AcceptStep ==
  ASSUME IInv, NEW rx \in RxBytes, Accept(rx)
  PROVE  IInv'
<1> DEFINE t == HeaderType(packet.payload, packet.length)
<1>1. /\ decoder' \in DecoderRecords /\ decoder'.state = "IDLE"
      /\ decoder'.buffer = decoder.buffer
      /\ decoder'.buffer_index = decoder.buffer_index
      /\ result' \in Results
  BY DEF IInv, TypeOK, Accept, Finish, States, Results
<1>2. /\ packet.length \in Nat /\ packet.payload \in Arrays(MAX_PAYLOAD_SIZE)
      /\ DOMAIN packet.payload = 0 .. packet.length - 1
  BY Numbers DEF IInv, TypeOK, Position, Accept, Ends, Reaches
<1>3. \A k \in 0 .. packet.length - 1 : packet.payload[k] \in Byte
  BY <1>2, ArrayElements, Numbers
<1>4. t \in Byte
  BY <1>2, <1>3 DEF Accept, HeaderOK, HeaderType, ShortHeader, LongHeader
<1>5. packet' = [packet EXCEPT !.msg_type = t]
  BY DEF Accept
<1> HIDE DEF t
<1>6. packet' \in PacketRecords
  BY <1>4, <1>5 DEF IInv, TypeOK
<1>7. TypeOK'
  BY <1>1, <1>6 DEF IInv, TypeOK
<1> QED BY <1>1, <1>7 DEF IInv, Position, Agreement, HighByte

-----------------------------------------------------------------------------
\* Every step of the decoder, one case for each action.
LEMMA StepIInv == IInv /\ [Next]_vars => IInv'
<1> SUFFICES ASSUME IInv, [Next]_vars PROVE IInv'
  OBVIOUS
<1>1. CASE ResetDecoder
  BY <1>1, ResetStep
<1>2. ASSUME NEW rx \in RxBytes, DecodeByte(rx) PROVE IInv'
  <2>1. CASE Start(rx)
    BY <2>1, StartStep
  <2>2. CASE \/ Escape(rx) \/ Ignore(rx) \/ RejectLength(rx)
             \/ MissingEnd(rx) \/ BadCrc(rx) \/ BadHeader(rx)
    BY <2>2, EscapeStep
  <2>3. CASE Length(rx)
    BY <2>3, LengthStep
  <2>4. CASE AddressByte(rx)
    BY <2>4, AddressStep
  <2>5. CASE PayloadByte(rx)
    BY <2>5, PayloadStep
  <2>6. CASE CrcHigh(rx) \/ CrcLow(rx)
    BY <2>6, CrcStep
  <2>7. CASE Accept(rx)
    BY <2>7, AcceptStep
  <2> QED BY <1>2, <2>1, <2>2, <2>3, <2>4, <2>5, <2>6, <2>7 DEF DecodeByte
<1>3. CASE UNCHANGED vars
  BY <1>3 DEF vars, IInv, TypeOK, Position, Agreement, HighByte
<1> QED BY <1>1, <1>2, <1>3 DEF Next

\* The invariant holds in every reachable state.
THEOREM Invariance == Spec => []IInv
BY InitIInv, StepIInv, PTL DEF Spec

\* fusain_decode_byte keeps decoder and packet well formed: the indices stay in
\* their ranges and the arrays inside their sizes.
THEOREM TypeCorrect == Spec => []TypeOK
<1>1. IInv => TypeOK
  BY DEF IInv
<1> QED BY <1>1, Invariance, PTL

LEMMA StoresStayInBounds == IInv => StoresInBounds
<1> SUFFICES ASSUME IInv PROVE StoresInBounds
  OBVIOUS
<1>1. decoder.state = "LENGTH" => decoder.buffer_index < BUFFER_SIZE
  BY Numbers DEF IInv, Position
<1>2. decoder.state = "ADDRESS" =>
        /\ decoder.addr_byte_count < ADDR_BYTES
        /\ decoder.buffer_index < BUFFER_SIZE
  BY Numbers DEF IInv, TypeOK, Position
<1>3. decoder.state = "PAYLOAD" =>
        /\ decoder.buffer_index < BUFFER_SIZE
        /\ decoder.buffer_index - HeaderSize \in 0 .. MAX_PAYLOAD_SIZE - 1
  BY Numbers DEF IInv, TypeOK, Position
<1> QED BY <1>1, <1>2, <1>3 DEF StoresInBounds

\* fusain_decode_byte writes inside decoder->buffer, packet->payload and the 64
\* bits of packet->address, whatever bytes arrive and however often the decoder
\* is reset, on every wire whose buffer holds the header and the largest payload.
THEOREM NoStoreOutOfBounds == Spec => []StoresInBounds
BY StoresStayInBounds, Invariance, PTL

\* fusain_crc16 and decode_cbor_message_header read the bytes of the frame that
\* is being received, all of them and nothing else.
THEOREM NoStaleByteChecked == Spec => []CrcCoversFrame
<1>1. IInv => CrcCoversFrame
  <2> SUFFICES ASSUME IInv, decoder.state = "END" PROVE CrcCoversFrame
    BY DEF CrcCoversFrame
  <2>1. /\ decoder.buffer_index = HeaderSize + packet.length
        /\ DOMAIN packet.payload = 0 .. packet.length - 1
        /\ DOMAIN decoder.buffer = 0 .. decoder.buffer_index - 1
    BY DEF IInv, TypeOK, Position
  <2>2. HeaderSize \in Nat /\ packet.length \in Nat
    BY Numbers DEF IInv, TypeOK
  <2>3. DOMAIN decoder.buffer = 0 .. packet.length + HeaderSize - 1
    BY <2>1, <2>2
  <2> QED BY <2>1, <2>3 DEF CrcCoversFrame
<1> QED BY <1>1, Invariance, PTL

\* The packet handed over is the one the CRC was computed over: length, address
\* and payload agree with decoder->buffer once the frame is complete.
THEOREM DeliversWhatWasChecked == Spec => []PacketMatchesBuffer
<1>1. IInv => PacketMatchesBuffer
  <2> SUFFICES ASSUME IInv, decoder.state \in {"CRC1", "CRC2", "END"}
               PROVE  PacketMatchesBuffer
    BY DEF PacketMatchesBuffer
  <2>1. DOMAIN packet.payload = 0 .. packet.length - 1
    BY DEF IInv, Position
  <2>2. /\ decoder.buffer[0] = packet.length
        /\ \A k \in 0 .. ADDR_BYTES - 1 :
             packet.address[k] = decoder.buffer[k + 1]
        /\ \A k \in DOMAIN packet.payload :
             packet.payload[k] = decoder.buffer[k + HeaderSize]
    BY DEF IInv, Agreement
  <2> QED BY <2>1, <2>2 DEF PacketMatchesBuffer
<1> QED BY <1>1, Invariance, PTL

HIDE DEF DecoderRecords, PacketRecords

-----------------------------------------------------------------------------
\* The known part of an array as a sequence.
LEMMA PrefixIsSeq ==
  ASSUME NEW size \in Nat, NEW f \in Arrays(size), NEW n \in Nat,
         DOMAIN f = 0 .. n - 1
  PROVE  /\ Prefix(f, n) \in Seq(Byte) /\ Len(Prefix(f, n)) = n
         /\ \A k \in 1 .. n : Prefix(f, n)[k] = f[k - 1]
<1>1. \A k \in 0 .. n - 1 : f[k] \in Byte
  BY ArrayElements
<1>2. Prefix(f, n) \in [1 .. n -> Byte]
  BY <1>1 DEF Prefix
<1>3. Prefix(f, n) \in Seq(Byte) /\ Len(Prefix(f, n)) = n
  BY <1>2, SeqDef
<1> QED BY <1>3 DEF Prefix

\* An element written behind the last one is appended.
LEMMA PrefixAppends ==
  ASSUME NEW size \in Nat, NEW f \in Arrays(size), NEW g \in Arrays(size),
         NEW n \in Nat, NEW v \in Byte,
         DOMAIN f = 0 .. n - 1, DOMAIN g = 0 .. (n + 1) - 1,
         g[n] = v, \A j \in 0 .. n - 1 : g[j] = f[j]
  PROVE  Prefix(g, n + 1) = Append(Prefix(f, n), v)
<1> DEFINE s == Prefix(f, n)
           t == Prefix(g, n + 1)
           a == Append(s, v)
<1>1. s \in Seq(Byte) /\ Len(s) = n /\ \A k \in 1 .. n : s[k] = f[k - 1]
  BY PrefixIsSeq
<1>2. t \in Seq(Byte) /\ Len(t) = n + 1 /\ \A k \in 1 .. n + 1 : t[k] = g[k - 1]
  <2>1. n + 1 \in Nat
    OBVIOUS
  <2> QED BY <2>1, PrefixIsSeq
<1> HIDE DEF s, t
<1>3. /\ a \in Seq(Byte) /\ Len(a) = n + 1 /\ a[n + 1] = v
      /\ \A k \in 1 .. n : a[k] = s[k]
  BY <1>1, AppendProperties
<1> HIDE DEF a
<1>4. \A k \in 1 .. n + 1 : t[k] = a[k]
  BY <1>1, <1>2, <1>3
<1>5. t = a
  BY <1>2, <1>3, <1>4, SeqEqual
<1> QED BY <1>5 DEF t, a, s

\* A CRC taken apart into its two bytes, and put together again.
LEMMA CrcBytes ==
  ASSUME NEW crc \in 0 .. Radix * Radix - 1
  PROVE  /\ crc \div Radix \in Byte /\ crc % Radix \in Byte
         /\ crc = (crc \div Radix) * Radix + (crc % Radix)
<1>1. Radix \in Nat /\ Radix > 0 /\ Byte = 0 .. Radix - 1
  BY Numbers
<1> QED BY <1>1, TwoDigits

\* The frame that has been collected, in each state of the decoder.
CrcIn(d, p) ==
  CASE d.state = "CRC2" -> <<p.crc \div Radix>>
    [] d.state = "END" -> <<p.crc \div Radix, p.crc % Radix>>
    [] OTHER -> <<>>

FrameIn(d, p) ==
  IF d.state = "IDLE" THEN <<>>
  ELSE Prefix(d.buffer, d.buffer_index) \o CrcIn(d, p)

LEMMA FrameParts ==
  ASSUME NEW d \in DecoderRecords, NEW p,
         DOMAIN d.buffer = 0 .. d.buffer_index - 1
  PROVE  /\ d.state = "IDLE" => FrameIn(d, p) = <<>>
         /\ d.state = "LENGTH" /\ d.buffer_index = 0 => FrameIn(d, p) = <<>>
         /\ d.state \in {"LENGTH", "ADDRESS", "PAYLOAD", "CRC1"} =>
              FrameIn(d, p) = Prefix(d.buffer, d.buffer_index)
         /\ \A high \in Byte :
              d.state = "CRC2" /\ p.crc = high * Radix =>
                FrameIn(d, p) = Append(Prefix(d.buffer, d.buffer_index), high)
         /\ \A high, low \in Byte :
              d.state = "END" /\ p.crc = high * Radix + low =>
                FrameIn(d, p) =
                  Append(Append(Prefix(d.buffer, d.buffer_index), high), low)
<1> DEFINE s == Prefix(d.buffer, d.buffer_index)
<1>1. /\ d.buffer \in Arrays(BUFFER_SIZE) /\ d.buffer_index \in Nat
      /\ BUFFER_SIZE \in Nat
  BY Numbers DEF DecoderRecords
<1>2. s \in Seq(Byte) /\ Len(s) = d.buffer_index
  BY <1>1, PrefixIsSeq
<1>3. Radix \in Nat /\ Radix > 0 /\ 0 \in 0 .. Radix - 1 /\ Byte = 0 .. Radix - 1
  BY Numbers
<1> HIDE DEF s
<1>4. CASE d.state = "IDLE"
  BY <1>4 DEF FrameIn
<1>5. CASE d.state \in {"LENGTH", "ADDRESS", "PAYLOAD", "CRC1"}
  <2>1. FrameIn(d, p) = s \o <<>>
    BY <1>5 DEF FrameIn, CrcIn, s
  <2>2. FrameIn(d, p) = s
    BY <1>2, <2>1, ConcatEmptySeq
  <2>3. d.buffer_index = 0 => s = <<>>
    BY <1>2, EmptySeq
  <2> QED BY <1>5, <2>2, <2>3 DEF s
<1>6. CASE d.state = "CRC2"
  <2> SUFFICES ASSUME NEW high \in Byte, p.crc = high * Radix
               PROVE  FrameIn(d, p) = Append(s, high)
    BY <1>6 DEF s
  <2>1. (high * Radix + 0) \div Radix = high
    BY <1>3, Quotient
  <2>2. p.crc \div Radix = high
    BY <1>3, <2>1
  <2>3. FrameIn(d, p) = s \o <<high>>
    BY <1>6, <2>2 DEF FrameIn, CrcIn, s
  <2> QED BY <1>2, <2>3, AppendIsConcat
<1>7. CASE d.state = "END"
  <2> SUFFICES ASSUME NEW high \in Byte, NEW low \in Byte,
                      p.crc = high * Radix + low
               PROVE  FrameIn(d, p) = Append(Append(s, high), low)
    BY <1>7 DEF s
  <2>1. p.crc \div Radix = high /\ p.crc % Radix = low
    BY <1>3, Quotient
  <2>2. FrameIn(d, p) = s \o <<high, low>>
    BY <1>7, <2>1 DEF FrameIn, CrcIn, s
  <2>3. /\ <<high>> \in Seq(Byte) /\ <<low>> \in Seq(Byte)
        /\ <<high, low>> = <<high>> \o <<low>>
    <3>1. <<high>> \in Seq(Byte) /\ <<low>> \in Seq(Byte)
      OBVIOUS
    <3>2. <<high, low>> \in Seq(Byte) /\ Len(<<high, low>>) = 2
      OBVIOUS
    <3>3. /\ <<high>> \o <<low>> \in Seq(Byte) /\ Len(<<high>> \o <<low>>) = 2
          /\ \A k \in 1 .. 2 : (<<high>> \o <<low>>)[k] = <<high, low>>[k]
      BY <3>1, ConcatProperties
    <3> QED BY <3>1, <3>2, <3>3, SeqEqual
  <2>4. s \o <<high, low>> = (s \o <<high>>) \o <<low>>
    BY <1>2, <2>3, ConcatAssociative
  <2>5. Append(s, high) = s \o <<high>> /\ Append(s, high) \in Seq(Byte)
    BY <1>2, AppendIsConcat, AppendProperties
  <2>6. Append(Append(s, high), low) = Append(s, high) \o <<low>>
    BY <2>5, AppendIsConcat
  <2> QED BY <2>2, <2>4, <2>5, <2>6
<1> QED BY <1>4, <1>5, <1>6, <1>7 DEF States

-----------------------------------------------------------------------------
\* The frame before and after a step.
LEMMA Mapped ==
  /\ Collected = FrameIn(decoder, packet)
  /\ Collected' = FrameIn(decoder', packet')
BY DEF Collected, CollectedCrc, FrameIn, CrcIn

\* The members that the steps below speak of.
LEMMA Members ==
  ASSUME IInv
  PROVE  /\ decoder \in DecoderRecords /\ packet \in PacketRecords
         /\ decoder.state \in States /\ decoder.escape_next \in BOOLEAN
         /\ decoder.buffer \in Arrays(BUFFER_SIZE) /\ decoder.buffer_index \in Nat
         /\ DOMAIN decoder.buffer = 0 .. decoder.buffer_index - 1
         /\ packet.length \in Nat
BY Numbers DEF IInv, TypeOK, DecoderRecords, PacketRecords

\* The receiver has the wire of the decoder.
LEMMA SameWire ==
  /\ Receiver!HeaderSize = HeaderSize /\ Receiver!Radix = Radix
  /\ \A b : Receiver!Flip(b) = Flip(b)
  /\ \A f, n : /\ Receiver!HeaderOK(f, n) = HeaderOK(f, n)
               /\ Receiver!HeaderType(f, n) = HeaderType(f, n)
<1>1. Receiver!HeaderSize = HeaderSize /\ Receiver!Radix = Radix
  BY DEF HeaderSize, Radix, Receiver!HeaderSize, Receiver!Radix
<1>2. \A b : Receiver!Flip(b) = Flip(b)
  BY DEF Flip, Receiver!Flip
<1>3. \A f, n : /\ Receiver!HeaderOK(f, n) = HeaderOK(f, n)
                /\ Receiver!HeaderType(f, n) = HeaderType(f, n)
  BY DEF HeaderOK, HeaderType, ShortHeader, LongHeader, Receiver!HeaderOK,
     Receiver!HeaderType, Receiver!ShortHeader, Receiver!LongHeader
<1> QED BY <1>1, <1>2, <1>3

\* What a byte is to the receiver, if it reaches the state machine.
LEMMA ReachesAsData ==
  ASSUME IInv, NEW rx \in RxBytes, NEW s, Reaches(s, rx)
  PROVE  /\ Receiver!IsData(rx) /\ Receiver!Data(rx) = Unescaped(rx)
         /\ decoder.state = s
<1>1. decoder.escape_next \in BOOLEAN /\ decoder.state = s
  BY Members DEF Reaches
<1>2. Receiver!IsData(rx)
  BY <1>1 DEF Reaches, StartsFrame, StartsEscape, Receiver!IsData
<1>3. Receiver!Data(rx) = Unescaped(rx)
  BY SameWire DEF Unescaped, Receiver!Data
<1> QED BY <1>1, <1>2, <1>3

LEMMA ResetRefines ==
  ASSUME IInv, ResetDecoder
  PROVE  Receiver!Reset
<1>1. decoder'.state = "IDLE" /\ decoder'.escape_next = FALSE
  BY DEF ResetDecoder
<1>2. Collected' = <<>>
  BY <1>1 DEF Collected
<1> QED BY <1>1, <1>2 DEF ResetDecoder, DeliveredPacket, Receiver!Reset

LEMMA StartRefines ==
  ASSUME IInv, NEW rx \in RxBytes, Start(rx)
  PROVE  Receiver!Begin(rx)
<1>1. /\ decoder'.state = "LENGTH" /\ decoder'.escape_next = FALSE
      /\ decoder'.buffer_index = 0 /\ decoder'.buffer = NoBytes
  BY DEF Start
<1>2. Collected' = <<>>
  BY <1>1 DEF Collected, CollectedCrc, Prefix
<1> QED
  BY <1>1, <1>2, Members
  DEF Start, StartsFrame, Receiver!Begin, Receiver!NoMessage

LEMMA EscapeRefines ==
  ASSUME IInv, NEW rx \in RxBytes, Escape(rx)
  PROVE  Receiver!Mark(rx)
<1>1. /\ decoder'.state = decoder.state /\ decoder'.escape_next = TRUE
      /\ decoder'.buffer_index = decoder.buffer_index
      /\ decoder'.buffer = decoder.buffer /\ packet' = packet
  BY Members DEF Escape, DecoderRecords
<1>2. Collected' = Collected
  BY <1>1 DEF Collected, CollectedCrc
<1> QED
  BY <1>1, <1>2, Members
  DEF Escape, StartsEscape, Receiver!Mark, Receiver!NoMessage

LEMMA IgnoreRefines ==
  ASSUME IInv, NEW rx \in RxBytes, Ignore(rx)
  PROVE  Receiver!Drop(rx)
<1>1. Receiver!IsData(rx) /\ decoder.state = "IDLE"
  BY ReachesAsData DEF Ignore
<1>2. decoder'.state = "IDLE" /\ decoder'.escape_next = FALSE
  BY <1>1, Members DEF Ignore, DecoderRecords
<1>3. Collected = <<>> /\ Collected' = <<>>
  BY <1>1, <1>2 DEF Collected
<1> QED BY <1>1, <1>2, <1>3 DEF Ignore, Receiver!Drop, Receiver!NoMessage

LEMMA RejectLengthRefines ==
  ASSUME IInv, NEW rx \in RxBytes, RejectLength(rx)
  PROVE  Receiver!TooLong(rx)
<1>1. /\ Receiver!IsData(rx) /\ Receiver!Data(rx) = Unescaped(rx)
      /\ decoder.state = "LENGTH"
  BY ReachesAsData DEF RejectLength
<1>2. decoder'.state = "IDLE" /\ decoder'.escape_next = FALSE
  BY <1>1, Members DEF RejectLength, DecoderRecords
<1>3. Collected = <<>>
  BY <1>1, Members, Mapped, FrameParts DEF IInv, Position
<1>4. Collected' = <<>>
  BY <1>2 DEF Collected
<1> QED
  BY <1>1, <1>2, <1>3, <1>4
  DEF RejectLength, Receiver!TooLong, Receiver!NoMessage

\* What has been collected once the length is known.
CrcBytesIn(state) == CASE state = "CRC2" -> 1 [] state = "END" -> 2 [] OTHER -> 0

LEMMA FrameSoFar ==
  ASSUME IInv,
         decoder.state \in {"ADDRESS", "PAYLOAD", "CRC1", "CRC2", "END"}
  PROVE  /\ Collected \in Seq(Byte) /\ Collected # <<>>
         /\ decoder.buffer_index \in 1 .. HeaderSize + packet.length
         /\ Len(Collected) = decoder.buffer_index + CrcBytesIn(decoder.state)
         /\ \A k \in 1 .. decoder.buffer_index :
              Collected[k] = decoder.buffer[k - 1]
         /\ Receiver!Size(Collected) = HeaderSize + packet.length + 2
<1> DEFINE n == decoder.buffer_index
           s == Prefix(decoder.buffer, n)
<1>1. /\ BUFFER_SIZE \in Nat /\ HeaderSize \in Nat /\ packet.length \in Nat
      /\ n \in Nat /\ decoder \in DecoderRecords /\ packet \in PacketRecords
      /\ decoder.buffer \in Arrays(BUFFER_SIZE)
      /\ DOMAIN decoder.buffer = 0 .. n - 1
  BY Numbers, Members
<1>2. n \in 1 .. HeaderSize + packet.length
  BY <1>1, Numbers DEF IInv, TypeOK, Position, DecoderRecords
<1>3. /\ s \in Seq(Byte) /\ Len(s) = n
      /\ \A k \in 1 .. n : s[k] = decoder.buffer[k - 1]
  BY <1>1, PrefixIsSeq
<1> HIDE DEF s, n
<1>4. /\ Collected \in Seq(Byte) /\ Len(Collected) = n + CrcBytesIn(decoder.state)
      /\ \A k \in 1 .. n : Collected[k] = s[k]
  <2>1. CASE decoder.state \in {"ADDRESS", "PAYLOAD", "CRC1"}
    <3>1. Collected = s
      BY <1>1, <2>1, Mapped, FrameParts DEF s, n
    <3> QED BY <1>1, <1>3, <2>1, <3>1 DEF CrcBytesIn
  <2>2. CASE decoder.state = "CRC2"
    <3>1. PICK high \in Byte : packet.crc = high * Radix
      BY <2>2 DEF IInv, HighByte
    <3>2. Collected = Append(s, high)
      BY <1>1, <2>2, <3>1, Mapped, FrameParts DEF s, n
    <3> QED BY <1>1, <1>3, <2>2, <3>2, AppendProperties DEF CrcBytesIn
  <2>3. CASE decoder.state = "END"
    <3>1. PICK high \in Byte, low \in Byte : packet.crc = high * Radix + low
      BY <1>1, CrcBytes DEF PacketRecords
    <3>2. Collected = Append(Append(s, high), low)
      BY <1>1, <2>3, <3>1, Mapped, FrameParts DEF s, n
    <3>3. /\ Append(s, high) \in Seq(Byte) /\ Len(Append(s, high)) = n + 1
          /\ \A k \in 1 .. n : Append(s, high)[k] = s[k]
      BY <1>3, AppendProperties
    <3>4. /\ Collected \in Seq(Byte) /\ Len(Collected) = (n + 1) + 1
          /\ \A k \in 1 .. n + 1 : Collected[k] = Append(s, high)[k]
      BY <3>2, <3>3, AppendProperties
    <3> QED BY <1>1, <2>3, <3>3, <3>4 DEF CrcBytesIn
  <2> QED BY <2>1, <2>2, <2>3
<1>5. \A k \in 1 .. n : Collected[k] = decoder.buffer[k - 1]
  BY <1>3, <1>4
<1>6. Collected[1] = packet.length
  <2>1. 1 \in 1 .. n /\ 1 - 1 = 0
    BY <1>1, <1>2
  <2>2. decoder.buffer[0] = packet.length
    BY DEF IInv, Agreement
  <2> QED BY <1>5, <2>1, <2>2
<1>7. Receiver!Size(Collected) = HeaderSize + packet.length + 2
  BY <1>6, SameWire DEF Receiver!Size
<1>8. Collected # <<>>
  <2>1. Len(Collected) > 0
    BY <1>1, <1>2, <1>4 DEF CrcBytesIn
  <2> QED BY <2>1
<1> QED BY <1>2, <1>4, <1>5, <1>7, <1>8 DEF n

\* Before END the frame is not complete.
LEMMA RoomLeft ==
  ASSUME IInv, decoder.state \in {"ADDRESS", "PAYLOAD", "CRC1", "CRC2"}
  PROVE  Collected # <<>> /\ Len(Collected) < Receiver!Size(Collected)
<1>1. /\ Collected # <<>>
      /\ decoder.buffer_index \in 1 .. HeaderSize + packet.length
      /\ Len(Collected) = decoder.buffer_index + CrcBytesIn(decoder.state)
      /\ Receiver!Size(Collected) = HeaderSize + packet.length + 2
  BY FrameSoFar
<1>2. HeaderSize + packet.length \in Nat
  BY Numbers, Members
<1>3. CrcBytesIn(decoder.state) \in {0, 1}
  BY DEF CrcBytesIn
<1> QED BY <1>1, <1>2, <1>3

\* The bytes of a frame are collected: the first announces its size,
LEMMA LengthRefines ==
  ASSUME IInv, IInv', NEW rx \in RxBytes, Length(rx)
  PROVE  Receiver!Collect(rx)
<1> DEFINE v == Unescaped(rx)
           d == Store("ADDRESS", rx)
<1>1. /\ Receiver!IsData(rx) /\ Receiver!Data(rx) = v /\ decoder.state = "LENGTH"
      /\ v \in Byte /\ v <= MAX_PAYLOAD_SIZE
  BY ReachesAsData, UnescapedIsByte DEF Length
<1>2. /\ decoder.buffer_index = 0 /\ decoder.buffer_index < BUFFER_SIZE /\ TypeOK
      /\ "ADDRESS" \in States
  BY <1>1, Numbers DEF IInv, Position, States
<1>3. /\ decoder' \in DecoderRecords /\ decoder'.state = "ADDRESS"
      /\ decoder'.escape_next = FALSE /\ decoder'.buffer_index = 0 + 1
      /\ DOMAIN decoder'.buffer = 0 .. (0 + 1) - 1 /\ decoder'.buffer[0] = v
  <2>1. /\ d \in DecoderRecords /\ d.state = "ADDRESS" /\ d.buffer_index = 0 + 1
        /\ d.escape_next = FALSE /\ d.buffer[0] = v
        /\ DOMAIN d.buffer = 0 .. d.buffer_index - 1
    BY <1>2, StoreEffect
  <2> HIDE DEF d
  <2>2. decoder' = [d EXCEPT !.addr_byte_count = 0]
    BY DEF Length, d
  <2>3. /\ decoder'.state = d.state /\ decoder'.buffer = d.buffer
        /\ decoder'.buffer_index = d.buffer_index
        /\ decoder'.escape_next = d.escape_next
    BY <2>1, <2>2 DEF DecoderRecords
  <2>4. decoder' \in DecoderRecords
    BY DEF IInv, TypeOK
  <2> QED BY <2>1, <2>3, <2>4
<1>4. Collected = <<>>
  BY <1>1, <1>2, Members, Mapped, FrameParts
<1>5. Collected' = Prefix(decoder'.buffer, 0 + 1)
  BY <1>3, Mapped, FrameParts
<1>6. Collected' = Append(Collected, v)
  <2>1. Prefix(decoder'.buffer, 0 + 1) = Append(Prefix(decoder.buffer, 0), v)
    <3>1. /\ decoder.buffer \in Arrays(BUFFER_SIZE)
          /\ decoder'.buffer \in Arrays(BUFFER_SIZE) /\ BUFFER_SIZE \in Nat
          /\ DOMAIN decoder.buffer = 0 .. 0 - 1
      BY <1>2, <1>3, Members, Numbers DEF DecoderRecords
    <3>2. \A j \in 0 .. 0 - 1 : decoder'.buffer[j] = decoder.buffer[j]
      OBVIOUS
    <3> HIDE DEF v
    <3> QED BY <1>1, <1>3, <3>1, <3>2, PrefixAppends
  <2>2. Prefix(decoder.buffer, 0) = <<>>
    BY DEF Prefix
  <2> QED BY <1>4, <1>5, <2>1, <2>2
<1>7. result' = "INCOMPLETE"
  BY DEF Length
<1> QED
  BY <1>1, <1>3, <1>4, <1>6, <1>7 DEF Receiver!Collect, Receiver!NoMessage

\* the next ones are stored behind it, on the way to a state before the CRC.
LEMMA StoreRefines ==
  ASSUME IInv, IInv', NEW rx \in RxBytes,
         Receiver!IsData(rx), Receiver!Data(rx) = Unescaped(rx),
         decoder.state \in {"ADDRESS", "PAYLOAD"},
         decoder'.state \in {"ADDRESS", "PAYLOAD", "CRC1"},
         decoder'.escape_next = FALSE, result' = "INCOMPLETE",
         decoder'.buffer_index = decoder.buffer_index + 1,
         decoder'.buffer[decoder.buffer_index] = Unescaped(rx),
         \A j \in 0 .. decoder.buffer_index - 1 :
           decoder'.buffer[j] = decoder.buffer[j]
  PROVE  Receiver!Collect(rx)
<1> DEFINE v == Unescaped(rx)
           n == decoder.buffer_index
<1>1. v \in Byte /\ n \in Nat /\ BUFFER_SIZE \in Nat
  BY UnescapedIsByte, Members, Numbers
<1>2. /\ decoder \in DecoderRecords /\ decoder' \in DecoderRecords
      /\ decoder.buffer \in Arrays(BUFFER_SIZE)
      /\ decoder'.buffer \in Arrays(BUFFER_SIZE)
      /\ DOMAIN decoder.buffer = 0 .. n - 1
      /\ DOMAIN decoder'.buffer = 0 .. (n + 1) - 1
  BY DEF IInv, TypeOK, DecoderRecords
<1>3. Collected = Prefix(decoder.buffer, n)
  BY <1>2, Mapped, FrameParts
<1>4. Collected' = Prefix(decoder'.buffer, n + 1)
  <2>1. DOMAIN decoder'.buffer = 0 .. decoder'.buffer_index - 1
    BY <1>2
  <2> QED BY <1>2, <2>1, Mapped, FrameParts
<1> HIDE DEF v, n
<1>5. Prefix(decoder'.buffer, n + 1) = Append(Prefix(decoder.buffer, n), v)
  BY <1>1, <1>2, PrefixAppends DEF v, n
<1>6. Collected' = Append(Collected, v)
  BY <1>3, <1>4, <1>5
<1>7. Collected # <<>> /\ Len(Collected) < Receiver!Size(Collected)
  BY RoomLeft
<1> QED BY <1>6, <1>7 DEF Receiver!Collect, Receiver!NoMessage, v

LEMMA AddressRefines ==
  ASSUME IInv, IInv', NEW rx \in RxBytes, AddressByte(rx)
  PROVE  Receiver!Collect(rx)
<1> DEFINE v == Unescaped(rx)
           n == decoder.buffer_index
           d == Store(AfterAddress, rx)
<1>1. /\ Receiver!IsData(rx) /\ Receiver!Data(rx) = v /\ decoder.state = "ADDRESS"
  BY ReachesAsData DEF AddressByte
<1>2. /\ AfterAddress \in {"ADDRESS", "PAYLOAD", "CRC1"}
      /\ AfterAddress \in States /\ TypeOK /\ n < BUFFER_SIZE
  BY <1>1, AfterAddressState, Numbers DEF IInv, TypeOK, Position, States,
     DecoderRecords
<1>3. /\ d \in DecoderRecords /\ d.state = AfterAddress /\ d.buffer_index = n + 1
      /\ d.escape_next = FALSE /\ d.buffer[n] = v
      /\ \A j \in 0 .. n - 1 : d.buffer[j] = decoder.buffer[j]
  BY <1>2, StoreEffect
<1> HIDE DEF d, v, n
<1>4. decoder' = [d EXCEPT !.addr_byte_count = @ + 1] /\ result' = "INCOMPLETE"
  BY DEF AddressByte, d
<1>5. /\ decoder'.state = d.state /\ decoder'.buffer = d.buffer
      /\ decoder'.buffer_index = d.buffer_index
      /\ decoder'.escape_next = d.escape_next
  BY <1>3, <1>4 DEF DecoderRecords
<1> QED BY <1>1, <1>2, <1>3, <1>4, <1>5, StoreRefines DEF v, n

LEMMA PayloadRefines ==
  ASSUME IInv, IInv', NEW rx \in RxBytes, PayloadByte(rx)
  PROVE  Receiver!Collect(rx)
<1> DEFINE v == Unescaped(rx)
           n == decoder.buffer_index
           d == Store(AfterPayload, rx)
<1>1. /\ Receiver!IsData(rx) /\ Receiver!Data(rx) = v /\ decoder.state = "PAYLOAD"
  BY ReachesAsData DEF PayloadByte
<1>2. /\ AfterPayload \in {"PAYLOAD", "CRC1"} /\ AfterPayload \in States
      /\ TypeOK /\ n < BUFFER_SIZE
  <2>1. AfterPayload \in {"PAYLOAD", "CRC1"} /\ AfterPayload \in States
    BY DEF AfterPayload, States
  <2>2. TypeOK /\ Position
    BY DEF IInv
  <2>3. /\ decoder.buffer_index \in Nat /\ packet.length \in Nat
        /\ decoder.buffer_index < HeaderSize + packet.length
        /\ packet.length <= MAX_PAYLOAD_SIZE
    BY <1>1, <2>2, Numbers DEF TypeOK, Position, DecoderRecords, PacketRecords
  <2> QED BY <2>1, <2>2, <2>3, Numbers
<1>3. /\ d.state = AfterPayload /\ d.buffer_index = n + 1
      /\ d.escape_next = FALSE /\ d.buffer[n] = v
      /\ \A j \in 0 .. n - 1 : d.buffer[j] = decoder.buffer[j]
  BY <1>2, StoreEffect
<1>4. decoder' = d /\ result' = "INCOMPLETE"
  BY DEF PayloadByte
<1> HIDE DEF d, v, n
<1> QED BY <1>1, <1>2, <1>3, <1>4, StoreRefines DEF v, n

\* and the two bytes of the CRC follow.
LEMMA CrcHighRefines ==
  ASSUME IInv, IInv', NEW rx \in RxBytes, CrcHigh(rx)
  PROVE  Receiver!Collect(rx)
<1> DEFINE v == Unescaped(rx)
           s == Prefix(decoder.buffer, decoder.buffer_index)
<1>1. /\ Receiver!IsData(rx) /\ Receiver!Data(rx) = v /\ decoder.state = "CRC1"
      /\ v \in Byte /\ result' = "INCOMPLETE"
  BY ReachesAsData, UnescapedIsByte DEF CrcHigh
<1>2. /\ decoder'.state = "CRC2" /\ decoder'.escape_next = FALSE
      /\ decoder'.buffer = decoder.buffer
      /\ decoder'.buffer_index = decoder.buffer_index
      /\ decoder' \in DecoderRecords
      /\ DOMAIN decoder'.buffer = 0 .. decoder'.buffer_index - 1
  BY Members DEF CrcHigh, DecoderRecords, IInv, TypeOK
<1>3. packet'.crc = v * Radix
  BY Members DEF CrcHigh, PacketRecords
<1> HIDE DEF v
<1>4. Collected = s
  BY <1>1, Members, Mapped, FrameParts
<1>5. Collected' = Append(s, v)
  BY <1>1, <1>2, <1>3, Mapped, FrameParts
<1> HIDE DEF s
<1>6. Collected # <<>> /\ Len(Collected) < Receiver!Size(Collected)
  BY <1>1, RoomLeft
<1> QED
  BY <1>1, <1>2, <1>4, <1>5, <1>6 DEF Receiver!Collect, Receiver!NoMessage, v

LEMMA CrcLowRefines ==
  ASSUME IInv, IInv', NEW rx \in RxBytes, CrcLow(rx)
  PROVE  Receiver!Collect(rx)
<1> DEFINE v == Unescaped(rx)
           s == Prefix(decoder.buffer, decoder.buffer_index)
<1>1. /\ Receiver!IsData(rx) /\ Receiver!Data(rx) = v /\ decoder.state = "CRC2"
      /\ v \in Byte /\ result' = "INCOMPLETE"
  BY ReachesAsData, UnescapedIsByte DEF CrcLow
<1>2. /\ decoder'.state = "END" /\ decoder'.escape_next = FALSE
      /\ decoder'.buffer = decoder.buffer
      /\ decoder'.buffer_index = decoder.buffer_index
      /\ decoder' \in DecoderRecords
      /\ DOMAIN decoder'.buffer = 0 .. decoder'.buffer_index - 1
  BY Members DEF CrcLow, DecoderRecords, IInv, TypeOK
<1>3. PICK high \in Byte : packet.crc = high * Radix
  BY <1>1 DEF IInv, HighByte
<1>4. packet'.crc = high * Radix + v
  <2>1. (packet.crc \div Radix) * Radix + BitOr(packet.crc % Radix, v)
          = high * Radix + v
    BY <1>1, <1>3, OrIsSum
  <2> QED BY <2>1, Members DEF CrcLow, PacketRecords
<1> HIDE DEF v
<1>5. Collected = Append(s, high)
  BY <1>1, <1>3, Members, Mapped, FrameParts
<1>6. Collected' = Append(Append(s, high), v)
  BY <1>1, <1>2, <1>4, Mapped, FrameParts
<1> HIDE DEF s
<1>7. Collected # <<>> /\ Len(Collected) < Receiver!Size(Collected)
  BY <1>1, RoomLeft
<1> QED
  BY <1>1, <1>2, <1>5, <1>6, <1>7 DEF Receiver!Collect, Receiver!NoMessage, v

-----------------------------------------------------------------------------
\* When END is awaited the frame is complete, and the structures of the
\* decoder hold its parts.
LEMMA WholeFrame ==
  ASSUME IInv, decoder.state = "END"
  PROVE  /\ Collected # <<>> /\ Len(Collected) = Receiver!Size(Collected)
         /\ Collected[1] = packet.length
         /\ Receiver!Checksum(Collected) = packet.crc
         /\ Receiver!Covered(Collected) =
              Prefix(decoder.buffer, packet.length + HeaderSize)
         /\ Receiver!AddressOf(Collected) = packet.address
         /\ Receiver!PayloadOf(Collected) = packet.payload
<1> DEFINE n == packet.length + HeaderSize
           f == Collected
           b == decoder.buffer
           s == Prefix(b, n)
<1>1. /\ HeaderSize \in Nat /\ HeaderSize = ADDR_BYTES + 1
      /\ ADDR_BYTES \in Nat /\ ADDR_BYTES >= 1 /\ BUFFER_SIZE \in Nat
      /\ packet.length \in Nat /\ n \in Nat /\ n >= 2
      /\ packet \in PacketRecords /\ decoder \in DecoderRecords
      /\ b \in Arrays(BUFFER_SIZE)
  BY Numbers, Members
<1>2. decoder.buffer_index = n /\ DOMAIN b = 0 .. n - 1
  <2>1. decoder.buffer_index = HeaderSize + packet.length
    BY DEF IInv, Position
  <2> QED BY <1>1, <2>1, Members
<1>3. /\ f \in Seq(Byte) /\ f # <<>> /\ Len(f) = n + 2
      /\ \A k \in 1 .. n : f[k] = b[k - 1]
      /\ Receiver!Size(f) = n + 2
  BY <1>1, <1>2, FrameSoFar DEF CrcBytesIn
<1>4. s \in Seq(Byte) /\ Len(s) = n /\ \A k \in 1 .. n : s[k] = b[k - 1]
  BY <1>1, <1>2, PrefixIsSeq
<1>5. f[n + 1] * Radix + f[n + 2] = packet.crc
  <2>1. PICK high \in Byte, low \in Byte : packet.crc = high * Radix + low
    BY <1>1, CrcBytes DEF PacketRecords
  <2>2. f = Append(Append(s, high), low)
    BY <1>1, <1>2, <2>1, Mapped, FrameParts
  <2> HIDE DEF f, s, n
  <2>3. /\ Append(s, high) \in Seq(Byte) /\ Len(Append(s, high)) = n + 1
        /\ Append(s, high)[n + 1] = high
    BY <1>4, AppendProperties
  <2>4. /\ \A k \in 1 .. n + 1 : f[k] = Append(s, high)[k]
        /\ f[(n + 1) + 1] = low
    BY <2>2, <2>3, AppendProperties
  <2>5. f[n + 1] = high /\ f[n + 2] = low
    BY <1>1, <2>3, <2>4
  <2> QED BY <2>1, <2>5
<1> HIDE DEF f, s, b
<1>6. f[1] = packet.length
  <2>1. 1 \in 1 .. n /\ 1 - 1 = 0
    BY <1>1
  <2>2. b[0] = packet.length
    BY DEF IInv, Agreement, b
  <2> QED BY <1>3, <2>1, <2>2
<1>7. Receiver!Checksum(f) = packet.crc
  <2>1. Len(f) - 1 = n + 1
    BY <1>1, <1>3
  <2> QED BY <1>3, <1>5, <2>1, SameWire DEF Receiver!Checksum
<1>8. Receiver!Covered(f) = s
  <2>1. HeaderSize + f[1] = n
    BY <1>1, <1>6
  <2>2. Receiver!Covered(f) = SubSeq(f, 1, n)
    BY <2>1, SameWire DEF Receiver!Covered
  <2>3. /\ SubSeq(f, 1, n) \in Seq(Byte) /\ Len(SubSeq(f, 1, n)) = n
        /\ \A k \in 1 .. n : SubSeq(f, 1, n)[k] = f[k]
    <3>1. 1 \in 1 .. Len(f) + 1 /\ n \in 1 - 1 .. Len(f)
      BY <1>1, <1>3
    <3> HIDE DEF n
    <3> QED BY <1>1, <1>3, <3>1, SubSeqProperties
  <2>4. SubSeq(f, 1, n) = s
    BY <1>3, <1>4, <2>3, SeqEqual
  <2> QED BY <2>2, <2>4
<1>9. Receiver!AddressOf(f) = packet.address
  <2>1. packet.address \in [0 .. ADDR_BYTES - 1 -> Byte]
    BY <1>1 DEF PacketRecords, Address
  <2>2. \A k \in 0 .. ADDR_BYTES - 1 : packet.address[k] = b[k + 1]
    BY DEF IInv, Agreement, b
  <2>3. \A k \in 0 .. ADDR_BYTES - 1 : k + 2 \in 1 .. n /\ (k + 2) - 1 = k + 1
    BY <1>1
  <2>4. \A k \in 0 .. ADDR_BYTES - 1 : f[k + 2] = packet.address[k]
    BY <1>3, <2>2, <2>3
  <2> QED BY <2>1, <2>4 DEF Receiver!AddressOf
<1>10. Receiver!PayloadOf(f) = packet.payload
  <2>1. /\ packet.payload \in Arrays(MAX_PAYLOAD_SIZE)
        /\ MAX_PAYLOAD_SIZE \in Nat
        /\ DOMAIN packet.payload = 0 .. packet.length - 1
    BY <1>1, Numbers DEF PacketRecords, IInv, Position
  <2>2. packet.payload = [k \in 0 .. packet.length - 1 |-> packet.payload[k]]
    BY <2>1, ArrayElements
  <2>3. \A k \in 0 .. packet.length - 1 : packet.payload[k] = b[k + HeaderSize]
    BY <2>1 DEF IInv, Agreement, b
  <2>4. \A k \in 0 .. packet.length - 1 :
          /\ HeaderSize + 1 + k \in 1 .. n
          /\ (HeaderSize + 1 + k) - 1 = k + HeaderSize
    BY <1>1
  <2>5. \A k \in 0 .. packet.length - 1 :
          f[HeaderSize + 1 + k] = packet.payload[k]
    BY <1>3, <2>3, <2>4
  <2>6. Receiver!PayloadOf(f) =
          [k \in 0 .. packet.length - 1 |-> f[HeaderSize + 1 + k]]
    BY <1>6, SameWire DEF Receiver!PayloadOf
  <2> QED BY <2>2, <2>5, <2>6
<1> QED BY <1>3, <1>6, <1>7, <1>8, <1>9, <1>10 DEF f, s, b

\* The byte after a complete frame decides.
LEMMA JudgeRefines ==
  ASSUME IInv, NEW rx \in RxBytes,
         MissingEnd(rx) \/ BadCrc(rx) \/ BadHeader(rx) \/ Accept(rx)
  PROVE  Receiver!Judge(rx)
<1> DEFINE j == Receiver!Judgement(Collected, rx)
           m == Receiver!Message(Collected)
<1>1. Receiver!IsData(rx) /\ decoder.state = "END"
  BY ReachesAsData DEF MissingEnd, BadCrc, BadHeader, Accept, Ends
<1>2. /\ decoder'.state = "IDLE" /\ decoder'.escape_next = FALSE
  BY Members
  DEF MissingEnd, BadCrc, BadHeader, Accept, Finish, DecoderRecords
<1>3. Collected' = <<>>
  BY <1>2 DEF Collected
<1>4. /\ Collected # <<>> /\ Len(Collected) = Receiver!Size(Collected)
      /\ Collected[1] = packet.length
      /\ Receiver!Checksum(Collected) = Crc(Receiver!Covered(Collected)) <=>
           CrcMatches
      /\ Receiver!AddressOf(Collected) = packet.address
      /\ Receiver!PayloadOf(Collected) = packet.payload
  BY <1>1, WholeFrame DEF CrcMatches
<1>5. /\ Receiver!HeaderOK(Receiver!PayloadOf(Collected), Collected[1]) <=>
           HeaderOK(packet.payload, packet.length)
      /\ Receiver!HeaderType(Receiver!PayloadOf(Collected), Collected[1]) =
           HeaderType(packet.payload, packet.length)
  BY <1>4, SameWire
<1>6. /\ result' = j
      /\ j = "OK" => DeliveredPacket' = m
  <2>1. CASE MissingEnd(rx)
    BY <2>1 DEF MissingEnd, Finish, Receiver!Judgement
  <2>2. CASE BadCrc(rx)
    BY <1>4, <2>2 DEF BadCrc, Ends, Finish, Receiver!Judgement
  <2>3. CASE BadHeader(rx)
    BY <1>4, <1>5, <2>3 DEF BadHeader, Ends, Finish, Receiver!Judgement
  <2>4. CASE Accept(rx)
    <3>1. result' = "OK" /\ j = "OK"
      BY <1>4, <1>5, <2>4 DEF Accept, Ends, Finish, Receiver!Judgement
    <3>2. /\ packet'.length = packet.length /\ packet'.address = packet.address
          /\ packet'.payload = packet.payload
          /\ packet'.msg_type = HeaderType(packet.payload, packet.length)
      BY <2>4, Members DEF Accept, PacketRecords
    <3>3. DeliveredPacket' = m
      BY <1>4, <1>5, <3>2 DEF DeliveredPacket, Receiver!Message
    <3> QED BY <3>1, <3>3
  <2> QED BY <2>1, <2>2, <2>3, <2>4
<1> HIDE DEF j, m
<1> QED
  BY <1>1, <1>2, <1>3, <1>4, <1>6
  DEF Receiver!Judge, Receiver!NoMessage, j, m

-----------------------------------------------------------------------------
LEMMA InitRefines == Init => Receiver!Init
<1> SUFFICES ASSUME Init PROVE Receiver!Init
  OBVIOUS
<1>1. /\ decoder.state = "IDLE" /\ decoder.escape_next = FALSE
      /\ result = "INCOMPLETE"
  BY DEF Init
<1>2. Collected = <<>>
  BY <1>1 DEF Collected
<1> QED BY <1>1, <1>2 DEF Receiver!Init, Receiver!NoMessage

\* One call of fusain_decode_byte is one byte heard by the receiver.
LEMMA DecodeRefines ==
  ASSUME IInv, IInv', NEW rx \in RxBytes, DecodeByte(rx)
  PROVE  Receiver!Hear(rx)
<1>1. CASE Start(rx)
  BY <1>1, StartRefines DEF Receiver!Hear
<1>2. CASE Escape(rx)
  BY <1>2, EscapeRefines DEF Receiver!Hear
<1>3. CASE Ignore(rx)
  BY <1>3, IgnoreRefines DEF Receiver!Hear
<1>4. CASE RejectLength(rx)
  BY <1>4, RejectLengthRefines DEF Receiver!Hear
<1>5. CASE Length(rx)
  BY <1>5, LengthRefines DEF Receiver!Hear
<1>6. CASE AddressByte(rx)
  BY <1>6, AddressRefines DEF Receiver!Hear
<1>7. CASE PayloadByte(rx)
  BY <1>7, PayloadRefines DEF Receiver!Hear
<1>8. CASE CrcHigh(rx)
  BY <1>8, CrcHighRefines DEF Receiver!Hear
<1>9. CASE CrcLow(rx)
  BY <1>9, CrcLowRefines DEF Receiver!Hear
<1>10. CASE MissingEnd(rx) \/ BadCrc(rx) \/ BadHeader(rx) \/ Accept(rx)
  BY <1>10, JudgeRefines DEF Receiver!Hear
<1> QED
  BY <1>1, <1>2, <1>3, <1>4, <1>5, <1>6, <1>7, <1>8, <1>9, <1>10
  DEF DecodeByte

\* Every step of the decoder is one of the receiver, or changes nothing of it.
LEMMA StepRefines ==
  IInv /\ IInv' /\ [Next]_vars => [Receiver!Next]_Receiver!rcvVars
<1> SUFFICES ASSUME IInv, IInv', [Next]_vars
             PROVE  [Receiver!Next]_Receiver!rcvVars
  OBVIOUS
<1>1. CASE ResetDecoder
  BY <1>1, ResetRefines DEF Receiver!Next
<1>2. CASE \E rx \in RxBytes : DecodeByte(rx)
  <2>1. PICK rx \in RxBytes : DecodeByte(rx)
    BY <1>2
  <2>2. Receiver!Hear(rx)
    BY <2>1, DecodeRefines
  <2> QED BY <2>2 DEF Receiver!Next
<1>3. CASE UNCHANGED vars
  <2>1. decoder' = decoder /\ packet' = packet /\ result' = result
    BY <1>3 DEF vars
  <2>2. Collected' = Collected /\ DeliveredPacket' = DeliveredPacket
    BY <2>1 DEF Collected, CollectedCrc, DeliveredPacket
  <2> QED BY <2>1, <2>2 DEF Receiver!rcvVars
<1> QED BY <1>1, <1>2, <1>3 DEF Next

\* fusain_decode_byte implements FrameReceiver on every wire: whatever the
\* line delivers and whenever the decoder is reset, a packet is reported OK
\* exactly when the bytes since the last START are a whole frame with a right
\* CRC and message header followed by END, it is the packet of that frame, and
\* every other byte gets the answer of the abstract receiver.
THEOREM Implements == Spec => Refinement
<1>1. Spec => []IInv
  BY Invariance
<1> QED
  BY <1>1, InitRefines, StepRefines, PTL DEF Spec, Refinement, Receiver!Spec
=============================================================================
