------------------------------ MODULE Decoder -------------------------------
(***************************************************************************)
(* fusain_decode_byte and fusain_reset_decoder (src/fusain.c), for a       *)
(* caller that keeps one fusain_packet_t and one fusain_decoder_t for the  *)
(* connection, as the tests do.  One action per branch of                  *)
(* fusain_decode_byte; a step is one call of it, or one reset, which the   *)
(* caller may ask for at any moment.                                       *)
(*                                                                         *)
(* The two byte arrays are partial functions: decoder.buffer holds         *)
(* buffer[0 .. buffer_index-1], and packet.payload the elements written    *)
(* since the last START.  What an earlier frame left behind them in memory *)
(* is dropped when START rewinds, so that a read of a stale element is a   *)
(* read outside the domain: CrcCoversFrame says there is none.             *)
(***************************************************************************)
EXTENDS Wire

CONSTANTS
  RxBytes,   \* the bytes the line may deliver
  Garbage    \* what a byte of uninitialized memory may hold

ASSUME RxAssumption == RxBytes \subseteq Byte /\ Garbage \subseteq Byte

VARIABLES
  decoder,   \* fusain_decoder_t
  packet,    \* fusain_packet_t, filled in as the bytes arrive
  result     \* what the last call of fusain_decode_byte returned

vars == <<decoder, packet, result>>

States ==
  {"IDLE", "LENGTH", "ADDRESS", "PAYLOAD", "CRC1", "CRC2", "END"}

Results ==
  {"OK", "INCOMPLETE", "INVALID_START", "INVALID_CRC", "INVALID_LENGTH"}

\* After fusain_reset_decoder.  The caller's packet is uninitialized: no
\* element of its payload is known and the other fields hold garbage.
Init ==
  /\ decoder = [state |-> "IDLE", buffer |-> NoBytes, buffer_index |-> 0,
                escape_next |-> FALSE, addr_byte_count |-> 0]
  /\ packet \in [length : Garbage, address : [0 .. ADDR_BYTES - 1 -> Garbage],
                 msg_type : Garbage, payload : {NoBytes},
                 crc : {high * Radix + low : high, low \in Garbage}]
  /\ result = "INCOMPLETE"

-----------------------------------------------------------------------------
\* Mutant of StartsFrame: only a decoder in IDLE listens for START.
StartsFrameFromIdle(rx) ==
  rx = START_BYTE /\ ~decoder.escape_next /\ decoder.state = "IDLE"

StartsFrame(rx) == rx = START_BYTE /\ ~decoder.escape_next
StartsEscape(rx) == rx = ESC_BYTE /\ ~decoder.escape_next

\* The byte after unescaping.
Unescaped(rx) == IF decoder.escape_next THEN Flip(rx) ELSE rx

\* rx reaches the state machine, in state s.
Reaches(s, rx) ==
  ~StartsFrame(rx) /\ ~StartsEscape(rx) /\ decoder.state = s

\* Mutant of Start: packet->address is not cleared.
StartKeepsAddress(rx) ==
  /\ StartsFrame(rx)
  /\ decoder' = [state |-> "LENGTH", buffer |-> NoBytes, buffer_index |-> 0,
                 escape_next |-> FALSE, addr_byte_count |-> 0]
  /\ packet' = [packet EXCEPT !.payload = NoBytes]
  /\ result' = "INCOMPLETE"

Start(rx) ==
  /\ StartsFrame(rx)
  /\ decoder' = [state |-> "LENGTH", buffer |-> NoBytes, buffer_index |-> 0,
                 escape_next |-> FALSE, addr_byte_count |-> 0]
  /\ packet' = [packet EXCEPT !.address = ZeroAddress, !.payload = NoBytes]
  /\ result' = "INCOMPLETE"

Escape(rx) ==
  /\ StartsEscape(rx)
  /\ decoder' = [decoder EXCEPT !.escape_next = TRUE]
  /\ result' = "INCOMPLETE"
  /\ UNCHANGED packet

\* Mutant of Ignore: escape_next is not cleared for a byte that is dropped.
IgnoreKeepsEscape(rx) ==
  Reaches("IDLE", rx) /\ result' = "INCOMPLETE" /\ UNCHANGED <<decoder, packet>>

\* A byte between two frames is dropped.
Ignore(rx) ==
  /\ Reaches("IDLE", rx)
  /\ decoder' = [decoder EXCEPT !.escape_next = FALSE]
  /\ result' = "INCOMPLETE"
  /\ UNCHANGED packet

RejectLength(rx) ==
  /\ Reaches("LENGTH", rx)
  /\ Unescaped(rx) > MAX_PAYLOAD_SIZE
  /\ decoder' = [decoder EXCEPT !.state = "IDLE", !.escape_next = FALSE]
  /\ result' = "INVALID_LENGTH"
  /\ UNCHANGED packet

\* decoder->buffer[decoder->buffer_index++] = byte, on the way to state s.
Store(s, rx) ==
  [decoder EXCEPT !.buffer = Put(@, decoder.buffer_index, Unescaped(rx)),
                  !.buffer_index = @ + 1,
                  !.escape_next = FALSE,
                  !.state = s]

Length(rx) ==
  /\ Reaches("LENGTH", rx)
  /\ Unescaped(rx) <= MAX_PAYLOAD_SIZE
  /\ decoder' = [Store("ADDRESS", rx) EXCEPT !.addr_byte_count = 0]
  /\ packet' = [packet EXCEPT !.length = Unescaped(rx)]
  /\ result' = "INCOMPLETE"

\* Mutant of AfterAddress: one byte too many.
AfterAddressLate ==
  CASE decoder.addr_byte_count < ADDR_BYTES -> "ADDRESS"
    [] decoder.addr_byte_count >= ADDR_BYTES ->
         IF packet.length = 0 THEN "CRC1" ELSE "PAYLOAD"

\* Mutant of AfterAddress: an empty payload is not skipped.
AfterAddressAlwaysPayload ==
  IF decoder.addr_byte_count + 1 < ADDR_BYTES THEN "ADDRESS" ELSE "PAYLOAD"

AfterAddress ==
  CASE decoder.addr_byte_count + 1 < ADDR_BYTES -> "ADDRESS"
    [] decoder.addr_byte_count + 1 >= ADDR_BYTES ->
         IF packet.length = 0 THEN "CRC1" ELSE "PAYLOAD"

\* packet->address |= (uint64_t)byte << (addr_byte_count * 8)
AddressByte(rx) ==
  /\ Reaches("ADDRESS", rx)
  /\ decoder' = [Store(AfterAddress, rx) EXCEPT !.addr_byte_count = @ + 1]
  /\ packet' = [packet EXCEPT !.address[decoder.addr_byte_count] =
                                BitOr(@, Unescaped(rx))]
  /\ result' = "INCOMPLETE"

\* Mutant of AfterPayload: the index is compared before it is incremented.
AfterPayloadLate ==
  IF decoder.buffer_index >= packet.length + HeaderSize
    THEN "CRC1" ELSE "PAYLOAD"

AfterPayload ==
  IF decoder.buffer_index + 1 >= packet.length + HeaderSize
    THEN "CRC1" ELSE "PAYLOAD"

PayloadByte(rx) ==
  /\ Reaches("PAYLOAD", rx)
  /\ packet' = [packet EXCEPT !.payload =
                  Put(@, decoder.buffer_index - HeaderSize, Unescaped(rx))]
  /\ decoder' = Store(AfterPayload, rx)
  /\ result' = "INCOMPLETE"

CrcHigh(rx) ==
  /\ Reaches("CRC1", rx)
  /\ packet' = [packet EXCEPT !.crc = Unescaped(rx) * Radix]
  /\ decoder' = [decoder EXCEPT !.state = "CRC2", !.escape_next = FALSE]
  /\ result' = "INCOMPLETE"

\* packet->crc |= byte.
CrcLow(rx) ==
  /\ Reaches("CRC2", rx)
  /\ packet' = [packet EXCEPT !.crc =
                  (@ \div Radix) * Radix + BitOr(@ % Radix, Unescaped(rx))]
  /\ decoder' = [decoder EXCEPT !.state = "END", !.escape_next = FALSE]
  /\ result' = "INCOMPLETE"
-----------------------------------------------------------------------------
\* The state END.  The byte is compared as received, before unescaping.
Ends(rx) == Reaches("END", rx) /\ rx = END_BYTE

\* Mutant of CrcMatches: the last byte of the payload is not covered.
CrcMatchesShort ==
  packet.crc = Crc(Prefix(decoder.buffer, packet.length + HeaderSize - 1))

\* Mutant of CrcMatches: the CRC is not checked.
CrcNotChecked == TRUE

CrcMatches ==
  packet.crc = Crc(Prefix(decoder.buffer, packet.length + HeaderSize))

Finish(verdict) ==
  /\ decoder' = [decoder EXCEPT !.state = "IDLE", !.escape_next = FALSE]
  /\ result' = verdict

MissingEnd(rx) ==
  /\ Reaches("END", rx) /\ rx # END_BYTE
  /\ Finish("INVALID_START")
  /\ UNCHANGED packet

BadCrc(rx) ==
  /\ Ends(rx) /\ ~CrcMatches
  /\ Finish("INVALID_CRC")
  /\ UNCHANGED packet

BadHeader(rx) ==
  /\ Ends(rx) /\ CrcMatches
  /\ ~HeaderOK(packet.payload, packet.length)
  /\ Finish("INVALID_START")
  /\ UNCHANGED packet

\* Mutant of Accept: the type is not taken from the header.
AcceptKeepsType(rx) ==
  /\ Ends(rx) /\ CrcMatches
  /\ HeaderOK(packet.payload, packet.length)
  /\ Finish("OK")
  /\ UNCHANGED packet

Accept(rx) ==
  /\ Ends(rx) /\ CrcMatches
  /\ HeaderOK(packet.payload, packet.length)
  /\ Finish("OK")
  /\ packet' = [packet EXCEPT !.msg_type =
                  HeaderType(packet.payload, packet.length)]

DecodeByte(rx) ==
  \/ Start(rx) \/ Escape(rx) \/ Ignore(rx)
  \/ RejectLength(rx) \/ Length(rx) \/ AddressByte(rx) \/ PayloadByte(rx)
  \/ CrcHigh(rx) \/ CrcLow(rx)
  \/ MissingEnd(rx) \/ BadCrc(rx) \/ BadHeader(rx) \/ Accept(rx)

ResetDecoder ==
  /\ decoder' = [state |-> "IDLE", buffer |-> NoBytes, buffer_index |-> 0,
                 escape_next |-> FALSE, addr_byte_count |-> 0]
  /\ UNCHANGED <<packet, result>>

Next == ResetDecoder \/ \E rx \in RxBytes : DecodeByte(rx)

Spec == Init /\ [][Next]_vars

-----------------------------------------------------------------------------
(***************************************************************************)
(* Properties.                                                             *)
(***************************************************************************)

\* Arrays of at most size bytes whose known part is at their beginning, and the
\* C structures that contain them.
Arrays(size) == UNION {[0 .. n - 1 -> Byte] : n \in 0 .. size}

DecoderRecords ==
  [state : States, buffer : Arrays(BUFFER_SIZE), buffer_index : 0 .. BUFFER_SIZE,
   escape_next : BOOLEAN, addr_byte_count : 0 .. ADDR_BYTES]

PacketRecords ==
  [length : Byte, address : Address, msg_type : Byte,
   payload : Arrays(MAX_PAYLOAD_SIZE), crc : 0 .. Radix * Radix - 1]

\* Type invariant: decoder and packet are fusain_decoder_t and fusain_packet_t
\* structures, and buffer_index counts the known bytes of decoder->buffer.
TypeOK ==
  /\ decoder \in DecoderRecords
  /\ packet \in PacketRecords
  /\ DOMAIN decoder.buffer = 0 .. decoder.buffer_index - 1
  /\ result \in Results

\* No byte the line delivers, at any moment, in any state and after any
\* resets, makes the decoder write outside decoder->buffer, outside
\* packet->payload or shift an address byte by 64 bits or more.  The code
\* checks none of these bounds: they hold because LENGTH was limited and
\* buffer_index counts from it.
StoresInBounds ==
  /\ decoder.state \in {"LENGTH", "ADDRESS", "PAYLOAD"} =>
       decoder.buffer_index < BUFFER_SIZE
  /\ decoder.state = "PAYLOAD" =>
       decoder.buffer_index - HeaderSize \in 0 .. MAX_PAYLOAD_SIZE - 1
  /\ decoder.state = "ADDRESS" => decoder.addr_byte_count < ADDR_BYTES

\* When the END byte is awaited, the bytes that fusain_crc16 and
\* decode_cbor_message_header are about to read are exactly the ones that
\* arrived since the last START: nothing of an earlier frame, longer or
\* aborted, is left among them.
CrcCoversFrame ==
  decoder.state = "END" =>
    /\ DOMAIN decoder.buffer = 0 .. packet.length + HeaderSize - 1
    /\ DOMAIN packet.payload = 0 .. packet.length - 1

\* The packet handed to the application is assembled beside the bytes the CRC
\* is computed over.  Once they are complete the two agree: what is delivered
\* is what was checked, in particular nothing of an earlier address is or-ed
\* into this one.
PacketMatchesBuffer ==
  decoder.state \in {"CRC1", "CRC2", "END"} =>
    /\ decoder.buffer[0] = packet.length
    /\ \A i \in 0 .. ADDR_BYTES - 1 :
         packet.address[i] = decoder.buffer[i + 1]
    /\ \A i \in 0 .. packet.length - 1 :
         packet.payload[i] = decoder.buffer[i + HeaderSize]

\* The decoder implements a receiver of frames.  The bytes collected are those
\* of decoder->buffer, and of packet->crc once they are in.
CollectedCrc ==
  CASE decoder.state = "CRC2" -> <<packet.crc \div Radix>>
    [] decoder.state = "END" -> <<packet.crc \div Radix, packet.crc % Radix>>
    [] OTHER -> <<>>

Collected ==
  IF decoder.state = "IDLE" THEN <<>>
  ELSE Prefix(decoder.buffer, decoder.buffer_index) \o CollectedCrc

DeliveredPacket ==
  [length   |-> packet.length,  address |-> packet.address,
   msg_type |-> packet.msg_type, payload |-> packet.payload]

Receiver == INSTANCE FrameReceiver WITH
  hunting   <- decoder.state = "IDLE",
  escaped   <- decoder.escape_next,
  frame     <- Collected,
  verdict   <- result,
  delivered <- IF result = "OK" THEN DeliveredPacket ELSE [none |-> TRUE]

\* Every run of the decoder is a run of FrameReceiver: a packet is reported OK
\* exactly when the bytes since the last START are a whole frame with a right
\* CRC and header followed by END, it is that frame's packet, and every other
\* byte gets the answer of the abstract receiver.
Refinement == Receiver!Spec

\* Between frames the decoder waits for START ("Decoder should still be in IDLE
\* and ready to accept START", tests/src/test_decoding.c:258, after garbage):
\* no byte heard in IDLE is remembered.
ReadyForStart == decoder.state = "IDLE" => ~decoder.escape_next
=============================================================================
