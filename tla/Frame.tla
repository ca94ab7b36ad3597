------------------------------- MODULE Frame --------------------------------
(***************************************************************************)
(* The frame of a packet as a function of the packet: what                 *)
(* fusain_encode_packet (src/fusain.c) produces when nothing goes wrong.   *)
(* Encoder shows that the code, one byte at a time and with the end of the *)
(* output buffer anywhere, produces this or an error; Link sends it.       *)
(***************************************************************************)
EXTENDS Wire, SequencesExt

\* The fields of fusain_packet_t that are sent.
PacketType ==
  [length : Byte, address : Address,
   payload : [0 .. MAX_PAYLOAD_SIZE - 1 -> Byte]]

\* crc_data: LENGTH, ADDRESS and the payload in use.
CrcData(p) ==
  <<p.length>> \o Prefix(p.address, ADDR_BYTES) \o Prefix(p.payload, p.length)

\* What fusain_encode_packet accepts, and a CRC of two bytes.
Encodable(p) ==
  /\ p \in PacketType /\ p.length <= MAX_PAYLOAD_SIZE
  /\ Crc(CrcData(p)) \in 0 .. Radix * Radix - 1

FrameCrcHigh(p) == Crc(CrcData(p)) \div Radix
FrameCrcLow(p) == Crc(CrcData(p)) % Radix

\* stuff_byte.
Stuffed(byte) ==
  IF byte \in FlagBytes THEN <<ESC_BYTE, Flip(byte)>> ELSE <<byte>>

Body(p) ==
  Prefix(p.address, ADDR_BYTES) \o Prefix(p.payload, p.length)
    \o <<FrameCrcHigh(p), FrameCrcLow(p)>>

EncodedFrame(p) ==
  LET body == Body(p)
      stuffed == [k \in 1 .. Len(body) |-> Stuffed(body[k])]
  IN  <<START_BYTE, p.length>> \o FlattenSeq(stuffed) \o <<END_BYTE>>
=============================================================================
