------------------------------- MODULE Header -------------------------------
(***************************************************************************)
(* The message wrapper [type, payload] that every Fusain payload begins    *)
(* with (encode_cbor_message_header and decode_cbor_message_header of      *)
(* src/fusain.c): the head of a CBOR array of two elements, and the type.  *)
(***************************************************************************)
EXTENDS Integers, Sequences

CONSTANTS
  CBOR_ARRAY_2,      \* 0x82
  CBOR_UINT8_PREFIX, \* 0x18
  IMMEDIATE_MAX      \* the largest type that needs no prefix: 0x17

\* What encode_cbor_message_header writes.
EncodedHeader(msg_type) ==
  IF msg_type <= IMMEDIATE_MAX THEN <<CBOR_ARRAY_2, msg_type>>
  ELSE <<CBOR_ARRAY_2, CBOR_UINT8_PREFIX, msg_type>>

\* decode_cbor_message_header on the first `length' bytes of an array: the two
\* encodings of the message type that it accepts, the type it extracts and the
\* header_len it returns.
ShortHeader(payload, length) ==
  /\ length >= 2
  /\ payload[0] = CBOR_ARRAY_2
  /\ payload[1] <= IMMEDIATE_MAX

LongHeader(payload, length) ==
  /\ length >= 3
  /\ payload[0] = CBOR_ARRAY_2
  /\ payload[1] > IMMEDIATE_MAX
  /\ payload[1] = CBOR_UINT8_PREFIX

HeaderOK(payload, length) ==
  ShortHeader(payload, length) \/ LongHeader(payload, length)

HeaderType(payload, length) ==
  IF ShortHeader(payload, length) THEN payload[1] ELSE payload[2]

HeaderLength(payload, length) ==
  IF ShortHeader(payload, length) THEN 2 ELSE 3
=============================================================================
