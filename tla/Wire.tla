-------------------------------- MODULE Wire --------------------------------
(***************************************************************************)
(* The wire format that the encoder and the decoder of the Fusain library  *)
(* share (include/fusain/fusain.h and the head of src/fusain.c):           *)
(*                                                                         *)
(*    [START][LENGTH][ADDRESS][CBOR payload][CRC high][CRC low][END]       *)
(*                                                                         *)
(* Every numeric constant of the format is a parameter.  The real values   *)
(* (bytes of eight bits, 0x7E, 0x7F, 0x7D, 0x20, 114, 8, 128) and a scaled *)
(* down wire with three-bit bytes are both instances; the theorems hold    *)
(* for every instance that satisfies WireAssumption.                       *)
(***************************************************************************)
EXTENDS Header

CONSTANTS
  BYTE_MAX,          \* the largest byte: 255
  START_BYTE, END_BYTE, ESC_BYTE,
  ESC_XOR,           \* the bit that escaping flips: 0x20
  MAX_PAYLOAD_SIZE,  \* 114
  MIN_PACKET_SIZE,   \* the least output buffer the encoder accepts: 14
  ADDR_BYTES,        \* bytes of an address: 8
  BUFFER_SIZE,       \* sizeof(decoder->buffer): FUSAIN_MAX_PACKET_SIZE, 128
  Crc(_),            \* fusain_crc16 of a sequence of bytes
  BitOr(_, _)        \* C's | on bytes

Byte == 0 .. BYTE_MAX
Radix == BYTE_MAX + 1
FlagBytes == {START_BYTE, END_BYTE, ESC_BYTE}

\* byte ^ FUSAIN_ESC_XOR: exactly one bit of the byte is flipped.
Flip(byte) ==
  IF (byte \div ESC_XOR) % 2 = 0 THEN byte + ESC_XOR ELSE byte - ESC_XOR

\* LENGTH and ADDRESS, the bytes of decoder->buffer before the payload
\* (the 9 of the code).
HeaderSize == ADDR_BYTES + 1

Address == [0 .. ADDR_BYTES - 1 -> Byte]
ZeroAddress == [i \in 0 .. ADDR_BYTES - 1 |-> 0]

ASSUME WireAssumption ==
  /\ BYTE_MAX \in Nat /\ ESC_XOR \in Nat \ {0}
  /\ FlagBytes \subseteq Byte
  /\ START_BYTE # END_BYTE /\ START_BYTE # ESC_BYTE /\ END_BYTE # ESC_BYTE
  /\ MAX_PAYLOAD_SIZE \in Byte /\ MIN_PACKET_SIZE \in Nat
  /\ ADDR_BYTES \in Nat \ {0}
  /\ BUFFER_SIZE \in Nat /\ BUFFER_SIZE >= MAX_PAYLOAD_SIZE + HeaderSize

ASSUME FlipAssumption ==
  \A b \in Byte : /\ Flip(b) \in Byte
                  /\ Flip(Flip(b)) = b
                  /\ b \in FlagBytes => Flip(b) \notin FlagBytes

ASSUME BitOrAssumption ==
  \A a, b \in Byte : BitOr(a, b) \in Byte /\ BitOr(0, b) = b

-----------------------------------------------------------------------------
\* An array of which only the elements written so far are known: a function
\* on the indices written.  f[i] = v of the code.
Put(f, i, v) == [j \in DOMAIN f \cup {i} |-> IF j = i THEN v ELSE f[j]]
NoBytes == [j \in {} |-> 0]

\* The first n elements of an array, as the sequence handed to fusain_crc16.
Prefix(f, n) == [i \in 1 .. n |-> f[i - 1]]
=============================================================================
