------------------------------- MODULE MCLink --------------------------------
(***************************************************************************)
(* The link with the bytes, the flags and the CRC of the code, and the     *)
(* address shortened by the cfg.  Every byte of three frames is lost,      *)
(* corrupted, doubled and preceded by noise.                               *)
(***************************************************************************)
EXTENDS Link, Crc16

\* C's | on bytes: what is set in both is counted once.
MCOr(a, b) == (a + b + XorByte(a, b)) \div 2

MCBytes == 0 .. 255

MCPacket(addressByte, payload) ==
  [length  |-> Len(payload),
   address |-> [k \in 0 .. ADDR_BYTES - 1 |-> IF k = 0 THEN addressByte ELSE k],
   payload |-> [k \in 0 .. MAX_PAYLOAD_SIZE - 1 |->
                  IF k < Len(payload) THEN payload[k + 1] ELSE 0]]

\* A PING_REQUEST ([0x2F, nil]), a frame with all three flags in its address
\* and its payload, and the shortest payload that has a header.
MCMessages ==
  <<MCPacket(17, <<130, 24, 47, 246>>),
    MCPacket(126, <<130, 16, 125, 127>>),
    MCPacket(34, <<130, 16>>)>>

\* The flags, a byte that is START behind ESC, a length that is too long, one
\* that is not, and all ones.
MCNoise == {126, 127, 125, 94, 115, 3, 255}
=============================================================================
