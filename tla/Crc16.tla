-------------------------------- MODULE Crc16 --------------------------------
(***************************************************************************)
(* fusain_crc16 (src/fusain.c): CRC-16-CCITT, polynomial 0x1021, initial   *)
(* value 0xFFFF, on bytes of eight bits.                                   *)
(***************************************************************************)
EXTENDS Integers, Sequences

InitialValue == 65535     \* 0xFFFF
Width == 65536            \* uint16_t

BitAt(n, k) == (n \div 2^k) % 2
FlipBit(n, k) == IF BitAt(n, k) = 0 THEN n + 2^k ELSE n - 2^k

\* Mutants of XorPolynomial: the polynomials 0x0001 and 0x1001.
XorOne(crc) == FlipBit(crc, 0)
XorTwoTerms(crc) == FlipBit(FlipBit(crc, 12), 0)

\* crc ^ polynomial: 0x1021 has the bits 12, 5 and 0.
XorPolynomial(crc) == FlipBit(FlipBit(FlipBit(crc, 12), 5), 0)

\* Mutant of ShiftBit: the top bit is tested after the shift.
ShiftBitLate(crc) ==
  LET shifted == (crc * 2) % Width
  IN  IF shifted >= 32768 THEN XorPolynomial(shifted) ELSE shifted

\* One turn of the inner loop.
ShiftBit(crc) ==
  IF crc >= 32768 THEN XorPolynomial((crc * 2) % Width) ELSE (crc * 2) % Width

\* C's ^ on two bytes.
XorByte(a, b) ==
  LET differ(k) == IF BitAt(a, k) = BitAt(b, k) THEN 0 ELSE 2^k
  IN  differ(0) + differ(1) + differ(2) + differ(3)
        + differ(4) + differ(5) + differ(6) + differ(7)

Uint16 == 0 .. Width - 1
Uint8 == 0 .. 255

\* crc ^= data[i] << 8, which is the high byte of crc ^ data[i].
Mix(crc, byte) == XorByte(crc \div 256, byte) * 256 + (crc % 256)

\* The outer loop, with eight turns of the inner one.
CrcOf(bytes) ==
  LET mix[next \in Uint16 \X Uint8] == Mix(next[1], next[2])
      turn[crc \in Uint16] == ShiftBit(crc)
      eight[crc \in Uint16] == turn[turn[turn[turn[turn[turn[turn[turn[crc]]]]]]]]
      fold[n \in 0 .. Len(bytes)] ==
        IF n = 0 THEN InitialValue ELSE eight[mix[<<fold[n - 1], bytes[n]>>]]
  IN  fold[Len(bytes)]
=============================================================================
