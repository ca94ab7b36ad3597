----------------------------- MODULE ScaledWire -----------------------------
(***************************************************************************)
(* A wire of three-bit bytes for TLC.  The cfg files that use it give      *)
(* START = 6, END = 7, ESC = 4 and ESC_XOR = 4: escaping flips the top bit *)
(* and maps the three flags to 2, 3 and 0, as 0x20 maps 0x7E, 0x7F and     *)
(* 0x7D to bytes that are no flags.                                        *)
(***************************************************************************)
EXTENDS Integers, Sequences
LOCAL INSTANCE SequencesExt

\* A check value of two three-bit bytes that depends on every byte and on its
\* place.
ScaledCrc(bytes) ==
  FoldLeft(LAMBDA crc, byte : (crc * 5 + byte + 1) % 64, 63, bytes)

Bit(n, i) == (n \div 2^i) % 2

ScaledOr(a, b) ==
  LET either(i) == IF Bit(a, i) + Bit(b, i) > 0 THEN 2^i ELSE 0
  IN  either(0) + either(1) + either(2)
=============================================================================
