----------------------------- MODULE CrcDivision -----------------------------
(***************************************************************************)
(* fusain_crc16 against the division of polynomials it stands for, and     *)
(* what its polynomial detects within the longest frame.  Two walks share  *)
(* the variables: `data' grows byte by byte, and `reg' runs through the    *)
(* powers of x modulo the polynomial, the registers that single flipped    *)
(* bits leave behind.                                                      *)
(***************************************************************************)
EXTENDS Crc16

CONSTANTS
  NextBytes,              \* the bytes of data after the first
  MaxData,                \* bound: the length of data
  MaxBits                 \* bound: the bits a CRC travels with, itself included

ASSUME CrcDivisionAssumption ==
  NextBytes \subseteq Uint8 /\ {MaxData, MaxBits} \subseteq Nat

VARIABLES
  data,        \* the bytes a CRC is computed over
  remainder,   \* of the division of these bytes, as the set of its powers of x
  power, reg   \* x^power, and the register that it is modulo the polynomial

crcVars == <<data, remainder, power, reg>>

\* Polynomials over GF(2) are the sets of their powers of x.
Plus(f, g) == (f \ g) \cup (g \ f)
Times(n, f) == {k + n : k \in f}

Generator == {16, 12, 5, 0}
ByteAsPolynomial(byte) == {k \in 0 .. 7 : BitAt(byte, k) = 1}

\* Long division: what is left of f, of degree below 24, once the powers from
\* 23 down to 16 have been cleared.
Modulo(f) ==
  LET step[n \in 16 .. 24] ==
        IF n = 24 THEN f
        ELSE IF n \in step[n + 1] THEN Plus(step[n + 1], Times(n - 16, Generator))
                                  ELSE step[n + 1]
  IN  step[16]

CrcInit == data = <<>> /\ remainder = 0 .. 15 /\ power = 0 /\ reg = 1

\* One byte more: the division of f * x^8 + byte * x^16 goes on from the
\* remainder of f.
Feed ==
  /\ power = 0 /\ Len(data) < MaxData
  /\ \E byte \in IF data = <<>> THEN Uint8 ELSE NextBytes :
       /\ data' = Append(data, byte)
       /\ remainder' = Modulo(Plus(Times(8, remainder),
                                  Times(16, ByteAsPolynomial(byte))))
  /\ UNCHANGED <<power, reg>>

Multiply ==
  /\ data = <<>> /\ power + 1 < MaxBits
  /\ power' = power + 1
  /\ reg' = ShiftBit(reg)
  /\ UNCHANGED <<data, remainder>>

CrcNext == Feed \/ Multiply

CrcSpec == CrcInit /\ [][CrcNext]_crcVars

-----------------------------------------------------------------------------
\* The shifts and exclusive ors on a 16-bit register compute the remainder of
\* the division by x^16 + x^12 + x^5 + 1, started from 0xFFFF (the
\* "CRC-16-CCITT (polynomial 0x1021, initial 0xFFFF)" of fusain.h:207).
IsRemainder == {k \in 0 .. 15 : BitAt(CrcOf(data), k) = 1} = remainder

\* A receiver that went on over the two CRC bytes, high byte first as the
\* frame carries them, would end with zero: the byte order on the wire is the
\* one for which the frame as a whole is a multiple of the polynomial, on which
\* the next two properties rest.
FrameIsMultiple ==
  CrcOf(data \o <<CrcOf(data) \div 256, CrcOf(data) % 256>>) = 0

\* Two flipped bits of a frame are always noticed, as long as they leave alone
\* where the frame ends (LENGTH, and what is a flag or escaped): no power of x
\* below the number of bits from LENGTH to the CRC is 1 modulo the polynomial.
DetectsTwoBits == power > 0 => reg # 1

\* So is, with the same exception, an odd number of flipped bits: every power of
\* x leaves a register with an odd number of ones, and an odd number of them
\* cannot cancel out.
DetectsOddBits ==
  LET ones[k \in 0 .. 16] == IF k = 0 THEN 0 ELSE ones[k - 1] + BitAt(reg, k - 1)
  IN  ones[16] % 2 = 1
=============================================================================
