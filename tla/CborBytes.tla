----------------------------- MODULE CborBytes ------------------------------
(***************************************************************************)
(* The bytes of the maps of Cbor: what zcbor writes into packet->payload   *)
(* behind the message header, and what it reads there (RFC 8949).  A value *)
(* of a floating point member is the sequence of its eight bytes.  Numbers *)
(* stay below 2^31, so the upper half of an argument of eight bytes is     *)
(* zero.                                                                   *)
(***************************************************************************)
EXTENDS Cbor
LOCAL INSTANCE SequencesExt

ASSUME CborBytesAssumption == UINT64_MAX <= 2147483647

\* The head of an item: its major type and its argument.
BigEndian(n, size) ==
  [k \in 1 .. size |-> IF size - k > 3 THEN 0 ELSE (n \div 256^(size - k)) % 256]

HeadBytes(major, n) ==
  CASE n < 24 -> <<32 * major + n>>
    [] n \in 24 .. 255 -> <<32 * major + 24>> \o BigEndian(n, 1)
    [] n \in 256 .. 65535 -> <<32 * major + 25>> \o BigEndian(n, 2)
    [] n \in 65536 .. UINT32_MAX -> <<32 * major + 26>> \o BigEndian(n, 4)
    [] n > UINT32_MAX -> <<32 * major + 27>> \o BigEndian(n, 8)

NilBytes == <<246>>

ItemBytes(item) ==
  HeadBytes(0, item.key) \o
    CASE item.major = "bool" -> <<IF item.value THEN 245 ELSE 244>>
      [] item.major = "float" -> <<251>> \o item.value
      [] item.major = "nint" -> HeadBytes(1, -1 - item.value)
      [] item.major = "uint" -> HeadBytes(0, item.value)

\* zcbor_map_start_encode to zcbor_map_end_encode: a map of a given size, or one
\* that ends with a break byte if zcbor is not built for canonical output.
MapBytes(items) ==
  LET pairs == FlattenSeq([n \in DOMAIN items |-> ItemBytes(items[n])])
  IN  IF MapOverhead = 1 THEN HeadBytes(5, Len(items)) \o pairs
                         ELSE <<191>> \o pairs \o <<255>>

-----------------------------------------------------------------------------
\* The argument of the head at position i, and the bytes that the head takes.
ArgumentSize(byte) ==
  CASE byte % 32 = 24 -> 1 [] byte % 32 = 25 -> 2 [] byte % 32 = 26 -> 4
    [] byte % 32 = 27 -> 8 [] OTHER -> 0

HeadSize(bytes, i) == 1 + ArgumentSize(bytes[i])

Argument(bytes, i) ==
  IF ArgumentSize(bytes[i]) = 0 THEN bytes[i] % 32
  ELSE FoldLeft(LAMBDA n, byte : n * 256 + byte, 0,
                SubSeq(bytes, i + 1, i + ArgumentSize(bytes[i])))

\* The pair whose value has its head at position i.
PairRead(key, bytes, i) ==
  LET byte == bytes[i]
  IN  CASE byte \in {244, 245} -> [key |-> key, value |-> byte = 245, major |-> "bool"]
        [] byte = 251 -> [key |-> key, value |-> SubSeq(bytes, i + 1, i + 8),
                          major |-> "float"]
        [] byte \in 0 .. 31 -> [key |-> key, value |-> Argument(bytes, i),
                                major |-> "uint"]
        [] byte \in 32 .. 63 -> [key |-> key, value |-> -1 - Argument(bytes, i),
                                 major |-> "nint"]

\* The pairs of a map that fills these bytes, up to the break byte if it has one.
PairsRead(bytes) ==
  LET from[i \in 2 .. Len(bytes) + 1] ==
        IF i > Len(bytes) \/ bytes[i] = 255 THEN <<>>
        ELSE LET value == i + HeadSize(bytes, i)
             IN  <<PairRead(Argument(bytes, i), bytes, value)>>
                   \o from[value + HeadSize(bytes, value)]
  IN  from[2]
=============================================================================
