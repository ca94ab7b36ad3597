-------------------------------- MODULE Cbor --------------------------------
(***************************************************************************)
(* What the generated CBOR code (src/generated/cbor_encode.c and           *)
(* cbor_decode.c) does with one message, given the list of its fields: the *)
(* zcbor library that the generated code calls, and the way each generated *)
(* function strings its calls together.                                    *)
(*                                                                         *)
(* A payload struct is a function on the keys of the members that are      *)
(* present.  An encoded map is the sequence of its pairs, each a key, the  *)
(* major type of the value and the value; of the bytes only their number   *)
(* is kept.                                                                *)
(***************************************************************************)
EXTENDS Integers, Sequences, SequencesExt, TLC

CONSTANTS
  INT32_MAX, UINT32_MAX, UINT64_MAX,
  Floats,       \* values of the floating point members
  MapOverhead   \* bytes around the pairs of a map: 1, or 2 if it is indefinite

ASSUME CborAssumption ==
  /\ {INT32_MAX, UINT32_MAX, UINT64_MAX} \subseteq Nat
  /\ 65535 < INT32_MAX /\ INT32_MAX < UINT32_MAX /\ UINT32_MAX < UINT64_MAX
  /\ MapOverhead \in {1, 2}

-----------------------------------------------------------------------------
\* A member of a payload: its key, its C type with the range that the CDDL
\* gives it, and whether it may be missing.
Field(key, kind) == [key |-> key, kind |-> kind, optional |-> FALSE]
Optional(key, kind) == [key |-> key, kind |-> kind, optional |-> TRUE]

Kinds == {"bool", "float", "int8", "uint8", "int32", "uint32", "uint64"}

\* The fields of a payload: no key occurs twice.
IsFieldList(fields) ==
  /\ fields \in Seq([key : Nat, kind : Kinds, optional : BOOLEAN])
  /\ \A n, m \in DOMAIN fields : fields[n].key = fields[m].key => n = m

IntRange(kind) ==
  CASE kind = "int8"   -> -128 .. 127
    [] kind = "uint8"  -> 0 .. 255
    [] kind = "int32"  -> (-INT32_MAX - 1) .. INT32_MAX
    [] kind = "uint32" -> 0 .. UINT32_MAX
    [] kind = "uint64" -> 0 .. UINT64_MAX

Signed(kind) == kind \in {"int8", "int32"}

\* The value can be a C value of this kind and passes the range test of the
\* generated code.
InRange(kind, value) ==
  CASE kind = "bool"  -> value \in BOOLEAN
    [] kind = "float" -> value \in Floats
    [] OTHER -> value \in IntRange(kind)

\* The major type (for simple values, the kind) zcbor writes.
Major(kind, value) ==
  CASE kind \in {"bool", "float"} -> kind
    [] Signed(kind) /\ value < 0 -> "nint"
    [] OTHER -> "uint"

\* The value of this item can be decoded into the C type of this kind: an int8
\* member is an int32_t, a uint8 one a uint32_t.  A float may be sent in any
\* width, the encoder uses the widest.
CType(kind) ==
  CASE kind = "int8" -> "int32" [] kind = "uint8" -> "uint32" [] OTHER -> kind

Converts(kind, item) ==
  CASE kind = "bool"  -> item.major = "bool"
    [] kind = "float" -> item.major \in {"float", "float32", "float16"}
    [] Signed(kind) -> /\ item.major \in {"uint", "nint"}
                       /\ item.value \in IntRange(CType(kind))
    [] OTHER -> item.major = "uint" /\ item.value \in IntRange(CType(kind))

\* It also passes the range test of the generated decoder.
Decodes(kind, item) == Converts(kind, item) /\ InRange(kind, item.value)

\* A pair on the wire: an integer has the sign that its major type says.
IsPair(item) ==
  /\ item = [key |-> item.key, value |-> item.value, major |-> item.major]
  /\ item.major = "uint" => item.value \notin Int \ Nat
  /\ item.major = "nint" => item.value \notin Nat

\* The same pairs, each float in the width that the encoder uses.
WidePair(item) ==
  [item EXCEPT !.major = IF @ \in {"float16", "float32"} THEN "float" ELSE @]
Widened(map) == [n \in DOMAIN map |-> WidePair(map[n])]

\* The bytes of a pair: a key below 24 takes one, a float is sent as float64.
Magnitude(item) == IF item.major = "nint" THEN -1 - item.value ELSE item.value

ItemSize(item) ==
  CASE item.major = "bool"  -> 1 + 1
    [] item.major = "float" -> 1 + 9
    [] item.major = "float32" -> 1 + 5
    [] item.major = "float16" -> 1 + 3
    [] OTHER ->
         LET n == Magnitude(item)
         IN  1 + (CASE n < 24 -> 1
                    [] 24 <= n /\ n < 256 -> 2
                    [] 256 <= n /\ n < 65536 -> 3
                    [] 65536 <= n /\ n <= UINT32_MAX -> 5
                    [] n > UINT32_MAX -> 9)

MapSize(items) ==
  FoldLeft(LAMBDA size, item : size + ItemSize(item), MapOverhead, items)

-----------------------------------------------------------------------------
\* cbor_encode_X_payload for the fields of X: the pairs written, in the order
\* of the fields, an optional member only if it is marked present.
Item(f, value) ==
  [key |-> f.key, value |-> value, major |-> Major(f.kind, value)]

ItemsOf(f, struct) ==
  IF f.key \in DOMAIN struct THEN <<Item(f, struct[f.key])>> ELSE <<>>

Items(fields, struct) ==
  FlattenSeq([n \in DOMAIN fields |-> ItemsOf(fields[n], struct)])

\* Every member that is present is in range, and no other is needed.
InRanges(fields, struct) ==
  \A n \in DOMAIN fields :
    LET f == fields[n]
    IN  \/ f.key \in DOMAIN struct /\ InRange(f.kind, struct[f.key])
        \/ f.optional /\ f.key \notin DOMAIN struct

\* It returns 0: the members are in range, and the map fits.
Encodes(fields, struct, room) ==
  InRanges(fields, struct) /\ MapSize(Items(fields, struct)) <= room

\* cbor_decode_X_payload: field after field takes the next pair if key, type
\* and range fit; an optional field leaves the pair to the next one, another
\* fails.  No pair may be left over.
With(struct, key, value) ==
  [k \in DOMAIN struct \cup {key} |-> IF k = key THEN value ELSE struct[k]]

DecodeField(acc, f) ==
  LET fits == /\ acc.rest # <<>>
              /\ Head(acc.rest).key = f.key /\ Decodes(f.kind, Head(acc.rest))
  IN  CASE acc.ok /\ fits ->
             [acc EXCEPT !.rest = Tail(@),
                         !.struct = With(@, f.key, Head(acc.rest).value)]
        [] acc.ok /\ ~fits -> [acc EXCEPT !.ok = f.optional]
        [] ~acc.ok -> acc

Decoded(fields, items) ==
  LET end == FoldLeft(DecodeField,
                      [ok |-> TRUE, rest |-> items, struct |-> [k \in {} |-> 0]],
                      fields)
  IN  [ok |-> end.ok /\ end.rest = <<>>, struct |-> end.struct]
=============================================================================
