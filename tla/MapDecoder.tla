----------------------------- MODULE MapDecoder -----------------------------
(***************************************************************************)
(* One call of a cbor_decode_X_payload function                            *)
(* (src/generated/cbor_decode.c), step by step, on the map of any peer:    *)
(* another version of this library, or another implementation of the       *)
(* protocol.  One action per way a zcbor call of the generated function    *)
(* can turn out.                                                           *)
(*                                                                         *)
(* The bytes given hold whole pairs; the head of the map, or its break     *)
(* byte, says how many of them are the map: fewer if bytes follow the map, *)
(* more if it is cut short.                                                *)
(***************************************************************************)
EXTENDS Cbor

CONSTANTS
  Expected,   \* the fields that each function reads, by payload
  Written,    \* the fields that the encoder of the payload writes
  Inputs(_),  \* what may arrive for a payload: [pairs, count]
  Leftover    \* an unknown value of a member

\* The pairs are any; the values of those of a simple type are of this type, or
\* do not matter.
IsPairs(pairs) ==
  /\ pairs \in Seq({pairs[n] : n \in DOMAIN pairs})
  /\ \A n \in DOMAIN pairs :
       /\ IsPair(pairs[n])
       /\ pairs[n].major = "bool" => pairs[n].value \in BOOLEAN \cup {Leftover}
       /\ pairs[n].major \in {"float", "float32", "float16"} =>
            pairs[n].value \in Floats \cup {Leftover}

ASSUME MapAssumption ==
  \A p \in DOMAIN Expected :
    /\ IsFieldList(Expected[p])
    /\ \A i \in Inputs(p) : IsPairs(i.pairs) /\ i.count \in Nat

VARIABLES
  payload,    \* the function called: cbor_decode_<payload>_payload
  input,      \* its argument
  at,         \* the field whose turn it is
  taken,      \* the pairs decoded, which payload_len_out tells the caller
  struct,     \* the caller's struct: members by key, and the _present flags set
  ret         \* "none" before the call, "busy", "success" or an "error"

vars == <<payload, input, at, taken, struct, ret>>

Fields == Expected[payload]
Keys(fields) == {fields[n].key : n \in DOMAIN fields}
OptionalKeys(fields) ==
  {fields[n].key : n \in {m \in DOMAIN fields : fields[m].optional}}

\* The struct is the caller's, and may be used again and again: nothing is
\* known of its members, and any of its flags may be set.
Init ==
  /\ payload \in DOMAIN Expected
  /\ struct \in [member : [Keys(Fields) -> {Leftover}],
                 present : SUBSET OptionalKeys(Fields)]
  /\ input = [pairs |-> <<>>, count |-> 0]
  /\ at = 1 /\ taken = 0 /\ ret = "none"

\* zcbor_entry_function and zcbor_map_start_decode.
Call ==
  /\ ret = "none"
  /\ input' \in Inputs(payload)
  /\ ret' = "busy"
  /\ UNCHANGED <<payload, at, taken, struct>>
-----------------------------------------------------------------------------
Turn(f) == ret = "busy" /\ at \in DOMAIN Fields /\ f = Fields[at]

\* zcbor_uint32_expect(state, key): there is another pair, and it has the key.
NextPair == input.pairs[taken + 1]
KeyFits(f) ==
  taken < input.count /\ taken < Len(input.pairs) /\ NextPair.key = f.key

\* Mutant of Fits: the key is not looked at.
FitsAnyKey(f) ==
  /\ taken < input.count /\ taken < Len(input.pairs)
  /\ Decodes(f.kind, NextPair)

Fits(f) == KeyFits(f) /\ Decodes(f.kind, NextPair)

\* Mutant of AfterFailure: a value that cannot be converted is kept as it is.
AfterFailureAsIs(f) ==
  IF ~KeyFits(f) THEN struct.member
  ELSE [struct.member EXCEPT ![f.key] = NextPair.value]

\* A member whose value fails the range test has been written already; what
\* zcbor leaves in one that it cannot convert is not known.
AfterFailure(f) ==
  IF ~KeyFits(f) THEN struct.member
  ELSE [struct.member EXCEPT ![f.key] =
          IF Converts(f.kind, NextPair) THEN NextPair.value ELSE Leftover]

Take(f) ==
  /\ at' = at + 1 /\ taken' = taken + 1
  /\ UNCHANGED <<payload, input, ret>>

DecodeRequired ==
  \E f \in {Fields[n] : n \in DOMAIN Fields} :
    /\ Turn(f) /\ ~f.optional /\ Fits(f)
    /\ struct' = [struct EXCEPT !.member[f.key] = NextPair.value]
    /\ Take(f)

\* zcbor_list_map_end_force_decode, and false.
FailRequired ==
  \E f \in {Fields[n] : n \in DOMAIN Fields} :
    /\ Turn(f) /\ ~f.optional /\ ~Fits(f)
    /\ struct' = [struct EXCEPT !.member = AfterFailure(f)]
    /\ ret' = "error"
    /\ UNCHANGED <<payload, input, at, taken>>

\* zcbor_present_decode of decode_repeated_X_payload_<member>: the pair is the
\* member,
DecodeOptional ==
  \E f \in {Fields[n] : n \in DOMAIN Fields} :
    /\ Turn(f) /\ f.optional /\ Fits(f)
    /\ struct' = [struct EXCEPT !.member[f.key] = NextPair.value,
                                !.present = @ \cup {f.key}]
    /\ Take(f)

\* Mutant of SkipOptional: the flag keeps its value.
SkipOptionalKeepsFlag ==
  \E f \in {Fields[n] : n \in DOMAIN Fields} :
    /\ Turn(f) /\ f.optional /\ ~Fits(f)
    /\ struct' = [struct EXCEPT !.member = AfterFailure(f)]
    /\ at' = at + 1
    /\ UNCHANGED <<payload, input, taken, ret>>

\* or it is left to the next field.
SkipOptional ==
  \E f \in {Fields[n] : n \in DOMAIN Fields} :
    /\ Turn(f) /\ f.optional /\ ~Fits(f)
    /\ struct' = [member |-> AfterFailure(f), present |-> struct.present \ {f.key}]
    /\ at' = at + 1
    /\ UNCHANGED <<payload, input, taken, ret>>

\* Mutant of EndMap: pairs may be left over.
EndMapAnywhere ==
  /\ ret = "busy" /\ at \notin DOMAIN Fields
  /\ ret' = "success"
  /\ UNCHANGED <<payload, input, at, taken, struct>>

\* zcbor_map_end_decode: the map must end here.
EndMap ==
  /\ ret = "busy" /\ at \notin DOMAIN Fields
  /\ ret' = IF taken = input.count THEN "success" ELSE "error"
  /\ UNCHANGED <<payload, input, at, taken, struct>>

Next ==
  \/ Call \/ DecodeRequired \/ FailRequired
  \/ DecodeOptional \/ SkipOptional \/ EndMap

Spec == Init /\ [][Next]_vars

-----------------------------------------------------------------------------
(***************************************************************************)
(* Properties.                                                             *)
(***************************************************************************)
Returned == ret \in {"success", "error"}

\* Type invariant: a member of the C struct holds a value of its C type, a flag
\* belongs to an optional member, and no more pairs are decoded than the map
\* has.
TypeOK ==
  /\ payload \in DOMAIN Expected /\ ret \in {"none", "busy", "success", "error"}
  /\ at \in 1 .. Len(Fields) + 1
  /\ taken \in 0 .. Len(input.pairs) /\ taken <= input.count
  /\ struct.present \subseteq OptionalKeys(Fields)
  /\ \A n \in DOMAIN Fields :
       \/ struct.member[Fields[n].key] = Leftover
       \/ InRange(CType(Fields[n].kind), struct.member[Fields[n].key])

\* The map, and the members it names.
Map == SubSeq(input.pairs, 1, input.count)
MapKeys(map) == {map[n].key : n \in DOMAIN map}
NamedBy(map) ==
  [k \in MapKeys(map) |-> map[CHOOSE n \in DOMAIN map : map[n].key = k].value]

\* The encoder writes this map, given room for it.
Encodable ==
  /\ input.count <= Len(input.pairs)
  /\ InRanges(Written[payload], NamedBy(Map))
  /\ Items(Written[payload], NamedBy(Map)) = Widened(Map)

\* The generated decoder accepts exactly the maps that the generated encoder of
\* the same payload writes, however wide the floats: a map that is cut short,
\* that lacks a required member or has an unknown, repeated or misplaced key, a
\* value of another type or out of range, even in an optional member, is
\* rejected as a whole.  (Only what follows the map is not looked at.)
AcceptsWhatIsEncoded == Returned => (ret = "success" <=> Encodable)

\* After a success the struct says what the bytes that payload_len_out counts
\* say, and nothing else: whatever the caller's struct held before, a member is
\* there exactly if its pair is in the map, with the value of that pair.
StructSaysMap ==
  ret = "success" =>
    LET map == SubSeq(input.pairs, 1, taken)
    IN  /\ Keys(Fields) \ (OptionalKeys(Fields) \ struct.present) = MapKeys(map)
        /\ \A n \in DOMAIN map : struct.member[map[n].key] = map[n].value

\* Step by step, the call has the answer that Decoded computes at once: what is
\* shown of the messages with Decoded holds of the generated functions.
AnswerIsDecoded ==
  Returned /\ input.count <= Len(input.pairs) =>
    LET answer == Decoded(Fields, Map)
    IN  /\ ret = "success" <=> answer.ok
        /\ \A k \in DOMAIN answer.struct :
             ret = "success" => struct.member[k] = answer.struct[k]
=============================================================================
