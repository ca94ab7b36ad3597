--------------------------- MODULE MapDecoder_proofs ---------------------------
(***************************************************************************)
(* What the generated decoders do with the map of any peer, for every list *)
(* of fields in which no key occurs twice.                                 *)
(***************************************************************************)
EXTENDS MapDecoder, Cbor_proofs

\* The struct is a C struct: its members never come or go.
Struct ==
  /\ payload \in DOMAIN Expected
  /\ IsPairs(input.pairs) /\ input.count \in Nat
  /\ ret \in {"none", "busy", "success", "error"}
  /\ at \in 1 .. Len(Fields) + 1
  /\ taken \in 0 .. Len(input.pairs) /\ taken <= input.count
  /\ struct = [member |-> struct.member, present |-> struct.present]
  /\ struct.member = [k \in Keys(Fields) |-> struct.member[k]]
  /\ struct.present \subseteq OptionalKeys(Fields)

\* A value that a member of this kind may hold, whether or not it is in range.
Holdable(kind, value) == value = Leftover \/ InRange(CType(kind), value)

Members == \A n \in DOMAIN Fields : Holdable(Fields[n].kind, struct.member[Fields[n].key])

\* A field before the one whose turn it is is there if its pair was taken.
There(n) == Fields[n].optional => Fields[n].key \in struct.present
SaidBy(n, m) ==
  /\ There(n) /\ input.pairs[m].key = Fields[n].key
  /\ struct.member[Fields[n].key] = input.pairs[m].value

\* So far, the struct says what the pairs taken say.
SaysTaken ==
  /\ \A n \in 1 .. at - 1 : There(n) => \E m \in 1 .. taken : SaidBy(n, m)
  /\ \A m \in 1 .. taken : \E n \in 1 .. at - 1 : SaidBy(n, m)

Progress ==
  /\ ret = "none" => at = 1 /\ taken = 0
  /\ ret # "error" => SaysTaken
  /\ ret = "success" => at = Len(Fields) + 1 /\ taken = input.count

MInv == Struct /\ Members /\ Progress

-----------------------------------------------------------------------------
LEMMA FieldKeys ==
  ASSUME NEW fields, IsFieldList(fields)
  PROVE  /\ DOMAIN fields = 1 .. Len(fields) /\ Len(fields) \in Nat
         /\ \A n \in 1 .. Len(fields) :
              /\ fields[n].key \in Nat /\ fields[n].kind \in Kinds
              /\ fields[n].optional \in BOOLEAN
              /\ fields[n].key \in Keys(fields)
              /\ fields[n].optional <=> fields[n].key \in OptionalKeys(fields)
         /\ \A n, m \in 1 .. Len(fields) : fields[n].key = fields[m].key => n = m
BY FieldShape DEF Keys, OptionalKeys

LEMMA FieldsShape ==
  ASSUME payload \in DOMAIN Expected
  PROVE  IsFieldList(Fields)
BY MapAssumption DEF Fields

LEMMA PairsShape ==
  ASSUME NEW pairs, IsPairs(pairs)
  PROVE  /\ pairs \in Seq({pairs[n] : n \in DOMAIN pairs})
         /\ DOMAIN pairs = 1 .. Len(pairs) /\ Len(pairs) \in Nat
BY DEF IsPairs

-----------------------------------------------------------------------------
\* What a member can hold after its value was converted, well or badly.
LEMMA ConvertedHoldable ==
  ASSUME NEW pairs, IsPairs(pairs), NEW n \in DOMAIN pairs, NEW kind \in Kinds,
         Converts(kind, pairs[n])
  PROVE  Holdable(kind, pairs[n].value)
<1> DEFINE item == pairs[n]
<1>1. /\ item.major = "bool" => item.value \in BOOLEAN \cup {Leftover}
      /\ item.major \in {"float", "float32", "float16"} =>
           item.value \in Floats \cup {Leftover}
  BY DEF IsPairs
<1>2. CASE kind = "bool"
  <2>1. item.major = "bool"
    BY <1>2 DEF Converts, Signed
  <2>2. CType(kind) = "bool"
    BY <1>2 DEF CType
  <2>3. InRange("bool", item.value) <=> item.value \in BOOLEAN
    BY Zenon DEF InRange
  <2> QED BY <1>1, <2>1, <2>2, <2>3, Zenon DEF Holdable
<1>3. CASE kind = "float"
  <2>1. item.major \in {"float", "float32", "float16"}
    BY <1>3 DEF Converts, Signed
  <2>2. CType(kind) = "float"
    BY <1>3 DEF CType
  <2>3. InRange("float", item.value) <=> item.value \in Floats
    BY DEF InRange
  <2> HIDE DEF item
  <2>4. item.value \in Floats \cup {Leftover}
    BY <1>1, <2>1
  <2> QED BY <2>2, <2>3, <2>4 DEF Holdable, item
<1>4. CASE kind \in {"int8", "uint8", "int32", "uint32", "uint64"}
  <2>1. item.value \in IntRange(CType(kind))
    BY <1>4 DEF Converts, Signed
  <2>2. CType(kind) \notin {"bool", "float"}
    BY <1>4 DEF CType
  <2> QED BY <2>1, <2>2 DEF Holdable, InRange
<1> QED BY <1>2, <1>3, <1>4 DEF Kinds

LEMMA InitMInv == Init => MInv
<1> SUFFICES ASSUME Init PROVE MInv
  OBVIOUS
<1>1. IsFieldList(Fields)
  BY FieldsShape DEF Init
<1>2. input.pairs = <<>> /\ input.count = 0
  BY DEF Init
<1>3. IsPairs(input.pairs) /\ input.count \in Nat
  BY <1>2 DEF IsPairs
<1>4. /\ struct = [member |-> struct.member, present |-> struct.present]
      /\ struct.member \in [Keys(Fields) -> {Leftover}]
      /\ struct.present \subseteq OptionalKeys(Fields)
  BY DEF Init
<1>5. Struct
  BY <1>1, <1>2, <1>3, <1>4, FieldKeys DEF Init, Struct
<1>6. Members
  BY <1>1, <1>4, FieldKeys DEF Members, Holdable
<1>7. Progress
  BY DEF Init, Progress, SaysTaken
<1> QED BY <1>5, <1>6, <1>7 DEF MInv

-----------------------------------------------------------------------------
\* Every action but the first and the last deals with one field; it writes no
\* member but that of this field, and there a value that can be held.
Writes(f, member) ==
  \/ member = struct.member
  \/ \E v : /\ Holdable(f.kind, v)
            /\ member = [struct.member EXCEPT ![f.key] = v]

Handles(f, member, present) ==
  /\ at \in 1 .. Len(Fields) /\ f = Fields[at]
  /\ Writes(f, member)
  /\ struct' = [member |-> member, present |-> present]
  /\ present \subseteq OptionalKeys(Fields)
  /\ struct.present \ present \subseteq {f.key}
  /\ present \ struct.present \subseteq {f.key}
  /\ UNCHANGED <<payload, input>>

LEMMA WritesOne ==
  ASSUME Struct, Members, NEW f, NEW member, NEW present,
         Handles(f, member, present)
  PROVE  /\ struct'.member = [k \in Keys(Fields)' |-> struct'.member[k]]
         /\ Members'
         /\ \A n \in 1 .. at - 1 :
              /\ There(n)' <=> There(n)
              /\ \A m : SaidBy(n, m)' <=> SaidBy(n, m)
<1>1. /\ at \in 1 .. Len(Fields) /\ f = Fields[at]
      /\ Writes(f, member) /\ struct' = [member |-> member, present |-> present]
      /\ payload' = payload /\ input' = input
  BY DEF Handles
<1>2. IsFieldList(Fields) /\ Fields' = Fields /\ Keys(Fields)' = Keys(Fields)
  BY <1>1, FieldsShape DEF Struct, Fields
<1>3. struct.member = [k \in Keys(Fields) |-> struct.member[k]]
  BY DEF Struct
<1>4. f.key \in Keys(Fields)
  BY <1>1, <1>2, FieldKeys
<1>5. /\ member = [k \in Keys(Fields) |-> member[k]]
      /\ \A k \in Keys(Fields) \ {f.key} : member[k] = struct.member[k]
      /\ member[f.key] = struct.member[f.key] \/ Holdable(f.kind, member[f.key])
  BY <1>1, <1>3, <1>4 DEF Writes
<1>6. struct'.member = member /\ struct'.present = present
  BY <1>1
<1>7. \A n \in 1 .. Len(Fields) :
        /\ Fields[n].key \in Keys(Fields)
        /\ n # at => Fields[n].key # f.key
  BY <1>1, <1>2, FieldKeys
<1>8. Members'
  <2> SUFFICES ASSUME NEW n \in DOMAIN Fields
               PROVE  Holdable(Fields[n].kind, member[Fields[n].key])
    BY <1>2, <1>6 DEF Members
  <2>1. n \in 1 .. Len(Fields)
    BY <1>2, FieldKeys
  <2>2. Holdable(Fields[n].kind, struct.member[Fields[n].key])
    BY DEF Members
  <2>3. CASE n = at
    BY <1>1, <1>5, <2>2, <2>3
  <2>4. CASE n # at
    BY <1>5, <1>7, <2>1, <2>2, <2>4
  <2> QED BY <2>3, <2>4
<1>9. ASSUME NEW n \in 1 .. at - 1
      PROVE  /\ There(n)' <=> There(n)
             /\ \A m : SaidBy(n, m)' <=> SaidBy(n, m)
  <2>1. n \in 1 .. Len(Fields) /\ n # at
    BY <1>1, <1>2, FieldKeys
  <2>2. Fields[n].key \in present <=> Fields[n].key \in struct.present
    BY <1>7, <2>1 DEF Handles
  <2>3. There(n)' <=> There(n)
    BY <1>2, <1>6, <2>2 DEF There
  <2>4. member[Fields[n].key] = struct.member[Fields[n].key]
    BY <1>5, <1>7, <2>1
  <2> QED BY <1>1, <1>2, <1>6, <2>3, <2>4 DEF SaidBy
<1> QED BY <1>3, <1>5, <1>2, <1>6, <1>8, <1>9

\* After the field, SaysTaken holds of one field more.
LEMMA SaysOneMore ==
  ASSUME Struct, SaysTaken, at \in Nat, at' = at + 1,
         NEW p, p = at, NEW q, q = taken + 1,
         taken' \in Nat, taken' = taken \/ taken' = taken + 1,
         \A n \in 1 .. at - 1 : /\ There(n)' <=> There(n)
                                /\ \A m : SaidBy(n, m)' <=> SaidBy(n, m),
         taken' = taken => ~There(p)',
         taken' = taken + 1 => SaidBy(p, q)'
  PROVE  SaysTaken'
<1>1. taken \in Nat /\ at >= 1
  BY DEF Struct
<1>2. at' - 1 = p /\ 1 .. at' - 1 = (1 .. at - 1) \cup {p}
  BY <1>1
<1>3. ASSUME NEW n \in 1 .. at' - 1, There(n)'
      PROVE  \E m \in 1 .. taken' : SaidBy(n, m)'
  <2>1. CASE n \in 1 .. at - 1
    <3>1. PICK m \in 1 .. taken : SaidBy(n, m)
      BY <1>3, <2>1 DEF SaysTaken
    <3>2. SaidBy(n, m)'
      BY <2>1, <3>1
    <3>3. m \in 1 .. taken'
      BY <1>1, <3>1
    <3> QED BY <3>2, <3>3
  <2>2. CASE n = p
    <3>1. SaidBy(p, q)' /\ q \in 1 .. taken'
      BY <1>1, <1>3, <2>2
    <3> QED BY <2>2, <3>1
  <2> QED BY <1>2, <2>1, <2>2
<1>4. ASSUME NEW m \in 1 .. taken'
      PROVE  \E n \in 1 .. at' - 1 : SaidBy(n, m)'
  <2>1. CASE m \in 1 .. taken
    <3>1. PICK n \in 1 .. at - 1 : SaidBy(n, m)
      BY <2>1 DEF SaysTaken
    <3>2. SaidBy(n, m)'
      BY <3>1
    <3> QED BY <1>2, <3>1, <3>2
  <2>2. CASE m = q /\ taken' = taken + 1
    <3>1. p \in 1 .. at' - 1
      BY <1>2
    <3> QED BY <2>2, <3>1
  <2> QED BY <1>1, <2>1, <2>2
<1> QED BY <1>3, <1>4 DEF SaysTaken

-----------------------------------------------------------------------------
\* What the value of the next pair, or of a failed conversion, does to a member.
LEMMA FitsHoldable ==
  ASSUME Struct, NEW f, f.kind \in Kinds, KeyFits(f), Converts(f.kind, NextPair)
  PROVE  taken + 1 \in DOMAIN input.pairs /\ Holdable(f.kind, NextPair.value)
<1>1. taken + 1 \in DOMAIN input.pairs
  BY PairsShape DEF Struct, KeyFits
<1> QED BY <1>1, ConvertedHoldable DEF Struct, NextPair

LEMMA AfterFailureWrites ==
  ASSUME Struct, NEW f, f.kind \in Kinds
  PROVE  Writes(f, AfterFailure(f))
<1>1. CASE ~KeyFits(f)
  BY <1>1 DEF Writes, AfterFailure
<1>2. CASE KeyFits(f) /\ Converts(f.kind, NextPair)
  <2>1. Holdable(f.kind, NextPair.value)
    BY <1>2, FitsHoldable
  <2>2. AfterFailure(f) = [struct.member EXCEPT ![f.key] = NextPair.value]
    BY <1>2 DEF AfterFailure
  <2> QED BY <2>1, <2>2 DEF Writes
<1>3. CASE KeyFits(f) /\ ~Converts(f.kind, NextPair)
  <2>1. AfterFailure(f) = [struct.member EXCEPT ![f.key] = Leftover]
    BY <1>3 DEF AfterFailure
  <2> QED BY <2>1 DEF Writes, Holdable
<1> QED BY <1>1, <1>2, <1>3

LEMMA FitsWrites ==
  ASSUME Struct, NEW f, f.kind \in Kinds, Fits(f)
  PROVE  Writes(f, [struct.member EXCEPT ![f.key] = NextPair.value])
<1>1. Holdable(f.kind, NextPair.value)
  BY FitsHoldable DEF Fits, Decodes
<1> QED BY <1>1 DEF Writes

\* The field whose turn it is.
LEMMA TheField ==
  ASSUME Struct, NEW f, Turn(f)
  PROVE  /\ at \in 1 .. Len(Fields) /\ f = Fields[at] /\ f.kind \in Kinds
         /\ f.key \in Keys(Fields) /\ f.optional \in BOOLEAN
         /\ f.optional <=> f.key \in OptionalKeys(Fields)
         /\ at \in Nat /\ Len(Fields) \in Nat /\ ret = "busy"
<1>1. IsFieldList(Fields)
  BY FieldsShape DEF Struct
<1>2. at \in DOMAIN Fields /\ f = Fields[at] /\ ret = "busy"
  BY DEF Turn
<1> QED BY <1>1, <1>2, FieldKeys

\* The pair is taken.
LEMMA TakeKeeps ==
  ASSUME MInv, NEW f, Turn(f), Fits(f), Take(f), NEW present,
         struct' = [member |-> [struct.member EXCEPT ![f.key] = NextPair.value],
                    present |-> present],
         present = struct.present \/ (f.optional /\ present = struct.present \cup {f.key}),
         f.optional => f.key \in present
  PROVE  MInv'
<1> DEFINE member == [struct.member EXCEPT ![f.key] = NextPair.value]
<1>1. Struct /\ Members /\ SaysTaken
  BY DEF MInv, Progress, Turn
<1>2. /\ at \in 1 .. Len(Fields) /\ f = Fields[at] /\ f.kind \in Kinds
      /\ f.key \in Keys(Fields) /\ f.optional \in BOOLEAN
      /\ f.optional <=> f.key \in OptionalKeys(Fields)
      /\ at \in Nat /\ Len(Fields) \in Nat /\ ret = "busy"
  BY <1>1, TheField
<1>3. /\ at' = at + 1 /\ taken' = taken + 1 /\ payload' = payload
      /\ input' = input /\ ret' = "busy"
  BY <1>2 DEF Take
<1>4. /\ taken < input.count /\ taken < Len(input.pairs)
      /\ NextPair.key = f.key
  BY DEF Fits, KeyFits
<1>5. Writes(f, member)
  BY <1>1, <1>2, FitsWrites
<1>6. Handles(f, member, present)
  BY <1>1, <1>2, <1>3, <1>5 DEF Handles, Struct
<1> HIDE DEF member
<1>7. /\ struct'.member = [k \in Keys(Fields)' |-> struct'.member[k]]
      /\ Members'
      /\ \A n \in 1 .. at - 1 : /\ There(n)' <=> There(n)
                                /\ \A m : SaidBy(n, m)' <=> SaidBy(n, m)
  BY <1>1, <1>6, WritesOne
<1>8. Fields' = Fields /\ OptionalKeys(Fields)' = OptionalKeys(Fields)
  BY <1>3 DEF Fields
<1>9. taken \in Nat /\ Len(input.pairs) \in Nat /\ input.count \in Nat
  BY <1>1, PairsShape DEF Struct
<1>10. Struct'
  <2>1. struct' = [member |-> struct'.member, present |-> struct'.present]
        /\ struct'.present \subseteq OptionalKeys(Fields)'
    BY <1>6, <1>8 DEF Handles
  <2>2. at' \in 1 .. Len(Fields') + 1
    BY <1>2, <1>3, <1>8
  <2>3. taken' \in 0 .. Len(input.pairs') /\ taken' <= input.count'
    BY <1>3, <1>4, <1>9
  <2> QED BY <1>1, <1>3, <1>7, <2>1, <2>2, <2>3 DEF Struct
<1> SUFFICES ASSUME NEW p, p = at, NEW q, q = taken + 1
             PROVE  MInv'
  OBVIOUS
<1>11. SaidBy(p, q)'
  <2>1. member[f.key] = NextPair.value
    BY <1>1, <1>2 DEF member, Struct
  <2>2. struct'.member = member /\ struct'.present = present
    BY <1>6 DEF Handles
  <2> QED BY <1>2, <1>3, <1>4, <1>8, <2>1, <2>2 DEF SaidBy, There, NextPair
<1>12. SaysTaken'
  BY <1>1, <1>2, <1>3, <1>7, <1>9, <1>11, SaysOneMore
<1> QED BY <1>3, <1>7, <1>10, <1>12 DEF MInv, Progress

LEMMA CallKeeps ==
  ASSUME MInv, Call
  PROVE  MInv'
<1>1. /\ ret = "none" /\ ret' = "busy" /\ input' \in Inputs(payload)
      /\ UNCHANGED <<payload, at, taken, struct>>
  BY DEF Call
<1>2. Struct /\ Members /\ at = 1 /\ taken = 0
  BY <1>1 DEF MInv, Progress
<1>3. IsPairs(input'.pairs) /\ input'.count \in Nat
  BY <1>1, <1>2, MapAssumption DEF Struct
<1>4. Fields' = Fields
  BY <1>1 DEF Fields
<1>5. taken' \in 0 .. Len(input.pairs') /\ taken' <= input.count'
  BY <1>1, <1>2, <1>3, PairsShape
<1>6. Struct' /\ Members'
  BY <1>1, <1>2, <1>3, <1>4, <1>5 DEF Struct, Members
<1>7. SaysTaken'
  BY <1>1, <1>2 DEF SaysTaken
<1> QED BY <1>1, <1>6, <1>7 DEF MInv, Progress

LEMMA DecodeRequiredKeeps ==
  ASSUME MInv, DecodeRequired
  PROVE  MInv'
<1>1. PICK f : /\ Turn(f) /\ ~f.optional /\ Fits(f)
               /\ struct' = [struct EXCEPT !.member[f.key] = NextPair.value]
               /\ Take(f)
  BY DEF DecodeRequired
<1>2. struct' = [member |-> [struct.member EXCEPT ![f.key] = NextPair.value],
                 present |-> struct.present]
  BY <1>1 DEF MInv, Struct
<1> QED BY <1>1, <1>2, TakeKeeps

LEMMA DecodeOptionalKeeps ==
  ASSUME MInv, DecodeOptional
  PROVE  MInv'
<1>1. PICK f : /\ Turn(f) /\ f.optional /\ Fits(f)
               /\ struct' = [struct EXCEPT !.member[f.key] = NextPair.value,
                                           !.present = @ \cup {f.key}]
               /\ Take(f)
  BY DEF DecodeOptional
<1>2. struct' = [member |-> [struct.member EXCEPT ![f.key] = NextPair.value],
                 present |-> struct.present \cup {f.key}]
  BY <1>1 DEF MInv, Struct
<1> QED BY <1>1, <1>2, TakeKeeps

LEMMA FailRequiredKeeps ==
  ASSUME MInv, FailRequired
  PROVE  MInv'
<1>1. PICK f : /\ Turn(f)
               /\ struct' = [struct EXCEPT !.member = AfterFailure(f)]
               /\ ret' = "error" /\ UNCHANGED <<payload, input, at, taken>>
  BY DEF FailRequired
<1>2. Struct /\ Members
  BY DEF MInv
<1>3. at \in 1 .. Len(Fields) /\ f = Fields[at] /\ f.kind \in Kinds
  BY <1>1, <1>2, TheField
<1>4. struct' = [member |-> AfterFailure(f), present |-> struct.present]
  BY <1>1, <1>2 DEF Struct
<1>5. Handles(f, AfterFailure(f), struct.present)
  BY <1>1, <1>2, <1>3, <1>4, AfterFailureWrites DEF Handles, Struct
<1>6. Members' /\ struct'.member = [k \in Keys(Fields)' |-> struct'.member[k]]
  BY <1>2, <1>5, WritesOne
<1>7. Fields' = Fields
  BY <1>1 DEF Fields
<1>8. Struct'
  BY <1>1, <1>2, <1>4, <1>6, <1>7 DEF Struct
<1> QED BY <1>1, <1>6, <1>8 DEF MInv, Progress

LEMMA SkipOptionalKeeps ==
  ASSUME MInv, SkipOptional
  PROVE  MInv'
<1>1. PICK f : /\ Turn(f) /\ f.optional
               /\ struct' = [member |-> AfterFailure(f),
                             present |-> struct.present \ {f.key}]
               /\ at' = at + 1 /\ UNCHANGED <<payload, input, taken, ret>>
  BY DEF SkipOptional
<1>2. Struct /\ Members /\ SaysTaken
  BY <1>1 DEF MInv, Progress, Turn
<1>3. /\ at \in 1 .. Len(Fields) /\ f = Fields[at] /\ f.kind \in Kinds
      /\ at \in Nat /\ Len(Fields) \in Nat /\ ret = "busy"
  BY <1>1, <1>2, TheField
<1>4. Handles(f, AfterFailure(f), struct.present \ {f.key})
  BY <1>1, <1>2, <1>3, AfterFailureWrites DEF Handles, Struct
<1>5. /\ struct'.member = [k \in Keys(Fields)' |-> struct'.member[k]]
      /\ Members'
      /\ \A n \in 1 .. at - 1 : /\ There(n)' <=> There(n)
                                /\ \A m : SaidBy(n, m)' <=> SaidBy(n, m)
  BY <1>2, <1>4, WritesOne
<1>6. Fields' = Fields
  BY <1>1 DEF Fields
<1>7. Struct'
  <2>1. at' \in 1 .. Len(Fields') + 1
    BY <1>1, <1>3, <1>6
  <2>2. struct' = [member |-> struct'.member, present |-> struct'.present]
        /\ struct'.present \subseteq OptionalKeys(Fields)'
    BY <1>1, <1>2, <1>6 DEF Struct
  <2> QED BY <1>1, <1>2, <1>5, <1>6, <2>1, <2>2 DEF Struct
<1> SUFFICES ASSUME NEW p, p = at, NEW q, q = taken + 1
             PROVE  MInv'
  OBVIOUS
<1>8. ~There(p)'
  BY <1>1, <1>3, <1>6 DEF There
<1>9. taken \in Nat /\ taken' = taken /\ taken' # taken + 1
  BY <1>1, <1>2, PairsShape DEF Struct
<1>10. SaysTaken'
  BY <1>1, <1>2, <1>3, <1>5, <1>8, <1>9, SaysOneMore
<1> QED BY <1>1, <1>3, <1>5, <1>7, <1>10 DEF MInv, Progress

LEMMA EndMapKeeps ==
  ASSUME MInv, EndMap
  PROVE  MInv'
<1>1. /\ ret = "busy" /\ at \notin DOMAIN Fields
      /\ ret' = IF taken = input.count THEN "success" ELSE "error"
      /\ UNCHANGED <<payload, input, at, taken, struct>>
  BY DEF EndMap
<1>2. Struct /\ Members /\ SaysTaken
  BY <1>1 DEF MInv, Progress
<1>3. at = Len(Fields) + 1
  BY <1>1, <1>2, FieldsShape, FieldKeys DEF Struct
<1>4. Fields' = Fields
  BY <1>1 DEF Fields
<1>5. Struct' /\ Members'
  BY <1>1, <1>2, <1>4 DEF Struct, Members
<1>6. SaysTaken'
  BY <1>1, <1>2, <1>4 DEF SaysTaken, SaidBy, There
<1> QED BY <1>1, <1>3, <1>4, <1>5, <1>6 DEF MInv, Progress

LEMMA NextMInv ==
  ASSUME MInv, [Next]_vars
  PROVE  MInv'
<1>1. CASE Next
  BY <1>1, CallKeeps, DecodeRequiredKeeps, FailRequiredKeeps,
     DecodeOptionalKeeps, SkipOptionalKeeps, EndMapKeeps DEF Next
<1>2. CASE UNCHANGED vars
  <2>1. Fields' = Fields
    BY <1>2 DEF vars, Fields
  <2> QED BY <1>2, <2>1
          DEF vars, MInv, Struct, Members, Progress, SaysTaken, SaidBy, There
<1> QED BY <1>1, <1>2

\* The inductive invariant holds in every state of every call.
THEOREM MapInvariance == Spec => []MInv
BY InitMInv, NextMInv, PTL DEF Spec

-----------------------------------------------------------------------------
\* Type correctness of the generated decoders: whatever map arrives, a member
\* of the caller's struct holds a value of its C type, a _present flag belongs
\* to an optional member, and no pair behind the map is taken.
THEOREM MapTypeCorrect == Spec => []TypeOK
<1>1. MInv => TypeOK
  <2> SUFFICES ASSUME MInv PROVE TypeOK
    OBVIOUS
  <2>1. \A n \in DOMAIN Fields :
          \/ struct.member[Fields[n].key] = Leftover
          \/ InRange(CType(Fields[n].kind), struct.member[Fields[n].key])
    BY DEF MInv, Members, Holdable
  <2> QED BY <2>1 DEF MInv, Struct, TypeOK
<1> QED BY <1>1, MapInvariance, PTL

\* After a success of a generated decoder the caller's struct says exactly what
\* the pairs say that payload_len_out counts, whatever it held before: for every
\* list of fields with distinct keys, and every map.
THEOREM SaysWhatTheMapSays == Spec => []StructSaysMap
<1>1. MInv => StructSaysMap
  <2> SUFFICES ASSUME MInv, ret = "success" PROVE StructSaysMap
    BY DEF StructSaysMap
  <2> DEFINE map == SubSeq(input.pairs, 1, taken)
  <2>1. Struct /\ SaysTaken /\ at - 1 = Len(Fields)
    BY FieldsShape, FieldKeys DEF MInv, Progress, Struct
  <2>2. IsFieldList(Fields) /\ IsPairs(input.pairs)
    BY <2>1, FieldsShape DEF Struct
  <2>3. DOMAIN map = 1 .. taken /\ \A m \in 1 .. taken : map[m] = input.pairs[m]
    <3>1. taken \in 0 .. Len(input.pairs)
      BY <2>1 DEF Struct
    <3>2. /\ input.pairs \in Seq({input.pairs[n] : n \in DOMAIN input.pairs})
          /\ Len(input.pairs) \in Nat
      BY <2>2, PairsShape
    <3> DEFINE S == {input.pairs[n] : n \in DOMAIN input.pairs}
    <3> HIDE DEF S
    <3>3. /\ map \in Seq(S)
          /\ Len(map) = IF 1 <= taken THEN taken - 1 + 1 ELSE 0
          /\ \A m \in 1 .. taken - 1 + 1 : map[m] = input.pairs[1 + m - 1]
      <4>1. input.pairs \in Seq(S) /\ 1 \in 1 .. Len(input.pairs) + 1
        BY <3>2 DEF S
      <4> QED BY <3>1, <4>1, SubSeqProperties
    <3> HIDE DEF map
    <3>4. /\ taken \in Nat /\ taken - 1 + 1 = taken
          /\ \A m \in 1 .. taken : 1 + m - 1 = m
      BY <3>1, <3>2
    <3>5. DOMAIN map = 1 .. Len(map) /\ Len(map) = taken
      BY <3>3, <3>4
    <3> QED BY <3>3, <3>4, <3>5
  <2> HIDE DEF map
  <2>4. \A n \in 1 .. Len(Fields) : There(n) => \E m \in 1 .. taken : SaidBy(n, m)
    BY <2>1 DEF SaysTaken
  <2>5. \A m \in 1 .. taken : \E n \in 1 .. Len(Fields) : SaidBy(n, m)
    BY <2>1 DEF SaysTaken
  <2>6. \A m \in DOMAIN map : struct.member[map[m].key] = map[m].value
    BY <2>3, <2>5 DEF SaidBy
  <2>7. ASSUME NEW k \in Keys(Fields) \ (OptionalKeys(Fields) \ struct.present)
        PROVE  k \in MapKeys(map)
    <3>1. PICK n \in 1 .. Len(Fields) : k = Fields[n].key
      BY <2>2, FieldKeys DEF Keys
    <3>2. There(n)
      BY <2>2, <3>1, FieldKeys DEF There
    <3> QED BY <2>3, <2>4, <3>1, <3>2 DEF MapKeys, SaidBy
  <2>8. ASSUME NEW k \in MapKeys(map)
        PROVE  k \in Keys(Fields) \ (OptionalKeys(Fields) \ struct.present)
    <3>1. PICK m \in 1 .. taken : k = input.pairs[m].key
      BY <2>3 DEF MapKeys
    <3>2. PICK n \in 1 .. Len(Fields) : There(n) /\ k = Fields[n].key
      BY <2>5, <3>1 DEF SaidBy
    <3> QED BY <2>2, <3>2, FieldKeys DEF There
  <2> QED BY <2>6, <2>7, <2>8 DEF StructSaysMap, map
<1> QED BY <1>1, MapInvariance, PTL

-----------------------------------------------------------------------------
(***************************************************************************)
(* The call and Decoded go through the fields together.                    *)
(***************************************************************************)
Whole == input.count <= Len(input.pairs)

\* The decoder of Decoded is where the call is.
Beside(h) ==
  /\ ret \in {"busy", "success"} => h[at - 1].ok /\ h[at - 1].rest = Rest(Map, taken)
  /\ ret = "error" => ~(h[Len(Fields)].ok /\ h[Len(Fields)].rest = <<>>)

InStep ==
  ret # "none" /\ Whole => \A h : Decoding(h, Fields, Map) => Beside(h)

LEMMA MapIsPairs ==
  ASSUME Struct, Whole
  PROVE  /\ Map \in Seq({input.pairs[n] : n \in DOMAIN input.pairs})
         /\ Len(Map) = input.count /\ input.count \in Nat
         /\ \A m \in 1 .. input.count : Map[m] = input.pairs[m]
         /\ ArePairs(Map)
<1> DEFINE S == {input.pairs[n] : n \in DOMAIN input.pairs}
           count == input.count
<1>1. /\ input.pairs \in Seq(S) /\ Len(input.pairs) \in Nat /\ count \in Nat
      /\ DOMAIN input.pairs = 1 .. Len(input.pairs) /\ count <= Len(input.pairs)
  BY PairsShape DEF Struct, Whole
<1>2. \A m \in 1 .. count : IsPair(input.pairs[m])
  BY <1>1 DEF Struct, IsPairs
<1> HIDE DEF S
<1>3. /\ Map \in Seq(S)
      /\ Len(Map) = IF 1 <= count THEN count - 1 + 1 ELSE 0
      /\ \A m \in 1 .. count - 1 + 1 : Map[m] = input.pairs[1 + m - 1]
  <2>1. 1 \in 1 .. Len(input.pairs) + 1 /\ count \in 0 .. Len(input.pairs)
        /\ count \in 1 - 1 .. Len(input.pairs)
    BY <1>1
  <2> QED BY <1>1, <2>1, SubSeqProperties DEF Map
<1>4. /\ count - 1 + 1 = count /\ (IF 1 <= count THEN count - 1 + 1 ELSE 0) = count
      /\ \A m \in 1 .. count : 1 + m - 1 = m
  BY <1>1
<1>5. Len(Map) = count /\ \A m \in 1 .. count : Map[m] = input.pairs[m]
  BY <1>3, <1>4
<1>6. ArePairs(Map)
  BY <1>2, <1>5 DEF ArePairs
<1> QED BY <1>1, <1>3, <1>5, <1>6 DEF S

LEMMA FieldsInStep ==
  ASSUME Struct, Whole, NEW f, Turn(f), NEW h, Decoding(h, Fields, Map), Beside(h)
  PROVE  /\ at \in 1 .. Len(Fields) /\ f.optional \in BOOLEAN
         /\ Fits(f) => h[at].ok /\ h[at].rest = Rest(Map, taken + 1)
         /\ ~Fits(f) => /\ h[at].ok <=> f.optional
                        /\ h[at].rest = Rest(Map, taken)
<1> DEFINE S == {input.pairs[n] : n \in DOMAIN input.pairs}
<1>1. /\ Map \in Seq(S) /\ Len(Map) = input.count /\ input.count \in Nat
      /\ \A m \in 1 .. input.count : Map[m] = input.pairs[m]
  BY MapIsPairs
<1> HIDE DEF S
<1>2. /\ at \in 1 .. Len(Fields) /\ f = Fields[at] /\ f.optional \in BOOLEAN
      /\ at \in Nat /\ Len(Fields) \in Nat /\ ret = "busy"
  BY TheField
<1>3. /\ taken \in Nat /\ taken <= input.count /\ input.count <= Len(input.pairs)
      /\ Len(input.pairs) \in Nat
  BY PairsShape DEF Struct, Whole
<1>4. Fits(f) <=> Takes(f, Map, taken)
  <2>1. taken < input.count <=> taken # Len(Map)
    BY <1>1, <1>3
  <2>2. taken < input.count =>
          taken < Len(input.pairs) /\ Map[taken + 1] = NextPair
    BY <1>1, <1>3 DEF NextPair
  <2> QED BY <2>1, <2>2 DEF Fits, KeyFits, Takes
<1> DEFINE n == at - 1
<1>5. n \in 0 .. Len(Fields) - 1 /\ n \in 0 .. Len(Fields) /\ n + 1 = at
  BY <1>2
<1> HIDE DEF n
<1>6. IsFieldList(Fields)
  BY FieldsShape DEF Struct
<1>7. h[at] = DecodeField(h[n], f) /\ IsState(h[n])
  BY <1>2, <1>5, <1>6, StatesAreStates DEF Decoding
<1>8. h[n].ok /\ h[n].rest = Rest(Map, taken)
  BY <1>2 DEF Beside, n
<1>9. taken \in 0 .. Len(Map)
  BY <1>1, <1>3
<1>10. /\ Takes(f, Map, taken) => h[at].ok /\ h[at].rest = Rest(Map, taken + 1)
       /\ ~Takes(f, Map, taken) => /\ h[at].ok <=> f.optional
                                   /\ h[at].rest = h[n].rest
  BY <1>1, <1>2, <1>7, <1>8, <1>9, FieldStep
<1> QED BY <1>2, <1>4, <1>8, <1>10

\* An action that handles a field keeps in step: input and fields stay.
LEMMA StepInStep ==
  ASSUME MInv, InStep, ret = "busy", UNCHANGED <<payload, input>>,
         \A h : Decoding(h, Fields, Map) /\ Whole /\ Beside(h) => Beside(h)'
  PROVE  InStep'
<1>1. Fields' = Fields /\ Map' = Map /\ (Whole' <=> Whole)
  BY DEF Fields, Map, Whole
<1> QED BY <1>1 DEF InStep

LEMMA NextInStep ==
  ASSUME MInv, MInv', InStep, [Next]_vars
  PROVE  InStep'
<1> USE DEF MInv
<1>1. CASE Call
  <2> SUFFICES ASSUME Whole', NEW h, Decoding(h, Fields', Map')
               PROVE  Beside(h)'
    BY DEF InStep
  <2>1. /\ ret' = "busy" /\ at' = 1 /\ taken' = 0
    BY <1>1 DEF Call, Progress
  <2>2. h[0].ok /\ h[0].rest = Map'
    BY DEF Decoding, Begin
  <2>3. Rest(Map', 0) = Map'
    <3> DEFINE S == {input'.pairs[n] : n \in DOMAIN input'.pairs}
    <3>1. /\ input'.pairs \in Seq(S) /\ Len(input'.pairs) \in Nat
          /\ input'.count \in Nat /\ input'.count <= Len(input'.pairs)
      BY PairsShape DEF Struct, Whole
    <3> HIDE DEF S
    <3>2. Map' \in Seq(S)
      <4>1. 1 \in 1 .. Len(input'.pairs) + 1 /\ input'.count \in 0 .. Len(input'.pairs)
        BY <3>1
      <4> QED BY <3>1, <4>1, SubSeqProperties DEF Map
    <3> QED BY <3>2, SubSeqFull DEF Rest
  <2> QED BY <2>1, <2>2, <2>3 DEF Beside
<1>2. ASSUME NEW f, Turn(f), Fits(f), Take(f)
      PROVE  InStep'
  <2>1. /\ at' = at + 1 /\ taken' = taken + 1 /\ payload' = payload
        /\ input' = input /\ ret' = ret /\ ret = "busy"
    BY <1>2 DEF Take, Turn
  <2>2. ASSUME NEW h, Decoding(h, Fields, Map), Whole, Beside(h) PROVE Beside(h)'
    <3>1. /\ h[at].ok /\ h[at].rest = Rest(Map, taken + 1)
          /\ at \in 1 .. Len(Fields)
      BY <1>2, <2>2, FieldsInStep
    <3>2. Map' = Map /\ at' - 1 = at
      BY <2>1, <3>1 DEF Map
    <3> QED BY <2>1, <3>1, <3>2 DEF Beside
  <2> QED BY <2>1, <2>2, StepInStep
<1>3. CASE DecodeRequired
  BY <1>2, <1>3 DEF DecodeRequired
<1>4. CASE DecodeOptional
  BY <1>2, <1>4 DEF DecodeOptional
<1>5. CASE FailRequired
  <2>1. PICK f : /\ Turn(f) /\ ~f.optional /\ ~Fits(f)
                 /\ ret' = "error" /\ UNCHANGED <<payload, input, at, taken>>
    BY <1>5 DEF FailRequired
  <2>2. ASSUME NEW h, Decoding(h, Fields, Map), Whole, Beside(h) PROVE Beside(h)'
    <3>1. ~h[at].ok /\ at \in 1 .. Len(Fields)
      BY <2>1, <2>2, FieldsInStep
    <3>2. ~h[Len(Fields)].ok
      <4>1. IsFieldList(Fields) /\ at \in 0 .. Len(Fields)
        BY <3>1, FieldsShape, FieldKeys DEF Struct
      <4> QED BY <2>2, <3>1, <4>1, FailedForGood
    <3>3. Fields' = Fields
      BY <2>1 DEF Fields
    <3> QED BY <2>1, <3>2, <3>3 DEF Beside
  <2> QED BY <2>1, <2>2, StepInStep DEF Turn
<1>6. CASE SkipOptional
  <2>1. PICK f : /\ Turn(f) /\ f.optional /\ ~Fits(f) /\ at' = at + 1
                 /\ UNCHANGED <<payload, input, taken, ret>>
    BY <1>6 DEF SkipOptional
  <2>2. ASSUME NEW h, Decoding(h, Fields, Map), Whole, Beside(h) PROVE Beside(h)'
    <3>1. /\ h[at].ok /\ h[at].rest = Rest(Map, taken)
          /\ at \in 1 .. Len(Fields)
      BY <2>1, <2>2, FieldsInStep
    <3>2. Map' = Map /\ at' - 1 = at
      BY <2>1, <3>1 DEF Map
    <3> QED BY <2>1, <3>1, <3>2 DEF Beside, Turn
  <2> QED BY <2>1, <2>2, StepInStep DEF Turn
<1>7. CASE EndMap
  <2>1. /\ ret = "busy" /\ at \notin DOMAIN Fields
        /\ ret' = IF taken = input.count THEN "success" ELSE "error"
        /\ UNCHANGED <<payload, input, at, taken, struct>>
    BY <1>7 DEF EndMap
  <2>2. at - 1 = Len(Fields)
    BY <2>1, FieldsShape, FieldKeys DEF Struct
  <2>3. ASSUME NEW h, Decoding(h, Fields, Map), Whole, Beside(h) PROVE Beside(h)'
    <3> DEFINE S == {input.pairs[n] : n \in DOMAIN input.pairs}
    <3>1. Map \in Seq(S) /\ Len(Map) = input.count /\ input.count \in Nat
      BY <2>3, MapIsPairs
    <3> HIDE DEF S
    <3>2. h[at - 1].ok /\ h[at - 1].rest = Rest(Map, taken)
      BY <2>1, <2>3 DEF Beside
    <3>3. taken \in 0 .. Len(Map)
      BY <2>1, <3>1, PairsShape DEF Struct
    <3>4. h[at - 1].rest = <<>> <=> taken = input.count
      BY <3>1, <3>2, <3>3, RestProperties
    <3>5. Fields' = Fields /\ Map' = Map
      BY <2>1 DEF Fields, Map
    <3> QED BY <2>1, <2>2, <3>2, <3>4, <3>5 DEF Beside
  <2> QED BY <2>1, <2>3, StepInStep
<1>8. CASE UNCHANGED vars
  <2>1. Fields' = Fields /\ Map' = Map /\ (Whole' <=> Whole)
    BY <1>8 DEF vars, Fields, Map, Whole
  <2> QED BY <1>8, <2>1 DEF vars, InStep, Beside
<1> QED BY <1>1, <1>3, <1>4, <1>5, <1>6, <1>7, <1>8 DEF Next

LEMMA StaysInStep == Spec => []InStep
<1>1. Init => InStep
  BY DEF Init, InStep
<1> QED BY <1>1, NextInStep, MapInvariance, PTL DEF Spec

-----------------------------------------------------------------------------
\* When the call returns, its answer is that of Decoded.
LEMMA Answers ==
  ASSUME MInv, InStep, Returned, Whole
  PROVE  ret = "success" <=> Decoded(Fields, Map).ok
<1> DEFINE N == Len(Fields)
<1>1. Struct /\ IsFieldList(Fields)
  BY FieldsShape DEF MInv, Struct
<1>2. PICK h : /\ Decoding(h, Fields, Map)
               /\ Decoded(Fields, Map) =
                    [ok |-> h[N].ok /\ h[N].rest = <<>>, struct |-> h[N].struct]
  BY <1>1, DecodedByStates
<1>3. Beside(h)
  BY <1>2 DEF InStep, Returned
<1>4. Decoded(Fields, Map).ok <=> (h[N].ok /\ h[N].rest = <<>>)
  <2> DEFINE ok == h[N].ok /\ h[N].rest = <<>>
             s == h[N].struct
  <2>1. Decoded(Fields, Map) = [ok |-> ok, struct |-> s]
    BY <1>2
  <2> HIDE DEF ok, s
  <2>2. Decoded(Fields, Map).ok = ok
    BY <2>1
  <2> QED BY <2>2 DEF ok
<1>5. CASE ret = "success"
  <2> DEFINE S == {input.pairs[n] : n \in DOMAIN input.pairs}
  <2>1. Map \in Seq(S) /\ Len(Map) = input.count /\ input.count \in Nat
    BY <1>1, MapIsPairs
  <2> HIDE DEF S
  <2>2. at - 1 = N /\ taken = Len(Map) /\ N \in Nat
    BY <1>1, <1>5, <2>1, FieldKeys DEF MInv, Progress
  <2>3. h[N].ok /\ h[N].rest = Rest(Map, taken)
    BY <1>3, <1>5, <2>2 DEF Beside
  <2>4. Len(Map) \in 0 .. Len(Map)
    BY <2>1
  <2>5. Rest(Map, Len(Map)) = <<>>
    BY <2>1, <2>4, RestProperties
  <2> QED BY <1>4, <1>5, <2>2, <2>3, <2>5
<1>6. CASE ret = "error"
  BY <1>3, <1>4, <1>6 DEF Beside
<1> QED BY <1>5, <1>6 DEF Returned

\* After a success the struct says what the map says.
LEMMA MapSaid ==
  ASSUME MInv, ret = "success", Whole
  PROVE  \A m \in 1 .. Len(Map) : struct.member[Map[m].key] = Map[m].value
<1>1. Struct /\ SaysTaken /\ taken = input.count
  BY DEF MInv, Progress
<1>2. /\ Len(Map) = input.count
      /\ \A m \in 1 .. input.count : Map[m] = input.pairs[m]
  BY <1>1, MapIsPairs
<1> SUFFICES ASSUME NEW m \in 1 .. Len(Map)
             PROVE  struct.member[Map[m].key] = Map[m].value
  OBVIOUS
<1>3. m \in 1 .. taken /\ Map[m] = input.pairs[m]
  BY <1>1, <1>2
<1>4. PICK n \in 1 .. at - 1 : SaidBy(n, m)
  BY <1>1, <1>3 DEF SaysTaken
<1>5. /\ input.pairs[m].key = Fields[n].key
      /\ struct.member[Fields[n].key] = input.pairs[m].value
  BY <1>4 DEF SaidBy
<1> QED BY <1>3, <1>5

\* The functions generated for a payload, called on a map that is all there,
\* give the answer that Decoded computes from the fields at once, and fill the
\* struct with the same values.
THEOREM AnswersAsDecoded == Spec => []AnswerIsDecoded
<1>1. MInv /\ InStep => AnswerIsDecoded
  <2> SUFFICES ASSUME MInv, InStep, Returned, Whole
               PROVE  LET answer == Decoded(Fields, Map)
                      IN  /\ ret = "success" <=> answer.ok
                          /\ \A k \in DOMAIN answer.struct :
                               ret = "success" => struct.member[k] = answer.struct[k]
    BY DEF AnswerIsDecoded, Whole
  <2> DEFINE answer == Decoded(Fields, Map)
             S == {input.pairs[n] : n \in DOMAIN input.pairs}
  <2>1. ret = "success" <=> answer.ok
    BY Answers
  <2>2. ASSUME ret = "success", NEW k \in DOMAIN answer.struct
        PROVE  struct.member[k] = answer.struct[k]
    <3>1. IsFieldList(Fields) /\ Map \in Seq(S)
      BY FieldsShape, MapIsPairs DEF MInv, Struct
    <3> HIDE DEF S
    <3>2. Says(answer.struct, Fields, Map, Len(Fields), Len(Map))
      BY <2>1, <2>2, <3>1, DecodedIsLaid
    <3> HIDE DEF answer
    <3>3. PICK m \in 1 .. Len(Map) : k = Map[m].key
      BY <2>2, <3>2 DEF Says
    <3>4. answer.struct[k] = Map[m].value
      BY <3>2, <3>3 DEF Says
    <3> QED BY <2>2, <3>3, <3>4, MapSaid
  <2> QED BY <2>1, <2>2
<1> QED BY <1>1, MapInvariance, StaysInStep, PTL

-----------------------------------------------------------------------------
\* The members that the pairs of a decoded map name have the values of these.
LEMMA NamedSays ==
  ASSUME NEW fields, IsFieldList(fields), NEW X, NEW map \in Seq(X),
         NEW s, Says(s, fields, map, Len(fields), Len(map))
  PROVE  Says(NamedBy(map), fields, map, Len(fields), Len(map))
<1> DEFINE named == NamedBy(map)
           Of(k) == CHOOSE n \in DOMAIN map : map[n].key = k
<1>1. DOMAIN map = 1 .. Len(map)
  OBVIOUS
<1>2. DOMAIN named = {map[m].key : m \in 1 .. Len(map)}
  BY <1>1 DEF NamedBy, MapKeys
<1>3. ASSUME NEW m \in 1 .. Len(map)
      PROVE  named[map[m].key] = map[m].value
  <2> DEFINE k == map[m].key
  <2>1. Of(k) \in DOMAIN map /\ map[Of(k)].key = k
    BY <1>1
  <2>2. named[k] = map[Of(k)].value
    BY <1>1 DEF NamedBy, MapKeys
  <2> HIDE DEF Of, named
  <2>3. s[k] = map[m].value /\ s[k] = map[Of(k)].value
    BY <1>1, <2>1 DEF Says
  <2> QED BY <2>2, <2>3
<1> HIDE DEF named
<1> QED BY <1>2, <1>3 DEF Says, named

\* If encoder and decoder were generated from the same lists of fields, each
\* generated decoder accepts exactly the maps that the encoder of the same
\* payload writes, however wide the floats: all of them, and nothing else.
THEOREM AcceptsOnlyEncodings ==
  ASSUME Written = Expected
  PROVE  Spec => []AcceptsWhatIsEncoded
<1>1. MInv /\ InStep => AcceptsWhatIsEncoded
  <2> SUFFICES ASSUME MInv, InStep, Returned
               PROVE  ret = "success" <=> Encodable
    BY DEF AcceptsWhatIsEncoded
  <2>1. Struct /\ IsFieldList(Fields)
    BY FieldsShape DEF MInv, Struct
  <2>2. CASE ~Whole
    <3>1. ~Encodable
      BY <2>2 DEF Encodable, Whole
    <3>2. ret # "success"
      <4>1. /\ taken <= Len(input.pairs) /\ input.count \in Nat
            /\ Len(input.pairs) \in Nat /\ taken \in Nat
        BY <2>1, PairsShape DEF Struct
      <4> QED BY <2>2, <4>1 DEF MInv, Progress, Whole
    <3> QED BY <3>1, <3>2
  <2>3. CASE Whole
    <3> DEFINE S == {input.pairs[n] : n \in DOMAIN input.pairs}
               named == NamedBy(Map)
    <3>1. Map \in Seq(S) /\ ArePairs(Map)
      BY <2>1, <2>3, MapIsPairs
    <3> HIDE DEF S
    <3>2. Encodable <=> InRanges(Fields, named) /\ Items(Fields, named) = Widened(Map)
      BY <2>3 DEF Encodable, Whole, Fields
    <3>3. ret = "success" <=> Decoded(Fields, Map).ok
      BY <2>3, Answers
    <3>4. Decoded(Fields, Map).ok => Says(named, Fields, Map, Len(Fields), Len(Map))
      BY <2>1, <3>1, DecodedIsLaid, NamedSays
    <3> HIDE DEF named
    <3> QED BY <2>1, <3>1, <3>2, <3>3, <3>4, AcceptsEncodings
  <2> QED BY <2>2, <2>3
<1> QED BY <1>1, MapInvariance, StaysInStep, PTL
=============================================================================
