------------------------------ MODULE Cbor_proofs ------------------------------
(***************************************************************************)
(* The codec of one list of fields: what Items writes, Decoded reads, and  *)
(* it reads nothing else.  For every list of fields in which no key occurs *)
(* twice, every struct and every sequence of pairs.                        *)
(***************************************************************************)
EXTENDS Cbor, DataLemmas

Begin(items) == [ok |-> TRUE, rest |-> items, struct |-> [k \in {} |-> 0]]

\* The states of the decoder, one for each number of fields that it has tried.
Decoding(h, fields, items) ==
  /\ DOMAIN h = 0 .. Len(fields)
  /\ h[0] = Begin(items)
  /\ \A n \in 0 .. Len(fields) - 1 : h[n + 1] = DecodeField(h[n], fields[n + 1])

\* The recursion behind FoldLeft, for the sets of the first n field numbers.
FoldStep(g, fields, items, t) ==
  IF t = {} THEN Begin(items)
  ELSE DecodeField(g[t \ {Max(t)}], fields[Max(t)])
Folds(g, fields, items, n) ==
  g = [t \in SUBSET (1 .. n) |-> FoldStep(g, fields, items, t)]

LEMMA MaxOfInterval ==
  ASSUME NEW n \in Nat, NEW t \in SUBSET (1 .. n + 1), n + 1 \in t
  PROVE  Max(t) = n + 1
<1> DEFINE Top(x) == x \in t /\ \A y \in t : x >= y
<1>1. Top(n + 1)
  OBVIOUS
<1>2. \A x : Top(x) => x = n + 1
  OBVIOUS
<1> QED BY <1>1, <1>2 DEF Max

LEMMA FoldExists ==
  ASSUME NEW fields, NEW items, NEW N \in Nat
  PROVE  \E g : Folds(g, fields, items, N)
<1> DEFINE T == {n \in Nat : \E g : Folds(g, fields, items, n)}
<1>1. 0 \in T
  <2> DEFINE g == [t \in SUBSET (1 .. 0) |-> Begin(items)]
  <2>1. \A t \in SUBSET (1 .. 0) : FoldStep(g, fields, items, t) = Begin(items)
    BY DEF FoldStep
  <2>2. Folds(g, fields, items, 0)
    BY <2>1 DEF Folds
  <2> QED BY <2>2
<1>2. ASSUME NEW n \in T PROVE n + 1 \in T
  <2>1. n \in Nat
    OBVIOUS
  <2>2. PICK g : Folds(g, fields, items, n)
    OBVIOUS
  <2> DEFINE S == SUBSET (1 .. n + 1)
             k == [t \in S |->
                     IF n + 1 \in t
                     THEN DecodeField(g[t \ {n + 1}], fields[n + 1])
                     ELSE g[t]]
  <2>3. \A t \in S : n + 1 \notin t => t \in SUBSET (1 .. n)
    BY <2>1
  <2>4. ASSUME NEW t \in S PROVE k[t] = FoldStep(k, fields, items, t)
    <3>1. CASE n + 1 \in t
      <4>1. Max(t) = n + 1 /\ t # {}
        BY <2>1, <3>1, MaxOfInterval
      <4>2. t \ {n + 1} \in S /\ k[t \ {n + 1}] = g[t \ {n + 1}]
        OBVIOUS
      <4>3. k[t] = DecodeField(g[t \ {n + 1}], fields[n + 1])
        BY <3>1
      <4> QED BY <4>1, <4>2, <4>3 DEF FoldStep
    <3>2. CASE n + 1 \notin t
      <4>1. t \in SUBSET (1 .. n) /\ k[t] = g[t]
        BY <2>3, <3>2
      <4>2. g[t] = FoldStep(g, fields, items, t)
        BY <2>2, <4>1 DEF Folds
      <4>3. t \ {Max(t)} \in S /\ n + 1 \notin t \ {Max(t)}
        BY <3>2
      <4>4. k[t \ {Max(t)}] = g[t \ {Max(t)}]
        BY <4>3
      <4> QED BY <4>1, <4>2, <4>4 DEF FoldStep
    <3> QED BY <3>1, <3>2
  <2>5. k = [t \in S |-> k[t]]
    OBVIOUS
  <2> HIDE DEF k
  <2>6. Folds(k, fields, items, n + 1)
    BY <2>4, <2>5 DEF Folds
  <2> QED BY <2>1, <2>6
<1> HIDE DEF T
<1>3. T \in SUBSET Nat
  BY DEF T
<1>4. T = Nat
  BY <1>1, <1>2, <1>3, SetInduction
<1> QED BY <1>4 DEF T

LEMMA FoldIsDecoding ==
  ASSUME NEW fields, DOMAIN fields = 1 .. Len(fields), Len(fields) \in Nat,
         NEW items
  PROVE  \E h : /\ Decoding(h, fields, items)
                /\ FoldLeft(DecodeField, Begin(items), fields) = h[Len(fields)]
<1> DEFINE N == Len(fields)
           g == CHOOSE f : Folds(f, fields, items, N)
           h == [n \in 0 .. N |-> g[1 .. n]]
<1>1. Folds(g, fields, items, N)
  BY FoldExists
<1>2. FoldLeft(DecodeField, Begin(items), fields) = g[1 .. N]
  BY DEF FoldLeft, MapThenFoldSet, Folds, FoldStep
<1> HIDE DEF g
<1>3. h[0] = Begin(items)
  <2>1. 1 .. 0 = {} /\ {} \in SUBSET (1 .. N)
    OBVIOUS
  <2>2. g[{}] = Begin(items)
    BY <1>1, <2>1 DEF Folds, FoldStep
  <2> QED BY <2>1, <2>2
<1>4. ASSUME NEW n \in 0 .. N - 1
      PROVE  h[n + 1] = DecodeField(h[n], fields[n + 1])
  <2>1. n \in Nat /\ n + 1 \in 0 .. N /\ n \in 0 .. N
    OBVIOUS
  <2> DEFINE t == 1 .. n + 1
  <2>2. t \in SUBSET (1 .. N) /\ t # {} /\ n + 1 \in t /\ t \in SUBSET (1 .. n + 1)
    BY <2>1
  <2>3. Max(t) = n + 1
    BY <2>1, <2>2, MaxOfInterval
  <2>4. t \ {n + 1} = 1 .. n
    BY <2>1
  <2>5. g[t] = FoldStep(g, fields, items, t)
    BY <1>1, <2>2 DEF Folds
  <2>6. g[t] = DecodeField(g[1 .. n], fields[n + 1])
    BY <2>2, <2>3, <2>4, <2>5 DEF FoldStep
  <2> QED BY <2>1, <2>6
<1>5. Decoding(h, fields, items)
  BY <1>3, <1>4 DEF Decoding
<1>6. h[N] = g[1 .. N]
  OBVIOUS
<1> QED BY <1>2, <1>5, <1>6

\* Decoded is the last state.
LEMMA DecodedByStates ==
  ASSUME NEW fields, IsFieldList(fields), NEW items
  PROVE  \E h : /\ Decoding(h, fields, items)
                /\ Decoded(fields, items) =
                     [ok |-> h[Len(fields)].ok /\ h[Len(fields)].rest = <<>>,
                      struct |-> h[Len(fields)].struct]
<1>1. DOMAIN fields = 1 .. Len(fields) /\ Len(fields) \in Nat
  BY DEF IsFieldList
<1>2. PICK h : /\ Decoding(h, fields, items)
               /\ FoldLeft(DecodeField, Begin(items), fields) = h[Len(fields)]
  BY <1>1, FoldIsDecoding
<1> QED BY <1>2 DEF Decoded, Begin

-----------------------------------------------------------------------------
(***************************************************************************)
(* One field.                                                              *)
(***************************************************************************)
LEMMA FieldShape ==
  ASSUME NEW fields, IsFieldList(fields)
  PROVE  /\ DOMAIN fields = 1 .. Len(fields) /\ Len(fields) \in Nat
         /\ \A n \in 1 .. Len(fields) :
              /\ fields[n].key \in Nat /\ fields[n].kind \in Kinds
              /\ fields[n].optional \in BOOLEAN
         /\ \A n, m \in 1 .. Len(fields) : fields[n].key = fields[m].key => n = m
<1> DEFINE Shape == [key : Nat, kind : Kinds, optional : BOOLEAN]
<1>1. fields \in Seq(Shape)
  BY DEF IsFieldList
<1>2. DOMAIN fields = 1 .. Len(fields) /\ Len(fields) \in Nat
  BY <1>1
<1>3. \A n \in 1 .. Len(fields) : fields[n] \in Shape
  <2> HIDE DEF Shape
  <2> QED BY <1>1, <1>2
<1>4. \A n, m \in 1 .. Len(fields) : fields[n].key = fields[m].key => n = m
  BY <1>2 DEF IsFieldList
<1> QED BY <1>2, <1>3, <1>4

NextFits(rest, f) ==
  rest # <<>> /\ Head(rest).key = f.key /\ Decodes(f.kind, Head(rest))

IsState(a) ==
  a = [ok |-> a.ok, rest |-> a.rest, struct |-> a.struct] /\ a.ok \in BOOLEAN

LEMMA FieldCases ==
  ASSUME NEW a, IsState(a), NEW f, f.optional \in BOOLEAN
  PROVE  /\ IsState(DecodeField(a, f))
         /\ ~a.ok => DecodeField(a, f) = a
         /\ a.ok /\ NextFits(a.rest, f) =>
              DecodeField(a, f) =
                [ok |-> TRUE, rest |-> Tail(a.rest),
                 struct |-> With(a.struct, f.key, Head(a.rest).value)]
         /\ a.ok /\ ~NextFits(a.rest, f) =>
              DecodeField(a, f) =
                [ok |-> f.optional, rest |-> a.rest, struct |-> a.struct]
<1>1. a = [ok |-> a.ok, rest |-> a.rest, struct |-> a.struct] /\ a.ok \in BOOLEAN
  BY DEF IsState
<1>2. ~a.ok => DecodeField(a, f) = a
  BY <1>1 DEF DecodeField
<1>3. a.ok /\ NextFits(a.rest, f) =>
        DecodeField(a, f) =
          [ok |-> TRUE, rest |-> Tail(a.rest),
           struct |-> With(a.struct, f.key, Head(a.rest).value)]
  <2> SUFFICES ASSUME a.ok, NextFits(a.rest, f)
               PROVE  DecodeField(a, f) =
                        [ok |-> TRUE, rest |-> Tail(a.rest),
                         struct |-> With(a.struct, f.key, Head(a.rest).value)]
    OBVIOUS
  <2>1. DecodeField(a, f) =
          [a EXCEPT !.rest = Tail(@), !.struct = With(@, f.key, Head(a.rest).value)]
    BY <1>1 DEF DecodeField, NextFits
  <2> QED BY <1>1, <2>1
<1>4. a.ok /\ ~NextFits(a.rest, f) =>
        DecodeField(a, f) =
          [ok |-> f.optional, rest |-> a.rest, struct |-> a.struct]
  <2> SUFFICES ASSUME a.ok, ~NextFits(a.rest, f)
               PROVE  DecodeField(a, f) =
                        [ok |-> f.optional, rest |-> a.rest, struct |-> a.struct]
    OBVIOUS
  <2>1. DecodeField(a, f) = [a EXCEPT !.ok = f.optional]
    BY <1>1 DEF DecodeField, NextFits
  <2> QED BY <1>1, <2>1
<1>5. IsState(DecodeField(a, f))
  <2>1. CASE ~a.ok
    BY <1>2, <2>1
  <2>2. CASE a.ok /\ NextFits(a.rest, f)
    <3> DEFINE r == Tail(a.rest)
               s == With(a.struct, f.key, Head(a.rest).value)
    <3>1. DecodeField(a, f) = [ok |-> TRUE, rest |-> r, struct |-> s]
      BY <1>3, <2>2
    <3> HIDE DEF r, s
    <3> QED BY <3>1 DEF IsState
  <2>3. CASE a.ok /\ ~NextFits(a.rest, f)
    <3>1. DecodeField(a, f) = [ok |-> f.optional, rest |-> a.rest, struct |-> a.struct]
      BY <1>4, <2>3
    <3> QED BY <3>1 DEF IsState
  <2> QED BY <1>1, <2>1, <2>2, <2>3
<1> QED BY <1>2, <1>3, <1>4, <1>5

\* What is left of the items when the first c are taken.
Rest(items, c) == SubSeq(items, c + 1, Len(items))

LEMMA RestProperties ==
  ASSUME NEW X, NEW items \in Seq(X), NEW c \in 0 .. Len(items)
  PROVE  /\ Rest(items, c) = <<>> <=> c = Len(items)
         /\ c # Len(items) => /\ Head(Rest(items, c)) = items[c + 1]
                              /\ Tail(Rest(items, c)) = Rest(items, c + 1)
<1> DEFINE N == Len(items)
<1>1. N \in Nat /\ c \in Nat
  OBVIOUS
<1>2. ASSUME c = N PROVE Rest(items, c) = <<>>
  BY <1>1, <1>2, SubSeqEmpty DEF Rest
<1>3. ASSUME c # N
      PROVE  /\ Rest(items, c) # <<>> /\ Head(Rest(items, c)) = items[c + 1]
             /\ Tail(Rest(items, c)) = Rest(items, c + 1)
  <2>1. /\ c + 1 \in 1 .. N + 1 /\ c + 1 <= N /\ c + 1 \in 1 .. N
        /\ N \in c + 1 .. N /\ N \in c .. N
    BY <1>1, <1>3
  <2>2. Len(Rest(items, c)) = N - (c + 1) + 1
    BY <1>1, <2>1, SubSeqProperties DEF Rest
  <2>3. Rest(items, c) # <<>>
    BY <1>1, <2>1, <2>2
  <2> QED BY <1>1, <2>1, <2>3, HeadTailOfSubSeq DEF Rest
<1> QED BY <1>2, <1>3

LEMMA StatesAreStates ==
  ASSUME NEW fields, IsFieldList(fields), NEW items,
         NEW h, Decoding(h, fields, items)
  PROVE  \A n \in 0 .. Len(fields) : IsState(h[n])
<1> DEFINE N == Len(fields)
           T == {n \in Nat : n <= N => IsState(h[n])}
<1>1. N \in Nat /\ \A n \in 1 .. N : fields[n].optional \in BOOLEAN
  BY FieldShape
<1>2. 0 \in T
  <2>1. h[0] = [ok |-> TRUE, rest |-> items, struct |-> [k \in {} |-> 0]]
    BY DEF Decoding, Begin
  <2>2. IsState(h[0])
    BY <2>1 DEF IsState
  <2> QED BY <2>2
<1>3. ASSUME NEW n \in T PROVE n + 1 \in T
  <2> SUFFICES ASSUME n + 1 <= N PROVE IsState(h[n + 1])
    OBVIOUS
  <2>1. n \in 0 .. N - 1 /\ n + 1 \in 1 .. N /\ n <= N
    BY <1>1
  <2> QED BY <1>1, <2>1, FieldCases DEF Decoding
<1> HIDE DEF T
<1>4. T \in SUBSET Nat
  BY DEF T
<1>5. T = Nat
  BY <1>2, <1>3, <1>4, SetInduction
<1> QED BY <1>1, <1>5 DEF T

\* A decoder that has failed does not recover.
LEMMA FailedForGood ==
  ASSUME NEW fields, IsFieldList(fields), NEW items,
         NEW h, Decoding(h, fields, items), NEW n \in 0 .. Len(fields), ~h[n].ok
  PROVE  ~h[Len(fields)].ok
<1> DEFINE N == Len(fields)
           T == {d \in Nat : n + d <= N => ~h[n + d].ok}
<1>1. /\ N \in Nat /\ n \in Nat /\ n <= N
      /\ \A k \in 1 .. N : fields[k].optional \in BOOLEAN
  BY FieldShape
<1>2. 0 \in T
  BY <1>1
<1>3. ASSUME NEW d \in T PROVE d + 1 \in T
  <2> SUFFICES ASSUME n + (d + 1) <= N PROVE ~h[n + (d + 1)].ok
    OBVIOUS
  <2> DEFINE k == n + d
  <2>1. /\ k \in 0 .. N - 1 /\ k + 1 \in 1 .. N /\ k \in 0 .. N
        /\ n + (d + 1) = k + 1 /\ ~h[k].ok
    BY <1>1
  <2> HIDE DEF k
  <2>2. h[k + 1] = DecodeField(h[k], fields[k + 1]) /\ IsState(h[k])
    BY <2>1, StatesAreStates DEF Decoding
  <2>3. h[k + 1] = h[k]
    BY <1>1, <2>1, <2>2, FieldCases
  <2> QED BY <2>1, <2>3
<1> HIDE DEF T
<1>4. T \in SUBSET Nat
  BY DEF T
<1>5. T = Nat
  BY <1>2, <1>3, <1>4, SetInduction
<1>6. N - n \in T /\ n + (N - n) = N
  BY <1>1, <1>5
<1> QED BY <1>1, <1>6 DEF T

-----------------------------------------------------------------------------
(***************************************************************************)
(* One pair: it can be decoded as the value of a member exactly if it is   *)
(* what is encoded for its value, and this is in range.                    *)
(***************************************************************************)
LEMMA KindCases ==
  ASSUME NEW kind \in Kinds
  PROVE  \/ kind = "bool" /\ CType(kind) = "bool" /\ ~Signed(kind)
         \/ kind = "float" /\ CType(kind) = "float" /\ ~Signed(kind)
         \/ /\ kind \in {"int8", "int32"} /\ Signed(kind)
            /\ CType(kind) = "int32" /\ IntRange(kind) \subseteq IntRange("int32")
            /\ IntRange("int32") \subseteq Int
         \/ /\ kind \in {"uint8", "uint32", "uint64"} /\ ~Signed(kind)
            /\ IntRange(kind) \subseteq IntRange(CType(kind))
<1> DEFINE I == INT32_MAX
           U == UINT32_MAX
<1>0. I \in Nat /\ U \in Nat /\ 65535 < I /\ I < U
  BY CborAssumption
<1>1. CASE kind \in {"bool", "float"}
  BY <1>1 DEF CType, Signed
<1>2. CASE kind \in {"int8", "int32"}
  <2>1. CType(kind) = "int32" /\ Signed(kind)
    BY <1>2 DEF CType, Signed
  <2>2. /\ IntRange("int8") = -128 .. 127
        /\ IntRange("int32") = (-INT32_MAX - 1) .. INT32_MAX
    BY DEF IntRange
  <2>3. /\ IntRange("int8") \subseteq IntRange("int32")
        /\ IntRange("int32") \subseteq Int
    <3>1. IntRange("int32") = (-I - 1) .. I
      BY <2>2
    <3> HIDE DEF I, U
    <3>2. -128 .. 127 \subseteq (-I - 1) .. I /\ (-I - 1) .. I \subseteq Int
      BY <1>0
    <3> QED BY <2>2, <3>1, <3>2, Zenon
  <2> QED BY <1>2, <2>1, <2>3
<1>3. CASE kind \in {"uint8", "uint32", "uint64"}
  <2>1. /\ IntRange("uint8") = 0 .. 255 /\ IntRange("uint32") = 0 .. UINT32_MAX
    BY DEF IntRange
  <2>2. IntRange("uint8") \subseteq IntRange("uint32")
    <3>1. IntRange("uint32") = 0 .. U
      BY <2>1
    <3> HIDE DEF I, U
    <3>2. 0 .. 255 \subseteq 0 .. U
      BY <1>0
    <3> QED BY <2>1, <3>1, <3>2, Zenon
  <2>3. CType(kind) = IF kind = "uint8" THEN "uint32" ELSE kind
    BY <1>3 DEF CType
  <2> QED BY <1>3, <2>2, <2>3 DEF Signed
<1> QED BY <1>1, <1>2, <1>3 DEF Kinds

LEMMA WrittenIsRead ==
  ASSUME NEW f, f.kind \in Kinds, NEW item, IsPair(item), item.key = f.key
  PROVE  Decodes(f.kind, item) <=>
           InRange(f.kind, item.value) /\ WidePair(item) = Item(f, item.value)
<1> DEFINE kind == f.kind
           value == item.value
           wide == IF item.major \in {"float16", "float32"} THEN "float" ELSE item.major
<1>1. WidePair(item) = [key |-> f.key, value |-> value, major |-> wide]
  BY DEF WidePair, IsPair
<1>2. WidePair(item) = Item(f, value) <=> wide = Major(kind, value)
  BY <1>1 DEF Item
<1> HIDE DEF kind
<1>3. InRange(kind, value) => (Converts(kind, item) <=> wide = Major(kind, value))
  <2>1. CASE kind = "bool" /\ ~Signed(kind)
    <3>1. Major(kind, value) = "bool"
      BY <2>1 DEF Major
    <3>2. Converts(kind, item) <=> item.major = "bool"
      BY <2>1 DEF Converts
    <3> QED BY <3>1, <3>2
  <2>2. CASE kind = "float" /\ ~Signed(kind)
    <3>1. Major(kind, value) = "float"
      BY <2>2 DEF Major
    <3>2. Converts(kind, item) <=> item.major \in {"float", "float32", "float16"}
      BY <2>2 DEF Converts
    <3> QED BY <3>1, <3>2
  <2>3. CASE /\ kind \in {"int8", "int32"} /\ Signed(kind) /\ CType(kind) = "int32"
             /\ IntRange(kind) \subseteq IntRange("int32")
             /\ IntRange("int32") \subseteq Int
    <3> SUFFICES ASSUME InRange(kind, value)
                 PROVE  Converts(kind, item) <=> wide = Major(kind, value)
      OBVIOUS
    <3>1. value \in IntRange("int32") /\ value \in Int
      <4>1. value \in IntRange(kind)
        BY <2>3 DEF InRange
      <4> QED BY <2>3, <4>1
    <3>2. Converts(kind, item) <=> item.major \in {"uint", "nint"}
      <4>1. Converts(kind, item) <=>
              item.major \in {"uint", "nint"} /\ value \in IntRange(CType(kind))
        BY <2>3 DEF Converts
      <4> QED BY <2>3, <3>1, <4>1
    <3>3. Major(kind, value) = IF value < 0 THEN "nint" ELSE "uint"
      BY <2>3 DEF Major
    <3>4. /\ item.major = "uint" => ~(value < 0)
          /\ item.major = "nint" => value < 0
      BY <3>1 DEF IsPair
    <3> QED BY <3>2, <3>3, <3>4
  <2>4. CASE /\ kind \in {"uint8", "uint32", "uint64"} /\ ~Signed(kind)
             /\ IntRange(kind) \subseteq IntRange(CType(kind))
    <3> SUFFICES ASSUME InRange(kind, value)
                 PROVE  Converts(kind, item) <=> wide = Major(kind, value)
      OBVIOUS
    <3>1. value \in IntRange(CType(kind))
      <4>1. value \in IntRange(kind)
        BY <2>4 DEF InRange
      <4> QED BY <2>4, <4>1
    <3>2. Converts(kind, item) <=> item.major = "uint"
      <4>1. Converts(kind, item) <=>
              item.major = "uint" /\ value \in IntRange(CType(kind))
        BY <2>4 DEF Converts
      <4> QED BY <3>1, <4>1
    <3>3. Major(kind, value) = "uint"
      BY <2>4 DEF Major
    <3> QED BY <3>2, <3>3
  <2>5. kind \in Kinds
    BY DEF kind
  <2> QED BY <2>1, <2>2, <2>3, <2>4, <2>5, KindCases
<1>4. Decodes(kind, item) <=> Converts(kind, item) /\ InRange(kind, value)
  BY DEF Decodes
<1> QED BY <1>2, <1>3, <1>4 DEF kind

-----------------------------------------------------------------------------
(***************************************************************************)
(* What is decoded.                                                        *)
(***************************************************************************)
Takes(f, items, c) ==
  c # Len(items) /\ items[c + 1].key = f.key /\ Decodes(f.kind, items[c + 1])

LEMMA RestUnique ==
  ASSUME NEW X, NEW items \in Seq(X), NEW c \in 0 .. Len(items),
         NEW d \in 0 .. Len(items), Rest(items, c) = Rest(items, d)
  PROVE  c = d
<1> DEFINE N == Len(items)
<1>1. N \in Nat
  OBVIOUS
<1>2. ASSUME NEW x \in 0 .. N PROVE Len(Rest(items, x)) = N - x
  <2>1. /\ x + 1 \in 1 .. N + 1 /\ N \in (x + 1) - 1 .. N
        /\ (IF x + 1 <= N THEN N - (x + 1) + 1 ELSE 0) = N - x
    BY <1>1
  <2>2. Len(Rest(items, x)) = IF x + 1 <= N THEN N - (x + 1) + 1 ELSE 0
    BY <1>1, <2>1, SubSeqProperties DEF Rest
  <2> QED BY <2>1, <2>2
<1>3. N - c = N - d
  BY <1>2
<1> QED BY <1>1, <1>3

LEMMA FieldStep ==
  ASSUME NEW X, NEW items \in Seq(X), NEW c \in 0 .. Len(items),
         NEW a, IsState(a), a.ok, a.rest = Rest(items, c),
         NEW f, f.optional \in BOOLEAN,
         NEW b, b = DecodeField(a, f)
  PROVE  /\ Takes(f, items, c) =>
              /\ b.ok /\ b.rest = Rest(items, c + 1)
              /\ b.struct = With(a.struct, f.key, items[c + 1].value)
         /\ ~Takes(f, items, c) =>
              /\ b.ok <=> f.optional
              /\ b.rest = a.rest /\ b.struct = a.struct
<1>1. /\ a.rest = <<>> <=> c = Len(items)
      /\ c # Len(items) => /\ Head(a.rest) = items[c + 1]
                           /\ Tail(a.rest) = Rest(items, c + 1)
  BY RestProperties
<1>2. NextFits(a.rest, f) <=> Takes(f, items, c)
  BY <1>1 DEF NextFits, Takes
<1>3. CASE Takes(f, items, c)
  <2>1. /\ Head(a.rest) = items[c + 1] /\ Tail(a.rest) = Rest(items, c + 1)
        /\ NextFits(a.rest, f)
    BY <1>1, <1>2, <1>3 DEF Takes
  <2> DEFINE s == With(a.struct, f.key, Head(a.rest).value)
             r == Tail(a.rest)
  <2>2. b = [ok |-> TRUE, rest |-> r, struct |-> s]
    BY <2>1, FieldCases
  <2>3. r = Rest(items, c + 1) /\ s = With(a.struct, f.key, items[c + 1].value)
    BY <2>1
  <2> HIDE DEF s, r
  <2>4. b.ok /\ b.rest = r /\ b.struct = s
    BY <2>2
  <2> QED BY <1>3, <2>3, <2>4
<1>4. CASE ~Takes(f, items, c)
  <2>1. b = [ok |-> f.optional, rest |-> a.rest, struct |-> a.struct]
    BY <1>2, <1>4, FieldCases
  <2> QED BY <1>4, <2>1
<1> QED BY <1>3, <1>4

\* The struct says what the first c pairs say, which are for the first n fields.
Says(s, fields, items, n, c) ==
  /\ DOMAIN s = {items[m].key : m \in 1 .. c}
  /\ \A m \in 1 .. c : /\ s[items[m].key] = items[m].value
                       /\ \E j \in 1 .. n : items[m].key = fields[j].key

LEMMA SaysMore ==
  ASSUME NEW fields, IsFieldList(fields), NEW items, NEW s,
         NEW n \in Nat, n + 1 <= Len(fields), NEW c \in Nat,
         Says(s, fields, items, n, c)
  PROVE  /\ Says(s, fields, items, n + 1, c)
         /\ items[c + 1].key = fields[n + 1].key =>
              Says(With(s, fields[n + 1].key, items[c + 1].value),
                   fields, items, n + 1, c + 1)
<1>1. Says(s, fields, items, n + 1, c)
  BY DEF Says
<1>2. ASSUME items[c + 1].key = fields[n + 1].key
      PROVE  Says(With(s, fields[n + 1].key, items[c + 1].value),
                  fields, items, n + 1, c + 1)
  <2> DEFINE k == fields[n + 1].key
             t == With(s, k, items[c + 1].value)
  <2>1. /\ Len(fields) \in Nat
        /\ \A j \in 1 .. n : fields[j].key # k
    <3>1. \A j \in 1 .. n : j \in 1 .. Len(fields) /\ j # n + 1
      BY FieldShape
    <3>2. Len(fields) \in Nat /\ n + 1 \in 1 .. Len(fields)
      BY FieldShape
    <3> QED BY <3>1, <3>2, FieldShape
  <2>2. k \notin DOMAIN s
    BY <2>1 DEF Says
  <2>3. /\ DOMAIN t = DOMAIN s \cup {k}
        /\ t[k] = items[c + 1].value
        /\ \A x \in DOMAIN s : t[x] = s[x]
    BY <2>2 DEF With
  <2> HIDE DEF t
  <2>4. 1 .. c + 1 = (1 .. c) \cup {c + 1}
    OBVIOUS
  <2>5. DOMAIN t = {items[m].key : m \in 1 .. c + 1}
    BY <1>2, <2>3, <2>4 DEF Says
  <2>6. ASSUME NEW m \in 1 .. c + 1
        PROVE  /\ t[items[m].key] = items[m].value
               /\ \E j \in 1 .. n + 1 : items[m].key = fields[j].key
    <3>1. CASE m \in 1 .. c
      <4>1. items[m].key \in DOMAIN s
        BY <3>1 DEF Says
      <4>2. PICK j \in 1 .. n : items[m].key = fields[j].key
        BY <3>1 DEF Says
      <4>3. t[items[m].key] = items[m].value
        BY <2>3, <3>1, <4>1 DEF Says
      <4>4. j \in 1 .. n + 1
        OBVIOUS
      <4> QED BY <4>2, <4>3, <4>4
    <3>2. CASE m = c + 1
      BY <1>2, <2>3, <3>2
    <3> QED BY <2>4, <3>1, <3>2
  <2> QED BY <2>5, <2>6 DEF Says, t
<1> QED BY <1>1, <1>2

LEMMA StatesSay ==
  ASSUME NEW fields, IsFieldList(fields), NEW X, NEW items \in Seq(X),
         NEW h, Decoding(h, fields, items)
  PROVE  \A n \in 0 .. Len(fields) : h[n].ok =>
           \E c \in 0 .. Len(items) : /\ h[n].rest = Rest(items, c)
                                      /\ Says(h[n].struct, fields, items, n, c)
<1> DEFINE N == Len(fields)
           Reached(n) == h[n].ok =>
             \E c \in 0 .. Len(items) : /\ h[n].rest = Rest(items, c)
                                        /\ Says(h[n].struct, fields, items, n, c)
           T == {n \in Nat : n <= N => Reached(n)}
<1>1. N \in Nat /\ \A n \in 1 .. N : fields[n].optional \in BOOLEAN
  BY FieldShape
<1>2. 0 \in T
  <2>1. h[0] = Begin(items)
    BY DEF Decoding
  <2>2. h[0].rest = items /\ h[0].struct = [k \in {} |-> 0]
    BY <2>1 DEF Begin
  <2>3. Rest(items, 0) = items
    BY SubSeqFull DEF Rest
  <2>4. Says(h[0].struct, fields, items, 0, 0)
    BY <2>2 DEF Says
  <2> QED BY <2>2, <2>3, <2>4
<1>3. ASSUME NEW n \in T PROVE n + 1 \in T
  <2> SUFFICES ASSUME n + 1 <= N, h[n + 1].ok
               PROVE  \E c \in 0 .. Len(items) :
                        /\ h[n + 1].rest = Rest(items, c)
                        /\ Says(h[n + 1].struct, fields, items, n + 1, c)
    OBVIOUS
  <2> DEFINE f == fields[n + 1]
  <2>1. /\ n \in Nat /\ n \in 0 .. N - 1 /\ n + 1 \in 1 .. N /\ n \in 0 .. N
        /\ Reached(n)
    BY <1>1
  <2> HIDE DEF T
  <2>2. IsState(h[n]) /\ h[n + 1] = DecodeField(h[n], f)
    BY <2>1, StatesAreStates DEF Decoding
  <2>3. h[n].ok /\ f.optional \in BOOLEAN
    BY <1>1, <2>1, <2>2, FieldCases
  <2>4. PICK c \in 0 .. Len(items) : /\ h[n].rest = Rest(items, c)
                                     /\ Says(h[n].struct, fields, items, n, c)
    BY <2>1, <2>3
  <2>5. CASE Takes(f, items, c)
    <3>1. /\ h[n + 1].rest = Rest(items, c + 1)
          /\ h[n + 1].struct = With(h[n].struct, f.key, items[c + 1].value)
      BY <2>2, <2>3, <2>4, <2>5, FieldStep
    <3>2. c + 1 \in 0 .. Len(items) /\ items[c + 1].key = f.key
      BY <2>5 DEF Takes
    <3>3. c \in Nat /\ Len(items) \in Nat
      OBVIOUS
    <3>4. Says(With(h[n].struct, fields[n + 1].key, items[c + 1].value),
               fields, items, n + 1, c + 1)
      BY <2>1, <2>4, <3>2, <3>3, SaysMore
    <3>5. Says(h[n + 1].struct, fields, items, n + 1, c + 1)
      BY <3>1, <3>4
    <3> QED BY <3>1, <3>2, <3>5
  <2>6. CASE ~Takes(f, items, c)
    <3>1. h[n + 1].rest = Rest(items, c) /\ h[n + 1].struct = h[n].struct
      BY <2>2, <2>3, <2>4, <2>6, FieldStep
    <3>2. Says(h[n + 1].struct, fields, items, n + 1, c)
      BY <2>1, <2>4, <3>1, SaysMore
    <3> QED BY <3>1, <3>2
  <2> QED BY <2>5, <2>6
<1> HIDE DEF T
<1>4. T \in SUBSET Nat
  BY DEF T
<1>5. T = Nat
  BY <1>2, <1>3, <1>4, SetInduction
<1> QED BY <1>1, <1>5 DEF T

-----------------------------------------------------------------------------
(***************************************************************************)
(* The items are laid out over the fields: c[n] is the number of pairs of  *)
(* the first n fields.  A field has the next pair, or it is optional.      *)
(***************************************************************************)
HasPair(c, fields, items, n) ==
  c[n + 1] = c[n] + 1 /\ Takes(fields[n + 1], items, c[n])
HasNone(c, fields, n) ==
  c[n + 1] = c[n] /\ fields[n + 1].optional

Laid(c, fields, items) ==
  /\ \A n \in 0 .. Len(fields) : c[n] \in 0 .. Len(items)
  /\ c[0] = 0 /\ c[Len(fields)] = Len(items)
  /\ \A n \in 0 .. Len(fields) - 1 :
       HasPair(c, fields, items, n) \/ HasNone(c, fields, n)

\* The pairs that are decoded are laid out over the fields,
LEMMA DecodedIsLaid ==
  ASSUME NEW fields, IsFieldList(fields), NEW X, NEW items \in Seq(X),
         Decoded(fields, items).ok
  PROVE  /\ \E c : Laid(c, fields, items)
         /\ Says(Decoded(fields, items).struct, fields, items,
                 Len(fields), Len(items))
<1> DEFINE N == Len(fields)
<1>1. N \in Nat /\ \A n \in 1 .. N : fields[n].optional \in BOOLEAN
  BY FieldShape
<1>2. PICK h : /\ Decoding(h, fields, items)
               /\ Decoded(fields, items) =
                    [ok |-> h[N].ok /\ h[N].rest = <<>>, struct |-> h[N].struct]
  BY DecodedByStates
<1>3. /\ h[N].ok /\ h[N].rest = <<>>
      /\ Decoded(fields, items).struct = h[N].struct
  <2> DEFINE ok == h[N].ok /\ h[N].rest = <<>>
             struct == h[N].struct
  <2>1. Decoded(fields, items) = [ok |-> ok, struct |-> struct]
    BY <1>2
  <2> HIDE DEF ok, struct
  <2>2. ok /\ Decoded(fields, items).struct = struct
    BY <2>1
  <2> QED BY <2>2 DEF ok, struct
<1>4. \A n \in 0 .. N : h[n].ok
  BY <1>2, <1>3, FailedForGood
<1> DEFINE c == [n \in 0 .. N |-> CHOOSE x \in 0 .. Len(items) :
                   /\ h[n].rest = Rest(items, x)
                   /\ Says(h[n].struct, fields, items, n, x)]
<1>5. \A n \in 0 .. N : /\ c[n] \in 0 .. Len(items)
                        /\ h[n].rest = Rest(items, c[n])
                        /\ Says(h[n].struct, fields, items, n, c[n])
  BY <1>2, <1>4, StatesSay
<1> HIDE DEF c
<1>6. c[0] = 0
  <2>1. h[0].rest = items
    BY <1>2 DEF Decoding, Begin
  <2>2. Rest(items, 0) = items /\ 0 \in 0 .. N /\ 0 \in 0 .. Len(items)
    BY <1>1, SubSeqFull DEF Rest
  <2> QED BY <1>5, <2>1, <2>2, RestUnique
<1>7. c[N] = Len(items)
  BY <1>1, <1>3, <1>5, RestProperties
<1>8. ASSUME NEW n \in 0 .. N - 1
      PROVE  HasPair(c, fields, items, n) \/ HasNone(c, fields, n)
  <2> DEFINE f == fields[n + 1]
  <2>1. n \in 0 .. N /\ n + 1 \in 0 .. N /\ n + 1 \in 1 .. N
    BY <1>1
  <2>2. IsState(h[n]) /\ h[n + 1] = DecodeField(h[n], f)
    BY <1>2, <2>1, StatesAreStates DEF Decoding
  <2>3. /\ c[n] \in 0 .. Len(items) /\ h[n].rest = Rest(items, c[n])
        /\ c[n + 1] \in 0 .. Len(items) /\ h[n + 1].rest = Rest(items, c[n + 1])
        /\ f.optional \in BOOLEAN /\ h[n].ok /\ h[n + 1].ok
    BY <1>1, <1>4, <1>5, <2>1
  <2>4. CASE Takes(f, items, c[n])
    <3>1. h[n + 1].rest = Rest(items, c[n] + 1)
      BY <2>2, <2>3, <2>4, FieldStep
    <3>2. c[n] + 1 \in 0 .. Len(items)
      BY <2>3, <2>4 DEF Takes
    <3>3. c[n + 1] = c[n] + 1
      BY <2>3, <3>1, <3>2, RestUnique
    <3> QED BY <2>4, <3>3 DEF HasPair
  <2>5. CASE ~Takes(f, items, c[n])
    <3>1. h[n + 1].rest = Rest(items, c[n]) /\ f.optional
      BY <2>2, <2>3, <2>5, FieldStep
    <3>2. c[n + 1] = c[n]
      BY <2>3, <3>1, RestUnique
    <3> QED BY <3>1, <3>2 DEF HasNone
  <2> QED BY <2>4, <2>5
<1>9. Laid(c, fields, items)
  BY <1>5, <1>6, <1>7, <1>8 DEF Laid
<1>10. Says(h[N].struct, fields, items, N, Len(items))
  BY <1>1, <1>5, <1>7
<1> QED BY <1>3, <1>9, <1>10

\* and pairs that are laid out are decoded: if the decoder took a pair too
\* early, the field that the pair belongs to would have the key of another.
LEMMA NoneMeansNoMatch ==
  ASSUME NEW fields, IsFieldList(fields), NEW X, NEW items \in Seq(X),
         NEW c, Laid(c, fields, items), NEW n \in 0 .. Len(fields) - 1,
         c[n + 1] = c[n], Takes(fields[n + 1], items, c[n])
  PROVE  FALSE
<1> DEFINE N == Len(fields)
           T == {j \in Nat : j \in n .. N /\ c[n] < c[j]}
<1>1. /\ N \in Nat /\ n \in Nat /\ n <= N /\ n + 1 \in 1 .. N
      /\ \A j \in n .. N : c[j] \in Nat
  BY FieldShape DEF Laid
<1>2. N \in T
  BY <1>1 DEF Laid, Takes
<1> HIDE DEF T
<1>3. T \in SUBSET Nat /\ T # {}
  BY <1>2 DEF T
<1>4. PICK j \in T : \A m \in T : j <= m
  BY <1>3, LeastNat
<1>5. j \in n .. N /\ c[n] < c[j] /\ j # n /\ j # n + 1
  BY <1>1, <1>4 DEF T
<1> DEFINE i == j - 1
<1>6. i \in n .. N /\ i \in 0 .. N - 1 /\ i + 1 = j /\ i \in Nat /\ i < j /\ i # n
  BY <1>1, <1>5
<1> HIDE DEF i
<1>7. c[i] <= c[n]
  BY <1>1, <1>4, <1>6 DEF T
<1>8. HasPair(c, fields, items, i) \/ HasNone(c, fields, i)
  BY <1>6 DEF Laid
<1>9. c[j] = c[i] + 1 /\ Takes(fields[j], items, c[i])
  BY <1>1, <1>5, <1>6, <1>7, <1>8 DEF HasPair, HasNone
<1>10. c[i] = c[n]
  BY <1>1, <1>5, <1>6, <1>7, <1>9
<1>11. fields[j].key = fields[n + 1].key
  BY <1>9, <1>10 DEF Takes
<1>12. j \in 1 .. N
  BY <1>1, <1>5
<1> QED BY <1>1, <1>5, <1>11, <1>12, FieldShape

LEMMA LaidIsDecoded ==
  ASSUME NEW fields, IsFieldList(fields), NEW X, NEW items \in Seq(X),
         NEW c, Laid(c, fields, items)
  PROVE  Decoded(fields, items).ok
<1> DEFINE N == Len(fields)
<1>1. N \in Nat /\ \A n \in 1 .. N : fields[n].optional \in BOOLEAN
  BY FieldShape
<1>2. PICK h : /\ Decoding(h, fields, items)
               /\ Decoded(fields, items) =
                    [ok |-> h[N].ok /\ h[N].rest = <<>>, struct |-> h[N].struct]
  BY DecodedByStates
<1> DEFINE Good(n) == h[n].ok /\ h[n].rest = Rest(items, c[n])
           T == {n \in Nat : n <= N => Good(n)}
<1>3. 0 \in T
  <2>1. h[0].ok /\ h[0].rest = items
    BY <1>2 DEF Decoding, Begin
  <2>2. Rest(items, 0) = items /\ c[0] = 0
    BY SubSeqFull DEF Rest, Laid
  <2> QED BY <2>1, <2>2
<1>4. ASSUME NEW n \in T PROVE n + 1 \in T
  <2> SUFFICES ASSUME n + 1 <= N PROVE Good(n + 1)
    OBVIOUS
  <2> DEFINE f == fields[n + 1]
  <2>1. /\ n \in Nat /\ n \in 0 .. N /\ n \in 0 .. N - 1 /\ n + 1 \in 1 .. N
        /\ Good(n)
    BY <1>1
  <2> HIDE DEF T
  <2>2. IsState(h[n]) /\ h[n + 1] = DecodeField(h[n], f)
    BY <1>2, <2>1, StatesAreStates DEF Decoding
  <2>3. c[n] \in 0 .. Len(items) /\ f.optional \in BOOLEAN
    BY <1>1, <2>1 DEF Laid
  <2>4. HasPair(c, fields, items, n) \/ HasNone(c, fields, n)
    BY <2>1 DEF Laid
  <2>5. CASE Takes(f, items, c[n])
    <3>1. c[n + 1] = c[n] + 1
      BY <2>1, <2>4, <2>5, NoneMeansNoMatch DEF HasPair, HasNone
    <3>2. h[n + 1].ok /\ h[n + 1].rest = Rest(items, c[n] + 1)
      BY <2>1, <2>2, <2>3, <2>5, FieldStep
    <3> QED BY <3>1, <3>2
  <2>6. CASE ~Takes(f, items, c[n])
    <3>1. c[n + 1] = c[n] /\ f.optional
      BY <2>4, <2>6 DEF HasPair, HasNone
    <3>2. /\ h[n + 1].ok <=> f.optional
          /\ h[n + 1].rest = h[n].rest
      BY <2>1, <2>2, <2>3, <2>6, FieldStep
    <3>3. h[n + 1].ok /\ h[n + 1].rest = Rest(items, c[n])
      BY <2>1, <3>1, <3>2
    <3> QED BY <3>1, <3>3
  <2> QED BY <2>5, <2>6
<1> HIDE DEF T
<1>5. T \in SUBSET Nat
  BY DEF T
<1>6. T = Nat
  BY <1>3, <1>4, <1>5, SetInduction
<1>7. Good(N)
  BY <1>1, <1>6 DEF T
<1>8. Rest(items, c[N]) = <<>>
  <2>1. c[N] = Len(items) /\ Len(items) \in 0 .. Len(items)
    BY DEF Laid
  <2> QED BY <2>1, RestProperties
<1> DEFINE ok == h[N].ok /\ h[N].rest = <<>>
           struct == h[N].struct
<1>9. Decoded(fields, items) = [ok |-> ok, struct |-> struct]
  BY <1>2
<1>10. ok
  <2>1. h[N].rest = Rest(items, c[N]) /\ h[N].ok
    BY <1>7
  <2> QED BY <1>8, <2>1
<1> HIDE DEF ok, struct
<1> QED BY <1>9, <1>10

-----------------------------------------------------------------------------
(***************************************************************************)
(* What is written is laid out, and what is laid out is written.           *)
(***************************************************************************)

\* The pairs written for the first n fields.
Writing(P, S, fields, s) ==
  /\ P[0] = <<>> /\ P[Len(fields)] = Items(fields, s)
  /\ \A n \in 0 .. Len(fields) - 1 : P[n + 1] = P[n] \o ItemsOf(fields[n + 1], s)
  /\ \A n \in 0 .. Len(fields) : P[n] \in Seq(S)
  /\ \A n \in 1 .. Len(fields) : ItemsOf(fields[n], s) \in Seq(S)

LEMMA ItemsByField ==
  ASSUME NEW fields, IsFieldList(fields), NEW s
  PROVE  \E P, S : Writing(P, S, fields, s)
<1> DEFINE N == Len(fields)
           S == {Item(fields[n], s[fields[n].key]) : n \in 1 .. N}
           e == [n \in 1 .. N |-> ItemsOf(fields[n], s)]
<1>1. N \in Nat /\ DOMAIN fields = 1 .. N
  BY FieldShape
<1>2. \A n \in 1 .. N : ItemsOf(fields[n], s) \in Seq(S)
  <2> SUFFICES ASSUME NEW n \in 1 .. N PROVE ItemsOf(fields[n], s) \in Seq(S)
    OBVIOUS
  <2> DEFINE x == Item(fields[n], s[fields[n].key])
  <2>1. x \in S
    OBVIOUS
  <2>2. ItemsOf(fields[n], s) \in {<<>>, <<x>>}
    BY DEF ItemsOf
  <2> HIDE DEF x, S
  <2>3. <<>> \in Seq(S) /\ <<x>> \in Seq(S)
    BY <2>1
  <2> QED BY <2>2, <2>3
<1> HIDE DEF S
<1>3. e \in Seq(Seq(S)) /\ Len(e) = N
  <2>1. e \in [1 .. N -> Seq(S)]
    BY <1>2
  <2> QED BY <1>1, <2>1
<1>4. Items(fields, s) = FlattenSeq(e)
  BY <1>1 DEF Items
<1>5. CASE e = <<>>
  <2> DEFINE P == [n \in {0} |-> <<>>]
  <2>1. N = 0
    BY <1>3, <1>5
  <2>2. Items(fields, s) = <<>> /\ P[0] = <<>> /\ P[0] \in Seq(S)
    BY <1>4, <1>5, FlattenEmpty
  <2> HIDE DEF P
  <2>3. /\ \A n \in 0 .. N : P[n] \in Seq(S)
        /\ 0 .. N - 1 = {} /\ 1 .. N = {} /\ P[N] = Items(fields, s)
    <3>1. 0 .. N = {0} /\ 0 .. N - 1 = {} /\ 1 .. N = {}
      BY <2>1
    <3> QED BY <2>1, <2>2, <3>1, Zenon
  <2>4. Writing(P, S, fields, s)
    BY <2>2, <2>3 DEF Writing
  <2> QED BY <2>4
<1>6. CASE e # <<>>
  <2>1. PICK f : Flattens(f, e) /\ FlattenSeq(e) = f[N]
    BY <1>3, <1>6, FlattenByResults
  <2>2. /\ \A n \in 1 .. N : f[n] \in Seq(S)
        /\ f = [n \in 1 .. N |-> IF n = 1 THEN e[n] ELSE f[n - 1] \o e[n]]
    BY <1>3, <2>1, ResultsAreSequences DEF Flattens
  <2>3. N # 0
    BY <1>3, <1>6, EmptySeq
  <2> DEFINE P == [n \in 0 .. N |-> IF n = 0 THEN <<>> ELSE f[n]]
  <2>4. P[0] = <<>> /\ P[N] = Items(fields, s)
    BY <1>1, <1>4, <2>1, <2>3
  <2>5. \A n \in 0 .. N : P[n] \in Seq(S)
    BY <2>2
  <2>6. ASSUME NEW n \in 0 .. N - 1
        PROVE  P[n + 1] = P[n] \o ItemsOf(fields[n + 1], s)
    <3>1. /\ n \in Nat /\ n + 1 \in 1 .. N /\ n + 1 # 0 /\ (n + 1 = 1 <=> n = 0)
          /\ (n + 1) - 1 = n /\ n \in 0 .. N /\ n + 1 \in 0 .. N
      BY <1>1
    <3>2. P[n + 1] = IF n = 0 THEN e[n + 1] ELSE f[n] \o e[n + 1]
      BY <2>2, <3>1
    <3>3. e[n + 1] = ItemsOf(fields[n + 1], s) /\ e[n + 1] \in Seq(S)
      BY <1>2, <3>1
    <3>4. n = 0 => P[n] \o e[n + 1] = e[n + 1]
      BY <2>4, <3>3, ConcatEmptySeq
    <3>5. n # 0 => P[n] = f[n]
      BY <3>1
    <3> QED BY <3>2, <3>3, <3>4, <3>5
  <2> HIDE DEF P
  <2>7. Writing(P, S, fields, s)
    BY <1>2, <2>4, <2>5, <2>6 DEF Writing
  <2> QED BY <2>7
<1> QED BY <1>5, <1>6

\* The pairs of the first n fields are the beginning of what is written.
LEMMA WritesOn ==
  ASSUME NEW fields, IsFieldList(fields), NEW s, NEW P, NEW S,
         Writing(P, S, fields, s), NEW n \in 0 .. Len(fields)
  PROVE  /\ Len(P[n]) <= Len(Items(fields, s))
         /\ \A i \in 1 .. Len(P[n]) : Items(fields, s)[i] = P[n][i]
<1> DEFINE N == Len(fields)
           Begins(k) == /\ Len(P[n]) <= Len(P[k])
                        /\ \A i \in 1 .. Len(P[n]) : P[k][i] = P[n][i]
           T == {d \in Nat : n + d <= N => Begins(n + d)}
<1>1. N \in Nat /\ n \in Nat /\ P[n] \in Seq(S) /\ n + 0 = n
  BY FieldShape DEF Writing
<1>2. 0 \in T
  <2>1. Len(P[n]) \in Nat
    BY <1>1
  <2>2. Begins(n)
    BY <2>1
  <2> HIDE DEF Begins
  <2> QED BY <1>1, <2>2
<1>3. ASSUME NEW d \in T PROVE d + 1 \in T
  <2> SUFFICES ASSUME n + (d + 1) <= N PROVE Begins(n + (d + 1))
    OBVIOUS
  <2> DEFINE k == n + d
  <2>1. /\ k \in 0 .. N - 1 /\ k \in 0 .. N /\ k + 1 \in 1 .. N
        /\ n + (d + 1) = k + 1 /\ Begins(k)
    BY <1>1
  <2> HIDE DEF T, k
  <2> DEFINE x == ItemsOf(fields[k + 1], s)
  <2>2. /\ P[k] \in Seq(S) /\ x \in Seq(S) /\ P[k + 1] = P[k] \o x
    BY <2>1 DEF Writing
  <2> HIDE DEF x
  <2>3. /\ Len(P[k + 1]) = Len(P[k]) + Len(x)
        /\ \A i \in 1 .. Len(P[k]) + Len(x) :
             P[k + 1][i] = IF i <= Len(P[k]) THEN P[k][i] ELSE x[i - Len(P[k])]
    BY <2>2, ConcatProperties
  <2>4. Len(P[k]) \in Nat /\ Len(x) \in Nat /\ Len(P[n]) \in Nat
    BY <1>1, <2>2
  <2>5. Len(P[n]) <= Len(P[k + 1])
    BY <2>1, <2>3, <2>4
  <2>6. ASSUME NEW i \in 1 .. Len(P[n]) PROVE P[k + 1][i] = P[n][i]
    <3>1. i \in 1 .. Len(P[k]) + Len(x) /\ i <= Len(P[k]) /\ P[k][i] = P[n][i]
      BY <2>1, <2>4
    <3> QED BY <2>3, <3>1
  <2>7. Begins(k + 1)
    BY <2>5, <2>6
  <2> QED BY <2>1, <2>7
<1> HIDE DEF T
<1>4. T \in SUBSET Nat
  BY DEF T
<1>5. T = Nat
  BY <1>2, <1>3, <1>4, SetInduction
<1>6. N - n \in T /\ n + (N - n) = N
  BY <1>1, <1>5
<1>7. Begins(N)
  BY <1>1, <1>6 DEF T
<1> QED BY <1>7 DEF Writing

ArePairs(items) == \A m \in 1 .. Len(items) : IsPair(items[m])

LEMMA WrittenIsLaid ==
  ASSUME NEW fields, IsFieldList(fields), NEW X, NEW items \in Seq(X),
         ArePairs(items), NEW s, InRanges(fields, s),
         Items(fields, s) = Widened(items)
  PROVE  \E c : Laid(c, fields, items)
<1> DEFINE N == Len(fields)
           W == Widened(items)
<1>1. PICK P, S : Writing(P, S, fields, s)
  BY ItemsByField
<1>2. /\ N \in Nat /\ DOMAIN fields = 1 .. N
      /\ \A n \in 1 .. N : fields[n].kind \in Kinds
  BY FieldShape
<1>3. /\ DOMAIN W = 1 .. Len(items)
      /\ \A m \in 1 .. Len(items) : W[m] = WidePair(items[m])
  BY DEF Widened
<1>4. Len(W) = Len(items)
  <2>1. W \in Seq({W[m] : m \in 1 .. Len(items)})
    BY <1>3 DEF Widened
  <2> HIDE DEF W
  <2>2. DOMAIN W = 1 .. Len(W) /\ Len(W) \in Nat /\ Len(items) \in Nat
    BY <2>1
  <2> QED BY <1>3, <2>2
<1> HIDE DEF W
<1>5. \A n \in 0 .. N : /\ Len(P[n]) \in 0 .. Len(items)
                        /\ \A i \in 1 .. Len(P[n]) : W[i] = P[n][i]
  <2> SUFFICES ASSUME NEW n \in 0 .. N
               PROVE  /\ Len(P[n]) \in 0 .. Len(items)
                      /\ \A i \in 1 .. Len(P[n]) : W[i] = P[n][i]
    OBVIOUS
  <2>1. P[n] \in Seq(S)
    BY <1>1 DEF Writing
  <2>2. Len(P[n]) \in Nat /\ Len(items) \in Nat
    BY <2>1
  <2>3. /\ Len(P[n]) <= Len(W)
        /\ \A i \in 1 .. Len(P[n]) : W[i] = P[n][i]
    BY <1>1, WritesOn DEF W
  <2> QED BY <1>4, <2>2, <2>3
<1> DEFINE c == [n \in 0 .. N |-> Len(P[n])]
<1>6. c[0] = 0 /\ c[N] = Len(items)
  <2>1. P[0] = <<>> /\ P[N] = W
    BY <1>1 DEF Writing, W
  <2> QED BY <1>2, <1>4, <2>1
<1>7. ASSUME NEW n \in 0 .. N - 1
      PROVE  HasPair(c, fields, items, n) \/ HasNone(c, fields, n)
  <2> DEFINE f == fields[n + 1]
             x == ItemsOf(f, s)
  <2>1. n \in 0 .. N /\ n + 1 \in 0 .. N /\ n + 1 \in 1 .. N
    BY <1>2
  <2>2. P[n] \in Seq(S) /\ x \in Seq(S) /\ P[n + 1] = P[n] \o x
    BY <1>1, <2>1 DEF Writing
  <2>3. c[n] = Len(P[n]) /\ c[n + 1] = Len(P[n + 1]) /\ c[n] \in Nat
    <3>1. c[n] = Len(P[n]) /\ c[n + 1] = Len(P[n + 1])
      BY <2>1
    <3>2. Len(P[n]) \in Nat
      BY <1>5, <2>1
    <3> QED BY <3>1, <3>2
  <2> HIDE DEF c
  <2>4. CASE f.key \in DOMAIN s
    <3> DEFINE y == Item(f, s[f.key])
    <3>1. x = <<y>> /\ InRange(f.kind, s[f.key])
      BY <1>2, <2>1, <2>4 DEF ItemsOf, InRanges
    <3> HIDE DEF x, y
    <3>2. Len(x) = 1 /\ x[1] = y
      BY <3>1
    <3>3. /\ Len(P[n + 1]) = c[n] + 1
          /\ \A i \in 1 .. c[n] + 1 :
               P[n + 1][i] = IF i <= c[n] THEN P[n][i] ELSE x[i - c[n]]
      <4>1. /\ Len(P[n] \o x) = Len(P[n]) + Len(x)
            /\ \A i \in 1 .. Len(P[n]) + Len(x) :
                 (P[n] \o x)[i] = IF i <= Len(P[n]) THEN P[n][i] ELSE x[i - Len(P[n])]
        BY <2>2, ConcatProperties
      <4> QED BY <2>2, <2>3, <3>2, <4>1
    <3>4. P[n + 1][c[n] + 1] = y
      <4> DEFINE d == c[n] + 1
      <4>1. d \in 1 .. c[n] + 1 /\ ~(d <= c[n]) /\ d - c[n] = 1
        BY <2>3
      <4> HIDE DEF d
      <4>2. P[n + 1][d] = x[d - c[n]]
        BY <3>3, <4>1
      <4> QED BY <3>2, <4>1, <4>2 DEF d
    <3>5. c[n + 1] = c[n] + 1 /\ c[n] + 1 \in 1 .. Len(items)
      BY <1>5, <2>1, <2>3, <3>3
    <3>6. W[c[n] + 1] = y
      BY <1>5, <2>1, <2>3, <3>3, <3>4, <3>5
    <3> DEFINE item == items[c[n] + 1]
    <3>7. WidePair(item) = Item(f, s[f.key]) /\ IsPair(item)
      BY <1>3, <3>5, <3>6 DEF ArePairs, y
    <3>8. item.key = f.key /\ item.value = s[f.key]
      BY <3>7 DEF WidePair, Item, IsPair
    <3>9. Decodes(f.kind, item)
      BY <1>2, <2>1, <3>1, <3>7, <3>8, WrittenIsRead
    <3>10. c[n] # Len(items)
      BY <2>3, <3>5
    <3> QED BY <3>5, <3>8, <3>9, <3>10 DEF HasPair, Takes
  <2>5. CASE f.key \notin DOMAIN s
    <3>1. x = <<>> /\ f.optional
      BY <1>2, <2>1, <2>5 DEF ItemsOf, InRanges
    <3>2. P[n + 1] = P[n]
      BY <2>2, <3>1, ConcatEmptySeq
    <3> QED BY <2>3, <3>1, <3>2 DEF HasNone
  <2> QED BY <2>4, <2>5
<1>8. \A n \in 0 .. N : c[n] \in 0 .. Len(items)
  BY <1>5
<1> HIDE DEF c
<1>9. Laid(c, fields, items)
  BY <1>6, <1>7, <1>8 DEF Laid
<1> QED BY <1>9

\* Every pair belongs to a field.
LEMMA PairHasField ==
  ASSUME NEW fields, IsFieldList(fields), NEW X, NEW items \in Seq(X),
         NEW c, Laid(c, fields, items), NEW m \in 1 .. Len(items)
  PROVE  \E n \in 0 .. Len(fields) - 1 :
           HasPair(c, fields, items, n) /\ c[n] + 1 = m
<1> DEFINE N == Len(fields)
           T == {j \in Nat : j <= N /\ m <= c[j]}
<1>1. /\ N \in Nat /\ Len(items) \in Nat /\ m \in Nat
      /\ \A j \in 0 .. N : c[j] \in Nat
      /\ c[0] = 0 /\ c[N] = Len(items)
  BY FieldShape DEF Laid
<1>2. N \in T
  BY <1>1
<1> HIDE DEF T
<1>3. T \in SUBSET Nat /\ T # {}
  BY <1>2 DEF T
<1>4. PICK j \in T : \A k \in T : j <= k
  BY <1>3, LeastNat
<1>5. j \in 0 .. N /\ m <= c[j] /\ j # 0
  BY <1>1, <1>4 DEF T
<1> DEFINE i == j - 1
<1>6. i \in 0 .. N - 1 /\ i \in 0 .. N /\ i + 1 = j /\ i \in Nat /\ i < j /\ i <= N
  BY <1>1, <1>5
<1> HIDE DEF i
<1>7. ~(m <= c[i])
  BY <1>1, <1>4, <1>6 DEF T
<1>8. HasPair(c, fields, items, i) \/ HasNone(c, fields, i)
  BY <1>6 DEF Laid
<1>9. HasPair(c, fields, items, i) /\ c[j] = c[i] + 1
  BY <1>1, <1>5, <1>6, <1>7, <1>8 DEF HasPair, HasNone
<1>10. c[i] + 1 = m
  BY <1>1, <1>5, <1>6, <1>7, <1>9
<1> QED BY <1>6, <1>9, <1>10

\* A field without a pair has a key that no pair has.
LEMMA NoneMeansNoPair ==
  ASSUME NEW fields, IsFieldList(fields), NEW X, NEW items \in Seq(X),
         NEW c, Laid(c, fields, items), NEW n \in 0 .. Len(fields) - 1,
         c[n + 1] = c[n], NEW m \in 1 .. Len(items)
  PROVE  items[m].key # fields[n + 1].key
<1>1. PICK i \in 0 .. Len(fields) - 1 :
        HasPair(c, fields, items, i) /\ c[i] + 1 = m
  BY PairHasField
<1>2. items[m].key = fields[i + 1].key
  BY <1>1 DEF HasPair, Takes
<1>3. /\ Len(fields) \in Nat /\ i + 1 \in 1 .. Len(fields)
      /\ n + 1 \in 1 .. Len(fields) /\ c[n] \in Nat
  BY FieldShape DEF Laid
<1>4. i # n
  BY <1>1, <1>3 DEF HasPair
<1>5. i + 1 # n + 1
  BY <1>4
<1> QED BY <1>2, <1>3, <1>5, FieldShape

LEMMA LaidIsWritten ==
  ASSUME NEW fields, IsFieldList(fields), NEW X, NEW items \in Seq(X),
         ArePairs(items), NEW c, Laid(c, fields, items),
         NEW s, Says(s, fields, items, Len(fields), Len(items))
  PROVE  InRanges(fields, s) /\ Items(fields, s) = Widened(items)
<1> DEFINE N == Len(fields)
           W == Widened(items)
           L == Len(items)
<1>1. /\ N \in Nat /\ DOMAIN fields = 1 .. N /\ L \in Nat
      /\ \A n \in 1 .. N : fields[n].kind \in Kinds
  BY FieldShape
<1>2. ASSUME NEW n \in 0 .. N - 1
      PROVE  \/ /\ HasPair(c, fields, items, n) /\ c[n] + 1 \in 1 .. L
                /\ fields[n + 1].key \in DOMAIN s
                /\ InRange(fields[n + 1].kind, s[fields[n + 1].key])
                /\ ItemsOf(fields[n + 1], s) = <<WidePair(items[c[n] + 1])>>
             \/ /\ HasNone(c, fields, n) /\ fields[n + 1].key \notin DOMAIN s
                /\ ItemsOf(fields[n + 1], s) = <<>>
  <2> DEFINE f == fields[n + 1]
             item == items[c[n] + 1]
  <2>1. c[n] \in 0 .. L /\ f.kind \in Kinds
    BY <1>1 DEF Laid
  <2>2. CASE HasPair(c, fields, items, n)
    <3>1. c[n] + 1 \in 1 .. L /\ item.key = f.key /\ Decodes(f.kind, item)
      BY <1>1, <2>1, <2>2 DEF HasPair, Takes
    <3>2. IsPair(item) /\ f.key \in DOMAIN s /\ s[f.key] = item.value
      BY <3>1 DEF ArePairs, Says
    <3>3. InRange(f.kind, item.value) /\ WidePair(item) = Item(f, item.value)
      BY <2>1, <3>1, <3>2, WrittenIsRead
    <3>4. ItemsOf(f, s) = <<WidePair(item)>>
      BY <3>2, <3>3 DEF ItemsOf
    <3> QED BY <2>2, <3>1, <3>2, <3>3, <3>4
  <2>3. CASE HasNone(c, fields, n)
    <3>1. \A m \in 1 .. L : items[m].key # f.key
      BY <2>3, NoneMeansNoPair DEF HasNone
    <3>2. f.key \notin DOMAIN s
      BY <3>1 DEF Says
    <3> QED BY <2>3, <3>2 DEF ItemsOf
  <2> QED BY <2>2, <2>3 DEF Laid
<1>3. InRanges(fields, s)
  <2> SUFFICES ASSUME NEW k \in 1 .. N
               PROVE  \/ /\ fields[k].key \in DOMAIN s
                         /\ InRange(fields[k].kind, s[fields[k].key])
                      \/ fields[k].optional /\ fields[k].key \notin DOMAIN s
    BY <1>1 DEF InRanges
  <2> DEFINE n == k - 1
  <2>1. n \in 0 .. N - 1 /\ n + 1 = k
    BY <1>1
  <2> HIDE DEF n
  <2> QED BY <1>2, <2>1 DEF HasNone
<1>4. W \in Seq({W[m] : m \in 1 .. L}) /\ Len(W) = L
  <2>1. W \in [1 .. L -> {W[m] : m \in 1 .. L}]
    BY DEF Widened
  <2> HIDE DEF W
  <2> QED BY <1>1, <2>1
<1>5. \A m \in 1 .. L : W[m] = WidePair(items[m])
  BY DEF Widened
<1> HIDE DEF W
<1>6. PICK P, S : Writing(P, S, fields, s)
  BY ItemsByField
<1> DEFINE T == {n \in Nat : n <= N => P[n] = SubSeq(W, 1, c[n])}
<1>7. 0 \in T
  <2>1. P[0] = <<>> /\ c[0] = 0
    BY <1>6 DEF Writing, Laid
  <2>2. SubSeq(W, 1, 0) = <<>>
    BY <1>4, SubSeqEmpty
  <2> QED BY <2>1, <2>2
<1>8. ASSUME NEW n \in T PROVE n + 1 \in T
  <2> SUFFICES ASSUME n + 1 <= N PROVE P[n + 1] = SubSeq(W, 1, c[n + 1])
    OBVIOUS
  <2> DEFINE f == fields[n + 1]
  <2>1. n \in 0 .. N - 1 /\ n <= N /\ P[n] = SubSeq(W, 1, c[n])
    BY <1>1
  <2>2. /\ P[n + 1] = P[n] \o ItemsOf(f, s) /\ P[n] \in Seq(S)
        /\ c[n] \in 0 .. L
    <3>1. n \in 0 .. N
      BY <1>1, <2>1
    <3> QED BY <1>6, <2>1, <3>1 DEF Writing, Laid
  <2> HIDE DEF T
  <2>3. CASE /\ HasPair(c, fields, items, n) /\ c[n] + 1 \in 1 .. L
             /\ ItemsOf(f, s) = <<WidePair(items[c[n] + 1])>>
    <3> DEFINE d == c[n] + 1
    <3>1. c[n + 1] = d /\ d \in 1 .. L /\ d - 1 = c[n]
      BY <2>2, <2>3 DEF HasPair
    <3>2. ItemsOf(f, s) = <<W[d]>>
      BY <1>5, <2>3
    <3> HIDE DEF d
    <3>3. SubSeq(W, 1, d) = SubSeq(W, 1, d - 1) \o <<W[d]>>
      <4>1. 1 \in 1 .. Len(W) /\ d \in 1 .. Len(W)
        BY <1>1, <1>4, <3>1
      <4> QED BY <1>4, <4>1, SubSeqRecursiveSecond
    <3> QED BY <2>1, <2>2, <3>1, <3>2, <3>3
  <2>4. CASE HasNone(c, fields, n) /\ ItemsOf(f, s) = <<>>
    <3>1. P[n + 1] = P[n]
      BY <2>2, <2>4, ConcatEmptySeq
    <3> QED BY <2>1, <2>4, <3>1 DEF HasNone
  <2> QED BY <1>2, <2>1, <2>3, <2>4
<1> HIDE DEF T
<1>9. T \in SUBSET Nat
  BY DEF T
<1>10. T = Nat
  BY <1>7, <1>8, <1>9, SetInduction
<1>11. P[N] = SubSeq(W, 1, L)
  BY <1>1, <1>10 DEF T, Laid
<1>12. Items(fields, s) = W
  BY <1>4, <1>6, <1>11, SubSeqFull DEF Writing
<1> QED BY <1>3, <1>12 DEF W

-----------------------------------------------------------------------------
\* The decoder of a list of fields accepts exactly what the encoder of the same
\* list can write, however wide the floats.
LEMMA AcceptsEncodings ==
  ASSUME NEW fields, IsFieldList(fields), NEW X, NEW items \in Seq(X),
         ArePairs(items), NEW s
  PROVE  /\ InRanges(fields, s) /\ Items(fields, s) = Widened(items) =>
              Decoded(fields, items).ok
         /\ Decoded(fields, items).ok /\ Says(s, fields, items, Len(fields), Len(items)) =>
              InRanges(fields, s) /\ Items(fields, s) = Widened(items)
<1>1. ASSUME InRanges(fields, s), Items(fields, s) = Widened(items)
      PROVE  Decoded(fields, items).ok
  <2>1. PICK c : Laid(c, fields, items)
    BY <1>1, WrittenIsLaid
  <2> QED BY <2>1, LaidIsDecoded
<1>2. ASSUME Decoded(fields, items).ok, Says(s, fields, items, Len(fields), Len(items))
      PROVE  InRanges(fields, s) /\ Items(fields, s) = Widened(items)
  <2>1. PICK c : Laid(c, fields, items)
    BY <1>2, DecodedIsLaid
  <2> QED BY <1>2, <2>1, LaidIsWritten
<1> QED BY <1>1, <1>2

-----------------------------------------------------------------------------
(***************************************************************************)
(* The struct comes back.  The bytes of a map are bounded by the number of *)
(* its fields.                                                             *)
(***************************************************************************)
\* The recursion behind the sum of MapSize.
SizeStep(g, items, t) ==
  IF t = {} THEN MapOverhead ELSE g[t \ {Max(t)}] + ItemSize(items[Max(t)])
SizeFolds(g, items, n) == g = [t \in SUBSET (1 .. n) |-> SizeStep(g, items, t)]

LEMMA SizeFoldExists ==
  ASSUME NEW items, NEW N \in Nat
  PROVE  \E g : SizeFolds(g, items, N)
<1> DEFINE T == {n \in Nat : \E g : SizeFolds(g, items, n)}
<1>1. 0 \in T
  <2> DEFINE g == [t \in SUBSET (1 .. 0) |-> MapOverhead]
  <2>1. \A t \in SUBSET (1 .. 0) : SizeStep(g, items, t) = MapOverhead
    BY DEF SizeStep
  <2>2. SizeFolds(g, items, 0)
    BY <2>1 DEF SizeFolds
  <2> QED BY <2>2
<1>2. ASSUME NEW n \in T PROVE n + 1 \in T
  <2>1. n \in Nat
    OBVIOUS
  <2>2. PICK g : SizeFolds(g, items, n)
    OBVIOUS
  <2> DEFINE S == SUBSET (1 .. n + 1)
             k == [t \in S |->
                     IF n + 1 \in t
                     THEN g[t \ {n + 1}] + ItemSize(items[n + 1])
                     ELSE g[t]]
  <2>3. \A t \in S : n + 1 \notin t => t \in SUBSET (1 .. n)
    BY <2>1
  <2>4. ASSUME NEW t \in S PROVE k[t] = SizeStep(k, items, t)
    <3>1. CASE n + 1 \in t
      <4>1. Max(t) = n + 1 /\ t # {}
        BY <2>1, <3>1, MaxOfInterval
      <4>2. t \ {n + 1} \in S /\ k[t \ {n + 1}] = g[t \ {n + 1}]
        OBVIOUS
      <4>3. k[t] = g[t \ {n + 1}] + ItemSize(items[n + 1])
        BY <3>1
      <4> QED BY <4>1, <4>2, <4>3 DEF SizeStep
    <3>2. CASE n + 1 \notin t
      <4>1. t \in SUBSET (1 .. n) /\ k[t] = g[t]
        BY <2>3, <3>2
      <4>2. g[t] = SizeStep(g, items, t)
        BY <2>2, <4>1 DEF SizeFolds
      <4>3. t \ {Max(t)} \in S /\ n + 1 \notin t \ {Max(t)}
        BY <3>2
      <4>4. k[t \ {Max(t)}] = g[t \ {Max(t)}]
        BY <4>3
      <4> QED BY <4>1, <4>2, <4>4 DEF SizeStep
    <3> QED BY <3>1, <3>2
  <2>5. k = [t \in S |-> k[t]]
    OBVIOUS
  <2> HIDE DEF k
  <2>6. SizeFolds(k, items, n + 1)
    BY <2>4, <2>5 DEF SizeFolds
  <2> QED BY <2>1, <2>6
<1> HIDE DEF T
<1>3. T \in SUBSET Nat
  BY DEF T
<1>4. T = Nat
  BY <1>1, <1>2, <1>3, SetInduction
<1> QED BY <1>4 DEF T

\* A map of pairs of at most ten bytes.
LEMMA MapSizeBounds ==
  ASSUME NEW items, DOMAIN items = 1 .. Len(items), Len(items) \in Nat,
         \A m \in 1 .. Len(items) : ItemSize(items[m]) \in 0 .. 10
  PROVE  MapSize(items) \in MapOverhead .. MapOverhead + 10 * Len(items)
<1> DEFINE N == Len(items)
           g == CHOOSE f : SizeFolds(f, items, N)
<1>1. SizeFolds(g, items, N)
  BY SizeFoldExists
<1>2. MapSize(items) = g[1 .. N]
  BY DEF MapSize, FoldLeft, MapThenFoldSet, SizeFolds, SizeStep
<1> HIDE DEF g
<1> DEFINE Bounded(n) == g[1 .. n] \in MapOverhead .. MapOverhead + 10 * n
           T == {n \in Nat : n <= N => Bounded(n)}
<1>3. 0 \in T
  <2>1. 1 .. 0 = {} /\ {} \in SUBSET (1 .. N)
    OBVIOUS
  <2>2. g[{}] = MapOverhead
    BY <1>1, <2>1 DEF SizeFolds, SizeStep
  <2>3. MapOverhead \in Nat
    BY CborAssumption
  <2> QED BY <2>1, <2>2, <2>3
<1>4. ASSUME NEW n \in T PROVE n + 1 \in T
  <2> SUFFICES ASSUME n + 1 <= N PROVE Bounded(n + 1)
    OBVIOUS
  <2>1. n \in Nat /\ n + 1 \in 1 .. N /\ Bounded(n)
    OBVIOUS
  <2> DEFINE t == 1 .. n + 1
  <2>2. t \in SUBSET (1 .. N) /\ t # {} /\ n + 1 \in t /\ t \in SUBSET (1 .. n + 1)
    BY <2>1
  <2>3. Max(t) = n + 1
    BY <2>1, <2>2, MaxOfInterval
  <2>4. t \ {n + 1} = 1 .. n
    BY <2>1
  <2>5. g[t] = SizeStep(g, items, t)
    BY <1>1, <2>2 DEF SizeFolds
  <2>6. g[t] = g[1 .. n] + ItemSize(items[n + 1])
    BY <2>2, <2>3, <2>4, <2>5 DEF SizeStep
  <2> DEFINE a == g[1 .. n]
             b == ItemSize(items[n + 1])
  <2>7. a \in MapOverhead .. MapOverhead + 10 * n /\ b \in 0 .. 10
    BY <2>1
  <2>8. MapOverhead \in Nat
    BY CborAssumption
  <2> HIDE DEF a, b
  <2>9. a + b \in MapOverhead .. MapOverhead + 10 * (n + 1)
    BY <2>1, <2>7, <2>8
  <2> QED BY <2>6, <2>9 DEF a, b
<1> HIDE DEF T
<1>5. T \in SUBSET Nat
  BY DEF T
<1>6. T = Nat
  BY <1>3, <1>4, <1>5, SetInduction
<1> QED BY <1>2, <1>6 DEF T

\* The pairs written are those of the members present, one for each.
IsWritten(item, fields, s, n) ==
  \E j \in 1 .. n : /\ fields[j].key \in DOMAIN s
                    /\ item = Item(fields[j], s[fields[j].key])

LEMMA ItemsAre ==
  ASSUME NEW fields, IsFieldList(fields), NEW s
  PROVE  LET items == Items(fields, s)
             N == Len(fields)
         IN  /\ \E X : items \in Seq(X)
             /\ Len(items) <= N
             /\ \A m \in 1 .. Len(items) : IsWritten(items[m], fields, s, N)
             /\ \A j \in 1 .. N : fields[j].key \in DOMAIN s =>
                  \E m \in 1 .. Len(items) :
                    items[m] = Item(fields[j], s[fields[j].key])
<1> DEFINE N == Len(fields)
<1>1. N \in Nat
  BY FieldShape
<1>2. PICK P, S : Writing(P, S, fields, s)
  BY ItemsByField
<1> DEFINE Good(n) ==
             /\ Len(P[n]) <= n
             /\ \A m \in 1 .. Len(P[n]) : IsWritten(P[n][m], fields, s, n)
             /\ \A j \in 1 .. n : fields[j].key \in DOMAIN s =>
                  \E m \in 1 .. Len(P[n]) :
                    P[n][m] = Item(fields[j], s[fields[j].key])
           T == {n \in Nat : n <= N => Good(n)}
<1>3. 0 \in T
  <2>1. P[0] = <<>>
    BY <1>2 DEF Writing
  <2> QED BY <2>1
<1>4. ASSUME NEW n \in T PROVE n + 1 \in T
  <2> SUFFICES ASSUME n + 1 <= N PROVE Good(n + 1)
    OBVIOUS
  <2> DEFINE p == P[n]
             q == P[n + 1]
             f == fields[n + 1]
             e == ItemsOf(f, s)
  <2>1. n \in Nat /\ n \in 0 .. N - 1 /\ n + 1 \in 1 .. N /\ n \in 0 .. N
        /\ n + 1 \in 0 .. N /\ Good(n)
    BY <1>1
  <2>2. q = p \o e
    BY <1>2, <2>1 DEF Writing
  <2>3. p \in Seq(S)
    BY <1>2, <2>1 DEF Writing
  <2>4. e \in Seq(S)
    BY <1>2, <2>1 DEF Writing
  <2> DEFINE v == Item(f, s[f.key])
  <2>5. CASE f.key \in DOMAIN s
    <3>1. e = <<v>>
      BY <2>5 DEF ItemsOf
    <3> HIDE DEF v, p, q, e
    <3>2. /\ Len(q) = Len(p) + 1 /\ q[Len(p) + 1] = v /\ Len(p) \in Nat
          /\ \A m \in 1 .. Len(p) : q[m] = p[m]
      BY <2>2, <2>3, <2>4, <3>1
    <3>3. IsWritten(v, fields, s, n + 1)
      BY <2>1, <2>5 DEF IsWritten, v
    <3>4. ASSUME NEW m \in 1 .. Len(q) PROVE IsWritten(q[m], fields, s, n + 1)
      <4>1. CASE m \in 1 .. Len(p)
        <5>1. IsWritten(p[m], fields, s, n)
          BY <2>1, <4>1 DEF p
        <5> QED BY <2>1, <3>2, <4>1, <5>1 DEF IsWritten
      <4>2. CASE m = Len(p) + 1
        BY <3>2, <3>3, <4>2
      <4> QED BY <3>2, <4>1, <4>2
    <3>5. ASSUME NEW j \in 1 .. n + 1, fields[j].key \in DOMAIN s
          PROVE  \E m \in 1 .. Len(q) : q[m] = Item(fields[j], s[fields[j].key])
      <4>1. CASE j \in 1 .. n
        <5>1. PICK m \in 1 .. Len(p) : p[m] = Item(fields[j], s[fields[j].key])
          BY <2>1, <3>5, <4>1 DEF p
        <5> QED BY <3>2, <5>1
      <4>2. CASE j = n + 1
        BY <3>2, <4>2 DEF v
      <4> QED BY <2>1, <4>1, <4>2
    <3>6. Len(q) <= n + 1
      BY <2>1, <3>2 DEF p
    <3> QED BY <3>4, <3>5, <3>6 DEF q
  <2>6. CASE f.key \notin DOMAIN s
    <3>1. e = <<>>
      BY <2>6 DEF ItemsOf
    <3>2. q = p
      BY <2>2, <2>3, <3>1
    <3>3. ASSUME NEW m \in 1 .. Len(p) PROVE IsWritten(p[m], fields, s, n + 1)
      <4>1. IsWritten(p[m], fields, s, n)
        BY <2>1
      <4> QED BY <2>1, <4>1 DEF IsWritten
    <3>4. Len(p) <= n + 1
      <4>1. Len(p) <= n /\ Len(p) \in Nat
        BY <2>1, <2>3
      <4> QED BY <2>1, <4>1
    <3>5. ASSUME NEW j \in 1 .. n + 1, fields[j].key \in DOMAIN s
          PROVE  \E m \in 1 .. Len(p) : p[m] = Item(fields[j], s[fields[j].key])
      <4>1. j \in 1 .. n
        BY <2>1, <2>6, <3>5
      <4> QED BY <2>1, <3>5, <4>1
    <3> QED BY <3>2, <3>3, <3>4, <3>5
  <2> QED BY <2>5, <2>6
<1> HIDE DEF T
<1>5. T \in SUBSET Nat
  BY DEF T
<1>6. T = Nat
  BY <1>3, <1>4, <1>5, SetInduction
<1>7. Good(N)
  BY <1>1, <1>6 DEF T
<1>8. P[N] = Items(fields, s) /\ P[N] \in Seq(S)
  BY <1>1, <1>2 DEF Writing
<1> QED BY <1>7, <1>8

\* A member in range becomes a pair of at most ten bytes, which is a float in
\* its widest form if it is one.
LEMMA ItemOfMember ==
  ASSUME NEW f, f.kind \in Kinds, NEW v, InRange(f.kind, v)
  PROVE  LET item == Item(f, v)
         IN  /\ IsPair(item) /\ WidePair(item) = item
             /\ item.key = f.key /\ item.value = v
             /\ ItemSize(item) \in 0 .. 10
<1> DEFINE item == Item(f, v)
           major == Major(f.kind, v)
           key == f.key
<1>1. item = [key |-> key, value |-> v, major |-> major]
  BY DEF Item
<1>2. /\ major \in {"bool", "float", "uint", "nint"}
      /\ major = "uint" => v \in Nat
      /\ major = "nint" => v \in Int /\ v < 0
  <2>1. CASE f.kind \in {"bool", "float"}
    <3>1. major = f.kind
      <4>1. ASSUME NEW kind \in {"bool", "float"} PROVE Major(kind, v) = kind
        BY DEF Major, Signed
      <4> QED BY <2>1, <4>1
    <3> HIDE DEF major
    <3> QED BY <2>1, <3>1
  <2>2. CASE f.kind \in {"int8", "int32"}
    <3>1. v \in Int
      BY <2>2, CborAssumption DEF InRange, IntRange
    <3> QED BY <2>2, <3>1 DEF Major, Signed
  <2>3. CASE f.kind \in {"uint8", "uint32", "uint64"}
    <3>1. v \in Nat
      BY <2>3, CborAssumption DEF InRange, IntRange
    <3>2. major = "uint"
      BY <2>3 DEF Major, Signed
    <3> QED BY <3>1, <3>2
  <2>4. \/ f.kind \in {"bool", "float"} \/ f.kind \in {"int8", "int32"}
        \/ f.kind \in {"uint8", "uint32", "uint64"}
    BY DEF Kinds
  <2> HIDE DEF major
  <2> QED BY <2>1, <2>2, <2>3, <2>4
<1> HIDE DEF major, key
<1>3. IsPair(item)
  <2>1. item.key = key /\ item.value = v /\ item.major = major
    BY <1>1
  <2> QED BY <1>1, <1>2, <2>1 DEF IsPair
<1>4. WidePair(item) = item
  <2>1. item.major = major
    BY <1>1
  <2>2. WidePair(item) = [item EXCEPT !.major = item.major]
    BY <1>2, <2>1 DEF WidePair
  <2> QED BY <1>1, <2>2
<1>5. ItemSize(item) \in 0 .. 10
  <2>1. item.major = major /\ item.value = v
    BY <1>1
  <2> HIDE DEF item
  <2>2. CASE major = "bool"
    <3>1. ItemSize(item) = 1 + 1
      BY <2>1, <2>2 DEF ItemSize
    <3> QED BY <3>1
  <2>3. CASE major = "float"
    <3>1. ItemSize(item) = 1 + 9
      BY <2>1, <2>3 DEF ItemSize
    <3> QED BY <3>1
  <2>4. CASE major \in {"uint", "nint"}
    <3> DEFINE n == Magnitude(item)
    <3>1. n \in Nat
      BY <1>2, <2>1, <2>4 DEF Magnitude
    <3>2. UINT32_MAX \in Nat /\ UINT32_MAX > 65535
      BY CborAssumption
    <3>3. /\ item.major # "bool" /\ item.major # "float"
          /\ item.major # "float32" /\ item.major # "float16"
      BY <2>1, <2>4
    <3> HIDE DEF n
    <3>4. CASE n < 24
      BY <3>1, <3>2, <3>3, <3>4 DEF ItemSize, n
    <3>5. CASE 24 <= n /\ n < 256
      BY <3>1, <3>2, <3>3, <3>5 DEF ItemSize, n
    <3>6. CASE 256 <= n /\ n < 65536
      BY <3>1, <3>2, <3>3, <3>6 DEF ItemSize, n
    <3>7. CASE 65536 <= n /\ n <= UINT32_MAX
      BY <3>1, <3>2, <3>3, <3>7 DEF ItemSize, n
    <3>8. CASE n > UINT32_MAX
      BY <3>1, <3>2, <3>3, <3>8 DEF ItemSize, n
    <3> QED BY <3>1, <3>2, <3>4, <3>5, <3>6, <3>7, <3>8
  <2> QED BY <1>2, <2>2, <2>3, <2>4
<1>6. item.key = f.key /\ item.value = v
  BY <1>1 DEF key
<1> QED BY <1>3, <1>4, <1>5, <1>6

LEMMA FieldKeepsFunction ==
  ASSUME NEW a, IsState(a), NEW f, f.optional \in BOOLEAN,
         a.struct = [k \in DOMAIN a.struct |-> a.struct[k]]
  PROVE  LET d == DecodeField(a, f).struct
         IN  d = [k \in DOMAIN d |-> d[k]]
<1> DEFINE b == DecodeField(a, f)
           s == With(a.struct, f.key, Head(a.rest).value)
<1>1. s = [k \in DOMAIN s |-> s[k]]
  BY DEF With
<1> HIDE DEF s, b
<1>2. CASE ~a.ok
  <2>1. b = a
    BY <1>2, FieldCases DEF b
  <2> QED BY <2>1 DEF b
<1>3. CASE a.ok /\ NextFits(a.rest, f)
  <2>1. b = [ok |-> TRUE, rest |-> Tail(a.rest), struct |-> s]
    BY <1>3, FieldCases DEF b, s
  <2>2. b.struct = s
    BY <2>1
  <2> QED BY <1>1, <2>2 DEF b
<1>4. CASE a.ok /\ ~NextFits(a.rest, f)
  <2>1. b = [ok |-> f.optional, rest |-> a.rest, struct |-> a.struct]
    BY <1>4, FieldCases DEF b
  <2>2. b.struct = a.struct
    BY <2>1
  <2> QED BY <2>2 DEF b
<1> QED BY <1>2, <1>3, <1>4

\* What the decoder makes is a struct: a function on keys.
LEMMA DecodedIsFunction ==
  ASSUME NEW fields, IsFieldList(fields), NEW items
  PROVE  LET d == Decoded(fields, items).struct
         IN  d = [k \in DOMAIN d |-> d[k]]
<1> DEFINE N == Len(fields)
           IsStruct(d) == d = [k \in DOMAIN d |-> d[k]]
<1>1. N \in Nat /\ \A n \in 1 .. N : fields[n].optional \in BOOLEAN
  BY FieldShape
<1>2. PICK h : /\ Decoding(h, fields, items)
               /\ Decoded(fields, items) =
                    [ok |-> h[N].ok /\ h[N].rest = <<>>, struct |-> h[N].struct]
  BY DecodedByStates
<1>3. \A n \in 0 .. N : IsState(h[n])
  BY <1>2, StatesAreStates
<1> DEFINE T == {n \in Nat : n <= N => IsStruct(h[n].struct)}
<1>4. 0 \in T
  <2>1. h[0].struct = [k \in {} |-> 0]
    BY <1>2 DEF Decoding, Begin
  <2>2. IsStruct([k \in {} |-> 0])
    OBVIOUS
  <2> QED BY <2>1, <2>2
<1>5. ASSUME NEW n \in T PROVE n + 1 \in T
  <2> SUFFICES ASSUME n + 1 <= N PROVE IsStruct(h[n + 1].struct)
    OBVIOUS
  <2> DEFINE a == h[n]
             f == fields[n + 1]
  <2>1. n \in 0 .. N - 1 /\ n \in 0 .. N /\ n + 1 \in 1 .. N /\ IsStruct(a.struct)
    BY <1>1
  <2>2. h[n + 1] = DecodeField(a, f)
    BY <1>2, <2>1 DEF Decoding
  <2>3. IsState(a) /\ f.optional \in BOOLEAN
    BY <1>1, <1>3, <2>1
  <2> HIDE DEF a, f
  <2>4. IsStruct(DecodeField(a, f).struct)
    BY <2>1, <2>3, FieldKeepsFunction
  <2> QED BY <2>2, <2>4
<1> HIDE DEF T
<1>6. T \in SUBSET Nat
  BY DEF T
<1>7. T = Nat
  BY <1>4, <1>5, <1>6, SetInduction
<1>8. IsStruct(h[N].struct)
  <2>1. N \in T /\ N <= N
    BY <1>1, <1>7
  <2> HIDE DEF IsStruct, N
  <2> QED BY <2>1 DEF T
<1> DEFINE s == h[N].struct
           ok == h[N].ok /\ h[N].rest = <<>>
<1>9. Decoded(fields, items) = [ok |-> ok, struct |-> s]
  BY <1>2
<1>10. Decoded(fields, items).struct = s
  <2> HIDE DEF s, ok
  <2> QED BY <1>9
<1> QED BY <1>8, <1>10

\* A struct for these fields: it has a member for every field that is not
\* optional, and no member without a field.
IsStructOf(fields, s) ==
  /\ s = [k \in DOMAIN s |-> s[k]]
  /\ \A k \in DOMAIN s : \E n \in 1 .. Len(fields) : fields[n].key = k
  /\ \A n \in 1 .. Len(fields) : fields[n].key \in DOMAIN s \/ fields[n].optional

\* What the generated encoder writes for a struct in range, the decoder of the
\* same fields accepts, and it returns the same struct: every member at its key,
\* and no other.
THEOREM CodecRoundTrip ==
  ASSUME NEW fields, IsFieldList(fields), NEW s, IsStructOf(fields, s), InRanges(fields, s)
  PROVE  Decoded(fields, Items(fields, s)).ok /\ Decoded(fields, Items(fields, s)).struct = s
<1> DEFINE items == Items(fields, s)
           N == Len(fields)
           L == Len(items)
           d == Decoded(fields, items).struct
<1>1. N \in Nat /\ DOMAIN fields = 1 .. N /\ \A n \in 1 .. N : fields[n].kind \in Kinds
  BY FieldShape
<1>2. PICK X : items \in Seq(X)
  BY ItemsAre
<1>3. /\ \A m \in 1 .. L : IsWritten(items[m], fields, s, N)
      /\ \A j \in 1 .. N : fields[j].key \in DOMAIN s =>
           \E m \in 1 .. L : items[m] = Item(fields[j], s[fields[j].key])
  BY ItemsAre
<1>4. \A j \in 1 .. N : fields[j].key \in DOMAIN s =>
        InRange(fields[j].kind, s[fields[j].key])
  BY <1>1 DEF InRanges
<1> HIDE DEF items
<1>5. ASSUME NEW m \in 1 .. L
      PROVE  /\ IsPair(items[m]) /\ WidePair(items[m]) = items[m]
             /\ items[m].key \in DOMAIN s /\ items[m].value = s[items[m].key]
  <2>1. PICK j \in 1 .. N : /\ fields[j].key \in DOMAIN s
                            /\ items[m] = Item(fields[j], s[fields[j].key])
    BY <1>3 DEF IsWritten
  <2> QED BY <1>1, <1>4, <2>1, ItemOfMember
<1>6. ArePairs(items)
  BY <1>5 DEF ArePairs
<1>7. L \in Nat /\ DOMAIN items = 1 .. L
  BY <1>2
<1>8. Widened(items) = items
  <2>1. \A m \in DOMAIN items : WidePair(items[m]) = items[m]
    BY <1>5, <1>7
  <2>2. items = [m \in DOMAIN items |-> items[m]]
    BY <1>2
  <2> QED BY <2>1, <2>2 DEF Widened
<1>9. Decoded(fields, items).ok
  BY <1>2, <1>6, <1>8, AcceptsEncodings DEF items
<1>10. Says(d, fields, items, N, L)
  BY <1>2, <1>9, DecodedIsLaid
<1>11. DOMAIN d = DOMAIN s
  <2>1. DOMAIN d = {items[m].key : m \in 1 .. L}
    BY <1>10 DEF Says
  <2>2. ASSUME NEW k \in DOMAIN s PROVE \E m \in 1 .. L : items[m].key = k
    <3>1. PICK j \in 1 .. N : fields[j].key = k
      BY DEF IsStructOf
    <3>2. PICK m \in 1 .. L : items[m] = Item(fields[j], s[fields[j].key])
      BY <1>3, <3>1
    <3>3. items[m].key = k
      BY <1>1, <1>4, <3>1, <3>2, ItemOfMember
    <3> QED BY <3>3
  <2>3. ASSUME NEW k \in DOMAIN d PROVE k \in DOMAIN s
    <3>1. PICK m \in 1 .. L : k = items[m].key
      BY <2>1
    <3> QED BY <1>5, <3>1
  <2>4. ASSUME NEW k \in DOMAIN s PROVE k \in DOMAIN d
    <3>1. PICK m \in 1 .. L : k = items[m].key
      BY <2>2
    <3> QED BY <2>1, <3>1
  <2> QED BY <2>3, <2>4
<1>12. ASSUME NEW k \in DOMAIN s PROVE d[k] = s[k]
  <2>1. PICK m \in 1 .. L : items[m].key = k
    BY <1>10, <1>11 DEF Says
  <2> QED BY <1>5, <1>10, <2>1 DEF Says
<1>13. d = [k \in DOMAIN d |-> d[k]]
  BY DecodedIsFunction
<1>14. d = s
  <2> HIDE DEF d
  <2> QED BY <1>11, <1>12, <1>13 DEF IsStructOf
<1> QED BY <1>9, <1>14 DEF items

\* The pairs of a struct in range, and the size of their map.
LEMMA ItemsSize ==
  ASSUME NEW fields, IsFieldList(fields), NEW s, InRanges(fields, s)
  PROVE  MapSize(Items(fields, s)) \in MapOverhead .. MapOverhead + 10 * Len(fields)
<1> DEFINE items == Items(fields, s)
           N == Len(fields)
           L == Len(items)
<1>1. N \in Nat /\ DOMAIN fields = 1 .. N /\ \A n \in 1 .. N : fields[n].kind \in Kinds
  BY FieldShape
<1>2. PICK X : items \in Seq(X)
  BY ItemsAre
<1>3. L <= N /\ \A m \in 1 .. L : IsWritten(items[m], fields, s, N)
  BY ItemsAre
<1> HIDE DEF items
<1>4. L \in Nat /\ DOMAIN items = 1 .. L
  BY <1>2
<1>5. ASSUME NEW m \in 1 .. L PROVE ItemSize(items[m]) \in 0 .. 10
  <2>1. PICK j \in 1 .. N : /\ fields[j].key \in DOMAIN s
                            /\ items[m] = Item(fields[j], s[fields[j].key])
    BY <1>3 DEF IsWritten
  <2>2. InRange(fields[j].kind, s[fields[j].key])
    BY <1>1, <2>1 DEF InRanges
  <2> QED BY <1>1, <2>1, <2>2, ItemOfMember
<1>6. MapSize(items) \in MapOverhead .. MapOverhead + 10 * L
  BY <1>4, <1>5, MapSizeBounds
<1>7. MapOverhead \in Nat
  BY CborAssumption
<1> HIDE DEF L, N
<1> QED BY <1>1, <1>3, <1>4, <1>6, <1>7 DEF items, L, N
=============================================================================
