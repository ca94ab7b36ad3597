---------------------------- MODULE MCMapDecoder ----------------------------
(***************************************************************************)
(* Every generated decoder on the maps that differ in at most one place    *)
(* from a map that the protocol allows: any choice of optional members,    *)
(* each value the least or the largest of its range; then a map that is    *)
(* cut short or followed by more; and, of a map with the largest values,   *)
(* one pair dropped, repeated, moved, unknown or with another value.       *)
(***************************************************************************)
EXTENDS MapDecoder
LOCAL INSTANCE SequencesExt

Enc == INSTANCE CborEncode
Dec == INSTANCE CborDecode

MCExpected == Dec!Payloads
MCWritten == Enc!Payloads

\* Both sides of the codec were generated from the same lists of fields.
ASSUME SameFields == MCWritten = MCExpected

Least(kind) ==
  CASE kind = "bool" -> FALSE
    [] kind = "float" -> CHOOSE x \in Floats : TRUE
    [] kind = "int8" -> -128
    [] kind = "int32" -> -INT32_MAX - 1
    [] OTHER -> 0

Largest(kind) ==
  CASE kind = "bool" -> TRUE
    [] kind = "float" -> CHOOSE x \in Floats : TRUE
    [] kind = "int8" -> 127
    [] kind = "uint8" -> 255
    [] kind = "int32" -> INT32_MAX
    [] kind = "uint32" -> UINT32_MAX
    [] kind = "uint64" -> UINT64_MAX

Allowed(fields, sizes) ==
  {LET chosen == SelectSeq(fields, LAMBDA f : ~f.optional \/ f.key \in present)
   IN  [n \in DOMAIN chosen |->
          LET f == chosen[n]
              value == IF largest THEN Largest(f.kind) ELSE Least(f.kind)
          IN  [key |-> f.key, value |-> value, major |-> Major(f.kind, value)]]
   : present \in SUBSET OptionalKeys(fields), largest \in sizes}

\* The same key with a value just outside some range, or of another type (of
\* which the value does not matter: TLC does not compare booleans with numbers).
WithOther(pair) ==
  {[pair EXCEPT !.value = IF pair.major = "bool" THEN Leftover ELSE v,
                !.major = IF v < 0 THEN "nint" ELSE "uint"] :
     v \in {-INT32_MAX - 2, -129, 128, 256, INT32_MAX + 1, UINT32_MAX + 1}}
  \cup {[pair EXCEPT !.value = CHOOSE x \in Floats : TRUE, !.major = "float16"]}
  \cup {[pair EXCEPT !.value = Leftover, !.major = major] :
          major \in {"bool", "tstr"} \ {pair.major}}

Unknown == [key |-> 9, value |-> 0, major |-> "uint"]

Edits(map) ==
  {RemoveAt(map, n) : n \in DOMAIN map}
  \cup {InsertAt(map, n, map[n]) : n \in DOMAIN map}
  \cup {Append(map, map[n]) : n \in DOMAIN map}
  \cup {[map EXCEPT ![n] = map[m], ![m] = map[n]] : n, m \in DOMAIN map}
  \cup {InsertAt(map, n, Unknown) : n \in 1 .. Len(map) + 1}
  \cup UNION {{[map EXCEPT ![n] = pair] : pair \in WithOther(map[n])} :
                n \in DOMAIN map}

MCInputs(p) ==
  LET allowed == Allowed(MCExpected[p], BOOLEAN)
      edited == UNION {Edits(map) : map \in Allowed(MCExpected[p], {TRUE})}
      complete == allowed \cup edited
  IN  {[pairs |-> map, count |-> Len(map)] : map \in complete}
      \cup {[pairs |-> map, count |-> Len(map) + 1] : map \in allowed}
      \cup {[pairs |-> Append(map, Unknown), count |-> Len(map)] : map \in allowed}
=============================================================================
