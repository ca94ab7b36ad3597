----------------------------- MODULE DataLemmas ------------------------------
(***************************************************************************)
(* Facts about numbers and sequences that the proofs about the encoder,    *)
(* the decoder, the CBOR maps and the line have in common.  Those about    *)
(* FlattenSeq are proved by induction, in a form without operators as      *)
(* parameters: a set of natural numbers that holds 0, and the successor of *)
(* each of its elements, holds them all.                                   *)
(***************************************************************************)
EXTENDS SequencesExt, Integers, Sequences, SequenceTheorems, WellFoundedInduction, TLAPS

-----------------------------------------------------------------------------
LEMMA LeastNat ==
  ASSUME NEW T \in SUBSET Nat, T # {}
  PROVE  \E n \in T : \A m \in T : n <= m
<1>1. PICK n \in T : \A m \in T : ~(<<m, n>> \in OpToRel(<, Nat))
  BY WFMin, NatLessThanWellFounded, Zenon
<1>2. \A m \in T : ~(m < n)
  BY <1>1 DEF OpToRel
<1> QED BY <1>2

LEMMA SetInduction ==
  ASSUME NEW T \in SUBSET Nat, 0 \in T, \A n \in T : n + 1 \in T
  PROVE  T = Nat
<1> DEFINE U == Nat \ T
<1> SUFFICES ASSUME U # {} PROVE FALSE
  OBVIOUS
<1>1. U \in SUBSET Nat
  OBVIOUS
<1> HIDE DEF U
<1>2. PICK n \in U : \A m \in U : n <= m
  BY <1>1, LeastNat
<1>3. n # 0 /\ n - 1 \in Nat /\ n - 1 \notin U
  BY <1>2 DEF U
<1>4. (n - 1) + 1 \in T
  BY <1>3 DEF U
<1> QED BY <1>2, <1>4 DEF U

-----------------------------------------------------------------------------
\* A number put together from two digits, and taken apart again.
LEMMA Quotient ==
  ASSUME NEW r \in Nat, r > 0, NEW high \in Nat, NEW low \in 0 .. r - 1
  PROVE  (high * r + low) \div r = high /\ (high * r + low) % r = low
<1> DEFINE x == high * r + low
           q == x \div r
           m == x % r
<1>1. high * r \in Nat /\ x \in Nat
  OBVIOUS
<1> HIDE DEF x
<1>2. q \in Int /\ m \in 0 .. r - 1 /\ x = r * q + m
  BY <1>1
<1>3. x = high * r + low
  BY DEF x
<1> HIDE DEF q, m
<1>4. \A a, b \in Int : a < b => a * r + r <= b * r
  <2> SUFFICES ASSUME NEW a \in Int, NEW b \in Int, a < b
               PROVE  a * r + r <= b * r
    OBVIOUS
  <2>1. (b - a) * r >= r
    OBVIOUS
  <2> QED BY <2>1
<1>5. ~(q < high)
  BY <1>2, <1>3, <1>4
<1>6. ~(high < q)
  BY <1>2, <1>3, <1>4
<1>7. q = high
  BY <1>2, <1>5, <1>6
<1>8. m = low
  BY <1>2, <1>3, <1>7
<1> QED BY <1>7, <1>8 DEF q, m, x

LEMMA TwoDigits ==
  ASSUME NEW r \in Nat, r > 0, NEW x \in 0 .. r * r - 1
  PROVE  /\ x \div r \in 0 .. r - 1 /\ x % r \in 0 .. r - 1
         /\ x = (x \div r) * r + (x % r)
<1> DEFINE q == x \div r
           m == x % r
<1>1. r * r \in Nat /\ x \in Nat /\ x < r * r
  OBVIOUS
<1>2. q \in Int /\ m \in 0 .. r - 1 /\ x = q * r + m
  BY <1>1
<1> HIDE DEF q, m
<1>3. q >= 0
  <2>1. q <= -1 => q * r <= -r
    BY <1>2
  <2> QED BY <1>1, <1>2, <2>1
<1>4. q < r
  <2>1. q >= r => q * r >= r * r
    BY <1>1, <1>2
  <2> QED BY <1>1, <1>2, <2>1
<1>5. q \in 0 .. r - 1
  BY <1>2, <1>3, <1>4
<1> QED BY <1>2, <1>5, Zenon DEF q, m

-----------------------------------------------------------------------------
LEMMA AppendTwo ==
  ASSUME NEW S, NEW s \in Seq(S), NEW x \in S, NEW y \in S
  PROVE  Append(Append(s, x), y) = s \o <<x, y>>
<1> DEFINE a == Append(s, x)
           b == Append(a, y)
           c == s \o <<x, y>>
           n == Len(s)
<1>1. /\ a \in Seq(S) /\ Len(a) = n + 1 /\ a[n + 1] = x /\ n \in Nat
      /\ \A k \in 1 .. n : a[k] = s[k]
  BY AppendProperties
<1> HIDE DEF a
<1>2. /\ b \in Seq(S) /\ Len(b) = (n + 1) + 1 /\ b[(n + 1) + 1] = y
      /\ \A k \in 1 .. n + 1 : b[k] = a[k]
  BY <1>1, AppendProperties
<1> HIDE DEF b
<1>3. <<x, y>> \in Seq(S) /\ Len(<<x, y>>) = 2
  OBVIOUS
<1>4. /\ c \in Seq(S) /\ Len(c) = n + 2
      /\ \A k \in 1 .. n + 2 : c[k] = IF k <= n THEN s[k] ELSE <<x, y>>[k - n]
  BY <1>1, <1>3, ConcatProperties
<1> HIDE DEF c, n
<1>5. c[n + 1] = x /\ c[n + 2] = y
  <2>1. /\ n + 1 \in 1 .. n + 2 /\ n + 2 \in 1 .. n + 2 /\ ~(n + 1 <= n)
        /\ ~(n + 2 <= n) /\ (n + 1) - n = 1 /\ (n + 2) - n = 2
    BY <1>1
  <2> QED BY <1>4, <2>1
<1>6. \A k \in 1 .. n + 2 : b[k] = c[k]
  BY <1>1, <1>2, <1>4, <1>5
<1>7. b = c
  BY <1>1, <1>2, <1>4, <1>6, SeqEqual
<1> QED BY <1>7 DEF a, b, c

-----------------------------------------------------------------------------
\* FlattenSeq concatenates the sequences of s one after the other: f is the
\* sequence of the intermediate results.
Flattens(f, s) ==
  f = [k \in 1 .. Len(s) |-> IF k = 1 THEN s[k] ELSE f[k - 1] \o s[k]]

LEMMA ResultsExist ==
  ASSUME NEW S, NEW s \in Seq(Seq(S))
  PROVE  \E f : Flattens(f, s)
<1> DEFINE Upto(f, n) ==
             f = [k \in 1 .. n |-> IF k = 1 THEN s[k] ELSE f[k - 1] \o s[k]]
           T == {n \in Nat : \E f : Upto(f, n)}
<1>1. 0 \in T
  <2>1. Upto([k \in 1 .. 0 |-> s], 0)
    OBVIOUS
  <2> QED BY <2>1
<1>2. ASSUME NEW n \in T PROVE n + 1 \in T
  <2>1. PICK f : Upto(f, n)
    OBVIOUS
  <2> DEFINE g == [k \in 1 .. n + 1 |->
                     IF k <= n THEN f[k]
                     ELSE IF k = 1 THEN s[k] ELSE f[k - 1] \o s[k]]
  <2>2. n \in Nat
    OBVIOUS
  <2>3. \A k \in 1 .. n + 1 :
          g[k] = IF k = 1 THEN s[k] ELSE g[k - 1] \o s[k]
    <3> SUFFICES ASSUME NEW k \in 1 .. n + 1
                 PROVE  g[k] = IF k = 1 THEN s[k] ELSE g[k - 1] \o s[k]
      OBVIOUS
    <3>1. k # 1 => k - 1 \in 1 .. n /\ g[k - 1] = f[k - 1]
      BY <2>2
    <3>2. CASE k <= n
      <4>1. k \in 1 .. n /\ g[k] = f[k]
        BY <2>2, <3>2
      <4>2. f[k] = IF k = 1 THEN s[k] ELSE f[k - 1] \o s[k]
        BY <2>1, <4>1
      <4> QED BY <3>1, <4>1, <4>2
    <3>3. CASE k = n + 1
      BY <2>2, <3>1, <3>3
    <3> QED BY <2>2, <3>2, <3>3
  <2>4. g = [k \in 1 .. n + 1 |-> g[k]]
    OBVIOUS
  <2> HIDE DEF g
  <2>5. Upto(g, n + 1)
    BY <2>3, <2>4
  <2> HIDE DEF Upto
  <2> QED BY <2>2, <2>5
<1> HIDE DEF T
<1>3. T = Nat
  <2>1. T \in SUBSET Nat
    BY DEF T
  <2> QED BY <1>1, <1>2, <2>1, SetInduction
<1>4. Len(s) \in T
  BY <1>3
<1> QED BY <1>4 DEF T, Flattens

LEMMA ResultsAreSequences ==
  ASSUME NEW S, NEW s \in Seq(Seq(S)), NEW f, Flattens(f, s)
  PROVE  \A k \in 1 .. Len(s) : f[k] \in Seq(S)
<1> DEFINE T == {n \in Nat : n \in 1 .. Len(s) => f[n] \in Seq(S)}
<1>1. 0 \in T
  OBVIOUS
<1>2. ASSUME NEW n \in T PROVE n + 1 \in T
  <2> SUFFICES ASSUME n + 1 \in 1 .. Len(s) PROVE f[n + 1] \in Seq(S)
    OBVIOUS
  <2>1. s[n + 1] \in Seq(S)
    OBVIOUS
  <2>2. CASE n = 0
    BY <2>1, <2>2 DEF Flattens
  <2>3. CASE n # 0
    <3>1. n \in 1 .. Len(s) /\ f[n] \in Seq(S)
      BY <2>3
    <3>2. f[n + 1] = IF n + 1 = 1 THEN s[n + 1] ELSE f[(n + 1) - 1] \o s[n + 1]
      BY DEF Flattens
    <3>3. n \in Nat /\ n + 1 # 1 /\ (n + 1) - 1 = n
      BY <2>3
    <3>4. f[n + 1] = f[n] \o s[n + 1]
      BY <3>2, <3>3
    <3> QED BY <2>1, <3>1, <3>4, ConcatProperties
  <2> QED BY <2>2, <2>3
<1> HIDE DEF T
<1>3. T \in SUBSET Nat
  BY DEF T
<1>4. T = Nat
  BY <1>1, <1>2, <1>3, SetInduction
<1> QED BY <1>4 DEF T

\* The results for a sequence are those for its beginning, and one more.
LEMMA ResultsAgree ==
  ASSUME NEW S, NEW s \in Seq(Seq(S)), NEW x \in Seq(S),
         NEW f, Flattens(f, s), NEW g, Flattens(g, Append(s, x))
  PROVE  \A k \in 1 .. Len(s) : f[k] = g[k]
<1> DEFINE T == {n \in Nat : n \in 1 .. Len(s) => f[n] = g[n]}
           t == Append(s, x)
<1>1. /\ t \in Seq(Seq(S)) /\ Len(t) = Len(s) + 1
      /\ \A k \in 1 .. Len(s) : t[k] = s[k]
  BY AppendProperties
<1>2. 0 \in T
  OBVIOUS
<1>3. ASSUME NEW n \in T PROVE n + 1 \in T
  <2> SUFFICES ASSUME n + 1 \in 1 .. Len(s) PROVE f[n + 1] = g[n + 1]
    OBVIOUS
  <2>1. n + 1 \in 1 .. Len(t) /\ t[n + 1] = s[n + 1]
    BY <1>1
  <2>2. f[n + 1] = IF n + 1 = 1 THEN s[n + 1] ELSE f[(n + 1) - 1] \o s[n + 1]
    BY DEF Flattens
  <2>3. g[n + 1] = IF n + 1 = 1 THEN t[n + 1] ELSE g[(n + 1) - 1] \o t[n + 1]
    BY <2>1 DEF Flattens
  <2>4. n # 0 => f[n] = g[n]
    OBVIOUS
  <2>5. n \in Nat /\ (n + 1) - 1 = n /\ (n + 1 = 1 <=> n = 0)
    OBVIOUS
  <2> QED BY <2>1, <2>2, <2>3, <2>4, <2>5
<1> HIDE DEF T
<1>4. T \in SUBSET Nat
  BY DEF T
<1>5. T = Nat
  BY <1>2, <1>3, <1>4, SetInduction
<1> QED BY <1>5 DEF T

LEMMA FlattenByResults ==
  ASSUME NEW S, NEW s \in Seq(Seq(S)), s # <<>>
  PROVE  \E f : Flattens(f, s) /\ FlattenSeq(s) = f[Len(s)]
<1> DEFINE c == CHOOSE f : Flattens(f, s)
<1>1. Flattens(c, s)
  BY ResultsExist
<1>2. Len(s) # 0
  BY EmptySeq
<1>3. FlattenSeq(s) = c[Len(s)]
  BY <1>2 DEF FlattenSeq, Flattens
<1> QED BY <1>1, <1>3

LEMMA FlattenEmpty == FlattenSeq(<<>>) = <<>>
BY DEF FlattenSeq

LEMMA FlattenType ==
  ASSUME NEW S, NEW s \in Seq(Seq(S))
  PROVE  FlattenSeq(s) \in Seq(S)
<1>1. CASE s = <<>>
  <2>1. <<>> \in Seq(S)
    OBVIOUS
  <2> QED BY <1>1, <2>1, FlattenEmpty
<1>2. CASE s # <<>>
  <2>1. PICK f : Flattens(f, s) /\ FlattenSeq(s) = f[Len(s)]
    BY <1>2, FlattenByResults
  <2>2. Len(s) \in 1 .. Len(s)
    BY <1>2, EmptySeq
  <2> QED BY <2>1, <2>2, ResultsAreSequences
<1> QED BY <1>1, <1>2

LEMMA FlattenAppend ==
  ASSUME NEW S, NEW s \in Seq(Seq(S)), NEW x \in Seq(S)
  PROVE  FlattenSeq(Append(s, x)) = FlattenSeq(s) \o x
<1> DEFINE t == Append(s, x)
           n == Len(s)
<1>1. /\ t \in Seq(Seq(S)) /\ Len(t) = n + 1 /\ t[n + 1] = x
      /\ n \in Nat /\ t # <<>>
  BY AppendProperties
<1>2. PICK g : Flattens(g, t) /\ FlattenSeq(t) = g[n + 1]
  BY <1>1, FlattenByResults
<1>3. g[n + 1] = IF n + 1 = 1 THEN x ELSE g[n] \o x
  <2>1. n + 1 \in 1 .. Len(t) /\ (n + 1) - 1 = n
    BY <1>1
  <2> QED BY <1>1, <1>2, <2>1 DEF Flattens
<1> HIDE DEF t
<1>4. CASE s = <<>>
  <2>1. n = 0
    BY <1>4
  <2>2. FlattenSeq(t) = x
    BY <1>2, <1>3, <2>1
  <2> QED BY <1>4, <2>2, FlattenEmpty, ConcatEmptySeq DEF t
<1>5. CASE s # <<>>
  <2>1. PICK f : Flattens(f, s) /\ FlattenSeq(s) = f[n]
    BY <1>5, FlattenByResults
  <2>2. n \in 1 .. n
    BY <1>5, EmptySeq
  <2>3. f[n] = g[n]
    BY <1>2, <2>1, <2>2, ResultsAgree DEF t
  <2> QED BY <1>1, <1>2, <1>3, <2>1, <2>2, <2>3 DEF t
<1> QED BY <1>4, <1>5
-----------------------------------------------------------------------------
\* Three sequences in a row, by their elements.
LEMMA ConcatThree ==
  ASSUME NEW S, NEW a \in Seq(S), NEW b \in Seq(S), NEW c \in Seq(S)
  PROVE  /\ (a \o b) \o c \in Seq(S)
         /\ Len((a \o b) \o c) = Len(a) + Len(b) + Len(c)
         /\ \A k \in 1 .. Len(a) : ((a \o b) \o c)[k] = a[k]
         /\ \A k \in 1 .. Len(b) : ((a \o b) \o c)[Len(a) + k] = b[k]
         /\ \A k \in 1 .. Len(c) : ((a \o b) \o c)[Len(a) + Len(b) + k] = c[k]
<1> DEFINE l == Len(a)
           m == Len(b)
           n == Len(c)
<1>1. l \in Nat /\ m \in Nat /\ n \in Nat
  OBVIOUS
<1>2. PICK ab : ab = a \o b
  OBVIOUS
<1>3. /\ ab \in Seq(S) /\ Len(ab) = l + m
      /\ \A k \in 1 .. l + m : ab[k] = IF k <= l THEN a[k] ELSE b[k - l]
  BY <1>2, ConcatProperties
<1>4. PICK s : s = ab \o c
  OBVIOUS
<1>5. /\ s \in Seq(S) /\ Len(s) = Len(ab) + n
      /\ \A k \in 1 .. Len(ab) + n : s[k] = IF k <= Len(ab) THEN ab[k] ELSE c[k - Len(ab)]
  <2>1. ab \in Seq(S)
    BY <1>3
  <2> QED BY <1>4, <2>1, ConcatProperties
<1> HIDE DEF l, m, n
<1>6. /\ s \in Seq(S) /\ Len(s) = l + m + n
      /\ \A k \in 1 .. l + m + n : s[k] = IF k <= l + m THEN ab[k] ELSE c[k - (l + m)]
  BY <1>1, <1>3, <1>5
<1>7. \A k \in 1 .. l : s[k] = a[k]
  BY <1>1, <1>3, <1>6
<1>8. \A k \in 1 .. m : s[l + k] = b[k]
  <2> SUFFICES ASSUME NEW k \in 1 .. m PROVE s[l + k] = b[k]
    OBVIOUS
  <2>1. /\ l + k \in 1 .. l + m /\ l + k \in 1 .. l + m + n
        /\ ~(l + k <= l) /\ (l + k) - l = k /\ l + k <= l + m
    BY <1>1
  <2> QED BY <1>3, <1>6, <2>1
<1>9. \A k \in 1 .. n : s[l + m + k] = c[k]
  <2> SUFFICES ASSUME NEW k \in 1 .. n PROVE s[l + m + k] = c[k]
    OBVIOUS
  <2>1. /\ l + m + k \in 1 .. l + m + n
        /\ ~(l + m + k <= l + m) /\ (l + m + k) - (l + m) = k
    BY <1>1
  <2> QED BY <1>6, <2>1
<1>10. s = (a \o b) \o c
  BY <1>2, <1>4
<1> QED BY <1>6, <1>7, <1>8, <1>9, <1>10 DEF l, m, n

-----------------------------------------------------------------------------
\* The first k elements of a sequence of sequences, and where they end in the
\* flattened sequence.
Parts(s, k) == [m \in 1 .. k |-> s[m]]
Upto(s, k) == FlattenSeq(Parts(s, k))

LEMMA UptoNext ==
  ASSUME NEW S, NEW s \in Seq(Seq(S)), NEW k \in 0 .. Len(s)
  PROVE  /\ Upto(s, k) \in Seq(S) /\ Len(Upto(s, k)) \in Nat
         /\ k < Len(s) =>
              /\ Upto(s, k + 1) = Upto(s, k) \o s[k + 1]
              /\ Len(Upto(s, k + 1)) = Len(Upto(s, k)) + Len(s[k + 1])
              /\ s[k + 1] \in Seq(S) /\ Len(s[k + 1]) \in Nat
<1> DEFINE a == Parts(s, k)
           b == Parts(s, k + 1)
           x == s[k + 1]
<1>1. k \in Nat /\ Len(s) \in Nat /\ \A m \in 1 .. Len(s) : s[m] \in Seq(S)
  OBVIOUS
<1>2. a \in [1 .. k -> Seq(S)]
  BY <1>1 DEF Parts
<1>3. a \in Seq(Seq(S)) /\ Len(a) = k
  BY <1>1, <1>2, SeqDef
<1>4. Upto(s, k) \in Seq(S)
  BY <1>3, FlattenType DEF Upto
<1>5. ASSUME k < Len(s)
      PROVE  Upto(s, k + 1) = Upto(s, k) \o x /\ x \in Seq(S)
  <2>1. b \in [1 .. k + 1 -> Seq(S)] /\ k + 1 \in Nat
    BY <1>1, <1>5 DEF Parts
  <2>2. b \in Seq(Seq(S)) /\ Len(b) = k + 1
    BY <2>1, SeqDef
  <2>3. x \in Seq(S)
    BY <1>1, <1>5
  <2>4. \A m \in 1 .. k + 1 : b[m] = IF m = k + 1 THEN x ELSE a[m]
    BY <1>1 DEF Parts
  <2> HIDE DEF a, b, x
  <2>5. /\ Append(a, x) \in Seq(Seq(S)) /\ Len(Append(a, x)) = k + 1
        /\ Append(a, x)[k + 1] = x
        /\ \A m \in 1 .. k : Append(a, x)[m] = a[m]
    BY <1>3, <2>3, AppendProperties
  <2>6. \A m \in 1 .. k + 1 : b[m] = Append(a, x)[m]
    BY <1>1, <2>4, <2>5
  <2>7. b = Append(a, x)
    BY <2>2, <2>5, <2>6, SeqEqual
  <2> QED BY <1>3, <2>3, <2>7, FlattenAppend DEF Upto, a, b
<1>6. ASSUME k < Len(s)
      PROVE  /\ Len(Upto(s, k + 1)) = Len(Upto(s, k)) + Len(x)
             /\ Len(x) \in Nat
  <2> HIDE DEF x
  <2>1. Len(Upto(s, k) \o x) = Len(Upto(s, k)) + Len(x)
    BY <1>4, <1>5, <1>6, ConcatProperties
  <2> QED BY <1>5, <1>6, <2>1
<1>7. Len(Upto(s, k)) \in Nat
  BY <1>4
<1> QED BY <1>4, <1>5, <1>6, <1>7

\* The elements of the k-th part follow those of the parts before it.
LEMMA FlattenAt ==
  ASSUME NEW S, NEW s \in Seq(Seq(S)), NEW k \in 0 .. Len(s) - 1,
         NEW i \in 1 .. Len(s[k + 1])
  PROVE  /\ Len(Upto(s, k)) + i \in 1 .. Len(FlattenSeq(s))
         /\ FlattenSeq(s)[Len(Upto(s, k)) + i] = s[k + 1][i]
<1> DEFINE n == Len(s)
           at == Len(Upto(s, k)) + i
           T == {m \in Nat : (k + 1) + m <= n =>
                   /\ at \in 1 .. Len(Upto(s, (k + 1) + m))
                   /\ Upto(s, (k + 1) + m)[at] = s[k + 1][i]}
<1>1. n \in Nat /\ k \in 0 .. n /\ k \in Nat /\ k < n /\ i \in Nat /\ i >= 1
  OBVIOUS
<1>2. /\ Upto(s, k) \in Seq(S) /\ Len(Upto(s, k)) \in Nat
      /\ Upto(s, k + 1) = Upto(s, k) \o s[k + 1]
      /\ Len(Upto(s, k + 1)) = Len(Upto(s, k)) + Len(s[k + 1])
      /\ s[k + 1] \in Seq(S) /\ Len(s[k + 1]) \in Nat
  BY <1>1, UptoNext
<1>3. at \in Nat /\ at \in 1 .. Len(Upto(s, k + 1)) /\ at > Len(Upto(s, k))
  BY <1>1, <1>2
<1>4. Upto(s, k + 1)[at] = s[k + 1][i]
  <2> DEFINE a == Upto(s, k)
             b == s[k + 1]
  <2>1. /\ a \in Seq(S) /\ b \in Seq(S) /\ Len(a) \in Nat /\ i \in 1 .. Len(b)
        /\ at = Len(a) + i
    BY <1>2
  <2>2. Upto(s, k + 1) = a \o b
    BY <1>2
  <2> HIDE DEF a, b, at
  <2>3. at \in 1 .. Len(a) + Len(b) /\ ~(at <= Len(a)) /\ at - Len(a) = i
    BY <1>1, <2>1
  <2>4. (a \o b)[at] = b[i]
    BY <2>1, <2>3, ConcatProperties
  <2> QED BY <2>2, <2>4 DEF b
<1>5. 0 \in T
  BY <1>1, <1>3, <1>4
<1>6. ASSUME NEW m \in T PROVE m + 1 \in T
  <2> SUFFICES ASSUME (k + 1) + (m + 1) <= n
               PROVE  /\ at \in 1 .. Len(Upto(s, (k + 1) + (m + 1)))
                      /\ Upto(s, (k + 1) + (m + 1))[at] = s[k + 1][i]
    OBVIOUS
  <2> DEFINE j == (k + 1) + m
             a == Upto(s, j)
             b == s[j + 1]
  <2>1. j \in 0 .. n /\ j < n /\ j + 1 = (k + 1) + (m + 1) /\ j <= n
    BY <1>1
  <2>2. at \in 1 .. Len(a) /\ a[at] = s[k + 1][i]
    BY <2>1
  <2> HIDE DEF j, at
  <2>3. /\ a \in Seq(S) /\ Len(a) \in Nat /\ b \in Seq(S) /\ Len(b) \in Nat
        /\ Upto(s, j + 1) = a \o b /\ Len(Upto(s, j + 1)) = Len(a) + Len(b)
    BY <2>1, UptoNext
  <2> HIDE DEF a, b
  <2>4. at \in 1 .. Len(a) + Len(b) /\ at <= Len(a)
    BY <2>2, <2>3
  <2>5. (a \o b)[at] = a[at]
    BY <2>3, <2>4, ConcatProperties
  <2> QED BY <2>1, <2>2, <2>3, <2>4, <2>5
<1> HIDE DEF T
<1>7. T \in SUBSET Nat
  BY DEF T
<1>8. T = Nat
  BY <1>5, <1>6, <1>7, SetInduction
<1>9. n - (k + 1) \in Nat /\ (k + 1) + (n - (k + 1)) = n
  BY <1>1
<1>10. n - (k + 1) \in T
  BY <1>8, <1>9
<1>11. at \in 1 .. Len(Upto(s, n)) /\ Upto(s, n)[at] = s[k + 1][i]
  BY <1>1, <1>9, <1>10 DEF T
<1>12. Parts(s, n) = s
  <2>1. s \in [1 .. n -> Seq(S)]
    OBVIOUS
  <2> QED BY <2>1 DEF Parts
<1> QED BY <1>11, <1>12 DEF Upto
=============================================================================
