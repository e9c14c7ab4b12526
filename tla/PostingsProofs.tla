--------------------------- MODULE PostingsProofs ---------------------------
(***************************************************************************)
(* What WritePostings writes is what TermIterator reads, for every width,  *)
(* every posting list and every layout of a field.                         *)
(*                                                                         *)
(* The functions of Postings are recursive: the first section shows, by    *)
(* the least number of a set, that induction holds and that a function     *)
(* with a decreasing measure exists.                                       *)
(***************************************************************************)
EXTENDS Postings, SequenceTheorems, FiniteSetTheorems, WellFoundedInduction, NaturalsInduction, TLAPS

-----------------------------------------------------------------------------
(* Induction.                                                              *)

\* A set of numbers that is not empty has a least one, and Min is it.
LEMMA LeastNumber ==
    ASSUME NEW T \in SUBSET Nat, T # {}
    PROVE  /\ \E x \in T : \A y \in T : x <= y
           /\ Min(T) \in T /\ \A y \in T : Min(T) <= y
<1> DEFINE Less == {p \in Nat \X Nat : p[1] < p[2]}
<1>1. IsWellFoundedOn(Less, Nat)
  BY NatLessThanWellFounded DEF OpToRel
<1> HIDE DEF Less
<1>2. PICK x \in T : \A y \in T : <<y, x>> \notin Less
  BY <1>1, WFMin
<1>3. ASSUME NEW y \in T PROVE x <= y
  <2>1. x \in Nat /\ y \in Nat /\ <<y, x>> \notin Less
    BY <1>2
  <2>2. ~(y < x)
    BY <2>1, Zenon DEF Less
  <2>3. QED  BY <2>1, <2>2
<1>4. QED  BY <1>3 DEF Min

\* Course-of-values induction, about a set.
LEMMA StrongInduction ==
    ASSUME NEW T, \A n \in Nat : (\A k \in Nat : k < n => k \in T) => n \in T
    PROVE  \A n \in Nat : n \in T
<1> SUFFICES ASSUME NEW n \in Nat, n \notin T PROVE FALSE
  OBVIOUS
<1>1. PICK x \in Nat \ T : \A y \in Nat \ T : x <= y
  <2>1. Nat \ T \in SUBSET Nat /\ Nat \ T # {}
    OBVIOUS
  <2>2. QED  BY <2>1, LeastNumber
<1>2. \A k \in Nat : k < x => k \in T
  BY <1>1
<1>3. QED  BY <1>1, <1>2

\* Induction, about a set.
LEMMA Induction ==
    ASSUME NEW T, 0 \in T, \A n \in Nat : n \in T => n + 1 \in T
    PROVE  \A n \in Nat : n \in T
<1>1. ASSUME NEW n \in Nat, \A k \in Nat : k < n => k \in T PROVE n \in T
  <2>1. CASE n = 0
    BY <2>1
  <2>2. CASE n # 0
    <3>1. n - 1 \in Nat /\ n - 1 < n /\ n = (n - 1) + 1
      BY <2>2
    <3>2. n - 1 \in T
      BY <1>1, <3>1
    <3>3. QED  BY <3>1, <3>2
  <2>3. QED  BY <2>1, <2>2
<1>2. QED  BY <1>1, StrongInduction

-----------------------------------------------------------------------------
(* Counting.                                                               *)

\* A sequence without repetitions has as many elements as it is long.
LEMMA CountOnce ==
    ASSUME NEW n \in Nat, NEW f, NEW T, f \in [1 .. n -> T],
           \A i, j \in 1 .. n : i < j => f[i] # f[j]
    PROVE  LET R == {f[i] : i \in 1 .. n}
           IN  IsFiniteSet(R) /\ Cardinality(R) = n
<1> DEFINE R == {f[i] : i \in 1 .. n}
<1>1. \A i, j \in 1 .. n : f[i] = f[j] => i = j
  OBVIOUS
<1>2. f \in [1 .. n -> R]
  OBVIOUS
<1>3. f \in Bijection(1 .. n, R)
  BY <1>1, <1>2 DEF Bijection, Injection, IsInjective, Surjection
<1>4. ExistsBijection(1 .. n, R)
  BY <1>3 DEF ExistsBijection
<1>5. IsFiniteSet(1 .. n) /\ Cardinality(1 .. n) = n
  BY FS_Interval
<1>6. QED  BY <1>4, <1>5, FS_Bijection

\* A function without repetitions into a finite set of the same size reaches
\* all of it.
LEMMA FillsAll ==
    ASSUME NEW S, IsFiniteSet(S), NEW f \in [1 .. Cardinality(S) -> S],
           \A i, j \in DOMAIN f : i < j => f[i] # f[j]
    PROVE  \A x \in S : \E i \in DOMAIN f : f[i] = x
<1> DEFINE n == Cardinality(S)
<1>1. n \in Nat
  BY FS_CardinalityType
<1>2. \A i, j \in 1 .. n : f[i] = f[j] => i = j
  BY <1>1
<1>3. f \in Injection(1 .. n, S)
  BY <1>2 DEF Injection, IsInjective
<1>4. Cardinality(1 .. n) = n
  BY <1>1, FS_Interval
<1>5. f \in Surjection(1 .. n, S)
  BY <1>3, <1>4, FS_Injection
<1>6. QED  BY <1>5 DEF Surjection

-----------------------------------------------------------------------------
(* Recursion: a function on D whose value at x is base[x] where the        *)
(* recursion stops, and a step from the value at P[x] where it does not.   *)

\* A measure m decreases from x to P[x].
Decreases(D, S, Stop, base, P, G, m) ==
    /\ Stop \in SUBSET D /\ base \in [D -> S]
    /\ P \in [D \ Stop -> D] /\ G \in [(D \ Stop) \X S -> S]
    /\ m \in [D -> Nat] /\ \A x \in D \ Stop : m[P[x]] < m[x]

\* f does what the recursion says.
Unfolds(f, D, Stop, base, P, G) ==
    \A x \in D : f[x] = IF x \in Stop THEN base[x] ELSE G[<<x, f[P[x]]>>]

\* If a measure decreases, the function exists.
LEMMA Recursion ==
    ASSUME NEW D, NEW S, NEW Stop, NEW base, NEW P, NEW G, NEW m,
           Decreases(D, S, Stop, base, P, G, m)
    PROVE  \E f \in [D -> S] : Unfolds(f, D, Stop, base, P, G)
<1> DEFINE Step(f, x) == IF x \in Stop THEN base[x] ELSE G[<<x, f[P[x]]>>]
           Solves(f, n) == \A x \in D : m[x] < n => f[x] = Step(f, x)
           T == {n \in Nat : \E f \in [D -> S] : Solves(f, n)}
<1> USE DEF Decreases
<1>1. \A n \in Nat : \E f \in [D -> S] : Solves(f, n)
  <2>1. 0 \in T
    <3>1. Solves(base, 0)
      OBVIOUS
    <3>2. QED  BY <3>1
  <2>2. ASSUME NEW n \in Nat, n \in T PROVE n + 1 \in T
    <3>1. PICK f \in [D -> S] : Solves(f, n)
      BY <2>2
    <3> DEFINE g == [x \in D |-> IF m[x] < n THEN f[x] ELSE Step(f, x)]
    <3>2. \A x \in D : Step(f, x) \in S
      OBVIOUS
    <3>3. g \in [D -> S]
      BY <3>2
    <3>4. ASSUME NEW x \in D, m[x] < n + 1 PROVE g[x] = Step(g, x)
      <4>1. g[x] = Step(f, x)
        BY <3>1
      <4>2. CASE x \in Stop
        BY <4>1, <4>2
      <4>3. CASE x \notin Stop
        <5>1. P[x] \in D /\ m[P[x]] \in Nat /\ m[x] \in Nat /\ m[P[x]] < m[x]
          BY <4>3
        <5>2. m[P[x]] < n
          BY <3>4, <5>1
        <5>3. g[P[x]] = f[P[x]]
          BY <5>1, <5>2
        <5>4. QED  BY <4>1, <4>3, <5>3
      <4>4. QED  BY <4>2, <4>3
    <3>5. Solves(g, n + 1)
      BY <3>4
    <3>6. n + 1 \in Nat
      OBVIOUS
    <3> HIDE DEF g, Solves
    <3>7. QED  BY <3>3, <3>5, <3>6
  <2> HIDE DEF T
  <2>3. \A n \in Nat : n \in T
    BY <2>1, <2>2, Induction
  <2>4. QED  BY <2>3 DEF T
<1>2. ASSUME NEW n \in Nat, NEW f \in [D -> S], NEW g \in [D -> S], Solves(f, n), Solves(g, n)
      PROVE  \A x \in D : m[x] < n => f[x] = g[x]
  <2> DEFINE U == {k \in Nat : \A x \in D : m[x] = k /\ k < n => f[x] = g[x]}
  <2>1. ASSUME NEW k \in Nat, \A j \in Nat : j < k => j \in U PROVE k \in U
    <3>1. ASSUME NEW x \in D, m[x] = k, k < n PROVE f[x] = g[x]
      <4>1. f[x] = Step(f, x) /\ g[x] = Step(g, x)
        BY <1>2, <3>1
      <4>2. CASE x \notin Stop
        <5>1. P[x] \in D /\ m[P[x]] \in Nat /\ m[P[x]] < k
          BY <3>1, <4>2
        <5>2. m[P[x]] \in U /\ m[P[x]] < n
          BY <2>1, <3>1, <5>1
        <5>3. f[P[x]] = g[P[x]]
          BY <5>1, <5>2
        <5>4. QED  BY <4>1, <4>2, <5>3
      <4>3. QED  BY <4>1, <4>2
    <3>2. QED  BY <3>1
  <2> HIDE DEF U
  <2>2. \A k \in Nat : k \in U
    BY <2>1, StrongInduction
  <2>3. QED  BY <2>2 DEF U
<1> DEFINE F(n) == CHOOSE f \in [D -> S] : Solves(f, n)
           h == [x \in D |-> F(m[x] + 1)[x]]
<1>3. \A n \in Nat : F(n) \in [D -> S] /\ Solves(F(n), n)
  BY <1>1
<1> HIDE DEF F
<1>4. h \in [D -> S]
  BY <1>3
<1>5. ASSUME NEW x \in D PROVE h[x] = Step(h, x)
  <2>1. m[x] + 1 \in Nat /\ m[x] < m[x] + 1
    OBVIOUS
  <2>2. h[x] = Step(F(m[x] + 1), x)
    BY <1>3, <2>1
  <2>3. CASE x \notin Stop
    <3>1. P[x] \in D /\ m[P[x]] + 1 \in Nat /\ m[P[x]] < m[x] /\ m[P[x]] < m[P[x]] + 1
      BY <2>3
    <3>2. Solves(F(m[x] + 1), m[P[x]] + 1)
      BY <1>3, <2>1, <3>1
    <3>3. F(m[x] + 1)[P[x]] = F(m[P[x]] + 1)[P[x]]
      <4> HIDE DEF Solves
      <4>1. \A y \in D : m[y] < m[P[x]] + 1 => F(m[x] + 1)[y] = F(m[P[x]] + 1)[y]
        BY <1>2, <1>3, <2>1, <3>1, <3>2
      <4>2. QED  BY <3>1, <4>1
    <3>4. h[P[x]] = F(m[x] + 1)[P[x]]
      BY <3>1, <3>3
    <3>5. QED  BY <2>2, <2>3, <3>4
  <2>4. QED  BY <2>2, <2>3
<1>6. QED  BY <1>4, <1>5 DEF Unfolds

-----------------------------------------------------------------------------
(* Powers of two.                                                          *)

LEMMA TwoToDef ==
    /\ TwoTo \in [Nat -> Nat] /\ TwoTo[0] = 1
    /\ \A n \in Nat : TwoTo[n + 1] = 2 * TwoTo[n] /\ TwoTo[n] > 0
<1> DEFINE base == [n \in Nat |-> 1]
           P == [n \in Nat \ {0} |-> n - 1]
           G == [p \in (Nat \ {0}) \X Nat |-> 2 * p[2]]
           m == [n \in Nat |-> n]
           Def(f) == [n \in Nat |-> IF n = 0 THEN 1 ELSE 2 * f[n - 1]]
<1>1. PICK f \in [Nat -> Nat] : Unfolds(f, Nat, {0}, base, P, G)
  <2>1. Decreases(Nat, Nat, {0}, base, P, G, m)
    BY DEF Decreases
  <2> HIDE DEF base, P, G, m
  <2>2. QED  BY <2>1, Recursion
<1>2. f = Def(f)
  <2>1. ASSUME NEW n \in Nat PROVE f[n] = IF n = 0 THEN 1 ELSE 2 * f[n - 1]
    <3>1. n # 0 => n - 1 \in Nat /\ P[n] = n - 1 /\ f[P[n]] \in Nat
      OBVIOUS
    <3>2. n # 0 => <<n, f[P[n]]>> \in (Nat \ {0}) \X Nat
      BY <3>1
    <3>3. QED  BY <1>1, <3>1, <3>2 DEF Unfolds
  <2>2. QED  BY <2>1
<1>3. TwoTo = Def(TwoTo)
  BY <1>2 DEF TwoTo
<1>4. \A n \in Nat : TwoTo[n] = IF n = 0 THEN 1 ELSE 2 * TwoTo[n - 1]
  BY <1>3
<1>5. TwoTo[0] = 1 /\ \A n \in Nat : TwoTo[n + 1] = 2 * TwoTo[n]
  BY <1>4
<1> DEFINE T == {n \in Nat : TwoTo[n] \in Nat /\ TwoTo[n] > 0}
<1>6. \A n \in Nat : n \in T
  <2>1. 0 \in T /\ \A n \in Nat : n \in T => n + 1 \in T
    BY <1>5
  <2> HIDE DEF T
  <2>2. QED  BY <2>1, Induction
<1>7. QED  BY <1>3, <1>5, <1>6

LEMMA TwoToSum ==
    ASSUME NEW a \in Nat, NEW b \in Nat
    PROVE  TwoTo[a + b] = TwoTo[a] * TwoTo[b]
<1> DEFINE T == {n \in Nat : TwoTo[a + n] = TwoTo[a] * TwoTo[n]}
<1>1. 0 \in T
  BY TwoToDef
<1>2. ASSUME NEW n \in Nat, n \in T PROVE n + 1 \in T
  <2>1. TwoTo[a + n + 1] = 2 * (TwoTo[a] * TwoTo[n]) /\ TwoTo[n + 1] = 2 * TwoTo[n]
    BY <1>2, TwoToDef
  <2>2. TwoTo[a] \in Nat /\ TwoTo[n] \in Nat
    BY TwoToDef
  <2>3. 2 * (TwoTo[a] * TwoTo[n]) = TwoTo[a] * (2 * TwoTo[n])
    BY <2>2
  <2>4. a + (n + 1) = a + n + 1
    OBVIOUS
  <2>5. QED  BY <2>1, <2>3, <2>4
<1> HIDE DEF T
<1>3. \A n \in Nat : n \in T
  BY <1>1, <1>2, Induction
<1>4. QED  BY <1>3 DEF T

\* Of two powers, the smaller one has the smaller exponent.
LEMMA TwoToOrder ==
    ASSUME NEW a \in Nat, NEW b \in Nat
    PROVE  /\ a <= b => TwoTo[a] <= TwoTo[b]
           /\ TwoTo[a] < TwoTo[b] => a < b
<1>1. ASSUME NEW i \in Nat, NEW j \in Nat, i <= j PROVE TwoTo[i] <= TwoTo[j]
  <2>1. j - i \in Nat /\ j = i + (j - i)
    BY <1>1
  <2>2. TwoTo[j] = TwoTo[i] * TwoTo[j - i]
    BY <2>1, TwoToSum
  <2>3. TwoTo[i] \in Nat /\ TwoTo[j - i] \in Nat /\ TwoTo[j - i] >= 1
    BY <2>1, TwoToDef
  <2>4. QED  BY <2>2, <2>3
<1>2. TwoTo[a] \in Nat /\ TwoTo[b] \in Nat
  BY TwoToDef
<1>3. QED  BY <1>1, <1>2

\* The widths, for arithmetic.
LEMMA Widths ==
    /\ GroupBits \in Nat /\ GroupBits > 0 /\ Width \in Nat /\ Width > 0
    /\ More \in Nat /\ More >= 2 /\ More = TwoTo[GroupBits]
    /\ ByteMax \in Nat /\ ByteMax + 1 = 2 * More
    /\ WordMax \in Nat /\ WordMax >= 1 /\ WordMax + 1 = TwoTo[Width]
    /\ kNoMoreDocs = WordMax /\ kNoPosition \in Nat
<1>1. \A n \in Nat : n > 0 => TwoTo[n] \in Nat /\ TwoTo[n] >= 2
  <2> TAKE n \in Nat
  <2>1. TwoTo[1] = 2
    BY TwoToDef
  <2>2. n > 0 => TwoTo[1] <= TwoTo[n]
    BY TwoToOrder
  <2>3. QED  BY <2>1, <2>2, TwoToDef
<1>2. More \in Nat /\ More >= 2
  BY <1>1, WidthAssumption
<1>3. TwoTo[Width] \in Nat /\ TwoTo[Width] >= 2
  BY <1>1, WidthAssumption
<1>4. ByteMax \in Nat /\ ByteMax + 1 = 2 * More
  BY <1>2 DEF ByteMax
<1>5. kNoPosition \in Nat
  BY <1>2 DEF ByteMax, kNoPosition
<1>6. WordMax \in Nat /\ WordMax >= 1 /\ WordMax + 1 = TwoTo[Width]
  BY <1>3 DEF WordMax
<1>7. QED  BY <1>2, <1>4, <1>5, <1>6, WidthAssumption DEF kNoMoreDocs

-----------------------------------------------------------------------------
(* Varbyte codes.                                                          *)

Byte == 0 .. ByteMax

LEMMA BytesAreNumbers ==
    ASSUME NEW bytes \in Seq(Byte)
    PROVE  /\ Len(bytes) \in Nat /\ More \in Nat
           /\ \A i \in 1 .. Len(bytes) : bytes[i] \in Byte /\ bytes[i] \in Nat
<1>1. Byte \subseteq Nat /\ More \in Nat
  BY Widths DEF Byte
<1>2. Len(bytes) \in Nat /\ \A i \in 1 .. Len(bytes) : bytes[i] \in Byte
  BY LenProperties, ElementOfSeq
<1>3. QED  BY <1>1, <1>2

\* What is left of a number behind its first group is smaller.
LEMMA Groups ==
    ASSUME NEW v \in Nat
    PROVE  /\ v % More \in Nat /\ v % More < More /\ v \div More \in Nat
           /\ v = More * (v \div More) + (v % More)
           /\ v >= More => v \div More < v /\ v \div More >= 1
           /\ v < More => v % More = v
<1>1. More \in Nat /\ More >= 2
  BY Widths
<1>2. /\ v % More \in Nat /\ v % More < More /\ v \div More \in Nat
      /\ v = More * (v \div More) + (v % More)
  BY <1>1
<1>3. v >= More => v \div More < v /\ v \div More >= 1
  BY <1>1, <1>2
<1>4. QED  BY <1>1, <1>2, <1>3

\* A first byte with more to follow, and what is left of a power.
LEMMA FirstByte ==
    ASSUME NEW v \in Nat
    PROVE  /\ More + (v % More) \in Byte /\ More + (v % More) >= More
           /\ (More + (v % More)) % More = v % More
           /\ \A t \in Nat : t <= v \div More => t * More <= v
<1> DEFINE r == v % More
           q == v \div More
<1>1. r \in Nat /\ r < More /\ q \in Nat /\ v = More * q + r
  BY Groups
<1> HIDE DEF r, q
<1>2. More + r \in Byte /\ More + r >= More
  BY <1>1, Widths DEF Byte
<1>3. (More + r) % More = r
  BY <1>1, Widths
<1>4. ASSUME NEW t \in Nat, t <= q PROVE t * More <= v
  <2>1. PICK d \in Nat : q = t + d
    <3>1. q - t \in Nat /\ q = t + (q - t)
      BY <1>1, <1>4
    <3>2. QED  BY <3>1
  <2>2. More \in Nat
    BY Widths
  <2>3. More * q = t * More + d * More /\ t * More \in Nat /\ d * More \in Nat
    BY <2>1, <2>2
  <2>4. QED  BY <1>1, <2>3
<1>5. QED  BY <1>2, <1>3, <1>4 DEF r, q

LEMMA EncodeDef ==
    ASSUME NEW v \in Nat
    PROVE  /\ EncodeVarUint[v] \in Seq(Byte)
           /\ EncodeVarUint[v] =
                  IF v < More THEN <<v>>
                  ELSE <<More + (v % More)>> \o EncodeVarUint[v \div More]
<1> DEFINE S == Seq(Byte)
           Stop == {n \in Nat : n < More}
           base == [n \in Nat |-> IF n < More THEN <<n>> ELSE <<>>]
           P == [n \in Nat \ Stop |-> n \div More]
           G == [p \in (Nat \ Stop) \X S |-> <<More + (p[1] % More)>> \o p[2]]
           m == [n \in Nat |-> n]
           Def(f) == [n \in Nat |-> IF n < More THEN <<n>>
                                    ELSE <<More + (n % More)>> \o f[n \div More]]
<1>1. \A n \in Nat : n < More => n \in Byte
  BY Widths DEF Byte
<1>2. ASSUME NEW n \in Nat PROVE More + (n % More) \in Byte
  <2> DEFINE r == n % More
  <2>1. r \in Nat /\ r < More
    BY Groups
  <2> HIDE DEF r
  <2>2. More + r \in Byte
    BY <2>1, Widths DEF Byte
  <2>3. QED  BY <2>2 DEF r
<1>3. \A n \in Nat, s \in S : <<More + (n % More)>> \o s \in S
  BY <1>2, ConcatProperties
<1>4. PICK f \in [Nat -> S] : Unfolds(f, Nat, Stop, base, P, G)
  <2>1. base \in [Nat -> S]
    BY <1>1
  <2>2. P \in [Nat \ Stop -> Nat] /\ \A n \in Nat \ Stop : m[P[n]] < m[n]
    <3>1. ASSUME NEW n \in Nat \ Stop PROVE n \div More \in Nat /\ n \div More < n
      <4>1. n >= More
        BY <3>1, Widths
      <4>2. QED  BY <4>1, Groups
    <3>2. QED  BY <3>1
  <2>3. G \in [(Nat \ Stop) \X S -> S]
    BY <1>3
  <2>4. m \in [Nat -> Nat] /\ Stop \in SUBSET Nat
    OBVIOUS
  <2> HIDE DEF base, P, G, m, Stop, S
  <2>5. Decreases(Nat, S, Stop, base, P, G, m)
    BY <2>1, <2>2, <2>3, <2>4 DEF Decreases
  <2>6. QED  BY <2>5, Recursion
<1>5. f = Def(f)
  <2>1. ASSUME NEW n \in Nat
        PROVE  f[n] = IF n < More THEN <<n>> ELSE <<More + (n % More)>> \o f[n \div More]
    <3>1. CASE n < More
      BY <1>4, <3>1 DEF Unfolds
    <3>2. CASE ~(n < More)
      <4>1. n \in Nat \ Stop /\ n \div More \in Nat
        BY <3>2, Groups
      <4>2. P[n] = n \div More /\ f[P[n]] \in S
        BY <4>1
      <4>3. G[<<n, f[P[n]]>>] = <<More + (n % More)>> \o f[n \div More]
        BY <4>1, <4>2
      <4>4. QED  BY <1>4, <3>2, <4>1, <4>3 DEF Unfolds
    <3>3. QED  BY <3>1, <3>2
  <2>2. QED  BY <2>1
<1>6. EncodeVarUint = Def(EncodeVarUint)
  BY <1>5 DEF EncodeVarUint
<1>7. /\ \A n \in Nat : n < More => EncodeVarUint[n] = <<n>>
      /\ \A n \in Nat : ~(n < More) =>
             EncodeVarUint[n] = <<More + (n % More)>> \o EncodeVarUint[n \div More]
  BY <1>6
<1> DEFINE T == {n \in Nat : EncodeVarUint[n] \in S}
<1> HIDE DEF S
<1>8. ASSUME NEW n \in Nat, \A k \in Nat : k < n => k \in T PROVE EncodeVarUint[n] \in S
  <2>1. CASE n < More
    <3>1. <<n>> \in S
      BY <1>1, <2>1 DEF S
    <3>2. QED  BY <1>7, <2>1, <3>1
  <2>2. CASE ~(n < More)
    <3>1. n \div More \in Nat /\ n \div More < n
      BY <2>2, Groups, Widths
    <3> DEFINE q == n \div More
    <3>2. q \in T
      <4> HIDE DEF T, q
      <4>1. q \in Nat /\ q < n
        BY <3>1 DEF q
      <4>2. QED  BY <1>8, <4>1
    <3>3. EncodeVarUint[n \div More] \in S
      BY <3>2
    <3> DEFINE code == EncodeVarUint[n \div More]
    <3>4. EncodeVarUint[n] = <<More + (n % More)>> \o code
      BY <1>7, <2>2
    <3> HIDE DEF code
    <3>5. <<More + (n % More)>> \o code \in S
      BY <1>3, <3>3 DEF code
    <3>6. QED  BY <3>4, <3>5, Zenon
  <2>3. QED  BY <2>1, <2>2
<1>9. \A n \in Nat : (\A k \in Nat : k < n => k \in T) => n \in T
  BY <1>8
<1> HIDE DEF T
<1>10. v \in T
  BY <1>9, StrongInduction
<1>11. QED  BY <1>7, <1>10 DEF T, S

\* f is, from c to e, what the payloads from each byte up to byte e amount to.
Amounts(f, bytes, c, e) ==
    /\ f[e + 1] = 0
    /\ \A i \in c .. e : f[i] = (bytes[i] % More) + More * f[i + 1]

\* Only the bytes of the code are read, the others may be anything.
LEMMA PayloadsDef ==
    ASSUME NEW bytes, NEW c \in Nat, NEW e \in Nat, c <= e, \A i \in c .. e : bytes[i] \in Nat
    PROVE  /\ Payloads(bytes, c, e) \in Nat
           /\ \E f : Amounts(f, bytes, c, e) /\ Payloads(bytes, c, e) = f[c]
<1> DEFINE D == c .. e + 1
           Stop == {e + 1}
           base == [i \in D |-> 0]
           P == [i \in D \ Stop |-> i + 1]
           G == [p \in (D \ Stop) \X Nat |-> (bytes[p[1]] % More) + More * p[2]]
           m == [i \in D |-> e + 1 - i]
           Def(f) == [i \in D |-> IF i > e THEN 0 ELSE (bytes[i] % More) + More * f[i + 1]]
<1>1. \A i \in D \ Stop : i \in c .. e /\ bytes[i] % More \in Nat
  <2>1. \A i \in D \ Stop : i \in c .. e
    OBVIOUS
  <2>2. QED  BY <2>1, Groups
<1>2. \A a \in Nat, b \in Nat : a + More * b \in Nat
  BY Widths
<1>3. PICK f \in [D -> Nat] : Unfolds(f, D, Stop, base, P, G)
  <2>1. G \in [(D \ Stop) \X Nat -> Nat]
    BY <1>1, <1>2
  <2>2. P \in [D \ Stop -> D] /\ base \in [D -> Nat]
    OBVIOUS
  <2>3. m \in [D -> Nat] /\ \A i \in D \ Stop : m[P[i]] < m[i]
    BY <1>1
  <2>4. Stop \in SUBSET D
    OBVIOUS
  <2> HIDE DEF base, P, G, m, Stop, D
  <2>5. Decreases(D, Nat, Stop, base, P, G, m)
    BY <2>1, <2>2, <2>3, <2>4 DEF Decreases
  <2>6. QED  BY <2>5, Recursion
<1>4. f = Def(f)
  <2>1. ASSUME NEW i \in D
        PROVE  f[i] = IF i > e THEN 0 ELSE (bytes[i] % More) + More * f[i + 1]
    <3>1. CASE i > e
      <4>1. i \in Stop
        BY <3>1
      <4>2. QED  BY <1>3, <3>1, <4>1 DEF Unfolds
    <3>2. CASE ~(i > e)
      <4>1. i \in D \ Stop /\ f[i + 1] \in Nat /\ P[i] = i + 1
        BY <3>2
      <4>2. G[<<i, f[P[i]]>>] = (bytes[i] % More) + More * f[i + 1]
        BY <4>1
      <4>3. QED  BY <1>3, <3>2, <4>1, <4>2 DEF Unfolds
    <3>3. QED  BY <3>1, <3>2
  <2>2. QED  BY <2>1
<1>5. PICK value : value = Def(value) /\ Payloads(bytes, c, e) = value[c]
  BY <1>4 DEF Payloads
<1>6. value[e + 1] = 0
  <2>1. e + 1 \in D /\ e + 1 > e
    OBVIOUS
  <2>2. QED  BY <1>5, <2>1
<1>7. \A i \in c .. e : i \in D /\ value[i] = (bytes[i] % More) + More * value[i + 1]
  <2>1. \A i \in c .. e : i \in D /\ ~(i > e)
    OBVIOUS
  <2>2. QED  BY <1>5, <2>1
<1> DEFINE U == {n \in Nat : \A i \in c .. e + 1 : e + 1 - i = n => value[i] \in Nat}
<1>8. ASSUME NEW n \in Nat, n \in U PROVE n + 1 \in U
  <2>1. SUFFICES ASSUME NEW i \in c .. e + 1, e + 1 - i = n + 1 PROVE value[i] \in Nat
    OBVIOUS
  <2>2. i \in c .. e /\ i + 1 \in c .. e + 1 /\ e + 1 - (i + 1) = n /\ i \in D \ Stop
    BY <2>1
  <2>3. value[i + 1] \in Nat /\ bytes[i] % More \in Nat
    BY <1>1, <1>8, <2>2
  <2>4. (bytes[i] % More) + More * value[i + 1] \in Nat
    BY <1>2, <2>3
  <2>5. QED  BY <1>7, <2>2, <2>4, Zenon
<1>9. 0 \in U
  BY <1>6
<1>10. \A n \in Nat : n \in U
  <2> HIDE DEF U
  <2>1. QED  BY <1>8, <1>9, Induction
<1>11. value[c] \in Nat
  <2>1. e + 1 - c \in Nat /\ c \in c .. e + 1
    OBVIOUS
  <2>2. QED  BY <1>10, <2>1
<1>12. QED  BY <1>5, <1>6, <1>7, <1>11 DEF Amounts

\* The bytes from c on begin with a code.
HoldsAt(bytes, c, code) ==
    /\ c \in Nat \ {0} /\ c + Len(code) - 1 <= Len(bytes)
    /\ \A i \in 1 .. Len(code) : bytes[c + i - 1] = code[i]

\* A code is at its first byte what its first byte and the rest say.
LEMMA HoldsAtConcat ==
    ASSUME NEW U, NEW bytes \in Seq(U), NEW c \in Nat,
           NEW S, NEW a \in Seq(S), NEW b \in Seq(S)
    PROVE  HoldsAt(bytes, c, a \o b) =>
               HoldsAt(bytes, c, a) /\ HoldsAt(bytes, c + Len(a), b)
<1> SUFFICES ASSUME HoldsAt(bytes, c, a \o b)
             PROVE  HoldsAt(bytes, c, a) /\ HoldsAt(bytes, c + Len(a), b)
  OBVIOUS
<1>1. /\ Len(a) \in Nat /\ Len(b) \in Nat /\ Len(bytes) \in Nat /\ c \in Nat \ {0}
      /\ Len(a \o b) = Len(a) + Len(b)
  BY ConcatProperties, LenProperties DEF HoldsAt
<1>2. /\ \A i \in 1 .. Len(a) : (a \o b)[i] = a[i]
      /\ \A i \in 1 .. Len(b) : (a \o b)[Len(a) + i] = b[i]
  <2>1. ASSUME NEW i \in 1 .. Len(b) PROVE (a \o b)[Len(a) + i] = b[i]
    <3>1. Len(a) + i \in 1 .. Len(a) + Len(b) /\ ~(Len(a) + i <= Len(a))
      BY <1>1
    <3>2. QED  BY <1>1, <3>1, ConcatProperties
  <2>2. ASSUME NEW i \in 1 .. Len(a) PROVE (a \o b)[i] = a[i]
    <3>1. i \in 1 .. Len(a) + Len(b) /\ i <= Len(a)
      BY <1>1
    <3>2. QED  BY <1>1, <3>1, ConcatProperties
  <2>3. QED  BY <2>1, <2>2
<1>3. HoldsAt(bytes, c, a)
  BY <1>1, <1>2 DEF HoldsAt
<1>4. ASSUME NEW i \in 1 .. Len(b) PROVE bytes[c + Len(a) + i - 1] = b[i]
  <2>1. Len(a) + i \in 1 .. Len(a) + Len(b)
    BY <1>1
  <2>2. bytes[c + (Len(a) + i) - 1] = (a \o b)[Len(a) + i]
    BY <1>1, <2>1 DEF HoldsAt
  <2>3. QED  BY <1>1, <1>2, <2>2
<1>5. HoldsAt(bytes, c + Len(a), b)
  BY <1>1, <1>4 DEF HoldsAt
<1>6. QED  BY <1>3, <1>5

\* A code ends at its first byte below More, its payloads amount to its value,
\* and it has no group more than its value needs.
LEMMA CodeShape ==
    ASSUME NEW U, NEW bytes \in Seq(U), NEW v \in Nat, NEW c \in Nat \ {0},
           HoldsAt(bytes, c, EncodeVarUint[v])
    PROVE  LET n == Len(EncodeVarUint[v])
               e == c + n - 1
           IN  /\ n \in Nat \ {0} /\ e <= Len(bytes)
               /\ \A i \in c .. e : bytes[i] \in Nat
               /\ bytes[e] < More /\ \A i \in c .. e - 1 : bytes[i] >= More
               /\ \A f : Amounts(f, bytes, c, e) => f[c] = v
               /\ (v = 0 => n = 1) /\ (v >= 1 => TwoTo[(n - 1) * GroupBits] <= v)
<1> DEFINE n(w) == Len(EncodeVarUint[w])
           e(w, k) == k + n(w) - 1
           Shape(w, k) ==
               /\ n(w) \in Nat \ {0} /\ e(w, k) <= Len(bytes)
               /\ \A i \in k .. e(w, k) : bytes[i] \in Nat
               /\ bytes[e(w, k)] < More /\ \A i \in k .. e(w, k) - 1 : bytes[i] >= More
               /\ \A f : Amounts(f, bytes, k, e(w, k)) => f[k] = w
               /\ (w = 0 => n(w) = 1) /\ (w >= 1 => TwoTo[(n(w) - 1) * GroupBits] <= w)
           T == {w \in Nat : \A k \in Nat \ {0} : HoldsAt(bytes, k, EncodeVarUint[w]) => Shape(w, k)}
<1>1. ASSUME NEW w \in Nat, NEW k \in Nat \ {0}, HoldsAt(bytes, k, EncodeVarUint[w]), w < More
      PROVE  Shape(w, k)
  <2>0. w < More
    BY <1>1
  <2>1. EncodeVarUint[w] = <<w>> /\ n(w) = 1 /\ e(w, k) = k
    <3>1. EncodeVarUint[w] = <<w>>
      BY <2>0, EncodeDef
    <3>2. QED  BY <3>1
  <2>2. k <= Len(bytes) /\ bytes[k] = w
    BY <1>1, <2>1 DEF HoldsAt
  <2>3. ASSUME NEW f, Amounts(f, bytes, k, k)
        PROVE  f[k + 1] = 0 /\ f[k] = (bytes[k] % More) + More * f[k + 1]
    BY <2>3 DEF Amounts
  <2>4. w % More = w /\ More * 0 = 0
    <3>1. w % More = w
      BY <2>0, Groups
    <3>2. More * 0 = 0
      BY Widths
    <3>3. QED  BY <3>1, <3>2
  <2>5. \A f : Amounts(f, bytes, k, k) => f[k] = w
    BY <2>2, <2>3, <2>4
  <2>6. TwoTo[(1 - 1) * GroupBits] = 1
    BY TwoToDef, Widths
  <2>7. \A i \in k .. k : bytes[i] \in Nat
    BY <2>2
  <2>8. QED  BY <1>1, <2>1, <2>2, <2>5, <2>6, <2>7
<1>2. ASSUME NEW w \in Nat, NEW k \in Nat \ {0}, HoldsAt(bytes, k, EncodeVarUint[w]), ~(w < More),
             w \div More \in T
      PROVE  Shape(w, k)
  <2> DEFINE first == More + (w % More)
  <2>1. PICK q \in Nat : q = w \div More /\ q >= 1
    <3>1. ~(w < More)
      BY <1>2
    <3>2. w >= More
      BY <3>1, Widths
    <3>3. w \div More \in Nat /\ w \div More >= 1
      BY <3>2, Groups
    <3>4. QED  BY <3>3
  <2>2. /\ w % More \in Nat /\ w = More * q + (w % More)
        /\ first \in Byte /\ first >= More /\ first % More = w % More
        /\ \A t \in Nat : t <= q => t * More <= w
    BY <2>1, Groups, FirstByte
  <2>3. PICK code \in Seq(Byte) : code = EncodeVarUint[q] /\ EncodeVarUint[w] = <<first>> \o code
    <3>1. ~(w < More)
      BY <1>2
    <3>2. EncodeVarUint[w] = <<More + (w % More)>> \o EncodeVarUint[w \div More]
      BY <3>1, EncodeDef
    <3>3. EncodeVarUint[q] \in Seq(Byte)
      BY EncodeDef
    <3>4. QED  BY <2>1, <3>2, <3>3
  <2> HIDE DEF first
  <2>4. /\ HoldsAt(bytes, k, <<first>>) /\ HoldsAt(bytes, k + 1, code)
        /\ n(w) = 1 + Len(code) /\ Len(code) \in Nat
    <3>1. HoldsAt(bytes, k, EncodeVarUint[w])
      BY <1>2
    <3>2. Len(<<first>>) = 1 /\ <<first>> \in Seq(Byte)
      BY <2>2
    <3>3. Len(<<first>> \o code) = 1 + Len(code)
      BY <3>2, ConcatProperties
    <3>4. HoldsAt(bytes, k, <<first>> \o code)
      BY <2>3, <3>1
    <3>5. HoldsAt(bytes, k, <<first>>) /\ HoldsAt(bytes, k + Len(<<first>>), code)
      <4> DEFINE head == <<first>>
      <4>1. head \in Seq(Byte) /\ Len(head) > 0
        BY <3>2
      <4>2. HoldsAt(bytes, k, head \o code) /\ k \in Nat
        BY <3>4
      <4> HIDE DEF head
      <4>3. HoldsAt(bytes, k, head) /\ HoldsAt(bytes, k + Len(head), code)
        BY <4>1, <4>2, HoldsAtConcat
      <4>4. QED  BY <4>3 DEF head
    <3>6. Len(code) \in Nat
      BY LenProperties
    <3>7. QED  BY <2>3, <3>2, <3>3, <3>5, <3>6
  <2>5. Shape(q, k + 1)
    <3> HIDE DEF Shape
    <3>1. q \in T /\ k + 1 \in Nat \ {0}
      BY <1>2, <2>1
    <3>2. QED  BY <2>3, <2>4, <3>1
  <2> DEFINE x == e(w, k)
  <2>6. n(q) = Len(code) /\ x = e(q, k + 1) /\ x \in Nat /\ x >= k + 1 /\ x <= Len(bytes)
    <3>1. n(q) = Len(code) /\ n(q) \in Nat \ {0} /\ e(q, k + 1) <= Len(bytes)
      BY <2>3, <2>5
    <3>2. QED  BY <2>4, <3>1
  <2>7. bytes[k] = first
    BY <2>4 DEF HoldsAt
  <2>8. ASSUME NEW i \in k .. x - 1 PROVE bytes[i] >= More
    <3>1. i = k \/ i \in k + 1 .. x - 1
      BY <2>6
    <3>2. \A j \in k + 1 .. x - 1 : bytes[j] >= More
      BY <2>5, <2>6
    <3>3. QED  BY <2>2, <2>7, <3>1, <3>2
  <2>9. ASSUME NEW f, Amounts(f, bytes, k, x) PROVE f[k] = w
    <3>1. k \in k .. x /\ \A i \in k + 1 .. x : i \in k .. x
      BY <2>6
    <3>2. f[k] = (bytes[k] % More) + More * f[k + 1]
      BY <2>9, <3>1 DEF Amounts
    <3>3. Amounts(f, bytes, k + 1, x)
      BY <2>9, <3>1 DEF Amounts
    <3>4. f[k + 1] = q
      BY <2>5, <2>6, <3>3
    <3>5. f[k] = (w % More) + More * q
      BY <2>2, <2>7, <3>2, <3>4
    <3>6. More * q \in Nat
      BY Widths
    <3>7. QED  BY <2>2, <3>5, <3>6
  <2>10. TwoTo[(n(w) - 1) * GroupBits] <= w
    <3> DEFINE a == (Len(code) - 1) * GroupBits
    <3>1. Len(code) \in Nat \ {0} /\ TwoTo[a] <= q
      BY <2>1, <2>3, <2>5
    <3>2. a \in Nat /\ (n(w) - 1) * GroupBits = a + GroupBits
      <4>1. PICK len \in Nat \ {0} : len = Len(code)
        BY <3>1
      <4>2. n(w) - 1 = len
        BY <2>4, <4>1
      <4>3. (len - 1) * GroupBits \in Nat /\ len * GroupBits = (len - 1) * GroupBits + GroupBits
        BY Widths
      <4>4. QED  BY <4>1, <4>2, <4>3
    <3> HIDE DEF a
    <3>3. TwoTo[a + GroupBits] = TwoTo[a] * More /\ TwoTo[a] \in Nat
      BY <3>2, TwoToSum, TwoToDef, Widths
    <3>4. QED  BY <2>2, <3>1, <3>2, <3>3
  <2>11. w # 0 /\ bytes[x] < More /\ n(w) \in Nat \ {0}
    <3>1. ~(w < More)
      BY <1>2
    <3>2. w # 0
      BY <3>1, Widths
    <3>3. bytes[x] < More
      BY <2>5, <2>6
    <3>4. QED  BY <2>4, <3>2, <3>3
  <2>12. ASSUME NEW i \in k .. x PROVE bytes[i] \in Nat
    <3>1. i = k \/ i \in k + 1 .. x
      BY <2>6
    <3>2. \A j \in k + 1 .. x : bytes[j] \in Nat
      BY <2>5, <2>6
    <3>3. first \in Nat
      BY <2>2, Widths DEF Byte
    <3>4. QED  BY <2>7, <3>1, <3>2, <3>3
  <2>13. QED  BY <2>6, <2>8, <2>9, <2>10, <2>11, <2>12
<1>3. \A w \in Nat : (\A u \in Nat : u < w => u \in T) => w \in T
  <2> SUFFICES ASSUME NEW w \in Nat, \A u \in Nat : u < w => u \in T PROVE w \in T
    OBVIOUS
  <2> HIDE DEF Shape
  <2>1. ~(w < More) => w \div More \in Nat /\ w \div More < w
    <3>1. ~(w < More) => w >= More
      BY Widths
    <3>2. QED  BY <3>1, Groups
  <2>2. ~(w < More) => w \div More \in T
    <3> HIDE DEF T
    <3>1. QED  BY <2>1
  <2>3. QED  BY <1>1, <1>2, <2>2
<1>4. v \in T
  <2> HIDE DEF T
  <2>1. QED  BY <1>3, StrongInduction
<1>5. QED  BY <1>4

\* The first byte from c on that continues nothing is the last of the code.
LEMMA CodeEndIs ==
    ASSUME NEW U, NEW bytes \in Seq(U), NEW c \in Nat \ {0}, NEW e \in c .. Len(bytes),
           \A i \in c .. e : bytes[i] \in Nat, bytes[e] < More, \A i \in c .. e - 1 : bytes[i] >= More
    PROVE  CodeEnd(bytes, c) = e
<1> DEFINE Ends(x) == /\ x = Len(bytes) + 1 \/ bytes[x] < More
                      /\ \A i \in c .. x - 1 : bytes[i] >= More
<1>1. e \in c .. Len(bytes) + 1 /\ Ends(e)
  OBVIOUS
<1>2. ASSUME NEW x \in c .. Len(bytes) + 1, Ends(x) PROVE x = e
  <2>1. c \in Nat /\ e \in Nat /\ x \in Nat /\ Len(bytes) \in Nat /\ More \in Nat
    BY Widths
  <2>2. \A i \in c .. e : bytes[i] \in Nat
    OBVIOUS
  <2>3. ~(x < e)
    <3>1. SUFFICES ASSUME x < e PROVE FALSE
      OBVIOUS
    <3>2. x \in c .. e - 1 /\ x # Len(bytes) + 1
      BY <2>1, <3>1
    <3>3. bytes[x] >= More /\ bytes[x] < More /\ bytes[x] \in Nat
      BY <1>2, <2>1, <2>2, <3>2
    <3>4. QED  BY <2>1, <3>3
  <2>4. ~(e < x)
    <3>1. SUFFICES ASSUME e < x PROVE FALSE
      OBVIOUS
    <3>2. e \in c .. x - 1
      BY <2>1, <3>1
    <3>3. bytes[e] >= More /\ bytes[e] \in Nat
      BY <1>2, <2>2, <3>2
    <3>4. QED  BY <2>1, <3>3
  <2>5. QED  BY <2>1, <2>3, <2>4
<1>3. CodeEnd(bytes, c) = CHOOSE x \in c .. Len(bytes) + 1 : Ends(x)
  BY DEF CodeEnd
<1> HIDE DEF Ends
<1>4. QED  BY <1>1, <1>2, <1>3

\* DecodeVarUint reads back what EncodeVarUint wrote, for every number that
\* fits the width, wherever it stands in the bytes and whatever the others are.
THEOREM VarUintReadBack ==
    ASSUME NEW U, NEW bytes \in Seq(U), NEW c \in Nat \ {0}, NEW bits \in Nat \ {0},
           NEW v \in Nat, v < TwoTo[bits], HoldsAt(bytes, c, EncodeVarUint[v])
    PROVE  /\ DecodeVarUint(bytes, c, bits) =
                  [ok |-> TRUE, val |-> v, next |-> c + Len(EncodeVarUint[v])]
           /\ Len(EncodeVarUint[v]) \in Nat \ {0}
<1> DEFINE n == Len(EncodeVarUint[v])
           e == c + n - 1
<1>1. /\ n \in Nat \ {0} /\ e <= Len(bytes) /\ \A i \in c .. e : bytes[i] \in Nat
      /\ bytes[e] < More /\ \A i \in c .. e - 1 : bytes[i] >= More
      /\ \A f : Amounts(f, bytes, c, e) => f[c] = v
      /\ (v = 0 => n = 1) /\ (v >= 1 => TwoTo[(n - 1) * GroupBits] <= v)
  BY CodeShape
<1> HIDE DEF n
<1>2. e \in c .. Len(bytes) /\ e - c = n - 1 /\ e + 1 = c + n
  BY <1>1
<1>3. CodeEnd(bytes, c) = e
  <2> HIDE DEF e
  <2>1. QED  BY <1>1, <1>2, CodeEndIs
<1>4. (n - 1) * GroupBits < bits
  <2>1. PICK a \in Nat : a = (n - 1) * GroupBits
    <3>1. (n - 1) * GroupBits \in Nat
      BY <1>1, Widths
    <3>2. QED  BY <3>1
  <2>2. CASE v = 0
    <3>1. (n - 1) * GroupBits = 0
      BY <1>1, <2>2, Widths
    <3>2. QED  BY <3>1
  <2>3. CASE v # 0
    <3>1. TwoTo[a] <= v /\ TwoTo[a] \in Nat /\ TwoTo[bits] \in Nat
      BY <1>1, <2>1, <2>3, TwoToDef
    <3>2. TwoTo[a] < TwoTo[bits]
      BY <3>1
    <3>3. QED  BY <2>1, <3>2, TwoToOrder
  <2>4. QED  BY <2>2, <2>3
<1>5. v % TwoTo[bits] = v
  <2>1. TwoTo[bits] \in Nat
    BY TwoToDef
  <2>2. QED  BY <2>1
<1>6. e <= Len(bytes) /\ (e - c) * GroupBits < bits
  BY <1>1, <1>2, <1>4
<1> HIDE DEF e
<1>7. Payloads(bytes, c, e) = v
  <2>1. e \in Nat /\ c <= e
    BY <1>2
  <2>2. PICK f : Amounts(f, bytes, c, e) /\ Payloads(bytes, c, e) = f[c]
    BY <1>1, <2>1, PayloadsDef
  <2>3. QED  BY <1>1, <2>2
<1>8. DecodeVarUint(bytes, c, bits) = [ok |-> TRUE, val |-> v, next |-> e + 1]
  BY <1>3, <1>5, <1>6, <1>7 DEF DecodeVarUint
<1>9. QED  BY <1>1, <1>2, <1>8 DEF n

-----------------------------------------------------------------------------
(* Sequences put one behind the other.                                     *)

LEMMA ConcatHolds ==
    ASSUME NEW S, NEW a \in Seq(S), NEW b \in Seq(S)
    PROVE  /\ HoldsAt(a \o b, Len(a) + 1, b)
           /\ \A c \in Nat, code \in Seq(S) : HoldsAt(a, c, code) => HoldsAt(a \o b, c, code)
<1>1. /\ Len(a) \in Nat /\ Len(b) \in Nat /\ Len(a \o b) = Len(a) + Len(b)
      /\ \A i \in 1 .. Len(a) + Len(b) : (a \o b)[i] = IF i <= Len(a) THEN a[i] ELSE b[i - Len(a)]
  BY ConcatProperties, LenProperties
<1>2. HoldsAt(a \o b, Len(a) + 1, b)
  <2>1. ASSUME NEW i \in 1 .. Len(b) PROVE (a \o b)[Len(a) + 1 + i - 1] = b[i]
    <3>1. Len(a) + i \in 1 .. Len(a) + Len(b) /\ ~(Len(a) + i <= Len(a)) /\ Len(a) + i - Len(a) = i
      BY <1>1
    <3>2. (a \o b)[Len(a) + i] = b[i]
      BY <1>1, <3>1
    <3>3. Len(a) + 1 + i - 1 = Len(a) + i
      BY <1>1
    <3>4. QED  BY <3>2, <3>3
  <2>2. QED  BY <1>1, <2>1 DEF HoldsAt
<1>3. ASSUME NEW c \in Nat, NEW code \in Seq(S), HoldsAt(a, c, code) PROVE HoldsAt(a \o b, c, code)
  <2>1. c \in Nat \ {0} /\ Len(code) \in Nat /\ c + Len(code) - 1 <= Len(a)
    BY <1>3, LenProperties DEF HoldsAt
  <2>2. ASSUME NEW i \in 1 .. Len(code) PROVE (a \o b)[c + i - 1] = code[i]
    <3>1. c + i - 1 \in 1 .. Len(a) + Len(b) /\ c + i - 1 <= Len(a)
      BY <1>1, <2>1
    <3>2. a[c + i - 1] = code[i]
      BY <1>3 DEF HoldsAt
    <3>3. QED  BY <1>1, <3>1, <3>2
  <2>3. QED  BY <1>1, <2>1, <2>2 DEF HoldsAt
<1>4. QED  BY <1>2, <1>3

\* Every sequence stands in the flattened one, right behind the one before it.
LEMMA FlattenHolds ==
    ASSUME NEW S, NEW ss \in Seq(Seq(S)), ss # <<>>
    PROVE  /\ FlattenSeq(ss) \in Seq(S)
           /\ \E at \in [1 .. Len(ss) + 1 -> Nat \ {0}] :
                  /\ at[1] = 1 /\ at[Len(ss) + 1] = Len(FlattenSeq(ss)) + 1
                  /\ \A i \in 1 .. Len(ss) : /\ at[i + 1] = at[i] + Len(ss[i])
                                             /\ HoldsAt(FlattenSeq(ss), at[i], ss[i])
<1> DEFINE n == Len(ss)
           D == 1 .. n
           Z == Seq(S)
           P == [i \in D \ {1} |-> i - 1]
           G == [p \in (D \ {1}) \X Z |-> p[2] \o ss[p[1]]]
           m == [i \in D |-> i]
           Def(f) == [i \in D |-> IF i = 1 THEN ss[i] ELSE f[i - 1] \o ss[i]]
<1>1. n \in Nat \ {0} /\ ss \in [D -> Z] /\ \A i \in D : ss[i] \in Z
  BY EmptySeq, LenProperties, ElementOfSeq
<1>2. \A a \in Z, b \in Z : a \o b \in Z
  BY ConcatProperties
<1> HIDE DEF Z, n
<1>3. PICK f \in [D -> Z] : Unfolds(f, D, {1}, ss, P, G)
  <2>1. G \in [(D \ {1}) \X Z -> Z]
    BY <1>1, <1>2
  <2>2. P \in [D \ {1} -> D] /\ m \in [D -> Nat] /\ {1} \in SUBSET D
    BY <1>1
  <2>3. \A i \in D \ {1} : m[P[i]] < m[i]
    BY <1>1
  <2> HIDE DEF P, G, m, D
  <2>4. Decreases(D, Z, {1}, ss, P, G, m)
    BY <1>1, <2>1, <2>2, <2>3 DEF Decreases
  <2>5. QED  BY <2>4, Recursion
<1>4. f = Def(f)
  <2>1. ASSUME NEW i \in D PROVE f[i] = IF i = 1 THEN ss[i] ELSE f[i - 1] \o ss[i]
    <3>1. CASE i = 1
      BY <1>3, <3>1 DEF Unfolds
    <3>2. CASE i # 1
      <4>1. i \in D \ {1} /\ i - 1 \in D /\ P[i] = i - 1
        BY <1>1, <3>2
      <4>2. f[i - 1] \in Z
        BY <4>1
      <4>3. G[<<i, f[P[i]]>>] = f[i - 1] \o ss[i]
        BY <4>1, <4>2
      <4>4. QED  BY <1>3, <3>2, <4>3 DEF Unfolds
    <3>3. QED  BY <3>1, <3>2
  <2>2. QED  BY <2>1
<1>5. PICK g : g = Def(g) /\ FlattenSeq(ss) = g[n]
  <2>1. n # 0
    BY <1>1
  <2>2. QED  BY <1>4, <2>1 DEF FlattenSeq, n
<1>6. g[1] = ss[1] /\ \A i \in D : i # 1 => g[i] = g[i - 1] \o ss[i]
  <2>1. 1 \in D
    BY <1>1
  <2>2. QED  BY <1>5, <2>1
<1> HIDE DEF Def, P, G, m
<1> DEFINE at == [i \in 1 .. n + 1 |-> IF i = 1 THEN 1 ELSE Len(g[i - 1]) + 1]
           Read(k) == /\ g[k] \in Z
                      /\ at[k + 1] = at[k] + Len(ss[k])
                      /\ \A i \in 1 .. k : HoldsAt(g[k], at[i], ss[i])
           T == {k \in Nat : k + 1 \in D => Read(k + 1)}
<1>7. 0 \in T
  <2>1. 1 \in D /\ g[1] \in Z /\ Len(g[1]) \in Nat /\ at[1] = 1 /\ at[2] = Len(g[1]) + 1
    <3>1. g[1] \in Z /\ 1 \in 1 .. n + 1 /\ 2 \in 1 .. n + 1
      BY <1>1, <1>6
    <3>2. QED  BY <1>1, <3>1, LenProperties DEF Z
  <2>2. HoldsAt(g[1], 1, ss[1])
    BY <1>6, <2>1 DEF HoldsAt
  <2>3. Read(1)
    <3> HIDE DEF at
    <3>1. \A i \in 1 .. 1 : HoldsAt(g[1], at[i], ss[i])
      BY <2>1, <2>2
    <3>2. at[1 + 1] = at[1] + Len(ss[1])
      BY <1>6, <2>1
    <3>3. QED  BY <2>1, <3>1, <3>2
  <2> HIDE DEF Read
  <2>4. QED  BY <2>3
<1>8. ASSUME NEW k \in Nat, k \in T, k + 2 \in D PROVE Read(k + 2)
  <2> DEFINE i == k + 1
             j == k + 2
  <2>1. i \in Nat \ {0} /\ j = i + 1 /\ i \in D /\ j \in D /\ j # 1 /\ j - 1 = i /\ j + 1 \in 1 .. n + 1
    BY <1>1, <1>8
  <2>2. Read(i)
    <3> HIDE DEF Read
    <3>1. QED  BY <1>8, <2>1
  <2> HIDE DEF i, j
  <2>3. g[j] = g[i] \o ss[j] /\ g[i] \in Z /\ ss[j] \in Z
    BY <1>1, <1>6, <2>1, <2>2
  <2>4. g[j] \in Z /\ Len(g[j]) = Len(g[i]) + Len(ss[j]) /\ Len(g[i]) \in Nat /\ Len(ss[j]) \in Nat
    BY <2>3, ConcatProperties, LenProperties DEF Z
  <2>5. at[j] = Len(g[i]) + 1 /\ at[j + 1] = Len(g[j]) + 1
    BY <1>1, <2>1
  <2> HIDE DEF at
  <2>6. ASSUME NEW x \in 1 .. j PROVE HoldsAt(g[j], at[x], ss[x])
    <3>1. CASE x = j
      BY <2>3, <2>5, <3>1, ConcatHolds DEF Z
    <3>2. CASE x # j
      <4>1. x \in 1 .. i /\ x \in D
        BY <1>1, <2>1, <3>2
      <4>2. HoldsAt(g[i], at[x], ss[x]) /\ ss[x] \in Z /\ at[x] \in Nat
        BY <1>1, <2>2, <4>1 DEF HoldsAt
      <4>3. QED  BY <2>3, <4>2, ConcatHolds DEF Z
    <3>3. QED  BY <3>1, <3>2
  <2>7. at[j + 1] = at[j] + Len(ss[j])
    <3>1. PICK a \in Nat, b \in Nat : a = Len(g[i]) /\ b = Len(ss[j])
      BY <2>4
    <3>2. Len(g[j]) = a + b
      BY <2>4, <3>1
    <3>3. at[j] = a + 1 /\ at[j + 1] = (a + b) + 1
      BY <2>5, <3>1, <3>2
    <3>4. (a + b) + 1 = (a + 1) + b
      OBVIOUS
    <3>5. QED  BY <3>1, <3>3, <3>4
  <2>8. QED  BY <2>4, <2>6, <2>7 DEF j
<1>9. \A k \in Nat : k \in T => k + 1 \in T
  <2> SUFFICES ASSUME NEW k \in Nat, k \in T PROVE k + 1 \in T
    OBVIOUS
  <2>1. k + 1 \in Nat /\ (k + 1) + 1 = k + 2
    OBVIOUS
  <2> HIDE DEF Read
  <2>2. QED  BY <1>8, <2>1
<1>10. ASSUME NEW k \in D PROVE Read(k)
  <2>1. k - 1 \in Nat /\ (k - 1) + 1 = k
    BY <1>1
  <2>2. k - 1 \in T
    <3> HIDE DEF T
    <3>1. QED  BY <1>7, <1>9, <2>1, Induction
  <2> HIDE DEF Read
  <2>3. QED  BY <2>1, <2>2
<1>11. n \in D
  BY <1>1
<1>12. at \in [1 .. n + 1 -> Nat \ {0}] /\ at[1] = 1 /\ at[n + 1] = Len(g[n]) + 1
  <2>1. ASSUME NEW k \in 1 .. n + 1, k # 1 PROVE Len(g[k - 1]) + 1 \in Nat \ {0}
    <3>1. k - 1 \in D
      BY <1>1, <2>1
    <3>2. g[k - 1] \in Z
      BY <1>10, <3>1
    <3>3. Len(g[k - 1]) \in Nat
      BY <3>2, LenProperties DEF Z
    <3>4. QED  BY <3>3
  <2>2. QED  BY <1>1, <2>1
<1> HIDE DEF at
<1>13. QED  BY <1>5, <1>10, <1>11, <1>12 DEF n, Z

-----------------------------------------------------------------------------
(* The cursor over bytes that may be anything.                             *)

\* Min and Max of two.
LEMMA OfTwo ==
    ASSUME NEW a \in Int, NEW b \in Int
    PROVE  /\ Min({a, b}) \in {a, b} /\ Min({a, b}) <= a /\ Min({a, b}) <= b
           /\ Max({a, b}) \in {a, b} /\ Max({a, b}) >= a /\ Max({a, b}) >= b
<1>1. \E x \in {a, b} : \A y \in {a, b} : x <= y
  OBVIOUS
<1>2. \E x \in {a, b} : \A y \in {a, b} : x >= y
  OBVIOUS
<1>3. Min({a, b}) \in {a, b} /\ \A y \in {a, b} : Min({a, b}) <= y
  BY <1>1 DEF Min
<1>4. Max({a, b}) \in {a, b} /\ \A y \in {a, b} : Max({a, b}) >= y
  BY <1>2 DEF Max
<1>5. QED  BY <1>3, <1>4

\* Whatever the bytes are, a decoded number has the width and the next one
\* starts among the bytes or right behind them.
LEMMA DecodeType ==
    ASSUME NEW bytes \in Seq(Byte), NEW c \in 1 .. Len(bytes) + 1, NEW bits \in Nat
    PROVE  /\ DecodeVarUint(bytes, c, bits).ok \in BOOLEAN
           /\ DecodeVarUint(bytes, c, bits).val \in 0 .. TwoTo[bits] - 1
           /\ DecodeVarUint(bytes, c, bits).next \in 1 .. Len(bytes) + 1
<1> DEFINE Ends(x) == /\ x = Len(bytes) + 1 \/ bytes[x] < More
                      /\ \A i \in c .. x - 1 : bytes[i] >= More
           M == {x \in c .. Len(bytes) + 1 : x = Len(bytes) + 1 \/ bytes[x] < More}
           e == CodeEnd(bytes, c)
<1>1. Len(bytes) \in Nat /\ c \in Nat \ {0}
  BY LenProperties
<1>2. PICK x \in c .. Len(bytes) + 1 : Ends(x)
  <2>1. M \in SUBSET Nat /\ Len(bytes) + 1 \in M
    BY <1>1
  <2>2. PICK x \in M : \A y \in M : x <= y
    <3> HIDE DEF M
    <3>1. QED  BY <2>1, LeastNumber
  <2>3. ASSUME NEW i \in c .. x - 1 PROVE bytes[i] >= More
    <3>1. i \in 1 .. Len(bytes) /\ i \in c .. Len(bytes) + 1 /\ ~(x <= i)
      BY <1>1
    <3>2. i \notin M
      <4> HIDE DEF M
      <4>1. QED  BY <2>2, <3>1
    <3>3. bytes[i] \in Nat /\ More \in Nat
      BY <3>1, BytesAreNumbers
    <3>4. ~(bytes[i] < More)
      BY <3>1, <3>2
    <3>5. QED  BY <3>3, <3>4
  <2>4. QED  BY <2>3
<1>3. e \in c .. Len(bytes) + 1
  <2>1. e = CHOOSE y \in c .. Len(bytes) + 1 : Ends(y)
    BY DEF CodeEnd
  <2> HIDE DEF Ends, e
  <2>2. QED  BY <1>2, <2>1
<1> HIDE DEF e
<1>4. TwoTo[bits] \in Nat /\ TwoTo[bits] > 0
  BY TwoToDef
<1>5. CASE e <= Len(bytes) /\ (e - c) * GroupBits < bits
  <2>1. DecodeVarUint(bytes, c, bits) =
            [ok |-> TRUE, val |-> Payloads(bytes, c, e) % TwoTo[bits], next |-> e + 1]
    BY <1>5 DEF DecodeVarUint, e
  <2>2. Payloads(bytes, c, e) \in Nat
    <3>1. e \in Nat /\ c <= e /\ \A i \in c .. e : i \in 1 .. Len(bytes)
      BY <1>1, <1>3, <1>5
    <3>2. \A i \in c .. e : bytes[i] \in Nat
      BY <3>1, BytesAreNumbers
    <3>3. QED  BY <1>1, <3>1, <3>2, PayloadsDef
  <2>3. Payloads(bytes, c, e) % TwoTo[bits] \in 0 .. TwoTo[bits] - 1
    BY <1>4, <2>2
  <2>4. e + 1 \in 1 .. Len(bytes) + 1
    BY <1>1, <1>3, <1>5
  <2>5. QED  BY <2>1, <2>3, <2>4
<1>6. CASE ~(e <= Len(bytes) /\ (e - c) * GroupBits < bits)
  <2>1. DecodeVarUint(bytes, c, bits) = [ok |-> FALSE, val |-> 0, next |-> Min({e, Len(bytes)}) + 1]
    BY <1>6 DEF DecodeVarUint, e
  <2>2. Min({e, Len(bytes)}) + 1 \in 1 .. Len(bytes) + 1
    <3>1. e \in Nat /\ e \in Int /\ Len(bytes) \in Int
      BY <1>1, <1>3
    <3>2. Min({e, Len(bytes)}) \in {e, Len(bytes)} /\ Min({e, Len(bytes)}) <= Len(bytes)
      BY <1>1, <3>1, OfTwo
    <3>3. QED  BY <1>1, <3>1, <3>2
  <2>3. 0 \in 0 .. TwoTo[bits] - 1
    BY <1>4
  <2>4. QED  BY <2>1, <2>2, <2>3
<1>7. QED  BY <1>5, <1>6

TermIterators(bytes) ==
    [kind : {"term"}, bytes : {bytes}, cursor : 1 .. Len(bytes) + 1,
     remaining : 0 .. WordMax, df : 0 .. WordMax,
     has_positions : BOOLEAN, has_token_weights : BOOLEAN,
     current : 0 .. WordMax, prev : 0 .. WordMax, freq : 0 .. WordMax,
     pos : Nat, weight : Nat, started : BOOLEAN]

LEMMA TermIteratorType ==
    ASSUME NEW bytes \in Seq(Byte), NEW has_positions \in BOOLEAN, NEW has_token_weights \in BOOLEAN
    PROVE  TermIterator(bytes, has_positions, has_token_weights) \in TermIterators(bytes)
<1> DEFINE count == DecodeVarUint(bytes, 1, Width)
<1>1. 1 \in 1 .. Len(bytes) + 1
  BY LenProperties
<1>2. count.val \in 0 .. WordMax /\ count.next \in 1 .. Len(bytes) + 1
  <2>1. count.val \in 0 .. TwoTo[Width] - 1 /\ count.next \in 1 .. Len(bytes) + 1
    BY <1>1, DecodeType, Widths
  <2>2. QED  BY <2>1 DEF WordMax
<1>3. kNoMoreDocs \in 0 .. WordMax /\ 0 \in 0 .. WordMax /\ kNoPosition \in Nat /\ One \in Nat
  BY Widths DEF One
<1> HIDE DEF count
<1>4. QED  BY <1>2, <1>3 DEF TermIterator, TermIterators, count

LEMMA TermNextType ==
    ASSUME NEW bytes \in Seq(Byte), NEW it \in TermIterators(bytes)
    PROVE  /\ TermNext(it) \in TermIterators(bytes)
           /\ \/ TermNext(it).current = kNoMoreDocs
              \/ it.remaining # 0 /\ TermNext(it).remaining = it.remaining - 1
<1> DEFINE delta == DecodeVarUint(it.bytes, it.cursor, Width)
           tf    == DecodeVarUint(it.bytes, delta.next, Width)
           p     == tf.next
           w     == IF it.has_positions THEN p + 2 ELSE p
           next  == IF it.has_token_weights THEN w + 1 ELSE w
           doc   == (it.prev + delta.val) % (WordMax + 1)
           pos   == IF it.has_positions
                    THEN it.bytes[p] + (ByteMax + 1) * it.bytes[p + 1] ELSE kNoPosition
           weight == IF it.has_token_weights THEN it.bytes[w] ELSE One
<1>1. /\ it.bytes = bytes /\ it.cursor \in 1 .. Len(bytes) + 1 /\ it.prev \in 0 .. WordMax
      /\ it.remaining \in 0 .. WordMax
      /\ it.has_positions \in BOOLEAN /\ it.has_token_weights \in BOOLEAN
  BY DEF TermIterators
<1>2. /\ delta.val \in 0 .. WordMax /\ delta.next \in 1 .. Len(bytes) + 1
      /\ tf.val \in 0 .. WordMax /\ p \in 1 .. Len(bytes) + 1
  <2>1. \A c \in 1 .. Len(bytes) + 1 :
            /\ DecodeVarUint(bytes, c, Width).val \in 0 .. WordMax
            /\ DecodeVarUint(bytes, c, Width).next \in 1 .. Len(bytes) + 1
    BY DecodeType, Widths DEF WordMax
  <2>2. QED  BY <1>1, <2>1
<1>3. Len(bytes) \in Nat /\ WordMax \in Nat /\ kNoMoreDocs \in 0 .. WordMax /\ kNoPosition \in Nat
  BY LenProperties, Widths
<1> HIDE DEF delta, tf
<1>4. doc \in 0 .. WordMax
  <2>1. PICK a \in Nat, b \in Nat : a = it.prev + delta.val /\ b = WordMax + 1 /\ b > 0
    BY <1>1, <1>2, <1>3
  <2>2. a % b \in Nat /\ a % b < b
    BY <2>1
  <2>3. QED  BY <1>3, <2>1, <2>2
<1>5. CASE it.remaining = 0 \/ ~delta.ok \/ ~tf.ok \/ next > Len(it.bytes) + 1
  <2>1. TermNext(it) = [it EXCEPT !.current = kNoMoreDocs]
    BY <1>5 DEF TermNext, delta, tf
  <2>2. \A a \in 0 .. WordMax : [it EXCEPT !.current = a] \in TermIterators(bytes)
    BY DEF TermIterators
  <2>3. TermNext(it).current = kNoMoreDocs
    BY <2>1 DEF TermIterators
  <2>4. QED  BY <1>3, <2>1, <2>2, <2>3
<1>6. CASE ~(it.remaining = 0 \/ ~delta.ok \/ ~tf.ok \/ next > Len(it.bytes) + 1)
  <2>1. TermNext(it) =
            [it EXCEPT !.cursor = next, !.freq = tf.val, !.pos = pos, !.weight = weight,
                       !.started = TRUE, !.prev = doc, !.current = doc, !.remaining = @ - 1]
    BY <1>6 DEF TermNext, delta, tf
  <2>2. next \in 1 .. Len(bytes) + 1 /\ w \in 1 .. Len(bytes) + 1
    <3>1. ~(next > Len(bytes) + 1)
      BY <1>1, <1>6
    <3>2. p \in Nat /\ p >= 1 /\ Len(bytes) \in Nat
      BY <1>2, <1>3
    <3> HIDE DEF p
    <3>3. w \in Nat /\ w >= p
      BY <3>2
    <3> HIDE DEF w
    <3>4. next \in Nat /\ next >= w
      BY <3>3
    <3> HIDE DEF next
    <3>5. QED  BY <3>1, <3>2, <3>3, <3>4
  <2>3. \A i \in 1 .. Len(bytes) : bytes[i] \in Nat
    BY BytesAreNumbers
  <2>4. pos \in Nat
    <3>1. CASE it.has_positions
      <4>1. p \in 1 .. Len(bytes) /\ p + 1 \in 1 .. Len(bytes)
        BY <1>2, <1>3, <2>2, <3>1
      <4>2. bytes[p] \in Nat /\ bytes[p + 1] \in Nat /\ ByteMax \in Nat
        BY <2>3, <4>1, Widths
      <4>3. bytes[p] + (ByteMax + 1) * bytes[p + 1] \in Nat
        <5>1. \A a \in Nat, b \in Nat, x \in Nat : a + (x + 1) * b \in Nat
          OBVIOUS
        <5> HIDE DEF p
        <5>2. QED  BY <4>2, <5>1
      <4>4. QED  BY <1>1, <3>1, <4>3
    <3>2. QED  BY <1>3, <3>1
  <2>5. weight \in Nat
    <3>1. CASE it.has_token_weights
      <4>1. w \in 1 .. Len(bytes)
        BY <1>3, <2>2, <3>1
      <4>2. QED  BY <1>1, <2>3, <3>1, <4>1
    <3>2. QED  BY <3>1 DEF One
  <2>6. it.remaining - 1 \in 0 .. WordMax /\ it.remaining # 0
    BY <1>1, <1>3, <1>6
  <2> DEFINE R == TermIterators(bytes)
             i1 == [it EXCEPT !.cursor = next]
             i2 == [i1 EXCEPT !.freq = tf.val]
             i3 == [i2 EXCEPT !.pos = pos]
             i4 == [i3 EXCEPT !.weight = weight]
             i5 == [i4 EXCEPT !.started = TRUE]
             i6 == [i5 EXCEPT !.prev = doc]
             i7 == [i6 EXCEPT !.current = doc]
             i8 == [i7 EXCEPT !.remaining = it.remaining - 1]
  <2>7. TermNext(it) = i8
    BY <2>1, Zenon
  <2>8. \A x \in R : /\ \A a \in 1 .. Len(bytes) + 1 : [x EXCEPT !.cursor = a] \in R
                     /\ \A a \in 0 .. WordMax : [x EXCEPT !.freq = a] \in R
                     /\ \A a \in Nat : [x EXCEPT !.pos = a] \in R
                     /\ \A a \in Nat : [x EXCEPT !.weight = a] \in R
                     /\ [x EXCEPT !.started = TRUE] \in R
                     /\ \A a \in 0 .. WordMax : [x EXCEPT !.prev = a] \in R
                     /\ \A a \in 0 .. WordMax : [x EXCEPT !.current = a] \in R
                     /\ \A a \in 0 .. WordMax : /\ [x EXCEPT !.remaining = a] \in R
                                                /\ [x EXCEPT !.remaining = a].remaining = a
    <3>1. \A x \in R : /\ \A a \in 1 .. Len(bytes) + 1 : [x EXCEPT !.cursor = a] \in R
                       /\ \A a \in 0 .. WordMax : [x EXCEPT !.freq = a] \in R
      BY DEF TermIterators
    <3>2. \A x \in R : /\ \A a \in Nat : [x EXCEPT !.pos = a] \in R
                       /\ \A a \in Nat : [x EXCEPT !.weight = a] \in R
      BY DEF TermIterators
    <3>3. \A x \in R : /\ [x EXCEPT !.started = TRUE] \in R
                       /\ \A a \in 0 .. WordMax : [x EXCEPT !.prev = a] \in R
      BY DEF TermIterators
    <3>4. \A x \in R : \A a \in 0 .. WordMax : [x EXCEPT !.current = a] \in R
      BY DEF TermIterators
    <3>5. \A x \in R : \A a \in 0 .. WordMax : /\ [x EXCEPT !.remaining = a] \in R
                                               /\ [x EXCEPT !.remaining = a].remaining = a
      BY DEF TermIterators
    <3> HIDE DEF R
    <3>6. QED  BY <3>1, <3>2, <3>3, <3>4, <3>5
  <2> HIDE DEF p, w, next, doc, pos, weight, R
  <2>9. i4 \in R
    <3>1. it \in R
      BY DEF R
    <3>2. i1 \in R
      BY <2>2, <2>8, <3>1
    <3> HIDE DEF i1
    <3>3. i2 \in R
      BY <1>2, <2>8, <3>2
    <3> HIDE DEF i2
    <3>4. i3 \in R
      BY <2>4, <2>8, <3>3
    <3> HIDE DEF i3
    <3>5. QED  BY <2>5, <2>8, <3>4
  <2> HIDE DEF i4
  <2>10. i7 \in R
    <3>1. i5 \in R
      BY <2>8, <2>9
    <3> HIDE DEF i5
    <3>2. i6 \in R
      BY <1>4, <2>8, <3>1
    <3> HIDE DEF i6
    <3>3. QED  BY <1>4, <2>8, <3>2
  <2> HIDE DEF i7
  <2>11. i8 \in R /\ i8.remaining = it.remaining - 1
    BY <2>6, <2>8, <2>10
  <2> HIDE DEF i8
  <2>12. QED  BY <2>6, <2>7, <2>11 DEF R
<1>7. QED  BY <1>5, <1>6

LEMMA TermAfterDef ==
    ASSUME NEW bytes \in Seq(Byte), NEW it \in TermIterators(bytes)
    PROVE  /\ TermAfter(it, 0) = it
           /\ \A n \in Nat : /\ TermAfter(it, n) \in TermIterators(bytes)
                             /\ TermAfter(it, n + 1) = TermNext(TermAfter(it, n))
<1> DEFINE S == TermIterators(bytes)
           base == [n \in Nat |-> it]
           P == [n \in Nat \ {0} |-> n - 1]
           G == [p \in (Nat \ {0}) \X S |-> TermNext(p[2])]
           m == [n \in Nat |-> n]
           Def(f) == [n \in Nat |-> IF n = 0 THEN it ELSE TermNext(f[n - 1])]
<1> HIDE DEF S
<1>1. it \in S /\ \A x \in S : TermNext(x) \in S
  BY TermNextType DEF S
<1>2. PICK f \in [Nat -> S] : Unfolds(f, Nat, {0}, base, P, G)
  <2>1. Decreases(Nat, S, {0}, base, P, G, m)
    BY <1>1 DEF Decreases
  <2> HIDE DEF base, P, G, m
  <2>2. QED  BY <2>1, Recursion
<1>3. f = Def(f)
  <2>1. ASSUME NEW n \in Nat PROVE f[n] = IF n = 0 THEN it ELSE TermNext(f[n - 1])
    <3>1. n # 0 => n - 1 \in Nat /\ P[n] = n - 1 /\ f[P[n]] \in S
      OBVIOUS
    <3>2. n # 0 => G[<<n, f[P[n]]>>] = TermNext(f[n - 1])
      BY <3>1
    <3>3. QED  BY <1>2, <3>2 DEF Unfolds
  <2>2. QED  BY <2>1
<1>4. PICK g : g = Def(g) /\ \A n \in Nat : TermAfter(it, n) = g[n]
  BY <1>3 DEF TermAfter
<1>5. g[0] = it
  BY <1>4
<1>6. ASSUME NEW n \in Nat PROVE g[n + 1] = TermNext(g[n])
  <2>1. n + 1 \in Nat /\ n + 1 # 0 /\ (n + 1) - 1 = n
    OBVIOUS
  <2>2. g[n + 1] = TermNext(g[(n + 1) - 1])
    BY <1>4, <2>1
  <2>3. QED  BY <2>1, <2>2
<1> DEFINE T == {n \in Nat : g[n] \in S}
<1> HIDE DEF Def
<1>7. \A n \in Nat : n \in T
  <2>1. 0 \in T
    BY <1>1, <1>5
  <2>2. ASSUME NEW n \in Nat, n \in T PROVE n + 1 \in T
    <3>1. g[n] \in S /\ g[n + 1] = TermNext(g[n])
      BY <1>6, <2>2
    <3>2. TermNext(g[n]) \in S
      BY <1>1, <3>1
    <3>3. QED  BY <3>1, <3>2
  <2> HIDE DEF T
  <2>3. QED  BY <2>1, <2>2, Induction
<1>8. TermAfter(it, 0) = it
  BY <1>4, <1>5
<1>9. ASSUME NEW n \in Nat
      PROVE  TermAfter(it, n) \in S /\ TermAfter(it, n + 1) = TermNext(TermAfter(it, n))
  <2>1. n \in T /\ n + 1 \in Nat
    BY <1>7
  <2>2. TermAfter(it, n) = g[n] /\ TermAfter(it, n + 1) = g[n + 1]
    BY <1>4, <2>1
  <2>3. QED  BY <1>6, <2>1, <2>2
<1>10. QED  BY <1>8, <1>9 DEF S

-----------------------------------------------------------------------------
(* One entry of a posting list.                                            *)

LEMMA Quantised ==
    ASSUME NEW w \in Int
    PROVE  QuantizeTokenWeight(w) \in Byte
<1> DEFINE low == Min({w, ByteMax})
<1>1. low \in Int /\ low <= ByteMax /\ ByteMax \in Nat
  <2>1. ByteMax \in Nat /\ ByteMax \in Int
    BY Widths
  <2>2. low \in {w, ByteMax} /\ low <= ByteMax
    BY <2>1, OfTwo
  <2>3. QED  BY <2>1, <2>2
<1> HIDE DEF low
<1>2. Max({0, low}) \in {0, low} /\ Max({0, low}) >= 0
  BY <1>1, OfTwo
<1>3. QED  BY <1>1, <1>2 DEF QuantizeTokenWeight, low, Byte

LEMMA TwoBytes ==
    ASSUME NEW p \in 0 .. kNoPosition
    PROVE  /\ U16LE(p) \in Seq(Byte) /\ Len(U16LE(p)) = 2
           /\ U16LE(p)[1] + (ByteMax + 1) * U16LE(p)[2] = p
<1> DEFINE low == p % (ByteMax + 1)
           high == p \div (ByteMax + 1)
<1>1. PICK n \in Nat : n = ByteMax + 1 /\ n > 0
  BY Widths
<1>2. p \in Nat /\ p < n * n
  BY <1>1, Widths DEF kNoPosition
<1>3. low \in Nat /\ low < n /\ high \in Nat /\ low + n * high = p
  BY <1>1, <1>2
<1> HIDE DEF low, high
<1>4. high < n
  <2>1. SUFFICES ASSUME ~(high < n) PROVE FALSE
    OBVIOUS
  <2>2. PICK x \in Nat : high = n + x
    <3>1. high - n \in Nat /\ high = n + (high - n)
      BY <1>1, <1>3, <2>1
    <3>2. QED  BY <3>1
  <2>3. n * high = n * n + n * x /\ n * n \in Nat /\ n * x \in Nat
    BY <1>1, <2>2
  <2>4. n * high <= p
    BY <1>1, <1>2, <1>3, <2>3
  <2>5. QED  BY <1>2, <2>3, <2>4
<1>5. low \in Byte /\ high \in Byte
  BY <1>1, <1>3, <1>4, Widths DEF Byte
<1>6. U16LE(p) = <<low, high>>
  BY DEF U16LE, low, high
<1>7. QED  BY <1>1, <1>3, <1>5, <1>6

\* The difference to the document before.
Delta(pl, i) == IF i = 1 THEN pl[i].doc ELSE pl[i].doc - pl[i - 1].doc

LEMMA PostingFields ==
    ASSUME NEW pl \in PostingLists
    PROVE  /\ Len(pl) \in Nat /\ DOMAIN pl = 1 .. Len(pl)
           /\ \A i \in DOMAIN pl :
                  /\ pl[i].doc \in 0 .. kNoMoreDocs - 1 /\ pl[i].tf \in 0 .. WordMax
                  /\ pl[i].pos \in 0 .. kNoPosition /\ pl[i].weight \in Int
                  /\ Delta(pl, i) \in 0 .. WordMax
           /\ \A i, j \in DOMAIN pl : i < j => pl[i].doc < pl[j].doc
<1>1. /\ Len(pl) \in Nat /\ DOMAIN pl = 1 .. Len(pl) /\ \A i \in DOMAIN pl : pl[i] \in Posting
      /\ \A i, j \in DOMAIN pl : i < j => pl[i].doc < pl[j].doc
  BY LenProperties, ElementOfSeq DEF PostingLists
<1>2. \A i \in DOMAIN pl :
          /\ pl[i].doc \in 0 .. kNoMoreDocs - 1 /\ pl[i].tf \in 0 .. WordMax
          /\ pl[i].pos \in 0 .. kNoPosition /\ pl[i].weight \in Int
  BY <1>1 DEF Posting
<1>3. ASSUME NEW i \in DOMAIN pl PROVE Delta(pl, i) \in 0 .. WordMax
  <2>1. pl[i].doc \in Nat /\ pl[i].doc <= WordMax /\ WordMax \in Nat
    BY <1>2, Widths
  <2>2. CASE i = 1
    BY <2>1, <2>2 DEF Delta
  <2>3. CASE i # 1
    <3>1. i - 1 \in DOMAIN pl /\ i - 1 < i
      BY <1>1, <2>3
    <3>2. pl[i - 1].doc < pl[i].doc /\ pl[i - 1].doc \in Nat
      BY <1>1, <1>2, <3>1, Widths
    <3>3. pl[i].doc - pl[i - 1].doc \in 0 .. WordMax
      BY <2>1, <3>2
    <3>4. QED  BY <2>3, <3>3 DEF Delta
  <2>4. QED  BY <2>2, <2>3
<1>4. QED  BY <1>1, <1>2, <1>3

LEMMA FourHold ==
    ASSUME NEW bytes \in Seq(Byte), NEW c \in Nat, NEW a \in Seq(Byte), NEW b \in Seq(Byte),
           NEW x \in Seq(Byte), NEW y \in Seq(Byte)
    PROVE  /\ a \o b \o x \o y \in Seq(Byte)
           /\ Len(a \o b \o x \o y) = Len(a) + Len(b) + Len(x) + Len(y)
           /\ HoldsAt(bytes, c, a \o b \o x \o y) =>
                  /\ HoldsAt(bytes, c, a) /\ HoldsAt(bytes, c + Len(a), b)
                  /\ HoldsAt(bytes, c + Len(a) + Len(b), x)
                  /\ HoldsAt(bytes, c + Len(a) + Len(b) + Len(x), y)
<1> DEFINE ab == a \o b
           abx == ab \o x
<1>1. ab \in Seq(Byte) /\ Len(ab) = Len(a) + Len(b)
  BY ConcatProperties
<1>2. /\ Len(a) \in Nat /\ Len(b) \in Nat /\ Len(x) \in Nat /\ Len(y) \in Nat
      /\ Len(ab) \in Nat /\ c + Len(ab) \in Nat
  BY <1>1, LenProperties
<1>3. HoldsAt(bytes, c, ab) => HoldsAt(bytes, c, a) /\ HoldsAt(bytes, c + Len(a), b)
  BY HoldsAtConcat
<1> HIDE DEF ab
<1>4. abx \in Seq(Byte) /\ Len(abx) = Len(ab) + Len(x)
  BY <1>1, ConcatProperties
<1>5. HoldsAt(bytes, c, abx) => HoldsAt(bytes, c, ab) /\ HoldsAt(bytes, c + Len(ab), x)
  BY <1>1, HoldsAtConcat
<1> HIDE DEF abx
<1>6. abx \o y \in Seq(Byte) /\ Len(abx \o y) = Len(abx) + Len(y)
  BY <1>4, ConcatProperties
<1>7. HoldsAt(bytes, c, abx \o y) => HoldsAt(bytes, c, abx) /\ HoldsAt(bytes, c + Len(abx), y)
  BY <1>4, HoldsAtConcat
<1>8. /\ c + Len(ab) = c + Len(a) + Len(b) /\ c + Len(abx) = c + Len(a) + Len(b) + Len(x)
      /\ Len(abx \o y) = Len(a) + Len(b) + Len(x) + Len(y)
  BY <1>1, <1>2, <1>4, <1>6
<1>9. abx \o y = a \o b \o x \o y
  BY DEF abx, ab
<1> DEFINE all == abx \o y
<1>10. /\ all \in Seq(Byte) /\ Len(all) = Len(a) + Len(b) + Len(x) + Len(y)
       /\ HoldsAt(bytes, c, all) =>
                  /\ HoldsAt(bytes, c, a) /\ HoldsAt(bytes, c + Len(a), b)
                  /\ HoldsAt(bytes, c + Len(a) + Len(b), x)
                  /\ HoldsAt(bytes, c + Len(a) + Len(b) + Len(x), y)
  BY <1>3, <1>5, <1>6, <1>7, <1>8
<1> HIDE DEF all
<1>11. all = a \o b \o x \o y
  BY <1>9 DEF all
<1>12. QED  BY <1>10, <1>11

\* TermNext reads at byte c what posting i says, and the next one behind it.
ReadsEntry(bytes, c, pl, i, has_positions, has_token_weights) ==
    LET delta == DecodeVarUint(bytes, c, Width)
        tf    == DecodeVarUint(bytes, delta.next, Width)
        w     == IF has_positions THEN tf.next + 2 ELSE tf.next
        next  == IF has_token_weights THEN w + 1 ELSE w
    IN  /\ delta.ok /\ delta.val = Delta(pl, i) /\ tf.ok /\ tf.val = pl[i].tf
        /\ next = c + Len(PostingEntry(pl, i, has_positions, has_token_weights))
        /\ has_positions => bytes[tf.next] + (ByteMax + 1) * bytes[tf.next + 1] = pl[i].pos
        /\ has_token_weights => bytes[w] = QuantizeTokenWeight(pl[i].weight)

\* What TermNext reads of an entry is what PostingEntry wrote of a posting.
LEMMA EntryReadBack ==
    ASSUME NEW bytes \in Seq(Byte), NEW c \in Nat \ {0}, NEW pl \in PostingLists,
           NEW i \in DOMAIN pl, NEW has_positions \in BOOLEAN, NEW has_token_weights \in BOOLEAN
    PROVE  LET entry == PostingEntry(pl, i, has_positions, has_token_weights)
           IN  /\ entry \in Seq(Byte)
               /\ HoldsAt(bytes, c, entry) =>
                      ReadsEntry(bytes, c, pl, i, has_positions, has_token_weights)
<1> DEFINE a == EncodeVarUint[Delta(pl, i)]
           b == EncodeVarUint[pl[i].tf]
           x == IF has_positions THEN U16LE(pl[i].pos) ELSE <<>>
           y == IF has_token_weights THEN <<QuantizeTokenWeight(pl[i].weight)>> ELSE <<>>
           entry == PostingEntry(pl, i, has_positions, has_token_weights)
           delta == DecodeVarUint(bytes, c, Width)
           tf    == DecodeVarUint(bytes, delta.next, Width)
           w     == IF has_positions THEN tf.next + 2 ELSE tf.next
           next  == IF has_token_weights THEN w + 1 ELSE w
<1>1. /\ Delta(pl, i) \in Nat /\ Delta(pl, i) < TwoTo[Width]
      /\ pl[i].tf \in Nat /\ pl[i].tf < TwoTo[Width]
      /\ pl[i].pos \in 0 .. kNoPosition /\ pl[i].weight \in Int
      /\ Width \in Nat \ {0}
  <2>1. WordMax \in Nat /\ WordMax + 1 = TwoTo[Width] /\ Width \in Nat \ {0}
    BY Widths
  <2>2. Delta(pl, i) \in 0 .. WordMax /\ pl[i].tf \in 0 .. WordMax
    BY PostingFields
  <2>3. \A v \in 0 .. WordMax : v \in Nat /\ v < WordMax + 1
    BY <2>1
  <2>4. QED  BY <2>1, <2>2, <2>3, PostingFields
<1>2. /\ a \in Seq(Byte) /\ b \in Seq(Byte)
  BY <1>1, EncodeDef
<1>3. x \in Seq(Byte) /\ (has_positions => Len(x) = 2) /\ (~has_positions => Len(x) = 0)
  BY <1>1, TwoBytes
<1>4. y \in Seq(Byte) /\ (has_token_weights => Len(y) = 1) /\ (~has_token_weights => Len(y) = 0)
  <2>1. QuantizeTokenWeight(pl[i].weight) \in Byte
    BY <1>1, Quantised
  <2>2. QED  BY <2>1
<1>5. entry = a \o b \o x \o y
  BY DEF PostingEntry, Delta
<1> HIDE DEF entry
<1>6. /\ entry \in Seq(Byte) /\ Len(entry) = Len(a) + Len(b) + Len(x) + Len(y)
      /\ HoldsAt(bytes, c, entry) =>
             /\ HoldsAt(bytes, c, a) /\ HoldsAt(bytes, c + Len(a), b)
             /\ HoldsAt(bytes, c + Len(a) + Len(b), x)
             /\ HoldsAt(bytes, c + Len(a) + Len(b) + Len(x), y)
  <2> HIDE DEF a, b, x, y
  <2>1. QED  BY <1>2, <1>3, <1>4, <1>5, FourHold
<1>7. ASSUME HoldsAt(bytes, c, entry)
      PROVE  /\ delta.ok /\ delta.val = Delta(pl, i) /\ tf.ok /\ tf.val = pl[i].tf
             /\ next = c + Len(entry)
             /\ has_positions =>
                    bytes[tf.next] + (ByteMax + 1) * bytes[tf.next + 1] = pl[i].pos
             /\ has_token_weights => bytes[w] = QuantizeTokenWeight(pl[i].weight)
  <2>1. /\ delta.ok /\ delta.val = Delta(pl, i) /\ delta.next = c + Len(a) /\ Len(a) \in Nat \ {0}
    <3>1. HoldsAt(bytes, c, a)
      BY <1>6, <1>7
    <3>2. delta = [ok |-> TRUE, val |-> Delta(pl, i), next |-> c + Len(a)] /\ Len(a) \in Nat \ {0}
      BY <1>1, <3>1, VarUintReadBack
    <3>3. QED  BY <3>2
  <2>2. /\ tf.ok /\ tf.val = pl[i].tf /\ tf.next = c + Len(a) + Len(b) /\ Len(b) \in Nat \ {0}
    <3>1. HoldsAt(bytes, delta.next, b) /\ delta.next \in Nat \ {0}
      BY <1>6, <1>7, <2>1
    <3> HIDE DEF delta
    <3>2. tf = [ok |-> TRUE, val |-> pl[i].tf, next |-> delta.next + Len(b)] /\ Len(b) \in Nat \ {0}
      BY <1>1, <3>1, VarUintReadBack
    <3> HIDE DEF tf, a, b
    <3>3. QED  BY <2>1, <3>2
  <2> HIDE DEF a, b, x, y, delta, tf
  <2>3. w = c + Len(a) + Len(b) + Len(x) /\ next = c + Len(entry) /\ w \in Nat
    <3>1. PICK la \in Nat, lb \in Nat, lx \in Nat, ly \in Nat :
              la = Len(a) /\ lb = Len(b) /\ lx = Len(x) /\ ly = Len(y)
      BY <1>3, <1>4, <2>1, <2>2
    <3>2. w = (c + la + lb) + lx
      <4>1. tf.next = c + la + lb /\ c + la + lb \in Nat
        BY <2>2, <3>1
      <4>2. CASE has_positions
        BY <1>3, <3>1, <4>1, <4>2
      <4>3. CASE ~has_positions
        BY <1>3, <3>1, <4>1, <4>3
      <4>4. QED  BY <4>2, <4>3
    <3>3. next = w + ly
      <4> HIDE DEF w
      <4>1. w + 0 = w
        BY <3>2
      <4>2. QED  BY <1>4, <3>1, <4>1
    <3>4. Len(entry) = la + lb + lx + ly
      BY <1>6, <3>1
    <3> HIDE DEF w, next
    <3>5. w \in Nat /\ next = c + (la + lb + lx + ly)
      BY <3>2, <3>3
    <3>6. QED  BY <3>1, <3>2, <3>4, <3>5
  <2>4. ASSUME has_positions
        PROVE  bytes[tf.next] + (ByteMax + 1) * bytes[tf.next + 1] = pl[i].pos
    <3>1. HoldsAt(bytes, tf.next, x) /\ x = U16LE(pl[i].pos) /\ Len(x) = 2 /\ tf.next \in Nat
      BY <1>3, <1>6, <1>7, <2>1, <2>2, <2>4 DEF x
    <3>2. bytes[tf.next] = x[1] /\ bytes[tf.next + 1] = x[2]
      <4>1. bytes[tf.next + 1 - 1] = x[1] /\ bytes[tf.next + 2 - 1] = x[2]
        BY <3>1 DEF HoldsAt
      <4>2. tf.next + 1 - 1 = tf.next /\ tf.next + 2 - 1 = tf.next + 1
        BY <3>1
      <4>3. QED  BY <4>1, <4>2
    <3>3. QED  BY <1>1, <3>1, <3>2, TwoBytes
  <2>5. ASSUME has_token_weights
        PROVE  bytes[w] = QuantizeTokenWeight(pl[i].weight)
    <3>1. HoldsAt(bytes, w, y) /\ y = <<QuantizeTokenWeight(pl[i].weight)>> /\ Len(y) = 1 /\ w \in Nat
      BY <1>4, <1>6, <1>7, <2>3, <2>5 DEF y
    <3> HIDE DEF w
    <3>2. bytes[w + 1 - 1] = y[1] /\ w + 1 - 1 = w
      BY <3>1 DEF HoldsAt
    <3>3. QED  BY <3>1, <3>2
  <2>6. QED  BY <2>1, <2>2, <2>3, <2>4, <2>5
<1>8. QED  BY <1>6, <1>7 DEF entry, ReadsEntry

-----------------------------------------------------------------------------
(* A whole posting list.                                                   *)

\* A list is no longer than there are DocIds.
LEMMA ListLength ==
    ASSUME NEW pl \in PostingLists
    PROVE  Len(pl) \in 0 .. WordMax
<1> DEFINE T == {n \in Nat : n + 1 \in DOMAIN pl => pl[n + 1].doc >= n}
<1>1. Len(pl) \in Nat /\ DOMAIN pl = 1 .. Len(pl) /\ WordMax \in Nat /\ kNoMoreDocs = WordMax
  BY PostingFields, Widths
<1>2. \A i \in DOMAIN pl : pl[i].doc \in Nat /\ pl[i].doc <= WordMax - 1
  BY <1>1, PostingFields
<1>3. 0 \in T
  BY <1>2
<1>4. ASSUME NEW n \in Nat, n \in T PROVE n + 1 \in T
  <2>1. SUFFICES ASSUME n + 2 \in DOMAIN pl PROVE pl[n + 2].doc >= n + 1
    <3>1. (n + 1) + 1 = n + 2 /\ n + 1 \in Nat
      OBVIOUS
    <3>2. QED  BY <2>1, <3>1
  <2>2. n + 1 \in DOMAIN pl /\ n + 1 < n + 2
    BY <1>1, <2>1
  <2>3. pl[n + 1].doc < pl[n + 2].doc
    BY <2>1, <2>2, PostingFields
  <2>4. pl[n + 1].doc >= n
    BY <1>4, <2>2
  <2>5. QED  BY <1>2, <2>1, <2>2, <2>3, <2>4
<1>5. \A n \in Nat : n \in T
  <2> HIDE DEF T
  <2>1. QED  BY <1>3, <1>4, Induction
<1>6. CASE Len(pl) = 0
  BY <1>1, <1>6
<1>7. CASE Len(pl) # 0
  <2>1. Len(pl) - 1 \in Nat /\ (Len(pl) - 1) + 1 = Len(pl) /\ Len(pl) \in DOMAIN pl
    BY <1>1, <1>7
  <2>2. pl[Len(pl)].doc >= Len(pl) - 1
    BY <1>5, <2>1
  <2>3. QED  BY <1>1, <1>2, <2>1, <2>2
<1>8. QED  BY <1>6, <1>7

LEMMA HoldsInside ==
    ASSUME NEW S, NEW bytes \in Seq(S), NEW a \in Seq(S), NEW code \in Seq(S),
           NEW c \in Nat, NEW k \in Nat, HoldsAt(bytes, c, a), HoldsAt(a, k, code)
    PROVE  HoldsAt(bytes, c + k - 1, code)
<1>1. /\ c \in Nat \ {0} /\ k \in Nat \ {0} /\ Len(code) \in Nat /\ Len(a) \in Nat
      /\ Len(bytes) \in Nat /\ c + Len(a) - 1 <= Len(bytes) /\ k + Len(code) - 1 <= Len(a)
  BY LenProperties DEF HoldsAt
<1>2. ASSUME NEW i \in 1 .. Len(code) PROVE bytes[c + k - 1 + i - 1] = code[i]
  <2>1. k + i - 1 \in 1 .. Len(a)
    BY <1>1
  <2>2. a[k + i - 1] = code[i] /\ bytes[c + (k + i - 1) - 1] = a[k + i - 1]
    BY <2>1 DEF HoldsAt
  <2>3. c + (k + i - 1) - 1 = c + k - 1 + i - 1
    BY <1>1
  <2>4. QED  BY <2>2, <2>3
<1>3. c + k - 1 \in Nat \ {0} /\ (c + k - 1) + Len(code) - 1 <= Len(bytes)
  BY <1>1
<1>4. QED  BY <1>2, <1>3 DEF HoldsAt

\* The bytes of a list are its length and its entries, one behind the other.
LEMMA Layout ==
    ASSUME NEW pl \in PostingLists, NEW has_positions \in BOOLEAN, NEW has_token_weights \in BOOLEAN
    PROVE  LET bytes == WritePostings(pl, has_positions, has_token_weights)
               entry(i) == PostingEntry(pl, i, has_positions, has_token_weights)
           IN  /\ bytes \in Seq(Byte) /\ HoldsAt(bytes, 1, EncodeVarUint[Len(pl)])
               /\ \E at \in [1 .. Len(pl) + 1 -> Nat \ {0}] :
                      /\ at[1] = 1 + Len(EncodeVarUint[Len(pl)])
                      /\ at[Len(pl) + 1] = Len(bytes) + 1
                      /\ \A i \in 1 .. Len(pl) : /\ at[i + 1] = at[i] + Len(entry(i))
                                                 /\ HoldsAt(bytes, at[i], entry(i))
<1> DEFINE n == Len(pl)
           count == EncodeVarUint[n]
           ss == [i \in 1 .. n |-> PostingEntry(pl, i, has_positions, has_token_weights)]
           flat == FlattenSeq(ss)
           bytes == WritePostings(pl, has_positions, has_token_weights)
<1>1. n \in Nat /\ DOMAIN pl = 1 .. n
  BY PostingFields
<1>2. bytes = count \o flat
  BY DEF WritePostings
<1>3. \A i \in 1 .. n : PostingEntry(pl, i, has_positions, has_token_weights) \in Seq(Byte)
  <2> TAKE i \in 1 .. n
  <2>1. i \in DOMAIN pl /\ <<>> \in Seq(Byte) /\ 1 \in Nat \ {0}
    BY <1>1
  <2> DEFINE none == <<>>
             one == 1
  <2>2. none \in Seq(Byte) /\ one \in Nat \ {0}
    BY <2>1
  <2> HIDE DEF none, one
  <2>3. QED  BY <2>1, <2>2, EntryReadBack
<1>4. ss \in Seq(Seq(Byte)) /\ Len(ss) = n
  BY <1>1, <1>3
<1>5. count \in Seq(Byte) /\ Len(count) \in Nat
  BY <1>1, EncodeDef, LenProperties
<1>6. \A i \in 1 .. n : ss[i] = PostingEntry(pl, i, has_positions, has_token_weights)
  OBVIOUS
<1> HIDE DEF ss, bytes, count
<1>7. CASE n = 0
  <2>1. ss = <<>>
    BY <1>4, <1>7, EmptySeq
  <2>2. flat = <<>> /\ flat \in Seq(Byte)
    BY <2>1 DEF FlattenSeq
  <2> HIDE DEF flat
  <2>3. bytes = count
    BY <1>2, <1>5, <2>2, ConcatEmptySeq
  <2>4. HoldsAt(bytes, 1, count)
    BY <1>5, <2>3 DEF HoldsAt
  <2> DEFINE at == [i \in 1 .. n + 1 |-> 1 + Len(count)]
  <2>5. at \in [1 .. n + 1 -> Nat \ {0}] /\ at[1] = 1 + Len(count) /\ at[n + 1] = Len(bytes) + 1
    BY <1>5, <1>7, <2>3
  <2> HIDE DEF at
  <2>6. \A i \in 1 .. n : FALSE
    BY <1>7
  <2>7. QED  BY <1>5, <2>3, <2>4, <2>5, <2>6 DEF bytes, count
<1>8. CASE n # 0
  <2>1. ss # <<>>
    BY <1>1, <1>4, <1>8
  <2>2. PICK pos \in [1 .. n + 1 -> Nat \ {0}] :
            /\ flat \in Seq(Byte)
            /\ pos[1] = 1 /\ pos[n + 1] = Len(flat) + 1
            /\ \A i \in 1 .. n : pos[i + 1] = pos[i] + Len(ss[i]) /\ HoldsAt(flat, pos[i], ss[i])
    BY <1>4, <2>1, FlattenHolds
  <2> HIDE DEF flat
  <2>3. /\ bytes \in Seq(Byte) /\ Len(bytes) = Len(count) + Len(flat) /\ Len(flat) \in Nat
        /\ HoldsAt(bytes, Len(count) + 1, flat) /\ Len(count) + 1 \in Nat
    BY <1>2, <1>5, <2>2, ConcatProperties, ConcatHolds, LenProperties
  <2>4. HoldsAt(bytes, 1, count)
    <3>1. HoldsAt(count, 1, count)
      BY <1>5 DEF HoldsAt
    <3> DEFINE one == 1
    <3>2. one \in Nat
      OBVIOUS
    <3> HIDE DEF one
    <3>3. HoldsAt(count, one, count) => HoldsAt(count \o flat, one, count)
      BY <1>5, <2>2, <3>2, ConcatHolds
    <3>4. QED  BY <1>2, <3>1, <3>3 DEF one
  <2> DEFINE at == [i \in 1 .. n + 1 |-> Len(count) + pos[i]]
  <2>5. at \in [1 .. n + 1 -> Nat \ {0}]
    BY <1>5, <2>2
  <2>6. at[1] = 1 + Len(count) /\ at[n + 1] = Len(bytes) + 1
    <3>1. 1 \in 1 .. n + 1 /\ n + 1 \in 1 .. n + 1
      BY <1>1
    <3>2. at[1] = Len(count) + pos[1] /\ at[n + 1] = Len(count) + pos[n + 1]
      BY <3>1
    <3>3. pos[1] = 1 /\ pos[n + 1] = Len(flat) + 1
      BY <2>2
    <3> HIDE DEF at
    <3>4. at[1] = Len(count) + 1 /\ at[n + 1] = Len(count) + (Len(flat) + 1)
      BY <3>2, <3>3
    <3>5. Len(count) + (Len(flat) + 1) = Len(bytes) + 1 /\ Len(count) + 1 = 1 + Len(count)
      BY <1>5, <2>3
    <3>6. QED  BY <3>4, <3>5
  <2>7. ASSUME NEW i \in 1 .. n PROVE at[i + 1] = at[i] + Len(ss[i]) /\ HoldsAt(bytes, at[i], ss[i])
    <3>1. i \in 1 .. n + 1 /\ i + 1 \in 1 .. n + 1 /\ ss[i] \in Seq(Byte) /\ Len(ss[i]) \in Nat
      BY <1>1, <1>3, <1>6, LenProperties
    <3>2. pos[i] \in Nat /\ pos[i + 1] = pos[i] + Len(ss[i])
      BY <2>2, <3>1
    <3>3. at[i] = Len(count) + pos[i] /\ at[i + 1] = Len(count) + pos[i + 1]
      BY <3>1
    <3>4. HoldsAt(bytes, Len(count) + 1 + pos[i] - 1, ss[i])
      BY <2>2, <2>3, <3>1, <3>2, HoldsInside
    <3>5. Len(count) + 1 + pos[i] - 1 = at[i] /\ at[i + 1] = at[i] + Len(ss[i])
      BY <1>5, <3>1, <3>2, <3>3
    <3>6. QED  BY <3>4, <3>5
  <2> HIDE DEF at
  <2>8. QED  BY <1>6, <2>3, <2>4, <2>5, <2>6, <2>7 DEF bytes, count
<1>9. QED  BY <1>7, <1>8

\* The cursor k entries into a list, at the byte where the next one starts.
Stands(it, pl, k, c, has_positions, has_token_weights) ==
    /\ it.cursor = c /\ it.remaining = Len(pl) - k
    /\ it.has_positions = has_positions /\ it.has_token_weights = has_token_weights
    /\ it.prev = IF k = 0 THEN 0 ELSE pl[k].doc

\* What a posting is to a reader of the cursor.
Gives(it, p, has_positions, has_token_weights) ==
    /\ it.started /\ it.current = p.doc /\ it.freq = p.tf
    /\ it.pos = IF has_positions THEN p.pos ELSE kNoPosition
    /\ it.weight = IF has_token_weights THEN QuantizeTokenWeight(p.weight) ELSE One

LEMMA NextReadsOn ==
    ASSUME NEW pl \in PostingLists, NEW has_positions \in BOOLEAN, NEW has_token_weights \in BOOLEAN,
           NEW bytes \in Seq(Byte), NEW it \in TermIterators(bytes), NEW k \in 0 .. Len(pl) - 1,
           NEW c \in Nat \ {0}, NEW d \in 1 .. Len(bytes) + 1,
           Stands(it, pl, k, c, has_positions, has_token_weights),
           d = c + Len(PostingEntry(pl, k + 1, has_positions, has_token_weights)),
           HoldsAt(bytes, c, PostingEntry(pl, k + 1, has_positions, has_token_weights))
    PROVE  /\ Stands(TermNext(it), pl, k + 1, d, has_positions, has_token_weights)
           /\ Gives(TermNext(it), pl[k + 1], has_positions, has_token_weights)
<1> DEFINE i     == k + 1
           delta == DecodeVarUint(it.bytes, it.cursor, Width)
           tf    == DecodeVarUint(it.bytes, delta.next, Width)
           p     == tf.next
           w     == IF it.has_positions THEN p + 2 ELSE p
           next  == IF it.has_token_weights THEN w + 1 ELSE w
           doc   == (it.prev + delta.val) % (WordMax + 1)
           pos   == IF it.has_positions
                    THEN it.bytes[p] + (ByteMax + 1) * it.bytes[p + 1] ELSE kNoPosition
           weight == IF it.has_token_weights THEN it.bytes[w] ELSE One
<1>1. /\ it.bytes = bytes /\ it.cursor = c /\ it.remaining = Len(pl) - k
      /\ it.has_positions = has_positions /\ it.has_token_weights = has_token_weights
      /\ it.prev = IF k = 0 THEN 0 ELSE pl[k].doc
  BY DEF Stands, TermIterators
<1>2. /\ Len(pl) \in Nat /\ k \in Nat /\ i \in DOMAIN pl /\ it.remaining # 0
      /\ Len(bytes) \in Nat
  BY <1>1, PostingFields, LenProperties
<1>3. /\ delta.ok /\ delta.val = Delta(pl, i) /\ tf.ok /\ tf.val = pl[i].tf /\ next = d
      /\ has_positions => bytes[p] + (ByteMax + 1) * bytes[p + 1] = pl[i].pos
      /\ has_token_weights => bytes[w] = QuantizeTokenWeight(pl[i].weight)
  <2> HIDE DEF i
  <2>1. HoldsAt(bytes, c, PostingEntry(pl, i, has_positions, has_token_weights))
        /\ d = c + Len(PostingEntry(pl, i, has_positions, has_token_weights))
    BY DEF i
  <2> DEFINE delta0 == DecodeVarUint(bytes, c, Width)
             tf0    == DecodeVarUint(bytes, delta0.next, Width)
             w0     == IF has_positions THEN tf0.next + 2 ELSE tf0.next
             next0  == IF has_token_weights THEN w0 + 1 ELSE w0
  <2>2. /\ delta0.ok /\ delta0.val = Delta(pl, i) /\ tf0.ok /\ tf0.val = pl[i].tf /\ next0 = d
        /\ has_positions => bytes[tf0.next] + (ByteMax + 1) * bytes[tf0.next + 1] = pl[i].pos
        /\ has_token_weights => bytes[w0] = QuantizeTokenWeight(pl[i].weight)
    <3>1. ReadsEntry(bytes, c, pl, i, has_positions, has_token_weights)
      BY <1>2, <2>1, EntryReadBack
    <3>2. QED  BY <2>1, <3>1 DEF ReadsEntry
  <2>3. delta = delta0 /\ tf = tf0
    BY <1>1
  <2> HIDE DEF delta, tf, delta0, tf0
  <2>4. p = tf0.next /\ w = w0 /\ next = next0
    BY <1>1, <2>3
  <2>5. QED  BY <2>2, <2>3, <2>4
<1>4. doc = pl[i].doc
  <2>1. /\ WordMax \in Nat /\ pl[i].doc \in 0 .. WordMax
        /\ \A x \in DOMAIN pl : pl[x].doc \in Int
    <3>1. WordMax \in Nat /\ kNoMoreDocs = WordMax
      BY Widths
    <3>2. \A x \in DOMAIN pl : pl[x].doc \in 0 .. kNoMoreDocs - 1
      BY PostingFields
    <3>3. QED  BY <1>2, <3>1, <3>2
  <2>2. it.prev + Delta(pl, i) = pl[i].doc
    <3>1. CASE k = 0
      <4>1. Delta(pl, i) = pl[i].doc /\ it.prev = 0
        BY <1>1, <3>1 DEF Delta
      <4>2. QED  BY <2>1, <4>1
    <3>2. CASE k # 0
      <4>1. i # 1 /\ i - 1 = k /\ k \in DOMAIN pl
        BY <1>2, <3>2, PostingFields
      <4>2. Delta(pl, i) = pl[i].doc - pl[k].doc /\ it.prev = pl[k].doc
        BY <1>1, <3>2, <4>1 DEF Delta
      <4>3. pl[k].doc \in Int
        BY <2>1, <4>1
      <4>4. QED  BY <2>1, <4>2, <4>3
    <3>3. QED  BY <3>1, <3>2
  <2>3. pl[i].doc % (WordMax + 1) = pl[i].doc
    <3>1. \A a \in Nat : \A b \in 0 .. a : b % (a + 1) = b
      OBVIOUS
    <3>2. QED  BY <2>1, <3>1
  <2>4. QED  BY <1>3, <2>2, <2>3
<1>5. /\ pos = IF has_positions THEN pl[i].pos ELSE kNoPosition
      /\ weight = IF has_token_weights THEN QuantizeTokenWeight(pl[i].weight) ELSE One
  BY <1>1, <1>3
<1>6. ~(it.remaining = 0 \/ ~delta.ok \/ ~tf.ok \/ next > Len(it.bytes) + 1)
  BY <1>1, <1>2, <1>3
<1> HIDE DEF delta, tf
<1>7. TermNext(it) =
          [it EXCEPT !.cursor = next, !.freq = tf.val, !.pos = pos, !.weight = weight,
                     !.started = TRUE, !.prev = doc, !.current = doc, !.remaining = @ - 1]
  BY <1>6 DEF TermNext, delta, tf
<1> HIDE DEF p, w, next, doc, pos, weight
<1> DEFINE t == TermNext(it)
<1>8. /\ t.cursor = next /\ t.freq = tf.val /\ t.pos = pos /\ t.weight = weight
      /\ t.started = TRUE /\ t.prev = doc /\ t.current = doc
      /\ t.remaining = it.remaining - 1
      /\ t.has_positions = it.has_positions /\ t.has_token_weights = it.has_token_weights
  BY <1>7 DEF TermIterators
<1> HIDE DEF t
<1>9. it.remaining - 1 = Len(pl) - i /\ i # 0
  BY <1>1, <1>2
<1>10. Stands(t, pl, i, d, has_positions, has_token_weights)
  BY <1>1, <1>3, <1>4, <1>8, <1>9 DEF Stands
<1>11. Gives(t, pl[i], has_positions, has_token_weights)
  BY <1>3, <1>4, <1>5, <1>8 DEF Gives
<1>12. QED  BY <1>10, <1>11 DEF t

\* TermIterator and Next give a posting list back entry by entry: its length,
\* then each posting in order, then the sentinel.
THEOREM WalkReadBack ==
    ASSUME NEW pl \in PostingLists, NEW has_positions \in BOOLEAN, NEW has_token_weights \in BOOLEAN
    PROVE  LET bytes == WritePostings(pl, has_positions, has_token_weights)
               it == TermIterator(bytes, has_positions, has_token_weights)
           IN  /\ bytes \in Seq(Byte) /\ it \in TermIterators(bytes)
               /\ it.remaining = Len(pl) /\ it.df = Len(pl) /\ ~it.started
               /\ \A k \in 1 .. Len(pl) :
                      Gives(TermAfter(it, k), pl[k], has_positions, has_token_weights)
               /\ TermAfter(it, Len(pl) + 1).current = kNoMoreDocs
<1> DEFINE n == Len(pl)
           count == EncodeVarUint[n]
           bytes == WritePostings(pl, has_positions, has_token_weights)
           it == TermIterator(bytes, has_positions, has_token_weights)
           entry(i) == PostingEntry(pl, i, has_positions, has_token_weights)
<1>1. n \in Nat /\ n < TwoTo[Width] /\ Width \in Nat \ {0} /\ DOMAIN pl = 1 .. n
  <2>1. n \in 0 .. WordMax
    BY ListLength
  <2>2. WordMax \in Nat /\ WordMax + 1 = TwoTo[Width] /\ Width \in Nat \ {0}
    BY Widths
  <2>3. QED  BY <2>1, <2>2, PostingFields
<1>2. /\ bytes \in Seq(Byte) /\ HoldsAt(bytes, 1, count)
      /\ \E at \in [1 .. n + 1 -> Nat \ {0}] :
             /\ at[1] = 1 + Len(count) /\ at[n + 1] = Len(bytes) + 1
             /\ \A i \in 1 .. n : at[i + 1] = at[i] + Len(entry(i)) /\ HoldsAt(bytes, at[i], entry(i))
  BY Layout
<1>3. PICK at \in [1 .. n + 1 -> Nat \ {0}] :
             /\ at[1] = 1 + Len(count) /\ at[n + 1] = Len(bytes) + 1
             /\ \A i \in 1 .. n : at[i + 1] = at[i] + Len(entry(i)) /\ HoldsAt(bytes, at[i], entry(i))
  BY <1>2
<1> HIDE DEF bytes
<1>4. it \in TermIterators(bytes)
  BY <1>2, TermIteratorType
<1>5. /\ it.remaining = n /\ it.df = n /\ ~it.started
      /\ Stands(it, pl, 0, at[1], has_positions, has_token_weights)
  <2> DEFINE one == 1
  <2>1. DecodeVarUint(bytes, one, Width) = [ok |-> TRUE, val |-> n, next |-> one + Len(count)]
    <3>1. one \in Nat \ {0} /\ HoldsAt(bytes, one, count)
      BY <1>2
    <3> HIDE DEF one
    <3>2. QED  BY <1>1, <1>2, <3>1, VarUintReadBack
  <2>2. it.cursor = 1 + Len(count) /\ it.remaining = n /\ it.df = n /\ ~it.started /\ it.prev = 0
        /\ it.has_positions = has_positions /\ it.has_token_weights = has_token_weights
    BY <2>1 DEF TermIterator
  <2> HIDE DEF it
  <2>3. n - 0 = n
    BY <1>1
  <2>4. QED  BY <1>3, <2>2, <2>3 DEF Stands
<1> HIDE DEF it
<1> DEFINE after(k) == TermAfter(it, k)
           T == {k \in Nat : k <= n =>
                     Stands(after(k), pl, k, at[k + 1], has_positions, has_token_weights)}
<1>6. after(0) = it /\ \A k \in Nat : after(k) \in TermIterators(bytes) /\ after(k + 1) = TermNext(after(k))
  BY <1>2, <1>4, TermAfterDef
<1> HIDE DEF after
<1>7. ASSUME NEW k \in Nat, k + 1 <= n,
             Stands(after(k), pl, k, at[k + 1], has_positions, has_token_weights)
      PROVE  /\ Stands(after(k + 1), pl, k + 1, at[k + 1 + 1], has_positions, has_token_weights)
             /\ Gives(after(k + 1), pl[k + 1], has_positions, has_token_weights)
  <2>1. k \in 0 .. n - 1 /\ k + 1 \in 1 .. n /\ k + 1 \in 1 .. n + 1 /\ k + 1 + 1 \in 1 .. n + 1
    BY <1>1, <1>7
  <2>2. at[k + 1] \in Nat \ {0} /\ at[k + 1 + 1] \in Nat \ {0}
    BY <2>1
  <2>3. /\ at[k + 1 + 1] = at[k + 1] + Len(entry(k + 1)) /\ HoldsAt(bytes, at[k + 1], entry(k + 1))
        /\ entry(k + 1) \in Seq(Byte) /\ Len(entry(k + 1)) \in Nat
    <3>1. k + 1 \in DOMAIN pl
      BY <1>1, <2>1
    <3>2. entry(k + 1) \in Seq(Byte)
      BY <1>2, <2>2, <3>1, EntryReadBack
    <3> HIDE DEF entry
    <3>3. QED  BY <1>3, <2>1, <3>2, LenProperties
  <2>4. at[k + 1 + 1] \in 1 .. Len(bytes) + 1
    <3>1. at[k + 1 + 1] - 1 <= Len(bytes) /\ Len(bytes) \in Nat
      BY <1>2, <2>2, <2>3, LenProperties DEF HoldsAt
    <3>2. QED  BY <2>2, <3>1
  <2>5. after(k) \in TermIterators(bytes) /\ after(k + 1) = TermNext(after(k))
    BY <1>6
  <2> DEFINE c == at[k + 1]
             d == at[k + 1 + 1]
  <2>6. /\ c \in Nat \ {0} /\ d \in 1 .. Len(bytes) + 1 /\ d = c + Len(entry(k + 1))
        /\ HoldsAt(bytes, c, entry(k + 1))
        /\ Stands(after(k), pl, k, c, has_positions, has_token_weights)
    BY <1>7, <2>2, <2>3, <2>4
  <2> HIDE DEF c, d
  <2>7. /\ Stands(TermNext(after(k)), pl, k + 1, d, has_positions, has_token_weights)
        /\ Gives(TermNext(after(k)), pl[k + 1], has_positions, has_token_weights)
    BY <1>2, <2>1, <2>5, <2>6, NextReadsOn
  <2>8. QED  BY <2>5, <2>7 DEF d
<1>8. \A k \in Nat : k \in T
  <2>1. 0 \in T
    BY <1>5, <1>6
  <2>2. ASSUME NEW k \in Nat, k \in T PROVE k + 1 \in T
    <3>1. k + 1 <= n => k <= n
      BY <1>1
    <3>2. QED  BY <1>7, <2>2, <3>1
  <2> HIDE DEF T
  <2>3. QED  BY <2>1, <2>2, Induction
<1>9. ASSUME NEW k \in 1 .. n PROVE Gives(after(k), pl[k], has_positions, has_token_weights)
  <2> DEFINE j == k - 1
  <2>1. j \in Nat /\ j + 1 <= n /\ j <= n /\ j + 1 = k
    BY <1>1
  <2> HIDE DEF j
  <2>2. j \in T
    BY <1>8, <2>1
  <2>3. QED  BY <1>7, <2>1, <2>2
<1>10. after(n + 1).current = kNoMoreDocs
  <2>1. n \in T /\ after(n) \in TermIterators(bytes) /\ after(n + 1) = TermNext(after(n))
    BY <1>1, <1>6, <1>8
  <2>2. after(n).remaining = 0
    BY <1>1, <2>1 DEF Stands
  <2>3. QED  BY <1>2, <2>1, <2>2, TermNextType
<1>11. QED  BY <1>2, <1>4, <1>5, <1>9, <1>10 DEF bytes, it, after

-----------------------------------------------------------------------------
(* Advance.                                                                *)

\* Whatever the bytes are, Advance meets a document at or behind the target,
\* or the sentinel, within the entries the length promises.
LEMMA AdvanceType ==
    ASSUME NEW bytes \in Seq(Byte), NEW it \in TermIterators(bytes), NEW target \in 0 .. kNoMoreDocs
    PROVE  /\ TermAdvance(it, target) \in TermIterators(bytes)
           /\ \/ it.current >= target /\ it.started /\ TermAdvance(it, target) = it
              \/ /\ ~(it.current >= target /\ it.started)
                 /\ \E m \in 1 .. it.remaining + 1 :
                       /\ TermAdvance(it, target) = TermAfter(it, m)
                       /\ TermAfter(it, m).current >= target
                       /\ \A k \in 1 .. m - 1 : TermAfter(it, k).current < target
<1> DEFINE after(k) == TermAfter(it, k)
           M == {k \in 1 .. it.remaining + 1 : after(k).current >= target}
           T == {k \in Nat : k <= it.remaining =>
                     \/ \E j \in 1 .. k : after(j).current = kNoMoreDocs
                     \/ after(k).remaining = it.remaining - k}
<1>1. /\ after(0) = it
      /\ \A k \in Nat : after(k) \in TermIterators(bytes) /\ after(k + 1) = TermNext(after(k))
  BY TermAfterDef
<1>2. /\ it.remaining \in Nat /\ kNoMoreDocs \in Nat
      /\ \A k \in Nat : after(k).current \in Nat /\ after(k).remaining \in Nat
  <2>1. WordMax \in Nat /\ kNoMoreDocs \in Nat
    BY Widths
  <2>2. \A x \in TermIterators(bytes) : x.remaining \in Nat /\ x.current \in Nat
    BY <2>1 DEF TermIterators
  <2>3. QED  BY <1>1, <2>1, <2>2
<1>3. \A k \in Nat : \/ after(k + 1).current = kNoMoreDocs
                     \/ after(k).remaining # 0 /\ after(k + 1).remaining = after(k).remaining - 1
  <2> TAKE k \in Nat
  <2>1. after(k) \in TermIterators(bytes) /\ after(k + 1) = TermNext(after(k))
    BY <1>1
  <2> HIDE DEF after
  <2>2. QED  BY <2>1, TermNextType
<1> HIDE DEF after
<1>4. \A k \in Nat : k \in T
  <2>1. 0 \in T
    BY <1>1, <1>2
  <2>2. ASSUME NEW k \in Nat, k \in T PROVE k + 1 \in T
    <3>1. SUFFICES ASSUME k + 1 <= it.remaining
                   PROVE  \/ \E j \in 1 .. k + 1 : after(j).current = kNoMoreDocs
                          \/ after(k + 1).remaining = it.remaining - (k + 1)
      OBVIOUS
    <3>2. CASE \E j \in 1 .. k : after(j).current = kNoMoreDocs
      <4>1. \A j \in 1 .. k : j \in 1 .. k + 1
        OBVIOUS
      <4>2. QED  BY <3>2, <4>1
    <3>3. CASE after(k).remaining = it.remaining - k
      <4>1. CASE after(k + 1).current = kNoMoreDocs
        <5>1. k + 1 \in 1 .. k + 1
          OBVIOUS
        <5>2. QED  BY <4>1, <5>1
      <4>2. CASE after(k + 1).remaining = after(k).remaining - 1
        BY <1>2, <3>3, <4>2
      <4>3. QED  BY <1>3, <4>1, <4>2
    <3>4. QED  BY <1>2, <2>2, <3>1, <3>2, <3>3
  <2> HIDE DEF T
  <2>3. QED  BY <2>1, <2>2, Induction
<1>5. M \in SUBSET Nat /\ M # {}
  <2>1. it.remaining \in T
    BY <1>2, <1>4
  <2>2. CASE \E j \in 1 .. it.remaining : after(j).current = kNoMoreDocs
    <3>1. PICK j \in 1 .. it.remaining : after(j).current = kNoMoreDocs
      BY <2>2
    <3>2. j \in 1 .. it.remaining + 1 /\ kNoMoreDocs >= target
      BY <1>2
    <3>3. QED  BY <1>2, <3>1, <3>2
  <2>3. CASE after(it.remaining).remaining = it.remaining - it.remaining
    <3>1. after(it.remaining).remaining = 0
      BY <1>2, <2>3
    <3>2. after(it.remaining + 1).current = kNoMoreDocs
      BY <1>2, <1>3, <3>1
    <3>3. it.remaining + 1 \in 1 .. it.remaining + 1 /\ kNoMoreDocs >= target
      BY <1>2
    <3>4. QED  BY <1>2, <3>2, <3>3
  <2>4. QED  BY <1>2, <2>1, <2>2, <2>3
<1>6. Min(M) \in M /\ \A y \in M : Min(M) <= y
  <2> HIDE DEF M
  <2>1. QED  BY <1>5, LeastNumber
<1>7. CASE it.current >= target /\ it.started
  BY <1>7 DEF TermAdvance
<1>8. CASE ~(it.current >= target /\ it.started)
  <2>1. TermAdvance(it, target) = after(Min(M))
    BY <1>8 DEF TermAdvance, after
  <2> DEFINE m == Min(M)
  <2>2. m \in 1 .. it.remaining + 1 /\ m \in Nat /\ after(m).current >= target
    BY <1>5, <1>6
  <2>3. ASSUME NEW k \in 1 .. m - 1 PROVE after(k).current < target
    <3>1. k \in Nat /\ k \in 1 .. it.remaining + 1 /\ ~(m <= k)
      BY <1>2, <2>2
    <3>2. k \notin M
      <4> HIDE DEF M
      <4>1. QED  BY <1>6, <3>1
    <3>3. ~(after(k).current >= target)
      BY <3>1, <3>2
    <3>4. after(k).current \in Nat /\ target \in Nat
      BY <1>2, <3>1
    <3>5. QED  BY <3>3, <3>4
  <2> HIDE DEF m, M
  <2>4. after(m) \in TermIterators(bytes)
    BY <1>1, <2>2
  <2>5. QED  BY <1>8, <2>1, <2>2, <2>3, <2>4 DEF after, m
<1>9. QED  BY <1>7, <1>8

\* Calls of Next add up.
LEMMA TermAfterAfter ==
    ASSUME NEW bytes \in Seq(Byte), NEW it \in TermIterators(bytes), NEW k \in Nat
    PROVE  \A m \in Nat : TermAfter(TermAfter(it, k), m) = TermAfter(it, k + m)
<1> DEFINE at == TermAfter(it, k)
           T  == {m \in Nat : TermAfter(at, m) = TermAfter(it, k + m)}
<1>1. \A n \in Nat : TermAfter(it, n) \in TermIterators(bytes)
                     /\ TermAfter(it, n + 1) = TermNext(TermAfter(it, n))
  BY TermAfterDef
<1>2. at \in TermIterators(bytes)
  BY <1>1
<1> HIDE DEF at
<1>3. TermAfter(at, 0) = at /\ \A n \in Nat : TermAfter(at, n + 1) = TermNext(TermAfter(at, n))
  BY <1>2, TermAfterDef
<1>4. 0 \in T
  BY <1>3 DEF at
<1>5. ASSUME NEW m \in Nat, m \in T PROVE m + 1 \in T
  <2>1. k + (m + 1) = (k + m) + 1 /\ k + m \in Nat
    OBVIOUS
  <2>2. TermAfter(at, m) = TermAfter(it, k + m)
    BY <1>5
  <2>3. TermAfter(at, m + 1) = TermAfter(it, (k + m) + 1)
    BY <1>1, <1>3, <2>1, <2>2
  <2>4. QED  BY <2>1, <2>3
<1> HIDE DEF T
<1>6. \A m \in Nat : m \in T
  BY <1>4, <1>5, Induction
<1>7. QED  BY <1>6 DEF T, at

\* A TermIterator keeps the contract of DocIdSetIterator over a posting list:
\* wherever k calls of Next have brought it, Advance goes to the first posting
\* not behind it with a document at or past the target, or to the sentinel when
\* there is none, and stands where calls of Next alone would have brought it.
THEOREM AdvanceMeetsFirst ==
    ASSUME NEW pl \in PostingLists, NEW has_positions \in BOOLEAN, NEW has_token_weights \in BOOLEAN,
           NEW k \in 0 .. Len(pl), NEW target \in 0 .. kNoMoreDocs
    PROVE  LET fresh == TermIterator(WritePostings(pl, has_positions, has_token_weights),
                                     has_positions, has_token_weights)
               it    == TermAdvance(TermAfter(fresh, k), target)
               from  == {i \in DOMAIN pl : i >= k /\ pl[i].doc >= target}
           IN  IF from = {}
               THEN it = TermAfter(fresh, Len(pl) + 1) /\ it.current = kNoMoreDocs
               ELSE /\ it = TermAfter(fresh, Min(from))
                    /\ Gives(it, pl[Min(from)], has_positions, has_token_weights)
<1> DEFINE n == Len(pl)
           bytes == WritePostings(pl, has_positions, has_token_weights)
           fresh == TermIterator(bytes, has_positions, has_token_weights)
           after(i) == TermAfter(fresh, i)
           it    == TermAdvance(after(k), target)
           from  == {i \in DOMAIN pl : i >= k /\ pl[i].doc >= target}
<1>1. /\ bytes \in Seq(Byte) /\ fresh \in TermIterators(bytes) /\ ~fresh.started
      /\ \A i \in 1 .. n : Gives(after(i), pl[i], has_positions, has_token_weights)
      /\ after(n + 1).current = kNoMoreDocs
  BY WalkReadBack
<1>2. /\ n \in Nat /\ DOMAIN pl = 1 .. n /\ \A i \in 1 .. n : pl[i].doc \in Nat
      /\ \A i, j \in 1 .. n : i < j => pl[i].doc < pl[j].doc
      /\ kNoMoreDocs \in Nat /\ target \in Nat /\ target <= kNoMoreDocs
  <2>1. kNoMoreDocs \in Nat
    BY Widths
  <2>2. target \in Nat /\ target <= kNoMoreDocs
    BY <2>1
  <2>3. /\ n \in Nat /\ DOMAIN pl = 1 .. n
        /\ \A i \in DOMAIN pl : pl[i].doc \in 0 .. kNoMoreDocs - 1
        /\ \A i, j \in DOMAIN pl : i < j => pl[i].doc < pl[j].doc
    BY PostingFields
  <2> HIDE DEF n
  <2>4. QED  BY <2>1, <2>2, <2>3
<1>3. k \in Nat /\ k <= n
  BY <1>2
<1> HIDE DEF bytes, fresh, n
<1>4. after(0) = fresh /\ \A i \in Nat : after(i) \in TermIterators(bytes)
  BY <1>1, TermAfterDef
<1>5. \A i \in 1 .. n : after(i).started /\ after(i).current = pl[i].doc
  BY <1>1 DEF Gives
<1>6. \A i \in Nat : TermAfter(after(k), i) = after(k + i)
  BY <1>1, <1>3, TermAfterAfter
<1> HIDE DEF after
\* The first place that is not before the target, wherever Advance starts.
<1>7. PICK j \in k .. n + 1 :
          /\ j >= 1 /\ it = after(j) /\ after(j).current >= target
          /\ \A i \in k .. j - 1 : i >= 1 => after(i).current < target
  <2>1. CASE after(k).current >= target /\ after(k).started /\ it = after(k)
    <3>1. k # 0
      BY <1>1, <1>4, <2>1
    <3>2. k \in k .. n + 1 /\ k >= 1 /\ \A i \in k .. k - 1 : FALSE
      BY <1>2, <1>3, <3>1
    <3>3. QED  BY <2>1, <3>2
  <2>2. CASE /\ ~(after(k).current >= target /\ after(k).started)
             /\ \E m \in 1 .. after(k).remaining + 1 :
                   /\ it = TermAfter(after(k), m)
                   /\ TermAfter(after(k), m).current >= target
                   /\ \A i \in 1 .. m - 1 : TermAfter(after(k), i).current < target
    <3>1. PICK m \in Nat \ {0} : /\ it = after(k + m) /\ after(k + m).current >= target
                                 /\ \A i \in 1 .. m - 1 : after(k + i).current < target
      <4>1. PICK m \in 1 .. after(k).remaining + 1 :
                    /\ it = TermAfter(after(k), m)
                    /\ TermAfter(after(k), m).current >= target
                    /\ \A i \in 1 .. m - 1 : TermAfter(after(k), i).current < target
        BY <2>2
      <4>2. m \in Nat \ {0} /\ \A i \in 1 .. m - 1 : i \in Nat
        OBVIOUS
      <4>3. TermAfter(after(k), m) = after(k + m)
            /\ \A i \in 1 .. m - 1 : TermAfter(after(k), i) = after(k + i)
        BY <1>6, <4>2
      <4>4. QED  BY <4>1, <4>2, <4>3
    <3> DEFINE j == k + m
    <3>2. ASSUME NEW i \in k .. j - 1, i >= 1 PROVE after(i).current < target
      <4>1. CASE i = k
        <5>1. k \in 1 .. n
          BY <1>2, <1>3, <3>2, <4>1
        <5>2. ~(pl[k].doc >= target)
          BY <1>5, <2>2, <5>1
        <5>3. QED  BY <1>2, <1>5, <4>1, <5>1, <5>2
      <4>2. CASE i # k
        <5>1. i - k \in 1 .. m - 1 /\ k + (i - k) = i
          BY <1>3, <4>2
        <5>2. QED  BY <3>1, <5>1
      <4>3. QED  BY <4>1, <4>2
    <3>3. j <= n + 1
      <4>1. SUFFICES ASSUME ~(j <= n + 1) PROVE FALSE
        OBVIOUS
      <4>2. n + 1 \in k .. j - 1 /\ n + 1 >= 1
        BY <1>2, <1>3, <4>1
      <4>3. after(n + 1).current < target
        BY <3>2, <4>2
      <4>4. QED  BY <1>1, <1>2, <4>3
    <3>4. j \in k .. n + 1 /\ j >= 1
      BY <1>2, <1>3, <3>3
    <3>5. it = after(j) /\ after(j).current >= target
      BY <3>1
    <3> HIDE DEF j
    <3>6. QED  BY <3>2, <3>4, <3>5
  <2>3. after(k) \in TermIterators(bytes)
    BY <1>3, <1>4
  <2>4. QED  BY <1>1, <2>1, <2>2, <2>3, AdvanceType
<1>8. CASE j = n + 1
  <2>1. ASSUME NEW i \in DOMAIN pl, i >= k PROVE ~(pl[i].doc >= target)
    <3>1. i \in 1 .. n /\ i \in k .. j - 1 /\ i >= 1
      BY <1>2, <1>3, <1>8, <2>1
    <3>2. after(i).current < target
      BY <1>7, <3>1
    <3>3. QED  BY <1>2, <1>5, <3>1, <3>2
  <2>2. from = {}
    BY <2>1
  <2> HIDE DEF from, it
  <2>3. QED  BY <1>1, <1>7, <1>8, <2>2 DEF it, from, after, fresh, bytes, n
<1>9. CASE j # n + 1
  <2>1. j \in 1 .. n
    BY <1>2, <1>3, <1>7, <1>9
  <2>2. j \in from
    BY <1>2, <1>5, <1>7, <2>1
  <2>3. ASSUME NEW i \in from PROVE j <= i
    <3>1. SUFFICES ASSUME ~(j <= i) PROVE FALSE
      OBVIOUS
    <3>2. i \in 1 .. n /\ i >= k /\ pl[i].doc >= target
      BY <1>2
    <3>3. i \in k .. j - 1 /\ i >= 1
      BY <1>3, <2>1, <3>1, <3>2
    <3>4. after(i).current < target
      BY <1>7, <3>3
    <3>5. QED  BY <1>2, <1>5, <3>2, <3>4
  <2>4. from \in SUBSET Nat
    BY <1>2
  <2> HIDE DEF from, it
  <2>5. Min(from) = j
    <3>1. Min(from) \in from /\ Min(from) <= j
      BY <2>2, <2>4, LeastNumber
    <3>2. PICK i \in from : i = Min(from) /\ i <= j
      BY <3>1
    <3>3. i \in Nat
      BY <2>4
    <3>4. j \in Nat
      BY <2>1
    <3>5. j <= i
      BY <2>3
    <3>6. i = j
      BY <3>2, <3>3, <3>4, <3>5
    <3>7. QED  BY <3>2, <3>6
  <2>6. from # {} /\ it = after(Min(from)) /\ Gives(it, pl[Min(from)], has_positions, has_token_weights)
    BY <1>1, <1>7, <2>1, <2>2, <2>5
  <2>7. QED  BY <2>6 DEF it, from, after, fresh, bytes, n
<1>10. QED  BY <1>8, <1>9

\* A cursor made for one document: it stands on the posting of the document
\* when the list has one, and elsewhere when it has none.
THEOREM PostingsReadBack ==
    ASSUME NEW pl \in PostingLists, NEW has_positions \in BOOLEAN, NEW has_token_weights \in BOOLEAN,
           NEW target \in 0 .. kNoMoreDocs - 1
    PROVE  LET it == TermAdvance(TermIterator(WritePostings(pl, has_positions, has_token_weights),
                                              has_positions, has_token_weights), target)
           IN  /\ \A i \in DOMAIN pl : pl[i].doc = target =>
                      Gives(it, pl[i], has_positions, has_token_weights)
               /\ (\A i \in DOMAIN pl : pl[i].doc # target) => it.current # target
<1> DEFINE bytes == WritePostings(pl, has_positions, has_token_weights)
           fresh == TermIterator(bytes, has_positions, has_token_weights)
           it    == TermAdvance(fresh, target)
           from  == {i \in DOMAIN pl : i >= 0 /\ pl[i].doc >= target}
<1>1. /\ target \in 0 .. kNoMoreDocs /\ target \in Nat /\ target # kNoMoreDocs
      /\ DOMAIN pl \in SUBSET Nat /\ 0 \in 0 .. Len(pl)
      /\ \A i \in DOMAIN pl : pl[i].doc \in Nat
      /\ \A i, j \in DOMAIN pl : i < j => pl[i].doc < pl[j].doc
  BY PostingFields, Widths
<1>2. TermAfter(fresh, 0) = fresh
  BY WalkReadBack, TermAfterDef
<1>3. IF from = {} THEN it.current = kNoMoreDocs
      ELSE Gives(it, pl[Min(from)], has_positions, has_token_weights)
  BY <1>1, <1>2, AdvanceMeetsFirst
<1> HIDE DEF it
<1>4. from # {} => Min(from) \in from /\ \A i \in from : Min(from) <= i
  <2>1. from \in SUBSET Nat
    BY <1>1
  <2> HIDE DEF from
  <2>2. QED  BY <2>1, LeastNumber
<1>5. ASSUME NEW i \in DOMAIN pl, pl[i].doc = target
      PROVE  Gives(it, pl[i], has_positions, has_token_weights)
  <2>1. i \in from
    BY <1>1, <1>5
  <2>2. PICK j \in DOMAIN pl : j = Min(from) /\ pl[j].doc >= target /\ j <= i
    BY <1>4, <2>1
  <2>3. j = i
    BY <1>1, <1>5, <2>2
  <2>4. QED  BY <1>3, <2>1, <2>2, <2>3
<1>6. ASSUME \A i \in DOMAIN pl : pl[i].doc # target PROVE it.current # target
  <2>1. CASE from = {}
    BY <1>1, <1>3, <2>1
  <2>2. CASE from # {}
    <3>1. Min(from) \in DOMAIN pl /\ Gives(it, pl[Min(from)], has_positions, has_token_weights)
      BY <1>3, <1>4, <2>2
    <3>2. QED  BY <1>6, <3>1 DEF Gives
  <2>3. QED  BY <2>1, <2>2
<1>7. QED  BY <1>5, <1>6 DEF it

=============================================================================
