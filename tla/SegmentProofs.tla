---------------------------- MODULE SegmentProofs ----------------------------
(***************************************************************************)
(* What a sealed segment gives back is what was added to it, for every     *)
(* schema, every sequence of documents and every width: the buffers follow *)
(* the documents (SegInv), and every offset of the files leads to the      *)
(* bytes it was recorded for, which PostingsProofs reads back.             *)
(*                                                                         *)
(* And a search over it walks over the documents of its query, for every   *)
(* query: an iterator of any height keeps to a set of documents (Keeps),   *)
(* because iterators over those that do, do too (CombineKeeps), and Build  *)
(* makes nothing else (BuildKeeps).                                        *)
(***************************************************************************)
EXTENDS Iterators, PostingsProofs

-----------------------------------------------------------------------------
(* Numbers in ascending order.                                             *)

Below(S, x) == {y \in S : y < x}
Rank(S, x) == Cardinality(Below(S, x))

\* A larger element has more elements below it.
LEMMA RankLess ==
    ASSUME NEW S \in SUBSET Nat, IsFiniteSet(S), NEW x \in S
    PROVE  /\ Rank(S, x) \in Nat /\ Rank(S, x) < Cardinality(S) /\ Cardinality(S) \in Nat
           /\ \A y \in S : x < y => Rank(S, x) < Rank(S, y)
<1>1. ASSUME NEW T \in SUBSET S, x \in T, x \notin Below(S, x), Below(S, x) \subseteq T
      PROVE  Rank(S, x) \in Nat /\ Cardinality(T) \in Nat /\ Rank(S, x) < Cardinality(T)
  <2>1. IsFiniteSet(T) /\ IsFiniteSet(Below(S, x))
    BY FS_Subset, <1>1
  <2>2. Rank(S, x) \in Nat /\ Cardinality(T) \in Nat
    BY <2>1, FS_CardinalityType DEF Rank
  <2>3. Rank(S, x) <= Cardinality(T) /\ Rank(S, x) # Cardinality(T)
    BY <1>1, <2>1, FS_Subset DEF Rank
  <2>4. QED  BY <2>2, <2>3
<1>2. x \in Nat /\ x \notin Below(S, x) /\ Below(S, x) \subseteq S
  BY DEF Below
<1>3. ASSUME NEW y \in S, x < y PROVE Rank(S, x) < Rank(S, y)
  <2>1. Below(S, y) \in SUBSET S /\ x \in Below(S, y)
    BY <1>3 DEF Below
  <2>2. \A z \in S : z < x => z < y
    <3>1. y \in Nat /\ \A z \in S : z \in Nat
      OBVIOUS
    <3>2. QED  BY <1>2, <1>3, <3>1
  <2>3. Below(S, x) \subseteq Below(S, y)
    BY <2>2 DEF Below
  <2>4. QED  BY <1>1, <1>2, <2>1, <2>3 DEF Rank
<1>4. QED  BY <1>1, <1>2, <1>3

\* Ordered has every element of a finite set, the smaller ones first.
LEMMA OrderedList ==
    ASSUME NEW S \in SUBSET Nat, IsFiniteSet(S)
    PROVE  LET n == Cardinality(S)
           IN  /\ n \in Nat /\ Ordered(S) \in [1 .. n -> S]
               /\ \A i, j \in 1 .. n : i < j => Ordered(S)[i] < Ordered(S)[j]
               /\ \A x \in S : \E i \in 1 .. n : Ordered(S)[i] = x
<1> DEFINE n == Cardinality(S)
           r == [x \in S |-> Rank(S, x) + 1]
<1>1. n \in Nat
  BY FS_CardinalityType
<1>2. r \in [S -> 1 .. n] /\ \A x, y \in S : x < y => r[x] < r[y]
  BY <1>1, RankLess
<1>3. \A x, y \in S : r[x] = r[y] => x = y
  <2>1. \A x, y \in S : x < y \/ y < x \/ x = y
    OBVIOUS
  <2>2. \A x \in S : r[x] \in Nat
    BY <1>1, <1>2
  <2> HIDE DEF r
  <2>3. QED  BY <1>2, <2>1, <2>2
<1>4. \A i \in 1 .. n : \E x \in S : r[x] = i
  <2> HIDE DEF r
  <2>1. r \in Injection(S, 1 .. n)
    BY <1>2, <1>3 DEF Injection, IsInjective
  <2>2. IsFiniteSet(1 .. n) /\ Cardinality(1 .. n) = n
    BY <1>1, FS_Interval
  <2>3. r \in Surjection(S, 1 .. n)
    BY <2>1, <2>2, FS_Injection
  <2>4. QED  BY <2>3 DEF Surjection
<1> DEFINE s == [i \in 1 .. n |-> CHOOSE x \in S : Rank(S, x) = i - 1]
<1>5. s = Ordered(S)
  BY DEF Ordered, Rank, Below
<1>6. ASSUME NEW i \in 1 .. n PROVE s[i] \in S /\ r[s[i]] = i
  <2>1. PICK x \in S : r[x] = i
    BY <1>4
  <2>2. Rank(S, x) \in Nat /\ Rank(S, x) = i - 1
    BY <2>1, RankLess
  <2>3. s[i] \in S /\ Rank(S, s[i]) = i - 1
    BY <2>2
  <2>4. QED  BY <1>1, <2>3
<1>7. ASSUME NEW i \in 1 .. n, NEW j \in 1 .. n, i < j PROVE s[i] < s[j]
  <2>1. s[i] \in S /\ s[j] \in S /\ r[s[i]] = i /\ r[s[j]] = j
    BY <1>6
  <2> HIDE DEF s, r
  <2>2. s[i] \in Nat /\ s[j] \in Nat
    BY <2>1
  <2>3. s[i] < s[j] \/ s[j] < s[i] \/ s[i] = s[j]
    BY <2>2
  <2>4. s[j] < s[i] => j < i
    BY <1>2, <2>1
  <2>5. QED  BY <1>1, <1>7, <2>1, <2>3, <2>4
<1>8. ASSUME NEW x \in S PROVE \E i \in 1 .. n : s[i] = x
  <2>1. r[x] \in 1 .. n
    BY <1>2
  <2>2. s[r[x]] \in S /\ r[s[r[x]]] = r[x]
    BY <1>6, <2>1
  <2> HIDE DEF s, r
  <2>3. s[r[x]] = x
    BY <1>3, <2>2
  <2>4. QED  BY <2>1, <2>3
<1>9. s \in [1 .. n -> S]
  BY <1>6
<1> HIDE DEF r, s
<1>10. QED  BY <1>1, <1>5, <1>7, <1>8, <1>9

\* A sequence that ascends is the order of its elements.
LEMMA OrderedIs ==
    ASSUME NEW n \in Nat, NEW s \in [1 .. n -> Nat],
           \A i, j \in 1 .. n : i < j => s[i] < s[j]
    PROVE  LET R == {s[i] : i \in 1 .. n}
           IN  IsFiniteSet(R) /\ Cardinality(R) = n /\ Ordered(R) = s
<1> DEFINE R == {s[i] : i \in 1 .. n}
<1>1. \A i, j \in 1 .. n : i < j => s[i] # s[j]
  OBVIOUS
<1>2. IsFiniteSet(R) /\ Cardinality(R) = n
  BY <1>1, CountOnce
<1>3. ASSUME NEW i \in 1 .. n PROVE Rank(R, s[i]) = i - 1
  <2> DEFINE head == [k \in 1 .. i - 1 |-> s[k]]
             H == {head[k] : k \in 1 .. i - 1}
  <2>1. i - 1 \in Nat /\ head \in [1 .. i - 1 -> Nat] /\ \A k \in 1 .. i - 1 : k \in 1 .. n
    OBVIOUS
  <2>2. \A k, l \in 1 .. i - 1 : k < l => head[k] # head[l]
    BY <1>1, <2>1
  <2>3. Cardinality(H) = i - 1
    <3> HIDE DEF head
    <3>1. QED  BY <2>1, <2>2, CountOnce
  <2>4. ASSUME NEW k \in 1 .. n PROVE s[k] < s[i] <=> k \in 1 .. i - 1
    <3>1. s[k] \in Nat /\ s[i] \in Nat
      OBVIOUS
    <3>2. k < i \/ k = i \/ i < k
      OBVIOUS
    <3>3. QED  BY <3>1, <3>2
  <2>5. H = Below(R, s[i])
    <3>1. \A x \in H : x \in R /\ x < s[i]
      BY <2>1, <2>4
    <3>2. \A x \in R : x < s[i] => x \in H
      BY <2>4
    <3>3. QED  BY <3>1, <3>2 DEF Below
  <2>6. QED  BY <2>3, <2>5 DEF Rank
<1>4. ASSUME NEW i \in 1 .. n
      PROVE  (CHOOSE x \in R : Rank(R, x) = i - 1) = s[i]
  <2>1. s[i] \in R /\ Rank(R, s[i]) = i - 1
    BY <1>3
  <2>2. ASSUME NEW x \in R, Rank(R, x) = i - 1 PROVE x = s[i]
    <3>1. PICK k \in 1 .. n : x = s[k]
      OBVIOUS
    <3>2. k - 1 = i - 1
      BY <1>3, <2>2, <3>1
    <3>3. QED  BY <3>1, <3>2
  <2> HIDE DEF R
  <2>3. QED  BY <2>1, <2>2
<1>5. Ordered(R) = [i \in 1 .. n |-> CHOOSE x \in R : Rank(R, x) = i - 1]
  BY <1>2 DEF Ordered, Rank, Below
<1> HIDE DEF R
<1>6. Ordered(R) = s
  BY <1>4, <1>5
<1>7. QED  BY <1>2, <1>6 DEF R

\* A finite set of numbers has a largest one, and Max is it.
LEMMA LargestNumber ==
    ASSUME NEW S \in SUBSET Int, IsFiniteSet(S), S # {}
    PROVE  Max(S) \in S /\ \A y \in S : Max(S) >= y
<1> DEFINE Above(x) == {y \in S : y > x}
           T == {Cardinality(Above(x)) : x \in S}
<1>1. \A x \in S : IsFiniteSet(Above(x)) /\ Cardinality(Above(x)) \in Nat
  <2> TAKE x \in S
  <2>1. Above(x) \in SUBSET S
    OBVIOUS
  <2>2. QED  BY <2>1, FS_Subset, FS_CardinalityType
<1>2. PICK x \in S : \A y \in S : Cardinality(Above(x)) <= Cardinality(Above(y))
  <2>1. T \in SUBSET Nat /\ T # {}
    BY <1>1
  <2>2. PICK c \in T : \A k \in T : c <= k
    <3> HIDE DEF T
    <3>1. QED  BY <2>1, LeastNumber
  <2>3. QED  BY <2>2
<1>3. ASSUME NEW y \in S PROVE x >= y
  <2>1. SUFFICES ASSUME y > x PROVE FALSE
    <3>1. x \in Int /\ y \in Int
      OBVIOUS
    <3>2. QED  BY <2>1, <3>1
  <2>2. Above(y) \subseteq Above(x)
    <3>1. ASSUME NEW z \in S, z > y PROVE z > x
      <4>1. x \in Int /\ y \in Int /\ z \in Int
        OBVIOUS
      <4>2. QED  BY <2>1, <3>1, <4>1
    <3>2. QED  BY <3>1
  <2>3. y \in Above(x) /\ y \notin Above(y)
    BY <2>1
  <2>4. Cardinality(Above(y)) <= Cardinality(Above(x)) /\ Cardinality(Above(y)) # Cardinality(Above(x))
    <3> HIDE DEF Above
    <3>1. QED  BY <1>1, <2>2, <2>3, FS_Subset
  <2>5. QED  BY <1>1, <1>2, <2>4
<1>4. QED  BY <1>3 DEF Max

-----------------------------------------------------------------------------
(* Slices of a buffer.                                                     *)

\* What stands at a place is the slice of its length.
LEMMA HeldSlice ==
    ASSUME NEW U, NEW bytes \in Seq(U), NEW S, NEW code \in Seq(S), NEW c, HoldsAt(bytes, c, code)
    PROVE  SubSeq(bytes, c, c + Len(code) - 1) = code
<1> DEFINE n == Len(code)
           slice == SubSeq(bytes, c, c + n - 1)
<1>1. /\ n \in Nat /\ Len(bytes) \in Nat /\ c \in Nat \ {0} /\ c + n - 1 <= Len(bytes)
      /\ code \in [1 .. n -> S] /\ \A i \in 1 .. n : bytes[c + i - 1] = code[i]
  BY LenProperties DEF HoldsAt
<1>2. \A i \in c .. c + n - 1 : bytes[i] \in U
  <2>1. \A i \in c .. c + n - 1 : i \in 1 .. Len(bytes)
    BY <1>1
  <2>2. QED  BY <2>1, ElementOfSeq
<1>3. c + n - 1 \in Int /\ c + n - 1 - c + 1 = n /\ (c <= c + n - 1 <=> n # 0)
  BY <1>1
<1> HIDE DEF n
<1>4. slice \in Seq(U) /\ Len(slice) = n /\ \A i \in 1 .. n : slice[i] = bytes[c + i - 1]
  <2> DEFINE m == c + n - 1
  <2>1. m \in Int /\ m - c + 1 = n /\ (c <= m <=> n # 0) /\ c \in Int
    BY <1>1, <1>3
  <2>2. \A i \in c .. m : bytes[i] \in U
    BY <1>2
  <2> HIDE DEF m
  <2>3. /\ SubSeq(bytes, c, m) \in Seq(U)
        /\ Len(SubSeq(bytes, c, m)) = IF c <= m THEN m - c + 1 ELSE 0
        /\ \A i \in 1 .. m - c + 1 : SubSeq(bytes, c, m)[i] = bytes[c + i - 1]
    BY <2>1, <2>2, SubSeqProperties
  <2>4. QED  BY <2>1, <2>3 DEF m
<1> HIDE DEF slice
<1>5. slice \in [1 .. n -> U] /\ \A i \in 1 .. n : slice[i] = code[i]
  BY <1>1, <1>4, LenProperties
<1>6. slice = code
  BY <1>1, <1>5
<1>7. QED  BY <1>6 DEF slice, n

\* The flattened sequences are a sequence, also when there is none of them.
LEMMA FlattenType ==
    ASSUME NEW S, NEW n \in Nat, NEW ss \in [1 .. n -> Seq(S)]
    PROVE  FlattenSeq([i \in 1 .. n |-> ss[i]]) \in Seq(S)
<1> DEFINE all == [i \in 1 .. n |-> ss[i]]
<1>1. all \in Seq(Seq(S)) /\ Len(all) = n
  BY SeqDef
<1>2. CASE n = 0
  <2>1. Len(all) = 0 /\ all = <<>>
    BY <1>1, <1>2
  <2>2. FlattenSeq(all) = <<>>
    BY <2>1 DEF FlattenSeq
  <2>3. QED  BY <2>2, EmptySeq
<1>3. CASE n # 0
  <2>1. all # <<>>
    BY <1>1, <1>3
  <2> HIDE DEF all
  <2>2. FlattenSeq(all) \in Seq(S)
    BY <1>1, <2>1, FlattenHolds
  <2>3. QED  BY <2>2 DEF all
<1>4. QED  BY <1>2, <1>3

\* A sequence stands in the flattened ones behind those before it, flattened.
LEMMA FlattenSlice ==
    ASSUME NEW S, NEW n \in Nat, NEW ss \in [1 .. n -> Seq(S)], NEW k \in 1 .. n
    PROVE  HoldsAt(FlattenSeq([i \in 1 .. n |-> ss[i]]),
                   Len(FlattenSeq([i \in 1 .. k - 1 |-> ss[i]])) + 1, ss[k])
<1> DEFINE all == [i \in 1 .. n |-> ss[i]]
           before == [i \in 1 .. k - 1 |-> ss[i]]
           q == k - 1
<1>1. all \in Seq(Seq(S)) /\ Len(all) = n /\ all # <<>> /\ \A i \in 1 .. n : all[i] = ss[i]
  <2>1. all \in Seq(Seq(S)) /\ Len(all) = n
    BY SeqDef
  <2>2. n # 0
    OBVIOUS
  <2>3. QED  BY <2>1, <2>2
<1>2. /\ q \in Nat /\ before \in Seq(Seq(S)) /\ Len(before) = q
      /\ \A i \in 1 .. q : i \in 1 .. n /\ before[i] = ss[i]
  <2>1. q \in Nat /\ \A i \in 1 .. q : i \in 1 .. n
    OBVIOUS
  <2>2. before \in [1 .. q -> Seq(S)] /\ Len(before) = q
    BY <2>1
  <2>3. QED  BY <2>1, <2>2, SeqDef
<1>3. \A i \in 1 .. n : Len(ss[i]) \in Nat
  BY LenProperties
<1> HIDE DEF all, before
<1>4. PICK at \in [1 .. n + 1 -> Nat \ {0}] :
          /\ at[1] = 1
          /\ \A i \in 1 .. n : at[i + 1] = at[i] + Len(ss[i]) /\ HoldsAt(FlattenSeq(all), at[i], ss[i])
  <2>1. PICK to \in [1 .. Len(all) + 1 -> Nat \ {0}] :
            /\ to[1] = 1 /\ to[Len(all) + 1] = Len(FlattenSeq(all)) + 1
            /\ \A i \in 1 .. Len(all) : /\ to[i + 1] = to[i] + Len(all[i])
                                        /\ HoldsAt(FlattenSeq(all), to[i], all[i])
    BY <1>1, FlattenHolds
  <2>2. to \in [1 .. n + 1 -> Nat \ {0}]
    BY <1>1, <2>1
  <2>3. ASSUME NEW i \in 1 .. n
        PROVE  to[i + 1] = to[i] + Len(ss[i]) /\ HoldsAt(FlattenSeq(all), to[i], ss[i])
    <3>1. i \in 1 .. Len(all) /\ all[i] = ss[i]
      BY <1>1
    <3>2. QED  BY <2>1, <3>1
  <2>4. QED  BY <2>1, <2>2, <2>3
<1>5. Len(FlattenSeq(before)) + 1 = at[k]
  <2>1. CASE q = 0
    <3>1. before = <<>> /\ Len(before) = 0
      BY <1>2, <2>1, EmptySeq
    <3>2. FlattenSeq(before) = <<>>
      BY <3>1 DEF FlattenSeq
    <3>3. k = 1 /\ Len(<<>>) = 0
      BY <2>1
    <3>4. QED  BY <1>4, <3>2, <3>3
  <2>2. CASE q # 0
    <3>1. before # <<>>
      BY <1>2, <2>2
    <3>2. PICK to \in [1 .. q + 1 -> Nat \ {0}] :
              /\ to[1] = 1 /\ to[q + 1] = Len(FlattenSeq(before)) + 1
              /\ \A i \in 1 .. q : to[i + 1] = to[i] + Len(ss[i])
      <4>1. \E at2 \in [1 .. Len(before) + 1 -> Nat \ {0}] :
                  /\ at2[1] = 1 /\ at2[Len(before) + 1] = Len(FlattenSeq(before)) + 1
                  /\ \A i \in 1 .. Len(before) : /\ at2[i + 1] = at2[i] + Len(before[i])
                                               /\ HoldsAt(FlattenSeq(before), at2[i], before[i])
        BY <1>2, <3>1, FlattenHolds
      <4>2. QED  BY <1>2, <4>1
    <3> DEFINE T == {i \in Nat : i \in 0 .. q => to[i + 1] = at[i + 1]}
    <3>3. 0 \in T
      BY <1>4, <3>2
    <3>4. ASSUME NEW i \in Nat, i \in T PROVE i + 1 \in T
      <4>1. SUFFICES ASSUME i + 1 \in 0 .. q PROVE to[(i + 1) + 1] = at[(i + 1) + 1]
        OBVIOUS
      <4>2. i \in 0 .. q /\ i + 1 \in 1 .. q /\ i + 1 \in 1 .. n
        BY <1>2, <4>1
      <4>3. to[i + 1] = at[i + 1]
        BY <3>4, <4>2
      <4>4. to[(i + 1) + 1] = to[i + 1] + Len(ss[i + 1]) /\ at[(i + 1) + 1] = at[i + 1] + Len(ss[i + 1])
        BY <1>4, <3>2, <4>2
      <4>5. QED  BY <4>3, <4>4
    <3>5. q \in T
      <4> HIDE DEF T, q
      <4>1. \A i \in Nat : i \in T
        BY <3>3, <3>4, Induction
      <4>2. QED  BY <1>2, <4>1
    <3>6. q \in 0 .. q /\ q + 1 = k
      BY <1>2
    <3>7. QED  BY <3>2, <3>5, <3>6
  <2>3. QED  BY <2>1, <2>2
<1>6. QED  BY <1>4, <1>5 DEF all, before

-----------------------------------------------------------------------------
(* The inductive invariant.                                                *)

\* The posting of a document for a term of a field.
PostingFor(doc, f, t, d) ==
    LET tokens == Tokens(doc, f)
        at     == {i \in DOMAIN tokens : tokens[i] = t}
    IN  [doc |-> d, tf |-> Cardinality(at),
         pos |-> Min({Min(at) - 1, kNoPosition}), weight |-> MaxTokenWeight(doc, f, at)]

\* A term has a list when a document has it, with one posting of each that has.
PostingsFit(f) ==
    LET postings == field_data_[f].postings
    IN  /\ DOMAIN postings = {t \in Terms : Occurs(f, t) # {}}
        /\ \A t \in DOMAIN postings :
               /\ postings[t] \in PostingLists
               /\ {p.doc : p \in Range(postings[t])} = Occurs(f, t)
               /\ \A p \in Range(postings[t]) : p = PostingFor(added[p.doc + 1], f, t, p.doc)

CountFits(f) ==
    field_data_[f].doc_count = Cardinality({d \in DocIds : TokensAt(d, f) # <<>>})

\* What is stored of each document.
StoredFits ==
    /\ stored_blobs_ = [i \in 1 .. Len(added) |-> Blob(added[i])]
    /\ doc_quality_ = IF StoreDocQuality THEN [i \in 1 .. Len(added) |-> added[i].quality] ELSE <<>>

SegInv ==
    /\ added \in Seq(Documents) /\ Len(added) <= kNoMoreDocs
    /\ StoredFits
    /\ \A f \in DOMAIN Schema : PostingsFit(f) /\ CountFits(f)
    /\ reader \in {None, Sealed}

-----------------------------------------------------------------------------
(* What documents say.                                                     *)

\* The assumptions, part by part.
LEMMA Widest ==
    /\ Terms \in SUBSET Nat
    /\ Len(Schema) \in Nat /\ DOMAIN Schema = 1 .. Len(Schema)
    /\ \A f \in DOMAIN Schema : Schema[f].positions \in BOOLEAN /\ Schema[f].weights \in BOOLEAN
    /\ \A doc \in Documents, f \in DOMAIN Schema :
           /\ Tokens(doc, f) \in Seq(Terms) /\ Len(Tokens(doc, f)) \in 0 .. WordMax
           /\ DOMAIN Tokens(doc, f) = 1 .. Len(Tokens(doc, f))
           /\ Range(Tokens(doc, f)) \subseteq Terms
<1>1. Spelling \in Seq(Range(Spelling)) /\ Schema \in Seq(Range(Schema))
  BY DocumentsAssumption
<1>2. Terms \in SUBSET Nat
  <2>1. DOMAIN Spelling = 1 .. Len(Spelling) /\ Len(Spelling) \in Nat
    BY <1>1, LenProperties
  <2>2. QED  BY <2>1 DEF Terms
<1>3. Len(Schema) \in Nat /\ DOMAIN Schema = 1 .. Len(Schema)
  BY <1>1, LenProperties
<1>4. ASSUME NEW doc \in Documents, NEW f \in DOMAIN Schema
      PROVE  /\ Tokens(doc, f) \in Seq(Terms) /\ Len(Tokens(doc, f)) \in 0 .. WordMax
             /\ DOMAIN Tokens(doc, f) = 1 .. Len(Tokens(doc, f))
             /\ Range(Tokens(doc, f)) \subseteq Terms
  <2>1. Tokens(doc, f) \in Seq(Terms) /\ Len(Tokens(doc, f)) <= WordMax
    BY DocumentsAssumption
  <2>2. /\ Len(Tokens(doc, f)) \in Nat /\ DOMAIN Tokens(doc, f) = 1 .. Len(Tokens(doc, f))
        /\ Tokens(doc, f) \in [1 .. Len(Tokens(doc, f)) -> Terms]
    BY <2>1, LenProperties
  <2>3. Range(Tokens(doc, f)) \subseteq Terms
    BY <2>2 DEF Range
  <2>4. QED  BY <2>1, <2>2, <2>3, Widths
<1>5. QED  BY <1>2, <1>3, <1>4, DocumentsAssumption

\* The places of a term among the tokens of a field.
PlacesOf(tokens, t) == {i \in DOMAIN tokens : tokens[i] = t}

\* The largest weight of some tokens is a number.
LEMMA TokenWeightType ==
    ASSUME NEW doc \in Documents, NEW f \in DOMAIN Schema,
           NEW at \in SUBSET Nat, IsFiniteSet(at), \A i \in at : i >= 1
    PROVE  MaxTokenWeight(doc, f, at) \in Int
<1>1. CASE Weighted(doc, f)
  <2> DEFINE w == doc.weights[Schema[f].name]
             g == [i \in at |-> IF i <= Len(w) THEN w[i] ELSE One]
             R == {g[i] : i \in at}
             W == {IF i <= Len(w) THEN w[i] ELSE One : i \in at}
  <2>1. w \in Seq(Int)
    BY <1>1, DocumentsAssumption
  <2> HIDE DEF w
  <2>2. ASSUME NEW i \in at PROVE g[i] \in Int
    <3>1. i <= Len(w) => i \in 1 .. Len(w)
      BY <2>1, LenProperties
    <3>2. i <= Len(w) => w[i] \in Int
      BY <2>1, <3>1, ElementOfSeq
    <3>3. QED  BY <3>2 DEF One
  <2>3. R = W
    OBVIOUS
  <2>4. IsFiniteSet(R) /\ R \in SUBSET Int
    <3>1. DOMAIN g = at /\ g = [i \in at |-> g[i]]
      OBVIOUS
    <3> HIDE DEF g
    <3>2. g \in Surjection(at, R)
      BY <3>1 DEF Surjection
    <3>3. QED  BY <2>2, <3>2, FS_Surjection
  <2> HIDE DEF R, W
  <2>5. IsFiniteSet({0} \cup W) /\ {0} \cup W \in SUBSET Int /\ {0} \cup W # {}
    <3>1. IsFiniteSet(W \cup {0})
      BY <2>3, <2>4, FS_AddElement
    <3>2. W \cup {0} = {0} \cup W
      OBVIOUS
    <3>3. QED  BY <2>3, <2>4, <3>1, <3>2
  <2>6. Max({0} \cup W) \in Int
    BY <2>5, LargestNumber
  <2>7. QED  BY <1>1, <2>6 DEF MaxTokenWeight, W, w
<1>2. CASE ~Weighted(doc, f)
  BY <1>2 DEF MaxTokenWeight, One
<1>3. QED  BY <1>1, <1>2

\* A posting has its types, in any segment that is not full.
LEMMA PostingType ==
    ASSUME NEW doc \in Documents, NEW f \in DOMAIN Schema,
           NEW t \in Range(Tokens(doc, f)), NEW d \in 0 .. kNoMoreDocs - 1
    PROVE  PostingFor(doc, f, t, d) \in Posting /\ PostingFor(doc, f, t, d).doc = d
<1> DEFINE tokens == Tokens(doc, f)
           at     == PlacesOf(tokens, t)
<1>1. tokens \in Seq(Terms) /\ Len(tokens) \in 0 .. WordMax /\ DOMAIN tokens = 1 .. Len(tokens)
  BY Widest
<1>2. t \in Range(tokens)
  OBVIOUS
<1>3. PostingFor(doc, f, t, d) =
          [doc |-> d, tf |-> Cardinality(at), pos |-> Min({Min(at) - 1, kNoPosition}),
           weight |-> MaxTokenWeight(doc, f, at)]
  BY DEF PostingFor, PlacesOf
<1> HIDE DEF tokens
<1>4. at \in SUBSET (1 .. Len(tokens)) /\ at # {}
  BY <1>1, <1>2 DEF PlacesOf, Range
<1> HIDE DEF at
<1>5. IsFiniteSet(at) /\ Cardinality(at) \in 0 .. WordMax
  <2>1. PICK n \in Nat : n = Len(tokens) /\ n <= WordMax
    <3>1. WordMax \in Nat /\ Len(tokens) \in 0 .. WordMax
      BY <1>1, Widths
    <3>2. Len(tokens) \in Nat /\ Len(tokens) <= WordMax
      BY <3>1
    <3>3. QED  BY <3>2
  <2>2. IsFiniteSet(1 .. n) /\ Cardinality(1 .. n) = n
    BY FS_Interval
  <2>3. IsFiniteSet(at) /\ Cardinality(at) <= n
    BY <1>4, <2>1, <2>2, FS_Subset
  <2>4. Cardinality(at) \in Nat
    BY <2>3, FS_CardinalityType
  <2>5. QED  BY <2>1, <2>3, <2>4, Widths
<1>6. at \in SUBSET Nat /\ \A i \in at : i >= 1
  BY <1>4
<1>7. Min(at) - 1 \in Nat
  <2>1. Min(at) \in at
    BY <1>4, <1>6, LeastNumber
  <2>2. Min(at) \in Nat /\ Min(at) >= 1
    BY <1>6, <2>1
  <2>3. QED  BY <2>2
<1>8. Min({Min(at) - 1, kNoPosition}) \in 0 .. kNoPosition
  <2>1. kNoPosition \in Nat
    BY Widths
  <2>2. PICK a \in Nat : a = Min(at) - 1
    BY <1>7
  <2>3. Min({a, kNoPosition}) \in {a, kNoPosition} /\ Min({a, kNoPosition}) <= kNoPosition
    <3>1. a \in Int /\ kNoPosition \in Int
      BY <2>1
    <3>2. QED  BY <3>1, OfTwo
  <2>4. QED  BY <2>1, <2>2, <2>3
<1>9. MaxTokenWeight(doc, f, at) \in Int
  BY <1>5, <1>6, TokenWeightType
<1>10. QED  BY <1>3, <1>5, <1>8, <1>9 DEF Posting, at, tokens

\* DocIds count the documents added; a document's tokens are its own.
LEMMA DocsAre ==
    ASSUME added \in Seq(Documents)
    PROVE  /\ Len(added) \in Nat /\ DOMAIN added = 1 .. Len(added) /\ DocIds = 0 .. Len(added) - 1
           /\ \A d \in DocIds : d + 1 \in 1 .. Len(added) /\ added[d + 1] \in Documents
           /\ \A d \in DocIds, f \in DOMAIN Schema : TokensAt(d, f) = Tokens(added[d + 1], f)
<1>1. Len(added) \in Nat /\ DOMAIN added = 1 .. Len(added)
  BY LenProperties
<1>2. DocIds = 0 .. Len(added) - 1
  <2>1. \A d \in 0 .. Len(added) - 1 : d + 1 \in 1 .. Len(added) /\ d = (d + 1) - 1
    BY <1>1
  <2>2. \A i \in 1 .. Len(added) : i - 1 \in 0 .. Len(added) - 1
    BY <1>1
  <2>3. QED  BY <1>1, <2>1, <2>2 DEF DocIds
<1>3. \A d \in DocIds : d + 1 \in 1 .. Len(added) /\ added[d + 1] \in Documents
  <2>1. \A d \in DocIds : d + 1 \in 1 .. Len(added)
    BY <1>1, <1>2
  <2>2. QED  BY <2>1, ElementOfSeq
<1>4. \A d \in DocIds, f \in DOMAIN Schema : TokensAt(d, f) = Tokens(added[d + 1], f)
  BY <1>3 DEF TokensAt, TokensOf
<1>5. QED  BY <1>1, <1>2, <1>3, <1>4

LEMMA OccursIn ==
    ASSUME added \in Seq(Documents), NEW f \in DOMAIN Schema, NEW t
    PROVE  /\ Occurs(f, t) \in SUBSET Nat /\ Occurs(f, t) \subseteq DocIds /\ IsFiniteSet(Occurs(f, t))
           /\ \A d \in DocIds : d \in Occurs(f, t) <=> t \in Range(Tokens(added[d + 1], f))
<1>1. Len(added) \in Nat /\ DocIds = 0 .. Len(added) - 1
  BY DocsAre
<1>2. Occurs(f, t) \in SUBSET DocIds /\ IsFiniteSet(DocIds)
  BY <1>1, FS_Interval DEF Occurs
<1>3. IsFiniteSet(Occurs(f, t))
  BY <1>2, FS_Subset
<1>4. \A d \in DocIds : d \in Occurs(f, t) <=> t \in Range(Tokens(added[d + 1], f))
  BY DocsAre DEF Occurs
<1>5. QED  BY <1>1, <1>2, <1>3, <1>4

-----------------------------------------------------------------------------
(* The invariant is inductive.                                             *)

LEMMA StartFits == SegInit => SegInv
<1> SUFFICES ASSUME SegInit PROVE SegInv
  OBVIOUS
<1> USE DEF SegInit
<1>1. added \in Seq(Documents) /\ Len(added) = 0 /\ Len(added) <= kNoMoreDocs
  BY EmptySeq, Widths
<1>2. DocIds = {}
  BY <1>1, DocsAre
<1>3. StoredFits
  BY DEF StoredFits
<1>4. ASSUME NEW f \in DOMAIN Schema PROVE PostingsFit(f) /\ CountFits(f)
  <2>1. field_data_[f].postings = <<>> /\ DOMAIN field_data_[f].postings = {} /\ field_data_[f].doc_count = 0
    OBVIOUS
  <2>2. \A t \in Terms : Occurs(f, t) = {}
    BY <1>2 DEF Occurs
  <2>3. PostingsFit(f)
    BY <2>1, <2>2 DEF PostingsFit
  <2>4. {d \in DocIds : TokensAt(d, f) # <<>>} = {}
    BY <1>2
  <2>5. CountFits(f)
    BY <2>1, <2>4, FS_EmptySet DEF CountFits
  <2>6. QED  BY <2>3, <2>5
<1>5. QED  BY <1>1, <1>3, <1>4 DEF SegInv

\* One document more.
LEMMA AddedOne ==
    ASSUME SegInv, NEW doc \in Documents, AddDocument(doc), NEW n \in Nat, n = Len(added)
    PROVE  /\ n \in 0 .. kNoMoreDocs - 1 /\ next_doc_id_ = n /\ added \in Seq(Documents)
           /\ added' \in Seq(Documents) /\ Len(added') = n + 1 /\ Len(added') <= kNoMoreDocs
           /\ \A i \in 1 .. n : added'[i] = added[i]
           /\ added'[n + 1] = doc
           /\ DocIds = 0 .. n - 1 /\ n \notin DocIds /\ DocIds' = DocIds \cup {n}
           /\ \A f \in DOMAIN Schema :
                  /\ TokensAt(n, f)' = Tokens(doc, f)
                  /\ \A d \in DocIds : TokensAt(d, f)' = TokensAt(d, f)
           /\ \A f \in DOMAIN Schema, t \in Terms :
                  Occurs(f, t)' = IF t \in Range(Tokens(doc, f)) THEN Occurs(f, t) \cup {n}
                                  ELSE Occurs(f, t)
<1>1. added \in Seq(Documents) /\ n \in Nat /\ n <= kNoMoreDocs /\ DocIds = 0 .. n - 1
  BY DocsAre DEF SegInv
<1>2. next_doc_id_ = n
  <2>1. stored_blobs_ = [i \in 1 .. n |-> Blob(added[i])]
    BY DEF SegInv, StoredFits
  <2>2. QED  BY <1>1, <2>1 DEF next_doc_id_
<1>3. n \in 0 .. kNoMoreDocs - 1
  BY <1>1, <1>2, Widths DEF AddDocument
<1>4. /\ added' \in Seq(Documents) /\ Len(added') = n + 1 /\ added'[n + 1] = doc
      /\ \A i \in 1 .. n : added'[i] = added[i]
  BY <1>1, AppendProperties DEF AddDocument
<1>5. n + 1 <= kNoMoreDocs
  BY <1>3, Widths
<1>6. DOMAIN added' = 1 .. n + 1
  BY <1>4, LenProperties
<1>7. DocIds' = DocIds \cup {n} /\ n \notin DocIds
  <2>1. DocIds' = {i - 1 : i \in 1 .. n + 1}
    BY <1>6 DEF DocIds
  <2>2. \A d \in 0 .. n : d + 1 \in 1 .. n + 1 /\ d = (d + 1) - 1
    BY <1>1
  <2>3. \A i \in 1 .. n + 1 : i - 1 \in 0 .. n
    BY <1>1
  <2>4. {i - 1 : i \in 1 .. n + 1} = 0 .. n
    BY <2>2, <2>3
  <2>5. 0 .. n = (0 .. n - 1) \cup {n} /\ n \notin 0 .. n - 1
    BY <1>1
  <2>6. QED  BY <1>1, <2>1, <2>4, <2>5
<1>8. ASSUME NEW f \in DOMAIN Schema
      PROVE  /\ TokensAt(n, f)' = Tokens(doc, f)
             /\ \A d \in DocIds : TokensAt(d, f)' = TokensAt(d, f)
  <2>1. TokensAt(n, f)' = Tokens(doc, f)
    BY <1>4 DEF TokensAt, TokensOf
  <2>2. ASSUME NEW d \in DocIds PROVE TokensAt(d, f)' = TokensAt(d, f)
    <3>1. d + 1 \in 1 .. n
      BY <1>1
    <3>2. added'[d + 1] = added[d + 1]
      BY <1>4, <3>1
    <3>3. QED  BY <3>2 DEF TokensAt, TokensOf
  <2>3. QED  BY <2>1, <2>2
<1>9. ASSUME NEW f \in DOMAIN Schema, NEW t \in Terms
      PROVE  Occurs(f, t)' = IF t \in Range(Tokens(doc, f)) THEN Occurs(f, t) \cup {n} ELSE Occurs(f, t)
  <2>1. Occurs(f, t)' = {d \in DocIds' : t \in Range(TokensAt(d, f)')}
    BY DEF Occurs, Range
  <2>2. \A d \in DocIds : t \in Range(TokensAt(d, f)') <=> t \in Range(TokensAt(d, f))
    BY <1>8
  <2>3. t \in Range(TokensAt(n, f)') <=> t \in Range(Tokens(doc, f))
    BY <1>8
  <2>4. Occurs(f, t) = {d \in DocIds : t \in Range(TokensAt(d, f))}
    BY DEF Occurs
  <2>5. QED  BY <1>7, <2>1, <2>2, <2>3, <2>4
<1>10. QED  BY <1>1, <1>2, <1>3, <1>4, <1>5, <1>7, <1>8, <1>9

\* A function on 1 .. n + 1 is what it was on 1 .. n with its last value added.
LEMMA AppendMap ==
    ASSUME NEW n \in Nat, NEW s, NEW g, s = [i \in 1 .. n |-> g[i]], g = [i \in 1 .. n + 1 |-> g[i]]
    PROVE  Append(s, g[n + 1]) = g
<1> DEFINE S == {g[i] : i \in 1 .. n + 1}
<1>1. s \in Seq(S) /\ Len(s) = n
  <2>1. \A i \in 1 .. n : i \in 1 .. n + 1
    OBVIOUS
  <2>2. s \in [1 .. n -> S]
    BY <2>1
  <2>3. QED  BY <2>2, SeqDef
<1>2. n + 1 \in 1 .. n + 1 /\ g[n + 1] \in S
  OBVIOUS
<1> DEFINE a == Append(s, g[n + 1])
<1> HIDE DEF S
<1>3. /\ a \in Seq(S) /\ Len(a) = n + 1 /\ a[n + 1] = g[n + 1]
      /\ \A i \in 1 .. n : a[i] = s[i]
  BY <1>1, <1>2, AppendProperties
<1> HIDE DEF a
<1>4. a = [i \in 1 .. n + 1 |-> a[i]]
  BY <1>3, LenProperties
<1>5. ASSUME NEW i \in 1 .. n + 1 PROVE a[i] = g[i]
  <2>1. i \in 1 .. n \/ i = n + 1
    OBVIOUS
  <2>2. QED  BY <1>3, <2>1
<1>6. a = g
  BY <1>4, <1>5
<1>7. QED  BY <1>6 DEF a

\* The stored fields and the quality of the document come last.
LEMMA StoredFitsOneMore ==
    ASSUME SegInv, NEW doc \in Documents, AddDocument(doc), NEW n \in Nat, n = Len(added)
    PROVE  StoredFits'
<1>1. /\ n = Len(added) /\ Len(added') = n + 1 /\ added'[n + 1] = doc
      /\ \A i \in 1 .. n : added'[i] = added[i]
  BY AddedOne
<1>2. /\ stored_blobs_ = [i \in 1 .. n |-> Blob(added[i])]
      /\ doc_quality_ = IF StoreDocQuality THEN [i \in 1 .. n |-> added[i].quality] ELSE <<>>
  BY <1>1 DEF SegInv, StoredFits
<1>3. \A i \in 1 .. n : i \in 1 .. n + 1
  OBVIOUS
<1>4. stored_blobs_' = [i \in 1 .. n + 1 |-> Blob(added'[i])]
  <2> DEFINE g == [i \in 1 .. n + 1 |-> Blob(added'[i])]
  <2>1. stored_blobs_ = [i \in 1 .. n |-> g[i]]
    BY <1>1, <1>2, <1>3
  <2>2. g = [i \in 1 .. n + 1 |-> g[i]] /\ g[n + 1] = Blob(doc)
    BY <1>1
  <2> HIDE DEF g
  <2>3. Append(stored_blobs_, Blob(doc)) = g
    BY <2>1, <2>2, AppendMap
  <2>4. QED  BY <2>3 DEF AddDocument, g
<1>5. CASE StoreDocQuality
  <2> DEFINE g == [i \in 1 .. n + 1 |-> added'[i].quality]
  <2>1. doc_quality_ = [i \in 1 .. n |-> g[i]]
    BY <1>1, <1>2, <1>3, <1>5
  <2>2. g = [i \in 1 .. n + 1 |-> g[i]] /\ g[n + 1] = doc.quality
    BY <1>1
  <2> HIDE DEF g
  <2>3. Append(doc_quality_, doc.quality) = g
    BY <2>1, <2>2, AppendMap
  <2>4. doc_quality_' = g
    BY <1>5, <2>3 DEF AddDocument
  <2>5. QED  BY <1>1, <1>4, <1>5, <2>4 DEF StoredFits, g
<1>6. CASE ~StoreDocQuality
  BY <1>1, <1>2, <1>4, <1>6 DEF StoredFits, AddDocument
<1>7. QED  BY <1>5, <1>6

\* A posting behind all of a list keeps it sorted.
LEMMA ListGrows ==
    ASSUME NEW pl \in PostingLists, NEW p \in Posting, \A q \in Range(pl) : q.doc < p.doc
    PROVE  Append(pl, p) \in PostingLists /\ Range(Append(pl, p)) = Range(pl) \cup {p}
<1> DEFINE n == Len(pl)
           new == Append(pl, p)
<1>1. /\ pl \in Seq(Posting) /\ n \in Nat /\ DOMAIN pl = 1 .. n
      /\ \A i, j \in 1 .. n : i < j => pl[i].doc < pl[j].doc
  <2>1. pl \in Seq(Posting) /\ \A i, j \in DOMAIN pl : i < j => pl[i].doc < pl[j].doc
    BY DEF PostingLists
  <2>2. QED  BY <2>1, LenProperties
<1> HIDE DEF n
<1>2. /\ new \in Seq(Posting) /\ DOMAIN new = 1 .. n + 1 /\ new[n + 1] = p
      /\ \A i \in 1 .. n : new[i] = pl[i]
  <2>1. /\ new \in Seq(Posting) /\ Len(new) = n + 1 /\ new[n + 1] = p
        /\ \A i \in 1 .. n : new[i] = pl[i]
    BY <1>1, AppendProperties DEF n
  <2>2. QED  BY <2>1, LenProperties
<1> HIDE DEF new
<1>3. \A i \in 1 .. n : pl[i] \in Range(pl)
  BY <1>1 DEF Range
<1>4. \A i \in 1 .. n + 1 : i \in 1 .. n \/ i = n + 1
  BY <1>1
<1>5. ASSUME NEW i \in 1 .. n + 1, NEW j \in 1 .. n + 1, i < j PROVE new[i].doc < new[j].doc
  <2>1. i \in 1 .. n
    BY <1>1, <1>5
  <2>2. QED  BY <1>1, <1>2, <1>3, <1>4, <1>5, <2>1
<1>6. new \in PostingLists
  BY <1>2, <1>5 DEF PostingLists
<1>7. Range(new) = Range(pl) \cup {p}
  <2>1. \A x \in Range(new) : x \in Range(pl) \cup {p}
    BY <1>2, <1>3, <1>4 DEF Range
  <2>2. \A x \in Range(pl) \cup {p} : x \in Range(new)
    <3>1. \A i \in 1 .. n : i \in 1 .. n + 1
      BY <1>1
    <3>2. n + 1 \in 1 .. n + 1
      BY <1>1
    <3>3. QED  BY <1>1, <1>2, <3>1, <3>2 DEF Range
  <2>3. QED  BY <2>1, <2>2
<1>8. QED  BY <1>6, <1>7 DEF new

\* The list of a term, empty when it has none.
ListOf(f, t) ==
    IF t \in DOMAIN field_data_[f].postings THEN field_data_[f].postings[t] ELSE <<>>

LEMMA ListsFit ==
    ASSUME SegInv, NEW f \in DOMAIN Schema, NEW t \in Terms
    PROVE  /\ ListOf(f, t) \in PostingLists
           /\ {p.doc : p \in Range(ListOf(f, t))} = Occurs(f, t)
           /\ \A p \in Range(ListOf(f, t)) : p = PostingFor(added[p.doc + 1], f, t, p.doc)
<1> DEFINE postings == field_data_[f].postings
<1>1. PostingsFit(f)
  BY DEF SegInv
<1>2. CASE t \in DOMAIN postings
  BY <1>1, <1>2 DEF PostingsFit, ListOf
<1>3. CASE t \notin DOMAIN postings
  <2>1. ListOf(f, t) = <<>> /\ Occurs(f, t) = {}
    BY <1>1, <1>3 DEF PostingsFit, ListOf
  <2>2. <<>> \in Seq(Posting) /\ DOMAIN <<>> = {}
    BY EmptySeq
  <2>3. Range(<<>>) = {} /\ <<>> \in PostingLists
    BY <2>2 DEF Range, PostingLists
  <2>4. QED  BY <2>1, <2>3
<1>4. QED  BY <1>2, <1>3

\* What AddDocument makes of the lists of a field.
LEMMA ListsGrow ==
    ASSUME SegInv, NEW doc \in Documents, AddDocument(doc), NEW n \in Nat, n = Len(added),
           NEW f \in DOMAIN Schema
    PROVE  LET R == Range(Tokens(doc, f))
               new == field_data_'[f].postings
           IN  /\ DOMAIN new = DOMAIN field_data_[f].postings \cup R
               /\ \A t \in DOMAIN new :
                      new[t] = IF t \in R THEN Append(ListOf(f, t), PostingFor(doc, f, t, n))
                               ELSE ListOf(f, t)
               /\ field_data_'[f].doc_count =
                      field_data_[f].doc_count + IF Tokens(doc, f) = <<>> THEN 0 ELSE 1
<1> DEFINE R == Range(Tokens(doc, f))
           old == field_data_[f]
<1>1. field_data_'[f] = WithPostings(doc, f)
  BY DEF AddDocument
<1>2. \A t : PostingOf(doc, f, t) = PostingFor(doc, f, t, n)
  BY AddedOne DEF PostingOf, PostingFor
<1>3. CASE Tokens(doc, f) = <<>>
  <2>1. field_data_'[f] = old
    BY <1>1, <1>3 DEF WithPostings
  <2>2. R = {}
    BY <1>3 DEF Range
  <2>3. old.doc_count + 0 = old.doc_count
    <3>1. old.doc_count = Cardinality({d \in DocIds : TokensAt(d, f) # <<>>})
      BY DEF SegInv, CountFits
    <3>2. {d \in DocIds : TokensAt(d, f) # <<>>} \in SUBSET (0 .. n - 1) /\ IsFiniteSet(0 .. n - 1)
      BY DocsAre, FS_Interval DEF SegInv
    <3>3. old.doc_count \in Nat
      BY <3>1, <3>2, FS_Subset, FS_CardinalityType
    <3>4. QED  BY <3>3
  <2>4. QED  BY <1>3, <2>1, <2>2, <2>3 DEF ListOf
<1>4. CASE Tokens(doc, f) # <<>>
  <2>1. field_data_'[f] =
            [postings |-> [t \in DOMAIN old.postings \cup R |->
                               IF t \in R THEN Append(ListOf(f, t), PostingOf(doc, f, t))
                               ELSE ListOf(f, t)],
             doc_count |-> old.doc_count + 1,
             sum_field_length |-> old.sum_field_length + Len(Tokens(doc, f))]
    BY <1>1, <1>4 DEF WithPostings, ListOf
  <2>2. QED  BY <1>2, <1>4, <2>1
<1>5. QED  BY <1>3, <1>4

LEMMA PostingsFitOneMore ==
    ASSUME SegInv, NEW doc \in Documents, AddDocument(doc), NEW n \in Nat, n = Len(added),
           NEW f \in DOMAIN Schema
    PROVE  PostingsFit(f)'
<1> DEFINE R == Range(Tokens(doc, f))
           old == field_data_[f].postings
           new == field_data_'[f].postings
<1>1. /\ DOMAIN new = DOMAIN old \cup R
      /\ \A t \in DOMAIN new :
             new[t] = IF t \in R THEN Append(ListOf(f, t), PostingFor(doc, f, t, n)) ELSE ListOf(f, t)
  BY ListsGrow
<1>2. \A t \in Terms : Occurs(f, t)' = IF t \in R THEN Occurs(f, t) \cup {n} ELSE Occurs(f, t)
  BY AddedOne
<1>3. /\ R \subseteq Terms /\ DOMAIN old = {t \in Terms : Occurs(f, t) # {}}
      /\ n \in 0 .. kNoMoreDocs - 1 /\ added \in Seq(Documents)
      /\ added'[n + 1] = doc /\ \A i \in 1 .. n : added'[i] = added[i]
  BY Widest, AddedOne DEF SegInv, PostingsFit
<1>4. DOMAIN new = {t \in Terms : Occurs(f, t)' # {}}
  <2>1. \A t \in Terms : t \in DOMAIN new <=> Occurs(f, t)' # {}
    BY <1>1, <1>2, <1>3
  <2>2. \A t \in DOMAIN new : t \in Terms
    BY <1>1, <1>3
  <2> HIDE DEF new
  <2>3. QED  BY <2>1, <2>2
<1>5. ASSUME NEW t \in Terms
      PROVE  /\ \A p \in Range(ListOf(f, t)) : p.doc < n /\ p = PostingFor(added'[p.doc + 1], f, t, p.doc)
             /\ ListOf(f, t) \in PostingLists /\ {p.doc : p \in Range(ListOf(f, t))} = Occurs(f, t)
  <2>1. /\ ListOf(f, t) \in PostingLists /\ {p.doc : p \in Range(ListOf(f, t))} = Occurs(f, t)
        /\ \A p \in Range(ListOf(f, t)) : p = PostingFor(added[p.doc + 1], f, t, p.doc)
    BY ListsFit
  <2>2. Occurs(f, t) \subseteq 0 .. n - 1
    BY <1>3, OccursIn, DocsAre
  <2>3. ASSUME NEW p \in Range(ListOf(f, t))
        PROVE  p.doc < n /\ p = PostingFor(added'[p.doc + 1], f, t, p.doc)
    <3>1. p.doc \in 0 .. n - 1
      BY <2>1, <2>2
    <3>2. p.doc < n /\ p.doc + 1 \in 1 .. n
      BY <3>1
    <3>3. added'[p.doc + 1] = added[p.doc + 1]
      BY <1>3, <3>2
    <3>4. p = PostingFor(added[p.doc + 1], f, t, p.doc)
      BY <2>1
    <3>5. QED  BY <3>2, <3>3, <3>4
  <2>4. QED  BY <2>1, <2>3
<1>6. ASSUME NEW t \in DOMAIN new
      PROVE  /\ new[t] \in PostingLists /\ {p.doc : p \in Range(new[t])} = Occurs(f, t)'
             /\ \A p \in Range(new[t]) : p = PostingFor(added'[p.doc + 1], f, t, p.doc)
  <2>1. t \in Terms
    BY <1>4
  <2>2. CASE t \notin R
    <3>1. new[t] = ListOf(f, t) /\ Occurs(f, t)' = Occurs(f, t)
      BY <1>1, <1>2, <2>1, <2>2
    <3> HIDE DEF new
    <3>2. QED  BY <1>5, <2>1, <3>1
  <2>3. CASE t \in R
    <3> DEFINE q == PostingFor(doc, f, t, n)
    <3>1. q \in Posting /\ q.doc = n
      <4>1. t \in Range(Tokens(doc, f)) /\ n \in 0 .. kNoMoreDocs - 1
        BY <1>3, <2>3
      <4>2. QED  BY <4>1, PostingType
    <3>2. new[t] = Append(ListOf(f, t), q) /\ Occurs(f, t)' = Occurs(f, t) \cup {n}
      BY <1>1, <1>2, <2>1, <2>3
    <3>3. q = PostingFor(added'[q.doc + 1], f, t, q.doc)
      BY <1>3, <3>1
    <3> HIDE DEF q, new
    <3>4. Append(ListOf(f, t), q) \in PostingLists
          /\ Range(Append(ListOf(f, t), q)) = Range(ListOf(f, t)) \cup {q}
      BY <1>5, <2>1, <3>1, ListGrows
    <3>5. {p.doc : p \in Range(ListOf(f, t)) \cup {q}} = {p.doc : p \in Range(ListOf(f, t))} \cup {n}
      BY <3>1
    <3>6. \A p \in Range(new[t]) : p = PostingFor(added'[p.doc + 1], f, t, p.doc)
      BY <1>5, <2>1, <3>2, <3>3, <3>4
    <3>7. QED  BY <1>5, <2>1, <3>2, <3>4, <3>5, <3>6
  <2>4. QED  BY <2>2, <2>3
<1>7. QED  BY <1>4, <1>6 DEF PostingsFit, PostingFor

LEMMA CountFitsOneMore ==
    ASSUME SegInv, NEW doc \in Documents, AddDocument(doc), NEW n \in Nat, n = Len(added),
           NEW f \in DOMAIN Schema
    PROVE  CountFits(f)'
<1> DEFINE Having == {d \in DocIds : TokensAt(d, f) # <<>>}
<1>1. /\ DocIds = 0 .. n - 1 /\ n \notin DocIds /\ DocIds' = DocIds \cup {n}
      /\ TokensAt(n, f)' = Tokens(doc, f) /\ \A d \in DocIds : TokensAt(d, f)' = TokensAt(d, f)
  BY AddedOne
<1>2. Having' = IF Tokens(doc, f) = <<>> THEN Having ELSE Having \cup {n}
  <2>1. Having' = {d \in DocIds' : TokensAt(d, f)' # <<>>}
    OBVIOUS
  <2>2. QED  BY <1>1, <2>1
<1>3. n \notin Having
  BY <1>1
<1>4. IsFiniteSet(Having) /\ Cardinality(Having) \in Nat
  <2>1. IsFiniteSet(0 .. n - 1) /\ Having \in SUBSET (0 .. n - 1)
    BY <1>1, FS_Interval
  <2>2. QED  BY <2>1, FS_Subset, FS_CardinalityType
<1>5. field_data_[f].doc_count = Cardinality(Having)
  BY DEF SegInv, CountFits
<1>6. field_data_'[f].doc_count = field_data_[f].doc_count + IF Tokens(doc, f) = <<>> THEN 0 ELSE 1
  BY ListsGrow
<1> DEFINE c == Cardinality(Having')
<1>7. c = field_data_'[f].doc_count
  <2> HIDE DEF Having
  <2>1. Cardinality(Having \cup {n}) = Cardinality(Having) + 1
    BY <1>3, <1>4, FS_AddElement
  <2>2. Cardinality(Having) + 0 = Cardinality(Having)
    BY <1>4
  <2>3. QED  BY <1>2, <1>5, <1>6, <2>1, <2>2
<1>8. QED  BY <1>7 DEF CountFits

\* What the files say does not change while the buffers stay.
LEMMA BuffersStay ==
    ASSUME UNCHANGED <<added, field_data_, stored_blobs_, doc_quality_>>
    PROVE  /\ Sealed' = Sealed /\ StoredFits' = StoredFits
           /\ \A f : PostingsFit(f)' = PostingsFit(f) /\ CountFits(f)' = CountFits(f)
<1> USE DEF next_doc_id_
<1>1. \A f, t : SortedTerms(f)' = SortedTerms(f) /\ TermBytes(f, t)' = TermBytes(f, t)
  BY DEF SortedTerms, TermBytes
<1>2. \A f, n : TermsBytes(f, n)' = TermsBytes(f, n)
  BY <1>1 DEF TermsBytes
<1>3. \A f : FieldBytes(f)' = FieldBytes(f)
  BY <1>1, <1>2 DEF FieldBytes
<1>4. \A n : FieldsBytes(n)' = FieldsBytes(n)
  BY <1>3 DEF FieldsBytes
<1>5. \A n : BlobsBytes(n)' = BlobsBytes(n)
  BY DEF BlobsBytes
<1>6. \A f, i : TermEntry(f, i)' = TermEntry(f, i)
  BY <1>1, <1>2 DEF TermEntry
<1>7. \A f : FieldStats(f)' = FieldStats(f)
  BY <1>1, <1>4, <1>6 DEF FieldStats
<1>8. Sealed' = Sealed
  BY <1>4, <1>5, <1>7 DEF Sealed
<1>9. DocIds' = DocIds /\ \A d, f : TokensAt(d, f)' = TokensAt(d, f)
  BY DEF DocIds, TokensAt, TokensOf
<1>10. \A f, t : Occurs(f, t)' = Occurs(f, t)
  BY <1>9 DEF Occurs
<1>11. \A f : PostingsFit(f)' = PostingsFit(f) /\ CountFits(f)' = CountFits(f)
  BY <1>9, <1>10 DEF PostingsFit, CountFits
<1>12. StoredFits' = StoredFits
  BY DEF StoredFits
<1>13. QED  BY <1>8, <1>11, <1>12

LEMMA StepFits == SegInv /\ [SegNext]_segVars => SegInv'
<1> SUFFICES ASSUME SegInv, [SegNext]_segVars PROVE SegInv'
  OBVIOUS
<1>1. ASSUME NEW doc \in Documents, AddDocument(doc) PROVE SegInv'
  <2>1. PICK n \in Nat : n = Len(added)
    BY DocsAre DEF SegInv
  <2>2. added' \in Seq(Documents) /\ Len(added') <= kNoMoreDocs
    BY <1>1, <2>1, AddedOne
  <2>3. StoredFits'
    BY <1>1, <2>1, StoredFitsOneMore
  <2>4. \A f \in DOMAIN Schema : PostingsFit(f)' /\ CountFits(f)'
    BY <1>1, <2>1, PostingsFitOneMore, CountFitsOneMore
  <2>5. reader' = None
    BY <1>1 DEF AddDocument
  <2>6. QED  BY <2>2, <2>3, <2>4, <2>5 DEF SegInv, None
<1>2. ASSUME UNCHANGED <<added, field_data_, stored_blobs_, doc_quality_>>,
             reader' = reader \/ reader' = Sealed
      PROVE  SegInv'
  <2>1. reader' = None \/ reader' = Sealed'
    BY <1>2, BuffersStay DEF SegInv
  <2>2. StoredFits' /\ \A f \in DOMAIN Schema : PostingsFit(f)' /\ CountFits(f)'
    BY <1>2, BuffersStay DEF SegInv
  <2>3. added' \in Seq(Documents) /\ Len(added') <= kNoMoreDocs
    BY <1>2 DEF SegInv
  <2>4. QED  BY <2>1, <2>2, <2>3 DEF SegInv, None
<1>3. CASE Seal
  BY <1>2, <1>3 DEF Seal
<1>4. CASE UNCHANGED segVars
  BY <1>2, <1>4 DEF segVars
<1>5. QED  BY <1>1, <1>3, <1>4 DEF SegNext

\* The buffers follow the documents and the files the buffers, however many
\* documents AddDocument takes before SealSegment.
THEOREM BuffersFollow == SegSpec => []SegInv
BY StartFits, StepFits, PTL DEF SegSpec

\* The buffers have their types while they are what the documents say.
LEMMA SegTypes == SegInv => SegTypeOK
<1> SUFFICES ASSUME SegInv PROVE SegTypeOK
  OBVIOUS
<1>1. added \in Seq(Documents) /\ Len(added) <= kNoMoreDocs /\ StoredFits
  BY DEF SegInv
<1>2. Len(added) \in Nat /\ DocIds = 0 .. Len(added) - 1
  BY <1>1, DocsAre
<1>3. Len(stored_blobs_) = Len(added)
  BY <1>1, <1>2 DEF StoredFits
<1>4. Len(doc_quality_) \in {0, Len(added)}
  BY <1>1, <1>2 DEF StoredFits
<1>5. ASSUME NEW f \in DOMAIN Schema
      PROVE  /\ DOMAIN field_data_[f].postings \subseteq Terms
             /\ field_data_[f].doc_count \in 0 .. Len(added)
  <2> DEFINE D == {d \in DocIds : TokensAt(d, f) # <<>>}
  <2>1. DOMAIN field_data_[f].postings \subseteq Terms /\ field_data_[f].doc_count = Cardinality(D)
    BY DEF SegInv, PostingsFit, CountFits
  <2>2. IsFiniteSet(DocIds) /\ Cardinality(DocIds) = Len(added)
    <3>1. Cardinality(0 .. Len(added) - 1) = Len(added) /\ IsFiniteSet(0 .. Len(added) - 1)
      <4>1. PICK top \in Int : top = Len(added) - 1
        BY <1>2
      <4>2. /\ IsFiniteSet(0 .. top)
            /\ Cardinality(0 .. top) = IF 0 > top THEN 0 ELSE top - 0 + 1
        BY FS_Interval
      <4>3. QED  BY <1>2, <4>1, <4>2
    <3>2. QED  BY <1>2, <3>1
  <2>3. D \in SUBSET DocIds
    OBVIOUS
  <2> HIDE DEF D
  <2>4. Cardinality(D) <= Len(added) /\ Cardinality(D) \in Nat
    BY <2>2, <2>3, FS_Subset, FS_CardinalityType
  <2>5. QED  BY <1>2, <2>1, <2>4
<1>6. QED  BY <1>1, <1>3, <1>4, <1>5 DEF SegTypeOK

\* The buffers keep their types, a DocId is never the sentinel, and a field
\* counts no more documents than there are.
THEOREM SegTypeCorrect == SegSpec => []SegTypeOK
<1>1. QED  BY SegTypes, BuffersFollow, PTL

-----------------------------------------------------------------------------
(* The files.                                                              *)

\* Sorting a posting list changes nothing: it was appended in order.
LEMMA ByDocumentIs ==
    ASSUME NEW pl \in PostingLists
    PROVE  ByDocument(pl) = pl
<1> DEFINE n == Len(pl)
           s == [i \in 1 .. n |-> pl[i].doc]
           docs == Ordered({p.doc : p \in Range(pl)})
<1>1. /\ n \in Nat /\ DOMAIN pl = 1 .. n /\ pl = [i \in 1 .. n |-> pl[i]]
      /\ \A i \in 1 .. n : pl[i].doc \in Nat
      /\ \A i, j \in 1 .. n : i < j => pl[i].doc < pl[j].doc
  <2>1. pl \in Seq(Posting) /\ \A i, j \in DOMAIN pl : i < j => pl[i].doc < pl[j].doc
    BY DEF PostingLists
  <2>2. n \in Nat /\ DOMAIN pl = 1 .. n /\ pl \in [1 .. n -> Posting]
    BY <2>1, LenProperties
  <2>3. \A i \in 1 .. n : pl[i].doc \in Nat
    BY <2>2, Widths DEF Posting
  <2>4. QED  BY <2>1, <2>2, <2>3
<1> HIDE DEF n
<1>2. docs = s
  <2>1. s \in [1 .. n -> Nat] /\ \A i, j \in 1 .. n : i < j => s[i] < s[j]
    BY <1>1
  <2>2. {p.doc : p \in Range(pl)} = {s[i] : i \in 1 .. n}
    BY <1>1 DEF Range
  <2> HIDE DEF s
  <2>3. QED  BY <1>1, <2>1, <2>2, OrderedIs
<1>3. ASSUME NEW i \in 1 .. n PROVE (CHOOSE p \in Range(pl) : p.doc = s[i]) = pl[i]
  <2>1. pl[i] \in Range(pl) /\ pl[i].doc = s[i]
    BY <1>1 DEF Range
  <2>2. ASSUME NEW p \in Range(pl), p.doc = s[i] PROVE p = pl[i]
    <3>1. PICK j \in 1 .. n : p = pl[j]
      BY <1>1 DEF Range
    <3>2. pl[j].doc = pl[i].doc
      BY <2>2, <3>1
    <3>3. i < j \/ j < i \/ i = j
      BY <1>1
    <3>4. QED  BY <1>1, <3>1, <3>2, <3>3
  <2> HIDE DEF s
  <2>3. QED  BY <2>1, <2>2
<1>4. ByDocument(pl) = [i \in 1 .. n |-> CHOOSE p \in Range(pl) : p.doc = s[i]]
  <2>1. ByDocument(pl) = [i \in DOMAIN docs |-> CHOOSE p \in Range(pl) : p.doc = docs[i]]
    BY DEF ByDocument
  <2>2. DOMAIN s = 1 .. n
    OBVIOUS
  <2> HIDE DEF docs, s
  <2>3. QED  BY <1>2, <2>1, <2>2
<1> HIDE DEF s
<1>5. QED  BY <1>1, <1>3, <1>4

\* The dictionary of a field has its terms, each once, in order.
LEMMA DictionaryIs ==
    ASSUME SegInv, NEW f \in DOMAIN Schema
    PROVE  LET T == {t \in Terms : Occurs(f, t) # {}}
               n == Cardinality(T)
           IN  /\ DOMAIN field_data_[f].postings = T
               /\ n \in Nat /\ SortedTerms(f) \in [1 .. n -> T] /\ Len(SortedTerms(f)) = n
               /\ \A i, j \in 1 .. n : i < j => SortedTerms(f)[i] < SortedTerms(f)[j]
               /\ \A t \in T : \E i \in 1 .. n : SortedTerms(f)[i] = t
<1> DEFINE T == {t \in Terms : Occurs(f, t) # {}}
           n == Cardinality(T)
<1>1. DOMAIN field_data_[f].postings = T
  BY DEF SegInv, PostingsFit
<1>2. T \in SUBSET Nat /\ IsFiniteSet(T)
  <2>1. Terms = 1 .. Len(Spelling) /\ Len(Spelling) \in Nat
    BY DocumentsAssumption, LenProperties DEF Terms
  <2>2. IsFiniteSet(Terms)
    BY <2>1, FS_Interval
  <2>3. T \in SUBSET Terms
    OBVIOUS
  <2>4. QED  BY <2>2, <2>3, FS_Subset, Widest
<1> HIDE DEF T
<1>3. /\ n \in Nat /\ Ordered(T) \in [1 .. n -> T]
      /\ \A i, j \in 1 .. n : i < j => Ordered(T)[i] < Ordered(T)[j]
      /\ \A t \in T : \E i \in 1 .. n : Ordered(T)[i] = t
  BY <1>2, OrderedList
<1>4. SortedTerms(f) = Ordered(T)
  BY <1>1 DEF SortedTerms
<1> HIDE DEF n
<1>5. Len(SortedTerms(f)) = n
  BY <1>3, <1>4
<1>6. QED  BY <1>1, <1>3, <1>4, <1>5 DEF T, n

\* What is written for a term: its list, in the layout of the field.
LEMMA TermBytesAre ==
    ASSUME SegInv, NEW f \in DOMAIN Schema, NEW t \in DOMAIN field_data_[f].postings
    PROVE  /\ TermBytes(f, t) =
                   WritePostings(field_data_[f].postings[t], Schema[f].positions, Schema[f].weights)
           /\ TermBytes(f, t) \in Seq(Byte) /\ field_data_[f].postings[t] \in PostingLists
<1>1. field_data_[f].postings[t] \in PostingLists
  BY DEF SegInv, PostingsFit
<1>2. Schema[f].positions \in BOOLEAN /\ Schema[f].weights \in BOOLEAN
  BY Widest
<1>3. TermBytes(f, t) = WritePostings(field_data_[f].postings[t], Schema[f].positions, Schema[f].weights)
  BY <1>1, ByDocumentIs DEF TermBytes
<1>4. TermBytes(f, t) \in Seq(Byte)
  BY <1>1, <1>2, <1>3, WalkReadBack
<1>5. QED  BY <1>1, <1>3, <1>4

\* The bytes of a term stand in those of its field at the offset recorded.
LEMMA TermPlace ==
    ASSUME SegInv, NEW f \in DOMAIN Schema
    PROVE  /\ FieldBytes(f) \in Seq(Byte)
           /\ \A i \in 1 .. Len(SortedTerms(f)) :
                  /\ Len(TermsBytes(f, i - 1)) \in Nat
                  /\ HoldsAt(FieldBytes(f), Len(TermsBytes(f, i - 1)) + 1,
                             TermBytes(f, SortedTerms(f)[i]))
<1> DEFINE n == Len(SortedTerms(f))
           ss == [i \in 1 .. n |-> TermBytes(f, SortedTerms(f)[i])]
<1>1. n \in Nat /\ \A i \in 1 .. n : SortedTerms(f)[i] \in DOMAIN field_data_[f].postings
  BY DictionaryIs
<1>2. ss \in [1 .. n -> Seq(Byte)]
  BY <1>1, TermBytesAre
<1> HIDE DEF n
<1>3. ASSUME NEW k \in 0 .. n
      PROVE  TermsBytes(f, k) = FlattenSeq([i \in 1 .. k |-> ss[i]])
  <2>1. \A i \in 1 .. k : i \in 1 .. n
    BY <1>1
  <2>2. [i \in 1 .. k |-> TermBytes(f, SortedTerms(f)[i])] = [i \in 1 .. k |-> ss[i]]
    BY <2>1
  <2> HIDE DEF ss
  <2>3. QED  BY <2>2 DEF TermsBytes
<1>4. ASSUME NEW k \in 0 .. n PROVE TermsBytes(f, k) \in Seq(Byte)
  <2> DEFINE part == [i \in 1 .. k |-> ss[i]]
  <2>1. k \in Nat /\ \A i \in 1 .. k : i \in 1 .. n
    BY <1>1
  <2>2. part \in [1 .. k -> Seq(Byte)] /\ part = [i \in 1 .. k |-> part[i]]
    BY <1>2, <2>1
  <2> HIDE DEF part
  <2>3. FlattenSeq(part) \in Seq(Byte)
    BY <2>1, <2>2, FlattenType
  <2>4. QED  BY <1>3, <2>3 DEF part
<1>5. n \in 0 .. n /\ FieldBytes(f) = TermsBytes(f, n)
  BY <1>1 DEF FieldBytes, n
<1>6. ASSUME NEW i \in 1 .. n
      PROVE  /\ Len(TermsBytes(f, i - 1)) \in Nat
             /\ HoldsAt(FieldBytes(f), Len(TermsBytes(f, i - 1)) + 1, TermBytes(f, SortedTerms(f)[i]))
  <2>1. i - 1 \in 0 .. n
    BY <1>1
  <2>2. ss[i] = TermBytes(f, SortedTerms(f)[i])
    OBVIOUS
  <2> HIDE DEF ss
  <2>3. HoldsAt(FlattenSeq([j \in 1 .. n |-> ss[j]]), Len(FlattenSeq([j \in 1 .. i - 1 |-> ss[j]])) + 1, ss[i])
    BY <1>1, <1>2, FlattenSlice
  <2>4. Len(TermsBytes(f, i - 1)) \in Nat
    BY <1>4, <2>1, LenProperties
  <2>5. QED  BY <1>3, <1>5, <2>1, <2>2, <2>3, <2>4
<1>7. QED  BY <1>4, <1>5, <1>6 DEF n

\* The bytes of a field stand among those of all fields at its own offset.
LEMMA FieldPlace ==
    ASSUME SegInv
    PROVE  /\ FieldsBytes(Len(Schema)) \in Seq(Byte)
           /\ \A f \in DOMAIN Schema :
                  /\ Len(FieldsBytes(f - 1)) \in Nat
                  /\ HoldsAt(FieldsBytes(Len(Schema)), Len(FieldsBytes(f - 1)) + 1, FieldBytes(f))
<1> DEFINE n == Len(Schema)
           ss == [f \in 1 .. n |-> FieldBytes(f)]
<1>1. n \in Nat /\ DOMAIN Schema = 1 .. n
  BY Widest
<1>2. ss \in [1 .. n -> Seq(Byte)]
  BY <1>1, TermPlace
<1> HIDE DEF n
<1>3. ASSUME NEW k \in 0 .. n
      PROVE  FieldsBytes(k) = FlattenSeq([i \in 1 .. k |-> ss[i]]) /\ FieldsBytes(k) \in Seq(Byte)
  <2> DEFINE part == [i \in 1 .. k |-> ss[i]]
  <2>1. k \in Nat /\ \A i \in 1 .. k : i \in 1 .. n
    BY <1>1
  <2>2. [i \in 1 .. k |-> FieldBytes(i)] = part
    BY <2>1
  <2>3. part \in [1 .. k -> Seq(Byte)] /\ part = [i \in 1 .. k |-> part[i]]
    BY <1>2, <2>1
  <2> HIDE DEF part
  <2>4. FieldsBytes(k) = FlattenSeq(part)
    BY <2>2 DEF FieldsBytes
  <2>5. FlattenSeq(part) \in Seq(Byte)
    BY <2>1, <2>3, FlattenType
  <2>6. QED  BY <2>4, <2>5 DEF part
<1>4. n \in 0 .. n
  BY <1>1
<1>5. ASSUME NEW f \in DOMAIN Schema
      PROVE  /\ Len(FieldsBytes(f - 1)) \in Nat
             /\ HoldsAt(FieldsBytes(n), Len(FieldsBytes(f - 1)) + 1, FieldBytes(f))
  <2>1. f \in 1 .. n /\ f - 1 \in 0 .. n
    BY <1>1
  <2>2. ss[f] = FieldBytes(f)
    BY <2>1
  <2> HIDE DEF ss
  <2>3. HoldsAt(FlattenSeq([j \in 1 .. n |-> ss[j]]), Len(FlattenSeq([j \in 1 .. f - 1 |-> ss[j]])) + 1, ss[f])
    BY <1>1, <1>2, <2>1, FlattenSlice
  <2>4. Len(FieldsBytes(f - 1)) \in Nat
    BY <1>3, <2>1, LenProperties
  <2>5. QED  BY <1>3, <1>4, <2>1, <2>2, <2>3, <2>4
<1>6. QED  BY <1>3, <1>4, <1>5 DEF n

-----------------------------------------------------------------------------
(* What the reader finds: the posting lists.                               *)

\* The reader knows what was sealed, and of each term where its list is.
LEMMA ReaderIs ==
    ASSUME SegInv, reader.open
    PROVE  /\ reader = Sealed
           /\ \A f \in DOMAIN Schema :
                  LET field == reader.fields[f]
                      n == Len(SortedTerms(f))
                  IN  /\ field.doc_count = field_data_[f].doc_count
                      /\ field.doc_offset = Len(FieldsBytes(f - 1))
                      /\ field.has_positions = Schema[f].positions
                      /\ field.has_token_weights = Schema[f].weights
                      /\ DOMAIN field.terms = 1 .. n
                      /\ \A i \in 1 .. n :
                             LET t == SortedTerms(f)[i]
                             IN  /\ field.terms[i].term = t
                                 /\ field.terms[i].df = Len(field_data_[f].postings[t])
                                 /\ field.terms[i].postings_offset = Len(TermsBytes(f, i - 1))
                                 /\ field.terms[i].postings_bytes = Len(TermBytes(f, t))
<1>1. reader = Sealed
  <2>1. None.open = FALSE
    BY DEF None
  <2>2. QED  BY <2>1 DEF SegInv
<1>2. ASSUME NEW f \in DOMAIN Schema PROVE reader.fields[f] = FieldStats(f)
  BY <1>1 DEF Sealed
<1>3. ASSUME NEW f \in DOMAIN Schema PROVE DOMAIN SortedTerms(f) = 1 .. Len(SortedTerms(f))
  BY DictionaryIs
<1>4. ASSUME NEW f \in DOMAIN Schema, NEW i \in 1 .. Len(SortedTerms(f))
      PROVE  FieldStats(f).terms[i] = TermEntry(f, i)
  BY <1>3 DEF FieldStats
<1>5. ASSUME NEW f \in DOMAIN Schema
      PROVE  /\ FieldStats(f).doc_count = field_data_[f].doc_count
             /\ FieldStats(f).doc_offset = Len(FieldsBytes(f - 1))
             /\ FieldStats(f).has_positions = Schema[f].positions
             /\ FieldStats(f).has_token_weights = Schema[f].weights
             /\ DOMAIN FieldStats(f).terms = 1 .. Len(SortedTerms(f))
  BY <1>3 DEF FieldStats
<1>6. ASSUME NEW f, NEW i
      PROVE  /\ TermEntry(f, i).term = SortedTerms(f)[i]
             /\ TermEntry(f, i).df = Len(field_data_[f].postings[SortedTerms(f)[i]])
             /\ TermEntry(f, i).postings_offset = Len(TermsBytes(f, i - 1))
             /\ TermEntry(f, i).postings_bytes = Len(TermBytes(f, SortedTerms(f)[i]))
  BY DEF TermEntry
<1>7. ASSUME NEW f \in DOMAIN Schema
      PROVE  /\ reader.fields[f].doc_count = field_data_[f].doc_count
             /\ reader.fields[f].doc_offset = Len(FieldsBytes(f - 1))
             /\ reader.fields[f].has_positions = Schema[f].positions
             /\ reader.fields[f].has_token_weights = Schema[f].weights
             /\ DOMAIN reader.fields[f].terms = 1 .. Len(SortedTerms(f))
  BY <1>2, <1>5
<1>8. ASSUME NEW f \in DOMAIN Schema, NEW i \in 1 .. Len(SortedTerms(f))
      PROVE  reader.fields[f].terms[i] = TermEntry(f, i)
  BY <1>2, <1>4
<1>9. QED  BY <1>1, <1>6, <1>7, <1>8

\* The offsets lead to the bytes of the term.
LEMMA PostingBytesAre ==
    ASSUME SegInv, reader.open, NEW f \in DOMAIN Schema, NEW i \in 1 .. Len(SortedTerms(f))
    PROVE  PostingBytes(f, i) = TermBytes(f, SortedTerms(f)[i])
<1> DEFINE buf == FieldsBytes(Len(Schema))
           code == TermBytes(f, SortedTerms(f)[i])
           a == Len(FieldsBytes(f - 1))
           b == Len(TermsBytes(f, i - 1))
<1>1. SortedTerms(f)[i] \in DOMAIN field_data_[f].postings
  BY DictionaryIs
<1>2. code \in Seq(Byte) /\ buf \in Seq(Byte) /\ FieldBytes(f) \in Seq(Byte)
  BY <1>1, TermBytesAre, FieldPlace, TermPlace
<1>3. a \in Nat /\ b \in Nat /\ HoldsAt(buf, a + 1, FieldBytes(f)) /\ HoldsAt(FieldBytes(f), b + 1, code)
  BY FieldPlace, TermPlace
<1>4. reader.doc_buf = buf
  BY ReaderIs DEF Sealed
<1>5. PostingBytes(f, i) = IF (a + b) + Len(code) > Len(buf) THEN <<>>
                           ELSE SubSeq(buf, (a + b) + 1, (a + b) + Len(code))
  BY <1>4, ReaderIs DEF PostingBytes
<1> HIDE DEF buf, code, a, b
<1>6. HoldsAt(buf, (a + b) + 1, code)
  <2>1. PICK a1 \in Nat, b1 \in Nat : a1 = a + 1 /\ b1 = b + 1
    BY <1>3
  <2>2. HoldsAt(buf, a1, FieldBytes(f)) /\ HoldsAt(FieldBytes(f), b1, code)
    BY <1>3, <2>1
  <2>3. HoldsAt(buf, a1 + b1 - 1, code)
    BY <1>2, <2>2, HoldsInside
  <2>4. a1 + b1 - 1 = (a + b) + 1
    BY <1>3, <2>1
  <2>5. QED  BY <2>3, <2>4
<1>7. Len(code) \in Nat /\ Len(buf) \in Nat /\ (a + b) + 1 + Len(code) - 1 = (a + b) + Len(code)
  BY <1>2, <1>3, LenProperties
<1>8. (a + b) + Len(code) <= Len(buf)
  BY <1>6, <1>7 DEF HoldsAt
<1>9. SubSeq(buf, (a + b) + 1, (a + b) + 1 + Len(code) - 1) = code
  BY <1>2, <1>6, HeldSlice
<1>10. PostingBytes(f, i) = code
  BY <1>3, <1>5, <1>7, <1>8, <1>9
<1>11. QED  BY <1>10 DEF code

\* std::lower_bound finds a term exactly when the dictionary has it.
LEMMA FindTermIs ==
    ASSUME SegInv, reader.open, NEW f \in DOMAIN Schema, NEW t \in Terms
    PROVE  IF Occurs(f, t) = {} THEN FindTerm(f, t) = 0
           ELSE FindTerm(f, t) \in 1 .. Len(SortedTerms(f)) /\ SortedTerms(f)[FindTerm(f, t)] = t
<1> DEFINE n == Len(SortedTerms(f))
           T == {x \in Terms : Occurs(f, x) # {}}
           s == SortedTerms(f)
           terms == reader.fields[f].terms
           from == {i \in 1 .. n : s[i] >= t}
<1>1. /\ n \in Nat /\ s \in [1 .. n -> T]
      /\ \A i, j \in 1 .. n : i < j => s[i] < s[j]
      /\ \A x \in T : \E i \in 1 .. n : s[i] = x
  BY DictionaryIs
<1>2. DOMAIN terms = 1 .. n /\ \A i \in 1 .. n : terms[i].term = s[i]
  BY ReaderIs
<1>3. from = {i \in DOMAIN terms : terms[i].term >= t}
  BY <1>2
<1>4. FindTerm(f, t) = IF from = {} \/ terms[Min(from)].term # t THEN 0 ELSE Min(from)
  BY <1>3 DEF FindTerm
<1>5. t \in Nat /\ \A i \in 1 .. n : s[i] \in Nat
  <2>1. \A x \in T : x \in Nat
    BY Widest
  <2> HIDE DEF T, s, n
  <2>2. QED  BY <1>1, <2>1, Widest
<1> HIDE DEF n, s, terms
<1>6. from # {} => Min(from) \in from /\ \A i \in from : Min(from) <= i
  <2>1. from \in SUBSET Nat
    BY <1>1
  <2> HIDE DEF from
  <2>2. QED  BY <2>1, LeastNumber
<1>7. CASE Occurs(f, t) = {}
  <2>1. \A i \in 1 .. n : s[i] # t
    BY <1>1, <1>7
  <2>2. from # {} => Min(from) \in 1 .. n
    BY <1>6
  <2>3. from # {} => terms[Min(from)].term # t
    BY <1>2, <2>1, <2>2
  <2>4. FindTerm(f, t) = 0
    BY <1>4, <2>3
  <2>5. QED  BY <1>7, <2>4
<1>8. CASE Occurs(f, t) # {}
  <2>1. t \in T
    BY <1>8
  <2>2. PICK i \in 1 .. n : s[i] = t
    BY <1>1, <2>1
  <2>3. i \in from
    BY <1>5, <2>2
  <2>4. ASSUME NEW j \in from PROVE i <= j
    <3>1. j \in 1 .. n /\ ~(s[j] < s[i])
      BY <1>5, <2>2
    <3>2. ~(j < i)
      BY <1>1, <3>1
    <3>3. QED  BY <1>1, <3>1, <3>2
  <2>5. Min(from) = i
    <3>1. Min(from) \in from /\ Min(from) <= i
      BY <1>6, <2>3
    <3>2. i <= Min(from) /\ Min(from) \in Nat /\ i \in Nat
      BY <1>1, <2>4, <3>1
    <3>3. QED  BY <3>1, <3>2
  <2>6. FindTerm(f, t) = i
    BY <1>2, <1>4, <2>2, <2>3, <2>5
  <2>7. QED  BY <1>8, <2>2, <2>6 DEF n, s
<1>9. QED  BY <1>7, <1>8

\* The cursor gives what the documents say.
LEMMA ScanIs ==
    ASSUME SegInv, reader.open, NEW f \in DOMAIN Schema, NEW i \in 1 .. Len(SortedTerms(f)),
           NEW t, t = SortedTerms(f)[i]
    PROVE  /\ Scan(f, i) = SaidOf(f, t)
           /\ reader.fields[f].terms[i].df = Cardinality(Occurs(f, t))
<1> DEFINE pl == field_data_[f].postings[t]
           n  == Len(pl)
           hp == Schema[f].positions
           hw == Schema[f].weights
           it == TermIterator(PostingBytes(f, i), hp, hw)
           O  == Occurs(f, t)
           at(d) == PlacesOf(TokensAt(d, f), t)
           docs == [k \in 1 .. n |-> pl[k].doc]
<1>1. /\ t \in DOMAIN field_data_[f].postings /\ t \in Terms
      /\ pl \in PostingLists /\ {p.doc : p \in Range(pl)} = O
      /\ \A p \in Range(pl) : p = PostingFor(added[p.doc + 1], f, t, p.doc)
  <2>1. t \in DOMAIN field_data_[f].postings
    BY DictionaryIs
  <2>2. QED  BY <2>1 DEF SegInv, PostingsFit
<1>2. hp \in BOOLEAN /\ hw \in BOOLEAN
  BY Widest
<1>3. /\ n \in Nat /\ DOMAIN pl = 1 .. n
      /\ \A k \in 1 .. n : pl[k].doc \in 0 .. kNoMoreDocs - 1 /\ pl[k].doc \in Nat
      /\ \A k, l \in 1 .. n : k < l => pl[k].doc < pl[l].doc
  <2>1. pl \in PostingLists
    BY <1>1
  <2> HIDE DEF pl
  <2>2. /\ n \in Nat /\ DOMAIN pl = 1 .. n
        /\ \A k \in DOMAIN pl : pl[k].doc \in 0 .. kNoMoreDocs - 1
        /\ \A k, l \in DOMAIN pl : k < l => pl[k].doc < pl[l].doc
    BY <2>1, PostingFields
  <2> HIDE DEF n
  <2>3. \A k \in 1 .. n : pl[k].doc \in Nat
    BY <2>2, Widths
  <2>4. QED  BY <2>2, <2>3
<1>4. it.remaining = n /\ \A k \in 1 .. n : Gives(TermAfter(it, k), pl[k], hp, hw)
  <2>1. PostingBytes(f, i) = WritePostings(pl, hp, hw)
    BY <1>1, PostingBytesAre, TermBytesAre
  <2> HIDE DEF pl, hp, hw
  <2>2. QED  BY <1>1, <1>2, <2>1, WalkReadBack
<1>5. Cardinality(O) = n /\ Ordered(O) = docs
  <2>1. docs \in [1 .. n -> Nat] /\ \A k, l \in 1 .. n : k < l => docs[k] < docs[l]
    BY <1>3
  <2>2. O = {docs[k] : k \in 1 .. n}
    <3>1. {p.doc : p \in Range(pl)} = O
      BY <1>1
    <3> HIDE DEF pl, O
    <3>2. Range(pl) = {pl[k] : k \in 1 .. n}
      BY <1>3 DEF Range
    <3>3. {p.doc : p \in Range(pl)} = {pl[k].doc : k \in 1 .. n}
      BY <3>2
    <3>4. QED  BY <3>1, <3>3
  <2> HIDE DEF docs, O, n
  <2>3. QED  BY <1>3, <2>1, <2>2, OrderedIs
<1>6. reader.fields[f].terms[i].df = n
  BY ReaderIs
<1>7. Scan(f, i) = [k \in 1 .. n |->
          <<TermAfter(it, k).current, TermAfter(it, k).freq, TermAfter(it, k).pos, TermAfter(it, k).weight>>]
  <2>1. reader.fields[f].has_positions = hp /\ reader.fields[f].has_token_weights = hw
    BY ReaderIs
  <2>2. Scan(f, i) = [k \in 1 .. it.remaining |->
          <<TermAfter(it, k).current, TermAfter(it, k).freq, TermAfter(it, k).pos, TermAfter(it, k).weight>>]
    BY <2>1 DEF Scan
  <2> HIDE DEF it, n
  <2>3. QED  BY <1>4, <2>2
<1>8. SaidOf(f, t) = [k \in 1 .. n |->
          <<docs[k], Cardinality(at(docs[k])),
            IF hp THEN Min({Min(at(docs[k])) - 1, kNoPosition}) ELSE kNoPosition,
            IF hw THEN QuantizeTokenWeight(MaxTokenWeight(added[docs[k] + 1], f, at(docs[k]))) ELSE One>>]
  <2>1. DOMAIN docs = 1 .. n
    OBVIOUS
  <2> HIDE DEF docs, n
  <2>2. QED  BY <1>5, <2>1 DEF SaidOf, PlacesOf
<1>9. ASSUME NEW k \in 1 .. n
      PROVE  /\ docs[k] = pl[k].doc /\ Cardinality(at(docs[k])) = pl[k].tf
             /\ Min({Min(at(docs[k])) - 1, kNoPosition}) = pl[k].pos
             /\ MaxTokenWeight(added[docs[k] + 1], f, at(docs[k])) = pl[k].weight
  <2> DEFINE d == pl[k].doc
  <2>1. pl[k] \in Range(pl) /\ d \in O /\ d \in 0 .. kNoMoreDocs - 1
    BY <1>1, <1>3 DEF Range
  <2>2. d \in DocIds /\ added[d + 1] \in Documents /\ TokensAt(d, f) = Tokens(added[d + 1], f)
        /\ t \in Range(Tokens(added[d + 1], f))
    BY <1>1, <2>1, OccursIn, DocsAre DEF SegInv
  <2>3. pl[k] = PostingFor(added[d + 1], f, t, d)
    BY <1>1, <2>1
  <2> HIDE DEF d, pl
  <2>4. /\ pl[k].tf = Cardinality(at(d)) /\ pl[k].pos = Min({Min(at(d)) - 1, kNoPosition})
        /\ pl[k].weight = MaxTokenWeight(added[d + 1], f, at(d))
    <3>1. PICK doc \in Documents : doc = added[d + 1]
      BY <2>2
    <3>2. at(d) = PlacesOf(Tokens(doc, f), t) /\ pl[k] = PostingFor(doc, f, t, d)
          /\ t \in Range(Tokens(doc, f))
      BY <2>2, <2>3, <3>1
    <3>3. PostingFor(doc, f, t, d) =
              [doc |-> d, tf |-> Cardinality(PlacesOf(Tokens(doc, f), t)),
               pos |-> Min({Min(PlacesOf(Tokens(doc, f), t)) - 1, kNoPosition}),
               weight |-> MaxTokenWeight(doc, f, PlacesOf(Tokens(doc, f), t))]
      BY DEF PostingFor, PlacesOf
    <3> HIDE DEF at
    <3>4. QED  BY <3>1, <3>2, <3>3
  <2>5. docs[k] = d
    BY DEF d
  <2> HIDE DEF docs
  <2>6. QED  BY <2>4, <2>5 DEF d
<1>10. ASSUME NEW k \in 1 .. n
       PROVE  /\ TermAfter(it, k).current = pl[k].doc /\ TermAfter(it, k).freq = pl[k].tf
              /\ TermAfter(it, k).pos = IF hp THEN pl[k].pos ELSE kNoPosition
              /\ TermAfter(it, k).weight = IF hw THEN QuantizeTokenWeight(pl[k].weight) ELSE One
  BY <1>4 DEF Gives
<1> HIDE DEF pl, n, hp, hw, it, O, at, docs
<1>11. Scan(f, i) = SaidOf(f, t)
  <2> DEFINE gives(k) == <<TermAfter(it, k).current, TermAfter(it, k).freq, TermAfter(it, k).pos,
                           TermAfter(it, k).weight>>
             says(k) == <<docs[k], Cardinality(at(docs[k])),
                          IF hp THEN Min({Min(at(docs[k])) - 1, kNoPosition}) ELSE kNoPosition,
                          IF hw THEN QuantizeTokenWeight(MaxTokenWeight(added[docs[k] + 1], f, at(docs[k])))
                          ELSE One>>
  <2>1. ASSUME NEW k \in 1 .. n PROVE gives(k) = says(k)
    <3>1. TermAfter(it, k).current = docs[k] /\ TermAfter(it, k).freq = Cardinality(at(docs[k]))
      BY <1>9, <1>10
    <3>2. TermAfter(it, k).pos = IF hp THEN Min({Min(at(docs[k])) - 1, kNoPosition}) ELSE kNoPosition
      BY <1>9, <1>10
    <3>3. TermAfter(it, k).weight =
              IF hw THEN QuantizeTokenWeight(MaxTokenWeight(added[docs[k] + 1], f, at(docs[k])))
              ELSE One
      BY <1>9, <1>10
    <3>4. QED  BY <3>1, <3>2, <3>3
  <2>2. Scan(f, i) = [k \in 1 .. n |-> gives(k)] /\ SaidOf(f, t) = [k \in 1 .. n |-> says(k)]
    BY <1>7, <1>8
  <2> HIDE DEF gives, says
  <2>3. QED  BY <2>1, <2>2
<1>12. QED  BY <1>5, <1>6, <1>11 DEF O

LEMMA ReadsPostings ==
    ASSUME SegInv
    PROVE  Inverted
<1> SUFFICES ASSUME reader.open PROVE Inverted
  BY DEF Inverted
<1>1. ASSUME NEW f \in DOMAIN Schema
      PROVE  reader.fields[f].doc_count = Cardinality({d \in DocIds : TokensAt(d, f) # <<>>})
  BY ReaderIs DEF SegInv, CountFits
<1>2. ASSUME NEW f \in DOMAIN Schema, NEW t \in Terms
      PROVE  IF Occurs(f, t) = {} THEN FindTerm(f, t) = 0
             ELSE /\ FindTerm(f, t) # 0
                  /\ Scan(f, FindTerm(f, t)) = SaidOf(f, t)
                  /\ reader.fields[f].terms[FindTerm(f, t)].df = Cardinality(Occurs(f, t))
  <2>1. CASE Occurs(f, t) = {}
    BY <2>1, FindTermIs
  <2>2. CASE Occurs(f, t) # {}
    <3>1. PICK i \in 1 .. Len(SortedTerms(f)) : i = FindTerm(f, t) /\ t = SortedTerms(f)[i]
      BY <2>2, FindTermIs
    <3>2. Scan(f, i) = SaidOf(f, t) /\ reader.fields[f].terms[i].df = Cardinality(Occurs(f, t))
      BY <3>1, ScanIs
    <3>3. i # 0
      OBVIOUS
    <3>4. QED  BY <2>2, <3>1, <3>2, <3>3
  <2>3. QED  BY <2>1, <2>2
<1>3. QED  BY <1>1, <1>2 DEF Inverted

-----------------------------------------------------------------------------
(* What the reader finds: the stored documents.                            *)

\* What stands in the file of the stored fields: the bytes of a length, and
\* the ids, names and values of blobs.
Cell ==
    UNION {Byte, {doc.id : doc \in Documents}, {Schema[f].name : f \in DOMAIN Schema},
           {doc.fields[Schema[f].name] : doc \in Documents, f \in DOMAIN Schema}}

LEMMA BlobType ==
    ASSUME NEW doc \in Documents
    PROVE  Blob(doc) \in Seq(Cell) /\ Len(Blob(doc)) \in 0 .. WordMax
<1> DEFINE n == Len(Schema)
           has(f) == /\ Schema[f].stored /\ Schema[f].name # kIdField
                     /\ Schema[f].name \in DOMAIN doc.fields
           ss == [f \in 1 .. n |->
                     IF has(f) THEN <<Schema[f].name, doc.fields[Schema[f].name]>> ELSE <<>>]
<1>1. n \in Nat /\ DOMAIN Schema = 1 .. n
  BY Widest
<1>2. doc.id \in Cell
  BY DEF Cell
<1>3. ASSUME NEW f \in 1 .. n PROVE ss[f] \in Seq(Cell)
  <2>1. Schema[f].name \in Cell /\ doc.fields[Schema[f].name] \in Cell
    BY <1>1 DEF Cell
  <2> HIDE DEF has
  <2>2. ss[f] = IF has(f) THEN <<Schema[f].name, doc.fields[Schema[f].name]>> ELSE <<>>
    OBVIOUS
  <2> HIDE DEF ss
  <2>3. QED  BY <2>1, <2>2
<1>4. Blob(doc) = <<doc.id>> \o FlattenSeq([f \in 1 .. n |-> ss[f]])
  BY <1>1 DEF Blob
<1>5. ss \in [1 .. n -> Seq(Cell)]
  BY <1>3
<1> HIDE DEF n, ss, Cell
<1>6. FlattenSeq([f \in 1 .. n |-> ss[f]]) \in Seq(Cell)
  BY <1>1, <1>5, FlattenType
<1>7. <<doc.id>> \in Seq(Cell)
  BY <1>2
<1>8. Blob(doc) \in Seq(Cell)
  BY <1>4, <1>6, <1>7, ConcatProperties
<1>9. Len(Blob(doc)) \in Nat /\ Len(Blob(doc)) <= WordMax
  BY <1>8, LenProperties, DocumentsAssumption
<1>10. QED  BY <1>8, <1>9, Widths

\* A blob and its length stand in the file at the offset of the document.
LEMMA BlobPlace ==
    ASSUME SegInv, NEW d \in DocIds
    PROVE  LET file == BlobsBytes(Len(added))
               c    == Len(BlobsBytes(d)) + 1
               blob == Blob(added[d + 1])
               code == EncodeVarUint[Len(blob)]
           IN  /\ file \in Seq(Cell) /\ c \in Nat /\ blob \in Seq(Cell)
               /\ Len(blob) \in Nat /\ Len(blob) < TwoTo[Width] /\ Len(code) \in Nat
               /\ HoldsAt(file, c, code) /\ HoldsAt(file, c + Len(code), blob)
<1> DEFINE n == Len(added)
           ss == [i \in 1 .. n |-> EncodeVarUint[Len(Blob(added[i]))] \o Blob(added[i])]
           blob == Blob(added[d + 1])
           code == EncodeVarUint[Len(blob)]
<1>1. n \in Nat /\ d + 1 \in 1 .. n /\ d \in Nat /\ d \in 0 .. n /\ n \in 0 .. n
  <2>1. added \in Seq(Documents)
    BY DEF SegInv
  <2>2. n \in Nat /\ DocIds = 0 .. n - 1
    BY <2>1, DocsAre
  <2> HIDE DEF n
  <2>3. QED  BY <2>2
<1>2. ASSUME NEW i \in 1 .. n
      PROVE  LET b == Blob(added[i])
             IN  /\ b \in Seq(Cell) /\ Len(b) \in Nat /\ Len(b) < TwoTo[Width]
                 /\ EncodeVarUint[Len(b)] \in Seq(Cell) /\ Len(EncodeVarUint[Len(b)]) \in Nat
  <2> DEFINE b == Blob(added[i])
  <2>1. added[i] \in Documents
    BY ElementOfSeq DEF SegInv
  <2>2. b \in Seq(Cell) /\ Len(b) \in 0 .. WordMax
    BY <2>1, BlobType
  <2> HIDE DEF b
  <2>3. Len(b) \in Nat /\ Len(b) < TwoTo[Width]
    BY <2>2, Widths
  <2>4. EncodeVarUint[Len(b)] \in Seq(Byte)
    BY <2>3, EncodeDef
  <2>5. Byte \subseteq Cell
    BY DEF Cell
  <2>6. Len(EncodeVarUint[Len(b)]) \in Nat /\ EncodeVarUint[Len(b)] \in Seq(Cell)
    BY <2>4, <2>5, LenProperties
  <2>7. QED  BY <2>2, <2>3, <2>6 DEF b
<1>3. ss \in [1 .. n -> Seq(Cell)]
  BY <1>2, ConcatProperties
<1>4. stored_blobs_ = [i \in 1 .. n |-> Blob(added[i])]
  BY DEF SegInv, StoredFits
<1> HIDE DEF n
<1>5. ASSUME NEW k \in 0 .. n
      PROVE  BlobsBytes(k) = FlattenSeq([i \in 1 .. k |-> ss[i]]) /\ BlobsBytes(k) \in Seq(Cell)
  <2> DEFINE part == [i \in 1 .. k |-> ss[i]]
  <2>1. k \in Nat /\ \A i \in 1 .. k : i \in 1 .. n
    BY <1>1
  <2>2. \A i \in 1 .. k : stored_blobs_[i] = Blob(added[i])
    BY <1>4, <2>1
  <2>3. [i \in 1 .. k |-> EncodeVarUint[Len(stored_blobs_[i])] \o stored_blobs_[i]] = part
    BY <2>1, <2>2
  <2>4. part \in [1 .. k -> Seq(Cell)] /\ part = [i \in 1 .. k |-> part[i]]
    BY <1>3, <2>1
  <2> HIDE DEF part
  <2>5. BlobsBytes(k) = FlattenSeq(part)
    BY <2>3 DEF BlobsBytes
  <2>6. FlattenSeq(part) \in Seq(Cell)
    BY <2>1, <2>4, FlattenType
  <2>7. QED  BY <2>5, <2>6 DEF part
<1>6. ss[d + 1] = code \o blob
  BY <1>1
<1>7. /\ blob \in Seq(Cell) /\ Len(blob) \in Nat /\ Len(blob) < TwoTo[Width]
      /\ code \in Seq(Cell) /\ Len(code) \in Nat
  BY <1>1, <1>2
<1> HIDE DEF ss, code
<1>8. BlobsBytes(n) \in Seq(Cell) /\ Len(BlobsBytes(d)) + 1 \in Nat
  <2>1. BlobsBytes(n) \in Seq(Cell) /\ BlobsBytes(d) \in Seq(Cell)
    BY <1>1, <1>5
  <2>2. Len(BlobsBytes(d)) \in Nat
    BY <2>1, LenProperties
  <2>3. QED  BY <2>1, <2>2
<1>9. HoldsAt(BlobsBytes(n), Len(BlobsBytes(d)) + 1, code \o blob)
  <2>1. HoldsAt(FlattenSeq([i \in 1 .. n |-> ss[i]]),
                Len(FlattenSeq([i \in 1 .. (d + 1) - 1 |-> ss[i]])) + 1, ss[d + 1])
    BY <1>1, <1>3, FlattenSlice
  <2>2. (d + 1) - 1 = d
    BY <1>1
  <2>3. QED  BY <1>1, <1>5, <1>6, <2>1, <2>2
<1> HIDE DEF blob
<1>10. HoldsAt(BlobsBytes(n), Len(BlobsBytes(d)) + 1, code)
       /\ HoldsAt(BlobsBytes(n), Len(BlobsBytes(d)) + 1 + Len(code), blob)
  BY <1>7, <1>8, <1>9, HoldsAtConcat
<1>11. QED  BY <1>7, <1>8, <1>10 DEF n, code, blob

\* The reader finds the blob of a document, whatever the bytes around it.
LEMMA BlobRead ==
    ASSUME SegInv, reader.open, NEW d \in DocIds
    PROVE  StoredFields(d) = Blob(added[d + 1])
<1> DEFINE n    == Len(added)
           file == BlobsBytes(n)
           c    == Len(BlobsBytes(d)) + 1
           blob == Blob(added[d + 1])
           code == EncodeVarUint[Len(blob)]
           len  == DecodeVarUint(file, c, Width)
           next == c + Len(code)
<1>1. n \in Nat /\ d + 1 \in 1 .. n /\ d \in Nat /\ d < n /\ (d + 1) - 1 = d
  <2>1. added \in Seq(Documents)
    BY DEF SegInv
  <2>2. n \in Nat /\ DocIds = 0 .. n - 1
    BY <2>1, DocsAre
  <2> HIDE DEF n
  <2>3. QED  BY <2>2
<1>2. stored_blobs_ = [i \in 1 .. n |-> Blob(added[i])] /\ Len(stored_blobs_) = n
  <2>1. stored_blobs_ = [i \in 1 .. n |-> Blob(added[i])]
    BY DEF SegInv, StoredFits
  <2> HIDE DEF n
  <2>2. QED  BY <1>1, <2>1
<1>3. reader.fdt_buf = file /\ reader.fdx_offsets = [i \in 1 .. n |-> Len(BlobsBytes(i - 1))]
  BY <1>2, ReaderIs DEF Sealed, next_doc_id_
<1>4. /\ file \in Seq(Cell) /\ c \in Nat /\ blob \in Seq(Cell)
      /\ Len(blob) \in Nat /\ Len(blob) < TwoTo[Width] /\ Len(code) \in Nat
      /\ HoldsAt(file, c, code) /\ HoldsAt(file, next, blob)
  BY BlobPlace
<1> HIDE DEF n
<1>5. reader.fdx_offsets[d + 1] + 1 = c /\ Len(reader.fdx_offsets) = n
  BY <1>1, <1>3
<1>6. StoredFields(d) =
          IF d >= n \/ ~len.ok \/ Len(file) - len.next + 1 < len.val THEN <<>>
          ELSE SubSeq(file, len.next, len.next + len.val - 1)
  BY <1>3, <1>5 DEF StoredFields
<1> HIDE DEF file, c, blob
<1>7. len = [ok |-> TRUE, val |-> Len(blob), next |-> next]
  <2>1. c \in Nat \ {0} /\ Width \in Nat \ {0}
    BY <1>4, Widths DEF HoldsAt
  <2>2. QED  BY <1>4, <2>1, VarUintReadBack
<1>8. next \in Nat /\ Len(file) \in Nat /\ next + Len(blob) - 1 <= Len(file)
  BY <1>4, LenProperties DEF HoldsAt
<1>9. SubSeq(file, next, next + Len(blob) - 1) = blob
  BY <1>4, <1>8, HeldSlice
<1> HIDE DEF len, next
<1>10. StoredFields(d) = blob
  BY <1>1, <1>4, <1>6, <1>7, <1>8, <1>9
<1>11. QED  BY <1>10 DEF blob

LEMMA ReadsStored ==
    ASSUME SegInv
    PROVE  StoredBack
<1> SUFFICES ASSUME reader.open PROVE StoredBack
  BY DEF StoredBack
<1>1. added \in Seq(Documents) /\ StoredFits
  BY DEF SegInv
<1>2. /\ Len(added) \in Nat /\ DocIds = 0 .. Len(added) - 1
      /\ \A d \in DocIds : d + 1 \in 1 .. Len(added)
  BY <1>1, DocsAre
<1>3. reader.doc_count = Len(added) /\ reader.doc_quality = doc_quality_
  <2>1. reader.doc_count = Len(stored_blobs_) /\ reader.doc_quality = doc_quality_
    BY ReaderIs DEF Sealed, next_doc_id_
  <2>2. Len(stored_blobs_) = Len(added)
    BY <1>1, <1>2 DEF StoredFits
  <2>3. QED  BY <2>1, <2>2
<1>4. ASSUME NEW d \in DocIds
      PROVE  DocQuality(d) = IF StoreDocQuality THEN added[d + 1].quality ELSE 0
  <2>1. d \in Nat /\ d < Len(added) /\ d + 1 \in 1 .. Len(added)
    BY <1>2
  <2>2. CASE StoreDocQuality
    <3>1. doc_quality_ = [i \in 1 .. Len(added) |-> added[i].quality]
      BY <1>1, <2>2 DEF StoredFits
    <3>2. Len(doc_quality_) = Len(added) /\ doc_quality_[d + 1] = added[d + 1].quality
      BY <1>2, <2>1, <3>1
    <3>3. ~(d >= Len(doc_quality_))
      BY <1>2, <2>1, <3>2
    <3>4. QED  BY <1>3, <2>2, <3>2, <3>3 DEF DocQuality
  <2>3. CASE ~StoreDocQuality
    <3>1. Len(doc_quality_) = 0
      BY <1>1, <2>3 DEF StoredFits
    <3>2. QED  BY <1>3, <2>1, <2>3, <3>1 DEF DocQuality
  <2>4. QED  BY <2>2, <2>3
<1>5. QED  BY <1>3, <1>4, BlobRead DEF StoredBack

\* SealSegment and SegmentReader::Open give back what AddDocument was given,
\* through the offsets, the dictionary and the codes of the files: each term's
\* documents with their frequencies, positions and weights, each document's
\* stored fields and quality, and the counts BM25 divides by.
THEOREM SegmentAlwaysGivesBack == SegSpec => []SegmentGivesBack
<1>1. SegInv => SegmentGivesBack
  BY ReadsPostings, ReadsStored DEF SegmentGivesBack
<1>2. QED  BY <1>1, BuffersFollow, PTL

-----------------------------------------------------------------------------
(* Trees.                                                                  *)

\* The trees of height n, from those of height n - 1.
MoreQueries(Q) == Q \cup [kind : {"and", "or"}, children : Seq(Q)]
Nodes(n, D) ==
    {it \in [kind : {"and", "or"}, height : {n}, cost : Nat, kids : Seq(D), current : Word,
             freq : Word] : Len(it.kids) > 1}

\* What is made of the trees of height n, when v is the function of those of
\* height n - 1.
MovedBy(n, v) ==
    [it \in DocIdSetIterator[n] |-> [call \in Calls |->
        IF n = 0 THEN LeafMoved(it, call)
        ELSE IF Height(it) < n THEN v[it][call] ELSE NodeMoved(it, call, v)]]

BuildBy(n, v) ==
    [q \in QueryAst[n] |->
        CASE q.kind = "all"  -> MatchAll(reader.doc_count)
          [] q.kind = "term" -> BuildTerm(q)
          [] q.kind \in {"and", "or"} ->
                Combine([i \in DOMAIN q.children |-> v[q.children[i]]], q.kind, n)]

MatchesBy(n, v) ==
    [q \in QueryAst[n] |-> [doc \in Documents |->
        CASE q.kind = "all"  -> TRUE
          [] q.kind = "term" -> HasAll(doc, q)
          [] q.kind = "and"  -> /\ q.children # <<>>
                                /\ \A i \in DOMAIN q.children : v[q.children[i]][doc]
          [] q.kind = "or"   -> \E i \in DOMAIN q.children : v[q.children[i]][doc]]]

FreqBy(n, m, v) ==
    [q \in QueryAst[n] |-> [doc \in Documents |->
        CASE q.kind = "all"  -> 0
          [] q.kind = "term" -> Occurrences(doc, q)
          [] q.kind \in {"and", "or"} ->
                WordTotal([i \in {k \in DOMAIN q.children : m[q.children[k]][doc]} |->
                              v[q.children[i]][doc]])]]

\* The recursive functions are what their definitions say.
LEMMA Definitions ==
    /\ QueryAst[0] = {[kind |-> "all"]} \cup TermQueries
    /\ DocIdSetIterator[0] = MatchAllIterator \cup AnyTermIterator
    /\ \A n \in Nat : /\ QueryAst[n + 1] = MoreQueries(QueryAst[n])
                      /\ DocIdSetIterator[n + 1] =
                             DocIdSetIterator[n] \cup Nodes(n + 1, DocIdSetIterator[n])
    /\ Moved[0] = MovedBy(0, 0) /\ \A n \in Nat : Moved[n + 1] = MovedBy(n + 1, Moved[n])
    /\ Build[0] = BuildBy(0, 0) /\ \A n \in Nat : Build[n + 1] = BuildBy(n + 1, Build[n])
    /\ Matches[0] = MatchesBy(0, 0) /\ \A n \in Nat : Matches[n + 1] = MatchesBy(n + 1, Matches[n])
    /\ FreqOf[0] = FreqBy(0, 0, 0)
    /\ \A n \in Nat : FreqOf[n + 1] = FreqBy(n + 1, Matches[n], FreqOf[n])
<1> DEFINE Q0 == {[kind |-> "all"]} \cup TermQueries
           D0 == MatchAllIterator \cup AnyTermIterator
           Step(n, p) == <<MoreQueries(p[1]), p[2] \cup Nodes(n, p[2]), MovedBy(n, p[3]),
                           BuildBy(n, p[4]), MatchesBy(n, p[5]), FreqBy(n, Matches[n - 1], p[6])>>
           Start == <<Q0, D0, MovedBy(0, 0), BuildBy(0, 0), MatchesBy(0, 0), FreqBy(0, 0, 0)>>
           Value(f, n) == IF n = 0 THEN Start ELSE Step(n, f[n - 1])
           Solves(f, m) == f = [n \in 0 .. m |-> Value(f, n)]
           T == {m \in Nat : \E f : Solves(f, m)}
           h == [n \in Nat |-> (CHOOSE f : Solves(f, n))[n]]
<1>1. \A m \in Nat : \E f : Solves(f, m)
  <2>1. 0 \in T
    <3>1. Solves([n \in 0 .. 0 |-> Start], 0)
      OBVIOUS
    <3>2. QED  BY <3>1
  <2>2. ASSUME NEW m \in Nat, m \in T PROVE m + 1 \in T
    <3>1. PICK f : Solves(f, m)
      BY <2>2
    <3> DEFINE g == [n \in 0 .. m + 1 |-> IF n = m + 1 THEN Step(m + 1, f[m]) ELSE f[n]]
    <3> HIDE DEF Step
    <3>2. ASSUME NEW n \in 0 .. m + 1 PROVE g[n] = Value(g, n)
      <4>1. CASE n = m + 1
        <5>1. n - 1 = m /\ m \in 0 .. m + 1 /\ m # m + 1 /\ n # 0
          BY <4>1
        <5>2. g[n - 1] = f[m] /\ g[n] = Step(n, f[m])
          BY <4>1, <5>1
        <5>3. QED  BY <5>1, <5>2
      <4>2. CASE n # m + 1
        <5>1. n \in 0 .. m /\ (n # 0 => n - 1 \in 0 .. m + 1 /\ n - 1 # m + 1)
          BY <4>2
        <5>2. f[n] = Value(f, n)
          BY <3>1, <5>1
        <5>3. g[n] = f[n] /\ (n # 0 => g[n - 1] = f[n - 1])
          BY <4>2, <5>1
        <5>4. QED  BY <5>2, <5>3
      <4>3. QED  BY <4>1, <4>2
    <3>3. Solves(g, m + 1)
      <4>1. g = [n \in 0 .. m + 1 |-> g[n]]
        OBVIOUS
      <4> HIDE DEF g, Value
      <4>2. QED  BY <3>2, <4>1
    <3> HIDE DEF g, Solves
    <3>4. QED  BY <3>3
  <2> HIDE DEF T, Solves
  <2>3. \A m \in Nat : m \in T
    BY <2>1, <2>2, Induction
  <2>4. QED  BY <2>3 DEF T
<1> HIDE DEF Step
<1>2. ASSUME NEW m \in Nat, NEW f, NEW g, Solves(f, m), Solves(g, m + 1)
      PROVE  f[m] = g[m]
  <2> DEFINE A == {n \in Nat : n <= m => f[n] = g[n]}
  <2>1. \A n \in 0 .. m : f[n] = Value(f, n) /\ g[n] = Value(g, n)
    <3>1. \A n \in 0 .. m : n \in 0 .. m + 1
      OBVIOUS
    <3> HIDE DEF Value
    <3>2. QED  BY <1>2, <3>1
  <2>2. 0 \in A
    BY <2>1
  <2>3. ASSUME NEW n \in Nat, n \in A PROVE n + 1 \in A
    <3>1. CASE n + 1 <= m
      <4>1. n + 1 \in 0 .. m /\ n + 1 # 0 /\ n + 1 - 1 = n /\ n <= m
        BY <3>1
      <4>2. f[n + 1] = Step(n + 1, f[n]) /\ g[n + 1] = Step(n + 1, g[n])
        BY <2>1, <4>1
      <4>3. QED  BY <2>3, <4>1, <4>2
    <3>2. QED  BY <3>1
  <2> HIDE DEF A
  <2>4. m \in A
    BY <2>2, <2>3, Induction
  <2>5. QED  BY <2>4 DEF A
<1>3. ASSUME NEW n \in Nat PROVE h[n] = Value(h, n)
  <2>1. PICK f : Solves(f, n) /\ h[n] = f[n]
    BY <1>1
  <2>2. f[n] = Value(f, n)
    <3>1. n \in 0 .. n
      OBVIOUS
    <3> HIDE DEF Value
    <3>2. QED  BY <2>1, <3>1
  <2>3. CASE n = 0
    BY <2>1, <2>2, <2>3
  <2>4. CASE n # 0
    <3>1. n - 1 \in Nat /\ (n - 1) + 1 = n
      BY <2>4
    <3>2. PICK m \in Nat : m = n - 1 /\ n = m + 1
      BY <3>1
    <3>3. PICK g : Solves(g, m) /\ h[m] = g[m]
      BY <1>1
    <3> HIDE DEF Solves, h
    <3>4. g[m] = f[m]
      BY <1>2, <2>1, <3>2, <3>3
    <3>5. QED  BY <2>1, <2>2, <3>2, <3>3, <3>4
  <2>5. QED  BY <2>3, <2>4
<1> DEFINE q == [n \in Nat |-> h[n][1]]
           d == [n \in Nat |-> h[n][2]]
           m == [n \in Nat |-> h[n][3]]
           b == [n \in Nat |-> h[n][4]]
           s == [n \in Nat |-> h[n][5]]
           o == [n \in Nat |-> h[n][6]]
           DefQ(f) == [n \in Nat |-> IF n = 0 THEN Q0
                           ELSE f[n - 1] \cup [kind : {"and", "or"}, children : Seq(f[n - 1])]]
           DefD(f) == [n \in Nat |-> IF n = 0 THEN D0
                           ELSE f[n - 1] \cup
                                {it \in [kind : {"and", "or"}, height : {n}, cost : Nat,
                                         kids : Seq(f[n - 1]), current : Word, freq : Word] :
                                    Len(it.kids) > 1}]
           DefM(f) == [n \in Nat |-> MovedBy(n, f[n - 1])]
           DefB(f) == [n \in Nat |-> BuildBy(n, f[n - 1])]
           DefS(f) == [n \in Nat |-> MatchesBy(n, f[n - 1])]
           DefO(f) == [n \in Nat |-> FreqBy(n, Matches[n - 1], f[n - 1])]
<1> HIDE DEF h, Q0, D0
<1>4. ASSUME NEW n \in Nat
      PROVE  /\ q[n] = IF n = 0 THEN Q0 ELSE MoreQueries(q[n - 1])
             /\ d[n] = IF n = 0 THEN D0 ELSE d[n - 1] \cup Nodes(n, d[n - 1])
             /\ m[n] = IF n = 0 THEN MovedBy(0, 0) ELSE MovedBy(n, m[n - 1])
             /\ b[n] = IF n = 0 THEN BuildBy(0, 0) ELSE BuildBy(n, b[n - 1])
             /\ s[n] = IF n = 0 THEN MatchesBy(0, 0) ELSE MatchesBy(n, s[n - 1])
             /\ o[n] = IF n = 0 THEN FreqBy(0, 0, 0) ELSE FreqBy(n, Matches[n - 1], o[n - 1])
  <2>1. CASE n = 0
    <3>1. h[n] = Start
      BY <1>3, <2>1
    <3>2. QED  BY <2>1, <3>1
  <2>2. CASE n # 0
    <3>1. n - 1 \in Nat /\ h[n] = Step(n, h[n - 1])
      BY <1>3, <2>2
    <3>2. PICK p : p = h[n - 1]
      OBVIOUS
    <3>3. h[n] = <<MoreQueries(p[1]), p[2] \cup Nodes(n, p[2]), MovedBy(n, p[3]),
                   BuildBy(n, p[4]), MatchesBy(n, p[5]), FreqBy(n, Matches[n - 1], p[6])>>
      BY <3>1, <3>2 DEF Step
    <3>4. /\ q[n - 1] = p[1] /\ d[n - 1] = p[2] /\ m[n - 1] = p[3] /\ b[n - 1] = p[4]
          /\ s[n - 1] = p[5] /\ o[n - 1] = p[6]
      BY <3>1, <3>2
    <3>5. QED  BY <2>2, <3>3, <3>4
  <2>3. QED  BY <2>1, <2>2
<1>5. q = DefQ(q) /\ d = DefD(d)
  BY <1>4 DEF MoreQueries, Nodes
<1>6. QueryAst = DefQ(QueryAst)
  <2> HIDE DEF q
  <2>1. QED  BY <1>5 DEF QueryAst, Q0
<1>7. DocIdSetIterator = DefD(DocIdSetIterator)
  <2> HIDE DEF d
  <2>1. QED  BY <1>5 DEF DocIdSetIterator, D0
<1>8. \A n \in Nat : n + 1 \in Nat /\ n + 1 # 0 /\ (n + 1) - 1 = n
  OBVIOUS
<1>9. \A n \in Nat : QueryAst[n + 1] = MoreQueries(QueryAst[n])
  BY <1>6, <1>8 DEF MoreQueries
<1>10. \A n \in Nat : DocIdSetIterator[n + 1] =
                          DocIdSetIterator[n] \cup Nodes(n + 1, DocIdSetIterator[n])
  BY <1>7, <1>8 DEF Nodes
<1>11. QueryAst[0] = Q0 /\ DocIdSetIterator[0] = D0
  BY <1>6, <1>7
<1>12. \A x \in QueryAst[0] : x.kind \in {"all", "term"}
  BY <1>11, QueriesAssumption DEF Q0
<1>13. ASSUME NEW v
       PROVE  /\ MovedBy(0, v) = MovedBy(0, 0) /\ BuildBy(0, v) = BuildBy(0, 0)
              /\ MatchesBy(0, v) = MatchesBy(0, 0)
              /\ \A w : FreqBy(0, w, v) = FreqBy(0, 0, 0)
  <2>1. MovedBy(0, v) = MovedBy(0, 0)
    BY DEF MovedBy
  <2>2. BuildBy(0, v) = BuildBy(0, 0)
    BY <1>12 DEF BuildBy
  <2>3. MatchesBy(0, v) = MatchesBy(0, 0)
    BY <1>12 DEF MatchesBy
  <2>4. \A w : FreqBy(0, w, v) = FreqBy(0, 0, 0)
    BY <1>12 DEF FreqBy
  <2>5. QED  BY <2>1, <2>2, <2>3, <2>4
<1>14. m = DefM(m) /\ b = DefB(b) /\ s = DefS(s) /\ o = DefO(o)
  <2>1. ASSUME NEW n \in Nat
        PROVE  /\ m[n] = MovedBy(n, m[n - 1]) /\ b[n] = BuildBy(n, b[n - 1])
               /\ s[n] = MatchesBy(n, s[n - 1]) /\ o[n] = FreqBy(n, Matches[n - 1], o[n - 1])
    <3> HIDE DEF m, b, s, o
    <3>1. CASE n = 0
      BY <1>4, <1>13, <3>1
    <3>2. CASE n # 0
      BY <1>4, <3>2
    <3>3. QED  BY <3>1, <3>2
  <2>2. QED  BY <2>1
<1>15. Moved = DefM(Moved)
  <2> HIDE DEF m
  <2>1. m = DefM(m)
    BY <1>14
  <2>2. QED  BY <2>1, Zenon DEF Moved, MovedBy
<1>16. Build = DefB(Build)
  <2> HIDE DEF b
  <2>1. QED  BY <1>14 DEF Build, BuildBy
<1>17. Matches = DefS(Matches)
  <2> HIDE DEF s
  <2>1. s = DefS(s)
    BY <1>14
  <2>2. QED  BY <2>1, SMT DEF Matches, MatchesBy
<1>18. FreqOf = DefO(FreqOf)
  <2> HIDE DEF o
  <2>1. o = DefO(o)
    BY <1>14
  <2>2. QED  BY <2>1, SMT DEF FreqOf, FreqBy
<1>19. ASSUME NEW n \in Nat
       PROVE  /\ Moved[n] = MovedBy(n, Moved[n - 1]) /\ Build[n] = BuildBy(n, Build[n - 1])
              /\ Matches[n] = MatchesBy(n, Matches[n - 1])
              /\ FreqOf[n] = FreqBy(n, Matches[n - 1], FreqOf[n - 1])
  BY <1>15, <1>16, <1>17, <1>18
<1>20. /\ Moved[0] = MovedBy(0, 0) /\ Build[0] = BuildBy(0, 0)
       /\ Matches[0] = MatchesBy(0, 0) /\ FreqOf[0] = FreqBy(0, 0, 0)
  BY <1>13, <1>19
<1>21. ASSUME NEW n \in Nat
       PROVE  /\ Moved[n + 1] = MovedBy(n + 1, Moved[n]) /\ Build[n + 1] = BuildBy(n + 1, Build[n])
              /\ Matches[n + 1] = MatchesBy(n + 1, Matches[n])
              /\ FreqOf[n + 1] = FreqBy(n + 1, Matches[n], FreqOf[n])
  BY <1>8, <1>19
<1>22. QED  BY <1>9, <1>10, <1>11, <1>20, <1>21 DEF Q0, D0

-----------------------------------------------------------------------------
(* The iterators and how they move.                                        *)

\* A DocId has the width of a word, the sentinel is the largest, and no target is
\* the mark for Next.
LEMMA Numbers ==
    /\ WordMax \in Nat /\ WordMax >= 1 /\ kNoMoreDocs = WordMax /\ Word \in SUBSET Nat
    /\ kNoMoreDocs \in Word /\ 0 \in Word /\ 1 \in Word /\ 0 # kNoMoreDocs
    /\ \A x : x \in Word <=> x \in Nat /\ x <= kNoMoreDocs
    /\ Word \subseteq Calls /\ ToNext \in Calls /\ ToNext \notin Word
BY Widths DEF Word, Calls, ToNext

\* A tree is in every higher set, and no higher than its own.
LEMMA HeightIs ==
    ASSUME NEW n \in Nat
    PROVE  /\ DocIdSetIterator[0] \subseteq DocIdSetIterator[n]
           /\ DocIdSetIterator[n] \subseteq DocIdSetIterator[n + 1]
           /\ \A it \in DocIdSetIterator[n] :
                  /\ Height(it) \in 0 .. n /\ it.current \in Word
                  /\ Freq(it) \in Word /\ Cost(it) \in Nat
<1> DEFINE D == DocIdSetIterator
           Good(n_) == /\ D[0] \subseteq D[n_] /\ D[n_] \subseteq D[n_ + 1]
                       /\ \A it \in D[n_] : /\ Height(it) \in 0 .. n_ /\ it.current \in Word
                                            /\ Freq(it) \in Word /\ Cost(it) \in Nat
           T == {k \in Nat : Good(k)}
<1>1. /\ D[0] = MatchAllIterator \cup AnyTermIterator
      /\ \A k \in Nat : D[k + 1] = D[k] \cup Nodes(k + 1, D[k])
  BY Definitions
<1>2. ASSUME NEW it \in D[0]
      PROVE  Height(it) = 0 /\ it.current \in Word /\ Freq(it) \in Word /\ Cost(it) \in Nat
  <2>1. CASE it \in MatchAllIterator
    BY <2>1, Numbers DEF MatchAllIterator, Height, Freq, Cost
  <2>2. CASE it \in AnyTermIterator
    BY <2>2, Numbers DEF AnyTermIterator, Height, Freq, Cost
  <2>3. QED  BY <1>1, <2>1, <2>2
<1>3. ASSUME NEW k \in Nat, NEW it \in Nodes(k, D[k - 1])
      PROVE  Height(it) = k /\ it.current \in Word /\ Freq(it) \in Word /\ Cost(it) \in Nat
  BY Numbers DEF Nodes, Height, Freq, Cost
<1> HIDE DEF D
<1>4. 0 \in T
  <2>1. D[0] \subseteq D[0 + 1]
    BY <1>1
  <2>2. QED  BY <1>2, <2>1
<1>5. ASSUME NEW k \in Nat, k \in T PROVE k + 1 \in T
  <2>1. D[k + 1] = D[k] \cup Nodes(k + 1, D[k]) /\ k + 1 \in Nat /\ (k + 1) - 1 = k
    BY <1>1
  <2>2. D[k + 1] \subseteq D[(k + 1) + 1]
    BY <1>1, <2>1
  <2>3. \A it \in Nodes(k + 1, D[k]) :
            Height(it) = k + 1 /\ it.current \in Word /\ Freq(it) \in Word /\ Cost(it) \in Nat
    BY <1>3, <2>1
  <2>4. \A it \in D[k] : Height(it) \in 0 .. k + 1
    BY <1>5
  <2>5. QED  BY <1>5, <2>1, <2>2, <2>3, <2>4
<1> HIDE DEF T
<1>6. n \in T
  BY <1>4, <1>5, Induction
<1>7. QED  BY <1>6 DEF T, D

\* A leaf moves by itself, a tree over others by moving these, and a tree moves
\* in every higher set as in its own.
LEMMA MovedIs ==
    ASSUME NEW n \in Nat, NEW call \in Calls
    PROVE  /\ \A it \in DocIdSetIterator[0] : Moved[0][it][call] = LeafMoved(it, call)
           /\ \A it \in DocIdSetIterator[n] : Moved[n + 1][it][call] = Moved[n][it][call]
           /\ \A it \in Nodes(n + 1, DocIdSetIterator[n]) :
                  /\ it \in DocIdSetIterator[n + 1]
                  /\ Moved[n + 1][it][call] = NodeMoved(it, call, Moved[n])
<1>1. \A it \in DocIdSetIterator[0] : Moved[0][it][call] = LeafMoved(it, call)
  BY Definitions DEF MovedBy
<1>2. ASSUME NEW it \in DocIdSetIterator[n + 1]
      PROVE  Moved[n + 1][it][call] = IF Height(it) < n + 1 THEN Moved[n][it][call]
                                      ELSE NodeMoved(it, call, Moved[n])
  <2>1. Moved[n + 1] = MovedBy(n + 1, Moved[n]) /\ n + 1 # 0
    BY Definitions
  <2>2. QED  BY <2>1 DEF MovedBy
<1>3. ASSUME NEW it \in DocIdSetIterator[n]
      PROVE  it \in DocIdSetIterator[n + 1] /\ Height(it) < n + 1
  BY HeightIs
<1>4. ASSUME NEW it \in Nodes(n + 1, DocIdSetIterator[n])
      PROVE  it \in DocIdSetIterator[n + 1] /\ ~(Height(it) < n + 1)
  <2>1. it \in DocIdSetIterator[n + 1]
    BY Definitions
  <2>2. Height(it) = n + 1
    BY DEF Nodes, Height
  <2>3. QED  BY <2>1, <2>2
<1>5. QED  BY <1>1, <1>2, <1>3, <1>4

-----------------------------------------------------------------------------
(* What an iterator keeps to, in whatever order it is called.              *)

\* x is the first document of S from b on, or the sentinel when there is none.
IsFirst(x, S, b) ==
    \/ x = kNoMoreDocs /\ \A d \in S : d < b
    \/ x \in S /\ x >= b /\ \A d \in S : d >= b => x <= d

\* The iterator y is at the first document from b on; <<y, b>> is in V unless
\* there is none.
IsAt(y, b, S, V) == IsFirst(y.current, S, b) /\ (y.current # kNoMoreDocs => <<y, b>> \in V)

\* X has what any calls make of an iterator over the documents S with the
\* frequencies F: it is never anywhere else, and an Advance never behind its
\* target.  V has an iterator, at a document, with the bound it came there by:
\* Next leads to the next document, and Advance, to any target from the bound
\* on, to the first document from there.
Walks(move, K, S, F, X, V) ==
    /\ X \subseteq K
    /\ \A x \in X :
           /\ x.current \in S \cup {kNoMoreDocs}
           /\ \A call \in Calls : move[x][call] \in X
           /\ \A t \in Word : move[x][t].current >= t
    /\ \A x \in X, b \in Word : <<x, b>> \in V =>
           /\ x.current # kNoMoreDocs /\ IsFirst(x.current, S, b) /\ Freq(x) = F[x.current]
           /\ \A t \in Word : t >= b => IsAt(move[x][t], t, S, V)
           /\ IsAt(move[x][ToNext], x.current + 1, S, V)

\* A new iterator: its first Next leads to the first document.
Keeps(n, it, S, F) ==
    \E X, V : /\ Walks(Moved[n], DocIdSetIterator[n], S, F, X, V)
              /\ it \in X /\ it.current = kNoMoreDocs
              /\ IsAt(Moved[n][it][ToNext], 0, S, V)

\* The sets of documents.
DocSet == SUBSET (0 .. kNoMoreDocs - 1)

\* A document is before the sentinel, so that the next bound fits a word.
LEMMA DocsAreWords ==
    ASSUME NEW S \in DocSet
    PROVE  \A d \in S : d \in Word /\ d \in Nat /\ d # kNoMoreDocs /\ d < kNoMoreDocs
                        /\ d + 1 \in Word
BY Numbers DEF DocSet, Word

\* An iterator at its end stays there: nothing of S is left.
LEMMA Onward ==
    ASSUME NEW move, NEW K, NEW S \in DocSet, NEW F, NEW X, NEW V, Walks(move, K, S, F, X, V),
           NEW x \in X, NEW b \in Word, NEW t \in Word, b <= t, IsAt(x, b, S, V)
    PROVE  move[x][t] \in X /\ IsAt(move[x][t], t, S, V) /\ move[x][t].current >= t
<1>1. move[x][t] \in X /\ move[x][t].current >= t
      /\ move[x][t].current \in S \cup {kNoMoreDocs}
  BY Numbers DEF Walks
<1>2. CASE x.current # kNoMoreDocs
  BY <1>1, <1>2, Numbers DEF Walks, IsAt
<1>3. CASE x.current = kNoMoreDocs
  <2>1. \A d \in S : d < b /\ d < t /\ d # kNoMoreDocs
    BY <1>3, Numbers, DocsAreWords DEF IsAt, IsFirst
  <2>2. move[x][t].current = kNoMoreDocs
    BY <1>1, <2>1, Numbers, DocsAreWords
  <2>3. QED  BY <1>1, <2>1, <2>2 DEF IsAt, IsFirst
<1>4. QED  BY <1>2, <1>3

\* What a tree keeps to, it keeps to in every higher set.
LEMMA KeepsHigher ==
    ASSUME NEW n \in Nat, NEW it, NEW S, NEW F, Keeps(n, it, S, F)
    PROVE  Keeps(n + 1, it, S, F)
<1>1. PICK X, V : /\ Walks(Moved[n], DocIdSetIterator[n], S, F, X, V)
                  /\ it \in X /\ it.current = kNoMoreDocs
                  /\ IsAt(Moved[n][it][ToNext], 0, S, V)
  BY DEF Keeps
<1>2. X \subseteq DocIdSetIterator[n] /\ DocIdSetIterator[n] \subseteq DocIdSetIterator[n + 1]
  BY <1>1, HeightIs DEF Walks
<1>3. \A x \in X, call \in Calls : Moved[n + 1][x][call] = Moved[n][x][call]
  BY <1>2, MovedIs
<1>4. Walks(Moved[n + 1], DocIdSetIterator[n + 1], S, F, X, V)
  <2>1. PICK K, L, f, g : /\ K = DocIdSetIterator[n] /\ L = DocIdSetIterator[n + 1]
                          /\ f = Moved[n] /\ g = Moved[n + 1]
    OBVIOUS
  <2>2. /\ Walks(f, K, S, F, X, V) /\ X \subseteq L
        /\ \A x \in X, call \in Calls : g[x][call] = f[x][call]
    BY <1>1, <1>2, <1>3, <2>1
  <2>3. ASSUME NEW x \in X
        PROVE  /\ x.current \in S \cup {kNoMoreDocs}
               /\ \A call \in Calls : g[x][call] \in X
               /\ \A t \in Word : g[x][t].current >= t
    BY <2>2, Numbers DEF Walks
  <2>4. ASSUME NEW x \in X, NEW b \in Word, <<x, b>> \in V
        PROVE  /\ x.current # kNoMoreDocs /\ IsFirst(x.current, S, b) /\ Freq(x) = F[x.current]
               /\ \A t \in Word : t >= b => IsAt(g[x][t], t, S, V)
               /\ IsAt(g[x][ToNext], x.current + 1, S, V)
    <3>1. /\ x.current # kNoMoreDocs /\ IsFirst(x.current, S, b) /\ Freq(x) = F[x.current]
          /\ \A t \in Word : t >= b => IsAt(f[x][t], t, S, V)
          /\ IsAt(f[x][ToNext], x.current + 1, S, V)
      BY <2>2, <2>4 DEF Walks
    <3>2. g[x][ToNext] = f[x][ToNext] /\ \A t \in Word : g[x][t] = f[x][t]
      BY <2>2, Numbers
    <3>3. QED  BY <3>1, <3>2
  <2>5. Walks(g, L, S, F, X, V)
    BY <2>2, <2>3, <2>4 DEF Walks
  <2>6. QED  BY <2>1, <2>5
<1>5. Moved[n + 1][it][ToNext] = Moved[n][it][ToNext]
  BY <1>1, <1>3, Numbers
<1>6. QED  BY <1>1, <1>4, <1>5 DEF Keeps

-----------------------------------------------------------------------------
(* MatchAllIterator.                                                       *)

\* An iterator over every document goes through the first n DocIds in turn.
LEMMA MatchAllKeeps ==
    ASSUME NEW n \in Word, NEW F, \A d \in 0 .. n - 1 : F[d] = 0
    PROVE  Keeps(0, MatchAll(n), 0 .. n - 1, F)
<1> DEFINE S == 0 .. n - 1
           X == {x \in MatchAllIterator : x.doc_count = n /\ x.current \in S \cup {kNoMoreDocs}}
           V == {p \in X \X Word : /\ p[1].started /\ p[1].current # kNoMoreDocs
                                   /\ IsFirst(p[1].current, S, p[2])}
           M(x, call) == Moved[0][x][call]
<1>1. n \in Nat /\ n <= kNoMoreDocs /\ S \in DocSet
  BY Numbers DEF DocSet
<1>2. \A d : d \in S <=> d \in Nat /\ d < n
  BY <1>1
<1>3. \A d \in S : d \in Word /\ d \in Nat /\ d # kNoMoreDocs /\ d < kNoMoreDocs /\ d + 1 \in Word
  BY <1>1, DocsAreWords
<1>4. MatchAll(n) \in X
  BY <1>1, Numbers DEF MatchAll, MatchAllIterator
<1>5. ASSUME NEW x \in X
      PROVE  /\ x \in DocIdSetIterator[0] /\ x.kind = "all" /\ x.doc_count = n
             /\ x \in [kind : {"all"}, doc_count : Word, current : Word, started : BOOLEAN]
  BY Definitions DEF MatchAllIterator
<1>6. ASSUME NEW x \in X, NEW call \in Calls
      PROVE  M(x, call) = IF call = ToNext THEN MatchAllNext(x) ELSE MatchAllAdvance(x, call)
  BY <1>5, MovedIs, 0 \in Nat DEF LeafMoved
<1>7. \A x, b : <<x, b>> \in V <=> /\ x \in X /\ b \in Word /\ x.started /\ x.current # kNoMoreDocs
                                   /\ IsFirst(x.current, S, b)
  OBVIOUS
<1> HIDE DEF S, M
<1>8. ASSUME NEW x \in X, NEW t \in Word
      PROVE  /\ M(x, t) \in X /\ M(x, t).current >= t /\ IsAt(M(x, t), t, S, V)
  <2>1. M(x, t) = MatchAllAdvance(x, t) /\ t \in Nat /\ t <= kNoMoreDocs
    BY <1>6, Numbers
  <2>2. CASE t < n
    <3>1. M(x, t) = [x EXCEPT !.started = TRUE, !.current = t] /\ t \in S
      BY <1>1, <1>2, <1>5, <2>1, <2>2 DEF MatchAllAdvance
    <3>2. M(x, t) \in X /\ M(x, t).current = t /\ M(x, t).started
      BY <1>1, <1>5, <3>1 DEF MatchAllIterator
    <3>3. IsFirst(t, S, t) /\ t # kNoMoreDocs
      BY <1>2, <1>3, <3>1 DEF IsFirst
    <3> HIDE DEF X, V
    <3>4. QED  BY <1>7, <2>1, <3>2, <3>3 DEF IsAt
  <2>3. CASE ~(t < n)
    <3>1. M(x, t) = [x EXCEPT !.current = kNoMoreDocs]
      BY <1>5, <2>1, <2>3 DEF MatchAllAdvance
    <3>2. M(x, t) \in X /\ M(x, t).current = kNoMoreDocs
      BY <1>1, <1>5, <3>1, Numbers DEF MatchAllIterator
    <3>3. IsFirst(kNoMoreDocs, S, t)
      BY <1>1, <1>2, <2>1, <2>3 DEF IsFirst
    <3> HIDE DEF X, V
    <3>4. QED  BY <2>1, <3>2, <3>3 DEF IsAt
  <2>4. QED  BY <2>2, <2>3
<1>9. ASSUME NEW x \in X
      PROVE  /\ M(x, ToNext) \in X
             /\ ~x.started => IsAt(M(x, ToNext), 0, S, V)
             /\ x.started /\ x.current # kNoMoreDocs => IsAt(M(x, ToNext), x.current + 1, S, V)
  <2> DEFINE next == IF x.started THEN (x.current + 1) % (WordMax + 1) ELSE 0
  <2>1. M(x, ToNext) = [x EXCEPT !.started = TRUE,
                                 !.current = IF next < n THEN next ELSE kNoMoreDocs]
    BY <1>5, <1>6, Numbers DEF MatchAllNext
  <2>2. next \in Nat /\ (x.started /\ x.current # kNoMoreDocs => next = x.current + 1)
    <3>1. x.current \in Nat /\ x.current <= kNoMoreDocs
      BY Numbers DEF MatchAllIterator
    <3>2. CASE x.started /\ x.current # kNoMoreDocs
      BY <3>1, <3>2, Numbers
    <3>3. CASE x.started /\ x.current = kNoMoreDocs
      BY <3>1, <3>3, Numbers
    <3>4. CASE ~x.started
      BY <3>4
    <3>5. QED  BY <3>2, <3>3, <3>4
  <2> HIDE DEF next
  <2>3. ASSUME next < n
        PROVE  /\ M(x, ToNext) \in X /\ IsAt(M(x, ToNext), next, S, V)
    <3>1. next \in S /\ M(x, ToNext) = [x EXCEPT !.started = TRUE, !.current = next]
      BY <1>2, <2>1, <2>2, <2>3
    <3>2. M(x, ToNext) \in X /\ M(x, ToNext).current = next /\ M(x, ToNext).started /\ next \in Word
      BY <1>3, <1>5, <3>1 DEF MatchAllIterator
    <3>3. IsFirst(next, S, next) /\ next # kNoMoreDocs
      BY <1>2, <1>3, <3>1 DEF IsFirst
    <3> HIDE DEF X, V
    <3>4. QED  BY <1>7, <3>2, <3>3 DEF IsAt
  <2>4. ASSUME ~(next < n)
        PROVE  /\ M(x, ToNext) \in X /\ IsAt(M(x, ToNext), next, S, V)
    <3>1. M(x, ToNext) = [x EXCEPT !.started = TRUE, !.current = kNoMoreDocs]
      BY <2>1, <2>4
    <3>2. M(x, ToNext) \in X /\ M(x, ToNext).current = kNoMoreDocs
      BY <1>5, <3>1, Numbers DEF MatchAllIterator
    <3>3. IsFirst(kNoMoreDocs, S, next)
      BY <1>1, <1>2, <2>2, <2>4 DEF IsFirst
    <3> HIDE DEF X, V
    <3>4. QED  BY <3>2, <3>3 DEF IsAt
  <2>5. ~x.started => next = 0
    BY DEF next
  <2> HIDE DEF X, V
  <2>6. QED  BY <2>2, <2>3, <2>4, <2>5
<1>10. \A x \in X : x.current \in S \cup {kNoMoreDocs} /\ x \in DocIdSetIterator[0] /\ Freq(x) = 0
  BY <1>5 DEF Freq
<1>11. Walks(Moved[0], DocIdSetIterator[0], S, F, X, V)
  <2> HIDE DEF X, V
  <2>1. ASSUME NEW x \in X, NEW call \in Calls PROVE M(x, call) \in X
    BY <1>8, <1>9 DEF Calls
  <2>2. \A d \in S : F[d] = 0
    BY DEF S
  <2>3. ASSUME NEW x \in X, NEW b \in Word, <<x, b>> \in V
        PROVE  /\ x.current # kNoMoreDocs /\ IsFirst(x.current, S, b) /\ Freq(x) = F[x.current]
               /\ \A t \in Word : t >= b => IsAt(M(x, t), t, S, V)
               /\ IsAt(M(x, ToNext), x.current + 1, S, V)
    BY <1>7, <1>8, <1>9, <1>10, <2>2, <2>3
  <2>4. QED  BY <1>8, <1>10, <2>1, <2>3 DEF Walks, M
<1>12. MatchAll(n).current = kNoMoreDocs /\ ~MatchAll(n).started
  BY DEF MatchAll
<1>13. IsAt(M(MatchAll(n), ToNext), 0, S, V)
  <2> HIDE DEF X, V
  <2>1. QED  BY <1>4, <1>9, <1>12
<1> HIDE DEF X, V
<1>14. QED  BY <1>4, <1>11, <1>12, <1>13 DEF Keeps, M, S

-----------------------------------------------------------------------------
(* TermIterator: what PostingsProofs says of it, as a walk.                *)

\* The cursor over n postings after each number k of calls of Next: what is
\* left falls to 0, and behind the last posting Next changes nothing.
Scans(a, n, pl, bytes) ==
    /\ n \in Nat /\ n = Len(pl) /\ n <= WordMax /\ DOMAIN pl = 1 .. n
    /\ \A k \in 0 .. n + 1 : /\ a[k] \in TermIterators(bytes) /\ a[k].kind = "term"
                             /\ a[k] \in DocIdSetIterator[0]
                             /\ a[k] = TermAfter(a[0], k)
    /\ \A k \in 0 .. n : TermNext(a[k]) = a[k + 1] /\ a[k].remaining = n - k
    /\ \A k \in 1 .. n : /\ a[k].current = pl[k].doc /\ pl[k].doc \in 0 .. kNoMoreDocs - 1
                         /\ a[k].freq = pl[k].tf
    /\ a[0].current = kNoMoreDocs /\ a[n + 1].current = kNoMoreDocs
    /\ a[n + 1].remaining = 0 /\ TermNext(a[n + 1]) = a[n + 1]

\* The cursor of a term reads the postings one by one, and stays at the end.
LEMMA CursorScans ==
    ASSUME NEW pl \in PostingLists, NEW has_positions \in BOOLEAN, NEW has_token_weights \in BOOLEAN,
           NEW bytes, bytes = WritePostings(pl, has_positions, has_token_weights),
           NEW fresh, fresh = TermIterator(bytes, has_positions, has_token_weights)
    PROVE  bytes \in Seq(Byte) /\ \E a, n : a[0] = fresh /\ Scans(a, n, pl, bytes)
<1>1. PICK n : n = Len(pl)
  OBVIOUS
<1> DEFINE A(k) == TermAfter(fresh, k)
<1>2. /\ bytes \in Seq(Byte) /\ fresh \in TermIterators(bytes) /\ fresh.remaining = n
      /\ \A k \in 1 .. n : Gives(A(k), pl[k], has_positions, has_token_weights)
      /\ A(n + 1).current = kNoMoreDocs
  BY <1>1, WalkReadBack
<1>3. n \in Nat /\ n <= WordMax /\ DOMAIN pl = 1 .. n
      /\ \A k \in 1 .. n : pl[k].doc \in 0 .. kNoMoreDocs - 1
  BY <1>1, ListLength, PostingFields, Widths
<1>4. A(0) = fresh /\ \A k \in Nat : A(k) \in TermIterators(bytes) /\ A(k + 1) = TermNext(A(k))
  BY <1>2, TermAfterDef
<1>5. ASSUME NEW it \in TermIterators(bytes)
      PROVE  it \in DocIdSetIterator[0] /\ it.kind = "term"
  <2>1. it.bytes = bytes /\ it.cursor \in 1 .. Len(bytes) + 1 /\ it.kind = "term"
    BY DEF TermIterators
  <2>2. bytes \in Seq(0 .. ByteMax)
    BY <1>2 DEF Byte
  <2>3. Word = 0 .. WordMax /\ 1 .. Len(bytes) + 1 \subseteq Nat
    BY <2>2 DEF Word
  <2>4. it \in [kind : {"term"}, bytes : Seq(0 .. ByteMax), cursor : Nat, remaining : Word,
                df : Word, has_positions : BOOLEAN, has_token_weights : BOOLEAN, current : Word,
                prev : Word, freq : Word, pos : Nat, weight : Nat, started : BOOLEAN]
    BY <2>2, <2>3 DEF TermIterators
  <2>5. it \in AnyTermIterator
    BY <2>1, <2>4 DEF AnyTermIterator
  <2>6. QED  BY <2>1, <2>5, Definitions
<1>6. \A k \in 1 .. n : A(k).current = pl[k].doc /\ pl[k].doc # kNoMoreDocs /\ A(k).freq = pl[k].tf
  BY <1>2, <1>3, Numbers DEF Gives
<1>7. fresh.current = kNoMoreDocs
  BY DEF TermIterator
<1> HIDE DEF A
<1> DEFINE T == {k \in Nat : k <= n => A(k).remaining = n - k}
<1>8. 0 \in T
  <2>1. A(0).remaining = n /\ n \in Nat
    BY <1>2, <1>3, <1>4
  <2>2. QED  BY <2>1
<1>9. ASSUME NEW k \in Nat, k \in T PROVE k + 1 \in T
  <2>1. CASE k + 1 <= n
    <3>1. k + 1 \in 1 .. n /\ k <= n
      BY <1>3, <2>1
    <3>2. TermNext(A(k)).current # kNoMoreDocs
      BY <1>4, <1>6, <3>1
    <3>3. TermNext(A(k)).remaining = A(k).remaining - 1
      BY <1>2, <1>4, <3>2, TermNextType
    <3>4. A(k).remaining = n - k
      BY <1>9, <3>1
    <3>5. A(k + 1) = TermNext(A(k)) /\ n \in Nat
      BY <1>3, <1>4
    <3>6. A(k + 1).remaining = n - (k + 1)
      BY <3>3, <3>4, <3>5
    <3>7. QED  BY <3>6
  <2>2. CASE ~(k + 1 <= n)
    BY <2>2
  <2>3. QED  BY <2>1, <2>2
<1> HIDE DEF T
<1>10. \A k \in Nat : k \in T
  BY <1>8, <1>9, Induction
<1>11. \A k \in 0 .. n : A(k).remaining = n - k
  BY <1>10 DEF T
<1>12. A(n).remaining = 0 /\ A(n + 1) = TermNext(A(n)) /\ n + 1 \in Nat
  BY <1>3, <1>4, <1>11
<1>13. A(n + 1) = [A(n) EXCEPT !.current = kNoMoreDocs]
  BY <1>12 DEF TermNext
<1>14. A(n) \in TermIterators(bytes) /\ A(n + 1) \in TermIterators(bytes)
  BY <1>3, <1>4, <1>12
<1>15. A(n + 1).remaining = 0
  BY <1>12, <1>13, <1>14 DEF TermIterators
<1>16. TermNext(A(n + 1)) = [A(n + 1) EXCEPT !.current = kNoMoreDocs]
  BY <1>15 DEF TermNext
<1>17. TermNext(A(n + 1)) = A(n + 1)
  BY <1>2, <1>14, <1>16 DEF TermIterators
<1> DEFINE a == [k \in 0 .. n + 1 |-> A(k)]
<1>18. /\ \A k \in 0 .. n + 1 : k \in Nat /\ a[k] = A(k)
       /\ 0 \in 0 .. n + 1 /\ n + 1 \in 0 .. n + 1
       /\ \A k \in 0 .. n : k \in 0 .. n + 1 /\ k + 1 \in 0 .. n + 1 /\ k \in Nat
       /\ \A k \in 1 .. n : k \in 0 .. n + 1
  BY <1>3
<1> HIDE DEF a
<1>19. a[0] = fresh /\ a[n + 1] = A(n + 1)
  BY <1>4, <1>18
<1>20. \A k \in 0 .. n + 1 : /\ a[k] \in TermIterators(bytes) /\ a[k].kind = "term"
                             /\ a[k] \in DocIdSetIterator[0]
                             /\ a[k] = TermAfter(a[0], k)
  BY <1>4, <1>5, <1>18, <1>19 DEF A
<1>21. \A k \in 0 .. n : TermNext(a[k]) = a[k + 1] /\ a[k].remaining = n - k
  BY <1>4, <1>11, <1>18
<1>22. \A k \in 1 .. n : a[k].current = pl[k].doc /\ a[k].freq = pl[k].tf
  BY <1>6, <1>18
<1>23. Scans(a, n, pl, bytes)
  BY <1>1, <1>2, <1>3, <1>7, <1>15, <1>17, <1>19, <1>20, <1>21, <1>22 DEF Scans
<1>24. QED  BY <1>2, <1>19, <1>23

\* Advance of the cursor after k calls: to the first posting, from the k-th on, at
\* or behind the target.
LEMMA AdvanceIs ==
    ASSUME NEW pl \in PostingLists, NEW has_positions \in BOOLEAN, NEW has_token_weights \in BOOLEAN,
           NEW bytes, bytes = WritePostings(pl, has_positions, has_token_weights),
           NEW fresh, fresh = TermIterator(bytes, has_positions, has_token_weights),
           NEW k \in 0 .. Len(pl), NEW target \in 0 .. kNoMoreDocs
    PROVE  LET From(i) == i \in DOMAIN pl /\ i >= k /\ pl[i].doc >= target
               it == TermAdvance(TermAfter(fresh, k), target)
           IN  \/ it = TermAfter(fresh, Len(pl) + 1) /\ \A i : ~From(i)
               \/ \E m : it = TermAfter(fresh, m) /\ From(m) /\ \A i : From(i) => m <= i
<1> DEFINE it == TermAdvance(TermAfter(fresh, k), target)
           from == {i \in DOMAIN pl : i >= k /\ pl[i].doc >= target}
<1>1. IF from = {} THEN it = TermAfter(fresh, Len(pl) + 1) ELSE it = TermAfter(fresh, Min(from))
  BY AdvanceMeetsFirst
<1>2. from \in SUBSET Nat
  BY PostingFields
<1>3. from # {} => Min(from) \in from /\ \A i \in from : Min(from) <= i
  <2> HIDE DEF from
  <2>1. QED  BY <1>2, LeastNumber
<1>4. \A i : i \in from <=> i \in DOMAIN pl /\ i >= k /\ pl[i].doc >= target
  OBVIOUS
<1> HIDE DEF it, from
<1>5. QED  BY <1>1, <1>3, <1>4 DEF it

\* S has the documents of a posting list, and F the frequency in each.
Lists(pl, S, F) ==
    /\ S = {pl[k].doc : k \in DOMAIN pl}
    /\ \A k \in DOMAIN pl : F[pl[k].doc] = pl[k].tf

\* The iterator over a posting list walks over its documents.
LEMMA TermKeeps ==
    ASSUME NEW pl \in PostingLists, NEW has_positions \in BOOLEAN, NEW has_token_weights \in BOOLEAN,
           NEW S, NEW F, Lists(pl, S, F)
    PROVE  /\ S \in DocSet
           /\ Keeps(0, TermIterator(WritePostings(pl, has_positions, has_token_weights),
                                    has_positions, has_token_weights), S, F)
<1>1. PICK bytes, fresh : /\ bytes = WritePostings(pl, has_positions, has_token_weights)
                          /\ fresh = TermIterator(bytes, has_positions, has_token_weights)
  OBVIOUS
<1>2. PICK a, n : a[0] = fresh /\ Scans(a, n, pl, bytes) /\ bytes \in Seq(Byte)
  BY <1>1, CursorScans
<1> DEFINE X == {a[k] : k \in 0 .. n + 1}
           V == {<<a[k], b>> : k \in 1 .. n, b \in Word}
           W == {p \in V : IsFirst(p[1].current, S, p[2])}
           M(x, call) == Moved[0][x][call]
<1>3. /\ n \in Nat /\ n = Len(pl) /\ n <= WordMax /\ DOMAIN pl = 1 .. n
      /\ \A k \in 0 .. n + 1 : /\ a[k] \in TermIterators(bytes) /\ a[k].kind = "term"
                               /\ a[k] \in DocIdSetIterator[0] /\ a[k] = TermAfter(a[0], k)
      /\ \A k \in 0 .. n : TermNext(a[k]) = a[k + 1] /\ a[k].remaining = n - k
      /\ \A k \in 1 .. n : /\ a[k].current = pl[k].doc /\ pl[k].doc \in 0 .. kNoMoreDocs - 1
                           /\ a[k].freq = pl[k].tf
      /\ a[0].current = kNoMoreDocs /\ a[n + 1].current = kNoMoreDocs
      /\ a[n + 1].remaining = 0 /\ TermNext(a[n + 1]) = a[n + 1]
  BY <1>2 DEF Scans
<1>4. /\ \A k \in 1 .. n : k \in 0 .. n + 1 /\ k \in 0 .. n /\ k \in Nat
      /\ 0 \in 0 .. n + 1 /\ n + 1 \in 0 .. n + 1 /\ 0 \in 0 .. n /\ n \in Nat
      /\ \A k \in 0 .. n : /\ k + 1 \in 1 .. n + 1 /\ k \in 0 .. n + 1 /\ k + 1 \in 0 .. n + 1
                         /\ k \in Nat
      /\ \A k \in 1 .. n + 1 : k \in 0 .. n + 1
  <2>1. n \in Nat
    BY <1>3
  <2>2. QED  BY <2>1
<1>5. S \in DocSet /\ S = {pl[k].doc : k \in 1 .. n}
  <2>1. S = {pl[k].doc : k \in 1 .. n}
    BY <1>3 DEF Lists
  <2>2. \A k \in 1 .. n : pl[k].doc \in 0 .. kNoMoreDocs - 1
    BY <1>3
  <2>3. QED  BY <2>1, <2>2 DEF DocSet
<1>6. \A d \in S : d \in Word /\ d \in Nat /\ d # kNoMoreDocs /\ d < kNoMoreDocs /\ d + 1 \in Word
  BY <1>5, DocsAreWords
<1>7. \A i, j \in 1 .. n : i < j => pl[i].doc < pl[j].doc
  <2>1. DOMAIN pl = 1 .. n
    BY <1>3
  <2>2. QED  BY <2>1, PostingFields
<1>8. \A k \in 1 .. n : /\ pl[k].doc \in S /\ pl[k].doc \in Nat /\ pl[k].doc # kNoMoreDocs
                         /\ pl[k].doc + 1 \in Word
  <2>1. \A k \in 1 .. n : pl[k].doc \in S
    BY <1>5
  <2>2. QED  BY <1>6, <2>1
<1>9. \A k \in 1 .. n : a[k].current = pl[k].doc /\ a[k].freq = pl[k].tf
  BY <1>3
<1>10. /\ \A k \in 0 .. n + 1 : a[k].kind = "term" /\ a[k] \in DocIdSetIterator[0]
       /\ \A k \in 0 .. n : TermNext(a[k]) = a[k + 1]
       /\ a[0].current = kNoMoreDocs /\ a[n + 1].current = kNoMoreDocs
       /\ TermNext(a[n + 1]) = a[n + 1]
  BY <1>3
<1>11. ASSUME NEW k \in 0 .. n + 1, NEW target \in Word
      PROVE  \E m \in 0 .. n + 1 : TermAdvance(a[k], target) = a[m] /\ a[m].current >= target
  <2>1. a[k] \in TermIterators(bytes) /\ a[k] = TermAfter(a[0], k)
        /\ a[0] \in TermIterators(bytes)
    BY <1>3, <1>4
  <2>2. target \in 0 .. kNoMoreDocs
    BY Numbers
  <2>3. CASE a[k].current >= target /\ TermAdvance(a[k], target) = a[k]
    BY <2>3
  <2>4. CASE \E m \in 1 .. a[k].remaining + 1 :
                 TermAdvance(a[k], target) = TermAfter(a[k], m) /\ TermAfter(a[k], m).current >= target
    <3>1. PICK m \in 1 .. a[k].remaining + 1 :
              TermAdvance(a[k], target) = TermAfter(a[k], m) /\ TermAfter(a[k], m).current >= target
      BY <2>4
    <3>2. CASE k = n + 1
      <4>1. m = 1 /\ m = 0 + 1 /\ 0 \in Nat
        BY <1>3, <3>1, <3>2
      <4>2. TermAfter(a[k], m) = TermNext(a[k])
        BY <1>2, <2>1, <4>1, TermAfterDef
      <4>3. QED  BY <1>3, <3>1, <3>2, <4>2
    <3>3. CASE k # n + 1
      <4>1. k \in 0 .. n
        BY <1>3, <3>3
      <4>2. a[k].remaining = n - k
        BY <1>3, <4>1
      <4>3. k \in Nat /\ m \in Nat /\ k + m \in 0 .. n + 1
        BY <1>3, <3>1, <4>1, <4>2
      <4>4. TermAfter(a[k], m) = TermAfter(a[0], k + m)
        BY <1>2, <2>1, <4>3, TermAfterAfter
      <4>5. TermAfter(a[k], m) = a[k + m]
        BY <1>3, <4>3, <4>4
      <4>6. QED  BY <3>1, <4>3, <4>5
    <3>4. QED  BY <3>2, <3>3
  <2>5. QED  BY <1>2, <2>1, <2>2, <2>3, <2>4, AdvanceType
<1>12. ASSUME NEW k \in 1 .. n, NEW b \in Word, IsFirst(pl[k].doc, S, b),
             NEW target \in Word, target >= b
      PROVE  \E m \in 1 .. n + 1 : /\ TermAdvance(a[k], target) = a[m]
                                   /\ IsFirst(a[m].current, S, target)
  <2> DEFINE From(i) == i \in 1 .. n /\ i >= k /\ pl[i].doc >= target
  <2>1. \/ TermAdvance(a[k], target) = a[n + 1] /\ \A i : ~From(i)
        \/ \E m : TermAdvance(a[k], target) = a[m] /\ From(m) /\ \A i : From(i) => m <= i
    <3>1. k \in 0 .. Len(pl) /\ target \in 0 .. kNoMoreDocs /\ n = Len(pl) /\ DOMAIN pl = 1 .. n
      BY <1>3, Numbers
    <3>2. \A k_ \in 0 .. n + 1 : a[k_] = TermAfter(fresh, k_)
      BY <1>2, <1>3
    <3>3. \/ TermAdvance(a[k], target) = TermAfter(fresh, n + 1) /\ \A i : ~From(i)
          \/ \E m : /\ TermAdvance(a[k], target) = TermAfter(fresh, m) /\ From(m)
                    /\ \A i : From(i) => m <= i
      <4>1. a[k] = TermAfter(fresh, k)
        BY <1>4, <3>2
      <4>2. k \in 0 .. Len(pl) /\ target \in 0 .. kNoMoreDocs
        BY <3>1
      <4>3. LET G(i) == i \in DOMAIN pl /\ i >= k /\ pl[i].doc >= target
                it == TermAdvance(TermAfter(fresh, k), target)
            IN  \/ it = TermAfter(fresh, Len(pl) + 1) /\ \A i : ~G(i)
                \/ \E m : it = TermAfter(fresh, m) /\ G(m) /\ \A i : G(i) => m <= i
        BY <1>1, <4>2, AdvanceIs
      <4>4. QED  BY <3>1, <4>1, <4>3
    <3>4. QED  BY <1>4, <3>2, <3>3
  <2>2. ASSUME NEW j \in 1 .. n, pl[j].doc >= target
        PROVE  From(j)
    <3>1. pl[j].doc \in S /\ pl[k].doc \in S
      BY <1>5
    <3>2. pl[j].doc \in Nat /\ pl[k].doc \in Nat /\ target \in Nat /\ b \in Nat
          /\ pl[k].doc # kNoMoreDocs
      BY <1>6, <3>1, Numbers
    <3>3. pl[k].doc <= pl[j].doc
      BY <1>12, <2>2, <3>1, <3>2 DEF IsFirst
    <3>4. ~(j < k)
      BY <1>7, <3>2, <3>3
    <3>5. QED  BY <2>2, <3>4
  <2>3. CASE TermAdvance(a[k], target) = a[n + 1] /\ \A i : ~From(i)
    <3>1. ASSUME NEW d \in S PROVE d < target
      <4>1. PICK j \in 1 .. n : d = pl[j].doc
        BY <1>5
      <4>2. d \in Nat /\ target \in Nat
        BY <1>6, Numbers
      <4>3. QED  BY <2>2, <2>3, <4>1, <4>2
    <3>2. IsFirst(a[n + 1].current, S, target) /\ n + 1 \in 1 .. n + 1
      BY <1>4, <1>10, <3>1 DEF IsFirst
    <3>3. QED  BY <2>3, <3>2
  <2>4. CASE \E m : TermAdvance(a[k], target) = a[m] /\ From(m) /\ \A i : From(i) => m <= i
    <3>1. PICK m : TermAdvance(a[k], target) = a[m] /\ From(m) /\ \A i : From(i) => m <= i
      BY <2>4
    <3>4. m \in 1 .. n /\ pl[m].doc >= target /\ pl[m].doc \in S
      BY <1>8, <3>1
    <3>5. ASSUME NEW d \in S, d >= target PROVE pl[m].doc <= d
      <4>1. PICK j \in 1 .. n : d = pl[j].doc
        BY <1>5
      <4>2. m <= j
        BY <2>2, <3>1, <3>5, <4>1
      <4>3. m = j \/ m < j
        BY <3>4, <4>2
      <4>4. pl[m].doc \in Nat /\ pl[j].doc \in Nat
        BY <1>8, <3>4
      <4>5. QED  BY <1>7, <3>4, <4>1, <4>3, <4>4
    <3>6. IsFirst(pl[m].doc, S, target)
      BY <3>4, <3>5 DEF IsFirst
    <3>7. a[m].current = pl[m].doc /\ m \in 1 .. n + 1
      BY <1>4, <1>9, <3>4
    <3>8. QED  BY <3>1, <3>6, <3>7
  <2>5. QED  BY <2>1, <2>3, <2>4
<1>13. ASSUME NEW k \in 0 .. n, NEW b \in Nat, (k = 0 /\ b = 0) \/ (k > 0 /\ b = pl[k].doc + 1)
      PROVE  IsFirst(a[k + 1].current, S, b)
  <2>1. CASE k < n
    <3>1. k + 1 \in 1 .. n /\ a[k + 1].current = pl[k + 1].doc /\ pl[k + 1].doc \in S
      <4>1. k + 1 \in 1 .. n
        BY <1>4, <2>1
      <4>2. QED  BY <1>8, <1>9, <4>1
    <3>2. pl[k + 1].doc >= b
      <4>1. pl[k + 1].doc \in Nat
        BY <1>6, <3>1
      <4>2. k > 0 => pl[k].doc \in Nat /\ pl[k].doc < pl[k + 1].doc
        <5>1. k > 0 => k \in 1 .. n /\ k < k + 1
          BY <1>4
        <5>2. QED  BY <1>7, <1>8, <3>1, <5>1
      <4>3. QED  BY <1>13, <4>1, <4>2
    <3>3. ASSUME NEW d \in S, d >= b PROVE pl[k + 1].doc <= d
      <4>1. PICK j \in 1 .. n : d = pl[j].doc
        BY <1>5
      <4>2. pl[j].doc \in Nat /\ pl[k + 1].doc \in Nat
        BY <1>8, <3>1
      <4>3. ~(j <= k)
        <5>1. ASSUME j <= k PROVE FALSE
          <6>1. k \in 1 .. n /\ pl[k].doc \in Nat /\ b = pl[k].doc + 1
            <7>1. k \in 1 .. n /\ k > 0
              BY <1>4, <5>1
            <7>2. QED  BY <1>13, <1>8, <7>1
          <6>2. j = k \/ pl[j].doc < pl[k].doc
            BY <1>7, <5>1, <6>1
          <6>3. QED  BY <3>3, <4>1, <4>2, <6>1, <6>2
        <5>2. QED  BY <5>1
      <4>4. j = k + 1 \/ k + 1 < j
        BY <4>3
      <4>5. QED  BY <1>7, <3>1, <4>1, <4>2, <4>4
    <3>4. QED  BY <3>1, <3>2, <3>3 DEF IsFirst
  <2>2. CASE k = n
    <3>1. ASSUME NEW d \in S PROVE d < b
      <4>1. PICK j \in 1 .. n : d = pl[j].doc
        BY <1>5
      <4>2. n \in 1 .. n /\ k > 0 /\ b = pl[n].doc + 1 /\ pl[n].doc \in Nat /\ pl[j].doc \in Nat
        <5>1. n \in 1 .. n /\ k > 0
          BY <1>4, <2>2
        <5>2. QED  BY <1>13, <1>8, <2>2, <5>1
      <4>3. j = n \/ pl[j].doc < pl[n].doc
        BY <1>7, <4>2
      <4>4. QED  BY <4>1, <4>2, <4>3
    <3>2. QED  BY <1>10, <2>2, <3>1 DEF IsFirst
  <2>3. QED  BY <1>4, <2>1, <2>2
<1>14. /\ \A k \in 0 .. n + 1 : a[k] \in X
       /\ \A k \in 1 .. n, b \in Word : IsFirst(pl[k].doc, S, b) => <<a[k], b>> \in W
  <2>1. ASSUME NEW k \in 1 .. n, NEW b \in Word, IsFirst(pl[k].doc, S, b)
        PROVE  <<a[k], b>> \in W
    <3>1. <<a[k], b>> \in V /\ a[k].current = pl[k].doc
      BY <1>9
    <3> HIDE DEF V
    <3>2. QED  BY <2>1, <3>1
  <2>2. \A k \in 0 .. n + 1 : a[k] \in X
    OBVIOUS
  <2> HIDE DEF X, W
  <2>3. QED  BY <2>1, <2>2
<1>15. \A x, b : <<x, b>> \in W =>
           /\ b \in Word /\ IsFirst(x.current, S, b)
           /\ \E k \in 1 .. n : x = a[k] /\ IsFirst(pl[k].doc, S, b)
  <2>1. ASSUME NEW x, NEW b, <<x, b>> \in W
        PROVE  /\ b \in Word /\ IsFirst(x.current, S, b)
               /\ \E k \in 1 .. n : x = a[k] /\ IsFirst(pl[k].doc, S, b)
    <3>1. <<x, b>> \in V /\ IsFirst(x.current, S, b)
      BY <2>1
    <3>2. PICK k \in 1 .. n : b \in Word /\ x = a[k]
      BY <3>1
    <3>3. a[k].current = pl[k].doc
      BY <1>9
    <3> HIDE DEF W, V
    <3>4. QED  BY <3>1, <3>2, <3>3
  <2> HIDE DEF W
  <2>2. QED  BY <2>1
<1>16. ASSUME NEW m \in 1 .. n + 1, NEW b \in Word, IsFirst(a[m].current, S, b)
       PROVE  IsAt(a[m], b, S, W)
  <2>1. CASE m \in 1 .. n
    <3>1. a[m].current = pl[m].doc
      BY <1>9, <2>1
    <3> HIDE DEF W
    <3>2. QED  BY <1>14, <1>16, <2>1, <3>1 DEF IsAt
  <2>2. CASE m = n + 1
    <3>1. a[m].current = kNoMoreDocs
      BY <1>10, <2>2
    <3> HIDE DEF W
    <3>2. QED  BY <1>16, <3>1 DEF IsAt
  <2>3. QED  BY <1>4, <2>1, <2>2
<1>17. ASSUME NEW x \in X, NEW call \in Calls
       PROVE  /\ x \in DocIdSetIterator[0]
              /\ M(x, call) = IF call = ToNext THEN TermNext(x) ELSE TermAdvance(x, call)
  <2>1. PICK k \in 0 .. n + 1 : x = a[k]
    OBVIOUS
  <2>3. x \in DocIdSetIterator[0] /\ x.kind = "term"
    BY <1>10, <2>1
  <2> HIDE DEF X
  <2>4. QED  BY <2>3, MovedIs, 0 \in Nat DEF LeafMoved
<1>18. ASSUME NEW k \in 0 .. n PROVE M(a[k], ToNext) = a[k + 1] /\ k + 1 \in 1 .. n + 1 /\ a[k + 1] \in X
  <2>1. k \in 0 .. n + 1 /\ k + 1 \in 0 .. n + 1 /\ k + 1 \in 1 .. n + 1
    BY <1>4
  <2>2. a[k] \in X /\ a[k + 1] \in X /\ a[k + 1] = TermNext(a[k])
    BY <1>10, <1>14, <2>1
  <2> HIDE DEF X, M
  <2>3. QED  BY <1>17, <2>1, <2>2, Numbers
<1>19. ASSUME NEW x \in X, NEW call \in Calls
       PROVE  M(x, call) \in X /\ (call \in Word => M(x, call).current >= call)
  <2>1. PICK k \in 0 .. n + 1 : x = a[k]
    OBVIOUS
  <2>2. CASE call \in Word
    <3>1. PICK m \in 0 .. n + 1 : TermAdvance(a[k], call) = a[m] /\ a[m].current >= call
      BY <1>11, <2>2
    <3> HIDE DEF X, M
    <3>2. QED  BY <1>14, <1>17, <2>1, <2>2, <3>1, Numbers
  <2>3. CASE call = ToNext
    <3>1. CASE k \in 0 .. n
      <4> HIDE DEF X, M
      <4>1. QED  BY <1>18, <2>1, <2>3, <3>1, Numbers
    <3>2. CASE k = n + 1
      <4>1. TermNext(x) = x
        BY <1>10, <2>1, <3>2
      <4> HIDE DEF X, M
      <4>2. QED  BY <1>17, <2>3, <4>1, Numbers
    <3>3. QED  BY <1>4, <3>1, <3>2
  <2>4. QED  BY <2>2, <2>3 DEF Calls
<1>20. ASSUME NEW x \in X PROVE x \in DocIdSetIterator[0] /\ x.current \in S \cup {kNoMoreDocs}
  <2>1. PICK k \in 0 .. n + 1 : x = a[k]
    OBVIOUS
  <2>2. k = 0 \/ k = n + 1 \/ k \in 1 .. n
    BY <1>4
  <2>3. a[k].current \in S \cup {kNoMoreDocs}
    BY <1>8, <1>9, <1>10, <2>2
  <2> HIDE DEF X
  <2>4. QED  BY <1>17, <2>1, <2>3, Numbers
<1>21. ASSUME NEW x \in X, NEW b \in Word, <<x, b>> \in W
       PROVE  /\ x.current # kNoMoreDocs /\ IsFirst(x.current, S, b) /\ Freq(x) = F[x.current]
              /\ \A t \in Word : t >= b => IsAt(M(x, t), t, S, W)
              /\ IsAt(M(x, ToNext), x.current + 1, S, W)
  <2>1. PICK k \in 1 .. n : x = a[k] /\ IsFirst(pl[k].doc, S, b)
    <3> HIDE DEF W, X
    <3>1. QED  BY <1>15, <1>21
  <2>2. x.current = pl[k].doc /\ pl[k].doc # kNoMoreDocs /\ x.kind = "term"
    BY <1>4, <1>8, <1>9, <1>10, <2>1
  <2>3. Freq(x) = F[x.current]
    <3>1. F[pl[k].doc] = pl[k].tf
      BY <1>3 DEF Lists
    <3>2. x.freq = pl[k].tf
      BY <1>9, <2>1
    <3>3. QED  BY <2>2, <3>1, <3>2 DEF Freq
  <2>4. ASSUME NEW t \in Word, t >= b PROVE IsAt(M(x, t), t, S, W)
    <3>1. PICK m \in 1 .. n + 1 : TermAdvance(a[k], t) = a[m] /\ IsFirst(a[m].current, S, t)
      BY <1>12, <2>1, <2>4
    <3> HIDE DEF X, M, W
    <3>2. QED  BY <1>16, <1>17, <2>1, <3>1, Numbers
  <2>5. IsAt(M(x, ToNext), x.current + 1, S, W)
    <3>1. pl[k].doc \in S /\ k \in 0 .. n /\ k > 0
      BY <1>4, <1>8
    <3>2. pl[k].doc + 1 \in Word /\ pl[k].doc + 1 \in Nat
      BY <1>6, <3>1
    <3>3. IsFirst(a[k + 1].current, S, pl[k].doc + 1) /\ k + 1 \in 1 .. n + 1
      BY <1>4, <1>13, <3>1, <3>2
    <3>4. M(a[k], ToNext) = a[k + 1]
      BY <1>18, <3>1
    <3> HIDE DEF X, M, W
    <3>5. QED  BY <1>16, <2>1, <2>2, <3>2, <3>3, <3>4
  <2>6. IsFirst(x.current, S, b)
    BY <2>1, <2>2
  <2> HIDE DEF W, X, M
  <2>7. QED  BY <2>2, <2>3, <2>4, <2>5, <2>6
<1>22. Walks(Moved[0], DocIdSetIterator[0], S, F, X, W)
  <2> HIDE DEF X, W
  <2>1. QED  BY <1>19, <1>20, <1>21, Numbers DEF Walks
<1>23. fresh \in X /\ fresh.current = kNoMoreDocs
  <2>1. 0 \in 0 .. n + 1
    BY <1>4
  <2> HIDE DEF X
  <2>2. QED  BY <1>2, <1>14, <1>10, <2>1
<1>24. IsAt(M(fresh, ToNext), 0, S, W)
  <2>1. 0 \in 0 .. n
    BY <1>4
  <2>2. IsFirst(a[0 + 1].current, S, 0) /\ 0 + 1 \in 1 .. n + 1
    BY <1>4, <1>13, <2>1
  <2>3. M(fresh, ToNext) = a[0 + 1]
    <3>1. M(a[0], ToNext) = a[0 + 1]
      BY <1>18, <2>1
    <3> HIDE DEF M
    <3>2. QED  BY <1>2, <3>1
  <2> HIDE DEF M, W
  <2>4. QED  BY <1>16, <2>2, <2>3, Numbers
<1> HIDE DEF X, W
<1>25. QED  BY <1>1, <1>5, <1>22, <1>23, <1>24 DEF Keeps

-----------------------------------------------------------------------------
(* Sums, and the order of children.                                        *)

Pairs(f) == UNION {{i} \X (1 .. f[i]) : i \in DOMAIN f}

\* The pairs that a sum counts.
LEMMA PairsAre ==
    ASSUME NEW I, IsFiniteSet(I), NEW f \in [I -> Nat]
    PROVE  /\ IsFiniteSet(Pairs(f)) /\ Total(f) = Cardinality(Pairs(f))
           /\ \A p : p \in Pairs(f) <=> \E i \in I : \E k \in 1 .. f[i] : p = <<i, k>>
<1> DEFINE T == {{i} \X (1 .. f[i]) : i \in I}
           h == [i \in I |-> {i} \X (1 .. f[i])]
<1>1. Pairs(f) = UNION T /\ Total(f) = Cardinality(Pairs(f))
  BY DEF Pairs, Total
<1>2. IsFiniteSet(T)
  <2>1. h \in Surjection(I, T)
    BY DEF Surjection
  <2> HIDE DEF h, T
  <2>2. QED  BY <2>1, FS_Surjection
<1>3. ASSUME NEW U \in T PROVE IsFiniteSet(U)
  <2>1. PICK i \in I : U = {i} \X (1 .. f[i])
    OBVIOUS
  <2>2. f[i] \in Nat /\ IsFiniteSet(1 .. f[i])
    BY FS_Interval
  <2>3. QED  BY <2>1, <2>2, FS_Product, FS_Singleton
<1>4. ASSUME NEW p PROVE p \in UNION T <=> \E i \in I : \E k \in 1 .. f[i] : p = <<i, k>>
  OBVIOUS
<1>5. IsFiniteSet(UNION T)
  <2> HIDE DEF T
  <2>1. QED  BY <1>2, <1>3, FS_UNION
<1> HIDE DEF T
<1>6. QED  BY <1>1, <1>4, <1>5

\* A sum is a number, and one as a uint32; the sum of one uint32 is that.
LEMMA TotalIs ==
    ASSUME NEW I, IsFiniteSet(I), NEW f \in [I -> Nat]
    PROVE  /\ Total(f) \in Nat /\ WordTotal(f) \in Word
           /\ \A i : I = {i} => Total(f) = f[i] /\ (f[i] \in Word => WordTotal(f) = f[i])
<1>1. Total(f) \in Nat
  BY PairsAre, FS_CardinalityType
<1>2. WordTotal(f) \in Word
  <2>1. PICK w \in Nat : w = WordMax
    BY Numbers
  <2>2. PICK t \in Nat : t = Total(f)
    BY <1>1
  <2>3. t % (w + 1) \in 0 .. w
    OBVIOUS
  <2>4. QED  BY <2>1, <2>2, <2>3 DEF WordTotal, Word
<1>3. ASSUME NEW i, I = {i}
      PROVE  Total(f) = f[i] /\ (f[i] \in Word => WordTotal(f) = f[i])
  <2>1. DOMAIN f = {i} /\ f[i] \in Nat
    BY <1>3
  <2>2. {{j} \X (1 .. f[j]) : j \in DOMAIN f} = {{i} \X (1 .. f[i])}
    BY <2>1
  <2>3. UNION {{i} \X (1 .. f[i])} = {i} \X (1 .. f[i])
    OBVIOUS
  <2>4. Total(f) = Cardinality({i} \X (1 .. f[i]))
    BY <2>2, <2>3 DEF Total
  <2>5. IsFiniteSet(1 .. f[i]) /\ Cardinality(1 .. f[i]) = f[i]
    BY <2>1, FS_Interval
  <2>6. Cardinality({i} \X (1 .. f[i])) = Cardinality({i}) * Cardinality(1 .. f[i])
    BY <2>5, FS_Product, FS_Singleton
  <2>7. Total(f) = f[i]
    BY <2>1, <2>4, <2>5, <2>6, FS_Singleton
  <2>8. f[i] \in Word => f[i] % (WordMax + 1) = f[i]
    <3>1. PICK w \in Nat : w = WordMax
      BY Numbers
    <3>2. PICK v \in Nat : v = f[i]
      BY <2>1
    <3>3. v <= w => v % (w + 1) = v
      OBVIOUS
    <3>4. QED  BY <3>1, <3>2, <3>3 DEF Word
  <2>9. QED  BY <2>7, <2>8 DEF WordTotal
<1>4. QED  BY <1>1, <1>2, <1>3

\* A sum does not depend on the order of the numbers.
LEMMA TotalInOrder ==
    ASSUME NEW I, IsFiniteSet(I), NEW J, NEW f \in [I -> Nat], NEW g \in [J -> Nat],
           NEW p \in [J -> I], \A i \in I : \E j \in J : p[j] = i,
           \A j, k \in J : p[j] = p[k] => j = k, \A j \in J : g[j] = f[p[j]]
    PROVE  Total(g) = Total(f) /\ WordTotal(g) = WordTotal(f)
<1>1. IsFiniteSet(J)
  <2>1. p \in Injection(J, I)
    BY DEF Injection, IsInjective
  <2>2. QED  BY <2>1, FS_Injection
<1>2. /\ IsFiniteSet(Pairs(f)) /\ Total(f) = Cardinality(Pairs(f))
      /\ \A q : q \in Pairs(f) <=> \E i \in I : \E k \in 1 .. f[i] : q = <<i, k>>
  BY PairsAre
<1>3. /\ IsFiniteSet(Pairs(g)) /\ Total(g) = Cardinality(Pairs(g))
      /\ \A q : q \in Pairs(g) <=> \E j \in J : \E k \in 1 .. g[j] : q = <<j, k>>
  BY <1>1, PairsAre
<1> DEFINE h == [q \in Pairs(g) |-> <<p[q[1]], q[2]>>]
<1>4. ASSUME NEW j \in J, NEW k \in 1 .. g[j]
      PROVE  /\ <<j, k>> \in Pairs(g) /\ h[<<j, k>>] = <<p[j], k>> /\ <<p[j], k>> \in Pairs(f)
  <2>1. <<j, k>> \in Pairs(g)
    BY <1>3
  <2>2. p[j] \in I /\ k \in 1 .. f[p[j]]
    OBVIOUS
  <2>3. QED  BY <1>2, <2>1, <2>2
<1>5. h \in Injection(Pairs(g), Pairs(f))
  <2>1. \A q \in Pairs(g) : h[q] \in Pairs(f)
    <3>1. ASSUME NEW q \in Pairs(g) PROVE h[q] \in Pairs(f)
      <4>1. PICK j \in J, k \in Nat : k \in 1 .. g[j] /\ q = <<j, k>>
        BY <1>3
      <4>2. k \in 1 .. g[j]
        BY <4>1
      <4> HIDE DEF h
      <4>3. h[<<j, k>>] = <<p[j], k>> /\ <<p[j], k>> \in Pairs(f)
        BY <1>4, <4>2
      <4>4. QED  BY <4>1, <4>3
    <3>2. QED  BY <3>1
  <2>2. ASSUME NEW q \in Pairs(g), NEW r \in Pairs(g), h[q] = h[r] PROVE q = r
    <3>1. PICK j \in J, k \in Nat : k \in 1 .. g[j] /\ q = <<j, k>>
      BY <1>3
    <3>2. PICK i \in J, l \in Nat : l \in 1 .. g[i] /\ r = <<i, l>>
      BY <1>3
    <3>3. h[q] = <<p[j], k>> /\ h[r] = <<p[i], l>>
      BY <1>4, <3>1, <3>2
    <3>4. p[j] = p[i] /\ k = l
      BY <2>2, <3>3
    <3>5. j = i
      BY <3>4
    <3>6. QED  BY <3>1, <3>2, <3>4, <3>5
  <2>3. h \in [Pairs(g) -> Pairs(f)]
    BY <2>1
  <2> HIDE DEF h
  <2>4. QED  BY <2>2, <2>3 DEF Injection, IsInjective
<1>6. h \in Surjection(Pairs(g), Pairs(f))
  <2>1. ASSUME NEW q \in Pairs(f) PROVE \E r \in Pairs(g) : h[r] = q
    <3>1. PICK i \in I, k \in Nat : k \in 1 .. f[i] /\ q = <<i, k>>
      BY <1>2
    <3>2. PICK j \in J : p[j] = i
      OBVIOUS
    <3>3. k \in 1 .. g[j]
      BY <3>1, <3>2
    <3> HIDE DEF h
    <3>4. QED  BY <1>4, <3>1, <3>2, <3>3
  <2>2. h \in [Pairs(g) -> Pairs(f)]
    BY <1>5 DEF Injection
  <2> HIDE DEF h
  <2>3. QED  BY <2>1, <2>2 DEF Surjection
<1> HIDE DEF h
<1>7. Cardinality(Pairs(g)) = Cardinality(Pairs(f))
  BY <1>2, <1>3, <1>5, <1>6, FS_Surjection
<1>8. QED  BY <1>2, <1>3, <1>7 DEF WordTotal

\* p is a way to take every one of m, once.
Permutes(p, m) ==
    /\ p \in [1 .. m -> 1 .. m]
    /\ \A i \in 1 .. m : \E k \in 1 .. m : p[k] = i
    /\ \A j, k \in 1 .. m : p[j] = p[k] => j = k

\* Every child has its place.
LEMMA InOrderIs ==
    ASSUME NEW n \in Nat, NEW m \in Nat \ {0}, NEW children \in [1 .. m -> DocIdSetIterator[n]]
    PROVE  \E p : Permutes(p, m) /\ InOrder(children) = [k \in 1 .. m |-> children[p[k]]]
<1> DEFINE cost == [i \in 1 .. m |-> Cost(children[i])]
           Before(j, i) == cost[j] < cost[i] \/ (cost[j] = cost[i] /\ j <= i)
           B(i) == {j \in 1 .. m : Before(j, i)}
           place == [i \in 1 .. m |-> Cardinality(B(i))]
           p == [k \in 1 .. m |-> CHOOSE i \in 1 .. m : place[i] = k]
<1>1. cost \in [1 .. m -> Nat]
  BY HeightIs
<1>2. \A i \in 1 .. m : place[i] = Place(children, i)
  <2>1. ASSUME NEW i \in 1 .. m PROVE place[i] = Place(children, i)
    <3>1. DOMAIN children = 1 .. m /\ \A j \in 1 .. m : cost[j] = Cost(children[j])
      OBVIOUS
    <3>2. Place(children, i) =
              Cardinality({j \in 1 .. m : \/ Cost(children[j]) < Cost(children[i])
                                          \/ Cost(children[j]) = Cost(children[i]) /\ j <= i})
      BY <3>1 DEF Place
    <3> HIDE DEF cost
    <3>3. {j \in 1 .. m : \/ Cost(children[j]) < Cost(children[i])
                          \/ Cost(children[j]) = Cost(children[i]) /\ j <= i} = B(i)
      BY <3>1
    <3>4. QED  BY <3>2, <3>3
  <2>2. QED  BY <2>1
<1> HIDE DEF cost
<1>3. ASSUME NEW i \in 1 .. m
      PROVE  /\ IsFiniteSet(B(i)) /\ i \in B(i) /\ place[i] \in 1 .. m
  <2>1. IsFiniteSet(1 .. m) /\ Cardinality(1 .. m) = m
    BY FS_Interval
  <2>2. B(i) \in SUBSET (1 .. m) /\ i \in B(i)
    BY <1>1
  <2> HIDE DEF B
  <2>3. IsFiniteSet(B(i)) /\ Cardinality(B(i)) <= m
    BY <2>1, <2>2, FS_Subset
  <2>4. Cardinality(B(i)) \in Nat /\ Cardinality(B(i)) # 0
    BY <2>2, <2>3, FS_CardinalityType, FS_EmptySet
  <2>5. place[i] = Cardinality(B(i))
    OBVIOUS
  <2>6. QED  BY <2>2, <2>3, <2>4, <2>5
<1>4. ASSUME NEW i \in 1 .. m, NEW j \in 1 .. m, i # j
      PROVE  place[i] # place[j]
  <2>1. ASSUME NEW x \in 1 .. m, NEW y \in 1 .. m, x # y,
               Before(x, y)
        PROVE  place[x] # place[y]
    <3>1. cost[x] \in Nat /\ cost[y] \in Nat /\ \A z \in 1 .. m : cost[z] \in Nat
      BY <1>1
    <3>2. B(x) \subseteq B(y) /\ y \in B(y) /\ y \notin B(x)
      BY <2>1, <3>1
    <3>3. place[x] = Cardinality(B(x)) /\ place[y] = Cardinality(B(y))
      OBVIOUS
    <3> HIDE DEF B, place
    <3>4. IsFiniteSet(B(y))
      BY <1>3
    <3>5. QED  BY <3>2, <3>3, <3>4, FS_Subset
  <2>2. cost[i] \in Nat /\ cost[j] \in Nat
    BY <1>1
  <2>3. Before(i, j) \/ Before(j, i)
    BY <2>2
  <2> HIDE DEF place
  <2>4. QED  BY <1>4, <2>1, <2>3
<1>5. \A k \in 1 .. m : \E i \in 1 .. m : place[i] = k
  <2>1. place \in [1 .. m -> 1 .. m] /\ DOMAIN place = 1 .. m
    BY <1>3
  <2>2. IsFiniteSet(1 .. m) /\ Cardinality(1 .. m) = m
    BY FS_Interval
  <2> HIDE DEF place
  <2>3. \A i, j \in DOMAIN place : i < j => place[i] # place[j]
    BY <1>4, <2>1
  <2> HIDE DEF B
  <2>4. PICK S : S = 1 .. m
    OBVIOUS
  <2>5. IsFiniteSet(S) /\ place \in [1 .. Cardinality(S) -> S]
    BY <2>1, <2>2, <2>4
  <2>6. \A x \in S : \E i \in DOMAIN place : place[i] = x
    BY <2>3, <2>5, FillsAll
  <2>7. QED  BY <2>1, <2>4, <2>6
<1> HIDE DEF place
<1>6. \A k \in 1 .. m : p[k] \in 1 .. m /\ place[p[k]] = k
  BY <1>5
<1>7. \A i \in 1 .. m : place[i] \in 1 .. m /\ p[place[i]] = i
  <2>1. ASSUME NEW i \in 1 .. m PROVE place[i] \in 1 .. m /\ p[place[i]] = i
    <3>1. place[i] \in 1 .. m
      BY <1>3
    <3> HIDE DEF p
    <3>2. p[place[i]] \in 1 .. m /\ place[p[place[i]]] = place[i]
      BY <1>6, <3>1
    <3>3. QED  BY <1>4, <3>1, <3>2
  <2> HIDE DEF p
  <2>2. QED  BY <2>1
<1>8. Permutes(p, m)
  <2>1. p \in [1 .. m -> 1 .. m]
    BY <1>6
  <2> HIDE DEF p
  <2>2. \A j, k \in 1 .. m : p[j] = p[k] => j = k
    BY <1>6
  <2>3. QED  BY <1>7, <2>1, <2>2 DEF Permutes
<1>9. InOrder(children) = [k \in 1 .. m |-> children[p[k]]]
  <2>1. DOMAIN children = 1 .. m
    OBVIOUS
  <2>2. \A k \in 1 .. m : (CHOOSE i \in 1 .. m : Place(children, i) = k) = p[k]
    BY <1>2
  <2>3. InOrder(children) =
            [k \in 1 .. m |-> children[CHOOSE i \in 1 .. m : Place(children, i) = k]]
    BY <2>1 DEF InOrder
  <2> HIDE DEF p
  <2>4. QED  BY <2>2, <2>3
<1> HIDE DEF p
<1>10. QED  BY <1>8, <1>9

-----------------------------------------------------------------------------
(* Iterators over others.                                                  *)

\* The first document from a bound on.
LEMMA FirstIs ==
    ASSUME NEW S \in DocSet, NEW b \in Nat, NEW x, IsFirst(x, S, b)
    PROVE  /\ x \in Word /\ x \in Nat /\ x <= kNoMoreDocs
           /\ \A d \in S : d >= b => x <= d
           /\ x # kNoMoreDocs => x \in S /\ x >= b /\ x + 1 \in Word
           /\ x = kNoMoreDocs => \A d \in S : d < b
BY Numbers, DocsAreWords DEF IsFirst

\* y came to where it is by a bound up to c.
Reached(y, c, S, V) == \E b \in Word : b <= c /\ IsAt(y, b, S, V)

\* What a child does from where it is: Advance to any target from c on, and Next.
LEMMA Reach ==
    ASSUME NEW move, NEW K, NEW S \in DocSet, NEW F, NEW X, NEW V, Walks(move, K, S, F, X, V),
           NEW x \in X, NEW c \in Word, Reached(x, c, S, V)
    PROVE  /\ \A t \in Word : t >= c => /\ move[x][t] \in X /\ IsAt(move[x][t], t, S, V)
                                        /\ move[x][t].current >= t
           /\ x.current # kNoMoreDocs =>
                  /\ x.current \in S /\ Freq(x) = F[x.current]
                  /\ move[x][ToNext] \in X /\ IsAt(move[x][ToNext], x.current + 1, S, V)
           /\ \A d \in S : d >= c => x.current <= d
           /\ x.current >= c => IsFirst(x.current, S, c)
<1>1. PICK b \in Word : b <= c /\ IsAt(x, b, S, V)
  BY DEF Reached
<1>2. b \in Nat /\ c \in Nat /\ b <= c /\ \A d \in S : d \in Nat
  BY <1>1, Numbers, DocsAreWords
<1>3. ASSUME NEW t \in Word, t >= c
      PROVE  move[x][t] \in X /\ IsAt(move[x][t], t, S, V) /\ move[x][t].current >= t
  <2>1. b <= t
    BY <1>2, <1>3, Numbers
  <2>2. QED  BY <1>1, <2>1, Onward
<1>4. ASSUME x.current # kNoMoreDocs
      PROVE  /\ x.current \in S /\ Freq(x) = F[x.current]
             /\ move[x][ToNext] \in X /\ IsAt(move[x][ToNext], x.current + 1, S, V)
  <2>1. <<x, b>> \in V
    BY <1>1, <1>4 DEF IsAt
  <2>2. x.current \in S
    BY <1>4 DEF Walks
  <2>3. QED  BY <1>4, <2>1, <2>2, Numbers DEF Walks
<1>5. IsFirst(x.current, S, b)
  BY <1>1 DEF IsAt
<1>6. \A d \in S : d >= c => x.current <= d
  BY <1>2, <1>5, FirstIs
<1>7. x.current >= c => IsFirst(x.current, S, c)
  <2>1. CASE x.current = kNoMoreDocs
    <3>1. \A d \in S : d < b
      BY <1>2, <1>5, <2>1, FirstIs
    <3>2. \A d \in S : d < c
      BY <1>2, <3>1
    <3>3. QED  BY <2>1, <3>2 DEF IsFirst
  <2>2. CASE x.current # kNoMoreDocs
    BY <1>4, <1>6, <2>2 DEF IsFirst
  <2>3. QED  BY <2>1, <2>2
<1>8. QED  BY <1>3, <1>4, <1>6, <1>7

\* m children with their documents, frequencies and what they keep to.
Family(n, m, Ss, Fs, Xs, Vs) ==
    /\ n \in Nat /\ m \in Nat /\ m > 1
    /\ \A i \in 1 .. m : /\ Ss[i] \in DocSet
                         /\ Walks(Moved[n], DocIdSetIterator[n], Ss[i], Fs[i], Xs[i], Vs[i])

\* The children stand where some calls have brought them.
Kids(n, m, Xs, kids) == kids \in [1 .. m -> DocIdSetIterator[n]] /\ \A i \in 1 .. m : kids[i] \in Xs[i]

NodesOver(kind, n, m, S, Xs) ==
    {x \in Nodes(n + 1, DocIdSetIterator[n]) :
        x.kind = kind /\ Kids(n, m, Xs, x.kids) /\ x.current \in S \cup {kNoMoreDocs}}

\* What each child of a tree keeps to.
LEMMA KidsAre ==
    ASSUME NEW n, NEW m, NEW Ss, NEW Fs, NEW Xs, NEW Vs, Family(n, m, Ss, Fs, Xs, Vs),
           NEW kids, Kids(n, m, Xs, kids), NEW i \in 1 .. m
    PROVE  /\ DOMAIN kids = 1 .. m /\ kids \in Seq(DocIdSetIterator[n]) /\ Len(kids) = m
           /\ kids[i] \in Xs[i] /\ kids[i] \in DocIdSetIterator[n] /\ Ss[i] \in DocSet
           /\ Walks(Moved[n], DocIdSetIterator[n], Ss[i], Fs[i], Xs[i], Vs[i])
           /\ kids[i].current \in Ss[i] \cup {kNoMoreDocs}
           /\ kids[i].current \in Word /\ kids[i].current \in Nat /\ Freq(kids[i]) \in Nat
           /\ kids[i].current <= kNoMoreDocs
           /\ \A call \in Calls : Moved[n][kids[i]][call] \in Xs[i]
           /\ \A t \in Word : Moved[n][kids[i]][t].current >= t
           /\ Xs[i] \subseteq DocIdSetIterator[n]
<1>1. /\ DOMAIN kids = 1 .. m /\ kids[i] \in Xs[i] /\ kids[i] \in DocIdSetIterator[n]
      /\ kids \in [1 .. m -> DocIdSetIterator[n]] /\ m \in Nat /\ n \in Nat
  BY DEF Kids, Family
<1>2. Ss[i] \in DocSet /\ Walks(Moved[n], DocIdSetIterator[n], Ss[i], Fs[i], Xs[i], Vs[i])
  BY DEF Family
<1>3. kids \in Seq(DocIdSetIterator[n]) /\ Len(kids) = m
  BY <1>1
<1>4. kids[i].current \in Word /\ Freq(kids[i]) \in Word
  BY <1>1, HeightIs
<1>5. kids[i].current \in Nat /\ kids[i].current <= kNoMoreDocs /\ Freq(kids[i]) \in Nat
  BY <1>4, Numbers
<1>6. QED  BY <1>1, <1>2, <1>3, <1>4, <1>5 DEF Walks

\* The sum of the frequencies of some children.
FreqSum(kids, here) == WordTotal([i \in here |-> Freq(kids[i])])

\* The fields of an iterator over children.
LEMMA OverIs ==
    ASSUME NEW n, NEW m, NEW Ss, NEW Fs, NEW Xs, NEW Vs, Family(n, m, Ss, Fs, Xs, Vs),
           NEW S \in DocSet, NEW kind, NEW x
    PROVE  x \in NodesOver(kind, n, m, S, Xs) <=>
               /\ x \in [kind : {"and", "or"}, height : {n + 1}, cost : Nat,
                         kids : Seq(DocIdSetIterator[n]), current : Word, freq : Word]
               /\ x.kind = kind /\ Kids(n, m, Xs, x.kids) /\ x.current \in S \cup {kNoMoreDocs}
<1>1. ASSUME Kids(n, m, Xs, x.kids) PROVE Len(x.kids) > 1
  <2>1. 1 \in 1 .. m /\ m > 1 /\ m \in Nat
    BY DEF Family
  <2>2. Len(x.kids) = m
    BY <1>1, <2>1, KidsAre
  <2>3. QED  BY <2>1, <2>2
<1>2. QED  BY <1>1 DEF NodesOver, Nodes

\* An iterator that stands at a document with the sum of its children there.
LEMMA StandingIs ==
    ASSUME NEW n, NEW m, NEW Ss, NEW Fs, NEW Xs, NEW Vs, Family(n, m, Ss, Fs, Xs, Vs),
           NEW kids, Kids(n, m, Xs, kids), NEW S \in DocSet, NEW kind,
           NEW x \in NodesOver(kind, n, m, S, Xs), NEW doc \in S \cup {kNoMoreDocs},
           NEW here \in SUBSET (1 .. m), NEW y, y = Standing(x, kids, doc, here)
    PROVE  /\ y \in NodesOver(kind, n, m, S, Xs) /\ y.kids = kids /\ y.current = doc
           /\ Freq(y) = FreqSum(kids, here)
<1> DEFINE N == [kind : {"and", "or"}, height : {n + 1}, cost : Nat,
                 kids : Seq(DocIdSetIterator[n]), current : Word, freq : Word]
           f == [i \in here |-> Freq(kids[i])]
<1>1. x \in N /\ x.kind = kind /\ kind \in {"and", "or"}
  BY OverIs
<1>2. kids \in Seq(DocIdSetIterator[n])
  <2>1. 1 \in 1 .. m
    BY DEF Family
  <2>2. QED  BY <2>1, KidsAre
<1>3. WordTotal(f) \in Word /\ FreqSum(kids, here) = WordTotal(f)
  <2>1. IsFiniteSet(here)
    <3>1. m \in Nat
      BY DEF Family
    <3>2. IsFiniteSet(1 .. m)
      BY <3>1, FS_Interval
    <3>3. QED  BY <3>2, FS_Subset
  <2>2. f \in [here -> Nat]
    BY KidsAre
  <2>3. FreqSum(kids, here) = WordTotal(f)
    BY DEF FreqSum
  <2> HIDE DEF f
  <2>4. QED  BY <2>1, <2>2, <2>3, TotalIs
<1>4. doc \in Word
  BY DocsAreWords, Numbers
<1>5. y = [x EXCEPT !.kids = kids, !.current = doc, !.freq = WordTotal(f)]
  BY DEF Standing
<1> HIDE DEF f
<1>6. y \in N /\ y.kind = kind /\ y.kids = kids /\ y.current = doc /\ y.freq = WordTotal(f)
  BY <1>1, <1>2, <1>3, <1>4, <1>5
<1>7. y \in NodesOver(kind, n, m, S, Xs)
  BY <1>6, OverIs
<1>8. Freq(y) = y.freq
  BY <1>1, <1>6 DEF Freq
<1>9. QED  BY <1>3, <1>6, <1>7, <1>8

\* One that only its children have changed of, and one that has ended.
LEMMA Replaced ==
    ASSUME NEW n, NEW m, NEW Ss, NEW Fs, NEW Xs, NEW Vs, Family(n, m, Ss, Fs, Xs, Vs),
           NEW kids, Kids(n, m, Xs, kids), NEW S \in DocSet, NEW kind,
           NEW x \in NodesOver(kind, n, m, S, Xs), NEW y, y = [x EXCEPT !.kids = kids]
    PROVE  y \in NodesOver(kind, n, m, S, Xs) /\ y.kids = kids /\ y.current = x.current
<1>1. /\ x \in [kind : {"and", "or"}, height : {n + 1}, cost : Nat,
                kids : Seq(DocIdSetIterator[n]), current : Word, freq : Word]
      /\ x.kind = kind /\ x.current \in S \cup {kNoMoreDocs}
  BY OverIs
<1>2. kids \in Seq(DocIdSetIterator[n])
  <2>1. 1 \in 1 .. m
    BY DEF Family
  <2>2. QED  BY <2>1, KidsAre
<1>3. y.kids = kids /\ y.current = x.current /\ y.kind = kind
      /\ y \in [kind : {"and", "or"}, height : {n + 1}, cost : Nat,
                kids : Seq(DocIdSetIterator[n]), current : Word, freq : Word]
  BY <1>1, <1>2
<1>4. QED  BY <1>1, <1>3, OverIs

\* A tree that has ended.
LEMMA EndedIs ==
    ASSUME NEW n, NEW m, NEW Ss, NEW Fs, NEW Xs, NEW Vs, Family(n, m, Ss, Fs, Xs, Vs),
           NEW S \in DocSet, NEW kind,
           NEW x \in NodesOver(kind, n, m, S, Xs), NEW y, y = Ended(x)
    PROVE  y \in NodesOver(kind, n, m, S, Xs) /\ y.kids = x.kids /\ y.current = kNoMoreDocs
<1>1. /\ x \in [kind : {"and", "or"}, height : {n + 1}, cost : Nat,
                kids : Seq(DocIdSetIterator[n]), current : Word, freq : Word]
      /\ x.kind = kind /\ Kids(n, m, Xs, x.kids)
  BY OverIs
<1>2. y.kids = x.kids /\ y.current = kNoMoreDocs /\ y.kind = kind
      /\ y \in [kind : {"and", "or"}, height : {n + 1}, cost : Nat,
                kids : Seq(DocIdSetIterator[n]), current : Word, freq : Word]
  BY <1>1, Numbers DEF Ended
<1>3. QED  BY <1>1, <1>2, OverIs

\* The documents that any of the children walks over, and their frequencies: of
\* the children that have the document.
AnyOf(m, Ss, S) == S \in DocSet /\ \A d : d \in S <=> \E i \in 1 .. m : d \in Ss[i]
SumsUp(m, Ss, Fs, S, F) ==
    \A d \in S : F[d] = WordTotal([i \in {k \in 1 .. m : d \in Ss[k]} |-> Fs[i][d]])

\* The least document of the children, and the sum of those that are there: the
\* first from the bound on, when no child is behind it.
LEMMA AtLeastIs ==
    ASSUME NEW n, NEW m, NEW Ss, NEW Fs, NEW Xs, NEW Vs, Family(n, m, Ss, Fs, Xs, Vs),
           NEW S, NEW F, AnyOf(m, Ss, S), SumsUp(m, Ss, Fs, S, F),
           NEW kids, Kids(n, m, Xs, kids), NEW x \in NodesOver("or", n, m, S, Xs),
           NEW bound \in Word, NEW y, y = AtLeast(x, kids, bound)
    PROVE  /\ y \in NodesOver("or", n, m, S, Xs) /\ y.kids = kids /\ y.current >= bound
           /\ (\A i \in 1 .. m : Reached(kids[i], bound, Ss[i], Vs[i]) /\ kids[i].current >= bound) =>
                  IsFirst(y.current, S, bound) /\ (y.current # kNoMoreDocs => Freq(y) = F[y.current])
<1> DEFINE from == {kids[i].current : i \in 1 .. m} \cap (bound .. kNoMoreDocs - 1)
           best == Least(kids, bound)
           here == {i \in 1 .. m : kids[i].current = best /\ best # kNoMoreDocs}
<1>1. /\ DOMAIN kids = 1 .. m /\ bound \in Nat /\ bound <= kNoMoreDocs /\ kNoMoreDocs \in Nat
      /\ S \in DocSet /\ m \in Nat /\ m > 1
      /\ \A i \in 1 .. m : /\ kids[i].current \in Nat /\ kids[i].current <= kNoMoreDocs
                           /\ kids[i].current \in Ss[i] \cup {kNoMoreDocs}
  <2>1. S \in DocSet /\ m \in Nat /\ m > 1 /\ 1 \in 1 .. m
    BY DEF AnyOf, Family
  <2>2. bound \in Nat /\ bound <= kNoMoreDocs /\ kNoMoreDocs \in Nat
    BY Numbers
  <2>3. DOMAIN kids = 1 .. m
    BY <2>1, KidsAre
  <2>4. \A i \in 1 .. m : /\ kids[i].current \in Nat /\ kids[i].current <= kNoMoreDocs
                           /\ kids[i].current \in Ss[i] \cup {kNoMoreDocs}
    BY KidsAre
  <2>5. QED  BY <2>1, <2>2, <2>3, <2>4
<1>2. best = IF from = {} THEN kNoMoreDocs ELSE Min(from)
  BY <1>1 DEF Least
<1>3. \A c : c \in from <=> /\ \E i \in 1 .. m : c = kids[i].current
                            /\ c \in Nat /\ c >= bound /\ c < kNoMoreDocs
  BY <1>1
<1>4. /\ best \in Nat /\ best >= bound /\ best \in S \cup {kNoMoreDocs}
      /\ \A i \in 1 .. m : kids[i].current >= bound => best <= kids[i].current
      /\ best # kNoMoreDocs => \E i \in 1 .. m : best = kids[i].current
  <2> HIDE DEF from, best
  <2>1. CASE from = {}
    <3>1. best = kNoMoreDocs
      BY <1>2, <2>1
    <3>2. \A i \in 1 .. m : kids[i].current >= bound => kids[i].current = kNoMoreDocs
      BY <1>1, <1>3, <2>1
    <3>3. QED  BY <1>1, <3>1, <3>2
  <2>2. CASE from # {}
    <3>1. from \in SUBSET Nat
      BY <1>3
    <3>2. best \in from /\ \A c \in from : best <= c
      BY <1>2, <2>2, <3>1, LeastNumber
    <3>3. PICK i \in 1 .. m : best = kids[i].current
      BY <1>3, <3>2
    <3>4. best \in Nat /\ best >= bound /\ best < kNoMoreDocs
      BY <1>3, <3>2
    <3>5. best \in S
      BY <1>1, <3>3, <3>4 DEF AnyOf
    <3>6. ASSUME NEW j \in 1 .. m, kids[j].current >= bound PROVE best <= kids[j].current
      <4>1. kids[j].current \in Nat /\ kids[j].current <= kNoMoreDocs
        BY <1>1
      <4>2. CASE kids[j].current = kNoMoreDocs
        BY <1>1, <3>4, <4>2
      <4>3. CASE kids[j].current # kNoMoreDocs
        <5>1. kids[j].current < kNoMoreDocs
          BY <1>1, <4>1, <4>3
        <5>2. kids[j].current \in from
          BY <1>3, <3>6, <4>1, <5>1
        <5>3. QED  BY <3>2, <5>2
      <4>4. QED  BY <4>2, <4>3
    <3>7. QED  BY <3>3, <3>4, <3>5, <3>6
  <2>3. QED  BY <2>1, <2>2
<1>5. y = Standing(x, kids, best, here)
  BY <1>1 DEF AtLeast
<1> HIDE DEF best
<1>6. /\ y \in NodesOver("or", n, m, S, Xs) /\ y.kids = kids /\ y.current = best
      /\ Freq(y) = FreqSum(kids, here)
  <2>1. here \in SUBSET (1 .. m)
    OBVIOUS
  <2>2. S \in DocSet /\ best \in S \cup {kNoMoreDocs}
    BY <1>1, <1>4
  <2>3. PICK kind, doc, at : kind = "or" /\ doc = best /\ at = here
    OBVIOUS
  <2>4. /\ x \in NodesOver(kind, n, m, S, Xs) /\ doc \in S \cup {kNoMoreDocs}
        /\ at \in SUBSET (1 .. m) /\ y = Standing(x, kids, doc, at) /\ S \in DocSet
    BY <1>5, <2>1, <2>2, <2>3
  <2>5. /\ y \in NodesOver(kind, n, m, S, Xs) /\ y.kids = kids /\ y.current = doc
        /\ Freq(y) = FreqSum(kids, at)
    BY <2>4, StandingIs
  <2>6. QED  BY <2>3, <2>5
<1>7. ASSUME \A i \in 1 .. m : Reached(kids[i], bound, Ss[i], Vs[i]) /\ kids[i].current >= bound
      PROVE  IsFirst(best, S, bound) /\ (best # kNoMoreDocs => Freq(y) = F[best])
  <2>1. ASSUME NEW i \in 1 .. m
        PROVE  /\ \A d \in Ss[i] : d >= bound => kids[i].current <= d
               /\ kids[i].current # kNoMoreDocs => /\ kids[i].current \in Ss[i]
                                                   /\ Freq(kids[i]) = Fs[i][kids[i].current]
               /\ best <= kids[i].current /\ \A d \in Ss[i] : d \in Nat /\ d < kNoMoreDocs
    <3>1. /\ kids[i] \in Xs[i] /\ Ss[i] \in DocSet
          /\ Walks(Moved[n], DocIdSetIterator[n], Ss[i], Fs[i], Xs[i], Vs[i])
      BY KidsAre
    <3>2. Reached(kids[i], bound, Ss[i], Vs[i]) /\ kids[i].current >= bound
      BY <1>7
    <3>3. best <= kids[i].current
      BY <1>4, <3>2
    <3>4. \A d \in Ss[i] : d \in Nat /\ d < kNoMoreDocs
      BY <3>1, DocsAreWords
    <3>5. /\ \A d \in Ss[i] : d >= bound => kids[i].current <= d
          /\ kids[i].current # kNoMoreDocs => /\ kids[i].current \in Ss[i]
                                              /\ Freq(kids[i]) = Fs[i][kids[i].current]
      <4>1. PICK move, K, T, G, X, V :
                /\ move = Moved[n] /\ K = DocIdSetIterator[n] /\ T = Ss[i] /\ G = Fs[i]
                /\ X = Xs[i] /\ V = Vs[i]
        OBVIOUS
      <4>2. PICK k \in X : k = kids[i]
        BY <3>1, <4>1
      <4>3. /\ \A d \in T : d >= bound => k.current <= d
            /\ k.current # kNoMoreDocs => k.current \in T /\ Freq(k) = G[k.current]
        <5>1. Walks(move, K, T, G, X, V) /\ T \in DocSet /\ Reached(k, bound, T, V)
          BY <3>1, <3>2, <4>1, <4>2
        <5>2. \A d \in T : d >= bound => k.current <= d
          BY <5>1, Reach
        <5>3. k.current # kNoMoreDocs => k.current \in T
          BY <5>1, Reach
        <5>4. k.current # kNoMoreDocs => Freq(k) = G[k.current]
          <6>1. PICK b \in Word : IsAt(k, b, T, V)
            BY <5>1 DEF Reached
          <6>2. k.current # kNoMoreDocs => <<k, b>> \in V
            BY <6>1 DEF IsAt
          <6>3. QED  BY <5>1, <6>2 DEF Walks
        <5>5. QED  BY <5>2, <5>3, <5>4
      <4>4. QED  BY <4>1, <4>2, <4>3
    <3>6. QED  BY <3>3, <3>4, <3>5
  <2>2. ASSUME NEW d \in S, d >= bound PROVE best <= d
    <3>1. PICK i \in 1 .. m : d \in Ss[i]
      BY DEF AnyOf
    <3>2. /\ kids[i].current <= d /\ best <= kids[i].current
          /\ d \in Nat /\ kids[i].current \in Nat
      BY <1>1, <2>1, <2>2, <3>1
    <3>3. QED  BY <1>4, <3>2
  <2>3. IsFirst(best, S, bound)
    <3>1. CASE best = kNoMoreDocs
      <4>1. ASSUME NEW d \in S PROVE d < bound
        <5>1. d \in Nat /\ d < kNoMoreDocs
          BY <1>1, DocsAreWords
        <5>2. QED  BY <1>1, <2>2, <3>1, <5>1
      <4>2. QED  BY <3>1, <4>1 DEF IsFirst
    <3>2. CASE best # kNoMoreDocs
      BY <1>4, <2>2, <3>2 DEF IsFirst
    <3>3. QED  BY <3>1, <3>2
  <2>4. ASSUME best # kNoMoreDocs PROVE Freq(y) = F[best]
    <3>1. best \in S
      BY <1>4, <2>4
    <3>2. here = {k \in 1 .. m : best \in Ss[k]}
      <4>1. ASSUME NEW i \in 1 .. m PROVE kids[i].current = best <=> best \in Ss[i]
        <5>1. kids[i].current = best => best \in Ss[i]
          BY <2>1, <2>4
        <5>2. best \in Ss[i] => kids[i].current = best
          BY <1>1, <1>4, <2>1
        <5>3. QED  BY <5>1, <5>2
      <4>2. QED  BY <2>4, <4>1
    <3>3. \A i \in here : Freq(kids[i]) = Fs[i][best]
      BY <2>1, <2>4
    <3> HIDE DEF here
    <3>4. [i \in here |-> Freq(kids[i])] = [i \in here |-> Fs[i][best]]
      BY <3>3
    <3>5. F[best] = WordTotal([i \in {k \in 1 .. m : best \in Ss[k]} |-> Fs[i][best]])
      BY <3>1 DEF SumsUp
    <3>6. QED  BY <1>6, <3>2, <3>4, <3>5 DEF FreqSum
  <2>5. QED  BY <2>3, <2>4
<1>8. QED  BY <1>4, <1>6, <1>7

-----------------------------------------------------------------------------
(* DisjunctionIterator.                                                    *)

\* Children whose first Next leads to their first document.
NewKids(n, m, Ss, Xs, Vs, kids) ==
    /\ Kids(n, m, Xs, kids)
    /\ \A i \in 1 .. m : /\ kids[i].current = kNoMoreDocs
                         /\ IsAt(Moved[n][kids[i]][ToNext], 0, Ss[i], Vs[i])

\* Every child is at its first document from a bound on.
AllFrom(m, Ss, Vs, kids, b) ==
    \A i \in 1 .. m : Reached(kids[i], b, Ss[i], Vs[i]) /\ kids[i].current >= b

\* Where an iterator over any of the children is, and by which bound.
AnyAt(n, m, Ss, S, F, Xs, Vs) ==
    {p \in NodesOver("or", n, m, S, Xs) \X Word :
        /\ p[1].current # kNoMoreDocs /\ IsFirst(p[1].current, S, p[2])
        /\ Freq(p[1]) = F[p[1].current] /\ AllFrom(m, Ss, Vs, p[1].kids, p[2])}

\* With no child behind the bound, a disjunction is where it was asked to go.
LEMMA AtLeastStands ==
    ASSUME NEW n, NEW m, NEW Ss, NEW Fs, NEW Xs, NEW Vs, Family(n, m, Ss, Fs, Xs, Vs),
           NEW S, NEW F, AnyOf(m, Ss, S), SumsUp(m, Ss, Fs, S, F),
           NEW kids, Kids(n, m, Xs, kids), NEW x \in NodesOver("or", n, m, S, Xs),
           NEW bound \in Word, NEW y, y = AtLeast(x, kids, bound),
           AllFrom(m, Ss, Vs, kids, bound)
    PROVE  IsAt(y, bound, S, AnyAt(n, m, Ss, S, F, Xs, Vs))
<1>1. /\ y \in NodesOver("or", n, m, S, Xs) /\ y.kids = kids
      /\ IsFirst(y.current, S, bound) /\ (y.current # kNoMoreDocs => Freq(y) = F[y.current])
  BY AtLeastIs DEF AllFrom
<1>2. QED  BY <1>1 DEF IsAt, AnyAt

\* A call of an iterator over any of the children.
LEMMA DisjunctionMoved ==
    ASSUME NEW n, NEW m, NEW Ss, NEW Fs, NEW Xs, NEW Vs, Family(n, m, Ss, Fs, Xs, Vs),
           NEW S, NEW F, AnyOf(m, Ss, S), SumsUp(m, Ss, Fs, S, F),
           NEW x \in NodesOver("or", n, m, S, Xs)
    PROVE  /\ x.kind = "or" /\ x \in DocIdSetIterator[n + 1] /\ x.kids \in [1 .. m -> DocIdSetIterator[n]]
           /\ x.current \in S \cup {kNoMoreDocs}
           /\ Moved[n + 1][x][ToNext] = DisjunctionNext(x, Moved[n])
           /\ \A t \in Word : Moved[n + 1][x][t] = DisjunctionAdvance(x, t, Moved[n])
<1>1. /\ n \in Nat /\ x.kind = "or" /\ x \in Nodes(n + 1, DocIdSetIterator[n]) /\ Kids(n, m, Xs, x.kids)
      /\ x.current \in S \cup {kNoMoreDocs}
  BY DEF Family, NodesOver
<1>2. ASSUME NEW call \in Calls
      PROVE  x \in DocIdSetIterator[n + 1] /\ Moved[n + 1][x][call] = NodeMoved(x, call, Moved[n])
  BY <1>1, MovedIs
<1>3. NodeMoved(x, ToNext, Moved[n]) = DisjunctionNext(x, Moved[n])
  BY <1>1 DEF NodeMoved
<1>4. \A t \in Word : NodeMoved(x, t, Moved[n]) = DisjunctionAdvance(x, t, Moved[n])
  BY <1>1, Numbers DEF NodeMoved
<1>5. QED  BY <1>1, <1>2, <1>3, <1>4, Numbers DEF Kids

\* Next of one that is nowhere, with a child that is nowhere either.
LEMMA DisjunctionFirst ==
    ASSUME NEW n, NEW m, NEW Ss, NEW Fs, NEW Xs, NEW Vs, Family(n, m, Ss, Fs, Xs, Vs),
           NEW S, NEW F, AnyOf(m, Ss, S), SumsUp(m, Ss, Fs, S, F),
           NEW x \in NodesOver("or", n, m, S, Xs), x.current = kNoMoreDocs
    PROVE  /\ Moved[n + 1][x][ToNext] \in NodesOver("or", n, m, S, Xs)
           /\ NewKids(n, m, Ss, Xs, Vs, x.kids) =>
                  IsAt(Moved[n + 1][x][ToNext], 0, S, AnyAt(n, m, Ss, S, F, Xs, Vs))
<1> DEFINE kids == [i \in 1 .. m |-> IF x.kids[i].current = kNoMoreDocs THEN Moved[n][x.kids[i]][ToNext]
                                     ELSE x.kids[i]]
           y == Moved[n + 1][x][ToNext]
<1>1. DOMAIN x.kids = 1 .. m /\ y = DisjunctionNext(x, Moved[n]) /\ Kids(n, m, Xs, x.kids)
  BY DisjunctionMoved DEF NodesOver
<1>2. Kids(n, m, Xs, kids)
  <2>1. ASSUME NEW i \in 1 .. m PROVE kids[i] \in Xs[i] /\ kids[i] \in DocIdSetIterator[n]
    <3>1. /\ x.kids[i] \in Xs[i] /\ Moved[n][x.kids[i]][ToNext] \in Xs[i]
          /\ Xs[i] \subseteq DocIdSetIterator[n]
      BY <1>1, KidsAre, Numbers
    <3>2. QED  BY <3>1
  <2>2. QED  BY <2>1 DEF Kids
<1>3. y = IF \A i \in 1 .. m : x.kids[i].current # kNoMoreDocs THEN x ELSE AtLeast(x, kids, 0)
  BY <1>1 DEF DisjunctionNext
<1> HIDE DEF y
<1>4. y \in NodesOver("or", n, m, S, Xs)
  <2>1. CASE \A i \in 1 .. m : x.kids[i].current # kNoMoreDocs
    BY <1>3, <2>1
  <2>2. CASE ~\A i \in 1 .. m : x.kids[i].current # kNoMoreDocs
    <3> HIDE DEF kids
    <3>1. y = AtLeast(x, kids, 0) /\ 0 \in Word
      BY <1>3, <2>2, Numbers
    <3>2. QED  BY <1>2, <3>1, AtLeastIs
  <2>3. QED  BY <2>1, <2>2
<1>5. ASSUME NewKids(n, m, Ss, Xs, Vs, x.kids)
      PROVE  IsAt(y, 0, S, AnyAt(n, m, Ss, S, F, Xs, Vs))
  <2>1. 1 \in 1 .. m /\ x.kids[1].current = kNoMoreDocs
    BY <1>5 DEF NewKids, Family
  <2>2. y = AtLeast(x, kids, 0) /\ 0 \in Word
    BY <1>3, <2>1, Numbers
  <2>3. ASSUME NEW i \in 1 .. m
        PROVE  Reached(kids[i], 0, Ss[i], Vs[i]) /\ kids[i].current >= 0
    <3>1. kids[i] = Moved[n][x.kids[i]][ToNext]
      BY <1>5 DEF NewKids
    <3>2. IsAt(kids[i], 0, Ss[i], Vs[i])
      BY <1>5, <3>1 DEF NewKids
    <3>3. kids[i].current \in Nat
      <4> HIDE DEF kids
      <4>1. QED  BY <1>2, KidsAre
    <3> HIDE DEF kids
    <3>4. QED  BY <2>2, <3>2, <3>3 DEF Reached
  <2>4. AllFrom(m, Ss, Vs, kids, 0)
    BY <2>3 DEF AllFrom
  <2> HIDE DEF kids
  <2>5. QED  BY <1>2, <2>2, <2>4, AtLeastStands
<1>6. QED  BY <1>4, <1>5 DEF y

\* Next of one that is at a document.
LEMMA DisjunctionOnward ==
    ASSUME NEW n, NEW m, NEW Ss, NEW Fs, NEW Xs, NEW Vs, Family(n, m, Ss, Fs, Xs, Vs),
           NEW S, NEW F, AnyOf(m, Ss, S), SumsUp(m, Ss, Fs, S, F),
           NEW x \in NodesOver("or", n, m, S, Xs), x.current # kNoMoreDocs
    PROVE  /\ Moved[n + 1][x][ToNext] \in NodesOver("or", n, m, S, Xs)
           /\ \A b \in Word : <<x, b>> \in AnyAt(n, m, Ss, S, F, Xs, Vs) =>
                  IsAt(Moved[n + 1][x][ToNext], x.current + 1, S, AnyAt(n, m, Ss, S, F, Xs, Vs))
<1> DEFINE kids == [i \in 1 .. m |-> IF x.kids[i].current <= x.current THEN Moved[n][x.kids[i]][ToNext]
                                     ELSE x.kids[i]]
           y == Moved[n + 1][x][ToNext]
<1>1. /\ DOMAIN x.kids = 1 .. m /\ y = DisjunctionNext(x, Moved[n]) /\ Kids(n, m, Xs, x.kids)
      /\ x.current \in S /\ S \in DocSet
  BY DisjunctionMoved DEF NodesOver, AnyOf
<1>2. x.current \in Nat /\ x.current < kNoMoreDocs /\ x.current + 1 \in Word
  BY <1>1, DocsAreWords
<1>3. Kids(n, m, Xs, kids)
  <2>1. ASSUME NEW i \in 1 .. m PROVE kids[i] \in Xs[i] /\ kids[i] \in DocIdSetIterator[n]
    <3>1. /\ x.kids[i] \in Xs[i] /\ Moved[n][x.kids[i]][ToNext] \in Xs[i]
          /\ Xs[i] \subseteq DocIdSetIterator[n]
      BY <1>1, KidsAre, Numbers
    <3>2. QED  BY <3>1
  <2>2. QED  BY <2>1 DEF Kids
<1>4. y = AtLeast(x, kids, x.current + 1)
  BY <1>1 DEF DisjunctionNext
<1> HIDE DEF y
<1>5. y \in NodesOver("or", n, m, S, Xs)
  <2> HIDE DEF kids
  <2>1. QED  BY <1>2, <1>3, <1>4, AtLeastIs
<1>6. ASSUME NEW b \in Word, <<x, b>> \in AnyAt(n, m, Ss, S, F, Xs, Vs)
      PROVE  IsAt(y, x.current + 1, S, AnyAt(n, m, Ss, S, F, Xs, Vs))
  <2>1. IsFirst(x.current, S, b) /\ AllFrom(m, Ss, Vs, x.kids, b)
    BY <1>6 DEF AnyAt
  <2>2. b \in Nat /\ b <= x.current /\ \A d \in S : d >= b => x.current <= d
    BY <1>1, <2>1, Numbers DEF IsFirst
  <2>3. ASSUME NEW i \in 1 .. m
        PROVE  Reached(kids[i], x.current + 1, Ss[i], Vs[i]) /\ kids[i].current >= x.current + 1
    <3>1. /\ Walks(Moved[n], DocIdSetIterator[n], Ss[i], Fs[i], Xs[i], Vs[i])
          /\ Ss[i] \in DocSet /\ x.kids[i] \in Xs[i]
          /\ x.kids[i].current \in Nat /\ x.kids[i].current \in Ss[i] \cup {kNoMoreDocs}
      BY <1>1, KidsAre
    <3>2. Reached(x.kids[i], b, Ss[i], Vs[i]) /\ x.kids[i].current >= b
      BY <2>1 DEF AllFrom
    <3>3. CASE x.kids[i].current <= x.current
      <4>1. x.kids[i].current # kNoMoreDocs /\ x.kids[i].current \in S
        BY <1>2, <3>1, <3>3, Numbers DEF AnyOf
      <4>2. x.kids[i].current = x.current
        BY <1>2, <2>2, <3>1, <3>2, <3>3, <4>1
      <4>3. PICK k : k = kids[i] /\ k = Moved[n][x.kids[i]][ToNext]
        BY <3>3
      <4>4. k \in Xs[i] /\ IsAt(k, x.kids[i].current + 1, Ss[i], Vs[i])
        <5>1. PICK move, K, T, G, X, V, z :
                  /\ move = Moved[n] /\ K = DocIdSetIterator[n] /\ T = Ss[i] /\ G = Fs[i]
                  /\ X = Xs[i] /\ V = Vs[i] /\ z = x.kids[i]
          OBVIOUS
        <5>2. Walks(move, K, T, G, X, V) /\ T \in DocSet /\ Reached(z, b, T, V) /\ z \in X
              /\ z.current # kNoMoreDocs
          BY <3>1, <3>2, <4>1, <5>1
        <5>3. move[z][ToNext] \in X /\ IsAt(move[z][ToNext], z.current + 1, T, V)
          BY <5>2, Reach
        <5>4. QED  BY <4>3, <5>1, <5>3
      <4>5. IsAt(k, x.current + 1, Ss[i], Vs[i])
        BY <4>2, <4>4
      <4>6. k.current >= x.current + 1
        <5>1. IsFirst(k.current, Ss[i], x.current + 1)
          BY <4>5 DEF IsAt
        <5>2. QED  BY <1>2, <5>1, Numbers DEF IsFirst
      <4>7. Reached(k, x.current + 1, Ss[i], Vs[i])
        BY <1>2, <4>5 DEF Reached
      <4>8. QED  BY <4>3, <4>6, <4>7
    <3>4. CASE ~(x.kids[i].current <= x.current)
      <4>1. kids[i] = x.kids[i] /\ x.kids[i].current >= x.current + 1
        BY <1>2, <3>1, <3>4
      <4>2. Reached(x.kids[i], x.current + 1, Ss[i], Vs[i])
        BY <1>2, <2>2, <3>2, Numbers DEF Reached
      <4> HIDE DEF kids
      <4>3. QED  BY <4>1, <4>2
    <3>5. QED  BY <3>3, <3>4
  <2> HIDE DEF kids
  <2>4. AllFrom(m, Ss, Vs, kids, x.current + 1)
    BY <2>3 DEF AllFrom
  <2>5. QED  BY <1>2, <1>3, <1>4, <2>4, AtLeastStands
<1>7. QED  BY <1>5, <1>6 DEF y

\* Advance of a disjunction moves the children that are behind its target.
LEMMA DisjunctionTo ==
    ASSUME NEW n, NEW m, NEW Ss, NEW Fs, NEW Xs, NEW Vs, Family(n, m, Ss, Fs, Xs, Vs),
           NEW S, NEW F, AnyOf(m, Ss, S), SumsUp(m, Ss, Fs, S, F),
           NEW x \in NodesOver("or", n, m, S, Xs), NEW t \in Word
    PROVE  /\ Moved[n + 1][x][t] \in NodesOver("or", n, m, S, Xs)
           /\ Moved[n + 1][x][t].current >= t
           /\ \A b \in Word : <<x, b>> \in AnyAt(n, m, Ss, S, F, Xs, Vs) /\ b <= t =>
                  IsAt(Moved[n + 1][x][t], t, S, AnyAt(n, m, Ss, S, F, Xs, Vs))
<1> DEFINE kids == [i \in 1 .. m |-> IF x.kids[i].current < t THEN Moved[n][x.kids[i]][t]
                                     ELSE x.kids[i]]
           y == Moved[n + 1][x][t]
<1>1. DOMAIN x.kids = 1 .. m /\ y = DisjunctionAdvance(x, t, Moved[n]) /\ Kids(n, m, Xs, x.kids)
  BY DisjunctionMoved DEF NodesOver
<1>2. Kids(n, m, Xs, kids)
  <2>1. ASSUME NEW i \in 1 .. m PROVE kids[i] \in Xs[i] /\ kids[i] \in DocIdSetIterator[n]
    <3>1. /\ x.kids[i] \in Xs[i] /\ Moved[n][x.kids[i]][t] \in Xs[i]
          /\ Xs[i] \subseteq DocIdSetIterator[n]
      BY <1>1, KidsAre, Numbers
    <3>2. QED  BY <3>1
  <2>2. QED  BY <2>1 DEF Kids
<1>3. y = AtLeast(x, kids, t)
  BY <1>1 DEF DisjunctionAdvance
<1> HIDE DEF y
<1>4. y \in NodesOver("or", n, m, S, Xs) /\ y.current >= t
  <2> HIDE DEF kids
  <2>1. QED  BY <1>2, <1>3, AtLeastIs
<1>5. ASSUME NEW b \in Word, <<x, b>> \in AnyAt(n, m, Ss, S, F, Xs, Vs), b <= t
      PROVE  IsAt(y, t, S, AnyAt(n, m, Ss, S, F, Xs, Vs))
  <2>1. AllFrom(m, Ss, Vs, x.kids, b) /\ b \in Nat /\ t \in Nat
    BY <1>5, Numbers DEF AnyAt
  <2>2. ASSUME NEW i \in 1 .. m
        PROVE  Reached(kids[i], t, Ss[i], Vs[i]) /\ kids[i].current >= t
    <3>1. /\ Walks(Moved[n], DocIdSetIterator[n], Ss[i], Fs[i], Xs[i], Vs[i])
          /\ Ss[i] \in DocSet /\ x.kids[i] \in Xs[i] /\ x.kids[i].current \in Nat
      BY <1>1, KidsAre
    <3>2. Reached(x.kids[i], b, Ss[i], Vs[i])
      BY <2>1 DEF AllFrom
    <3>3. CASE x.kids[i].current < t
      <4>1. PICK k : k = kids[i] /\ k = Moved[n][x.kids[i]][t]
        BY <3>3
      <4>2. IsAt(k, t, Ss[i], Vs[i]) /\ k.current >= t
        <5>1. PICK move, K, T, G, X, V, z :
                  /\ move = Moved[n] /\ K = DocIdSetIterator[n] /\ T = Ss[i] /\ G = Fs[i]
                  /\ X = Xs[i] /\ V = Vs[i] /\ z = x.kids[i]
          OBVIOUS
        <5>2. Walks(move, K, T, G, X, V) /\ T \in DocSet /\ Reached(z, b, T, V) /\ z \in X
          BY <3>1, <3>2, <5>1
        <5>3. IsAt(move[z][t], t, T, V) /\ move[z][t].current >= t
          BY <1>5, <5>2, Reach
        <5>4. QED  BY <4>1, <5>1, <5>3
      <4>3. Reached(k, t, Ss[i], Vs[i])
        BY <2>1, <4>2 DEF Reached
      <4>4. QED  BY <4>1, <4>2, <4>3
    <3>4. CASE ~(x.kids[i].current < t)
      <4>1. kids[i] = x.kids[i] /\ x.kids[i].current >= t
        BY <2>1, <3>1, <3>4
      <4>2. Reached(x.kids[i], t, Ss[i], Vs[i])
        BY <1>5, <2>1, <3>2, Numbers DEF Reached
      <4> HIDE DEF kids
      <4>3. QED  BY <4>1, <4>2
    <3>5. QED  BY <3>3, <3>4
  <2> HIDE DEF kids
  <2>3. AllFrom(m, Ss, Vs, kids, t)
    BY <2>2 DEF AllFrom
  <2>4. QED  BY <1>2, <1>3, <2>3, AtLeastStands
<1>6. QED  BY <1>4, <1>5 DEF y

\* An iterator over any of the children walks over what any of them does.
LEMMA DisjunctionKeeps ==
    ASSUME NEW n, NEW m, NEW Ss, NEW Fs, NEW Xs, NEW Vs, Family(n, m, Ss, Fs, Xs, Vs),
           NEW S, NEW F, AnyOf(m, Ss, S), SumsUp(m, Ss, Fs, S, F),
           NEW kids, NewKids(n, m, Ss, Xs, Vs, kids)
    PROVE  Keeps(n + 1, DisjunctionIterator(kids, n + 1), S, F)
<1> DEFINE X == NodesOver("or", n, m, S, Xs)
           V == AnyAt(n, m, Ss, S, F, Xs, Vs)
           it == DisjunctionIterator(kids, n + 1)
<1>1. /\ n \in Nat /\ m \in Nat /\ m > 1 /\ 1 \in 1 .. m /\ n + 1 \in Nat /\ (n + 1) - 1 = n
      /\ S \in DocSet /\ Kids(n, m, Xs, kids)
  BY DEF Family, AnyOf, NewKids
<1>2. it \in X /\ it.kids = kids /\ it.current = kNoMoreDocs
  <2>1. kids \in Seq(DocIdSetIterator[n]) /\ DOMAIN kids = 1 .. m
    BY <1>1, KidsAre
  <2> DEFINE costs == [i \in 1 .. m |-> Cost(kids[i])]
  <2>2. costs \in [1 .. m -> Nat]
    BY <1>1, HeightIs DEF Kids
  <2>3. Total(costs) \in Nat
    <3> HIDE DEF costs
    <3>1. IsFiniteSet(1 .. m)
      BY <1>1, FS_Interval
    <3>2. QED  BY <2>2, <3>1, TotalIs
  <2>4. it = Over("or", n + 1, Total(costs), kids)
    BY <2>1 DEF DisjunctionIterator
  <2> HIDE DEF costs
  <2>5. /\ it \in [kind : {"and", "or"}, height : {n + 1}, cost : Nat,
                 kids : Seq(DocIdSetIterator[n]), current : Word, freq : Word]
        /\ it.kind = "or" /\ it.kids = kids /\ it.current = kNoMoreDocs
    BY <2>1, <2>3, <2>4, Numbers DEF Over
  <2> HIDE DEF it
  <2>6. PICK kind : kind = "or"
    OBVIOUS
  <2>7. it \in NodesOver(kind, n, m, S, Xs)
    BY <1>1, <2>5, <2>6, OverIs
  <2>8. QED  BY <2>5, <2>6, <2>7
<1> HIDE DEF it
<1>3. \A x \in X, call \in Calls : call = ToNext \/ call \in Word
  BY DEF Calls
<1>4. Walks(Moved[n + 1], DocIdSetIterator[n + 1], S, F, X, V)
  <2>1. X \subseteq DocIdSetIterator[n + 1] /\ \A x \in X : x.current \in S \cup {kNoMoreDocs}
    BY DisjunctionMoved
  <2>2. \A x \in X, call \in Calls : Moved[n + 1][x][call] \in X
    BY <1>3, DisjunctionFirst, DisjunctionOnward, DisjunctionTo
  <2>3. \A x \in X, t \in Word : Moved[n + 1][x][t].current >= t
    BY DisjunctionTo
  <2>4. ASSUME NEW x \in X, NEW b \in Word, <<x, b>> \in V
        PROVE  /\ x.current # kNoMoreDocs /\ IsFirst(x.current, S, b) /\ Freq(x) = F[x.current]
               /\ \A t \in Word : t >= b => IsAt(Moved[n + 1][x][t], t, S, V)
               /\ IsAt(Moved[n + 1][x][ToNext], x.current + 1, S, V)
    <3>1. x.current # kNoMoreDocs /\ IsFirst(x.current, S, b) /\ Freq(x) = F[x.current]
      BY <2>4 DEF AnyAt
    <3>2. \A t \in Word : t >= b => IsAt(Moved[n + 1][x][t], t, S, V)
      <4>1. \A t \in Word : t >= b => b <= t
        BY Numbers
      <4>2. QED  BY <2>4, <4>1, DisjunctionTo
    <3>3. IsAt(Moved[n + 1][x][ToNext], x.current + 1, S, V)
      BY <2>4, <3>1, DisjunctionOnward
    <3>4. QED  BY <3>1, <3>2, <3>3
  <2> HIDE DEF X, V
  <2>5. QED  BY <2>1, <2>2, <2>3, <2>4 DEF Walks
<1>5. IsAt(Moved[n + 1][it][ToNext], 0, S, V)
  BY <1>2, DisjunctionFirst
<1> HIDE DEF X, V
<1>6. QED  BY <1>2, <1>4, <1>5 DEF Keeps, it

-----------------------------------------------------------------------------
(* ConjunctionIterator.                                                    *)

\* The documents that all of the children walk over, and their frequencies.
AllOf(m, Ss, S) == S \in DocSet /\ \A d : d \in S <=> \A i \in 1 .. m : d \in Ss[i]
SumsAll(m, Ss, Fs, S, F) == \A d \in S : F[d] = WordTotal([i \in 1 .. m |-> Fs[i][d]])

\* Where an iterator over all of the children is, and by which bound.
AllAt(n, m, Ss, S, F, Xs, Vs) ==
    {p \in NodesOver("and", n, m, S, Xs) \X Word :
        /\ p[1].current # kNoMoreDocs /\ IsFirst(p[1].current, S, p[2])
        /\ Freq(p[1]) = F[p[1].current] /\ p[1].kids[1].current = p[1].current
        /\ \A i \in 1 .. m : Reached(p[1].kids[i], p[1].current, Ss[i], Vs[i])}

\* The first child is from the bound on, no child has run ahead of it, and all
\* documents from the bound on are there or behind it.
Together(m, Ss, S, Vs, kids, b) ==
    /\ kids[1].current >= b
    /\ \A i \in 1 .. m : Reached(kids[i], kids[1].current, Ss[i], Vs[i])
    /\ \A d \in S : d >= b => kids[1].current <= d

\* A child that is moved to a document from where it came by its bound.
LEMMA ChildTo ==
    ASSUME NEW n, NEW m, NEW Ss, NEW Fs, NEW Xs, NEW Vs, Family(n, m, Ss, Fs, Xs, Vs),
           NEW kids, Kids(n, m, Xs, kids), NEW i \in 1 .. m, NEW c \in Word, NEW t \in Word, c <= t,
           Reached(kids[i], c, Ss[i], Vs[i])
    PROVE  /\ IsAt(Moved[n][kids[i]][t], t, Ss[i], Vs[i]) /\ Reached(kids[i], t, Ss[i], Vs[i])
           /\ \A u \in Word : t <= u => Reached(Moved[n][kids[i]][t], u, Ss[i], Vs[i])
<1>1. PICK move, K, T, G, X, V, z :
          /\ move = Moved[n] /\ K = DocIdSetIterator[n] /\ T = Ss[i] /\ G = Fs[i]
          /\ X = Xs[i] /\ V = Vs[i] /\ z = kids[i]
  OBVIOUS
<1>2. Walks(move, K, T, G, X, V) /\ T \in DocSet /\ Reached(z, c, T, V) /\ z \in X
  BY <1>1, KidsAre
<1>3. c \in Nat /\ t \in Nat /\ t >= c
  BY Numbers
<1>4. IsAt(move[z][t], t, T, V)
  BY <1>2, <1>3, Reach
<1>5. Reached(z, t, T, V)
  BY <1>2, <1>3, Numbers DEF Reached
<1>6. \A u \in Word : t <= u => Reached(move[z][t], u, T, V)
  BY <1>4 DEF Reached
<1>7. QED  BY <1>1, <1>4, <1>5, <1>6

\* A child that came to where it is by a bound up to there.
LEMMA ChildAt ==
    ASSUME NEW n, NEW m, NEW Ss, NEW Fs, NEW Xs, NEW Vs, Family(n, m, Ss, Fs, Xs, Vs),
           NEW kids, Kids(n, m, Xs, kids), NEW i \in 1 .. m, NEW c \in Word,
           Reached(kids[i], c, Ss[i], Vs[i])
    PROVE  /\ \A d \in Ss[i] : d >= c => kids[i].current <= d
           /\ kids[i].current # kNoMoreDocs =>
                  /\ kids[i].current \in Ss[i] /\ Freq(kids[i]) = Fs[i][kids[i].current]
                  /\ Moved[n][kids[i]][ToNext] \in Xs[i]
                  /\ IsAt(Moved[n][kids[i]][ToNext], kids[i].current + 1, Ss[i], Vs[i])
<1>1. PICK move, K, T, G, X, V, z :
          /\ move = Moved[n] /\ K = DocIdSetIterator[n] /\ T = Ss[i] /\ G = Fs[i]
          /\ X = Xs[i] /\ V = Vs[i] /\ z = kids[i]
  OBVIOUS
<1>2. Walks(move, K, T, G, X, V) /\ T \in DocSet /\ Reached(z, c, T, V) /\ z \in X
  BY <1>1, KidsAre
<1>3. \A d \in T : d >= c => z.current <= d
  BY <1>2, Reach
<1>4. z.current # kNoMoreDocs => z.current \in T /\ Freq(z) = G[z.current]
  <2>1. PICK b \in Word : IsAt(z, b, T, V)
    BY <1>2 DEF Reached
  <2>2. z.current # kNoMoreDocs => <<z, b>> \in V
    BY <2>1 DEF IsAt
  <2>3. z.current \in T \cup {kNoMoreDocs}
    BY <1>2 DEF Walks
  <2>4. QED  BY <1>2, <2>2, <2>3 DEF Walks
<1>5. z.current # kNoMoreDocs =>
          move[z][ToNext] \in X /\ IsAt(move[z][ToNext], z.current + 1, T, V)
  BY <1>2, Reach
<1>6. QED  BY <1>1, <1>3, <1>4, <1>5

\* What a round of a loop leaves: a loop further on, or the iterator that it
\* ends with.
Loops(n, m, S, Xs) == [it : NodesOver("and", n, m, S, Xs), on : BOOLEAN]

RoundLeaves(n, m, Ss, S, F, Xs, Vs, kids, y) ==
    /\ y \in Loops(n, m, S, Xs)
    /\ y.on => y.it.kids[1].current > kids[1].current
    /\ ~y.on => y.it.current >= kids[1].current
    /\ \A b \in Word : Together(m, Ss, S, Vs, kids, b) =>
           IF y.on THEN Together(m, Ss, S, Vs, y.it.kids, b)
           ELSE IsAt(y.it, b, S, AllAt(n, m, Ss, S, F, Xs, Vs))

\* All children meet at a document.
LEMMA RoundMeets ==
    ASSUME NEW n, NEW m, NEW Ss, NEW Fs, NEW Xs, NEW Vs, Family(n, m, Ss, Fs, Xs, Vs),
           NEW S, NEW F, AllOf(m, Ss, S), SumsAll(m, Ss, Fs, S, F),
           NEW x \in NodesOver("and", n, m, S, Xs), NEW upTo, Kids(n, m, Xs, upTo),
           NEW c \in Word, x.kids[1].current = c,
           \A i \in 1 .. m : upTo[i].current = c,  c # kNoMoreDocs, upTo[1] = x.kids[1],
           \A i \in 2 .. m : Reached(x.kids[i], c, Ss[i], Vs[i]) => Reached(upTo[i], c, Ss[i], Vs[i]),
           NEW y, y = [it |-> Standing(x, upTo, c, 1 .. m), on |-> FALSE]
    PROVE  RoundLeaves(n, m, Ss, S, F, Xs, Vs, x.kids, y)
<1> DEFINE K == x.kids
<1>1. m \in Nat /\ m > 1 /\ S \in DocSet /\ c \in Nat /\ 1 \in 1 .. m
  BY Numbers DEF Family, AllOf
<1>2. c \in S
  <2>1. \A i \in 1 .. m : c \in Ss[i]
    BY KidsAre
  <2>2. QED  BY <2>1 DEF AllOf
<1>3. PICK kind, at, z : kind = "and" /\ at = 1 .. m /\ z = Standing(x, upTo, c, at)
  OBVIOUS
<1>4. x \in NodesOver(kind, n, m, S, Xs) /\ c \in S \cup {kNoMoreDocs} /\ at \in SUBSET (1 .. m)
  BY <1>2, <1>3
<1>5. /\ z \in NodesOver(kind, n, m, S, Xs) /\ z.kids = upTo /\ z.current = c
      /\ Freq(z) = FreqSum(upTo, at)
  BY <1>1, <1>3, <1>4, StandingIs
<1>6. y.it = z /\ y.on = FALSE /\ y = [it |-> z, on |-> FALSE]
  BY <1>3
<1>7. y \in Loops(n, m, S, Xs)
  BY <1>3, <1>5, <1>6 DEF Loops
<1>8. ASSUME NEW b \in Word, Together(m, Ss, S, Vs, K, b)
      PROVE  IsAt(z, b, S, AllAt(n, m, Ss, S, F, Xs, Vs))
  <2>1. c >= b /\ \A d \in S : d >= b => c <= d
    BY <1>8 DEF Together
  <2>2. IsFirst(c, S, b)
    BY <1>2, <2>1 DEF IsFirst
  <2>3. \A i \in 1 .. m : Reached(K[i], c, Ss[i], Vs[i])
    BY <1>8 DEF Together
  <2>4. ASSUME NEW i \in 1 .. m PROVE Reached(upTo[i], c, Ss[i], Vs[i])
    <3>1. CASE i = 1
      BY <2>3, <3>1
    <3>2. CASE i # 1
      <4>1. i \in 2 .. m
        BY <1>1, <3>2
      <4>2. QED  BY <2>3, <4>1
    <3>3. QED  BY <3>1, <3>2
  <2>5. ASSUME NEW i \in 1 .. m PROVE Freq(upTo[i]) = Fs[i][c]
    <3>1. Reached(upTo[i], c, Ss[i], Vs[i]) /\ upTo[i].current = c
      BY <2>4
    <3>2. upTo[i].current # kNoMoreDocs => Freq(upTo[i]) = Fs[i][upTo[i].current]
      BY <3>1, ChildAt
    <3>3. QED  BY <3>1, <3>2
  <2>6. [i \in 1 .. m |-> Freq(upTo[i])] = [i \in 1 .. m |-> Fs[i][c]]
    BY <2>5
  <2>7. F[c] = WordTotal([i \in 1 .. m |-> Fs[i][c]])
    BY <1>2 DEF SumsAll
  <2>8. Freq(z) = F[c]
    BY <1>3, <1>5, <2>6, <2>7 DEF FreqSum
  <2>9. z.kids[1].current = c
    BY <1>1, <1>5
  <2>10. <<z, b>> \in AllAt(n, m, Ss, S, F, Xs, Vs)
    BY <1>3, <1>5, <2>2, <2>4, <2>8, <2>9 DEF AllAt
  <2>11. QED  BY <1>5, <2>2, <2>10 DEF IsAt
<1>9. QED  BY <1>1, <1>5, <1>6, <1>7, <1>8 DEF RoundLeaves

\* A child stops at the end, or the first child does when it is moved to where
\* that one is: there is no document for all.
LEMMA RoundEnds ==
    ASSUME NEW n, NEW m, NEW Ss, NEW Fs, NEW Xs, NEW Vs, Family(n, m, Ss, Fs, Xs, Vs),
           NEW S, NEW F, AllOf(m, Ss, S), SumsAll(m, Ss, Fs, S, F),
           NEW x \in NodesOver("and", n, m, S, Xs), NEW kids, Kids(n, m, Xs, kids),
           NEW c \in Word, x.kids[1].current = c,
           \A b \in Word : Together(m, Ss, S, Vs, x.kids, b) => \A d \in S : d < b,
           NEW y, y = [it |-> Ended([x EXCEPT !.kids = kids]), on |-> FALSE]
    PROVE  RoundLeaves(n, m, Ss, S, F, Xs, Vs, x.kids, y)
<1>1. S \in DocSet /\ c \in Nat /\ c <= kNoMoreDocs /\ kNoMoreDocs \in Nat
  BY Numbers DEF AllOf
<1>2. PICK kind, w, z : kind = "and" /\ w = [x EXCEPT !.kids = kids] /\ z = Ended(w)
  OBVIOUS
<1>3. w \in NodesOver(kind, n, m, S, Xs)
  BY <1>1, <1>2, Replaced
<1>4. z \in NodesOver(kind, n, m, S, Xs) /\ z.current = kNoMoreDocs
  BY <1>1, <1>2, <1>3, EndedIs
<1>5. y = [it |-> z, on |-> FALSE]
  BY <1>2
<1>6. y.it = z /\ y.on = FALSE /\ y \in Loops(n, m, S, Xs)
  BY <1>2, <1>4, <1>5 DEF Loops
<1>7. ASSUME NEW b \in Word, Together(m, Ss, S, Vs, x.kids, b)
      PROVE  IsAt(z, b, S, AllAt(n, m, Ss, S, F, Xs, Vs))
  BY <1>4, <1>7 DEF IsAt, IsFirst
<1>8. QED  BY <1>1, <1>4, <1>6, <1>7 DEF RoundLeaves

\* The first child is further on.
LEMMA RoundGoesOn ==
    ASSUME NEW n, NEW m, NEW Ss, NEW Fs, NEW Xs, NEW Vs, Family(n, m, Ss, Fs, Xs, Vs),
           NEW S, NEW F, AllOf(m, Ss, S), SumsAll(m, Ss, Fs, S, F),
           NEW x \in NodesOver("and", n, m, S, Xs), NEW kids, Kids(n, m, Xs, kids),
           NEW c \in Word, x.kids[1].current = c, kids[1].current > c,
           \A b \in Word : Together(m, Ss, S, Vs, x.kids, b) => Together(m, Ss, S, Vs, kids, b),
           NEW y, y = [it |-> [x EXCEPT !.kids = kids], on |-> TRUE]
    PROVE  RoundLeaves(n, m, Ss, S, F, Xs, Vs, x.kids, y)
<1>1. PICK kind, z : kind = "and" /\ z = [x EXCEPT !.kids = kids]
  OBVIOUS
<1>2. z \in NodesOver(kind, n, m, S, Xs) /\ z.kids = kids
  BY <1>1, Replaced DEF AllOf
<1>3. y = [it |-> z, on |-> TRUE]
  BY <1>1
<1>4. y.it = z /\ y.on = TRUE /\ y \in Loops(n, m, S, Xs)
  BY <1>1, <1>2, <1>3 DEF Loops
<1>5. QED  BY <1>2, <1>4 DEF RoundLeaves

\* A round of the loop ends it at a document, ends it at the sentinel, or raises
\* the candidate without passing a document of all children.
LEMMA RoundIs ==
    ASSUME NEW n, NEW m, NEW Ss, NEW Fs, NEW Xs, NEW Vs, Family(n, m, Ss, Fs, Xs, Vs),
           NEW S, NEW F, AllOf(m, Ss, S), SumsAll(m, Ss, Fs, S, F),
           NEW loop \in Loops(n, m, S, Xs), loop.on
    PROVE  RoundLeaves(n, m, Ss, S, F, Xs, Vs, loop.it.kids, Round(loop, Moved[n]))
<1> DEFINE x == loop.it
           K == x.kids
           c == K[1].current
           moved == [i \in 1 .. m |-> Moved[n][K[i]][c]]
           off == {i \in (1 .. m) \ {1} : moved[i].current = kNoMoreDocs \/ moved[i].current # c}
           upTo == [i \in 1 .. m |-> IF i # 1 /\ \A j \in off : i <= j THEN moved[i] ELSE K[i]]
           e == moved[Min(off)].current
           lead == Moved[n][K[1]][e]
           led == [upTo EXCEPT ![1] = lead]
           y == Round(loop, Moved[n])
<1>1. /\ x \in NodesOver("and", n, m, S, Xs) /\ Kids(n, m, Xs, K) /\ S \in DocSet /\ loop.on = TRUE
      /\ n \in Nat /\ m \in Nat /\ m > 1 /\ 1 \in 1 .. m /\ 2 \in 1 .. m /\ kNoMoreDocs \in Nat
  BY Numbers DEF Loops, NodesOver, AllOf, Family
<1>2. /\ DOMAIN K = 1 .. m /\ c \in Word /\ c \in Nat /\ c <= kNoMoreDocs
      /\ \A i \in 1 .. m : K[i] \in Xs[i] /\ Xs[i] \subseteq DocIdSetIterator[n] /\ Ss[i] \in DocSet
  <2>1. DOMAIN K = 1 .. m /\ c \in Word /\ c \in Nat /\ c <= kNoMoreDocs
    BY <1>1, KidsAre
  <2>2. \A i \in 1 .. m : K[i] \in Xs[i] /\ Xs[i] \subseteq DocIdSetIterator[n] /\ Ss[i] \in DocSet
    BY <1>1, KidsAre
  <2>3. QED  BY <2>1, <2>2
<1>3. y = IF off = {} THEN [it |-> Standing(x, upTo, c, 1 .. m), on |-> FALSE]
          ELSE IF e = kNoMoreDocs THEN [it |-> Ended([x EXCEPT !.kids = upTo]), on |-> FALSE]
          ELSE IF lead.current = kNoMoreDocs
          THEN [it |-> Ended([x EXCEPT !.kids = led]), on |-> FALSE]
          ELSE [it |-> [x EXCEPT !.kids = led], on |-> TRUE]
  BY <1>1, <1>2, ZenonT(40) DEF Round
<1> HIDE DEF x, c, y
<1>4. ASSUME NEW i \in 1 .. m
      PROVE  /\ moved[i] \in Xs[i] /\ moved[i] \in DocIdSetIterator[n]
             /\ moved[i].current \in Nat /\ moved[i].current \in Word /\ moved[i].current >= c
             /\ moved[i].current <= kNoMoreDocs
             /\ moved[i] = Moved[n][K[i]][c]
  <2>1. moved[i] = Moved[n][K[i]][c]
    OBVIOUS
  <2>2. Moved[n][K[i]][c] \in Xs[i] /\ Moved[n][K[i]][c].current >= c
    BY <1>1, <1>2, KidsAre, Numbers
  <2> HIDE DEF moved
  <2>3. moved[i] \in DocIdSetIterator[n]
    BY <1>2, <2>1, <2>2
  <2>4. moved[i].current \in Word
    BY <1>1, <2>3, HeightIs
  <2>5. QED  BY <2>1, <2>2, <2>3, <2>4, Numbers
<1> HIDE DEF moved
<1>5. Kids(n, m, Xs, upTo) /\ upTo[1] = K[1]
  <2>1. ASSUME NEW i \in 1 .. m PROVE upTo[i] \in Xs[i] /\ upTo[i] \in DocIdSetIterator[n]
    BY <1>2, <1>4
  <2>2. upTo[1] = K[1]
    BY <1>1
  <2>3. QED  BY <2>1, <2>2 DEF Kids
<1>6. ASSUME NEW b \in Word, Together(m, Ss, S, Vs, K, b), NEW i \in 1 .. m
      PROVE  /\ Reached(K[i], c, Ss[i], Vs[i]) /\ IsAt(moved[i], c, Ss[i], Vs[i])
             /\ \A t \in Word : c <= t => /\ Reached(upTo[i], t, Ss[i], Vs[i])
                                          /\ IsAt(Moved[n][K[i]][t], t, Ss[i], Vs[i])
             /\ \A d \in S : d >= b => d \in Nat /\ c <= d /\ d \in Ss[i] /\ d < kNoMoreDocs
  <2>1. Reached(K[i], c, Ss[i], Vs[i])
    BY <1>6 DEF Together, c
  <2>2. c <= c
    BY <1>2
  <2>3. IsAt(moved[i], c, Ss[i], Vs[i]) /\ Reached(K[i], c, Ss[i], Vs[i])
        /\ \A t \in Word : c <= t => Reached(moved[i], t, Ss[i], Vs[i])
    BY <1>1, <1>2, <1>4, <2>1, <2>2, ChildTo
  <2>4. \A t \in Word : c <= t => /\ Reached(K[i], t, Ss[i], Vs[i])
                                  /\ IsAt(Moved[n][K[i]][t], t, Ss[i], Vs[i])
    BY <1>1, <1>2, <2>1, ChildTo
  <2>5. \A t \in Word : c <= t => Reached(upTo[i], t, Ss[i], Vs[i])
    BY <2>3, <2>4
  <2>6. \A d \in S : d >= b => d \in Nat /\ c <= d /\ d \in Ss[i] /\ d < kNoMoreDocs
    BY <1>1, <1>6, DocsAreWords DEF Together, AllOf, c
  <2>7. QED  BY <2>1, <2>3, <2>4, <2>5, <2>6
<1>7. CASE off = {}
  <2>1. y = [it |-> Standing(x, upTo, c, 1 .. m), on |-> FALSE]
    <3> HIDE DEF off, upTo, e, lead, led
    <3>1. QED  BY <1>3, <1>7
  <2>2. \A i \in 1 .. m : i # 1 => moved[i].current = c /\ c # kNoMoreDocs /\ upTo[i] = moved[i]
    BY <1>7
  <2>3. c # kNoMoreDocs /\ \A i \in 1 .. m : upTo[i].current = c
    BY <1>1, <1>5, <2>2 DEF c
  <2>4. ASSUME NEW i \in 2 .. m, Reached(K[i], c, Ss[i], Vs[i])
        PROVE  Reached(upTo[i], c, Ss[i], Vs[i])
    <3>1. i \in 1 .. m /\ i # 1 /\ c <= c
      BY <1>2
    <3>2. moved[i] = Moved[n][K[i]][c]
      BY <1>4, <3>1
    <3> HIDE DEF K, off, upTo, e, lead, led
    <3>3. Reached(Moved[n][K[i]][c], c, Ss[i], Vs[i])
      BY <1>1, <1>2, <2>4, <3>1, ChildTo
    <3>4. QED  BY <2>2, <3>1, <3>2, <3>3
  <2> HIDE DEF off, upTo
  <2>5. RoundLeaves(n, m, Ss, S, F, Xs, Vs, x.kids, y)
    BY <1>1, <1>2, <1>5, <2>1, <2>3, <2>4, RoundMeets DEF c
  <2>6. QED  BY <2>5 DEF x, y
<1>8. CASE off # {}
  <2>1. off \in SUBSET Nat
    BY <1>1
  <2>2. PICK j \in 1 .. m : /\ j = Min(off) /\ j # 1
                            /\ moved[j].current = kNoMoreDocs \/ moved[j].current # c
    <3>1. Min(off) \in off
      BY <1>8, <2>1, LeastNumber
    <3>2. \A j \in off : /\ j \in 1 .. m /\ j # 1
                         /\ moved[j].current = kNoMoreDocs \/ moved[j].current # c
      OBVIOUS
    <3> HIDE DEF off
    <3>3. QED  BY <3>1, <3>2
  <2>3. e = moved[j].current /\ e \in Word /\ e \in Nat /\ c <= e /\ e <= kNoMoreDocs
    BY <1>2, <1>4, <2>2
  <2> HIDE DEF off
  <2> HIDE DEF e
  <2>4. CASE e = kNoMoreDocs
    <3>1. y = [it |-> Ended([x EXCEPT !.kids = upTo]), on |-> FALSE]
      BY <1>3, <1>8, <2>4
    <3>2. ASSUME NEW b \in Word, Together(m, Ss, S, Vs, K, b), NEW d \in S
          PROVE  d < b
      <4>1. IsFirst(moved[j].current, Ss[j], c)
        BY <1>6, <3>2 DEF IsAt
      <4>2. \A z \in Ss[j] : z < c
        BY <1>2, <2>3, <2>4, <4>1, DocsAreWords DEF IsFirst
      <4>3. d >= b => d \in Nat /\ c <= d /\ d \in Ss[j]
        BY <1>6, <3>2
      <4>4. d \in Nat /\ b \in Nat
        BY <1>1, DocsAreWords, Numbers
      <4>5. QED  BY <1>2, <4>2, <4>3, <4>4
    <3> HIDE DEF upTo
    <3>3. RoundLeaves(n, m, Ss, S, F, Xs, Vs, x.kids, y)
      BY <1>1, <1>2, <1>5, <3>1, <3>2, RoundEnds DEF c
    <3>4. QED  BY <3>3 DEF x, y
  <2>5. CASE e # kNoMoreDocs
    <3>1. e > c /\ e <= e
      BY <1>2, <2>2, <2>3, <2>5
    <3>2. /\ lead \in Xs[1] /\ lead \in DocIdSetIterator[n] /\ lead.current \in Nat
          /\ lead.current \in Word /\ lead.current >= e
      <4>1. lead \in Xs[1] /\ lead.current >= e
        <5>1. e \in Calls
          BY <2>3, Numbers
        <5>2. /\ \A call \in Calls : Moved[n][K[1]][call] \in Xs[1]
              /\ \A w \in Word : Moved[n][K[1]][w].current >= w
          <6> HIDE DEF K, lead, led, upTo
          <6>1. QED  BY <1>1, KidsAre
        <5>3. QED  BY <2>3, <5>1, <5>2
      <4> HIDE DEF lead
      <4>2. lead \in DocIdSetIterator[n]
        BY <1>1, <1>2, <4>1
      <4>3. QED  BY <1>1, <4>1, <4>2, HeightIs, Numbers
    <3>3. Kids(n, m, Xs, led) /\ led[1] = lead
          /\ \A i \in 1 .. m : i # 1 => led[i] = upTo[i]
      <4> HIDE DEF upTo, lead
      <4>1. upTo \in [1 .. m -> DocIdSetIterator[n]] /\ \A i \in 1 .. m : upTo[i] \in Xs[i]
        BY <1>5 DEF Kids
      <4>2. led \in [1 .. m -> DocIdSetIterator[n]]
        BY <1>1, <3>2, <4>1
      <4>3. led[1] = lead /\ \A i \in 1 .. m : i # 1 => led[i] = upTo[i]
        BY <1>1, <4>1
      <4> HIDE DEF led
      <4>4. \A i \in 1 .. m : led[i] \in Xs[i]
        BY <3>2, <4>1, <4>3
      <4>5. QED  BY <4>2, <4>3, <4>4 DEF Kids
    <3>4. ASSUME NEW b \in Word, Together(m, Ss, S, Vs, K, b)
          PROVE  /\ IsAt(lead, e, Ss[1], Vs[1])
                 /\ \A d \in S : d >= b => e <= d /\ lead.current <= d /\ d < kNoMoreDocs
      <4>1. IsAt(lead, e, Ss[1], Vs[1])
        BY <1>1, <1>6, <2>3, <3>4
      <4>2. ASSUME NEW d \in S, d >= b PROVE e <= d /\ lead.current <= d /\ d < kNoMoreDocs
        <5>1. d \in Nat /\ c <= d /\ d \in Ss[j] /\ d \in Ss[1] /\ d < kNoMoreDocs
          BY <1>1, <1>6, <3>4, <4>2
        <5>2. IsFirst(moved[j].current, Ss[j], c)
          BY <1>6, <3>4 DEF IsAt
        <5>3. e <= d
          BY <2>3, <2>5, <5>1, <5>2 DEF IsFirst
        <5>4. IsFirst(lead.current, Ss[1], e)
          BY <4>1 DEF IsAt
        <5> HIDE DEF lead
        <5>5. lead.current <= d
          <6>1. \A z \in Ss[1] : z >= e => lead.current <= z
            BY <1>1, <1>2, <2>3, <5>4, FirstIs
          <6>2. QED  BY <2>3, <5>1, <5>3, <6>1
        <5>6. QED  BY <5>1, <5>3, <5>5
      <4>3. QED  BY <4>1, <4>2
    <3>5. CASE lead.current = kNoMoreDocs
      <4>1. y = [it |-> Ended([x EXCEPT !.kids = led]), on |-> FALSE]
        BY <1>3, <1>8, <2>5, <3>5
      <4> HIDE DEF lead, led, upTo
      <4>2. ASSUME NEW b \in Word, Together(m, Ss, S, Vs, K, b), NEW d \in S
            PROVE  d < b
        <5>1. d \in Nat /\ b \in Nat
          BY <1>1, DocsAreWords, Numbers
        <5>2. ~(d >= b)
          <6>1. d >= b => lead.current <= d /\ d < kNoMoreDocs
            BY <3>4, <4>2
          <6>2. QED  BY <1>1, <3>5, <5>1, <6>1
        <5>3. QED  BY <5>1, <5>2
      <4>3. RoundLeaves(n, m, Ss, S, F, Xs, Vs, x.kids, y)
        BY <1>1, <1>2, <3>3, <4>1, <4>2, RoundEnds DEF c
      <4>4. QED  BY <4>3 DEF x, y
    <3>6. CASE lead.current # kNoMoreDocs
      <4>1. y = [it |-> [x EXCEPT !.kids = led], on |-> TRUE]
        BY <1>3, <1>8, <2>5, <3>6
      <4> HIDE DEF lead, led
      <4>2. /\ led[1].current > c /\ led[1].current >= e /\ led[1].current \in Word
            /\ led[1].current \in Nat /\ c <= led[1].current /\ e <= led[1].current
        <5>1. PICK l \in Nat : l = lead.current /\ l >= e
          BY <3>2
        <5>2. l > c /\ c <= l /\ e <= l
          BY <1>2, <2>3, <3>1, <5>1
        <5>3. QED  BY <3>2, <3>3, <5>1, <5>2
      <4>3. ASSUME NEW b \in Word, Together(m, Ss, S, Vs, K, b)
            PROVE  Together(m, Ss, S, Vs, led, b)
        <5>1. led[1].current >= b
          <6>1. c >= b /\ b \in Nat
            BY <4>3, Numbers DEF Together, c
          <6>2. QED  BY <1>2, <4>2, <6>1
        <5>2. ASSUME NEW i \in 1 .. m PROVE Reached(led[i], led[1].current, Ss[i], Vs[i])
          <6>1. CASE i = 1
            BY <2>3, <3>3, <3>4, <4>2, <4>3, <6>1 DEF Reached
          <6>2. CASE i # 1
            <7>1. Reached(upTo[i], led[1].current, Ss[i], Vs[i])
              BY <1>6, <4>2, <4>3
            <7>2. QED  BY <3>3, <6>2, <7>1
          <6>3. QED  BY <6>1, <6>2
        <5>3. \A d \in S : d >= b => led[1].current <= d
          BY <3>3, <3>4, <4>3
        <5>4. QED  BY <5>1, <5>2, <5>3 DEF Together
      <4> HIDE DEF upTo
      <4>4. RoundLeaves(n, m, Ss, S, F, Xs, Vs, x.kids, y)
        BY <1>1, <1>2, <3>3, <4>1, <4>2, <4>3, RoundGoesOn DEF c
      <4>5. QED  BY <4>4 DEF x, y
    <3>7. QED  BY <3>5, <3>6
  <2>6. QED  BY <2>4, <2>5
<1>9. QED  BY <1>7, <1>8

\* The rounds end, each further on than the last, and with what they are for.
LEMMA LeapfrogIs ==
    ASSUME NEW n, NEW m, NEW Ss, NEW Fs, NEW Xs, NEW Vs, Family(n, m, Ss, Fs, Xs, Vs),
           NEW S, NEW F, AllOf(m, Ss, S), SumsAll(m, Ss, Fs, S, F),
           NEW x \in NodesOver("and", n, m, S, Xs)
    PROVE  /\ Leapfrog(x, Moved[n]) \in NodesOver("and", n, m, S, Xs)
           /\ Leapfrog(x, Moved[n]).current >= x.kids[1].current
           /\ \A b \in Word : Together(m, Ss, S, Vs, x.kids, b) =>
                  IsAt(Leapfrog(x, Moved[n]), b, S, AllAt(n, m, Ss, S, F, Xs, Vs))
<1> DEFINE L == Loops(n, m, S, Xs)
           R(s) == Round(s, Moved[n])
           start == [it |-> x, on |-> TRUE]
           base == [k \in Nat |-> start]
           P == [k \in Nat \ {0} |-> k - 1]
           G == [p \in (Nat \ {0}) \X L |-> R(p[2])]
           h == [k \in Nat |-> k]
           Def(f) == [k \in Nat |-> IF k = 0 THEN start ELSE R(f[k - 1])]
<1>1. start \in L
  BY DEF Loops
<1>2. \A s \in L : ~s.on => R(s) = s
  BY DEF Round
<1> HIDE DEF R
<1>3. \A s \in L : s.on => RoundLeaves(n, m, Ss, S, F, Xs, Vs, s.it.kids, R(s))
  BY RoundIs DEF R
<1>4. \A s \in L : s.it \in NodesOver("and", n, m, S, Xs) /\ s.on \in BOOLEAN
  BY DEF Loops
<1> HIDE DEF L
<1>5. \A s \in L : R(s) \in L
  <2>1. ASSUME NEW s \in L PROVE R(s) \in L
    <3>1. CASE s.on
      BY <1>3, <3>1 DEF RoundLeaves, L
    <3>2. CASE ~s.on
      BY <1>2, <3>2
    <3>3. QED  BY <3>1, <3>2
  <2>2. QED  BY <2>1
<1>6. PICK f \in [Nat -> L] : Unfolds(f, Nat, {0}, base, P, G)
  <2>1. Decreases(Nat, L, {0}, base, P, G, h)
    <3> HIDE DEF start
    <3>1. QED  BY <1>1, <1>5 DEF Decreases
  <2> HIDE DEF base, P, G, h
  <2>2. QED  BY <2>1, Recursion
<1>7. f = Def(f)
  <2> HIDE DEF start
  <2>1. ASSUME NEW k \in Nat PROVE f[k] = IF k = 0 THEN start ELSE R(f[k - 1])
    <3>1. k # 0 => k - 1 \in Nat /\ P[k] = k - 1 /\ f[P[k]] \in L
      OBVIOUS
    <3>2. k # 0 => G[<<k, f[P[k]]>>] = R(f[k - 1])
      BY <3>1
    <3>3. QED  BY <1>6, <3>2 DEF Unfolds
  <2>2. QED  BY <2>1
<1>8. PICK g : g = Def(g) /\ Leapfrog(x, Moved[n]) = g[WordMax + 1].it
  BY <1>7 DEF Leapfrog, R
<1> HIDE DEF start
<1>9. g[0] = start
  BY <1>8
<1>10. ASSUME NEW k \in Nat PROVE g[k + 1] = R(g[k])
  <2>1. k + 1 \in Nat /\ k + 1 # 0 /\ (k + 1) - 1 = k
    OBVIOUS
  <2>2. g[k + 1] = R(g[(k + 1) - 1])
    BY <1>8, <2>1
  <2>3. QED  BY <2>1, <2>2
<1> HIDE DEF Def
<1>11. PICK c \in Nat : c = x.kids[1].current
  <2>1. Kids(n, m, Xs, x.kids) /\ 1 \in 1 .. m
    BY DEF NodesOver, Family
  <2>2. QED  BY <2>1, KidsAre
<1> DEFINE V == AllAt(n, m, Ss, S, F, Xs, Vs)
           Good(k) == /\ g[k] \in L
                      /\ g[k].on => g[k].it.kids[1].current >= c + k
                      /\ ~g[k].on => g[k].it.current >= c
                      /\ \A b \in Word : Together(m, Ss, S, Vs, x.kids, b) =>
                             IF g[k].on THEN Together(m, Ss, S, Vs, g[k].it.kids, b)
                             ELSE IsAt(g[k].it, b, S, V)
           T == {k \in Nat : Good(k)}
<1> HIDE DEF V
<1>12. 0 \in T
  <2>1. g[0] \in L /\ g[0].on = TRUE /\ g[0].it = x
    BY <1>1, <1>9 DEF start
  <2>2. c >= c + 0
    OBVIOUS
  <2>3. QED  BY <1>11, <2>1, <2>2
<1>13. ASSUME NEW s \in L
       PROVE  /\ s.it.kids[1].current \in Nat /\ s.it.kids[1].current <= kNoMoreDocs
              /\ s.it.current \in Nat
  <2>1. PICK z : z = s.it
    OBVIOUS
  <2>2. z \in NodesOver("and", n, m, S, Xs)
    BY <1>4, <2>1
  <2>3. Kids(n, m, Xs, z.kids) /\ 1 \in 1 .. m /\ z.current \in Word
    BY <2>2 DEF NodesOver, Nodes, Family
  <2>4. QED  BY <2>1, <2>3, KidsAre, Numbers
<1>14. ASSUME NEW k \in Nat, k \in T PROVE k + 1 \in T
  <2>1. g[k + 1] = R(g[k]) /\ g[k] \in L /\ g[k + 1] \in L
    BY <1>5, <1>10, <1>14
  <2>2. CASE ~g[k].on
    <3>1. g[k + 1] = g[k]
      BY <1>2, <2>1, <2>2
    <3>2. QED  BY <1>14, <2>2, <3>1
  <2>3. CASE g[k].on
    <3>1. RoundLeaves(n, m, Ss, S, F, Xs, Vs, g[k].it.kids, g[k + 1])
      BY <1>3, <2>1, <2>3
    <3>2. g[k].it.kids[1].current >= c + k
      BY <1>14, <2>3
    <3>3. /\ g[k].it.kids[1].current \in Nat /\ g[k + 1].it.kids[1].current \in Nat
          /\ g[k + 1].it.current \in Nat
      BY <1>13, <2>1
    <3>4. g[k + 1].on => g[k + 1].it.kids[1].current >= c + (k + 1)
      BY <3>1, <3>2, <3>3 DEF RoundLeaves
    <3>5. ~g[k + 1].on => g[k + 1].it.current >= c
      BY <3>1, <3>2, <3>3 DEF RoundLeaves
    <3>6. ASSUME NEW b \in Word, Together(m, Ss, S, Vs, x.kids, b)
          PROVE  IF g[k + 1].on THEN Together(m, Ss, S, Vs, g[k + 1].it.kids, b)
                 ELSE IsAt(g[k + 1].it, b, S, V)
      <4>1. Together(m, Ss, S, Vs, g[k].it.kids, b)
        BY <1>14, <2>3, <3>6
      <4>2. QED  BY <3>1, <4>1 DEF RoundLeaves, V
    <3>7. QED  BY <2>1, <3>4, <3>5, <3>6
  <2>4. QED  BY <2>2, <2>3
<1>15. WordMax + 1 \in Nat /\ WordMax + 1 \in T
  <2> HIDE DEF T
  <2>1. WordMax + 1 \in Nat
    BY Numbers
  <2>2. \A k \in Nat : k \in T
    BY <1>12, <1>14, Induction
  <2>3. QED  BY <2>1, <2>2
<1>16. PICK e : e = g[WordMax + 1]
  OBVIOUS
<1>17. e \in L /\ ~e.on
  <2>1. e \in L /\ (e.on => e.it.kids[1].current >= c + (WordMax + 1))
    BY <1>15, <1>16
  <2>2. e.it.kids[1].current \in Nat /\ e.it.kids[1].current <= kNoMoreDocs
    BY <1>13, <2>1
  <2>3. ~(e.it.kids[1].current >= c + (WordMax + 1))
    BY <2>2, Numbers
  <2>4. QED  BY <2>1, <2>3
<1>18. e.it.current >= c /\ \A b \in Word : Together(m, Ss, S, Vs, x.kids, b) => IsAt(e.it, b, S, V)
  BY <1>15, <1>16, <1>17
<1>19. Leapfrog(x, Moved[n]) = e.it /\ e.it \in NodesOver("and", n, m, S, Xs)
  BY <1>4, <1>8, <1>16, <1>17
<1>20. QED  BY <1>11, <1>18, <1>19 DEF V

\* The first child has moved, and the others follow it.
LEMMA LedIs ==
    ASSUME NEW n, NEW m, NEW Ss, NEW Fs, NEW Xs, NEW Vs, Family(n, m, Ss, Fs, Xs, Vs),
           NEW S, NEW F, AllOf(m, Ss, S), SumsAll(m, Ss, Fs, S, F),
           NEW x \in NodesOver("and", n, m, S, Xs), NEW call \in Calls,
           NEW lead, lead = Moved[n][x.kids[1]][call]
    PROVE  /\ Led(x, call, Moved[n]) \in NodesOver("and", n, m, S, Xs)
           /\ Led(x, call, Moved[n]).current >= lead.current
           /\ \A b \in Word :
                  /\ IsAt(lead, b, Ss[1], Vs[1])
                  /\ \A i \in 2 .. m : Reached(x.kids[i], b, Ss[i], Vs[i])
                  => IsAt(Led(x, call, Moved[n]), b, S, AllAt(n, m, Ss, S, F, Xs, Vs))
<1> DEFINE kids == [x.kids EXCEPT ![1] = lead]
           z == [x EXCEPT !.kids = kids]
           y == Led(x, call, Moved[n])
           V == AllAt(n, m, Ss, S, F, Xs, Vs)
<1>1. /\ Kids(n, m, Xs, x.kids) /\ S \in DocSet
      /\ n \in Nat /\ m \in Nat /\ m > 1 /\ 1 \in 1 .. m /\ kNoMoreDocs \in Nat
  BY Numbers DEF NodesOver, AllOf, Family
<1>2. DOMAIN x.kids = 1 .. m /\ x.kids \in [1 .. m -> DocIdSetIterator[n]]
  BY <1>1 DEF Kids
<1>3. y = IF z.kids[1].current = kNoMoreDocs THEN Ended(z) ELSE Leapfrog(z, Moved[n])
  BY <1>2 DEF Led
<1>4. /\ lead \in Xs[1] /\ lead \in DocIdSetIterator[n] /\ lead.current \in Nat
      /\ lead.current \in Word /\ lead.current <= kNoMoreDocs /\ Ss[1] \in DocSet
      /\ lead.current \in Ss[1] \cup {kNoMoreDocs}
  <2>1. /\ Moved[n][x.kids[1]][call] \in Xs[1] /\ Xs[1] \subseteq DocIdSetIterator[n]
        /\ Ss[1] \in DocSet /\ Walks(Moved[n], DocIdSetIterator[n], Ss[1], Fs[1], Xs[1], Vs[1])
    BY <1>1, KidsAre
  <2>2. lead \in Xs[1] /\ lead \in DocIdSetIterator[n]
    BY <2>1
  <2>3. lead.current \in Word
    BY <1>1, <2>2, HeightIs
  <2>4. lead.current \in Ss[1] \cup {kNoMoreDocs}
    BY <2>1, <2>2 DEF Walks
  <2>5. QED  BY <2>1, <2>2, <2>3, <2>4, Numbers
<1>5. Kids(n, m, Xs, kids) /\ kids[1] = lead /\ \A i \in 2 .. m : kids[i] = x.kids[i]
  <2>1. kids \in [1 .. m -> DocIdSetIterator[n]]
    BY <1>2, <1>4
  <2>2. kids[1] = lead /\ \A i \in 2 .. m : kids[i] = x.kids[i]
    BY <1>1, <1>2
  <2>3. \A i \in 1 .. m : i = 1 \/ i \in 2 .. m
    BY <1>1
  <2>4. \A i \in 1 .. m : x.kids[i] \in Xs[i]
    BY <1>1 DEF Kids
  <2>5. \A i \in 2 .. m : i \in 1 .. m
    BY <1>1
  <2> HIDE DEF kids
  <2>6. \A i \in 1 .. m : kids[i] \in Xs[i]
    BY <1>4, <2>2, <2>3, <2>4
  <2>7. QED  BY <2>1, <2>2, <2>6 DEF Kids
<1> HIDE DEF kids
<1>6. PICK kind : kind = "and"
  OBVIOUS
<1>7. z \in NodesOver(kind, n, m, S, Xs) /\ z.kids = kids
  BY <1>1, <1>5, <1>6, Replaced
<1> HIDE DEF z, y
<1>8. z \in NodesOver("and", n, m, S, Xs) /\ z.kids[1] = lead
  BY <1>5, <1>6, <1>7
<1>9. CASE lead.current = kNoMoreDocs
  <2>1. y = Ended(z)
    BY <1>3, <1>8, <1>9
  <2>2. y \in NodesOver("and", n, m, S, Xs) /\ y.current = kNoMoreDocs
    BY <1>1, <1>6, <1>7, <2>1, EndedIs
  <2>3. ASSUME NEW b \in Word, IsAt(lead, b, Ss[1], Vs[1]) PROVE IsAt(y, b, S, V)
    <3>1. \A d \in Ss[1] : d < b
      BY <1>4, <1>9, <2>3, FirstIs, Numbers DEF IsAt
    <3>2. \A d \in S : d < b
      BY <1>1, <3>1 DEF AllOf
    <3>3. QED  BY <2>2, <3>2 DEF IsAt, IsFirst
  <2>4. QED  BY <1>1, <1>9, <2>2, <2>3 DEF y
<1>10. CASE lead.current # kNoMoreDocs
  <2>1. y = Leapfrog(z, Moved[n])
    BY <1>3, <1>8, <1>10
  <2>2. /\ y \in NodesOver("and", n, m, S, Xs) /\ y.current >= lead.current
        /\ \A b \in Word : Together(m, Ss, S, Vs, z.kids, b) => IsAt(y, b, S, V)
    BY <1>8, <2>1, LeapfrogIs
  <2>3. ASSUME NEW b \in Word, IsAt(lead, b, Ss[1], Vs[1]),
               \A i \in 2 .. m : Reached(x.kids[i], b, Ss[i], Vs[i])
        PROVE  IsAt(y, b, S, V)
    <3>1. IsFirst(lead.current, Ss[1], b) /\ b \in Nat
      BY <2>3, Numbers DEF IsAt
    <3>2. b <= lead.current /\ lead.current >= b /\ \A d \in Ss[1] : d >= b => lead.current <= d
      BY <1>4, <1>10, <3>1, FirstIs
    <3>3. ASSUME NEW i \in 1 .. m PROVE Reached(kids[i], lead.current, Ss[i], Vs[i])
      <4>1. CASE i = 1
        BY <1>5, <2>3, <3>2, <4>1 DEF Reached
      <4>2. CASE i # 1
        <5>1. i \in 2 .. m
          BY <1>1, <4>2
        <5>2. PICK u \in Word : u <= b /\ IsAt(x.kids[i], u, Ss[i], Vs[i])
          BY <2>3, <5>1 DEF Reached
        <5>3. u \in Nat /\ b \in Nat /\ lead.current \in Nat
          BY <1>4, <3>1, Numbers
        <5>4. u <= lead.current
          BY <3>2, <5>2, <5>3
        <5>5. QED  BY <1>5, <5>1, <5>2, <5>4 DEF Reached
      <4>3. QED  BY <4>1, <4>2
    <3>4. \A d \in S : d \in Ss[1]
      BY <1>1 DEF AllOf
    <3>5. Together(m, Ss, S, Vs, kids, b)
      BY <1>5, <3>2, <3>3, <3>4 DEF Together
    <3>6. QED  BY <1>7, <2>2, <3>5
  <2>4. QED  BY <2>2, <2>3 DEF y
<1>11. QED  BY <1>9, <1>10

\* A call of an iterator over all of the children.
LEMMA ConjunctionMoved ==
    ASSUME NEW n, NEW m, NEW Ss, NEW Fs, NEW Xs, NEW Vs, Family(n, m, Ss, Fs, Xs, Vs),
           NEW S, NEW F, AllOf(m, Ss, S), SumsAll(m, Ss, Fs, S, F),
           NEW x \in NodesOver("and", n, m, S, Xs)
    PROVE  /\ x \in DocIdSetIterator[n + 1] /\ x.current \in S \cup {kNoMoreDocs}
           /\ x.current \in Nat /\ x.current <= kNoMoreDocs
           /\ Moved[n + 1][x][ToNext] = ConjunctionNext(x, Moved[n])
           /\ \A t \in Word : Moved[n + 1][x][t] = ConjunctionAdvance(x, t, Moved[n])
<1>1. /\ n \in Nat /\ x.kind = "and" /\ x \in Nodes(n + 1, DocIdSetIterator[n])
      /\ x.current \in S \cup {kNoMoreDocs} /\ x.current \in Word
  BY DEF Family, NodesOver, Nodes
<1>2. ASSUME NEW call \in Calls
      PROVE  x \in DocIdSetIterator[n + 1] /\ Moved[n + 1][x][call] = NodeMoved(x, call, Moved[n])
  BY <1>1, MovedIs
<1>3. NodeMoved(x, ToNext, Moved[n]) = ConjunctionNext(x, Moved[n])
  BY <1>1 DEF NodeMoved
<1>4. \A t \in Word : NodeMoved(x, t, Moved[n]) = ConjunctionAdvance(x, t, Moved[n])
  BY <1>1, Numbers DEF NodeMoved
<1>5. QED  BY <1>1, <1>2, <1>3, <1>4, Numbers

\* Next of a conjunction goes to the next document of all children.
LEMMA ConjunctionOnward ==
    ASSUME NEW n, NEW m, NEW Ss, NEW Fs, NEW Xs, NEW Vs, Family(n, m, Ss, Fs, Xs, Vs),
           NEW S, NEW F, AllOf(m, Ss, S), SumsAll(m, Ss, Fs, S, F),
           NEW x \in NodesOver("and", n, m, S, Xs)
    PROVE  /\ Moved[n + 1][x][ToNext] \in NodesOver("and", n, m, S, Xs)
           /\ \A b \in Word : <<x, b>> \in AllAt(n, m, Ss, S, F, Xs, Vs) =>
                  IsAt(Moved[n + 1][x][ToNext], x.current + 1, S, AllAt(n, m, Ss, S, F, Xs, Vs))
<1> DEFINE y == Moved[n + 1][x][ToNext]
           V == AllAt(n, m, Ss, S, F, Xs, Vs)
<1>1. y = IF x.current = kNoMoreDocs THEN Leapfrog(x, Moved[n]) ELSE Led(x, ToNext, Moved[n])
  BY ConjunctionMoved DEF ConjunctionNext
<1> HIDE DEF y
<1>2. y \in NodesOver("and", n, m, S, Xs)
  BY <1>1, LeapfrogIs, LedIs, Numbers
<1>3. ASSUME NEW b \in Word, <<x, b>> \in V PROVE IsAt(y, x.current + 1, S, V)
  <2>1. /\ x.current # kNoMoreDocs /\ x.kids[1].current = x.current
        /\ \A i \in 1 .. m : Reached(x.kids[i], x.current, Ss[i], Vs[i])
    BY <1>3 DEF AllAt
  <2>2. x.current \in S /\ x.current \in Word /\ x.current \in Nat /\ x.current + 1 \in Word
    BY <2>1, ConjunctionMoved, DocsAreWords DEF AllOf
  <2>3. Kids(n, m, Xs, x.kids) /\ 1 \in 1 .. m /\ \A i \in 2 .. m : i \in 1 .. m
    BY DEF NodesOver, Family
  <2>4. PICK lead : lead = Moved[n][x.kids[1]][ToNext]
    OBVIOUS
  <2>5. IsAt(lead, x.current + 1, Ss[1], Vs[1])
    BY <2>1, <2>2, <2>3, <2>4, ChildAt
  <2>6. \A i \in 2 .. m : Reached(x.kids[i], x.current + 1, Ss[i], Vs[i])
    <3>1. ASSUME NEW i \in 2 .. m PROVE Reached(x.kids[i], x.current + 1, Ss[i], Vs[i])
      <4>1. PICK u \in Word : u <= x.current /\ IsAt(x.kids[i], u, Ss[i], Vs[i])
        BY <2>1, <2>3 DEF Reached
      <4>2. u <= x.current + 1
        BY <2>2, <4>1, Numbers
      <4>3. QED  BY <4>1, <4>2 DEF Reached
    <3>2. QED  BY <3>1
  <2>7. y = Led(x, ToNext, Moved[n])
    BY <1>1, <2>1
  <2>8. QED  BY <2>2, <2>4, <2>5, <2>6, <2>7, LedIs, Numbers
<1>4. QED  BY <1>2, <1>3 DEF y

\* Advance of a conjunction goes to the first document of all children from its
\* target on.
LEMMA ConjunctionTo ==
    ASSUME NEW n, NEW m, NEW Ss, NEW Fs, NEW Xs, NEW Vs, Family(n, m, Ss, Fs, Xs, Vs),
           NEW S, NEW F, AllOf(m, Ss, S), SumsAll(m, Ss, Fs, S, F),
           NEW x \in NodesOver("and", n, m, S, Xs), NEW t \in Word
    PROVE  /\ Moved[n + 1][x][t] \in NodesOver("and", n, m, S, Xs)
           /\ Moved[n + 1][x][t].current >= t
           /\ \A b \in Word : <<x, b>> \in AllAt(n, m, Ss, S, F, Xs, Vs) /\ b <= t =>
                  IsAt(Moved[n + 1][x][t], t, S, AllAt(n, m, Ss, S, F, Xs, Vs))
<1> DEFINE y == Moved[n + 1][x][t]
           V == AllAt(n, m, Ss, S, F, Xs, Vs)
           Here == x.current >= t /\ x.current # kNoMoreDocs
<1>1. y = IF Here THEN x ELSE Led(x, t, Moved[n])
  BY ConjunctionMoved DEF ConjunctionAdvance
<1>2. /\ Kids(n, m, Xs, x.kids) /\ 1 \in 1 .. m /\ t \in Nat /\ t <= kNoMoreDocs
      /\ x.current \in Nat /\ x.current \in Word /\ S \in DocSet /\ t \in Calls
      /\ \A i \in 2 .. m : i \in 1 .. m
  <2>1. Kids(n, m, Xs, x.kids) /\ 1 \in 1 .. m /\ S \in DocSet /\ \A i \in 2 .. m : i \in 1 .. m
    BY DEF NodesOver, Family, AllOf
  <2>2. t \in Nat /\ t <= kNoMoreDocs /\ t \in Calls
    BY Numbers
  <2>3. x.current \in Nat /\ x.current \in Word
    BY ConjunctionMoved, Numbers
  <2>4. QED  BY <2>1, <2>2, <2>3
<1> HIDE DEF y
<1>3. CASE Here
  <2>1. y = x
    BY <1>1, <1>3
  <2>2. ASSUME NEW b \in Word, <<x, b>> \in V, b <= t PROVE IsAt(x, t, S, V)
    <3>1. IsFirst(x.current, S, b) /\ b \in Nat
      BY <2>2, Numbers DEF AllAt
    <3>2. x.current \in S /\ \A d \in S : d >= b => x.current <= d
      BY <1>3, <3>1 DEF IsFirst
    <3>3. \A d \in S : d \in Nat
      BY <1>2, DocsAreWords
    <3>4. IsFirst(x.current, S, t)
      BY <1>2, <1>3, <2>2, <3>1, <3>2, <3>3 DEF IsFirst
    <3>5. <<x, t>> \in V
      BY <2>2, <3>4 DEF AllAt
    <3>6. QED  BY <3>4, <3>5 DEF IsAt
  <2>3. QED  BY <1>3, <2>1, <2>2 DEF y
<1>4. CASE ~Here
  <2>1. y = Led(x, t, Moved[n])
    BY <1>1, <1>4
  <2>2. PICK lead : lead = Moved[n][x.kids[1]][t]
    OBVIOUS
  <2>3. lead.current >= t /\ lead.current \in Nat
    <3>1. lead.current >= t /\ lead \in Xs[1] /\ Xs[1] \subseteq DocIdSetIterator[n]
      BY <1>2, <2>2, KidsAre
    <3>2. n \in Nat /\ lead \in DocIdSetIterator[n]
      BY <3>1 DEF Family
    <3>3. QED  BY <3>1, <3>2, HeightIs, Numbers
  <2>4. y \in NodesOver("and", n, m, S, Xs) /\ y.current >= lead.current
    BY <1>2, <2>1, <2>2, LedIs
  <2>5. y.current >= t
    <3>1. y.current \in Nat
      BY <2>4, ConjunctionMoved
    <3>2. QED  BY <1>2, <2>3, <2>4, <3>1
  <2>6. ASSUME NEW b \in Word, <<x, b>> \in V, b <= t PROVE IsAt(y, t, S, V)
    <3>1. /\ x.current # kNoMoreDocs /\ x.current < t
          /\ \A i \in 1 .. m : Reached(x.kids[i], x.current, Ss[i], Vs[i])
      BY <1>2, <1>4, <2>6 DEF AllAt
    <3>2. ASSUME NEW i \in 1 .. m
          PROVE  Reached(x.kids[i], t, Ss[i], Vs[i]) /\ IsAt(Moved[n][x.kids[i]][t], t, Ss[i], Vs[i])
      <4>1. x.current <= t /\ Reached(x.kids[i], x.current, Ss[i], Vs[i])
        BY <1>2, <3>1
      <4>2. QED  BY <1>2, <4>1, ChildTo
    <3>3. IsAt(lead, t, Ss[1], Vs[1]) /\ \A i \in 2 .. m : Reached(x.kids[i], t, Ss[i], Vs[i])
      BY <1>2, <2>2, <3>2
    <3>4. QED  BY <1>2, <2>1, <2>2, <3>3, LedIs
  <2>7. QED  BY <2>4, <2>5, <2>6 DEF y
<1>5. QED  BY <1>3, <1>4

\* A new iterator over all of its children, that are in their order.
LEMMA PrimedKeeps ==
    ASSUME NEW n, NEW m, NEW Ss, NEW Fs, NEW Xs, NEW Vs, Family(n, m, Ss, Fs, Xs, Vs),
           NEW S, NEW F, AllOf(m, Ss, S), SumsAll(m, Ss, Fs, S, F),
           NEW order, NewKids(n, m, Ss, Xs, Vs, order), NEW cost \in Nat
    PROVE  Keeps(n + 1, Over("and", n + 1, cost, Primed(order, Moved[n])), S, F)
<1> DEFINE X == NodesOver("and", n, m, S, Xs)
           V == AllAt(n, m, Ss, S, F, Xs, Vs)
           first == [i \in 1 .. m |-> Moved[n][order[i]][ToNext]]
           empty == {i \in 1 .. m : first[i].current = kNoMoreDocs}
           kids == [i \in 1 .. m |-> IF \A j \in empty : i <= j THEN first[i] ELSE order[i]]
           it == Over("and", n + 1, cost, kids)
<1>1. /\ n \in Nat /\ m \in Nat /\ m > 1 /\ 1 \in 1 .. m /\ n + 1 \in Nat
      /\ S \in DocSet /\ Kids(n, m, Xs, order) /\ DOMAIN order = 1 .. m
  BY DEF Family, AllOf, NewKids, Kids
<1>2. Primed(order, Moved[n]) = kids
  BY <1>1 DEF Primed
<1>3. ASSUME NEW i \in 1 .. m
      PROVE  /\ first[i] \in Xs[i] /\ first[i] \in DocIdSetIterator[n]
             /\ order[i] \in Xs[i] /\ order[i] \in DocIdSetIterator[n]
             /\ IsAt(first[i], 0, Ss[i], Vs[i]) /\ Ss[i] \in DocSet
  <2>1. /\ Moved[n][order[i]][ToNext] \in Xs[i] /\ Xs[i] \subseteq DocIdSetIterator[n]
        /\ order[i] \in Xs[i] /\ Ss[i] \in DocSet
    BY <1>1, KidsAre, Numbers
  <2>2. IsAt(Moved[n][order[i]][ToNext], 0, Ss[i], Vs[i])
    BY DEF NewKids
  <2>3. QED  BY <2>1, <2>2
<1> HIDE DEF first
<1>4. Kids(n, m, Xs, kids)
  BY <1>3 DEF Kids
<1>5. it \in X /\ it.kids = kids /\ it.current = kNoMoreDocs
  <2> HIDE DEF kids
  <2>1. kids \in Seq(DocIdSetIterator[n])
    BY <1>1, <1>4, KidsAre
  <2>2. /\ it \in [kind : {"and", "or"}, height : {n + 1}, cost : Nat,
                 kids : Seq(DocIdSetIterator[n]), current : Word, freq : Word]
        /\ it.kind = "and" /\ it.kids = kids /\ it.current = kNoMoreDocs
    BY <1>1, <2>1, Numbers DEF Over
  <2> HIDE DEF it
  <2>3. PICK kind : kind = "and"
    OBVIOUS
  <2>4. it \in NodesOver(kind, n, m, S, Xs)
    BY <1>1, <1>4, <2>2, <2>3, OverIs
  <2>5. QED  BY <2>2, <2>3, <2>4
<1> HIDE DEF it
<1>6. Walks(Moved[n + 1], DocIdSetIterator[n + 1], S, F, X, V)
  <2>1. X \subseteq DocIdSetIterator[n + 1] /\ \A x \in X : x.current \in S \cup {kNoMoreDocs}
    BY ConjunctionMoved
  <2>2. \A x \in X, call \in Calls : Moved[n + 1][x][call] \in X
    BY ConjunctionOnward, ConjunctionTo DEF Calls
  <2>3. \A x \in X, t \in Word : Moved[n + 1][x][t].current >= t
    BY ConjunctionTo
  <2>4. ASSUME NEW x \in X, NEW b \in Word, <<x, b>> \in V
        PROVE  /\ x.current # kNoMoreDocs /\ IsFirst(x.current, S, b) /\ Freq(x) = F[x.current]
               /\ \A t \in Word : t >= b => IsAt(Moved[n + 1][x][t], t, S, V)
               /\ IsAt(Moved[n + 1][x][ToNext], x.current + 1, S, V)
    <3>1. x.current # kNoMoreDocs /\ IsFirst(x.current, S, b) /\ Freq(x) = F[x.current]
      BY <2>4 DEF AllAt
    <3>2. \A t \in Word : t >= b => IsAt(Moved[n + 1][x][t], t, S, V)
      <4>1. \A t \in Word : t >= b => b <= t
        BY Numbers
      <4>2. QED  BY <2>4, <4>1, ConjunctionTo
    <3>3. IsAt(Moved[n + 1][x][ToNext], x.current + 1, S, V)
      BY <2>4, ConjunctionOnward
    <3>4. QED  BY <3>1, <3>2, <3>3
  <2> HIDE DEF X, V
  <2>5. QED  BY <2>1, <2>2, <2>3, <2>4 DEF Walks
<1>7. IsAt(Moved[n + 1][it][ToNext], 0, S, V)
  <2>1. Moved[n + 1][it][ToNext] = Leapfrog(it, Moved[n])
    BY <1>5, ConjunctionMoved DEF ConjunctionNext
  <2>2. PICK y : y = Leapfrog(it, Moved[n])
    OBVIOUS
  <2>3. y \in X /\ \A b \in Word : Together(m, Ss, S, Vs, it.kids, b) => IsAt(y, b, S, V)
    BY <1>5, <2>2, LeapfrogIs
  <2>4. CASE empty = {}
    <3>1. \A i \in 1 .. m : kids[i] = first[i]
      BY <2>4
    <3>2. \A i \in 1 .. m : kids[i].current \in Nat /\ kids[i].current \in Word
      <4> HIDE DEF kids
      <4>1. QED  BY <1>4, KidsAre
    <3> HIDE DEF kids, empty
    <3>3. \A i \in 1 .. m : Reached(kids[i], kids[1].current, Ss[i], Vs[i])
      BY <1>1, <1>3, <3>1, <3>2, Numbers DEF Reached
    <3>4. ASSUME NEW d \in S, d >= 0 PROVE kids[1].current <= d
      <4>1. IsFirst(kids[1].current, Ss[1], 0) /\ Ss[1] \in DocSet
        BY <1>1, <1>3, <3>1 DEF IsAt
      <4>2. d \in Ss[1]
        BY <1>1 DEF AllOf
      <4>3. PICK T : T = Ss[1] /\ T \in DocSet /\ IsFirst(kids[1].current, T, 0) /\ d \in T
        BY <4>1, <4>2
      <4>4. \A e \in T : e >= 0 => kids[1].current <= e
        BY <4>3, 0 \in Nat, FirstIs
      <4>5. QED  BY <3>4, <4>3, <4>4
    <3>5. Together(m, Ss, S, Vs, kids, 0)
      BY <1>1, <3>2, <3>3, <3>4 DEF Together
    <3>6. QED  BY <1>5, <2>1, <2>2, <2>3, <3>5, Numbers
  <2>5. CASE empty # {}
    <3>1. PICK i \in 1 .. m : first[i].current = kNoMoreDocs
      BY <2>5
    <3>2. \A d \in Ss[i] : d < 0
      BY <1>3, <3>1, 0 \in Nat, FirstIs DEF IsAt
    <3>3. ASSUME NEW d \in S PROVE FALSE
      <4>1. d \in Nat /\ d \in Ss[i]
        BY <1>1, DocsAreWords DEF AllOf
      <4>2. QED  BY <3>2, <4>1
    <3>4. y.current = kNoMoreDocs
      BY <2>3, <3>3, ConjunctionMoved
    <3>5. QED  BY <2>1, <2>2, <3>3, <3>4 DEF IsAt, IsFirst
  <2>6. QED  BY <2>4, <2>5
<1> HIDE DEF X, V
<1>8. QED  BY <1>2, <1>5, <1>6, <1>7 DEF Keeps, it

\* An iterator over all of the children walks over what all of them do.
LEMMA ConjunctionKeeps ==
    ASSUME NEW n, NEW m, NEW Ss, NEW Fs, NEW Xs, NEW Vs, Family(n, m, Ss, Fs, Xs, Vs),
           NEW S, NEW F, AllOf(m, Ss, S), SumsAll(m, Ss, Fs, S, F),
           \A i \in 1 .. m : \A d \in Ss[i] : Fs[i][d] \in Word,
           NEW kids, NewKids(n, m, Ss, Xs, Vs, kids)
    PROVE  Keeps(n + 1, ConjunctionIterator(kids, n + 1, Moved[n]), S, F)
<1>1. /\ n \in Nat /\ m \in Nat /\ m \in Nat \ {0} /\ m > 1 /\ 1 \in 1 .. m
      /\ S \in DocSet /\ kids \in [1 .. m -> DocIdSetIterator[n]]
  BY DEF Family, AllOf, NewKids, Kids
<1>2. PICK p : Permutes(p, m) /\ InOrder(kids) = [k \in 1 .. m |-> kids[p[k]]]
  BY <1>1, InOrderIs
<1> DEFINE order == [k \in 1 .. m |-> kids[p[k]]]
           Ts == [k \in 1 .. m |-> Ss[p[k]]]
           Gs == [k \in 1 .. m |-> Fs[p[k]]]
           Ys == [k \in 1 .. m |-> Xs[p[k]]]
           Ws == [k \in 1 .. m |-> Vs[p[k]]]
<1>3. \A k \in 1 .. m : p[k] \in 1 .. m
  BY <1>2 DEF Permutes
<1>4. \A k \in 1 .. m : /\ order[k] = kids[p[k]] /\ Ts[k] = Ss[p[k]] /\ Gs[k] = Fs[p[k]]
                        /\ Ys[k] = Xs[p[k]] /\ Ws[k] = Vs[p[k]]
  OBVIOUS
<1>5. order \in [1 .. m -> DocIdSetIterator[n]]
  BY <1>1, <1>3
<1> HIDE DEF order, Ts, Gs, Ys, Ws
<1>6. Family(n, m, Ts, Gs, Ys, Ws)
  BY <1>3, <1>4 DEF Family
<1>7. NewKids(n, m, Ts, Ys, Ws, order)
  BY <1>3, <1>4, <1>5 DEF NewKids, Kids
<1>8. AllOf(m, Ts, S)
  <2>1. ASSUME NEW d PROVE (\A i \in 1 .. m : d \in Ss[i]) <=> \A k \in 1 .. m : d \in Ts[k]
    <3>1. ASSUME \A k \in 1 .. m : d \in Ts[k], NEW i \in 1 .. m PROVE d \in Ss[i]
      <4>1. PICK k \in 1 .. m : p[k] = i
        BY <1>2 DEF Permutes
      <4>2. QED  BY <1>4, <3>1, <4>1
    <3>2. ASSUME \A i \in 1 .. m : d \in Ss[i], NEW k \in 1 .. m PROVE d \in Ts[k]
      BY <1>3, <1>4, <3>2
    <3>3. QED  BY <3>1, <3>2
  <2>2. QED  BY <2>1 DEF AllOf
<1>9. SumsAll(m, Ts, Gs, S, F)
  <2>1. ASSUME NEW d \in S PROVE F[d] = WordTotal([k \in 1 .. m |-> Gs[k][d]])
    <3> DEFINE f == [i \in 1 .. m |-> Fs[i][d]]
               g == [k \in 1 .. m |-> Gs[k][d]]
    <3>1. f \in [1 .. m -> Nat]
      <4>1. \A i \in 1 .. m : d \in Ss[i]
        BY DEF AllOf
      <4>2. QED  BY <4>1, Numbers
    <3>2. \A k \in 1 .. m : g[k] = f[p[k]]
      BY <1>3, <1>4
    <3>3. F[d] = WordTotal(f)
      BY DEF SumsAll
    <3>4. g \in [1 .. m -> Nat]
      <4>1. g = [k \in 1 .. m |-> g[k]]
        OBVIOUS
      <4> HIDE DEF f, g
      <4>2. QED  BY <1>3, <3>1, <3>2, <4>1
    <3> HIDE DEF f, g
    <3>5. PICK I : I = 1 .. m /\ IsFiniteSet(I)
      BY <1>1, FS_Interval
    <3>6. /\ IsFiniteSet(I) /\ f \in [I -> Nat] /\ g \in [I -> Nat] /\ p \in [I -> I]
          /\ \A i \in I : \E k \in I : p[k] = i
          /\ \A j, k \in I : p[j] = p[k] => j = k
          /\ \A k \in I : g[k] = f[p[k]]
      BY <1>2, <3>1, <3>2, <3>4, <3>5 DEF Permutes
    <3>7. WordTotal(g) = WordTotal(f)
      BY <3>6, TotalInOrder
    <3>8. QED  BY <3>3, <3>7 DEF g
  <2>2. QED  BY <2>1 DEF SumsAll
<1>10. Cost(order[1]) \in Nat
  BY <1>1, <1>5, HeightIs
<1>11. ConjunctionIterator(kids, n + 1, Moved[n]) =
           Over("and", n + 1, Cost(order[1]), Primed(order, Moved[n]))
  BY <1>2 DEF ConjunctionIterator, order
<1>12. QED  BY <1>6, <1>7, <1>8, <1>9, <1>10, <1>11, PrimedKeeps

\* An iterator walks in every higher set as in its own.
LEMMA KeepsAbove ==
    ASSUME NEW k \in Nat, NEW n \in Nat, NEW it, NEW S, NEW F, Keeps(k, it, S, F)
    PROVE  Keeps(k + n, it, S, F)
<1> DEFINE T == {j \in Nat : Keeps(k + j, it, S, F)}
<1>1. 0 \in T
  <2>1. k + 0 = k
    OBVIOUS
  <2>2. QED  BY <2>1
<1>2. ASSUME NEW j \in Nat, j \in T PROVE j + 1 \in T
  <2>1. k + j \in Nat /\ k + (j + 1) = (k + j) + 1 /\ Keeps(k + j, it, S, F)
    BY <1>2
  <2>2. Keeps((k + j) + 1, it, S, F)
    BY <2>1, KeepsHigher
  <2>3. QED  BY <2>1, <2>2
<1> HIDE DEF T
<1>3. n \in T
  BY <1>1, <1>2, Induction
<1>4. QED  BY <1>3 DEF T

\* Only the frequencies of the documents walked over matter.
LEMMA SameFreqs ==
    ASSUME NEW n, NEW it, NEW S, NEW F, NEW G, Keeps(n, it, S, F), kNoMoreDocs \notin S,
           \A d \in S : G[d] = F[d]
    PROVE  Keeps(n, it, S, G)
<1>1. PICK X, V : /\ Walks(Moved[n], DocIdSetIterator[n], S, F, X, V)
                  /\ it \in X /\ it.current = kNoMoreDocs
                  /\ IsAt(Moved[n][it][ToNext], 0, S, V)
  BY DEF Keeps
<1>2. ASSUME NEW x \in X, NEW b \in Word, <<x, b>> \in V
      PROVE  Freq(x) = G[x.current]
  <2>1. x.current # kNoMoreDocs /\ IsFirst(x.current, S, b) /\ Freq(x) = F[x.current]
    BY <1>1, <1>2 DEF Walks
  <2>2. x.current \in S
    BY <2>1 DEF IsFirst
  <2>3. QED  BY <2>1, <2>2
<1>3. Walks(Moved[n], DocIdSetIterator[n], S, G, X, V)
  BY <1>1, <1>2 DEF Walks
<1>4. QED  BY <1>1, <1>3 DEF Keeps

\* Children with what they keep to.
LEMMA FamilyIs ==
    ASSUME NEW n \in Nat, NEW m \in Nat, m > 1, NEW Ss, NEW Fs,
           NEW kids \in [1 .. m -> DocIdSetIterator[n]],
           \A i \in 1 .. m : Ss[i] \in DocSet /\ Keeps(n, kids[i], Ss[i], Fs[i])
    PROVE  \E Xs, Vs : Family(n, m, Ss, Fs, Xs, Vs) /\ NewKids(n, m, Ss, Xs, Vs, kids)
<1> DEFINE Good(i, X, V) ==
               /\ Walks(Moved[n], DocIdSetIterator[n], Ss[i], Fs[i], X, V)
               /\ kids[i] \in X /\ kids[i].current = kNoMoreDocs
               /\ IsAt(Moved[n][kids[i]][ToNext], 0, Ss[i], V)
           Xs == [i \in 1 .. m |-> CHOOSE X : \E V : Good(i, X, V)]
           Vs == [i \in 1 .. m |-> CHOOSE V : Good(i, Xs[i], V)]
<1>1. \A i \in 1 .. m : \E X : \E V : Good(i, X, V)
  BY DEF Keeps
<1> HIDE DEF Good
<1>2. \A i \in 1 .. m : \E V : Good(i, Xs[i], V)
  BY <1>1
<1>3. \A i \in 1 .. m : Good(i, Xs[i], Vs[i])
  <2> HIDE DEF Xs
  <2>1. QED  BY <1>2
<1> HIDE DEF Xs, Vs
<1>4. Family(n, m, Ss, Fs, Xs, Vs)
  BY <1>3 DEF Family, Good
<1>5. NewKids(n, m, Ss, Xs, Vs, kids)
  BY <1>3 DEF NewKids, Kids, Good
<1>6. QED  BY <1>4, <1>5

\* What Build makes of the iterators of the parts of a query.
LEMMA CombineKeeps ==
    ASSUME NEW n \in Nat, NEW m \in Nat, NEW Ss, NEW Fs,
           NEW kids \in [1 .. m -> DocIdSetIterator[n]],
           \A i \in 1 .. m : Ss[i] \in DocSet /\ Keeps(n, kids[i], Ss[i], Fs[i]),
           \A i \in 1 .. m : \A d \in Ss[i] : Fs[i][d] \in Word,
           NEW kind, NEW S \in DocSet, NEW F,
           \/ kind = "or" /\ AnyOf(m, Ss, S) /\ SumsUp(m, Ss, Fs, S, F)
           \/ kind = "and" /\ m = 0 /\ S = {}
           \/ kind = "and" /\ m # 0 /\ AllOf(m, Ss, S) /\ SumsAll(m, Ss, Fs, S, F)
    PROVE  Keeps(n + 1, Combine(kids, kind, n), S, F)
<1>1. kids \in Seq(DocIdSetIterator[n]) /\ Len(kids) = m /\ DOMAIN kids = 1 .. m /\ n + 1 \in Nat
  OBVIOUS
<1>2. CASE m = 0
  <2>1. S = {} /\ 0 .. 0 - 1 = {}
    BY <1>2 DEF AnyOf
  <2>2. kids = <<>>
    BY <1>1, <1>2
  <2>3. Combine(kids, kind, n) = MatchAll(0)
    BY <2>2 DEF Combine
  <2>4. Keeps(0, MatchAll(0), 0 .. 0 - 1, F)
    BY <2>1, Numbers, MatchAllKeeps
  <2>5. 0 + (n + 1) = n + 1
    OBVIOUS
  <2>6. QED  BY <1>1, <2>1, <2>3, <2>4, <2>5, KeepsAbove
<1>3. CASE m = 1
  <2>1. Combine(kids, kind, n) = kids[1]
    BY <1>1, <1>3 DEF Combine
  <2>2. 1 .. m = {1} /\ 1 \in 1 .. m
    BY <1>3
  <2>3. S = Ss[1]
    <3>1. \A d : d \in S <=> d \in Ss[1]
      BY <1>3, <2>2 DEF AnyOf, AllOf
    <3>2. QED  BY <3>1
  <2>4. ASSUME NEW d \in S PROVE F[d] = Fs[1][d]
    <3>1. Fs[1][d] \in Word /\ Fs[1][d] \in Nat
      BY <2>2, <2>3, Numbers
    <3> DEFINE f == [i \in {1} |-> Fs[i][d]]
    <3>2. F[d] = WordTotal(f)
      <4>1. {k \in 1 .. m : d \in Ss[k]} = {1}
        BY <2>2, <2>3
      <4>2. kind = "or" => F[d] = WordTotal([i \in {k \in 1 .. m : d \in Ss[k]} |-> Fs[i][d]])
        BY DEF SumsUp
      <4>3. kind = "and" => F[d] = WordTotal([i \in 1 .. m |-> Fs[i][d]])
        BY <1>3 DEF SumsAll
      <4>4. QED  BY <2>2, <4>1, <4>2, <4>3
    <3>3. f \in [{1} -> Nat] /\ f[1] = Fs[1][d]
      BY <3>1
    <3> HIDE DEF f
    <3>4. PICK I : I = {1} /\ IsFiniteSet(I)
      BY FS_Singleton
    <3>5. WordTotal(f) = f[1]
      BY <3>1, <3>3, <3>4, TotalIs
    <3>6. QED  BY <3>2, <3>3, <3>5
  <2>5. Keeps(n, kids[1], S, Fs[1])
    BY <2>2, <2>3
  <2>6. kNoMoreDocs \notin S
    BY DocsAreWords
  <2>7. Keeps(n, kids[1], S, F)
    BY <2>4, <2>5, <2>6, SameFreqs
  <2>8. QED  BY <2>1, <2>7, KeepsHigher
<1>4. CASE m > 1
  <2>1. PICK Xs, Vs : Family(n, m, Ss, Fs, Xs, Vs) /\ NewKids(n, m, Ss, Xs, Vs, kids)
    BY <1>4, FamilyIs
  <2>2. m # 0 /\ kids # <<>> /\ Len(kids) # 1 /\ Len(kids) > 1
    BY <1>1, <1>4
  <2>3. CASE kind = "or"
    <3>1. AnyOf(m, Ss, S) /\ SumsUp(m, Ss, Fs, S, F)
      BY <2>3
    <3>2. Combine(kids, kind, n) = DisjunctionIterator(kids, n + 1)
      BY <2>2, <2>3 DEF Combine
    <3>3. QED  BY <2>1, <3>1, <3>2, DisjunctionKeeps
  <2>4. CASE kind = "and"
    <3>1. AllOf(m, Ss, S) /\ SumsAll(m, Ss, Fs, S, F)
      BY <2>2, <2>4
    <3>2. Combine(kids, kind, n) = ConjunctionIterator(kids, n + 1, Moved[n])
      BY <2>2, <2>4 DEF Combine
    <3>3. QED  BY <2>1, <3>1, <3>2, ConjunctionKeeps
  <2>5. QED  BY <2>3, <2>4
<1>5. QED  BY <1>2, <1>3, <1>4

-----------------------------------------------------------------------------
(* The iterator of a query.                                                *)

\* How often a term occurs in a field of a document.
Times(d, f, t) == Cardinality({p \in DOMAIN TokensAt(d, f) : TokensAt(d, f)[p] = t})
TimesIn(f, t) == [d \in Occurs(f, t) |-> Times(d, f, t)]

LeafFor(f, t) ==
    TermIterator(PostingBytes(f, FindTerm(f, t)), reader.fields[f].has_positions,
                 reader.fields[f].has_token_weights)

\* The documents have DocIds before the sentinel.
LEMMA DocIdsAre ==
    ASSUME SegInv
    PROVE  /\ DocIds \in DocSet /\ Len(added) \in Word /\ DocIds = 0 .. Len(added) - 1
           /\ \A d \in DocIds : added[d + 1] \in Documents
<1>1. added \in Seq(Documents) /\ Len(added) <= kNoMoreDocs
  BY DEF SegInv
<1>2. /\ Len(added) \in Nat /\ DocIds = 0 .. Len(added) - 1
      /\ \A d \in DocIds : added[d + 1] \in Documents
  BY <1>1, DocsAre
<1>3. Len(added) \in Word
  BY <1>1, <1>2, Numbers
<1>4. DocIds \in DocSet
  BY <1>1, <1>2, Numbers DEF DocSet
<1>5. QED  BY <1>2, <1>3, <1>4

\* The cursor of a term walks over the documents it occurs in, with the number of
\* times it does.
LEMMA LeafIs ==
    ASSUME SegInv, reader.open, NEW f \in DOMAIN Schema, NEW t \in Terms, Occurs(f, t) # {}
    PROVE  /\ Occurs(f, t) \in DocSet /\ Keeps(0, LeafFor(f, t), Occurs(f, t), TimesIn(f, t))
           /\ \A d \in Occurs(f, t) : TimesIn(f, t)[d] \in Word
<1>1. PICK i \in 1 .. Len(SortedTerms(f)) : i = FindTerm(f, t) /\ SortedTerms(f)[i] = t
  BY FindTermIs
<1>2. DOMAIN field_data_[f].postings = {u \in Terms : Occurs(f, u) # {}}
  BY DEF SegInv, PostingsFit
<1>3. t \in DOMAIN field_data_[f].postings
  BY <1>2
<1>4. PICK pl : pl = field_data_[f].postings[t]
  OBVIOUS
<1>5. PostingBytes(f, i) = TermBytes(f, t)
  BY <1>1, PostingBytesAre
<1>6. /\ TermBytes(f, t) = WritePostings(pl, Schema[f].positions, Schema[f].weights)
      /\ pl \in PostingLists
  BY <1>3, <1>4, TermBytesAre
<1>7. reader.fields[f].has_positions = Schema[f].positions
      /\ reader.fields[f].has_token_weights = Schema[f].weights
  BY ReaderIs
<1>8. Schema[f].positions \in BOOLEAN /\ Schema[f].weights \in BOOLEAN
  BY Widest
<1>9. LeafFor(f, t) = TermIterator(WritePostings(pl, Schema[f].positions, Schema[f].weights),
                                   Schema[f].positions, Schema[f].weights)
  BY <1>1, <1>5, <1>6, <1>7 DEF LeafFor
<1>10. /\ {p.doc : p \in Range(pl)} = Occurs(f, t)
       /\ \A p \in Range(pl) : p = PostingFor(added[p.doc + 1], f, t, p.doc)
  <2>1. ListOf(f, t) = pl
    BY <1>3, <1>4 DEF ListOf
  <2>2. QED  BY <2>1, ListsFit
<1>11. Range(pl) = {pl[k] : k \in DOMAIN pl} /\ Range(pl) \subseteq Posting
  <2>1. pl \in Seq(Posting)
    BY <1>6 DEF PostingLists
  <2>2. Range(pl) = {pl[k] : k \in DOMAIN pl}
    BY DEF Range
  <2>3. QED  BY <2>1, <2>2
<1>12. Occurs(f, t) = {pl[k].doc : k \in DOMAIN pl}
  BY <1>10, <1>11
<1>13. ASSUME NEW p \in Range(pl) PROVE TimesIn(f, t)[p.doc] = p.tf /\ p.tf \in Word
  <2>1. p.doc \in Occurs(f, t) /\ added \in Seq(Documents)
    BY <1>10 DEF SegInv
  <2>2. p.doc \in DocIds
    BY <2>1, OccursIn
  <2>3. TokensAt(p.doc, f) = Tokens(added[p.doc + 1], f)
    BY <2>1, <2>2, DocsAre
  <2>4. p.tf = PostingFor(added[p.doc + 1], f, t, p.doc).tf
    BY <1>10
  <2>5. PostingFor(added[p.doc + 1], f, t, p.doc).tf = Times(p.doc, f, t)
    BY <2>3 DEF PostingFor, Times
  <2>6. TimesIn(f, t)[p.doc] = p.tf
    BY <2>1, <2>4, <2>5 DEF TimesIn
  <2>7. p.tf \in Word
    BY <1>11 DEF Posting, Word
  <2>8. QED  BY <2>6, <2>7
<1>14. \A k \in DOMAIN pl : TimesIn(f, t)[pl[k].doc] = pl[k].tf
  BY <1>11, <1>13
<1>15. PICK S : S = Occurs(f, t)
  OBVIOUS
<1>16. S \in DocSet /\ Keeps(0, LeafFor(f, t), S, TimesIn(f, t))
  <2>1. PICK has_positions, has_token_weights, F :
            /\ has_positions = Schema[f].positions /\ has_token_weights = Schema[f].weights
            /\ has_positions \in BOOLEAN /\ has_token_weights \in BOOLEAN
            /\ F = TimesIn(f, t)
    BY <1>8
  <2>2. LeafFor(f, t) = TermIterator(WritePostings(pl, has_positions, has_token_weights),
                                     has_positions, has_token_weights)
    BY <1>9, <2>1
  <2>3. Lists(pl, S, F)
    BY <1>12, <1>14, <1>15, <2>1 DEF Lists
  <2>4. S \in DocSet /\ Keeps(0, TermIterator(WritePostings(pl, has_positions, has_token_weights),
                                              has_positions, has_token_weights), S, F)
    <3>1. pl \in PostingLists /\ has_positions \in BOOLEAN /\ has_token_weights \in BOOLEAN
      BY <1>6, <2>1
    <3>2. QED  BY <2>3, <3>1, TermKeeps
  <2>5. QED  BY <2>1, <2>2, <2>4
<1>17. \A d \in Occurs(f, t) : TimesIn(f, t)[d] \in Word
  BY <1>10, <1>13
<1>18. QED  BY <1>15, <1>16, <1>17

\* A field of the schema is found by its name, which no other has.
LEMMA FieldFound ==
    ASSUME SegInv, reader.open, NEW q \in TermQueries
    PROVE  IF HasField(q)
           THEN /\ GetFieldId(q.field) = FieldOf(q) /\ FieldOf(q) \in DOMAIN Schema
                /\ FieldOf(q) # 0 /\ WantedBy(q) \in Seq(Terms)
           ELSE GetFieldId(q.field) = 0
<1> DEFINE at == {f \in DOMAIN reader.fields : reader.fields[f].name = q.field}
<1>1. DOMAIN reader.fields = DOMAIN Schema
      /\ \A f \in DOMAIN Schema : reader.fields[f].name = Schema[f].name
  <2>1. reader = Sealed
    BY ReaderIs
  <2>2. reader.fields = [f \in DOMAIN Schema |-> FieldStats(f)]
    BY <2>1 DEF Sealed
  <2>3. \A f \in DOMAIN Schema : FieldStats(f).name = Schema[f].name
    BY DEF FieldStats
  <2>4. QED  BY <2>2, <2>3
<1>2. GetFieldId(q.field) = IF at = {} THEN 0 ELSE Min(at)
  BY DEF GetFieldId
<1>3. at = {f \in DOMAIN Schema : Schema[f].name = q.field}
  BY <1>1
<1> HIDE DEF at
<1>4. CASE ~HasField(q)
  BY <1>2, <1>3, <1>4 DEF HasField
<1>5. CASE HasField(q)
  <2>1. FieldOf(q) \in DOMAIN Schema /\ Schema[FieldOf(q)].name = q.field
    BY <1>5 DEF HasField, FieldOf
  <2>2. \A f \in at : f = FieldOf(q)
    BY <1>3, <2>1, QueriesAssumption
  <2>3. DOMAIN Schema \subseteq Nat \ {0}
    BY Widest
  <2>4. at = {FieldOf(q)} /\ FieldOf(q) \in Nat /\ FieldOf(q) # 0
    BY <1>3, <2>1, <2>2, <2>3
  <2>5. Min(at) \in at
    <3>1. at \in SUBSET Nat /\ at # {}
      BY <2>4
    <3>2. QED  BY <3>1, LeastNumber
  <2>6. WantedBy(q) \in Seq(Terms)
    BY <2>1, QueriesAssumption DEF WantedBy
  <2>7. QED  BY <1>2, <1>5, <2>1, <2>4, <2>5, <2>6
<1>6. QED  BY <1>4, <1>5

\* The iterator that stands for a query without documents.
LEMMA EmptyKeeps ==
    ASSUME NEW n \in Nat, NEW F
    PROVE  Keeps(n, MatchAll(0), {}, F)
<1>1. 0 .. 0 - 1 = {} /\ 0 + n = n
  OBVIOUS
<1>2. Keeps(0, MatchAll(0), 0 .. 0 - 1, F)
  BY <1>1, Numbers, MatchAllKeeps
<1>3. QED  BY <1>1, <1>2, KeepsAbove

\* The iterator of a text in a field.
LEMMA TermBuilt ==
    ASSUME SegInv, reader.open, NEW q \in TermQueries, NEW S, NEW F,
           S = {d \in DocIds : HasAll(added[d + 1], q)},
           \A d \in S : F[d] = Occurrences(added[d + 1], q)
    PROVE  Keeps(1, BuildTerm(q), S, F) /\ \A d \in S : F[d] \in Word
<1> DEFINE f == GetFieldId(q.field)
           terms == Analyzed(Schema[f].type, q.text)
           found == [i \in DOMAIN terms |-> FindTerm(f, terms[i])]
<1>1. /\ DocIds \in DocSet /\ S \subseteq DocIds /\ S \in DocSet /\ added \in Seq(Documents)
      /\ \A d \in DocIds : added[d + 1] \in Documents
  BY DocIdsAre DEF DocSet, SegInv
<1>2. CASE ~HasField(q)
  <2>1. GetFieldId(q.field) = 0
    BY <1>2, FieldFound
  <2>2. BuildTerm(q) = MatchAll(0)
    BY <2>1 DEF BuildTerm
  <2>3. S = {}
    BY <1>2 DEF HasAll
  <2>4. QED  BY <2>2, <2>3, 1 \in Nat, EmptyKeeps
<1>3. CASE HasField(q)
  <2>1. f = FieldOf(q) /\ f \in DOMAIN Schema /\ f # 0 /\ WantedBy(q) \in Seq(Terms)
    BY <1>3, FieldFound
  <2>2. terms = WantedBy(q) /\ terms \in Seq(Terms)
    BY <2>1 DEF WantedBy
  <2> DEFINE m == Len(terms)
  <2>3. m \in Nat /\ DOMAIN terms = 1 .. m /\ DOMAIN found = 1 .. m /\ \A i \in 1 .. m : terms[i] \in Terms
    BY <2>2
  <2>4. BuildTerm(q) =
            IF \E i \in 1 .. m : found[i] = 0 THEN MatchAll(0)
            ELSE Combine([i \in 1 .. m |-> LeafFor(f, terms[i])], "and", 0)
    <3>1. BuildTerm(q) =
            IF f = 0 \/ \E i \in DOMAIN found : found[i] = 0 THEN MatchAll(0)
            ELSE Combine([i \in DOMAIN found |->
                             TermIterator(PostingBytes(f, found[i]), reader.fields[f].has_positions,
                                          reader.fields[f].has_token_weights)], "and", 0)
      BY DEF BuildTerm
    <3>2. \A i \in 1 .. m : found[i] = FindTerm(f, terms[i])
      BY <2>3
    <3> HIDE DEF found, f, terms, m
    <3>3. [i \in DOMAIN found |->
               TermIterator(PostingBytes(f, found[i]), reader.fields[f].has_positions,
                            reader.fields[f].has_token_weights)]
          = [i \in 1 .. m |-> LeafFor(f, terms[i])]
      BY <2>3, <3>2 DEF LeafFor
    <3>4. QED  BY <2>1, <2>3, <3>1, <3>3
  <2>5. \A i \in 1 .. m : IF Occurs(f, terms[i]) = {} THEN found[i] = 0 ELSE found[i] # 0
    <3>1. ASSUME NEW i \in 1 .. m
          PROVE  IF Occurs(f, terms[i]) = {} THEN found[i] = 0 ELSE found[i] # 0
      <4>1. found[i] = FindTerm(f, terms[i]) /\ terms[i] \in Terms
        BY <2>3
      <4> HIDE DEF found, f, terms, m
      <4>2. QED  BY <2>1, <4>1, FindTermIs
    <3>2. QED  BY <3>1
  <2>6. ASSUME NEW d \in DocIds
        PROVE  d \in S <=> m # 0 /\ \A i \in 1 .. m : d \in Occurs(f, terms[i])
    <3>1. d \in S <=> HasAll(added[d + 1], q)
      OBVIOUS
    <3> HIDE DEF found, f, terms, m
    <3>2. m # 0 <=> WantedBy(q) # <<>>
      BY <2>2 DEF m
    <3>3. TokensOf[added[d + 1]][FieldOf(q)] = TokensAt(d, f) /\ TokensAt(d, f) = Tokens(added[d + 1], f)
      BY <1>1, <2>1, DocsAre DEF TokensAt
    <3>4. Range(WantedBy(q)) = {terms[i] : i \in 1 .. m}
      BY <2>2, <2>3 DEF Range
    <3>5. \A i \in 1 .. m : d \in Occurs(f, terms[i]) <=> terms[i] \in Range(TokensAt(d, f))
      BY <1>1, <2>1, <3>3, OccursIn
    <3>6. HasAll(added[d + 1], q) <=>
              WantedBy(q) # <<>> /\ Range(WantedBy(q)) \subseteq Range(TokensAt(d, f))
      BY <1>3, <3>3 DEF HasAll
    <3>7. QED  BY <3>1, <3>2, <3>4, <3>5, <3>6
  <2> DEFINE Ss == [i \in 1 .. m |-> Occurs(f, terms[i])]
             Fs == [i \in 1 .. m |-> TimesIn(f, terms[i])]
             kids == [i \in 1 .. m |-> LeafFor(f, terms[i])]
  <2> HIDE DEF f, terms, found, m
  <2>7. CASE \E i \in 1 .. m : found[i] = 0
    <3>1. BuildTerm(q) = MatchAll(0)
      BY <2>4, <2>7
    <3>2. S = {}
      BY <1>1, <2>5, <2>6, <2>7
    <3>3. QED  BY <3>1, <3>2, 1 \in Nat, EmptyKeeps
  <2>8. CASE ~\E i \in 1 .. m : found[i] = 0
    <3>1. BuildTerm(q) = Combine(kids, "and", 0)
      BY <2>4, <2>8
    <3>2. ASSUME NEW i \in 1 .. m
          PROVE  /\ Ss[i] \in DocSet /\ Keeps(0, kids[i], Ss[i], Fs[i])
                 /\ kids[i] \in DocIdSetIterator[0] /\ \A d \in Ss[i] : Fs[i][d] \in Word
      <4>1. Ss[i] = Occurs(f, terms[i]) /\ Fs[i] = TimesIn(f, terms[i]) /\ kids[i] = LeafFor(f, terms[i])
        OBVIOUS
      <4>2. terms[i] \in Terms /\ Occurs(f, terms[i]) # {}
        BY <2>3, <2>5, <2>8
      <4> HIDE DEF Ss, Fs, kids
      <4>3. /\ Ss[i] \in DocSet /\ Keeps(0, kids[i], Ss[i], Fs[i])
            /\ \A d \in Ss[i] : Fs[i][d] \in Word
        BY <2>1, <4>1, <4>2, LeafIs
      <4>4. kids[i] \in DocIdSetIterator[0]
        BY <4>3 DEF Keeps, Walks
      <4>5. QED  BY <4>3, <4>4
    <3>3. kids \in [1 .. m -> DocIdSetIterator[0]]
      <4>1. kids = [i \in 1 .. m |-> kids[i]]
        OBVIOUS
      <4> HIDE DEF kids
      <4>2. QED  BY <3>2, <4>1
    <3>4. m # 0 => AllOf(m, Ss, S)
      <4>1. ASSUME m # 0, NEW d PROVE d \in S <=> \A i \in 1 .. m : d \in Ss[i]
        <5>1. 1 \in 1 .. m
          BY <2>3, <4>1
        <5>2. \A i \in 1 .. m : Ss[i] = Occurs(f, terms[i]) /\ Occurs(f, terms[i]) \subseteq DocIds
          BY <1>1, <2>1, OccursIn
        <5>3. (\A i \in 1 .. m : d \in Ss[i]) => d \in DocIds
          BY <5>1, <5>2
        <5>4. d \in DocIds => (d \in S <=> \A i \in 1 .. m : d \in Ss[i])
          BY <2>6, <4>1, <5>2
        <5>5. QED  BY <1>1, <5>3, <5>4
      <4> HIDE DEF Ss
      <4>2. QED  BY <1>1, <4>1 DEF AllOf
    <3>5. m = 0 => S = {}
      BY <1>1, <2>6
    <3>6. ASSUME NEW d \in S
          PROVE  F[d] = WordTotal([i \in 1 .. m |-> Fs[i][d]])
      <4>1. d \in DocIds /\ \A i \in 1 .. m : d \in Occurs(f, terms[i])
        BY <1>1, <2>6
      <4>2. \A i \in 1 .. m : Fs[i][d] = Times(d, f, terms[i])
        BY <4>1 DEF TimesIn
      <4>3. [i \in 1 .. m |-> Fs[i][d]] = [i \in 1 .. m |-> Times(d, f, terms[i])]
        BY <4>2
      <4> HIDE DEF Fs
      <4>4. DOMAIN WantedBy(q) = 1 .. m /\ \A i \in 1 .. m : WantedBy(q)[i] = terms[i]
        BY <2>2, <2>3
      <4>5. Occurrences(added[d + 1], q) =
                WordTotal([i \in DOMAIN WantedBy(q) |-> Times(d, f, WantedBy(q)[i])])
        BY <2>1 DEF Occurrences, Times, TokensAt
      <4>6. [i \in DOMAIN WantedBy(q) |-> Times(d, f, WantedBy(q)[i])]
            = [i \in 1 .. m |-> Times(d, f, terms[i])]
        BY <4>4
      <4>7. QED  BY <4>3, <4>5, <4>6
    <3>7. SumsAll(m, Ss, Fs, S, F)
      <4> HIDE DEF Fs, Ss
      <4>1. QED  BY <3>6 DEF SumsAll
    <3>8. ASSUME NEW d \in S PROVE F[d] \in Word
      <4>1. d \in DocIds /\ \A i \in 1 .. m : d \in Occurs(f, terms[i])
        BY <1>1, <2>6
      <4>2. \A i \in 1 .. m : d \in Ss[i]
        BY <4>1
      <4> HIDE DEF Ss, Fs
      <4> DEFINE g == [i \in 1 .. m |-> Fs[i][d]]
      <4>3. g \in [1 .. m -> Nat]
        BY <3>2, <4>2, Numbers
      <4> HIDE DEF g
      <4>4. IsFiniteSet(1 .. m)
        BY <2>3, FS_Interval
      <4>5. WordTotal(g) \in Word
        BY <4>3, <4>4, TotalIs
      <4>6. QED  BY <3>6, <4>5 DEF g
    <3> HIDE DEF Ss, Fs, kids
    <3>9. Keeps(0 + 1, Combine(kids, "and", 0), S, F)
      <4>1. PICK kind, k : kind = "and" /\ k = 0
        OBVIOUS
      <4>2. \/ kind = "or" /\ AnyOf(m, Ss, S) /\ SumsUp(m, Ss, Fs, S, F)
            \/ kind = "and" /\ m = 0 /\ S = {}
            \/ kind = "and" /\ m # 0 /\ AllOf(m, Ss, S) /\ SumsAll(m, Ss, Fs, S, F)
        BY <3>4, <3>5, <3>7, <4>1
      <4>3. Keeps(k + 1, Combine(kids, kind, k), S, F)
        <5>1. k \in Nat /\ kids \in [1 .. m -> DocIdSetIterator[k]]
          BY <3>3, <4>1
        <5>2. \A i \in 1 .. m : Ss[i] \in DocSet /\ Keeps(k, kids[i], Ss[i], Fs[i])
          BY <3>2, <4>1
        <5>3. \A i \in 1 .. m : \A d \in Ss[i] : Fs[i][d] \in Word
          BY <3>2
        <5>4. QED  BY <1>1, <2>3, <4>2, <5>1, <5>2, <5>3, CombineKeeps
      <4>4. QED  BY <4>1, <4>3
    <3>10. 0 + 1 = 1
      OBVIOUS
    <3>11. QED  BY <3>1, <3>8, <3>9, <3>10
  <2>9. QED  BY <2>7, <2>8
<1>4. QED  BY <1>2, <1>3

-----------------------------------------------------------------------------
(* Queries.                                                                *)

\* A query is a leaf, or made of lower ones.
LEMMA QueryIs ==
    ASSUME NEW n \in Nat
    PROVE  /\ QueryAst[n] \subseteq QueryAst[n + 1]
           /\ \A q \in QueryAst[0] : q.kind = "all" \/ (q.kind = "term" /\ q \in TermQueries)
           /\ \A q \in QueryAst[n + 1] :
                  \/ q.kind = "all"
                  \/ q.kind = "term" /\ q \in TermQueries
                  \/ q.kind \in {"and", "or"} /\ q.children \in Seq(QueryAst[n])
<1> DEFINE Leaf(q) == q.kind = "all" \/ (q.kind = "term" /\ q \in TermQueries)
           Made(q, k) == q.kind \in {"and", "or"} /\ q.children \in Seq(QueryAst[k])
           T == {k \in Nat : \A q \in QueryAst[k + 1] : Leaf(q) \/ Made(q, k)}
<1>1. \A k \in Nat : QueryAst[k + 1] = MoreQueries(QueryAst[k])
  BY Definitions
<1>2. \A q \in QueryAst[0] : Leaf(q)
  BY Definitions, QueriesAssumption
<1>3. ASSUME NEW k \in Nat, NEW q \in QueryAst[k + 1], q \notin QueryAst[k] PROVE Made(q, k)
  <2>1. q \in MoreQueries(QueryAst[k])
    BY <1>1
  <2>2. q \in [kind : {"and", "or"}, children : Seq(QueryAst[k])]
    BY <1>3, <2>1 DEF MoreQueries
  <2>3. QED  BY <2>2
<1>4. \A k \in Nat : QueryAst[k] \subseteq QueryAst[k + 1]
  BY <1>1 DEF MoreQueries
<1> HIDE DEF Leaf
<1>5. 0 \in T
  <2>1. \A q \in QueryAst[0 + 1] : Leaf(q) \/ Made(q, 0)
    BY <1>2, <1>3
  <2> HIDE DEF Made
  <2>2. QED  BY <2>1
<1>6. ASSUME NEW k \in Nat, k \in T PROVE k + 1 \in T
  <2>1. ASSUME NEW q \in QueryAst[(k + 1) + 1] PROVE Leaf(q) \/ Made(q, k + 1)
    <3>1. CASE q \in QueryAst[k + 1]
      <4>1. Leaf(q) \/ Made(q, k)
        BY <1>6, <3>1
      <4>2. QueryAst[k] \subseteq QueryAst[k + 1]
        BY <1>4
      <4>3. Made(q, k) => Made(q, k + 1)
        BY <4>2
      <4>4. QED  BY <4>1, <4>3
    <3>2. CASE q \notin QueryAst[k + 1]
      <4>1. k + 1 \in Nat
        OBVIOUS
      <4> HIDE DEF Made
      <4>2. QED  BY <1>3, <3>2, <4>1
    <3>3. QED  BY <3>1, <3>2
  <2> HIDE DEF Made
  <2>2. QED  BY <2>1
<1> HIDE DEF T
<1>7. n \in T
  BY <1>5, <1>6, Induction
<1>8. QED  BY <1>2, <1>4, <1>7 DEF T, Leaf

\* The documents of a query, and their frequencies.
DocsFor(n, q) == {d \in DocIds : Matches[n][q][added[d + 1]]}
FreqsFor(n, q) == [d \in DocIds |-> FreqOf[n][q][added[d + 1]]]

\* The iterator of a query walks over its documents.
Built(n, q) ==
    /\ Keeps(n + 1, Build[n][q], DocsFor(n, q), FreqsFor(n, q))
    /\ \A d \in DocsFor(n, q) : FreqsFor(n, q)[d] \in Word

\* The query for all documents is built to an iterator over them.
LEMMA AllBuilt ==
    ASSUME SegInv, reader.open, NEW n \in Nat, NEW q \in QueryAst[n], q.kind = "all",
           NEW b, Build[n] = BuildBy(n, b), NEW s, Matches[n] = MatchesBy(n, s),
           NEW u, NEW v, FreqOf[n] = FreqBy(n, u, v)
    PROVE  Built(n, q)
<1>1. Build[n][q] = MatchAll(Len(added))
  <2>1. Build[n][q] = MatchAll(reader.doc_count)
    BY DEF BuildBy
  <2>2. reader.doc_count = next_doc_id_
    BY ReaderIs DEF Sealed
  <2>3. next_doc_id_ = Len(added)
    <3>1. stored_blobs_ = [i \in 1 .. Len(added) |-> Blob(added[i])] /\ Len(added) \in Nat
      BY DocIdsAre, Numbers DEF SegInv, StoredFits
    <3>2. QED  BY <3>1 DEF next_doc_id_
  <2>4. QED  BY <2>1, <2>2, <2>3
<1>2. /\ DocIds = 0 .. Len(added) - 1 /\ Len(added) \in Word
      /\ \A d \in DocIds : added[d + 1] \in Documents
  BY DocIdsAre
<1>3. \A d \in DocIds : Matches[n][q][added[d + 1]] = TRUE
  <2>1. ASSUME NEW doc \in Documents PROVE Matches[n][q][doc] = TRUE
    BY DEF MatchesBy
  <2>2. QED  BY <1>2, <2>1
<1>4. DocsFor(n, q) = DocIds
  BY <1>3 DEF DocsFor
<1>5. \A d \in DocIds : FreqsFor(n, q)[d] = 0
  <2>1. ASSUME NEW doc \in Documents PROVE FreqOf[n][q][doc] = 0
    BY DEF FreqBy
  <2>2. QED  BY <1>2, <2>1 DEF FreqsFor
<1>6. Keeps(0, MatchAll(Len(added)), 0 .. Len(added) - 1, FreqsFor(n, q))
  BY <1>2, <1>5, MatchAllKeeps
<1>7. Keeps(0 + (n + 1), MatchAll(Len(added)), DocsFor(n, q), FreqsFor(n, q))
  BY <1>2, <1>4, <1>6, KeepsAbove
<1>8. 0 + (n + 1) = n + 1
  OBVIOUS
<1>9. QED  BY <1>1, <1>4, <1>5, <1>7, <1>8, Numbers DEF Built

\* A text in a field is built to an iterator over the documents that have all of
\* its terms there.
LEMMA LeafBuilt ==
    ASSUME SegInv, reader.open, NEW n \in Nat, NEW q \in QueryAst[n], q.kind = "term", q \in TermQueries,
           NEW b, Build[n] = BuildBy(n, b), NEW s, Matches[n] = MatchesBy(n, s),
           NEW u, NEW v, FreqOf[n] = FreqBy(n, u, v)
    PROVE  Built(n, q)
<1>1. Build[n][q] = BuildTerm(q)
  BY DEF BuildBy
<1>2. \A d \in DocIds : added[d + 1] \in Documents
  BY DocIdsAre
<1>3. DocsFor(n, q) = {d \in DocIds : HasAll(added[d + 1], q)}
  <2>1. ASSUME NEW doc \in Documents PROVE Matches[n][q][doc] <=> HasAll(doc, q)
    BY DEF MatchesBy
  <2>2. \A d \in DocIds : Matches[n][q][added[d + 1]] <=> HasAll(added[d + 1], q)
    BY <1>2, <2>1
  <2>3. QED  BY <2>2 DEF DocsFor
<1>4. \A d \in DocsFor(n, q) : FreqsFor(n, q)[d] = Occurrences(added[d + 1], q)
  <2>1. ASSUME NEW doc \in Documents PROVE FreqOf[n][q][doc] = Occurrences(doc, q)
    BY DEF FreqBy
  <2>2. \A d \in DocIds : FreqOf[n][q][added[d + 1]] = Occurrences(added[d + 1], q)
    BY <1>2, <2>1
  <2>3. QED  BY <2>2 DEF FreqsFor, DocsFor
<1>5. PICK S, F : S = DocsFor(n, q) /\ F = FreqsFor(n, q)
  OBVIOUS
<1>6. Keeps(1, BuildTerm(q), S, F) /\ \A d \in S : F[d] \in Word
  BY <1>3, <1>4, <1>5, TermBuilt
<1>7. Keeps(1 + n, BuildTerm(q), S, F)
  BY <1>6, KeepsAbove
<1>8. 1 + n = n + 1
  OBVIOUS
<1>9. QED  BY <1>1, <1>5, <1>6, <1>7, <1>8 DEF Built

\* What a query over lower ones, of the height n, says of a document.
NodeSays(n, q, doc) ==
    /\ q.kind = "and" => (Matches[n + 1][q][doc] <=>
           q.children # <<>> /\ \A i \in DOMAIN q.children : Matches[n][q.children[i]][doc])
    /\ q.kind = "or" => (Matches[n + 1][q][doc] <=>
           \E i \in DOMAIN q.children : Matches[n][q.children[i]][doc])
    /\ q.kind \in {"and", "or"} => FreqOf[n + 1][q][doc] =
           WordTotal([i \in {k \in DOMAIN q.children : Matches[n][q.children[k]][doc]} |->
                         FreqOf[n][q.children[i]][doc]])

\* The definitions say that.
LEMMA NodeMeans ==
    ASSUME NEW n \in Nat, NEW q \in QueryAst[n + 1], NEW doc \in Documents
    PROVE  NodeSays(n, q, doc)
<1>1. PICK k, s, v : k = n + 1 /\ s = Matches[n] /\ v = FreqOf[n]
  OBVIOUS
<1>2. /\ Matches[n + 1] = MatchesBy(k, s) /\ FreqOf[n + 1] = FreqBy(k, s, v)
      /\ q \in QueryAst[k]
  BY <1>1, Definitions
<1>3. ASSUME q.kind = "and"
      PROVE  MatchesBy(k, s)[q][doc] <=>
                 q.children # <<>> /\ \A i \in DOMAIN q.children : s[q.children[i]][doc]
  BY <1>2, <1>3 DEF MatchesBy
<1>4. ASSUME q.kind = "or"
      PROVE  MatchesBy(k, s)[q][doc] <=> \E i \in DOMAIN q.children : s[q.children[i]][doc]
  BY <1>2, <1>4 DEF MatchesBy
<1>5. ASSUME q.kind \in {"and", "or"}
      PROVE  FreqBy(k, s, v)[q][doc] =
                 WordTotal([i \in {j \in DOMAIN q.children : s[q.children[j]][doc]} |->
                               v[q.children[i]][doc]])
  <2>1. q.kind # "all" /\ q.kind # "term"
    BY <1>5
  <2>2. FreqBy(k, s, v)[q] = [d \in Documents |->
            CASE q.kind = "all"  -> 0
              [] q.kind = "term" -> Occurrences(d, q)
              [] q.kind \in {"and", "or"} ->
                    WordTotal([i \in {j \in DOMAIN q.children : s[q.children[j]][d]} |->
                                  v[q.children[i]][d]])]
    BY <1>2 DEF FreqBy
  <2>3. QED  BY <1>5, <2>1, <2>2
<1>6. QED  BY <1>1, <1>2, <1>3, <1>4, <1>5 DEF NodeSays

\* A query over lower ones is built to an iterator over its documents, when these
\* are.
LEMMA NodeBuilt ==
    ASSUME SegInv, reader.open, NEW n \in Nat, NEW q \in QueryAst[n + 1],
           q.kind \in {"and", "or"}, q.children \in Seq(QueryAst[n]),
           \A p \in QueryAst[n] : Built(n, p)
    PROVE  Built(n + 1, q)
<1>0. \A doc \in Documents : NodeSays(n, q, doc)
  BY NodeMeans
<1> DEFINE m == Len(q.children)
           child(i) == q.children[i]
           kids == [i \in 1 .. m |-> Build[n][child(i)]]
           Ss == [i \in 1 .. m |-> DocsFor(n, child(i))]
           Fs == [i \in 1 .. m |-> FreqsFor(n, child(i))]
           S == DocsFor(n + 1, q)
           F == FreqsFor(n + 1, q)
<1>1. m \in Nat /\ DOMAIN q.children = 1 .. m /\ \A i \in 1 .. m : child(i) \in QueryAst[n]
  OBVIOUS
<1>2. /\ DocIds \in DocSet /\ \A d \in DocIds : added[d + 1] \in Documents
  BY DocIdsAre
<1>3. Build[n + 1][q] = Combine(kids, q.kind, n + 1)
  <2>1. Build[n + 1] = BuildBy(n + 1, Build[n])
    BY Definitions
  <2>2. Build[n + 1][q] = Combine([i \in DOMAIN q.children |-> Build[n][q.children[i]]], q.kind, n + 1)
    BY <2>1 DEF BuildBy
  <2>3. QED  BY <1>1, <2>2
<1>4. ASSUME NEW i \in 1 .. m
      PROVE  /\ Ss[i] = DocsFor(n, child(i)) /\ Fs[i] = FreqsFor(n, child(i))
             /\ Ss[i] \in DocSet /\ Ss[i] \subseteq DocIds
             /\ kids[i] \in DocIdSetIterator[n + 1] /\ Keeps(n + 1, kids[i], Ss[i], Fs[i])
             /\ \A d \in Ss[i] : Fs[i][d] \in Word
             /\ \A d \in DocIds : d \in Ss[i] <=> Matches[n][child(i)][added[d + 1]]
  <2>1. Ss[i] = DocsFor(n, child(i)) /\ Fs[i] = FreqsFor(n, child(i)) /\ kids[i] = Build[n][child(i)]
    OBVIOUS
  <2>2. Built(n, child(i))
    BY <1>1
  <2> HIDE DEF Ss, Fs, kids, child
  <2>3. Ss[i] \subseteq DocIds /\ \A d \in DocIds : d \in Ss[i] <=> Matches[n][child(i)][added[d + 1]]
    BY <2>1 DEF DocsFor
  <2>4. Ss[i] \in DocSet
    BY <1>2, <2>3 DEF DocSet
  <2>5. Keeps(n + 1, kids[i], Ss[i], Fs[i]) /\ \A d \in Ss[i] : Fs[i][d] \in Word
    BY <2>1, <2>2 DEF Built
  <2>6. kids[i] \in DocIdSetIterator[n + 1]
    BY <2>5 DEF Keeps, Walks
  <2>7. QED  BY <2>1, <2>3, <2>4, <2>5, <2>6
<1>5. kids \in [1 .. m -> DocIdSetIterator[n + 1]]
  <2>1. kids = [i \in 1 .. m |-> kids[i]]
    OBVIOUS
  <2> HIDE DEF kids
  <2>2. QED  BY <1>4, <2>1
<1>6. ASSUME NEW d \in DocIds
      PROVE  d \in S <=> IF q.kind = "and" THEN m # 0 /\ \A i \in 1 .. m : d \in Ss[i]
                         ELSE \E i \in 1 .. m : d \in Ss[i]
  <2>1. NodeSays(n, q, added[d + 1])
    BY <1>0, <1>2
  <2>2. q.kind = "and" => (Matches[n + 1][q][added[d + 1]] <=>
            q.children # <<>> /\ \A i \in DOMAIN q.children : Matches[n][q.children[i]][added[d + 1]])
    BY <2>1 DEF NodeSays
  <2>3. q.kind = "or" => (Matches[n + 1][q][added[d + 1]] <=>
            \E i \in DOMAIN q.children : Matches[n][q.children[i]][added[d + 1]])
    BY <2>1 DEF NodeSays
  <2>4. d \in S <=> Matches[n + 1][q][added[d + 1]]
    BY DEF DocsFor
  <2>5. q.children # <<>> <=> m # 0
    OBVIOUS
  <2> HIDE DEF S, m, Ss
  <2>6. \A i \in 1 .. m : d \in Ss[i] <=> Matches[n][q.children[i]][added[d + 1]]
    BY <1>4
  <2>7. QED  BY <1>1, <2>2, <2>3, <2>4, <2>5, <2>6
<1>7. S \subseteq DocIds
  BY DEF DocsFor
<1>8. S \in DocSet
  BY <1>2, <1>7 DEF DocSet
<1>9. ASSUME NEW d \in S
      PROVE  F[d] = WordTotal([i \in {k \in 1 .. m : d \in Ss[k]} |-> Fs[i][d]])
  <2>1. d \in DocIds /\ NodeSays(n, q, added[d + 1])
    BY <1>0, <1>2, <1>7
  <2> DEFINE I == {k \in DOMAIN q.children : Matches[n][q.children[k]][added[d + 1]]}
             J == {k \in 1 .. m : d \in Ss[k]}
  <2>2. FreqOf[n + 1][q][added[d + 1]] =
            WordTotal([i \in I |-> FreqOf[n][q.children[i]][added[d + 1]]])
    BY <2>1 DEF NodeSays
  <2>3. F[d] = FreqOf[n + 1][q][added[d + 1]]
    BY <2>1 DEF FreqsFor
  <2>4. \A i \in 1 .. m : Fs[i][d] = FreqOf[n][q.children[i]][added[d + 1]]
    BY <2>1 DEF FreqsFor
  <2> HIDE DEF S, F, m, Ss, Fs
  <2>5. I = J
    BY <1>1, <1>4, <2>1
  <2>6. [i \in I |-> FreqOf[n][q.children[i]][added[d + 1]]] = [i \in J |-> Fs[i][d]]
    BY <2>4, <2>5
  <2> HIDE DEF I
  <2>7. QED  BY <2>2, <2>3, <2>6
<1> HIDE DEF S, F, m, Ss, Fs, kids
<1>10. SumsUp(m, Ss, Fs, S, F)
  BY <1>9 DEF SumsUp
<1>11. q.kind = "or" => AnyOf(m, Ss, S)
  <2>1. ASSUME q.kind = "or", NEW d PROVE d \in S <=> \E i \in 1 .. m : d \in Ss[i]
    <3>1. d \in DocIds => (d \in S <=> \E i \in 1 .. m : d \in Ss[i])
      BY <1>6, <2>1
    <3>2. \A i \in 1 .. m : d \in Ss[i] => d \in DocIds
      BY <1>4
    <3>3. QED  BY <1>7, <3>1, <3>2
  <2>2. QED  BY <1>8, <2>1 DEF AnyOf
<1>12. q.kind = "and" /\ m = 0 => S = {}
  BY <1>6, <1>7
<1>13. ASSUME q.kind = "and", m # 0 PROVE AllOf(m, Ss, S) /\ SumsAll(m, Ss, Fs, S, F)
  <2>1. ASSUME NEW d PROVE d \in S <=> \A i \in 1 .. m : d \in Ss[i]
    <3>1. d \in DocIds => (d \in S <=> \A i \in 1 .. m : d \in Ss[i])
      BY <1>6, <1>13
    <3>2. 1 \in 1 .. m
      BY <1>1, <1>13
    <3>3. (\A i \in 1 .. m : d \in Ss[i]) => d \in DocIds
      BY <1>4, <3>2
    <3>4. QED  BY <1>7, <3>1, <3>3
  <2>2. AllOf(m, Ss, S)
    BY <1>8, <2>1 DEF AllOf
  <2>3. ASSUME NEW d \in S PROVE F[d] = WordTotal([i \in 1 .. m |-> Fs[i][d]])
    <3>1. {k \in 1 .. m : d \in Ss[k]} = 1 .. m
      BY <2>1
    <3>2. QED  BY <1>9, <3>1
  <2>4. QED  BY <2>2, <2>3 DEF SumsAll
<1>14. ASSUME NEW d \in S PROVE F[d] \in Word
  <2> DEFINE J == {k \in 1 .. m : d \in Ss[k]}
             g == [i \in J |-> Fs[i][d]]
  <2>1. g \in [J -> Nat]
    BY <1>4, Numbers
  <2>2. IsFiniteSet(J)
    <3>1. IsFiniteSet(1 .. m) /\ J \subseteq 1 .. m
      BY <1>1, FS_Interval
    <3>2. QED  BY <3>1, FS_Subset
  <2>3. F[d] = WordTotal(g)
    BY <1>9
  <2> HIDE DEF J, g
  <2>4. QED  BY <2>1, <2>2, <2>3, TotalIs
<1>15. Keeps((n + 1) + 1, Combine(kids, q.kind, n + 1), S, F)
  <2>1. PICK k, kind : k = n + 1 /\ kind = q.kind
    OBVIOUS
  <2>2. k \in Nat /\ kids \in [1 .. m -> DocIdSetIterator[k]]
    BY <1>5, <2>1
  <2>3. \/ kind = "or" /\ AnyOf(m, Ss, S) /\ SumsUp(m, Ss, Fs, S, F)
        \/ kind = "and" /\ m = 0 /\ S = {}
        \/ kind = "and" /\ m # 0 /\ AllOf(m, Ss, S) /\ SumsAll(m, Ss, Fs, S, F)
    BY <1>10, <1>11, <1>12, <1>13, <2>1
  <2>4. \A i \in 1 .. m : Ss[i] \in DocSet /\ Keeps(k, kids[i], Ss[i], Fs[i])
    BY <1>4, <2>1
  <2>5. \A i \in 1 .. m : \A d \in Ss[i] : Fs[i][d] \in Word
    BY <1>4
  <2>6. Keeps(k + 1, Combine(kids, kind, k), S, F)
    BY <1>1, <1>8, <2>2, <2>3, <2>4, <2>5, CombineKeeps
  <2>7. QED  BY <2>1, <2>6
<1>16. QED  BY <1>3, <1>14, <1>15 DEF Built, S, F

\* Every query is built to an iterator over its documents, with their frequencies.
LEMMA BuildKeeps ==
    ASSUME SegInv, reader.open, NEW n \in Nat, NEW q \in QueryAst[n]
    PROVE  Built(n, q)
<1> DEFINE T == {k \in Nat : \A p \in QueryAst[k] : Built(k, p)}
<1>1. 0 \in T
  <2>1. ASSUME NEW p \in QueryAst[0] PROVE Built(0, p)
    <3>1. /\ Build[0] = BuildBy(0, 0) /\ Matches[0] = MatchesBy(0, 0) /\ FreqOf[0] = FreqBy(0, 0, 0)
      BY Definitions
    <3>2. p.kind = "all" \/ (p.kind = "term" /\ p \in TermQueries)
      BY QueryIs, 0 \in Nat
    <3>3. PICK z \in Nat : z = 0
      OBVIOUS
    <3>4. /\ Build[z] = BuildBy(z, 0) /\ Matches[z] = MatchesBy(z, 0) /\ FreqOf[z] = FreqBy(z, 0, 0)
          /\ p \in QueryAst[z]
      BY <3>1, <3>3
    <3>5. Built(z, p)
      BY <3>2, <3>4, AllBuilt, LeafBuilt
    <3>6. QED  BY <3>3, <3>5
  <2>2. QED  BY <2>1
<1>2. ASSUME NEW k \in Nat, k \in T PROVE k + 1 \in T
  <2>1. ASSUME NEW p \in QueryAst[k + 1] PROVE Built(k + 1, p)
    <3>1. /\ Build[k + 1] = BuildBy(k + 1, Build[k])
          /\ Matches[k + 1] = MatchesBy(k + 1, Matches[k])
          /\ FreqOf[k + 1] = FreqBy(k + 1, Matches[k], FreqOf[k])
      BY Definitions
    <3>2. \/ p.kind = "all"
          \/ p.kind = "term" /\ p \in TermQueries
          \/ p.kind \in {"and", "or"} /\ p.children \in Seq(QueryAst[k])
      BY QueryIs
    <3>3. k + 1 \in Nat
      OBVIOUS
    <3>4. CASE p.kind = "all"
      BY <3>1, <3>3, <3>4, AllBuilt
    <3>5. CASE p.kind = "term" /\ p \in TermQueries
      BY <3>1, <3>3, <3>5, LeafBuilt
    <3>6. CASE p.kind \in {"and", "or"} /\ p.children \in Seq(QueryAst[k])
      BY <1>2, <3>6, NodeBuilt
    <3>7. QED  BY <3>2, <3>4, <3>5, <3>6
  <2>2. QED  BY <2>1
<1> HIDE DEF T
<1>3. n \in T
  BY <1>1, <1>2, Induction
<1>4. QED  BY <1>3 DEF T

-----------------------------------------------------------------------------
(* The search.                                                             *)

\* What holds of a search: before the first Next its iterator is a new one over
\* the documents of the query; from then on it is one that calls have made of
\* it, at the first of them from where it was asked to go.
Fresh == Keeps(Depth + 1, root, Matching, FreqsFor(Depth, query))

Underway ==
    \E X, V :
        /\ Walks(Moved[Depth + 1], DocIdSetIterator[Depth + 1], Matching, FreqsFor(Depth, query), X, V)
        /\ root \in X /\ \E b \in Word : IsAt(root, b, Matching, V)

ItInv ==
    /\ SegInv
    /\ query \in {NoQuery, Refused} \cup QueryAst[Depth]
    /\ text \in DOMAIN Meaning \cup {<<>>}
    /\ walking \in BOOLEAN
    /\ ~Searching => root = MatchAll(0) /\ ~walking
    /\ Searching => reader.open /\ (walking => Underway) /\ (~walking => Fresh)

\* A tree is not one of the marks for no query.
LEMMA AsksIs ==
    ASSUME NEW q \in QueryAst[Depth]
    PROVE  q # NoQuery /\ q # Refused
<1>1. \A p \in {NoQuery, Refused} : p.kind \notin {"all", "term", "and", "or"}
  BY DEF NoQuery, Refused
<1>2. Depth \in Nat /\ QueryAst[Depth] \subseteq QueryAst[Depth + 1]
  BY QueriesAssumption, QueryIs
<1>3. q.kind \in {"all", "term", "and", "or"}
  BY <1>2, QueryIs
<1>4. QED  BY <1>1, <1>3

\* The documents of the search are of the segment.
LEMMA MatchingIs ==
    ASSUME SegInv
    PROVE  /\ Matching = DocsFor(Depth, query) /\ Matching \in DocSet
           /\ \A d \in Matching : FreqsFor(Depth, query)[d] = FreqOf[Depth][query][added[d + 1]]
<1>1. DocIds \in DocSet
  BY DocIdsAre
<1>2. QED  BY <1>1 DEF Matching, DocsFor, FreqsFor, DocSet

\* Documents are added to a segment before it is opened for a search.
LEMMA OpenStays ==
    ASSUME reader.open, SegNext
    PROVE  FALSE
BY DEF SegNext, AddDocument, Seal, None

\* The documents of a query stay the same while the segment does.
LEMMA SameMatching ==
    ASSUME UNCHANGED segVars
    PROVE  /\ \A q : DocsFor(Depth, q)' = DocsFor(Depth, q) /\ FreqsFor(Depth, q)' = FreqsFor(Depth, q)
           /\ query' = query => Matching' = Matching
<1>1. DocIds' = DocIds /\ added' = added
  BY DEF DocIds, segVars
<1>2. QED  BY <1>1 DEF DocsFor, FreqsFor, Matching

\* Build makes an iterator at the sentinel over the documents of its query.
LEMMA OpenIs ==
    ASSUME ItInv, NEW q \in QueryAst[Depth], reader.open, query = NoQuery, query' = q,
           root' = Build[Depth][q], text' \in DOMAIN Meaning \cup {<<>>},
           UNCHANGED <<segVars, walking>>
    PROVE  ItInv' /\ root'.current = kNoMoreDocs /\ Searching' /\ ~Searching /\ ~walking
<1>1. SegInv /\ SegInv' /\ Depth \in Nat
  BY StepFits, QueriesAssumption DEF ItInv
<1>2. Built(Depth, q)
  BY <1>1, BuildKeeps
<1>3. Keeps(Depth + 1, root', DocsFor(Depth, q), FreqsFor(Depth, q))
  BY <1>2 DEF Built
<1>4. Searching' /\ ~Searching /\ ~walking /\ ~walking' /\ reader'.open
  BY AsksIs DEF Searching, ItInv, segVars
<1>5. Matching' = DocsFor(Depth, q) /\ FreqsFor(Depth, query)' = FreqsFor(Depth, q)
  BY <1>1, SameMatching DEF Matching, DocsFor, FreqsFor
<1>6. Fresh'
  BY <1>3, <1>5 DEF Fresh
<1>7. root'.current = kNoMoreDocs
  BY <1>3 DEF Keeps
<1>8. QED  BY <1>1, <1>4, <1>6, <1>7 DEF ItInv

\* Next, from wherever the search is, goes to its next document.
LEMMA GoesOn ==
    ASSUME ItInv, CallNext
    PROVE  LET b == IF walking THEN root.current + 1 ELSE 0
           IN  /\ ItInv' /\ b \in Word /\ IsFirst(root'.current, Matching, b)
               /\ Searching /\ Searching' /\ walking' /\ Matching' = Matching
               /\ (~walking => root.current = kNoMoreDocs)
<1> DEFINE b == IF walking THEN root.current + 1 ELSE 0
           Fr == FreqsFor(Depth, query)
<1>1. /\ Searching /\ (walking => root.current # kNoMoreDocs)
      /\ root' = Moved[Depth + 1][root][ToNext] /\ walking' = TRUE
      /\ query' = query /\ text' = <<>> /\ UNCHANGED segVars
  BY DEF CallNext, Asked, ItInv
<1>2. SegInv /\ SegInv' /\ Matching \in DocSet
  BY <1>1, StepFits, MatchingIs DEF ItInv
<1>3. Matching' = Matching /\ Fr' = Fr
  BY <1>1, SameMatching
<1>4. /\ \E X, V : /\ Walks(Moved[Depth + 1], DocIdSetIterator[Depth + 1], Matching, Fr, X, V)
                   /\ root' \in X /\ IsAt(root', b, Matching, V)
      /\ b \in Word /\ (~walking => root.current = kNoMoreDocs)
  <2>1. CASE walking
    <3>1. PICK X, V : /\ Walks(Moved[Depth + 1], DocIdSetIterator[Depth + 1], Matching, Fr, X, V)
                      /\ root \in X /\ \E c \in Word : IsAt(root, c, Matching, V)
      BY <1>1, <2>1 DEF ItInv, Underway
    <3>2. PICK c \in Word : <<root, c>> \in V
      BY <1>1, <2>1, <3>1 DEF IsAt
    <3>3. root' \in X /\ IsAt(root', root.current + 1, Matching, V)
      BY <1>1, <3>1, <3>2, Numbers DEF Walks
    <3>4. root.current \in Matching
      BY <1>1, <2>1, <3>1 DEF Walks
    <3>5. root.current + 1 \in Word
      BY <1>2, <3>4, DocsAreWords
    <3>6. QED  BY <2>1, <3>1, <3>3, <3>5
  <2>2. CASE ~walking
    <3>1. PICK X, V : /\ Walks(Moved[Depth + 1], DocIdSetIterator[Depth + 1], Matching, Fr, X, V)
                      /\ root \in X /\ root.current = kNoMoreDocs
                      /\ IsAt(Moved[Depth + 1][root][ToNext], 0, Matching, V)
      BY <1>1, <2>2 DEF ItInv, Fresh, Keeps
    <3>2. root' \in X
      BY <1>1, <3>1, Numbers DEF Walks
    <3>3. QED  BY <1>1, <2>2, <3>1, <3>2, Numbers
  <2>3. walking \in BOOLEAN
    BY DEF ItInv
  <2>4. QED  BY <2>1, <2>2, <2>3
<1>5. Underway'
  BY <1>3, <1>4 DEF Underway
<1>6. Searching' /\ reader'.open
  BY <1>1 DEF Searching, ItInv, segVars
<1>7. ItInv'
  BY <1>1, <1>2, <1>5, <1>6 DEF ItInv
<1>8. QED  BY <1>1, <1>3, <1>4, <1>6, <1>7 DEF IsAt

\* Advance goes to the first document from its target on.
LEMMA AdvancesOn ==
    ASSUME ItInv, NEW target \in 1 .. kNoMoreDocs, CallAdvance(target)
    PROVE  /\ ItInv' /\ IsFirst(root'.current, Matching, target)
           /\ Searching /\ Searching' /\ walking' /\ Matching' = Matching
           /\ root.current # kNoMoreDocs
<1> DEFINE Fr == FreqsFor(Depth, query)
<1>1. /\ walking /\ root.current < target
      /\ root' = Moved[Depth + 1][root][target] /\ walking' = walking
      /\ query' = query /\ text' = text /\ UNCHANGED segVars
  BY DEF CallAdvance, Asked
<1>2. SegInv /\ SegInv' /\ Matching \in DocSet /\ Searching
  BY <1>1, StepFits, MatchingIs DEF ItInv
<1>3. Matching' = Matching /\ Fr' = Fr
  BY <1>1, SameMatching
<1>4. PICK X, V : /\ Walks(Moved[Depth + 1], DocIdSetIterator[Depth + 1], Matching, Fr, X, V)
                  /\ root \in X /\ \E c \in Word : IsAt(root, c, Matching, V)
  BY <1>1, <1>2 DEF ItInv, Underway
<1>5. target \in Word /\ root.current # kNoMoreDocs
  <2>1. root.current \in Word
    <3>1. root.current \in Matching \cup {kNoMoreDocs}
      BY <1>4 DEF Walks
    <3>2. QED  BY <1>2, <3>1, Numbers, DocsAreWords
  <2>2. QED  BY <1>1, <2>1, Numbers
<1>6. PICK c \in Word : <<root, c>> \in V /\ IsFirst(root.current, Matching, c)
  BY <1>4, <1>5 DEF IsAt
<1>7. c <= target
  <2>1. root.current >= c /\ root.current \in Word
    BY <1>2, <1>5, <1>6, DocsAreWords DEF IsFirst
  <2>2. QED  BY <1>1, <1>5, <2>1, Numbers
<1>8. root' \in X /\ IsAt(root', target, Matching, V)
  BY <1>1, <1>4, <1>5, <1>6, <1>7, Numbers DEF Walks
<1>9. Underway'
  BY <1>3, <1>4, <1>5, <1>8 DEF Underway
<1>10. Searching' /\ reader'.open
  BY <1>1, <1>2 DEF Searching, ItInv, segVars
<1>11. ItInv'
  BY <1>1, <1>2, <1>9, <1>10 DEF ItInv
<1>12. QED  BY <1>1, <1>2, <1>3, <1>5, <1>8, <1>10, <1>11 DEF IsAt

-----------------------------------------------------------------------------
(* What every search keeps to.                                             *)

\* No search has been opened.
LEMMA StartWalks == Init => ItInv
<1> SUFFICES ASSUME Init PROVE ItInv
  OBVIOUS
<1>1. SegInv
  BY StartFits DEF Init
<1>2. QED  BY <1>1 DEF Init, ItInv, Searching

\* Every step keeps a search where it was asked to go.
LEMMA StepWalks == ItInv /\ [Next]_vars => ItInv'
<1> SUFFICES ASSUME ItInv, [Next]_vars PROVE ItInv'
  OBVIOUS
<1>1. Queries \subseteq QueryAst[Depth]
  BY QueriesAssumption
<1>2. CASE SegNext /\ UNCHANGED itVars
  <2>1. SegInv'
    BY <1>2, StepFits DEF ItInv
  <2>2. ~Searching /\ ~Searching'
    BY <1>2, OpenStays DEF ItInv, Searching, itVars
  <2>3. QED  BY <1>2, <2>1, <2>2 DEF ItInv, itVars
<1>3. ASSUME NEW q \in Queries, Open(q) PROVE ItInv'
  BY <1>1, <1>3, OpenIs DEF Open, ItInv
<1>4. ASSUME NEW in \in DOMAIN Meaning, OpenText(in) PROVE ItInv'
  <2>1. CASE ParseText(in).ok
    <3>1. ParseText(in).val \in QueryAst[Depth]
      BY <2>1, QueriesAssumption
    <3>2. QED  BY <1>4, <2>1, <3>1, OpenIs DEF OpenText
  <2>2. CASE ~ParseText(in).ok
    <3>1. /\ query = NoQuery /\ query' = Refused /\ root' = root /\ text' = in
          /\ UNCHANGED <<segVars, walking>>
      BY <1>4, <2>2 DEF OpenText
    <3>2. SegInv'
      BY <3>1, StepFits DEF ItInv
    <3>3. QED  BY <3>1, <3>2 DEF ItInv, Searching
  <2>3. QED  BY <2>1, <2>2
<1>5. CASE CallNext
  BY <1>5, GoesOn
<1>6. ASSUME NEW target \in 1 .. kNoMoreDocs, CallAdvance(target) PROVE ItInv'
  BY <1>6, AdvancesOn
<1>7. CASE UNCHANGED vars
  <2>1. UNCHANGED segVars /\ UNCHANGED itVars
    BY <1>7 DEF vars
  <2>2. SegInv'
    BY <2>1, StepFits DEF ItInv
  <2>3. Matching' = Matching /\ FreqsFor(Depth, query)' = FreqsFor(Depth, query)
    BY <2>1, SameMatching DEF itVars
  <2>4. Searching' = Searching /\ (Underway => Underway') /\ (Fresh => Fresh')
    BY <2>1, <2>3 DEF Searching, Underway, Fresh, itVars
  <2>5. QED  BY <2>1, <2>2, <2>4 DEF ItInv, itVars, segVars
<1>8. QED  BY <1>2, <1>3, <1>4, <1>5, <1>6, <1>7 DEF Next

\* Between the calls Searcher::Search makes, the iterator Build gave it is at the
\* first document of the query from where it was asked to go, or at its end.
THEOREM SearchKeepsPlace == Spec => []ItInv
<1>1. QED  BY StartWalks, StepWalks, PTL DEF Spec

\* Under Next and Advance an iterator keeps its kind and children, and every
\* DocId, frequency and count fits its uint32: no increment passes the sentinel.
THEOREM SearchTypeCorrect == Spec => []TypeOK
<1>1. ASSUME ItInv PROVE TypeOK
  <2>1. SegTypeOK
    BY <1>1, SegTypes DEF ItInv
  <2>2. MatchAll(0) \in DocIdSetIterator[Depth + 1] /\ Depth + 1 \in Nat
    <3>1. Depth + 1 \in Nat
      BY QueriesAssumption
    <3>2. MatchAll(0) \in MatchAllIterator
      BY Numbers DEF MatchAll, MatchAllIterator
    <3>3. MatchAll(0) \in DocIdSetIterator[0]
      BY <3>2, Definitions
    <3>4. QED  BY <3>1, <3>3, HeightIs
  <2>3. root \in DocIdSetIterator[Depth + 1]
    BY <1>1, <2>2 DEF ItInv, Underway, Fresh, Keeps, Walks
  <2>4. QED  BY <1>1, <2>1, <2>3 DEF ItInv, TypeOK
<1>2. QED  BY <1>1, SearchKeepsPlace, PTL

\* While it is searched, too, a segment gives back what was added to it: the
\* entries of its files lead to the bytes SealSegment wrote.
THEOREM SearchedGivesBack == Spec => []SegmentGivesBack
<1>1. ItInv => SegmentGivesBack
  BY ReadsPostings, ReadsStored DEF ItInv, SegmentGivesBack
<1>2. QED  BY <1>1, SearchKeepsPlace, PTL

\* The frequency reported at a document is the number of times the terms of the
\* query occur in it: a walking search is at the place it was asked for, and
\* with it each child that takes part (iterators.h:25).
THEOREM FreqAlwaysTotal == Spec => []FreqIsTotal
<1>1. ASSUME ItInv PROVE FreqIsTotal
  <2>1. SUFFICES ASSUME walking, root.current # kNoMoreDocs
                 PROVE  Freq(root) = FreqOf[Depth][query][added[root.current + 1]]
    BY DEF FreqIsTotal
  <2>2. Underway /\ SegInv
    BY <1>1, <2>1 DEF ItInv
  <2>3. PICK X, V : /\ Walks(Moved[Depth + 1], DocIdSetIterator[Depth + 1], Matching,
                             FreqsFor(Depth, query), X, V)
                    /\ root \in X /\ \E c \in Word : IsAt(root, c, Matching, V)
    BY <2>2 DEF Underway
  <2>4. PICK c \in Word : <<root, c>> \in V
    BY <2>1, <2>3 DEF IsAt
  <2>5. Freq(root) = FreqsFor(Depth, query)[root.current] /\ root.current \in Matching
    BY <2>1, <2>3, <2>4 DEF Walks
  <2>6. QED  BY <2>2, <2>5, MatchingIs
<1>2. QED  BY <1>1, SearchKeepsPlace, PTL

-----------------------------------------------------------------------------
(* The search implements the walk of a cursor.                             *)

\* The first document, as the cursor chooses it.
LEMMA FirstFromIs ==
    ASSUME SegInv, Searching, NEW b \in Word, NEW x, IsFirst(x, Matching, b)
    PROVE  x = Walk!FirstFrom(b)
<1> DEFINE from == {y \in Matching : y >= b}
<1>1. Matching \in DocSet
  BY MatchingIs
<1>2. Walk!FirstFrom(b) = IF from = {} THEN kNoMoreDocs ELSE CHOOSE y \in from : \A z \in from : y <= z
  BY DEF Walk!FirstFrom
<1>3. \A y \in from : y \in Nat
  BY <1>1, DocsAreWords
<1>4. b \in Nat
  BY Numbers
<1>5. CASE x = kNoMoreDocs /\ \A d \in Matching : d < b
  <2>1. from = {}
    BY <1>1, <1>4, <1>5, DocsAreWords
  <2>2. QED  BY <1>2, <1>5, <2>1
<1>6. CASE x \in Matching /\ x >= b /\ \A d \in Matching : d >= b => x <= d
  <2>1. x \in from /\ \A z \in from : x <= z
    BY <1>6
  <2> HIDE DEF from
  <2>2. PICK c \in from : c = (CHOOSE y \in from : \A z \in from : y <= z) /\ \A z \in from : c <= z
    BY <2>1
  <2>3. x = c
    BY <1>3, <2>1, <2>2
  <2>4. QED  BY <1>2, <2>1, <2>2, <2>3
<1>7. QED  BY <1>5, <1>6 DEF IsFirst


\* No search has been opened.
LEMMA InitIsWalk == Init => Walk!Init
BY DEF Init, Walk!Init, Searching

\* Every step of a search is one of the cursor, or none.
LEMMA StepIsWalk == ItInv /\ [Next]_vars => [Walk!Next]_Walk!vars
<1> SUFFICES ASSUME ItInv, [Next]_vars PROVE [Walk!Next]_Walk!vars
  OBVIOUS
<1>0. SegInv /\ ItInv'
  BY StepWalks DEF ItInv
<1>1. ASSUME Searching' = Searching, ~Searching PROVE UNCHANGED Walk!vars
  BY <1>1 DEF Walk!vars
<1>2. CASE SegNext /\ UNCHANGED itVars
  <2>1. ~Searching /\ Searching' = Searching
    BY <1>2, OpenStays DEF ItInv, Searching, itVars
  <2>2. QED  BY <1>1, <2>1
<1>3. ASSUME ~Searching, Searching', ~walking', root'.current = kNoMoreDocs, UNCHANGED segVars
      PROVE  Walk!Build
  <2>1. Matching' \subseteq DocIds' /\ DocIds' = DocIds
    BY <1>3 DEF Matching, DocIds, segVars
  <2>2. DocIds \in SUBSET (0 .. kNoMoreDocs - 1)
    BY <1>0, DocIdsAre DEF DocSet
  <2>3. Matching' \in SUBSET (0 .. kNoMoreDocs - 1)
    BY <2>1, <2>2
  <2>4. QED  BY <1>3, <2>3 DEF Walk!Build
<1>4. ASSUME NEW q \in Queries, Open(q) PROVE Walk!Build
  <2>1. q \in QueryAst[Depth] /\ text \in DOMAIN Meaning \cup {<<>>}
    BY QueriesAssumption DEF ItInv
  <2>2. /\ root'.current = kNoMoreDocs /\ Searching' /\ ~Searching
        /\ ~walking' /\ UNCHANGED segVars
    BY <1>4, <2>1, OpenIs DEF Open
  <2>3. QED  BY <1>3, <2>2
<1>5. ASSUME NEW in \in DOMAIN Meaning, OpenText(in) PROVE Walk!Build \/ UNCHANGED Walk!vars
  <2>1. CASE ParseText(in).ok
    <3>1. ParseText(in).val \in QueryAst[Depth]
      BY <2>1, QueriesAssumption
    <3>2. /\ root'.current = kNoMoreDocs /\ Searching' /\ ~Searching
          /\ ~walking' /\ UNCHANGED segVars
      BY <1>5, <2>1, <3>1, OpenIs DEF OpenText
    <3>3. QED  BY <1>3, <3>2
  <2>2. CASE ~ParseText(in).ok
    <3>1. query = NoQuery /\ query' = Refused
      BY <1>5, <2>2 DEF OpenText
    <3>2. Searching = FALSE /\ Searching' = FALSE
      BY <3>1 DEF Searching
    <3>3. QED  BY <1>1, <3>2
  <2>3. QED  BY <2>1, <2>2
<1>6. CASE CallNext
  <2>1. PICK b : b = IF walking THEN root.current + 1 ELSE 0
    OBVIOUS
  <2>2. /\ b \in Word /\ IsFirst(root'.current, Matching, b)
        /\ Searching /\ Searching' /\ walking' /\ Matching' = Matching
        /\ (~walking => root.current = kNoMoreDocs)
    BY <1>6, <2>1, GoesOn
  <2>3. root'.current = Walk!FirstFrom(b)
    BY <1>0, <2>2, FirstFromIs
  <2>4. walking => root.current # kNoMoreDocs
    BY <1>6 DEF CallNext
  <2>5. CASE walking
    BY <2>1, <2>2, <2>3, <2>4, <2>5 DEF Walk!Next, Walk!NextDoc
  <2>6. CASE ~walking
    BY <2>1, <2>2, <2>3, <2>6 DEF Walk!Next, Walk!First
  <2>7. QED  BY <2>5, <2>6
<1>7. ASSUME NEW target \in 1 .. kNoMoreDocs, CallAdvance(target) PROVE Walk!Next
  <2>1. /\ IsFirst(root'.current, Matching, target)
        /\ Searching /\ Searching' /\ walking' /\ Matching' = Matching
        /\ root.current # kNoMoreDocs
    BY <1>7, AdvancesOn
  <2>2. target \in Word /\ target \in (0 .. kNoMoreDocs - 1) \cup {kNoMoreDocs}
    BY Numbers
  <2>3. root'.current = Walk!FirstFrom(target)
    BY <1>0, <2>1, <2>2, FirstFromIs
  <2>4. walking /\ root.current < target
    BY <1>7 DEF CallAdvance
  <2>5. Walk!Advance(target)
    BY <2>1, <2>3, <2>4 DEF Walk!Advance
  <2>6. QED  BY <2>2, <2>5 DEF Walk!Next
<1>8. CASE UNCHANGED vars
  <2>1. UNCHANGED segVars /\ UNCHANGED itVars
    BY <1>8 DEF vars
  <2>2. Matching' = Matching /\ Searching' = Searching /\ root' = root /\ walking' = walking
    BY <2>1, SameMatching DEF Searching, itVars
  <2>3. QED  BY <2>2 DEF Walk!vars
<1>9. QED
  BY <1>2, <1>4, <1>5, <1>6, <1>7, <1>8 DEF Next, Walk!Next

\* The iterator of every query walks, upwards and without missing or repeating
\* one, over exactly the documents that match it: however deep its tree, and
\* however Next and Advance take turns.
THEOREM IteratorsWalkMatches == Spec => WalksMatches
<1>1. QED
  BY InitIsWalk, StepIsWalk, SearchKeepsPlace, PTL DEF Spec, WalksMatches, Walk!Spec
=============================================================================
