--------------------------- MODULE SearcherProofs ---------------------------
(***************************************************************************)
(* A search returns what it should, for every index, query, scorer and     *)
(* ranker: the heap of stage 1 keeps a best choice of the entries offered  *)
(* to it, the leaves read back what the index says (PostingsProofs), each  *)
(* matching document is offered once, and the sorting and cutting of stage *)
(* 3 keeps hits, scores and features together.                             *)
(***************************************************************************)
EXTENDS Searcher, PostingsProofs

\* The heap is finite, which its cardinality says nothing without.
HeapInv ==
    /\ HeapTypeOK
    /\ IsFiniteSet(heap)
    /\ HeapIsBest

\* What an entry is, for the arithmetic below.
LEMMA EntryFields ==
    ASSUME NEW e \in Entries
    PROVE  e.score \in Int /\ e.segment_index \in Int /\ e.doc_id \in Int
BY TopKAssumption

\* The top of the heap scores least in it.
LEMMA TopIsLeast ==
    ASSUME HeapTypeOK, NEW top, Top(top), NEW e \in heap
    PROVE  top \in Entries /\ e \in Entries /\ e.score >= top.score
<1>1. top \in Entries /\ e \in Entries
  BY DEF HeapTypeOK, Top
<1>2. top.score \in Int /\ e.score \in Int
  BY <1>1, EntryFields
<1>3. CASE e = top
  BY <1>1, <1>2, <1>3
<1>4. CASE e # top
  <2>1. Above(top, e)
    BY <1>4 DEF Top
  <2>2. QED  BY <1>1, <1>2, <2>1 DEF Above
<1>5. QED  BY <1>3, <1>4

\* While it is not full, the heap takes everything: nothing was left out, so
\* nothing is after the push.
LEMMA PushKeepsBest ==
    ASSUME HeapInv, NEW e \in Entries \ offered, Push(e), offered' = offered \cup {e},
           UNCHANGED top_n
    PROVE  IsFiniteSet(heap') /\ HeapIsBest'
<1>1. /\ IsFiniteSet(heap) /\ heap \subseteq offered
      /\ top_n \in Nat
      /\ Cardinality(heap) < top_n /\ heap' = heap \cup {e}
  BY TopKAssumption DEF HeapInv, HeapTypeOK, HeapIsBest, Push
<1>2. Cardinality(heap) \in Nat
  BY <1>1, FS_CardinalityType
<1>3. e \notin heap
  BY <1>1
<1>4. IsFiniteSet(heap') /\ Cardinality(heap') = Cardinality(heap) + 1
  BY <1>1, <1>3, FS_AddElement
<1>5. offered \ heap = {}
  BY <1>1, <1>2 DEF HeapInv, HeapIsBest
<1>6. offered' \ heap' = {}
  BY <1>1, <1>5
<1>7. Cardinality(heap') <= top_n'
  BY <1>1, <1>2, <1>4
<1>8. heap' \subseteq offered'
  BY <1>1
<1>9. QED  BY <1>4, <1>6, <1>7, <1>8 DEF HeapIsBest

\* A full heap gives its top up for a better entry: the top now scores less
\* than the new entry and no more than the others.
LEMMA ReplaceKeepsBest ==
    ASSUME HeapInv, NEW e \in Entries \ offered, Replace(e), offered' = offered \cup {e},
           UNCHANGED top_n
    PROVE  IsFiniteSet(heap') /\ HeapIsBest'
<1>1. /\ IsFiniteSet(heap) /\ heap \subseteq offered /\ offered \subseteq Entries
      /\ top_n \in Nat /\ Cardinality(heap) <= top_n
      /\ Cardinality(heap) >= top_n
      /\ HeapTypeOK
  BY TopKAssumption DEF HeapInv, HeapTypeOK, HeapIsBest, Replace
<1>2. PICK top \in heap : Top(top) /\ e.score > top.score /\ heap' = (heap \ {top}) \cup {e}
  BY DEF Replace
<1>3. Cardinality(heap) \in Nat /\ Cardinality(heap) = top_n
  BY <1>1, FS_CardinalityType
<1>4. /\ IsFiniteSet(heap \ {top})
      /\ Cardinality(heap \ {top}) = Cardinality(heap) - 1
  BY <1>1, <1>2, FS_RemoveElement
<1>5. e \notin heap \ {top}
  BY <1>1
<1>6. IsFiniteSet(heap') /\ Cardinality(heap') = Cardinality(heap \ {top}) + 1
  BY <1>2, <1>4, <1>5, FS_AddElement
<1>7. Cardinality(heap') = top_n'
  BY <1>3, <1>4, <1>6
<1>8. heap' \subseteq offered'
  BY <1>1, <1>2
<1>9. ASSUME NEW out \in offered' \ heap', NEW f \in heap'
      PROVE  f.score >= out.score
  <2>1. top.score \in Int /\ e.score \in Int /\ e.score > top.score
    BY <1>1, <1>2, EntryFields
  <2>2. out \in Entries /\ f \in Entries
    BY <1>1, <1>2
  <2>3. out.score \in Int /\ f.score \in Int
    BY <2>2, EntryFields
  <2>4. out = top \/ out \in offered \ heap
    BY <1>2
  <2>5. top.score >= out.score
    BY <1>2, <2>1, <2>3, <2>4 DEF HeapInv, HeapIsBest
  <2>6. f.score >= top.score
    <3>1. CASE f = e
      BY <2>1, <3>1
    <3>2. CASE f \in heap
      BY <1>1, <1>2, <3>2, TopIsLeast
    <3>3. QED  BY <1>2, <3>1, <3>2
  <2>7. QED  BY <2>1, <2>3, <2>5, <2>6
<1>10. Cardinality(heap') <= top_n'
  BY <1>1, <1>7
<1>11. QED  BY <1>6, <1>7, <1>8, <1>9, <1>10 DEF HeapIsBest

\* An entry passed over scores no more than the top, and so than any.
LEMMA PassKeepsBest ==
    ASSUME HeapInv, NEW e \in Entries \ offered, Pass(e), offered' = offered \cup {e},
           UNCHANGED top_n
    PROVE  IsFiniteSet(heap') /\ HeapIsBest'
<1>1. /\ IsFiniteSet(heap) /\ heap \subseteq offered /\ offered \subseteq Entries
      /\ top_n \in Nat /\ Cardinality(heap) <= top_n
      /\ Cardinality(heap) >= top_n
      /\ HeapTypeOK /\ heap' = heap
  BY TopKAssumption DEF HeapInv, HeapTypeOK, HeapIsBest, Pass
<1>2. PICK top \in heap : Top(top) /\ ~(e.score > top.score)
  BY DEF Pass
<1>3. Cardinality(heap') = top_n'
  BY <1>1, FS_CardinalityType
<1>4. ASSUME NEW out \in offered' \ heap', NEW f \in heap'
      PROVE  f.score >= out.score
  <2>1. CASE out = e
    <3>1. e.score \in Int /\ top.score \in Int /\ f.score \in Int
      BY <1>1, <1>2, EntryFields
    <3>2. f.score >= top.score
      BY <1>1, <1>2, TopIsLeast
    <3>3. QED  BY <1>2, <2>1, <3>1, <3>2
  <2>2. CASE out \in offered \ heap
    BY <1>1, <2>2 DEF HeapInv, HeapIsBest
  <2>3. QED  BY <1>1, <2>1, <2>2
<1>5. heap' \subseteq offered' /\ Cardinality(heap') <= top_n'
  BY <1>1
<1>6. QED  BY <1>1, <1>3, <1>4, <1>5 DEF HeapIsBest

\* A step of the heap keeps all of it.
LEMMA HeapStep ==
    ASSUME HeapInv, NEW e \in Entries \ offered, Offer(e)
    PROVE  HeapInv'
<1>1. offered' = offered \cup {e} /\ UNCHANGED top_n
  BY DEF Offer
<1>2. HeapTypeOK'
  <2>1. heap' \subseteq heap \cup {e}
    BY DEF Offer, Push, Replace, Pass
  <2>2. QED  BY <1>1, <2>1 DEF HeapInv, HeapTypeOK
<1>3. IsFiniteSet(heap') /\ HeapIsBest'
  BY <1>1, PushKeepsBest, ReplaceKeepsBest, PassKeepsBest DEF Offer
<1>4. QED  BY <1>2, <1>3 DEF HeapInv

LEMMA HeapStart == HeapInit => HeapInv
<1>1. Cardinality({}) = 0 /\ IsFiniteSet({})
  BY FS_EmptySet
<1>2. SUFFICES ASSUME HeapInit PROVE HeapInv
  OBVIOUS
<1>3. top_n \in Nat
  BY <1>2, TopKAssumption DEF HeapInit
<1>4. QED  BY <1>1, <1>2, <1>3 DEF HeapInit, HeapInv, HeapTypeOK, HeapIsBest

\* The heap and the entries offered keep their types, and what the heap holds
\* is a best choice of them, whatever is offered and in whatever order: stage 1
\* keeps the top_n best of what it is offered (searcher.cpp:238-243).
THEOREM HeapAlwaysBest == HeapSpec => [](HeapTypeOK /\ HeapIsBest)
<1>1. HeapInit => HeapInv
  BY HeapStart
<1>2. HeapInv /\ [HeapNext]_heapVars => HeapInv'
  <2>1. SUFFICES ASSUME HeapInv, [HeapNext]_heapVars PROVE HeapInv'
    OBVIOUS
  <2>2. CASE UNCHANGED heapVars
    BY <2>1, <2>2 DEF heapVars, HeapInv, HeapTypeOK, HeapIsBest
  <2>3. CASE HeapNext
    BY <2>1, <2>3, HeapStep DEF HeapNext
  <2>4. QED  BY <2>1, <2>2, <2>3
<1>3. HeapInv => HeapTypeOK /\ HeapIsBest
  BY DEF HeapInv
<1>4. QED  BY <1>1, <1>2, <1>3, PTL DEF HeapSpec

-----------------------------------------------------------------------------
\* The inductive invariant.

\* The documents stage 1 has passed, and the entry of one.
Seen == {at \in Matching : at[1] < si \/ (at[1] = si /\ at[2] < d)}
EntryAt(at) == Entry(at[1], at[2])

\* Stage 1 is over.
Ready == pc \in {"rerank", "sort", "done"}

Candidate == [score : Int, segment_index : Nat, doc_id : Nat]

WalkTypeOK ==
    /\ index \in Indexes /\ opts \in Options /\ top_n = TopN(opts)
    /\ si \in 1 .. Len(index.postings) + 1 /\ d \in 0 .. kNoMoreDocs
    /\ pc \in {"walk", "rerank", "sort", "done", "undefined"}

\* Each document passed was offered once, with its own entry.
OfferedOnce ==
    /\ IsFiniteSet(Seen) /\ IsFiniteSet(offered)
    /\ offered = {EntryAt(at) : at \in Seen}
    /\ total_hits = Cardinality(Seen) /\ total_hits = Cardinality(offered)
    /\ Ready => si = Len(index.postings) + 1

\* The candidates are what the heap kept, each once.
CandidatesFit ==
    IF Ready
    THEN /\ candidates \in Seq(Candidate) /\ Len(candidates) = Cardinality(heap)
         /\ \A i \in DOMAIN candidates :
                At(candidates[i]) \in Seen /\ EntryAt(At(candidates[i])) \in heap
         /\ \A at \in Seen : EntryAt(at) \in heap =>
                \E i \in DOMAIN candidates : At(candidates[i]) = at
         /\ \A i, j \in DOMAIN candidates :
                i # j => At(candidates[i]) # At(candidates[j])
    ELSE candidates = <<>>

\* What they are scored by, and the features they have.
ScoresFit ==
    /\ Ready /\ (pc = "rerank" \/ opts.ranker = NoRanker) =>
           \A i \in DOMAIN candidates : candidates[i] = EntryAt(At(candidates[i]))
    /\ pc \in {"sort", "done"} /\ opts.ranker # NoRanker =>
           \A i \in DOMAIN candidates :
               candidates[i].score = RankerScore(opts.ranker, TrueFeatures(At(candidates[i])))
    /\ pc \in {"sort", "done"} /\ run_stage2(opts) =>
           features_by_index = [i \in DOMAIN candidates |-> TrueFeatures(At(candidates[i]))]

\* The result is a sorted and cut choice of the candidates.
ResultFits ==
    IF pc = "done"
    THEN \E order \in SortOrders :
             LET n == Min({Len(candidates), opts.size})
             IN  /\ hits = [i \in 1 .. n |-> candidates[order[i]]]
                 /\ features = IF opts.collect_features
                               THEN [i \in 1 .. n |-> features_by_index[order[i]]] ELSE <<>>
    ELSE hits = <<>> /\ features = <<>>

SearchInv ==
    WalkTypeOK /\ HeapInv /\ OfferedOnce /\ CandidatesFit /\ ScoresFit /\ ResultFits

-----------------------------------------------------------------------------
\* The leaves.

\* What a segment holds for a leaf, and the documents asked for.
LEMMA IndexParts ==
    ASSUME index \in Indexes
    PROVE  /\ index.has_positions \in BOOLEAN /\ index.has_token_weights \in BOOLEAN
           /\ Len(index.postings) \in Nat /\ Segments = 1 .. Len(index.postings)
           /\ \A s \in Segments : \A l \in Leaves : index.postings[s][l] \in PostingLists
           /\ \A s \in Segments : index.matching[s] \in SUBSET (0 .. kNoMoreDocs - 1)
<1>1. /\ index.has_positions \in BOOLEAN /\ index.has_token_weights \in BOOLEAN
      /\ index.postings \in Seq([Leaves -> PostingLists])
      /\ index.matching \in [DOMAIN index.postings -> SUBSET (0 .. kNoMoreDocs - 1)]
  BY IndexesAssumption
<1>2. QED  BY <1>1 DEF Segments

\* What the index says of a leaf at a document is what any posting of the
\* document says: a list has one.
LEMMA SaidOf ==
    ASSUME index \in Indexes, NEW s \in Segments, NEW l \in Leaves, NEW doc
    PROVE  LET pl == index.postings[s][l]
           IN  \/ /\ \A i \in DOMAIN pl : pl[i].doc # doc
                  /\ Said(s, l, doc) =
                        [matched |-> FALSE, tf |-> 0, pos |-> kNoPosition, weight |-> One]
               \/ \E i \in DOMAIN pl :
                      /\ pl[i].doc = doc
                      /\ Said(s, l, doc) =
                            [matched |-> TRUE, tf |-> pl[i].tf,
                             pos |-> IF index.has_positions THEN pl[i].pos ELSE kNoPosition,
                             weight |-> IF index.has_token_weights
                                        THEN QuantizeTokenWeight(pl[i].weight) ELSE One]
<1> DEFINE pl == index.postings[s][l]
           at == {i \in DOMAIN pl : pl[i].doc = doc}
<1>1. pl \in PostingLists
  BY IndexParts
<1>2. DOMAIN pl \subseteq Nat
  BY <1>1, PostingFields
<1>3. CASE at = {}
  BY <1>3 DEF Said
<1>4. CASE at # {}
  <2>1. at \in SUBSET Nat
    BY <1>2
  <2>2. Min(at) \in at
    BY <1>4, <2>1, LeastNumber
  <2>3. QED  BY <1>4, <2>2 DEF Said
<1>5. QED  BY <1>3, <1>4

\* The features of a leaf are what the index says of it.
LEMMA FeaturesAsSaid ==
    ASSUME index \in Indexes, NEW s \in Segments, NEW l \in Leaves,
           NEW doc \in 0 .. kNoMoreDocs - 1
    PROVE  LeafFeatures(s, l, doc) = Said(s, l, doc) /\ Said(s, l, doc) \in LeafValues
<1> DEFINE pl == index.postings[s][l]
           hp == index.has_positions
           hw == index.has_token_weights
           it == LeafAt(s, l, doc, hp, hw)
<1>1. pl \in PostingLists /\ hp \in BOOLEAN /\ hw \in BOOLEAN
  BY IndexParts
<1>2. /\ \A i \in DOMAIN pl : pl[i].doc = doc => Gives(it, pl[i], hp, hw)
      /\ (\A i \in DOMAIN pl : pl[i].doc # doc) => it.current # doc
  BY <1>1, PostingsReadBack DEF LeafAt
<1>3. kNoPosition \in Nat /\ One \in 0 .. ByteMax /\ 0 \in 0 .. WordMax
  BY Widths DEF One
<1>4. CASE /\ \A i \in DOMAIN pl : pl[i].doc # doc
           /\ Said(s, l, doc) = [matched |-> FALSE, tf |-> 0, pos |-> kNoPosition, weight |-> One]
  <2>1. it.current # doc
    BY <1>2, <1>4
  <2>2. LeafFeatures(s, l, doc) =
            [matched |-> FALSE, tf |-> 0, pos |-> kNoPosition, weight |-> One]
    BY <2>1 DEF LeafFeatures
  <2>3. QED  BY <1>3, <1>4, <2>2 DEF LeafValues
<1>5. ASSUME NEW i \in DOMAIN pl, pl[i].doc = doc,
             Said(s, l, doc) =
                 [matched |-> TRUE, tf |-> pl[i].tf,
                  pos |-> IF hp THEN pl[i].pos ELSE kNoPosition,
                  weight |-> IF hw THEN QuantizeTokenWeight(pl[i].weight) ELSE One]
      PROVE  LeafFeatures(s, l, doc) = Said(s, l, doc) /\ Said(s, l, doc) \in LeafValues
  <2>1. Gives(it, pl[i], hp, hw)
    BY <1>2, <1>5
  <2>2. pl # <<>>
    BY <1>1, <1>5, PostingFields
  <2>3. it.current = doc
    BY <1>5, <2>1 DEF Gives
  <2>4. LeafFeatures(s, l, doc) =
            [matched |-> TRUE, tf |-> it.freq, pos |-> it.pos, weight |-> it.weight]
    BY <2>2, <2>3 DEF LeafFeatures
  <2>5. /\ it.freq = pl[i].tf
        /\ it.pos = IF hp THEN pl[i].pos ELSE kNoPosition
        /\ it.weight = IF hw THEN QuantizeTokenWeight(pl[i].weight) ELSE One
    BY <2>1 DEF Gives
  <2>6. /\ pl[i].tf \in 0 .. WordMax /\ pl[i].pos \in 0 .. kNoPosition
        /\ QuantizeTokenWeight(pl[i].weight) \in 0 .. ByteMax
    <3>1. i \in DOMAIN pl /\ pl \in PostingLists
      BY <1>1, <1>5
    <3>2. pl[i].tf \in 0 .. WordMax /\ pl[i].pos \in 0 .. kNoPosition /\ pl[i].weight \in Int
      BY <3>1, PostingFields
    <3>3. QED  BY <3>2, Quantised DEF Byte
  <2>7. /\ (IF hp THEN pl[i].pos ELSE kNoPosition) \in 0 .. kNoPosition
        /\ (IF hw THEN QuantizeTokenWeight(pl[i].weight) ELSE One) \in 0 .. ByteMax
    BY <1>3, <2>6
  <2>8. LeafFeatures(s, l, doc) = Said(s, l, doc)
    BY <1>5, <2>4, <2>5
  <2>9. Said(s, l, doc) \in LeafValues
    BY <1>5, <2>6, <2>7 DEF LeafValues
  <2>10. QED  BY <2>8, <2>9
<1>6. QED  BY <1>4, <1>5, SaidOf

\* Stage 1 reads some frequency, and the true one from a field that stores
\* neither positions nor weights: it decodes as if there were none.
LEMMA Stage1Reads ==
    ASSUME index \in Indexes, NEW s \in Segments, NEW l \in Leaves,
           NEW doc \in 0 .. kNoMoreDocs - 1
    PROVE  /\ Stage1Freq(s, l, doc) \in 0 .. WordMax
           /\ ~index.has_positions /\ ~index.has_token_weights =>
                  Stage1Freq(s, l, doc) = Said(s, l, doc).tf
<1> DEFINE pl == index.postings[s][l]
           hp == index.has_positions
           hw == index.has_token_weights
           bytes == WritePostings(pl, hp, hw)
           start == TermIterator(bytes, FALSE, FALSE)
           it == LeafAt(s, l, doc, FALSE, FALSE)
<1>1. pl \in PostingLists /\ hp \in BOOLEAN /\ hw \in BOOLEAN
  BY IndexParts
<1>2. bytes \in Seq(Byte)
  BY <1>1, Layout
<1>3. start \in TermIterators(bytes)
  BY <1>2, TermIteratorType
<1>4. doc \in 0 .. kNoMoreDocs
  BY Widths
<1>5. it \in TermIterators(bytes)
  BY <1>2, <1>3, <1>4, AdvanceType DEF LeafAt
<1>6. it.freq \in 0 .. WordMax /\ 0 \in 0 .. WordMax
  <2>1. \A any \in TermIterators(bytes) : any.freq \in 0 .. WordMax
    BY DEF TermIterators
  <2>2. it.freq \in 0 .. WordMax
    BY <1>5, <2>1
  <2>3. 0 \in 0 .. WordMax
    BY Widths
  <2>4. QED  BY <2>2, <2>3
<1>7. Stage1Freq(s, l, doc) \in 0 .. WordMax
  BY <1>6 DEF Stage1Freq
<1>8. ASSUME ~hp, ~hw PROVE Stage1Freq(s, l, doc) = Said(s, l, doc).tf
  <2>1. it = LeafAt(s, l, doc, hp, hw)
    BY <1>1, <1>8
  <2>2. LeafFeatures(s, l, doc).tf = Said(s, l, doc).tf
    BY FeaturesAsSaid
  <2>3. QED  BY <2>1, <2>2 DEF LeafFeatures, Stage1Freq
<1>9. QED  BY <1>7, <1>8

\* An entry stands for its document, and is one the heap may be offered.
LEMMA EntryOfMatch ==
    ASSUME index \in Indexes, NEW at \in Matching
    PROVE  /\ EntryAt(at) \in Entries /\ EntryAt(at) \in Candidate
           /\ At(EntryAt(at)) = at
           /\ at[1] \in Segments /\ at[2] \in 0 .. kNoMoreDocs - 1
           /\ ~index.has_positions /\ ~index.has_token_weights =>
                  EntryAt(at).score = TrueScore(at)
<1>1. /\ at[1] \in Segments /\ at[2] \in 0 .. kNoMoreDocs - 1 /\ at = <<at[1], at[2]>>
  BY DEF Matching
<1> DEFINE freqs == [l \in Leaves |-> Stage1Freq(at[1], l, at[2])]
<1>2. freqs \in [Leaves -> 0 .. WordMax]
  BY <1>1, Stage1Reads
<1>3. EntryAt(at) = [score |-> Bm25(freqs), segment_index |-> at[1], doc_id |-> at[2]]
  BY DEF EntryAt, Entry
<1>4. EntryAt(at) \in Entries
  BY <1>1, <1>2, <1>3, ScoresAssumption DEF Segments
<1>5. EntryAt(at).score \in Int
  BY <1>4, EntryFields
<1>6. at[1] \in Nat /\ at[2] \in Nat
  BY <1>1, IndexParts
<1>7. EntryAt(at) \in Candidate
  BY <1>3, <1>5, <1>6 DEF Candidate
<1>8. At(EntryAt(at)) = at
  BY <1>1, <1>3 DEF At
<1>9. ASSUME ~index.has_positions, ~index.has_token_weights
      PROVE  EntryAt(at).score = TrueScore(at)
  <2>1. \A l \in Leaves : Stage1Freq(at[1], l, at[2]) = Said(at[1], l, at[2]).tf
    BY <1>1, <1>9, Stage1Reads
  <2>2. freqs = [l \in Leaves |-> Said(at[1], l, at[2]).tf]
    BY <2>1
  <2>3. QED  BY <1>3, <2>2 DEF TrueScore
<1>10. QED  BY <1>1, <1>4, <1>7, <1>8, <1>9

-----------------------------------------------------------------------------
\* Counting.

\* An arrangement of 1 .. n without repetitions leaves none out.
LEMMA OrderOnto ==
    ASSUME NEW n \in Nat, NEW f \in [1 .. n -> 1 .. n],
           \A i, j \in 1 .. n : i < j => f[i] # f[j]
    PROVE  \A k \in 1 .. n : \E m \in 1 .. n : f[m] = k
<1>1. \A i, j \in 1 .. n : f[i] = f[j] => i = j
  OBVIOUS
<1>2. f \in Injection(1 .. n, 1 .. n)
  BY <1>1 DEF Injection, IsInjective
<1>3. IsFiniteSet(1 .. n)
  BY FS_Interval
<1>4. f \in Surjection(1 .. n, 1 .. n)
  BY <1>2, <1>3, FS_Injection
<1>5. QED  BY <1>4 DEF Surjection

\* The heap is as full as it can be.
LEMMA HeapCount ==
    ASSUME HeapInv, IsFiniteSet(offered)
    PROVE  Cardinality(heap) = Min({top_n, Cardinality(offered)})
<1>1. /\ top_n \in Nat /\ heap \subseteq offered /\ Cardinality(heap) <= top_n
      /\ \A out \in offered \ heap : Cardinality(heap) = top_n
  BY TopKAssumption DEF HeapInv, HeapTypeOK, HeapIsBest
<1>2. /\ Cardinality(heap) \in Nat /\ Cardinality(offered) \in Nat
      /\ Cardinality(heap) <= Cardinality(offered)
  BY <1>1, FS_CardinalityType, FS_Subset
<1>3. heap = offered \/ Cardinality(heap) = top_n
  BY <1>1
<1>4. top_n \in Int /\ Cardinality(offered) \in Int
  BY <1>1, <1>2
<1> DEFINE m == Min({top_n, Cardinality(offered)})
<1>5. m \in {top_n, Cardinality(offered)} /\ m <= top_n /\ m <= Cardinality(offered)
  BY <1>4, OfTwo
<1> HIDE DEF m
<1>6. Cardinality(heap) = m
  BY <1>1, <1>2, <1>3, <1>5
<1>7. QED  BY <1>6 DEF m

\* What is read of a snapshot stays as it is.
LEMMA SameIndex ==
    ASSUME index' = index
    PROVE  /\ Matching' = Matching /\ Segments' = Segments
           /\ \A at : EntryAt(at)' = EntryAt(at)
           /\ \A at : TrueFeatures(at)' = TrueFeatures(at)
<1>1. Matching' = Matching /\ Segments' = Segments
  BY DEF Matching, Segments
<1>2. ASSUME NEW at PROVE EntryAt(at)' = EntryAt(at)
  BY DEF EntryAt, Entry, Stage1Freq, LeafAt
<1>3. ASSUME NEW at PROVE TrueFeatures(at)' = TrueFeatures(at)
  BY DEF TrueFeatures, Said
<1>4. QED  BY <1>1, <1>2, <1>3

-----------------------------------------------------------------------------
\* Each step keeps the invariant.

\* The facts the steps start from.
LEMMA WalkFacts ==
    ASSUME SearchInv
    PROVE  /\ index \in Indexes /\ opts \in Options
           /\ Len(index.postings) \in Nat /\ Segments = 1 .. Len(index.postings)
           /\ si \in 1 .. Len(index.postings) + 1 /\ d \in 0 .. kNoMoreDocs
           /\ kNoMoreDocs \in Nat /\ Seen \subseteq Matching
BY IndexParts, Widths DEF SearchInv, WalkTypeOK, Seen

\* A document that the iterator comes to was not seen, nor its entry offered.
LEMMA VisitIsNew ==
    ASSUME SearchInv, NEW doc \in 0 .. kNoMoreDocs - 1, Visits(doc)
    PROVE  LET at == <<si, doc>>
           IN  /\ at \in Matching /\ at \notin Seen
               /\ Entry(si, doc) = EntryAt(at) /\ EntryAt(at) \in Entries \ offered
<1> DEFINE at == <<si, doc>>
<1>1. si \in Segments /\ doc \in index.matching[si] /\ doc >= d
  BY WalkFacts DEF Visits
<1>2. at \in Matching
  BY <1>1 DEF Matching
<1>3. at \notin Seen
  BY <1>1, WalkFacts DEF Seen
<1>4. Entry(si, doc) = EntryAt(at)
  BY DEF EntryAt
<1>5. EntryAt(at) \in Entries
  BY <1>2, WalkFacts, EntryOfMatch
<1>6. ASSUME EntryAt(at) \in offered PROVE FALSE
  <2>1. PICK other \in Seen : EntryAt(at) = EntryAt(other)
    BY <1>6 DEF SearchInv, OfferedOnce
  <2>2. At(EntryAt(at)) = at /\ At(EntryAt(other)) = other
    BY <1>2, <2>1, WalkFacts, EntryOfMatch
  <2>3. QED  BY <1>3, <2>1, <2>2
<1>7. QED  BY <1>2, <1>3, <1>4, <1>5, <1>6

LEMMA VisitSeen ==
    ASSUME SearchInv, NEW doc \in 0 .. kNoMoreDocs - 1, Visit(doc)
    PROVE  Seen' = Seen \cup {<<si, doc>>}
<1>1. Visits(doc) /\ index' = index /\ si' = si /\ d' = doc + 1
  BY DEF Visit
<1>2. Matching' = Matching
  BY <1>1, SameIndex
<1>3. <<si, doc>> \in Matching
  BY <1>1, VisitIsNew
<1>4. ASSUME NEW at \in Matching
      PROVE  at[1] < si \/ (at[1] = si /\ at[2] < doc + 1)
             <=> at[1] < si \/ (at[1] = si /\ at[2] < d) \/ at = <<si, doc>>
  <2>1. /\ at = <<at[1], at[2]>> /\ at[1] \in Segments /\ at[2] \in 0 .. kNoMoreDocs - 1
        /\ at[2] \in index.matching[at[1]]
    BY DEF Matching
  <2>2. at[1] \in Int /\ at[2] \in Int /\ si \in Int /\ d \in Int
    BY <2>1, WalkFacts
  <2>3. doc >= d /\ \A x \in index.matching[si] : x < d \/ doc <= x
    BY <1>1 DEF Visits
  <2>4. CASE at[1] = si
    <3>1. at[2] < d \/ doc <= at[2]
      BY <2>1, <2>3, <2>4
    <3>2. at[2] < doc + 1 <=> at[2] < d \/ at[2] = doc
      BY <2>2, <2>3, <3>1
    <3>3. QED  BY <2>1, <2>4, <3>2
  <2>5. CASE at[1] # si
    BY <2>1, <2>5
  <2>6. QED  BY <2>4, <2>5
<1>5. Seen' = {at \in Matching : at[1] < si \/ (at[1] = si /\ at[2] < doc + 1)}
  BY <1>1, <1>2 DEF Seen
<1>6. QED  BY <1>3, <1>4, <1>5 DEF Seen

\* The heap takes its step and one more entry was offered.
LEMMA VisitKeeps ==
    ASSUME SearchInv, NEW doc \in 0 .. kNoMoreDocs - 1, Visit(doc)
    PROVE  SearchInv' /\ HeapNext
<1> DEFINE at == <<si, doc>>
<1>1. /\ Visits(doc) /\ Offer(Entry(si, doc)) /\ pc = "walk" /\ si <= Len(index.postings)
      /\ total_hits' = total_hits + 1 /\ d' = doc + 1
      /\ UNCHANGED <<index, opts, si, candidates, features_by_index, hits, features, pc>>
  BY DEF Visit, Visits
<1>2. top_n' = top_n /\ offered' = offered \cup {Entry(si, doc)}
  BY <1>1 DEF Offer
<1>3. /\ at \in Matching /\ at \notin Seen
      /\ Entry(si, doc) = EntryAt(at) /\ EntryAt(at) \in Entries \ offered
  BY <1>1, VisitIsNew
<1>4. HeapNext /\ HeapInv'
  BY <1>1, <1>3, HeapStep DEF HeapNext, SearchInv
<1>5. Seen' = Seen \cup {at}
  BY VisitSeen
<1>6. \A b : EntryAt(b)' = EntryAt(b)
  BY <1>1, SameIndex
<1>7. WalkTypeOK'
  <2>1. d' \in 0 .. kNoMoreDocs
    BY <1>1, WalkFacts
  <2>2. QED  BY <1>1, <1>2, <2>1 DEF SearchInv, WalkTypeOK
<1>8. OfferedOnce'
  <2>1. /\ IsFiniteSet(Seen) /\ IsFiniteSet(offered) /\ offered = {EntryAt(b) : b \in Seen}
        /\ total_hits = Cardinality(Seen) /\ total_hits = Cardinality(offered)
    BY DEF SearchInv, OfferedOnce
  <2>2. /\ IsFiniteSet(Seen') /\ Cardinality(Seen') = Cardinality(Seen) + 1
    BY <1>3, <1>5, <2>1, FS_AddElement
  <2>3. /\ IsFiniteSet(offered') /\ Cardinality(offered') = Cardinality(offered) + 1
    BY <1>2, <1>3, <2>1, FS_AddElement
  <2>4. offered' = {EntryAt(b) : b \in Seen'}
    BY <1>2, <1>3, <1>5, <2>1
  <2>5. offered' = {EntryAt(b) : b \in Seen}'
    BY <1>6, <2>4
  <2>6. ~Ready'
    BY <1>1 DEF Ready
  <2>7. QED  BY <1>1, <2>1, <2>2, <2>3, <2>5, <2>6 DEF OfferedOnce
<1>9. ~Ready /\ ~Ready' /\ pc' = "walk"
  BY <1>1 DEF Ready
<1>10. CandidatesFit' /\ ScoresFit'
  BY <1>1, <1>9 DEF SearchInv, CandidatesFit, ScoresFit
<1>11. ResultFits'
  BY <1>1, <1>9 DEF SearchInv, ResultFits
<1>12. QED  BY <1>4, <1>7, <1>8, <1>10, <1>11 DEF SearchInv

\* A search starts with nothing seen.
LEMMA InitKeeps ==
    ASSUME Init
    PROVE  SearchInv /\ HeapInit
<1>1. /\ index \in Indexes /\ opts \in Options /\ top_n = TopN(opts) /\ heap = {}
      /\ offered = {} /\ si = 1 /\ d = 0 /\ total_hits = 0 /\ candidates = <<>>
      /\ hits = <<>> /\ features = <<>> /\ pc = "walk"
  BY DEF Init
<1>2. HeapInit
  BY <1>1, ScoresAssumption DEF HeapInit
<1>3. HeapInv
  BY <1>2, HeapStart
<1>4. /\ Len(index.postings) \in Nat /\ Segments = 1 .. Len(index.postings)
      /\ kNoMoreDocs \in Nat
  BY <1>1, IndexParts, Widths
<1>5. WalkTypeOK
  BY <1>1, <1>4 DEF WalkTypeOK
<1>6. Seen = {}
  <2>1. ASSUME NEW at \in Matching PROVE at[1] >= 1 /\ at[2] >= 0 /\ at[1] \in Int /\ at[2] \in Int
    BY <1>4 DEF Matching
  <2>2. QED  BY <1>1, <2>1 DEF Seen
<1>7. ~Ready
  BY <1>1 DEF Ready
<1>8. OfferedOnce
  BY <1>1, <1>6, <1>7, FS_EmptySet DEF OfferedOnce
<1>9. CandidatesFit /\ ScoresFit /\ ResultFits
  BY <1>1, <1>7 DEF CandidatesFit, ScoresFit, ResultFits
<1>10. QED  BY <1>2, <1>3, <1>5, <1>8, <1>9 DEF SearchInv

\* The heap of a step that leaves it alone.
LEMMA HeapStays ==
    ASSUME HeapInv, UNCHANGED heapVars
    PROVE  HeapInv'
BY DEF heapVars, HeapInv, HeapTypeOK, HeapIsBest

LEMMA UndefinedKeeps ==
    ASSUME SearchInv, NEW doc \in 0 .. kNoMoreDocs - 1, Undefined(doc)
    PROVE  SearchInv'
<1>1. /\ pc = "walk" /\ pc' = "undefined" /\ UNCHANGED heapVars
      /\ UNCHANGED <<index, opts, si, d, total_hits, candidates, features_by_index, hits, features>>
  BY DEF Undefined, Visits
<1>2. Seen' = Seen /\ (\A b : EntryAt(b)' = EntryAt(b)) /\ offered' = offered
  BY <1>1, SameIndex DEF Seen, heapVars
<1>3. ~Ready /\ ~Ready'
  BY <1>1 DEF Ready
<1>4. HeapInv'
  BY <1>1, HeapStays DEF SearchInv
<1>5. WalkTypeOK'
  BY <1>1 DEF SearchInv, WalkTypeOK, heapVars
<1>6. OfferedOnce'
  BY <1>1, <1>2, <1>3 DEF SearchInv, OfferedOnce
<1>7. CandidatesFit' /\ ScoresFit'
  BY <1>1, <1>3 DEF SearchInv, CandidatesFit, ScoresFit
<1>8. ResultFits'
  BY <1>1 DEF SearchInv, ResultFits
<1>9. QED  BY <1>4, <1>5, <1>6, <1>7, <1>8 DEF SearchInv

\* The next segment begins where nothing of it was seen.
LEMMA NextSegmentKeeps ==
    ASSUME SearchInv, NextSegment
    PROVE  SearchInv'
<1>1. /\ pc = "walk" /\ si <= Len(index.postings) /\ si' = si + 1 /\ d' = 0
      /\ \A x \in index.matching[si] : x < d
      /\ UNCHANGED heapVars
      /\ UNCHANGED <<index, opts, total_hits, candidates, features_by_index, hits, features, pc>>
  BY DEF NextSegment
<1>2. Matching' = Matching /\ (\A b : EntryAt(b)' = EntryAt(b)) /\ offered' = offered
  BY <1>1, SameIndex DEF heapVars
<1>3. Seen' = Seen
  <2>1. ASSUME NEW at \in Matching
        PROVE  at[1] < si + 1 \/ (at[1] = si + 1 /\ at[2] < 0)
               <=> at[1] < si \/ (at[1] = si /\ at[2] < d)
    <3>1. /\ at[1] \in Segments /\ at[2] \in 0 .. kNoMoreDocs - 1
          /\ at[2] \in index.matching[at[1]]
      BY DEF Matching
    <3>2. at[1] \in Int /\ at[2] \in Int /\ at[2] >= 0 /\ si \in Int /\ d \in Int
      BY <3>1, WalkFacts
    <3>3. CASE at[1] = si
      BY <1>1, <3>1, <3>2, <3>3
    <3>4. CASE at[1] # si
      BY <3>2, <3>4
    <3>5. QED  BY <3>3, <3>4
  <2>2. QED  BY <1>1, <1>2, <2>1 DEF Seen
<1>4. ~Ready /\ ~Ready'
  BY <1>1 DEF Ready
<1>5. HeapInv'
  BY <1>1, HeapStays DEF SearchInv
<1>6. WalkTypeOK'
  <2>1. si' \in 1 .. Len(index'.postings) + 1 /\ d' \in 0 .. kNoMoreDocs
    BY <1>1, WalkFacts
  <2>2. QED  BY <1>1, <2>1 DEF SearchInv, WalkTypeOK, heapVars
<1>7. OfferedOnce'
  BY <1>1, <1>2, <1>3, <1>4 DEF SearchInv, OfferedOnce
<1>8. CandidatesFit' /\ ScoresFit'
  BY <1>1, <1>4 DEF SearchInv, CandidatesFit, ScoresFit
<1>9. ResultFits'
  BY <1>1 DEF SearchInv, ResultFits
<1>10. QED  BY <1>5, <1>6, <1>7, <1>8, <1>9 DEF SearchInv

\* What was offered is the entry of a document seen, and stands for it.
LEMMA OfferedStands ==
    ASSUME SearchInv, NEW e \in offered
    PROVE  At(e) \in Seen /\ EntryAt(At(e)) = e /\ e \in Entries /\ e \in Candidate
<1>1. PICK at \in Seen : e = EntryAt(at)
  BY DEF SearchInv, OfferedOnce
<1>2. at \in Matching /\ index \in Indexes
  BY <1>1, WalkFacts
<1>3. At(EntryAt(at)) = at /\ EntryAt(at) \in Entries /\ EntryAt(at) \in Candidate
  BY <1>2, EntryOfMatch
<1>4. QED  BY <1>1, <1>3

\* The heap is popped in an order in which no entry comes twice.
LEMMA DrainedOnce ==
    ASSUME SearchInv, NEW popped \in Drained
    PROVE  /\ Cardinality(heap) \in Nat /\ popped \in [1 .. Cardinality(heap) -> heap]
           /\ \A i, j \in DOMAIN popped : i < j => popped[i] # popped[j]
           /\ \A e \in heap : \E i \in DOMAIN popped : popped[i] = e
<1>1. IsFiniteSet(heap) /\ heap \subseteq Entries
  BY DEF SearchInv, HeapInv, HeapTypeOK
<1>2. Cardinality(heap) \in Nat
  BY <1>1, FS_CardinalityType
<1>3. /\ popped \in [1 .. Cardinality(heap) -> heap]
      /\ \A i, j \in DOMAIN popped : i < j => Above(popped[i], popped[j])
  BY DEF Drained
<1>4. \A e \in Entries : ~Above(e, e)
  <2>1. SUFFICES ASSUME NEW e \in Entries PROVE ~Above(e, e)
    OBVIOUS
  <2>2. e.score \in Int /\ e.segment_index \in Int /\ e.doc_id \in Int
    BY EntryFields
  <2>3. QED  BY <2>2 DEF Above
<1>5. ASSUME NEW i \in DOMAIN popped, NEW j \in DOMAIN popped, i < j
      PROVE  popped[i] # popped[j]
  <2>1. popped[i] \in Entries /\ Above(popped[i], popped[j])
    BY <1>1, <1>3, <1>5
  <2>2. QED  BY <1>4, <2>1
<1>6. \A e \in heap : \E i \in DOMAIN popped : popped[i] = e
  BY <1>1, <1>3, <1>5, FillsAll
<1>7. QED  BY <1>2, <1>3, <1>5, <1>6

\* The candidates are what the heap kept of the documents of all segments.
LEMMA DrainKeeps ==
    ASSUME SearchInv, Drain
    PROVE  SearchInv'
<1>1. /\ pc = "walk" /\ si > Len(index.postings) /\ candidates' \in Drained
      /\ pc' = IF run_stage2(opts) THEN "rerank" ELSE "sort"
      /\ UNCHANGED heapVars
      /\ UNCHANGED <<index, opts, si, d, total_hits, features_by_index, hits, features>>
  BY DEF Drain
<1>2. /\ Seen' = Seen /\ (\A b : EntryAt(b)' = EntryAt(b))
      /\ offered' = offered /\ heap' = heap /\ top_n' = top_n
  BY <1>1, SameIndex DEF Seen, heapVars
<1>3. pc' \in {"rerank", "sort"} /\ Ready'
  BY <1>1 DEF Ready
<1>4. HeapInv'
  BY <1>1, HeapStays DEF SearchInv
<1>5. WalkTypeOK'
  BY <1>1, <1>2, <1>3 DEF SearchInv, WalkTypeOK
<1>6. OfferedOnce'
  <2>1. si' = Len(index'.postings) + 1
    BY <1>1, WalkFacts
  <2>2. QED  BY <1>1, <1>2, <2>1 DEF SearchInv, OfferedOnce
<1> DEFINE n == Cardinality(heap)
<1>7. /\ n \in Nat /\ candidates' \in [1 .. n -> heap]
      /\ \A i, j \in DOMAIN candidates' : i < j => candidates'[i] # candidates'[j]
      /\ \A e \in heap : \E i \in DOMAIN candidates' : candidates'[i] = e
  BY <1>1, DrainedOnce
<1>8. heap \subseteq offered
  BY DEF SearchInv, HeapInv, HeapIsBest
<1>9. \A e \in heap : At(e) \in Seen /\ EntryAt(At(e)) = e /\ e \in Candidate
  BY <1>8, OfferedStands
<1>10. CandidatesFit'
  <2>1. candidates' \in Seq(Candidate) /\ Len(candidates') = n
    <3>1. candidates' \in [1 .. n -> Candidate]
      BY <1>7, <1>9
    <3>2. QED  BY <1>7, <3>1
  <2>2. \A i \in DOMAIN candidates' :
            At(candidates'[i]) \in Seen /\ EntryAt(At(candidates'[i])) \in heap
    BY <1>7, <1>9
  <2>3. ASSUME NEW at \in Seen, EntryAt(at) \in heap
        PROVE  \E i \in DOMAIN candidates' : At(candidates'[i]) = at
    <3>1. at \in Matching
      BY WalkFacts
    <3>2. At(EntryAt(at)) = at
      BY <3>1, WalkFacts, EntryOfMatch
    <3>3. QED  BY <1>7, <2>3, <3>2
  <2>4. ASSUME NEW i \in DOMAIN candidates', NEW j \in DOMAIN candidates', i # j
        PROVE  At(candidates'[i]) # At(candidates'[j])
    <3>1. candidates'[i] # candidates'[j]
      BY <1>7, <2>4
    <3>2. QED  BY <1>7, <1>9, <3>1
  <2>5. QED  BY <1>2, <1>3, <2>1, <2>2, <2>3, <2>4 DEF CandidatesFit
<1>11. ScoresFit'
  <2>1. \A i \in DOMAIN candidates' : candidates'[i] = EntryAt(At(candidates'[i]))
    BY <1>7, <1>9
  <2>2. pc' \in {"sort", "done"} => opts.ranker = NoRanker /\ ~run_stage2(opts)
    BY <1>1 DEF run_stage2
  <2>3. opts' = opts /\ run_stage2(opts)' = run_stage2(opts)
    BY <1>1 DEF run_stage2
  <2>4. QED  BY <1>2, <2>1, <2>2, <2>3 DEF ScoresFit
<1>12. ResultFits'
  BY <1>1, <1>3 DEF SearchInv, ResultFits
<1>13. QED  BY <1>4, <1>5, <1>6, <1>10, <1>11, <1>12 DEF SearchInv

\* The features stage 2 extracts are those the index says.
LEMMA VectorIsTrue ==
    ASSUME index \in Indexes, NEW c, At(c) \in Matching
    PROVE  FeatureVector(c) = TrueFeatures(At(c)) /\ TrueFeatures(At(c)) \in [Leaves -> LeafValues]
<1> DEFINE at == At(c)
<1>1. at[1] \in Segments /\ at[2] \in 0 .. kNoMoreDocs - 1
  BY DEF Matching
<1>2. at[1] = c.segment_index /\ at[2] = c.doc_id
  BY DEF At
<1>3. \A l \in Leaves : /\ LeafFeatures(c.segment_index, l, c.doc_id) = Said(at[1], l, at[2])
                        /\ Said(at[1], l, at[2]) \in LeafValues
  BY <1>1, <1>2, FeaturesAsSaid
<1> HIDE DEF at
<1>4. QED  BY <1>3 DEF FeatureVector, TrueFeatures, at

\* Rescoring changes nothing of a candidate but its score.
LEMMA RerankKeeps ==
    ASSUME SearchInv, Rerank
    PROVE  SearchInv'
<1>1. /\ pc = "rerank" /\ pc' = "sort"
      /\ features_by_index' = [i \in DOMAIN candidates |-> FeatureVector(candidates[i])]
      /\ candidates' =
             IF opts.ranker = NoRanker THEN candidates
             ELSE [i \in DOMAIN candidates |-> [candidates[i] EXCEPT
                      !.score = RankerScore(opts.ranker, features_by_index'[i])]]
      /\ UNCHANGED heapVars
      /\ UNCHANGED <<index, opts, si, d, total_hits, hits, features>>
  BY DEF Rerank
<1>2. /\ Seen' = Seen /\ (\A b : EntryAt(b)' = EntryAt(b))
      /\ (\A b : TrueFeatures(b)' = TrueFeatures(b))
      /\ offered' = offered /\ heap' = heap /\ top_n' = top_n
  BY <1>1, SameIndex DEF Seen, heapVars
<1>3. Ready /\ Ready'
  BY <1>1 DEF Ready
<1>4. /\ candidates \in Seq(Candidate) /\ Len(candidates) = Cardinality(heap)
      /\ \A i \in DOMAIN candidates :
             At(candidates[i]) \in Seen /\ EntryAt(At(candidates[i])) \in heap
      /\ \A at \in Seen : EntryAt(at) \in heap =>
             \E i \in DOMAIN candidates : At(candidates[i]) = at
      /\ \A i, j \in DOMAIN candidates : i # j => At(candidates[i]) # At(candidates[j])
      /\ \A i \in DOMAIN candidates : candidates[i] = EntryAt(At(candidates[i]))
  BY <1>1, <1>3 DEF SearchInv, CandidatesFit, ScoresFit
<1>5. PICK n \in Nat : n = Len(candidates) /\ DOMAIN candidates = 1 .. n
  BY <1>4
<1>6. \A i \in 1 .. n :
          /\ candidates[i] \in Candidate
          /\ features_by_index'[i] = TrueFeatures(At(candidates[i]))
          /\ TrueFeatures(At(candidates[i])) \in [Leaves -> LeafValues]
  <2>1. SUFFICES ASSUME NEW i \in 1 .. n
        PROVE  /\ candidates[i] \in Candidate
               /\ features_by_index'[i] = TrueFeatures(At(candidates[i]))
               /\ TrueFeatures(At(candidates[i])) \in [Leaves -> LeafValues]
    OBVIOUS
  <2>2. candidates[i] \in Candidate /\ At(candidates[i]) \in Matching
    BY <1>4, <1>5, WalkFacts
  <2>3. features_by_index'[i] = FeatureVector(candidates[i])
    BY <1>1, <1>5
  <2>4. QED  BY <2>2, <2>3, WalkFacts, VectorIsTrue
<1>7. /\ DOMAIN candidates' = 1 .. n /\ candidates' \in Seq(Candidate)
      /\ Len(candidates') = n
      /\ \A i \in 1 .. n : At(candidates'[i]) = At(candidates[i])
      /\ opts.ranker = NoRanker => candidates' = candidates
      /\ opts.ranker # NoRanker =>
             \A i \in 1 .. n : candidates'[i].score =
                                   RankerScore(opts.ranker, TrueFeatures(At(candidates[i])))
  <2>1. CASE opts.ranker = NoRanker
    BY <1>1, <1>4, <1>5, <2>1
  <2>2. CASE opts.ranker # NoRanker
    <3> DEFINE new(i) == [candidates[i] EXCEPT
                             !.score = RankerScore(opts.ranker, TrueFeatures(At(candidates[i])))]
    <3>1. candidates' = [i \in 1 .. n |-> new(i)]
      BY <1>1, <1>5, <1>6, <2>2
    <3>2. \A i \in 1 .. n : RankerScore(opts.ranker, TrueFeatures(At(candidates[i]))) \in Int
      BY <1>6, <2>2, ScoresAssumption, WalkFacts
    <3>3. \A i \in 1 .. n :
              /\ new(i) \in Candidate /\ At(new(i)) = At(candidates[i])
              /\ new(i).score = RankerScore(opts.ranker, TrueFeatures(At(candidates[i])))
      BY <1>6, <3>2 DEF Candidate, At
    <3> HIDE DEF new
    <3>4. candidates' \in [1 .. n -> Candidate]
      BY <3>1, <3>3
    <3>5. candidates' \in Seq(Candidate) /\ Len(candidates') = n
      BY <3>4
    <3>6. QED  BY <2>2, <3>1, <3>3, <3>4, <3>5
  <2>3. QED  BY <2>1, <2>2
<1>8. CandidatesFit'
  BY <1>2, <1>3, <1>4, <1>5, <1>7 DEF CandidatesFit
<1>9. ScoresFit'
  <2>1. opts' = opts /\ pc' = "sort"
    BY <1>1
  <2>2. opts.ranker = NoRanker =>
            \A i \in 1 .. n : candidates'[i] = EntryAt(At(candidates'[i]))
    BY <1>4, <1>5, <1>7
  <2>3. opts.ranker # NoRanker =>
            \A i \in 1 .. n : candidates'[i].score =
                                  RankerScore(opts.ranker, TrueFeatures(At(candidates'[i])))
    BY <1>7
  <2>4. features_by_index' = [i \in 1 .. n |-> TrueFeatures(At(candidates'[i]))]
    BY <1>1, <1>5, <1>6, <1>7
  <2>5. QED  BY <1>2, <1>7, <2>1, <2>2, <2>3, <2>4 DEF ScoresFit
<1>10. HeapInv'
  BY <1>1, HeapStays DEF SearchInv
<1>11. WalkTypeOK' /\ OfferedOnce' /\ ResultFits'
  BY <1>1, <1>2, <1>3 DEF SearchInv, WalkTypeOK, OfferedOnce, ResultFits
<1>12. QED  BY <1>8, <1>9, <1>10, <1>11 DEF SearchInv

\* The result is cut from one order of the candidates.
LEMMA FinishKeeps ==
    ASSUME SearchInv, Finish
    PROVE  SearchInv'
<1>1. /\ pc = "sort" /\ pc' = "done" /\ UNCHANGED heapVars
      /\ UNCHANGED <<index, opts, si, d, total_hits, candidates, features_by_index>>
  BY DEF Finish
<1>2. /\ Seen' = Seen /\ (\A b : EntryAt(b)' = EntryAt(b))
      /\ (\A b : TrueFeatures(b)' = TrueFeatures(b))
      /\ offered' = offered /\ heap' = heap /\ top_n' = top_n
  BY <1>1, SameIndex DEF Seen, heapVars
<1>3. Ready /\ Ready'
  BY <1>1 DEF Ready
<1>4. SortOrders' = SortOrders
  BY <1>1 DEF SortOrders
<1>5. ResultFits'
  BY <1>1, <1>4 DEF Finish, ResultFits
<1>6. CandidatesFit'
  BY <1>1, <1>2, <1>3 DEF SearchInv, CandidatesFit
<1>7. ScoresFit'
  BY <1>1, <1>2, <1>3 DEF SearchInv, ScoresFit, run_stage2
<1>8. HeapInv'
  BY <1>1, HeapStays DEF SearchInv
<1>9. WalkTypeOK' /\ OfferedOnce'
  BY <1>1, <1>2, <1>3 DEF SearchInv, WalkTypeOK, OfferedOnce
<1>10. QED  BY <1>5, <1>6, <1>7, <1>8, <1>9 DEF SearchInv

LEMMA StutterKeeps ==
    ASSUME SearchInv, UNCHANGED vars
    PROVE  SearchInv'
<1>1. /\ UNCHANGED heapVars
      /\ UNCHANGED <<index, opts, si, d, total_hits, candidates, features_by_index,
                     hits, features, pc>>
  BY DEF vars
<1>2. /\ Seen' = Seen /\ (\A b : EntryAt(b)' = EntryAt(b))
      /\ (\A b : TrueFeatures(b)' = TrueFeatures(b))
      /\ offered' = offered /\ heap' = heap /\ top_n' = top_n /\ Ready' = Ready
      /\ SortOrders' = SortOrders
  BY <1>1, SameIndex DEF Seen, heapVars, Ready, SortOrders
<1>3. HeapInv'
  BY <1>1, HeapStays DEF SearchInv
<1>4. WalkTypeOK' /\ OfferedOnce' /\ CandidatesFit'
  BY <1>1, <1>2 DEF SearchInv, WalkTypeOK, OfferedOnce, CandidatesFit
<1>5. ScoresFit'
  BY <1>1, <1>2 DEF SearchInv, ScoresFit, run_stage2
<1>6. ResultFits'
  <2>1. /\ pc' = pc /\ hits' = hits /\ features' = features /\ opts' = opts
        /\ candidates' = candidates /\ features_by_index' = features_by_index
    BY <1>1
  <2>2. SortOrders' = SortOrders
    BY <1>2
  <2>3. CASE pc = "done"
    <3>1. PICK order \in SortOrders :
              LET n == Min({Len(candidates), opts.size})
              IN  /\ hits = [i \in 1 .. n |-> candidates[order[i]]]
                  /\ features = IF opts.collect_features
                                THEN [i \in 1 .. n |-> features_by_index[order[i]]] ELSE <<>>
      BY <2>3 DEF SearchInv, ResultFits
    <3>2. QED  BY <2>1, <2>2, <2>3, <3>1 DEF ResultFits
  <2>4. CASE pc # "done"
    BY <2>1, <2>4 DEF SearchInv, ResultFits
  <2>5. QED  BY <2>3, <2>4
<1>7. QED  BY <1>3, <1>4, <1>5, <1>6 DEF SearchInv

LEMMA SearchStep ==
    ASSUME SearchInv, [Next]_vars
    PROVE  SearchInv' /\ [HeapNext]_heapVars
<1>1. ASSUME NEW doc \in 0 .. kNoMoreDocs - 1, Visit(doc) PROVE SearchInv' /\ HeapNext
  BY <1>1, VisitKeeps
<1>2. ASSUME NEW doc \in 0 .. kNoMoreDocs - 1, Undefined(doc) PROVE SearchInv' /\ UNCHANGED heapVars
  BY <1>2, UndefinedKeeps DEF Undefined
<1>3. CASE NextSegment
  BY <1>3, NextSegmentKeeps DEF NextSegment
<1>4. CASE Drain
  BY <1>4, DrainKeeps DEF Drain
<1>5. CASE Rerank
  BY <1>5, RerankKeeps DEF Rerank
<1>6. CASE Finish
  BY <1>6, FinishKeeps DEF Finish
<1>7. CASE UNCHANGED vars
  BY <1>7, StutterKeeps DEF vars
<1>8. QED  BY <1>1, <1>2, <1>3, <1>4, <1>5, <1>6, <1>7 DEF Next

-----------------------------------------------------------------------------
\* What the invariant says of a result.

LEMMA LeastOfThree ==
    ASSUME NEW a \in Int, NEW b \in Int, NEW c \in Int, c <= a
    PROVE  Min({Min({a, b}), c}) = Min({c, b})
<1> DEFINE inner == Min({a, b})
           outer == Min({inner, c})
           least == Min({c, b})
<1>1. inner \in {a, b} /\ inner <= a /\ inner <= b
  BY OfTwo
<1>2. least \in {c, b} /\ least <= c /\ least <= b
  BY OfTwo
<1> HIDE DEF inner, least
<1>3. inner \in Int
  BY <1>1
<1>4. outer \in {inner, c} /\ outer <= inner /\ outer <= c
  BY <1>3, OfTwo
<1> HIDE DEF outer
<1>5. outer = least
  BY <1>1, <1>2, <1>4
<1>6. QED  BY <1>5 DEF outer, inner, least

\* The pool is as large as its limit and the matching documents allow.
LEMMA PoolCount ==
    ASSUME SearchInv, Ready
    PROVE  /\ Seen = Matching /\ total_hits = Cardinality(Matching)
           /\ Cardinality(Matching) \in Nat /\ TopN(opts) \in Nat
           /\ candidates \in Seq(Candidate)
           /\ Len(candidates) = Min({TopN(opts), Cardinality(Matching)})
           /\ Cardinality(Pool) = Len(candidates)
           /\ \A out \in Matching \ Pool : EntryAt(out) \in offered \ heap
<1>1. /\ IsFiniteSet(Seen) /\ IsFiniteSet(offered) /\ offered = {EntryAt(b) : b \in Seen}
      /\ total_hits = Cardinality(Seen) /\ total_hits = Cardinality(offered)
      /\ si = Len(index.postings) + 1
  BY DEF SearchInv, OfferedOnce
<1>2. /\ candidates \in Seq(Candidate) /\ Len(candidates) = Cardinality(heap)
      /\ \A at \in Seen : EntryAt(at) \in heap =>
             \E i \in DOMAIN candidates : At(candidates[i]) = at
      /\ \A i, j \in DOMAIN candidates : i # j => At(candidates[i]) # At(candidates[j])
  BY DEF SearchInv, CandidatesFit
<1>3. Seen = Matching
  <2>1. \A at \in Matching : at[1] < si
    BY <1>1, WalkFacts DEF Matching
  <2>2. QED  BY <2>1 DEF Seen
<1>4. top_n = TopN(opts) /\ TopN(opts) \in Nat /\ HeapInv
  BY ScoresAssumption, TopKAssumption DEF SearchInv, WalkTypeOK
<1>5. Cardinality(Matching) \in Nat
  BY <1>1, <1>3, FS_CardinalityType
<1>6. Cardinality(heap) = Min({TopN(opts), Cardinality(Matching)})
  BY <1>1, <1>3, <1>4, HeapCount
<1>7. Cardinality(Pool) = Len(candidates)
  <2>1. PICK n \in Nat : n = Len(candidates) /\ DOMAIN candidates = 1 .. n
    BY <1>2
  <2> DEFINE f == [i \in 1 .. n |-> At(candidates[i])]
             T == {At(candidates[i]) : i \in 1 .. n}
  <2>2. f \in [1 .. n -> T]
    OBVIOUS
  <2>3. \A i, j \in 1 .. n : i < j => f[i] # f[j]
    BY <1>2, <2>1
  <2>4. Cardinality({f[i] : i \in 1 .. n}) = n
    BY <2>2, <2>3, CountOnce
  <2>5. Pool = {f[i] : i \in 1 .. n}
    BY <2>1 DEF Pool
  <2>6. QED  BY <2>1, <2>4, <2>5
<1>8. \A out \in Matching \ Pool : EntryAt(out) \in offered \ heap
  BY <1>1, <1>2, <1>3 DEF Pool
<1>9. QED  BY <1>1, <1>2, <1>3, <1>4, <1>5, <1>6, <1>7, <1>8

\* The hits are a sorted choice of the candidates: what was cut off scores no
\* more than what is left.
LEMMA HitsAreCut ==
    ASSUME SearchInv, pc = "done"
    PROVE  \E order \in SortOrders, n \in Nat :
               /\ n = Min({Len(candidates), opts.size}) /\ n <= Len(candidates)
               /\ Len(hits) = n /\ DOMAIN hits = 1 .. n
               /\ \A i \in 1 .. n :
                      order[i] \in DOMAIN candidates /\ hits[i] = candidates[order[i]]
               /\ \A i \in 1 .. n : \A j \in 1 .. i : hits[j].score >= hits[i].score
               /\ InHits \subseteq Pool /\ Cardinality(InHits) = n
               /\ \A k \in DOMAIN candidates : At(candidates[k]) \notin InHits =>
                      \A i \in 1 .. n : hits[i].score >= candidates[k].score
               /\ features = IF opts.collect_features
                             THEN [i \in 1 .. n |-> features_by_index[order[i]]] ELSE <<>>
<1>1. Ready
  BY DEF Ready
<1>2. candidates \in Seq(Candidate)
  BY <1>1, PoolCount
<1>3. PICK len \in Nat : len = Len(candidates) /\ DOMAIN candidates = 1 .. len
  BY <1>2
<1>4. opts.size \in Nat
  BY ScoresAssumption, WalkFacts
<1> DEFINE n == Min({Len(candidates), opts.size})
<1>5. n \in Nat /\ n <= len
  <2>1. Len(candidates) \in Int /\ opts.size \in Int
    BY <1>3, <1>4
  <2>2. n \in {Len(candidates), opts.size} /\ n <= Len(candidates)
    BY <2>1, OfTwo
  <2> HIDE DEF n
  <2>3. QED  BY <1>3, <1>4, <2>2
<1>6. PICK order \in SortOrders :
          /\ hits = [i \in 1 .. n |-> candidates[order[i]]]
          /\ features = IF opts.collect_features
                        THEN [i \in 1 .. n |-> features_by_index[order[i]]] ELSE <<>>
  BY DEF SearchInv, ResultFits
<1> HIDE DEF n
<1>7. /\ order \in [1 .. len -> 1 .. len]
      /\ \A i, j \in 1 .. len : i < j =>
             /\ order[i] # order[j] /\ candidates[order[i]].score >= candidates[order[j]].score
  BY <1>3 DEF SortOrders
<1>8. Len(hits) = n /\ DOMAIN hits = 1 .. n
  BY <1>5, <1>6
<1>9. \A i \in 1 .. n : i \in 1 .. len /\ order[i] \in 1 .. len /\ hits[i] = candidates[order[i]]
  BY <1>5, <1>6, <1>7
<1>10. \A k \in 1 .. len : candidates[k].score \in Int
  <2>1. \A k \in 1 .. len : candidates[k] \in Candidate
    BY <1>2, <1>3
  <2>2. QED  BY <2>1 DEF Candidate
<1>11. ASSUME NEW i \in 1 .. n, NEW j \in 1 .. i PROVE hits[j].score >= hits[i].score
  <2>1. i \in 1 .. len /\ j \in 1 .. n /\ j \in 1 .. len
    BY <1>5
  <2>2. CASE j = i
    BY <1>9, <1>10, <2>1, <2>2
  <2>3. CASE j < i
    BY <1>7, <1>9, <2>1, <2>3
  <2>4. QED  BY <2>2, <2>3
<1>12. InHits \subseteq Pool
  BY <1>3, <1>8, <1>9 DEF InHits, Pool
<1>13. \A i, j \in 1 .. len : i # j => At(candidates[i]) # At(candidates[j])
  BY <1>1, <1>3 DEF SearchInv, CandidatesFit
<1>14. Cardinality(InHits) = n
  <2> DEFINE f == [i \in 1 .. n |-> At(hits[i])]
             T == {At(hits[i]) : i \in 1 .. n}
  <2>1. f \in [1 .. n -> T]
    OBVIOUS
  <2>2. ASSUME NEW i \in 1 .. n, NEW j \in 1 .. n, i < j PROVE f[i] # f[j]
    <3>1. order[i] # order[j]
      BY <1>7, <1>9, <2>2
    <3>2. At(candidates[order[i]]) # At(candidates[order[j]])
      BY <1>9, <1>13, <3>1
    <3>3. QED  BY <1>9, <3>2
  <2>3. Cardinality({f[i] : i \in 1 .. n}) = n
    BY <1>5, <2>1, <2>2, CountOnce
  <2>4. InHits = {f[i] : i \in 1 .. n}
    BY <1>8 DEF InHits
  <2>5. QED  BY <2>3, <2>4
<1>15. ASSUME NEW k \in 1 .. len, At(candidates[k]) \notin InHits, NEW i \in 1 .. n
       PROVE  hits[i].score >= candidates[k].score
  <2>1. \A i1, i2 \in 1 .. len : i1 < i2 => order[i1] # order[i2]
    BY <1>7
  <2>2. \A x \in 1 .. len : \E m \in 1 .. len : order[m] = x
    BY <1>7, <2>1, OrderOnto
  <2>3. PICK m \in 1 .. len : order[m] = k
    BY <2>2
  <2>4. m \notin 1 .. n
    BY <1>8, <1>9, <1>15, <2>3 DEF InHits
  <2>5. i < m /\ i \in 1 .. len
    BY <1>5, <2>3, <2>4
  <2>6. QED  BY <1>7, <1>9, <2>3, <2>5
<1>16. QED
  <2>1. \A k \in DOMAIN candidates : At(candidates[k]) \notin InHits =>
            \A i \in 1 .. n : hits[i].score >= candidates[k].score
    BY <1>3, <1>15
  <2>2. \A i \in 1 .. n : \A j \in 1 .. i : hits[j].score >= hits[i].score
    BY <1>11
  <2>3. \A i \in 1 .. n : order[i] \in DOMAIN candidates /\ hits[i] = candidates[order[i]]
    BY <1>3, <1>9
  <2>4. n = Min({Len(candidates), opts.size}) /\ n <= Len(candidates)
    BY <1>3, <1>5 DEF n
  <2>5. QED  BY <1>5, <1>6, <1>8, <1>12, <1>14, <2>1, <2>2, <2>3, <2>4

LEMMA PoolMatches ==
    ASSUME SearchInv
    PROVE  Pool \subseteq Matching
<1>1. CASE Ready
  <2>1. \A i \in DOMAIN candidates : At(candidates[i]) \in Seen
    BY <1>1 DEF SearchInv, CandidatesFit
  <2>2. QED  BY <2>1, WalkFacts DEF Pool
<1>2. CASE ~Ready
  <2>1. candidates = <<>>
    BY <1>2 DEF SearchInv, CandidatesFit
  <2>2. QED  BY <2>1 DEF Pool
<1>3. QED  BY <1>1, <1>2

LEMMA InvGivesType ==
    ASSUME SearchInv
    PROVE  TypeOK
<1>1. top_n \in Nat /\ Cardinality(heap) <= top_n
  BY TopKAssumption DEF SearchInv, HeapInv, HeapTypeOK, HeapIsBest
<1>2. pc \in {"walk", "rerank", "sort", "done", "undefined"} /\ total_hits = Cardinality(offered)
  BY DEF SearchInv, WalkTypeOK, OfferedOnce
<1>3. Len(features) \in {0, Len(hits)}
  <2>1. CASE pc = "done"
    <3>1. PICK order \in SortOrders, n \in Nat :
              /\ Len(hits) = n
              /\ features = IF opts.collect_features
                            THEN [i \in 1 .. n |-> features_by_index[order[i]]] ELSE <<>>
      BY <2>1, HitsAreCut
    <3>2. CASE opts.collect_features
      <4>1. Len([i \in 1 .. n |-> features_by_index[order[i]]]) = n
        OBVIOUS
      <4>2. QED  BY <3>1, <3>2, <4>1
    <3>3. CASE ~opts.collect_features
      BY <3>1, <3>3
    <3>4. QED  BY <3>2, <3>3
  <2>2. CASE pc # "done"
    BY <2>2 DEF SearchInv, ResultFits
  <2>3. QED  BY <2>1, <2>2
<1>4. QED  BY <1>1, <1>2, <1>3, PoolMatches DEF TypeOK

LEMMA InvGivesFeatures ==
    ASSUME SearchInv
    PROVE  FeaturesFit
<1>1. SUFFICES ASSUME pc = "done", opts.collect_features
      PROVE  /\ Len(features) = Len(hits)
             /\ \A i \in DOMAIN hits : features[i] = TrueFeatures(At(hits[i]))
  BY DEF FeaturesFit
<1>2. PICK order \in SortOrders, n \in Nat :
          /\ Len(hits) = n /\ DOMAIN hits = 1 .. n
          /\ \A i \in 1 .. n :
                 order[i] \in DOMAIN candidates /\ hits[i] = candidates[order[i]]
          /\ features = [i \in 1 .. n |-> features_by_index[order[i]]]
  BY <1>1, HitsAreCut
<1>3. features_by_index = [i \in DOMAIN candidates |-> TrueFeatures(At(candidates[i]))]
  BY <1>1 DEF SearchInv, ScoresFit, run_stage2
<1>4. Len([i \in 1 .. n |-> features_by_index[order[i]]]) = n
  OBVIOUS
<1>5. \A i \in 1 .. n : features[i] = TrueFeatures(At(hits[i]))
  BY <1>2, <1>3
<1>6. QED  BY <1>2, <1>4, <1>5

\* Without a ranker a document left out of the heap scores no more than any
\* kept, and one cut off no more than any hit.
LEMMA InvGivesBest ==
    ASSUME SearchInv
    PROVE  BestWhenPlain
<1>1. SUFFICES ASSUME ~index.has_positions, ~index.has_token_weights, pc = "done",
                      opts.ranker = NoRanker
      PROVE  /\ total_hits = Cardinality(Matching)
             /\ Len(hits) = Min({opts.size, Cardinality(Matching)})
             /\ Cardinality(InHits) = Len(hits)
             /\ \A i \in DOMAIN hits :
                    /\ hits[i].score = TrueScore(At(hits[i]))
                    /\ \A j \in 1 .. i : hits[j].score >= hits[i].score
                    /\ \A out \in Matching \ InHits : TrueScore(out) <= hits[i].score
  BY DEF BestWhenPlain, BestByBm25
<1>2. Ready
  BY <1>1 DEF Ready
<1>3. /\ Seen = Matching /\ total_hits = Cardinality(Matching)
      /\ Cardinality(Matching) \in Nat /\ TopN(opts) \in Nat
      /\ Len(candidates) = Min({TopN(opts), Cardinality(Matching)})
      /\ \A out \in Matching \ Pool : EntryAt(out) \in offered \ heap
  BY <1>2, PoolCount
<1>4. PICK order \in SortOrders, n \in Nat :
          /\ n = Min({Len(candidates), opts.size}) /\ Len(hits) = n /\ DOMAIN hits = 1 .. n
          /\ \A i \in 1 .. n :
                 order[i] \in DOMAIN candidates /\ hits[i] = candidates[order[i]]
          /\ \A i \in 1 .. n : \A j \in 1 .. i : hits[j].score >= hits[i].score
          /\ InHits \subseteq Pool /\ Cardinality(InHits) = n
          /\ \A k \in DOMAIN candidates : At(candidates[k]) \notin InHits =>
                 \A i \in 1 .. n : hits[i].score >= candidates[k].score
  BY <1>1, HitsAreCut
<1>5. n = Min({opts.size, Cardinality(Matching)})
  <2>1. opts.size \in Nat /\ opts.rerank_top_n \in Nat
    BY ScoresAssumption, WalkFacts
  <2>2. Max({opts.rerank_top_n, opts.size}) >= opts.size
    <3>1. opts.size \in Int /\ opts.rerank_top_n \in Int
      BY <2>1
    <3>2. QED  BY <3>1, OfTwo
  <2>3. TopN(opts) = Max({opts.rerank_top_n, opts.size}) \/ TopN(opts) = opts.size
    BY DEF TopN
  <2>4. opts.size <= TopN(opts)
    BY <2>1, <2>2, <2>3
  <2> DEFINE limit == TopN(opts)
             size  == opts.size
             count == Cardinality(Matching)
  <2>5. n = Min({Min({limit, count}), size})
    BY <1>3, <1>4
  <2>6. limit \in Int /\ size \in Int /\ count \in Int /\ size <= limit
    BY <1>3, <2>1, <2>4
  <2> HIDE DEF limit, size, count
  <2>7. n = Min({size, count})
    BY <2>5, <2>6, LeastOfThree
  <2>8. QED  BY <2>7 DEF size, count
<1>6. \A k \in DOMAIN candidates :
          /\ At(candidates[k]) \in Matching /\ candidates[k] = EntryAt(At(candidates[k]))
          /\ candidates[k] \in heap
  BY <1>1, <1>2, <1>3 DEF SearchInv, CandidatesFit, ScoresFit
<1>7. \A at \in Matching : EntryAt(at).score = TrueScore(at)
  BY <1>1, WalkFacts, EntryOfMatch
<1>8. ASSUME NEW i \in 1 .. n, NEW out \in Matching \ InHits
      PROVE  TrueScore(out) <= hits[i].score
  <2>1. hits[i] \in heap
    BY <1>4, <1>6
  <2>2. heap \subseteq Entries /\ offered \subseteq Entries
    BY DEF SearchInv, HeapInv, HeapTypeOK
  <2>3. CASE out \in Pool
    <3>1. PICK k \in DOMAIN candidates : out = At(candidates[k])
      BY <2>3 DEF Pool
    <3>2. hits[i].score >= candidates[k].score
      BY <1>4, <1>8, <3>1
    <3>3. candidates[k].score = TrueScore(out)
      BY <1>6, <1>7, <3>1
    <3>4. hits[i].score \in Int /\ candidates[k].score \in Int
      BY <1>6, <2>1, <2>2, EntryFields
    <3>5. QED  BY <3>2, <3>3, <3>4
  <2>4. CASE out \notin Pool
    <3>1. EntryAt(out) \in offered \ heap
      BY <1>3, <1>8, <2>4
    <3>2. hits[i].score >= EntryAt(out).score
      BY <2>1, <3>1 DEF SearchInv, HeapInv, HeapIsBest
    <3>3. hits[i].score \in Int /\ EntryAt(out).score \in Int
      BY <2>1, <2>2, <3>1, EntryFields
    <3>4. QED  BY <1>7, <1>8, <3>2, <3>3
  <2>5. QED  BY <2>3, <2>4
<1>9. \A i \in 1 .. n : hits[i].score = TrueScore(At(hits[i]))
  BY <1>4, <1>6, <1>7
<1>10. QED  BY <1>3, <1>4, <1>5, <1>8, <1>9

\* With a ranker the score is the ranker's of the features, which are true.
LEMMA InvGivesPool ==
    ASSUME SearchInv
    PROVE  BestOfPool
<1> DEFINE scoreOf(at) == RankerScore(opts.ranker, TrueFeatures(at))
<1>1. SUFFICES ASSUME pc = "done", opts.ranker # NoRanker
      PROVE  /\ Cardinality(Pool) =
                    Min({Max({opts.rerank_top_n, opts.size}), Cardinality(Matching)})
             /\ Len(hits) = Min({opts.size, Cardinality(Pool)})
             /\ InHits \subseteq Pool /\ Cardinality(InHits) = Len(hits)
             /\ \A i \in DOMAIN hits :
                    /\ hits[i].score = scoreOf(At(hits[i]))
                    /\ \A j \in 1 .. i : hits[j].score >= hits[i].score
                    /\ \A out \in Pool \ InHits : scoreOf(out) <= hits[i].score
  BY DEF BestOfPool
<1>2. Ready
  BY <1>1 DEF Ready
<1>3. /\ Len(candidates) = Min({TopN(opts), Cardinality(Matching)})
      /\ Cardinality(Pool) = Len(candidates) /\ candidates \in Seq(Candidate)
  BY <1>2, PoolCount
<1>4. PICK order \in SortOrders, n \in Nat :
          /\ n = Min({Len(candidates), opts.size}) /\ Len(hits) = n /\ DOMAIN hits = 1 .. n
          /\ \A i \in 1 .. n :
                 order[i] \in DOMAIN candidates /\ hits[i] = candidates[order[i]]
          /\ \A i \in 1 .. n : \A j \in 1 .. i : hits[j].score >= hits[i].score
          /\ InHits \subseteq Pool /\ Cardinality(InHits) = n
          /\ \A k \in DOMAIN candidates : At(candidates[k]) \notin InHits =>
                 \A i \in 1 .. n : hits[i].score >= candidates[k].score
  BY <1>1, HitsAreCut
<1>5. TopN(opts) = Max({opts.rerank_top_n, opts.size})
  BY <1>1 DEF TopN, run_stage2
<1>6. \A k \in DOMAIN candidates : candidates[k].score = scoreOf(At(candidates[k]))
  BY <1>1 DEF SearchInv, ScoresFit
<1>7. {Len(candidates), opts.size} = {opts.size, Len(candidates)}
  OBVIOUS
<1>8. \A k \in DOMAIN candidates : candidates[k].score \in Int
  <2>1. \A k \in DOMAIN candidates : candidates[k] \in Candidate
    BY <1>3
  <2>2. QED  BY <2>1 DEF Candidate
<1>9. ASSUME NEW i \in 1 .. n, NEW out \in Pool \ InHits
      PROVE  scoreOf(out) <= hits[i].score
  <2>1. PICK k \in DOMAIN candidates : out = At(candidates[k])
    BY DEF Pool
  <2>2. hits[i].score >= candidates[k].score
    BY <1>4, <1>9, <2>1
  <2>3. hits[i].score \in Int /\ candidates[k].score \in Int
    BY <1>4, <1>8
  <2>4. candidates[k].score = scoreOf(out)
    BY <1>6, <2>1
  <2> HIDE DEF scoreOf
  <2>5. QED  BY <2>2, <2>3, <2>4
<1>10. \A i \in 1 .. n : hits[i].score = scoreOf(At(hits[i]))
  BY <1>4, <1>6
<1> HIDE DEF scoreOf
<1>11. QED  BY <1>3, <1>4, <1>5, <1>7, <1>9, <1>10

-----------------------------------------------------------------------------
\* What a search promises, for every snapshot, scorer and ranker.

\* The invariant: each document passed was offered to the heap once, the
\* candidates are what the heap kept, and scores, features and hits are theirs.
THEOREM SearchInvariant == Spec => []SearchInv
<1>1. Init => SearchInv
  BY InitKeeps
<1>2. SearchInv /\ [Next]_vars => SearchInv'
  BY SearchStep
<1>3. QED  BY <1>1, <1>2, PTL DEF Spec

\* The counts agree, the pool is made of matching documents and the vectors
\* returned are none or one for each hit.
THEOREM TypeCorrect == Spec => []TypeOK
<1>1. SearchInv => TypeOK
  BY InvGivesType
<1>2. QED  BY <1>1, SearchInvariant, PTL

\* The search runs the bounded heap as TopK specifies it: it offers each entry
\* at most once and the heap takes it, replaces its top by it or passes it over
\* (searcher.cpp:238-243).
THEOREM SearchRunsHeap == Spec => HeapSpec
<1>1. Init => HeapInit
  BY InitKeeps
<1>2. SearchInv /\ [Next]_vars => [HeapNext]_heapVars
  BY SearchStep
<1>3. QED  BY <1>1, <1>2, SearchInvariant, PTL DEF Spec, HeapSpec

\* So its heap always holds a best choice of what it was offered.
THEOREM SearchKeepsBest == Spec => []HeapIsBest
<1>1. SearchInv => HeapIsBest
  BY DEF SearchInv, HeapInv
<1>2. QED  BY <1>1, SearchInvariant, PTL

\* What a search returns is best by the score it was asked to rank by: BM25 for
\* a field without positions and weights, the ranker's within the pool
\* (searcher.cpp:257-320).
THEOREM SearchReturnsBest == Spec => []HitsAreBest
<1>1. SearchInv => HitsAreBest
  BY InvGivesBest, InvGivesPool DEF HitsAreBest
<1>2. QED  BY <1>1, SearchInvariant, PTL

\* Its feature vectors are those of the hits, as the index holds them
\* (searcher.h:29).
THEOREM SearchFeaturesFit == Spec => []FeaturesFit
<1>1. SearchInv => FeaturesFit
  BY InvGivesFeatures
<1>2. QED  BY <1>1, SearchInvariant, PTL

=============================================================================
