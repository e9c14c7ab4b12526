------------------------------- MODULE Searcher -------------------------------
(***************************************************************************)
(* Searcher::Search (query/searcher.cpp) over a snapshot of segments:      *)
(* stage 1 scores every matching document by BM25 and keeps the best in a  *)
(* heap (TopK), stage 2 rescores them with a ranker and extracts their     *)
(* features, stage 3 sorts and cuts them.                                  *)
(*                                                                         *)
(* The root iterator is what Iterators shows it to be, a walk over the     *)
(* matching documents of a segment; the leaves decode posting bytes        *)
(* (Postings).  Floating-point scores are numbers: only their order counts.*)
(***************************************************************************)
EXTENDS Postings, TopK

CONSTANTS
    Indexes,            \* snapshots: per segment the posting list of each leaf
                        \* (<<>> when it lacks the term) and the matching
                        \* documents; the layout of the leaves' field
    Leaves,             \* the leaf terms of the query
    Bm25(_),            \* the sum of Bm25Score over the leaves' frequencies
    Options,            \* SearchOptions: size, rerank_top_n, ranker,
                        \* collect_features
    RankerScore(_, _),  \* Ranker::Score of a ranker and a feature vector
    NoRanker

VARIABLES
    index, opts,
    si, d,              \* the segment walked, and the least DocId not yet seen
    total_hits,
    candidates,         \* the entries popped from the heap
    features_by_index,  \* parallel to candidates
    hits, features,     \* the result, parallel too
    pc                  \* "walk", "rerank", "sort", "done", "undefined"

vars == <<heapVars, index, opts, si, d, total_hits, candidates, features_by_index,
          hits, features, pc>>

run_stage2(o) == o.ranker # NoRanker \/ o.collect_features

\* Mutant: the pool may be smaller than the result.
TopNNoMax(o) == IF run_stage2(o) THEN o.rerank_top_n ELSE o.size

TopN(o) == IF run_stage2(o) THEN Max({o.rerank_top_n, o.size}) ELSE o.size

\* What the features of a leaf may be.
LeafValues == [matched : BOOLEAN, tf : 0 .. WordMax, pos : 0 .. kNoPosition, weight : 0 .. ByteMax]

\* A snapshot has a sorted posting list for each leaf of each segment, and
\* matches documents; frequencies, features and options are within the types.
ASSUME IndexesAssumption ==
    \A x \in Indexes :
        /\ x.has_positions \in BOOLEAN /\ x.has_token_weights \in BOOLEAN
        /\ x.postings \in Seq([Leaves -> PostingLists])
        /\ x.matching \in [DOMAIN x.postings -> SUBSET (0 .. kNoMoreDocs - 1)]

ASSUME ScoresAssumption ==
    /\ \A freqs \in [Leaves -> 0 .. WordMax], doc \in 0 .. kNoMoreDocs - 1 :
           \A x \in Indexes : \A s \in DOMAIN x.postings :
               [score |-> Bm25(freqs), segment_index |-> s, doc_id |-> doc] \in Entries
    /\ \A o \in Options :
           /\ o.size \in Nat /\ o.rerank_top_n \in Nat /\ o.collect_features \in BOOLEAN
           /\ TopN(o) \in Limits
           /\ o.ranker # NoRanker =>
                  \A fv \in [Leaves -> LeafValues] : RankerScore(o.ranker, fv) \in Int

Init ==
    /\ index \in Indexes
    /\ opts \in Options
    /\ top_n = TopN(opts) /\ heap = {} /\ offered = {}
    /\ si = 1 /\ d = 0
    /\ total_hits = 0
    /\ candidates = <<>> /\ features_by_index = <<>>
    /\ hits = <<>> /\ features = <<>>
    /\ pc = "walk"

-----------------------------------------------------------------------------
\* Stage 1.

\* A leaf's own iterator, made for one document.  Stage 1 makes it without
\* the flags of the field (:228), stage 2 with them.
LeafAt(s, l, doc, has_positions, has_token_weights) ==
    TermAdvance(TermIterator(WritePostings(index.postings[s][l], index.has_positions,
                                           index.has_token_weights),
                             has_positions, has_token_weights), doc)

Stage1Freq(s, l, doc) ==
    LET it == LeafAt(s, l, doc, FALSE, FALSE)
    IN  IF index.postings[s][l] # <<>> /\ it.current = doc THEN it.freq ELSE 0

Entry(s, doc) ==
    [score |-> Bm25([l \in Leaves |-> Stage1Freq(s, l, doc)]),
     segment_index |-> s, doc_id |-> doc]

\* The next document of the segment's iterator.
Visits(doc) ==
    /\ pc = "walk" /\ si <= Len(index.postings)
    /\ doc \in index.matching[si]
    /\ doc >= d
    /\ \A x \in index.matching[si] : x < d \/ doc <= x

\* Mutant: the iterator stays; the heap is not bounded.
VisitStays(doc) ==
    /\ Visits(doc)
    /\ Offer(Entry(si, doc))
    /\ total_hits' = total_hits + 1
    /\ UNCHANGED <<index, opts, si, d, candidates, features_by_index, hits, features, pc>>

VisitUnbounded(doc) ==
    /\ Visits(doc)
    /\ heap' = heap \cup {Entry(si, doc)}
    /\ offered' = offered \cup {Entry(si, doc)}
    /\ total_hits' = total_hits + 1
    /\ d' = doc + 1
    /\ UNCHANGED <<top_n, index, opts, si, candidates, features_by_index, hits, features, pc>>

Visit(doc) ==
    /\ Visits(doc)
    /\ Offer(Entry(si, doc))
    /\ total_hits' = total_hits + 1
    /\ d' = doc + 1
    /\ UNCHANGED <<index, opts, si, candidates, features_by_index, hits, features, pc>>

\* With top_n = 0 the code reads the top of an empty heap: undefined, and in
\* a build without assertions a read through a null pointer.
Undefined(doc) ==
    /\ Visits(doc)
    /\ top_n = 0
    /\ pc' = "undefined"
    /\ UNCHANGED <<heapVars, index, opts, si, d, total_hits, candidates, features_by_index,
                   hits, features>>

NextSegment ==
    /\ pc = "walk" /\ si <= Len(index.postings)
    /\ \A x \in index.matching[si] : x < d
    /\ si' = si + 1 /\ d' = 0
    /\ UNCHANGED <<heapVars, index, opts, total_hits, candidates, features_by_index,
                   hits, features, pc>>

\* The heap is popped, its top first; it is not looked at again, and here it
\* stays as a record of what stage 1 kept.
Drained ==
    {popped \in [1 .. Cardinality(heap) -> heap] :
        \A i, j \in DOMAIN popped : i < j => Above(popped[i], popped[j])}

Drain ==
    /\ pc = "walk" /\ si > Len(index.postings)
    /\ candidates' \in Drained
    /\ pc' = IF run_stage2(opts) THEN "rerank" ELSE "sort"
    /\ UNCHANGED <<heapVars, index, opts, si, d, total_hits, features_by_index,
                   hits, features>>

-----------------------------------------------------------------------------
\* Stage 2: the leaves once more at each candidate, with the field's flags.

LeafFeatures(s, l, doc) ==
    LET it == LeafAt(s, l, doc, index.has_positions, index.has_token_weights)
    IN  IF index.postings[s][l] # <<>> /\ it.current = doc
        THEN [matched |-> TRUE, tf |-> it.freq, pos |-> it.pos, weight |-> it.weight]
        ELSE [matched |-> FALSE, tf |-> 0, pos |-> kNoPosition, weight |-> One]

FeatureVector(c) == [l \in Leaves |-> LeafFeatures(c.segment_index, l, c.doc_id)]

Rerank ==
    /\ pc = "rerank"
    /\ features_by_index' = [i \in DOMAIN candidates |-> FeatureVector(candidates[i])]
    /\ candidates' =
           IF opts.ranker = NoRanker THEN candidates
           ELSE [i \in DOMAIN candidates |-> [candidates[i] EXCEPT
                    !.score = RankerScore(opts.ranker, features_by_index'[i])]]
    /\ pc' = "sort"
    /\ UNCHANGED <<heapVars, index, opts, si, d, total_hits, hits, features>>

-----------------------------------------------------------------------------
\* Stage 3: std::sort by score, which may leave equal ones in any order.

SortOrders ==
    {order \in [DOMAIN candidates -> DOMAIN candidates] :
        \A i, j \in DOMAIN candidates :
            i < j => /\ order[i] # order[j]
                     /\ candidates[order[i]].score >= candidates[order[j]].score}

\* Mutant: the vectors are taken in the order of the candidates.
FinishUnsorted ==
    /\ pc = "sort"
    /\ \E order \in SortOrders :
           LET n == Min({Len(candidates), opts.size})
           IN  /\ hits' = [i \in 1 .. n |-> candidates[order[i]]]
               /\ features' = IF opts.collect_features
                              THEN [i \in 1 .. n |-> features_by_index[i]] ELSE <<>>
    /\ pc' = "done"
    /\ UNCHANGED <<heapVars, index, opts, si, d, total_hits, candidates, features_by_index>>

Finish ==
    /\ pc = "sort"
    /\ \E order \in SortOrders :
           LET n == Min({Len(candidates), opts.size})
           IN  /\ hits' = [i \in 1 .. n |-> candidates[order[i]]]
               /\ features' = IF opts.collect_features
                              THEN [i \in 1 .. n |-> features_by_index[order[i]]] ELSE <<>>
    /\ pc' = "done"
    /\ UNCHANGED <<heapVars, index, opts, si, d, total_hits, candidates, features_by_index>>

Next ==
    \/ \E doc \in 0 .. kNoMoreDocs - 1 : Visit(doc) \/ Undefined(doc)
    \/ NextSegment \/ Drain \/ Rerank \/ Finish

Spec == Init /\ [][Next]_vars

-----------------------------------------------------------------------------
\* Properties.

Segments == DOMAIN index.postings

Matching == {at \in Segments \X (0 .. kNoMoreDocs - 1) : at[2] \in index.matching[at[1]]}

\* What the index says of a leaf at a document, whatever its bytes.
Said(s, l, doc) ==
    LET at == {i \in DOMAIN index.postings[s][l] : index.postings[s][l][i].doc = doc}
        p  == index.postings[s][l][Min(at)]
    IN  IF at = {} THEN [matched |-> FALSE, tf |-> 0, pos |-> kNoPosition, weight |-> One]
        ELSE [matched |-> TRUE, tf |-> p.tf,
              pos |-> IF index.has_positions THEN p.pos ELSE kNoPosition,
              weight |-> IF index.has_token_weights THEN QuantizeTokenWeight(p.weight) ELSE One]

TrueFeatures(at) == [l \in Leaves |-> Said(at[1], l, at[2])]
TrueScore(at) == Bm25([l \in Leaves |-> Said(at[1], l, at[2]).tf])

At(e) == <<e.segment_index, e.doc_id>>
InHits == {At(hits[i]) : i \in DOMAIN hits}
Pool == {At(candidates[i]) : i \in DOMAIN candidates}

TypeOK ==
    /\ top_n \in Nat /\ Cardinality(heap) <= top_n
    /\ pc \in {"walk", "rerank", "sort", "done", "undefined"}
    /\ total_hits = Cardinality(offered)
    /\ Pool \subseteq Matching
    /\ Len(features) \in {0, Len(hits)}

\* Without a ranker the hits are the best `size` of all matching documents by
\* BM25, best first, each with its BM25 score ("The score key is BM25 only",
\* ARCHITECTURE.md:124), and total_hits counts all of them.
BestByBm25 ==
    pc = "done" /\ opts.ranker = NoRanker =>
        /\ total_hits = Cardinality(Matching)
        /\ Len(hits) = Min({opts.size, Cardinality(Matching)})
        /\ Cardinality(InHits) = Len(hits)
        /\ \A i \in DOMAIN hits :
               /\ hits[i].score = TrueScore(At(hits[i]))
               /\ \A j \in 1 .. i : hits[j].score >= hits[i].score
               /\ \A out \in Matching \ InHits : TrueScore(out) <= hits[i].score

\* So it is for fields that store neither positions nor weights.
BestWhenPlain == ~index.has_positions /\ ~index.has_token_weights => BestByBm25

\* With a ranker the hits are the best `size` of the pool by the ranker's
\* score of their own features, best first; the pool has max(rerank_top_n,
\* size) documents, or all (searcher.cpp:257).
BestOfPool ==
    pc = "done" /\ opts.ranker # NoRanker =>
        LET scoreOf(at) == RankerScore(opts.ranker, TrueFeatures(at))
        IN  /\ Cardinality(Pool) = Min({Max({opts.rerank_top_n, opts.size}), Cardinality(Matching)})
            /\ Len(hits) = Min({opts.size, Cardinality(Pool)})
            /\ InHits \subseteq Pool /\ Cardinality(InHits) = Len(hits)
            /\ \A i \in DOMAIN hits :
                   /\ hits[i].score = scoreOf(At(hits[i]))
                   /\ \A j \in 1 .. i : hits[j].score >= hits[i].score
                   /\ \A out \in Pool \ InHits : scoreOf(out) <= hits[i].score

\* Both: what a search returns is best by the score it was asked to rank by.
HitsAreBest == BestWhenPlain /\ BestOfPool

\* The feature vectors returned are those of the hits, one for one, although
\* both were sorted and cut through indices ("Same order and length as
\* `hits`", searcher.h:29).
FeaturesFit ==
    pc = "done" /\ opts.collect_features =>
        /\ Len(features) = Len(hits)
        /\ \A i \in DOMAIN hits : features[i] = TrueFeatures(At(hits[i]))
=============================================================================
