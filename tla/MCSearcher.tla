----------------------------- MODULE MCSearcher -----------------------------
\* Two segments of up to three documents, a query of one or two leaves, and
\* fields of every layout.
EXTENDS Searcher

\* A posting list from the frequencies of its documents, 0 for none.
Posts(freqs) ==
    LET docs == SetToSortSeq({i \in DOMAIN freqs : freqs[i] > 0}, <)
    IN  [n \in DOMAIN docs |-> [doc |-> docs[n] - 1, tf |-> freqs[docs[n]],
                                pos |-> 2 - (docs[n] % 2), weight |-> docs[n]]]

DocsOf(pl) == {p.doc : p \in Range(pl)}

Snapshot(first, second, other, all, positions, weights) ==
    LET postings == << [l \in Leaves |-> IF l = "a" THEN Posts(first) ELSE Posts(other)],
                       [l \in Leaves |-> IF l = "a" THEN Posts(second) ELSE <<>>] >>
    IN  [postings |-> postings,
         matching |-> [s \in 1 .. 2 |-> IF all THEN 0 .. 2 - s + 1
                          ELSE UNION {DocsOf(postings[s][l]) : l \in Leaves}],
         has_positions |-> positions, has_token_weights |-> weights]

Snapshots ==
    {Snapshot(first, second, other, all, positions, weights) :
        first \in [1 .. 3 -> 0 .. 2], second \in {<<0, 0>>, <<1, 2>>, <<2, 0>>, <<2, 2>>},
        other \in {<<0, 0, 0>>, <<2, 0, 1>>}, all \in BOOLEAN,
        positions \in BOOLEAN, weights \in BOOLEAN}

Score(tfs) == 2 * tfs["a"] + tfs["b"]

Rank(ranker, fv) ==
    IF ranker = "bm25" THEN Score([l \in Leaves |-> fv[l].tf])
    ELSE 2 * fv["a"].weight + (fv["a"].pos % 4) + fv["b"].tf

MCEntries == [score : 0 .. 9, segment_index : 1 .. 2, doc_id : 0 .. 2]

Opt(size, n, ranker, collect) ==
    [size |-> size, rerank_top_n |-> n, ranker |-> ranker, collect_features |-> collect]

MCOptions == {
    Opt(0, 3, NoRanker, FALSE), Opt(1, 3, NoRanker, FALSE), Opt(3, 3, NoRanker, FALSE),
    Opt(2, 1, NoRanker, TRUE), Opt(0, 2, NoRanker, TRUE),
    Opt(1, 3, "bm25", FALSE), Opt(2, 1, "linear", TRUE), Opt(1, 4, "linear", TRUE) }
=============================================================================
