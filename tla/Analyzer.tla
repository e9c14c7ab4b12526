------------------------------ MODULE Analyzer ------------------------------
(***************************************************************************)
(* Texts, and the analyzers of analyze/standard_analyzer.cpp that cut them *)
(* into tokens, when a document is added and when a query is built.        *)
(*                                                                         *)
(* A text is a sequence of cells: a maximal run of letters and digits is   *)
(* one cell, a word, and every other character is a cell of its own.       *)
(***************************************************************************)
EXTENDS Naturals, Sequences, SequencesExt

CONSTANTS
    Words,          \* the words
    Lower,          \* AsciiLower of a word
    StopWords       \* kStopWords

ASSUME LowerAssumption ==
    /\ Lower \in [Words -> Words]
    /\ \A w \in Words : Lower[Lower[w]] = Lower[w]
    /\ StopWords \subseteq Words

\* StandardAnalyzer: the words in lower case; a stop word is dropped but
\* counts for the positions of those behind it.
StandardAnalyzer(text) ==
    LET words == SelectSeq(text, LAMBDA c : c \in Words)
        kept  == SelectSeq([i \in DOMAIN words |-> i],
                           LAMBDA i : Lower[words[i]] \notin StopWords)
    IN  [n \in DOMAIN kept |-> [text |-> <<Lower[words[kept[n]]]>>, position |-> kept[n] - 1]]

\* KeywordAnalyzer: the whole text, unchanged.
KeywordAnalyzer(text) ==
    IF text = <<>> THEN <<>> ELSE <<[text |-> text, position |-> 0]>>

\* The analyzer of a field, by its type.
Analyze(type, text) ==
    IF type = "keyword" THEN KeywordAnalyzer(text) ELSE StandardAnalyzer(text)
=============================================================================
