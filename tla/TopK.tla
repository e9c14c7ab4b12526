-------------------------------- MODULE TopK --------------------------------
(***************************************************************************)
(* The bounded heap of stage 1 of Searcher::Search (query/searcher.cpp):   *)
(* entries are offered one by one, and the heap keeps top_n of them.  The  *)
(* heap itself is std::priority_queue: a set of entries whose top is the   *)
(* one ScoredEntryCmp puts last.                                           *)
(***************************************************************************)
EXTENDS Integers, FiniteSets

CONSTANTS
    Entries,        \* records: score, segment_index, doc_id
    Limits          \* the values top_n may have

ASSUME TopKAssumption ==
    /\ \A e \in Entries :
           e.score \in Int /\ e.segment_index \in Int /\ e.doc_id \in Int
    /\ Limits \subseteq Nat

VARIABLES
    top_n,          \* how many entries the heap keeps
    heap,
    offered         \* history: every entry offered so far

heapVars == <<top_n, heap, offered>>

HeapTypeOK ==
    /\ top_n \in Limits
    /\ heap \subseteq Entries
    /\ offered \subseteq Entries

HeapInit ==
    /\ top_n \in Limits
    /\ heap = {}
    /\ offered = {}

\* ScoredEntryCmp: the lowest score is on top; of equal ones, the entry of the
\* first segment, and in it the first document.
AboveInverted(a, b) ==      \* mutant: the best is on top
    \/ a.score > b.score
    \/ a.score = b.score /\ a.segment_index < b.segment_index
    \/ a.score = b.score /\ a.segment_index = b.segment_index /\ a.doc_id < b.doc_id

Above(a, b) ==
    \/ a.score < b.score
    \/ a.score = b.score /\ a.segment_index < b.segment_index
    \/ a.score = b.score /\ a.segment_index = b.segment_index /\ a.doc_id < b.doc_id

Top(e) == e \in heap /\ \A f \in heap \ {e} : Above(e, f)

Push(e) ==
    /\ Cardinality(heap) < top_n
    /\ heap' = heap \cup {e}

Replace(e) ==
    /\ Cardinality(heap) >= top_n
    /\ \E top \in heap :
           /\ Top(top)
           /\ e.score > top.score
           /\ heap' = (heap \ {top}) \cup {e}

Pass(e) ==
    /\ Cardinality(heap) >= top_n
    /\ \E top \in heap : Top(top) /\ ~(e.score > top.score)
    /\ heap' = heap

\* A heap that keeps nothing has no top to compare with: see Undefined in
\* Searcher.
Offer(e) ==
    /\ Push(e) \/ Replace(e) \/ Pass(e)
    /\ offered' = offered \cup {e}
    /\ UNCHANGED top_n

HeapNext == \E e \in Entries \ offered : Offer(e)

HeapSpec == HeapInit /\ [][HeapNext]_heapVars

-----------------------------------------------------------------------------
\* The heap holds a best choice of what was offered: no more than top_n, and
\* an entry was left out only when the heap is full of entries that score at
\* least as much (searcher.cpp:204, "We keep the top `rerank_top_n` docs").
HeapIsBest ==
    /\ heap \subseteq offered
    /\ Cardinality(heap) <= top_n
    /\ \A out \in offered \ heap :
           Cardinality(heap) = top_n /\ \A e \in heap : e.score >= out.score
=============================================================================
