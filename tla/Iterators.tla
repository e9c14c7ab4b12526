------------------------------ MODULE Iterators ------------------------------
(***************************************************************************)
(* A search over one segment: the text of a query is parsed, Build of      *)
(* query/searcher.cpp makes a tree of iterators of the query, and the      *)
(* iterators of query/iterators.cpp walk over its documents.               *)
(*                                                                         *)
(* An iterator is a record that its Next and Advance replace.  What either *)
(* returns is the current document it leaves: every return of the code     *)
(* but those of an iterator without children, which Build never makes.     *)
(* The leaves decode the bytes of the segment (Segment, Postings).         *)
(*                                                                         *)
(* Queries and iterators are trees.  What the code does by recursion or a  *)
(* virtual call is a function of the trees of height n, that uses the one  *)
(* of height n - 1; Depth bounds the height of a query.                    *)
(***************************************************************************)
EXTENDS Segment

CONSTANTS
    ParseText(_),       \* ParseQuery (QueryParser): the tree of a text, if any
    TermQueries,        \* the leaves of queries that ask for a text in a field
    Queries,            \* the trees that callers of the library pass
    Meaning,            \* for each text a client sends, the tree it stands for
                        \* or Refused
    Depth               \* bound: no query is a higher tree

NoQuery == [kind |-> "none"]
Refused == [kind |-> "refused"]

VARIABLES
    text,               \* history: the text of the query, up to the first Next
    query,              \* the query of the search, NoQuery or Refused
    root,               \* its iterator
    walking             \* Next has been called

itVars == <<text, query, root, walking>>
vars == <<segVars, itVars>>

-----------------------------------------------------------------------------
\* QueryAst.

QueryAst[n \in Nat] ==
    IF n = 0 THEN {[kind |-> "all"]} \cup TermQueries
    ELSE QueryAst[n - 1] \cup [kind : {"and", "or"}, children : Seq(QueryAst[n - 1])]

\* AddField refuses a name it has (index/schema.cpp).  The terms of a query are
\* spelled.
ASSUME QueriesAssumption ==
    /\ Depth \in Nat
    /\ \A q \in TermQueries :
           /\ q.kind = "term"
           /\ \A f \in DOMAIN Schema :
                  Schema[f].name = q.field => Analyzed(Schema[f].type, q.text) \in Seq(Terms)
    /\ \A f, g \in DOMAIN Schema : Schema[f].name = Schema[g].name => f = g
    /\ Queries \subseteq QueryAst[Depth]
    /\ \A in \in DOMAIN Meaning : ParseText(in).ok => ParseText(in).val \in QueryAst[Depth]

-----------------------------------------------------------------------------
\* The iterators: leaves, and those over other iterators, each of them lower.

Word == 0 .. WordMax

MatchAllIterator == [kind : {"all"}, doc_count : Word, current : Word, started : BOOLEAN]

AnyTermIterator ==
    {it \in [kind : {"term"}, bytes : Seq(0 .. ByteMax), cursor : Nat, remaining : Word,
             df : Word, has_positions : BOOLEAN, has_token_weights : BOOLEAN, current : Word,
             prev : Word, freq : Word, pos : Nat, weight : Nat, started : BOOLEAN] :
        it.cursor \in 1 .. Len(it.bytes) + 1}

DocIdSetIterator[n \in Nat] ==
    IF n = 0 THEN MatchAllIterator \cup AnyTermIterator
    ELSE DocIdSetIterator[n - 1] \cup
         {it \in [kind : {"and", "or"}, height : {n}, cost : Nat,
                  kids : Seq(DocIdSetIterator[n - 1]), current : Word, freq : Word] :
             Len(it.kids) > 1}

Height(it) == IF it.kind \in {"all", "term"} THEN 0 ELSE it.height

\* Next, or Advance to a target.
ToNext == -1
Calls == {ToNext} \cup Word

-----------------------------------------------------------------------------
\* MatchAllIterator.  A DocId is 32 bits wide: behind the sentinel comes 0.

MatchAll(n) == [kind |-> "all", doc_count |-> n, current |-> kNoMoreDocs, started |-> FALSE]

MatchAllNext(it) ==
    LET next == IF it.started THEN (it.current + 1) % (WordMax + 1) ELSE 0
    IN  [it EXCEPT !.started = TRUE,
                   !.current = IF next < it.doc_count THEN next ELSE kNoMoreDocs]

MatchAllAdvance(it, target) ==
    IF target < it.doc_count THEN [it EXCEPT !.started = TRUE, !.current = target]
    ELSE [it EXCEPT !.current = kNoMoreDocs]

-----------------------------------------------------------------------------
\* Iterators over others.  The operators take the function that moves these:
\* move[it][call] is the iterator that Next or Advance leaves of it.

Freq(it) == IF it.kind = "all" THEN 0 ELSE it.freq

\* The sum of numbers, as the number of pairs they stand for, and as a uint32.
Total(f) == Cardinality(UNION {{i} \X (1 .. f[i]) : i \in DOMAIN f})
WordTotal(f) == Total(f) % (WordMax + 1)

\* No call changes the cost.
Cost(it) ==
    CASE it.kind = "all"  -> it.doc_count
      [] it.kind = "term" -> it.df
      [] it.kind \in {"and", "or"} -> it.cost

Over(kind, height, cost, kids) ==
    [kind |-> kind, height |-> height, cost |-> cost, kids |-> kids,
     current |-> kNoMoreDocs, freq |-> 0]

Ended(it) == [it EXCEPT !.current = kNoMoreDocs]

Standing(it, kids, doc, here) ==
    [it EXCEPT !.kids = kids, !.current = doc,
               !.freq = WordTotal([i \in here |-> Freq(kids[i])])]

\* ConjunctionIterator: cheapest child first (equal ones keep their order, as
\* std::sort does for as few), and each child moved to its first document
\* until one has none.
Place(children, i) ==
    Cardinality({j \in DOMAIN children : \/ Cost(children[j]) < Cost(children[i])
                                         \/ Cost(children[j]) = Cost(children[i]) /\ j <= i})

InOrder(children) ==
    [k \in DOMAIN children |-> children[CHOOSE i \in DOMAIN children : Place(children, i) = k]]

Primed(kids, move) ==
    LET first == [i \in DOMAIN kids |-> move[kids[i]][ToNext]]
        empty == {i \in DOMAIN kids : first[i].current = kNoMoreDocs}
    IN  [i \in DOMAIN kids |-> IF \A j \in empty : i <= j THEN first[i] ELSE kids[i]]

ConjunctionIteratorUnprimed(children, height, move) ==      \* mutant: no child is moved
    LET order == InOrder(children) IN Over("and", height, Cost(order[1]), order)

ConjunctionIterator(children, height, move) ==
    LET order == InOrder(children)
    IN  Over("and", height, Cost(order[1]), Primed(order, move))

\* The first child is at the candidate; the others follow in order until one
\* stops elsewhere, and then the first child follows that one.
Round(loop, move) ==
    LET kids  == loop.it.kids
        candidate == kids[1].current
        moved == [i \in DOMAIN kids |-> move[kids[i]][candidate]]
        off   == {i \in DOMAIN kids \ {1} : \/ moved[i].current = kNoMoreDocs
                                            \/ moved[i].current # candidate}
        upTo  == [i \in DOMAIN kids |->
                     IF i # 1 /\ \A j \in off : i <= j THEN moved[i] ELSE kids[i]]
        lead  == move[kids[1]][moved[Min(off)].current]
        onward == [loop.it EXCEPT !.kids = [upTo EXCEPT ![1] = lead]]
    IN  IF ~loop.on THEN loop
        ELSE IF off = {} THEN [it |-> Standing(loop.it, upTo, candidate, DOMAIN kids), on |-> FALSE]
        ELSE IF moved[Min(off)].current = kNoMoreDocs
        THEN [it |-> Ended([loop.it EXCEPT !.kids = upTo]), on |-> FALSE]
        ELSE IF lead.current = kNoMoreDocs THEN [it |-> Ended(onward), on |-> FALSE]
        ELSE [it |-> onward, on |-> TRUE]

\* Every round raises the candidate, so there are no more than documents.
Leapfrog(it, move) ==
    LET after[n \in Nat] ==
            IF n = 0 THEN [it |-> it, on |-> TRUE]
            ELSE Round(after[n - 1], move)
    IN  after[WordMax + 1].it

\* The first child moves, and the others follow it.
Led(it, call, move) ==
    LET onward == [it EXCEPT !.kids[1] = move[@][call]]
    IN  IF onward.kids[1].current = kNoMoreDocs THEN Ended(onward) ELSE Leapfrog(onward, move)

\* Where the current document is the sentinel, unstarted or ended, the first
\* child stays where it is.
ConjunctionNext(it, move) ==
    IF it.current = kNoMoreDocs THEN Leapfrog(it, move) ELSE Led(it, ToNext, move)

ConjunctionAdvance(it, target, move) ==
    IF it.current >= target /\ it.current # kNoMoreDocs THEN it ELSE Led(it, target, move)

\* DisjunctionIterator: the least document of the children, from a bound on.
DisjunctionIterator(children, height) ==
    Over("or", height, Total([i \in DOMAIN children |-> Cost(children[i])]), children)

Least(kids, bound) ==
    LET from == {kids[i].current : i \in DOMAIN kids} \cap (bound .. kNoMoreDocs - 1)
    IN  IF from = {} THEN kNoMoreDocs ELSE Min(from)

AtLeastSumsAll(it, kids, bound) ==      \* mutant: adds children that are elsewhere
    Standing(it, kids, Least(kids, bound), DOMAIN kids)

AtLeast(it, kids, bound) ==
    LET best == Least(kids, bound)
    IN  Standing(it, kids, best,
           {i \in DOMAIN kids : kids[i].current = best /\ best # kNoMoreDocs})

\* At the sentinel the children that are there too are taken for unstarted.
DisjunctionNext(it, move) ==
    IF it.current = kNoMoreDocs
    THEN IF \A i \in DOMAIN it.kids : it.kids[i].current # kNoMoreDocs THEN it
         ELSE AtLeast(it, [i \in DOMAIN it.kids |->
                  IF it.kids[i].current = kNoMoreDocs THEN move[it.kids[i]][ToNext]
                  ELSE it.kids[i]], 0)
    ELSE AtLeast(it, [i \in DOMAIN it.kids |->
             IF it.kids[i].current <= it.current THEN move[it.kids[i]][ToNext]
             ELSE it.kids[i]], it.current + 1)

DisjunctionAdvance(it, target, move) ==
    AtLeast(it, [i \in DOMAIN it.kids |->
        IF it.kids[i].current < target THEN move[it.kids[i]][target] ELSE it.kids[i]], target)

LeafMoved(it, call) ==
    CASE it.kind = "term" /\ call = ToNext -> TermNext(it)
      [] it.kind = "term" /\ call # ToNext -> TermAdvance(it, call)
      [] it.kind = "all" /\ call = ToNext -> MatchAllNext(it)
      [] it.kind = "all" /\ call # ToNext -> MatchAllAdvance(it, call)

NodeMoved(it, call, move) ==
    CASE it.kind = "and" /\ call = ToNext -> ConjunctionNext(it, move)
      [] it.kind = "and" /\ call # ToNext -> ConjunctionAdvance(it, call, move)
      [] it.kind = "or" /\ call = ToNext -> DisjunctionNext(it, move)
      [] it.kind = "or" /\ call # ToNext -> DisjunctionAdvance(it, call, move)

Moved[n \in Nat] ==
    [it \in DocIdSetIterator[n] |-> [call \in Calls |->
        IF n = 0 THEN LeafMoved(it, call)
        ELSE IF Height(it) < n THEN Moved[n - 1][it][call]
        ELSE NodeMoved(it, call, Moved[n - 1])]]

-----------------------------------------------------------------------------
\* searcher.cpp: Build.  MatchAll(0) stands for every query without documents.

\* No iterator, the only one, or a new one over several, none higher than n.
Combine(kids, kind, n) ==
    CASE kids = <<>>   -> MatchAll(0)
      [] Len(kids) = 1 -> kids[1]
      [] Len(kids) > 1 /\ kind = "or"  -> DisjunctionIterator(kids, n + 1)
      [] Len(kids) > 1 /\ kind = "and" -> ConjunctionIterator(kids, n + 1, Moved[n])

\* The analyzer of a query is that of its field's type in the schema.
BuildTerm(q) ==
    LET f     == GetFieldId(q.field)
        terms == Analyzed(Schema[f].type, q.text)
        found == [i \in DOMAIN terms |-> FindTerm(f, terms[i])]
        leaf(i) == TermIterator(PostingBytes(f, i), reader.fields[f].has_positions,
                                reader.fields[f].has_token_weights)
    IN  IF f = 0 \/ \E i \in DOMAIN found : found[i] = 0 THEN MatchAll(0)
        ELSE Combine([i \in DOMAIN found |-> leaf(found[i])], "and", 0)

Build[n \in Nat] ==
    [q \in QueryAst[n] |->
        CASE q.kind = "all"  -> MatchAll(reader.doc_count)
          [] q.kind = "term" -> BuildTerm(q)
          [] q.kind \in {"and", "or"} ->
                Combine([i \in DOMAIN q.children |-> Build[n - 1][q.children[i]]], q.kind, n)]

-----------------------------------------------------------------------------
\* The search over the segment: Build, Next, then Next or Advance to a later
\* target until the sentinel.  Only other iterators call Advance, and they
\* keep to that order too.

Init ==
    /\ SegInit
    /\ text = <<>> /\ query = NoQuery
    /\ root = MatchAll(0) /\ walking = FALSE

Asked(call) == Moved[Depth + 1][root][call]

\* A search for a tree.
Open(q) ==
    /\ reader.open /\ query = NoQuery
    /\ query' = q
    /\ root' = Build[Depth][q]
    /\ UNCHANGED <<segVars, text, walking>>

\* A search for a text, which ends there when the parser refuses it.
OpenText(in) ==
    /\ reader.open /\ query = NoQuery
    /\ text' = in
    /\ \E parsed \in {ParseText(in)} :
        /\ query' = IF parsed.ok THEN parsed.val ELSE Refused
        /\ root' = IF parsed.ok THEN Build[Depth][parsed.val] ELSE root
    /\ UNCHANGED <<segVars, walking>>

Searching == query \notin {NoQuery, Refused}

CallNext ==
    /\ Searching
    /\ ~walking \/ root.current # kNoMoreDocs
    /\ root' = Asked(ToNext)
    /\ walking' = TRUE
    /\ text' = <<>>
    /\ UNCHANGED <<segVars, query>>

CallAdvance(target) ==
    /\ walking /\ root.current < target
    /\ root' = Asked(target)
    /\ UNCHANGED <<segVars, text, query, walking>>

Next ==
    \/ SegNext /\ UNCHANGED itVars
    \/ \E q \in Queries : Open(q)
    \/ \E in \in DOMAIN Meaning : OpenText(in)
    \/ CallNext
    \/ \E target \in 1 .. kNoMoreDocs : CallAdvance(target)

Spec == Init /\ [][Next]_vars

-----------------------------------------------------------------------------
\* Properties.

\* Whether a document is one that a query stands for, and how often the terms
\* of the query occur in it, as a uint32.
HasField(q) == \E f \in DOMAIN Schema : Schema[f].name = q.field
FieldOf(q) == CHOOSE f \in DOMAIN Schema : Schema[f].name = q.field
WantedBy(q) == Analyzed(Schema[FieldOf(q)].type, q.text)

HasAll(doc, q) ==
    /\ HasField(q) /\ WantedBy(q) # <<>>
    /\ Range(WantedBy(q)) \subseteq Range(TokensOf[doc][FieldOf(q)])

Occurrences(doc, q) ==
    LET tokens == TokensOf[doc][FieldOf(q)]
    IN  WordTotal([i \in DOMAIN WantedBy(q) |->
                      Cardinality({p \in DOMAIN tokens : tokens[p] = WantedBy(q)[i]})])

Matches[n \in Nat] ==
    [q \in QueryAst[n] |-> [doc \in Documents |->
        CASE q.kind = "all"  -> TRUE
          [] q.kind = "term" -> HasAll(doc, q)
          [] q.kind = "and"  -> /\ q.children # <<>>
                                /\ \A i \in DOMAIN q.children : Matches[n - 1][q.children[i]][doc]
          [] q.kind = "or"   -> \E i \in DOMAIN q.children : Matches[n - 1][q.children[i]][doc]]]

FreqOf[n \in Nat] ==
    [q \in QueryAst[n] |-> [doc \in Documents |->
        CASE q.kind = "all"  -> 0
          [] q.kind = "term" -> Occurrences(doc, q)
          [] q.kind \in {"and", "or"} ->
                WordTotal([i \in {k \in DOMAIN q.children : Matches[n - 1][q.children[k]][doc]} |->
                              FreqOf[n - 1][q.children[i]][doc]])]]

Matching == {d \in DocIds : Matches[Depth][query][added[d + 1]]}

TypeOK ==
    /\ SegTypeOK
    /\ query \in {NoQuery, Refused} \cup QueryAst[Depth]
    /\ text \in DOMAIN Meaning \cup {<<>>}
    /\ root \in DocIdSetIterator[Depth + 1]
    /\ walking \in BOOLEAN

\* A text is parsed to the tree it stands for, whatever way it is written
\* (with or without AND, quotes, parentheses, the default field), and a text
\* that stands for none is refused as a whole (query_parser.h).
ParsesMeant ==
    text # <<>> => query = Meaning[text]

\* At a document, the frequency an iterator reports is the number of times
\* the query's terms occur in it, modulo 2^32: every child that takes part is
\* there, none has run ahead or stayed behind (iterators.h:25).
FreqIsTotal ==
    walking /\ root.current # kNoMoreDocs =>
        Freq(root) = FreqOf[Depth][query][added[root.current + 1]]

\* The iterator of a query walks, upwards and without missing or repeating
\* one, over exactly the documents that match it.
Walk == INSTANCE Cursor WITH
    Docs <- 0 .. kNoMoreDocs - 1,
    End <- kNoMoreDocs,
    set <- IF Searching THEN Matching ELSE {},
    current <- IF Searching THEN root.current ELSE kNoMoreDocs,
    phase <- IF ~Searching THEN "none" ELSE IF walking THEN "walking" ELSE "built"

WalksMatches == Walk!Spec
=============================================================================
