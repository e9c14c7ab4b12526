----------------------------- MODULE MCIterators -----------------------------
\* Documents of two words and of ids that share a word, added to a segment of
\* at most three; queries of every shape over them, passed as trees or written
\* as texts.
EXTENDS Iterators, QueryParser

WordSet == {"AND", "Cat", "Dog", "OR", "and", "body", "cat", "dog", "id", "nowhere",
            "or", "the", "title", "x", "y"}
Capitals == "AND" :> "and" @@ "OR" :> "or" @@ "Cat" :> "cat" @@ "Dog" :> "dog"
LowerOf == Capitals @@ [w \in WordSet |-> w]
Dropped == {"and", "or", "the"}

Cat == <<"cat">>
Dog == <<"Dog">>
X == <<"x">>
XY == <<"x", "-", "y">>
Y == <<"y">>
SpellingOf == << Cat, <<"dog">>, X, XY, Y >>

Title == <<"title">>
Body == <<"body">>

Fields == <<
    [name |-> kIdField, type |-> "keyword", stored |-> FALSE, positions |-> FALSE,
     weights |-> FALSE],
    [name |-> Title, type |-> "text", stored |-> TRUE, positions |-> FALSE, weights |-> FALSE],
    [name |-> Body, type |-> "text", stored |-> FALSE, positions |-> TRUE, weights |-> TRUE] >>

NoFields == [n \in {} |-> <<>>]

Docs == {
    [id |-> NoId, fields |-> Title :> Cat, weights |-> NoFields, quality |-> 1],
    [id |-> X, fields |-> Title :> Cat @@ Body :> Dog, weights |-> NoFields, quality |-> 1],
    [id |-> XY, fields |-> Title :> Dog @@ Body :> <<"dog", " ", "the", " ", "cat", ".", "dog">>,
        weights |-> Body :> <<-1, 5>>, quality |-> 2],
    [id |-> XY, fields |-> Body :> <<"cat", " ", "Cat">> @@ Title :> <<"the">>,
        weights |-> NoFields, quality |-> 0],
    [id |-> Y, fields |-> NoFields, weights |-> NoFields, quality |-> 3] }

-----------------------------------------------------------------------------
One1 == Term(Title, Cat)
Two == Term(Title, Dog)
Pos1 == Term(Body, Cat)
Pos2 == Term(Body, <<"dog">>)
Id4 == Term(kIdField, XY)
Gone == Term(Title, Y)
And(children) == Conjunction(children)
Or(children) == Disjunction(children)

\* Trees that no text stands for.
QuerySet == {
    And(<<>>), Or(<<>>), Or(<<Two>>), Term(Title, <<>>),
    And(<<MatchAllDocs, Two>>), And(<<Two, MatchAllDocs, Or(<<Pos1, Two>>)>>),
    Or(<<Gone, MatchAllDocs>>),
    And(<<And(<<One1, Pos1>>), Two, Or(<<Pos2, MatchAllDocs>>)>>),
    And(<<Or(<<And(<<MatchAllDocs, Id4>>), One1>>), MatchAllDocs>>) }

\* Ways to write a tree: with a keyword or without, with quotes where none are
\* needed, with every field named, with every operand in parentheses.
Styles == {
    [and |-> <<" ", "AND", " ">>, or |-> <<" ", "OR", " ">>, colon |-> <<":">>,
        quotes |-> FALSE, fields |-> FALSE, parens |-> FALSE],
    [and |-> <<" ">>, or |-> <<"\t", "OR", "\n">>, colon |-> <<" ", ":", " ">>,
        quotes |-> TRUE, fields |-> TRUE, parens |-> FALSE],
    [and |-> <<>>, or |-> <<"OR">>, colon |-> <<":">>,
        quotes |-> FALSE, fields |-> TRUE, parens |-> TRUE],
    [and |-> <<"AND">>, or |-> <<"OR">>, colon |-> <<":">>,
        quotes |-> TRUE, fields |-> FALSE, parens |-> TRUE] }

\* A tree and its text in some style.  An operand is put in parentheses when
\* it is a list of the same kind, or an alternative inside a conjunction.
Leaf(ast, s) ==
    LET bare == \A i \in DOMAIN ast.text : IsIdentChar(ast.text[i])
    IN  [ast |-> ast,
         text |-> (IF s.fields \/ ast.field # DefaultField THEN ast.field \o s.colon ELSE <<>>)
                  \o (IF s.quotes \/ ~bare THEN <<"\"">> \o ast.text \o <<"\"">> ELSE ast.text)]

List(kind, kids, s) ==
    LET operand(k) ==
            IF s.parens \/ k.ast.kind = kind \/ (k.ast.kind = "or" /\ kind = "and")
            THEN <<"(">> \o k.text \o <<")">> ELSE k.text
    IN  [ast |-> [kind |-> kind, children |-> [i \in DOMAIN kids |-> kids[i].ast]],
         text |-> FlattenSeq([i \in DOMAIN kids |->
                      (IF i = 1 THEN <<>> ELSE s[kind]) \o operand(kids[i])])]

Written(s) ==
    LET T(q) == Leaf(q, s)
        A(kids) == List("and", kids, s)
        O(kids) == List("or", kids, s)
        the == Term(Title, <<"the">>)
    IN  {T(Pos2), T(Id4), T(the), T(Term(<<"nowhere">>, Cat)),
         T(Term(Body, <<"Cat", " ", "the", " ", "dog">>)), T(Term(Body, <<"dog", "-", "dog">>)),
         A(<<T(One1), T(Two), T(Pos2)>>), O(<<T(One1), T(Pos1), T(Id4)>>),
         A(<<O(<<T(One1), T(Pos1)>>), O(<<T(Two), T(Id4)>>)>>),
         O(<<A(<<T(Pos1), T(Two)>>), A(<<T(One1), T(Two)>>)>>),
         O(<<A(<<T(One1), T(Id4)>>), O(<<T(Pos1), T(Gone)>>)>>),
         A(<<A(<<T(Pos1), T(the)>>), O(<<T(Two), T(Pos2)>>)>>)}

\* A keyword behind which the word goes on is a term, a keyword where a term
\* must stand is a term, a quote may stay open, blanks stand for every document.
Odd == <<"cat", " ", "OR", "-", "x">> :> And(<<One1, Term(Title, <<"OR", "-", "x">>)>>)
    @@ <<"or", " ", "cat">> :> And(<<Term(Title, <<"or">>), One1>>)
    @@ <<"OR", " ", "Dog">> :> And(<<Term(Title, <<"OR">>), Two>>)
    @@ <<"body", ":", "\"", "cat", " ", ")">> :> Term(Body, <<"cat", " ", ")">>)
    @@ <<"(", " ", "(", "cat", ")", ")">> :> One1
    @@ <<" ", "\t">> :> MatchAllDocs

Malformed == {
    <<"cat", " ", "AND">>, <<"cat", " ", "OR">>, <<"cat", " ", "AND", " ", "OR", " ", "x">>,
    <<"(", "cat">>, <<"cat", ")">>, <<"(", ")">>, <<"(", "cat", " ", "AND", ")">>,
    <<"title", ":">>, <<"title", ":", "(", "cat", ")">>, <<":", "cat">>,
    <<"title", ":", "x", ":", "y">>, <<"cat", " ", "\"", "\"">>, <<"\"">>, <<"*">> }

MeaningOf ==
    LET printed == UNION {Written(s) : s \in Styles}
    IN  [t \in {p.text : p \in printed} |-> (CHOOSE p \in printed : p.text = t).ast]
        @@ Odd @@ [t \in Malformed |-> Refused]

RECURSIVE LeavesOf(_)
LeavesOf(q) ==
    CASE q.kind = "term" -> {q}
      [] q.kind \in {"and", "or"} -> UNION {LeavesOf(q.children[i]) : i \in DOMAIN q.children}
      [] OTHER -> {}

\* The leaves of the trees passed, and of those that texts are parsed to.
Parsed == {p.val : p \in {q \in {Parse(in) : in \in DOMAIN MeaningOf} : q.ok}}
Leaves == UNION {LeavesOf(q) : q \in QuerySet \cup Parsed}
=============================================================================
