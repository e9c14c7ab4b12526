----------------------------- MODULE QueryParser -----------------------------
(***************************************************************************)
(* query/query_parser.cpp: from the text of a query to its tree            *)
(* (query/query_ast.cpp), or a refusal.                                    *)
(*                                                                         *)
(* Each parsing operator takes the text and the cell to start at (pos_)    *)
(* and gives the tree and the cell behind it.  A keyword is a word that no *)
(* identifier character follows; everywhere else it is a term.             *)
(***************************************************************************)
EXTENDS Analyzer, Cells

CONSTANTS
    DefaultField        \* the field of a term that names none

ASSUME KeywordAssumption == {"AND", "OR"} \subseteq Words

\* QueryAst.
Term(field, text) == [kind |-> "term", field |-> field, text |-> text]
Conjunction(children) == [kind |-> "and", children |-> children]
Disjunction(children) == [kind |-> "or", children |-> children]
MatchAllDocs == [kind |-> "all"]

\* A list of one is its only member.
Only(children, ast) == IF Len(children) = 1 THEN children[1] ELSE ast

-----------------------------------------------------------------------------
\* The cells.  Each reader gives the first cell it leaves.

IsIdentChar(c) == c \in Words \cup {"_", "-", "."}

\* Behind the keyword, or 0: the caller stays where it is.
ConsumeKeywordPrefix(in, p, kw) ==      \* mutant: whatever follows
    LET at == SkipWs(in, p) IN IF At(in, at, kw) THEN at + 1 ELSE 0

ConsumeKeyword(in, p, kw) ==
    LET at == SkipWs(in, p)
    IN  IF At(in, at, kw) /\ (Eof(in, at + 1) \/ ~IsIdentChar(in[at + 1])) THEN at + 1 ELSE 0

\* An identifier, or what stands between quotes; the second quote may be
\* missing.  Empty when there is neither.
IdentOrQuotedAt(in, at) ==
    LET close  == Past(in, at + 1, LAMBDA c : c # "\"")
        behind == Past(in, at, IsIdentChar)
    IN  IF At(in, at, "\"")
        THEN Read(SubSeq(in, at + 1, close - 1), Min({close, Len(in)}) + 1)
        ELSE Read(SubSeq(in, at, behind - 1), behind)

ReadIdentOrQuoted(in, p) == IdentOrQuotedAt(in, SkipWs(in, p))

-----------------------------------------------------------------------------
\* The grammar.

RECURSIVE ParseOr(_, _), ParseAnd(_, _), ParseAtom(_, _), OrRest(_, _, _), AndRest(_, _, _)

ParseOr(in, p) == Then(ParseAnd(in, p), LAMBDA left, q : OrRest(in, q, <<left>>))

OrAfter(in, p, after, children) ==
    IF after = 0 THEN Read(Only(children, Disjunction(children)), p)
    ELSE Then(ParseAnd(in, after), LAMBDA right, q : OrRest(in, q, Append(children, right)))

OrRest(in, p, children) == OrAfter(in, p, ConsumeKeyword(in, p, "OR"), children)

ParseAnd(in, p) == Then(ParseAtom(in, p), LAMBDA first, q : AndRest(in, q, <<first>>))

AndAt(in, p, at, children) ==
    IF Eof(in, at) \/ At(in, at, ")") \/ ConsumeKeyword(in, at, "OR") # 0
    THEN Read(Only(children, Conjunction(children)), p)
    ELSE Then(ParseAtom(in, at), LAMBDA next, q : AndRest(in, q, Append(children, next)))

\* The keyword between two atoms may be missing.
AndRest(in, p, children) ==
    AndAt(in, p, SkipWs(in, Max({p, ConsumeKeyword(in, p, "AND")})), children)

\* A group, a term of the default field, or a field and a term.
Closed(in, inner, close) == IF At(in, close, ")") THEN Read(inner, close + 1) ELSE Err

Named(in, ident, colon) ==
    IF ident = <<>> THEN Err
    ELSE IF ~At(in, colon, ":") THEN Read(Term(DefaultField, ident), colon)
    ELSE Then(ReadIdentOrQuoted(in, colon + 1),
              LAMBDA value, q : IF value = <<>> THEN Err ELSE Read(Term(ident, value), q))

AtomAt(in, at) ==
    IF At(in, at, "(")
    THEN Then(ParseOr(in, at + 1), LAMBDA inner, q : Closed(in, inner, SkipWs(in, q)))
    ELSE Then(ReadIdentOrQuoted(in, at), LAMBDA ident, q : Named(in, ident, SkipWs(in, q)))

ParseAtom(in, p) == AtomAt(in, SkipWs(in, p))

\* Parse: the whole text, or nothing.
ParseFrom(in, start) ==
    IF Eof(in, start) THEN Read(MatchAllDocs, start)
    ELSE Then(ParseOr(in, start),
              LAMBDA ast, q : IF Eof(in, SkipWs(in, q)) THEN Read(ast, q) ELSE Err)

Parse(in) == ParseFrom(in, SkipWs(in, 1))
=============================================================================
