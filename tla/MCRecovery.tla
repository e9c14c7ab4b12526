----------------------------- MODULE MCRecovery -----------------------------
\* One index: made from mappings of every kind or by a caller of the library,
\* documents of every kind, at most two records in the log.
EXTENDS Recovery, Json

Pretty(v) == SerializePretty(v, 2)

\* Keys, in the order of the strings.
Keys == <<
    <<>>, <<"_id">>, <<"_quality">>, <<"analyzer">>, <<"boost">>, <<"fields">>, <<"mappings">>,
    <<"name">>, <<"position_decay">>, <<"store_doc_quality">>, <<"store_token_weights">>,
    <<"stored">>, <<"title">>, <<"title", "_weights">>, <<"type">>, <<"x">> >>

\* Numbers are named: 0 and 1 are themselves, 10 is 0.1, 11 the float nearest
\* to it, 25 is 2.5, 39 is 1e39, which no float holds, 101 is -1.
Inf == 999
TokenOf ==
       0 :> <<"0">> @@ 1 :> <<"1">> @@ 25 :> <<"2", ".", "5">> @@ 101 :> <<"-", "1">>
    @@ 10 :> <<"0", ".", "1", "0", "0", "0", "1">>
    @@ 11 :> <<"0", ".", "1", "0", "0", "1">>
    @@ 39 :> <<"9", ".", "9", "e", "+", "3", "8">>
\* The beginnings of a token are read where a text is cut short, which is then
\* refused: their number does not matter.
NumberOf ==
    [t \in Range(TokenOf) |-> CHOOSE d \in DOMAIN TokenOf : TokenOf[d] = t]
    @@ <<"0", ".", "1">> :> 10 @@ <<"1", ".", "0">> :> 1 @@ <<"-", "0">> :> 0
    @@ <<"1", "e", "3", "9">> :> 39 @@ <<"1", "e", "9", "9", "9">> :> Inf
    @@ <<"2", "5", "E", "-", "1">> :> 25 @@ <<"2", "5">> :> 25
    @@ [t \in UNION {{SubSeq(token, 1, n) : n \in DOMAIN token} : token \in Range(TokenOf)} |-> 0]
FloatNear == 10 :> 11 @@ 39 :> Inf @@ [d \in {0, 1, 11, 25, 101, Inf} |-> d]
Fixed == 1 :> <<"1", ".", "0">> @@ 25 :> <<"2", ".", "5", "0">> @@ Inf :> <<"inf">>

HexOf == "US" :> <<"0", "0", "1", "f">>
Decoded == <<"0", "0", "1", "f">> :> <<"US">> @@ <<"0", "0", "E", "9">> :> <<"e-acute">>
    @@ <<"0", "0", "4", "1">> :> <<"A">>

\* A byte for each cell: control characters below the blank.
Letters == <<
    " ", "\"", "\\", "{", "}", "[", "]", ":", ",", "+", "-", ".", "/", "0", "1", "2", "3", "4",
    "5", "8", "9", "A", "E", "a", "b", "e", "e-acute", "f", "n", "t", "u", "x", "y", "_id", "_quality",
    "_weights", "boost", "name", "stored", "title", "true", "false", "null" >>
Bytes == "\t" :> 9 @@ "\n" :> 10 @@ "US" :> 31
    @@ [c \in Range(Letters) |-> 31 + CHOOSE i \in DOMAIN Letters : Letters[i] = c]

-----------------------------------------------------------------------------
\* JSON texts.
Q(s) == <<"\"">> \o s \o <<"\"">>
KV(k, v) == Q(k) \o <<":">> \o v
Joined(items) == FlattenSeq([i \in DOMAIN items |->
                     IF i = 1 THEN items[i] ELSE <<",">> \o items[i]])
Obj(items) == <<"{">> \o Joined(items) \o <<"}">>
Arr(items) == <<"[">> \o Joined(items) \o <<"]">>
Id(s) == KV(kIdName, Q(s))
Title == <<"title">>

Maps(items) == Obj(<<KV(<<"store_doc_quality">>, <<"true">>), KV(<<"mappings">>, Obj(items))>>)

IndexBodySet == {
    Maps(<<>>),
    Maps(<< KV(Title, Obj(<<KV(<<"stored">>, <<"true">>), KV(<<"boost">>, <<"2", ".", "5">>),
                            KV(<<"position_decay">>, <<"0", ".", "1">>)>>)),
            KV(<<"name">>, Obj(<<KV(<<"type">>, Q(<<"keyword">>))>>)) >>),
    Maps(<< KV(Title, Obj(<<KV(<<"boost">>, <<"1", "e", "3", "9">>),
                            KV(<<"analyzer">>, Q(<<"\\", "t">>)), KV(<<"stored">>, Q(<<"true">>)),
                            KV(<<"store_token_weights">>, <<"true">>)>>)),
            KV(kIdName, Obj(<<KV(<<"type">>, Q(<<"text">>))>>)) >>),
    \* refused: an unknown type, a field that is no object, an empty name, too
    \* many fields, mappings that are no object, no mappings, no end
    Maps(<<KV(Title, Obj(<<KV(<<"type">>, Q(<<"x">>))>>))>>),
    Maps(<<KV(Title, <<"true">>)>>),
    Maps(<<KV(<<>>, Obj(<<>>))>>),
    Maps(<<KV(Title, Obj(<<>>)), KV(<<"name">>, Obj(<<>>)), KV(<<"type">>, Obj(<<>>)),
           KV(<<"x">>, Obj(<<>>))>>),
    Obj(<<KV(<<"mappings">>, Arr(<<>>))>>), Arr(<<>>), <<"{">> }

SchemaSet == {
    [ok |-> TRUE, store_doc_quality |-> TRUE,
     fields |-> << [Mapping(<<"x">>) EXCEPT !.store_token_weights = TRUE, !.boost = 11],
                   IdField, [Mapping(<<"a", "\"", "\n">>) EXCEPT !.type = "keyword"] >>] }

DocBodySet == {
    Obj(<<Id(<<"a">>), KV(Title, Q(<<"x", " ", "y">>))>>),
    \* not text: numbers, truth values, weights, the quality
    Obj(<<Id(<<"b">>), KV(Title, <<"2", "5", "E", "-", "1">>), KV(<<"x">>, <<"true">>),
          KV(<<"name">>, <<"1", "e", "9", "9", "9">>), KV(<<"_quality">>, <<"-", "1">>),
          KV(<<"title", "_weights">>, Arr(<< <<"1">>, Q(<<"x">>), <<"0", ".", "1">> >>))>>),
    \* escapes, blanks, a key twice, values that are skipped
    <<" ", "{", "\n", "\"", "_id", "\"", " ", ":", "\"", "\\", "u", "0", "0", "E", "9", "\\", "\"",
      "\\", "n", "\\", "u", "0", "0", "1", "f", "\\", "/", "\"", ",">>
        \o Joined(<<KV(Title, <<"1">>), KV(Title, Q(<<"\\", "\\", "a">>)),
                    KV(<<"x">>, Obj(<<>>)), KV(<<"boost">>, <<"null">>),
                    KV(<<"stored">>, Arr(<<Arr(<<>>), Obj(<<Id(<<"x">>)>>)>>)),
                    KV(<<"title", "_weights">>, Q(<<"y">>)), KV(<<"_quality">>, Q(<<"x">>))>>)
        \o <<"}", "\t">>,
    \* no id: logged, then refused
    Obj(<<KV(Title, Q(<<"x">>))>>), Obj(<<KV(kIdName, <<"1">>)>>),
    \* refused before: not an object, or not JSON
    Arr(<<>>), <<"{", "}", "x">>, <<"{", "\"", "_id", "\"", ":", "\"", "\n", "\"", "}">>,
    <<"{", "\"", "_id", "\"", ":", "\"", "a", "\"", ",", "}">>, Obj(<<KV(Title, <<"-">>)>>),
    Obj(<<KV(Title, <<"0", "1">>)>>), Obj(<<KV(Title, <<"1", ".">>)>>),
    Obj(<<KV(Title, <<"1", "e">>)>>), Obj(<<KV(Title, Q(<<"\\", "x">>))>>),
    Obj(<<KV(Title, Q(<<"\\", "u", "0", "0", "x", "1">>))>>), <<"{", "\"", "x", "\"", "}">> }

LibraryDocSet == {
    Document(<<"a", "\"", "US">>, Title :> <<"\\", "\n", "e-acute", "t">> @@ <<"x">> :> <<>>,
             Title :> <<1, 25>>, 25) }
=============================================================================
