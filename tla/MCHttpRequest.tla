--------------------------- MODULE MCHttpRequest ---------------------------
\* Requests put together from a request line, header lines and a body, each
\* with what is meant by it or wrong with it, and what is left of one whose
\* client stops early.
EXTENDS HttpRequest

Ok(method, path, query, handler, index, args) ==
  [bytes |-> <<method, "SP">> \o path \o query \o <<"SP", "HTTP/1.1">>,
   error |-> "none", handler |-> handler, index |-> index, args |-> args]
SearchOr(query, handler, args) ==
  Ok("GET", <<"/", "wiki", "/", "_search">>, <<"?">> \o query, handler, <<"wiki">>, args)
Search(query, args) == SearchOr(query, "Search", args)
Refused(query) == SearchOr(query, "400", <<>>)
Bad(bytes, error) == [bytes |-> bytes, error |-> error]

Args == [q |-> <<>>, default_field |-> <<"first text field">>, size |-> 10, rerank |-> FALSE,
         ranker |-> <<"bm25">>, top_n |-> 1000]
Wiki == <<"wiki">>

\* Where no call is meant, handler is the status of the router or the handler.
CallLines == {
    Ok("GET", <<"/", "_health">>, <<>>, "Health", <<>>, <<>>),
    Ok("PUT", <<"/", "wiki">>, <<>>, "CreateIndex", Wiki, <<>>),
    Ok("PUT", <<"/", "_health">>, <<>>, "CreateIndex", <<"_health">>, <<>>),
    Ok("POST", <<"/", "/", "wiki", "/", "/", "_doc", "/">>, <<>>, "PostDoc", Wiki, <<>>),
    Ok("POST", <<"wiki", "/", "_refresh">>, <<"?", "x">>, "Refresh", Wiki, <<>>),
    Ok("GET", <<"/", "wiki", "/", "_ltr">>, <<>>, "GetLtr", Wiki, <<>>),
    Ok("PUT", <<"/", "wiki", "/", "_ltr", "/", "linear">>, <<>>, "PutLtrLinear", Wiki, <<>>),
    Ok("GET", <<"/", "wiki">>, <<>>, "405", <<>>, <<>>),
    Ok("PUT", <<"/", "wiki", "/", "_search">>, <<>>, "405", <<>>, <<>>),
    Ok("POST", <<"/">>, <<>>, "404", <<>>, <<>>),
    Ok("GET", <<"/", "wiki", "/", "x">>, <<>>, "404", <<>>, <<>>),
    Search(<<>>, Args),
    Refused(<<"size", "=", "x">>) }

SearchLines == {
    Search(<<"q", "=", "x", "+", "%", "2", "6", "=">>, [Args EXCEPT !.q = <<"x", " ", "&", "=">>]),
    Search(<<"q", "=", "%", "2", "5", "2", "0">>, [Args EXCEPT !.q = <<"%", "2", "0">>]),
    Search(<<"q", "=", "%", "2">>, [Args EXCEPT !.q = <<"%", "2">>]),
    Search(<<"q", "=", "%", "%", "2", "B">>, [Args EXCEPT !.q = <<"%", "+">>]),
    Search(<<"&", "q", "=", "x", "&", "q", "=", "y", "&">>, [Args EXCEPT !.q = <<"y">>]),
    Search(<<"size", "=", "0", "&", "q">>, [Args EXCEPT !.size = 0]),
    Search(<<"size", "=", "+", "5", "x">>, [Args EXCEPT !.size = 5]),
    Search(<<"size", "=", "%", "2", "B", "7">>, [Args EXCEPT !.size = 7]),
    Search(<<"size", "=", "-", "1">>, [Args EXCEPT !.size = 1000]),
    Search(<<"size", "=", "1", "0", "0", "1">>, [Args EXCEPT !.size = 1000]),
    Refused(<<"size", "=", "9", "9", "9", "9", "9", "9">>),
    Refused(<<"size">>),
    Refused(<<"top_n", "=", "-">>),
    Search(<<"rerank", "=", "1", "&", "ranker", "=", "linear">>,
           [Args EXCEPT !.rerank = TRUE, !.ranker = <<"linear">>]),
    Refused(<<"rerank", "=", "true", "&", "ranker", "=", "x">>),
    Search(<<"ranker", "=", "x", "&", "top_n", "=", "2">>,
           [Args EXCEPT !.ranker = <<"x">>, !.top_n = 2]),
    Search(<<"default_field", "=">>, [Args EXCEPT !.default_field = <<>>]) }

BadLines == {
    Bad(<<>>, "400"), Bad(<<"GET", "SP", "/">>, "400"),
    Bad(<<"GET", "SP", "/", "SP", "HTTP/2.0">>, "505"),
    Bad(<<"GET", "SP", "/", "SP", "CR", "SP", "HTTP/1.1">>, "505"),
    Bad(<<"GET", "SP">> \o [i \in 1 .. 19 |-> "x"] \o <<"SP", "HTTP/2.0">>, "414") }

Plain   == [bytes |-> <<"Host", ":", "SP", "x">>, kind |-> "plain"]
Spaced  == [bytes |-> <<"content-length", "SP", ":", "9">>, kind |-> "plain"]
NoColon == [bytes |-> <<"Host", "LF">>, kind |-> "noColon"]
Chunked == [bytes |-> <<"Transfer-Encoding", ":", "x">>, kind |-> "chunked"]
Length(value, n) == [bytes |-> <<"Content-Length", ":">> \o value, kind |-> "length", n |-> n]
Two     == Length(<<"SP", "2", "TAB">>, 2)
Four    == [Length(<<"0", "4">>, 4) EXCEPT !.bytes[1] = "content-length"]
TooMuch == Length(<<"5">>, 5)
Nine    == Length(<<"9">>, 9)
Wrong   == Length(<<"2", "SP", "2">>, -1)
Over    == Length(<<"9", "9", "9", "9", "9", "9">>, -1)

HeaderLists == {
    <<>>, <<Plain>>, <<Spaced>>, <<NoColon>>, <<Two>>, <<Four>>, <<TooMuch>>, <<Wrong>>, <<Over>>,
    <<Two, Four>>, <<Wrong, Two>>, <<Chunked, Wrong>>, <<Two, Chunked>>, <<TooMuch, Chunked>>, <<Nine>>,
    <<Over, NoColon>>, <<Four, Plain, Plain>>, <<Plain, Plain, Plain, Two>>,
    <<Plain, Plain, Plain, Plain, TooMuch>> }

\* The body, and what follows it: a body may look like the end of a head.
Surplus == <<"CR", "LF", "CR", "LF", "x", "x", "x", "x", "x">>

Kinds(headers) == {headers[i].kind : i \in DOMAIN headers}
\* The last Content-Length counts.
Declared(headers) ==
  LET lengths == {i \in DOMAIN headers : headers[i].kind = "length"}
  IN IF lengths = {} THEN 0 ELSE headers[Max(lengths)].n

Meant(line, headers) ==
  LET n == Declared(headers)
  IN IF line.error # "none" THEN Status(line.error)
     ELSE IF "noColon" \in Kinds(headers) \/ n = -1 THEN Status("400")
     ELSE IF n > max_body THEN Status("413")
     ELSE IF "chunked" \in Kinds(headers) THEN Status("411")
     ELSE IF line.handler \in {"400", "404", "405"} THEN Status(line.handler)
     ELSE IF line.handler # "Search" THEN Call(line.handler, line.index, SubSeq(Surplus, 1, n))
     ELSE Call("Search", line.index, line.args)

CrLf == <<"CR", "LF">>
Render(line, headers) ==
  LET rendered == FlattenSeq([i \in DOMAIN headers |-> headers[i].bytes \o CrLf])
  IN line.bytes \o CrLf \o rendered \o CrLf

Whole(line, headers) ==
  LET head == Render(line, headers)
  IN [bytes |-> head \o Surplus, head |-> Len(head),
      size |-> Len(head) + Max({0, Declared(headers)}), reply |-> Meant(line, headers)]

\* The client stops inside the head, or inside a body that is waited for.
Cut(m, k) == [m EXCEPT !.bytes = SubSeq(m.bytes, 1, k),
                       !.head = IF k < m.head THEN k ELSE m.head,
                       !.size = k, !.reply = Status("closed")]

Wholes == {Whole(l, h) : l \in CallLines \cup BadLines, h \in HeaderLists}
          \cup {Whole(l, h) : l \in SearchLines, h \in {<<>>, <<Four>>}}
CutHeads  == {Cut(m, k) : m \in {Whole(l, <<Four>>) : l \in CallLines}, k \in {0, 5, 12}}
CutBodies == {Cut(m, m.size - 1) : m \in {Whole(l, h) : l \in CallLines, h \in {<<Two>>, <<Four>>}}}

Sent == Wholes \cup CutHeads \cup CutBodies
NoReply == [status |-> "none"]
=============================================================================
