---------------------------- MODULE HttpRequest ----------------------------
(***************************************************************************)
(* How a worker of src/http turns the bytes of one connection into one     *)
(* call of a handler: HandleClient reads pieces of any size and parses the *)
(* whole buffer again after each, the router picks the handler, and the    *)
(* search handler decodes its parameters.  The handlers themselves are     *)
(* SearchServer; the threads around HandleClient are HttpServer.           *)
(*                                                                         *)
(* A message is a sequence of cells: a word ("GET", "wiki"), a separator   *)
(* or a digit.  What the code finds by scanning bytes it finds by scanning *)
(* cells, and every limit counts cells.                                    *)
(***************************************************************************)
EXTENDS Integers, Sequences, SequencesExt, FiniteSetsExt

CONSTANTS
  Messages,   \* what clients send: records of the bytes, the length of the head,
              \* that with the body, and the reply the client is owed
  ReadSize,   \* the size of the scratch buffer of one read
  max_request_line, max_headers_total, max_body, max_total_request_bytes,
  kMaxU64,    \* the largest uint64_t
  None        \* no reply yet

ASSUME LimitsAssumption ==
  /\ \A m \in Messages : m.bytes \in Seq(STRING)
  /\ ReadSize \in Nat \ {0}
  /\ {max_request_line, max_headers_total, max_body, max_total_request_bytes, kMaxU64} \subseteq Nat

VARIABLES
  message,  \* what the client sends
  rest,     \* the bytes that have not arrived yet
  buf,      \* the bytes that have
  reply     \* what the connection was answered before it was closed

vars == <<message, rest, buf, reply>>

-----------------------------------------------------------------------------
(* Scanning.                                                               *)

Blank == {"SP", "TAB"}
Digit == "0" :> 0 @@ "1" :> 1 @@ "2" :> 2 @@ "3" :> 3 @@ "4" :> 4
      @@ "5" :> 5 @@ "6" :> 6 @@ "7" :> 7 @@ "8" :> 8 @@ "9" :> 9
Hex == DOMAIN Digit \cup {"A", "B", "C", "D", "E", "F"}

\* What precedes the first c (everything, if there is none), what follows it.
First(s, c)  == Min({i \in DOMAIN s : s[i] = c} \cup {Len(s) + 1})
Before(s, c) == SubSeq(s, 1, First(s, c) - 1)
After(s, c)  == SubSeq(s, First(s, c) + 1, Len(s))

\* The pieces between the separators c.
Pieces(s, c) ==
  LET cut == SetToSortSeq({i \in DOMAIN s : s[i] = c} \cup {0, Len(s) + 1}, <)
  IN [k \in 1 .. Len(cut) - 1 |-> SubSeq(s, cut[k] + 1, cut[k + 1] - 1)]

Trim(s) ==
  LET kept == {i \in DOMAIN s : s[i] \notin Blank}
  IN IF kept = {} THEN <<>> ELSE SubSeq(s, Min(kept), Max(kept))

Lower == "Content-Length" :> "content-length" @@ "Transfer-Encoding" :> "transfer-encoding"
ToLower(s) == [i \in DOMAIN s |-> IF s[i] \in DOMAIN Lower THEN Lower[s[i]] ELSE s[i]]

\* A std::map filled by assignments from pairs: the last one of a name wins.
MapOf(pairs) == [n \in {p[1] : p \in ToSet(pairs)} |->
                   pairs[Max({k \in DOMAIN pairs : pairs[k][1] = n})][2]]

IsNumber(s) == s # <<>> /\ ToSet(s) \subseteq DOMAIN Digit
Decimal(s) == LET Shift(n, d) == 10 * n + Digit[d]
              IN IF IsNumber(s) THEN FoldLeft(Shift, 0, s) ELSE 0

-----------------------------------------------------------------------------
(* TryParseRequest.                                                        *)

\* Where the pairs CR LF of s are.
Crlf(s) == {i \in 1 .. Len(s) - 1 : s[i] = "CR" /\ s[i + 1] = "LF"}

Ends(s) == {i \in Crlf(s) : i + 2 \in Crlf(s)}

\* Mutant: the search starts from the end.
HeadersEndLast(s) == IF Ends(s) = {} THEN 0 ELSE Max(Ends(s))

\* Where the head ends: the first empty line, or 0.
HeadersEnd(s) == IF Ends(s) = {} THEN 0 ELSE Min(Ends(s))

\* The length of the head, or of what there is of it.
HeadLen(s) == IF HeadersEnd(s) = 0 THEN Len(s) ELSE HeadersEnd(s) + 3

\* The lines of a head that ends with the CR LF of the last one.  The first is
\* the request line, and no other is empty.
Lines(head) ==
  LET cut == SetToSortSeq({-1} \cup Crlf(head), <)
  IN [k \in 1 .. Len(cut) - 1 |-> SubSeq(head, cut[k] + 2, cut[k + 1] - 1)]

Method(line)  == Before(line, "SP")
Target(line)  == Before(After(line, "SP"), "SP")
Version(line) == After(After(line, "SP"), "SP")

Headers(lines) == MapOf([k \in 1 .. Len(lines) - 1 |->
                           <<ToLower(Before(lines[k + 1], ":")), Trim(After(lines[k + 1], ":"))>>])

\* std::from_chars: a number that does not fit leaves body_len at 0.
ContentLength == <<"content-length">>
BodyLen(headers) ==
  IF ContentLength \in DOMAIN headers
    THEN LET n == Decimal(headers[ContentLength]) IN IF n \in 0 .. kMaxU64 THEN n ELSE 0
    ELSE 0

BadLength(headers) ==
  /\ ContentLength \in DOMAIN headers
  /\ \/ ~IsNumber(headers[ContentLength])
     \/ Decimal(headers[ContentLength]) > kMaxU64

\* Mutant: the body limit is forgotten.
BodyTooLongNever(headers) == FALSE

BodyTooLong(headers) == BodyLen(headers) > max_body
HeadTooLong(s) == Len(s) > max_request_line + max_headers_total

\* What is wrong with a head, in the order the code looks.
HeadError(lines) ==
  LET line == lines[1]
      headers == Headers(lines)
  IN IF Len(line) > max_request_line THEN "414"
     ELSE IF ~Contains(After(line, "SP"), "SP") THEN "400"
     ELSE IF Version(line) \notin {<<"HTTP/1.1">>, <<"HTTP/1.0">>} THEN "505"
     ELSE IF \E k \in 2 .. Len(lines) : ~Contains(lines[k], ":") THEN "400"
     ELSE IF BadLength(headers) THEN "400"
     ELSE IF BodyTooLong(headers) THEN "413"
     ELSE IF <<"transfer-encoding">> \in DOMAIN headers THEN "411"
     ELSE "none"

NeedMore == [status |-> "needMore"]
MakeError(code) == [status |-> "error", code |-> code]

\* Every field of out is assigned on the way to kComplete, so nothing of an
\* earlier attempt is left in it.
Complete(lines, body) ==
  [status |-> "complete",
   request |-> [method |-> Method(lines[1]),
                path |-> Before(Target(lines[1]), "?"),
                query |-> After(Target(lines[1]), "?"),
                body |-> body]]

Body(s, end, n) == SubSeq(s, end + 4, end + 3 + n)

TryParseRequest(s) ==
  LET end == HeadersEnd(s)
      lines == Lines(SubSeq(s, 1, end + 1))
      n == BodyLen(Headers(lines))
  IN IF end = 0 THEN IF HeadTooLong(s) THEN MakeError("400") ELSE NeedMore
     ELSE IF HeadError(lines) # "none" THEN MakeError(HeadError(lines))
     ELSE IF Len(s) < end + 3 + n THEN NeedMore
     ELSE Complete(lines, Body(s, end, n))

-----------------------------------------------------------------------------
(* QueryParams and the parameters of a search.                             *)

Unescaped(h, l) ==
  CASE <<h, l>> = <<"2", "0">> -> " " [] <<h, l>> = <<"2", "5">> -> "%"
    [] <<h, l>> = <<"2", "6">> -> "&" [] <<h, l>> = <<"2", "B">> -> "+"
    [] <<h, l>> = <<"3", "D">> -> "=" [] OTHER -> "another byte"

\* A "%" without two hexadecimal digits behind it stands for itself.
UrlDecode(s) ==
  LET escapes == {i \in DOMAIN s : s[i] = "%" /\ i + 2 \in DOMAIN s
                                   /\ s[i + 1] \in Hex /\ s[i + 2] \in Hex}
      kept == SetToSortSeq(DOMAIN s \ {i + d : i \in escapes, d \in {1, 2}}, <)
  IN [k \in DOMAIN kept |->
        LET i == kept[k]
        IN IF s[i] = "+" THEN " "
           ELSE IF i \in escapes THEN Unescaped(s[i + 1], s[i + 2]) ELSE s[i]]

\* Pairs end at "&": nothing behind the last one is no pair, nothing before
\* one is the pair of the empty name.
QueryParams(query) ==
  LET all == Pieces(query, "&")
      pairs == IF all[Len(all)] = <<>> THEN SubSeq(all, 1, Len(all) - 1) ELSE all
  IN MapOf([k \in DOMAIN pairs |->
              <<UrlDecode(Before(pairs[k], "=")), UrlDecode(After(pairs[k], "="))>>])

\* std::stoul: blanks, a sign, then digits up to the first other character;
\* a negative number wraps around; -1 where it throws.
Stoul(s) ==
  LET blanks == {i \in DOMAIN s : \A j \in 1 .. i : s[j] \in {" ", "TAB"}}
      number == SubSeq(s, Cardinality(blanks) + 1, Len(s))
      signed == number # <<>> /\ number[1] \in {"-", "+"}
      rest_ == IF signed THEN SubSeq(number, 2, Len(number)) ELSE number
      others == {i \in DOMAIN rest_ : rest_[i] \notin DOMAIN Digit}
      digits == IF others = {} THEN rest_ ELSE SubSeq(rest_, 1, Min(others) - 1)
      n == Decimal(digits)
  IN IF digits = <<>> \/ n > kMaxU64 THEN -1
     ELSE IF number[1] = "-" /\ n > 0 THEN kMaxU64 + 1 - n ELSE n

Param(params, name, default) == IF name \in DOMAIN params THEN params[name] ELSE default
Capped(params, name, default, cap) ==
  IF name \in DOMAIN params
    THEN LET n == Stoul(params[name]) IN IF n > cap THEN cap ELSE n
    ELSE default

SearchArgs(params) ==
  [q |-> Param(params, <<"q">>, <<>>),
   default_field |-> Param(params, <<"default_field">>, <<"first text field">>),
   size |-> Capped(params, <<"size">>, 10, 1000),
   rerank |-> Param(params, <<"rerank">>, <<>>) \in {<<"true">>, <<"1">>},
   ranker |-> Param(params, <<"ranker">>, <<"bm25">>),
   top_n |-> Capped(params, <<"top_n">>, 1000, 100000)]

BadSearch(args) ==
  \/ args.size = -1 \/ args.top_n = -1
  \/ args.rerank /\ args.ranker \notin {<<"bm25">>, <<"linear">>, <<"catboost">>}

-----------------------------------------------------------------------------
(* The router.                                                             *)

Status(code) == [status |-> code]
Call(handler, index, args) ==
  [status |-> "handled", handler |-> handler, index |-> index, args |-> args]

Index == <<":", "index">>
Route(method, segments, handler) == [method |-> <<method>>, segments |-> segments, handler |-> handler]

\* BuildRoutes.
Routes == <<
    Route("GET",  <<<<"_health">>>>, "Health"),
    Route("PUT",  <<Index>>, "CreateIndex"),
    Route("POST", <<Index, <<"_doc">>>>, "PostDoc"),
    Route("POST", <<Index, <<"_refresh">>>>, "Refresh"),
    Route("GET",  <<Index, <<"_search">>>>, "Search"),
    Route("GET",  <<Index, <<"_ltr">>>>, "GetLtr"),
    Route("PUT",  <<Index, <<"_ltr">>, <<"linear">>>>, "PutLtrLinear") >>

\* The segments of a path: empty ones vanish.
NonEmpty(s) == s # <<>>
Split(path) == SelectSeq(Pieces(path, "/"), NonEmpty)

IsParam(segment) == segment[1] = ":"

\* Mutant: a longer path matches too.
MatchStart(r, segments) ==
  /\ Len(r.segments) <= Len(segments)
  /\ \A i \in DOMAIN r.segments : IsParam(r.segments[i]) \/ r.segments[i] = segments[i]

Match(r, segments) ==
  /\ Len(r.segments) = Len(segments)
  /\ \A i \in DOMAIN segments : IsParam(r.segments[i]) \/ r.segments[i] = segments[i]

\* The first route of this path and method; what it captures is the index.
Handle(r, segments, request) ==
  LET index == IF IsParam(r.segments[1]) THEN segments[1] ELSE <<>>
      args == SearchArgs(QueryParams(request.query))
  IN IF r.handler # "Search" THEN Call(r.handler, index, request.body)
     ELSE IF BadSearch(args) THEN Status("400")
     ELSE Call(r.handler, index, args)

Dispatch(request) ==
  LET segments == Split(request.path)
      paths == {i \in DOMAIN Routes : Match(Routes[i], segments)}
      routes == {i \in paths : Routes[i].method = request.method}
  IN IF routes # {} THEN Handle(Routes[Min(routes)], segments, request)
     ELSE Status(IF paths # {} THEN "405" ELSE "404")

-----------------------------------------------------------------------------
(* HandleClient.                                                           *)

Init ==
  /\ message \in Messages
  /\ rest = message.bytes /\ buf = <<>>
  /\ reply = None

\* The parser wants more, and the budget of the connection allows it.
Reading ==
  /\ reply = None
  /\ TryParseRequest(buf).status = "needMore"
  /\ Len(buf) <= max_total_request_bytes

\* Mutant: the scratch buffer is appended whole.
ReadWhole ==
  /\ Reading
  /\ \E n \in 1 .. Min({ReadSize, Len(rest)}) :
       /\ buf' = buf \o SubSeq(rest, 1, Min({ReadSize, Len(rest)}))
       /\ rest' = SubSeq(rest, n + 1, Len(rest))
  /\ UNCHANGED <<message, reply>>

\* A read returns some of what has been sent.
Read ==
  /\ Reading
  /\ \E n \in 1 .. Min({ReadSize, Len(rest)}) :
       /\ buf' = buf \o SubSeq(rest, 1, n)
       /\ rest' = SubSeq(rest, n + 1, Len(rest))
  /\ UNCHANGED <<message, reply>>

\* The client has closed its side: the connection is closed without a reply.
ReadEnds ==
  /\ Reading /\ rest = <<>>
  /\ reply' = Status("closed")
  /\ UNCHANGED <<message, rest, buf>>

Refuse ==
  /\ reply = None
  /\ TryParseRequest(buf).status = "error"
  /\ reply' = Status(TryParseRequest(buf).code)
  /\ UNCHANGED <<message, rest, buf>>

TooLarge ==
  /\ reply = None
  /\ TryParseRequest(buf).status = "needMore"
  /\ Len(buf) > max_total_request_bytes
  /\ reply' = Status("413")
  /\ UNCHANGED <<message, rest, buf>>

Respond ==
  /\ reply = None
  /\ TryParseRequest(buf).status = "complete"
  /\ reply' = Dispatch(TryParseRequest(buf).request)
  /\ UNCHANGED <<message, rest, buf>>

Next == Read \/ ReadEnds \/ Refuse \/ TooLarge \/ Respond

Spec == Init /\ [][Next]_vars

-----------------------------------------------------------------------------
(* Properties.                                                             *)

HeadLimit == max_request_line + max_headers_total

\* What has arrived and what has not make up the message.
TypeOK ==
  /\ message \in Messages
  /\ buf \in Seq(STRING) /\ rest \in Seq(STRING)
  /\ buf \o rest = message.bytes
  /\ reply = None \/ reply.status \in
       {"handled", "closed", "400", "404", "405", "411", "413", "414", "505"}

\* However the bytes of a message are cut into reads, the client gets the
\* reply it is owed: the handler it meant is called with what it meant, or
\* the first thing wrong is named.  Only a head over the limits, or a message
\* over the budget, may be refused for its size instead, because
\* TryParseRequest and HandleClient look at what the last read left.
ReplyIsMeant ==
  reply # None =>
    \/ reply = message.reply
    \/ message.head > HeadLimit /\ reply = Status("400")
    \/ message.size > max_total_request_bytes /\ reply = Status("413")

\* Reading in pieces is as good as reading at once: no prefix of a message is
\* taken for another message.  Sizes are the exception, as above.
AsIfReadAtOnce ==
  LET whole == TryParseRequest(message.bytes)
  IN reply # None =>
       \/ whole.status = "complete" /\ reply = Dispatch(whole.request)
       \/ whole.status = "error" /\ reply = Status(whole.code)
       \/ whole.status = "needMore" /\ reply = Status("closed")
       \/ HeadLen(message.bytes) > HeadLimit /\ reply = Status("400")
       \/ Len(message.bytes) > max_total_request_bytes /\ reply = Status("413")

\* A head that no read can bring within its limit never gets to a handler.
LongHeadRefused ==
  reply # None /\ HeadLen(message.bytes) > HeadLimit + ReadSize
    => reply \in {Status("400"), Status("413")}

\* The buffer of a worker stays small: the head within its limit and one read,
\* the body within its own and one read, all within the budget and one read.
BufferBounded ==
  /\ HeadLen(buf) <= HeadLimit + ReadSize
  /\ Len(buf) <= HeadLen(buf) + max_body + ReadSize
  /\ Len(buf) <= max_total_request_bytes + ReadSize

\* The limits do what they are for, although they are tested on what the last
\* read left.
LimitsHold == LongHeadRefused /\ BufferBounded
=============================================================================
