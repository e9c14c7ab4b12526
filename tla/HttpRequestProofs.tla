------------------------- MODULE HttpRequestProofs -------------------------
(***************************************************************************)
(* For any limits, any size of a read and any messages: a request is       *)
(* answered as if it had been read at once, and the buffer stays small.    *)
(***************************************************************************)
EXTENDS HttpRequest, SequenceTheorems, WellFoundedInduction, NaturalsInduction, TLAPS

\* What is assumed of the limits, for arithmetic.
LEMMA LimitTypes ==
    /\ ReadSize \in Nat /\ ReadSize > 0
    /\ max_request_line \in Nat /\ max_headers_total \in Nat /\ max_body \in Nat
    /\ max_total_request_bytes \in Nat /\ kMaxU64 \in Nat /\ HeadLimit \in Nat
BY LimitsAssumption DEF HeadLimit

\* A set of numbers that is not empty has a least one, and Min is it.
LEMMA MinIsLeast ==
    ASSUME NEW T \in SUBSET Nat, T # {}
    PROVE  Min(T) \in T /\ \A y \in T : Min(T) <= y
<1> DEFINE Less == {p \in Nat \X Nat : p[1] < p[2]}
<1>1. IsWellFoundedOn(Less, Nat)
  BY NatLessThanWellFounded DEF OpToRel
<1> HIDE DEF Less
<1>2. PICK x \in T : \A y \in T : <<y, x>> \notin Less
  BY <1>1, WFMin
<1>3. ASSUME NEW y \in T PROVE x <= y
  <2>1. x \in Nat /\ y \in Nat /\ <<y, x>> \notin Less
    BY <1>2
  <2>2. ~(y < x)
    BY <2>1, Zenon DEF Less
  <2>3. QED  BY <2>1, <2>2
<1>4. QED  BY <1>3 DEF Min

\* An empty line that ends within s is one of s, and of every continuation.
LEMMA EndsOfPrefix ==
    ASSUME NEW s \in Seq(STRING), NEW t \in Seq(STRING), NEW i
    PROVE  i \in Ends(s) <=> i \in Ends(s \o t) /\ i + 3 <= Len(s)
<1>1. /\ s \o t \in Seq(STRING) /\ Len(s \o t) = Len(s) + Len(t)
      /\ Len(s) \in Nat /\ Len(t) \in Nat
      /\ \A k \in 1 .. Len(s) : (s \o t)[k] = s[k]
  BY ConcatProperties
<1>2. QED  BY <1>1 DEF Ends, Crlf

\* Where the head ends is the first empty line, if there is one.
LEMMA HeadersEndIsFirst ==
    ASSUME NEW s \in Seq(STRING)
    PROVE  /\ HeadersEnd(s) \in Nat /\ HeadLen(s) \in Nat /\ HeadLen(s) <= Len(s)
           /\ HeadersEnd(s) = 0 <=> Ends(s) = {}
           /\ HeadersEnd(s) # 0 => /\ HeadersEnd(s) \in Ends(s)
                                   /\ \A i \in Ends(s) : HeadersEnd(s) <= i
<1>1. Len(s) \in Nat /\ Ends(s) \in SUBSET Nat /\ \A i \in Ends(s) : i > 0 /\ i + 3 <= Len(s)
  BY DEF Ends, Crlf
<1>2. CASE Ends(s) = {}
  BY <1>1, <1>2 DEF HeadersEnd, HeadLen
<1>3. CASE Ends(s) # {}
  <2>1. Min(Ends(s)) \in Ends(s) /\ \A i \in Ends(s) : Min(Ends(s)) <= i
    BY <1>1, <1>3, MinIsLeast
  <2>2. QED  BY <1>1, <1>3, <2>1 DEF HeadersEnd, HeadLen
<1>4. QED  BY <1>2, <1>3

\* The end of a head stays where it is; one that is found later is found
\* behind what was there.
LEMMA HeadersEndStays ==
    ASSUME NEW s \in Seq(STRING), NEW t \in Seq(STRING)
    PROVE  /\ HeadersEnd(s) # 0 => HeadersEnd(s \o t) = HeadersEnd(s)
           /\ HeadersEnd(s) = 0 /\ HeadersEnd(s \o t) # 0 => HeadersEnd(s \o t) + 3 > Len(s)
<1>1. s \o t \in Seq(STRING) /\ Len(s) \in Nat
  BY ConcatProperties
<1>2. \A i \in Ends(s \o t) : i \in Nat
  BY DEF Ends, Crlf
<1>3. \A i : i \in Ends(s) <=> i \in Ends(s \o t) /\ i + 3 <= Len(s)
  BY EndsOfPrefix
<1>4. CASE HeadersEnd(s) # 0
  <2> DEFINE e == HeadersEnd(s)
             f == HeadersEnd(s \o t)
  <2>1. e \in Ends(s) /\ e \in Ends(s \o t) /\ e \in Nat /\ e + 3 <= Len(s)
    BY <1>3, <1>4, HeadersEndIsFirst
  <2>2. f \in Ends(s \o t) /\ f \in Nat /\ f <= e
    BY <1>1, <2>1, HeadersEndIsFirst
  <2>3. f \in Ends(s)
    BY <1>1, <1>3, <2>1, <2>2
  <2>4. e <= f
    BY <2>3, HeadersEndIsFirst
  <2>5. QED  BY <1>4, <2>1, <2>2, <2>4
<1>5. CASE HeadersEnd(s) = 0
  <2>1. Ends(s) = {}
    BY <1>5, HeadersEndIsFirst
  <2>2. HeadersEnd(s \o t) # 0 => HeadersEnd(s \o t) \in Ends(s \o t)
    BY <1>1, HeadersEndIsFirst
  <2>3. HeadersEnd(s \o t) # 0 => ~(HeadersEnd(s \o t) + 3 <= Len(s))
    BY <1>3, <2>1, <2>2
  <2>4. QED  BY <1>1, <1>2, <1>5, <2>2, <2>3
<1>6. QED  BY <1>4, <1>5

-----------------------------------------------------------------------------
(* The parser.                                                             *)

\* A body is asked for in cells, at most as many as a uint64_t counts.
LEMMA BodyLenType ==
    ASSUME NEW headers
    PROVE  BodyLen(headers) \in Nat
BY LimitTypes DEF BodyLen

\* A head that is not complete has stayed within its limit; a body that is
\* waited for is within its own.
LEMMA NeedMoreIsSmall ==
    ASSUME NEW s \in Seq(STRING), TryParseRequest(s).status = "needMore"
    PROVE  /\ HeadersEnd(s) = 0 => Len(s) <= HeadLimit
           /\ HeadersEnd(s) # 0 => Len(s) < HeadLen(s) + max_body
<1> DEFINE lines == Lines(SubSeq(s, 1, HeadersEnd(s) + 1))
           n == BodyLen(Headers(lines))
<1>1. n \in Nat /\ Len(s) \in Nat /\ HeadersEnd(s) \in Nat
  BY BodyLenType, HeadersEndIsFirst
<1>2. CASE HeadersEnd(s) = 0
  <2>1. ~HeadTooLong(s)
    BY <1>2, Zenon DEF TryParseRequest, MakeError
  <2>2. QED  BY <1>1, <1>2, <2>1, LimitTypes DEF HeadTooLong, HeadLimit
<1>3. CASE HeadersEnd(s) # 0
  <2>1. HeadError(lines) = "none" /\ Len(s) < HeadersEnd(s) + 3 + n
    BY <1>3 DEF TryParseRequest, MakeError, Complete
  <2>2. ~BodyTooLong(Headers(lines))
    BY <2>1 DEF HeadError
  <2>3. n <= max_body
    BY <1>1, <2>2, LimitTypes DEF BodyTooLong
  <2>4. QED  BY <1>1, <1>3, <2>1, <2>3, LimitTypes DEF HeadLen
<1>4. QED  BY <1>2, <1>3

\* What comes after the end of the head changes nothing but a wait for the body.
LEMMA ParseIsFinal ==
    ASSUME NEW s \in Seq(STRING), NEW t \in Seq(STRING),
           HeadersEnd(s) # 0, TryParseRequest(s).status # "needMore"
    PROVE  TryParseRequest(s \o t) = TryParseRequest(s)
<1> DEFINE end == HeadersEnd(s)
           lines == Lines(SubSeq(s, 1, end + 1))
           n == BodyLen(Headers(lines))
<1>1. /\ s \o t \in Seq(STRING) /\ Len(s \o t) = Len(s) + Len(t)
      /\ Len(s) \in Nat /\ Len(t) \in Nat
      /\ \A k \in 1 .. Len(s) : (s \o t)[k] = s[k]
  BY ConcatProperties
<1>2. end \in Nat /\ end + 3 <= Len(s) /\ n \in Nat
  BY HeadersEndIsFirst, BodyLenType DEF HeadLen
<1>3. HeadersEnd(s \o t) = end
  BY HeadersEndStays
<1>4. SubSeq(s \o t, 1, end + 1) = SubSeq(s, 1, end + 1)
  BY <1>1, <1>2 
<1>5. ~(HeadError(lines) = "none" /\ Len(s) < end + 3 + n)
  BY DEF TryParseRequest, NeedMore
<1>6. CASE HeadError(lines) # "none"
  BY <1>3, <1>4, <1>6 DEF TryParseRequest
<1>7. CASE HeadError(lines) = "none" /\ ~(Len(s) < end + 3 + n)
  <2>1. ~(Len(s \o t) < end + 3 + n)
    BY <1>1, <1>2, <1>7
  <2>2. Body(s \o t, end, n) = Body(s, end, n)
    <3> HIDE DEF end, lines, n
    <3>1. SubSeq(s \o t, end + 4, end + 3 + n) = SubSeq(s, end + 4, end + 3 + n)
      BY <1>1, <1>2, <1>7
    <3>2. QED  BY <3>1 DEF Body
  <2>3. QED  BY <1>3, <1>4, <1>7, <2>1, <2>2 DEF TryParseRequest
<1>8. QED  BY <1>5, <1>6, <1>7

\* The parser wants more, is done, or names one of six errors.
LEMMA ParseStatus ==
    ASSUME NEW s
    PROVE  /\ TryParseRequest(s).status \in {"needMore", "error", "complete"}
           /\ TryParseRequest(s).status = "error" =>
                TryParseRequest(s).code \in {"400", "411", "413", "414", "505"}
<1>1. \A lines : HeadError(lines) \in {"400", "411", "413", "414", "505", "none"}
  BY DEF HeadError
<1>2. QED  BY <1>1 DEF TryParseRequest, MakeError, NeedMore, Complete

\* The router calls a handler or answers itself.
LEMMA DispatchStatus ==
    ASSUME NEW request
    PROVE  Dispatch(request).status \in {"handled", "400", "404", "405"}
<1>1. \A r, segments : Handle(r, segments, request).status \in {"handled", "400"}
  BY DEF Handle, Call, Status
<1>2. QED  BY <1>1 DEF Dispatch, Status

-----------------------------------------------------------------------------
(* The buffer.                                                             *)

\* A read moves some cells from what is to come to what has come.
LEMMA ReadMoves ==
    ASSUME TypeOK, Read
    PROVE  \E t \in Seq(STRING) : /\ buf' = buf \o t /\ Len(t) <= ReadSize
                                  /\ rest' \in Seq(STRING) /\ t \o rest' = rest
<1>1. rest \in Seq(STRING) /\ Len(rest) \in Nat /\ ReadSize \in Nat
  BY LimitTypes DEF TypeOK
<1>2. /\ Min({ReadSize, Len(rest)}) \in Nat
      /\ Min({ReadSize, Len(rest)}) <= ReadSize /\ Min({ReadSize, Len(rest)}) <= Len(rest)
  BY <1>1, MinIsLeast
<1>3. PICK n \in 1 .. Min({ReadSize, Len(rest)}) :
             buf' = buf \o SubSeq(rest, 1, n) /\ rest' = SubSeq(rest, n + 1, Len(rest))
  BY DEF Read
<1>4. n \in 1 .. Len(rest) /\ n <= ReadSize
  BY <1>1, <1>2
<1>5. /\ SubSeq(rest, 1, n) \in Seq(STRING) /\ Len(SubSeq(rest, 1, n)) = n
      /\ SubSeq(rest, n + 1, Len(rest)) \in Seq(STRING)
  BY <1>1, <1>4
<1>6. SubSeq(rest, 1, n) \o SubSeq(rest, n + 1, Len(rest)) = SubSeq(rest, 1, Len(rest))
  BY <1>1, <1>4, ConcatAdjacentSubSeq
<1>7. SubSeq(rest, 1, Len(rest)) = rest
  BY <1>1, SubSeqFull
<1>8. QED  BY <1>3, <1>4, <1>5, <1>6, <1>7

\* One read is all that a head, a body or the budget can be exceeded by.
LEMMA ReadKeepsBounds ==
    ASSUME TypeOK, BufferBounded, Read
    PROVE  BufferBounded'
<1>1. PICK t \in Seq(STRING) : buf' = buf \o t /\ Len(t) <= ReadSize
  BY ReadMoves
<1>2. /\ buf \in Seq(STRING) /\ buf' \in Seq(STRING) /\ Len(buf') = Len(buf) + Len(t)
      /\ Len(buf) \in Nat /\ Len(t) \in Nat
  BY <1>1, ConcatProperties DEF TypeOK
<1>3. TryParseRequest(buf).status = "needMore" /\ Len(buf) <= max_total_request_bytes
  BY DEF Read, Reading
<1>4. /\ HeadersEnd(buf) \in Nat /\ HeadersEnd(buf') \in Nat
      /\ HeadLen(buf) \in Nat /\ HeadLen(buf') \in Nat /\ HeadLen(buf') <= Len(buf')
  BY <1>2, HeadersEndIsFirst
<1>5. Len(buf') <= max_total_request_bytes + ReadSize
  BY <1>1, <1>2, <1>3, LimitTypes
<1>6. CASE HeadersEnd(buf) = 0
  <2>1. Len(buf) <= HeadLimit
    BY <1>2, <1>3, <1>6, NeedMoreIsSmall
  <2>2. HeadLen(buf') <= HeadLimit + ReadSize
    BY <1>1, <1>2, <1>4, <2>1, LimitTypes
  <2>3. HeadersEnd(buf') # 0 => HeadersEnd(buf') + 3 > Len(buf)
    BY <1>1, <1>2, <1>6, HeadersEndStays
  <2>4. Len(buf') <= HeadLen(buf') + ReadSize
    <3>1. CASE HeadersEnd(buf') = 0
      <4>1. HeadLen(buf') = Len(buf')
        BY <3>1 DEF HeadLen
      <4>2. QED  BY <1>2, <4>1, LimitTypes
    <3>2. CASE HeadersEnd(buf') # 0
      <4>1. HeadLen(buf') > Len(buf)
        BY <2>3, <3>2 DEF HeadLen
      <4>2. PICK a \in Nat, b \in Nat, h \in Nat :
                a = Len(buf) /\ b = Len(t) /\ h = HeadLen(buf') /\ Len(buf') = a + b
        BY <1>2, <1>4
      <4>3. h > a /\ b <= ReadSize
        BY <1>1, <4>1, <4>2
      <4>4. a + b <= h + ReadSize
        BY <4>3, LimitTypes
      <4>5. QED  BY <4>2, <4>4
    <3>3. QED  BY <3>1, <3>2
  <2>5. QED  BY <1>2, <1>4, <1>5, <2>2, <2>4, LimitTypes DEF BufferBounded
<1>7. CASE HeadersEnd(buf) # 0
  <2>1. Len(buf) < HeadLen(buf) + max_body
    BY <1>2, <1>3, <1>7, NeedMoreIsSmall
  <2>2. HeadersEnd(buf') = HeadersEnd(buf)
    BY <1>1, <1>2, <1>7, HeadersEndStays
  <2>3. HeadLen(buf') = HeadLen(buf)
    BY <1>7, <2>2 DEF HeadLen
  <2>4. Len(buf') <= HeadLen(buf') + max_body + ReadSize
    BY <1>1, <1>2, <1>4, <2>1, <2>3, LimitTypes
  <2>5. QED  BY <1>5, <2>3, <2>4 DEF BufferBounded
<1>8. QED  BY <1>6, <1>7

-----------------------------------------------------------------------------
(* The replies.                                                            *)

\* What is true of every state.
RequestInv == TypeOK /\ BufferBounded /\ AsIfReadAtOnce /\ LongHeadRefused

\* The buffer is a prefix of the message.
LEMMA BufferIsPrefix ==
    ASSUME TypeOK
    PROVE  /\ buf \in Seq(STRING) /\ rest \in Seq(STRING) /\ message.bytes \in Seq(STRING)
           /\ message.bytes = buf \o rest
           /\ Len(message.bytes) = Len(buf) + Len(rest)
           /\ Len(buf) \in Nat /\ Len(rest) \in Nat
BY LimitsAssumption, ConcatProperties DEF TypeOK

\* A head that has ended in the buffer ends there in the message; one that has
\* not is at least as long as what there is of it.
LEMMA HeadOfMessage ==
    ASSUME TypeOK
    PROVE  /\ HeadersEnd(buf) # 0 => HeadLen(message.bytes) = HeadLen(buf)
           /\ HeadersEnd(buf) = 0 => HeadLen(message.bytes) >= Len(buf)
<1>1. CASE HeadersEnd(buf) # 0
  BY <1>1, BufferIsPrefix, HeadersEndStays DEF HeadLen
<1>2. CASE HeadersEnd(buf) = 0
  <2>1. HeadersEnd(message.bytes) \in Nat
    BY BufferIsPrefix, HeadersEndIsFirst
  <2>2. HeadersEnd(message.bytes) # 0 => HeadersEnd(message.bytes) + 3 > Len(buf)
    BY <1>2, BufferIsPrefix, HeadersEndStays
  <2>3. QED  BY <1>2, <2>1, <2>2, BufferIsPrefix DEF HeadLen
<1>3. QED  BY <1>1, <1>2

\* Nothing the parser says before the message is complete is taken back,
\* except that a head is too long.
LEMMA VerdictStands ==
    ASSUME TypeOK, TryParseRequest(buf).status # "needMore"
    PROVE  \/ TryParseRequest(message.bytes) = TryParseRequest(buf)
           \/ /\ HeadLen(message.bytes) > HeadLimit
              /\ TryParseRequest(buf) = MakeError("400")
<1>1. CASE HeadersEnd(buf) # 0
  BY <1>1, BufferIsPrefix, ParseIsFinal
<1>2. CASE HeadersEnd(buf) = 0
  <2>1. HeadTooLong(buf) /\ TryParseRequest(buf) = MakeError("400")
    BY <1>2 DEF TryParseRequest, NeedMore
  <2>2. Len(buf) > HeadLimit
    BY <2>1 DEF HeadTooLong, HeadLimit
  <2>3. HeadLen(message.bytes) \in Nat /\ HeadLen(message.bytes) >= Len(buf)
    BY <1>2, BufferIsPrefix, HeadersEndIsFirst, HeadOfMessage
  <2>4. QED  BY <2>1, <2>2, <2>3, BufferIsPrefix, LimitTypes
<1>3. QED  BY <1>1, <1>2

\* Before a head that is far too long has ended, nothing but an error is found.
LEMMA LongHeadHasNoEnd ==
    ASSUME TypeOK, BufferBounded, HeadLen(message.bytes) > HeadLimit + ReadSize
    PROVE  /\ HeadersEnd(buf) = 0
           /\ TryParseRequest(buf) \in {NeedMore, MakeError("400")}
           /\ TryParseRequest(buf) = NeedMore => rest # <<>>
<1>1. HeadLen(buf) \in Nat /\ HeadLen(message.bytes) \in Nat
  BY BufferIsPrefix, HeadersEndIsFirst
<1>2. HeadersEnd(buf) = 0
  BY <1>1, HeadOfMessage, LimitTypes DEF BufferBounded
<1>3. TryParseRequest(buf) \in {NeedMore, MakeError("400")}
  BY <1>2 DEF TryParseRequest
<1>4. ASSUME TryParseRequest(buf) = NeedMore, rest = <<>> PROVE FALSE
  <2>1. Len(buf) <= HeadLimit
    BY <1>2, <1>4, BufferIsPrefix, NeedMoreIsSmall DEF NeedMore
  <2>2. message.bytes = buf
    BY <1>4, BufferIsPrefix, ConcatEmptySeq
  <2>3. HeadLen(message.bytes) = Len(buf)
    BY <1>2, <2>2 DEF HeadLen
  <2>4. QED  BY <2>1, <2>3, BufferIsPrefix, LimitTypes
<1>5. QED  BY <1>2, <1>3, <1>4

\* The worker has finished reading, one way or another.
LEMMA ReplyKeepsInv ==
    ASSUME RequestInv, reply = None, UNCHANGED <<message, rest, buf>>,
           \/ ReadEnds \/ Refuse \/ TooLarge \/ Respond
    PROVE  RequestInv'
<1> USE DEF RequestInv
<1>1. BufferBounded'
  BY DEF BufferBounded
<1>2. TypeOK'
  <2>1. reply'.status \in {"handled", "closed", "400", "404", "405", "411", "413", "414", "505"}
    BY ParseStatus, DispatchStatus DEF ReadEnds, Refuse, TooLarge, Respond, Status
  <2>2. QED  BY <2>1 DEF TypeOK
<1>3. AsIfReadAtOnce'
  <2>1. CASE ReadEnds
    <3>1. message.bytes = buf
      BY <2>1, BufferIsPrefix, ConcatEmptySeq DEF ReadEnds
    <3>2. QED  BY <2>1, <3>1 DEF ReadEnds, Reading, AsIfReadAtOnce
  <2>2. CASE Refuse
    <3>1. TryParseRequest(buf).status = "error" /\ reply' = Status(TryParseRequest(buf).code)
      BY <2>2 DEF Refuse
    <3>2. MakeError("400").code = "400"
      BY DEF MakeError
    <3>3. QED  BY <3>1, <3>2, VerdictStands DEF AsIfReadAtOnce
  <2>3. CASE TooLarge
    <3>1. Len(message.bytes) > max_total_request_bytes
      BY <2>3, BufferIsPrefix, LimitTypes DEF TooLarge
    <3>2. QED  BY <2>3, <3>1 DEF TooLarge, AsIfReadAtOnce
  <2>4. CASE Respond
    <3>1. /\ TryParseRequest(buf).status = "complete"
          /\ reply' = Dispatch(TryParseRequest(buf).request)
      BY <2>4 DEF Respond
    <3>2. MakeError("400").status # "complete"
      BY DEF MakeError
    <3>3. QED  BY <3>1, <3>2, VerdictStands DEF AsIfReadAtOnce
  <2>5. QED  BY <2>1, <2>2, <2>3, <2>4
<1>4. LongHeadRefused'
  <2> SUFFICES ASSUME HeadLen(message.bytes) > HeadLimit + ReadSize
               PROVE  reply' \in {Status("400"), Status("413")}
    BY DEF LongHeadRefused
  <2>1. /\ TryParseRequest(buf) \in {NeedMore, MakeError("400")}
        /\ TryParseRequest(buf) = NeedMore => rest # <<>>
    BY LongHeadHasNoEnd
  <2>2. QED  BY <2>1 DEF ReadEnds, Reading, Refuse, TooLarge, Respond, NeedMore, MakeError
<1>5. QED  BY <1>1, <1>2, <1>3, <1>4

\* RequestInv is inductive.
LEMMA RequestInvInductive ==
    /\ Init => RequestInv
    /\ RequestInv /\ [Next]_vars => RequestInv'
<1>1. ASSUME Init PROVE RequestInv
  <2>1. /\ message \in Messages /\ message.bytes \in Seq(STRING)
        /\ rest = message.bytes /\ buf = <<>> /\ reply = None
    BY <1>1, LimitsAssumption DEF Init
  <2>2. buf \in Seq(STRING) /\ Len(buf) = 0 /\ buf \o rest = message.bytes
    BY <2>1, ConcatEmptySeq
  <2>3. HeadersEnd(buf) = 0 /\ HeadLen(buf) = 0
    <3>1. HeadersEnd(buf) \in Nat /\ HeadLen(buf) \in Nat /\ HeadLen(buf) <= 0
      BY <2>2, HeadersEndIsFirst
    <3>2. HeadersEnd(buf) = 0
      BY <3>1 DEF HeadLen
    <3>3. QED  BY <2>2, <3>2 DEF HeadLen
  <2>4. TypeOK
    BY <2>1, <2>2 DEF TypeOK
  <2>5. BufferBounded
    BY <2>2, <2>3, LimitTypes DEF BufferBounded
  <2>6. QED  BY <2>1, <2>4, <2>5 DEF RequestInv, AsIfReadAtOnce, LongHeadRefused
<1>2. ASSUME RequestInv, [Next]_vars PROVE RequestInv'
  <2>1. CASE Read
    <3>1. BufferBounded'
      BY <1>2, <2>1, ReadKeepsBounds DEF RequestInv
    <3>2. PICK t \in Seq(STRING) : buf' = buf \o t /\ rest' \in Seq(STRING) /\ t \o rest' = rest
      BY <1>2, <2>1, ReadMoves DEF RequestInv
    <3>3. buf' \in Seq(STRING) /\ buf' \o rest' = buf \o rest
      <4>1. buf \in Seq(STRING)
        BY <1>2 DEF RequestInv, TypeOK
      <4>2. \A u \in Seq(STRING) : (buf \o t) \o u = buf \o (t \o u)
        BY <4>1, ConcatAssociative
      <4>3. (buf \o t) \o rest' = buf \o (t \o rest')
        BY <3>2, <4>2, Zenon
      <4>4. buf \o t \in Seq(STRING)
        BY <4>1, ConcatProperties
      <4>5. QED  BY <3>2, <4>3, <4>4, Zenon
    <3>4. message' = message /\ reply' = reply /\ reply = None
      BY <2>1 DEF Read, Reading
    <3>5. TypeOK'
      BY <1>2, <3>2, <3>3, <3>4 DEF RequestInv, TypeOK
    <3>6. QED  BY <3>1, <3>4, <3>5 DEF RequestInv, AsIfReadAtOnce, LongHeadRefused
  <2>2. CASE ReadEnds \/ Refuse \/ TooLarge \/ Respond
    <3>1. reply = None /\ UNCHANGED <<message, rest, buf>>
      BY <2>2 DEF ReadEnds, Reading, Refuse, TooLarge, Respond
    <3>2. QED  BY <1>2, <2>2, <3>1, ReplyKeepsInv
  <2>3. CASE UNCHANGED vars
    BY <1>2, <2>3 DEF vars, RequestInv, TypeOK, BufferBounded, AsIfReadAtOnce, LongHeadRefused
  <2>4. QED  BY <1>2, <2>1, <2>2, <2>3 DEF Next
<1>3. QED  BY <1>1, <1>2

\* The reader of a connection keeps its types, and what has arrived and what
\* has not make up the message.
THEOREM TypeCorrect == Spec => []TypeOK
<1>1. RequestInv => TypeOK
  BY DEF RequestInv
<1>2. QED  BY <1>1, RequestInvInductive, PTL DEF Spec

\* Reading in pieces gives the reply that reading at once does.
THEOREM PiecesDoNotMatter == Spec => []AsIfReadAtOnce
<1>1. RequestInv => AsIfReadAtOnce
  BY DEF RequestInv
<1>2. QED  BY <1>1, RequestInvInductive, PTL DEF Spec

\* The buffer of HandleClient is bounded by the limits and the size of a read,
\* and a head that is too long by more than a read never gets to a handler.
THEOREM LimitsAlwaysHold == Spec => []LimitsHold
<1>1. RequestInv => LimitsHold
  BY DEF RequestInv, LimitsHold
<1>2. QED  BY <1>1, RequestInvInductive, PTL DEF Spec
=============================================================================
