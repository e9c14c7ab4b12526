-------------------------------- MODULE Json --------------------------------
(***************************************************************************)
(* json/json_parser.cpp and json/json_serializer.cpp: a JSON text is a     *)
(* sequence of cells.  A punctuation mark, a digit, a quote, a backslash   *)
(* and a control character are cells of their own; a literal, the letter   *)
(* of an escape or a run of other letters is one cell, a word.             *)
(*                                                                         *)
(* What the standard library and the encoding of characters compute is     *)
(* given by the constants: the number a token denotes, how a number is     *)
(* printed, which character four hex digits stand for.  An int64 and a     *)
(* double are one kind of number: no caller tells them apart.              *)
(***************************************************************************)
EXTENDS JsonValue

CONSTANTS
    Strtod,         \* number token -> the number
    FormatG,        \* number -> its token, "%.17g"
    Hex,            \* control character without an escape letter -> four digits
    Utf8            \* four hex digits -> the cells they are decoded to

ASSUME NumberAssumption ==
    \A d \in DOMAIN FormatG : FormatG[d] \in DOMAIN Strtod /\ Strtod[FormatG[d]] = d

ASSUME HexAssumption ==
    \A c \in DOMAIN Hex : Hex[c] \in DOMAIN Utf8 /\ Utf8[Hex[c]] = <<c>>

Digits == {"0", "1", "2", "3", "4", "5", "6", "7", "8", "9"}
HexDigits == Digits \cup {"a", "b", "c", "d", "e", "f", "A", "B", "C", "D", "E", "F"}

\* The escape letter of a character; BS and FF are \b and \f.
Escapes == [c \in {"\"", "\\", "BS", "FF", "\n", "\r", "\t"} |->
    CASE c = "BS" -> "b" [] c = "FF" -> "f" [] c = "\n" -> "n"
      [] c = "\r" -> "r" [] c = "\t" -> "t" [] OTHER -> c]
Unescapes == [e \in Range(Escapes) \cup {"/"} |->
    IF e = "/" THEN "/" ELSE CHOOSE c \in DOMAIN Escapes : Escapes[c] = e]

Controls == (DOMAIN Escapes \ {"\"", "\\"}) \cup DOMAIN Hex     \* below 0x20

-----------------------------------------------------------------------------
\* The parser.  Every operator takes the text and the cell to start at and
\* gives the value and the cell behind it.

PastDigits(in, p) == Past(in, p, LAMBDA c : c \in Digits)

\* The end of a number token, or 0: the whole part, the fraction, the exponent.
PastExponent(in, exp, sign) ==
    IF ~(At(in, exp, "e") \/ At(in, exp, "E")) THEN exp
    ELSE IF PastDigits(in, sign) = sign THEN 0 ELSE PastDigits(in, sign)

PastFraction(in, point, exp) ==
    IF exp = point + 1 THEN 0
    ELSE PastExponent(in, exp, IF At(in, exp + 1, "+") \/ At(in, exp + 1, "-") THEN exp + 2
                               ELSE exp + 1)

PastWhole(in, int, point) ==
    IF point = int THEN 0
    ELSE PastFraction(in, point, IF At(in, point, ".") THEN PastDigits(in, point + 1) ELSE point)

NumberEnd(in, int) ==
    PastWhole(in, int, IF At(in, int, "0") THEN int + 1 ELSE PastDigits(in, int))

NumberTo(in, p, end) ==
    IF end = 0 THEN Err ELSE Read(Number(Strtod[SubSeq(in, p, end - 1)]), end)

ParseNumber(in, p) == NumberTo(in, p, NumberEnd(in, IF in[p] = "-" THEN p + 1 ELSE p))

RECURSIVE StringFrom(_, _, _), ParseValue(_, _), Elements(_, _, _), Members(_, _, _)

\* One escape sequence, from behind the backslash.
ParseEscape(in, p) ==
    LET hex == SubSeq(in, p + 1, p + 4)
    IN  IF Eof(in, p) THEN Err
        ELSE IF in[p] \in DOMAIN Unescapes THEN Read(<<Unescapes[in[p]]>>, p + 1)
        ELSE IF in[p] # "u" \/ p + 4 > Len(in) \/ ~(Range(hex) \subseteq HexDigits) THEN Err
        ELSE Read(Utf8[hex], p + 5)

StringFrom(in, p, out) ==
    IF Eof(in, p) \/ in[p] \in Controls THEN Err
    ELSE CASE in[p] = "\"" -> Read(String(out), p + 1)
           [] in[p] = "\\" -> Then(ParseEscape(in, p + 1),
                                    LAMBDA cells, q : StringFrom(in, q, out \o cells))
           [] OTHER -> StringFrom(in, p + 1, Append(out, in[p]))

ParseString(in, p) == IF At(in, p, "\"") THEN StringFrom(in, p + 1, <<>>) ELSE Err

\* Behind "[" or a comma.
MoreElements(in, at, arr) ==
    CASE At(in, at, ",") -> Elements(in, at + 1, arr)
      [] At(in, at, "]") -> Read(Array(arr), at + 1)
      [] OTHER -> Err

Elements(in, p, arr) ==
    Then(ParseValue(in, p),
         LAMBDA elem, q : MoreElements(in, SkipWs(in, q), Append(arr, elem)))

\* Behind "{" or a comma.  The last of two members of a key counts.
MoreMembers(in, at, obj) ==
    CASE At(in, at, ",") -> Members(in, at + 1, obj)
      [] At(in, at, "}") -> Read(Object(obj), at + 1)
      [] OTHER -> Err

MemberValue(in, colon, key, obj) ==
    IF ~At(in, colon, ":") THEN Err
    ELSE Then(ParseValue(in, colon + 1),
              LAMBDA val, q : MoreMembers(in, SkipWs(in, q), key.s :> val @@ obj))

Members(in, p, obj) ==
    Then(ParseString(in, SkipWs(in, p)),
         LAMBDA key, q : MemberValue(in, SkipWs(in, q), key, obj))

ValueAt(in, at, next) ==
    IF Eof(in, at) THEN Err
    ELSE CASE in[at] = "\"" -> ParseString(in, at)
           [] in[at] = "{" -> IF At(in, next, "}") THEN Read(Object(<<>>), next + 1)
                              ELSE Members(in, at + 1, <<>>)
           [] in[at] = "[" -> IF At(in, next, "]") THEN Read(Array(<<>>), next + 1)
                              ELSE Elements(in, at + 1, <<>>)
           [] in[at] \in {"true", "false"} -> Read(Bool(in[at] = "true"), at + 1)
           [] in[at] = "null" -> Read(Null, at + 1)
           [] in[at] \in Digits \cup {"-"} -> ParseNumber(in, at)
           [] OTHER -> Err

ParseValue(in, p) == ValueAt(in, SkipWs(in, p), SkipWs(in, SkipWs(in, p) + 1))

\* Parse: one value and nothing behind it.
Parse(in) ==
    Then(ParseValue(in, 1), LAMBDA val, q : IF Eof(in, SkipWs(in, q)) THEN Read(val, q) ELSE Err)

-----------------------------------------------------------------------------
\* The serializer: on one line, or (indent > 0) a line for each member.

WriteEscaped(s) ==
    <<"\"">> \o FlattenSeq([i \in DOMAIN s |->
                   IF s[i] \in DOMAIN Escapes THEN <<"\\", Escapes[s[i]]>>
                   ELSE IF s[i] \in DOMAIN Hex THEN <<"\\", "u">> \o Hex[s[i]]
                   ELSE <<s[i]>>])
            \o <<"\"">>

AppendIndent(depth, indent) ==
    IF indent = 0 THEN <<>> ELSE <<"\n">> \o [i \in 1 .. depth * indent |-> " "]

\* The keys of an object, in order.
KeysOf(o) == SelectSeq(KeyOrder, LAMBDA k : k \in DOMAIN o)

RECURSIVE Write(_, _, _)

Write(v, depth, indent) ==
    LET enclosed(open, items, close) ==
            IF items = <<>> THEN <<open, close>>
            ELSE <<open>> \o FlattenSeq([i \in DOMAIN items |->
                                 (IF i > 1 THEN <<",">> ELSE <<>>)
                                 \o AppendIndent(depth + 1, indent) \o items[i]])
                 \o AppendIndent(depth, indent) \o <<close>>
        colon == IF indent > 0 THEN <<":", " ">> ELSE <<":">>
        keys == KeysOf(v.o)
    IN  CASE v.type = "null"   -> <<"null">>
          [] v.type = "bool"   -> IF v.b THEN <<"true">> ELSE <<"false">>
          [] v.type = "number" -> IF v.d = Infinite THEN <<"null">> ELSE FormatG[v.d]
          [] v.type = "string" -> WriteEscaped(v.s)
          [] v.type = "array"  ->
                enclosed("[", [i \in DOMAIN v.a |-> Write(v.a[i], depth + 1, indent)], "]")
          [] v.type = "object" ->
                enclosed("{", [i \in DOMAIN keys |->
                    WriteEscaped(keys[i]) \o colon \o Write(v.o[keys[i]], depth + 1, indent)], "}")

Serialize(v) == Write(v, 0, 0)
SerializePretty(v, indent) == Write(v, 0, indent)
=============================================================================
