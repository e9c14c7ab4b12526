------------------------------ MODULE Recovery ------------------------------
(***************************************************************************)
(* What an index says again after a restart, read back from what it wrote: *)
(* schema.json (WriteSchemaJson, ReadSchemaJson of index/index_writer.cpp) *)
(* and the bytes of the translog (index/translog.cpp), whose records are   *)
(* the JSON texts of the documents (PostDoc of server/search_server.cpp,   *)
(* DocToJson, DocFromJson).  A crash leaves any beginning of what was      *)
(* being written.                                                          *)
(*                                                                         *)
(* Segments, the manifest and failing I/O are in IndexWriter: here Refresh *)
(* only empties the mutable segment and the log.  Between a value and its  *)
(* text are the parser and the serializer: Json, given by constants.       *)
(***************************************************************************)
EXTENDS Schema

CONSTANTS
    ReadText(_),        \* Parse
    WriteText(_),       \* Serialize
    WritePretty(_),     \* SerializePretty
    IndexBodies,        \* bodies of PUT /:index
    Schemas,            \* initial_schema of callers of the library
    DocBodies,          \* bodies of POST /:index/_doc
    LibraryDocs,        \* documents that callers of the library add
    Code,               \* cell -> its byte
    FormatF,            \* number -> std::to_string
    Cuts,               \* bound: the places, from either end of a record, where
                        \* a crash may cut it
    MaxAppends          \* bound on the records of one log

Octet == 0 .. 255

ASSUME CodeAssumption ==
    /\ Code \in [DOMAIN Code -> Octet] /\ IsInjective(Code)
    /\ Cuts \subseteq Nat /\ MaxAppends \in Nat

NoFile == [exists |-> FALSE]
NoSchema == [open |-> FALSE]
NoQuality == -1
NoDoc == [found |-> FALSE]

VARIABLES
    schema_file,        \* schema.json: its text, or NoFile
    log,                \* translog.bin: its bytes
    schema,             \* schema_ of the writer, or NoSchema when there is none
    docs,               \* the documents of mutable_segment_
    appends,            \* the records begun since the log was emptied
    made,               \* history: the schema the index was created with
    sent,               \* history: the documents of the records that are whole,
                        \* up to the first torn one
    torn,               \* history: the log has a torn record
    restored            \* history: how many of docs come from the log

vars == <<schema_file, log, schema, docs, appends, made, sent, torn, restored>>

-----------------------------------------------------------------------------
\* Documents and their JSON.

Document(id, fields, weights, quality) ==
    [id |-> id, fields |-> fields, weights |-> weights, quality |-> quality]

\* PostDoc: of an array of weights the numbers are kept; numbers and truth
\* values become text; other arrays, objects and nulls are not indexed.
IsWeights(k, v) == Len(k) > 1 /\ k[Len(k)] = "_weights" /\ v.type = "array"
IsQuality(k, v) == k = <<"_quality">> /\ v.type = "number"

FieldText(v) ==
    CASE v.type = "string" -> v.s
      [] v.type = "number" -> FormatF[v.d]
      [] v.type = "bool"   -> IF v.b THEN <<"true">> ELSE <<"false">>

WeightsOf(a) ==
    LET numbers == SelectSeq(a, LAMBDA v : v.type = "number")
    IN  [i \in DOMAIN numbers |-> AsFloat[numbers[i].d]]

PostedDoc(v) ==
    LET keys    == DOMAIN v.o \ {kIdName}
        weights == {k \in keys : IsWeights(k, v.o[k])}
        texts   == {k \in keys : /\ ~IsWeights(k, v.o[k]) /\ ~IsQuality(k, v.o[k])
                                 /\ v.o[k].type \in {"string", "number", "bool"}}
    IN  Document(TextOf(v, "_id", <<>>),
                 [k \in texts |-> FieldText(v.o[k])],
                 [f \in {Front(k) : k \in weights} |-> WeightsOf(v.o[Append(f, "_weights")].a)],
                 IF HasOf(v, "_quality", "number") THEN AsFloat[v.o[<<"_quality">>].d] ELSE NoQuality)

\* DocToJson, for callers that pass no text of their own.
DocValue(d) == Object([k \in DOMAIN d.fields \cup {kIdName} |->
                          String(IF k \in DOMAIN d.fields THEN d.fields[k] ELSE d.id)])

DocToJson(d) == WriteText(DocValue(d))

\* DocFromJson: a document of the members that are strings, or none: a
\* record without an id is skipped, and one that is no object.
StringsOf(v) == {k \in DOMAIN v.o : v.o[k].type = "string"}

DocFromValue(v) ==
    IF v.type # "object" \/ TextOf(v, "_id", <<>>) = <<>> THEN NoDoc
    ELSE Document(TextOf(v, "_id", <<>>),
                  [k \in StringsOf(v) \ {kIdName} |-> v.o[k].s], <<>>, NoQuality)

DocFromJson(text) ==
    LET v == ReadText(text)
    IN  IF v.ok THEN DocFromValue(v.val) ELSE NoDoc

-----------------------------------------------------------------------------
\* The bytes of the translog.

PackU32LE(n) == << n % 256, (n \div 256) % 256, (n \div 65536) % 256, (n \div 16777216) % 256 >>
UnpackU32LE(b) == b[1] + 256 * b[2] + 65536 * b[3] + 16777216 * b[4]

\* A text whose length four bytes can hold.
Fits(text) == text \in Seq(DOMAIN Code) /\ Len(text) \div 16777216 < 256

RecordOf(text) == PackU32LE(Len(text)) \o [i \in DOMAIN text |-> Code[text[i]]]

\* A byte that is no cell's is a control character, which no JSON text has, or
\* a letter.
CellOf == [b \in Octet |->
    LET cells == {c \in DOMAIN Code : Code[c] = b}
    IN  IF cells # {} THEN CHOOSE c \in cells : TRUE ELSE IF b < 32 THEN "US" ELSE "?"]

\* Mutant: a payload that ends where the file ends is taken for a torn one.
IsWholeBefore(b) == Len(b) >= 4 /\ Len(b) - 4 > UnpackU32LE(b)

\* Neither the header nor the payload of the first record is cut short.
IsWhole(b) == Len(b) >= 4 /\ Len(b) - 4 >= UnpackU32LE(b)

PayloadOf(b) == [i \in 1 .. UnpackU32LE(b) |-> CellOf[b[4 + i]]]
Behind(b) == SubSeq(b, 5 + UnpackU32LE(b), Len(b))

\* ReplayTranslog adds the document of a record, if it has one.
DocsOf(text) == LET doc == DocFromJson(text) IN IF doc = NoDoc THEN <<>> ELSE <<doc>>

\* The documents of the records, up to the first torn one.
Replay[b \in Seq(Octet)] ==
    IF IsWhole(b) THEN DocsOf(PayloadOf(b)) \o Replay[Behind(b)] ELSE <<>>

Recovered == Replay[log]

-----------------------------------------------------------------------------
Init ==
    /\ schema_file = NoFile /\ log = <<>>
    /\ schema = NoSchema /\ docs = <<>> /\ appends = 0
    /\ made = NoSchema /\ sent = <<>> /\ torn = FALSE /\ restored = 0

SchemaText(s) == WritePretty(ToJson(s))

\* The schemas a new index is opened with: CreateIndex, or a caller's own.
Mapped(body) ==
    LET v == ReadText(body)
    IN  IF ~v.ok \/ ~HasOf(v.val, "mappings", "object") THEN Err
        ELSE FromMappingsJson(v.val.o[<<"mappings">>])

InitialSchemas == {s \in {Mapped(body) : body \in IndexBodies} \cup Schemas : s.ok}

\* The text of a schema says the schema, but for numbers that are infinite, and
\* no beginning of it is a JSON text.  Numbers that are read have a float.
Finite(v) == IF v.type = "number" /\ v.d = Infinite THEN Null ELSE v
Printed(v) ==
    IF v.type = "array"
    THEN Array([i \in DOMAIN v.a |-> Object([k \in DOMAIN v.a[i].o |-> Finite(v.a[i].o[k])])])
    ELSE Finite(v)

Floats(v) ==
    v.type = "object" =>
        \A k \in DOMAIN v.o : v.o[k].type = "number" => v.o[k].d \in DOMAIN AsFloat

ASSUME SchemaTextAssumption ==
    /\ \A s \in Schemas : IsSchema(s)
    /\ \A s \in InitialSchemas : \E text \in {SchemaText(s)} :
        /\ text \in Seq(Range(text))
        /\ ReadText(text).ok
        /\ ReadText(text).val = Object([k \in DOMAIN ToJson(s).o |-> Printed(ToJson(s).o[k])])
        /\ \A n \in 0 .. Len(text) - 1 : ~ReadText(SubSeq(text, 1, n)).ok
    /\ \A body \in IndexBodies : \E v \in {ReadText(body)} :
        v.ok /\ HasOf(v.val, "mappings", "object") =>
            \A k \in DOMAIN v.val.o[<<"mappings">>].o : Floats(v.val.o[<<"mappings">>].o[k])

\* A body fits in a record; so does the text of a document that a caller of the
\* library adds, which says the document.
ASSUME DocTextAssumption ==
    /\ \A body \in DocBodies : Fits(body)
    /\ \A d \in LibraryDocs :
        /\ kIdName \notin DOMAIN d.fields
        /\ Fits(DocToJson(d))
        /\ ReadText(DocToJson(d)).ok /\ ReadText(DocToJson(d)).val = DocValue(d)

\* Open of a new directory writes the schema; a crash may cut it short.
Create(s, n) ==
    LET text == SchemaText(s)
    IN  /\ schema_file' = [exists |-> TRUE, text |-> SubSeq(text, 1, n)]
        /\ schema' = IF n = Len(text) THEN s ELSE NoSchema
        /\ made' = s
        /\ UNCHANGED <<log, docs, appends, sent, torn, restored>>

\* ReadSchemaJson.
SchemaRead ==
    LET v == ReadText(schema_file.text) IN IF v.ok THEN FromJson(v.val) ELSE Err

\* Open of a directory that has a schema, which must be readable.
Open ==
    /\ schema = NoSchema /\ schema_file # NoFile
    /\ SchemaRead.ok
    /\ schema' = SchemaRead
    /\ docs' = Recovered
    /\ restored' = Len(docs')
    /\ UNCHANGED <<schema_file, log, appends, made, sent, torn>>

\* The record of a document, written up to n bytes of it.
Logged(doc, strings, text, n) ==
    LET whole == n = Len(RecordOf(text))
    IN  /\ log' = log \o SubSeq(RecordOf(text), 1, n)
        /\ appends' = appends + 1
        /\ sent' = IF whole /\ ~torn /\ doc.id # <<>>
                   THEN Append(sent, [doc |-> doc, strings |-> strings]) ELSE sent
        /\ torn' = (torn \/ (~whole /\ n > 0))
        /\ UNCHANGED <<schema_file, made>>

Appending == schema # NoSchema /\ appends < MaxAppends

\* AddDocument: the log first, then the segment, which refuses an empty id.
Add(doc, strings, text) ==
    /\ Logged(doc, strings, text, Len(RecordOf(text)))
    /\ docs' = IF doc.id = <<>> THEN docs ELSE Append(docs, doc)
    /\ UNCHANGED <<schema, restored>>

\* A crash while the log is written.
CrashInAdd(doc, strings, text) ==
    /\ \E n \in (Cuts \cup {Len(RecordOf(text)) - k : k \in Cuts}) \cap 0 .. Len(RecordOf(text)) :
            Logged(doc, strings, text, n)
    /\ schema' = NoSchema /\ docs' = <<>> /\ restored' = 0

\* PostDoc accepts a body that is an object.
Post ==
    /\ Appending
    /\ \E body \in DocBodies : \E v \in {ReadText(body)} :
        /\ v.ok /\ v.val.type = "object"
        /\ \/ Add(PostedDoc(v.val), StringsOf(v.val), body)
           \/ CrashInAdd(PostedDoc(v.val), StringsOf(v.val), body)

AddFromLibrary ==
    /\ Appending
    /\ \E doc \in LibraryDocs :
        \/ Add(doc, DOMAIN doc.fields, DocToJson(doc))
        \/ CrashInAdd(doc, DOMAIN doc.fields, DocToJson(doc))

\* Mutant: the sealed documents stay in the mutable segment.
RefreshKeepsDocs ==
    /\ schema # NoSchema /\ docs # <<>>
    /\ log' = <<>> /\ appends' = 0
    /\ sent' = <<>> /\ torn' = FALSE /\ restored' = 0
    /\ UNCHANGED <<schema_file, schema, docs, made>>

\* Refresh seals the documents, if any, and empties the log.
Refresh ==
    /\ schema # NoSchema /\ docs # <<>>
    /\ log' = <<>> /\ docs' = <<>> /\ appends' = 0
    /\ sent' = <<>> /\ torn' = FALSE /\ restored' = 0
    /\ UNCHANGED <<schema_file, schema, made>>

\* The process ends, with Close or without.
Crash ==
    /\ schema # NoSchema
    /\ schema' = NoSchema /\ docs' = <<>> /\ restored' = 0
    /\ UNCHANGED <<schema_file, log, appends, made, sent, torn>>

Next ==
    \/ /\ schema_file = NoFile
       /\ \E s \in InitialSchemas : \E n \in 0 .. Len(SchemaText(s)) : Create(s, n)
    \/ Open \/ Post \/ AddFromLibrary \/ Refresh \/ Crash

Spec == Init /\ [][Next]_vars

-----------------------------------------------------------------------------
\* Properties.

TypeOK ==
    /\ \A i \in DOMAIN log : log[i] \in 0 .. 255
    /\ appends \in 0 .. MaxAppends /\ Len(sent) <= appends
    /\ Len(docs) <= appends \/ torn     \* behind a torn record, text may be read as records
    /\ torn \in BOOLEAN
    /\ restored \in 0 .. Len(docs)

\* A schema that is read back is the one that was made, field by field in
\* the same order ("JSON round-trip.", schema.h:70).  A schema.json that was
\* written whole is always taken, so that the index opens again; one that a
\* crash cut short is refused, never taken for a smaller schema.  A number too
\* large for a float is the exception: it is written as null and comes back as
\* the default.
AsWritten(m) ==
    [m EXCEPT !.boost = IF @ = Infinite THEN AsFloat[1] ELSE @,
              !.position_decay = IF @ = Infinite THEN AsFloat[0] ELSE @]

SchemaReadBack ==
    /\ schema # NoSchema =>
        \/ schema = made
        \/ schema = [made EXCEPT !.fields = [i \in DOMAIN @ |-> AsWritten(@[i])]]
    /\ schema_file # NoFile =>
        (SchemaRead.ok <=> schema_file.text = SchemaText(made))

\* After a restart the mutable segment has, in order, every document whose
\* record was written whole before the first torn one, with its id and the
\* fields that were strings; a torn record adds none (translog.h:18).  Numbers,
\* truth values, weights and the quality are lost (index_writer.cpp:70).
AsReplayed(e) ==
    Document(e.doc.id, [k \in DOMAIN e.doc.fields \cap e.strings |-> e.doc.fields[k]],
             <<>>, NoQuality)

RecoveredAsPosted ==
    schema # NoSchema =>
        /\ Len(sent) <= Len(docs)
        /\ ~torn \/ appends = Len(sent) + 1 => Len(docs) = Len(sent)
        /\ \A i \in DOMAIN sent :
               docs[i] = IF i <= restored THEN AsReplayed(sent[i]) ELSE sent[i].doc
=============================================================================
