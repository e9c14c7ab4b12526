------------------------------- MODULE Schema -------------------------------
(***************************************************************************)
(* index/schema.cpp: a schema is made from the mappings of a request, is   *)
(* written to schema.json, and is read from there when the index is opened *)
(* again.                                                                  *)
(***************************************************************************)
EXTENDS JsonValue

CONSTANTS
    AsFloat,            \* number -> the number it is as a float
    kInvalidFieldId     \* the largest FieldId, 65535 in the code

ASSUME FloatAssumption ==
    /\ {0, 1} \subseteq DOMAIN AsFloat
    /\ \A d \in DOMAIN AsFloat : AsFloat[d] \in DOMAIN AsFloat /\ AsFloat[AsFloat[d]] = AsFloat[d]

kIdName == <<"_id">>

ASSUME SchemaAssumption ==
    kIdName \in Range(KeyOrder) /\ kInvalidFieldId \in Nat \ {0}

\* FieldMapping and its defaults.
Mapping(name) ==
    [name |-> name, type |-> "text", analyzer |-> <<"standard">>, stored |-> FALSE,
     boost |-> AsFloat[1], position_decay |-> AsFloat[0], store_token_weights |-> FALSE]

EmptySchema == [ok |-> TRUE, fields |-> <<>>, store_doc_quality |-> FALSE]

AddField(s, m) ==
    IF m.name = <<>> \/ (\E i \in DOMAIN s.fields : s.fields[i].name = m.name)
       \/ Len(s.fields) >= kInvalidFieldId
    THEN Err ELSE [s EXCEPT !.fields = Append(@, m)]

\* What AddField lets come about: fields of known types with names of their
\* own, _id among them, whose numbers are floats.
IsFloat(d) == d \in DOMAIN AsFloat /\ AsFloat[d] = d

IsField(m) ==
    /\ m = [name |-> m.name, type |-> m.type, analyzer |-> m.analyzer, stored |-> m.stored,
            boost |-> m.boost, position_decay |-> m.position_decay,
            store_token_weights |-> m.store_token_weights]
    /\ m.name # <<>> /\ m.type \in {"text", "keyword"}
    /\ IsFloat(m.boost) /\ IsFloat(m.position_decay)

AreFields(fields) ==
    /\ fields \in Seq(Range(fields)) /\ Len(fields) <= kInvalidFieldId
    /\ \A i \in DOMAIN fields : IsField(fields[i])
    /\ \A i, j \in DOMAIN fields : fields[i].name = fields[j].name => i = j

IsSchema(s) ==
    /\ s = [ok |-> TRUE, fields |-> s.fields, store_doc_quality |-> s.store_doc_quality]
    /\ AreFields(s.fields)
    /\ \E i \in DOMAIN s.fields : s.fields[i].name = kIdName

-----------------------------------------------------------------------------
\* What FromJson and FromMappingsJson read of a field's object: a member of
\* another type is taken for a missing one, but an unknown type is refused.

FloatOf(v, key, default) == IF HasOf(v, key, "number") THEN AsFloat[v.o[<<key>>].d] ELSE default
FlagOf(v, key, default) == IF HasOf(v, key, "bool") THEN v.o[<<key>>].b ELSE default
TextOf(v, key, default) == IF HasOf(v, key, "string") THEN v.o[<<key>>].s ELSE default

KnownType(v) == TextOf(v, "type", <<"text">>) \in {<<"text">>, <<"keyword">>}

WithOptions(m, v, keywordAnalyzer) ==
    LET type == TextOf(v, "type", <<"text">>)[1]
    IN  [m EXCEPT
            !.type = type,
            !.analyzer = TextOf(v, "analyzer",
                IF keywordAnalyzer /\ type = "keyword" THEN <<"keyword">> ELSE @),
            !.stored = FlagOf(v, "stored", @),
            !.boost = FloatOf(v, "boost", @),
            !.position_decay = FloatOf(v, "position_decay", @),
            !.store_token_weights = FlagOf(v, "store_token_weights", @)]

\* Mutant: a field added to FieldMapping is not written.
FieldJsonOlder(m) == Object(Keyed([
    name           |-> String(m.name),
    type           |-> String(<<m.type>>),
    analyzer       |-> String(m.analyzer),
    stored         |-> Bool(m.stored),
    boost          |-> Number(m.boost),
    position_decay |-> Number(m.position_decay)]))

\* ToJson.
FieldJson(m) == Object(Keyed([
    name                |-> String(m.name),
    type                |-> String(<<m.type>>),
    analyzer            |-> String(m.analyzer),
    stored              |-> Bool(m.stored),
    boost               |-> Number(m.boost),
    position_decay      |-> Number(m.position_decay),
    store_token_weights |-> Bool(m.store_token_weights)]))

ToJson(s) == Object(Keyed([
    fields            |-> Array([i \in DOMAIN s.fields |-> FieldJson(s.fields[i])]),
    store_doc_quality |-> Bool(s.store_doc_quality)]))

\* FromJson, the order of the fields being that of the array.
FromJsonField(s, v) ==
    IF ~s.ok \/ ~HasOf(v, "name", "string") \/ ~KnownType(v) THEN Err
    ELSE AddField(s, WithOptions(Mapping(v.o[<<"name">>].s), v, FALSE))

FieldsFrom(a) ==
    LET upTo[n \in 0 .. Len(a)] == IF n = 0 THEN EmptySchema ELSE FromJsonField(upTo[n - 1], a[n])
    IN  upTo[Len(a)]

WithIdField(s, v) ==
    IF ~s.ok THEN Err
    ELSE IF \A i \in DOMAIN s.fields : s.fields[i].name # kIdName THEN Err
    ELSE [s EXCEPT !.store_doc_quality = FlagOf(v, "store_doc_quality", @)]

FromJson(v) ==
    IF ~HasOf(v, "fields", "array") THEN Err
    ELSE WithIdField(FieldsFrom(v.o[<<"fields">>].a), v)

\* FromMappingsJson: _id comes first unless the mappings name it, the others
\* in the order of their names.
IdField == [Mapping(kIdName) EXCEPT !.type = "keyword", !.stored = TRUE, !.analyzer = <<"keyword">>]

MappedField(s, name, v) ==
    IF ~s.ok \/ v.type # "object" \/ ~KnownType(v) THEN Err
    ELSE AddField(s, WithOptions(Mapping(name), v, TRUE))

FromMappingsJson(v) ==
    LET upTo[n \in 0 .. Len(KeyOrder)] ==
            IF n = 0 THEN IF Has(v, "_id") THEN EmptySchema ELSE AddField(EmptySchema, IdField)
            ELSE IF KeyOrder[n] \in DOMAIN v.o
            THEN MappedField(upTo[n - 1], KeyOrder[n], v.o[KeyOrder[n]])
            ELSE upTo[n - 1]
    IN  IF v.type # "object" THEN Err ELSE upTo[Len(KeyOrder)]
=============================================================================
