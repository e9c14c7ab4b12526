--------------------------- MODULE RecoveryProofs ---------------------------
(***************************************************************************)
(* What a restart reads back: the schema from schema.json, whatever its    *)
(* fields, and the documents of the log, however many there are, whatever  *)
(* the texts and wherever crashes cut the records.                         *)
(*                                                                         *)
(* Induction and the existence of recursive functions are those of         *)
(* PostingsProofs.                                                         *)
(***************************************************************************)
EXTENDS Recovery, PostingsProofs

-----------------------------------------------------------------------------
(* A field, written and read.                                              *)

LEMMA KeyedIs ==
    ASSUME NEW r
    PROVE  /\ DOMAIN Keyed(r) = {<<word>> : word \in DOMAIN r}
           /\ \A word \in DOMAIN r : Keyed(r)[<<word>>] = r[word]
BY DEF Keyed

\* What the text of a field says of it.
FieldValue(m) == Object([k \in DOMAIN FieldJson(m).o |-> Finite(FieldJson(m).o[k])])

LEMMA FieldMembers ==
    ASSUME NEW m
    PROVE  /\ FieldValue(m).type = "object"
           /\ HasOf(FieldValue(m), "name", "string") /\ FieldValue(m).o[<<"name">>].s = m.name
           /\ HasOf(FieldValue(m), "type", "string") /\ FieldValue(m).o[<<"type">>].s = <<m.type>>
           /\ HasOf(FieldValue(m), "analyzer", "string")
           /\ FieldValue(m).o[<<"analyzer">>].s = m.analyzer
           /\ HasOf(FieldValue(m), "stored", "bool") /\ FieldValue(m).o[<<"stored">>].b = m.stored
           /\ HasOf(FieldValue(m), "store_token_weights", "bool")
           /\ FieldValue(m).o[<<"store_token_weights">>].b = m.store_token_weights
           /\ IF m.boost = Infinite THEN ~HasOf(FieldValue(m), "boost", "number")
              ELSE /\ HasOf(FieldValue(m), "boost", "number")
                   /\ FieldValue(m).o[<<"boost">>].d = m.boost
           /\ IF m.position_decay = Infinite THEN ~HasOf(FieldValue(m), "position_decay", "number")
              ELSE /\ HasOf(FieldValue(m), "position_decay", "number")
                   /\ FieldValue(m).o[<<"position_decay">>].d = m.position_decay
<1> DEFINE r == [name |-> String(m.name), type |-> String(<<m.type>>),
                 analyzer |-> String(m.analyzer), stored |-> Bool(m.stored),
                 boost |-> Number(m.boost), position_decay |-> Number(m.position_decay),
                 store_token_weights |-> Bool(m.store_token_weights)]
           F == FieldJson(m).o
           V == FieldValue(m)
<1>1. F = Keyed(r)
  BY DEF FieldJson, Object
<1>2. DOMAIN r = {"name", "type", "analyzer", "stored", "boost", "position_decay",
                  "store_token_weights"}
  OBVIOUS
<1>3. \A word \in DOMAIN r : <<word>> \in DOMAIN F /\ F[<<word>>] = r[word]
  <2> HIDE DEF r, F
  <2>1. QED  BY <1>1, KeyedIs
<1>4. V = [type |-> "object", o |-> [k \in DOMAIN F |-> Finite(F[k])]]
  BY DEF FieldValue, Object
<1> HIDE DEF F, V
<1>5. \A word \in DOMAIN r : Has(V, word) /\ V.o[<<word>>] = Finite(r[word])
  <2> HIDE DEF r
  <2>1. QED  BY <1>3, <1>4 DEF Has
<1>6. /\ Finite(r["name"]) = r.name /\ Finite(r["type"]) = r.type
      /\ Finite(r["analyzer"]) = r.analyzer /\ Finite(r["stored"]) = r.stored
      /\ Finite(r["store_token_weights"]) = r.store_token_weights
      /\ Finite(r["boost"]) = IF m.boost = Infinite THEN Null ELSE r.boost
      /\ Finite(r["position_decay"]) = IF m.position_decay = Infinite THEN Null ELSE r.position_decay
  BY DEF Finite, String, Bool, Number
<1>7. /\ \A word \in {"name", "type", "analyzer"} :
             HasOf(V, word, "string") /\ V.o[<<word>>] = r[word]
      /\ \A word \in {"stored", "store_token_weights"} :
             HasOf(V, word, "bool") /\ V.o[<<word>>] = r[word]
  <2>1. /\ r["name"].type = "string" /\ r["type"].type = "string" /\ r["analyzer"].type = "string"
        /\ r["stored"].type = "bool" /\ r["store_token_weights"].type = "bool"
    BY DEF String, Bool
  <2>2. /\ Finite(r["name"]) = r["name"] /\ Finite(r["type"]) = r["type"]
        /\ Finite(r["analyzer"]) = r["analyzer"] /\ Finite(r["stored"]) = r["stored"]
        /\ Finite(r["store_token_weights"]) = r["store_token_weights"]
    BY <1>6
  <2> HIDE DEF r
  <2>3. \A word \in {"name", "type", "analyzer", "stored", "store_token_weights"} :
            Has(V, word) /\ V.o[<<word>>] = r[word]
    BY <1>2, <1>5, <2>2
  <2>4. QED  BY <2>1, <2>3 DEF HasOf
<1>8. /\ IF m.boost = Infinite THEN ~HasOf(V, "boost", "number")
         ELSE HasOf(V, "boost", "number") /\ V.o[<<"boost">>].d = m.boost
      /\ IF m.position_decay = Infinite THEN ~HasOf(V, "position_decay", "number")
         ELSE HasOf(V, "position_decay", "number") /\ V.o[<<"position_decay">>].d = m.position_decay
  <2>1. /\ Has(V, "boost") /\ V.o[<<"boost">>] = Finite(r["boost"])
        /\ Has(V, "position_decay") /\ V.o[<<"position_decay">>] = Finite(r["position_decay"])
    BY <1>2, <1>5
  <2>2. /\ r.boost = [type |-> "number", d |-> m.boost]
        /\ r.position_decay = [type |-> "number", d |-> m.position_decay]
        /\ Null.type = "null"
    BY DEF Number, Null
  <2> HIDE DEF r
  <2>3. QED  BY <1>6, <2>1, <2>2 DEF HasOf
<1>9. QED
  <2>1. /\ r["name"].s = m.name /\ r["type"].s = <<m.type>> /\ r["analyzer"].s = m.analyzer
        /\ r["stored"].b = m.stored /\ r["store_token_weights"].b = m.store_token_weights
    BY DEF String, Bool
  <2>2. V.type = "object"
    BY <1>4
  <2> HIDE DEF r
  <2>3. QED  BY <1>7, <1>8, <2>1, <2>2 DEF V

\* A field by its members.
FieldOf(name, type, analyzer, isStored, boost, decay, weights) ==
    [name |-> name, type |-> type, analyzer |-> analyzer, stored |-> isStored, boost |-> boost,
     position_decay |-> decay, store_token_weights |-> weights]

LEMMA FieldIs ==
    ASSUME NEW q, q = [x \in DOMAIN q |-> q[x]],
           DOMAIN q = {"name", "type", "analyzer", "stored", "boost", "position_decay",
                       "store_token_weights"}
    PROVE  q = FieldOf(q.name, q.type, q.analyzer, q.stored, q.boost, q.position_decay,
                       q.store_token_weights)
BY DEF FieldOf

\* A new field with the options that v names.
Given(n, v, analyzer) ==
    FieldOf(n, TextOf(v, "type", <<"text">>)[1], TextOf(v, "analyzer", analyzer),
            FlagOf(v, "stored", FALSE), FloatOf(v, "boost", AsFloat[1]),
            FloatOf(v, "position_decay", AsFloat[0]), FlagOf(v, "store_token_weights", FALSE))

LEMMA OptionsAre ==
    ASSUME NEW n, NEW v
    PROVE  /\ WithOptions(Mapping(n), v, FALSE) = Given(n, v, <<"standard">>)
           /\ WithOptions(Mapping(n), v, TRUE)
                = Given(n, v, IF TextOf(v, "type", <<"text">>)[1] = "keyword"
                              THEN <<"keyword">> ELSE <<"standard">>)
<1> DEFINE M == Mapping(n)
           type == TextOf(v, "type", <<"text">>)[1]
           analyzer == IF type = "keyword" THEN <<"keyword">> ELSE <<"standard">>
           q == WithOptions(M, v, FALSE)
           r == WithOptions(M, v, TRUE)
           Rest(x) == /\ x.stored = FlagOf(v, "stored", FALSE)
                      /\ x.boost = FloatOf(v, "boost", AsFloat[1])
                      /\ x.position_decay = FloatOf(v, "position_decay", AsFloat[0])
                      /\ x.store_token_weights = FlagOf(v, "store_token_weights", FALSE)
<1>1. /\ DOMAIN M = {"name", "type", "analyzer", "stored", "boost", "position_decay",
                     "store_token_weights"}
      /\ M.name = n /\ M.stored = FALSE /\ M.boost = AsFloat[1] /\ M.position_decay = AsFloat[0]
      /\ M.store_token_weights = FALSE /\ M.analyzer = <<"standard">>
  BY DEF Mapping
<1> HIDE DEF M
<1>2. /\ DOMAIN q = DOMAIN M /\ q = [x \in DOMAIN q |-> q[x]]
      /\ DOMAIN r = DOMAIN M /\ r = [x \in DOMAIN r |-> r[x]]
  BY DEF WithOptions
<1>3. q.name = n /\ q.type = type /\ q.analyzer = TextOf(v, "analyzer", <<"standard">>) /\ Rest(q)
  BY <1>1 DEF WithOptions
<1>4. r.name = n /\ r.type = type /\ Rest(r)
  BY <1>1 DEF WithOptions
<1>5. r.analyzer = TextOf(v, "analyzer", analyzer)
  BY <1>1 DEF WithOptions
<1> HIDE DEF type, q, r
<1>6. q = FieldOf(q.name, q.type, q.analyzer, q.stored, q.boost, q.position_decay,
                  q.store_token_weights)
  BY <1>1, <1>2, FieldIs
<1>7. r = FieldOf(r.name, r.type, r.analyzer, r.stored, r.boost, r.position_decay,
                  r.store_token_weights)
  BY <1>1, <1>2, FieldIs
<1> HIDE DEF analyzer
<1>8. q = Given(n, v, <<"standard">>)
  BY <1>3, <1>6 DEF Given, type
<1>9. r = Given(n, v, analyzer)
  BY <1>4, <1>5, <1>7 DEF Given, type
<1>10. QED  BY <1>8, <1>9 DEF q, r, type, analyzer, M

\* What AddField gives of a field read back is the field as it was written.
LEMMA FieldRead ==
    ASSUME NEW m, IsField(m)
    PROVE  /\ HasOf(FieldValue(m), "name", "string") /\ KnownType(FieldValue(m))
           /\ WithOptions(Mapping(FieldValue(m).o[<<"name">>].s), FieldValue(m), FALSE)
                = AsWritten(m)
           /\ AsWritten(m).name = m.name
<1> DEFINE V == FieldValue(m)
<1> HIDE DEF V
<1>1. /\ TextOf(V, "type", <<"text">>) = <<m.type>> /\ TextOf(V, "analyzer", <<"standard">>) = m.analyzer
      /\ FlagOf(V, "stored", FALSE) = m.stored /\ FlagOf(V, "store_token_weights", FALSE) = m.store_token_weights
  BY FieldMembers DEF V, TextOf, FlagOf
<1>2. FloatOf(V, "boost", AsFloat[1]) = IF m.boost = Infinite THEN AsFloat[1] ELSE m.boost
  BY FieldMembers DEF V, FloatOf, IsField, IsFloat
<1>3. FloatOf(V, "position_decay", AsFloat[0])
        = IF m.position_decay = Infinite THEN AsFloat[0] ELSE m.position_decay
  BY FieldMembers DEF V, FloatOf, IsField, IsFloat
<1>4. KnownType(V)
  BY <1>1 DEF KnownType, IsField
<1> DEFINE boost == IF m.boost = Infinite THEN AsFloat[1] ELSE m.boost
           decay == IF m.position_decay = Infinite THEN AsFloat[0] ELSE m.position_decay
           M == Mapping(m.name)
<1>5. WithOptions(M, V, FALSE)
        = FieldOf(m.name, m.type, m.analyzer, m.stored, boost, decay, m.store_token_weights)
  <2> HIDE DEF M
  <2>1. TextOf(V, "type", <<"text">>)[1] = m.type
    BY <1>1
  <2>2. WithOptions(M, V, FALSE) = Given(m.name, V, <<"standard">>)
    BY OptionsAre DEF M
  <2>3. /\ FloatOf(V, "boost", AsFloat[1]) = boost
        /\ FloatOf(V, "position_decay", AsFloat[0]) = decay
    BY <1>2, <1>3
  <2> HIDE DEF boost, decay
  <2>4. QED  BY <1>1, <2>1, <2>2, <2>3 DEF Given
<1>6. AsWritten(m)
        = FieldOf(m.name, m.type, m.analyzer, m.stored, boost, decay, m.store_token_weights)
  <2> DEFINE q == AsWritten(m)
  <2>1. DOMAIN m = {"name", "type", "analyzer", "stored", "boost", "position_decay",
                    "store_token_weights"}
    BY DEF IsField
  <2>2. DOMAIN q = DOMAIN m /\ q = [x \in DOMAIN q |-> q[x]]
    BY DEF AsWritten
  <2>3. /\ q.name = m.name /\ q.type = m.type /\ q.analyzer = m.analyzer /\ q.stored = m.stored
        /\ q.boost = boost /\ q.position_decay = decay
        /\ q.store_token_weights = m.store_token_weights
    BY <2>1 DEF AsWritten
  <2> HIDE DEF q, boost, decay
  <2>4. q = FieldOf(m.name, m.type, m.analyzer, m.stored, boost, decay, m.store_token_weights)
    BY <2>1, <2>2, <2>3, FieldIs
  <2>5. QED  BY <2>4 DEF q
<1>7. AsWritten(m).name = m.name
  BY <1>6 DEF FieldOf
<1> HIDE DEF boost, decay
<1>8. QED  BY <1>4, <1>5, <1>6, <1>7, FieldMembers DEF V

-----------------------------------------------------------------------------
(* A schema, written and read.                                             *)

SchemaOf(fields, quality) == [ok |-> TRUE, fields |-> fields, store_doc_quality |-> quality]

LEMMA SchemaWith ==
    ASSUME NEW s, NEW fields, NEW quality, s = SchemaOf(fields, quality), NEW fields2
    PROVE  [s EXCEPT !.fields = fields2] = SchemaOf(fields2, quality)
<1> DEFINE q == [s EXCEPT !.fields = fields2]
<1>1. DOMAIN s = {"ok", "fields", "store_doc_quality"} /\ s.ok = TRUE /\ s.store_doc_quality = quality
  BY DEF SchemaOf
<1>2. DOMAIN q = DOMAIN s /\ q = [x \in DOMAIN q |-> q[x]]
  OBVIOUS
<1>3. q.ok = TRUE /\ q.fields = fields2 /\ q.store_doc_quality = quality
  BY <1>1
<1> HIDE DEF q
<1>4. q = SchemaOf(fields2, quality)
  BY <1>1, <1>2, <1>3 DEF SchemaOf
<1>5. QED  BY <1>4 DEF q

\* AddField, where it does not refuse.
LEMMA Added ==
    ASSUME NEW fields, NEW quality, NEW m, m.name # <<>>,
           \A i \in DOMAIN fields : fields[i].name # m.name, ~(Len(fields) >= kInvalidFieldId)
    PROVE  AddField(SchemaOf(fields, quality), m) = SchemaOf(Append(fields, m), quality)
<1> DEFINE s == SchemaOf(fields, quality)
<1>1. s.fields = fields
  BY DEF SchemaOf
<1> HIDE DEF s
<1>2. AddField(s, m) = [s EXCEPT !.fields = Append(fields, m)]
  BY <1>1 DEF AddField
<1>3. [s EXCEPT !.fields = Append(fields, m)] = SchemaOf(Append(fields, m), quality)
  <2>1. s = SchemaOf(fields, quality)
    BY DEF s
  <2> DEFINE more == Append(fields, m)
  <2> HIDE DEF more
  <2>2. [s EXCEPT !.fields = more] = SchemaOf(more, quality)
    BY <2>1, SchemaWith
  <2>3. QED  BY <2>2 DEF more
<1>4. QED  BY <1>2, <1>3 DEF s

LEMMA FieldsRead ==
    ASSUME NEW fields, AreFields(fields)
    PROVE  FieldsFrom([i \in DOMAIN fields |-> FieldValue(fields[i])])
             = SchemaOf([i \in DOMAIN fields |-> AsWritten(fields[i])], FALSE)
<1> DEFINE N == Len(fields)
           a == [i \in DOMAIN fields |-> FieldValue(fields[i])]
           W(n) == [i \in 1 .. n |-> AsWritten(fields[i])]
           Def(f) == [n \in 0 .. N |-> IF n = 0 THEN EmptySchema ELSE FromJsonField(f[n - 1], a[n])]
           g == [n \in 0 .. N |-> SchemaOf(W(n), FALSE)]
           up == CHOOSE f : f = Def(f)
<1>1. N \in Nat /\ DOMAIN fields = 1 .. N /\ Len(a) = N /\ N <= kInvalidFieldId
  BY DEF AreFields
<1>2. FieldsFrom(a) = up[N]
  <2>1. FieldsFrom(a) = up[Len(a)]
    BY <1>1 DEF FieldsFrom
  <2>2. QED  BY <1>1, <2>1
<1>3. ASSUME NEW n \in 1 .. N
      PROVE  FromJsonField(SchemaOf(W(n - 1), FALSE), a[n]) = SchemaOf(W(n), FALSE)
  <2> DEFINE m == fields[n]
             v == a[n]
  <2>1. IsField(m) /\ v = FieldValue(m)
    BY <1>1 DEF AreFields
  <2>2. FromJsonField(SchemaOf(W(n - 1), FALSE), v) = AddField(SchemaOf(W(n - 1), FALSE), AsWritten(m))
    <3>1. SchemaOf(W(n - 1), FALSE).ok
      BY DEF SchemaOf
    <3> HIDE DEF m, v, W
    <3>2. QED  BY <2>1, <3>1, FieldRead DEF FromJsonField
  <2>3. /\ AsWritten(m).name = m.name /\ m.name # <<>>
        /\ \A i \in 1 .. n - 1 : AsWritten(fields[i]).name = fields[i].name /\ fields[i].name # m.name
    <3>1. \A i \in 1 .. n - 1 : IsField(fields[i]) /\ fields[i].name # m.name
      BY <1>1 DEF AreFields
    <3> HIDE DEF m
    <3>2. QED  BY <2>1, <3>1, FieldRead DEF IsField
  <2>4. /\ DOMAIN W(n - 1) = 1 .. n - 1 /\ Len(W(n - 1)) = n - 1
        /\ \A i \in 1 .. n - 1 : W(n - 1)[i] = AsWritten(fields[i])
    OBVIOUS
  <2>5. ~(Len(W(n - 1)) >= kInvalidFieldId)
    BY <1>1, <2>4, SchemaAssumption DEF SchemaAssumption
  <2>6. Append(W(n - 1), AsWritten(m)) = W(n)
    <3> DEFINE V == {AsWritten(fields[i]) : i \in 1 .. N}
    <3>1. W(n - 1) \in Seq(V) /\ W(n) \in Seq(V) /\ AsWritten(m) \in V
      BY <1>1
    <3>2. QED  BY <3>1
  <2> HIDE DEF W, m, v
  <2>7. AddField(SchemaOf(W(n - 1), FALSE), AsWritten(m)) = SchemaOf(Append(W(n - 1), AsWritten(m)), FALSE)
    <3> DEFINE before == W(n - 1)
               one == AsWritten(m)
    <3>1. \A i \in DOMAIN before : before[i].name # one.name
      BY <2>3, <2>4
    <3>2. one.name # <<>> /\ ~(Len(before) >= kInvalidFieldId)
      BY <2>3, <2>5
    <3> HIDE DEF before, one
    <3>3. AddField(SchemaOf(before, FALSE), one) = SchemaOf(Append(before, one), FALSE)
      BY <3>1, <3>2, Added
    <3>4. QED  BY <3>3 DEF before, one
  <2>8. QED  BY <2>2, <2>6, <2>7 DEF v
<1>4. SchemaOf(W(0), FALSE) = EmptySchema
  <2>1. W(0) = <<>>
    OBVIOUS
  <2>2. QED  BY <2>1 DEF SchemaOf, EmptySchema
<1> DEFINE S(n) == SchemaOf(W(n), FALSE)
<1> HIDE DEF a, W, S, N
<1>5. /\ S(0) = EmptySchema
      /\ \A n \in 1 .. N : FromJsonField(S(n - 1), a[n]) = S(n)
  BY <1>3, <1>4 DEF S
<1>6. g = Def(g)
  <2>1. g = [n \in 0 .. N |-> S(n)]
    BY DEF S
  <2>2. \A n \in 0 .. N : n # 0 => n - 1 \in 0 .. N /\ n \in 1 .. N
    BY <1>1
  <2> HIDE DEF g
  <2>3. QED  BY <1>5, <2>1, <2>2
<1> HIDE DEF g
<1>7. \A n \in 0 .. N : up[n] = IF n = 0 THEN EmptySchema ELSE FromJsonField(up[n - 1], a[n])
  <2>1. up = Def(up)
    BY <1>6
  <2> HIDE DEF up
  <2>2. QED  BY <2>1
<1> HIDE DEF up
<1> DEFINE T == {n \in Nat : n <= N => up[n] = S(n)}
<1>8. 0 \in T
  BY <1>1, <1>5, <1>7
<1>9. ASSUME NEW n \in Nat, n \in T PROVE n + 1 \in T
  <2>1. CASE n + 1 <= N
    <3>1. n + 1 \in 1 .. N /\ n + 1 \in 0 .. N /\ n + 1 # 0 /\ (n + 1) - 1 = n /\ n <= N
      BY <1>1, <2>1
    <3>2. up[n + 1] = FromJsonField(up[n], a[n + 1])
      BY <1>7, <3>1
    <3>3. up[n] = S(n)
      BY <1>9, <3>1
    <3>4. FromJsonField(S(n), a[n + 1]) = S(n + 1)
      BY <1>5, <3>1
    <3>5. QED  BY <3>2, <3>3, <3>4
  <2>2. QED  BY <2>1
<1> HIDE DEF T
<1>10. \A n \in Nat : n \in T
  BY <1>8, <1>9, Induction
<1>11. up[N] = S(N)
  BY <1>1, <1>10 DEF T
<1>12. W(N) = [i \in DOMAIN fields |-> AsWritten(fields[i])]
  BY <1>1 DEF W
<1>13. QED  BY <1>2, <1>11, <1>12 DEF a, S

\* The schema as its text says it, and as it comes back.
SchemaValue(s) == Object([k \in DOMAIN ToJson(s).o |-> Printed(ToJson(s).o[k])])
WrittenSchema(s) == [s EXCEPT !.fields = [i \in DOMAIN @ |-> AsWritten(@[i])]]

LEMMA SchemaMembers ==
    ASSUME NEW s, IsSchema(s)
    PROVE  /\ HasOf(SchemaValue(s), "fields", "array")
           /\ SchemaValue(s).o[<<"fields">>].a = [i \in DOMAIN s.fields |-> FieldValue(s.fields[i])]
           /\ HasOf(SchemaValue(s), "store_doc_quality", "bool")
           /\ SchemaValue(s).o[<<"store_doc_quality">>].b = s.store_doc_quality
<1> DEFINE a == [i \in DOMAIN s.fields |-> FieldJson(s.fields[i])]
           r == [fields |-> Array(a), store_doc_quality |-> Bool(s.store_doc_quality)]
           F == ToJson(s).o
           V == SchemaValue(s)
<1>1. F = Keyed(r)
  BY DEF ToJson, Object
<1>2. DOMAIN r = {"fields", "store_doc_quality"}
  OBVIOUS
<1>3. \A word \in DOMAIN r : <<word>> \in DOMAIN F /\ F[<<word>>] = r[word]
  <2> HIDE DEF r, F
  <2>1. QED  BY <1>1, KeyedIs
<1>4. V = [type |-> "object", o |-> [k \in DOMAIN F |-> Printed(F[k])]]
  BY DEF SchemaValue, Object
<1> HIDE DEF F, V
<1>5. \A word \in DOMAIN r : Has(V, word) /\ V.o[<<word>>] = Printed(r[word])
  <2> HIDE DEF r
  <2>1. QED  BY <1>3, <1>4 DEF Has
<1>6. Printed(r["store_doc_quality"]) = [type |-> "bool", b |-> s.store_doc_quality]
  BY DEF Printed, Finite, Bool
<1>7. Printed(r["fields"])
        = [type |-> "array", a |-> [i \in DOMAIN s.fields |-> FieldValue(s.fields[i])]]
  <2>1. r["fields"].type = "array" /\ r["fields"].a = a
    BY DEF Array
  <2>2. Printed(r["fields"])
          = Array([i \in DOMAIN a |-> Object([k \in DOMAIN a[i].o |-> Finite(a[i].o[k])])])
    <3> HIDE DEF r, a
    <3>1. QED  BY <2>1 DEF Printed
  <2>3. [i \in DOMAIN a |-> Object([k \in DOMAIN a[i].o |-> Finite(a[i].o[k])])]
          = [i \in DOMAIN s.fields |-> FieldValue(s.fields[i])]
    BY DEF FieldValue
  <2> HIDE DEF a
  <2>4. QED  BY <2>2, <2>3 DEF Array
<1> HIDE DEF r
<1>8. /\ Has(V, "fields") /\ V.o[<<"fields">>] = Printed(r["fields"])
      /\ Has(V, "store_doc_quality")
      /\ V.o[<<"store_doc_quality">>] = Printed(r["store_doc_quality"])
  BY <1>2, <1>5
<1>9. /\ HasOf(V, "fields", "array")
      /\ V.o[<<"fields">>].a = [i \in DOMAIN s.fields |-> FieldValue(s.fields[i])]
  BY <1>7, <1>8 DEF HasOf
<1>10. /\ HasOf(V, "store_doc_quality", "bool")
       /\ V.o[<<"store_doc_quality">>].b = s.store_doc_quality
  BY <1>6, <1>8 DEF HasOf
<1>11. QED  BY <1>9, <1>10 DEF V

\* FromJson takes what ToJson gave and gives it back, field by field.
LEMMA SchemaIsRead ==
    ASSUME NEW s, IsSchema(s)
    PROVE  /\ FromJson(SchemaValue(s)) = WrittenSchema(s)
           /\ WrittenSchema(s).ok /\ WrittenSchema(s) # NoSchema
<1> DEFINE written == [i \in DOMAIN s.fields |-> AsWritten(s.fields[i])]
           read == SchemaOf(written, FALSE)
           V == SchemaValue(s)
<1>1. FieldsFrom(V.o[<<"fields">>].a) = read
  BY SchemaMembers, FieldsRead DEF IsSchema
<1>2. FromJson(V) = WithIdField(read, V)
  <2> HIDE DEF V, read
  <2>1. QED  BY <1>1, SchemaMembers DEF FromJson, V
<1>3. \E i \in DOMAIN read.fields : read.fields[i].name = kIdName
  <2>1. PICK i \in DOMAIN s.fields : s.fields[i].name = kIdName
    BY DEF IsSchema
  <2>2. IsField(s.fields[i])
    BY DEF IsSchema, AreFields
  <2>3. read.fields = written
    BY DEF SchemaOf
  <2>4. written[i].name = kIdName
    BY <2>1, <2>2, FieldRead
  <2> HIDE DEF read
  <2>5. QED  BY <2>3, <2>4
<1>4. FlagOf(V, "store_doc_quality", read.store_doc_quality) = s.store_doc_quality
  BY SchemaMembers DEF FlagOf
<1>5. read.ok
  BY DEF SchemaOf
<1>6. WithIdField(read, V) = [read EXCEPT !.store_doc_quality = s.store_doc_quality]
  <2> HIDE DEF read, V
  <2>1. QED  BY <1>3, <1>4, <1>5 DEF WithIdField
<1>7. [read EXCEPT !.store_doc_quality = s.store_doc_quality] = SchemaOf(written, s.store_doc_quality)
  <2> DEFINE quality == s.store_doc_quality
             q == [read EXCEPT !.store_doc_quality = quality]
  <2>1. DOMAIN read = {"ok", "fields", "store_doc_quality"} /\ read.ok = TRUE /\ read.fields = written
    BY DEF SchemaOf
  <2> HIDE DEF read, written, quality
  <2>2. DOMAIN q = DOMAIN read /\ q = [x \in DOMAIN q |-> q[x]]
    OBVIOUS
  <2>3. q.ok = TRUE /\ q.fields = written /\ q.store_doc_quality = quality
    BY <2>1
  <2> HIDE DEF q
  <2>4. q = SchemaOf(written, quality)
    BY <2>1, <2>2, <2>3 DEF SchemaOf
  <2>5. QED  BY <2>4 DEF q, quality
<1>8. WrittenSchema(s) = SchemaOf(written, s.store_doc_quality)
  <2> DEFINE fields == s.fields
             quality == s.store_doc_quality
  <2>1. s = SchemaOf(fields, quality)
    BY DEF IsSchema, SchemaOf
  <2>2. WrittenSchema(s) = [s EXCEPT !.fields = written]
    BY DEF WrittenSchema
  <2> HIDE DEF written, fields, quality
  <2>3. [s EXCEPT !.fields = written] = SchemaOf(written, quality)
    BY <2>1, SchemaWith
  <2>4. QED  BY <2>2, <2>3 DEF quality
<1>9. WrittenSchema(s).ok /\ WrittenSchema(s) # NoSchema
  <2>1. WrittenSchema(s).ok /\ DOMAIN WrittenSchema(s) = {"ok", "fields", "store_doc_quality"}
    BY <1>8 DEF SchemaOf
  <2>2. DOMAIN NoSchema = {"open"}
    BY DEF NoSchema
  <2>3. QED  BY <2>1, <2>2
<1> HIDE DEF V, read, written
<1>10. QED  BY <1>2, <1>6, <1>7, <1>8, <1>9 DEF V

-----------------------------------------------------------------------------
(* A schema made from mappings.                                            *)

\* AddField keeps the fields in order, or refuses.
LEMMA Adds ==
    ASSUME NEW fields, AreFields(fields), NEW m, m.name # <<>> => IsField(m)
    PROVE  \/ AddField(SchemaOf(fields, FALSE), m) = Err
           \/ /\ AddField(SchemaOf(fields, FALSE), m) = SchemaOf(Append(fields, m), FALSE)
              /\ AreFields(Append(fields, m))
              /\ \A i \in DOMAIN fields : i \in DOMAIN Append(fields, m) /\ Append(fields, m)[i] = fields[i]
              /\ Len(Append(fields, m)) \in DOMAIN Append(fields, m)
              /\ Append(fields, m)[Len(Append(fields, m))] = m
<1> DEFINE s == SchemaOf(fields, FALSE)
           more == Append(fields, m)
           N == Len(fields)
           refused == m.name = <<>> \/ (\E i \in DOMAIN fields : fields[i].name = m.name)
                      \/ N >= kInvalidFieldId
<1>1. s.fields = fields
  BY DEF SchemaOf
<1>2. CASE refused
  <2> HIDE DEF s
  <2>1. AddField(s, m) = Err
    BY <1>1, <1>2 DEF AddField
  <2>2. QED  BY <2>1 DEF s
<1>3. CASE ~refused
  <2>1. AddField(s, m) = SchemaOf(more, FALSE)
    BY <1>3, Added
  <2>2. N \in Nat /\ DOMAIN fields = 1 .. N /\ N <= kInvalidFieldId
    BY DEF AreFields
  <2>3. /\ Len(more) = N + 1 /\ DOMAIN more = 1 .. N + 1 /\ more[N + 1] = m
        /\ \A i \in 1 .. N : more[i] = fields[i]
    <3> DEFINE V == Range(fields) \cup {m}
    <3>1. fields \in Seq(V) /\ m \in V
      <4>1. fields \in [1 .. N -> V]
        BY <2>2 DEF AreFields, Range
      <4> HIDE DEF V
      <4>2. QED  BY <2>2, <4>1 DEF V
    <3> HIDE DEF V
    <3>2. QED  BY <2>2, <3>1
  <2> HIDE DEF more
  <2>4. more \in Seq(Range(more)) /\ Len(more) <= kInvalidFieldId
    <3>1. more = [i \in 1 .. N + 1 |-> more[i]]
      <4>1. more \in Seq(Range(fields) \cup {m})
        <5> DEFINE V == Range(fields) \cup {m}
        <5>1. fields \in Seq(V) /\ m \in V
          <6>1. fields \in [1 .. N -> V]
            BY <2>2 DEF AreFields, Range
          <6> HIDE DEF V
          <6>2. QED  BY <2>2, <6>1 DEF V
        <5> HIDE DEF V
        <5>2. QED  BY <5>1 DEF more, V
      <4>2. QED  BY <2>3, <4>1
    <3>2. more \in [1 .. N + 1 -> Range(more)]
      BY <2>3, <3>1 DEF Range
    <3>3. N + 1 \in Nat /\ N + 1 <= kInvalidFieldId
      BY <1>3, <2>2, SchemaAssumption DEF SchemaAssumption
    <3>4. QED  BY <2>3, <3>2, <3>3
  <2>5. \A i \in 1 .. N : IsField(fields[i]) /\ fields[i].name # m.name
    BY <1>3, <2>2 DEF AreFields
  <2>6. AreFields(more)
    <3>1. \A i \in 1 .. N + 1 : IsField(more[i])
      BY <1>3, <2>2, <2>3, <2>5
    <3>2. \A i, j \in 1 .. N : fields[i].name = fields[j].name => i = j
      BY <2>2 DEF AreFields
    <3>3. \A i, j \in 1 .. N + 1 : more[i].name = more[j].name => i = j
      <4>1. \A i \in 1 .. N + 1 : i = N + 1 \/ i \in 1 .. N
        BY <2>2
      <4>2. QED  BY <2>3, <2>5, <3>2, <4>1
    <3>4. QED  BY <2>3, <2>4, <3>1, <3>3 DEF AreFields
  <2>7. /\ \A i \in DOMAIN fields : i \in DOMAIN more /\ more[i] = fields[i]
        /\ Len(more) \in DOMAIN more /\ more[Len(more)] = m
    BY <2>2, <2>3
  <2>8. QED  BY <2>1, <2>6, <2>7 DEF more
<1>4. QED  BY <1>2, <1>3

\* A field that a mapping's object gives.
LEMMA FieldGiven ==
    ASSUME NEW n, n # <<>>, NEW v, Floats(v), v.type = "object", KnownType(v)
    PROVE  IsField(WithOptions(Mapping(n), v, TRUE)) /\ WithOptions(Mapping(n), v, TRUE).name = n
<1> DEFINE type == TextOf(v, "type", <<"text">>)[1]
           analyzer == IF type = "keyword" THEN <<"keyword">> ELSE <<"standard">>
           boost == FloatOf(v, "boost", AsFloat[1])
           decay == FloatOf(v, "position_decay", AsFloat[0])
<1>1. type \in {"text", "keyword"}
  BY DEF KnownType
<1>2. IsFloat(AsFloat[1]) /\ IsFloat(AsFloat[0])
  BY FloatAssumption DEF FloatAssumption, IsFloat
<1>3. IsFloat(boost)
  BY <1>2, FloatAssumption DEF FloatAssumption, IsFloat, FloatOf, HasOf, Has, Floats
<1>4. IsFloat(decay)
  BY <1>2, FloatAssumption DEF FloatAssumption, IsFloat, FloatOf, HasOf, Has, Floats
<1>5. WithOptions(Mapping(n), v, TRUE) = Given(n, v, analyzer)
  BY OptionsAre
<1> DEFINE q == Given(n, v, analyzer)
<1>6. q = FieldOf(n, type, TextOf(v, "analyzer", analyzer), FlagOf(v, "stored", FALSE), boost, decay,
                  FlagOf(v, "store_token_weights", FALSE))
  BY DEF Given
<1> HIDE DEF type, analyzer, boost, decay, q
<1>7. /\ q = FieldOf(q.name, q.type, q.analyzer, q.stored, q.boost, q.position_decay,
                     q.store_token_weights)
      /\ q.name = n /\ q.type = type /\ q.boost = boost /\ q.position_decay = decay
  BY <1>6 DEF FieldOf
<1>8. IsField(q) /\ q.name = n
  BY <1>1, <1>3, <1>4, <1>7 DEF IsField, FieldOf
<1>9. QED  BY <1>5, <1>8 DEF q

LEMMA IdIsField == IsField(IdField) /\ IdField.name = kIdName /\ kIdName # <<>>
<1> DEFINE M == Mapping(kIdName)
           q == IdField
<1>1. /\ DOMAIN M = {"name", "type", "analyzer", "stored", "boost", "position_decay",
                     "store_token_weights"}
      /\ M.name = kIdName /\ M.boost = AsFloat[1] /\ M.position_decay = AsFloat[0]
  BY DEF Mapping
<1> HIDE DEF M
<1>2. DOMAIN q = DOMAIN M /\ q = [x \in DOMAIN q |-> q[x]]
  BY DEF IdField, M
<1>3. /\ q.name = kIdName /\ q.type = "keyword" /\ q.boost = AsFloat[1]
      /\ q.position_decay = AsFloat[0]
  BY <1>1 DEF IdField, M
<1> HIDE DEF q
<1>4. q = FieldOf(q.name, q.type, q.analyzer, q.stored, q.boost, q.position_decay,
                  q.store_token_weights)
  BY <1>1, <1>2, FieldIs
<1>5. IsFloat(AsFloat[1]) /\ IsFloat(AsFloat[0])
  BY FloatAssumption DEF FloatAssumption, IsFloat
<1>6. kIdName # <<>>
  BY DEF kIdName
<1>7. QED  BY <1>3, <1>4, <1>5, <1>6 DEF IsField, FieldOf, q


\* Mappings give a schema that can be read back, or none.
THEOREM MappingsGiveSchemas ==
    ASSUME NEW v, v.type = "object" => \A k \in DOMAIN v.o : Floats(v.o[k])
    PROVE  FromMappingsJson(v).ok => IsSchema(FromMappingsJson(v))
<1>1. CASE v.type # "object"
  BY <1>1 DEF FromMappingsJson, Err
<1>2. CASE v.type = "object"
  <2> DEFINE L == Len(KeyOrder)
             base == IF Has(v, "_id") THEN EmptySchema ELSE AddField(EmptySchema, IdField)
             step(n, s) == IF KeyOrder[n] \in DOMAIN v.o
                           THEN MappedField(s, KeyOrder[n], v.o[KeyOrder[n]]) ELSE s
             \* _id is there from the start, or once its place in the order is passed.
             due(n) == ~Has(v, "_id") \/ \E k \in 1 .. n : KeyOrder[k] = kIdName
             good(n, s) == /\ s = SchemaOf(s.fields, FALSE) /\ AreFields(s.fields)
                           /\ due(n) => \E i \in DOMAIN s.fields : s.fields[i].name = kIdName
             Def(f, N) == [n \in 0 .. N |-> IF n = 0 THEN base ELSE step(n, f[n - 1])]
             up == CHOOSE f : f = Def(f, L)
  <2>1. L \in Nat
    BY KeyAssumption DEF KeyAssumption
  <2>2. Err.ok = FALSE
    BY DEF Err
  <2>3. base = Err \/ good(0, base)
    <3>1. CASE Has(v, "_id")
      <4>1. base = SchemaOf(<<>>, FALSE)
        BY <3>1 DEF EmptySchema, SchemaOf
      <4>2. base.fields = <<>> /\ AreFields(<<>>)
        BY <4>1, SchemaAssumption DEF SchemaOf, AreFields, SchemaAssumption
      <4>3. ~due(0)
        BY <3>1
      <4> HIDE DEF base, due
      <4>4. QED  BY <4>1, <4>2, <4>3
    <3>2. CASE ~Has(v, "_id")
      <4>1. EmptySchema = SchemaOf(<<>>, FALSE) /\ AreFields(<<>>)
        BY SchemaAssumption DEF EmptySchema, SchemaOf, AreFields, SchemaAssumption
      <4>2. base = AddField(SchemaOf(<<>>, FALSE), IdField)
        BY <3>2, <4>1
      <4> DEFINE more == Append(<<>>, IdField)
      <4>3. \/ base = Err
            \/ /\ base = SchemaOf(more, FALSE) /\ AreFields(more)
               /\ Len(more) \in DOMAIN more /\ more[Len(more)] = IdField
        BY <4>1, <4>2, Adds, IdIsField
      <4> HIDE DEF base, due, more
      <4>4. ASSUME base = SchemaOf(more, FALSE) PROVE base.fields = more
        BY <4>4 DEF SchemaOf
      <4>5. QED  BY <4>3, <4>4, IdIsField
    <3>3. QED  BY <3>1, <3>2
  <2>4. ASSUME NEW n \in Nat, n < L, NEW s, good(n, s) PROVE step(n + 1, s) = Err \/ good(n + 1, step(n + 1, s))
    <3> DEFINE key == KeyOrder[n + 1]
               w == v.o[key]
    <3>1. s.ok
      <4>1. s = SchemaOf(s.fields, FALSE)
        BY <2>4
      <4>2. QED  BY <4>1 DEF SchemaOf
    <3>2. CASE key \notin DOMAIN v.o
      <4>1. step(n + 1, s) = s
        BY <3>2
      <4>2. due(n + 1) => due(n)
        <5>1. kIdName \in DOMAIN v.o => Has(v, "_id")
          BY <1>2 DEF Has, kIdName
        <5>2. ~Has(v, "_id") => due(n)
          OBVIOUS
        <5>3. Has(v, "_id") => key # kIdName
          BY <3>2 DEF Has, kIdName
        <5>4. \A k \in 1 .. n + 1 : k = n + 1 \/ k \in 1 .. n
          BY <2>4
        <5>5. QED  BY <5>2, <5>3, <5>4
      <4> HIDE DEF due, step
      <4>3. QED  BY <2>4, <4>1, <4>2
    <3>3. CASE key \in DOMAIN v.o /\ (w.type # "object" \/ ~KnownType(w))
      BY <3>3, <3>1 DEF MappedField
    <3>4. CASE key \in DOMAIN v.o /\ w.type = "object" /\ KnownType(w)
      <4> DEFINE m == WithOptions(Mapping(key), w, TRUE)
                 fields == s.fields
                 more == Append(fields, m)
      <4>1. step(n + 1, s) = AddField(s, m)
        BY <3>1, <3>4 DEF MappedField
      <4>2. m.name = key /\ (m.name # <<>> => IsField(m))
        <5>1. Floats(w)
          BY <1>2, <3>4
        <5>2. m.name = key
          BY DEF WithOptions, Mapping
        <5> HIDE DEF m, key, w
        <5>3. QED  BY <3>4, <5>1, <5>2, FieldGiven DEF m
      <4>3. s = SchemaOf(fields, FALSE) /\ AreFields(fields)
            /\ (due(n) => \E i \in DOMAIN fields : fields[i].name = kIdName)
        BY <2>4
      <4> HIDE DEF step, m, due, fields, key, w
      <4>4. \/ AddField(SchemaOf(fields, FALSE), m) = Err
            \/ /\ AddField(SchemaOf(fields, FALSE), m) = SchemaOf(more, FALSE)
               /\ AreFields(more)
               /\ \A i \in DOMAIN fields : i \in DOMAIN more /\ more[i] = fields[i]
               /\ Len(more) \in DOMAIN more /\ more[Len(more)] = m
        BY <4>2, <4>3, Adds
      <4>5. due(n + 1) => due(n) \/ key = kIdName
        <5>1. \A k \in 1 .. n + 1 : k = n + 1 \/ k \in 1 .. n
          BY <2>4
        <5>2. QED  BY <5>1 DEF due, key
      <4> HIDE DEF more
      <4>6. ASSUME step(n + 1, s) = SchemaOf(more, FALSE) PROVE step(n + 1, s).fields = more
        BY <4>6 DEF SchemaOf
      <4>7. CASE /\ AreFields(more)
                 /\ \A i \in DOMAIN fields : i \in DOMAIN more /\ more[i] = fields[i]
                 /\ Len(more) \in DOMAIN more /\ more[Len(more)] = m
                 /\ step(n + 1, s) = SchemaOf(more, FALSE)
        <5>1. due(n + 1) => \E i \in DOMAIN more : more[i].name = kIdName
          BY <4>2, <4>3, <4>5, <4>7
        <5>2. QED  BY <4>6, <4>7, <5>1
      <4>8. QED  BY <4>1, <4>3, <4>4, <4>7
    <3>5. QED  BY <3>2, <3>3, <3>4
  <2>5. ASSUME NEW n \in Nat PROVE step(n, Err) = Err
    BY <2>2 DEF MappedField
  <2>6. FromMappingsJson(v) = up[L]
    BY <1>2 DEF FromMappingsJson
  <2>7. due(L) /\ \A s : good(L, s) => IsSchema(s)
    <3>1. due(L)
      <4>1. PICK k \in DOMAIN KeyOrder : KeyOrder[k] = kIdName
        BY SchemaAssumption DEF SchemaAssumption, Range
      <4>2. DOMAIN KeyOrder = 1 .. L
        BY KeyAssumption DEF KeyAssumption
      <4>3. QED  BY <4>1, <4>2
    <3> HIDE DEF due
    <3>2. ASSUME NEW s, good(L, s) PROVE IsSchema(s)
      <4>1. s = SchemaOf(s.fields, FALSE)
        BY <3>2
      <4>2. s.store_doc_quality = FALSE
        BY <4>1 DEF SchemaOf
      <4>3. QED  BY <3>1, <3>2, <4>1, <4>2 DEF IsSchema, SchemaOf
    <3>3. QED  BY <3>1, <3>2
  <2> HIDE DEF base, step, good, L, due
  <2>8. \A N \in Nat : \E f : f = Def(f, N)
    <3> DEFINE T == {N \in Nat : \E f : f = Def(f, N)}
    <3>1. 0 \in T
      <4> DEFINE f == [n \in 0 .. 0 |-> base]
      <4>1. f = Def(f, 0)
        OBVIOUS
      <4> HIDE DEF f
      <4>2. QED  BY <4>1
    <3>2. ASSUME NEW N \in Nat, N \in T PROVE N + 1 \in T
      <4>1. PICK f : f = Def(f, N)
        BY <3>2
      <4> DEFINE g == [n \in 0 .. N + 1 |-> IF n \in 0 .. N THEN f[n] ELSE step(N + 1, f[N])]
      <4>2. \A n \in 0 .. N : f[n] = IF n = 0 THEN base ELSE step(n, f[n - 1])
        <5>1. DOMAIN f = 0 .. N /\ \A n \in 0 .. N : Def(f, N)[n] = IF n = 0 THEN base ELSE step(n, f[n - 1])
          BY <4>1
        <5>2. QED  BY <4>1, <5>1
      <4>3. \A n \in 0 .. N + 1 : g[n] = IF n = 0 THEN base ELSE step(n, g[n - 1])
        <5>1. ASSUME NEW n \in 0 .. N + 1 PROVE g[n] = IF n = 0 THEN base ELSE step(n, g[n - 1])
          <6>1. CASE n = N + 1
            <7>1. n - 1 = N /\ n # 0 /\ n \notin 0 .. N /\ N \in 0 .. N
              BY <6>1
            <7>2. g[n] = step(N + 1, f[N]) /\ g[n - 1] = f[N]
              BY <7>1
            <7> HIDE DEF g
            <7>3. QED  BY <6>1, <7>1, <7>2
          <6>2. CASE n # N + 1 /\ n # 0
            <7>1. n \in 0 .. N /\ n - 1 \in 0 .. N
              BY <6>2
            <7>2. g[n] = f[n] /\ g[n - 1] = f[n - 1]
              BY <7>1
            <7> HIDE DEF g
            <7>3. QED  BY <4>2, <6>2, <7>1, <7>2
          <6>3. CASE n = 0
            <7>1. n \in 0 .. N
              BY <6>3
            <7>2. g[n] = f[n]
              BY <7>1
            <7> HIDE DEF g
            <7>3. QED  BY <4>2, <6>3, <7>1, <7>2
          <6>4. QED  BY <6>1, <6>2, <6>3
        <5>2. QED  BY <5>1
      <4>4. g = [n \in 0 .. N + 1 |-> g[n]]
        OBVIOUS
      <4> HIDE DEF g
      <4>5. g = Def(g, N + 1)
        BY <4>3, <4>4
      <4>6. QED  BY <4>5
    <3> HIDE DEF T
    <3>3. \A N \in Nat : N \in T
      BY <3>1, <3>2, Induction
    <3>4. QED  BY <3>3 DEF T
  <2>9. \A n \in 0 .. L : up[n] = IF n = 0 THEN base ELSE step(n, up[n - 1])
    <3>1. up = Def(up, L)
      BY <2>1, <2>8
    <3> HIDE DEF up
    <3>2. QED  BY <3>1
  <2> HIDE DEF up
  <2> DEFINE T == {n \in Nat : n <= L => up[n] = Err \/ good(n, up[n])}
  <2>10. 0 \in T
    BY <2>1, <2>3, <2>9
  <2>11. ASSUME NEW n \in Nat, n \in T PROVE n + 1 \in T
    <3>1. CASE n + 1 <= L
      <4>1. n + 1 \in 0 .. L /\ n + 1 # 0 /\ (n + 1) - 1 = n /\ n < L /\ n <= L
        BY <2>1, <3>1
      <4>2. up[n + 1] = step(n + 1, up[n])
        BY <2>9, <4>1
      <4>3. up[n] = Err \/ good(n, up[n])
        BY <2>11, <4>1
      <4>4. up[n + 1] = Err \/ good(n + 1, up[n + 1])
        BY <2>4, <2>5, <4>1, <4>2, <4>3
      <4>5. QED  BY <4>4
    <3>2. QED  BY <3>1
  <2> HIDE DEF T
  <2>12. \A n \in Nat : n \in T
    BY <2>10, <2>11, Induction
  <2>13. up[L] = Err \/ good(L, up[L])
    BY <2>1, <2>12 DEF T
  <2>14. QED  BY <2>2, <2>6, <2>7, <2>13
<1>3. QED  BY <1>1, <1>2

\* Every schema that a new index is opened with can be read back.
LEMMA InitialAreSchemas ==
    ASSUME NEW s \in InitialSchemas
    PROVE  IsSchema(s) /\ s.ok
<1>1. s.ok
  BY DEF InitialSchemas
<1>2. CASE s \in Schemas
  BY <1>1, <1>2, SchemaTextAssumption DEF SchemaTextAssumption
<1>3. CASE s \in {Mapped(body) : body \in IndexBodies}
  <2>1. PICK body \in IndexBodies : s = Mapped(body)
    BY <1>3
  <2> DEFINE v == ReadText(body)
             w == v.val.o[<<"mappings">>]
  <2>2. v.ok /\ HasOf(v.val, "mappings", "object") /\ s = FromMappingsJson(w)
    BY <1>1, <2>1 DEF Mapped, Err
  <2>3. \A k \in DOMAIN w.o : Floats(w.o[k])
    <3>1. \E r \in {ReadText(body)} :
            r.ok /\ HasOf(r.val, "mappings", "object") =>
                \A k \in DOMAIN r.val.o[<<"mappings">>].o : Floats(r.val.o[<<"mappings">>].o[k])
      BY SchemaTextAssumption DEF SchemaTextAssumption
    <3>2. QED  BY <2>2, <3>1
  <2> HIDE DEF w
  <2>4. QED  BY <1>1, <2>2, <2>3, MappingsGiveSchemas
<1>4. QED  BY <1>1, <1>2, <1>3 DEF InitialSchemas


-----------------------------------------------------------------------------
(* The records of the log.                                                 *)

LEMMA Packed ==
    ASSUME NEW n \in Nat, n \div 16777216 < 256
    PROVE  /\ PackU32LE(n) \in Seq(Octet) /\ Len(PackU32LE(n)) = 4
           /\ UnpackU32LE(PackU32LE(n)) = n
<1> DEFINE a == n \div 256
           b == n \div 65536
           c == n \div 16777216
<1>1. a \in Nat /\ b \in Nat /\ c \in Nat
  BY SMT
<1>2. b = a \div 256 /\ c = b \div 256
  BY SMT
<1>3. n = 256 * a + (n % 256) /\ n % 256 \in Octet
  BY SMT DEF Octet
<1>4. a = 256 * b + (a % 256) /\ a % 256 \in Octet
  <2> HIDE DEF a, b
  <2>1. QED  BY <1>1, <1>2, SMT DEF Octet
<1>5. b = 256 * c + (b % 256) /\ b % 256 \in Octet
  <2> HIDE DEF b, c
  <2>1. QED  BY <1>1, <1>2, SMT DEF Octet
<1>6. c % 256 = c /\ c \in Octet
  <2> HIDE DEF c
  <2>1. QED  BY <1>1, SMT DEF c, Octet
<1>7. PackU32LE(n) = <<n % 256, a % 256, b % 256, c % 256>>
  BY SMT DEF PackU32LE
<1> HIDE DEF a, b, c
<1>8. UnpackU32LE(PackU32LE(n)) = n
  <2>1. UnpackU32LE(PackU32LE(n))
          = (n % 256) + 256 * (a % 256) + 65536 * (b % 256) + 16777216 * (c % 256)
    BY <1>7, SMT DEF UnpackU32LE
  <2>2. QED  BY <1>1, <1>3, <1>4, <1>5, <1>6, <2>1, SMT DEF Octet
<1>9. QED  BY <1>3, <1>4, <1>5, <1>6, <1>7, <1>8, SMT

LEMMA RecordBytes ==
    ASSUME NEW text, Fits(text)
    PROVE  /\ RecordOf(text) \in Seq(Octet) /\ Len(text) \in Nat
           /\ Len(RecordOf(text)) = 4 + Len(text)
           /\ \A i \in 1 .. 4 : RecordOf(text)[i] = PackU32LE(Len(text))[i]
           /\ \A i \in 1 .. Len(text) : RecordOf(text)[4 + i] = Code[text[i]]
<1> DEFINE bytes == [i \in DOMAIN text |-> Code[text[i]]]
           head == PackU32LE(Len(text))
<1>1. text \in Seq(DOMAIN Code) /\ Len(text) \in Nat /\ DOMAIN text = 1 .. Len(text)
  BY DEF Fits
<1>2. bytes \in Seq(Octet) /\ Len(bytes) = Len(text) /\ \A i \in 1 .. Len(text) : bytes[i] = Code[text[i]]
  BY <1>1, CodeAssumption DEF CodeAssumption
<1>3. head \in Seq(Octet) /\ Len(head) = 4
  BY <1>1, Packed DEF Fits
<1>4. RecordOf(text) = head \o bytes
  BY DEF RecordOf
<1>5. \A i \in 1 .. 4 : head[i] = PackU32LE(Len(text))[i]
  OBVIOUS
<1> HIDE DEF bytes, head
<1> DEFINE r == head \o bytes
<1>6. /\ r \in Seq(Octet) /\ Len(r) = Len(head) + Len(bytes)
      /\ \A i \in 1 .. Len(head) : r[i] = head[i]
      /\ \A i \in 1 .. Len(bytes) : r[Len(head) + i] = bytes[i]
  <2>1. head \in Seq(Octet)
    BY <1>3
  <2>2. bytes \in Seq(Octet)
    BY <1>2
  <2> HIDE DEF r
  <2>3. r \in Seq(Octet) /\ Len(r) = Len(head) + Len(bytes)
    BY <2>1, <2>2 DEF r
  <2>4. \A i \in 1 .. Len(head) : r[i] = head[i]
    BY <2>1, <2>2 DEF r
  <2>5. \A i \in 1 .. Len(bytes) : r[Len(head) + i] = bytes[i]
    BY <2>1, <2>2 DEF r
  <2>6. QED  BY <2>3, <2>4, <2>5
<1> HIDE DEF r
<1>7. \A i \in 1 .. 4 : r[i] = head[i]
  BY <1>3, <1>6
<1>8. \A i \in 1 .. Len(text) : r[4 + i] = bytes[i]
  BY <1>2, <1>3, <1>6
<1>9. QED  BY <1>1, <1>2, <1>3, <1>4, <1>5, <1>6, <1>7, <1>8 DEF r

\* The text of a cell's byte.
LEMMA CellsBack ==
    ASSUME NEW c \in DOMAIN Code
    PROVE  CellOf[Code[c]] = c
<1>1. Code[c] \in Octet /\ {d \in DOMAIN Code : Code[d] = Code[c]} = {c}
  BY CodeAssumption DEF CodeAssumption, IsInjective
<1>2. QED  BY <1>1 DEF CellOf

\* A record that is whole is read, whatever follows it.
LEMMA RecordRead ==
    ASSUME NEW text, Fits(text), NEW c \in Seq(Octet)
    PROVE  /\ RecordOf(text) \o c \in Seq(Octet)
           /\ IsWhole(RecordOf(text) \o c)
           /\ PayloadOf(RecordOf(text) \o c) = text
           /\ Behind(RecordOf(text) \o c) = c
<1> DEFINE r == RecordOf(text)
           b == r \o c
           N == Len(text)
           U == UnpackU32LE(b)
<1>1. r \in Seq(Octet) /\ Len(r) = 4 + N /\ N \in Nat
  BY RecordBytes
<1>2. /\ \A i \in 1 .. 4 : r[i] = PackU32LE(N)[i]
      /\ \A i \in 1 .. N : r[4 + i] = Code[text[i]]
  BY RecordBytes
<1> HIDE DEF r
<1>3. /\ b \in Seq(Octet) /\ Len(b) = 4 + N + Len(c) /\ Len(c) \in Nat
      /\ \A i \in 1 .. 4 + N : b[i] = r[i]
      /\ \A i \in 1 .. Len(c) : b[4 + N + i] = c[i]
  BY <1>1
<1> HIDE DEF b
<1>4. U = N
  <2>1. 1 \in 1 .. 4 /\ 2 \in 1 .. 4 /\ 3 \in 1 .. 4 /\ 4 \in 1 .. 4 /\ \A i \in 1 .. 4 : i \in 1 .. 4 + N
    BY <1>1
  <2> DEFINE p == PackU32LE(N)
  <2>2. b[1] = p[1] /\ b[2] = p[2] /\ b[3] = p[3] /\ b[4] = p[4]
    BY <1>2, <1>3, <2>1
  <2>3. U = UnpackU32LE(p)
    <3> HIDE DEF p
    <3>1. QED  BY <2>2 DEF UnpackU32LE
  <2>4. QED  BY <1>1, <2>3, Packed DEF Fits
<1> HIDE DEF U
<1>5. IsWhole(b)
  BY <1>1, <1>3, <1>4 DEF IsWhole, U
<1>6. PayloadOf(b) = text
  <2>1. \A i \in 1 .. N : CellOf[b[4 + i]] = text[i]
    <3>1. ASSUME NEW i \in 1 .. N PROVE CellOf[b[4 + i]] = text[i]
      <4>1. text[i] \in DOMAIN Code
        BY DEF Fits
      <4>2. b[4 + i] = Code[text[i]]
        BY <1>1, <1>2, <1>3
      <4>3. QED  BY <4>1, <4>2, CellsBack
    <3>2. QED  BY <3>1
  <2>2. PayloadOf(b) = [i \in 1 .. N |-> CellOf[b[4 + i]]]
    BY <1>4 DEF PayloadOf, U
  <2>3. text = [i \in 1 .. N |-> text[i]]
    BY DEF Fits
  <2> HIDE DEF N
  <2>4. QED  BY <2>1, <2>2, <2>3
<1>7. Behind(b) = c
  <2>1. Behind(b) = SubSeq(b, 5 + N, Len(b))
    BY <1>4 DEF Behind, U
  <2> DEFINE q == SubSeq(b, 5 + N, Len(b))
  <2>2. Len(q) = Len(c) /\ q \in Seq(Octet) /\ \A i \in 1 .. Len(c) : q[i] = b[5 + N + i - 1]
    <3> HIDE DEF N
    <3>1. QED  BY <1>1, <1>3
  <2>3. \A i \in 1 .. Len(c) : 5 + N + i - 1 = 4 + N + i
    BY <1>1
  <2> HIDE DEF q, N
  <2>4. \A i \in 1 .. Len(c) : q[i] = c[i]
    BY <1>3, <2>2, <2>3
  <2>5. q = c
    BY <2>2, <2>4
  <2>6. QED  BY <2>1, <2>5 DEF q
<1>8. QED  BY <1>3, <1>5, <1>6, <1>7 DEF b, r

\* A record that is cut short is not whole.
LEMMA CutRecord ==
    ASSUME NEW text, Fits(text), NEW n \in Nat, n < Len(RecordOf(text))
    PROVE  /\ SubSeq(RecordOf(text), 1, n) \in Seq(Octet)
           /\ Len(SubSeq(RecordOf(text), 1, n)) = n
           /\ ~IsWhole(SubSeq(RecordOf(text), 1, n))
<1> DEFINE r == RecordOf(text)
           q == SubSeq(r, 1, n)
           N == Len(text)
<1>1. /\ r \in Seq(Octet) /\ Len(r) = 4 + N /\ N \in Nat
      /\ \A i \in 1 .. 4 : r[i] = PackU32LE(N)[i]
  BY RecordBytes
<1> HIDE DEF r
<1>2. q \in Seq(Octet) /\ Len(q) = n /\ \A i \in 1 .. n : q[i] = r[i]
  BY <1>1 DEF r
<1> HIDE DEF q
<1>3. CASE n < 4
  BY <1>2, <1>3 DEF IsWhole, q, r
<1>4. CASE n >= 4
  <2> DEFINE p == PackU32LE(N)
  <2>1. 1 \in 1 .. n /\ 2 \in 1 .. n /\ 3 \in 1 .. n /\ 4 \in 1 .. n
    BY <1>4
  <2>2. q[1] = p[1] /\ q[2] = p[2] /\ q[3] = p[3] /\ q[4] = p[4]
    BY <1>1, <1>2, <2>1
  <2>3. UnpackU32LE(q) = UnpackU32LE(p)
    <3> HIDE DEF p
    <3>1. QED  BY <2>2 DEF UnpackU32LE
  <2>4. UnpackU32LE(q) = N
    BY <1>1, <2>3, Packed DEF Fits
  <2> HIDE DEF p
  <2>5. ~IsWhole(q)
    <3>1. n < 4 + N
      BY <1>1 DEF r
    <3>2. QED  BY <1>1, <1>2, <2>4, <3>1 DEF IsWhole
  <2>6. QED  BY <1>2, <2>5 DEF q, r
<1>5. QED  BY <1>3, <1>4

\* Behind a whole record the log is shorter.
LEMMA BehindIsShorter ==
    ASSUME NEW b \in Seq(Octet), IsWhole(b)
    PROVE  Behind(b) \in Seq(Octet) /\ Len(Behind(b)) < Len(b)
<1> DEFINE U == UnpackU32LE(b)
<1>1. Len(b) \in Nat /\ Len(b) >= 4 /\ Len(b) - 4 >= U
  BY DEF IsWhole
<1>2. U \in Nat
  <2>1. b[1] \in Octet /\ b[2] \in Octet /\ b[3] \in Octet /\ b[4] \in Octet
    BY <1>1
  <2>2. \A x \in Octet : x \in Nat
    BY DEF Octet
  <2>3. b[1] \in Nat /\ b[2] \in Nat /\ b[3] \in Nat /\ b[4] \in Nat
    BY <2>1, <2>2
  <2>4. PICK w, x, y, z \in Nat : w = b[1] /\ x = b[2] /\ y = b[3] /\ z = b[4]
    BY <2>3
  <2>5. U = w + 256 * x + 65536 * y + 16777216 * z
    BY <2>4 DEF UnpackU32LE
  <2>6. w + 256 * x + 65536 * y + 16777216 * z \in Nat
    OBVIOUS
  <2> HIDE DEF U
  <2>7. QED  BY <2>5, <2>6
<1>3. Behind(b) = SubSeq(b, 5 + U, Len(b))
  BY DEF Behind
<1> HIDE DEF U
<1>4. QED  BY <1>1, <1>2, <1>3

\* Replay is the function that its equation describes.
LEMMA ReplayIs ==
    /\ Replay[<<>>] = <<>>
    /\ \A b \in Seq(Octet) :
        Replay[b] = IF IsWhole(b) THEN DocsOf(PayloadOf(b)) \o Replay[Behind(b)] ELSE <<>>
    /\ \A b \in Seq(Octet) : Replay[b] \in Seq({DocFromJson(PayloadOf(a)) : a \in Seq(Octet)})
<1> DEFINE D == Seq(Octet)
           V == {DocFromJson(PayloadOf(a)) : a \in Seq(Octet)}
           S == Seq(V)
           Stop == {b \in D : ~IsWhole(b)}
           base == [b \in D |-> <<>>]
           P == [b \in D \ Stop |-> Behind(b)]
           G == [x \in (D \ Stop) \X S |-> DocsOf(PayloadOf(x[1])) \o x[2]]
           m == [b \in D |-> Len(b)]
           Def(f) == [b \in D |-> IF IsWhole(b) THEN DocsOf(PayloadOf(b)) \o f[Behind(b)] ELSE <<>>]
<1>1. \A b \in D : DocsOf(PayloadOf(b)) \in S
  <2>1. ASSUME NEW b \in D PROVE DocsOf(PayloadOf(b)) \in S
    <3>1. DocFromJson(PayloadOf(b)) \in V
      OBVIOUS
    <3> HIDE DEF V
    <3>2. QED  BY <3>1 DEF DocsOf
  <2>2. QED  BY <2>1
<1>2. Decreases(D, S, Stop, base, P, G, m)
  <2>1. base \in [D -> S]
    OBVIOUS
  <2>2. P \in [D \ Stop -> D] /\ \A b \in D \ Stop : m[P[b]] < m[b]
    BY BehindIsShorter
  <2>3. G \in [(D \ Stop) \X S -> S]
    <3> HIDE DEF V
    <3>1. ASSUME NEW x \in (D \ Stop) \X S PROVE DocsOf(PayloadOf(x[1])) \o x[2] \in S
      <4>1. DocsOf(PayloadOf(x[1])) \in S /\ x[2] \in S
        BY <1>1
      <4>2. QED  BY <4>1
    <3> HIDE DEF S, D, Stop
    <3>2. QED  BY <3>1
  <2>4. m \in [D -> Nat] /\ Stop \in SUBSET D
    OBVIOUS
  <2> HIDE DEF D, S, Stop, base, P, G, m
  <2>5. QED  BY <2>1, <2>2, <2>3, <2>4 DEF Decreases
<1>3. PICK f \in [D -> S] : Unfolds(f, D, Stop, base, P, G)
  <2> HIDE DEF D, S, Stop, base, P, G, m
  <2>1. QED  BY <1>2, Recursion
<1>4. f = Def(f)
  <2>1. ASSUME NEW b \in D
        PROVE  f[b] = IF IsWhole(b) THEN DocsOf(PayloadOf(b)) \o f[Behind(b)] ELSE <<>>
    <3>1. CASE ~IsWhole(b)
      BY <1>3, <3>1 DEF Unfolds
    <3>2. CASE IsWhole(b)
      <4>1. b \in D \ Stop /\ P[b] = Behind(b) /\ Behind(b) \in D
        BY <3>2, BehindIsShorter
      <4>2. f[P[b]] \in S
        <5> HIDE DEF D, S
        <5>1. QED  BY <4>1
      <4>3. G[<<b, f[P[b]]>>] = DocsOf(PayloadOf(b)) \o f[P[b]]
        <5> DEFINE x == <<b, f[P[b]]>>
        <5>1. x \in (D \ Stop) \X S /\ x[1] = b /\ x[2] = f[P[b]]
          BY <4>1, <4>2
        <5> HIDE DEF x, D, S, Stop
        <5>2. QED  BY <5>1 DEF x
      <4> HIDE DEF G, P, base, Stop, S
      <4>4. QED  BY <1>3, <3>2, <4>1, <4>3 DEF Unfolds
    <3>3. QED  BY <3>1, <3>2
  <2> HIDE DEF D, S
  <2>2. QED  BY <2>1
<1>5. Replay = Def(Replay)
  <2>1. Replay = CHOOSE g : g = Def(g)
    BY DEF Replay
  <2>2. QED  BY <1>4, <2>1
<1>6. \A b \in D : Replay[b] = IF IsWhole(b) THEN DocsOf(PayloadOf(b)) \o Replay[Behind(b)] ELSE <<>>
  BY <1>5
<1>7. Replay[<<>>] = <<>>
  <2>1. <<>> \in D /\ ~IsWhole(<<>>)
    BY DEF IsWhole
  <2>2. QED  BY <1>6, <2>1
<1>8. \A b \in D : Replay[b] \in S
  <2> DEFINE T == {n \in Nat : \A b \in D : Len(b) = n => Replay[b] \in S}
  <2>1. ASSUME NEW n \in Nat, \A k \in Nat : k < n => k \in T PROVE n \in T
    <3>1. ASSUME NEW b \in D, Len(b) = n PROVE Replay[b] \in S
      <4>1. CASE ~IsWhole(b)
        <5>1. Replay[b] = <<>>
          BY <1>6, <4>1
        <5> HIDE DEF V
        <5>2. QED  BY <5>1
      <4>2. CASE IsWhole(b)
        <5>1. Behind(b) \in D /\ Len(Behind(b)) \in Nat /\ Len(Behind(b)) < n
          BY <3>1, <4>2, BehindIsShorter
        <5>2. Replay[Behind(b)] \in S
          BY <2>1, <5>1
        <5>3. DocsOf(PayloadOf(b)) \in S
          BY <1>1
        <5>4. Replay[b] = DocsOf(PayloadOf(b)) \o Replay[Behind(b)]
          BY <1>6, <4>2
        <5> HIDE DEF V
        <5>5. QED  BY <5>2, <5>3, <5>4
      <4>3. QED  BY <4>1, <4>2
    <3> HIDE DEF D, S
    <3>2. QED  BY <3>1
  <2>2. \A n \in Nat : n \in T
    <3> HIDE DEF T
    <3>1. QED  BY <2>1, StrongInduction
  <2>3. \A b \in D : Len(b) \in Nat
    OBVIOUS
  <2> HIDE DEF D, S
  <2>4. QED  BY <2>2, <2>3
<1>9. QED  BY <1>6, <1>7, <1>8


-----------------------------------------------------------------------------
(* The document of a record.                                               *)

\* A record says its document: the fields that were strings, if it has an id.
Says(text, doc, strings) ==
    DocFromJson(text) = IF doc.id = <<>> THEN NoDoc
                        ELSE AsReplayed([doc |-> doc, strings |-> strings])

LEMMA PostedIsSaid ==
    ASSUME NEW body, ReadText(body).ok, ReadText(body).val.type = "object"
    PROVE  Says(body, PostedDoc(ReadText(body).val), StringsOf(ReadText(body).val))
<1> DEFINE v == ReadText(body).val
           doc == PostedDoc(v)
           strings == StringsOf(v)
           texts == {k \in DOMAIN v.o \ {kIdName} :
                        /\ ~IsWeights(k, v.o[k]) /\ ~IsQuality(k, v.o[k])
                        /\ v.o[k].type \in {"string", "number", "bool"}}
           kept == [k \in strings \ {kIdName} |-> v.o[k].s]
<1> HIDE DEF v
<1>1. doc.id = TextOf(v, "_id", <<>>) /\ doc.fields = [k \in texts |-> FieldText(v.o[k])]
  BY DEF PostedDoc, Document
<1>2. \A k \in strings : k # kIdName => k \in texts /\ FieldText(v.o[k]) = v.o[k].s
  BY DEF StringsOf, IsWeights, IsQuality, FieldText
<1>3. \A k \in texts : k # kIdName
  OBVIOUS
<1>4. DocFromJson(body) = IF doc.id = <<>> THEN NoDoc ELSE Document(doc.id, kept, <<>>, NoQuality)
  <2>1. DocFromJson(body) = DocFromValue(v)
    BY DEF DocFromJson, v
  <2>2. v.type = "object"
    BY DEF v
  <2> HIDE DEF doc
  <2>3. QED  BY <1>1, <2>1, <2>2 DEF DocFromValue
<1>5. kept = [k \in DOMAIN doc.fields \cap strings |-> doc.fields[k]]
  <2> DEFINE fields == doc.fields
  <2>1. DOMAIN fields = texts /\ \A k \in texts : fields[k] = FieldText(v.o[k])
    BY <1>1
  <2> HIDE DEF doc, texts, strings, fields
  <2>2. strings \ {kIdName} = DOMAIN fields \cap strings
    BY <1>2, <1>3, <2>1
  <2>3. \A k \in strings \ {kIdName} : v.o[k].s = fields[k]
    BY <1>2, <2>1
  <2>4. kept = [k \in DOMAIN fields \cap strings |-> fields[k]]
    BY <2>2, <2>3
  <2>5. QED  BY <2>4 DEF fields
<1>6. AsReplayed([doc |-> doc, strings |-> strings]) = Document(doc.id, kept, <<>>, NoQuality)
  <2> HIDE DEF doc, strings, kept
  <2>1. QED  BY <1>5 DEF AsReplayed
<1> HIDE DEF doc, strings, kept
<1>7. Says(body, doc, strings)
  BY <1>4, <1>6 DEF Says
<1>8. QED  BY <1>7 DEF doc, strings, v

LEMMA LibraryIsSaid ==
    ASSUME NEW d \in LibraryDocs
    PROVE  Says(DocToJson(d), d, DOMAIN d.fields)
<1> DEFINE v == DocValue(d)
           F == DOMAIN d.fields
           kept == [k \in StringsOf(v) \ {kIdName} |-> v.o[k].s]
<1>1. kIdName \notin F /\ ReadText(DocToJson(d)).ok /\ ReadText(DocToJson(d)).val = v
  BY DocTextAssumption DEF DocTextAssumption
<1>2. /\ v.type = "object" /\ DOMAIN v.o = F \cup {kIdName}
      /\ \A k \in F \cup {kIdName} : v.o[k] = String(IF k \in F THEN d.fields[k] ELSE d.id)
  BY DEF DocValue, Object
<1> HIDE DEF v
<1>3. /\ \A k \in F \cup {kIdName} : v.o[k].type = "string"
      /\ \A k \in F : v.o[k].s = d.fields[k]
      /\ v.o[kIdName].s = d.id
  <2> HIDE DEF F
  <2>1. \A x : String(x).type = "string" /\ String(x).s = x
    BY DEF String
  <2>2. \A k \in F \cup {kIdName} : v.o[k].type = "string"
    BY <1>2, <2>1
  <2>3. ASSUME NEW k \in F PROVE v.o[k].s = d.fields[k]
    <3>1. v.o[k] = String(d.fields[k])
      BY <1>2
    <3>2. QED  BY <2>1, <3>1
  <2>4. v.o[kIdName].s = d.id
    <3>1. v.o[kIdName] = String(d.id)
      BY <1>1, <1>2
    <3>2. QED  BY <2>1, <3>1
  <2>5. QED  BY <2>2, <2>3, <2>4
<1>4. StringsOf(v) \ {kIdName} = F
  BY <1>1, <1>2, <1>3 DEF StringsOf
<1>5. TextOf(v, "_id", <<>>) = d.id
  BY <1>2, <1>3 DEF TextOf, HasOf, Has, kIdName
<1>6. DocFromJson(DocToJson(d)) = IF d.id = <<>> THEN NoDoc ELSE Document(d.id, kept, <<>>, NoQuality)
  <2>1. DocFromJson(DocToJson(d)) = DocFromValue(v)
    BY <1>1 DEF DocFromJson
  <2>2. QED  BY <1>2, <1>5, <2>1 DEF DocFromValue
<1>7. kept = [k \in F \cap F |-> d.fields[k]]
  BY <1>3, <1>4
<1>8. AsReplayed([doc |-> d, strings |-> F]) = Document(d.id, kept, <<>>, NoQuality)
  <2> HIDE DEF kept
  <2>1. AsReplayed([doc |-> d, strings |-> F])
          = Document(d.id, [k \in DOMAIN d.fields \cap F |-> d.fields[k]], <<>>, NoQuality)
    BY DEF AsReplayed
  <2>2. QED  BY <1>7, <2>1
<1> HIDE DEF kept, F
<1>9. QED  BY <1>6, <1>8 DEF Says, F

\* What a record adds when the log is replayed.
LEMMA SaidDocs ==
    ASSUME NEW text, NEW doc, NEW strings, Says(text, doc, strings)
    PROVE  DocsOf(text) = IF doc.id = <<>> THEN <<>>
                          ELSE << AsReplayed([doc |-> doc, strings |-> strings]) >>
<1> DEFINE r == AsReplayed([doc |-> doc, strings |-> strings])
<1>1. r # NoDoc
  <2>1. r.quality = NoQuality /\ DOMAIN r = {"id", "fields", "weights", "quality"}
    BY DEF AsReplayed, Document
  <2>2. DOMAIN NoDoc = {"found"}
    BY DEF NoDoc
  <2> HIDE DEF r
  <2>3. QED  BY <2>1, <2>2
<1> HIDE DEF r
<1>2. QED  BY <1>1 DEF Says, DocsOf, r

-----------------------------------------------------------------------------
(* The log.                                                                *)

DocsRead == {DocFromJson(PayloadOf(b)) : b \in Seq(Octet)}

\* Whatever follows b in the log, the documents of b come first.
Prefixed(b, d) == \A c \in Seq(Octet) : Replay[b \o c] = d \o Replay[c]

LEMMA Associates ==
    ASSUME NEW V, NEW p \in Seq(V), NEW q \in Seq(V), NEW r \in Seq(V)
    PROVE  (p \o q) \o r = p \o (q \o r)
OBVIOUS

LEMMA DocsOfRead ==
    ASSUME NEW text, Fits(text)
    PROVE  DocsOf(text) \in Seq(DocsRead)
<1>1. <<>> \in Seq(Octet)
  OBVIOUS
<1>2. DocFromJson(text) \in DocsRead
  BY <1>1, RecordRead DEF DocsRead
<1> HIDE DEF DocsRead
<1>3. QED  BY <1>2 DEF DocsOf

LEMMA EmptyPrefixed == Prefixed(<<>>, <<>>)
<1>1. ASSUME NEW c \in Seq(Octet) PROVE Replay[<<>> \o c] = <<>> \o Replay[c]
  <2>1. <<>> \o c = c
    OBVIOUS
  <2>2. Replay[c] \in Seq(DocsRead)
    BY ReplayIs DEF DocsRead
  <2> DEFINE r == Replay[c]
  <2> HIDE DEF r
  <2>3. <<>> \o r = r
    BY <2>2 DEF r
  <2>4. QED  BY <2>1, <2>3 DEF r
<1>2. QED  BY <1>1 DEF Prefixed

LEMMA PrefixedMore ==
    ASSUME NEW a \in Seq(Octet), NEW d \in Seq(DocsRead), Prefixed(a, d), NEW text, Fits(text)
    PROVE  /\ a \o RecordOf(text) \in Seq(Octet)
           /\ Prefixed(a \o RecordOf(text), d \o DocsOf(text))
<1> DEFINE r == RecordOf(text)
           more == DocsOf(text)
<1>1. r \in Seq(Octet)
  BY RecordBytes
<1>2. more \in Seq(DocsRead)
  BY DocsOfRead
<1>3. \A c \in Seq(Octet) : r \o c \in Seq(Octet) /\ Replay[r \o c] = more \o Replay[c]
  <2>1. ASSUME NEW c \in Seq(Octet) PROVE r \o c \in Seq(Octet) /\ Replay[r \o c] = more \o Replay[c]
    <3> DEFINE b == r \o c
    <3>1. b \in Seq(Octet) /\ IsWhole(b) /\ PayloadOf(b) = text /\ Behind(b) = c
      BY RecordRead
    <3> HIDE DEF b
    <3>2. Replay[b] = DocsOf(PayloadOf(b)) \o Replay[Behind(b)]
      BY <3>1, ReplayIs
    <3>3. QED  BY <3>1, <3>2 DEF b
  <2>2. QED  BY <2>1
<1> HIDE DEF r, more
<1>4. ASSUME NEW c \in Seq(Octet) PROVE Replay[(a \o r) \o c] = (d \o more) \o Replay[c]
  <2> DEFINE rest == Replay[c]
             b == r \o c
  <2>1. (a \o r) \o c = a \o b
    BY <1>1, Associates, SMTT(30)
  <2>2. b \in Seq(Octet) /\ Replay[b] = more \o rest
    BY <1>3
  <2>3. rest \in Seq(DocsRead)
    BY ReplayIs DEF DocsRead
  <2> HIDE DEF b, rest
  <2>4. Replay[a \o b] = d \o (more \o rest)
    BY <2>2 DEF Prefixed
  <2>5. (d \o more) \o rest = d \o (more \o rest)
    BY <1>2, <2>3, Associates
  <2>6. QED  BY <2>1, <2>4, <2>5 DEF rest
<1>5. a \o r \in Seq(Octet)
  BY <1>1
<1>6. Prefixed(a \o r, d \o more)
  BY <1>4 DEF Prefixed
<1>7. QED  BY <1>5, <1>6 DEF r, more


-----------------------------------------------------------------------------
(* The inductive invariant.                                                *)

\* What can be sent: a document and those of its fields that were strings.
Entry ==
    {[doc |-> PostedDoc(ReadText(b).val), strings |-> StringsOf(ReadText(b).val)] : b \in DocBodies}
    \cup {[doc |-> d, strings |-> DOMAIN d.fields] : d \in LibraryDocs}

Replayed(s) == [i \in DOMAIN s |-> AsReplayed(s[i])]

\* The log l is a, the records up to the first torn one, and c, what follows.
LogIs(l, s, isTorn, begun) ==
    \E a, c \in Seq(Octet) :
        /\ l = a \o c /\ Prefixed(a, Replayed(s))
        /\ ~isTorn => c = <<>>
        /\ isTorn /\ begun = Len(s) + 1 => Replay[c] = <<>>

LogInv ==
    /\ torn \in BOOLEAN /\ appends \in 0 .. MaxAppends
    /\ sent \in Seq(Entry) /\ Replayed(sent) \in Seq(DocsRead)
    /\ Len(sent) <= appends /\ (torn => Len(sent) + 1 <= appends)
    /\ LogIs(log, sent, torn, appends)

DocsInv ==
    /\ docs \in Seq(DocsRead \cup {e.doc : e \in Entry})
    /\ restored \in 0 .. Len(docs)
    /\ schema = NoSchema => docs = <<>> /\ restored = 0
    /\ RecoveredAsPosted

SchemaInv ==
    /\ schema \in {NoSchema, made, WrittenSchema(made)}
    /\ schema_file # NoFile =>
        /\ made \in InitialSchemas
        /\ \E n \in 0 .. Len(SchemaText(made)) :
               schema_file = [exists |-> TRUE, text |-> SubSeq(SchemaText(made), 1, n)]
    /\ schema_file = NoFile => schema = NoSchema /\ sent = <<>>

LEMMA InitLog == Init => LogInv /\ DocsInv /\ SchemaInv
<1> SUFFICES ASSUME Init PROVE LogInv /\ DocsInv /\ SchemaInv
  OBVIOUS
<1>1. sent = <<>> /\ log = <<>> /\ docs = <<>> /\ appends = 0 /\ restored = 0 /\ torn = FALSE
  BY DEF Init
<1>2. Replayed(<<>>) = <<>>
  BY DEF Replayed
<1>3. LogIs(<<>>, <<>>, FALSE, 0)
  <2>1. <<>> \in Seq(Octet) /\ <<>> = <<>> \o <<>>
    OBVIOUS
  <2>2. Prefixed(<<>>, Replayed(<<>>))
    BY <1>2, EmptyPrefixed
  <2>3. QED  BY <2>1, <2>2, Zenon DEF LogIs
<1>4. LogInv
  <2>1. /\ torn \in BOOLEAN /\ appends \in 0 .. MaxAppends /\ sent \in Seq(Entry)
        /\ Len(sent) <= appends /\ (torn => Len(sent) + 1 <= appends)
    <3>1. MaxAppends \in Nat
      BY CodeAssumption DEF CodeAssumption
    <3>2. <<>> \in Seq(Entry) /\ Len(<<>>) = 0
      OBVIOUS
    <3>3. torn \in BOOLEAN /\ (torn => Len(sent) + 1 <= appends)
      BY <1>1, Zenon
    <3>4. appends \in 0 .. MaxAppends /\ sent \in Seq(Entry) /\ Len(sent) <= appends
      BY <1>1, <3>1, <3>2
    <3>5. QED  BY <3>3, <3>4, Zenon
  <2>2. Replayed(sent) \in Seq(DocsRead)
    <3>1. <<>> \in Seq(DocsRead)
      OBVIOUS
    <3>2. Replayed(sent) = <<>>
      BY <1>1, <1>2
    <3>3. QED  BY <3>1, <3>2
  <2>3. LogIs(log, sent, torn, appends)
    BY <1>1, <1>3
  <2>4. QED  BY <2>1, <2>2, <2>3 DEF LogInv
<1>5. DocsInv
  BY <1>1 DEF DocsInv, Init, RecoveredAsPosted
<1>6. SchemaInv
  BY <1>1 DEF SchemaInv, Init
<1>7. QED  BY <1>4, <1>5, <1>6

LEMMA SentMore ==
    ASSUME NEW s \in Seq(Entry), NEW e \in Entry, Replayed(s) \in Seq(DocsRead),
           AsReplayed(e) \in DocsRead
    PROVE  /\ Append(s, e) \in Seq(Entry) /\ Len(Append(s, e)) = Len(s) + 1
           /\ Replayed(Append(s, e)) = Replayed(s) \o <<AsReplayed(e)>>
           /\ Replayed(Append(s, e)) \in Seq(DocsRead)
<1> DEFINE t == Append(s, e)
           r == Replayed(s)
           q == Replayed(t)
           one == AsReplayed(e)
<1>1. /\ t \in Seq(Entry) /\ Len(t) = Len(s) + 1 /\ DOMAIN t = 1 .. Len(s) + 1
      /\ t[Len(s) + 1] = e /\ \A i \in 1 .. Len(s) : t[i] = s[i]
  OBVIOUS
<1>2. DOMAIN r = 1 .. Len(s) /\ \A i \in 1 .. Len(s) : r[i] = AsReplayed(s[i])
  BY DEF Replayed
<1>3. q = [i \in 1 .. Len(s) + 1 |-> AsReplayed(t[i])]
  BY <1>1 DEF Replayed
<1> HIDE DEF t, r, one
<1>4. Len(s) \in Nat /\ Len(r) = Len(s) /\ r \in Seq(DocsRead) /\ one \in DocsRead
  BY <1>2 DEF r, one
<1>5. \A i \in 1 .. Len(s) : q[i] = r[i] /\ q[i] \in DocsRead
  <2>1. ASSUME NEW i \in 1 .. Len(s) PROVE q[i] = r[i] /\ q[i] \in DocsRead
    <3>1. i \in 1 .. Len(s) + 1 /\ t[i] = s[i]
      BY <1>1, <1>4
    <3>2. q[i] = AsReplayed(t[i])
      BY <1>3, <3>1
    <3>3. r[i] \in DocsRead
      BY <1>2, <1>4
    <3> HIDE DEF q
    <3>4. QED  BY <1>2, <3>1, <3>2, <3>3
  <2> HIDE DEF q
  <2>2. QED  BY <2>1
<1>6. q[Len(s) + 1] = one
  <2>1. q[Len(s) + 1] = AsReplayed(t[Len(s) + 1])
    BY <1>3, <1>4
  <2>2. QED  BY <1>1, <2>1 DEF one
<1>7. q = [i \in 1 .. Len(s) + 1 |-> q[i]]
  BY <1>3
<1> HIDE DEF q
<1>8. \A i \in 1 .. Len(s) + 1 : i = Len(s) + 1 \/ i \in 1 .. Len(s)
  BY <1>4
<1>9. q \in Seq(DocsRead)
  <2>1. \A i \in 1 .. Len(s) + 1 : q[i] \in DocsRead
    BY <1>4, <1>5, <1>6, <1>8
  <2>2. q \in [1 .. Len(s) + 1 -> DocsRead]
    BY <1>7, <2>1
  <2>3. Len(s) + 1 \in Nat
    BY <1>4
  <2> HIDE DEF DocsRead
  <2>4. QED  BY <2>2, <2>3
<1>10. q = r \o <<one>>
  <2>1. r \o <<one>> = [i \in 1 .. Len(s) + 1 |-> IF i = Len(s) + 1 THEN one ELSE r[i]]
    BY <1>4
  <2>2. QED  BY <1>5, <1>6, <1>7, <1>8, <2>1
<1>11. QED  BY <1>1, <1>9, <1>10 DEF t, r, q, one

LEMMA LoggedKeeps ==
    ASSUME LogInv, NEW doc, NEW strings, NEW text, NEW n \in 0 .. Len(RecordOf(text)),
           Fits(text), Says(text, doc, strings),
           [doc |-> doc, strings |-> strings] \in Entry,
           appends < MaxAppends, Logged(doc, strings, text, n)
    PROVE  LogInv'
<1> DEFINE e == [doc |-> doc, strings |-> strings]
           r == RecordOf(text)
           part == SubSeq(r, 1, n)
           kept == doc.id # <<>>
<1>1. r \in Seq(Octet) /\ Len(r) \in Nat /\ Len(r) >= 4
  BY RecordBytes
<1>2. n \in Nat /\ n <= Len(r)
  BY <1>1
<1>3. /\ log' = log \o part /\ appends' = appends + 1
      /\ sent' = IF n = Len(r) /\ ~torn /\ kept THEN Append(sent, e) ELSE sent
      /\ torn' = (torn \/ (n # Len(r) /\ n > 0))
  BY DEF Logged
<1>4. /\ torn \in BOOLEAN /\ appends \in Nat /\ appends + 1 \in 0 .. MaxAppends
      /\ sent \in Seq(Entry) /\ Replayed(sent) \in Seq(DocsRead) /\ Len(sent) \in Nat
      /\ Len(sent) <= appends /\ (torn => Len(sent) + 1 <= appends)
  BY CodeAssumption DEF LogInv, CodeAssumption
<1>5. PICK a \in Seq(Octet), c \in Seq(Octet) :
        /\ log = a \o c /\ Prefixed(a, Replayed(sent))
        /\ ~torn => c = <<>>
        /\ torn /\ appends = Len(sent) + 1 => Replay[c] = <<>>
  BY DEF LogInv, LogIs
<1>6. part \in Seq(Octet)
  BY <1>1, <1>2
<1>7. e \in Entry
  OBVIOUS
<1>8. DocsOf(text) = IF kept THEN <<AsReplayed(e)>> ELSE <<>>
  BY SaidDocs
<1>9. kept => AsReplayed(e) \in DocsRead
  <2>1. <<>> \in Seq(Octet)
    OBVIOUS
  <2>2. DocFromJson(text) \in DocsRead
    BY <2>1, RecordRead DEF DocsRead
  <2>3. QED  BY <2>2 DEF Says
<1>10. n = Len(r) => part = r
  BY <1>1
<1>11. n = 0 => part = <<>>
  BY <1>1
<1>12. n < Len(r) => ~IsWhole(part)
  BY <1>2, CutRecord
<1> HIDE DEF e, r, part, kept
<1>13. CASE ~torn /\ n = Len(r) /\ kept
  <2>1. log' = a \o r /\ sent' = Append(sent, e) /\ torn' = FALSE /\ appends' = appends + 1
    <3>1. log = a
      BY <1>5, <1>13
    <3>2. QED  BY <1>3, <1>10, <1>13, <3>1
  <2>2. /\ sent' \in Seq(Entry) /\ Len(sent') = Len(sent) + 1
        /\ Replayed(sent') = Replayed(sent) \o DocsOf(text)
        /\ Replayed(sent') \in Seq(DocsRead)
    <3>1. AsReplayed(e) \in DocsRead
      BY <1>9, <1>13
    <3>2. DocsOf(text) = <<AsReplayed(e)>>
      BY <1>8, <1>13
    <3>3. QED  BY <1>4, <1>7, <2>1, <3>1, <3>2, SentMore
  <2>3. a \o r \in Seq(Octet) /\ Prefixed(a \o r, Replayed(sent'))
    BY <1>4, <1>5, <2>2, PrefixedMore DEF r
  <2>4. LogIs(log', sent', torn', appends')
    <3>1. (a \o r) \o <<>> = a \o r /\ <<>> \in Seq(Octet)
      BY <2>3
    <3>2. QED  BY <2>1, <2>3, <3>1 DEF LogIs
  <2>5. appends' \in 0 .. MaxAppends /\ Len(sent') <= appends'
    BY <1>4, <2>1, <2>2
  <2>6. torn' \in BOOLEAN /\ (torn' => Len(sent') + 1 <= appends')
    BY <2>1, Zenon
  <2>7. QED  BY <2>2, <2>4, <2>5, <2>6, Zenon DEF LogInv
<1>14. CASE ~torn /\ n = Len(r) /\ ~kept
  <2>1. log' = a \o r /\ sent' = sent /\ torn' = FALSE /\ appends' = appends + 1
    <3>1. log = a
      BY <1>5, <1>14
    <3>2. QED  BY <1>3, <1>10, <1>14, <3>1
  <2>2. Replayed(sent) \o DocsOf(text) = Replayed(sent)
    <3>1. DocsOf(text) = <<>>
      BY <1>8, <1>14
    <3> DEFINE s == Replayed(sent)
    <3> HIDE DEF s
    <3>2. s \o <<>> = s
      BY <1>4 DEF s
    <3>3. QED  BY <3>1, <3>2 DEF s
  <2>3. a \o r \in Seq(Octet) /\ Prefixed(a \o r, Replayed(sent))
    BY <1>4, <1>5, <2>2, PrefixedMore DEF r
  <2>4. LogIs(log', sent', torn', appends')
    <3>1. (a \o r) \o <<>> = a \o r /\ <<>> \in Seq(Octet)
      BY <2>3
    <3>2. QED  BY <2>1, <2>3, <3>1 DEF LogIs
  <2>5. /\ appends' \in 0 .. MaxAppends /\ Len(sent') <= appends'
        /\ sent' \in Seq(Entry) /\ Replayed(sent') \in Seq(DocsRead)
    BY <1>4, <2>1
  <2>6. torn' \in BOOLEAN /\ (torn' => Len(sent') + 1 <= appends')
    BY <2>1, Zenon
  <2>7. QED  BY <2>4, <2>5, <2>6, Zenon DEF LogInv
<1>15. CASE ~torn /\ n = 0
  <2>1. log' = a \o c /\ sent' = sent /\ torn' = FALSE /\ appends' = appends + 1
    <3>1. (a \o c) \o <<>> = a \o c
      OBVIOUS
    <3>2. n # Len(r) /\ ~(n > 0)
      BY <1>1, <1>15
    <3>3. QED  BY <1>3, <1>5, <1>11, <1>15, <3>1, <3>2
  <2>2. LogIs(log', sent', torn', appends')
    BY <1>5, <1>15, <2>1 DEF LogIs
  <2>3. /\ Replayed(sent') = Replayed(sent) /\ Len(sent) <= appends + 1
    BY <1>4, <2>1
  <2>4. QED  BY <1>4, <2>1, <2>2, <2>3 DEF LogInv
<1>16. CASE ~torn /\ n # 0 /\ n # Len(r)
  <2>1. log' = a \o part /\ sent' = sent /\ torn' = TRUE /\ appends' = appends + 1
    <3>1. log = a
      BY <1>5, <1>16
    <3>2. n > 0
      BY <1>2, <1>16
    <3>3. QED  BY <1>3, <1>16, <3>1, <3>2
  <2>2. Replay[part] = <<>>
    <3>1. ~IsWhole(part)
      BY <1>1, <1>2, <1>12, <1>16
    <3>2. QED  BY <1>6, <3>1, ReplayIs
  <2>3. LogIs(log', sent', torn', appends')
    BY <1>5, <1>6, <2>1, <2>2 DEF LogIs
  <2>4. Len(sent) + 1 <= appends + 1 /\ Len(sent) <= appends + 1
    BY <1>4
  <2>5. Replayed(sent') = Replayed(sent)
    BY <2>1
  <2>6. QED  BY <1>4, <2>1, <2>3, <2>4, <2>5 DEF LogInv
<1>17. CASE torn
  <2>1. log' = a \o (c \o part) /\ sent' = sent /\ torn' = TRUE /\ appends' = appends + 1
    <3>1. (a \o c) \o part = a \o (c \o part)
      BY <1>6, Associates
    <3>2. QED  BY <1>3, <1>5, <1>17, <3>1
  <2>2. c \o part \in Seq(Octet)
    BY <1>6
  <2>3. appends' # Len(sent') + 1
    BY <1>4, <1>17, <2>1
  <2>4. LogIs(log', sent', torn', appends')
    BY <1>5, <2>1, <2>2, <2>3 DEF LogIs
  <2>5. Len(sent) + 1 <= appends + 1 /\ Len(sent) <= appends + 1
    BY <1>4
  <2>6. Replayed(sent') = Replayed(sent)
    BY <2>1
  <2>7. QED  BY <1>4, <2>1, <2>4, <2>5, <2>6 DEF LogInv
<1>18. QED  BY <1>4, <1>13, <1>14, <1>15, <1>16, <1>17


LEMMA AddKeeps ==
    ASSUME LogInv, DocsInv, NEW doc, NEW strings, NEW text,
           [doc |-> doc, strings |-> strings] \in Entry,
           schema # NoSchema, Add(doc, strings, text)
    PROVE  DocsInv'
<1> DEFINE e == [doc |-> doc, strings |-> strings]
           D == DocsRead \cup {x.doc : x \in Entry}
           kept == doc.id # <<>>
<1>1. /\ appends' = appends + 1 /\ schema' = schema /\ restored' = restored
      /\ sent' = IF ~torn /\ kept THEN Append(sent, e) ELSE sent
      /\ docs' = IF kept THEN Append(docs, doc) ELSE docs
  BY DEF Add, Logged
<1>2. torn' = torn
  <2>1. torn' = (torn \/ (Len(RecordOf(text)) # Len(RecordOf(text)) /\ Len(RecordOf(text)) > 0))
    BY Zenon DEF Add, Logged
  <2>2. torn \in BOOLEAN
    BY DEF LogInv
  <2>3. QED  BY <2>1, <2>2, Zenon
<1>3. /\ torn \in BOOLEAN /\ appends \in Nat /\ sent \in Seq(Entry) /\ Len(sent) \in Nat
      /\ Len(sent) <= appends /\ (torn => Len(sent) + 1 <= appends)
  BY CodeAssumption DEF LogInv, CodeAssumption
<1>4. docs \in Seq(D) /\ Len(docs) \in Nat /\ restored \in 0 .. Len(docs)
  BY DEF DocsInv
<1>5. /\ Len(sent) <= Len(docs)
      /\ ~torn \/ appends = Len(sent) + 1 => Len(docs) = Len(sent)
      /\ \A i \in DOMAIN sent :
             docs[i] = IF i <= restored THEN AsReplayed(sent[i]) ELSE sent[i].doc
  BY DEF DocsInv, RecoveredAsPosted
<1>6. doc \in D /\ e \in Entry /\ e.doc = doc
  <2>1. e \in Entry /\ e.doc = doc
    OBVIOUS
  <2> HIDE DEF e
  <2>2. QED  BY <2>1
<1> HIDE DEF e, D, kept
<1>7. CASE ~kept
  <2>1. docs' = docs /\ sent' = sent
    BY <1>1, <1>7
  <2>2. ~torn' \/ appends' = Len(sent') + 1 => Len(docs') = Len(sent')
    <3>1. CASE torn
      BY <1>1, <1>2, <1>3, <2>1, <3>1
    <3>2. CASE ~torn
      BY <1>5, <2>1, <3>2
    <3>3. QED  BY <3>1, <3>2
  <2>3. RecoveredAsPosted'
    BY <1>1, <1>5, <2>1, <2>2 DEF RecoveredAsPosted
  <2>4. QED  BY <1>1, <2>1, <2>3 DEF DocsInv
<1>8. CASE kept
  <2>1. /\ docs' = Append(docs, doc) /\ docs' \in Seq(D) /\ Len(docs') = Len(docs) + 1
        /\ docs'[Len(docs) + 1] = doc
        /\ \A i \in 1 .. Len(docs) : docs'[i] = docs[i]
    BY <1>1, <1>4, <1>6, <1>8
  <2>2. restored' \in 0 .. Len(docs')
    BY <1>1, <1>4, <2>1
  <2>3. RecoveredAsPosted'
    <3>1. CASE torn
      <4>1. sent' = sent
        BY <1>1, <3>1
      <4>2. appends' # Len(sent') + 1 /\ torn'
        BY <1>1, <1>2, <1>3, <3>1, <4>1
      <4>3. Len(sent') <= Len(docs')
        BY <1>3, <1>4, <1>5, <2>1, <4>1
      <4>4. \A i \in DOMAIN sent : i \in 1 .. Len(docs)
        BY <1>3, <1>4, <1>5
      <4>5. \A i \in DOMAIN sent' :
                docs'[i] = IF i <= restored' THEN AsReplayed(sent'[i]) ELSE sent'[i].doc
        BY <1>1, <1>5, <2>1, <4>1, <4>4
      <4>6. QED  BY <4>2, <4>3, <4>5, Zenon DEF RecoveredAsPosted
    <3>2. CASE ~torn
      <4>1. sent' = Append(sent, e) /\ Len(docs) = Len(sent)
        BY <1>1, <1>5, <1>8, <3>2
      <4>2. /\ Len(sent') = Len(sent) + 1 /\ DOMAIN sent' = 1 .. Len(sent) + 1
            /\ sent'[Len(sent) + 1] = e /\ \A i \in 1 .. Len(sent) : sent'[i] = sent[i]
        BY <1>3, <1>6, <4>1
      <4>3. ASSUME NEW i \in DOMAIN sent'
            PROVE  docs'[i] = IF i <= restored' THEN AsReplayed(sent'[i]) ELSE sent'[i].doc
        <5>1. CASE i = Len(sent) + 1
          <6>1. ~(i <= restored')
            BY <1>1, <1>4, <4>1, <5>1
          <6>2. docs'[i] = doc /\ sent'[i] = e
            BY <2>1, <4>1, <4>2, <5>1
          <6>3. QED  BY <1>6, <6>1, <6>2
        <5>2. CASE i # Len(sent) + 1
          <6>1. i \in 1 .. Len(sent) /\ i \in DOMAIN sent
            BY <1>3, <4>2, <5>2
          <6>2. docs'[i] = docs[i] /\ sent'[i] = sent[i]
            BY <2>1, <4>1, <4>2, <6>1
          <6>3. QED  BY <1>1, <1>5, <6>1, <6>2
        <5>3. QED  BY <5>1, <5>2
      <4>4. Len(sent') = Len(docs') /\ Len(sent') <= Len(docs')
        BY <1>3, <1>4, <2>1, <4>1, <4>2
      <4>5. QED  BY <4>3, <4>4, Zenon DEF RecoveredAsPosted
    <3>3. QED  BY <3>1, <3>2
  <2>4. schema' # NoSchema
    BY <1>1
  <2>5. QED  BY <2>1, <2>2, <2>3, <2>4 DEF DocsInv, D
<1>9. QED  BY <1>7, <1>8

LEMMA SchemaFileRead ==
    ASSUME NEW s \in InitialSchemas, NEW n \in 0 .. Len(SchemaText(s)),
           schema_file = [exists |-> TRUE, text |-> SubSeq(SchemaText(s), 1, n)]
    PROVE  IF n = Len(SchemaText(s))
           THEN /\ SchemaRead = WrittenSchema(s) /\ SchemaRead.ok /\ SchemaRead # NoSchema
                /\ schema_file.text = SchemaText(s)
           ELSE ~SchemaRead.ok /\ schema_file.text # SchemaText(s)
<1> DEFINE text == SchemaText(s)
           N == Len(text)
<1>1. /\ text \in Seq(Range(text)) /\ ReadText(text).ok
      /\ ReadText(text).val = SchemaValue(s)
      /\ \A k \in 0 .. N - 1 : ~ReadText(SubSeq(text, 1, k)).ok
  BY SchemaTextAssumption DEF SchemaTextAssumption, SchemaValue
<1> HIDE DEF text
<1>2. schema_file.text = SubSeq(text, 1, n)
  BY DEF text
<1>3. CASE n = N
  <2>1. SubSeq(text, 1, n) = text
    BY <1>1, <1>3
  <2>2. SchemaRead = FromJson(SchemaValue(s))
    BY <1>1, <1>2, <2>1 DEF SchemaRead
  <2>3. SchemaRead = WrittenSchema(s) /\ WrittenSchema(s).ok /\ WrittenSchema(s) # NoSchema
    BY <2>2, InitialAreSchemas, SchemaIsRead
  <2>4. QED  BY <1>2, <1>3, <2>1, <2>3 DEF text
<1>4. CASE n # N
  <2>1. n \in 0 .. N - 1 /\ N \in Nat /\ n < N
    BY <1>1, <1>4 DEF text
  <2>2. ~ReadText(SubSeq(text, 1, n)).ok
    BY <1>1, <2>1
  <2>3. ~SchemaRead.ok
    BY <1>2, <2>2 DEF SchemaRead, Err
  <2>4. SubSeq(text, 1, n) # text
    <3>1. Len(SubSeq(text, 1, n)) = n
      BY <1>1, <2>1
    <3>2. QED  BY <2>1, <3>1
  <2>5. QED  BY <1>2, <1>4, <2>3, <2>4 DEF text
<1>5. QED  BY <1>3, <1>4

LEMMA OpenReads ==
    ASSUME SchemaInv, Open
    PROVE  schema' = WrittenSchema(made) /\ schema' # NoSchema
<1>1. schema_file # NoFile /\ SchemaRead.ok /\ schema' = SchemaRead
  BY DEF Open
<1>2. PICK n \in 0 .. Len(SchemaText(made)) :
        schema_file = [exists |-> TRUE, text |-> SubSeq(SchemaText(made), 1, n)]
  BY <1>1 DEF SchemaInv
<1>3. made \in InitialSchemas
  BY <1>1 DEF SchemaInv
<1>4. QED  BY <1>1, <1>2, <1>3, SchemaFileRead

LEMMA OpenKeeps ==
    ASSUME LogInv, SchemaInv, Open
    PROVE  DocsInv'
<1> DEFINE D == DocsRead \cup {x.doc : x \in Entry}
           r == Replayed(sent)
<1>1. /\ docs' = Replay[log] /\ restored' = Len(docs')
      /\ sent' = sent /\ torn' = torn /\ appends' = appends
  BY DEF Open, Recovered
<1>2. sent \in Seq(Entry) /\ r \in Seq(DocsRead)
  BY DEF LogInv
<1>3. PICK a \in Seq(Octet), c \in Seq(Octet) :
        /\ log = a \o c /\ Prefixed(a, r)
        /\ ~torn => c = <<>>
        /\ torn /\ appends = Len(sent) + 1 => Replay[c] = <<>>
  BY DEF LogInv, LogIs
<1>4. DOMAIN r = DOMAIN sent /\ \A i \in DOMAIN sent : r[i] = AsReplayed(sent[i])
  BY DEF Replayed
<1> DEFINE rest == Replay[c]
<1>5. docs' = r \o rest /\ rest \in Seq(DocsRead)
  <2>1. Replay[a \o c] = r \o Replay[c]
    BY <1>3 DEF Prefixed
  <2>2. Replay[c] \in Seq(DocsRead)
    BY ReplayIs DEF DocsRead
  <2>3. QED  BY <1>1, <1>3, <2>1, <2>2
<1> HIDE DEF r, D
<1>6. ~torn \/ appends = Len(sent) + 1 => rest = <<>>
  <2>1. ~torn => rest = <<>>
    BY <1>3, ReplayIs
  <2>2. QED  BY <1>3, <2>1
<1> HIDE DEF rest
<1>7. Len(r) = Len(sent) /\ Len(sent) \in Nat /\ DOMAIN sent = 1 .. Len(sent)
  BY <1>2, <1>4
<1>8. /\ docs' \in Seq(DocsRead) /\ Len(docs') = Len(sent) + Len(rest) /\ Len(rest) \in Nat
      /\ \A i \in 1 .. Len(sent) : docs'[i] = r[i]
  <2> DEFINE q == r \o rest
  <2>1. q \in Seq(DocsRead) /\ Len(q) = Len(r) + Len(rest) /\ Len(rest) \in Nat
    BY <1>2, <1>5
  <2>2. \A i \in 1 .. Len(r) : q[i] = r[i]
    BY <1>2, <1>5
  <2>3. docs' = q
    BY <1>5
  <2> HIDE DEF q
  <2>4. QED  BY <1>7, <2>1, <2>2, <2>3
<1>9. docs' \in Seq(D)
  <2>1. docs' \in [1 .. Len(docs') -> DocsRead] /\ Len(docs') \in Nat
    BY <1>8
  <2>2. docs' \in [1 .. Len(docs') -> D]
    BY <2>1 DEF D
  <2>3. QED  BY <2>1, <2>2
<1>10. restored' \in 0 .. Len(docs')
  BY <1>1, <1>7, <1>8
<1>11. RecoveredAsPosted'
  <2>1. Len(sent') <= Len(docs')
    BY <1>1, <1>7, <1>8
  <2>2. ~torn' \/ appends' = Len(sent') + 1 => Len(docs') = Len(sent')
    <3>1. rest = <<>> => Len(docs') = Len(sent')
      BY <1>1, <1>7, <1>8
    <3>2. QED  BY <1>1, <1>6, <3>1
  <2>3. \A i \in DOMAIN sent' :
            docs'[i] = IF i <= restored' THEN AsReplayed(sent'[i]) ELSE sent'[i].doc
    <3>1. ASSUME NEW i \in 1 .. Len(sent)
          PROVE  docs'[i] = IF i <= restored' THEN AsReplayed(sent[i]) ELSE sent[i].doc
      <4>1. i <= restored'
        BY <1>1, <1>7, <1>8
      <4>2. QED  BY <1>4, <1>7, <1>8, <4>1
    <3>2. QED  BY <1>1, <1>7, <3>1
  <2>4. QED  BY <2>1, <2>2, <2>3, Zenon DEF RecoveredAsPosted
<1>12. schema' # NoSchema
  BY OpenReads
<1>13. QED  BY <1>9, <1>10, <1>11, <1>12 DEF DocsInv, D

LEMMA CreateKeeps ==
    ASSUME LogInv, DocsInv, SchemaInv, schema_file = NoFile,
           NEW s \in InitialSchemas, NEW n \in 0 .. Len(SchemaText(s)), Create(s, n)
    PROVE  LogInv' /\ DocsInv' /\ SchemaInv'
<1>1. /\ schema_file' = [exists |-> TRUE, text |-> SubSeq(SchemaText(s), 1, n)]
      /\ schema' = (IF n = Len(SchemaText(s)) THEN s ELSE NoSchema) /\ made' = s
      /\ log' = log /\ docs' = docs /\ appends' = appends /\ sent' = sent /\ torn' = torn
      /\ restored' = restored
  BY Zenon DEF Create
<1>2. sent = <<>> /\ docs = <<>> /\ restored = 0
  BY DEF SchemaInv, DocsInv
<1>3. LogInv'
  <2>1. <<log, sent, torn, appends>>' = <<log, sent, torn, appends>>
    BY <1>1
  <2>2. QED  BY <2>1 DEF LogInv
<1>4. DocsInv'
  <2>1. sent' = <<>> /\ docs' = <<>> /\ restored' = 0
    BY <1>1, <1>2
  <2>2. QED  BY <2>1 DEF DocsInv, RecoveredAsPosted
<1>5. SchemaInv'
  <2>1. schema_file' # NoFile
    <3>1. DOMAIN NoFile = {"exists"}
      BY DEF NoFile
    <3>2. DOMAIN schema_file' = {"exists", "text"}
      BY <1>1
    <3>3. QED  BY <3>1, <3>2
  <2>2. schema' \in {NoSchema, made', WrittenSchema(made')}
    BY <1>1
  <2>3. /\ made' \in InitialSchemas /\ n \in 0 .. Len(SchemaText(made'))
        /\ schema_file' = [exists |-> TRUE, text |-> SubSeq(SchemaText(made'), 1, n)]
    BY <1>1
  <2>4. QED  BY <2>1, <2>2, <2>3, Zenon DEF SchemaInv
<1>6. QED  BY <1>3, <1>4, <1>5

LEMMA OpenKeepsSchema ==
    ASSUME LogInv, SchemaInv, Open
    PROVE  SchemaInv'
<1>1. schema_file # NoFile /\ schema_file' = schema_file /\ made' = made
  BY DEF Open
<1>2. schema' \in {NoSchema, made', WrittenSchema(made')}
  BY <1>1, OpenReads
<1>3. QED  BY <1>1, <1>2 DEF SchemaInv

Inv == LogInv /\ DocsInv /\ SchemaInv

\* What LogInv and DocsInv are about.
logVars == <<log, sent, torn, appends>>
docsVars == <<schema, docs, appends, sent, torn, restored>>
schemaVars == <<schema_file, schema, made, sent, docs, restored>>

LEMMA Untouched ==
    /\ LogInv /\ UNCHANGED logVars => LogInv'
    /\ DocsInv /\ UNCHANGED docsVars => DocsInv'
    /\ SchemaInv /\ UNCHANGED schemaVars => SchemaInv'
<1>1. LogInv /\ UNCHANGED logVars => LogInv'
  BY DEF LogInv, logVars
<1>2. DocsInv /\ UNCHANGED docsVars => DocsInv'
  BY DEF DocsInv, RecoveredAsPosted, docsVars
<1>3. SchemaInv /\ UNCHANGED schemaVars => SchemaInv'
  BY DEF SchemaInv, schemaVars
<1>4. QED  BY <1>1, <1>2, <1>3

\* A document is sent while the index is open: its record is written, or cut.
LEMMA SendKeeps ==
    ASSUME Inv, Appending, NEW doc, NEW strings, NEW text, Fits(text), Says(text, doc, strings),
           [doc |-> doc, strings |-> strings] \in Entry,
           Add(doc, strings, text) \/ CrashInAdd(doc, strings, text)
    PROVE  Inv'
<1> DEFINE whole == Len(RecordOf(text))
<1>1. LogInv /\ DocsInv /\ SchemaInv /\ schema # NoSchema /\ appends < MaxAppends
  BY DEF Inv, Appending
<1>2. schema_file # NoFile
  BY <1>1 DEF SchemaInv
<1>3. whole \in 0 .. whole
  BY RecordBytes
<1>4. CASE Add(doc, strings, text)
  <2>1. Logged(doc, strings, text, whole) /\ schema' = schema
    BY <1>4 DEF Add
  <2>2. LogInv'
    BY <1>1, <1>3, <2>1, LoggedKeeps
  <2>3. DocsInv'
    BY <1>1, <1>4, AddKeeps
  <2>4. schema_file' = schema_file /\ made' = made
    BY <2>1 DEF Logged
  <2>5. SchemaInv'
    BY <1>1, <1>2, <2>1, <2>4 DEF SchemaInv
  <2>6. QED  BY <2>2, <2>3, <2>5 DEF Inv
<1>5. CASE CrashInAdd(doc, strings, text)
  <2>1. PICK n \in 0 .. whole : Logged(doc, strings, text, n)
    BY <1>5 DEF CrashInAdd
  <2>2. schema' = NoSchema /\ docs' = <<>> /\ restored' = 0
    BY <1>5 DEF CrashInAdd
  <2>3. LogInv'
    BY <1>1, <2>1, LoggedKeeps
  <2>4. DocsInv'
    BY <2>2 DEF DocsInv, RecoveredAsPosted
  <2>5. schema_file' = schema_file /\ made' = made
    BY <2>1 DEF Logged
  <2>6. SchemaInv'
    BY <1>1, <1>2, <2>2, <2>5 DEF SchemaInv
  <2>7. QED  BY <2>3, <2>4, <2>6 DEF Inv
<1>6. QED  BY <1>4, <1>5

LEMMA NextKeeps == Inv /\ [Next]_vars => Inv'
<1> SUFFICES ASSUME Inv, [Next]_vars PROVE Inv'
  OBVIOUS
<1>1. LogInv /\ DocsInv /\ SchemaInv
  BY DEF Inv
<1>2. ASSUME NEW s \in InitialSchemas, NEW n \in 0 .. Len(SchemaText(s)),
             schema_file = NoFile, Create(s, n)
      PROVE  Inv'
  BY <1>1, <1>2, CreateKeeps DEF Inv
<1>3. CASE Open
  <2>1. LogInv'
    BY <1>1, <1>3, Untouched DEF Open, logVars
  <2>2. QED  BY <1>1, <1>3, <2>1, OpenKeeps, OpenKeepsSchema DEF Inv
<1>4. CASE Post
  <2>1. PICK body \in DocBodies :
            /\ ReadText(body).ok /\ ReadText(body).val.type = "object"
            /\ \/ Add(PostedDoc(ReadText(body).val), StringsOf(ReadText(body).val), body)
               \/ CrashInAdd(PostedDoc(ReadText(body).val), StringsOf(ReadText(body).val), body)
    BY <1>4 DEF Post
  <2> DEFINE doc == PostedDoc(ReadText(body).val)
             strings == StringsOf(ReadText(body).val)
  <2>2. Fits(body)
    BY DocTextAssumption DEF DocTextAssumption
  <2>3. Says(body, doc, strings)
    BY <2>1, PostedIsSaid
  <2>4. [doc |-> doc, strings |-> strings] \in Entry
    BY DEF Entry
  <2>5. Appending
    BY <1>4 DEF Post
  <2> HIDE DEF doc, strings
  <2>6. Add(doc, strings, body) \/ CrashInAdd(doc, strings, body)
    BY <2>1 DEF doc, strings
  <2>7. QED  BY <2>2, <2>3, <2>4, <2>5, <2>6, SendKeeps
<1>5. CASE AddFromLibrary
  <2>1. PICK doc \in LibraryDocs : \/ Add(doc, DOMAIN doc.fields, DocToJson(doc))
                                   \/ CrashInAdd(doc, DOMAIN doc.fields, DocToJson(doc))
    BY <1>5 DEF AddFromLibrary
  <2> DEFINE strings == DOMAIN doc.fields
             text == DocToJson(doc)
  <2>2. Fits(text)
    BY DocTextAssumption DEF DocTextAssumption
  <2>3. Says(text, doc, strings)
    BY LibraryIsSaid
  <2>4. [doc |-> doc, strings |-> strings] \in Entry
    BY DEF Entry
  <2>5. Appending
    BY <1>5 DEF AddFromLibrary
  <2> HIDE DEF text, strings
  <2>6. Add(doc, strings, text) \/ CrashInAdd(doc, strings, text)
    BY <2>1 DEF text, strings
  <2>7. QED  BY <2>2, <2>3, <2>4, <2>5, <2>6, SendKeeps
<1>6. CASE Refresh
  <2>1. /\ log' = <<>> /\ docs' = <<>> /\ appends' = 0 /\ sent' = <<>> /\ torn' = FALSE
        /\ restored' = 0 /\ schema_file' = schema_file /\ schema' = schema /\ made' = made
        /\ schema # NoSchema
    BY <1>6 DEF Refresh
  <2>2. LogInv'
    <3>1. Replayed(<<>>) = <<>>
      BY DEF Replayed
    <3>2. LogIs(log', sent', torn', appends')
      <4>1. <<>> \in Seq(Octet) /\ <<>> = <<>> \o <<>>
        OBVIOUS
      <4>2. Prefixed(<<>>, Replayed(<<>>))
        BY <3>1, EmptyPrefixed
      <4>3. LogIs(<<>>, <<>>, FALSE, 0)
        BY <4>1, <4>2, Zenon DEF LogIs
      <4>4. QED  BY <2>1, <4>3
    <3>3. torn' \in BOOLEAN /\ (torn' => Len(sent') + 1 <= appends')
      BY <2>1, Zenon
    <3>4. appends' \in 0 .. MaxAppends /\ sent' \in Seq(Entry) /\ Len(sent') <= appends'
      <4>1. MaxAppends \in Nat
        BY CodeAssumption DEF CodeAssumption
      <4>2. <<>> \in Seq(Entry) /\ Len(<<>>) = 0
        OBVIOUS
      <4>3. QED  BY <2>1, <4>1, <4>2
    <3>5. Replayed(sent') \in Seq(DocsRead)
      <4>1. <<>> \in Seq(DocsRead)
        OBVIOUS
      <4>2. Replayed(sent') = <<>>
        BY <2>1, <3>1
      <4>3. QED  BY <4>1, <4>2
    <3>6. QED  BY <3>2, <3>3, <3>4, <3>5, Zenon DEF LogInv
  <2>3. DocsInv'
    BY <2>1 DEF DocsInv, RecoveredAsPosted
  <2>4. SchemaInv'
    BY <1>1, <2>1 DEF SchemaInv
  <2>5. QED  BY <2>2, <2>3, <2>4 DEF Inv
<1>7. CASE Crash
  <2>1. /\ schema' = NoSchema /\ docs' = <<>> /\ restored' = 0 /\ schema # NoSchema
        /\ schema_file' = schema_file /\ made' = made /\ UNCHANGED logVars
    BY <1>7 DEF Crash, logVars
  <2>2. LogInv'
    BY <1>1, <2>1, Untouched
  <2>3. DocsInv'
    BY <2>1 DEF DocsInv, RecoveredAsPosted
  <2>4. SchemaInv'
    BY <1>1, <2>1 DEF SchemaInv
  <2>5. QED  BY <2>2, <2>3, <2>4 DEF Inv
<1>8. CASE UNCHANGED vars
  <2>1. UNCHANGED logVars /\ UNCHANGED docsVars /\ UNCHANGED schemaVars
    BY <1>8 DEF vars, logVars, docsVars, schemaVars
  <2>2. QED  BY <1>1, <2>1, Untouched DEF Inv
<1>9. QED  BY <1>2, <1>3, <1>4, <1>5, <1>6, <1>7, <1>8 DEF Next

LEMMA Inductive == Spec => []Inv
<1>1. Init => Inv
  BY InitLog DEF Inv
<1>2. QED  BY <1>1, NextKeeps, PTL DEF Spec

\* The bytes of the log are bytes, and no more documents are counted, sent or
\* held than records were begun.
THEOREM TypeCorrect == Spec => []TypeOK
<1>1. Inv => TypeOK
  <2> SUFFICES ASSUME Inv PROVE TypeOK
    OBVIOUS
  <2>1. LogInv /\ DocsInv
    BY DEF Inv
  <2>2. \A i \in DOMAIN log : log[i] \in 0 .. 255
    <3>1. PICK a \in Seq(Octet), c \in Seq(Octet) : log = a \o c
      BY <2>1 DEF LogInv, LogIs
    <3>2. log \in Seq(Octet)
      BY <3>1
    <3>3. \A i \in DOMAIN log : log[i] \in Octet
      BY <3>2
    <3>4. QED  BY <3>3 DEF Octet
  <2>3. appends \in 0 .. MaxAppends /\ Len(sent) <= appends /\ torn \in BOOLEAN
    BY <2>1 DEF LogInv
  <2>4. restored \in 0 .. Len(docs)
    BY <2>1 DEF DocsInv
  <2>5. Len(docs) <= appends \/ torn
    <3>1. CASE schema = NoSchema
      <4>1. docs = <<>>
        BY <2>1, <3>1 DEF DocsInv
      <4>2. Len(docs) = 0
        BY <4>1
      <4>3. QED  BY <2>3, <4>2, CodeAssumption DEF CodeAssumption
    <3>2. CASE schema # NoSchema
      <4>1. ~torn => Len(docs) = Len(sent)
        BY <2>1, <3>2 DEF DocsInv, RecoveredAsPosted
      <4>2. QED  BY <2>3, <4>1
    <3>3. QED  BY <3>1, <3>2
  <2>6. QED  BY <2>2, <2>3, <2>4, <2>5 DEF TypeOK
<1>2. QED  BY <1>1, Inductive, PTL

\* The schema of an index is the one it was made with, and a schema.json is
\* taken when it was written whole, and only then.
THEOREM SchemaAlwaysReadBack == Spec => []SchemaReadBack
<1>1. Inv => SchemaReadBack
  <2> SUFFICES ASSUME Inv PROVE SchemaReadBack
    OBVIOUS
  <2>1. SchemaInv
    BY DEF Inv
  <2>2. schema # NoSchema => schema = made \/ schema = WrittenSchema(made)
    BY <2>1 DEF SchemaInv
  <2>3. schema_file # NoFile => (SchemaRead.ok <=> schema_file.text = SchemaText(made))
    <3> SUFFICES ASSUME schema_file # NoFile
                 PROVE  SchemaRead.ok <=> schema_file.text = SchemaText(made)
      OBVIOUS
    <3>1. PICK n \in 0 .. Len(SchemaText(made)) :
            schema_file = [exists |-> TRUE, text |-> SubSeq(SchemaText(made), 1, n)]
      BY <2>1 DEF SchemaInv
    <3>2. made \in InitialSchemas
      BY <2>1 DEF SchemaInv
    <3>3. IF n = Len(SchemaText(made))
          THEN SchemaRead.ok /\ schema_file.text = SchemaText(made)
          ELSE ~SchemaRead.ok /\ schema_file.text # SchemaText(made)
      BY <3>1, <3>2, SchemaFileRead
    <3>4. QED  BY <3>3, Zenon
  <2>4. QED  BY <2>2, <2>3, Zenon DEF SchemaReadBack, WrittenSchema
<1>2. QED  BY <1>1, Inductive, PTL

\* After a restart the documents of the whole records before the first torn
\* one are there again, in order, whatever the texts, wherever they were cut
\* and however many there are.
THEOREM AlwaysRecoveredAsPosted == Spec => []RecoveredAsPosted
<1>1. Inv => RecoveredAsPosted
  BY DEF Inv, DocsInv
<1>2. QED  BY <1>1, Inductive, PTL

=============================================================================
