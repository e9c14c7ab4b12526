------------------------------ MODULE JsonValue ------------------------------
(***************************************************************************)
(* json/json_value.h: the values that the parser gives, the serializer     *)
(* writes, and the rest of the program makes and looks into.  A key is a   *)
(* text, that is a sequence of cells (see Cells).                          *)
(***************************************************************************)
EXTENDS Cells, SequencesExt

CONSTANTS
    KeyOrder,       \* the texts that are keys, as std::map orders them
    Infinite        \* the number that is too large for a double

ASSUME KeyAssumption == KeyOrder \in Seq(Range(KeyOrder)) /\ IsInjective(KeyOrder)

Null == [type |-> "null"]
Bool(b) == [type |-> "bool", b |-> b]
Number(d) == [type |-> "number", d |-> d]
String(s) == [type |-> "string", s |-> s]
Array(a) == [type |-> "array", a |-> a]
Object(o) == [type |-> "object", o |-> o]     \* a function from texts to values

\* The members of an object whose keys are one word each.
Keyed(r) == [key \in {<<word>> : word \in DOMAIN r} |-> r[key[1]]]

\* JsonValue::find, for keys that are one word.
Has(v, key) == v.type = "object" /\ <<key>> \in DOMAIN v.o
HasOf(v, key, type) == Has(v, key) /\ v.o[<<key>>].type = type
=============================================================================
