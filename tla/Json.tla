-------------------------------- MODULE Json --------------------------------
(***************************************************************************)
(* cpp_lib/serialize/json.h: Parse and Serialize for C++ types, and the    *)
(* PraseFromJson and WriteToJson that JSON_DEFINE_FIELDS gives a struct.   *)
(*                                                                         *)
(* A C++ type is a sequence: <<"int8_t">> or <<"string">> for a scalar,    *)
(* <<"struct">> for the struct Inner, and <<"vector", e>>, <<"set", e>> or *)
(* <<"map", e>> for a container of elements of the scalar type or struct   *)
(* e.  A struct Config has members of all of these.  The list and deque    *)
(* are vectors here, the unordered containers are the ordered ones, float  *)
(* is double, int16_t and int32_t are int8_t, and uint32_t is uint16_t;    *)
(* uint8_t is parsed in a way of its own.  Deeper types repeat the same    *)
(* templates.                                                              *)
(*                                                                         *)
(* A rapidjson value is a record whose t is its kind; the members of an    *)
(* object are a sequence of names and values, since a text may have a name *)
(* twice.  The text itself is left out: NoDoc is a text rapidjson does not *)
(* accept.  Integers have the widths of Bits.                              *)
(*                                                                         *)
(* The macros call the namespace kcfg, which the repository does not have; *)
(* serialize is meant.                                                     *)
(***************************************************************************)
EXTENDS Integers, Sequences, SequencesExt, FiniteSets, FiniteSetsExt, Functions

CONSTANTS
  Fields,       \* the members of Config, in the order of JSON_DEFINE_FIELDS
  InnerFields,  \* the members of Inner
  TypeOf,       \* the type of each of them
  JsonName,     \* their names, after JSON_DEFINE_FIELD_MAPPING
  Bits,         \* the width of each integer type
  NaN,          \* a double without a JSON representation
  NoDoc         \* a text that is not JSON

Integral == {"int64_t", "uint64_t", "int8_t", "uint16_t", "uint8_t"}
Scalar   == Integral \cup {"double", "string", "bool"}

IsSigned(type) == type \in {"int64_t", "int8_t"}

RangeOf(type) ==
  IF IsSigned(type)
    THEN -(2 ^ (Bits[type] - 1)) .. 2 ^ (Bits[type] - 1) - 1
    ELSE 0 .. 2 ^ Bits[type] - 1

ASSUME JsonAssumption ==
  /\ DOMAIN TypeOf = ToSet(Fields) \cup ToSet(InnerFields)
  /\ DOMAIN JsonName = DOMAIN TypeOf
  /\ Fields \in Seq(DOMAIN TypeOf) /\ InnerFields \in Seq(DOMAIN TypeOf)
  /\ \A f \in ToSet(InnerFields) : TypeOf[f][1] \in Scalar
  /\ \A f \in ToSet(Fields) :
       \/ TypeOf[f][1] \in Scalar \cup {"struct"}
       \/ /\ TypeOf[f][1] \in {"vector", "set", "map"}
          /\ TypeOf[f][2] \in Scalar \cup {"struct"}
  /\ Bits \in [Integral -> Nat \ {0}]
  /\ RangeOf("int8_t") \subseteq RangeOf("int64_t")
  /\ RangeOf("uint8_t") \subseteq RangeOf("int64_t")
  /\ RangeOf("uint16_t") \subseteq RangeOf("uint64_t")
  /\ \* A name empty or given twice is another matter, see addJsonMember.
     \A f, g \in DOMAIN TypeOf : JsonName[f] # "" /\ (JsonName[f] = JsonName[g] => f = g)

JInt(n)      == [t |-> "int", n |-> n]
JDouble(d)   == [t |-> "double", d |-> d]
JString(s)   == [t |-> "string", s |-> s]
JBool(b)     == [t |-> "bool", b |-> b]
JArray(e)    == [t |-> "array", elems |-> e]
JObject(m)   == [t |-> "object", members |-> m]
Member(n, j) == [name |-> n, value |-> j]

-----------------------------------------------------------------------------
(* Parse.  The result is what it returns and what v holds then.             *)

Parsed(v)   == [ok |-> TRUE, v |-> v]
Rejected(v) == [ok |-> FALSE, v |-> v]

\* JSON_DEFINE_FIELD_MAPPING, or the member's own name.
GetFieldName(f) == JsonName[f]

\* The null pointer that stands for a member that is not there.
Absent == [t |-> "absent"]

\* The first member of that name; the empty name means the value itself.
getJsonFiledValue(json, name) ==
  IF name = "" THEN json
  ELSE LET found == {i \in DOMAIN json.members : json.members[i].name = name}
       IN  IF found = {} THEN Absent ELSE json.members[Min(found)].value

\* Parse of int64_t and uint64_t: an integer literal rapidjson holds as such.
Parse64(type, val, v) ==
  IF val # Absent /\ val.t = "int" /\ val.n \in RangeOf(type)
    THEN Parsed(val.n) ELSE Rejected(v)

\* The type that vv has in Parse of a narrower integer: also uint8_t is read
\* as an int64_t.
WideType(type) ==
  IF IsSigned(type) \/ type = "uint8_t" THEN "int64_t" ELSE "uint64_t"

\* (uint8_t)vv.
Cut(n) == n % 2 ^ Bits["uint8_t"]

\* Mutant: the value is cast without the check of its range.
ParseNarrow_Wraps(type, val, v) ==
  LET wide == Parse64(WideType(type), val, v)
  IN  IF wide.ok /\ wide.v \notin RangeOf(type)
        THEN Parsed(wide.v % 2 ^ (Bits[type] - 1)) ELSE wide

\* Parse of the narrower integers: by way of 64 bits.  A value out of range is
\* rejected, but for a negative one for a uint8_t, of which only the upper
\* bound is checked: that one is cast.
ParseNarrow(type, val, v) ==
  LET wide == Parse64(WideType(type), val, v) IN
  CASE wide.ok /\ wide.v \in RangeOf(type)          -> wide
    [] wide.ok /\ type = "uint8_t" /\ wide.v < 0    -> Parsed(Cut(wide.v))
    [] OTHER                                        -> Rejected(v)

\* A number of either kind is a double.
ParseDouble(val, v) ==
  CASE val # Absent /\ val.t = "double" -> Parsed(val.d)
    [] val # Absent /\ val.t = "int"    -> Parsed(val.n)
    [] OTHER                            -> Rejected(v)

ParseString(val, v) ==
  IF val # Absent /\ val.t = "string" THEN Parsed(val.s) ELSE Rejected(v)

ParseBool(val, v) ==
  IF val # Absent /\ val.t = "bool" THEN Parsed(val.b) ELSE Rejected(v)

ParseScalar(type, val, v) ==
  CASE type \in {"int64_t", "uint64_t"} -> Parse64(type, val, v)
    [] type \in {"int8_t", "uint16_t", "uint8_t"} -> ParseNarrow(type, val, v)
    [] type = "double"                  -> ParseDouble(val, v)
    [] type = "string"                  -> ParseString(val, v)
    [] type = "bool"                    -> ParseBool(val, v)

\* Inner::PraseFromJson: what a member's Parse returns is ignored.
InnerFromJson(json, v) ==
  [f \in ToSet(InnerFields) |->
     ParseScalar(TypeOf[f][1], getJsonFiledValue(json, GetFieldName(f)), v[f]).v]

ParseStruct(val, v) ==
  IF val # Absent /\ val.t = "object" THEN Parsed(InnerFromJson(val, v))
  ELSE Rejected(v)

\* The object `T tmp;` gives: the model's Inner has member initialisers, and a
\* scalar that has not been parsed is not used.
ZeroScalar(type) ==
  CASE type \in Integral \cup {"double"} -> 0
    [] type = "string"                   -> ""
    [] type = "bool"                     -> FALSE

ZeroInner == [f \in ToSet(InnerFields) |-> ZeroScalar(TypeOf[f][1])]

Zero(type) ==
  CASE type[1] \in Scalar -> ZeroScalar(type[1])
    [] type[1] = "struct" -> ZeroInner
    [] type[1] = "vector" -> <<>>
    [] type[1] = "set"    -> {}
    [] type[1] = "map"    -> <<>>

\* Parse of an element into a tmp of its own.
ParseElement(e, val) ==
  IF e = "struct" THEN ParseStruct(val, ZeroInner)
                  ELSE ParseScalar(e, val, ZeroScalar(e))

\* The values parsed, up to the first that does not parse.
ParsedPrefix(e, vals) ==
  LET bad == {i \in DOMAIN vals : ~ ParseElement(e, vals[i]).ok}
      n   == IF bad = {} THEN Len(vals) ELSE Min(bad) - 1
  IN  [ok |-> bad = {}, v |-> [i \in 1 .. n |-> ParseElement(e, vals[i]).v]]

\* Parse of a vector, list or deque.  A failure leaves what was parsed.
ParseVector(e, val, v) ==
  IF val = Absent \/ val.t # "array" THEN Rejected(v)
  ELSE ParsedPrefix(e, val.elems)

\* Parse of a set.
ParseSet(e, val, v) ==
  IF val = Absent \/ val.t # "array" THEN Rejected(v)
  ELSE LET r == ParsedPrefix(e, val.elems) IN [ok |-> r.ok, v |-> ToSet(r.v)]

\* The map of the first n members; the last of several with one name counts.
MapOf(names, vals, n) ==
  [k \in {names[i] : i \in 1 .. n} |->
     vals[Max({i \in 1 .. n : names[i] = k})]]

\* Mutant: v is not cleared.
ParseMap_Merges(e, val, v) ==
  IF val = Absent \/ val.t # "object" THEN Rejected(v)
  ELSE LET names == [i \in DOMAIN val.members |-> val.members[i].name]
           r == ParsedPrefix(e, [i \in DOMAIN val.members |-> val.members[i].value])
           m == MapOf(names, r.v, Len(r.v))
       IN  [ok |-> r.ok, v |-> [k \in DOMAIN v \cup DOMAIN m |->
                                  IF k \in DOMAIN m THEN m[k] ELSE v[k]]]

\* Parse of a map with string keys.
ParseMap(e, val, v) ==
  IF val = Absent \/ val.t # "object" THEN Rejected(v)
  ELSE LET names == [i \in DOMAIN val.members |-> val.members[i].name]
           r == ParsedPrefix(e, [i \in DOMAIN val.members |-> val.members[i].value])
       IN  [ok |-> r.ok, v |-> MapOf(names, r.v, Len(r.v))]

Parse(type, json, name, v) ==
  LET val == getJsonFiledValue(json, name) IN
  CASE type[1] \in Scalar -> ParseScalar(type[1], val, v)
    [] type[1] = "struct" -> ParseStruct(val, v)
    [] type[1] = "vector" -> ParseVector(type[2], val, v)
    [] type[1] = "set"    -> ParseSet(type[2], val, v)
    [] type[1] = "map"    -> ParseMap(type[2], val, v)

\* Config::PraseFromJson.  It ignores what the Parse of a member returns.
PraseFromJson(json, v) ==
  [f \in ToSet(Fields) |-> Parse(TypeOf[f], json, GetFieldName(f), v[f]).v]

\* ParseFromJsonString: Parse of the document with the empty name.
ParseFromJsonString(doc, v) ==
  IF doc = NoDoc \/ doc.t # "object" THEN Rejected(v)
  ELSE Parsed(PraseFromJson(doc, v))

ZeroConfig == [f \in ToSet(Fields) |-> Zero(TypeOf[f])]

-----------------------------------------------------------------------------
(* What a C++ object of a type can hold, as far as it matters here: an      *)
(* integer is in its range, a list is finite, a struct has its members.     *)

OfScalar(type, x) == type \in Integral => x \in RangeOf(type)

OfInner(x) ==
  /\ x = [g \in ToSet(InnerFields) |-> x[g]]
  /\ \A g \in ToSet(InnerFields) : OfScalar(TypeOf[g][1], x[g])

OfElement(e, x) == IF e = "struct" THEN OfInner(x) ELSE OfScalar(e, x)

OfType(type, x) ==
  CASE type[1] \in Scalar \cup {"struct"} -> OfElement(type[1], x)
    [] type[1] = "vector" ->
         x \in Seq(ToSet(x)) /\ \A i \in DOMAIN x : OfElement(type[2], x[i])
    [] type[1] = "set" ->
         IsFiniteSet(x) /\ \A y \in x : OfElement(type[2], y)
    [] type[1] = "map" ->
         /\ IsFiniteSet(DOMAIN x) /\ x = [k \in DOMAIN x |-> x[k]]
         /\ \A k \in DOMAIN x : OfElement(type[2], x[k])

IsConfig(x) == \A f \in ToSet(Fields) : OfType(TypeOf[f], x[f])

\* A rapidjson value, to the depth at which a Config is parsed from it.
IsValue(json) ==
  CASE json.t = "int"    -> json = JInt(json.n)
    [] json.t = "double" -> json = JDouble(json.d)
    [] json.t = "string" -> json = JString(json.s)
    [] json.t = "bool"   -> json = JBool(json.b)
    [] json.t = "array"  -> json.elems \in Seq(ToSet(json.elems))
    [] json.t = "object" -> json.members \in Seq(ToSet(json.members))
    [] OTHER             -> json.t = "null"

\* Its elements, or the values of its members.
Within(json) ==
  IF json.t = "array" THEN ToSet(json.elems)
  ELSE IF json.t = "object" THEN {m.value : m \in ToSet(json.members)} ELSE {}

IsDocument(json) ==
  /\ IsValue(json)
  /\ \A a \in Within(json) : IsValue(a) /\
       \A b \in Within(a) : IsValue(b) /\ \A c \in Within(b) : IsValue(c)

-----------------------------------------------------------------------------
(* Serialize.                                                               *)

\* addJsonMember for a member of a struct or a map: appended, whatever is
\* there.  An empty name would have rapidjson append to an object as to an
\* array, which it does not survive: no map has the key "".
addJsonMember(json, name, json_value) == Append(json, Member(name, json_value))

ScalarToJson(type, v) ==
  CASE type \in Integral -> JInt(v)
    [] type = "double"   -> JDouble(v)
    [] type = "string"   -> JString(v)
    [] type = "bool"     -> JBool(v)

\* Serialize of a scalar: the default of its type is left out, if asked to.
SerializeScalar(json, type, name, v, ignore_default) ==
  IF ignore_default /\ v = ZeroScalar(type) THEN json
  ELSE addJsonMember(json, name, ScalarToJson(type, v))

\* JSON_FOR_EACH: what, for every member in turn.
JSON_FOR_EACH(what(_, _), fields) ==
  LET json[n \in 0 .. Len(fields)] ==
        IF n = 0 THEN <<>> ELSE what(json[n - 1], fields[n])
  IN  json[Len(fields)]

\* Inner::WriteToJson.
InnerToJson(v, ignore_default) ==
  LET what(json, f) ==
        SerializeScalar(json, TypeOf[f][1], GetFieldName(f), v[f], ignore_default)
  IN  JObject(JSON_FOR_EACH(what, InnerFields))

\* Elements are written in full.
ElementToJson(e, v) ==
  IF e = "struct" THEN InnerToJson(v, FALSE) ELSE ScalarToJson(e, v)

\* The order of a std::map or std::set is immaterial.
ContainerToJson(type, v) ==
  LET element(x) == ElementToJson(type[2], x)
      pair(k)    == Member(k, element(v[k]))
  IN  CASE type[1] = "vector" -> JArray([i \in DOMAIN v |-> element(v[i])])
        [] type[1] = "set"    -> JArray(SetToSeq({element(x) : x \in v}))
        [] type[1] = "map"    -> JObject(SetToSeq({pair(k) : k \in DOMAIN v}))

\* Mutant: an empty container counts as a default.
Serialize_NoEmpty(json, type, name, v, ignore_default) ==
  CASE type[1] \in Scalar -> SerializeScalar(json, type[1], name, v, ignore_default)
    [] type[1] = "struct" -> addJsonMember(json, name, InnerToJson(v, ignore_default))
    [] OTHER -> IF ignore_default /\ v = Zero(type) THEN json
                ELSE addJsonMember(json, name, ContainerToJson(type, v))

\* A nested struct passes ignore_default on and is always there itself, as is
\* a container.
Serialize(json, type, name, v, ignore_default) ==
  CASE type[1] \in Scalar -> SerializeScalar(json, type[1], name, v, ignore_default)
    [] type[1] = "struct" -> addJsonMember(json, name, InnerToJson(v, ignore_default))
    [] OTHER              -> addJsonMember(json, name, ContainerToJson(type, v))

\* Config::WriteToJson.
WriteToJson(v, ignore_default) ==
  LET what(json, f) ==
        Serialize(json, TypeOf[f], GetFieldName(f), v[f], ignore_default)
  IN  JObject(JSON_FOR_EACH(what, Fields))

PrintableElement(e, x) ==
  IF e = "struct" THEN \A f \in ToSet(InnerFields) : x[f] # NaN ELSE x # NaN

Printable(v) ==
  \A f \in ToSet(Fields) :
    LET type == TypeOf[f] IN
    CASE type[1] \in Scalar \cup {"struct"} -> PrintableElement(type[1], v[f])
      [] type[1] = "set" -> \A x \in v[f] : PrintableElement(type[2], x)
      [] OTHER -> \A i \in DOMAIN v[f] : PrintableElement(type[2], v[f][i])

\* WriteToJsonString.  rapidjson stops at a double that is no number; what
\* it has written so far is returned as the text.
WriteToJsonString(v, ignore_default) ==
  IF Printable(v) THEN WriteToJson(v, ignore_default) ELSE NoDoc
=============================================================================
