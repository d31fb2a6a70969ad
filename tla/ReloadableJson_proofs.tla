------------------------ MODULE ReloadableJson_proofs ------------------------
(* Theorems about ReloadableJson, whether its buffer has one object or two,  *)
(* for any loads, configurations, documents, types and names of members; and *)
(* before them, about DoubleBuffer<T>, whose buffers are two objects.        *)
EXTENDS ReloadableJson, FiniteSetTheorems, WellFoundedInduction, TLAPS

USE ParametersAssumption

LEMMA Buffers ==
  ASSUME ~ SharedPtr, curr_idx_ \in {0, 1}
  PROVE  /\ Get = curr_idx_ /\ Next_ = 1 - curr_idx_
         /\ Get \in Objects /\ Next_ \in Objects
         /\ Get # Next_ /\ NoObject \notin Objects
BY DEF Get, Next_, buffers_, Objects

LEMMA IInvInit == ASSUME ~ SharedPtr, Init PROVE IInv
<1>1. curr_idx_ = 0
  BY DEF Init
<1>2. Get = 0 /\ Next_ = 1 /\ NoObject \notin Objects
  BY <1>1, Buffers
<1>3. TypeOK
  <2>1. 0 \in 0..MaxLoads
    BY DEF ParametersAssumption
  <2>2. whole \in [Objects -> BOOLEAN] /\ overtaken \in [Readers -> BOOLEAN]
    BY Zenon DEF Init
  <2>3. /\ version \in [Objects -> 0..MaxLoads]
        /\ seen \in [Readers -> 0..MaxLoads]
        /\ ref \in [Readers -> Objects \cup {NoObject}]
    BY <2>1 DEF Init
  <2> QED BY <2>1, <2>2, <2>3 DEF Init, TypeOK
<1>4. CurrentWhole /\ ReferenceStable
  BY <1>2 DEF Init, CurrentWhole, ReferenceStable, Objects
<1> QED BY <1>1, <1>2, <1>3, <1>4 DEF Init, IInv

\* One step per operation: a load only writes the object no reader was given
\* since the last Switch.
LEMMA IInvStep ==
  ASSUME ~ SharedPtr, IInv, [Next]_vars PROVE IInv'
<1> USE DEF IInv, TypeOK, CurrentWhole, ReferenceStable
<1>0. curr_idx_ \in {0, 1}
  OBVIOUS
<1>1. CASE BeginLoad
  <2>1. Get' = Get /\ Next_' = Next_
    BY <1>1 DEF BeginLoad, Get, Next_, buffers_
  <2> QED BY <1>0, <1>1, <2>1, Buffers DEF BeginLoad, readerVars
<1>2. CASE FailLoad
  <2>1. Get' = Get /\ Next_' = Next_
    BY <1>2 DEF FailLoad, Get, Next_, buffers_
  <2> QED BY <1>0, <1>2, <2>1, Buffers DEF FailLoad, readerVars
<1>3. CASE EndWriting
  <2>1. Get' = Get /\ Next_' = Next_
    BY <1>3 DEF EndWriting, Get, Next_, buffers_
  <2> QED BY <1>0, <1>3, <2>1, Buffers DEF EndWriting, readerVars
<1>4. CASE Switch
  <2>1. Get' = Next_ /\ Next_' = Get
    BY <1>0, <1>4 DEF Switch, Get, Next_, buffers_
  <2>2. TypeOK'
    <3>1. overtaken' \in [Readers -> BOOLEAN]
      BY <1>4, Zenon DEF Switch
    <3>2. ptr_data \in Objects
      BY <1>0, <1>4, Buffers DEF Switch
    <3>3. curr_idx_' \in {0, 1}
      BY <1>0, <1>4 DEF Switch
    <3>4. published' \in 0..MaxLoads
      BY <1>4, <3>2 DEF Switch
    <3> QED BY <1>4, <3>1, <3>3, <3>4 DEF Switch
  <2>3. ptr_data = Next_ /\ whole[Next_]
    BY <1>4 DEF Switch
  <2>4. CurrentWhole'
    BY <1>4, <2>1, <2>3 DEF Switch
  <2>5. \A r \in Readers : overtaken'[r]
    BY <1>4 DEF Switch
  <2> QED BY <1>4, <2>2, <2>4, <2>5, Buffers DEF Switch
<1>5. ASSUME NEW r \in Readers, Read(r) PROVE IInv'
  <2>1. Get' = Get /\ Next_' = Next_
    BY <1>5 DEF Read, Get, Next_, buffers_
  <2> QED BY <1>0, <1>5, <2>1, Buffers DEF Read
<1>6. CASE UNCHANGED vars
  BY <1>6 DEF vars, Get, Next_, buffers_
<1> QED BY <1>1, <1>2, <1>3, <1>4, <1>5, <1>6 DEF Next

\* In a DoubleBuffer<T> a load only writes the object that is not current, and
\* a reader that has not been overtaken by a load uses the current one.
THEOREM BufferInvariance == ASSUME ~ SharedPtr PROVE Spec => []IInv
BY IInvInit, IInvStep, PTL DEF Spec

\* Get() of a DoubleBuffer<T> returns whole content at any moment, a load in
\* progress or a load that failed notwithstanding.  Of the specialisation for
\* std::shared_ptr<T>, which is what the reloaders have, this is refuted.
THEOREM CurrentIsWhole == ASSUME ~ SharedPtr PROVE Spec => []CurrentWhole
<1>1. IInv => CurrentWhole
  BY DEF IInv
<1> QED BY <1>1, BufferInvariance, PTL

\* A reference into a DoubleBuffer<T> is good until the next load is published.
THEOREM ReferencesAreStable ==
  ASSUME ~ SharedPtr PROVE Spec => []ReferenceStable
<1>1. IInv => ReferenceStable
  BY DEF IInv
<1> QED BY <1>1, BufferInvariance, PTL

-----------------------------------------------------------------------------
(* What the objects hold.                                                   *)

Sources ==
  {NoFile, Empty} \cup {ByHand(doc) : doc \in HandWritten}
    \cup {ByWriter(config, ignore) : config \in Configs, ignore \in BOOLEAN}

Texts ==
  /\ {file, writing, text, imported} \subseteq Sources
  /\ DOMAIN obj = Objects /\ DOMAIN prior = Objects
  /\ parsed \in [Objects -> Sources]

\* An object is what its text makes of what it was before.
ParsedFromText ==
  \A o \in Objects : parsed[o] # NoFile =>
    ParseFromJsonString(Doc(parsed[o]), prior[o]) = Parsed(obj[o])

\* Only what was parsed is published.
PublishedIsParsed ==
  /\ curr_idx_ \in {0, 1}
  /\ loader # "idle" => ptr_data = Next_
  /\ ready_ => parsed[Get] # NoFile
  /\ loader = "switch" => parsed[Next_] # NoFile

JsonInv == Texts /\ ParsedFromText /\ PublishedIsParsed

LEMMA BuffersAreObjects ==
  ASSUME curr_idx_ \in {0, 1}
  PROVE  Get \in Objects /\ Next_ \in Objects
BY DEF Get, Next_, buffers_, Objects

LEMMA JsonInvInit == ASSUME JsonInit PROVE JsonInv
<1>1. NoFile \in Sources
  BY DEF Sources
<1>2. Texts
  BY <1>1 DEF JsonInit, Texts
<1>3. ParsedFromText
  BY DEF JsonInit, ParsedFromText
<1>4. PublishedIsParsed
  BY DEF JsonInit, Init, PublishedIsParsed
<1> QED BY <1>2, <1>3, <1>4 DEF JsonInv

\* A step that neither parses nor moves the index.
LEMMA JsonInvKept ==
  ASSUME JsonInv, UNCHANGED <<obj, parsed, prior, curr_idx_, ready_>>,
         {file', writing', text', imported'} \subseteq Sources,
         UNCHANGED <<loader, ptr_data>> \/ loader' = "idle"
           \/ (loader' = "writing" /\ ptr_data' = Next_)
  PROVE  JsonInv'
<1>1. Get' = Get /\ Next_' = Next_
  BY DEF Get, Next_, buffers_
<1>2. Texts'
  BY DEF JsonInv, Texts
<1>3. ParsedFromText'
  BY DEF JsonInv, ParsedFromText
<1>4. PublishedIsParsed'
  BY <1>1 DEF JsonInv, PublishedIsParsed
<1> QED BY <1>2, <1>3, <1>4 DEF JsonInv

\* The two steps that parse: into the object of the load.
LEMMA ParseStep ==
  ASSUME JsonInv, loader = "writing", ParseInto(ptr_data), UNCHANGED <<curr_idx_, ready_>>,
         loader' = "idle" \/ (loader' = "switch" /\ ptr_data' = ptr_data)
  PROVE  JsonInv'
<1> DEFINE o == ptr_data
           r == ParseFromJsonString(Doc(text), obj[o])
<1>1. o = Next_ /\ o \in Objects /\ Get \in Objects
  BY BuffersAreObjects DEF JsonInv, PublishedIsParsed
<1>2. Get' = Get /\ Next_' = Next_
  BY DEF Get, Next_, buffers_
<1>3. /\ text # NoFile /\ r.ok /\ text \in Sources /\ NoFile \in Sources
      /\ obj' = [obj EXCEPT ![o] = r.v]
      /\ parsed' = [parsed EXCEPT ![o] = text]
      /\ prior' = [prior EXCEPT ![o] = obj[o]]
      /\ text' = NoFile /\ UNCHANGED <<file, writing, imported>>
  BY DEF ParseInto, JsonInv, Texts, Sources
<1>4. r = Parsed(r.v)
  BY <1>3 DEF ParseFromJsonString, Parsed, Rejected
<1> HIDE DEF o, r
<1>5. Texts'
  BY <1>1, <1>3 DEF JsonInv, Texts
<1>6. ParsedFromText'
  <2> SUFFICES ASSUME NEW p \in Objects, parsed'[p] # NoFile
               PROVE  ParseFromJsonString(Doc(parsed'[p]), prior'[p]) = Parsed(obj'[p])
    BY DEF ParsedFromText, Doc
  <2>1. CASE p = o
    <3>1. parsed'[p] = text /\ prior'[p] = obj[o] /\ obj'[p] = r.v
      BY <1>1, <1>3, <2>1 DEF JsonInv, Texts
    <3> QED BY <1>4, <3>1 DEF r
  <2>2. CASE p # o
    <3>1. parsed'[p] = parsed[p] /\ prior'[p] = prior[p] /\ obj'[p] = obj[p]
      BY <1>1, <1>3, <2>2 DEF JsonInv, Texts
    <3> QED BY <3>1 DEF JsonInv, ParsedFromText
  <2> QED BY <2>1, <2>2
<1>7. PublishedIsParsed'
  <2>1. \A p \in Objects : parsed[p] # NoFile \/ p = o => parsed'[p] # NoFile
    BY <1>3 DEF JsonInv, Texts
  <2> QED BY <1>1, <1>2, <2>1 DEF JsonInv, PublishedIsParsed, o
<1> QED BY <1>5, <1>6, <1>7 DEF JsonInv

LEMMA JsonInvStep == ASSUME JsonInv, [JsonNext]_allVars PROVE JsonInv'
<1>1. {file, writing, text, imported, NoFile, Empty} \subseteq Sources
  BY DEF JsonInv, Texts, Sources
<1>2. CASE OpenForWriting
  <2>1. writing' \in Sources /\ file' \in Sources
    BY <1>1, <1>2 DEF OpenForWriting, Sources
  <2> QED BY <1>1, <1>2, <2>1, JsonInvKept DEF OpenForWriting, vars
<1>3. CASE WriteAndClose
  BY <1>1, <1>3, JsonInvKept DEF WriteAndClose, vars
<1>4. CASE Replace
  <2>1. file' \in Sources
    BY <1>4 DEF Replace, Sources
  <2> QED BY <1>1, <1>4, <2>1, JsonInvKept DEF Replace, vars
<1>5. CASE BeginJsonLoad
  BY <1>1, <1>5, JsonInvKept DEF BeginJsonLoad, BeginLoad, jsonVars
<1>6. CASE ReadText
  BY <1>1, <1>6, JsonInvKept DEF ReadText, vars
<1>7. CASE RejectText
  BY <1>1, <1>7, JsonInvKept DEF RejectText, FailLoad
<1>8. CASE AcceptText
  BY <1>8, ParseStep DEF AcceptText, EndWriting
<1>9. CASE InitFails
  BY <1>9, ParseStep DEF InitFails, FailLoad
<1>10. CASE PublishJson
  <2>1. loader = "switch" /\ loader' = "idle" /\ curr_idx_' = 1 - curr_idx_
        /\ UNCHANGED <<obj, parsed, prior, file, writing, text, imported>>
    BY <1>10 DEF PublishJson, Switch, jsonVars
  <2>2. curr_idx_' \in {0, 1} /\ Get' = Next_ /\ Next_' = Get
    BY <2>1 DEF JsonInv, PublishedIsParsed, Get, Next_, buffers_
  <2>3. Texts' /\ ParsedFromText'
    BY <2>1 DEF JsonInv, Texts, ParsedFromText
  <2>4. PublishedIsParsed'
    BY <2>1, <2>2 DEF JsonInv, PublishedIsParsed
  <2> QED BY <2>3, <2>4 DEF JsonInv
<1>11. ASSUME NEW r \in Readers, ReadConfig(r) PROVE JsonInv'
  BY <1>1, <1>11, JsonInvKept DEF ReadConfig, Read, jsonVars
<1>12. CASE Measure
  BY <1>1, <1>12, JsonInvKept DEF Measure, vars
<1>13. CASE Import
  BY <1>1, <1>13, JsonInvKept DEF Import, vars
<1>14. CASE UNCHANGED allVars
  BY <1>1, <1>14, JsonInvKept DEF allVars, vars, jsonVars
<1> QED
  BY <1>2, <1>3, <1>4, <1>5, <1>6, <1>7, <1>8, <1>9, <1>10, <1>11, <1>12,
     <1>13, <1>14 DEF JsonNext

\* With either DoubleBuffer, what an object holds is explained by the text it
\* was parsed from and by what it held before.
THEOREM JsonInvariance == JsonSpec => []JsonInv
BY JsonInvInit, JsonInvStep, PTL DEF JsonSpec

-----------------------------------------------------------------------------
(* What a Parse makes of two objects: the same, or each stays as it was.    *)

LEMMA UnsignedIsNotNegative ==
  ASSUME NEW n \in RangeOf("uint8_t") PROVE ~ (n < 0)
BY DEF RangeOf, IsSigned

LEMMA ScalarParse ==
  ASSUME NEW type \in Scalar, NEW val, NEW v, NEW u
  PROVE  \/ ParseScalar(type, val, v) = Rejected(v) /\ ParseScalar(type, val, u) = Rejected(u)
         \/ /\ ParseScalar(type, val, v) = ParseScalar(type, val, u)
            /\ ParseScalar(type, val, v).ok
<1>1. ASSUME NEW wide
      PROVE  \/ Parse64(wide, val, v) = Rejected(v) /\ Parse64(wide, val, u) = Rejected(u)
             \/ Parse64(wide, val, v) = Parse64(wide, val, u) /\ Parse64(wide, val, v).ok
  BY DEF Parse64, Parsed, Rejected
<1>2. CASE type \in {"int64_t", "uint64_t"}
  BY <1>1, <1>2 DEF ParseScalar
<1>3. CASE type \in {"int8_t", "uint16_t", "uint8_t"}
  <2>1. ParseScalar(type, val, v) = ParseNarrow(type, val, v)
        /\ ParseScalar(type, val, u) = ParseNarrow(type, val, u)
    BY <1>3 DEF ParseScalar
  <2>2. /\ Rejected(v) = [ok |-> FALSE, v |-> v]
        /\ Rejected(u) = [ok |-> FALSE, v |-> u]
    BY DEF Rejected
  <2> DEFINE wide(w) == Parse64(WideType(type), val, w)
  <2>3. CASE wide(v) = Rejected(v) /\ wide(u) = Rejected(u)
    <3>1. ~ wide(v).ok /\ ~ wide(u).ok
      BY <2>2, <2>3
    <3> QED BY <2>1, <3>1 DEF ParseNarrow
  <2>4. CASE wide(v) = wide(u) /\ wide(v).ok
    <3> DEFINE n == wide(v).v
    <3>1. CASE n \in RangeOf(type)
      BY <2>1, <2>4, <3>1, UnsignedIsNotNegative DEF ParseNarrow
    <3>2. CASE n \notin RangeOf(type) /\ type = "uint8_t" /\ n < 0
      <4>1. ParseNarrow(type, val, v) = Parsed(Cut(n))
            /\ ParseNarrow(type, val, u) = Parsed(Cut(n))
        BY <2>4, <3>2 DEF ParseNarrow
      <4> QED BY <2>1, <4>1 DEF Parsed
    <3>3. CASE n \notin RangeOf(type) /\ ~ (type = "uint8_t" /\ n < 0)
      BY <2>1, <2>4, <3>3 DEF ParseNarrow
    <3> QED BY <3>1, <3>2, <3>3
  <2> QED BY <1>1, <2>3, <2>4
<1>4. CASE type = "double"
  BY <1>4 DEF ParseScalar, ParseDouble, Parsed, Rejected
<1>5. CASE type = "string"
  BY <1>5 DEF ParseScalar, ParseString, Parsed, Rejected
<1>6. CASE type = "bool"
  BY <1>6 DEF ParseScalar, ParseBool, Parsed, Rejected
<1> QED BY <1>2, <1>3, <1>4, <1>5, <1>6 DEF Scalar, Integral

LEMMA InnerParse ==
  ASSUME NEW json, NEW v, NEW u, NEW g \in ToSet(InnerFields)
  PROVE  \/ InnerFromJson(json, v)[g] = InnerFromJson(json, u)[g]
         \/ InnerFromJson(json, v)[g] = v[g] /\ InnerFromJson(json, u)[g] = u[g]
<1> DEFINE val == getJsonFiledValue(json, GetFieldName(g))
<1>1. /\ InnerFromJson(json, v)[g] = ParseScalar(TypeOf[g][1], val, v[g]).v
      /\ InnerFromJson(json, u)[g] = ParseScalar(TypeOf[g][1], val, u[g]).v
  BY DEF InnerFromJson
<1>2. TypeOf[g][1] \in Scalar
  BY JsonAssumption
<1> HIDE DEF val
<1>3. \/ /\ ParseScalar(TypeOf[g][1], val, v[g]) = Rejected(v[g])
         /\ ParseScalar(TypeOf[g][1], val, u[g]) = Rejected(u[g])
      \/ ParseScalar(TypeOf[g][1], val, v[g]) = ParseScalar(TypeOf[g][1], val, u[g])
  BY <1>2, ScalarParse
<1> QED BY <1>1, <1>3 DEF Rejected

\* The types of the members of Config.
LEMMA FieldTypes ==
  ASSUME NEW f \in ToSet(Fields)
  PROVE  /\ \/ TypeOf[f][1] \in Scalar \/ TypeOf[f][1] = "struct" \/ TypeOf[f][1] = "vector"
            \/ TypeOf[f][1] = "set" \/ TypeOf[f][1] = "map"
         /\ TypeOf[f][1] \in {"vector", "set", "map"} => TypeOf[f][2] \in Scalar \cup {"struct"}
         /\ Scalar \cap {"struct", "vector", "set", "map"} = {}
<1>1. Scalar \cap {"struct", "vector", "set", "map"} = {}
  BY DEF Scalar, Integral
<1> QED BY <1>1, JsonAssumption

\* Parse by kinds of types.
LEMMA ParseByKind ==
  ASSUME NEW f \in ToSet(Fields), NEW json, NEW name, NEW v
  PROVE  LET type == TypeOf[f]
             val  == getJsonFiledValue(json, name)
         IN  /\ type[1] \in Scalar => Parse(type, json, name, v) = ParseScalar(type[1], val, v)
             /\ type[1] = "struct" => Parse(type, json, name, v) = ParseStruct(val, v)
             /\ type[1] = "vector" => Parse(type, json, name, v) = ParseVector(type[2], val, v)
             /\ type[1] = "set" => Parse(type, json, name, v) = ParseSet(type[2], val, v)
             /\ type[1] = "map" => Parse(type, json, name, v) = ParseMap(type[2], val, v)
BY FieldTypes DEF Parse

LEMMA ContainerParse ==
  ASSUME NEW e, NEW val, NEW v, NEW u
  PROVE  /\ \/ ParseVector(e, val, v) = ParseVector(e, val, u)
            \/ ParseVector(e, val, v) = Rejected(v) /\ ParseVector(e, val, u) = Rejected(u)
         /\ \/ ParseSet(e, val, v) = ParseSet(e, val, u)
            \/ ParseSet(e, val, v) = Rejected(v) /\ ParseSet(e, val, u) = Rejected(u)
         /\ \/ ParseMap(e, val, v) = ParseMap(e, val, u)
            \/ ParseMap(e, val, v) = Rejected(v) /\ ParseMap(e, val, u) = Rejected(u)
<1>1. CASE val = Absent \/ val.t # "array"
  BY <1>1 DEF ParseVector, ParseSet, ParseMap
<1>2. CASE ~ (val = Absent \/ val.t # "array")
  BY <1>2 DEF ParseVector, ParseSet, ParseMap
<1> QED BY <1>1, <1>2

LEMMA ZeroByKind ==
  ASSUME NEW f \in ToSet(Fields)
  PROVE  /\ ZeroConfig[f] = Zero(TypeOf[f])
         /\ TypeOf[f][1] = "struct" => ZeroConfig[f] = ZeroInner
BY FieldTypes DEF ZeroConfig, Zero

\* A member parsed into an object and into a new one: equal, but for what stays.
LEMMA MemberReloadedOrKept ==
  ASSUME NEW f \in ToSet(Fields), NEW json, NEW v
  PROVE  LET new   == PraseFromJson(json, v)[f]
             fresh == PraseFromJson(json, ZeroConfig)[f]
         IN  \/ new = fresh
             \/ TypeOf[f][1] # "struct" /\ fresh = Zero(TypeOf[f]) /\ new = v[f]
             \/ /\ TypeOf[f][1] = "struct"
                /\ \A g \in ToSet(InnerFields) :
                     new[g] = fresh[g] \/ (fresh[g] = ZeroInner[g] /\ new[g] = v[f][g])
<1> DEFINE name  == GetFieldName(f)
           val   == getJsonFiledValue(json, name)
           new   == PraseFromJson(json, v)[f]
           fresh == PraseFromJson(json, ZeroConfig)[f]
           type  == TypeOf[f]
<1>1. new = Parse(type, json, name, v[f]).v /\ fresh = Parse(type, json, name, ZeroConfig[f]).v
  BY DEF PraseFromJson
<1>2. Rejected(v[f]).v = v[f] /\ Rejected(ZeroConfig[f]).v = ZeroConfig[f]
  BY DEF Rejected
<1> HIDE DEF name, new, fresh
<1>3. CASE type[1] \in Scalar
  <2>1. type[1] # "struct"
    BY <1>3, FieldTypes
  <2>2. \/ /\ Parse(type, json, name, v[f]) = Rejected(v[f])
           /\ Parse(type, json, name, ZeroConfig[f]) = Rejected(ZeroConfig[f])
        \/ Parse(type, json, name, v[f]) = Parse(type, json, name, ZeroConfig[f])
    BY <1>3, ParseByKind, ScalarParse
  <2> QED BY <1>1, <1>2, <2>1, <2>2, ZeroByKind DEF new, fresh
<1>4. CASE type[1] = "struct"
  <2>1. /\ Parse(type, json, name, v[f]) = ParseStruct(val, v[f])
        /\ Parse(type, json, name, ZeroConfig[f]) = ParseStruct(val, ZeroInner)
        /\ ZeroConfig[f] = ZeroInner
    BY <1>4, ParseByKind, ZeroByKind
  <2>2. CASE val # Absent /\ val.t = "object"
    <3>1. new = InnerFromJson(val, v[f]) /\ fresh = InnerFromJson(val, ZeroInner)
      BY <1>1, <2>1, <2>2 DEF ParseStruct, Parsed
    <3>2. \A g \in ToSet(InnerFields) :
            new[g] = fresh[g] \/ (fresh[g] = ZeroInner[g] /\ new[g] = v[f][g])
      BY <3>1, InnerParse
    <3> QED BY <1>4, <3>2 DEF new, fresh
  <2>3. CASE ~ (val # Absent /\ val.t = "object")
    <3>1. new = v[f] /\ fresh = ZeroInner
      BY <1>1, <1>2, <2>1, <2>3 DEF ParseStruct
    <3> QED BY <1>4, <3>1 DEF new, fresh
  <2> QED BY <2>2, <2>3
<1>5. CASE type[1] \in {"vector", "set", "map"}
  <2>1. type[1] # "struct"
    BY <1>5
  <2>2. \/ /\ Parse(type, json, name, v[f]) = Rejected(v[f])
           /\ Parse(type, json, name, ZeroConfig[f]) = Rejected(ZeroConfig[f])
        \/ Parse(type, json, name, v[f]) = Parse(type, json, name, ZeroConfig[f])
    BY <1>5, ParseByKind, ContainerParse
  <2> QED BY <1>1, <1>2, <2>1, <2>2, ZeroByKind DEF new, fresh
<1> QED BY <1>3, <1>4, <1>5, FieldTypes

\* An object that was published holds what its text says.
LEMMA PublishedContents ==
  ASSUME JsonInv, Settled
  PROVE  /\ parsed[Get] \in Sources \ {NoFile}
         /\ Doc(parsed[Get]) # NoDoc /\ Doc(parsed[Get]).t = "object"
         /\ obj[Get] = PraseFromJson(Doc(parsed[Get]), prior[Get])
<1>1. Get \in Objects /\ parsed[Get] # NoFile
  BY BuffersAreObjects DEF JsonInv, PublishedIsParsed, Settled
<1>2. ParseFromJsonString(Doc(parsed[Get]), prior[Get]) = Parsed(obj[Get])
  BY <1>1 DEF JsonInv, ParsedFromText
<1>3. parsed[Get] \in Sources
  BY <1>1 DEF JsonInv, Texts
<1> QED BY <1>1, <1>2, <1>3 DEF ParseFromJsonString, Parsed, Rejected

LEMMA JsonInvReloads == JsonInv => ReloadedOrKept
<1> SUFFICES ASSUME JsonInv, Settled, imported = parsed[Get]
             PROVE  ReloadedOrKept
  BY DEF ReloadedOrKept
<1> DEFINE json == Doc(parsed[Get])
<1>1. obj[Get] = PraseFromJson(json, prior[Get])
  BY PublishedContents
<1>2. Imported = PraseFromJson(json, ZeroConfig)
  BY PublishedContents DEF Imported, ParseFromJsonString, Parsed
<1> HIDE DEF json
<1>3. ASSUME NEW f \in ToSet(Fields)
      PROVE  LET new == obj[Get][f]
                 old == prior[Get][f]
                 fresh == Imported[f]
                 type == TypeOf[f]
             IN  \/ new = fresh
                 \/ type[1] # "struct" /\ fresh = Zero(type) /\ new = old
                 \/ /\ type[1] = "struct"
                    /\ \A g \in ToSet(InnerFields) :
                         new[g] = fresh[g] \/ (fresh[g] = ZeroInner[g] /\ new[g] = old[g])
  <2> DEFINE old == prior[Get]
  <2>1. LET new   == PraseFromJson(json, old)[f]
            fresh == PraseFromJson(json, ZeroConfig)[f]
        IN  \/ new = fresh
            \/ TypeOf[f][1] # "struct" /\ fresh = Zero(TypeOf[f]) /\ new = old[f]
            \/ /\ TypeOf[f][1] = "struct"
               /\ \A g \in ToSet(InnerFields) :
                    new[g] = fresh[g] \/ (fresh[g] = ZeroInner[g] /\ new[g] = old[f][g])
    <3> HIDE DEF old
    <3> QED BY MemberReloadedOrKept
  <2> QED BY <1>1, <1>2, <2>1
<1> QED BY <1>3, Zenon DEF ReloadedOrKept

\* A reloaded object and a new one differ in nothing but what the document,
\* where it has no value of the right type, leaves as it was: for any
\* documents, and whatever loads failed before.
THEOREM ReloadsLikeARestart == JsonSpec => []ReloadedOrKept
BY JsonInvReloads, JsonInvariance, PTL

-----------------------------------------------------------------------------
(* Numbers, and looking a name up.                                          *)

LEMMA LeastNatural ==
  ASSUME NEW S \in SUBSET Nat, S /= {}
  PROVE  Min(S) \in S /\ \A n \in S : Min(S) <= n
<1> DEFINE R == {ss \in Nat \X Nat : ss[1] < ss[2]}
<1>1. IsWellFoundedOn(R, Nat)
  BY NatLessThanWellFounded DEF OpToRel
<1>2. \E m \in S : \A n \in S : ~ (<<n, m>> \in R)
  <2> HIDE DEF R
  <2> QED BY <1>1, WFMin
<1>3. \A m, n \in S : ~ (<<n, m>> \in R) => m <= n
  OBVIOUS
<1>4. \E m \in S : \A n \in S : m <= n
  BY <1>2, <1>3
<1> QED BY <1>4 DEF Min

LEMMA LargestBelow ==
  ASSUME NEW n \in Nat, NEW S \in SUBSET (1 .. n), S /= {}
  PROVE  Max(S) \in S
<1> DEFINE T == {n - i : i \in S}
<1>0. \A i \in S : i \in Nat /\ i <= n
  OBVIOUS
<1>1. T \in SUBSET Nat /\ T /= {}
  <2>1. \A i \in S : n - i \in Nat
    BY <1>0
  <2> QED BY <2>1
<1>2. Min(T) \in T /\ \A k \in T : Min(T) <= k
  BY <1>1, LeastNatural
<1>3. PICK i \in S : Min(T) = n - i
  BY <1>2
<1>4. \A j \in S : i >= j
  <2> TAKE j \in S
  <2>1. Min(T) <= n - j
    BY <1>2
  <2> QED BY <1>0, <1>3, <2>1
<1> QED BY <1>4 DEF Max

LEMMA SeqDomain ==
  ASSUME NEW T, NEW s \in Seq(T)
  PROVE  DOMAIN s = 1 .. Len(s) /\ Len(s) \in Nat /\ DOMAIN s \subseteq Nat
OBVIOUS

\* What getJsonFiledValue finds is the value of a member of that name.
LEMMA LookupFinds ==
  ASSUME NEW json, NEW T, json.members \in Seq(T), NEW name, name # "",
         \/ getJsonFiledValue(json, name) # Absent
         \/ \E m \in ToSet(json.members) : m.name = name
  PROVE  \E m \in ToSet(json.members) :
           m.name = name /\ m.value = getJsonFiledValue(json, name)
<1> DEFINE found == {i \in DOMAIN json.members : json.members[i].name = name}
<1>1. found # {} /\ getJsonFiledValue(json, name) = json.members[Min(found)].value
  BY DEF getJsonFiledValue, ToSet
<1>2. found \in SUBSET Nat
  <2>1. DOMAIN json.members \subseteq Nat
    BY SeqDomain
  <2> QED BY <2>1
<1>3. Min(found) \in found
  <2> HIDE DEF found
  <2> QED BY <1>1, <1>2, LeastNatural
<1> QED BY <1>1, <1>3 DEF ToSet

\* The first n of vals parse, and they are all, or the next does not.
ParsesUpTo(e, vals, n) ==
  /\ ParsedPrefix(e, vals).v = [i \in 1 .. n |-> ParseElement(e, vals[i]).v]
  /\ \A i \in 1 .. n : ParseElement(e, vals[i]).ok
  /\ n < Len(vals) => ~ ParseElement(e, vals[n + 1]).ok
  /\ ParsedPrefix(e, vals).ok <=> n = Len(vals)
  /\ Len(ParsedPrefix(e, vals).v) = n

LEMMA PrefixFacts ==
  ASSUME NEW e, NEW T, NEW vals \in Seq(T)
  PROVE  \E n \in 0 .. Len(vals) : ParsesUpTo(e, vals, n)
<1> DEFINE bad == {i \in DOMAIN vals : ~ ParseElement(e, vals[i]).ok}
           n   == IF bad = {} THEN Len(vals) ELSE Min(bad) - 1
           r   == ParsedPrefix(e, vals)
<1>1. r = [ok |-> bad = {}, v |-> [i \in 1 .. n |-> ParseElement(e, vals[i]).v]]
  BY DEF ParsedPrefix
<1>2. bad \in SUBSET (1 .. Len(vals)) /\ Len(vals) \in Nat
  OBVIOUS
<1>3. /\ n \in 0 .. Len(vals) /\ (bad = {} <=> n = Len(vals))
      /\ \A i \in 1 .. n : i \notin bad
      /\ n < Len(vals) => n + 1 \in bad
  <2> HIDE DEF bad
  <2>1. CASE bad = {}
    BY <1>2, <2>1
  <2>2. CASE bad # {}
    <3>1. Min(bad) \in bad /\ \A i \in bad : Min(bad) <= i
      BY <1>2, <2>2, LeastNatural
    <3>2. n = Min(bad) - 1 /\ Min(bad) \in 1 .. Len(vals)
      BY <1>2, <2>2, <3>1
    <3>3. n \in 0 .. Len(vals) /\ n + 1 = Min(bad) /\ n # Len(vals)
      BY <1>2, <3>2
    <3>4. \A i \in 1 .. n : i \notin bad
      <4> SUFFICES ASSUME NEW i \in 1 .. n, i \in bad PROVE FALSE
        OBVIOUS
      <4> HIDE DEF n
      <4> QED BY <1>2, <3>1, <3>2
    <3> QED BY <2>2, <3>1, <3>3, <3>4
  <2> QED BY <2>1, <2>2
<1>4. /\ \A i \in 1 .. n : ParseElement(e, vals[i]).ok
      /\ n < Len(vals) => ~ ParseElement(e, vals[n + 1]).ok
  <2> HIDE DEF n
  <2>1. \A i \in 1 .. Len(vals) : i \notin bad => ParseElement(e, vals[i]).ok
    OBVIOUS
  <2>2. \A i \in bad : ~ ParseElement(e, vals[i]).ok
    OBVIOUS
  <2> HIDE DEF bad
  <2> QED BY <1>2, <1>3, <2>1, <2>2
<1> HIDE DEF n, bad, r
<1>5. r.v = [i \in 1 .. n |-> ParseElement(e, vals[i]).v] /\ (r.ok <=> bad = {})
  <2>1. r.v = [i \in 1 .. n |-> ParseElement(e, vals[i]).v]
    BY <1>1
  <2>2. r.ok = (bad = {})
    BY <1>1
  <2> QED BY <2>1, <2>2
<1>6. Len(r.v) = n
  <2>1. n \in Nat
    BY <1>2, <1>3
  <2> QED BY <1>5, <2>1
<1> QED BY <1>3, <1>4, <1>5, <1>6 DEF r, ParsesUpTo

-----------------------------------------------------------------------------
(* What is parsed was given.                                                *)

LEMMA ScalarGiven ==
  ASSUME NEW type \in Scalar, NEW val, IsValue(val), NEW v,
         ParseScalar(type, val, v).ok
  PROVE  StandsFor(val, type, ParseScalar(type, val, v).v)
<1> DEFINE x == ParseScalar(type, val, v).v
<1>1. ASSUME NEW wide, Parse64(wide, val, v).ok
      PROVE  val = JInt(Parse64(wide, val, v).v)
  BY <1>1 DEF Parse64, Parsed, Rejected, IsValue, JInt
<1>2. CASE type \in Integral
  <2>1. PICK wide : /\ Parse64(wide, val, v).ok
                    /\ \/ ParseScalar(type, val, v) = Parse64(wide, val, v)
                       \/ /\ type = "uint8_t" /\ Parse64(wide, val, v).v < 0
                          /\ x = Cut(Parse64(wide, val, v).v)
    <3>1. CASE type \in {"int64_t", "uint64_t"}
      BY <3>1 DEF ParseScalar
    <3>2. CASE type \in {"int8_t", "uint16_t", "uint8_t"}
      <4>1. ParseScalar(type, val, v) = ParseNarrow(type, val, v)
        BY <3>2 DEF ParseScalar
      <4>2. ParseNarrow(type, val, v).ok
        BY <4>1
      <4>3. Parse64(WideType(type), val, v).ok
        BY <4>2 DEF ParseNarrow, Rejected
      <4> QED BY <4>1, <4>2, <4>3 DEF ParseNarrow, Rejected, Parsed
    <3> QED BY <1>2, <3>1, <3>2 DEF Integral
  <2>2. val = JInt(Parse64(wide, val, v).v)
    BY <1>1, <2>1
  <2>3. ScalarToJson(type, x) = JInt(x)
    <3> HIDE DEF x
    <3> QED BY <1>2 DEF ScalarToJson, Integral
  <2>4. CASE ParseScalar(type, val, v) = Parse64(wide, val, v)
    BY <2>2, <2>3, <2>4 DEF StandsFor
  <2>5. CASE type = "uint8_t" /\ Parse64(wide, val, v).v < 0
               /\ x = Cut(Parse64(wide, val, v).v)
    <3>1. val.t = "int" /\ val.n = Parse64(wide, val, v).v
      BY <2>2 DEF JInt
    <3> QED BY <2>5, <3>1 DEF StandsFor
  <2> QED BY <2>1, <2>4, <2>5
<1>3. CASE type = "double"
  <2>1. val = JDouble(x) \/ val = JInt(x)
    BY <1>3 DEF ParseScalar, ParseDouble, Parsed, Rejected, IsValue
  <2>2. ScalarToJson(type, x) = JDouble(x)
    BY <1>3 DEF ScalarToJson, Integral
  <2> QED BY <1>3, <2>1, <2>2 DEF StandsFor
<1>4. CASE type = "string"
  <2>1. val = JString(x)
    BY <1>4 DEF ParseScalar, ParseString, Parsed, Rejected, IsValue
  <2>2. ScalarToJson(type, x) = JString(x)
    BY <1>4 DEF ScalarToJson, Integral
  <2> QED BY <2>1, <2>2 DEF StandsFor
<1>5. CASE type = "bool"
  <2>1. val = JBool(x)
    BY <1>5 DEF ParseScalar, ParseBool, Parsed, Rejected, IsValue
  <2>2. ScalarToJson(type, x) = JBool(x)
    BY <1>5 DEF ScalarToJson, Integral
  <2> QED BY <2>1, <2>2 DEF StandsFor
<1> QED BY <1>2, <1>3, <1>4, <1>5 DEF Scalar

\* A scalar that is absent, or of another type, is as before.
LEMMA ScalarParseOutcome ==
  ASSUME NEW type \in Scalar, NEW val, NEW v
  PROVE  \/ ParseScalar(type, val, v).v = v
         \/ ParseScalar(type, val, v).ok /\ val # Absent
<1>1. ASSUME NEW wide
      PROVE  \/ Parse64(wide, val, v) = Rejected(v)
             \/ Parse64(wide, val, v).ok /\ val # Absent
  BY DEF Parse64, Parsed, Rejected
<1>2. CASE type \in {"int64_t", "uint64_t"}
  BY <1>1, <1>2 DEF ParseScalar, Rejected
<1>3. CASE type \in {"int8_t", "uint16_t", "uint8_t"}
  <2>1. ParseScalar(type, val, v) = ParseNarrow(type, val, v)
    BY <1>3 DEF ParseScalar
  <2>2. Rejected(v).v = v
    BY DEF Rejected
  <2>3. ParseNarrow(type, val, v).v = v \/ ParseNarrow(type, val, v).ok
    BY <2>2 DEF ParseNarrow, Parsed
  <2>4. val = Absent => ParseNarrow(type, val, v) = Rejected(v)
    <3>1. val = Absent => ~ Parse64(WideType(type), val, v).ok
      BY <1>1 DEF Rejected
    <3> QED BY <3>1 DEF ParseNarrow
  <2> QED BY <2>1, <2>2, <2>3, <2>4
<1>4. CASE type \in {"double", "string", "bool"}
  BY <1>4 DEF ParseScalar, ParseDouble, ParseString, ParseBool, Parsed, Rejected
<1> QED BY <1>2, <1>3, <1>4 DEF Scalar, Integral

LEMMA InnerIsGiven ==
  ASSUME NEW val, val.t = "object", IsValue(val), \A c \in Within(val) : IsValue(c), NEW v
  PROVE  InnerGiven(val, InnerFromJson(val, v), v)
<1> SUFFICES ASSUME NEW g \in ToSet(InnerFields), InnerFromJson(val, v)[g] # v[g]
             PROVE  \E m \in ToSet(val.members) :
                      /\ m.name = JsonName[g]
                      /\ StandsFor(m.value, TypeOf[g][1], InnerFromJson(val, v)[g])
  BY DEF InnerGiven
<1> DEFINE it == getJsonFiledValue(val, JsonName[g])
<1>1. InnerFromJson(val, v)[g] = ParseScalar(TypeOf[g][1], it, v[g]).v
  BY DEF InnerFromJson, GetFieldName
<1>2. TypeOf[g][1] \in Scalar /\ JsonName[g] # ""
  BY JsonAssumption
<1> HIDE DEF it
<1>3. ParseScalar(TypeOf[g][1], it, v[g]).ok /\ it # Absent
  BY <1>1, <1>2, ScalarParseOutcome, ZenonT(40)
<1>4. val.members \in Seq(ToSet(val.members))
  BY DEF IsValue
<1>5. PICK m \in ToSet(val.members) : m.name = JsonName[g] /\ m.value = it
  BY <1>2, <1>3, <1>4, LookupFinds DEF it
<1>6. IsValue(it)
  BY <1>5 DEF Within
<1>7. StandsFor(it, TypeOf[g][1], InnerFromJson(val, v)[g])
  BY <1>1, <1>2, <1>3, <1>6, ScalarGiven
<1> QED BY <1>5, <1>7

LEMMA ElementIsGiven ==
  ASSUME NEW e \in Scalar \cup {"struct"}, NEW val, IsValue(val),
         \A c \in Within(val) : IsValue(c), ParseElement(e, val).ok
  PROVE  ElementGiven(val, e, ParseElement(e, val).v)
<1>1. CASE e = "struct"
  <2>1. val.t = "object" /\ ParseElement(e, val).v = InnerFromJson(val, ZeroInner)
    BY <1>1 DEF ParseElement, ParseStruct, Parsed, Rejected
  <2> QED BY <1>1, <2>1, InnerIsGiven DEF ElementGiven
<1>2. CASE e # "struct"
  BY <1>2, ScalarGiven DEF ElementGiven, ParseElement
<1> QED BY <1>1, <1>2

LEMMA PrefixIsGiven ==
  ASSUME NEW e \in Scalar \cup {"struct"}, NEW T, NEW vals \in Seq(T),
         \A i \in DOMAIN vals :
           IsValue(vals[i]) /\ \A c \in Within(vals[i]) : IsValue(c)
  PROVE  /\ \E n \in 0 .. Len(vals) : DOMAIN ParsedPrefix(e, vals).v = 1 .. n
                                      /\ Len(ParsedPrefix(e, vals).v) = n
         /\ \A i \in DOMAIN ParsedPrefix(e, vals).v :
              i \in DOMAIN vals /\ ElementGiven(vals[i], e, ParsedPrefix(e, vals).v[i])
<1>1. PICK n \in 0 .. Len(vals) : ParsesUpTo(e, vals, n)
  BY PrefixFacts
<1>2. \A i \in 1 .. n : i \in DOMAIN vals
  BY SeqDomain
<1>3. \A i \in 1 .. n : ElementGiven(vals[i], e, ParseElement(e, vals[i]).v)
  BY <1>1, <1>2, ElementIsGiven DEF ParsesUpTo
<1> QED BY <1>1, <1>2, <1>3 DEF ParsesUpTo

LEMMA LastOfName ==
  ASSUME NEW names, NEW vals, NEW n \in Nat, NEW k \in DOMAIN MapOf(names, vals, n)
  PROVE  \E i \in 1 .. n : names[i] = k /\ MapOf(names, vals, n)[k] = vals[i]
<1> DEFINE S == {i \in 1 .. n : names[i] = k}
<1>1. S # {} /\ S \in SUBSET (1 .. n) /\ MapOf(names, vals, n)[k] = vals[Max(S)]
  BY DEF MapOf
<1>2. Max(S) \in S
  <2> HIDE DEF S
  <2> QED BY <1>1, LargestBelow
<1> QED BY <1>1, <1>2

\* Containers hold what parsed, which is what was given.
LEMMA ContainerIsGiven ==
  ASSUME NEW f \in ToSet(Fields), TypeOf[f][1] \in {"vector", "set", "map"},
         NEW val, val # Absent, IsValue(val),
         \A b \in Within(val) : IsValue(b) /\ \A c \in Within(b) : IsValue(c),
         NEW v, NEW new,
         new = (IF TypeOf[f][1] = "vector" THEN ParseVector(TypeOf[f][2], val, v)
                ELSE IF TypeOf[f][1] = "set" THEN ParseSet(TypeOf[f][2], val, v)
                ELSE ParseMap(TypeOf[f][2], val, v)).v
  PROVE  new = v \/ Given(val, TypeOf[f], new, v)
<1> DEFINE e == TypeOf[f][2]
<1>1. e \in Scalar \cup {"struct"} /\ TypeOf[f][1] \notin Scalar \cup {"struct"}
  BY FieldTypes
<1> HIDE DEF e
<1>2. ASSUME NEW T, NEW vals \in Seq(T), \A i \in DOMAIN vals : vals[i] \in Within(val)
      PROVE  /\ \E n \in 0 .. Len(vals) : DOMAIN ParsedPrefix(e, vals).v = 1 .. n
                                          /\ Len(ParsedPrefix(e, vals).v) = n
             /\ \A i \in DOMAIN ParsedPrefix(e, vals).v :
                  i \in DOMAIN vals /\ ElementGiven(vals[i], e, ParsedPrefix(e, vals).v[i])
  BY <1>1, <1>2, PrefixIsGiven
<1>3. CASE TypeOf[f][1] = "vector" /\ val.t = "array"
  <2>1. val.elems \in Seq(ToSet(val.elems)) /\ \A i \in DOMAIN val.elems : val.elems[i] \in Within(val)
    BY <1>3 DEF IsValue, Within, ToSet
  <2>2. new = ParsedPrefix(e, val.elems).v
    BY <1>3 DEF ParseVector, e
  <2>3. \A i \in DOMAIN new : i \in DOMAIN val.elems /\ ElementGiven(val.elems[i], e, new[i])
    BY <1>2, <2>1, <2>2
  <2> QED BY <1>1, <1>3, <2>3 DEF Given, e
<1>4. CASE TypeOf[f][1] = "set" /\ val.t = "array"
  <2>1. val.elems \in Seq(ToSet(val.elems)) /\ \A i \in DOMAIN val.elems : val.elems[i] \in Within(val)
    BY <1>4 DEF IsValue, Within, ToSet
  <2>2. new = ToSet(ParsedPrefix(e, val.elems).v)
    BY <1>4 DEF ParseSet, e
  <2>3. \A x \in new : \E j \in ToSet(val.elems) : ElementGiven(j, e, x)
    BY <1>2, <2>1, <2>2 DEF ToSet
  <2> QED BY <1>1, <1>4, <2>3 DEF Given, e
<1>5. CASE TypeOf[f][1] = "map" /\ val.t = "object"
  <2> DEFINE names == [i \in DOMAIN val.members |-> val.members[i].name]
             vals  == [i \in DOMAIN val.members |-> val.members[i].value]
             r     == ParsedPrefix(e, vals)
  <2>1. val.members \in Seq(ToSet(val.members))
    BY <1>5 DEF IsValue
  <2>2. /\ vals \in Seq(Within(val)) /\ DOMAIN vals = DOMAIN val.members
        /\ \A i \in DOMAIN vals : vals[i] = val.members[i].value /\ names[i] = val.members[i].name
                                  /\ vals[i] \in Within(val) /\ val.members[i] \in ToSet(val.members)
    <3>1. \A i \in DOMAIN val.members : val.members[i] \in ToSet(val.members)
      BY DEF ToSet
    <3>2. \A i \in DOMAIN val.members : val.members[i].value \in Within(val)
      BY <1>5, <3>1 DEF Within
    <3> QED BY <2>1, <3>1, <3>2
  <2>3. new = MapOf(names, r.v, Len(r.v))
    BY <1>5 DEF ParseMap, e
  <2> HIDE DEF vals, names
  <2>4. PICK n \in 0 .. Len(vals) : DOMAIN r.v = 1 .. n /\ Len(r.v) = n
    BY <1>2, <2>2
  <2>5. \A i \in 1 .. n : i \in DOMAIN vals /\ ElementGiven(vals[i], e, r.v[i])
    BY <1>2, <2>2, <2>4
  <2> HIDE DEF r
  <2>6. \A k \in DOMAIN new : \E m \in ToSet(val.members) :
          m.name = k /\ ElementGiven(m.value, e, new[k])
    <3> TAKE k \in DOMAIN new
    <3>1. n \in Nat
      BY <2>2
    <3>2. PICK i \in 1 .. n : names[i] = k /\ new[k] = r.v[i]
      BY <2>3, <2>4, <3>1, LastOfName
    <3>3. val.members[i] \in ToSet(val.members) /\ val.members[i].name = k
          /\ ElementGiven(val.members[i].value, e, new[k])
      BY <2>2, <2>5, <3>2
    <3> QED BY <3>3
  <2> QED BY <1>1, <1>5, <2>6 DEF Given, e
<1>6. CASE val.t # "array" /\ TypeOf[f][1] \in {"vector", "set"}
  BY <1>6 DEF ParseVector, ParseSet, Rejected
<1>7. CASE val.t # "object" /\ TypeOf[f][1] = "map"
  BY <1>7 DEF ParseMap, Rejected
<1> QED BY <1>3, <1>4, <1>5, <1>6, <1>7

\* A member of Config is as before or as given.
LEMMA MemberIsGiven ==
  ASSUME NEW json, json.t = "object", IsDocument(json), NEW f \in ToSet(Fields), NEW v
  PROVE  \/ PraseFromJson(json, v)[f] = v[f]
         \/ \E m \in ToSet(json.members) :
              m.name = JsonName[f] /\ Given(m.value, TypeOf[f], PraseFromJson(json, v)[f], v[f])
<1> DEFINE val  == getJsonFiledValue(json, JsonName[f])
           type == TypeOf[f]
           new  == PraseFromJson(json, v)[f]
           Sound == IsValue(val) /\ \A b \in Within(val) :
                      IsValue(b) /\ \A c \in Within(b) : IsValue(c)
<1>1. new = Parse(type, json, JsonName[f], v[f]).v
  BY DEF PraseFromJson, GetFieldName
<1>2. JsonName[f] # ""
  BY JsonAssumption
<1>3. ASSUME val # Absent
      PROVE  \E m \in ToSet(json.members) : m.name = JsonName[f] /\ m.value = val /\ Sound
  <2>1. json.members \in Seq(ToSet(json.members))
    BY DEF IsDocument, IsValue
  <2>2. PICK m \in ToSet(json.members) : m.name = JsonName[f] /\ m.value = val
    BY <1>2, <1>3, <2>1, LookupFinds
  <2>3. val \in Within(json)
    BY <2>2 DEF Within
  <2> HIDE DEF val
  <2> QED BY <2>2, <2>3 DEF IsDocument
<1> SUFFICES ASSUME new # v[f]
             PROVE  val # Absent /\ (Sound => Given(val, type, new, v[f]))
  <2> HIDE DEF val, Sound
  <2> QED BY <1>3
<1>4. CASE type[1] \in Scalar
  <2>1. new = ParseScalar(type[1], val, v[f]).v
    BY <1>1, <1>4, ParseByKind
  <2> HIDE DEF val, new
  <2>2. val # Absent /\ ParseScalar(type[1], val, v[f]).ok
    BY <1>4, <2>1, ScalarParseOutcome
  <2>3. IsValue(val) => StandsFor(val, type[1], new)
    BY <1>4, <2>1, <2>2, ScalarGiven
  <2> QED BY <1>4, <2>2, <2>3, FieldTypes DEF Given
<1>5. CASE type[1] = "struct"
  <2>1. new = ParseStruct(val, v[f]).v
    BY <1>1, <1>5, ParseByKind
  <2> HIDE DEF val, new
  <2>2. val # Absent /\ val.t = "object" /\ new = InnerFromJson(val, v[f])
    BY <2>1 DEF ParseStruct, Parsed, Rejected
  <2>3. IsValue(val) /\ (\A b \in Within(val) : IsValue(b)) => InnerGiven(val, new, v[f])
    BY <2>2, InnerIsGiven
  <2> QED BY <1>5, <2>2, <2>3, FieldTypes DEF Given
<1>6. CASE type[1] \in {"vector", "set", "map"}
  <2>1. new = (IF type[1] = "vector" THEN ParseVector(type[2], val, v[f])
               ELSE IF type[1] = "set" THEN ParseSet(type[2], val, v[f])
               ELSE ParseMap(type[2], val, v[f])).v
    BY <1>1, <1>6, ParseByKind
  <2> HIDE DEF val, new
  <2>2. val # Absent
    BY <1>6, <2>1 DEF ParseVector, ParseSet, ParseMap, Rejected
  <2> QED BY <1>6, <2>1, <2>2, ContainerIsGiven
<1> QED BY <1>4, <1>5, <1>6, FieldTypes

LEMMA JsonInvGiven == JsonInv => NothingInvented
<1> SUFFICES ASSUME JsonInv, Settled, parsed[Get].by = "hand", NEW f \in ToSet(Fields)
             PROVE  \/ obj[Get][f] = prior[Get][f]
                    \/ \E m \in ToSet(Doc(parsed[Get]).members) :
                         /\ m.name = JsonName[f]
                         /\ Given(m.value, TypeOf[f], obj[Get][f], prior[Get][f])
  BY DEF NothingInvented
<1> DEFINE json == Doc(parsed[Get])
<1>1. parsed[Get] \in Sources /\ json.t = "object" /\ obj[Get] = PraseFromJson(json, prior[Get])
  BY PublishedContents
<1>2. PICK doc \in HandWritten : parsed[Get] = ByHand(doc)
  BY <1>1 DEF Sources, NoFile, Empty, ByWriter
<1>3. json = doc
  BY <1>2 DEF Doc, ByHand
<1>4. IsDocument(json)
  BY <1>3, DocumentsAssumption
<1> HIDE DEF json
<1>5. \/ obj[Get][f] = prior[Get][f]
      \/ \E m \in ToSet(json.members) :
           /\ m.name = JsonName[f]
           /\ Given(m.value, TypeOf[f], obj[Get][f], prior[Get][f])
  BY <1>1, <1>4, MemberIsGiven
<1> QED BY <1>5 DEF json

\* What is in an object that was published, and not left from before, is in its
\* document, under its name and in its place, whatever the document is.
THEOREM NothingIsInvented == JsonSpec => []NothingInvented
BY JsonInvGiven, JsonInvariance, PTL

-----------------------------------------------------------------------------
(* What is written is parsed again: scalars and the members of a struct.    *)

LEMMA ScalarRoundTrip ==
  ASSUME NEW type \in Scalar, NEW x, OfScalar(type, x), NEW v
  PROVE  ParseScalar(type, ScalarToJson(type, x), v) = Parsed(x)
<1>1. CASE type \in Integral
  <2> DEFINE val == JInt(x)
  <2>1. ScalarToJson(type, x) = val
    BY <1>1 DEF ScalarToJson, Integral
  <2>2. val # Absent /\ val.t = "int" /\ val.n = x
    BY DEF JInt, Absent
  <2>3. x \in RangeOf(type)
    BY <1>1 DEF OfScalar
  <2> HIDE DEF val
  <2>4. ASSUME NEW wide, x \in RangeOf(wide) PROVE Parse64(wide, val, v) = Parsed(x)
    BY <2>2, <2>4 DEF Parse64
  <2>5. CASE type \in {"int64_t", "uint64_t"}
    BY <2>1, <2>3, <2>4, <2>5 DEF ParseScalar
  <2>6. CASE type \in {"int8_t", "uint16_t", "uint8_t"}
    <3>1. x \in RangeOf(WideType(type))
      BY <2>3, <2>6, JsonAssumption DEF IsSigned, WideType
    <3>2. ParseNarrow(type, val, v) = Parsed(x)
      <4>1. Parsed(x).ok /\ Parsed(x).v = x
        BY DEF Parsed
      <4>2. Parse64(WideType(type), val, v) = Parsed(x)
        BY <2>4, <3>1
      <4> QED
        BY <2>3, <4>1, <4>2, UnsignedIsNotNegative DEF ParseNarrow
    <3> QED BY <2>1, <2>6, <3>2 DEF ParseScalar
  <2> QED BY <1>1, <2>5, <2>6 DEF Integral
<1>2. CASE type = "double"
  <2>1. ScalarToJson(type, x) = JDouble(x)
    BY <1>2 DEF ScalarToJson, Integral
  <2>2. JDouble(x) # Absent /\ JDouble(x).t = "double" /\ JDouble(x).d = x
    BY DEF JDouble, Absent
  <2> QED BY <1>2, <2>1, <2>2 DEF ParseScalar, ParseDouble
<1>3. CASE type = "string"
  <2>1. ScalarToJson(type, x) = JString(x)
    BY <1>3 DEF ScalarToJson, Integral
  <2>2. JString(x) # Absent /\ JString(x).t = "string" /\ JString(x).s = x
    BY DEF JString, Absent
  <2> QED BY <1>3, <2>1, <2>2 DEF ParseScalar, ParseString
<1>4. CASE type = "bool"
  <2>1. ScalarToJson(type, x) = JBool(x)
    BY <1>4 DEF ScalarToJson, Integral
  <2>2. JBool(x) # Absent /\ JBool(x).t = "bool" /\ JBool(x).b = x
    BY DEF JBool, Absent
  <2> QED BY <1>4, <2>1, <2>2 DEF ParseScalar, ParseBool
<1> QED BY <1>1, <1>2, <1>3, <1>4 DEF Scalar

\* Going through the members in turn and appending some: there is such a run,
\* and it ends with the members that were appended, and no other.
Gathers(g, N, K, item) ==
  g = [n \in 0 .. N |-> IF n = 0 THEN <<>>
                        ELSE IF n \in K THEN Append(g[n - 1], item[n]) ELSE g[n - 1]]

LEMMA GatheringExists ==
  ASSUME NEW N \in Nat, NEW K, NEW item
  PROVE  \E g : Gathers(g, N, K, item)
<1> DEFINE wrong == {n \in Nat : ~ \E g : Gathers(g, n, K, item)}
<1> SUFFICES ASSUME wrong # {} PROVE FALSE
  OBVIOUS
<1> DEFINE m == Min(wrong)
<1>1. m \in wrong /\ \A n \in wrong : m <= n
  <2>1. wrong \in SUBSET Nat
    OBVIOUS
  <2> HIDE DEF wrong
  <2> QED BY <2>1, LeastNatural
<1>2. m \in Nat /\ ~ \E g : Gathers(g, m, K, item)
  BY <1>1
<1>3. \A n \in Nat : n < m => \E g : Gathers(g, n, K, item)
  <2> SUFFICES ASSUME NEW n \in Nat, n < m, ~ \E g : Gathers(g, n, K, item) PROVE FALSE
    OBVIOUS
  <2>1. n \in wrong
    OBVIOUS
  <2> HIDE DEF wrong, m
  <2> QED BY <1>1, <1>2, <2>1
<1> HIDE DEF wrong, m
<1>4. CASE m = 0
  <2> DEFINE g == [n \in 0 .. 0 |-> <<>>]
  <2>1. \A n \in 0 .. 0 : n = 0
    OBVIOUS
  <2>2. Gathers(g, 0, K, item)
    BY <2>1 DEF Gathers
  <2> QED BY <1>2, <1>4, <2>2
<1>5. CASE m # 0
  <2>1. m - 1 \in Nat /\ m - 1 < m
    BY <1>2, <1>5
  <2>2. PICK g : Gathers(g, m - 1, K, item)
    BY <1>3, <2>1
  <2> DEFINE last == IF m \in K THEN Append(g[m - 1], item[m]) ELSE g[m - 1]
             h == [n \in 0 .. m |-> IF n = m THEN last ELSE g[n]]
  <2>3. \A n \in 0 .. m - 1 :
          h[n] = IF n = 0 THEN <<>> ELSE IF n \in K THEN Append(h[n - 1], item[n]) ELSE h[n - 1]
    <3> TAKE n \in 0 .. m - 1
    <3>1. n \in 0 .. m /\ n # m /\ (n # 0 => n - 1 \in 0 .. m /\ n - 1 # m)
      BY <1>2
    <3>2. h[n] = g[n] /\ (n # 0 => h[n - 1] = g[n - 1])
      <4> HIDE DEF last
      <4> QED BY <3>1
    <3>3. g[n] = IF n = 0 THEN <<>> ELSE IF n \in K THEN Append(g[n - 1], item[n]) ELSE g[n - 1]
      BY <2>2 DEF Gathers
    <3> HIDE DEF h
    <3> QED BY <3>2, <3>3
  <2>4. h[m] = IF m = 0 THEN <<>> ELSE IF m \in K THEN Append(h[m - 1], item[m]) ELSE h[m - 1]
    <3>1. h[m] = last /\ h[m - 1] = g[m - 1]
      <4> HIDE DEF last
      <4> QED BY <1>2, <2>1
    <3> HIDE DEF h
    <3> QED BY <1>5, <3>1
  <2>5. DOMAIN h = 0 .. m /\ h = [n \in 0 .. m |-> h[n]]
    <3> HIDE DEF last
    <3> QED OBVIOUS
  <2> HIDE DEF h
  <2>6. \A n \in 0 .. m : n \in 0 .. m - 1 \/ n = m
    BY <1>2
  <2>7. \A n \in 0 .. m :
          h[n] = IF n = 0 THEN <<>> ELSE IF n \in K THEN Append(h[n - 1], item[n]) ELSE h[n - 1]
    BY <2>3, <2>4, <2>6
  <2>8. Gathers(h, m, K, item)
    BY <2>5, <2>7 DEF Gathers
  <2> QED BY <1>2, <2>8
<1> QED BY <1>4, <1>5

LEMMA AppendSet ==
  ASSUME NEW T, NEW s \in Seq(T), NEW x
  PROVE  ToSet(Append(s, x)) = ToSet(s) \cup {x}
<1>1. DOMAIN Append(s, x) = 1 .. Len(s) + 1 /\ DOMAIN s = 1 .. Len(s) /\ Len(s) \in Nat
  OBVIOUS
<1>2. \A i \in 1 .. Len(s) : Append(s, x)[i] = s[i]
  OBVIOUS
<1>3. Append(s, x)[Len(s) + 1] = x
  OBVIOUS
<1>4. 1 .. Len(s) + 1 = (1 .. Len(s)) \cup {Len(s) + 1}
  BY <1>1
<1> QED BY <1>1, <1>2, <1>3, <1>4 DEF ToSet

LEMMA GatheredItems ==
  ASSUME NEW N \in Nat, NEW K \in SUBSET (1 .. N), NEW item, NEW g, Gathers(g, N, K, item)
  PROVE  /\ g[N] \in Seq({item[n] : n \in K})
         /\ ToSet(g[N]) = {item[n] : n \in K}
<1> DEFINE upto(n) == {item[i] : i \in {k \in K : k <= n}}
           Good(n) == g[n] \in Seq(upto(n)) /\ ToSet(g[n]) = upto(n)
           wrong == {n \in 0 .. N : ~ Good(n)}
<1>0. \A n \in 0 .. N :
        g[n] = IF n = 0 THEN <<>> ELSE IF n \in K THEN Append(g[n - 1], item[n]) ELSE g[n - 1]
  BY DEF Gathers
<1>1. wrong = {}
  <2> SUFFICES ASSUME wrong # {} PROVE FALSE
    OBVIOUS
  <2> DEFINE m == Min(wrong)
  <2>1. m \in wrong /\ \A n \in wrong : m <= n
    <3>1. wrong \in SUBSET Nat
      OBVIOUS
    <3> HIDE DEF wrong
    <3> QED BY <3>1, LeastNatural
  <2>2. m \in 0 .. N /\ ~ Good(m)
    BY <2>1
  <2>3. m # 0 => m - 1 \in 0 .. N /\ Good(m - 1)
    <3> SUFFICES ASSUME m # 0 PROVE m - 1 \in 0 .. N /\ m - 1 \notin wrong
      OBVIOUS
    <3> HIDE DEF wrong, m, Good
    <3> QED BY <2>1, <2>2
  <2> HIDE DEF wrong, m
  <2>4. CASE m = 0
    <3>1. g[0] = <<>> /\ upto(0) = {}
      <4>1. \A k \in K : ~ (k <= 0)
        OBVIOUS
      <4>2. 0 \in 0 .. N
        OBVIOUS
      <4> QED BY <1>0, <4>1, <4>2
    <3>2. ToSet(<<>>) = {} /\ <<>> \in Seq({})
      BY DEF ToSet
    <3> QED BY <2>2, <2>4, <3>1, <3>2
  <2>5. CASE m # 0 /\ m \in K
    <3>1. g[m] = Append(g[m - 1], item[m])
      BY <1>0, <2>2, <2>5
    <3>2. upto(m) = upto(m - 1) \cup {item[m]}
      <4>1. {k \in K : k <= m} = {k \in K : k <= m - 1} \cup {m}
        <5>1. \A k \in K : k <= m <=> k <= m - 1 \/ k = m
          BY <2>2
        <5> QED BY <2>5, <5>1
      <4> QED BY <4>1
    <3>3. g[m - 1] \in Seq(upto(m - 1)) /\ ToSet(g[m - 1]) = upto(m - 1)
      BY <2>3, <2>5
    <3> HIDE DEF upto
    <3>4. g[m - 1] \in Seq(upto(m))
      BY <3>2, <3>3
    <3>5. g[m] \in Seq(upto(m))
      BY <3>1, <3>2, <3>4
    <3>6. ToSet(g[m]) = ToSet(g[m - 1]) \cup {item[m]}
      BY <3>1, <3>4, AppendSet
    <3> QED BY <2>2, <3>2, <3>3, <3>5, <3>6
  <2>6. CASE m # 0 /\ m \notin K
    <3>1. g[m] = g[m - 1]
      BY <1>0, <2>2, <2>6
    <3>2. upto(m) = upto(m - 1)
      <4>1. {k \in K : k <= m} = {k \in K : k <= m - 1}
        <5>1. \A k \in K : k <= m <=> k <= m - 1 \/ k = m
          BY <2>2
        <5> QED BY <2>6, <5>1
      <4> QED BY <4>1
    <3> HIDE DEF upto
    <3> QED BY <2>2, <2>3, <2>6, <3>1, <3>2
  <2> QED BY <2>4, <2>5, <2>6
<1>2. Good(N)
  <2> HIDE DEF Good
  <2> QED BY <1>1
<1>3. upto(N) = {item[n] : n \in K}
  <2>1. \A k \in K : k <= N
    OBVIOUS
  <2>2. {k \in K : k <= N} = K
    BY <2>1
  <2> QED BY <2>2
<1> QED BY <1>2, <1>3

\* The members written for the fields of F, in some order.
Lists(ms, F, value) ==
  ms \in Seq(ToSet(ms)) /\ ToSet(ms) = {Member(JsonName[g], value[g]) : g \in F}

\* A name is found if its member was written, with what was written.
LEMMA LookupWritten ==
  ASSUME NEW ms, NEW F \in SUBSET DOMAIN TypeOf, NEW value, Lists(ms, F, value),
         NEW f \in DOMAIN TypeOf
  PROVE  getJsonFiledValue(JObject(ms), JsonName[f]) = IF f \in F THEN value[f] ELSE Absent
<1> DEFINE json == JObject(ms)
<1>0. ms \in Seq(ToSet(ms)) /\ ToSet(ms) = {Member(JsonName[g], value[g]) : g \in F}
  BY DEF Lists
<1>1. json.members = ms
  BY DEF JObject
<1>2. JsonName[f] # "" /\ \A g \in F : JsonName[g] = JsonName[f] => g = f
  BY JsonAssumption
<1>3. \A g \in F : Member(JsonName[g], value[g]).name = JsonName[g]
                   /\ Member(JsonName[g], value[g]).value = value[g]
  BY DEF Member
<1> HIDE DEF json
<1>4. CASE f \in F
  <2>1. \E m \in ToSet(json.members) : m.name = JsonName[f]
    BY <1>0, <1>1, <1>3, <1>4
  <2>2. json.members \in Seq(ToSet(ms))
    BY <1>0, <1>1
  <2>3. PICK m \in ToSet(json.members) :
          m.name = JsonName[f] /\ m.value = getJsonFiledValue(json, JsonName[f])
    BY <1>2, <2>1, <2>2, LookupFinds
  <2>4. PICK g \in F : m = Member(JsonName[g], value[g])
    BY <1>0, <1>1, <2>3
  <2>5. g = f
    BY <1>2, <1>3, <2>3, <2>4
  <2>6. getJsonFiledValue(json, JsonName[f]) = value[f]
    BY <1>3, <2>3, <2>4, <2>5
  <2> QED BY <1>4, <2>6 DEF json
<1>5. CASE f \notin F
  <2>1. \A i \in DOMAIN ms : ms[i].name # JsonName[f]
    <3> SUFFICES ASSUME NEW i \in DOMAIN ms, ms[i].name = JsonName[f] PROVE FALSE
      OBVIOUS
    <3>1. ms[i] \in ToSet(ms)
      BY DEF ToSet
    <3>2. PICK g \in F : ms[i] = Member(JsonName[g], value[g])
      BY <1>0, <3>1
    <3> QED BY <1>2, <1>3, <1>5, <3>2
  <2>2. {i \in DOMAIN json.members : json.members[i].name = JsonName[f]} = {}
    BY <1>1, <2>1
  <2>3. getJsonFiledValue(json, JsonName[f]) = Absent
    BY <1>2, <2>2 DEF getJsonFiledValue
  <2> QED BY <1>5, <2>3 DEF json
<1> QED BY <1>4, <1>5

LEMMA FieldsAreSeqs ==
  /\ Len(Fields) \in Nat /\ DOMAIN Fields = 1 .. Len(Fields)
  /\ ToSet(Fields) = {Fields[n] : n \in 1 .. Len(Fields)}
  /\ Len(InnerFields) \in Nat /\ DOMAIN InnerFields = 1 .. Len(InnerFields)
  /\ ToSet(InnerFields) = {InnerFields[n] : n \in 1 .. Len(InnerFields)}
  /\ ToSet(Fields) \subseteq DOMAIN TypeOf /\ ToSet(InnerFields) \subseteq DOMAIN TypeOf
<1>1. Fields \in Seq(DOMAIN TypeOf) /\ InnerFields \in Seq(DOMAIN TypeOf)
  BY JsonAssumption
<1>2. ToSet(Fields) \subseteq DOMAIN TypeOf /\ ToSet(InnerFields) \subseteq DOMAIN TypeOf
  BY JsonAssumption
<1> QED BY <1>1, <1>2, SeqDomain DEF ToSet

\* The members of a struct that are written: but for defaults, if asked to.
WrittenInner(v, ignore) ==
  {g \in ToSet(InnerFields) : ~ (ignore /\ v[g] = ZeroScalar(TypeOf[g][1]))}

LEMMA InnerWritten ==
  ASSUME NEW v, NEW ignore
  PROVE  \E ms : /\ InnerToJson(v, ignore) = JObject(ms)
                 /\ ms \in Seq(ToSet(ms))
                 /\ ToSet(ms) = {Member(JsonName[g], ScalarToJson(TypeOf[g][1], v[g])) :
                                   g \in WrittenInner(v, ignore)}
<1> DEFINE N == Len(InnerFields)
           what(json, f) == SerializeScalar(json, TypeOf[f][1], GetFieldName(f), v[f], ignore)
           J == CHOOSE j : j = [n \in 0 .. N |->
                  IF n = 0 THEN <<>> ELSE what(j[n - 1], InnerFields[n])]
           K == {n \in 1 .. N : InnerFields[n] \in WrittenInner(v, ignore)}
           item == [n \in 1 .. N |->
             Member(JsonName[InnerFields[n]], ScalarToJson(TypeOf[InnerFields[n]][1], v[InnerFields[n]]))]
<1>1. InnerToJson(v, ignore) = JObject(J[N])
  BY DEF InnerToJson, JSON_FOR_EACH
<1>2. ASSUME NEW json, NEW n \in 1 .. N
      PROVE  what(json, InnerFields[n]) = IF n \in K THEN Append(json, item[n]) ELSE json
  <2>1. InnerFields[n] \in ToSet(InnerFields)
    BY FieldsAreSeqs
  <2> QED BY <2>1 DEF SerializeScalar, addJsonMember, GetFieldName, WrittenInner
<1>3. N \in Nat
  BY FieldsAreSeqs
<1> HIDE DEF N, what, item, K
<1>4. PICK gathered : Gathers(gathered, N, K, item)
  BY <1>3, GatheringExists
<1>5. ASSUME NEW j
      PROVE  Gathers(j, N, K, item) <=>
               j = [n \in 0 .. N |-> IF n = 0 THEN <<>> ELSE what(j[n - 1], InnerFields[n])]
  <2>1. \A n \in 0 .. N : n # 0 => n \in 1 .. N
    BY <1>3
  <2>2. \A n \in 0 .. N :
          (IF n = 0 THEN <<>> ELSE what(j[n - 1], InnerFields[n]))
            = IF n = 0 THEN <<>> ELSE IF n \in K THEN Append(j[n - 1], item[n]) ELSE j[n - 1]
    BY <1>2, <2>1
  <2> QED BY <2>2 DEF Gathers
<1>6. Gathers(J, N, K, item)
  <2>1. \E j : j = [n \in 0 .. N |-> IF n = 0 THEN <<>> ELSE what(j[n - 1], InnerFields[n])]
    BY <1>4, <1>5
  <2>2. J = [n \in 0 .. N |-> IF n = 0 THEN <<>> ELSE what(J[n - 1], InnerFields[n])]
    BY <2>1
  <2> HIDE DEF J
  <2> QED BY <1>5, <2>2
<1> HIDE DEF J
<1>7. K \in SUBSET (1 .. N)
  BY DEF K
<1>8. J[N] \in Seq({item[n] : n \in K}) /\ ToSet(J[N]) = {item[n] : n \in K}
  BY <1>3, <1>6, <1>7, GatheredItems
<1>9. {item[n] : n \in K} = {Member(JsonName[g], ScalarToJson(TypeOf[g][1], v[g])) :
                                g \in WrittenInner(v, ignore)}
  <2>1. \A n \in K : InnerFields[n] \in WrittenInner(v, ignore) /\ n \in 1 .. N
    BY DEF K
  <2>2. \A f \in WrittenInner(v, ignore) : \E n \in K : InnerFields[n] = f
    BY FieldsAreSeqs DEF K, WrittenInner, N
  <2>3. \A n \in 1 .. N : item[n] =
          Member(JsonName[InnerFields[n]], ScalarToJson(TypeOf[InnerFields[n]][1], v[InnerFields[n]]))
    BY DEF item
  <2> QED BY <2>1, <2>2, <2>3
<1> QED BY <1>1, <1>8, <1>9

LEMMA InnerLookup ==
  ASSUME NEW v, NEW ignore, NEW g \in ToSet(InnerFields)
  PROVE  /\ InnerToJson(v, ignore).t = "object" /\ InnerToJson(v, ignore) # Absent
         /\ getJsonFiledValue(InnerToJson(v, ignore), GetFieldName(g)) =
              IF g \in WrittenInner(v, ignore) THEN ScalarToJson(TypeOf[g][1], v[g]) ELSE Absent
<1>1. PICK ms : /\ InnerToJson(v, ignore) = JObject(ms)
                /\ ms \in Seq(ToSet(ms))
                /\ ToSet(ms) = {Member(JsonName[h], ScalarToJson(TypeOf[h][1], v[h])) :
                                  h \in WrittenInner(v, ignore)}
  BY InnerWritten
<1> DEFINE F == WrittenInner(v, ignore)
           value == [h \in F |-> ScalarToJson(TypeOf[h][1], v[h])]
<1>2. F \in SUBSET DOMAIN TypeOf /\ g \in DOMAIN TypeOf
  BY FieldsAreSeqs DEF WrittenInner
<1>3. Lists(ms, F, value)
  <2>1. \A h \in F : value[h] = ScalarToJson(TypeOf[h][1], v[h])
    OBVIOUS
  <2> HIDE DEF value
  <2> QED BY <1>1, <2>1 DEF Lists
<1>4. \A h \in F : value[h] = ScalarToJson(TypeOf[h][1], v[h])
  OBVIOUS
<1> HIDE DEF F, value
<1>5. getJsonFiledValue(JObject(ms), JsonName[g]) = IF g \in F THEN value[g] ELSE Absent
  BY <1>2, <1>3, LookupWritten
<1>6. JObject(ms).t = "object" /\ JObject(ms) # Absent
  BY DEF JObject, Absent
<1> QED BY <1>1, <1>4, <1>5, <1>6 DEF F, GetFieldName

\* A nested struct comes back, but for defaults that were not written.
LEMMA InnerRoundTrip ==
  ASSUME NEW x, OfInner(x), NEW ignore, NEW old, NEW g \in ToSet(InnerFields)
  PROVE  InnerFromJson(InnerToJson(x, ignore), old)[g] =
           IF g \in WrittenInner(x, ignore) THEN x[g] ELSE old[g]
<1> DEFINE type == TypeOf[g][1]
           val == getJsonFiledValue(InnerToJson(x, ignore), GetFieldName(g))
<1>1. InnerFromJson(InnerToJson(x, ignore), old)[g] = ParseScalar(type, val, old[g]).v
  BY DEF InnerFromJson
<1>2. type \in Scalar /\ OfScalar(type, x[g])
  BY JsonAssumption DEF OfInner
<1>3. CASE g \in WrittenInner(x, ignore)
  <2>1. val = ScalarToJson(type, x[g])
    BY <1>3, InnerLookup
  <2> HIDE DEF val, type
  <2> QED BY <1>1, <1>2, <1>3, <2>1, ScalarRoundTrip DEF Parsed
<1>4. CASE g \notin WrittenInner(x, ignore)
  <2>1. val = Absent
    BY <1>4, InnerLookup
  <2> HIDE DEF val, type
  <2>2. ParseScalar(type, val, old[g]).v = old[g]
    BY <1>2, <2>1, ScalarParseOutcome
  <2> QED BY <1>1, <1>4, <2>2
<1> QED BY <1>3, <1>4

\* Elements are written in full and come back as they were.
LEMMA ElementRoundTrip ==
  ASSUME NEW e \in Scalar \cup {"struct"}, NEW x, OfElement(e, x)
  PROVE  ParseElement(e, ElementToJson(e, x)) = Parsed(x)
<1>1. CASE e = "struct"
  <2> DEFINE val == InnerToJson(x, FALSE)
             y == InnerFromJson(val, ZeroInner)
  <2>1. OfInner(x)
    BY <1>1 DEF OfElement
  <2>2. \A g \in ToSet(InnerFields) : g \in WrittenInner(x, FALSE)
    BY DEF WrittenInner
  <2>3. \A g \in ToSet(InnerFields) : y[g] = x[g]
    BY <2>1, <2>2, InnerRoundTrip
  <2>4. y = [g \in ToSet(InnerFields) |-> y[g]]
    BY DEF InnerFromJson
  <2>5. x = [g \in ToSet(InnerFields) |-> x[g]]
    BY <2>1 DEF OfInner
  <2>6. val.t = "object" /\ val # Absent
    <3>1. PICK ms : val = JObject(ms)
      BY InnerWritten
    <3> HIDE DEF val
    <3> QED BY <3>1 DEF JObject, Absent
  <2>7. ParseElement(e, ElementToJson(e, x)) = Parsed(y)
    BY <1>1, <2>6 DEF ParseElement, ElementToJson, ParseStruct
  <2> HIDE DEF y
  <2> QED BY <2>3, <2>4, <2>5, <2>7
<1>2. CASE e # "struct"
  <2>1. e \in Scalar /\ OfScalar(e, x)
    BY <1>2 DEF OfElement
  <2> QED BY <1>2, <2>1, ScalarRoundTrip DEF ParseElement, ElementToJson
<1> QED BY <1>1, <1>2

-----------------------------------------------------------------------------
(* What is written is parsed again: containers.                             *)

LEMMA ListRoundTrip ==
  ASSUME NEW e \in Scalar \cup {"struct"}, NEW T, NEW x \in Seq(T), NEW U, NEW vals \in Seq(U),
         Len(vals) = Len(x),
         \A i \in 1 .. Len(x) : OfElement(e, x[i]) /\ vals[i] = ElementToJson(e, x[i])
  PROVE  ParsedPrefix(e, vals).ok /\ ParsedPrefix(e, vals).v = x
<1>1. PICK n \in 0 .. Len(vals) : ParsesUpTo(e, vals, n)
  BY PrefixFacts
<1>2. Len(x) \in Nat /\ DOMAIN x = 1 .. Len(x)
  BY SeqDomain
<1>3. \A i \in 1 .. Len(x) : ParseElement(e, vals[i]) = Parsed(x[i])
  BY ElementRoundTrip
<1>4. \A i \in 1 .. Len(x) : ParseElement(e, vals[i]).ok /\ ParseElement(e, vals[i]).v = x[i]
  <2>1. \A i \in 1 .. Len(x) : Parsed(x[i]).ok /\ Parsed(x[i]).v = x[i]
    BY DEF Parsed
  <2> QED BY <1>3, <2>1
<1>5. n = Len(x)
  <2> SUFFICES ASSUME n # Len(x) PROVE FALSE
    OBVIOUS
  <2>1. n < Len(vals) /\ n + 1 \in 1 .. Len(x)
    BY <1>2
  <2> QED BY <1>1, <1>4, <2>1 DEF ParsesUpTo
<1>6. ParsedPrefix(e, vals).v = [i \in 1 .. Len(x) |-> ParseElement(e, vals[i]).v]
  BY <1>1, <1>5 DEF ParsesUpTo
<1>7. x = [i \in 1 .. Len(x) |-> x[i]]
  BY <1>2
<1>8. ParsedPrefix(e, vals).v = x
  BY <1>4, <1>6, <1>7
<1> QED BY <1>1, <1>5, <1>8 DEF ParsesUpTo

\* The elements of a finite set, each once.
LEMMA SetToSeqFacts ==
  ASSUME NEW S, IsFiniteSet(S)
  PROVE  /\ SetToSeq(S) \in Seq(S) /\ Len(SetToSeq(S)) \in Nat
         /\ DOMAIN SetToSeq(S) = 1 .. Len(SetToSeq(S))
         /\ ToSet(SetToSeq(S)) = S
<1> DEFINE N == Cardinality(S)
           s == SetToSeq(S)
<1>1. N \in Nat /\ ExistsBijection(1 .. N, S)
  BY FS_CardinalityType
<1> HIDE DEF N
<1>2. \E f \in [1 .. N -> S] : IsInjective(f)
  BY <1>1 DEF ExistsBijection, Bijection, Injection
<1>3. s \in [1 .. N -> S] /\ IsInjective(s)
  BY <1>2 DEF SetToSeq, N
<1> HIDE DEF s
<1>4. s \in Injection(1 .. N, S)
  BY <1>3 DEF Injection
<1>5. Cardinality(1 .. N) = Cardinality(S)
  BY <1>1, FS_Interval DEF N
<1>6. s \in Surjection(1 .. N, S)
  BY <1>4, <1>5, FS_Injection
<1>7. s \in Seq(S) /\ Len(s) = N /\ DOMAIN s = 1 .. N
  BY <1>1, <1>3
<1>8. ToSet(s) = S
  BY <1>6, <1>7 DEF Surjection, ToSet
<1> QED BY <1>1, <1>7, <1>8 DEF s

\* What a finite set is turned into is finite.
LEMMA ImageIsFinite ==
  ASSUME NEW S, IsFiniteSet(S), NEW image
  PROVE  IsFiniteSet({image[x] : x \in S})
<1> DEFINE T == {image[x] : x \in S}
           f == [x \in S |-> image[x]]
<1>1. f \in Surjection(S, T)
  BY DEF Surjection
<1> HIDE DEF f, T
<1>2. IsFiniteSet(T)
  BY <1>1, FS_Surjection
<1> QED BY <1>2 DEF T

LEMMA VectorRoundTrip ==
  ASSUME NEW type, type[1] = "vector", type[2] \in Scalar \cup {"struct"},
         NEW x, OfType(type, x), NEW v
  PROVE  ParseVector(type[2], ContainerToJson(type, x), v).v = x
<1> DEFINE e == type[2]
           vals == [i \in DOMAIN x |-> ElementToJson(e, x[i])]
<1>1. x \in Seq(ToSet(x)) /\ \A i \in DOMAIN x : OfElement(e, x[i])
  BY DEF OfType, Scalar, Integral
<1>2. Len(x) \in Nat /\ DOMAIN x = 1 .. Len(x)
  BY <1>1, SeqDomain
<1>3. ContainerToJson(type, x) = JArray(vals)
  BY DEF ContainerToJson
<1>4. /\ vals \in Seq({ElementToJson(e, x[i]) : i \in DOMAIN x}) /\ Len(vals) = Len(x)
      /\ \A i \in 1 .. Len(x) : vals[i] = ElementToJson(e, x[i])
  BY <1>2
<1>5. e \in Scalar \cup {"struct"}
  OBVIOUS
<1> HIDE DEF vals, e
<1>7. ParsedPrefix(e, vals).v = x
  <2>1. \A i \in 1 .. Len(x) : OfElement(e, x[i]) /\ vals[i] = ElementToJson(e, x[i])
    BY <1>1, <1>2, <1>4
  <2> DEFINE T == ToSet(x)
             U == {ElementToJson(e, x[i]) : i \in DOMAIN x}
  <2>2. x \in Seq(T) /\ vals \in Seq(U) /\ Len(vals) = Len(x)
    BY <1>1, <1>4
  <2> HIDE DEF T, U
  <2> QED BY <1>5, <2>1, <2>2, ListRoundTrip
<1>6. JArray(vals).t = "array" /\ JArray(vals).elems = vals /\ JArray(vals) # Absent
  BY DEF JArray, Absent
<1> QED BY <1>3, <1>6, <1>7 DEF ParseVector, e

LEMMA SetRoundTrip ==
  ASSUME NEW type, type[1] = "set", type[2] \in Scalar \cup {"struct"},
         NEW x, OfType(type, x), NEW v
  PROVE  ParseSet(type[2], ContainerToJson(type, x), v).v = x
<1> DEFINE e == type[2]
           image == [y \in x |-> ElementToJson(e, y)]
           S == {image[y] : y \in x}
           vals == SetToSeq(S)
           of == [i \in 1 .. Len(vals) |-> CHOOSE y \in x : vals[i] = image[y]]
<1>1. IsFiniteSet(x) /\ \A y \in x : OfElement(e, y)
  BY DEF OfType, Scalar, Integral
<1>2. \A y \in x : image[y] = ElementToJson(e, y)
  OBVIOUS
<1>3. ContainerToJson(type, x) = JArray(vals)
  <2>1. S = {ElementToJson(e, y) : y \in x}
    BY <1>2
  <2>2. ContainerToJson(type, x) = JArray(SetToSeq({ElementToJson(e, y) : y \in x}))
    BY DEF ContainerToJson
  <2> QED BY <2>1, <2>2
<1> HIDE DEF image
<1>4. /\ vals \in Seq(S) /\ Len(vals) \in Nat /\ DOMAIN vals = 1 .. Len(vals) /\ ToSet(vals) = S
  BY <1>1, ImageIsFinite, SetToSeqFacts
<1>5. \A i \in 1 .. Len(vals) : vals[i] \in S
  BY <1>4 DEF ToSet
<1> HIDE DEF vals
<1>6. \A i \in 1 .. Len(vals) : of[i] \in x /\ vals[i] = image[of[i]]
  BY <1>5
<1>7. of \in Seq(x) /\ Len(of) = Len(vals) /\ DOMAIN of = 1 .. Len(vals)
  <2>1. of \in [1 .. Len(vals) -> x]
    BY <1>6
  <2> HIDE DEF of
  <2> QED BY <1>4, <2>1
<1> HIDE DEF of
<1>8. ParsedPrefix(e, vals).v = of
  <2>1. \A i \in 1 .. Len(of) : OfElement(e, of[i]) /\ vals[i] = ElementToJson(e, of[i])
    BY <1>1, <1>2, <1>6, <1>7
  <2> HIDE DEF e, S
  <2> QED BY <1>4, <1>7, <2>1, ListRoundTrip DEF e
<1>9. ToSet(of) = x
  <2>1. ToSet(of) \subseteq x
    BY <1>6, <1>7 DEF ToSet
  <2>2. ASSUME NEW y \in x PROVE y \in ToSet(of)
    <3>1. PICK i \in 1 .. Len(vals) : vals[i] = image[y]
      BY <1>4 DEF ToSet
    <3>2. image[y] = image[of[i]] /\ of[i] \in x
      BY <1>6, <3>1
    <3>3. ParseElement(e, image[y]) = Parsed(y) /\ ParseElement(e, image[of[i]]) = Parsed(of[i])
      BY <1>1, <1>2, <3>2, ElementRoundTrip
    <3>4. y = of[i]
      BY <3>2, <3>3 DEF Parsed
    <3> QED BY <1>7, <3>4 DEF ToSet
  <2> QED BY <2>1, <2>2
<1>10. JArray(vals).t = "array" /\ JArray(vals).elems = vals /\ JArray(vals) # Absent
  BY DEF JArray, Absent
<1> QED BY <1>3, <1>8, <1>9, <1>10 DEF ParseSet, e

LEMMA MapRoundTrip ==
  ASSUME NEW type, type[1] = "map", type[2] \in Scalar \cup {"struct"},
         NEW x, OfType(type, x), NEW v
  PROVE  ParseMap(type[2], ContainerToJson(type, x), v).v = x
<1> DEFINE e == type[2]
           image == [k \in DOMAIN x |-> Member(k, ElementToJson(e, x[k]))]
           S == {image[k] : k \in DOMAIN x}
           ms == SetToSeq(S)
           names == [i \in DOMAIN ms |-> ms[i].name]
           vals  == [i \in DOMAIN ms |-> ms[i].value]
           of == [i \in 1 .. Len(ms) |-> x[names[i]]]
<1>1. /\ IsFiniteSet(DOMAIN x) /\ x = [k \in DOMAIN x |-> x[k]]
      /\ \A k \in DOMAIN x : OfElement(e, x[k])
  BY DEF OfType, Scalar, Integral
<1>2. \A k \in DOMAIN x : image[k].name = k /\ image[k].value = ElementToJson(e, x[k])
  BY DEF Member
<1>3. ContainerToJson(type, x) = JObject(ms)
  <2>1. S = {Member(k, ElementToJson(e, x[k])) : k \in DOMAIN x}
    OBVIOUS
  <2>2. ContainerToJson(type, x) =
          JObject(SetToSeq({Member(k, ElementToJson(e, x[k])) : k \in DOMAIN x}))
    BY DEF ContainerToJson
  <2> QED BY <2>1, <2>2
<1> HIDE DEF image
<1>4. /\ ms \in Seq(S) /\ Len(ms) \in Nat /\ DOMAIN ms = 1 .. Len(ms) /\ ToSet(ms) = S
  BY <1>1, ImageIsFinite, SetToSeqFacts
<1>5. \A i \in 1 .. Len(ms) : \E k \in DOMAIN x : ms[i] = image[k]
  BY <1>4 DEF ToSet
<1>6. \A k \in DOMAIN x : \E i \in 1 .. Len(ms) : ms[i] = image[k]
  BY <1>4 DEF ToSet
<1> HIDE DEF ms
<1>7. \A i \in 1 .. Len(ms) :
        names[i] \in DOMAIN x /\ vals[i] = ElementToJson(e, x[names[i]])
  BY <1>2, <1>4, <1>5
<1>8. \A k \in DOMAIN x : \E i \in 1 .. Len(ms) : names[i] = k
  BY <1>2, <1>4, <1>6
<1>9. /\ vals \in Seq({vals[i] : i \in 1 .. Len(ms)}) /\ Len(vals) = Len(ms)
      /\ of \in Seq({of[i] : i \in 1 .. Len(ms)}) /\ Len(of) = Len(ms)
      /\ \A i \in 1 .. Len(ms) : of[i] = x[names[i]]
  <2>1. DOMAIN vals = 1 .. Len(ms) /\ vals = [i \in 1 .. Len(ms) |-> vals[i]]
    BY <1>4
  <2>2. DOMAIN of = 1 .. Len(ms) /\ of = [i \in 1 .. Len(ms) |-> of[i]]
    OBVIOUS
  <2>3. \A i \in 1 .. Len(ms) : of[i] = x[names[i]]
    OBVIOUS
  <2> HIDE DEF vals, of, names
  <2> QED BY <1>4, <2>1, <2>2, <2>3
<1> HIDE DEF of, vals, names
<1>10. ParsedPrefix(e, vals).v = of
  <2>1. \A i \in 1 .. Len(of) : OfElement(e, of[i]) /\ vals[i] = ElementToJson(e, of[i])
    <3>1. \A k \in DOMAIN x : OfElement(e, x[k])
      BY <1>1
    <3>2. ASSUME NEW i \in 1 .. Len(of)
          PROVE  OfElement(e, of[i]) /\ vals[i] = ElementToJson(e, of[i])
      <4>1. of[i] = x[names[i]] /\ names[i] \in DOMAIN x /\ vals[i] = ElementToJson(e, x[names[i]])
        BY <1>7, <1>9
      <4> QED BY <3>1, <4>1
    <3> QED BY <3>2
  <2> HIDE DEF e
  <2> QED BY <1>9, <2>1, ListRoundTrip DEF e
<1>11. MapOf(names, of, Len(of)) = x
  <2> DEFINE m == MapOf(names, of, Len(of))
  <2>1. DOMAIN m = {names[i] : i \in 1 .. Len(ms)} /\ m = [k \in DOMAIN m |-> m[k]]
    BY <1>9 DEF MapOf
  <2>2. DOMAIN m = DOMAIN x
    <3>1. DOMAIN m = {names[i] : i \in 1 .. Len(ms)}
      BY <2>1
    <3> HIDE DEF m
    <3>2. \A i \in 1 .. Len(ms) : names[i] \in DOMAIN x
      BY <1>7
    <3>3. DOMAIN x \subseteq {names[i] : i \in 1 .. Len(ms)}
      BY <1>8
    <3>4. {names[i] : i \in 1 .. Len(ms)} \subseteq DOMAIN x
      BY <3>2
    <3> QED BY <3>1, <3>3, <3>4
  <2>3. ASSUME NEW k \in DOMAIN m PROVE m[k] = x[k]
    <3>1. PICK i \in 1 .. Len(of) : names[i] = k /\ m[k] = of[i]
      BY <1>4, <1>9, LastOfName
    <3> HIDE DEF m
    <3> QED BY <1>9, <3>1
  <2> HIDE DEF m
  <2>4. m = x
    BY <1>1, <2>1, <2>2, <2>3
  <2> QED BY <2>4 DEF m
<1>12. JObject(ms).t = "object" /\ JObject(ms).members = ms /\ JObject(ms) # Absent
  BY DEF JObject, Absent
<1>13. ParseMap(e, JObject(ms), v).v = MapOf(names, ParsedPrefix(e, vals).v, Len(ParsedPrefix(e, vals).v))
  BY <1>12 DEF ParseMap, names, vals
<1> QED BY <1>3, <1>10, <1>11, <1>13 DEF e

-----------------------------------------------------------------------------
(* What is written is loaded.                                               *)

\* The members of a Config that are written: but for scalars of the default,
\* if they may be left out.
WrittenFields(v, ignore) ==
  {f \in ToSet(Fields) :
     ~ (TypeOf[f][1] \in Scalar /\ ignore /\ v[f] = ZeroScalar(TypeOf[f][1]))}

\* What is written for a member.
FieldToJson(v, ignore, f) ==
  IF TypeOf[f][1] \in Scalar THEN ScalarToJson(TypeOf[f][1], v[f])
  ELSE IF TypeOf[f][1] = "struct" THEN InnerToJson(v[f], ignore)
  ELSE ContainerToJson(TypeOf[f], v[f])

LEMMA FieldSerialized ==
  ASSUME NEW json, NEW v, NEW ignore, NEW f \in ToSet(Fields)
  PROVE  Serialize(json, TypeOf[f], GetFieldName(f), v[f], ignore) =
           IF f \in WrittenFields(v, ignore)
             THEN Append(json, Member(JsonName[f], FieldToJson(v, ignore, f))) ELSE json
<1>1. CASE TypeOf[f][1] \in Scalar
  <2>1. Serialize(json, TypeOf[f], GetFieldName(f), v[f], ignore)
          = SerializeScalar(json, TypeOf[f][1], GetFieldName(f), v[f], ignore)
    BY <1>1, FieldTypes DEF Serialize
  <2> QED
    BY <1>1, <2>1 DEF SerializeScalar, addJsonMember, GetFieldName, WrittenFields, FieldToJson
<1>2. CASE TypeOf[f][1] = "struct"
  <2>1. TypeOf[f][1] \notin Scalar
    BY <1>2, FieldTypes
  <2>2. Serialize(json, TypeOf[f], GetFieldName(f), v[f], ignore)
          = addJsonMember(json, GetFieldName(f), InnerToJson(v[f], ignore))
    BY <1>2, <2>1 DEF Serialize
  <2> QED BY <1>2, <2>1, <2>2 DEF addJsonMember, GetFieldName, WrittenFields, FieldToJson
<1>3. CASE TypeOf[f][1] \in {"vector", "set", "map"}
  <2>1. TypeOf[f][1] \notin Scalar /\ TypeOf[f][1] # "struct"
    BY <1>3, FieldTypes
  <2>2. Serialize(json, TypeOf[f], GetFieldName(f), v[f], ignore)
          = addJsonMember(json, GetFieldName(f), ContainerToJson(TypeOf[f], v[f]))
    BY <2>1 DEF Serialize
  <2> QED BY <2>1, <2>2 DEF addJsonMember, GetFieldName, WrittenFields, FieldToJson
<1> QED BY <1>1, <1>2, <1>3, FieldTypes

WrittenMembers(v, ignore) ==
  {Member(JsonName[f], FieldToJson(v, ignore, f)) : f \in WrittenFields(v, ignore)}

LEMMA ConfigWritten ==
  ASSUME NEW v, NEW ignore
  PROVE  \E ms : /\ WriteToJson(v, ignore) = JObject(ms)
                 /\ ms \in Seq(ToSet(ms))
                 /\ ToSet(ms) = WrittenMembers(v, ignore)
<1> DEFINE N == Len(Fields)
           what(json, f) == Serialize(json, TypeOf[f], GetFieldName(f), v[f], ignore)
           J == CHOOSE j : j = [n \in 0 .. N |->
                  IF n = 0 THEN <<>> ELSE what(j[n - 1], Fields[n])]
           K == {n \in 1 .. N : Fields[n] \in WrittenFields(v, ignore)}
           item == [n \in 1 .. N |-> Member(JsonName[Fields[n]], FieldToJson(v, ignore, Fields[n]))]
<1>1. WriteToJson(v, ignore) = JObject(J[N])
  BY DEF WriteToJson, JSON_FOR_EACH
<1>2. ASSUME NEW json, NEW n \in 1 .. N
      PROVE  what(json, Fields[n]) = IF n \in K THEN Append(json, item[n]) ELSE json
  <2>1. Fields[n] \in ToSet(Fields)
    BY FieldsAreSeqs
  <2> QED BY <2>1, FieldSerialized
<1>3. N \in Nat
  BY FieldsAreSeqs
<1> HIDE DEF N, what, item, K
<1>4. PICK gathered : Gathers(gathered, N, K, item)
  BY <1>3, GatheringExists
<1>5. ASSUME NEW j
      PROVE  Gathers(j, N, K, item) <=>
               j = [n \in 0 .. N |-> IF n = 0 THEN <<>> ELSE what(j[n - 1], Fields[n])]
  <2>1. \A n \in 0 .. N : n # 0 => n \in 1 .. N
    BY <1>3
  <2>2. \A n \in 0 .. N :
          (IF n = 0 THEN <<>> ELSE what(j[n - 1], Fields[n]))
            = IF n = 0 THEN <<>> ELSE IF n \in K THEN Append(j[n - 1], item[n]) ELSE j[n - 1]
    BY <1>2, <2>1
  <2> QED BY <2>2 DEF Gathers
<1>6. Gathers(J, N, K, item)
  <2>1. \E j : j = [n \in 0 .. N |-> IF n = 0 THEN <<>> ELSE what(j[n - 1], Fields[n])]
    BY <1>4, <1>5
  <2>2. J = [n \in 0 .. N |-> IF n = 0 THEN <<>> ELSE what(J[n - 1], Fields[n])]
    BY <2>1
  <2> HIDE DEF J
  <2> QED BY <1>5, <2>2
<1> HIDE DEF J
<1>7. K \in SUBSET (1 .. N)
  BY DEF K
<1>8. J[N] \in Seq({item[n] : n \in K}) /\ ToSet(J[N]) = {item[n] : n \in K}
  BY <1>3, <1>6, <1>7, GatheredItems
<1>9. {item[n] : n \in K} = WrittenMembers(v, ignore)
  <2>1. \A n \in K : Fields[n] \in WrittenFields(v, ignore) /\ n \in 1 .. N
    BY DEF K
  <2>2. \A f \in WrittenFields(v, ignore) : \E n \in K : Fields[n] = f
    BY FieldsAreSeqs DEF K, WrittenFields, N
  <2>3. \A n \in 1 .. N : item[n] = Member(JsonName[Fields[n]], FieldToJson(v, ignore, Fields[n]))
    BY DEF item
  <2> QED BY <2>1, <2>2, <2>3 DEF WrittenMembers
<1> QED BY <1>1, <1>8, <1>9

LEMMA ConfigLookup ==
  ASSUME NEW v, NEW ignore, NEW f \in ToSet(Fields)
  PROVE  getJsonFiledValue(WriteToJson(v, ignore), GetFieldName(f)) =
           IF f \in WrittenFields(v, ignore) THEN FieldToJson(v, ignore, f) ELSE Absent
<1>1. PICK ms : /\ WriteToJson(v, ignore) = JObject(ms)
                /\ ms \in Seq(ToSet(ms))
                /\ ToSet(ms) = WrittenMembers(v, ignore)
  BY ConfigWritten
<1> DEFINE F == WrittenFields(v, ignore)
           value == [h \in F |-> FieldToJson(v, ignore, h)]
<1>2. F \in SUBSET DOMAIN TypeOf /\ f \in DOMAIN TypeOf
  BY FieldsAreSeqs DEF WrittenFields
<1>3. \A h \in F : value[h] = FieldToJson(v, ignore, h)
  OBVIOUS
<1> HIDE DEF value
<1>4. Lists(ms, F, value)
  BY <1>1, <1>3 DEF Lists, WrittenMembers
<1> HIDE DEF F
<1>5. getJsonFiledValue(JObject(ms), JsonName[f]) = IF f \in F THEN value[f] ELSE Absent
  BY <1>2, <1>4, LookupWritten
<1> QED BY <1>1, <1>3, <1>5 DEF F, GetFieldName

\* A Config parsed from what was written of another.
LEMMA ConfigRoundTrip ==
  ASSUME NEW config, IsConfig(config), NEW ignore, NEW old, NEW f \in ToSet(Fields)
  PROVE  LET new  == PraseFromJson(WriteToJson(config, ignore), old)[f]
             type == TypeOf[f]
         IN  /\ type[1] \in Scalar =>
                  \/ new = config[f]
                  \/ ignore /\ config[f] = ZeroScalar(type[1]) /\ new = old[f]
             /\ type[1] = "struct" => \A g \in ToSet(InnerFields) :
                  \/ new[g] = config[f][g]
                  \/ ignore /\ config[f][g] = ZeroScalar(TypeOf[g][1]) /\ new[g] = old[f][g]
             /\ type[1] \in {"vector", "set", "map"} => new = config[f]
<1> DEFINE json == WriteToJson(config, ignore)
           new  == PraseFromJson(json, old)[f]
           type == TypeOf[f]
           val  == getJsonFiledValue(json, GetFieldName(f))
<1>1. new = Parse(type, json, GetFieldName(f), old[f]).v
  BY DEF PraseFromJson
<1>2. OfType(type, config[f])
  BY DEF IsConfig
<1>3. val = IF f \in WrittenFields(config, ignore) THEN FieldToJson(config, ignore, f) ELSE Absent
  BY ConfigLookup
<1>4. CASE type[1] \in Scalar
  <2>1. new = ParseScalar(type[1], val, old[f]).v
    BY <1>1, <1>4, ParseByKind
  <2>2. type[1] \notin {"struct", "vector", "set", "map"}
    BY <1>4, FieldTypes
  <2>3. OfScalar(type[1], config[f])
    <3>1. OfElement(type[1], config[f])
      BY <1>2, <1>4, <2>2 DEF OfType
    <3> QED BY <2>2, <3>1 DEF OfElement
  <2> HIDE DEF val, new
  <2>4. CASE f \in WrittenFields(config, ignore)
    <3>1. val = ScalarToJson(type[1], config[f])
      BY <1>3, <1>4, <2>4 DEF FieldToJson
    <3>2. new = config[f]
      BY <1>4, <2>1, <2>3, <3>1, ScalarRoundTrip DEF Parsed
    <3> QED BY <1>4, <2>2, <3>2 DEF new
  <2>5. CASE f \notin WrittenFields(config, ignore)
    <3>1. ignore /\ config[f] = ZeroScalar(type[1])
      BY <2>5 DEF WrittenFields
    <3>2. val = Absent
      BY <1>3, <2>5
    <3>3. new = old[f]
      BY <1>4, <2>1, <3>2, ScalarParseOutcome
    <3> QED BY <1>4, <2>2, <3>1, <3>3 DEF new
  <2> QED BY <2>4, <2>5
<1>5. CASE type[1] = "struct"
  <2>1. type[1] \notin Scalar
    BY <1>5, FieldTypes
  <2>2. val = InnerToJson(config[f], ignore)
    BY <1>3, <1>5, <2>1 DEF WrittenFields, FieldToJson
  <2>3. new = ParseStruct(val, old[f]).v
    BY <1>1, <1>5, ParseByKind
  <2>4. OfInner(config[f])
    <3>1. OfElement(type[1], config[f])
      BY <1>2, <1>5 DEF OfType
    <3> QED BY <1>5, <3>1 DEF OfElement
  <2> HIDE DEF val, new
  <2>5. new = InnerFromJson(InnerToJson(config[f], ignore), old[f])
    <3>1. val.t = "object" /\ val # Absent
      <4>1. PICK ms : val = JObject(ms)
        BY <2>2, InnerWritten
      <4> QED BY <4>1 DEF JObject, Absent
    <3> QED BY <2>2, <2>3, <3>1 DEF ParseStruct, Parsed
  <2>6. \A g \in ToSet(InnerFields) :
          \/ new[g] = config[f][g]
          \/ ignore /\ config[f][g] = ZeroScalar(TypeOf[g][1]) /\ new[g] = old[f][g]
    <3> TAKE g \in ToSet(InnerFields)
    <3>1. new[g] = IF g \in WrittenInner(config[f], ignore) THEN config[f][g] ELSE old[f][g]
      BY <2>4, <2>5, InnerRoundTrip
    <3> QED BY <3>1 DEF WrittenInner
  <2> QED BY <1>5, <2>1, <2>6 DEF new
<1>6. CASE type[1] \in {"vector", "set", "map"}
  <2>1. type[1] \notin Scalar /\ type[1] # "struct" /\ type[2] \in Scalar \cup {"struct"}
    BY <1>6, FieldTypes
  <2>2. val = ContainerToJson(type, config[f])
    BY <1>3, <2>1 DEF WrittenFields, FieldToJson
  <2>3. /\ type[1] = "vector" => new = ParseVector(type[2], val, old[f]).v
        /\ type[1] = "set" => new = ParseSet(type[2], val, old[f]).v
        /\ type[1] = "map" => new = ParseMap(type[2], val, old[f]).v
    BY <1>1, ParseByKind
  <2> HIDE DEF val, new
  <2>4. new = config[f]
    <3>1. CASE type[1] = "vector"
      BY <1>2, <2>1, <2>2, <2>3, <3>1, VectorRoundTrip
    <3>2. CASE type[1] = "set"
      BY <1>2, <2>1, <2>2, <2>3, <3>2, SetRoundTrip
    <3>3. CASE type[1] = "map"
      BY <1>2, <2>1, <2>2, <2>3, <3>3, MapRoundTrip
    <3> QED BY <1>6, <3>1, <3>2, <3>3
  <2> QED BY <2>1, <2>4 DEF new
<1> QED BY <1>4, <1>5, <1>6, FieldTypes

LEMMA JsonInvWritten == JsonInv => WrittenIsLoaded
<1> SUFFICES ASSUME JsonInv, Settled, parsed[Get].by = "WriteToJsonFile"
             PROVE  WrittenIsLoaded
  BY DEF WrittenIsLoaded
<1>1. /\ parsed[Get] \in Sources /\ Doc(parsed[Get]) # NoDoc
      /\ obj[Get] = PraseFromJson(Doc(parsed[Get]), prior[Get])
  BY PublishedContents
<1>2. PICK config \in Configs, ignore \in BOOLEAN : parsed[Get] = ByWriter(config, ignore)
  BY <1>1 DEF Sources, NoFile, Empty, ByHand
<1>3. parsed[Get].config = config /\ parsed[Get].ignore_default = ignore
  BY <1>2 DEF ByWriter
<1>4. Doc(parsed[Get]) = WriteToJson(config, ignore)
  <2>1. Doc(parsed[Get]) = WriteToJsonString(config, ignore)
    BY <1>2 DEF Doc, ByWriter
  <2> QED BY <1>1, <2>1 DEF WriteToJsonString
<1>5. IsConfig(config)
  BY DocumentsAssumption
<1> DEFINE written == WriteToJson(config, ignore)
           old == prior[Get]
           new == obj[Get]
<1>6. new = PraseFromJson(written, old)
  BY <1>1, <1>4
<1> HIDE DEF written, old, new
<1>7. ASSUME NEW f \in ToSet(Fields)
      PROVE  /\ TypeOf[f][1] \in Scalar =>
                  \/ new[f] = config[f]
                  \/ ignore /\ config[f] = ZeroScalar(TypeOf[f][1]) /\ new[f] = old[f]
             /\ TypeOf[f][1] = "struct" => \A g \in ToSet(InnerFields) :
                  \/ new[f][g] = config[f][g]
                  \/ ignore /\ config[f][g] = ZeroScalar(TypeOf[g][1]) /\ new[f][g] = old[f][g]
             /\ TypeOf[f][1] \in {"vector", "set", "map"} => new[f] = config[f]
  BY <1>5, <1>6, ConfigRoundTrip DEF written
<1>8. ASSUME NEW f \in ToSet(Fields)
      PROVE  CASE TypeOf[f][1] \in Scalar ->
                    WrittenOrKept(new[f], old[f], config[f], Zero(TypeOf[f]))
               [] TypeOf[f][1] = "struct" ->
                    \A g \in ToSet(InnerFields) :
                      WrittenOrKept(new[f][g], old[f][g], config[f][g], ZeroInner[g])
               [] OTHER -> new[f] = config[f]
  <2>1. TypeOf[f][1] \in Scalar => Zero(TypeOf[f]) = ZeroScalar(TypeOf[f][1])
    BY FieldTypes DEF Zero
  <2>2. \A g \in ToSet(InnerFields) : ZeroInner[g] = ZeroScalar(TypeOf[g][1])
    BY DEF ZeroInner
  <2> QED BY <1>3, <1>7, <2>1, <2>2, FieldTypes DEF WrittenOrKept
<1> QED BY <1>3, <1>8 DEF WrittenIsLoaded, new, old

\* What WriteToJsonFile wrote is what a load publishes, for every configuration
\* of the declared types, whatever the object held before; only scalars at the
\* default of their type, and only in a file without defaults, stay as they were.
THEOREM WritingThenLoading == JsonSpec => []WrittenIsLoaded
BY JsonInvWritten, JsonInvariance, PTL
=============================================================================
