-------------------------- MODULE MCReloadableJson --------------------------
(* Bounded instances of ReloadableJson: a Config with a member of every kind, *)
(* one of them renamed, values at the ends of their types, and documents with *)
(* members that are missing, of another type, out of range, given twice, or   *)
(* unknown.                                                                   *)
EXTENDS ReloadableJson, TLC

MCFields == <<"level", "ratio", "limits", "tags", "routes", "inner">>
MCInnerFields == <<"on", "count", "port">>

MCTypeOf ==
  "level" :> <<"int8_t">> @@ "ratio" :> <<"double">>
    @@ "limits" :> <<"vector", "uint8_t">> @@ "tags" :> <<"set", "string">>
    @@ "routes" :> <<"map", "struct">>
    @@ "inner" :> <<"struct">>
    @@ "on" :> <<"bool">> @@ "count" :> <<"uint64_t">>
    @@ "port" :> <<"uint16_t">>

MCJsonName == [f \in DOMAIN MCTypeOf |-> IF f = "level" THEN "log-level" ELSE f]

MCBits ==
  "int64_t" :> 5 @@ "uint64_t" :> 5 @@ "int8_t" :> 2 @@ "uint16_t" :> 3
    @@ "uint8_t" :> 2

Of(level, ratio, limits, tags, routes, on, count) ==
  [level |-> level, ratio |-> ratio, limits |-> limits, tags |-> tags,
   routes |-> routes,
   inner |-> [on |-> on, count |-> count, port |-> count % 8]]

Off == [on |-> FALSE, count |-> 0, port |-> 0]
Low == [on |-> TRUE, count |-> 0, port |-> 7]

MCConfigs ==
  {Of(-2, 0, <<3, 0>>, {"x", "y"}, "a" :> Low @@ "b" :> Off, TRUE, 31),
   Of(0, 1, <<>>, {}, "b" :> Low, FALSE, 1),
   Of(1, NaN, <<1>>, {"x"}, <<>>, TRUE, 0)}

MCHandWritten ==
  {JObject(<<>>),
   JArray(<<>>),
   JObject(<<Member("log-level", JInt(2)), Member("ratio", JInt(1)),
             Member("limits", JArray(<<JInt(2), JInt(4), JInt(1)>>)),
             Member("tags", JArray(<<JString("x"), JBool(TRUE), JString("z")>>)),
             Member("inner", JObject(<<Member("on", JBool(TRUE))>>))>>),
   JObject(<<Member("log-level", JInt(1)), Member("log-level", JInt(0)),
             Member("level", JInt(-1)), Member("ratio", JString("1")),
             Member("limits", JArray(<<JInt(3), JInt(-1), JInt(-6)>>)),
             Member("routes", JObject(<<Member("c", JObject(<<Member("count", JDouble(1))>>)),
                                        Member("c", JObject(<<>>)),
                                        Member("d", JArray(<<>>))>>)),
             Member("inner", JObject(<<Member("count", JInt(-1)),
                                       Member("port", JInt(8))>>))>>)}

Symmetry == Permutations(Readers)
=============================================================================
