--------------------------- MODULE ReloadableJson ---------------------------
(***************************************************************************)
(* cpp_lib/reloader/reloadable_json.h: Load parses a file into the object  *)
(* that DoubleBuffer::Next() returns.  Since double_confs_ is a            *)
(* DoubleBuffer<std::shared_ptr<T>>, which has one object (SharedPtr), that *)
(* is the object readers have, and it still holds what the last load left  *)
(* in it; of a DoubleBuffer<T> it would be the load before the last.  The  *)
(* file is written by WriteToJsonFile, with or without ignore_default, or  *)
(* by hand; another program starts with the same file, by                  *)
(* ParseFromJsonFile into a new object.                                    *)
(*                                                                         *)
(* The file is described by where its text comes from; Doc is the text.    *)
(* FileReadWithoutComment, which the repository uses and does not define,  *)
(* is taken to return the text, or an empty one if there is no file.       *)
(***************************************************************************)
EXTENDS DoubleBuffer, Json

CONSTANTS
  Configs,       \* the configurations that are written
  HandWritten,   \* the documents that are written by hand
  TooLarge,      \* the size ParseFromJsonFile refuses
  MaxWrites      \* bound of the number of texts

ASSUME DocumentsAssumption ==
  /\ \A config \in Configs : IsConfig(config)
  /\ \A doc \in HandWritten : IsDocument(doc)

VARIABLES
  file,      \* the text on disk
  writes,    \* the number of texts so far
  writing,   \* what WriteToJsonFile is writing, between fopen and fclose
  text,      \* what Load has read and not parsed, or NoFile
  obj,       \* the contents of the two objects
  parsed,    \* the text each object was parsed from last
  prior,     \* and what it held before that
  fsize,     \* the size ParseFromJsonFile has measured, or Unmeasured
  imported   \* the text it parsed last with success, or NoFile

jsonVars == <<file, writes, writing, text, obj, parsed, prior, fsize, imported>>
allVars  == <<vars, jsonVars>>

NoFile  == [by |-> "nobody"]
Empty   == [by |-> "truncation"]
ByHand(doc) == [by |-> "hand", doc |-> doc]
ByWriter(config, ignore_default) ==
  [by |-> "WriteToJsonFile", config |-> config, ignore_default |-> ignore_default]

Doc(source) ==
  CASE source.by = "hand"            -> source.doc
    [] source.by = "WriteToJsonFile" ->
         WriteToJsonString(source.config, source.ignore_default)
    [] OTHER                         -> NoDoc

Unmeasured == -1

\* The length of a text: the number of values in it.
Weight(json) == IF json.t = "array" THEN 1 + Len(json.elems)
                ELSE IF json.t = "object" THEN 1 + Len(json.members) ELSE 1

SizeOf(doc) ==
  IF doc.t # "object" THEN Weight(doc)
  ELSE FoldLeft(LAMBDA n, m : n + Weight(m.value), 0, doc.members)

Size(source) ==
  CASE source.by = "hand"            -> SizeOf(source.doc)
    [] source.by = "WriteToJsonFile" ->
         SizeOf(WriteToJson(source.config, source.ignore_default))
    [] OTHER                         -> 0

JsonInit ==
  /\ Init
  /\ file = NoFile
  /\ writes = 0
  /\ writing = NoFile
  /\ text = NoFile
  /\ obj = [o \in Objects |-> ZeroConfig]
  /\ parsed = [o \in Objects |-> NoFile]
  /\ prior = [o \in Objects |-> ZeroConfig]
  /\ fsize = Unmeasured
  /\ imported = NoFile

-----------------------------------------------------------------------------
(* Those who write the file.                                                *)

\* WriteToJsonFile: fopen with "wb" empties the file.
OpenForWriting ==
  /\ writing = NoFile
  /\ writes < MaxWrites
  /\ writes' = writes + 1
  /\ \E config \in Configs, ignore_default \in BOOLEAN :
       writing' = ByWriter(config, ignore_default)
  /\ file' = Empty
  /\ UNCHANGED <<vars, text, obj, parsed, prior, fsize, imported>>

\* fwrite and fclose.
WriteAndClose ==
  /\ writing # NoFile
  /\ file' = writing
  /\ writing' = NoFile
  /\ UNCHANGED <<vars, writes, text, obj, parsed, prior, fsize, imported>>

\* Somebody overwrites the file with a document of their own.
Replace ==
  /\ writing = NoFile
  /\ writes < MaxWrites
  /\ writes' = writes + 1
  /\ \E doc \in HandWritten : file' = ByHand(doc)
  /\ UNCHANGED <<vars, writing, text, obj, parsed, prior, fsize, imported>>

-----------------------------------------------------------------------------
(* ReloadableJson::Load.                                                    *)

\* The first statement of Load; the text of the last load went with it.
BeginJsonLoad ==
  /\ BeginLoad
  /\ UNCHANGED jsonVars

ReadText ==
  /\ loader = "writing"
  /\ text = NoFile
  /\ text' = IF file = NoFile THEN Empty ELSE file
  /\ UNCHANGED <<vars, file, writes, writing, obj, parsed, prior, fsize, imported>>

\* ParseFromJsonString returns false.
RejectText ==
  /\ FailLoad
  /\ text # NoFile
  /\ ~ ParseFromJsonString(Doc(text), obj[ptr_data]).ok
  /\ text' = NoFile
  /\ UNCHANGED <<file, writes, writing, obj, parsed, prior, fsize, imported>>

\* It returns true, with the members that the text has.
ParseInto(o) ==
  LET r == ParseFromJsonString(Doc(text), obj[o]) IN
  /\ text # NoFile
  /\ r.ok
  /\ obj' = [obj EXCEPT ![o] = r.v]
  /\ parsed' = [parsed EXCEPT ![o] = text]
  /\ prior' = [prior EXCEPT ![o] = obj[o]]
  /\ text' = NoFile
  /\ UNCHANGED <<file, writes, writing, fsize, imported>>

\* ptr_data->Init() accepts what was parsed, or it does not.
AcceptText == EndWriting /\ ParseInto(ptr_data)
InitFails  == FailLoad /\ ParseInto(ptr_data)

PublishJson == Switch /\ UNCHANGED jsonVars

ReadConfig(r) == Read(r) /\ UNCHANGED jsonVars

-----------------------------------------------------------------------------
(* ParseFromJsonFile into a new object.                                     *)

\* fopen, fseek and ftell.  A file of 100 MB is refused.
Measure ==
  /\ fsize = Unmeasured
  /\ IF file = NoFile \/ Size(file) >= TooLarge
       THEN imported' = NoFile /\ UNCHANGED fsize
       ELSE fsize' = Size(file) /\ UNCHANGED imported
  /\ UNCHANGED <<vars, file, writes, writing, text, obj, parsed, prior>>

\* fread of as many bytes, of whatever is in the file now.  The beginning of
\* a longer text does not parse.
Import ==
  /\ fsize # Unmeasured
  /\ imported' = IF Size(file) <= fsize /\ ParseFromJsonString(Doc(file), ZeroConfig).ok
                   THEN file ELSE NoFile
  /\ fsize' = Unmeasured
  /\ UNCHANGED <<vars, file, writes, writing, text, obj, parsed, prior>>

\* The object it parsed into.
Imported == ParseFromJsonString(Doc(imported), ZeroConfig).v

JsonNext ==
  \/ OpenForWriting \/ WriteAndClose \/ Replace
  \/ BeginJsonLoad \/ ReadText \/ RejectText \/ AcceptText \/ InitFails
  \/ PublishJson
  \/ \E r \in Readers : ReadConfig(r)
  \/ Measure \/ Import

JsonSpec == JsonInit /\ [][JsonNext]_allVars
-----------------------------------------------------------------------------
\* There is a configuration to read, and no load is parsing into it.  While
\* one is, the object readers have may be anything between its old and its
\* new contents.
Settled == ready_ /\ loader # "writing"

\* Whether a scalar of the object is what was written, or an old one that
\* the file, for being the default, does not name.
WrittenOrKept(new, old, written, zero) ==
  \/ new = written
  \/ parsed[Get].ignore_default /\ written = zero /\ new = old

\* A load of what WriteToJsonFile wrote publishes what was written, whatever
\* the object held before.  Only a file written with ignore_default does not
\* name what has the default of its type, and Load keeps there what the object
\* held when it began.  That concerns scalars, of Config and of a nested Inner:
\* containers are as written, even empty ones, and so are their elements.
WrittenIsLoaded ==
  Settled /\ parsed[Get].by = "WriteToJsonFile" =>
    \A f \in ToSet(Fields) :
      LET new == obj[Get][f]
          old == prior[Get][f]
          config == parsed[Get].config
          type == TypeOf[f]
      IN  CASE type[1] \in Scalar ->
                 WrittenOrKept(new, old, config[f], Zero(type))
            [] type[1] = "struct" ->
                 \A g \in ToSet(InnerFields) :
                   WrittenOrKept(new[g], old[g], config[f][g], ZeroInner[g])
            [] OTHER -> new = config[f]

\* Whether a JSON value stands for a scalar.
StandsFor(json, type, x) ==
  \/ json = ScalarToJson(type, x)
  \/ type = "double" /\ json = JInt(x)
  \/ type = "uint8_t" /\ json.t = "int" /\ json.n < 0 /\ x = Cut(json.n)

\* Whether the members of a struct are as given in an object, or as before.
InnerGiven(json, new, old) ==
  \A g \in ToSet(InnerFields) :
    \/ new[g] = old[g]
    \/ \E m \in ToSet(json.members) :
         m.name = JsonName[g] /\ StandsFor(m.value, TypeOf[g][1], new[g])

ElementGiven(json, e, x) ==
  IF e = "struct" THEN json.t = "object" /\ InnerGiven(json, x, ZeroInner)
                  ELSE StandsFor(json, e, x)

Given(json, type, new, old) ==
  CASE type[1] \in Scalar -> StandsFor(json, type[1], new)
    [] type[1] = "struct" -> json.t = "object" /\ InnerGiven(json, new, old)
    [] type[1] = "vector" ->
         json.t = "array" /\ \A i \in DOMAIN new :
           i \in DOMAIN json.elems /\ ElementGiven(json.elems[i], type[2], new[i])
    [] type[1] = "set" ->
         json.t = "array" /\ \A x \in new : \E j \in ToSet(json.elems) :
           ElementGiven(j, type[2], x)
    [] type[1] = "map" ->
         json.t = "object" /\ \A k \in DOMAIN new : \E m \in ToSet(json.members) :
           m.name = k /\ ElementGiven(m.value, type[2], new[k])

\* Whatever is written by hand, an object never holds a number, string or bool
\* that is neither in the document, in its place, nor an old one: integers are
\* not cut to their width, and a list that fails in the middle has the values
\* before the failure.  The exception, which json.h:195-205 makes, is a uint8_t
\* for which the document has a negative number: it holds that number cut.
NothingInvented ==
  Settled /\ parsed[Get].by = "hand" =>
    \A f \in ToSet(Fields) :
      \/ obj[Get][f] = prior[Get][f]
      \/ \E m \in ToSet(Doc(parsed[Get]).members) :
           /\ m.name = JsonName[f]
           /\ Given(m.value, TypeOf[f], obj[Get][f], prior[Get][f])

\* A program that starts with a file and one that has reloaded it agree,
\* except where the file, written by hand, has no value of the right type:
\* there the first has a default and the second keeps an old value.
ReloadedOrKept ==
  Settled /\ imported = parsed[Get] =>
    \A f \in ToSet(Fields) :
      LET new == obj[Get][f]
          old == prior[Get][f]
          fresh == Imported[f]
          type == TypeOf[f]
      IN  \/ new = fresh
          \/ type[1] # "struct" /\ fresh = Zero(type) /\ new = old
          \/ /\ type[1] = "struct"
             /\ \A g \in ToSet(InnerFields) :
                  new[g] = fresh[g] \/ (fresh[g] = ZeroInner[g] /\ new[g] = old[g])
=============================================================================
