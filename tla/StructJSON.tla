----------------------------- MODULE StructJSON -----------------------------
(***************************************************************************)
(* Structs as JSON: NewObjectFromStruct, DiffStructs and the part of       *)
(* ApplyPatchToStruct before a struct is filled (object_native.go,         *)
(* patch_typed.go), and what filling a struct must achieve, said of the    *)
(* document as a whole.                                                    *)
(***************************************************************************)
EXTENDS StructFill, PatchTrees

CONSTANTS
  SortedKeys,  \* field names, as sort.Strings orders them
  Unit,        \* what NumberValue gives for the number 1
  Spelling     \* [token -> its characters]

Differ == INSTANCE Diff WITH before <- Void, after <- Void, useSchema <- FALSE,
                             ops <- <<>>, document <- Void, draft <- Void,
                             applied <- 0, status <- ""

-----------------------------------------------------------------------------
(* From Go to JSON.                                                        *)

\* Maps have no order: what an interface holds is a map from keys to values.
RECURSIVE jsonToNative(_)
jsonToNative(value) ==
  CASE value.kind = "object" ->
         [kind |-> "map", entries |-> [k \in KeysOf(nonVoidObjectFields(value.fields)) |->
                                         jsonToNative(GetField(value.fields, k))]]
    [] value.kind = "array" ->
         [kind |-> "list", items |-> [i \in DOMAIN value.items |->
                                        jsonToNative(value.items[i])]]
    [] OTHER -> value

RECURSIVE nativeToJSON(_)
nativeToJSON(native) ==
  CASE native.kind = "map" ->
         LET keys == SelectSeq(SortedKeys, LAMBDA k : k \in DOMAIN native.entries)
         IN  Object([i \in DOMAIN keys |-> Field(keys[i], nativeToJSON(native.entries[keys[i]]))])
    [] native.kind = "list" ->
         Array([i \in DOMAIN native.items |-> nativeToJSON(native.items[i])])
    [] OTHER -> native

IsEmpty(value) ==
  CASE value.kind = "object" -> value.fields = <<>>
    [] value.kind = "array"  -> value.items = <<>>
    [] OTHER -> value \in {Void, Null, Str(""), Num("0"), Scalar("boolean", "false")}

RECURSIVE reflectNativeToJSON(_, _, _)

\* Mutant: omitempty is not looked at.
structToJSONKeepsEmpty(m, at, type) ==
  LET fields  == GoType[type].fields
      Value(i) == IF Skipped(fields[i]) THEN Void
                  ELSE reflectNativeToJSON(m, Part(at, i), fields[i].type)
  IN  Object(nonVoidObjectFields(
        [i \in DOMAIN fields |-> Field(FieldName(fields[i]), Value(i))]))

structToJSON(m, at, type) ==
  LET fields == GoType[type].fields
      All(i) == reflectNativeToJSON(m, Part(at, i), fields[i].type)
      Value(i, all) == IF fields[i].omitempty /\ IsEmpty(all) THEN Void ELSE all
  IN  Object(nonVoidObjectFields(
        [i \in DOMAIN fields |->
           Field(FieldName(fields[i]), IF Skipped(fields[i]) THEN Void ELSE Value(i, All(i)))]))

reflectNativeToJSON(m, at, name) ==
  LET type  == GoType[name]
      value == Read(m, at)
  IN  CASE type.kind = "struct" -> structToJSON(m, at, name)
        [] type.kind = "pointer" ->
             IF value = Zero THEN Null
             ELSE reflectNativeToJSON(m, Cell(value.cell), type.elem)
        [] type.kind = "slice" ->
             IF value = Zero THEN Null
             ELSE Array([i \in 1..value.len |->
                    reflectNativeToJSON(m, Part(Cell(value.cell), i), type.elem)])
        [] type.kind = "int" -> Num(ToString(IF value = Zero THEN 0 ELSE value.int))
        [] type.kind = "boolean" ->
             IF value = Zero THEN Scalar("boolean", "false") ELSE value
        [] type.kind \in {"string", "text"} -> IF value = Zero THEN Str("") ELSE value
        [] type.kind = "interface" ->
             IF value = Zero THEN Null ELSE nativeToJSON(jsonToNative(value.json))
        [] OTHER -> Null  \* a map nobody made

NewObjectFromStructTry(m, v) == structToJSON(m, Cell(v), StructType)

DiffStructs(m, v, w) ==
  Differ!diffOps(NewObjectFromStructTry(m, v), NewObjectFromStructTry(m, w))

\* What ApplyPatchToStruct fills the new struct from; Invalid, and the call
\* fails, if the patch does not apply.
PatchedDocument(m, v, patch) ==
  FoldLeft(LAMBDA doc, op : IF doc = Invalid THEN Invalid
                            ELSE SpecOp(doc, Differ!Resolved(op)),
           NewObjectFromStructTry(m, v), patch)

-----------------------------------------------------------------------------
(* What filling must achieve.                                              *)

\* Can a value stand in a place of this type?
RECURSIVE Fits(_, _)
Fits(source, name) ==
  LET type == GoType[name] IN
  CASE type.kind = "pointer" -> source = Null \/ Fits(source, type.elem)
    [] type.kind = "slice" ->
         \/ source = Null
         \/ source.kind = "array"
            /\ \A i \in DOMAIN source.items : Fits(source.items[i], type.elem)
    [] type.kind = "struct" ->
         source.kind = "object" /\
         \A i \in DOMAIN type.fields :
           LET value == SourceFor(source, type.fields[i])
           IN  IsVoid(value) \/ Fits(value, type.fields[i].type)
    [] type.kind = "int" ->
         source.kind = "number" /\ Parsed(source.text) /\
         \E n \in type.range.min .. type.range.max :
           n * Unit = NumberValue[source.text]
    [] type.kind = "text" -> ~IsContainer(source) /\ source.text \in type.texts
    [] type.kind = "interface" -> TRUE
    [] OTHER -> source.kind = type.kind

\* Does a place hold what the document says, and what it held before (in the
\* memory `old`, at `was`) where the document says nothing?
RECURSIVE Agrees(_, _, _, _, _, _)
Agrees(m, at, old, was, name, source) ==
  LET type    == GoType[name]
      value   == Read(m, at)
      before  == Read(old, was)
      Nowhere == Cell(Len(cells) + 1)
  IN  CASE type.kind = "struct" ->
             \A i \in DOMAIN type.fields :
               LET f     == type.fields[i]
                   field == SourceFor(source, f)
               IN  IF IsVoid(field)
                     THEN reflectNativeToJSON(m, Part(at, i), f.type)
                            = reflectNativeToJSON(old, Part(was, i), f.type)
                     ELSE Agrees(m, Part(at, i), old, Part(was, i), f.type, field)
        [] type.kind = "pointer" ->
             IF source = Null THEN value = Zero
             ELSE /\ value.kind = "pointer"
                  /\ Agrees(m, Cell(value.cell), old,
                            IF before = Zero THEN Nowhere ELSE Cell(before.cell),
                            type.elem, source)
        [] type.kind = "slice" ->
             IF source = Null THEN value = Zero
             ELSE /\ value.kind = "slice" /\ value.len = Len(source.items)
                  /\ \A i \in DOMAIN source.items :
                       Agrees(m, Part(Cell(value.cell), i), old, Nowhere,
                              type.elem, source.items[i])
        [] OTHER ->
             LET json == reflectNativeToJSON(m, at, name)
             IN  IF type.kind = "text" THEN json = Str(source.text)
                 ELSE valuesEqual(json, source)

\* After a call that succeeded the struct holds what the document says, and the
\* rest of it, behind pointers too, is as it was.  After one that failed, the
\* fields before the first one that does not fit do, and the fields after it
\* are as they were: nobody finds a field set past the error.
FilledInOrder ==
  LET fields   == GoType[StructType].fields
      Source(i) == SourceFor(call.source, fields[i])
      Filled(i) == Mentions(call.source, i) =>
        /\ Fits(Source(i), fields[i].type)
        /\ Agrees(mem, Part(Cell(call.target), i), call.before,
                  Part(Cell(call.target), i), fields[i].type, Source(i))
      Untouched(i) == \A a \in DOMAIN mem \cup DOMAIN call.before :
        a.cell = call.target /\ a.path # <<>> /\ a.path[1] = i =>
          Read(mem, a) = Read(call.before, a)
  IN  /\ call.status = "filled" => \A i \in DOMAIN fields : Filled(i)
      /\ call.status = "failed" /\ call.source.kind = "object" =>
           \E k \in DOMAIN fields :
             /\ Mentions(call.source, k) /\ ~Fits(Source(k), fields[k].type)
             /\ \A i \in 1..k - 1 : Filled(i)
             /\ \A i \in k + 1..Len(fields) : Untouched(i)

\* The patch between two structs leads from the one to the other: it applies,
\* the result can be read back into a struct, and written it is the other one.
TypedPatchRoundTrip ==
  call.like # 0 =>
    /\ call.status # "failed"
    /\ call.status = "filled" =>
         valuesEqual(structToJSON(mem, Cell(call.target), StructType),
                     NewObjectFromStructTry(mem, call.like))
=============================================================================
